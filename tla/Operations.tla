------------------------------ MODULE Operations ------------------------------
(****************************************************************************)
(* The operator's commands that have nothing in common but the way they can *)
(* go wrong: an initial state picks one of them, the part, and only that    *)
(* one takes steps, since none writes what another one reads.  The          *)
(* variables pc, said, at, ok, edits and faults are those of the part.      *)
(****************************************************************************)
EXTENDS Integers, Sequences

CONSTANTS
    Operators, Pids, Ephemeral, Overlap, MaxRebuilds,       \* of the access to a cluster,
    Keys, Titles, Seeds, ReuseNames,                        \* of the monitors,
    MaxBuilds,                                              \* of the hub's machine,
    MaxProofs,                                              \* of the kill switch,
    Hasty, MaxDrills,                                       \* of the drill,
    Runners, Jobs, DaemonFails,                             \* of the reclaim,
    Workflows,                                              \* of the import,
    Namespaces, Labels, Lists,                              \* of Vikunja,
    Issues, StreamOf, DefaultOf, ParentOf,                  \* of the board,
    Stays, Parked, SweepTo, BatchSize,
    Versions, Refused, Broken, Crashing, Floating,          \* of the deployment,
    Files, Layer, Optional, Preview,
    Nodes, Hostname, Smoke,                                 \* of the backups,
    Logins,                                                 \* of the sign-on,
    Tokens, Envs, Divergent, ApiKeys, Tickets,              \* of the expiry,
    None, MaxEdits, MaxFaults                               \* and of several: the bounds of each part

VARIABLES
    part, pc, said, at, ok, edits, faults,
    onMesh, proc, port, bound, statefile, machine, known, kubeconfig, opc, mine, text, osaid,
    seed, live, going, nextId, admin, notifier, backup, sync,
    size, vm, joined, builds, nodes, route, old, recycling,
    target, billed, spent, queue, fired, proofs,
    claim, evidence, alert, cause, drill,
    running, job, builders, volumes, oldBuilders, seen, doomed,
    source, db, loaded, read, tries, brought,
    copies, projects, listed, todo, missed,
    board, command,
    declared, overlay, master, revision, synced, selfHeal, inCluster, forced, installed, pods, pushed, cached, rollout,
    rights, objects, repos, repoKey, replaced, check, paged,
    secret, hash, inGit, authelia, gitea, web, restart, warned, superadmin, password, grafana, signing,
    stored, left, apiKeys, tickets, named, asking

Parts == {"access", "monitors", "machine", "switch", "drill", "reclaim", "import", "vikunja", "board",
          "deploy", "backup", "sign-on", "expiry"}

Access == INSTANCE ClusterAccess WITH
    MaxFaults <- MaxFaults["access"], pc <- opc, said <- osaid

Monitors == INSTANCE MonitorSync WITH
    Names <- Titles, MaxEdits <- MaxEdits["monitors"], MaxFaults <- MaxFaults["monitors"], plan <- sync

Machine == INSTANCE HubMachine WITH MaxFaults <- MaxFaults["machine"], plan <- recycling

Switch == INSTANCE KillSwitch WITH MaxFaults <- MaxFaults["switch"]

Drill == INSTANCE PvcDrill WITH MaxFaults <- MaxFaults["drill"]

Reclaim == INSTANCE DockerReclaim WITH MaxFaults <- MaxFaults["reclaim"], old <- oldBuilders

Import == INSTANCE N8nImport WITH
    MaxEdits <- MaxEdits["import"], MaxFaults <- MaxFaults["import"], live <- loaded

Vikunja == INSTANCE VikunjaReconcile WITH
    Projects <- Lists, MaxEdits <- MaxEdits["vikunja"], MaxFaults <- MaxFaults["vikunja"]

Governed == INSTANCE Board WITH
    MaxEdits <- MaxEdits["board"], MaxFaults <- MaxFaults["board"], job <- command

Deployment == INSTANCE ClusterDeploy WITH
    Entries <- Layer, MaxEdits <- MaxEdits["deploy"], MaxFaults <- MaxFaults["deploy"],
    target <- revision, live <- inCluster, job <- rollout, report <- said

Destination == INSTANCE BackupDestination WITH
    Probe <- Smoke, MaxEdits <- MaxEdits["backup"], MaxFaults <- MaxFaults["backup"],
    can <- rights, secret <- repoKey, job <- check, report <- said

Single == INSTANCE SignOn WITH
    MaxEdits <- MaxEdits["sign-on"], MaxFaults <- MaxFaults["sign-on"],
    overlay <- inGit, source <- gitea, admin <- grafana, job <- signing, report <- said

Expiring == INSTANCE CredentialExpiry WITH
    Distinct <- Divergent, MaxEdits <- MaxEdits["expiry"], MaxFaults <- MaxFaults["expiry"],
    keys <- apiKeys, job <- asking, report <- said

\* A pid is no None, nor is a key.
ASSUME AccessAssumption == None \notin Pids

\* The seed has one entry of each key and name (test_monitoring_seed.py).
ASSUME MonitorsAssumption ==
    /\ None \notin Keys
    /\ \A s \in Seeds : s \in Seq(Monitors!Entries) /\ Monitors!Distinct(s)

ASSUME BoundsAssumption == MaxBuilds \in Nat /\ MaxProofs \in Nat /\ MaxDrills \in Nat \ {0}

ASSUME EditsAssumption == MaxEdits["backup"] \in Nat /\ MaxEdits["sign-on"] \in Nat

\* A job has a runner, no runner, or is over.
ASSUME ReclaimAssumption ==
    /\ Runners \in Seq(Reclaim!RunnerSet) /\ Runners # <<>>
    /\ {None, "over"} \cap Reclaim!RunnerSet = {} /\ None # "over"

\* A catalogue names each workflow once.
ASSUME ImportAssumption ==
    /\ Workflows \in Seq(Import!Names) /\ Workflows # <<>>
    /\ \A i, j \in DOMAIN Workflows : Workflows[i] = Workflows[j] => i = j

\* The registry gives the issues values that the board has.
ASSUME BoardAssumption ==
    /\ StreamOf \in [Issues -> {"unplaced", "a", "b"}] /\ DefaultOf \in [Issues -> {"P1", "P2"}]
    /\ ParentOf \in [Issues -> Issues \cup {"none"}] /\ "none" \notin Issues
    /\ Stays \subseteq Issues /\ Parked \subseteq Issues /\ SweepTo \in {"none", "P1", "P2"}

\* What the cluster has at first is what the spoke may apply.
ASSUME DeployAssumption ==
    /\ {1, Preview} \subseteq Versions /\ Versions \subseteq Nat
    /\ Files \in Seq(Deployment!FileSet) /\ Files # <<>> /\ Layer \in Seq({Layer[i] : i \in DOMAIN Layer})
    /\ \A f \in Deployment!FileSet : <<f, 1>> \notin Refused

\* No node has the repository of the probe.
ASSUME BackupAssumption ==
    /\ Nodes \in Seq(Destination!NodeSet)
    /\ \A n \in Destination!NodeSet : Destination!WrittenTo(n) # Smoke

ASSUME ExpiryAssumption ==
    /\ Tokens \in Seq(Expiring!TokenSet) /\ Envs \in Seq(Expiring!EnvSet)
    /\ "headscale" \notin Expiring!TokenSet /\ "unknown" \notin Expiring!TicketSet

accessVars  == <<onMesh, proc, port, bound, statefile, machine, known, kubeconfig, opc, mine, text, osaid>>
monitorVars == <<seed, live, going, nextId, admin, notifier, backup, sync>>
machineVars == <<size, vm, joined, builds, nodes, route, recycling, old>>
switchVars  == <<target, billed, spent, queue, fired, proofs>>
drillVars   == <<claim, evidence, alert, cause, drill>>
reclaimVars == <<running, job, builders, volumes, oldBuilders, seen, doomed>>
importVars  == <<source, db, loaded, read, tries, brought>>
vikunjaVars == <<copies, projects, listed, todo, missed>>
boardVars   == <<board, command>>
deployVars  == <<declared, overlay, master, revision, synced, selfHeal, inCluster, forced, installed, pods,
                 pushed, cached, rollout>>
backupVars  == <<rights, objects, repos, repoKey, replaced, check, paged>>
signOnVars  == <<secret, hash, inGit, authelia, gitea, web, restart, warned, superadmin, password, grafana, signing>>
expiryVars  == <<stored, left, apiKeys, tickets, named, asking>>

vars == <<part, pc, said, at, ok, edits, faults, accessVars, monitorVars, machineVars, switchVars,
          drillVars, reclaimVars, importVars, vikunjaVars, boardVars, deployVars, backupVars, signOnVars, expiryVars>>

\* The other parts are at rest in one of their initial states.
Init ==
    /\ part \in Parts
    /\ pc = "idle" /\ said = "nothing" /\ at = 1 /\ ok = TRUE /\ edits = 0 /\ faults = 0
    /\ Access!Init /\ (part = "access" \/ (onMesh /\ known = 0 /\ kubeconfig = 0))
    /\ Monitors!Init /\ (part = "monitors" \/ (live = {} /\ notifier))
    /\ Machine!Init /\ (part = "machine" \/ route = 0)
    /\ Switch!Init
    /\ Drill!Init /\ (part = "drill" \/ claim = 0)
    /\ Reclaim!Init
    /\ Import!Init /\ (part = "import" \/ db = [n \in Import!Names |-> Import!Absent])
    /\ Vikunja!Init /\ (part = "vikunja" \/ (projects = {} /\ copies = [i \in Vikunja!Items |-> 0]))
    /\ Governed!Init /\ (part = "board" \/ \A i \in DOMAIN board : board[i].listed /\ board[i].priority = "none")
    /\ Deployment!Init /\ (part = "deploy" \/ selfHeal)
    /\ Destination!Init /\ (part = "backup" \/ (rights = Destination!Rights /\ repoKey = [f \in Destination!SopsFiles |-> 0]))
    /\ Single!Init /\ (part = "sign-on" \/ (hash = 0 /\ inGit = 0 /\ gitea = 0 /\ superadmin = (CHOOSE l \in Logins : TRUE)
                                            /\ grafana = [login |-> "admin", password |-> 0]))
    /\ Expiring!Init /\ (part = "expiry" \/ (/\ apiKeys = [k \in ApiKeys |-> "long"]
                                             /\ \A c \in Expiring!TokenSet : left[c][1] = "long"
                                             /\ stored = [e \in Expiring!EnvSet |-> [c \in Expiring!TokenSet |-> 0]]))

\* A step of the part is one of the whole that leaves the other parts alone.
StillBut(p) ==
    /\ UNCHANGED part
    /\ p # "access" => UNCHANGED accessVars
    /\ p # "monitors" => UNCHANGED monitorVars
    /\ p # "machine" => UNCHANGED machineVars
    /\ p # "switch" => UNCHANGED switchVars
    /\ p # "drill" => UNCHANGED drillVars
    /\ p # "reclaim" => UNCHANGED reclaimVars
    /\ p # "import" => UNCHANGED importVars
    /\ p # "vikunja" => UNCHANGED vikunjaVars
    /\ p # "board" => UNCHANGED boardVars
    /\ p # "deploy" => UNCHANGED deployVars
    /\ p # "backup" => UNCHANGED backupVars
    /\ p # "sign-on" => UNCHANGED signOnVars
    /\ p # "expiry" => UNCHANGED expiryVars
    /\ p \in {"access", "board", "deploy", "backup", "sign-on", "expiry"} => UNCHANGED pc
    /\ p \notin {"switch", "drill", "reclaim", "import", "deploy", "backup", "sign-on", "expiry"} => UNCHANGED said
    /\ p \notin {"reclaim", "import"} => UNCHANGED <<at, ok>>
    /\ p \in {"access", "machine", "switch", "drill", "reclaim"} => UNCHANGED edits

Step(p, A) == part = p /\ A /\ StillBut(p)

Next ==
    \/ Step("access", Access!Next)
    \/ Step("monitors", Monitors!Next)
    \/ Step("machine", Machine!Next)
    \/ Step("switch", Switch!Next)
    \/ Step("drill", Drill!Next)
    \/ Step("reclaim", Reclaim!Next)
    \/ Step("import", Import!Next)
    \/ Step("vikunja", Vikunja!Next)
    \/ Step("board", Governed!Next)
    \/ Step("deploy", Deployment!Next)
    \/ Step("backup", Destination!Next)
    \/ Step("sign-on", Single!Next)
    \/ Step("expiry", Expiring!Next)

Spec == Init /\ [][Next]_vars

-----------------------------------------------------------------------------
TypeOK ==
    /\ part = "access"   => Access!TypeOK
    /\ part = "monitors" => Monitors!TypeOK
    /\ part = "machine"  => Machine!TypeOK
    /\ part = "switch"   => Switch!TypeOK
    /\ part = "drill"    => Drill!TypeOK
    /\ part = "reclaim"  => Reclaim!TypeOK
    /\ part = "import"   => Import!TypeOK
    /\ part = "vikunja"  => Vikunja!TypeOK
    /\ part = "board"    => Governed!TypeOK
    /\ part = "deploy"   => Deployment!TypeOK
    /\ part = "backup"   => Destination!TypeOK
    /\ part = "sign-on"  => Single!TypeOK
    /\ part = "expiry"   => Expiring!TypeOK

\* A command that changes something for the time it runs has put it back when it
\* is over, however it failed: no bridge without an owner (k8s_connect.py), no
\* claim of a drill (pvc_drill.py), no stopped runner (infra.py, node_reclaim),
\* no kill switch pointed elsewhere (gcp_killswitch_proof.py); and no Gitea that
\* still runs with the client secret it had before (configure_oidc.py).
NothingLeftBehind ==
    /\ Access!NoOrphan /\ Drill!NoResidue /\ Reclaim!RunnersReturn /\ Switch!SwitchIsAimed
    /\ Single!StaleIsKnown

\* What a command reports is so, for as long as it stands: a disconnect that reports
\* the transport down (k8s_connect.py), a drill whose alert its claim caused
\* (pvc_drill.py), workflows that are live (n8n_import.py), an issue that was open when
\* it was set In Progress (board_set.py), and a cluster with nothing that Argo CD would
\* be refused (infra.py); or in the step in which it is reported: of a deploy, a restart
\* and a drift check (infra.py), of a destination, a coverage and a health of backups
\* (backup_destination.py), of a sign-on (configure_oidc.py, grafana_admin_identity.py),
\* and of credentials that do not expire soon (cli/secrets.py).
ReportsAreTrue ==
    /\ [](/\ Access!DownIsDown /\ Drill!FiredIsCaused /\ Import!ImportedIsLive
          /\ Governed!ReportIsTrue /\ Deployment!NothingSmuggled)
    /\ [][/\ part = "deploy" => Deployment!ReportHolds
          /\ part = "backup" => Destination!VerdictHolds
          /\ part = "sign-on" => Single!SignOnHolds
          /\ part = "expiry" => Expiring!FineIsSo]_vars

\* However often a synchronisation runs, fails and is run again, it makes nothing
\* twice: one monitor per key (monitoring.py), one namespace, label and webhook of
\* each name unless an answer of Vikunja leaves it out (vikunja_reconciler.py).
OneOfEachKept == Monitors!OneMonitorPerKey /\ Vikunja!OneOfEach

\* What is alive and somebody else's is not taken: the snapshots of the nodes
\* (cli/backup.py) and the tickets that nobody named (secret_expiry.py); the history of
\* a monitor whose key the seed still has (monitoring_diff.py), the name of the machine
\* that runs (headscale_nodes.py), the builder of a job (docker_reclaim.py), the priority
\* and the parent that people gave an issue (board_priority.py, board_streams.py), and
\* the hash that Authelia runs with (sync_oidc_hashes.py).
OthersSpared ==
    /\ [](Destination!NoLockout /\ Expiring!TicketsStay)
    /\ [][/\ Monitors!HistoryFollowsKey /\ Machine!LivingKept /\ Reclaim!BusyAreSpared
          /\ Governed!BoardKept /\ Single!HashStays]_vars

\* When the faults are over, the command that is run again gets where it leads:
\* the kubeconfig of the machine there is (k8s_kubeconfig.py), the monitors of
\* the seed (monitoring.py), the route to the hub (k8s_render.py), a hub that is
\* capped (function/main.py), the workflows of git (n8n_import.py), the items of
\* the declaration (vikunja_reconciler.py), the fields and parents that the
\* registry asks for (cli/board.py), what master says (Argo CD, infra.py).
Settled ==
    CASE part = "access"   -> Access!Recovered
      [] part = "monitors" -> Monitors!Seeded
      [] part = "machine"  -> Machine!Routed
      [] part = "switch"   -> Switch!Capped
      [] part = "import"   -> Import!Served
      [] part = "vikunja"  -> Vikunja!Complete
      [] part = "board"    -> Governed!Governed
      [] part = "deploy"   -> Deployment!Heals
      [] OTHER -> TRUE
=============================================================================
