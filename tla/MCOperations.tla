---------------------------- MODULE MCOperations ----------------------------
(****************************************************************************)
(* Operations for TLC: an instance of each part, and the fairness of each.  *)
(****************************************************************************)
EXTENDS Operations

Entry(k, n, m) == [key |-> k, name |-> n, content |-> 1, muted |-> m]

MCSeeds == {<<Entry("k1", "n1", FALSE), Entry("k2", "n2", TRUE)>>}

MCRunners   == <<"act", "github">>
MCWorkflows == <<"router", "forge">>

MCStreamOf  == [i1 |-> "a", i2 |-> "unplaced"]
MCDefaultOf == [i1 |-> "P1", i2 |-> "P2"]
MCParentOf  == [i1 |-> "none", i2 |-> "i1"]

\* Versions 3 and 4 are bad: the spoke may not apply the configuration of the first,
\* whose pods crash, too; the other does not render.
MCVersions == 1..4
MCRefused  == {<<"configmaps", 3>>}
MCFiles    == <<"deployments", "configmaps">>
MCLayer    == <<"crds", "controller">>

MCNodes    == <<"rpi4", "vps">>
MCHostname == [vps |-> "kubelab-vps"]

MCTokens  == <<"cloudflare", "github">>
MCEnvs    == <<"common", "prod">>
MCTickets == <<"t1">>

MCMaxEdits  == [p \in Parts |-> IF p \in {"import", "board"} THEN 1 ELSE 2]
MCMaxFaults == [p \in Parts |-> IF p \in {"machine", "switch", "drill", "reclaim", "import"} THEN 2 ELSE 1]
MCNoFaults  == [p \in Parts |-> 0]

\* The fairness of each part, as its module states it.  A behaviour stays with its
\* part: a condition on a disjunction of steps of different parts is one on each.
Fairness ==
    /\ WF_vars(\/ Step("access", Access!GoOn("o1") /\ UNCHANGED faults)
               \/ Step("monitors", Monitors!Work)
               \/ Step("machine", Machine!GoesOn)
               \/ Step("switch", Switch!Works)
               \/ Step("import", Import!Begin \/ Import!Goes)
               \/ Step("vikunja", Vikunja!Begin \/ Vikunja!Goes)
               \/ Step("board", Governed!Reading)
               \/ Step("deploy", Deployment!Works))
    /\ WF_vars(\/ Step("access", Access!Binds("p1"))
               \/ Step("monitors", \E i \in going : Monitors!Vanish(i))
               \/ Step("machine", Machine!Resize(1))
               \/ Step("switch", Switch!PollEnds \/ Switch!Detached)
               \/ Step("board", Governed!Writing)
               \/ Step("deploy", Deployment!PodsStart))
    /\ WF_vars(\/ Step("access", Access!Binds("p2"))
               \/ Step("switch", Switch!Repair)
               \/ Step("board", Governed!List("i1"))
               \/ Step("deploy", Deployment!Sync))
    /\ WF_vars(\/ Step("access", Access!Binds("p3"))
               \/ Step("switch", Switch!Notify)
               \/ Step("board", Governed!List("i2")))
    /\ WF_vars(\/ Step("access", Access!Exits("p1") /\ UNCHANGED faults)
               \/ Step("switch", Switch!Deliver("budget")))
    /\ WF_vars(\/ Step("access", Access!Exits("p2") /\ UNCHANGED faults)
               \/ Step("switch", Switch!Deliver("proof")))
    /\ WF_vars(Step("access", Access!Exits("p3") /\ UNCHANGED faults))
    /\ SF_vars(\/ Step("access", Access!Fetch("o1"))
               \/ Step("machine", Machine!Runs)
               \/ Step("board", Governed!Start("streams")))
    /\ SF_vars(Step("machine", Machine!Recycle) \/ Step("board", Governed!Start("priority")))
    /\ SF_vars(Step("machine", Machine!ByHand) \/ Step("board", Governed!Start("parts")))
    /\ SF_vars(Step("machine", Machine!Repoint))

FairSpec == Spec /\ Fairness

OperationsConverge == <>[]Settled

\* A reclaim leaves no runner stopped behind it unless it says so (infra.py, node_reclaim).
RunnersReturn == Reclaim!RunnersReturn

\* "Refuses to overwrite silently" (cli/backup.py, generate-password): a password of the
\* backups that is in force is put out of it by force only.
NeverSilently == replaced \subseteq {"force"}
=============================================================================
