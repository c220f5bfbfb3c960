-------------------------- MODULE BackupDestination --------------------------
(****************************************************************************)
(* The offsite destination of the backups, asked from a workstation: the    *)
(* probe of the bucket (reach it, write, read back, delete), the coverage   *)
(* (a snapshot of every declared node), the check of the health that makes  *)
(* both and notifies, the life of a probe repository, and the password.     *)
(****************************************************************************)
EXTENDS Integers, Sequences

CONSTANTS Nodes,      \* those of backup.sources, in their order,
          Hostname,   \* the name in the inventory of each that has one,
          Probe,      \* the repository that verify-restic makes up
          MaxEdits, MaxFaults

VARIABLES can,        \* what the token may do in the bucket: "list", "write", "read", "delete"
          objects,    \* the probe objects in the bucket
          repos,      \* the password of each repository, or 0, and whether it has a snapshot
          secret,     \* the password in each of two SOPS files, or 0,
          replaced,   \* and how one that was in force was put out of it
          job,        \* the command that runs
          report,     \* what the last one reported
          paged,      \* the severity of the last notification that arrived
          edits, faults

bucket == <<can, objects, repos>>
vars   == <<bucket, secret, replaced, job, report, paged, edits, faults>>

\* A mutant: the name of the node itself.
PlainName(n) == n

\* The playbook names a node's repository after its hostname in the inventory.
RepositoryName(n) == IF n \in DOMAIN Hostname THEN Hostname[n] ELSE n
WrittenTo(n)      == IF n \in DOMAIN Hostname THEN Hostname[n] ELSE n

NodeSet == {Nodes[i] : i \in DOMAIN Nodes}
SopsFiles == {"common", "env"}

Repos   == {WrittenTo(n) : n \in NodeSet} \cup NodeSet \cup {Probe}
Empty   == [key |-> 0, saved |-> FALSE]

Idle == [pc |-> "idle", what |-> "none", at |-> 1, probe |-> 0, key |-> 0,
         dest |-> TRUE, ok |-> TRUE, was |-> 0, fine |-> FALSE, hurt |-> FALSE]

\* The commands read the two merged; a node's playbook reads the common one alone.
InForce == IF secret["env"] # 0 THEN secret["env"] ELSE secret["common"]

\* The newest snapshot of a repository is read with one password.
Covers(r, key)   == repos[r].key = key /\ repos[r].saved
AllCovered(key)  == key # 0 /\ \A n \in NodeSet : Covers(WrittenTo(n), key)
Rights           == {"list", "write", "read", "delete"}
Usable           == can = Rights

Init ==
    /\ can \in {Rights \ {r} : r \in Rights} \cup {Rights}
    /\ objects = {}
    /\ secret \in [SopsFiles -> {0, 1}] /\ secret["env"] = 0
    /\ replaced = {}
    /\ repos \in [Repos -> {Empty, [key |-> InForce, saved |-> FALSE], [key |-> InForce, saved |-> TRUE]}]
    /\ \A r \in Repos : repos[r].key = 0 => repos[r] = Empty
    /\ repos[Probe] = Empty /\ \A r \in Repos : r \notin {WrittenTo(n) : n \in NodeSet} => repos[r] = Empty
    /\ job = Idle /\ report = "nothing" /\ paged = "none"
    /\ edits = 0 /\ faults = 0

-----------------------------------------------------------------------------
Hand        == edits < MaxEdits /\ edits' = edits + 1
Fault       == faults < MaxFaults /\ faults' = faults + 1
GoTo(label) == job' = [job EXCEPT !.pc = label, !.at = 1]
End(r)      == job' = Idle /\ report' = r

\* The field "fine" is auxiliary: all was as it should be when the command began.
Start(what, label) ==
    /\ job.pc = "idle"
    /\ Hand
    /\ job' = [Idle EXCEPT !.pc = label, !.what = what, !.probe = edits + 1, !.was = InForce,
                           !.fine = Usable /\ AllCovered(InForce)]
    /\ report' = "nothing"
    /\ UNCHANGED <<bucket, secret, replaced, paged, faults>>

VerifyDestination == Start("destination", "reach")
Coverage          == Start("coverage", "password")
HealthCheck       == Start("health", "reach")
VerifyRestic      == Start("restic", "init")

\* The end of the probe of the bucket: the health goes on to the coverage.
Probed(ok) ==
    IF job.what = "health"
    THEN job' = [job EXCEPT !.pc = "password", !.dest = ok] /\ UNCHANGED report
    ELSE End(IF ok THEN "usable" ELSE "failed")

Reach ==
    /\ job.pc = "reach"
    /\ \/ "list" \in can /\ GoTo("write") /\ UNCHANGED <<report, faults>>
       \/ "list" \notin can /\ Probed(FALSE) /\ UNCHANGED faults
       \/ Fault /\ job' = [job EXCEPT !.pc = "unreached", !.hurt = TRUE] /\ UNCHANGED report
    /\ UNCHANGED <<bucket, secret, replaced, paged, edits>>

\* What did not answer may have been written nonetheless.
Write ==
    /\ job.pc = "write"
    /\ \/ /\ "write" \in can
          /\ objects' = objects \cup {job.probe}
          /\ GoTo("read") /\ UNCHANGED <<report, faults>>
       \/ "write" \notin can /\ Probed(FALSE) /\ UNCHANGED <<objects, faults>>
       \/ /\ Fault
          /\ objects' \in {objects} \cup (IF "write" \in can THEN {objects \cup {job.probe}} ELSE {})
          /\ job' = [job EXCEPT !.pc = "unreached", !.hurt = TRUE] /\ UNCHANGED report
    /\ UNCHANGED <<can, repos, secret, replaced, paged, edits>>

\* What cannot be read, or is not what was written, fails the probe; it is removed all the same.
ReadBack ==
    /\ job.pc = "read"
    /\ \/ job' = [job EXCEPT !.pc = "remove", !.ok = "read" \in can] /\ UNCHANGED <<report, faults>>
       \/ Fault /\ job' = [job EXCEPT !.pc = "remove", !.ok = FALSE, !.hurt = TRUE] /\ UNCHANGED report
       \/ Fault /\ End("crashed")
    /\ UNCHANGED <<bucket, secret, replaced, paged, edits>>

\* A mutant: the delete's code is not looked at.
RemoveUnread ==
    /\ job.pc = "remove"
    /\ objects' = IF "delete" \in can THEN objects \ {job.probe} ELSE objects
    /\ Probed(job.ok)
    /\ UNCHANGED <<can, repos, secret, replaced, paged, edits, faults>>

Remove ==
    /\ job.pc = "remove"
    /\ \/ "delete" \in can /\ objects' = objects \ {job.probe} /\ Probed(job.ok) /\ UNCHANGED faults
       \/ "delete" \notin can /\ Probed(FALSE) /\ UNCHANGED <<objects, faults>>
       \/ Fault /\ job' = [job EXCEPT !.pc = "unreached", !.hurt = TRUE] /\ UNCHANGED <<objects, report>>
    /\ UNCHANGED <<can, repos, secret, replaced, paged, edits>>

\* The call that went wrong returned a code, or it took too long: that raises, and
\* nothing catches it.
Unreached ==
    /\ job.pc = "unreached"
    /\ Probed(FALSE) \/ End("crashed")
    /\ UNCHANGED <<bucket, secret, replaced, paged, edits, faults>>

-----------------------------------------------------------------------------
\* The coverage reads the password once and then asks node after node.
Counted(ok) ==
    IF job.what = "health"
    THEN job' = [job EXCEPT !.pc = "notify", !.ok = ok] /\ UNCHANGED report
    ELSE End(IF ok THEN "covered" ELSE "uncovered")

\* A file that sops fails on is read as empty: then the bucket has no credentials, or the
\* password is that of the common one.
ReadPassword ==
    /\ job.pc = "password"
    /\ \/ /\ IF InForce = 0 THEN Counted(FALSE)
             ELSE job' = [job EXCEPT !.pc = "cover", !.at = 1, !.key = InForce, !.ok = TRUE] /\ UNCHANGED report
          /\ UNCHANGED faults
       \/ /\ Fault
          /\ \E key \in {0, secret["common"]} :
                job' = [job EXCEPT !.pc = "cover", !.at = IF key = 0 THEN Len(Nodes) + 1 ELSE 1, !.key = key,
                                   !.ok = (key # 0), !.hurt = TRUE]
          /\ UNCHANGED report
    /\ UNCHANGED <<bucket, secret, replaced, paged, edits>>

\* A mutant: the last answer is the verdict.
CoverLast ==
    /\ job.pc = "cover"
    /\ IF job.at > Len(Nodes) THEN Counted(job.ok)
       ELSE /\ job' = [job EXCEPT !.at = @ + 1, !.ok = Covers(RepositoryName(Nodes[job.at]), job.key)]
            /\ UNCHANGED report
    /\ UNCHANGED <<bucket, secret, replaced, paged, edits, faults>>

Cover ==
    /\ job.pc = "cover"
    /\ \/ /\ job.at > Len(Nodes)
          /\ Counted(job.ok) /\ UNCHANGED faults
       \/ /\ job.at <= Len(Nodes)
          /\ \/ /\ job' = [job EXCEPT !.at = @ + 1, !.ok = @ /\ Covers(RepositoryName(Nodes[job.at]), job.key)]
                /\ UNCHANGED <<report, faults>>
             \/ Fault /\ job' = [job EXCEPT !.at = @ + 1, !.ok = FALSE, !.hurt = TRUE] /\ UNCHANGED report
             \/ Fault /\ End("crashed")
    /\ UNCHANGED <<bucket, secret, replaced, paged, edits>>

\* Told or not, the verdict is that of the two halves.
Notify ==
    /\ job.pc = "notify"
    /\ LET healthy == job.dest /\ job.ok IN
       /\ paged' \in {paged, IF healthy THEN "log" ELSE "page"}
       /\ End(IF healthy THEN "healthy" ELSE "unhealthy")
    /\ UNCHANGED <<bucket, secret, replaced, edits, faults>>

-----------------------------------------------------------------------------
\* A repository that is there already will do, whatever its password.
InitRepo ==
    /\ job.pc = "init"
    /\ \E key \in {InForce, 0, secret["common"]} :
        /\ IF key = InForce THEN UNCHANGED faults ELSE Fault
        /\ IF key = 0 \/ ~(repos[Probe] # Empty \/ "write" \in can)
           THEN End("failed") /\ UNCHANGED repos
           ELSE /\ repos' = IF repos[Probe] = Empty THEN [repos EXCEPT ![Probe].key = key] ELSE repos
                /\ job' = [job EXCEPT !.pc = "use", !.key = key] /\ UNCHANGED report
    /\ UNCHANGED <<can, objects, secret, replaced, paged, edits>>

\* backup, snapshots and check, each of which may fail and none of which ends it.
UseRepo ==
    /\ job.pc = "use"
    /\ LET opens == repos[Probe].key = job.key /\ {"list", "read", "write"} \subseteq can IN
       \/ /\ repos' = IF opens THEN [repos EXCEPT ![Probe].saved = TRUE] ELSE repos
          /\ job' = [job EXCEPT !.pc = "discard", !.ok = opens] /\ UNCHANGED faults
       \/ Fault /\ job' = [job EXCEPT !.pc = "discard", !.ok = FALSE] /\ UNCHANGED repos
    /\ UNCHANGED <<can, objects, secret, replaced, report, paged, edits>>

\* It is removed unless it is to be kept; one that stays is warned of.
DiscardRepo ==
    /\ job.pc = "discard"
    /\ \/ UNCHANGED repos
       \/ "delete" \in can /\ repos' = [repos EXCEPT ![Probe] = Empty]
    /\ End(IF job.ok THEN "works" ELSE "failed")
    /\ UNCHANGED <<can, objects, secret, replaced, paged, edits, faults>>

-----------------------------------------------------------------------------
\* A mutant: the password that is there is replaced.
GenerateAnew(force, f) ==
    /\ Hand
    /\ secret' = [secret EXCEPT ![f] = edits + 2]
    /\ replaced' = IF force THEN replaced \cup {"force"} ELSE replaced
    /\ UNCHANGED <<bucket, job, report, paged, faults>>

\* One that is in the file that was named, and seen there, is replaced by force only: it
\* locks out of every snapshot.  One in the other file is shadowed.
GeneratePassword(force, f) ==
    /\ Hand
    /\ IF force \/ secret[f] = 0 THEN UNCHANGED faults ELSE Fault
    /\ secret' = [secret EXCEPT ![f] = edits + 2]
    /\ replaced' = replaced \cup (IF {secret[f], secret["common"]} = {0} THEN {}
                                  ELSE {IF force THEN "force" ELSE IF secret[f] # 0 THEN "unseen" ELSE "shadowed"})
    /\ UNCHANGED <<bucket, job, report, paged>>

\* What runs on the node: its own repository, with the password it was given.
NodeBackup(n) ==
    LET r == WrittenTo(n)
        key == secret["common"] IN
    /\ key # 0 /\ "write" \in can
    /\ repos[r].key \in {0, key} /\ ~repos[r].saved
    /\ repos' = [repos EXCEPT ![r] = [key |-> key, saved |-> TRUE]]
    /\ UNCHANGED <<can, objects, secret, replaced, job, report, paged, edits, faults>>

Next ==
    \/ VerifyDestination \/ Coverage \/ HealthCheck \/ VerifyRestic
    \/ Reach \/ Write \/ ReadBack \/ Remove \/ Unreached
    \/ ReadPassword \/ Cover \/ Notify
    \/ InitRepo \/ UseRepo \/ DiscardRepo
    \/ \E force \in BOOLEAN, f \in SopsFiles : GeneratePassword(force, f)
    \/ \E n \in NodeSet : NodeBackup(n)

Spec == Init /\ [][Next]_vars

-----------------------------------------------------------------------------
TypeOK ==
    /\ can \subseteq Rights
    /\ objects \subseteq 1..MaxEdits
    /\ repos \in [Repos -> [key : 0..(MaxEdits + 1), saved : BOOLEAN]]
    /\ secret \in [SopsFiles -> 0..(MaxEdits + 1)] /\ replaced \subseteq {"force", "unseen", "shadowed"}
    /\ job.pc \in {"idle", "reach", "write", "read", "remove", "unreached", "password", "cover",
                   "notify", "init", "use", "discard"}
    /\ report \in {"nothing", "usable", "covered", "uncovered", "healthy", "unhealthy", "works",
                   "failed", "crashed"}
    /\ paged \in {"none", "log", "page"}

Done(r) == job.pc # "idle" /\ report' = r

\* A verdict that all is well leaves no probe in the bucket and a snapshot of
\* every declared node that the password opens; where all was well, the token and
\* every node, and no call failed, the verdict is no other.
VerdictHolds ==
    /\ Done("usable") \/ Done("healthy") => Usable /\ job.probe \notin objects'
    /\ Done("covered") \/ Done("healthy") => \A n \in NodeSet : repos'[WrittenTo(n)] = [key |-> job.key, saved |-> TRUE]
    /\ Done("unhealthy") \/ Done("uncovered") => ~job.fine \/ job.hurt \/ InForce # job.was
    /\ paged' # paged /\ paged' = "log" => report' = "healthy"

\* What the nodes wrote stays readable with the password that they were given, unless
\* someone replaced it by force, or sops failed when the command looked for it.
NoLockout ==
    \/ replaced \cap {"force", "unseen"} # {}
    \/ \A n \in NodeSet : repos[WrittenTo(n)].key \in {0, secret["common"]}
=============================================================================
