------------------------------- MODULE SpecGate -------------------------------
(****************************************************************************)
(* The gate of a pull request that closes the issue of a spec: the spec     *)
(* must be archived and signed in the tree that merges, or the body of the  *)
(* pull request waives it.  A run judges the body of the event that started *)
(* it and the tree of the head; a new event's run replaces it.              *)
(*                                                                          *)
(* A spec is where the tree has it: active, archived, or copied (both), and *)
(* its archive has a review.md or not.                                      *)
(****************************************************************************)
EXTENDS Integers, FiniteSets

CONSTANTS Specs,     \* the specs, named by the issue each of them declares
          Required,  \* the checks that the branch protection requires
          Waits,     \* whether people wait for this gate although it is not required
          Copies,    \* whether a push may copy a spec into the archive
          MaxPush, MaxEdits

VARIABLES state,     \* open or merged
          head,      \* the number of pushes
          body,      \* what the body closes and what it quotes, and its waiver
          tree,      \* where each spec is
          run,       \* the run in progress
          verdict,   \* the check of the head
          edits

vars == <<state, head, body, tree, run, verdict, edits>>

Places == {"active", "archived", "signed"} \cup IF Copies THEN {"copied"} ELSE {}

Bodies == [closes : SUBSET Specs, quoted : SUBSET Specs, waiver : {"none", "quoted", "declared"}]

\* A keyword in code closes nothing, neither here nor at GitHub.
ClosedIssues(b) == b.closes \ b.quoted

Active(t)   == {s \in Specs : t[s] \in {"active", "copied"}}
Archived(t) == {s \in Specs : t[s] # "active"}
Unsigned(t) == {s \in Specs : t[s] = "archived"}

\* A mutant: what is archived is not looked at.
ViolationsOfActive(b, t) == ClosedIssues(b) \cap (Active(t) \ Archived(t))

\* A mutant: one spec that is archived is enough.
ViolationsIfAll(b, t) == IF ClosedIssues(b) \subseteq Active(t) \cup Unsigned(t) THEN ClosedIssues(b) ELSE {}

\* An active spec is let through when the archive has one of its name.
Violations(b, t) == ClosedIssues(b) \cap ((Active(t) \ Archived(t)) \cup Unsigned(t))

\* A mutant: a waiver that is quoted counts.
ReportQuoted(b, t) == IF Violations(b, t) = {} \/ b.waiver # "none" THEN "passed" ELSE "failed"

Report(b, t) == IF Violations(b, t) = {} \/ b.waiver = "declared" THEN "passed" ELSE "failed"

-----------------------------------------------------------------------------
NoRun == [going |-> FALSE, body |-> [closes |-> {}, quoted |-> {}, waiver |-> "none"], sha |-> 0]

Init ==
    /\ state = "open" /\ head = 1
    /\ body \in [closes : SUBSET Specs, quoted : {{}}, waiver : {"none"}]
    /\ tree = [s \in Specs |-> "active"]
    /\ run = [going |-> TRUE, body |-> body, sha |-> 1]
    /\ verdict = "none"
    /\ edits = 0

\* An event's run carries the body of the event.
Triggers == run' = [going |-> TRUE, body |-> body', sha |-> head'] /\ verdict' = "none"

Push ==
    /\ state = "open" /\ head < MaxPush
    /\ head' = head + 1
    /\ \E s \in Specs, p \in Places : tree' = [tree EXCEPT ![s] = p]
    /\ UNCHANGED <<state, body, edits>>
    /\ Triggers

\* A mutant: an edit of the body is no event.
EditUnseen ==
    /\ state = "open" /\ edits < MaxEdits
    /\ edits' = edits + 1
    /\ body' \in Bodies
    /\ UNCHANGED <<state, head, tree, run, verdict>>

Edit ==
    /\ state = "open" /\ edits < MaxEdits
    /\ edits' = edits + 1
    /\ body' \in Bodies
    /\ UNCHANGED <<state, head, tree>>
    /\ Triggers

Judge ==
    /\ run.going
    /\ run' = NoRun
    /\ verdict' = Report(run.body, tree)
    /\ UNCHANGED <<state, head, body, tree, edits>>

Merge ==
    /\ state = "open"
    /\ "Spec archive gate" \in Required \/ Waits => verdict = "passed"
    /\ state' = "merged"
    /\ UNCHANGED <<head, body, tree, run, verdict, edits>>

Next == Push \/ Edit \/ Judge \/ Merge

Spec == Init /\ [][Next]_vars

-----------------------------------------------------------------------------
\* The types of the pull request and of the gate.
TypeOK ==
    /\ state \in {"open", "merged"} /\ head \in 1..MaxPush
    /\ body \in Bodies /\ tree \in [Specs -> Places]
    /\ run.body \in Bodies
    /\ run.going => verdict = "none"

\* A merge that closes the issue of a spec leaves it archived and signed, and no
\* longer active, unless the merge record says why not.
ClosedIsSigned ==
    state = "merged" =>
        \/ body.waiver = "declared"
        \/ \A s \in body.closes \ body.quoted : tree[s] = "signed"

=============================================================================
