-------------------------- MODULE VikunjaReconcile --------------------------
(****************************************************************************)
(* The Vikunja reconciler: it lists the namespaces and creates the missing  *)
(* ones, does the same with the labels, and gives every project that has no *)
(* webhook to n8n one.  Vikunja takes a second item of the same title as    *)
(* readily as the first, and an answer of its API that is empty, or no      *)
(* list, is taken for an empty list.                                        *)
(****************************************************************************)
EXTENDS Integers

CONSTANTS Namespaces, Labels, Projects, MaxEdits, MaxFaults

VARIABLES copies,    \* how many of each item there are; a webhook goes by its project
          projects,  \* the projects there are
          pc,        \* the phase of the run
          listed,    \* whether what it works on was listed
          todo,      \* and what is left of it
          missed,    \* how often each item was there and an answer had left it out
          edits, faults

command == <<pc, listed, todo>>
vars    == <<copies, projects, command, missed, edits, faults>>

Items == Namespaces \cup Labels \cup Projects

Init ==
    /\ copies \in [Items -> {0, 1}]
    /\ projects \in SUBSET Projects
    /\ pc = "idle" /\ listed = FALSE /\ todo = {}
    /\ missed = [i \in Items |-> 0]
    /\ edits = 0 /\ faults = 0

-----------------------------------------------------------------------------
Fault == faults < MaxFaults /\ faults' = faults + 1

GoTo(phase) == pc' = phase /\ listed' = FALSE /\ todo' = {}

Begin ==
    /\ pc = "idle"
    /\ GoTo("namespaces")
    /\ UNCHANGED <<copies, projects, missed, edits, faults>>

\* What the phase works on, and what of it there is.
Wanted == CASE pc = "namespaces" -> Namespaces [] pc = "labels" -> Labels [] pc = "webhooks" -> projects
There  == IF pc = "webhooks" THEN projects ELSE {i \in Wanted : copies[i] > 0}

\* A mutant: what is there is not left out.
ListAll ==
    /\ pc # "idle" /\ ~listed
    /\ listed' = TRUE /\ todo' = Wanted
    /\ UNCHANGED <<pc, copies, projects, missed, edits, faults>>

\* Of the projects, those it got; whether one has its webhook is asked when it is its
\* turn.  Of the others, those it did not get.
List ==
    /\ pc # "idle" /\ ~listed
    /\ listed' = TRUE
    /\ \E got \in SUBSET There :
          /\ IF got = There THEN UNCHANGED faults ELSE Fault
          /\ IF pc = "webhooks"
             THEN todo' = got /\ UNCHANGED missed
             ELSE todo' = Wanted \ got /\ missed' = [i \in Items |-> IF i \in There \ got THEN missed[i] + 1 ELSE missed[i]]
    /\ UNCHANGED <<pc, copies, projects, edits>>

\* A webhook that is there is not made again, unless the question for those of its
\* project has an empty answer.
Create(i) ==
    /\ listed /\ i \in todo
    /\ todo' = todo \ {i}
    /\ IF pc = "webhooks" /\ copies[i] > 0
       THEN \/ UNCHANGED <<copies, missed, faults>>
            \/ Fault /\ copies' = [copies EXCEPT ![i] = @ + 1] /\ missed' = [missed EXCEPT ![i] = @ + 1]
       ELSE copies' = [copies EXCEPT ![i] = @ + 1] /\ UNCHANGED <<missed, faults>>
    /\ UNCHANGED <<pc, listed, projects, edits>>

\* An error of the API ends the run; a creation may have been done.
Fails ==
    /\ pc # "idle"
    /\ Fault /\ GoTo("idle")
    /\ \/ UNCHANGED copies
       \/ \E i \in todo : (pc = "webhooks" => copies[i] = 0) /\ copies' = [copies EXCEPT ![i] = @ + 1]
    /\ UNCHANGED <<projects, missed, edits>>

NextPhase ==
    /\ listed /\ todo = {}
    /\ GoTo(CASE pc = "namespaces" -> "labels" [] pc = "labels" -> "webhooks" [] pc = "webhooks" -> "idle")
    /\ UNCHANGED <<copies, projects, missed, edits, faults>>

\* People add a project, and delete an item.
Edit ==
    /\ edits < MaxEdits /\ edits' = edits + 1
    /\ \/ \E p \in Projects \ projects : projects' = projects \cup {p} /\ UNCHANGED copies
       \/ \E i \in Items : copies[i] > 0 /\ copies' = [copies EXCEPT ![i] = @ - 1] /\ UNCHANGED projects
    /\ UNCHANGED <<command, missed, faults>>

Goes == List \/ NextPhase \/ \E i \in todo : Create(i)

Next == Begin \/ Goes \/ Fails \/ Edit

Fairness == WF_vars(Begin \/ Goes)

Spec == Init /\ [][Next]_vars /\ Fairness

-----------------------------------------------------------------------------
TypeOK ==
    /\ copies \in [Items -> Nat] /\ projects \subseteq Projects
    /\ pc \in {"idle", "namespaces", "labels", "webhooks"}
    /\ listed \in BOOLEAN /\ todo \subseteq Items /\ missed \in [Items -> Nat]
    /\ edits \in Nat /\ faults \in Nat

\* However often it is run and fails, no item is there twice, "safe to re-run
\* anytime", but for those that an answer left out: one more each time it did.
OneOfEach == \A i \in Items : copies[i] <= 1 + missed[i]

\* Everything is there in the end, if somebody keeps running it.
Complete == \A i \in Namespaces \cup Labels \cup projects : copies[i] >= 1

VikunjaConverges == <>[]Complete
=============================================================================
