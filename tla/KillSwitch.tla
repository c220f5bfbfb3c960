----------------------------- MODULE KillSwitch -----------------------------
(****************************************************************************)
(* The billing kill switch and its proof.  The budget publishes a message   *)
(* when the hub's project has cost too much, and a function detaches the    *)
(* billing account of the project its environment names.  The proof points  *)
(* that function at a scratch project, publishes a message of its own, and  *)
(* points the function back, whatever happened.                             *)
(*                                                                          *)
(* The topic delivers a message at some time, and again as long as the      *)
(* function fails (RETRY_POLICY_RETRY in killswitch.tf).                    *)
(****************************************************************************)
EXTENDS Integers

CONSTANTS MaxProofs, MaxFaults

VARIABLES target,     \* what the function acts on: "hub" or "scratch"
          billed,     \* the projects that have their billing account
          spent,      \* whether the hub has cost too much
          queue,      \* how many messages of each origin are on their way
          pc, said,   \* what the proof does next, and what it reported
          fired,      \* whether it saw its scratch project detached
          proofs, faults

proof == <<pc, said, fired, proofs>>
vars  == <<target, billed, spent, queue, proof, faults>>

Projects == {"hub", "scratch"}

Init ==
    /\ target = "hub"
    /\ billed = {"hub"}
    /\ spent = FALSE
    /\ queue = [budget |-> 0, proof |-> 0]
    /\ pc = "idle" /\ said = "nothing" /\ fired = FALSE
    /\ proofs = 0 /\ faults = 0

-----------------------------------------------------------------------------
Fault == faults < MaxFaults /\ faults' = faults + 1

GoTo(label) == pc' = label /\ UNCHANGED <<said, fired, proofs>>

End(report) == pc' = "idle" /\ said' = report /\ fired' = FALSE /\ UNCHANGED proofs

\* A proof begins on a project that was made for it, and refuses a switch that
\* is not pointed at the hub.
Begin ==
    /\ pc = "idle"
    /\ proofs < MaxProofs /\ proofs' = proofs + 1
    /\ billed' = billed \cup {"scratch"}
    /\ fired' = FALSE
    /\ IF target = "hub" THEN pc' = "repoint" /\ said' = "nothing" ELSE pc' = "idle" /\ said' = "misaimed"
    /\ UNCHANGED <<target, spent, queue, faults>>

\* What fails from here on goes through the restore.
Repoint ==
    /\ pc = "repoint"
    /\ \/ target' = "scratch" /\ GoTo("publish") /\ UNCHANGED faults
       \/ target' \in {target, "scratch"} /\ Fault /\ GoTo("restore")
    /\ UNCHANGED <<billed, spent, queue>>

Publish ==
    /\ pc = "publish"
    /\ \/ queue' = [queue EXCEPT !.proof = @ + 1] /\ GoTo("poll") /\ UNCHANGED faults
       \/ \E n \in {0, 1} : queue' = [queue EXCEPT !.proof = @ + n] /\ Fault /\ GoTo("restore")
    /\ UNCHANGED <<target, billed, spent>>

Detached ==
    /\ pc = "poll"
    /\ "scratch" \notin billed
    /\ fired' = TRUE /\ pc' = "restore"
    /\ UNCHANGED <<target, billed, spent, queue, said, proofs, faults>>

\* The time is up, a call fails, or somebody interrupts the wait.
PollEnds ==
    /\ pc = "poll"
    /\ GoTo("restore")
    /\ UNCHANGED <<target, billed, spent, queue, faults>>

\* A mutant: the restore belongs to the happy path.
RestoreAfterFiring ==
    /\ pc = "restore"
    /\ IF fired THEN target' = "hub" /\ GoTo("verify") ELSE UNCHANGED target /\ End("not-detached")
    /\ UNCHANGED <<billed, spent, queue, faults>>

\* If the call fails, that is the last thing the proof reports.
Restore ==
    /\ pc = "restore"
    /\ \/ target' = "hub" /\ GoTo("verify") /\ UNCHANGED faults
       \/ target' \in {target, "hub"} /\ Fault /\ End("misaimed")
    /\ UNCHANGED <<billed, spent, queue>>

Verify ==
    /\ pc = "verify"
    /\ \/ /\ End(IF target # "hub" THEN "misaimed" ELSE IF fired THEN "detached" ELSE "not-detached")
          /\ UNCHANGED faults
       \/ Fault /\ End("misaimed")
    /\ UNCHANGED <<target, billed, spent, queue>>

\* A proof that is killed cleans nothing up.
Killed ==
    /\ pc # "idle"
    /\ Fault /\ End("killed")
    /\ UNCHANGED <<target, billed, spent, queue>>

\* Somebody who is told that the restore failed, or who killed the proof, points
\* the function back.
Repair ==
    /\ pc = "idle" /\ said \in {"misaimed", "killed"}
    /\ target' = "hub"
    /\ said' = "nothing"
    /\ UNCHANGED <<billed, spent, queue, pc, fired, proofs, faults>>

-----------------------------------------------------------------------------
\* The hub, the budget and the function

Spend ==
    /\ ~spent
    /\ spent' = TRUE
    /\ UNCHANGED <<target, billed, queue, proof, faults>>

\* Budgets publish again and again.
Notify ==
    /\ spent /\ queue.budget = 0
    /\ queue' = [queue EXCEPT !.budget = 1]
    /\ UNCHANGED <<target, billed, spent, proof, faults>>

\* The function detaches what it is pointed at when the message reaches it.
Deliver(origin) ==
    /\ queue[origin] > 0
    /\ queue' = [queue EXCEPT ![origin] = @ - 1]
    /\ billed' = billed \ {target}
    /\ UNCHANGED <<target, spent, proof, faults>>

Works == Repoint \/ Publish \/ Detached \/ Restore \/ Verify

Next ==
    \/ Begin \/ Works \/ PollEnds \/ Killed \/ Repair
    \/ Spend \/ Notify \/ \E origin \in DOMAIN queue : Deliver(origin)

Fairness ==
    /\ WF_vars(Works) /\ WF_vars(PollEnds \/ Detached) /\ WF_vars(Repair) /\ WF_vars(Notify)
    /\ \A origin \in {"budget", "proof"} : WF_vars(Deliver(origin))

Spec == Init /\ [][Next]_vars /\ Fairness

-----------------------------------------------------------------------------
TypeOK ==
    /\ target \in Projects /\ billed \subseteq Projects /\ spent \in BOOLEAN
    /\ queue.budget \in {0, 1} /\ queue.proof \in 0..MaxProofs
    /\ pc \in {"idle", "repoint", "publish", "poll", "restore", "verify"}
    /\ said \in {"nothing", "detached", "not-detached", "misaimed", "killed"}
    /\ fired \in BOOLEAN /\ proofs \in 0..MaxProofs /\ faults \in Nat

\* However a proof goes, the switch protects the hub again when it has ended,
\* unless the proof said that it does not or had no chance to.
SwitchIsAimed == pc = "idle" /\ said \notin {"misaimed", "killed"} => target = "hub"

\* A hub that costs too much loses its billing account, whatever the proofs do
\* with the messages that come meanwhile.
Capped == spent => "hub" \notin billed

HubIsCapped == <>[]Capped

=============================================================================
