------------------------------ MODULE PvcDrill ------------------------------
(****************************************************************************)
(* The drill of the alert on unbound claims: it creates a claim that cannot *)
(* bind, waits until the alert fires, and removes the claim whatever        *)
(* happens.  A claim that an earlier drill left is absorbed.                *)
(*                                                                          *)
(* The alert works on what was logged of claims lately: evidence comes with *)
(* a claim and goes some time after it; the alert is pending before it      *)
(* fires, and the instance of a new claim of the same name is the old one.  *)
(****************************************************************************)
EXTENDS Integers

CONSTANTS Hasty,     \* whether one is begun while an earlier claim may make the alert fire
          MaxDrills, MaxFaults

VARIABLES claim,     \* the drill that made the claim; 0: there is none
          evidence,  \* the drills of whose claims there are log lines
          alert,     \* "quiet", "pending" or "firing"
          cause,     \* the drill whose claim made it pending
          pc, said,  \* what the drill does next, and what it reported
          drill, faults

pipeline == <<evidence, alert, cause>>
vars     == <<claim, pipeline, pc, said, drill, faults>>

\* The first claim is that of a drill long ago.
Init ==
    /\ \/ claim = 1 /\ evidence = {1} /\ alert = "firing" /\ cause = 1
       \/ claim = 0 /\ evidence = {} /\ alert = "quiet" /\ cause = 0
    /\ pc = "idle" /\ said = "nothing"
    /\ drill = 1 /\ faults = 0

-----------------------------------------------------------------------------
Fault == faults < MaxFaults /\ faults' = faults + 1

GoTo(label) == pc' = label /\ UNCHANGED said

End(report) == pc' = "idle" /\ said' = report

Begin ==
    /\ pc = "idle"
    /\ drill < MaxDrills /\ drill' = drill + 1
    /\ Hasty \/ alert = "firing" \/ (claim = 0 /\ evidence = {} /\ alert = "quiet")
    /\ pc' = "absorb" /\ said' = "nothing"
    /\ UNCHANGED <<claim, pipeline, faults>>

Absorb ==
    /\ pc = "absorb"
    /\ \/ claim' = 0 /\ GoTo("check") /\ UNCHANGED faults
       \/ UNCHANGED claim /\ Fault /\ End("error")
    /\ UNCHANGED <<pipeline, drill>>

\* A mutant: a firing that was there before is not looked for.
Unchecked ==
    /\ pc = "check"
    /\ GoTo("create")
    /\ UNCHANGED <<claim, pipeline, drill, faults>>

\* The alert must not fire before the claim is created.
Check ==
    /\ pc = "check"
    /\ \/ alert = "firing" /\ End("refused") /\ UNCHANGED faults
       \/ alert # "firing" /\ GoTo("create") /\ UNCHANGED faults
       \/ Fault /\ End("error")
    /\ UNCHANGED <<claim, pipeline, drill>>

\* A creation that fails may have been done.
Create ==
    /\ pc = "create"
    /\ \/ claim' = drill /\ GoTo("poll") /\ UNCHANGED faults
       \/ claim' \in {claim, drill} /\ Fault /\ pc' = "remove" /\ said' = "error"
    /\ UNCHANGED <<pipeline, drill>>

\* The alert fires; or the time is up, a call fails or somebody interrupts.
Poll ==
    /\ pc = "poll"
    /\ pc' = "remove"
    /\ \/ alert = "firing" /\ said' = "fired"
       \/ said' \in {"did-not-fire", "error"}
    /\ UNCHANGED <<claim, pipeline, drill, faults>>

\* A mutant: nothing is removed after an error.
RemoveAfterResult ==
    /\ pc = "remove"
    /\ claim' = IF said = "error" THEN claim ELSE 0
    /\ pc' = "idle"
    /\ UNCHANGED <<pipeline, said, drill, faults>>

\* The result stands when the claim is gone; a failure to remove it comes first.
Remove ==
    /\ pc = "remove"
    /\ \/ claim' = 0 /\ pc' = "idle" /\ UNCHANGED <<said, faults>>
       \/ UNCHANGED claim /\ Fault /\ End("live-claim")
    /\ UNCHANGED <<pipeline, drill>>

\* A drill that is killed cleans nothing up.
Killed ==
    /\ pc # "idle"
    /\ Fault /\ End("killed")
    /\ UNCHANGED <<claim, pipeline, drill>>

-----------------------------------------------------------------------------
\* The watcher, the log store and the alert

Log ==
    /\ claim # 0
    /\ claim \notin evidence
    /\ evidence' = evidence \cup {claim}
    /\ UNCHANGED <<claim, alert, cause, pc, said, drill, faults>>

Expire ==
    /\ evidence \ {claim} # {}
    /\ evidence' = evidence \cap {claim}
    /\ UNCHANGED <<claim, alert, cause, pc, said, drill, faults>>

Evaluate ==
    /\ \/ evidence = {} /\ alert' = "quiet" /\ cause' = 0
       \/ evidence # {} /\ alert = "quiet" /\ alert' = "pending" /\ cause' \in evidence
       \/ evidence # {} /\ alert = "pending" /\ alert' = "firing" /\ UNCHANGED cause
    /\ UNCHANGED <<claim, evidence, pc, said, drill, faults>>

Next ==
    \/ Begin \/ Absorb \/ Check \/ Create \/ Poll \/ Remove \/ Killed
    \/ Log \/ Expire \/ Evaluate

Spec == Init /\ [][Next]_vars

-----------------------------------------------------------------------------
TypeOK ==
    /\ claim \in 0..MaxDrills /\ evidence \subseteq 1..MaxDrills
    /\ alert \in {"quiet", "pending", "firing"} /\ cause \in 0..MaxDrills
    /\ pc \in {"idle", "absorb", "check", "create", "poll", "remove"}
    /\ said \in {"nothing", "refused", "fired", "did-not-fire", "error", "live-claim", "killed"}
    /\ drill \in 1..MaxDrills /\ faults \in Nat

\* The claim does not outlive the drill that created it, unless the drill says so
\* or was killed ("the claim's lifetime is bounded by the drill's lifetime, by construction").
NoResidue == pc = "idle" /\ claim = drill /\ drill > 1 => said \in {"live-claim", "killed"}

\* A drill that saw the alert fire saw it fire for its own claim: "a firing seen
\* afterwards" can be attributed to it.
FiredIsCaused == pc = "remove" /\ said = "fired" => cause = drill
=============================================================================
