----------------------------- MODULE SecretsOut -----------------------------
(****************************************************************************)
(* The two ways out of the vault: a behaviour delivers to a cluster         *)
(* (SecretDelivery) or to the secret manager (SecretManagerSync).  The two  *)
(* share nothing that either writes, so they are not interleaved.           *)
(****************************************************************************)
EXTENDS Integers, FiniteSets

CONSTANTS Operators, Overlap,                          \* of the delivery,
          Bundles, Takes, Sources, KindOf, FileOf, Fallback,
          MaxEdits,
          Syncers, Items, Spoken, MaxChanges,          \* of the copy to the secret manager,
          MaxFaults                                    \* and of both (see the modules)

ASSUME DeliveryAssumption ==
    /\ KindOf \in [Sources -> {"required", "optional", "superadmin", "users", "routes"}]
    /\ FileOf \in [Sources -> {"common", "env", "declared"}]
    /\ Takes \in [Bundles -> SUBSET Sources]
    /\ Fallback \in [Sources -> Sources]
    /\ Overlap \in BOOLEAN
ASSUME SyncAssumption == Items # {} /\ Spoken \subseteq Items

VARIABLES part,
          vault, clear, live, pc, loaded, rendered, todo, bad, said, edits,
          origin, asleep, versions, made, step, wanted, left, item, doomed, failed, report, changes,
          faults

D == INSTANCE SecretDelivery

S == INSTANCE SecretManagerSync

deliveryVars == <<vault, clear, live, pc, loaded, rendered, todo, bad, said, edits>>
syncVars == <<origin, asleep, versions, made, step, wanted, left, item, doomed, failed, report, changes>>
vars == <<part, deliveryVars, syncVars, faults>>

Init ==
    /\ part \in {"apply", "sync"}
    /\ D!Init /\ S!Init
    /\ part = "apply" => ~asleep
    /\ part = "sync" => \A b \in DOMAIN live : live[b] = D!Nothing

Delivering(A) == part = "apply" /\ A /\ UNCHANGED <<part, syncVars>>
Syncing(A) == part = "sync" /\ A /\ UNCHANGED <<part, deliveryVars>>

Next == Delivering(D!Next) \/ Syncing(S!Next)

Fairness ==
    /\ \A o \in Operators : WF_vars(Delivering(D!Work(o)))
    /\ \A f \in D!SopsFiles : WF_vars(Delivering(D!Cover(f)))
    /\ \A p \in Syncers : WF_vars(Syncing(S!Work(p)))

Spec == Init /\ [][Next]_vars /\ Fairness

-----------------------------------------------------------------------------
\* Types of the variables of both, and what each promises (see the modules).
TypeOK == D!TypeOK /\ S!TypeOK

\* What apply never takes from a live Secret.
KeptByApply == [][D!KeptByApply]_vars

\* The Secrets of one value agree after a complete run.
CopiesAgree == D!CopiesAgree

\* The cluster ends up with what the vault holds.
DeliveryConverges == part = "apply" => D!DeliveryConverges

\* No enabled version is destroyed before a newer one is there.
NewestStays == [][S!NewestStays]_vars

\* The latest version is the value in force in the end.
SyncConverges == part = "sync" => S!SyncConverges

\* "Never apply a partial render": a user or a route of a live Secret goes only
\* when it left the vault.
RenderedKept == [][D!RenderedKept]_vars
=============================================================================
