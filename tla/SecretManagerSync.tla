------------------------- MODULE SecretManagerSync -------------------------
(****************************************************************************)
(* `toolkit secrets sync-secret-manager`: the boot secrets of the GCP hub   *)
(* copied to Google Secret Manager, whose latest version a hub reads when   *)
(* it is recreated.  Some are in the vault; the token and the CA of a spoke *)
(* are read from its cluster, which may be switched off.                    *)
(*                                                                          *)
(* Every answer of gcloud is one step, and one that does not come is taken  *)
(* the way the code takes it: no description for an absent secret, no       *)
(* payload for another one, no list for nothing to destroy.                 *)
(****************************************************************************)
EXTENDS Integers, FiniteSets, FiniteSetsExt

CONSTANTS Syncers, Items, Spoken,   \* Spoken: the items that a spoke holds
          MaxChanges, MaxFaults

VARIABLES origin,    \* the value of each item where it comes from
          asleep,    \* whether the spoke is switched off
          versions,  \* the enabled versions of each secret: <<number, value>>
          made,      \* how many were made so far
          step,      \* what a sync does next
          wanted,    \* the values it has collected
          left,      \* the items it has still to deliver
          item,      \* the one it is at
          doomed,    \* the versions it will destroy
          failed,    \* whether something failed
          report,
          changes, faults

outside == <<origin, asleep, changes>>
sync    == <<step, wanted, left, item, doomed, failed, report>>
vars    == <<outside, versions, made, sync, faults>>

Absent == 0

Newest(i) == Max({v[1] : v \in versions[i]})

Latest(i) == (CHOOSE v \in versions[i] : v[1] = Newest(i))[2]

Init ==
    /\ origin = [i \in Items |-> 1]
    /\ asleep \in BOOLEAN
    /\ versions = [i \in Items |-> {}]
    /\ made = 0
    /\ step = [p \in Syncers |-> "idle"]
    /\ wanted = [p \in Syncers |-> [i \in Items |-> Absent]]
    /\ left = [p \in Syncers |-> {}]
    /\ item = [p \in Syncers |-> CHOOSE i \in Items : TRUE]
    /\ doomed = [p \in Syncers |-> {}]
    /\ failed = [p \in Syncers |-> FALSE]
    /\ report = [p \in Syncers |-> "none"]
    /\ changes = 0 /\ faults = 0

-----------------------------------------------------------------------------
GoTo(p, label) == step' = [step EXCEPT ![p] = label]

Fault == faults < MaxFaults /\ faults' = faults + 1

\* An empty value, and one that no spoke gives, is never delivered.
Collected == [i \in Items |-> IF i \in Spoken /\ asleep THEN Absent ELSE origin[i]]

Collect(p) ==
    /\ step[p] = "idle"
    /\ wanted' = [wanted EXCEPT ![p] = Collected]
    /\ left' = [left EXCEPT ![p] = {i \in Items : Collected[i] # Absent}]
    /\ failed' = [failed EXCEPT ![p] = \E i \in Items : Collected[i] = Absent]
    /\ report' = [report EXCEPT ![p] = "none"]
    /\ GoTo(p, "next")
    /\ UNCHANGED <<outside, versions, made, item, doomed, faults>>

\* gcloud secrets describe: any failure of it means that there is no secret.
Describe(p, i) ==
    /\ step[p] = "next"
    /\ i \in left[p]
    /\ item' = [item EXCEPT ![p] = i]
    /\ left' = [left EXCEPT ![p] = @ \ {i}]
    /\ \/ GoTo(p, IF versions[i] = {} THEN "create" ELSE "access") /\ UNCHANGED faults
       \/ versions[i] # {} /\ GoTo(p, "create") /\ Fault
    /\ UNCHANGED <<outside, versions, made, wanted, doomed, failed, report>>

\* A new version of the secret, or the first, and what becomes of the answer.
Put(p) ==
    /\ versions' = [versions EXCEPT ![item[p]] = @ \cup {<<made + 1, wanted[p][item[p]]>>}]
    /\ made' = made + 1

Fails(p) == failed' = [failed EXCEPT ![p] = TRUE] /\ GoTo(p, "next")

Create(p) ==
    /\ step[p] = "create"
    /\ \/ versions[item[p]] = {} /\ Put(p) /\ GoTo(p, "next") /\ UNCHANGED <<failed, faults>>
       \/ versions[item[p]] # {} /\ Fails(p) /\ UNCHANGED <<versions, made, faults>>
    /\ UNCHANGED <<outside, wanted, left, item, doomed, report>>

CreateFails(p) ==
    /\ step[p] = "create"
    /\ Fault /\ Fails(p)
    /\ (versions[item[p]] = {} /\ Put(p)) \/ UNCHANGED <<versions, made>>
    /\ UNCHANGED <<outside, wanted, left, item, doomed, report>>

\* A mutant: a secret that exists is up to date.
AccessNothing(p) ==
    /\ step[p] = "access"
    /\ GoTo(p, "next")
    /\ UNCHANGED <<outside, versions, made, wanted, left, item, doomed, failed, report, faults>>

\* versions access latest: the item is left alone when the payload is the same.
Access(p) ==
    /\ step[p] = "access"
    /\ \/ Latest(item[p]) = wanted[p][item[p]] /\ GoTo(p, "next") /\ UNCHANGED faults
       \/ Latest(item[p]) # wanted[p][item[p]] /\ GoTo(p, "add") /\ UNCHANGED faults
       \/ GoTo(p, "add") /\ Fault
    /\ UNCHANGED <<outside, versions, made, wanted, left, item, doomed, failed, report>>

Add(p) ==
    /\ step[p] = "add"
    /\ Put(p) /\ GoTo(p, "list")
    /\ UNCHANGED <<outside, wanted, left, item, doomed, failed, report, faults>>

AddFails(p) ==
    /\ step[p] = "add"
    /\ Fault /\ Fails(p)
    /\ Put(p) \/ UNCHANGED <<versions, made>>
    /\ UNCHANGED <<outside, wanted, left, item, doomed, report>>

\* A mutant: the list is read with the oldest first.
SupersededByOld(i) == {v[1] : v \in versions[i]} \ {Min({v[1] : v \in versions[i]})}

\* All versions but the first of the list, which is the newest.
Superseded(i) == {v[1] : v \in versions[i]} \ {Newest(i)}

List(p) ==
    /\ step[p] = "list"
    /\ \/ doomed' = [doomed EXCEPT ![p] = Superseded(item[p])] /\ GoTo(p, "destroy") /\ UNCHANGED faults
       \/ GoTo(p, "next") /\ Fault /\ UNCHANGED doomed
    /\ UNCHANGED <<outside, versions, made, wanted, left, item, failed, report>>

\* One version after the other; nobody looks whether it went.
Destroy(p, n) ==
    /\ step[p] = "destroy"
    /\ n \in doomed[p]
    /\ doomed' = [doomed EXCEPT ![p] = @ \ {n}]
    /\ \/ versions' = [versions EXCEPT ![item[p]] = {v \in @ : v[1] # n}] /\ UNCHANGED faults
       \/ Fault /\ UNCHANGED versions
    /\ UNCHANGED <<outside, made, step, wanted, left, item, failed, report>>

Destroyed(p) ==
    /\ step[p] = "destroy"
    /\ doomed[p] = {}
    /\ GoTo(p, "next")
    /\ UNCHANGED <<outside, versions, made, wanted, left, item, doomed, failed, report, faults>>

Finish(p) ==
    /\ step[p] = "next"
    /\ left[p] = {}
    /\ report' = [report EXCEPT ![p] = IF failed[p] THEN "failed" ELSE "synced"]
    /\ wanted' = [wanted EXCEPT ![p] = [i \in Items |-> Absent]]
    /\ failed' = [failed EXCEPT ![p] = FALSE]
    /\ GoTo(p, "idle")
    /\ UNCHANGED <<outside, versions, made, left, item, doomed, faults>>

-----------------------------------------------------------------------------
\* A secret is rotated, in the vault or by the spoke; the homelab is switched.
Rotate(i) ==
    /\ changes < MaxChanges /\ changes' = changes + 1
    /\ origin' = [origin EXCEPT ![i] = changes + 2]
    /\ UNCHANGED <<asleep, versions, made, sync, faults>>

Switch ==
    /\ changes < MaxChanges /\ changes' = changes + 1
    /\ asleep' = ~asleep
    /\ UNCHANGED <<origin, versions, made, sync, faults>>

Work(p) ==
    \/ Collect(p) \/ Create(p) \/ CreateFails(p) \/ Access(p) \/ Add(p) \/ AddFails(p)
    \/ List(p) \/ Destroyed(p) \/ Finish(p)
    \/ \E i \in Items : Describe(p, i)
    \/ \E n \in 1..made : Destroy(p, n)

World == Switch \/ \E i \in Items : Rotate(i)

Next == World \/ \E p \in Syncers : Work(p)

\* "A later re-run completes it": somebody runs the command again.
Fairness == \A p \in Syncers : WF_vars(Work(p))

-----------------------------------------------------------------------------
TypeOK ==
    /\ origin \in [Items -> Nat]
    /\ asleep \in BOOLEAN
    /\ DOMAIN versions = Items
    /\ \A i \in Items : \A v \in versions[i] : v[1] \in 1..made /\ v[2] \in Nat
    /\ step \in [Syncers -> {"idle", "next", "create", "access", "add", "list", "destroy"}]
    /\ wanted \in [Syncers -> [Items -> Nat]]
    /\ left \in [Syncers -> SUBSET Items]
    /\ item \in [Syncers -> Items]
    /\ doomed \in [Syncers -> SUBSET (1..made)]
    /\ failed \in [Syncers -> BOOLEAN]
    /\ report \in [Syncers -> {"none", "failed", "synced"}]
    /\ made \in Nat /\ changes \in Nat /\ faults \in Nat

\* A hub that boots at any moment finds a version that is enabled and was a value
\* of the secret: no version is destroyed before a newer one is there, however
\* many syncs overlap and wherever they fail.
NewestStays ==
    \A i \in Items :
        versions[i] # {} => versions'[i] # {} /\ Max({v[1] : v \in versions'[i]}) >= Newest(i)

\* The latest version is the value in force, once values stop changing, calls
\* stop failing and the command is run again ("drift is resolved by re-syncing"):
\* a rotated spoke token reaches the hub that is rebuilt from it.
SyncConverges ==
    <>[](\A i \in Items : (i \in Spoken => ~asleep) => versions[i] # {} /\ Latest(i) = origin[i])
=============================================================================
