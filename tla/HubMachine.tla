----------------------------- MODULE HubMachine -----------------------------
(****************************************************************************)
(* The machine the hub runs on: the one instance of a managed group, the    *)
(* name it has on the mesh, and the production route that carries its       *)
(* address.  The group rebuilds an instance that is preempted or recreated; *)
(* each build joins the mesh as a new node, under the hub's name if that is *)
(* free and under a name with a random suffix if it is not.                 *)
(*                                                                          *)
(* The operator stops, starts and recreates the machine, takes the name     *)
(* back from a dead node (headscale recycle-stale) and repoints the route.  *)
(****************************************************************************)
EXTENDS Integers, FiniteSets

CONSTANTS MaxBuilds, MaxFaults

VARIABLES size,     \* the target size of the group
          vm,       \* the number of the build that runs; 0: none
          joined,   \* whether it has registered
          builds,
          nodes,    \* what Headscale knows: the build, its name and whether it is online
          route,    \* the build whose address the production route has
          pc, old,  \* what the command does next, the build to be replaced,
          plan,     \* and the nodes to delete and to rename
          faults

group   == <<size, vm, joined, builds>>
command == <<pc, old, plan>>
vars    == <<group, nodes, route, command, faults>>

NoPlan == [stale |-> 0, live |-> 0]

Init ==
    /\ size = 1 /\ vm = 1 /\ joined = TRUE /\ builds = 1
    /\ nodes = {[vm |-> 1, name |-> "hub", online |-> TRUE]}
    /\ route \in {0, 1}
    /\ pc = "idle" /\ old = 0 /\ plan = NoPlan
    /\ faults = 0

-----------------------------------------------------------------------------
Fault == faults < MaxFaults /\ faults' = faults + 1

End == pc' = "idle" /\ old' = 0 /\ plan' = NoPlan

Holders == {n \in nodes : n.name = "hub"}
Suffixed == {n \in nodes : n.name = "suffixed"}

\* MagicDNS goes by the name: the node may be dead.
Resolves(b) == \E n \in Holders : n.vm = b

-----------------------------------------------------------------------------
\* The group

Stopped == nodes' = {IF n.vm = vm THEN [n EXCEPT !.online = FALSE] ELSE n : n \in nodes}

\* A preemption, and what a recreation and a resizing to 0 come to.
Stop ==
    /\ vm # 0
    /\ vm' = 0 /\ joined' = FALSE
    /\ Stopped

Preempt ==
    /\ builds < MaxBuilds
    /\ Stop
    /\ UNCHANGED <<size, builds, route, command, faults>>

Build ==
    /\ vm = 0 /\ size = 1
    /\ builds' = builds + 1 /\ vm' = builds'
    /\ UNCHANGED <<size, joined, nodes, route, command, faults>>

\* The boot script deletes the node that has the name and joins.  If the deletion
\* fails, the name is still taken.
Join ==
    /\ vm # 0 /\ ~joined
    /\ joined' = TRUE
    /\ LET new(name) == [vm |-> vm, name |-> name, online |-> TRUE]
       IN  \/ nodes' = (nodes \ Holders) \cup {new("hub")} /\ UNCHANGED faults
           \/ /\ Holders # {}
              /\ nodes' = nodes \cup {new("suffixed")}
              /\ Fault
    /\ UNCHANGED <<size, vm, builds, route, command>>

\* A node loses its connection for a while.
Blip ==
    /\ \E n \in nodes : /\ n.vm = vm /\ n.online
                        /\ nodes' = (nodes \ {n}) \cup {[n EXCEPT !.online = FALSE]}
    /\ Fault
    /\ UNCHANGED <<group, route, command>>

Reconnect ==
    /\ \E n \in nodes : /\ n.vm = vm /\ ~n.online
                        /\ nodes' = (nodes \ {n}) \cup {[n EXCEPT !.online = TRUE]}
    /\ UNCHANGED <<group, route, command, faults>>

-----------------------------------------------------------------------------
\* gcp1-stop and gcp1-start

Resize(n) ==
    /\ pc = "idle"
    /\ size # n /\ size' = n
    /\ \/ n = 0 /\ builds < MaxBuilds /\ (Stop \/ (vm = 0 /\ UNCHANGED <<vm, joined, nodes>>))
       \/ n = 1 /\ UNCHANGED <<vm, joined, nodes>>
    /\ UNCHANGED <<builds, route, command, faults>>

\* gcp1-replace: recreate, wait until the node answers, repoint the route.
Recreate ==
    /\ pc = "idle"
    /\ builds < MaxBuilds
    /\ vm # 0
    /\ old' = vm
    /\ pc' = "requested"
    /\ UNCHANGED <<group, nodes, route, plan, faults>>

\* The request is accepted long before the machine is gone.
GroupReplaces ==
    /\ pc = "requested"
    /\ vm = old
    /\ Stop
    /\ UNCHANGED <<size, builds, route, command, faults>>

\* Another build runs, or the wait has timed out.
Replaced ==
    /\ pc = "requested"
    /\ vm \notin {0, old}
    /\ pc' = "await"
    /\ UNCHANGED <<group, nodes, route, old, plan, faults>>

ReplacementTimesOut ==
    /\ pc \in {"requested", "await"}
    /\ Fault /\ End
    /\ UNCHANGED <<group, nodes, route>>

\* A node is ready when it answers under the hub's name.
Ready ==
    /\ pc = "await"
    /\ \E n \in Holders : n.online
    /\ pc' = "repoint"
    /\ UNCHANGED <<group, nodes, route, old, plan, faults>>

\* The node never answers under that name: the chain stops there.
NeverReady ==
    /\ pc = "await"
    /\ joined /\ ~Resolves(vm)
    /\ End
    /\ UNCHANGED <<group, nodes, route, faults>>

\* argocd-repoint, alone or at the end of the chain; a name that does not
\* resolve is a failure and the route stays.
Repoint ==
    /\ pc \in {"idle", "repoint"}
    /\ End
    /\ route' \in IF Holders = {} THEN {route} ELSE {n.vm : n \in Holders}
    /\ UNCHANGED <<group, nodes, faults>>

-----------------------------------------------------------------------------
\* headscale recycle-stale --apply

\* A mutant: the replacement need not be online.
MayTake(stale, live) ==
    /\ Holders = {stale} /\ ~stale.online
    /\ Suffixed = {live}

\* The name is held by a dead node, and the only candidate is alive.
MayRecycle(stale, live) ==
    /\ Holders = {stale} /\ ~stale.online
    /\ Suffixed = {live} /\ live.online

Recycle ==
    /\ pc = "idle"
    /\ \E stale, live \in nodes : /\ MayRecycle(stale, live)
                                  /\ plan' = [stale |-> stale.vm, live |-> live.vm]
    /\ pc' = "delete"
    /\ UNCHANGED <<group, nodes, route, old, faults>>

DeleteStale ==
    /\ pc = "delete"
    /\ nodes' = {n \in nodes : n.vm # plan.stale}
    /\ pc' = "rename"
    /\ UNCHANGED <<group, route, old, plan, faults>>

DeletionFails ==
    /\ pc = "delete"
    /\ Fault /\ End
    /\ UNCHANGED <<group, nodes, route>>

\* A name that is taken again by now is refused.
RenameLive ==
    /\ pc = "rename"
    /\ End
    /\ IF Holders = {}
       THEN nodes' = {IF n.vm = plan.live THEN [n EXCEPT !.name = "hub"] ELSE n : n \in nodes}
       ELSE UNCHANGED nodes
    /\ UNCHANGED <<group, route, faults>>

RenameIsLost ==
    /\ pc = "rename"
    /\ Fault /\ End
    /\ UNCHANGED <<group, nodes, route>>

\* Two nodes with a suffix, or none with the name because the renaming was lost:
\* the command refuses both, and somebody gives the machine its name by hand.
ByHand ==
    /\ pc = "idle"
    /\ Holders = {} \/ Cardinality(Suffixed) > 1
    /\ \E n \in Suffixed : n.vm = vm /\ nodes' = {[n EXCEPT !.name = "hub"]}
    /\ UNCHANGED <<group, route, command, faults>>

-----------------------------------------------------------------------------
Runs == Build \/ Join \/ Reconnect \/ GroupReplaces

GoesOn == Replaced \/ Ready \/ NeverReady \/ DeleteStale \/ RenameLive

Next ==
    \/ Runs \/ Preempt \/ Blip
    \/ \E n \in {0, 1} : Resize(n)
    \/ Recreate \/ GoesOn \/ ReplacementTimesOut \/ Repoint
    \/ Recycle \/ DeletionFails \/ RenameIsLost \/ ByHand

Fairness ==
    /\ SF_vars(Runs) /\ WF_vars(GoesOn) /\ WF_vars(Resize(1))
    /\ SF_vars(Recycle) /\ SF_vars(ByHand) /\ SF_vars(Repoint)

Spec == Init /\ [][Next]_vars /\ Fairness

-----------------------------------------------------------------------------
TypeOK ==
    /\ size \in {0, 1} /\ vm \in 0..MaxBuilds + 1 /\ builds \in 1..MaxBuilds + 1 /\ joined \in BOOLEAN
    /\ \A n \in nodes : n.vm \in 1..builds /\ n.name \in {"hub", "suffixed"} /\ n.online \in BOOLEAN
    /\ route \in 0..builds
    /\ pc \in {"idle", "requested", "await", "repoint", "delete", "rename"}
    /\ old \in 0..builds /\ plan.stale \in 0..builds /\ plan.live \in 0..builds
    /\ faults \in Nat

\* Nobody takes the name from the machine that lives, however briefly it was
\* offline when the nodes were listed.
LivingKept ==
    (\E n \in Holders : n.vm = vm) => (\E n \in nodes' : n.name = "hub" /\ n.vm = vm) \/ vm' # vm

\* The route leads to the machine in the end, if somebody keeps it started,
\* recycles its name, or gives it back by hand where that is refused, and repoints.
Routed == vm # 0 /\ joined /\ route = vm

RouteReturns == <>[]Routed
=============================================================================
