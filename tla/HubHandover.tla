---------------------------- MODULE HubHandover ----------------------------
(****************************************************************************)
(* Two Argo CD hubs and the spokes they deploy to, while a spoke is handed  *)
(* from one hub to the other: `argo hub-pause` and `hub-resume`, `argo      *)
(* unregister-spoke`, and what else changes a hub (an installation of Argo  *)
(* CD, the registration of a spoke, its Applications applied again).        *)
(*                                                                          *)
(* The application-controller of a hub is a StatefulSet of at most one pod. *)
(* A pod that is terminating is listed and works until it is gone.  A call  *)
(* may fail with or without its effect, and a command may be interrupted.   *)
(****************************************************************************)
EXTENDS Integers

CONSTANTS Hubs, Spokes,
          Operators,  \* people running the commands
          Overlap,    \* whether a command may start while another runs
          Contexts,   \* the clusters kubectl's default context may name
          MaxFaults   \* a bound on failures, restarts and deletions by hand

ASSUME HubAssumption == "pruned" \notin Hubs /\ Contexts # {}
ASSUME OverlapAssumption == Overlap \in BOOLEAN

VARIABLES replicas,   \* the replicas wanted of each hub's controller
          pod,        \* the phase of its pod
          app,        \* the Application of each hub for each spoke
          key,        \* the spokes each hub holds a credential of
          rbac,       \* the spokes where that credential has rights
          deployed,   \* the hub that wrote to each spoke last, or "pruned"
          said,       \* what a command has reported of each hub
          pc, hub, spoke, want, shared,  \* the command each operator runs
          unfinished, \* the detachments that ended in an error
          doomed,     \* the Applications a person has deleted, while they die
          faults

controllerVars == <<replicas, pod>>
objects     == <<app, key, rbac, doomed>>
commandVars == <<pc, hub, spoke, want, shared>>
vars == <<controllerVars, objects, deployed, said, commandVars, unfinished, faults>>

\* A pod that is there may write, until it is gone.
Alive(h) == pod[h] \in {"running", "terminating"}

\* An Application: with the finalizer whose deletion prunes the spoke, without
\* it, or with it and being deleted.
AppStates == {"absent", "guarded", "bare", "deleting"}

Init ==
    /\ replicas = [h \in Hubs |-> 1]
    /\ pod = [h \in Hubs |-> "running"]
    /\ \E first \in Hubs :
          /\ app = [h \in Hubs |-> [s \in Spokes |-> IF h = first THEN "guarded" ELSE "absent"]]
          /\ key = [h \in Hubs |-> IF h = first THEN Spokes ELSE {}]
          /\ deployed = [s \in Spokes |-> first]
          /\ hub = [o \in Operators |-> first]
    /\ rbac = Spokes
    /\ said = [h \in Hubs |-> "nothing"]
    /\ pc = [o \in Operators |-> "idle"]
    /\ spoke \in [Operators -> Spokes]
    /\ \A o, p \in Operators : spoke[o] = spoke[p]
    /\ want = [o \in Operators |-> 1]
    /\ shared = [o \in Operators |-> FALSE]
    /\ unfinished = {}
    /\ doomed = {}
    /\ faults = 0

Quiet == \A o \in Operators : pc[o] = "idle"

MayStart(o) == pc[o] = "idle" /\ (Overlap \/ Quiet)

GoTo(o, label) == pc' = [pc EXCEPT ![o] = label]

\* A command is over; what it was asked to do is forgotten.
Leave(o) ==
    /\ GoTo(o, "idle")
    /\ want' = [want EXCEPT ![o] = 1]
    /\ shared' = [shared EXCEPT ![o] = FALSE]

Fault == faults < MaxFaults /\ faults' = faults + 1

\* The plan of a handover: a hub is started, or given a spoke, only when every
\* other hub with a credential of that spoke was reported paused.
Others(h, s) == {g \in Hubs \ {h} : s \in key[g]}
Yielded(h, s) == \A g \in Others(h, s) : said[g] = "paused"
MayRun(h) == \A s \in key[h] : Yielded(h, s)

-----------------------------------------------------------------------------
\* hub-pause and hub-resume

\* A command makes what was said of the hub obsolete; a pause of a paused hub
\* does not start it.
Supersede(h, n) ==
    said' = IF n = 0 /\ said[h] = "paused" THEN said ELSE [said EXCEPT ![h] = "nothing"]

StartScale(o, h, n) ==
    /\ MayStart(o)
    /\ n = 0 \/ MayRun(h)
    /\ Supersede(h, n)
    /\ hub' = [hub EXCEPT ![o] = h]
    /\ want' = [want EXCEPT ![o] = n]
    /\ GoTo(o, "scale")
    /\ UNCHANGED <<controllerVars, objects, deployed, spoke, shared, unfinished, faults>>

SetReplicas(o, n) == replicas' = [replicas EXCEPT ![hub[o]] = n]

\* A mutant: whatever was asked, the controller is stopped.
ScaleToZero(o) ==
    /\ pc[o] = "scale"
    /\ SetReplicas(o, 0)
    /\ GoTo(o, "wait")
    /\ UNCHANGED <<pod, objects, deployed, said, hub, spoke, want, shared, unfinished, faults>>

Scale(o) ==
    /\ pc[o] = "scale"
    /\ SetReplicas(o, want[o])
    /\ GoTo(o, "wait")
    /\ UNCHANGED <<pod, objects, deployed, said, hub, spoke, want, shared, unfinished, faults>>

\* A mutant: the exit code of kubectl scale is ignored.
ScaleFailsUnseen(o) ==
    /\ pc[o] = "scale"
    /\ Fault
    /\ UNCHANGED replicas \/ SetReplicas(o, want[o])
    /\ GoTo(o, "wait")
    /\ UNCHANGED <<pod, objects, deployed, said, hub, spoke, want, shared, unfinished>>

ScaleFails(o) ==
    /\ pc[o] = "scale"
    /\ Fault
    /\ UNCHANGED replicas \/ SetReplicas(o, want[o])
    /\ Leave(o)
    /\ UNCHANGED <<pod, objects, deployed, said, hub, spoke, unfinished>>

\* A mutant: a list of the pods that run.
ListedRunning(h) == pod[h] = "running"

\* The pods that `get pods -l` lists, whatever their phase.
Listed(h) == pod[h] # "none"

WaitEnds(o) ==
    /\ pc[o] = "wait"
    /\ Listed(hub[o]) <=> want[o] = 1
    /\ said' = [said EXCEPT ![hub[o]] = IF want[o] = 1 THEN "resumed" ELSE "paused"]
    /\ Leave(o)
    /\ UNCHANGED <<controllerVars, objects, deployed, hub, spoke, unfinished, faults>>

\* The list fails, the deadline passes, or the operator interrupts the command.
WaitFails(o) ==
    /\ pc[o] = "wait"
    /\ Fault
    /\ Leave(o)
    /\ UNCHANGED <<controllerVars, objects, deployed, said, hub, spoke, unfinished>>

-----------------------------------------------------------------------------
\* make deploy-argocd: everything is scaled to 0, and the chart installed

StartInstall(o, h) ==
    /\ MayStart(o)
    /\ MayRun(h)
    /\ Supersede(h, 1)
    /\ hub' = [hub EXCEPT ![o] = h]
    /\ GoTo(o, "drain")
    /\ UNCHANGED <<controllerVars, objects, deployed, spoke, want, shared, unfinished, faults>>

\* A failure of the scaling, or of the wait that follows, is ignored.
Drain(o) ==
    /\ pc[o] = "drain"
    /\ \/ SetReplicas(o, 0) /\ UNCHANGED faults
       \/ Fault /\ UNCHANGED replicas
    /\ GoTo(o, "install")
    /\ UNCHANGED <<pod, objects, deployed, said, hub, spoke, want, shared, unfinished>>

\* The chart wants one controller.
Install(o) ==
    /\ pc[o] = "install"
    /\ SetReplicas(o, 1)
    /\ Leave(o)
    /\ UNCHANGED <<pod, objects, deployed, said, hub, spoke, unfinished, faults>>

\* A secret that decrypts empty, or an upgrade that fails.
InstallFails(o) ==
    /\ pc[o] = "install"
    /\ Fault
    /\ UNCHANGED replicas \/ SetReplicas(o, 1)
    /\ Leave(o)
    /\ UNCHANGED <<pod, objects, deployed, said, hub, spoke, unfinished>>

-----------------------------------------------------------------------------
\* unregister-spoke

StartDetach(o, h, s, everything) ==
    /\ MayStart(o)
    /\ hub' = [hub EXCEPT ![o] = h]
    /\ spoke' = [spoke EXCEPT ![o] = s]
    /\ shared' = [shared EXCEPT ![o] = everything]
    /\ GoTo(o, "strip")
    /\ UNCHANGED <<controllerVars, objects, deployed, said, want, unfinished, faults>>

SetApp(o, state) == app' = [app EXCEPT ![hub[o]][spoke[o]] = state]

AppOf(o) == app[hub[o]][spoke[o]]

\* The patch that empties the finalizers; an object that was only waiting for
\* them goes, and one that is absent is tolerated.
StripApp(o) ==
    /\ SetApp(o, IF AppOf(o) \in {"guarded", "bare"} THEN "bare" ELSE "absent")
    /\ doomed' = doomed \ {<<hub[o], spoke[o]>>}
    /\ UNCHANGED <<key, rbac>>

DeleteApp(o) ==
    /\ SetApp(o, IF AppOf(o) \in {"guarded", "deleting"} THEN "deleting" ELSE "absent")
    /\ UNCHANGED <<key, rbac, doomed>>

DeleteKey(o) ==
    /\ key' = [key EXCEPT ![hub[o]] = @ \ {spoke[o]}]
    /\ UNCHANGED <<app, rbac, doomed>>

\* The only call that names no kubeconfig.
DeleteRbac(o) ==
    /\ \E c \in Contexts : rbac' = rbac \ {c}
    /\ UNCHANGED <<app, key, doomed>>

EndDetach(o, well) ==
    /\ Leave(o)
    /\ unfinished' = IF well THEN unfinished \ {<<hub[o], spoke[o]>>}
                             ELSE unfinished \cup {<<hub[o], spoke[o]>>}

\* A mutant: an Application that is absent means that all is done.
StripOrLeave(o) ==
    /\ pc[o] = "strip"
    /\ StripApp(o)
    /\ \/ AppOf(o) # "absent" /\ GoTo(o, "delete") /\ UNCHANGED <<unfinished, want, shared>>
       \/ AppOf(o) = "absent" /\ EndDetach(o, TRUE)
    /\ UNCHANGED <<controllerVars, deployed, said, hub, spoke, faults>>

\* A mutant: an Application that is absent is an error.
StripOrStop(o) ==
    /\ pc[o] = "strip"
    /\ StripApp(o)
    /\ \/ AppOf(o) # "absent" /\ GoTo(o, "delete") /\ UNCHANGED <<unfinished, want, shared>>
       \/ AppOf(o) = "absent" /\ EndDetach(o, FALSE)
    /\ UNCHANGED <<controllerVars, deployed, said, hub, spoke, faults>>

Strip(o) ==
    /\ pc[o] = "strip"
    /\ StripApp(o)
    /\ GoTo(o, "delete")
    /\ UNCHANGED <<controllerVars, deployed, said, hub, spoke, want, shared, unfinished, faults>>

Delete(o) ==
    /\ pc[o] = "delete"
    /\ DeleteApp(o)
    /\ GoTo(o, "gone")
    /\ UNCHANGED <<controllerVars, deployed, said, hub, spoke, want, shared, unfinished, faults>>

\* kubectl delete returns when the object is gone.
Gone(o) ==
    /\ pc[o] = "gone"
    /\ AppOf(o) # "deleting"
    /\ GoTo(o, "unkey")
    /\ UNCHANGED <<controllerVars, objects, deployed, said, hub, spoke, want, shared, unfinished, faults>>

\* A mutant: the rights are always removed.
UnkeyAndUnbind(o) ==
    /\ pc[o] = "unkey"
    /\ DeleteKey(o)
    /\ GoTo(o, "unbind")
    /\ UNCHANGED <<controllerVars, deployed, said, hub, spoke, want, shared, unfinished, faults>>

Unkey(o) ==
    /\ pc[o] = "unkey"
    /\ DeleteKey(o)
    /\ \/ shared[o] /\ GoTo(o, "unbind") /\ UNCHANGED <<unfinished, want, shared>>
       \/ ~shared[o] /\ EndDetach(o, TRUE)
    /\ UNCHANGED <<controllerVars, deployed, said, hub, spoke, faults>>

Unbind(o) ==
    /\ pc[o] = "unbind"
    /\ DeleteRbac(o)
    /\ EndDetach(o, TRUE)
    /\ UNCHANGED <<controllerVars, deployed, said, hub, spoke, faults>>

\* A mutant: the exit code of the patch is ignored.
DetachFailsUnseen(o) ==
    /\ Fault
    /\ \/ /\ pc[o] = "strip"
          /\ GoTo(o, "delete")
          /\ UNCHANGED <<unfinished, want, shared>>
       \/ /\ pc[o] \in {"delete", "gone", "unkey", "unbind"}
          /\ EndDetach(o, FALSE)
    /\ UNCHANGED <<controllerVars, objects, deployed, said, hub, spoke>>

\* A step fails, with or without its effect, and the command stops.
DetachFails(o) ==
    /\ Fault
    /\ \/ pc[o] \in {"strip", "delete", "gone", "unkey", "unbind"} /\ UNCHANGED objects
       \/ pc[o] = "strip" /\ StripApp(o)
       \/ pc[o] = "delete" /\ DeleteApp(o)
       \/ pc[o] = "unkey" /\ DeleteKey(o)
       \/ pc[o] = "unbind" /\ DeleteRbac(o)
    /\ EndDetach(o, FALSE)
    /\ UNCHANGED <<controllerVars, deployed, said, hub, spoke>>
-----------------------------------------------------------------------------
\* What else gives a hub a spoke to write to

\* make register-spoke: the rights, and a credential that has them.
RegisterSpoke(h, s) ==
    /\ Overlap \/ Quiet
    /\ said[h] = "paused" \/ Yielded(h, s)
    /\ key' = [key EXCEPT ![h] = @ \cup {s}]
    /\ rbac' = rbac \cup {s}
    /\ UNCHANGED <<controllerVars, app, doomed, deployed, said, commandVars, unfinished, faults>>

\* make deploy-apps: all Applications, with their finalizer.  One that is being
\* deleted stays so.
DeployApps(h) ==
    /\ Overlap \/ Quiet
    /\ app' = [app EXCEPT ![h] =
                 [s \in Spokes |-> IF @[s] = "deleting" THEN "deleting" ELSE "guarded"]]
    /\ UNCHANGED <<controllerVars, key, rbac, doomed, deployed, said, commandVars, unfinished, faults>>

\* kubectl delete application, or the button of Argo CD's web interface: the
\* spoke is to be pruned.
DeleteByHand(h, s) ==
    /\ Overlap \/ Quiet
    /\ app[h][s] = "guarded"
    /\ Fault
    /\ app' = [app EXCEPT ![h][s] = "deleting"]
    /\ doomed' = doomed \cup {<<h, s>>}
    /\ UNCHANGED <<controllerVars, key, rbac, deployed, said, commandVars, unfinished>>

-----------------------------------------------------------------------------
\* Kubernetes: the StatefulSet and its pod

SetPod(h, phase) ==
    /\ pod' = [pod EXCEPT ![h] = phase]
    /\ UNCHANGED <<replicas, objects, deployed, said, commandVars, unfinished>>

PodCreated(h) == pod[h] = "none" /\ replicas[h] = 1 /\ SetPod(h, "pending") /\ UNCHANGED faults

PodRuns(h) == pod[h] = "pending" /\ SetPod(h, "running") /\ UNCHANGED faults

PodDeleted(h) ==
    /\ pod[h] \in {"pending", "running"}
    /\ replicas[h] = 0
    /\ SetPod(h, "terminating")
    /\ UNCHANGED faults

PodGone(h) == pod[h] = "terminating" /\ SetPod(h, "none") /\ UNCHANGED faults

\* An eviction, a node that goes, or `make restart-argocd`.
PodEvicted(h) == pod[h] \in {"pending", "running"} /\ Fault /\ SetPod(h, "terminating")

-----------------------------------------------------------------------------
\* Argo CD: the application-controller

Reaches(h, s) == Alive(h) /\ s \in key[h] /\ s \in rbac

Sync(h, s) ==
    /\ Reaches(h, s)
    /\ app[h][s] \in {"guarded", "bare"}
    /\ deployed' = [deployed EXCEPT ![s] = h]
    /\ UNCHANGED <<controllerVars, objects, said, commandVars, unfinished, faults>>

\* The finalizer of an Application that is deleted.
Cascade(h, s) ==
    /\ Reaches(h, s)
    /\ app[h][s] = "deleting"
    /\ app' = [app EXCEPT ![h][s] = "absent"]
    /\ deployed' = [deployed EXCEPT ![s] = "pruned"]
    /\ doomed' = doomed \ {<<h, s>>}
    /\ UNCHANGED <<controllerVars, key, rbac, said, commandVars, unfinished, faults>>

-----------------------------------------------------------------------------
Scaling(o) ==
    \/ Scale(o) \/ ScaleFails(o) \/ WaitEnds(o) \/ WaitFails(o)
    \/ Drain(o) \/ Install(o) \/ InstallFails(o)

Detaching(o) ==
    \/ Strip(o) \/ Delete(o) \/ Gone(o) \/ Unkey(o) \/ Unbind(o) \/ DetachFails(o)

Pods(h) == PodCreated(h) \/ PodRuns(h) \/ PodDeleted(h) \/ PodGone(h)

Next ==
    \/ \E o \in Operators, h \in Hubs :
          \/ \E n \in {0, 1} : StartScale(o, h, n)
          \/ StartInstall(o, h)
          \/ \E s \in Spokes, everything \in BOOLEAN : StartDetach(o, h, s, everything)
    \/ \E o \in Operators : Scaling(o) \/ Detaching(o)
    \/ \E h \in Hubs : Pods(h) \/ PodEvicted(h) \/ DeployApps(h)
    \/ \E h \in Hubs, s \in Spokes :
          RegisterSpoke(h, s) \/ DeleteByHand(h, s) \/ Sync(h, s) \/ Cascade(h, s)

Spec == Init /\ [][Next]_vars

\* A command that runs goes on, the cluster does what is asked of it, and a
\* detachment that ended in an error is run again, as its message has it.
FairSpec ==
    /\ Spec
    /\ \A o \in Operators : WF_vars(Scaling(o)) /\ WF_vars(Detaching(o))
    /\ \A h \in Hubs : WF_vars(Pods(h))
    /\ \A o \in Operators, h \in Hubs, s \in Spokes :
          SF_vars(<<h, s>> \in unfinished /\ StartDetach(o, h, s, FALSE))

-----------------------------------------------------------------------------
\* What must hold

\* Every variable has its type; only a command that was asked to goes on to the
\* rights that all hubs share.
TypeOK ==
    /\ replicas \in [Hubs -> {0, 1}]
    /\ pod \in [Hubs -> {"none", "pending", "running", "terminating"}]
    /\ app \in [Hubs -> [Spokes -> AppStates]]
    /\ key \in [Hubs -> SUBSET Spokes]
    /\ rbac \subseteq Spokes
    /\ deployed \in [Spokes -> Hubs \cup {"pruned"}]
    /\ said \in [Hubs -> {"nothing", "paused", "resumed"}]
    /\ pc \in [Operators -> {"idle", "scale", "wait", "drain", "install",
                             "strip", "delete", "gone", "unkey", "unbind"}]
    /\ hub \in [Operators -> Hubs]
    /\ spoke \in [Operators -> Spokes]
    /\ want \in [Operators -> {0, 1}]
    /\ shared \in [Operators -> BOOLEAN]
    /\ \A o \in Operators : pc[o] = "unbind" => shared[o]
    /\ unfinished \subseteq Hubs \X Spokes
    /\ doomed \subseteq Hubs \X Spokes
    /\ faults \in Nat

\* A hub that was reported paused does not write, and goes on not to: no pod is
\* left, and none will be created (wait_for_pods, and the scaling before it).
PauseHolds == \A h \in Hubs : said[h] = "paused" => pod[h] = "none"

\* "Exactly one may write to any given spoke at any moment": no two hubs that
\* both run their controller, Application and credential for it.
Writes(h, s) == Reaches(h, s) /\ app[h][s] # "absent"

SingleWriter ==
    \A s \in Spokes : \A g, h \in Hubs : Writes(g, s) /\ Writes(h, s) => g = h

\* Detaching a hub never prunes the spoke (unregister_spoke: the finalizer goes
\* before the Application, or nothing does): the workloads go only when a person
\* has deleted an Application.
WorkloadsStay ==
    [][\A s \in Spokes :
          deployed'[s] = "pruned" => \/ deployed[s] = "pruned"
                                     \/ \E h \in Hubs : <<h, s>> \in doomed]_vars

\* A detachment that ends well has left this hub neither the Application nor the
\* credential, however often it had failed before.
EndsWell(o) ==
    /\ pc[o] \in {"strip", "delete", "gone", "unkey", "unbind"}
    /\ pc'[o] = "idle"
    /\ <<hub[o], spoke[o]>> \notin unfinished'

DetachedIsDetached ==
    [][\A o \in Operators :
          EndsWell(o) => /\ app'[hub[o]][spoke[o]] = "absent"
                         /\ spoke[o] \notin key'[hub[o]]]_vars

\* A detachment that stopped half-way is completed by running it again.
DetachCompletes == <>[](unfinished = {})

\* A hub that was reported resumed comes to run, unless a later command stops
\* it: a resume that did not take would leave the spoke without a writer.
ResumeTakes ==
    \A h \in Hubs : (said[h] = "resumed") ~> (pod[h] = "running" \/ said[h] # "resumed")

=============================================================================
