-------------------------- MODULE HubHandoverProofs --------------------------
(****************************************************************************)
(* What holds of HubHandover for any hubs, spokes and operators, and any    *)
(* number of failures.                                                      *)
(****************************************************************************)
EXTENDS HubHandover, TLAPS

\* Every variable keeps its type.
THEOREM TypeCorrect == Spec => []TypeOK
<1>1. Init => TypeOK
  BY DEF Init, TypeOK, AppStates
<1>2. TypeOK /\ [Next]_vars => TypeOK'
  <2> SUFFICES ASSUME TypeOK, [Next]_vars PROVE TypeOK'
    OBVIOUS
  <2> USE DEF TypeOK, AppStates, controllerVars, objects, commandVars, GoTo
  <2>1. ASSUME NEW o \in Operators, NEW h \in Hubs, NEW n \in {0, 1}, StartScale(o, h, n) PROVE TypeOK'
    BY <2>1 DEF StartScale, MayStart, Supersede
  <2>2. ASSUME NEW o \in Operators, NEW h \in Hubs, StartInstall(o, h) PROVE TypeOK'
    BY <2>2 DEF StartInstall, MayStart, Supersede
  <2>3. ASSUME NEW o \in Operators, NEW h \in Hubs, NEW s \in Spokes, NEW e \in BOOLEAN, StartDetach(o, h, s, e) PROVE TypeOK'
    BY <2>3 DEF StartDetach, MayStart
  <2>4. ASSUME NEW o \in Operators, Scale(o) PROVE TypeOK'
    BY <2>4 DEF Scale, SetReplicas
  <2>5. ASSUME NEW o \in Operators, ScaleFails(o) PROVE TypeOK'
    <3>1. faults' \in Nat
      BY <2>5 DEF ScaleFails, Fault
    <3>2. replicas' \in [Hubs -> {0, 1}]
      BY <2>5 DEF ScaleFails, SetReplicas
    <3> QED
      BY <2>5, <3>1, <3>2 DEF ScaleFails, Leave
  <2>6. ASSUME NEW o \in Operators, WaitEnds(o) PROVE TypeOK'
    BY <2>6 DEF WaitEnds, Leave
  <2>7. ASSUME NEW o \in Operators, WaitFails(o) PROVE TypeOK'
    <3>1. faults' \in Nat
      BY <2>7 DEF WaitFails, Fault
    <3>2. replicas' \in [Hubs -> {0, 1}]
      BY <2>7 DEF WaitFails, SetReplicas
    <3> QED
      BY <2>7, <3>1, <3>2 DEF WaitFails, Leave
  <2>8. ASSUME NEW o \in Operators, Drain(o) PROVE TypeOK'
    <3>1. faults' \in Nat
      BY <2>8 DEF Drain, Fault
    <3>2. replicas' \in [Hubs -> {0, 1}]
      BY <2>8 DEF Drain, SetReplicas
    <3> QED
      BY <2>8, <3>1, <3>2 DEF Drain
  <2>9. ASSUME NEW o \in Operators, Install(o) PROVE TypeOK'
    BY <2>9 DEF Install, SetReplicas, Leave
  <2>10. ASSUME NEW o \in Operators, InstallFails(o) PROVE TypeOK'
    <3>1. faults' \in Nat
      BY <2>10 DEF InstallFails, Fault
    <3>2. replicas' \in [Hubs -> {0, 1}]
      BY <2>10 DEF InstallFails, SetReplicas
    <3> QED
      BY <2>10, <3>1, <3>2 DEF InstallFails, Leave
  <2>11. ASSUME NEW o \in Operators, Strip(o) PROVE TypeOK'
    BY <2>11 DEF Strip, StripApp, SetApp, AppOf
  <2>12. ASSUME NEW o \in Operators, Delete(o) PROVE TypeOK'
    BY <2>12 DEF Delete, DeleteApp, SetApp, AppOf
  <2>13. ASSUME NEW o \in Operators, Gone(o) PROVE TypeOK'
    BY <2>13 DEF Gone, AppOf
  <2>14. ASSUME NEW o \in Operators, Unkey(o) PROVE TypeOK'
    <3>1. key' \in [Hubs -> SUBSET Spokes] /\ unfinished' \subseteq Hubs \X Spokes
      BY <2>14 DEF Unkey, DeleteKey, EndDetach
    <3>2. CASE shared[o] /\ GoTo(o, "unbind") /\ UNCHANGED <<unfinished, want, shared>>
      BY <2>14, <3>1, <3>2 DEF Unkey, DeleteKey
    <3>3. CASE EndDetach(o, TRUE)
      BY <2>14, <3>1, <3>3 DEF Unkey, DeleteKey, EndDetach, Leave
    <3> QED
      BY <2>14, <3>2, <3>3 DEF Unkey
  <2>15. ASSUME NEW o \in Operators, Unbind(o) PROVE TypeOK'
    BY <2>15 DEF Unbind, DeleteRbac, EndDetach, Leave
  <2>16. ASSUME NEW o \in Operators, DetachFails(o) PROVE TypeOK'
    <3>1. faults' \in Nat
      BY <2>16 DEF DetachFails, Fault
    <3>2. /\ EndDetach(o, FALSE)
          /\ UNCHANGED <<replicas, pod, deployed, said, hub, spoke>>
          /\ \/ UNCHANGED <<app, key, rbac, doomed>>
             \/ StripApp(o) \/ DeleteApp(o) \/ DeleteKey(o) \/ DeleteRbac(o)
      BY <2>16 DEF DetachFails
    <3>3. app' \in [Hubs -> [Spokes -> AppStates]]
      BY <3>2 DEF StripApp, DeleteApp, DeleteKey, DeleteRbac, SetApp, AppOf
    <3>4. key' \in [Hubs -> SUBSET Spokes] /\ rbac' \subseteq Spokes
      BY <3>2 DEF StripApp, DeleteApp, DeleteKey, DeleteRbac
    <3>5. doomed' \subseteq Hubs \X Spokes
      BY <3>2 DEF StripApp, DeleteApp, DeleteKey, DeleteRbac
    <3> QED
      BY <3>1, <3>2, <3>3, <3>4, <3>5 DEF EndDetach, Leave
  <2>17. ASSUME NEW h \in Hubs, NEW s \in Spokes, RegisterSpoke(h, s) PROVE TypeOK'
    BY <2>17 DEF RegisterSpoke
  <2>18. ASSUME NEW h \in Hubs, DeployApps(h) PROVE TypeOK'
    BY <2>18 DEF DeployApps
  <2>19. ASSUME NEW h \in Hubs, NEW s \in Spokes, DeleteByHand(h, s) PROVE TypeOK'
    BY <2>19 DEF DeleteByHand, Fault
  <2>20. ASSUME NEW h \in Hubs, PodCreated(h) PROVE TypeOK'
    BY <2>20 DEF PodCreated, SetPod
  <2>21. ASSUME NEW h \in Hubs, PodRuns(h) PROVE TypeOK'
    BY <2>21 DEF PodRuns, SetPod
  <2>22. ASSUME NEW h \in Hubs, PodDeleted(h) PROVE TypeOK'
    BY <2>22 DEF PodDeleted, SetPod
  <2>23. ASSUME NEW h \in Hubs, PodGone(h) PROVE TypeOK'
    BY <2>23 DEF PodGone, SetPod
  <2>24. ASSUME NEW h \in Hubs, PodEvicted(h) PROVE TypeOK'
    BY <2>24 DEF PodEvicted, SetPod, Fault
  <2>25. ASSUME NEW h \in Hubs, NEW s \in Spokes, Sync(h, s) PROVE TypeOK'
    BY <2>25 DEF Sync, Reaches
  <2>26. ASSUME NEW h \in Hubs, NEW s \in Spokes, Cascade(h, s) PROVE TypeOK'
    BY <2>26 DEF Cascade, Reaches
  <2>27. CASE UNCHANGED vars
    BY <2>27 DEF vars
  <2> HIDE DEF TypeOK, AppStates, controllerVars, objects, commandVars, GoTo
  <2> QED
    BY <2>1, <2>2, <2>3, <2>4, <2>5, <2>6, <2>7, <2>8, <2>9, <2>10, <2>11, <2>12, <2>13, <2>14,
       <2>15, <2>16, <2>17, <2>18, <2>19, <2>20, <2>21, <2>22, <2>23, <2>24, <2>25, <2>26,
       <2>27
    DEF Next, Scaling, Detaching, Pods
<1> QED
  BY <1>1, <1>2, PTL DEF Spec
-----------------------------------------------------------------------------
(****************************************************************************)
(* The rest is about commands that run one at a time.  The invariant says   *)
(* of the command that runs how far it has come, of a paused hub that       *)
(* nothing is left of its controller and nothing wanted, and of two hubs    *)
(* with credentials for one spoke that one of them is paused.               *)
(****************************************************************************)

OneAtATime == \A o, p \in Operators : pc[o] # "idle" /\ pc[p] # "idle" => o = p

Stopped(h) == said[h] = "paused" => replicas[h] = 0 /\ pod[h] = "none"

\* A command that stops, or starts, the controller of its hub.
Stopping(o) == pc[o] = "wait" /\ want[o] = 0

Starting(o) ==
    \/ pc[o] \in {"scale", "wait"} /\ want[o] = 1
    \/ pc[o] \in {"drain", "install"}

PausesAreKept ==
    /\ \A h \in Hubs : Stopped(h)
    /\ \A o \in Operators : Stopping(o) => replicas[hub[o]] = 0
    /\ \A o \in Operators : Starting(o) => said[hub[o]] # "paused"

HubsYield ==
    \A g, h \in Hubs, s \in Spokes :
        g # h /\ s \in key[g] /\ s \in key[h] => said[g] = "paused" \/ said[h] = "paused"

\* What a detachment has left of its Application and its credential.
Staged(o) ==
    /\ pc[o] = "delete" => AppOf(o) \in {"bare", "absent"}
    /\ pc[o] \in {"gone", "unkey", "unbind"} => AppOf(o) = "absent"
    /\ pc[o] = "unbind" => spoke[o] \notin key[hub[o]]

\* Only what a person has deleted is being deleted.
DyingIsDoomed == \A h \in Hubs, s \in Spokes : app[h][s] = "deleting" => <<h, s>> \in doomed

DetachmentsAreStaged == DyingIsDoomed /\ \A o \in Operators : Staged(o)

Sound ==
    /\ OneAtATime
    /\ PausesAreKept
    /\ HubsYield
    /\ DetachmentsAreStaged

\* A command starts only when no other runs.
LEMMA OneAtATimeStep ==
    ASSUME ~Overlap, TypeOK, OneAtATime, [Next]_vars
    PROVE  OneAtATime'
<1> USE DEF TypeOK, OneAtATime, Quiet, controllerVars, objects, commandVars, GoTo
<1>1. ASSUME NEW o \in Operators, NEW h \in Hubs, NEW n \in {0, 1}, StartScale(o, h, n) PROVE OneAtATime'
  BY <1>1 DEF StartScale, MayStart, Supersede
<1>2. ASSUME NEW o \in Operators, NEW h \in Hubs, StartInstall(o, h) PROVE OneAtATime'
  BY <1>2 DEF StartInstall, MayStart, Supersede
<1>3. ASSUME NEW o \in Operators, NEW h \in Hubs, NEW s \in Spokes, NEW e \in BOOLEAN, StartDetach(o, h, s, e) PROVE OneAtATime'
  BY <1>3 DEF StartDetach, MayStart
<1>4. ASSUME NEW o \in Operators, Scale(o) PROVE OneAtATime'
  BY <1>4 DEF Scale, SetReplicas
<1>5. ASSUME NEW o \in Operators, ScaleFails(o) PROVE OneAtATime'
  BY <1>5 DEF ScaleFails, SetReplicas, Leave, Fault
<1>6. ASSUME NEW o \in Operators, WaitEnds(o) PROVE OneAtATime'
  BY <1>6 DEF WaitEnds, Leave
<1>7. ASSUME NEW o \in Operators, WaitFails(o) PROVE OneAtATime'
  BY <1>7 DEF WaitFails, Leave, Fault
<1>8. ASSUME NEW o \in Operators, Drain(o) PROVE OneAtATime'
  BY <1>8 DEF Drain, SetReplicas, Fault
<1>9. ASSUME NEW o \in Operators, Install(o) PROVE OneAtATime'
  BY <1>9 DEF Install, SetReplicas, Leave
<1>10. ASSUME NEW o \in Operators, InstallFails(o) PROVE OneAtATime'
  BY <1>10 DEF InstallFails, SetReplicas, Leave, Fault
<1>11. ASSUME NEW o \in Operators, Strip(o) PROVE OneAtATime'
  BY <1>11 DEF Strip, StripApp, SetApp, AppOf
<1>12. ASSUME NEW o \in Operators, Delete(o) PROVE OneAtATime'
  BY <1>12 DEF Delete, DeleteApp, SetApp, AppOf
<1>13. ASSUME NEW o \in Operators, Gone(o) PROVE OneAtATime'
  BY <1>13 DEF Gone, AppOf
<1>14. ASSUME NEW o \in Operators, Unkey(o) PROVE OneAtATime'
  <2>1. pc[o] # "idle" /\ pc' \in {[pc EXCEPT ![o] = "unbind"], [pc EXCEPT ![o] = "idle"]}
    BY <1>14 DEF Unkey, EndDetach, Leave
  <2> QED
    BY <2>1
<1>15. ASSUME NEW o \in Operators, Unbind(o) PROVE OneAtATime'
  BY <1>15 DEF Unbind, DeleteRbac, EndDetach, Leave
<1>16. ASSUME NEW o \in Operators, DetachFails(o) PROVE OneAtATime'
  BY <1>16 DEF DetachFails, StripApp, DeleteApp, DeleteKey, DeleteRbac, SetApp, AppOf,
     EndDetach, Leave, Fault
<1>17. ASSUME NEW h \in Hubs, NEW s \in Spokes, RegisterSpoke(h, s) PROVE OneAtATime'
  BY <1>17 DEF RegisterSpoke
<1>18. ASSUME NEW h \in Hubs, DeployApps(h) PROVE OneAtATime'
  BY <1>18 DEF DeployApps
<1>19. ASSUME NEW h \in Hubs, NEW s \in Spokes, DeleteByHand(h, s) PROVE OneAtATime'
  BY <1>19 DEF DeleteByHand, Fault
<1>20. ASSUME NEW h \in Hubs, PodCreated(h) PROVE OneAtATime'
  BY <1>20 DEF PodCreated, SetPod
<1>21. ASSUME NEW h \in Hubs, PodRuns(h) PROVE OneAtATime'
  BY <1>21 DEF PodRuns, SetPod
<1>22. ASSUME NEW h \in Hubs, PodDeleted(h) PROVE OneAtATime'
  BY <1>22 DEF PodDeleted, SetPod
<1>23. ASSUME NEW h \in Hubs, PodGone(h) PROVE OneAtATime'
  BY <1>23 DEF PodGone, SetPod
<1>24. ASSUME NEW h \in Hubs, PodEvicted(h) PROVE OneAtATime'
  BY <1>24 DEF PodEvicted, SetPod, Fault
<1>25. ASSUME NEW h \in Hubs, NEW s \in Spokes, Sync(h, s) PROVE OneAtATime'
  BY <1>25 DEF Sync, Reaches
<1>26. ASSUME NEW h \in Hubs, NEW s \in Spokes, Cascade(h, s) PROVE OneAtATime'
  BY <1>26 DEF Cascade, Reaches
<1>27. CASE UNCHANGED vars
  BY <1>27 DEF vars
<1> HIDE DEF TypeOK, OneAtATime, Quiet, controllerVars, objects, commandVars, GoTo
<1> QED
  BY <1>1, <1>2, <1>3, <1>4, <1>5, <1>6, <1>7, <1>8, <1>9, <1>10, <1>11, <1>12, <1>13, <1>14,
     <1>15, <1>16, <1>17, <1>18, <1>19, <1>20, <1>21, <1>22, <1>23, <1>24, <1>25, <1>26,
     <1>27
  DEF Next, Scaling, Detaching, Pods

\* What stops a hub is asked of it before its pods are waited for, and nothing starts
\* a hub while it is said to be paused.
LEMMA PausesStep ==
    ASSUME ~Overlap, TypeOK, OneAtATime, PausesAreKept, [Next]_vars
    PROVE  PausesAreKept'
<1> USE DEF TypeOK, OneAtATime, PausesAreKept, Stopped, Stopping, Starting, Quiet,
            controllerVars, objects, commandVars, GoTo
<1>1. ASSUME NEW o \in Operators, NEW h \in Hubs, NEW n \in {0, 1}, StartScale(o, h, n) PROVE PausesAreKept'
  BY <1>1 DEF StartScale, MayStart, Supersede
<1>2. ASSUME NEW o \in Operators, NEW h \in Hubs, StartInstall(o, h) PROVE PausesAreKept'
  BY <1>2 DEF StartInstall, MayStart, Supersede
<1>3. ASSUME NEW o \in Operators, NEW h \in Hubs, NEW s \in Spokes, NEW e \in BOOLEAN, StartDetach(o, h, s, e) PROVE PausesAreKept'
  BY <1>3 DEF StartDetach, MayStart
<1>4. ASSUME NEW o \in Operators, Scale(o) PROVE PausesAreKept'
  <2>1. \A p \in Operators \ {o} : pc[p] = "idle" /\ pc'[p] = "idle"
    BY <1>4 DEF Scale, Leave
  <2>2. \A h \in Hubs : Stopped(h)'
    BY <1>4 DEF Scale, SetReplicas
  <2>3. \A p \in Operators : Stopping(p)' => replicas'[hub'[p]] = 0
    BY <1>4, <2>1 DEF Scale, SetReplicas
  <2>4. \A p \in Operators : Starting(p)' => said'[hub'[p]] # "paused"
    BY <1>4, <2>1 DEF Scale, SetReplicas
  <2> QED
    BY <2>2, <2>3, <2>4
<1>5. ASSUME NEW o \in Operators, ScaleFails(o) PROVE PausesAreKept'
  <2>1. \A p \in Operators \ {o} : pc[p] = "idle" /\ pc'[p] = "idle"
    BY <1>5 DEF ScaleFails, Leave
  <2>2. \A h \in Hubs : Stopped(h)'
    BY <1>5 DEF ScaleFails, SetReplicas, Leave
  <2>3. \A p \in Operators : Stopping(p)' => replicas'[hub'[p]] = 0
    BY <1>5, <2>1 DEF ScaleFails, SetReplicas, Leave
  <2>4. \A p \in Operators : Starting(p)' => said'[hub'[p]] # "paused"
    BY <1>5, <2>1 DEF ScaleFails, SetReplicas, Leave
  <2> QED
    BY <2>2, <2>3, <2>4
<1>6. ASSUME NEW o \in Operators, WaitEnds(o) PROVE PausesAreKept'
  <2>1. \A p \in Operators \ {o} : pc[p] = "idle" /\ pc'[p] = "idle"
    BY <1>6 DEF WaitEnds, Leave
  <2>2. \A h \in Hubs : Stopped(h)'
    BY <1>6 DEF WaitEnds, Leave, Listed
  <2>3. \A p \in Operators : Stopping(p)' => replicas'[hub'[p]] = 0
    BY <1>6, <2>1 DEF WaitEnds, Leave, Listed
  <2>4. \A p \in Operators : Starting(p)' => said'[hub'[p]] # "paused"
    BY <1>6, <2>1 DEF WaitEnds, Leave, Listed
  <2> QED
    BY <2>2, <2>3, <2>4
<1>7. ASSUME NEW o \in Operators, WaitFails(o) PROVE PausesAreKept'
  BY <1>7 DEF WaitFails, Leave, Fault
<1>8. ASSUME NEW o \in Operators, Drain(o) PROVE PausesAreKept'
  BY <1>8 DEF Drain, SetReplicas, Fault
<1>9. ASSUME NEW o \in Operators, Install(o) PROVE PausesAreKept'
  <2>1. \A p \in Operators \ {o} : pc[p] = "idle" /\ pc'[p] = "idle"
    BY <1>9 DEF Install, Leave
  <2>2. \A h \in Hubs : Stopped(h)'
    BY <1>9 DEF Install, SetReplicas, Leave
  <2>3. \A p \in Operators : Stopping(p)' => replicas'[hub'[p]] = 0
    BY <1>9, <2>1 DEF Install, SetReplicas, Leave
  <2>4. \A p \in Operators : Starting(p)' => said'[hub'[p]] # "paused"
    BY <1>9, <2>1 DEF Install, SetReplicas, Leave
  <2> QED
    BY <2>2, <2>3, <2>4
<1>10. ASSUME NEW o \in Operators, InstallFails(o) PROVE PausesAreKept'
  <2>1. \A p \in Operators \ {o} : pc[p] = "idle" /\ pc'[p] = "idle"
    BY <1>10 DEF InstallFails, Leave
  <2>2. \A h \in Hubs : Stopped(h)'
    BY <1>10 DEF InstallFails, SetReplicas, Leave
  <2>3. \A p \in Operators : Stopping(p)' => replicas'[hub'[p]] = 0
    BY <1>10, <2>1 DEF InstallFails, SetReplicas, Leave
  <2>4. \A p \in Operators : Starting(p)' => said'[hub'[p]] # "paused"
    BY <1>10, <2>1 DEF InstallFails, SetReplicas, Leave
  <2> QED
    BY <2>2, <2>3, <2>4
<1>11. ASSUME NEW o \in Operators, Strip(o) PROVE PausesAreKept'
  BY <1>11 DEF Strip, StripApp, SetApp, AppOf
<1>12. ASSUME NEW o \in Operators, Delete(o) PROVE PausesAreKept'
  BY <1>12 DEF Delete, DeleteApp, SetApp, AppOf
<1>13. ASSUME NEW o \in Operators, Gone(o) PROVE PausesAreKept'
  BY <1>13 DEF Gone, AppOf
<1>14. ASSUME NEW o \in Operators, Unkey(o) PROVE PausesAreKept'
  BY <1>14 DEF Unkey, DeleteKey, EndDetach, Leave
<1>15. ASSUME NEW o \in Operators, Unbind(o) PROVE PausesAreKept'
  BY <1>15 DEF Unbind, DeleteRbac, EndDetach, Leave
<1>16. ASSUME NEW o \in Operators, DetachFails(o) PROVE PausesAreKept'
  BY <1>16 DEF DetachFails, StripApp, DeleteApp, DeleteKey, DeleteRbac, SetApp, AppOf,
     EndDetach, Leave, Fault
<1>17. ASSUME NEW h \in Hubs, NEW s \in Spokes, RegisterSpoke(h, s) PROVE PausesAreKept'
  BY <1>17 DEF RegisterSpoke
<1>18. ASSUME NEW h \in Hubs, DeployApps(h) PROVE PausesAreKept'
  BY <1>18 DEF DeployApps
<1>19. ASSUME NEW h \in Hubs, NEW s \in Spokes, DeleteByHand(h, s) PROVE PausesAreKept'
  BY <1>19 DEF DeleteByHand, Fault
<1>20. ASSUME NEW h \in Hubs, PodCreated(h) PROVE PausesAreKept'
  BY <1>20 DEF PodCreated, SetPod
<1>21. ASSUME NEW h \in Hubs, PodRuns(h) PROVE PausesAreKept'
  BY <1>21 DEF PodRuns, SetPod
<1>22. ASSUME NEW h \in Hubs, PodDeleted(h) PROVE PausesAreKept'
  BY <1>22 DEF PodDeleted, SetPod
<1>23. ASSUME NEW h \in Hubs, PodGone(h) PROVE PausesAreKept'
  BY <1>23 DEF PodGone, SetPod
<1>24. ASSUME NEW h \in Hubs, PodEvicted(h) PROVE PausesAreKept'
  BY <1>24 DEF PodEvicted, SetPod, Fault
<1>25. ASSUME NEW h \in Hubs, NEW s \in Spokes, Sync(h, s) PROVE PausesAreKept'
  BY <1>25 DEF Sync, Reaches
<1>26. ASSUME NEW h \in Hubs, NEW s \in Spokes, Cascade(h, s) PROVE PausesAreKept'
  BY <1>26 DEF Cascade, Reaches
<1>27. CASE UNCHANGED vars
  BY <1>27 DEF vars
<1> HIDE DEF TypeOK, OneAtATime, PausesAreKept, Stopped, Stopping, Starting, Quiet,
             controllerVars, objects, commandVars, GoTo
<1> QED
  BY <1>1, <1>2, <1>3, <1>4, <1>5, <1>6, <1>7, <1>8, <1>9, <1>10, <1>11, <1>12, <1>13, <1>14,
     <1>15, <1>16, <1>17, <1>18, <1>19, <1>20, <1>21, <1>22, <1>23, <1>24, <1>25, <1>26,
     <1>27
  DEF Next, Scaling, Detaching, Pods

\* A hub is given a spoke, or started, only when the others are paused.
LEMMA YieldStep ==
    ASSUME ~Overlap, TypeOK, OneAtATime, PausesAreKept, HubsYield, [Next]_vars
    PROVE  HubsYield'
<1> USE DEF TypeOK, HubsYield, controllerVars, objects, commandVars, GoTo
<1>1. ASSUME NEW o \in Operators, NEW h \in Hubs, NEW n \in {0, 1}, StartScale(o, h, n) PROVE HubsYield'
  BY <1>1 DEF StartScale, MayStart, Supersede, MayRun, Yielded, Others
<1>2. ASSUME NEW o \in Operators, NEW h \in Hubs, StartInstall(o, h) PROVE HubsYield'
  BY <1>2 DEF StartInstall, MayStart, Supersede, MayRun, Yielded, Others
<1>3. ASSUME NEW o \in Operators, NEW h \in Hubs, NEW s \in Spokes, NEW e \in BOOLEAN, StartDetach(o, h, s, e) PROVE HubsYield'
  BY <1>3 DEF StartDetach, MayStart
<1>4. ASSUME NEW o \in Operators, Scale(o) PROVE HubsYield'
  BY <1>4 DEF Scale, SetReplicas
<1>5. ASSUME NEW o \in Operators, ScaleFails(o) PROVE HubsYield'
  BY <1>5 DEF ScaleFails, SetReplicas, Leave, Fault
<1>6. ASSUME NEW o \in Operators, WaitEnds(o) PROVE HubsYield'
  BY <1>6 DEF WaitEnds, Leave, PausesAreKept, Starting
<1>7. ASSUME NEW o \in Operators, WaitFails(o) PROVE HubsYield'
  BY <1>7 DEF WaitFails, Leave, Fault
<1>8. ASSUME NEW o \in Operators, Drain(o) PROVE HubsYield'
  BY <1>8 DEF Drain, SetReplicas, Fault
<1>9. ASSUME NEW o \in Operators, Install(o) PROVE HubsYield'
  BY <1>9 DEF Install, SetReplicas, Leave
<1>10. ASSUME NEW o \in Operators, InstallFails(o) PROVE HubsYield'
  BY <1>10 DEF InstallFails, SetReplicas, Leave, Fault
<1>11. ASSUME NEW o \in Operators, Strip(o) PROVE HubsYield'
  BY <1>11 DEF Strip, StripApp, SetApp, AppOf
<1>12. ASSUME NEW o \in Operators, Delete(o) PROVE HubsYield'
  BY <1>12 DEF Delete, DeleteApp, SetApp, AppOf
<1>13. ASSUME NEW o \in Operators, Gone(o) PROVE HubsYield'
  BY <1>13 DEF Gone, AppOf
<1>14. ASSUME NEW o \in Operators, Unkey(o) PROVE HubsYield'
  BY <1>14 DEF Unkey, DeleteKey, EndDetach, Leave
<1>15. ASSUME NEW o \in Operators, Unbind(o) PROVE HubsYield'
  BY <1>15 DEF Unbind, DeleteRbac, EndDetach, Leave
<1>16. ASSUME NEW o \in Operators, DetachFails(o) PROVE HubsYield'
  <2>1. UNCHANGED said
    BY <1>16 DEF DetachFails
  <2>2. \A h \in Hubs : key'[h] \subseteq key[h]
    <3>1. UNCHANGED key \/ DeleteKey(o)
      BY <1>16 DEF DetachFails, StripApp, DeleteApp, DeleteRbac
    <3> QED
      <4> SUFFICES ASSUME NEW h \in Hubs PROVE key'[h] \subseteq key[h]
        OBVIOUS
      <4>1. key' = key \/ key' = [key EXCEPT ![hub[o]] = key[hub[o]] \ {spoke[o]}]
        BY <3>1 DEF DeleteKey
      <4>2. key \in [Hubs -> SUBSET Spokes] /\ hub[o] \in Hubs
        OBVIOUS
      <4> HIDE DEF TypeOK, HubsYield
      <4>3. CASE h = hub[o]
        BY <4>1, <4>2, <4>3
      <4>4. CASE h # hub[o]
        BY <4>1, <4>2, <4>4
      <4> QED
        BY <4>3, <4>4
  <2> QED
    BY <2>1, <2>2
<1>17. ASSUME NEW h \in Hubs, NEW s \in Spokes, RegisterSpoke(h, s) PROVE HubsYield'
  BY <1>17 DEF RegisterSpoke, Yielded, Others
<1>18. ASSUME NEW h \in Hubs, DeployApps(h) PROVE HubsYield'
  BY <1>18 DEF DeployApps
<1>19. ASSUME NEW h \in Hubs, NEW s \in Spokes, DeleteByHand(h, s) PROVE HubsYield'
  BY <1>19 DEF DeleteByHand, Fault
<1>20. ASSUME NEW h \in Hubs, PodCreated(h) PROVE HubsYield'
  BY <1>20 DEF PodCreated, SetPod
<1>21. ASSUME NEW h \in Hubs, PodRuns(h) PROVE HubsYield'
  BY <1>21 DEF PodRuns, SetPod
<1>22. ASSUME NEW h \in Hubs, PodDeleted(h) PROVE HubsYield'
  BY <1>22 DEF PodDeleted, SetPod
<1>23. ASSUME NEW h \in Hubs, PodGone(h) PROVE HubsYield'
  BY <1>23 DEF PodGone, SetPod
<1>24. ASSUME NEW h \in Hubs, PodEvicted(h) PROVE HubsYield'
  BY <1>24 DEF PodEvicted, SetPod, Fault
<1>25. ASSUME NEW h \in Hubs, NEW s \in Spokes, Sync(h, s) PROVE HubsYield'
  BY <1>25 DEF Sync, Reaches
<1>26. ASSUME NEW h \in Hubs, NEW s \in Spokes, Cascade(h, s) PROVE HubsYield'
  BY <1>26 DEF Cascade, Reaches
<1>27. CASE UNCHANGED vars
  BY <1>27 DEF vars
<1> HIDE DEF TypeOK, HubsYield, controllerVars, objects, commandVars, GoTo
<1> QED
  BY <1>1, <1>2, <1>3, <1>4, <1>5, <1>6, <1>7, <1>8, <1>9, <1>10, <1>11, <1>12, <1>13, <1>14,
     <1>15, <1>16, <1>17, <1>18, <1>19, <1>20, <1>21, <1>22, <1>23, <1>24, <1>25, <1>26,
     <1>27
  DEF Next, Scaling, Detaching, Pods

\* Each call of a detachment leaves what the next one relies on.
LEMMA StagedStep ==
    ASSUME ~Overlap, TypeOK, OneAtATime, DetachmentsAreStaged, [Next]_vars
    PROVE  DetachmentsAreStaged'
<1> USE DEF TypeOK, AppStates, OneAtATime, DetachmentsAreStaged, DyingIsDoomed, Staged, AppOf,
            Quiet, controllerVars, objects, commandVars, GoTo
<1>1. ASSUME NEW o \in Operators, NEW h \in Hubs, NEW n \in {0, 1}, StartScale(o, h, n) PROVE DetachmentsAreStaged'
  BY <1>1 DEF StartScale, MayStart, Supersede
<1>2. ASSUME NEW o \in Operators, NEW h \in Hubs, StartInstall(o, h) PROVE DetachmentsAreStaged'
  BY <1>2 DEF StartInstall, MayStart, Supersede
<1>3. ASSUME NEW o \in Operators, NEW h \in Hubs, NEW s \in Spokes, NEW e \in BOOLEAN, StartDetach(o, h, s, e) PROVE DetachmentsAreStaged'
  BY <1>3 DEF StartDetach, MayStart
<1>4. ASSUME NEW o \in Operators, Scale(o) PROVE DetachmentsAreStaged'
  BY <1>4 DEF Scale, SetReplicas
<1>5. ASSUME NEW o \in Operators, ScaleFails(o) PROVE DetachmentsAreStaged'
  BY <1>5 DEF ScaleFails, SetReplicas, Leave, Fault
<1>6. ASSUME NEW o \in Operators, WaitEnds(o) PROVE DetachmentsAreStaged'
  BY <1>6 DEF WaitEnds, Leave
<1>7. ASSUME NEW o \in Operators, WaitFails(o) PROVE DetachmentsAreStaged'
  BY <1>7 DEF WaitFails, Leave, Fault
<1>8. ASSUME NEW o \in Operators, Drain(o) PROVE DetachmentsAreStaged'
  BY <1>8 DEF Drain, SetReplicas, Fault
<1>9. ASSUME NEW o \in Operators, Install(o) PROVE DetachmentsAreStaged'
  BY <1>9 DEF Install, SetReplicas, Leave
<1>10. ASSUME NEW o \in Operators, InstallFails(o) PROVE DetachmentsAreStaged'
  BY <1>10 DEF InstallFails, SetReplicas, Leave, Fault
<1>11. ASSUME NEW o \in Operators, Strip(o) PROVE DetachmentsAreStaged'
  BY <1>11 DEF Strip, StripApp, SetApp, AppOf
<1>12. ASSUME NEW o \in Operators, Delete(o) PROVE DetachmentsAreStaged'
  <2>1. \A p \in Operators \ {o} : pc'[p] = "idle"
    BY <1>12 DEF Delete
  <2>2. pc[o] = "delete" /\ DeleteApp(o) /\ AppOf(o) \in {"bare", "absent"}
    BY <1>12 DEF Delete
  <2>3. app' = [app EXCEPT ![hub[o]][spoke[o]] = "absent"] /\ UNCHANGED doomed
    BY <2>2 DEF DeleteApp, SetApp
  <2>4. UNCHANGED <<hub, spoke>> /\ pc'[o] = "gone"
    BY <1>12 DEF Delete
  <2>5. DyingIsDoomed'
    BY <2>3
  <2> QED
    BY <2>1, <2>3, <2>4, <2>5
<1>13. ASSUME NEW o \in Operators, Gone(o) PROVE DetachmentsAreStaged'
  BY <1>13 DEF Gone, AppOf
<1>14. ASSUME NEW o \in Operators, Unkey(o) PROVE DetachmentsAreStaged'
  BY <1>14 DEF Unkey, DeleteKey, EndDetach, Leave
<1>15. ASSUME NEW o \in Operators, Unbind(o) PROVE DetachmentsAreStaged'
  BY <1>15 DEF Unbind, DeleteRbac, EndDetach, Leave
<1>16. ASSUME NEW o \in Operators, DetachFails(o) PROVE DetachmentsAreStaged'
  <2>1. \A p \in Operators : pc'[p] = "idle"
    BY <1>16 DEF DetachFails, EndDetach, Leave
  <2>2. \/ UNCHANGED <<app, doomed>>
        \/ StripApp(o)
        \/ pc[o] = "delete" /\ DeleteApp(o)
    <3> HIDE DEF AppOf
    <3> QED
      BY <1>16 DEF DetachFails, DeleteKey, DeleteRbac
  <2>3. UNCHANGED <<hub, spoke>>
    BY <1>16 DEF DetachFails
  <2>4. DyingIsDoomed'
    <3>1. CASE UNCHANGED <<app, doomed>>
      BY <3>1
    <3>2. CASE StripApp(o)
      BY <3>2 DEF StripApp, SetApp
    <3>3. CASE pc[o] = "delete" /\ DeleteApp(o)
      <4>1. AppOf(o) \in {"bare", "absent"}
        BY <3>3
      <4>2. app' = [app EXCEPT ![hub[o]][spoke[o]] = "absent"] /\ UNCHANGED doomed
        BY <3>3, <4>1 DEF DeleteApp, SetApp
      <4> QED
        BY <4>2
    <3> QED
      BY <2>2, <3>1, <3>2, <3>3
  <2> QED
    BY <2>1, <2>4
<1>17. ASSUME NEW h \in Hubs, NEW s \in Spokes, RegisterSpoke(h, s) PROVE DetachmentsAreStaged'
  BY <1>17 DEF RegisterSpoke
<1>18. ASSUME NEW h \in Hubs, DeployApps(h) PROVE DetachmentsAreStaged'
  BY <1>18 DEF DeployApps
<1>19. ASSUME NEW h \in Hubs, NEW s \in Spokes, DeleteByHand(h, s) PROVE DetachmentsAreStaged'
  BY <1>19 DEF DeleteByHand, Fault
<1>20. ASSUME NEW h \in Hubs, PodCreated(h) PROVE DetachmentsAreStaged'
  BY <1>20 DEF PodCreated, SetPod
<1>21. ASSUME NEW h \in Hubs, PodRuns(h) PROVE DetachmentsAreStaged'
  BY <1>21 DEF PodRuns, SetPod
<1>22. ASSUME NEW h \in Hubs, PodDeleted(h) PROVE DetachmentsAreStaged'
  BY <1>22 DEF PodDeleted, SetPod
<1>23. ASSUME NEW h \in Hubs, PodGone(h) PROVE DetachmentsAreStaged'
  BY <1>23 DEF PodGone, SetPod
<1>24. ASSUME NEW h \in Hubs, PodEvicted(h) PROVE DetachmentsAreStaged'
  BY <1>24 DEF PodEvicted, SetPod, Fault
<1>25. ASSUME NEW h \in Hubs, NEW s \in Spokes, Sync(h, s) PROVE DetachmentsAreStaged'
  BY <1>25 DEF Sync, Reaches
<1>26. ASSUME NEW h \in Hubs, NEW s \in Spokes, Cascade(h, s) PROVE DetachmentsAreStaged'
  BY <1>26 DEF Cascade, Reaches
<1>27. CASE UNCHANGED vars
  BY <1>27 DEF vars
<1> HIDE DEF TypeOK, AppStates, OneAtATime, DetachmentsAreStaged, DyingIsDoomed, Staged, AppOf,
             Quiet, controllerVars, objects, commandVars, GoTo
<1> QED
  BY <1>1, <1>2, <1>3, <1>4, <1>5, <1>6, <1>7, <1>8, <1>9, <1>10, <1>11, <1>12, <1>13, <1>14,
     <1>15, <1>16, <1>17, <1>18, <1>19, <1>20, <1>21, <1>22, <1>23, <1>24, <1>25, <1>26,
     <1>27
  DEF Next, Scaling, Detaching, Pods

\* What the theorems below rest on: the invariant, and that it is one.
LEMMA CommandsAreSound == ASSUME ~Overlap PROVE Spec => [](TypeOK /\ Sound)
<1>1. Init => Sound
  BY HubAssumption DEF Init, Sound, OneAtATime, PausesAreKept, Stopped, Stopping, Starting, HubsYield,
     DetachmentsAreStaged, DyingIsDoomed, Staged
<1>2. TypeOK /\ Sound /\ [Next]_vars => Sound'
  BY OneAtATimeStep, PausesStep, YieldStep, StagedStep DEF Sound
<1> QED
  BY <1>1, <1>2, TypeCorrect, PTL DEF Spec

\* A hub that was reported paused has no pod, and gets none.
THEOREM PausesHold == ASSUME ~Overlap PROVE Spec => []PauseHolds
<1>1. Sound => PauseHolds
  BY DEF Sound, PausesAreKept, Stopped, PauseHolds
<1> QED
  BY <1>1, CommandsAreSound, PTL

\* No spoke has two hubs that may write to it.
THEOREM OneWriter == ASSUME ~Overlap PROVE Spec => []SingleWriter
<1>1. Sound => SingleWriter
  <2> SUFFICES ASSUME Sound, NEW s \in Spokes, NEW g \in Hubs, NEW h \in Hubs, Writes(g, s), Writes(h, s)
               PROVE  g = h
    BY DEF SingleWriter
  <2>1. s \in key[g] /\ s \in key[h] /\ Alive(g) /\ Alive(h)
    BY DEF Writes, Reaches
  <2>2. said[g] # "paused" /\ said[h] # "paused"
    BY <2>1 DEF Sound, PausesAreKept, Stopped, Alive
  <2> QED
    BY <2>1, <2>2 DEF Sound, HubsYield
<1> QED
  BY <1>1, CommandsAreSound, PTL

\* The workloads of a spoke go only when a person has deleted an Application.
THEOREM WorkloadsAreKept == ASSUME ~Overlap PROVE Spec => WorkloadsStay
<1> DEFINE Stay == \A s \in Spokes :
                      deployed'[s] = "pruned" => \/ deployed[s] = "pruned"
                                                 \/ \E h \in Hubs : <<h, s>> \in doomed
<1>1. TypeOK /\ Sound /\ [Next]_vars => [Stay]_vars
  <2> SUFFICES ASSUME TypeOK, Sound, Next PROVE Stay
    OBVIOUS
  <2>1. \/ UNCHANGED deployed
        \/ \E h \in Hubs, s \in Spokes : Sync(h, s) \/ Cascade(h, s)
    BY DEF Next, Scaling, Detaching, Pods, StartScale, StartInstall, StartDetach, Scale, ScaleFails, WaitEnds,
           WaitFails, Drain, Install, InstallFails, Strip, Delete, Gone, Unkey, Unbind, DetachFails,
           RegisterSpoke, DeployApps, DeleteByHand, PodCreated, PodRuns, PodDeleted, PodGone, PodEvicted,
           SetPod
  <2>2. ASSUME NEW h \in Hubs, NEW s \in Spokes, Sync(h, s) PROVE Stay
    BY <2>2, HubAssumption DEF Sync, TypeOK
  <2>3. ASSUME NEW h \in Hubs, NEW s \in Spokes, Cascade(h, s) PROVE Stay
    <3>1. <<h, s>> \in doomed
      BY <2>3 DEF Cascade, Sound, DetachmentsAreStaged, DyingIsDoomed
    <3> QED
      BY <2>3, <3>1 DEF Cascade, TypeOK
  <2> QED
    BY <2>1, <2>2, <2>3
<1> QED
  BY <1>1, CommandsAreSound, PTL DEF Spec, WorkloadsStay

\* A detachment that ends well has removed the Application and the credential.
THEOREM DetachmentsAreDone == ASSUME ~Overlap PROVE Spec => DetachedIsDetached
<1> DEFINE Done == \A o \in Operators :
                      EndsWell(o) => /\ app'[hub[o]][spoke[o]] = "absent"
                                     /\ spoke[o] \notin key'[hub[o]]
<1>1. TypeOK /\ Sound /\ [Next]_vars => [Done]_vars
  <2> SUFFICES ASSUME TypeOK, Sound, Next, NEW o \in Operators, EndsWell(o)
               PROVE  app'[hub[o]][spoke[o]] = "absent" /\ spoke[o] \notin key'[hub[o]]
    OBVIOUS
  <2>1. Unkey(o) \/ Unbind(o)
    <3>1. /\ pc[o] \in {"strip", "delete", "gone", "unkey", "unbind"}
          /\ pc'[o] = "idle"
          /\ <<hub[o], spoke[o]>> \notin unfinished'
      BY DEF EndsWell
    <3>2. ~Quiet /\ pc' # pc
      BY <3>1 DEF Quiet
    <3>3. PICK p \in Operators : Scaling(p) \/ Detaching(p)
      BY <3>2 DEF Next, Pods, StartScale, StartInstall, StartDetach, MayStart, RegisterSpoke, DeployApps,
                  DeleteByHand, PodCreated, PodRuns, PodDeleted, PodGone, PodEvicted, SetPod, Sync, Cascade,
                  commandVars
    <3>4. pc[p] # "idle"
      BY <3>3 DEF Scaling, Detaching, Scale, ScaleFails, WaitEnds, WaitFails, Drain, Install, InstallFails,
                  Strip, Delete, Gone, Unkey, Unbind, DetachFails
    <3>5. p = o
      BY <3>1, <3>4 DEF Sound, OneAtATime
    <3>6. ~Scaling(o)
      BY <3>1 DEF Scaling, Scale, ScaleFails, WaitEnds, WaitFails, Drain, Install, InstallFails
    <3>7. ~Strip(o) /\ ~Delete(o) /\ ~Gone(o)
      BY <3>1 DEF Strip, Delete, Gone, GoTo, TypeOK
    <3>8. ~DetachFails(o)
      BY <3>1 DEF DetachFails, EndDetach
    <3> QED
      BY <3>3, <3>5, <3>6, <3>7, <3>8 DEF Detaching
  <2>2. AppOf(o) = "absent"
    BY <2>1 DEF Unkey, Unbind, Sound, DetachmentsAreStaged, Staged
  <2>3. CASE Unkey(o)
    BY <2>2, <2>3 DEF Unkey, DeleteKey, AppOf, TypeOK
  <2>4. CASE Unbind(o)
    <3>1. pc[o] = "unbind" /\ UNCHANGED <<app, key>>
      BY <2>4 DEF Unbind, DeleteRbac
    <3> QED
      BY <2>2, <3>1 DEF Sound, DetachmentsAreStaged, Staged, AppOf
  <2> QED
    BY <2>1, <2>3, <2>4
<1> QED
  BY <1>1, CommandsAreSound, PTL DEF Spec, DetachedIsDetached
=============================================================================
