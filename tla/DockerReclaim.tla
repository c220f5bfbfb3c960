---------------------------- MODULE DockerReclaim ----------------------------
(****************************************************************************)
(* `toolkit infra node reclaim --apply`: the builders that CI jobs left on  *)
(* a node's Docker daemon are removed, with their volumes, while the        *)
(* runners are stopped.                                                     *)
(*                                                                          *)
(* A job makes one builder with one volume.  Both outlive it.  A builder is *)
(* old when it was created longer ago than the longest job takes, so that   *)
(* the builder of a running job never is.                                   *)
(****************************************************************************)
EXTENDS Integers, Sequences

CONSTANTS Runners,     \* the sequence of the runners' containers
          Jobs, None,
          DaemonFails, \* whether docker can fail to stop or start a runner
          MaxFaults

VARIABLES running,   \* the runners that run
          job,       \* what each job is: None, its runner, or "over"
          builders, volumes, \* the jobs whose builder and whose volume there are
          old,       \* the jobs whose builder is old
          pc, at,    \* what the command does next, and with which runner
          seen,      \* the builders it has listed, with the old ones
          doomed,    \* the builders and the volumes that it removes
          ok, said,  \* whether all went well, and what was last said of the runners
          faults

daemon  == <<running, job, builders, volumes, old>>
command == <<pc, at, seen, doomed, ok, said>>
vars    == <<daemon, command, faults>>

Nobody == [all |-> {}, old |-> {}]
Spared == [builders |-> {}, volumes |-> {}]

RunnerSet == {Runners[i] : i \in DOMAIN Runners}

Init ==
    /\ running = RunnerSet
    /\ job = [j \in Jobs |-> None]
    /\ builders = {} /\ volumes = {} /\ old = {}
    /\ pc = "idle" /\ at = 1 /\ seen = Nobody /\ doomed = Spared /\ ok = TRUE /\ said = "nothing"
    /\ faults = 0

-----------------------------------------------------------------------------
Fault == faults < MaxFaults /\ faults' = faults + 1

End(report) ==
    pc' = "idle" /\ at' = 1 /\ seen' = Nobody /\ doomed' = Spared /\ ok' = TRUE /\ said' = report

\* Before anything was stopped, a failed call ends the command; after that, the
\* runners are started all the same.
CallFails ==
    /\ pc \in {"list", "plan", "stop", "builders", "volumes", "images"}
    /\ Fault
    /\ IF pc \in {"list", "plan"} THEN End(said)
       ELSE pc' = "start" /\ at' = 1 /\ ok' = FALSE /\ UNCHANGED <<seen, doomed, said>>
    /\ UNCHANGED daemon

Begin ==
    /\ pc = "idle"
    /\ pc' = "list"
    /\ UNCHANGED <<daemon, at, seen, doomed, ok, said, faults>>

ListContainers ==
    /\ pc = "list"
    /\ seen' = [all |-> builders, old |-> old \cap builders]
    /\ pc' = "plan"
    /\ UNCHANGED <<daemon, at, doomed, ok, said, faults>>

\* A mutant: a builder whose job is over is not told from one that builds.
PlanAll ==
    /\ pc = "plan"
    /\ doomed' = [builders |-> seen.all, volumes |-> volumes]
    /\ pc' = "stop"
    /\ UNCHANGED <<daemon, at, seen, ok, said, faults>>

\* The volumes are listed after the containers.  One goes unless a container that
\* was listed and stays has it.
Plan ==
    /\ pc = "plan"
    /\ doomed' = [builders |-> seen.old, volumes |-> volumes \ (seen.all \ seen.old)]
    /\ pc' = "stop"
    /\ UNCHANGED <<daemon, at, seen, ok, said, faults>>

\* A mutant: one runner too many.
NextRunnerPast(label) ==
    IF at > Len(Runners) THEN pc' = label /\ at' = 1 ELSE at' = at + 1 /\ UNCHANGED pc

NextRunner(label) == IF at = Len(Runners) THEN pc' = label /\ at' = 1 ELSE at' = at + 1 /\ UNCHANGED pc

\* A runner that is stopped takes its jobs with it.  `docker stop || echo ABSENT`
\* makes no difference between a failure and a runner that is not there.
StopRunner ==
    /\ pc = "stop"
    /\ \/ /\ running' = running \ {Runners[at]}
          /\ job' = [j \in Jobs |-> IF job[j] = Runners[at] THEN "over" ELSE job[j]]
       \/ DaemonFails /\ UNCHANGED <<running, job>>
    /\ NextRunner("builders")
    /\ UNCHANGED <<builders, volumes, old, seen, doomed, ok, said, faults>>

RemoveBuilder ==
    /\ pc = "builders"
    /\ IF doomed.builders = {} THEN pc' = "volumes" /\ UNCHANGED <<builders, doomed>>
       ELSE \E j \in doomed.builders :
               /\ builders' = builders \ {j}
               /\ doomed' = [doomed EXCEPT !.builders = @ \ {j}]
               /\ UNCHANGED pc
    /\ UNCHANGED <<running, job, volumes, old, at, seen, ok, said, faults>>

\* Docker refuses to remove a volume that a container has, and then nothing more
\* is removed.
RemoveVolume ==
    /\ pc = "volumes"
    /\ IF doomed.volumes = {} THEN pc' = "images" /\ UNCHANGED <<volumes, doomed, ok>>
       ELSE \E j \in doomed.volumes :
               IF j \in builders
               THEN pc' = "start" /\ ok' = FALSE /\ UNCHANGED <<volumes, doomed>>
               ELSE /\ volumes' = volumes \ {j}
                    /\ doomed' = [doomed EXCEPT !.volumes = @ \ {j}]
                    /\ UNCHANGED <<pc, ok>>
    /\ UNCHANGED <<running, job, builders, old, at, seen, said, faults>>

PruneImages ==
    /\ pc = "images"
    /\ pc' = "start"
    /\ UNCHANGED <<daemon, at, seen, doomed, ok, said, faults>>

\* A mutant: the runners are started when everything was removed.
StartRunnerIfOk ==
    /\ pc = "start"
    /\ IF ok THEN running' = running \cup {Runners[at]} ELSE UNCHANGED running
    /\ IF at = Len(Runners) THEN End(IF ok THEN "reclaimed" ELSE "failed")
       ELSE at' = at + 1 /\ UNCHANGED <<pc, seen, doomed, ok, said>>
    /\ UNCHANGED <<job, builders, volumes, old, faults>>

StartRunner ==
    /\ pc = "start"
    /\ running' = running \cup {Runners[at]} \/ (DaemonFails /\ UNCHANGED running)
    /\ IF at = Len(Runners) THEN End(IF ok THEN "reclaimed" ELSE "failed")
       ELSE at' = at + 1 /\ UNCHANGED <<pc, seen, doomed, ok, said>>
    /\ UNCHANGED <<job, builders, volumes, old, faults>>

\* The node cannot be reached: the others are not tried.
StartFails ==
    /\ pc = "start"
    /\ Fault /\ End("may-be-stopped")
    /\ UNCHANGED daemon

-----------------------------------------------------------------------------
\* The node

StartJob(r, j) ==
    /\ r \in running
    /\ job[j] = None
    /\ \A k \in Jobs : job[k] # r
    /\ job' = [job EXCEPT ![j] = r]
    /\ builders' = builders \cup {j} /\ volumes' = volumes \cup {j}
    /\ UNCHANGED <<running, old, command, faults>>

EndJob(j) ==
    /\ job[j] \in RunnerSet
    /\ job' = [job EXCEPT ![j] = "over"]
    /\ UNCHANGED <<running, builders, volumes, old, command, faults>>

GetOld(j) ==
    /\ job[j] = "over" /\ j \in builders \ old
    /\ old' = old \cup {j}
    /\ UNCHANGED <<running, job, builders, volumes, command, faults>>

Goes ==
    \/ ListContainers \/ Plan \/ StopRunner \/ RemoveBuilder \/ RemoveVolume \/ PruneImages
    \/ StartRunner

Next ==
    \/ Begin \/ Goes \/ CallFails \/ StartFails
    \/ \E j \in Jobs : EndJob(j) \/ GetOld(j) \/ \E r \in RunnerSet : StartJob(r, j)

Spec == Init /\ [][Next]_vars

-----------------------------------------------------------------------------
TypeOK ==
    /\ running \subseteq RunnerSet
    /\ job \in [Jobs -> RunnerSet \cup {None, "over"}]
    /\ builders \subseteq Jobs /\ volumes \subseteq Jobs /\ old \subseteq Jobs
    /\ pc \in {"idle", "list", "plan", "stop", "builders", "volumes", "images", "start"}
    /\ at \in DOMAIN Runners /\ ok \in BOOLEAN
    /\ seen.old \subseteq seen.all /\ seen.all \subseteq Jobs
    /\ doomed.builders \subseteq Jobs /\ doomed.volumes \subseteq Jobs
    /\ said \in {"nothing", "reclaimed", "failed", "may-be-stopped"}
    /\ faults \in Nat

\* A builder is removed when it is old and a volume when no builder is left that
\* has it, whatever started since the plan was made.
BusyAreSpared ==
    /\ \A j \in builders \ builders' : j \in old
    /\ \A j \in volumes \ volumes' : j \notin builders /\ job[j] = "over"

\* A reclaim leaves no runner stopped behind it unless it says so: "leaving this
\* node's CI stopped is a worse failure than the one that would have caused it".
RunnersReturn == pc = "idle" /\ said # "may-be-stopped" => running = RunnerSet

=============================================================================
