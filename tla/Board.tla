-------------------------------- MODULE Board --------------------------------
(****************************************************************************)
(* The commands that govern the project board: `board set` gives one issue  *)
(* its fields, `streams`, `priority` and `sweep` write the fields that a    *)
(* registry or a rule asks for, `parts` links issues to their parents.      *)
(* Each of them reads the board, plans, and writes in batches; a request    *)
(* that fails may have written a part of its batch.  Meanwhile people open, *)
(* close and edit issues.                                                   *)
(****************************************************************************)
EXTENDS Integers, FiniteSets

CONSTANTS Issues,
          StreamOf,    \* the stream each issue is classified into, or "unplaced"
          DefaultOf,   \* the priority of an issue by its title and labels
          ParentOf,    \* the parent that the registry gives an issue, or "none"
          Stays,       \* the issues that the sweep keeps In Progress
          Parked,      \* the issues that it moves to the Backlog
          SweepTo,     \* the priority that the sweep gives those that stay, or "none"
          BatchSize, MaxEdits, MaxFaults

VARIABLES board,  \* what the board and GitHub say of each issue
          job,    \* the command that runs
          edits, faults

vars == <<board, job, edits, faults>>

Commands == {"set", "streams", "priority", "sweep", "parts"}
Statuses == {"Backlog", "in-progress", "Done"}

Item == [open : BOOLEAN, listed : BOOLEAN, status : Statuses, priority : {"none", "P1", "P2"},
         stream : {"none", "a", "b"}, parent : Issues \cup {"none"}]

NoJob == [command |-> "none", pc |-> "idle", issue |-> "none", open |-> FALSE, read |-> <<>>,
          plan |-> {}, said |-> "nothing"]

Write(i, field, value) == [issue |-> i, field |-> field, value |-> value]

-----------------------------------------------------------------------------
\* The plans

OpenItems(b) == {i \in Issues : b[i].open /\ b[i].listed}

\* `set` asks for one issue In Progress with a priority.
Desired(i) == {Write(i, "status", "in-progress"), Write(i, "priority", "P1")}

PlanSet(b, i) == {w \in Desired(i) : b[i][w.field] # w.value}

\* A mutant: only what has no stream is classified.
PlanStreamsUnset(b) ==
    {Write(i, "stream", StreamOf[i]) : i \in {i \in OpenItems(b) : StreamOf[i] # "unplaced" /\ b[i].stream = "none"}}

PlanStreams(b) ==
    {Write(i, "stream", StreamOf[i]) : i \in {i \in OpenItems(b) : StreamOf[i] \notin {"unplaced", b[i].stream}}}

\* A mutant: every open issue gets its default.
PlanPriorityAnew(b) ==
    {Write(i, "priority", DefaultOf[i]) : i \in {i \in OpenItems(b) : b[i].priority # DefaultOf[i]}}

PlanPriority(b) == {Write(i, "priority", DefaultOf[i]) : i \in {i \in OpenItems(b) : b[i].priority = "none"}}

PlanSweep(b) ==
    {Write(i, "status", "in-progress") : i \in {i \in Stays : b[i].status # "in-progress"}}
    \cup {Write(i, "priority", SweepTo) : i \in {i \in Stays : b[i].priority = "none" /\ SweepTo # "none"}}
    \cup {Write(i, "status", "Backlog") : i \in {i \in Parked : b[i].status # "Backlog"}}

\* A child with another parent is a conflict, a parent that is closed owns nothing.
PlanParts(b) ==
    {Write(i, "parent", ParentOf[i]) :
        i \in {i \in Issues : ParentOf[i] # "none" /\ b[i].parent = "none" /\ b[ParentOf[i]].open}}

\* What is left to a person after a run that wrote everything.
Left(command, b) ==
    CASE command = "streams" -> {i \in OpenItems(b) : StreamOf[i] = "unplaced"}
      [] command = "parts"   -> {i \in Issues : ParentOf[i] # "none" /\ b[i].parent # ParentOf[i]
                                                 /\ (b[i].parent # "none" \/ ~b[ParentOf[i]].open)}
      [] OTHER -> {}

-----------------------------------------------------------------------------
\* Not every issue is on the board yet, and none has been classified.
Init ==
    /\ board \in [Issues -> [open : {TRUE}, listed : BOOLEAN, status : {"Backlog"}, priority : {"none", "P1"},
                             stream : {"none"}, parent : {"none"}]]
    /\ job = NoJob
    /\ edits = 0 /\ faults = 0

Fault == faults < MaxFaults /\ faults' = faults + 1

Start(command) ==
    /\ job.pc = "idle"
    /\ \E i \in IF command = "set" THEN Issues ELSE {"none"} :
          job' = [NoJob EXCEPT !.command = command, !.pc = "read", !.issue = i]
    /\ UNCHANGED <<board, edits, faults>>

End(said) == job' = [job EXCEPT !.pc = "idle", !.said = said, !.plan = {}, !.read = <<>>]

Planned(plan) ==
    LET open == job.command = "set" /\ board[job.issue].open IN
    job' = IF plan = {} THEN [job EXCEPT !.pc = "idle", !.said = "nothing-to-do", !.open = open]
           ELSE [job EXCEPT !.pc = "write", !.plan = plan, !.read = board, !.open = open]

ReadFails == job.pc = "read" /\ Fault /\ End("failed") /\ UNCHANGED <<board, edits>>

\* The board is read at once: what it says is what is planned from.
Read(command, plan) == job.pc = "read" /\ job.command = command /\ Planned(plan) /\ UNCHANGED <<board, edits, faults>>

\* A mutant: the guard looks at what is planned.
ReadSetPlanned ==
    /\ job.pc = "read" /\ job.command = "set" /\ board[job.issue].listed
    /\ IF ~board[job.issue].open /\ Write(job.issue, "status", "in-progress") \in PlanSet(board, job.issue)
       THEN End("refused")
       ELSE Planned(PlanSet(board, job.issue))
    /\ UNCHANGED <<board, edits, faults>>

\* A closed issue is not put back In Progress, whatever its fields say already.
ReadSet ==
    /\ job.pc = "read" /\ job.command = "set" /\ board[job.issue].listed
    /\ IF ~board[job.issue].open THEN End("refused")
       ELSE Planned(PlanSet(board, job.issue))
    /\ UNCHANGED <<board, edits, faults>>

\* An issue that is not on the board refuses a `set` of it and a sweep that names it.
ReadUnlisted ==
    /\ job.pc = "read"
    /\ \/ job.command = "set" /\ ~board[job.issue].listed
       \/ job.command = "sweep" /\ \E i \in Stays \cup Parked : ~board[i].listed
    /\ End("refused")
    /\ UNCHANGED <<board, edits, faults>>

ReadSweep ==
    /\ \A i \in Stays \cup Parked : board[i].listed
    /\ Read("sweep", PlanSweep(board))

\* GitHub refuses a second parent; the other fields take any value.
Takes(w) == w.field = "parent" => board[w.issue].parent = "none"

After(b, writes) ==
    [i \in Issues |-> [f \in DOMAIN b[i] |->
        IF \E w \in writes : w.issue = i /\ w.field = f
        THEN (CHOOSE w \in writes : w.issue = i /\ w.field = f).value ELSE b[i][f]]]

\* Links are requested one by one, fields in batches.
Batches ==
    {w \in SUBSET job.plan :
        Cardinality(w) = IF job.command = "parts" \/ Cardinality(job.plan) = 1 THEN 1
                         ELSE IF job.command = "set" \/ Cardinality(job.plan) < BatchSize THEN Cardinality(job.plan)
                         ELSE BatchSize}

\* A request that fails has written some of its batch, and ends the run.
ApplyBatch(batch) ==
    /\ \/ /\ \A w \in batch : Takes(w)
          /\ board' = After(board, batch)
          /\ IF job.plan = batch
             THEN End(IF Left(job.command, job.read) = {} THEN "written" ELSE "left")
             ELSE job' = [job EXCEPT !.plan = @ \ batch]
          /\ UNCHANGED faults
       \/ /\ \E done \in SUBSET {w \in batch : Takes(w)} : board' = After(board, done)
          /\ IF \A w \in batch : Takes(w) THEN Fault ELSE UNCHANGED faults
          /\ End("failed")
    /\ UNCHANGED edits

-----------------------------------------------------------------------------
\* People

Edits == edits < MaxEdits /\ edits' = edits + 1

List(i) ==
    /\ ~board[i].listed
    /\ board' = [board EXCEPT ![i].listed = TRUE]
    /\ UNCHANGED <<job, edits, faults>>

Close(i) ==
    /\ Edits /\ board[i].open
    /\ \E s \in {board[i].status, "Done"} : board' = [board EXCEPT ![i].open = FALSE, ![i].status = s]
    /\ UNCHANGED <<job, faults>>

Reopen(i) ==
    /\ Edits /\ ~board[i].open
    /\ board' = [board EXCEPT ![i].open = TRUE]
    /\ UNCHANGED <<job, faults>>

ByHand(i) ==
    /\ Edits
    /\ \/ board' = [board EXCEPT ![i].priority = "P2"]
       \/ \E p \in Issues \ {i} : board[i].parent = "none" /\ board' = [board EXCEPT ![i].parent = p]
       \/ board' = [board EXCEPT ![i].stream = "b"]
    /\ UNCHANGED <<job, faults>>

-----------------------------------------------------------------------------
Reading ==
    \/ Read("streams", PlanStreams(board)) \/ Read("priority", PlanPriority(board))
    \/ Read("parts", PlanParts(board)) \/ ReadSet \/ ReadSweep \/ ReadUnlisted

Writing == \E batch \in Batches : job.pc = "write" /\ ApplyBatch(batch)

Next ==
    \/ \E c \in Commands : Start(c)
    \/ Reading \/ ReadFails
    \/ Writing
    \/ \E i \in Issues : List(i) \/ Close(i) \/ Reopen(i) \/ ByHand(i)

\* A command that was started runs to its end, people run the bulk commands now
\* and then, and the workflow that lists an issue does so in the end.
Fairness ==
    /\ WF_vars(Reading) /\ WF_vars(Writing)
    /\ \A c \in {"streams", "priority", "parts"} : SF_vars(Start(c))
    /\ \A i \in Issues : WF_vars(List(i))

Spec == Init /\ [][Next]_vars /\ Fairness

-----------------------------------------------------------------------------
\* The types of the board and of the command.
TypeOK ==
    /\ board \in [Issues -> Item]
    /\ job.command \in Commands \cup {"none"}
    /\ \A w \in job.plan : w.issue \in Issues /\ w.field \in {"status", "priority", "stream", "parent"}

\* A `set` that says nothing is to do, or that it wrote, found the issue open: a
\* finished ticket is never reported as being in progress.
ReportIsTrue ==
    job.command = "set" /\ job.said \in {"nothing-to-do", "written"} => job.open

\* A run of a bulk command gives no field a value where people had given one when
\* it read: a priority is kept, and a parent is never replaced.
BoardKept ==
    \A i \in Issues : job.pc = "write" =>
        /\ board[i].parent # "none" => board'[i].parent = board[i].parent
        /\ job.command \in {"priority", "sweep"} /\ job.read[i].priority # "none"
              => board'[i].priority = board[i].priority \/ edits' # edits

\* When people stop editing, the board ends as the registry and the rules have it.
Governed ==
    \A i \in Issues : board[i].listed /\ (board[i].open =>
        /\ board[i].priority # "none"
        /\ StreamOf[i] \in {"unplaced", board[i].stream}
        /\ ParentOf[i] # "none" /\ board[ParentOf[i]].open => board[i].parent # "none")

=============================================================================
