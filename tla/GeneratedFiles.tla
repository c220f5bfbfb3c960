---------------------------- MODULE GeneratedFiles ----------------------------
(****************************************************************************)
(* The files in git that `toolkit sync` generates from the values, and      *)
(* `toolkit sync ... --check`, which CI runs: it generates in place, looks  *)
(* for drift and puts the files back.  People edit the values while it      *)
(* runs and interrupt it; a generator may refuse the values, or crash.      *)
(****************************************************************************)
EXTENDS Integers, Sequences

CONSTANTS Labels,      \* the generators, in the order of `sync all`
          Versions,    \* the versions of the values
          Outputs,     \* what each generator writes from each version,
          Declared,    \* and the list of files it is known by, or the empty
                       \* set: the files that its directory has
          Directory,   \* the directory of each generator: all it may write
          Dated,       \* generators whose output bears a date that is not compared,
          Preserving,  \* and those that keep the date while the values stay
          Midway,      \* and those that write file by file, client by client
          Refused,     \* values that a generator refuses,
          Crashing,    \* and those that it crashes on, midway
          MaxEdits, MaxFaults

VARIABLES source,      \* the version of the values in the worktree
          today,       \* the date
          sops,        \* whether the secrets can be decrypted here
          file,        \* what each file is made from, and the date that it bears
          job,         \* the command that runs
          report,      \* what the last one reported
          edits, faults

vars == <<source, today, sops, file, job, report, edits, faults>>

LabelSet == {Labels[i] : i \in DOMAIN Labels}
Files    == UNION {Directory[l] : l \in LabelSet}
Absent   == [of |-> 0, day |-> 0]
Idle     == [pc |-> "idle", check |-> FALSE, todo |-> <<>>, snap |-> <<>>, failed |-> FALSE,
             before |-> <<>>, ran |-> {}, refused |-> {}, hurt |-> FALSE]

\* A mutant: the date is compared.
NormRaw(l, c) == c

\* What is compared of a file.
Norm(l, c) == IF l \in Dated THEN [c EXCEPT !.day = 0] ELSE c

\* The date of the manifest is the old one as long as its source is.
Day(l, f) ==
    CASE l \in Preserving -> IF file[f].of = source THEN file[f].day ELSE today
      [] l \in Dated      -> today
      [] OTHER            -> 0

Generated(l, F) == [f \in Files |-> IF f \in F THEN [of |-> source, day |-> Day(l, f)] ELSE file[f]]

\* A mutant: what the directory has is all that counts.
ListedThere(l) == {f \in Directory[l] : file[f] # Absent}

\* The files that are saved: those declared, or those of the directory.
Listed(l) == IF Declared[l] # {} THEN Declared[l] ELSE {f \in Directory[l] : file[f] # Absent}

Init ==
    /\ source = 1 /\ today = 1 /\ sops \in BOOLEAN
    /\ file = [f \in Files |-> IF \E l \in LabelSet : f \in Outputs[l][1] THEN [of |-> 1, day |-> 0] ELSE Absent]
    /\ job = Idle /\ report = "nothing"
    /\ edits = 0 /\ faults = 0

-----------------------------------------------------------------------------
Hand   == edits < MaxEdits /\ edits' = edits + 1
Fault  == faults < MaxFaults /\ faults' = faults + 1
End(r) == job' = Idle /\ report' = r

\* A command for one generator, or for all of them.  Auxiliary: "before", the
\* files as it found them; "ran" and "refused", what was generated or was not, from
\* which version.  The manifest has a check of its own.
Start ==
    /\ job.pc = "idle"
    /\ \E c \in BOOLEAN, t \in {Labels} \cup {<<l>> : l \in LabelSet} :
        /\ c => t = Labels \/ Head(t) \notin Preserving
        /\ job' = [Idle EXCEPT !.pc = "label", !.check = c, !.todo = t, !.before = file]
    /\ report' = "nothing"
    /\ UNCHANGED <<source, today, sops, file, edits, faults>>

\* Without secrets, or with an empty directory, a check warns and is content.
Skipped(l) == (l = "oidc" /\ ~sops) \/ (Declared[l] = {} /\ Listed(l) = {})

Snapshot ==
    /\ job.pc = "label" /\ job.check /\ job.todo # <<>>
    /\ LET l == Head(job.todo) IN
       job' = IF Skipped(l) THEN [job EXCEPT !.todo = Tail(@)]
                            ELSE [job EXCEPT !.pc = "run", !.snap = [f \in Listed(l) |-> file[f]]]
    /\ UNCHANGED <<source, today, sops, file, report, edits, faults>>

\* A generator refuses the values and returns as much, completes, or raises midway;
\* one that needs secrets and reads none warns, and returns that all is well.
Unread(l)    == l = "oidc" /\ (IF sops THEN Fault ELSE UNCHANGED faults)
Reads(l)     == l = "oidc" => sops
Refuses(l)   == <<l, source>> \in Refused /\ Reads(l)
Completes(l) == <<l, source>> \notin Refused \cup Crashing /\ Reads(l)
Raises(l)    == <<l, source>> \notin Refused /\ Reads(l) /\ (IF <<l, source>> \in Crashing THEN UNCHANGED faults ELSE Fault)
Partly(l)    == SUBSET Outputs[l][source] \ {Outputs[l][source]}
Writes(l)    == IF l \in Midway THEN SUBSET Outputs[l][source] ELSE {{}}

\* Without --check: a generator that refuses or crashes fails the command, and the
\* others of `sync all` run all the same.
Sync ==
    /\ job.pc = "label" /\ ~job.check /\ job.todo # <<>>
    /\ LET l == Head(job.todo)
           Goes(F, failed) == /\ file' = Generated(l, F)
                              /\ job' = [job EXCEPT !.todo = Tail(@), !.failed = @ \/ failed] IN
       \/ Refuses(l) /\ (\E F \in Writes(l) : Goes(F, TRUE)) /\ UNCHANGED faults
       \/ Completes(l) /\ Goes(Outputs[l][source], FALSE) /\ UNCHANGED faults
       \/ Raises(l) /\ \E F \in Partly(l) : Goes(F, TRUE)
       \/ Unread(l) /\ Goes({}, FALSE)
    /\ UNCHANGED <<source, today, sops, report, edits>>

\* With --check: what a generator returns is not looked at, only whether it raises.
Run ==
    /\ job.pc = "run"
    /\ LET l == Head(job.todo) IN
       \/ /\ Refuses(l)
          /\ \E F \in Writes(l) : file' = Generated(l, F)
          /\ job' = [job EXCEPT !.pc = "compare", !.refused = @ \cup {<<l, source>>}]
          /\ UNCHANGED faults
       \/ /\ Unread(l)
          /\ job' = [job EXCEPT !.pc = "compare", !.refused = @ \cup {<<l, source>>}]
          /\ UNCHANGED file
       \/ /\ Completes(l)
          /\ file' = Generated(l, Outputs[l][source])
          /\ job' = [job EXCEPT !.pc = "compare", !.ran = @ \cup {<<l, source>>}]
          /\ UNCHANGED faults
       \/ /\ Raises(l)
          /\ \E F \in Partly(l) : file' = Generated(l, F)
          /\ job' = [job EXCEPT !.pc = "restore", !.hurt = TRUE]
    /\ UNCHANGED <<source, today, sops, report, edits>>

\* A mutant: what was not there before is not taken away.
SavedAlone(l) == DOMAIN job.snap

\* What is compared and put back: what was saved, and what is new in the directory.
Saved(l) == IF Declared[l] # {} THEN DOMAIN job.snap
                                ELSE DOMAIN job.snap \cup {f \in Directory[l] : file[f] # Absent}

Was(f) == IF f \in DOMAIN job.snap THEN job.snap[f] ELSE Absent

PutBack(F) == file' = [f \in Files |-> IF f \in F THEN Was(f) ELSE file[f]]

Compare ==
    /\ job.pc = "compare"
    /\ LET l == Head(job.todo)
           drifted == {f \in Saved(l) : Norm(l, Was(f)) # Norm(l, file[f])} IN
       /\ PutBack(Saved(l))
       /\ job' = [job EXCEPT !.pc = "label", !.todo = Tail(@), !.snap = <<>>, !.failed = @ \/ drifted # {}]
    /\ UNCHANGED <<source, today, sops, report, edits, faults>>

\* After a crash only what was saved is put back.
Restore ==
    /\ job.pc = "restore"
    /\ PutBack(DOMAIN job.snap)
    /\ job' = [job EXCEPT !.pc = "label", !.todo = Tail(@), !.snap = <<>>, !.failed = TRUE]
    /\ UNCHANGED <<source, today, sops, report, edits, faults>>

Finish ==
    /\ job.pc = "label" /\ job.todo = <<>>
    /\ End(IF job.failed THEN "failed" ELSE IF job.check THEN "in sync" ELSE "synced")
    /\ UNCHANGED <<source, today, sops, file, edits, faults>>

-----------------------------------------------------------------------------
\* The manifest on its own: generated in memory and compared, dates and all.
CheckManifest(l) ==
    /\ job.pc = "idle"
    /\ l \in Preserving
    /\ report' = IF ~Refuses(l) /\ file = Generated(l, Outputs[l][source]) THEN "matches" ELSE "differs"
    /\ UNCHANGED <<source, today, sops, file, job, edits, faults>>

\* The person interrupts a command: nothing is put back.
Interrupt ==
    /\ job.pc # "idle"
    /\ Fault
    /\ End("interrupted")
    /\ UNCHANGED <<source, today, sops, file, edits>>

\* The values are edited at any moment.
EditValues ==
    /\ Hand
    /\ source + 1 \in Versions
    /\ source' = source + 1
    /\ UNCHANGED <<today, sops, file, job, report, faults>>

\* A generated file is removed, or brought from elsewhere.
EditFile ==
    /\ job.pc = "idle"
    /\ Hand
    /\ \E f \in Files, c \in {Absent} \cup {[of |-> v, day |-> 0] : v \in Versions} :
        c # file[f] /\ file' = [file EXCEPT ![f] = c]
    /\ UNCHANGED <<source, today, sops, job, report, faults>>

NextDay ==
    /\ today = 1 /\ today' = 2
    /\ UNCHANGED <<source, sops, file, job, report, edits, faults>>

Next ==
    \/ Start \/ Snapshot \/ Sync \/ Run \/ Compare \/ Restore \/ Finish
    \/ \E l \in LabelSet : CheckManifest(l)
    \/ Interrupt \/ EditValues \/ EditFile \/ NextDay

Spec == Init /\ [][Next]_vars

-----------------------------------------------------------------------------
TypeOK ==
    /\ source \in Versions /\ today \in 1..2 /\ sops \in BOOLEAN
    /\ file \in [Files -> [of : Versions \cup {0}, day : 0..2]]
    /\ job.pc \in {"idle", "label", "run", "compare", "restore"}
    /\ job.check \in BOOLEAN /\ job.failed \in BOOLEAN /\ job.hurt \in BOOLEAN
    /\ report \in {"nothing", "synced", "in sync", "failed", "matches", "differs", "interrupted"}

Checked(r) == job.pc # "idle" /\ job.check /\ report' = r

\* A check that is not interrupted leaves the files as it found them, but for those
\* that a generator made anew before it crashed.
FilesStay ==
    Checked("in sync") \/ Checked("failed")
        => \A f \in Files : file'[f] = job.before[f] \/ (job.hurt /\ job.before[f] = Absent)

\* A check that says in sync has found each file that was generated equal to the one
\* in git, and one that fails has a reason to: a difference, or a generator that failed.
VerdictIsSo ==
    /\ Checked("in sync") => \A r \in job.ran : \A f \in Outputs[r[1]][r[2]] : file'[f].of = r[2]
    /\ Checked("failed") => \/ job.hurt \/ job.refused # {}
                            \/ \E r \in job.ran : \E f \in Outputs[r[1]][r[2]] : job.before[f].of # r[2]

ChecksHold == FilesStay /\ VerdictIsSo
=============================================================================
