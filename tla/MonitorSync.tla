---------------------------- MODULE MonitorSync ----------------------------
(****************************************************************************)
(* Uptime Kuma and its seed: `toolkit monitoring apply` converges the live  *)
(* monitors onto the committed seed, `export` writes the seed from them,    *)
(* `bootstrap` sets a fresh instance up, `backup` and `restore` copy its    *)
(* database.                                                                *)
(*                                                                          *)
(* A monitor carries its id, and with it the history of what it watched, a  *)
(* key in its description, a name, what it watches, and whether it notifies.*)
(* A monitor that was made by hand has no key.                              *)
(****************************************************************************)
EXTENDS Integers, Sequences, FiniteSets

CONSTANTS Keys, Names, None,
          Seeds,        \* the seeds to begin with
          ReuseNames,   \* whether an entry may take a name that is in use
          MaxEdits, MaxFaults

VARIABLES seed,      \* the entries, in the order of the file
          live,      \* the monitors
          going,     \* the ids that are being deleted
          nextId,
          admin,     \* whether the instance has been set up
          notifier,  \* whether it has a default notification
          backup,    \* the database that was last copied
          pc,        \* what the command does next
          plan,      \* what it will create, edit and delete
          edits, faults

instance == <<live, going, nextId, admin, notifier>>
command  == <<pc, plan>>
vars     == <<seed, instance, backup, command, edits, faults>>

Entries == [key : Keys, name : Names, content : {1, 2}, muted : BOOLEAN]

Nothing == [create |-> {}, edit |-> {}, delete |-> {}]

First(monitors) == CHOOSE m \in monitors : \A n \in monitors : m.id <= n.id

\* Some seed, and an instance that holds nothing, what it says, or the same
\* monitors without their keys.
Made(entry, i, key) ==
    [id |-> i, key |-> key, name |-> entry.name, content |-> entry.content, notify |-> ~entry.muted]

Distinct(s) == \A i, j \in DOMAIN s : i # j => s[i].key # s[j].key /\ s[i].name # s[j].name

Init ==
    /\ seed \in Seeds
    /\ \E had \in {"nothing", "keyed", "unkeyed"} :
          live = IF had = "nothing" THEN {}
                 ELSE {Made(seed[i], i, IF had = "keyed" THEN seed[i].key ELSE None) : i \in DOMAIN seed}
    /\ going = {}
    /\ nextId = Len(seed) + 1
    /\ admin = (live # {})
    /\ notifier \in BOOLEAN
    /\ backup = live
    /\ pc = "idle"
    /\ plan = Nothing
    /\ edits = 0 /\ faults = 0

-----------------------------------------------------------------------------
Fault == faults < MaxFaults /\ faults' = faults + 1

End == pc' = "idle" /\ plan' = Nothing

-----------------------------------------------------------------------------
\* The decision of diff_monitors

\* A mutant: monitors are matched by their names.
FoundByName(entry, monitors, claimed) ==
    LET named == {m \in monitors : m.name = entry.name /\ m.id \notin claimed}
    IN  IF named # {} THEN {First(named)} ELSE {}

\* The monitor of an entry: the one with its key, or else the first of its name
\* that no other entry has claimed.
Found(entry, monitors, claimed) ==
    LET keyed == {m \in monitors : m.key = entry.key}
        named == {m \in monitors : m.name = entry.name /\ m.id \notin claimed}
    IN  IF keyed # {} /\ First(keyed).id \notin claimed THEN {First(keyed)}
        ELSE IF named # {} THEN {First(named)} ELSE {}

\* A mutant: whether a monitor notifies is not compared.
NeedsWrite(entry, m) == m.key = None \/ m.name # entry.name \/ m.content # entry.content

NeedsEdit(entry, m) ==
    \/ notifier /\ m.notify = entry.muted
    \/ m.key = None
    \/ m.name # entry.name \/ m.content # entry.content

Decide(acc, entry) ==
    LET match == Found(entry, live, acc.claimed)
    IN  IF match = {} THEN [acc EXCEPT !.create = @ \cup {entry}]
        ELSE LET m == CHOOSE n \in match : TRUE
             IN  [acc EXCEPT !.claimed = @ \cup {m.id},
                             !.edit = IF NeedsEdit(entry, m) THEN @ \cup {<<m.id, entry>>} ELSE @]

\* What is decided of the first i entries.
Decided[i \in 0..Len(seed)] ==
    IF i = 0 THEN [claimed |-> {}, create |-> {}, edit |-> {}] ELSE Decide(Decided[i - 1], seed[i])

Diff ==
    LET all == Decided[Len(seed)]
    IN  [create |-> all.create, edit |-> all.edit, delete |-> {m.id : m \in live} \ all.claimed]

-----------------------------------------------------------------------------
\* monitoring apply

Apply ==
    /\ pc = "idle"
    /\ admin
    /\ plan' = Diff
    /\ pc' = "delete"
    /\ UNCHANGED <<seed, instance, backup, edits, faults>>

Delete(i) ==
    /\ pc = "delete"
    /\ i \in plan.delete \ going /\ \E m \in live : m.id = i
    /\ going' = going \cup {i}
    /\ UNCHANGED <<seed, live, nextId, admin, notifier, backup, command, edits, faults>>

\* All are deleted and none is there any more; a question that fails, whatever the
\* reason, is an answer that it is gone.
AllGone ==
    /\ pc = "delete"
    /\ \A m \in live : m.id \notin plan.delete \ going
    /\ IF \A m \in live : m.id \notin plan.delete THEN UNCHANGED faults ELSE Fault
    /\ pc' = "write"
    /\ UNCHANGED <<seed, instance, backup, plan, edits>>

\* A deletion fails, or one of them is still there: nothing is written.
DeletionFails ==
    /\ pc = "delete"
    /\ plan.delete # {}
    /\ Fault /\ End
    /\ UNCHANGED <<seed, instance, backup, edits>>

Written(m, entry) ==
    [m EXCEPT !.name = entry.name, !.content = entry.content, !.key = entry.key,
              !.notify = IF notifier THEN ~entry.muted ELSE @]

\* An edit keeps the id.  A failure is logged, and the next one follows.
Edit(i, entry) ==
    /\ pc = "write"
    /\ <<i, entry>> \in plan.edit
    /\ plan' = [plan EXCEPT !.edit = @ \ {<<i, entry>>}]
    /\ \/ live' = {IF m.id = i THEN Written(m, entry) ELSE m : m \in live} /\ UNCHANGED faults
       \/ UNCHANGED live /\ Fault
    /\ UNCHANGED <<seed, going, nextId, admin, notifier, backup, pc, edits>>

\* A mutant: one that fails is tried again.
CreateAgain(entry) ==
    /\ pc = "write"
    /\ plan.edit = {}
    /\ entry \in plan.create
    /\ live' = live \cup {[Made(entry, nextId, entry.key) EXCEPT !.notify = notifier /\ ~entry.muted]}
    /\ nextId' = nextId + 1
    /\ \/ plan' = [plan EXCEPT !.create = @ \ {entry}] /\ UNCHANGED faults
       \/ UNCHANGED plan /\ Fault
    /\ UNCHANGED <<seed, going, admin, notifier, backup, pc, edits>>

\* The creations follow the edits; one that fails may have been done.
Create(entry) ==
    /\ pc = "write"
    /\ plan.edit = {}
    /\ entry \in plan.create
    /\ plan' = [plan EXCEPT !.create = @ \ {entry}]
    /\ \/ /\ live' = live \cup {[Made(entry, nextId, entry.key) EXCEPT !.notify = notifier /\ ~entry.muted]}
          /\ nextId' = nextId + 1
          /\ UNCHANGED faults \/ Fault
       \/ UNCHANGED <<live, nextId>> /\ Fault
    /\ UNCHANGED <<seed, going, admin, notifier, backup, pc, edits>>

Applied ==
    /\ pc = "write"
    /\ plan = Nothing \/ (plan.edit = {} /\ plan.create = {})
    /\ End
    /\ UNCHANGED <<seed, instance, backup, edits, faults>>

-----------------------------------------------------------------------------
\* The other commands

\* monitoring bootstrap: only an instance without an admin is set up and filled.
Bootstrap ==
    /\ pc = "idle"
    /\ ~admin
    /\ admin' = TRUE
    /\ pc' = "bootstrap"
    /\ UNCHANGED <<seed, live, going, nextId, notifier, backup, plan, edits, faults>>

BootstrapApplies ==
    /\ pc = "bootstrap"
    /\ plan' = Diff
    /\ pc' = "delete"
    /\ UNCHANGED <<seed, instance, backup, edits, faults>>

\* monitoring export: the order of the seed is that of the ids.
Exported(m) == [key |-> m.key, name |-> m.name, content |-> m.content, muted |-> ~m.notify]

Export ==
    /\ pc = "idle" /\ admin
    /\ edits < MaxEdits /\ edits' = edits + 1
    /\ \A m \in live : m.key # None
    /\ \E order \in [1..Cardinality(live) -> live] :
          /\ \A i, j \in DOMAIN order : i < j => order[i].id < order[j].id
          /\ seed' = [i \in DOMAIN order |-> Exported(order[i])]
    /\ UNCHANGED <<instance, backup, command, faults>>

Backup ==
    /\ pc = "idle" /\ admin
    /\ edits < MaxEdits /\ edits' = edits + 1
    /\ backup' = live
    /\ UNCHANGED <<seed, instance, command, faults>>

\* monitoring restore: the failure to replace the database goes unnoticed.
Restore ==
    /\ pc = "idle" /\ admin
    /\ edits < MaxEdits /\ edits' = edits + 1
    /\ going' = {}
    /\ \/ live' = backup /\ UNCHANGED faults
       \/ UNCHANGED live /\ Fault
    /\ UNCHANGED <<seed, nextId, admin, notifier, backup, command>>

Interrupt ==
    /\ pc # "idle"
    /\ Fault /\ End
    /\ UNCHANGED <<seed, instance, backup, edits>>

-----------------------------------------------------------------------------
\* The instance, and people

Vanish(i) ==
    /\ i \in going
    /\ live' = {m \in live : m.id # i}
    /\ going' = going \ {i}
    /\ UNCHANGED <<seed, nextId, admin, notifier, backup, command, edits, faults>>

\* The seed is edited: an entry is changed, dropped or added.
SeedKeys == {seed[i].key : i \in DOMAIN seed}

InUse == {m.name : m \in live \cup backup} \cup {seed[i].name : i \in DOMAIN seed}

EditSeed ==
    /\ pc = "idle"
    /\ edits < MaxEdits /\ edits' = edits + 1
    /\ \/ \E i \in DOMAIN seed, n \in Names :
             (ReuseNames \/ n \notin InUse) /\ n # seed[i].name /\ seed' = [seed EXCEPT ![i].name = n]
       \/ \E i \in DOMAIN seed :
             \/ seed' = [seed EXCEPT ![i].content = 3 - @]
             \/ seed' = [seed EXCEPT ![i].muted = ~@]
             \/ seed' = SubSeq(seed, 1, i - 1) \o SubSeq(seed, i + 1, Len(seed))
       \/ \E k \in Keys \ (SeedKeys \cup {m.key : m \in live}), n \in Names, b \in BOOLEAN, front \in BOOLEAN :
             LET e == [key |-> k, name |-> n, content |-> 1, muted |-> b]
             IN  /\ ReuseNames \/ n \notin InUse
                 /\ seed' = IF front THEN <<e>> \o seed ELSE Append(seed, e)
    /\ Distinct(seed')
    /\ UNCHANGED <<instance, backup, command, faults>>

\* Somebody uses the interface: a monitor is changed or deleted, or gets a
\* notification where there is none by default.
ByHand ==
    /\ edits < MaxEdits /\ edits' = edits + 1
    /\ \E m \in live :
          \/ live' = (live \ {m}) \cup {[m EXCEPT !.content = 3 - @]}
          \/ live' = (live \ {m}) \cup {[m EXCEPT !.notify = ~@]}
          \/ live' = live \ {m}
    /\ UNCHANGED <<seed, going, nextId, admin, notifier, backup, command, faults>>

Work ==
    \/ Apply \/ AllGone \/ DeletionFails \/ Applied \/ Bootstrap \/ BootstrapApplies
    \/ \E i \in plan.delete : Delete(i)
    \/ \E p \in plan.edit : Edit(p[1], p[2])
    \/ \E e \in plan.create : Create(e)

Next ==
    \/ Work \/ Export \/ Backup \/ Restore \/ Interrupt \/ EditSeed \/ ByHand
    \/ \E i \in going : Vanish(i)

Fairness == WF_vars(Work) /\ WF_vars(\E i \in going : Vanish(i))

Spec == Init /\ [][Next]_vars /\ Fairness

-----------------------------------------------------------------------------
TypeOK ==
    /\ \A i \in DOMAIN seed : seed[i] \in Entries
    /\ \A m \in live : /\ m.id \in 1..nextId - 1 /\ m.key \in Keys \cup {None} /\ m.name \in Names
                       /\ m.content \in {1, 2} /\ m.notify \in BOOLEAN
    /\ going \subseteq 1..nextId - 1
    /\ pc \in {"idle", "bootstrap", "delete", "write"}
    /\ plan.create \subseteq Entries /\ plan.delete \subseteq 1..nextId - 1
    /\ admin \in BOOLEAN /\ notifier \in BOOLEAN /\ edits \in Nat /\ faults \in Nat

\* A sync never takes the history of a monitor whose key the seed still has: the
\* monitor is neither deleted nor made another's ("a rename is an edit and uptime
\* history survives a sync").
HistoryFollowsKey ==
    \A m \in live : m.key \in SeedKeys =>
        /\ m.id \notin plan'.delete
        /\ pc = "write" => \A n \in live' : n.id = m.id => n.key = m.key

\* No two monitors watch the same thing under one key, however a run fails.
OneMonitorPerKey == \A m, n \in live : m.key = n.key /\ m.key # None => m = n

\* The monitors become those of the seed, muted and notifying ones alike, if
\* somebody keeps running the command.
Matches(m, entry) ==
    /\ m.key = entry.key /\ m.name = entry.name /\ m.content = entry.content
    /\ notifier => m.notify = ~entry.muted

Seeded ==
    /\ Cardinality(live) = Len(seed)
    /\ \A i \in DOMAIN seed : \E m \in live : Matches(m, seed[i])

MonitorsConverge == <>[]Seeded
=============================================================================
