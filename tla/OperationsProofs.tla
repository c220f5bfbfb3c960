--------------------------- MODULE OperationsProofs ---------------------------
(****************************************************************************)
(* The operator's commands for any operators, monitors, runners, workflows, *)
(* issues, files, nodes, logins and tokens, and any bounds: what holds of   *)
(* each part at every moment, and what follows for the whole.               *)
(****************************************************************************)
EXTENDS Operations, FiniteSetTheorems, SequenceTheorems, WellFoundedInduction, TLAPS

-----------------------------------------------------------------------------
\* Numbers

\* A set of numbers has a smallest.
LEMMA SmallestExists ==
  ASSUME NEW T, T \subseteq Nat, T # {} PROVE \E x \in T : \A u \in T : x <= u
<1>1. PICK x \in T : \A u \in T : ~(<<u, x>> \in OpToRel(<, Nat))
  BY NatLessThanWellFounded, WFMin
<1>2. ASSUME NEW u \in T PROVE x <= u
  <2>1. u \in Nat /\ x \in Nat
    OBVIOUS
  <2>2. ~(u < x)
    BY <1>1, <2>1 DEF OpToRel
  <2> QED
    BY <2>1, <2>2
<1> QED
  BY <1>2

\* What is no later than the next edit stays so.
LEMMA NextLater == \A a, b, c \in Nat : a <= b + 1 /\ b <= c => a <= c + 1
OBVIOUS

-----------------------------------------------------------------------------
\* The access to a cluster

Phases == {"idle", "await", "unlink", "ssh", "bridge", "write"}

AccessTyped ==
    /\ proc \in [Pids -> {"free", "bridge", "stopping"}]
    /\ onMesh \in BOOLEAN
    /\ port \in [Pids -> {"local", "spare"}]
    /\ bound \subseteq Pids
    /\ statefile \in Pids \cup {None}
    /\ machine \in Nat /\ known \in Nat /\ kubeconfig \in Nat /\ faults \in Nat
    /\ opc \in [Operators -> Phases]
    /\ mine \in [Operators -> Pids \cup {None}]
    /\ text \in [Operators -> Nat]
    /\ osaid \in [Operators -> {"nothing", "up", "down", "not-ours", "failed", "fetched"}]

\* One command runs at a time, and one that waits for a bridge knows its pid.
Alone == \A o, q \in Operators : opc[o] # "idle" /\ opc[q] # "idle" => o = q

OwnHolds == \A o \in Operators : IF opc[o] \in {"await", "bridge"} THEN mine[o] \in Pids ELSE mine[o] = None

\* A bridge is awaited by the command that started it, or the one in the statefile,
\* which listens.
BridgesHold ==
    /\ \A p \in bound : proc[p] # "free"
    /\ \A p \in Pids : proc[p] = "bridge" =>
          (\E o \in Operators : mine[o] = p) \/ (p = statefile /\ p \in bound /\ port[p] = "local")

\* While one connects no other bridge has the port, and one that is being stopped is
\* no bridge any more.
CommandsHold ==
    \A o \in Operators :
        /\ opc[o] = "await" => port[mine[o]] = "local" /\ \A r \in bound : port[r] = "local" => r = mine[o]
        /\ opc[o] = "unlink" => statefile \in Pids /\ proc[statefile] # "bridge"

AccessInv == AccessTyped /\ (~Overlap => Alone /\ OwnHolds /\ BridgesHold /\ CommandsHold)

\* What a command that ends does.
LEMMA EndTyped ==
  ASSUME AccessTyped, NEW o \in Operators,
         NEW r \in {"nothing", "up", "down", "not-ours", "failed", "fetched"}, Access!End(o, r)
  PROVE  /\ opc' \in [Operators -> Phases] /\ mine' \in [Operators -> Pids \cup {None}]
         /\ text' \in [Operators -> Nat]
         /\ osaid' \in [Operators -> {"nothing", "up", "down", "not-ours", "failed", "fetched"}]
BY DEF AccessTyped, Access!End, Access!GoTo, Phases

\* Each step of the commands, the bridges and the machine keeps the types.
LEMMA AccessTypeStep == ASSUME AccessTyped, Access!Next PROVE AccessTyped'
<1> USE DEF AccessTyped, Access!bridges, Access!files, Access!command, Access!outside
<1>1. ASSUME NEW o \in Operators, Access!ConnectNoop(o) PROVE AccessTyped'
  BY <1>1, EndTyped DEF Access!ConnectNoop
<1>2. ASSUME NEW o \in Operators, Access!Connect(o) PROVE AccessTyped'
  BY <1>2 DEF Access!Connect, Access!Spawn, Access!GoTo, Phases
<1>3. ASSUME NEW o \in Operators, Access!ConnectUp(o) PROVE AccessTyped'
  BY <1>3, EndTyped DEF Access!ConnectUp
<1>4. ASSUME NEW o \in Operators, Access!ConnectExited(o) PROVE AccessTyped'
  BY <1>4, EndTyped DEF Access!ConnectExited
<1>5. ASSUME NEW o \in Operators, Access!ConnectTimesOut(o) PROVE AccessTyped'
  BY <1>5, EndTyped DEF Access!ConnectTimesOut, Access!Terminate, Access!Fault
<1>6. ASSUME NEW o \in Operators, Access!DisconnectNoop(o) PROVE AccessTyped'
  BY <1>6, EndTyped DEF Access!DisconnectNoop
<1>7. ASSUME NEW o \in Operators, Access!Disconnect(o) PROVE AccessTyped'
  BY <1>7 DEF Access!Disconnect, Access!Terminate, Access!GoTo, Phases
<1>8. ASSUME NEW o \in Operators, Access!Unlink(o) PROVE AccessTyped'
  BY <1>8, EndTyped DEF Access!Unlink
<1>9. ASSUME NEW o \in Operators, Access!Fetch(o) PROVE AccessTyped'
  BY <1>9 DEF Access!Fetch, Access!GoTo, Access!Fault, Phases
<1>10. ASSUME NEW o \in Operators, Access!Ssh(o) PROVE AccessTyped'
  <2>1. CASE Access!End(o, "failed") /\ UNCHANGED known
    BY <1>10, <2>1, EndTyped DEF Access!Ssh
  <2>2. CASE known' = machine /\ text' = [text EXCEPT ![o] = machine] /\ Access!GoTo(o, "write") /\ UNCHANGED <<mine, osaid>>
    BY <1>10, <2>2 DEF Access!Ssh, Access!GoTo, Phases
  <2> QED
    BY <1>10, <2>1, <2>2 DEF Access!Ssh
<1>11. ASSUME NEW o \in Operators, Access!SshFails(o) PROVE AccessTyped'
  BY <1>11, EndTyped DEF Access!SshFails, Access!Fault
<1>12. ASSUME NEW o \in Operators, Access!SshViaBridge(o) PROVE AccessTyped'
  BY <1>12 DEF Access!SshViaBridge, Access!Spawn, Access!GoTo, Phases
<1>13. ASSUME NEW o \in Operators, Access!ReadViaBridge(o) PROVE AccessTyped'
  <2>1. proc' \in [Pids -> {"free", "bridge", "stopping"}] /\ faults' \in Nat
    BY <1>13 DEF Access!ReadViaBridge, Access!Terminate, Access!Fault
  <2>2. CASE Access!End(o, "failed")
    BY <1>13, <2>1, <2>2, EndTyped DEF Access!ReadViaBridge
  <2>3. CASE /\ text' = [text EXCEPT ![o] = machine] /\ mine' = [mine EXCEPT ![o] = None]
             /\ Access!GoTo(o, "write") /\ UNCHANGED osaid
    BY <1>13, <2>1, <2>3 DEF Access!ReadViaBridge, Access!GoTo, Phases
  <2> QED
    BY <1>13, <2>2, <2>3 DEF Access!ReadViaBridge
<1>14. ASSUME NEW o \in Operators, Access!WriteKubeconfig(o) PROVE AccessTyped'
  BY <1>14, EndTyped DEF Access!WriteKubeconfig
<1>15. ASSUME NEW o \in Operators, Access!Interrupt(o) PROVE AccessTyped'
  BY <1>15, EndTyped DEF Access!Interrupt, Access!Terminate, Access!Fault
<1>16. ASSUME NEW p \in Pids, Access!Binds(p) PROVE AccessTyped'
  BY <1>16 DEF Access!Binds
<1>17. ASSUME NEW p \in Pids, Access!Exits(p) PROVE AccessTyped'
  BY <1>17 DEF Access!Exits, Access!Gone, Access!Fault
<1>18. CASE Access!Rebuild
  BY <1>18 DEF Access!Rebuild
<1> QED
  BY <1>1, <1>2, <1>3, <1>4, <1>5, <1>6, <1>7, <1>8, <1>9, <1>10, <1>11, <1>12, <1>13, <1>14, <1>15, <1>16, <1>17, <1>18
     DEF Access!Next, Access!Begin, Access!GoOn

\* Each step keeps what is known of the bridges, if one command runs at a time.
LEMMA BridgesStep ==
  ASSUME AccessTyped, Alone, OwnHolds, BridgesHold, CommandsHold, ~Overlap, Access!Next
  PROVE  Alone' /\ OwnHolds' /\ BridgesHold' /\ CommandsHold'
<1> DEFINE Goal == Alone' /\ OwnHolds' /\ BridgesHold' /\ CommandsHold'
<1> USE AccessAssumption DEF AccessTyped, Alone, OwnHolds, BridgesHold, CommandsHold, Access!bridges, Access!files, Access!command,
     Access!outside, Phases
<1>1. ASSUME NEW o \in Operators, Access!ConnectNoop(o) PROVE Goal
  BY <1>1 DEF Access!ConnectNoop, Access!Ready, Access!End, Access!GoTo
<1>2. ASSUME NEW o \in Operators, Access!Connect(o) PROVE Goal
  <2>1. PICK p \in Pids : /\ proc[p] = "free" /\ proc' = [proc EXCEPT ![p] = "bridge"]
                          /\ port' = [port EXCEPT ![p] = "local"] /\ mine' = [mine EXCEPT ![o] = p]
    BY <1>2 DEF Access!Connect, Access!Spawn
  <2>2. /\ \A q \in Operators : opc[q] = "idle"
        /\ opc' = [opc EXCEPT ![o] = "await"] /\ bound' = bound /\ statefile' = statefile
        /\ \A q \in bound : port[q] # "local"
    BY <1>2 DEF Access!Connect, Access!Ready, Access!GoTo, Access!Listening
  <2>3. p \notin bound
    BY <2>1
  <2>4. \A q \in Pids : proc[q] # "bridge"
    BY <2>2
  <2> QED
    BY <2>1, <2>2, <2>3, <2>4
<1>3. ASSUME NEW o \in Operators, Access!ConnectUp(o) PROVE Goal
  <2>1. mine[o] \in bound /\ port[mine[o]] = "local" /\ mine[o] \in Pids
    BY <1>3 DEF Access!ConnectUp, Access!Listening
  <2>2. \A q \in Operators : q # o => opc[q] = "idle" /\ mine[q] = None
    BY <1>3 DEF Access!ConnectUp
  <2>3. \A p \in Pids : proc[p] = "bridge" => p = mine[o]
    BY <1>3, <2>2 DEF Access!ConnectUp
  <2> QED
    BY <1>3, <2>1, <2>2, <2>3 DEF Access!ConnectUp, Access!End, Access!GoTo
<1>4. ASSUME NEW o \in Operators, Access!ConnectExited(o) PROVE Goal
  BY <1>4 DEF Access!ConnectExited, Access!End, Access!GoTo
<1>5. ASSUME NEW o \in Operators, Access!ConnectTimesOut(o) PROVE Goal
  BY <1>5 DEF Access!ConnectTimesOut, Access!Terminate, Access!End, Access!GoTo
<1>6. ASSUME NEW o \in Operators, Access!DisconnectNoop(o) PROVE Goal
  BY <1>6 DEF Access!DisconnectNoop, Access!Ready, Access!End, Access!GoTo
<1>7. ASSUME NEW o \in Operators, Access!Disconnect(o) PROVE Goal
  BY <1>7 DEF Access!Disconnect, Access!Ready, Access!Terminate, Access!GoTo
<1>8. ASSUME NEW o \in Operators, Access!Unlink(o) PROVE Goal
  BY <1>8 DEF Access!Unlink, Access!End, Access!GoTo
<1>9. ASSUME NEW o \in Operators, Access!Fetch(o) PROVE Goal
  BY <1>9 DEF Access!Fetch, Access!Ready, Access!GoTo
<1>10. ASSUME NEW o \in Operators, Access!Ssh(o) PROVE Goal
  BY <1>10 DEF Access!Ssh, Access!End, Access!GoTo
<1>11. ASSUME NEW o \in Operators, Access!SshFails(o) PROVE Goal
  BY <1>11 DEF Access!SshFails, Access!End, Access!GoTo
<1>12. ASSUME NEW o \in Operators, Access!SshViaBridge(o) PROVE Goal
  <2>1. PICK p \in Pids : /\ proc[p] = "free" /\ proc' = [proc EXCEPT ![p] = "bridge"]
                          /\ port' = [port EXCEPT ![p] = "spare"] /\ mine' = [mine EXCEPT ![o] = p]
    BY <1>12 DEF Access!SshViaBridge, Access!Spawn
  <2>2. /\ opc[o] = "ssh" /\ opc' = [opc EXCEPT ![o] = "bridge"] /\ bound' = bound /\ statefile' = statefile
    BY <1>12 DEF Access!SshViaBridge, Access!GoTo
  <2>3. p \notin bound /\ \A q \in Operators : mine[q] = None
    BY <2>1, <2>2
  <2> QED
    BY <2>1, <2>2, <2>3
<1>13. ASSUME NEW o \in Operators, Access!ReadViaBridge(o) PROVE Goal
  <2>1. /\ opc[o] = "bridge" /\ mine[o] \in Pids /\ UNCHANGED <<port, bound, statefile>>
        /\ proc' = [q \in Pids |-> IF q = mine[o] /\ proc[q] # "free" THEN "stopping" ELSE proc[q]]
    BY <1>13 DEF Access!ReadViaBridge, Access!Terminate
  <2>2. mine' = [mine EXCEPT ![o] = None] /\ opc' \in {[opc EXCEPT ![o] = "write"], [opc EXCEPT ![o] = "idle"]}
    BY <1>13 DEF Access!ReadViaBridge, Access!End, Access!GoTo
  <2> QED
    BY <2>1, <2>2
<1>14. ASSUME NEW o \in Operators, Access!WriteKubeconfig(o) PROVE Goal
  BY <1>14 DEF Access!WriteKubeconfig, Access!End, Access!GoTo
<1>15. ASSUME NEW o \in Operators, Access!Interrupt(o) PROVE Goal
  <2>1. CASE mine[o] = None
    BY <1>15, <2>1 DEF Access!Interrupt, Access!End, Access!GoTo
  <2>2. CASE mine[o] # None
    BY <1>15, <2>2 DEF Access!Interrupt, Access!Terminate, Access!End, Access!GoTo
  <2> QED
    BY <2>1, <2>2
<1>16. ASSUME NEW p \in Pids, Access!Binds(p) PROVE Goal
  <2>1. proc[p] = "bridge" /\ p \notin bound /\ bound' = bound \cup {p} /\ UNCHANGED <<proc, port, statefile, opc, mine>>
    BY <1>16 DEF Access!Binds
  <2>2. PICK o \in Operators : mine[o] = p
    BY <2>1
  <2>3. opc[o] # "idle"
    BY <2>2
  <2> QED
    BY <2>1, <2>2, <2>3
<1>17. ASSUME NEW p \in Pids, Access!Exits(p) PROVE Goal
  BY <1>17 DEF Access!Exits, Access!Gone
<1>18. CASE Access!Rebuild
  BY <1>18 DEF Access!Rebuild
<1> QED
  BY <1>1, <1>2, <1>3, <1>4, <1>5, <1>6, <1>7, <1>8, <1>9, <1>10, <1>11, <1>12, <1>13, <1>14, <1>15, <1>16, <1>17, <1>18
     DEF Access!Next, Access!Begin, Access!GoOn

\* At first there is no bridge.
LEMMA AccessInit == Init => AccessInv
<1>1. Init => Access!Init /\ faults = 0
  BY DEF Init
<1>2. ASSUME Access!Init, faults = 0 PROVE AccessInv
  <2>1. onMesh \in BOOLEAN
    BY <1>2 DEF Access!Init
  <2> QED
    BY <1>2, <2>1 DEF Access!Init, AccessInv, AccessTyped, Alone, OwnHolds, BridgesHold, CommandsHold, Phases
<1> QED
  BY <1>1, <1>2

\* What is checked follows.
LEMMA AccessIsTyped ==
  ASSUME AccessInv
  PROVE  Access!TypeOK /\ (~Overlap => Access!NoOrphan /\ Access!DownIsDown)
<1>1. Access!TypeOK
  BY DEF AccessInv, AccessTyped, Access!TypeOK, Access!Ports, Phases
<1>2. ASSUME ~Overlap PROVE Access!NoOrphan
  BY <1>2 DEF AccessInv, BridgesHold, Access!NoOrphan
<1>3. ASSUME ~Overlap PROVE Access!DownIsDown
  <2>1. AccessTyped /\ OwnHolds /\ BridgesHold
    BY <1>3 DEF AccessInv
  <2>2. ASSUME statefile = None, \A q \in Operators : opc[q] = "idle", NEW p \in bound PROVE proc[p] = "stopping"
    <3>1. p \in Pids /\ p # statefile /\ \A q \in Operators : mine[q] # p
      BY <2>1, <2>2, AccessAssumption DEF AccessTyped, OwnHolds
    <3> QED
      BY <2>1, <3>1 DEF AccessTyped, BridgesHold
  <2> QED
    BY <2>2 DEF Access!DownIsDown
<1> QED
  BY <1>1, <1>2, <1>3

-----------------------------------------------------------------------------
\* The monitors

Monitor == [id : Nat, key : Keys \cup {None}, name : Titles, content : {1, 2}, notify : BOOLEAN]

\* A database whose monitors have ids of their own below the next one.
Sound(ms, next) ==
    /\ ms \subseteq Monitor
    /\ \A m \in ms : 1 <= m.id /\ m.id < next
    /\ \A m, n \in ms : m.id = n.id => m = n

OneKey(ms) == \A m, n \in ms : m.key = n.key /\ m.key # None => m = n

Edits == Nat \X Monitors!Entries

Syncs == [create : SUBSET Monitors!Entries, edit : SUBSET Edits, delete : SUBSET Nat]

MonitorsTyped ==
    /\ seed \in Seq(Monitors!Entries)
    /\ nextId \in Nat /\ 1 <= nextId /\ Sound(live, nextId) /\ Sound(backup, nextId)
    /\ going \subseteq Nat /\ \A i \in going : 1 <= i /\ i < nextId
    /\ pc \in {"idle", "bootstrap", "delete", "write"}
    /\ sync \in Syncs /\ \A i \in sync.delete : 1 <= i /\ i < nextId
    /\ admin \in BOOLEAN /\ notifier \in BOOLEAN /\ edits \in Nat /\ faults \in Nat

\* The key that a name belongs to, wherever it is in use.
Owns(name, key) ==
    \/ \E m \in live \cup backup : m.name = name /\ m.key = key
    \/ \E i \in DOMAIN seed : seed[i].name = name /\ seed[i].key = key

NamesHold == \A n \in Titles, j, k \in Keys : Owns(n, j) /\ Owns(n, k) => j = k

\* What remains of the plan: no monitor has the key of an entry that is to be created;
\* the one that is to be edited has the key of its entry or none, and no other one has
\* that key; one monitor an entry; and none whose key the seed has is deleted.
ToCreate == \A e \in sync.create : (\E i \in DOMAIN seed : e = seed[i]) /\ \A m \in live : m.key # e.key

ToEdit ==
    \A p \in sync.edit :
        /\ p[1] \notin sync.delete /\ p[2] \notin sync.create /\ \E i \in DOMAIN seed : p[2] = seed[i]
        /\ \A m \in live : (m.id = p[1] => m.key \in {None, p[2].key}) /\ (m.key = p[2].key => m.id = p[1])
        /\ \A q \in sync.edit : (p[1] = q[1] => p[2] = q[2]) /\ (p[2] = q[2] => p[1] = q[1])

ToDelete == \A m \in live, i \in DOMAIN seed : m.key = seed[i].key => m.id \notin sync.delete

MonitorsHold ==
    /\ OneKey(live) /\ OneKey(backup) /\ Monitors!Distinct(seed) /\ NamesHold
    /\ pc \in {"delete", "write"} => ToCreate /\ ToEdit /\ ToDelete
    /\ pc \in {"idle", "bootstrap"} => sync.delete = {}

MonitorsInv == MonitorsTyped /\ (~ReuseNames => MonitorsHold)

\* The first of some monitors is one of them.
LEMMA FirstIs ==
  ASSUME NEW ms, ms \subseteq Monitor, ms # {} PROVE Monitors!First(ms) \in ms
<1> DEFINE ids == {m.id : m \in ms}
<1>1. ids \subseteq Nat /\ ids # {}
  BY DEF Monitor
<1>2. PICK x \in ids : \A u \in ids : x <= u
  <2> HIDE DEF ids
  <2> QED
    BY <1>1, SmallestExists
<1>3. PICK m \in ms : m.id = x
  BY <1>2
<1>4. \A n \in ms : m.id <= n.id
  BY <1>2, <1>3
<1> QED
  BY <1>4 DEF Monitors!First

Decisions == [claimed : SUBSET Nat, create : SUBSET Monitors!Entries, edit : SUBSET Edits]

\* The two decisions about an entry: to create it, if its key's monitor is not there or
\* is claimed, or to take a monitor nobody has claimed, with its key or else its name.
LEMMA DecideIs ==
  ASSUME live \subseteq Monitor, NEW acc \in Decisions, NEW e \in Monitors!Entries
  PROVE  LET d    == Monitors!Decide(acc, e)
             free == \A m \in live : m.key = e.key => \E k \in live : k.key = e.key /\ k.id \in acc.claimed
         IN  /\ d \in Decisions
             /\ \/ /\ d.claimed = acc.claimed /\ d.edit = acc.edit /\ d.create = acc.create \cup {e}
                   /\ free
                \/ \E m \in live :
                      /\ m.id \notin acc.claimed
                      /\ d.claimed = acc.claimed \cup {m.id} /\ d.create = acc.create
                      /\ d.edit = acc.edit \/ d.edit = acc.edit \cup {<<m.id, e>>}
                      /\ m.key = e.key \/ (m.name = e.name /\ free)
<1> DEFINE d     == Monitors!Decide(acc, e)
           free  == \A m \in live : m.key = e.key => \E k \in live : k.key = e.key /\ k.id \in acc.claimed
           sameKey == {m \in live : m.key = e.key}
           sameName == {m \in live : m.name = e.name /\ m.id \notin acc.claimed}
           found == Monitors!Found(e, live, acc.claimed)
<1>1. sameKey # {} => Monitors!First(sameKey) \in sameKey
  <2>1. sameKey \subseteq Monitor
    OBVIOUS
  <2> HIDE DEF sameKey
  <2> QED
    BY <2>1, FirstIs
<1>2. sameName # {} => Monitors!First(sameName) \in sameName
  <2>1. sameName \subseteq Monitor
    OBVIOUS
  <2> HIDE DEF sameName
  <2> QED
    BY <2>1, FirstIs
<1>3. found = IF sameKey # {} /\ Monitors!First(sameKey).id \notin acc.claimed THEN {Monitors!First(sameKey)}
              ELSE IF sameName # {} THEN {Monitors!First(sameName)} ELSE {}
  BY DEF Monitors!Found
<1>4. ~(sameKey # {} /\ Monitors!First(sameKey).id \notin acc.claimed) => free
  <2>1. CASE sameKey = {}
    BY <2>1
  <2>2. ASSUME sameKey # {}, Monitors!First(sameKey).id \in acc.claimed PROVE free
    <3>1. Monitors!First(sameKey) \in live /\ Monitors!First(sameKey).key = e.key
      BY <1>1, <2>2
    <3> QED
      BY <2>2, <3>1
  <2> QED
    BY <2>1, <2>2
<1>5. \/ found = {} /\ free
      \/ \E m \in live : found = {m} /\ m.id \notin acc.claimed /\ (m.key = e.key \/ (m.name = e.name /\ free))
  <2>1. CASE sameKey # {} /\ Monitors!First(sameKey).id \notin acc.claimed
    <3>1. Monitors!First(sameKey) \in live /\ Monitors!First(sameKey).key = e.key
      BY <1>1, <2>1
    <3>2. found = {Monitors!First(sameKey)}
      BY <1>3, <2>1
    <3> QED
      BY <2>1, <3>1, <3>2
  <2>2. CASE ~(sameKey # {} /\ Monitors!First(sameKey).id \notin acc.claimed)
    <3>1. CASE sameName = {}
      BY <1>3, <1>4, <2>2, <3>1
    <3>2. CASE sameName # {}
      <4>1. /\ Monitors!First(sameName) \in live /\ Monitors!First(sameName).name = e.name
            /\ Monitors!First(sameName).id \notin acc.claimed
        BY <1>2, <3>2
      <4>2. found = {Monitors!First(sameName)}
        BY <1>3, <2>2, <3>2
      <4> QED
        BY <1>4, <2>2, <4>1, <4>2
    <3> QED
      BY <3>1, <3>2
  <2> QED
    BY <2>1, <2>2
<1> HIDE DEF found, free, sameKey, sameName
<1>6. CASE found = {} /\ free
  <2>1. d = [acc EXCEPT !.create = @ \cup {e}]
    BY <1>6 DEF Monitors!Decide, found
  <2>2. d.claimed = acc.claimed /\ d.edit = acc.edit /\ d.create = acc.create \cup {e} /\ d \in Decisions
    BY <2>1 DEF Decisions
  <2> HIDE DEF d
  <2> QED
    BY <1>6, <2>2 DEF d, free
<1>7. ASSUME NEW m \in live, found = {m}, m.id \notin acc.claimed, m.key = e.key \/ (m.name = e.name /\ free)
      PROVE  /\ d \in Decisions
             /\ d.claimed = acc.claimed \cup {m.id} /\ d.create = acc.create
             /\ d.edit = acc.edit \/ d.edit = acc.edit \cup {<<m.id, e>>}
  <2>1. (CHOOSE n \in found : TRUE) = m
    BY <1>7
  <2>2. PICK s : /\ s = acc.edit \/ s = acc.edit \cup {<<m.id, e>>}
                 /\ d = [acc EXCEPT !.claimed = @ \cup {m.id}, !.edit = s]
    <3>1. found # {}
      BY <1>7
    <3>2. d = [acc EXCEPT !.claimed = @ \cup {m.id},
                          !.edit = IF Monitors!NeedsEdit(e, m) THEN @ \cup {<<m.id, e>>} ELSE @]
      BY <2>1, <3>1 DEF Monitors!Decide, found
    <3> HIDE DEF d
    <3>3. CASE Monitors!NeedsEdit(e, m)
      BY <3>2, <3>3
    <3>4. CASE ~Monitors!NeedsEdit(e, m)
      BY <3>2, <3>4
    <3> QED
      BY <3>3, <3>4
  <2> HIDE DEF d
  <2>3. m.id \in Nat /\ <<m.id, e>> \in Edits
    BY DEF Monitor, Edits
  <2>4. s \subseteq Edits
    BY <2>2, <2>3 DEF Decisions
  <2> QED
    BY <2>2, <2>3, <2>4 DEF Decisions
<1> QED
  BY <1>5, <1>6, <1>7 DEF free

\* What is decided is decided entry by entry.
LEMMA DecidedIs ==
  ASSUME MonitorsTyped
  PROVE  Monitors!Decided = [i \in 0..Len(seed) |->
             IF i = 0 THEN [claimed |-> {}, create |-> {}, edit |-> {}]
             ELSE Monitors!Decide(Monitors!Decided[i - 1], seed[i])]
<1> DEFINE none == [claimed |-> {}, create |-> {}, edit |-> {}]
           N == Len(seed)
           Goes(f, n) == f = [i \in 0..n |-> IF i = 0 THEN none ELSE Monitors!Decide(f[i - 1], seed[i])]
           T == {n \in 0..N : \A f : ~Goes(f, n)}
<1>0. N \in Nat
  BY DEF MonitorsTyped
<1> HIDE DEF N, none
<1>1. T = {}
  <2>1. SUFFICES ASSUME T # {} PROVE FALSE
    OBVIOUS
  <2>2. T \subseteq Nat
    BY <1>0
  <2>3. PICK n \in T : \A u \in T : n <= u
    <3> HIDE DEF T
    <3> QED
      BY <2>1, <2>2, SmallestExists
  <2>4. CASE n = 0
    <3> DEFINE f == [i \in 0..0 |-> none]
    <3>1. Goes(f, 0)
      OBVIOUS
    <3> HIDE DEF f
    <3> QED
      BY <2>3, <2>4, <3>1
  <2>5. CASE n # 0
    <3>1. n \in 0..N /\ n - 1 \in 0..N /\ n \in Nat
      BY <1>0, <2>3, <2>5
    <3>2. n - 1 \notin T
      <4>1. ~(n <= n - 1)
        BY <3>1
      <4> HIDE DEF T
      <4> QED
        BY <2>3, <4>1
    <3>3. PICK f : Goes(f, n - 1)
      BY <3>1, <3>2
    <3> DEFINE g == [i \in 0..n |-> IF i = n THEN Monitors!Decide(f[n - 1], seed[n]) ELSE f[i]]
    <3>4. ASSUME NEW i \in 0..n PROVE g[i] = IF i = 0 THEN none ELSE Monitors!Decide(g[i - 1], seed[i])
      <4>1. CASE i = n
        BY <2>5, <3>1, <4>1
      <4>2. CASE i # n
        <5>1. i \in 0..(n - 1)
          BY <3>1, <4>2
        <5>2. f[i] = IF i = 0 THEN none ELSE Monitors!Decide(f[i - 1], seed[i])
          BY <3>3, <5>1
        <5>3. g[i] = f[i]
          BY <4>2
        <5>4. i # 0 => g[i - 1] = f[i - 1]
          BY <3>1, <5>1
        <5> QED
          BY <5>2, <5>3, <5>4
      <4> QED
        BY <4>1, <4>2
    <3>5. g = [i \in 0..n |-> g[i]]
      OBVIOUS
    <3> HIDE DEF g
    <3>6. g = [i \in 0..n |-> IF i = 0 THEN none ELSE Monitors!Decide(g[i - 1], seed[i])]
      BY <3>4, <3>5
    <3> QED
      BY <2>3, <3>6
  <2> QED
    BY <2>4, <2>5
<1>2. PICK f : Goes(f, N)
  <2>1. N \in 0..N
    BY <1>0
  <2> QED
    BY <1>1, <2>1
<1> QED
  BY <1>2 DEF Monitors!Decided, N, none

\* What has been decided of the first n entries.
AllDecided(acc, n) ==
    /\ \A x \in acc.claimed : \E j \in 1..n, m \in live :
          m.id = x /\ (m.key = seed[j].key \/ (m.key = None /\ m.name = seed[j].name))
    /\ \A e \in acc.create : (\E j \in 1..n : e = seed[j]) /\ \A m \in live : m.key # e.key
    /\ \A p \in acc.edit :
          /\ p[1] \in acc.claimed /\ p[2] \notin acc.create /\ \E j \in 1..n : p[2] = seed[j]
          /\ \A m \in live : (m.id = p[1] => m.key \in {None, p[2].key}) /\ (m.key = p[2].key => m.id = p[1])
          /\ \A q \in acc.edit : (p[1] = q[1] => p[2] = q[2]) /\ (p[2] = q[2] => p[1] = q[1])
    /\ \A m \in live, j \in 1..n : m.key = seed[j].key => m.id \in acc.claimed

\* The decision about one more entry.
LEMMA DecisionStep ==
  ASSUME MonitorsTyped, OneKey(live), Monitors!Distinct(seed), NamesHold,
         NEW n \in 1..Len(seed), NEW acc \in Decisions, AllDecided(acc, n - 1)
  PROVE  AllDecided(Monitors!Decide(acc, seed[n]), n)
<1> DEFINE e == seed[n]
           d == Monitors!Decide(acc, e)
<1>1. /\ n \in DOMAIN seed /\ e \in Monitors!Entries /\ live \subseteq Monitor
      /\ \A i \in DOMAIN seed : seed[i] \in Monitors!Entries
      /\ \A m, k \in live : m.id = k.id => m = k
  BY DEF MonitorsTyped, Sound
<1>2. /\ 1..(n - 1) \subseteq DOMAIN seed /\ 1..(n - 1) \subseteq 1..n /\ n \in 1..n
      /\ \A j \in 1..(n - 1) : j # n
      /\ \A j \in 1..n : j = n \/ j \in 1..(n - 1)
  BY DEF MonitorsTyped
<1>3. \A j \in 1..(n - 1) : seed[j].key # e.key /\ seed[j].name # e.name /\ seed[j] # e
  BY <1>1, <1>2 DEF Monitors!Distinct
<1>4. e.key \in Keys /\ e.key # None /\ e.name \in Titles
  BY <1>1, MonitorsAssumption DEF Monitors!Entries
<1>5. ASSUME NEW k \in live, k.key = e.key PROVE k.id \notin acc.claimed
  <2>1. SUFFICES ASSUME k.id \in acc.claimed PROVE FALSE
    OBVIOUS
  <2>2. PICK j \in 1..(n - 1), m \in live :
           m.id = k.id /\ (m.key = seed[j].key \/ (m.key = None /\ m.name = seed[j].name))
    BY <2>1 DEF AllDecided
  <2>3. m = k
    BY <1>1, <2>2
  <2> QED
    BY <1>3, <1>4, <1>5, <2>2, <2>3
<1>6. \A e1 \in acc.create : e1 # e
  BY <1>3 DEF AllDecided
<1>7. \A p \in acc.edit : p[2] # e
  BY <1>3 DEF AllDecided
<1> DEFINE free == \A m \in live : m.key = e.key => \E k \in live : k.key = e.key /\ k.id \in acc.claimed
<1>8. /\ d \in Decisions
      /\ \/ /\ d.claimed = acc.claimed /\ d.edit = acc.edit /\ d.create = acc.create \cup {e}
            /\ free
         \/ \E m \in live :
               /\ m.id \notin acc.claimed
               /\ d.claimed = acc.claimed \cup {m.id} /\ d.create = acc.create
               /\ d.edit = acc.edit \/ d.edit = acc.edit \cup {<<m.id, e>>}
               /\ m.key = e.key \/ (m.name = e.name /\ free)
  <2> HIDE DEF e
  <2> QED
    BY <1>1, DecideIs
<1>9. free => \A m \in live : m.key # e.key
  BY <1>5
<1> HIDE DEF d, free, e
<1>10. CASE d.claimed = acc.claimed /\ d.edit = acc.edit /\ d.create = acc.create \cup {e} /\ free
  <2>1. \A x \in d.claimed : \E j \in 1..n, m \in live :
           m.id = x /\ (m.key = seed[j].key \/ (m.key = None /\ m.name = seed[j].name))
    BY <1>2, <1>10 DEF AllDecided
  <2>2. \A e1 \in d.create : (\E j \in 1..n : e1 = seed[j]) /\ \A m \in live : m.key # e1.key
    BY <1>2, <1>9, <1>10 DEF AllDecided, e
  <2>3. ASSUME NEW p \in d.edit
        PROVE  /\ p[1] \in d.claimed /\ p[2] \notin d.create /\ \E j \in 1..n : p[2] = seed[j]
               /\ \A m \in live : (m.id = p[1] => m.key \in {None, p[2].key}) /\ (m.key = p[2].key => m.id = p[1])
               /\ \A q \in d.edit : (p[1] = q[1] => p[2] = q[2]) /\ (p[2] = q[2] => p[1] = q[1])
    BY <1>2, <1>7, <1>10 DEF AllDecided
  <2>4. \A m \in live, j \in 1..n : m.key = seed[j].key => m.id \in d.claimed
    BY <1>2, <1>9, <1>10 DEF AllDecided, e
  <2> QED
    BY <2>1, <2>2, <2>3, <2>4 DEF AllDecided, d, e
<1>11. ASSUME NEW m \in live, m.id \notin acc.claimed,
              d.claimed = acc.claimed \cup {m.id}, d.create = acc.create,
              d.edit = acc.edit \/ d.edit = acc.edit \cup {<<m.id, e>>},
              m.key = e.key \/ (m.name = e.name /\ free)
       PROVE  AllDecided(d, n)
  <2>1. m.key = e.key \/ (m.key = None /\ m.name = e.name /\ \A k \in live : k.key # e.key)
    <3>1. ASSUME m.name = e.name, m.key # None PROVE m.key = e.key
      <4>1. m.key \in Keys
        BY <1>1, <3>1 DEF Monitor
      <4>2. Owns(e.name, m.key) /\ Owns(e.name, e.key)
        BY <1>1, <3>1 DEF Owns, e
      <4> QED
        BY <1>4, <4>1, <4>2 DEF NamesHold
    <3> QED
      BY <1>9, <1>11, <3>1
  <2>2. \A x \in d.claimed : \E j \in 1..n, k \in live :
           k.id = x /\ (k.key = seed[j].key \/ (k.key = None /\ k.name = seed[j].name))
    <3>1. ASSUME NEW x \in acc.claimed
          PROVE  \E j \in 1..n, k \in live : k.id = x /\ (k.key = seed[j].key \/ (k.key = None /\ k.name = seed[j].name))
      BY <1>2 DEF AllDecided
    <3>2. \E j \in 1..n, k \in live : k.id = m.id /\ (k.key = seed[j].key \/ (k.key = None /\ k.name = seed[j].name))
      BY <1>2, <2>1 DEF e
    <3> QED
      BY <1>11, <3>1, <3>2
  <2>3. \A e1 \in d.create : (\E j \in 1..n : e1 = seed[j]) /\ \A k \in live : k.key # e1.key
    BY <1>2, <1>11 DEF AllDecided
  <2> DEFINE Good(p) ==
         /\ p[1] \in d.claimed /\ p[2] \notin d.create /\ \E j \in 1..n : p[2] = seed[j]
         /\ \A k \in live : (k.id = p[1] => k.key \in {None, p[2].key}) /\ (k.key = p[2].key => k.id = p[1])
  <2>4. \A p \in acc.edit : Good(p)
    BY <1>2, <1>11 DEF AllDecided
  <2>5. Good(<<m.id, e>>)
    <3>1. \A k \in live : (k.id = m.id => k.key \in {None, e.key}) /\ (k.key = e.key => k.id = m.id)
      <4>1. \A k \in live : k.id = m.id => k = m
        BY <1>1
      <4>2. \A k \in live : k.key = e.key => k.id = m.id
        BY <1>4, <2>1 DEF OneKey
      <4> QED
        BY <2>1, <4>1, <4>2
    <3>2. e \notin d.create /\ \E j \in 1..n : e = seed[j]
      BY <1>2, <1>6, <1>11 DEF e
    <3> QED
      BY <1>11, <3>1, <3>2
  <2>6. \A p \in acc.edit : p[1] # m.id /\ p[2] # e
    BY <1>7, <1>11 DEF AllDecided
  <2>7. ASSUME NEW p \in d.edit, NEW q \in d.edit PROVE (p[1] = q[1] => p[2] = q[2]) /\ (p[2] = q[2] => p[1] = q[1])
    <3>1. CASE p \in acc.edit /\ q \in acc.edit
      BY <3>1 DEF AllDecided
    <3>2. CASE p = <<m.id, e>> /\ q = <<m.id, e>>
      BY <3>2
    <3>3. CASE p = <<m.id, e>> /\ q \in acc.edit
      BY <2>6, <3>3
    <3>4. CASE p \in acc.edit /\ q = <<m.id, e>>
      BY <2>6, <3>4
    <3> QED
      BY <1>11, <3>1, <3>2, <3>3, <3>4
  <2>8. \A p \in d.edit : Good(p)
    <3> HIDE DEF Good
    <3> QED
      BY <1>11, <2>4, <2>5
  <2>9. \A k \in live, j \in 1..n : k.key = seed[j].key => k.id \in d.claimed
    <3>1. ASSUME NEW k \in live, k.key = e.key PROVE k.id \in d.claimed
      BY <1>4, <1>11, <2>1, <3>1 DEF OneKey
    <3>2. ASSUME NEW k \in live, NEW j \in 1..(n - 1), k.key = seed[j].key PROVE k.id \in d.claimed
      BY <1>11, <3>2 DEF AllDecided
    <3> QED
      BY <1>2, <3>1, <3>2 DEF e
  <2> QED
    BY <2>2, <2>3, <2>7, <2>8, <2>9 DEF AllDecided
<1> QED
  BY <1>8, <1>10, <1>11 DEF d, e

\* All decisions, and that each of them is about a monitor that is there.
LEMMA DecidedHolds ==
  ASSUME MonitorsTyped, NEW n \in 0..Len(seed)
  PROVE  /\ Monitors!Decided[n] \in Decisions
         /\ OneKey(live) /\ Monitors!Distinct(seed) /\ NamesHold => AllDecided(Monitors!Decided[n], n)
<1> DEFINE Good(k) == /\ Monitors!Decided[k] \in Decisions
                      /\ OneKey(live) /\ Monitors!Distinct(seed) /\ NamesHold => AllDecided(Monitors!Decided[k], k)
           T == {k \in 0..Len(seed) : ~Good(k)}
<1>0. Len(seed) \in Nat /\ live \subseteq Monitor /\ \A i \in 1..Len(seed) : seed[i] \in Monitors!Entries
  BY DEF MonitorsTyped, Sound
<1>1. SUFFICES ASSUME T # {} PROVE FALSE
  OBVIOUS
<1>2. PICK k \in T : \A u \in T : k <= u
  <2>1. T \subseteq Nat
    BY <1>0
  <2> HIDE DEF T
  <2> QED
    BY <1>1, <2>1, SmallestExists
<1>3. CASE k = 0
  <2>1. 0 \in 0..Len(seed)
    BY <1>0
  <2>2. Monitors!Decided[0] = [claimed |-> {}, create |-> {}, edit |-> {}]
    BY <2>1, DecidedIs
  <2>3. Monitors!Decided[0] \in Decisions
    BY <2>2 DEF Decisions
  <2>4. AllDecided(Monitors!Decided[0], 0)
    BY <2>2 DEF AllDecided
  <2> QED
    BY <1>2, <1>3, <2>3, <2>4
<1>4. CASE k # 0
  <2>1. k \in 0..Len(seed) /\ k - 1 \in 0..Len(seed) /\ k \in 1..Len(seed) /\ k \in Nat
    BY <1>0, <1>2, <1>4
  <2>2. Good(k - 1)
    <3>1. ~(k <= k - 1)
      BY <2>1
    <3>2. k - 1 \notin T
      <4> HIDE DEF T
      <4> QED
        BY <1>2, <3>1
    <3> QED
      BY <2>1, <3>2
  <2>3. Monitors!Decided[k] = Monitors!Decide(Monitors!Decided[k - 1], seed[k])
    BY <1>4, <2>1, DecidedIs
  <2>4. Monitors!Decided[k] \in Decisions
    BY <1>0, <2>1, <2>2, <2>3, DecideIs
  <2>5. OneKey(live) /\ Monitors!Distinct(seed) /\ NamesHold => AllDecided(Monitors!Decided[k], k)
    BY <2>1, <2>2, <2>3, DecisionStep
  <2> QED
    BY <1>2, <2>4, <2>5
<1> QED
  BY <1>3, <1>4

\* There are finitely many.
LEMMA SoundIsFinite == ASSUME NEW ms, NEW n \in Nat, Sound(ms, n) PROVE IsFiniteSet(ms)
<1> DEFINE f == [m \in ms |-> m.id]
<1>1. f \in Injection(ms, 0..n)
  BY DEF Sound, Monitor, Injection, IsInjective
<1>2. IsFiniteSet(0..n)
  BY FS_Interval
<1> QED
  BY <1>1, <1>2, FS_Injection

\* The names belong to whom they did.
LEMMA NamesStay ==
  ASSUME NamesHold, \A n \in Titles, k \in Keys : Owns(n, k)' => Owns(n, k) PROVE NamesHold'
BY DEF NamesHold

\* A command plans.
LEMMA DiffStep ==
  ASSUME MonitorsInv, sync' = Monitors!Diff, pc' = "delete",
         UNCHANGED <<seed, live, going, nextId, notifier, backup, edits, faults>>, admin' \in BOOLEAN
  PROVE  MonitorsInv'
<1> DEFINE all == Monitors!Decided[Len(seed)]
<1>0. MonitorsTyped /\ Len(seed) \in 0..Len(seed) /\ Len(seed) \in Nat /\ DOMAIN seed = 1..Len(seed)
  BY DEF MonitorsInv, MonitorsTyped
<1>1. all \in Decisions
  BY <1>0, DecidedHolds
<1>2. sync' = [create |-> all.create, edit |-> all.edit, delete |-> {m.id : m \in live} \ all.claimed]
  BY DEF Monitors!Diff
<1>3. OneKey(live) /\ Monitors!Distinct(seed) /\ NamesHold => AllDecided(all, Len(seed))
  BY <1>0, DecidedHolds
<1> HIDE DEF all
<1>4. /\ sync'.create = all.create /\ sync'.edit = all.edit
      /\ \A i \in sync'.delete : i \notin all.claimed /\ \E m \in live : i = m.id
  BY <1>2
<1>5. sync' \in Syncs
  <2>1. {m.id : m \in live} \ all.claimed \subseteq Nat
    BY <1>0 DEF MonitorsTyped, Sound, Monitor
  <2> QED
    BY <1>1, <1>2, <2>1 DEF Syncs, Decisions
<1>6. \A i \in sync'.delete : 1 <= i /\ i < nextId'
  BY <1>0, <1>4 DEF MonitorsTyped, Sound
<1>7. MonitorsTyped'
  BY <1>0, <1>5, <1>6 DEF MonitorsTyped, Sound
<1>8. ASSUME MonitorsHold PROVE MonitorsHold'
  <2>1. AllDecided(all, Len(seed))
    BY <1>3, <1>8 DEF MonitorsHold
  <2>2. ToCreate'
    BY <1>0, <1>4, <2>1 DEF ToCreate, AllDecided
  <2>3. ToEdit'
    BY <1>0, <1>4, <2>1 DEF ToEdit, AllDecided
  <2>4. ToDelete'
    BY <1>0, <1>4, <2>1 DEF ToDelete, AllDecided
  <2>5. NamesHold'
    BY <1>8, NamesStay DEF MonitorsHold, Owns
  <2> QED
    BY <1>8, <2>2, <2>3, <2>4, <2>5 DEF MonitorsHold, OneKey, Monitors!Distinct
<1> QED
  BY <1>7, <1>8 DEF MonitorsInv

\* A command ends.
LEMMA SyncEnds ==
  ASSUME MonitorsInv, Monitors!End, UNCHANGED <<seed, live, going, nextId, admin, notifier, backup, edits>>,
         faults' \in Nat
  PROVE  MonitorsInv'
<1>1. sync' = Monitors!Nothing /\ pc' = "idle"
  BY DEF Monitors!End
<1>2. sync' \in Syncs /\ sync'.delete = {}
  BY <1>1 DEF Monitors!Nothing, Syncs
<1>3. MonitorsTyped'
  BY <1>1, <1>2 DEF MonitorsInv, MonitorsTyped, Sound
<1>4. ASSUME MonitorsHold PROVE MonitorsHold'
  <2>1. NamesHold'
    BY <1>4, NamesStay DEF MonitorsHold, Owns
  <2> QED
    BY <1>1, <1>2, <1>4, <2>1 DEF MonitorsHold, OneKey, Monitors!Distinct
<1> QED
  BY <1>3, <1>4 DEF MonitorsInv

\* The phases follow one another, and deletions begin.
LEMMA PhaseStep ==
  ASSUME MonitorsInv, UNCHANGED <<seed, live, nextId, notifier, backup, sync, edits>>, faults' \in Nat,
         \/ \E i \in sync.delete : Monitors!Delete(i)
         \/ Monitors!AllGone \/ Monitors!Bootstrap
  PROVE  MonitorsInv'
<1>1. /\ \/ pc = "idle" /\ pc' = "bootstrap"
         \/ pc = "delete" /\ pc' \in {"delete", "write"}
      /\ going' = going \/ \E i \in sync.delete : going' = going \cup {i}
  BY DEF Monitors!Delete, Monitors!AllGone, Monitors!Bootstrap, Monitors!instance, Monitors!command
<1>2. admin' \in BOOLEAN
  BY DEF MonitorsInv, MonitorsTyped, Monitors!Delete, Monitors!AllGone, Monitors!Bootstrap, Monitors!instance
<1>3. going' \subseteq Nat /\ \A i \in going' : 1 <= i /\ i < nextId
  <2>1. \A i \in sync.delete : i \in Nat
    BY DEF MonitorsInv, MonitorsTyped, Syncs
  <2> QED
    BY <1>1, <2>1 DEF MonitorsInv, MonitorsTyped
<1>4. MonitorsTyped'
  BY <1>1, <1>2, <1>3 DEF MonitorsInv, MonitorsTyped, Sound
<1>5. ASSUME MonitorsHold PROVE MonitorsHold'
  <2>1. NamesHold'
    BY <1>5, NamesStay DEF MonitorsHold, Owns
  <2>2. OneKey(live)' /\ OneKey(backup)' /\ Monitors!Distinct(seed)'
    BY <1>5 DEF MonitorsHold, OneKey, Monitors!Distinct
  <2>3. ToCreate /\ ToEdit /\ ToDelete => ToCreate' /\ ToEdit' /\ ToDelete'
    BY DEF ToCreate, ToEdit, ToDelete
  <2> QED
    BY <1>1, <1>5, <2>1, <2>2, <2>3 DEF MonitorsHold
<1> QED
  BY <1>4, <1>5 DEF MonitorsInv

\* Monitors vanish, or are changed in what they watch.
LEMMA ThinnedStep ==
  ASSUME MonitorsInv, UNCHANGED <<seed, nextId, admin, notifier, backup, pc, sync, faults>>,
         edits' \in Nat, going' \subseteq going, live' \subseteq Monitor,
         \A m \in live' : \E n \in live : m.id = n.id /\ m.key = n.key /\ m.name = n.name,
         \A m, n \in live' : m.id = n.id => m = n
  PROVE  MonitorsInv'
<1>1. MonitorsTyped'
  <2>1. Sound(live, nextId)'
    BY DEF MonitorsInv, MonitorsTyped, Sound
  <2>2. Sound(backup, nextId)'
    BY DEF MonitorsInv, MonitorsTyped, Sound
  <2> QED
    BY <2>1, <2>2 DEF MonitorsInv, MonitorsTyped
<1>2. ASSUME MonitorsHold PROVE MonitorsHold'
  <2>1. OneKey(live)'
    BY <1>2 DEF MonitorsHold, OneKey
  <2>2. OneKey(backup)' /\ Monitors!Distinct(seed)'
    BY <1>2 DEF MonitorsHold, OneKey, Monitors!Distinct
  <2>3. NamesHold'
    <3>1. ASSUME NEW n \in Titles, NEW k \in Keys, Owns(n, k)' PROVE Owns(n, k)
      BY <3>1 DEF Owns
    <3> QED
      BY <1>2, <3>1, NamesStay DEF MonitorsHold
  <2>4. ToCreate => ToCreate'
    BY DEF ToCreate
  <2>5. ToEdit => ToEdit'
    BY DEF ToEdit
  <2>6. ToDelete => ToDelete'
    BY DEF ToDelete
  <2> QED
    BY <1>2, <2>1, <2>2, <2>3, <2>4, <2>5, <2>6 DEF MonitorsHold
<1> QED
  BY <1>1, <1>2 DEF MonitorsInv

\* What an edit writes into a monitor.
LEMMA WrittenIs ==
  ASSUME NEW m \in Monitor, NEW e \in Monitors!Entries, MonitorsTyped
  PROVE  LET w == Monitors!Written(m, e) IN w \in Monitor /\ w.id = m.id /\ w.key = e.key /\ w.name = e.name
<1>1. PICK b \in BOOLEAN : Monitors!Written(m, e) = [m EXCEPT !.name = e.name, !.content = e.content, !.key = e.key, !.notify = b]
  <2> DEFINE b == IF notifier THEN ~e.muted ELSE m.notify
  <2>1. b \in BOOLEAN
    <3>1. m.notify \in BOOLEAN /\ (~e.muted) \in BOOLEAN
      BY DEF Monitor
    <3> QED
      BY <3>1
  <2>2. Monitors!Written(m, e) = [m EXCEPT !.name = e.name, !.content = e.content, !.key = e.key, !.notify = b]
    BY DEF Monitors!Written
  <2> HIDE DEF b
  <2> QED
    BY <2>1, <2>2
<1>2. e.name \in Titles /\ e.key \in Keys /\ e.content \in {1, 2}
  BY DEF Monitors!Entries
<1>3. /\ m.id \in Nat
      /\ \A c \in BOOLEAN : [m EXCEPT !.name = e.name, !.content = e.content, !.key = e.key, !.notify = c] \in Monitor
  BY <1>2 DEF Monitor
<1> HIDE DEF Monitors!Written
<1>4. Monitors!Written(m, e) \in Monitor
  BY <1>1, <1>3
<1>5. /\ Monitors!Written(m, e).id = m.id /\ Monitors!Written(m, e).key = e.key
      /\ Monitors!Written(m, e).name = e.name
  BY <1>1 DEF Monitor
<1> QED
  BY <1>4, <1>5

\* A monitor is edited, or the edit fails.
LEMMA EditStep ==
  ASSUME MonitorsInv, NEW i \in Nat, NEW e \in Monitors!Entries, Monitors!Edit(i, e) PROVE MonitorsInv'
<1> DEFINE W(m) == IF m.id = i THEN Monitors!Written(m, e) ELSE m
<1>1. /\ pc = "write" /\ pc' = pc /\ <<i, e>> \in sync.edit
      /\ sync' = [sync EXCEPT !.edit = @ \ {<<i, e>>}]
      /\ live' = {W(m) : m \in live} \/ live' = live
      /\ UNCHANGED <<seed, going, nextId, admin, notifier, backup, edits>>
  BY DEF Monitors!Edit
<1>2. faults' \in Nat
  BY DEF Monitors!Edit, Monitors!Fault, MonitorsInv, MonitorsTyped
<1>3. MonitorsTyped /\ sync \in Syncs /\ live \subseteq Monitor
  BY DEF MonitorsInv, MonitorsTyped, Sound
<1>4. /\ sync' \in Syncs /\ sync'.create = sync.create /\ sync'.delete = sync.delete
      /\ sync'.edit = sync.edit \ {<<i, e>>}
  BY <1>1, <1>3 DEF Syncs
<1>5. ASSUME NEW m \in live PROVE W(m) \in Monitor /\ W(m).id = m.id /\ (m.id = i => W(m).key = e.key /\ W(m).name = e.name)
                                  /\ (m.id # i => W(m) = m)
  BY <1>3, WrittenIs
<1> HIDE DEF W
<1>6. ASSUME live' = live PROVE MonitorsInv'
  <2>1. MonitorsTyped'
    BY <1>1, <1>2, <1>3, <1>4, <1>6 DEF MonitorsTyped, Sound
  <2>2. ASSUME MonitorsHold PROVE MonitorsHold'
    <3>1. NamesHold'
      BY <1>1, <1>6, <2>2, NamesStay DEF MonitorsHold, Owns
    <3>2. ToCreate' /\ ToEdit' /\ ToDelete'
      BY <1>1, <1>4, <1>6, <2>2 DEF MonitorsHold, ToCreate, ToEdit, ToDelete
    <3> QED
      BY <1>1, <1>6, <2>2, <3>1, <3>2 DEF MonitorsHold, OneKey, Monitors!Distinct
  <2> QED
    BY <2>1, <2>2 DEF MonitorsInv
<1>7. ASSUME live' = {W(m) : m \in live} PROVE MonitorsInv'
  <2>0. \A x \in live' : \E m \in live : x = W(m)
    BY <1>7
  <2>1. Sound(live, nextId)'
    <3>1. live' \subseteq Monitor /\ \A m \in live' : 1 <= m.id /\ m.id < nextId
      BY <1>3, <1>5, <2>0 DEF MonitorsTyped, Sound
    <3>2. ASSUME NEW x \in live', NEW y \in live', x.id = y.id PROVE x = y
      <4>1. PICK m \in live, n \in live : x = W(m) /\ y = W(n)
        BY <2>0
      <4>2. m.id = n.id
        BY <1>5, <3>2, <4>1
      <4> QED
        BY <1>3, <4>1, <4>2 DEF MonitorsTyped, Sound
    <3> QED
      BY <1>1, <3>1, <3>2 DEF Sound
  <2>2. MonitorsTyped'
    BY <1>1, <1>2, <1>3, <1>4, <2>1 DEF MonitorsTyped, Sound
  <2>3. ASSUME MonitorsHold PROVE MonitorsHold'
    <3>0. /\ ToCreate /\ ToEdit /\ ToDelete /\ OneKey(live) /\ Monitors!Distinct(seed)
          /\ \A p \in sync.edit : p \in Edits
      BY <1>1, <1>3, <2>3 DEF MonitorsHold, Syncs
    <3>1. /\ i \notin sync.delete /\ e \notin sync.create /\ \E j \in DOMAIN seed : e = seed[j]
          /\ \A m \in live : (m.id = i => m.key \in {None, e.key}) /\ (m.key = e.key => m.id = i)
          /\ \A q \in sync.edit : (q[1] = i => q[2] = e) /\ (q[2] = e => q[1] = i)
      BY <1>1, <3>0 DEF ToEdit
    <3>2. PICK s \in DOMAIN seed : e = seed[s]
      BY <3>1
    <3>3. \A j \in DOMAIN seed : seed[j].key = e.key => seed[j] = e
      BY <3>0, <3>2 DEF Monitors!Distinct
    <3>4. ASSUME NEW x \in live'
          PROVE  \E m \in live : /\ x.id = m.id
                                 /\ \/ m.id = i /\ x.key = e.key /\ x.name = e.name
                                    \/ m.id # i /\ x.key = m.key /\ x.name = m.name
      BY <1>5, <2>0
    <3>5. OneKey(live)'
      <4>1. ASSUME NEW x \in live', NEW y \in live', x.key = y.key, x.key # None PROVE x = y
        <5>1. PICK m \in live : /\ x.id = m.id
                                /\ \/ m.id = i /\ x.key = e.key /\ x.name = e.name
                                   \/ m.id # i /\ x.key = m.key /\ x.name = m.name
          BY <3>4
        <5>2. PICK n \in live : /\ y.id = n.id
                                /\ \/ n.id = i /\ y.key = e.key /\ y.name = e.name
                                   \/ n.id # i /\ y.key = n.key /\ y.name = n.name
          BY <3>4
        <5>3. m.id = n.id
          BY <3>0, <3>1, <4>1, <5>1, <5>2 DEF OneKey
        <5> QED
          BY <2>1, <5>1, <5>2, <5>3 DEF Sound
      <4> QED
        BY <4>1 DEF OneKey
    <3>6. NamesHold'
      <4>1. ASSUME NEW n \in Titles, NEW k \in Keys, Owns(n, k)' PROVE Owns(n, k)
        BY <1>1, <3>2, <3>4, <4>1 DEF Owns
      <4> QED
        BY <2>3, <4>1, NamesStay DEF MonitorsHold
    <3>7. ToCreate'
      <4>1. ASSUME NEW f \in sync.create, NEW x \in live' PROVE x.key # f.key
        BY <3>0, <3>1, <3>3, <3>4 DEF ToCreate
      <4> QED
        BY <1>1, <1>4, <3>0, <4>1 DEF ToCreate
    <3>8. ToEdit'
      <4>1. ASSUME NEW q \in sync.edit, q # <<i, e>>, NEW x \in live'
            PROVE  (x.id = q[1] => x.key \in {None, q[2].key}) /\ (x.key = q[2].key => x.id = q[1])
        <5>1. q[1] # i /\ q[2] # e
          BY <3>0, <3>1, <4>1 DEF Edits
        <5>2. q[2].key # e.key
          BY <3>0, <3>3, <5>1 DEF ToEdit
        <5>3. PICK m \in live : /\ x.id = m.id
                                /\ \/ m.id = i /\ x.key = e.key /\ x.name = e.name
                                   \/ m.id # i /\ x.key = m.key /\ x.name = m.name
          BY <3>4
        <5> QED
          BY <3>0, <5>1, <5>2, <5>3 DEF ToEdit
      <4> QED
        BY <1>1, <1>4, <3>0, <4>1 DEF ToEdit
    <3>9. ToDelete'
      <4>1. ASSUME NEW x \in live', NEW j \in DOMAIN seed, x.key = seed[j].key PROVE x.id \notin sync.delete
        BY <3>0, <3>1, <3>4, <4>1 DEF ToDelete
      <4> QED
        BY <1>1, <1>4, <4>1 DEF ToDelete
    <3> QED
      BY <1>1, <2>3, <3>5, <3>6, <3>7, <3>8, <3>9 DEF MonitorsHold, OneKey, Monitors!Distinct
  <2> QED
    BY <2>2, <2>3 DEF MonitorsInv
<1> QED
  BY <1>1, <1>6, <1>7

\* A monitor is created, or perhaps not.
LEMMA CreateStep ==
  ASSUME MonitorsInv, NEW e \in sync.create, Monitors!Create(e) PROVE MonitorsInv'
<1>0. MonitorsTyped /\ sync \in Syncs /\ live \subseteq Monitor /\ e \in Monitors!Entries /\ nextId \in Nat
  BY DEF MonitorsInv, MonitorsTyped, Sound, Syncs
<1>1. /\ pc = "write" /\ pc' = pc /\ sync.edit = {}
      /\ sync' = [sync EXCEPT !.create = @ \ {e}]
      /\ UNCHANGED <<seed, going, admin, notifier, backup, edits>>
  BY DEF Monitors!Create
<1>2. faults' \in Nat
  BY DEF Monitors!Create, Monitors!Fault, MonitorsInv, MonitorsTyped
<1>3. /\ sync' \in Syncs /\ sync'.create = sync.create \ {e} /\ sync'.delete = sync.delete
      /\ sync'.edit = {}
  BY <1>0, <1>1 DEF Syncs
<1>4. \/ live' = live /\ nextId' = nextId
      \/ \E x \in Monitor : /\ live' = live \cup {x} /\ nextId' = nextId + 1
                            /\ x.id = nextId /\ x.key = e.key /\ x.name = e.name
  <2> DEFINE b == notifier /\ ~e.muted
             x == [Monitors!Made(e, nextId, e.key) EXCEPT !.notify = b]
  <2>1. (live' = live /\ nextId' = nextId) \/ (live' = live \cup {x} /\ nextId' = nextId + 1)
    BY DEF Monitors!Create
  <2>2. b \in BOOLEAN
    OBVIOUS
  <2> HIDE DEF b
  <2> DEFINE c == ~e.muted
  <2>3. /\ c \in BOOLEAN
        /\ Monitors!Made(e, nextId, e.key) = [id |-> nextId, key |-> e.key, name |-> e.name, content |-> e.content, notify |-> c]
    BY DEF Monitors!Made
  <2> HIDE DEF c
  <2>4. e.name \in Titles /\ e.key \in Keys /\ e.content \in {1, 2}
    BY <1>0 DEF Monitors!Entries
  <2>5. x = [id |-> nextId, key |-> e.key, name |-> e.name, content |-> e.content, notify |-> b]
    BY <2>3
  <2> HIDE DEF x
  <2>6. x \in Monitor /\ x.id = nextId /\ x.key = e.key /\ x.name = e.name
    BY <1>0, <2>2, <2>4, <2>5 DEF Monitor
  <2> QED
    BY <2>1, <2>6
<1>5. nextId' \in Nat /\ 1 <= nextId'
  BY <1>0, <1>4 DEF MonitorsTyped
<1>6. MonitorsTyped'
  <2>0. \A i \in Nat : i < nextId => i < nextId'
    BY <1>0, <1>4
  <2>1. Sound(live, nextId)'
    <3>1. CASE live' = live /\ nextId' = nextId
      BY <1>0, <3>1 DEF MonitorsTyped, Sound
    <3>2. ASSUME NEW x \in Monitor, live' = live \cup {x}, nextId' = nextId + 1, x.id = nextId PROVE Sound(live, nextId)'
      <4>1. \A m \in live : m.id # nextId /\ m.id \in Nat /\ 1 <= m.id
        BY <1>0 DEF MonitorsTyped, Sound, Monitor
      <4>2. 1 <= nextId /\ nextId < nextId'
        BY <1>0, <3>2 DEF MonitorsTyped
      <4> QED
        BY <1>0, <2>0, <3>2, <4>1, <4>2 DEF MonitorsTyped, Sound
    <3> QED
      BY <1>4, <3>1, <3>2
  <2>2. Sound(backup, nextId)'
    BY <1>0, <1>1, <2>0 DEF MonitorsTyped, Sound, Monitor
  <2>3. \A i \in going' \cup sync'.delete : 1 <= i /\ i < nextId'
    BY <1>0, <1>1, <1>3, <2>0 DEF MonitorsTyped, Syncs
  <2> QED
    BY <1>0, <1>1, <1>2, <1>3, <1>5, <2>1, <2>2, <2>3 DEF MonitorsTyped
<1>7. ASSUME MonitorsHold PROVE MonitorsHold'
  <2>0. /\ ToCreate /\ ToDelete /\ OneKey(live) /\ Monitors!Distinct(seed)
        /\ \A i \in sync.delete : i # nextId
    BY <1>0, <1>1, <1>7 DEF MonitorsHold, MonitorsTyped
  <2>1. \A x \in live' : x \in live \/ (x.id = nextId /\ x.key = e.key /\ x.name = e.name)
    BY <1>4
  <2>2. PICK s \in DOMAIN seed : e = seed[s]
    BY <2>0 DEF ToCreate
  <2>3. \A m \in live : m.key # e.key
    BY <2>0 DEF ToCreate
  <2>4. OneKey(live)'
    BY <1>4, <2>0, <2>3 DEF OneKey
  <2>5. NamesHold'
    <3>1. ASSUME NEW n \in Titles, NEW k \in Keys, Owns(n, k)' PROVE Owns(n, k)
      BY <1>1, <2>1, <2>2, <3>1 DEF Owns
    <3> QED
      BY <1>7, <3>1, NamesStay DEF MonitorsHold
  <2>6. ToCreate'
    <3>1. ASSUME NEW f \in sync.create, f # e PROVE f.key # e.key
      BY <2>0, <2>2, <3>1 DEF ToCreate, Monitors!Distinct
    <3> QED
      BY <1>1, <1>3, <2>0, <2>1, <3>1 DEF ToCreate
  <2>7. ToEdit'
    BY <1>3 DEF ToEdit
  <2>8. ToDelete'
    BY <1>1, <1>3, <2>0, <2>1 DEF ToDelete
  <2> QED
    BY <1>1, <1>7, <2>4, <2>5, <2>6, <2>7, <2>8 DEF MonitorsHold, OneKey, Monitors!Distinct
<1> QED
  BY <1>6, <1>7 DEF MonitorsInv

\* The order of a sequence of entries without one of them.
LEMMA DroppedIs ==
  ASSUME NEW s \in Seq(Monitors!Entries), NEW i \in DOMAIN s
  PROVE  LET t == SubSeq(s, 1, i - 1) \o SubSeq(s, i + 1, Len(s))
         IN  /\ t \in Seq(Monitors!Entries)
             /\ \A j \in DOMAIN t : \E k \in DOMAIN s : t[j] = s[k]
<1> DEFINE a == SubSeq(s, 1, i - 1)
           b == SubSeq(s, i + 1, Len(s))
<1>1. i \in 1..Len(s) /\ Len(s) \in Nat /\ DOMAIN s = 1..Len(s)
  OBVIOUS
<1>2. a \in Seq(Monitors!Entries) /\ Len(a) = i - 1 /\ \A j \in 1..(i - 1) : a[j] = s[j]
  BY <1>1
<1>3. b \in Seq(Monitors!Entries) /\ Len(b) = Len(s) - i /\ \A j \in 1..(Len(s) - i) : b[j] = s[i + j]
  BY <1>1
<1> HIDE DEF a, b
<1>4. a \o b \in Seq(Monitors!Entries) /\ Len(a \o b) = Len(s) - 1
  <2>1. a \o b \in Seq(Monitors!Entries) /\ Len(a \o b) = Len(a) + Len(b)
    BY <1>2, <1>3, ConcatProperties
  <2>2. (i - 1) + (Len(s) - i) = Len(s) - 1
    BY <1>1
  <2> QED
    BY <1>2, <1>3, <2>1, <2>2
<1>5. ASSUME NEW j \in DOMAIN (a \o b) PROVE \E k \in DOMAIN s : (a \o b)[j] = s[k]
  <2>1. j \in 1..(Len(s) - 1)
    BY <1>4
  <2>2. CASE j <= i - 1
    BY <1>1, <1>2, <1>3, <2>1, <2>2
  <2>3. CASE ~(j <= i - 1)
    <3>1. (a \o b)[j] = b[j - (i - 1)] /\ j - (i - 1) \in 1..(Len(s) - i) /\ j + 1 \in 1..Len(s)
      BY <1>1, <1>2, <1>3, <2>1, <2>3
    <3>2. b[j - (i - 1)] = s[i + (j - (i - 1))]
      BY <1>3, <3>1
    <3>3. i + (j - (i - 1)) = j + 1
      BY <1>1, <2>1
    <3> QED
      BY <1>1, <3>1, <3>2, <3>3
  <2> QED
    BY <2>2, <2>3
<1> QED
  BY <1>4, <1>5 DEF a, b

\* The new seed has old names only, but for one that was not in use.
LEMMA SeedStep ==
  ASSUME MonitorsInv, pc = "idle", UNCHANGED <<live, going, nextId, admin, notifier, backup, pc, sync, faults>>,
         edits' \in Nat, seed' \in Seq(Monitors!Entries), ~ReuseNames => Monitors!Distinct(seed)',
         \A j \in DOMAIN seed' :
            \/ \E i \in DOMAIN seed : seed'[j].key = seed[i].key /\ seed'[j].name = seed[i].name
            \/ \E m \in live : seed'[j].key = m.key /\ seed'[j].name = m.name
            \/ /\ ReuseNames \/ seed'[j].name \notin Monitors!InUse
               /\ \A k \in DOMAIN seed' : k # j => \E i \in DOMAIN seed : seed'[k].name = seed[i].name
  PROVE  MonitorsInv'
<1>1. MonitorsTyped'
  BY DEF MonitorsInv, MonitorsTyped, Sound
<1>2. ASSUME MonitorsHold, ~ReuseNames PROVE MonitorsHold'
  <2>1. ASSUME NEW n \in Titles, NEW j \in Keys, NEW k \in Keys, Owns(n, j)', Owns(n, k)' PROVE j = k
    <3> DEFINE New == \E x \in DOMAIN seed' :
                         /\ seed'[x].name = n /\ n \notin Monitors!InUse
                         /\ \A y \in DOMAIN seed' : y # x => \E i \in DOMAIN seed : seed'[y].name = seed[i].name
    <3>1. \A i \in DOMAIN seed : seed[i].name \in Monitors!InUse
      BY DEF Monitors!InUse
    <3>2. \A m \in live \cup backup : m.name \in Monitors!InUse
      BY DEF Monitors!InUse
    <3>3. \A l \in Keys : Owns(n, l)' => Owns(n, l) \/ New
      BY <1>2 DEF Owns
    <3>4. CASE New
      <4>1. PICK x \in DOMAIN seed' :
                         /\ seed'[x].name = n /\ n \notin Monitors!InUse
                         /\ \A y \in DOMAIN seed' : y # x => \E i \in DOMAIN seed : seed'[y].name = seed[i].name
        BY <3>4
      <4>2. \A l \in Keys : Owns(n, l)' => l = seed'[x].key
        BY <3>1, <3>2, <4>1 DEF Owns
      <4> QED
        BY <2>1, <4>2
    <3>5. CASE ~New
      <4>1. Owns(n, j) /\ Owns(n, k)
        BY <2>1, <3>3, <3>5
      <4> QED
        BY <1>2, <4>1 DEF MonitorsHold, NamesHold
    <3> QED
      BY <3>4, <3>5
  <2>2. NamesHold'
    BY <2>1 DEF NamesHold
  <2> QED
    BY <1>2, <2>2 DEF MonitorsHold, OneKey
<1> QED
  BY <1>1, <1>2 DEF MonitorsInv

\* The seed is exported.
LEMMA ExportStep == ASSUME MonitorsInv, Monitors!Export PROVE MonitorsInv'
<1>1. /\ pc = "idle" /\ edits' = edits + 1 /\ \A m \in live : m.key # None
      /\ UNCHANGED <<live, going, nextId, admin, notifier, backup, pc, sync, faults>>
  BY DEF Monitors!Export, Monitors!instance, Monitors!command
<1>2. PICK order \in [1..Cardinality(live) -> live] :
         /\ \A i, j \in DOMAIN order : i < j => order[i].id < order[j].id
         /\ seed' = [i \in DOMAIN order |-> Monitors!Exported(order[i])]
  <2>1. Monitors!Cardinality(live) = Cardinality(live)
    BY DEF Monitors!Cardinality, Cardinality
  <2> QED
    BY <2>1 DEF Monitors!Export
<1>3. MonitorsTyped /\ Cardinality(live) \in Nat /\ live \subseteq Monitor /\ edits' \in Nat
  <2>1. MonitorsTyped
    BY DEF MonitorsInv
  <2>2. IsFiniteSet(live)
    BY <2>1, SoundIsFinite DEF MonitorsTyped
  <2> QED
    BY <1>1, <2>1, <2>2, FS_CardinalityType DEF MonitorsTyped, Sound
<1>4. ASSUME NEW m \in live
      PROVE  /\ Monitors!Exported(m) \in Monitors!Entries
             /\ Monitors!Exported(m).key = m.key /\ Monitors!Exported(m).name = m.name
  <2> DEFINE b == ~m.notify
  <2>1. b \in BOOLEAN /\ Monitors!Exported(m) = [key |-> m.key, name |-> m.name, content |-> m.content, muted |-> b]
    BY DEF Monitors!Exported
  <2> HIDE DEF b
  <2>2. m.key \in Keys /\ m.name \in Titles /\ m.content \in {1, 2}
    BY <1>1, <1>3 DEF Monitor
  <2> QED
    BY <2>1, <2>2 DEF Monitors!Entries
<1>5. \A j \in 1..Cardinality(live) :
         /\ order[j] \in live /\ seed'[j] \in Monitors!Entries
         /\ seed'[j].key = order[j].key /\ seed'[j].name = order[j].name
  BY <1>2, <1>4
<1>6. seed' = [j \in 1..Cardinality(live) |-> seed'[j]]
  BY <1>2
<1>7. seed' \in Seq(Monitors!Entries) /\ DOMAIN seed' = 1..Cardinality(live)
  BY <1>3, <1>5, <1>6
<1>8. ASSUME ~ReuseNames PROVE Monitors!Distinct(seed)'
  <2>1. MonitorsHold
    BY <1>8 DEF MonitorsInv
  <2>2. ASSUME NEW i \in DOMAIN seed', NEW j \in DOMAIN seed', i # j
        PROVE  order[i] # order[j]
    <3>1. order[i].id \in Nat /\ order[j].id \in Nat
      BY <1>3, <1>5, <1>7 DEF Monitor
    <3>2. order[i].id < order[j].id \/ order[j].id < order[i].id
      BY <1>2, <1>3, <1>7, <2>2
    <3> QED
      BY <3>1, <3>2
  <2>3. ASSUME NEW m \in live, NEW n \in live, m # n PROVE m.key # n.key /\ m.name # n.name
    <3>1. m.key \in Keys /\ n.key \in Keys /\ m.name \in Titles
      BY <1>1, <1>3 DEF Monitor
    <3>2. m.key # n.key
      BY <1>1, <2>1, <2>3 DEF MonitorsHold, OneKey
    <3>3. m.name = n.name => Owns(m.name, m.key) /\ Owns(m.name, n.key)
      BY DEF Owns
    <3> QED
      BY <2>1, <3>1, <3>2, <3>3 DEF MonitorsHold, NamesHold
  <2> QED
    BY <1>5, <1>7, <2>2, <2>3 DEF Monitors!Distinct
<1> QED
  BY <1>1, <1>3, <1>5, <1>7, <1>8, SeedStep

\* The seed is edited.
LEMMA EditSeedStep == ASSUME MonitorsInv, Monitors!EditSeed PROVE MonitorsInv'
<1>1. /\ pc = "idle" /\ edits' = edits + 1 /\ Monitors!Distinct(seed')
      /\ UNCHANGED <<live, going, nextId, admin, notifier, backup, pc, sync, faults>>
  BY DEF Monitors!EditSeed, Monitors!instance, Monitors!command
<1>2. edits' \in Nat /\ seed \in Seq(Monitors!Entries)
  BY <1>1 DEF MonitorsInv, MonitorsTyped
<1>3. Monitors!Distinct(seed)'
  BY <1>1 DEF Monitors!Distinct
<1> DEFINE Old(s, j) == \E i \in DOMAIN seed : s[j].key = seed[i].key /\ s[j].name = seed[i].name
           Fits(s) ==
              /\ s \in Seq(Monitors!Entries)
              /\ \A j \in DOMAIN s :
                    \/ Old(s, j)
                    \/ /\ ReuseNames \/ s[j].name \notin Monitors!InUse
                       /\ \A k \in DOMAIN s : k # j => \E i \in DOMAIN seed : s[k].name = seed[i].name
<1>4. ASSUME NEW i \in DOMAIN seed, NEW n \in Titles, ReuseNames \/ n \notin Monitors!InUse,
             seed' = [seed EXCEPT ![i].name = n]
      PROVE  Fits(seed')
  <2>1. seed[i] \in Monitors!Entries /\ [seed[i] EXCEPT !.name = n] \in Monitors!Entries
    <3>1. seed[i] \in Monitors!Entries
      BY <1>2
    <3> QED
      BY <3>1 DEF Monitors!Entries
  <2>2. seed' \in Seq(Monitors!Entries) /\ DOMAIN seed' = DOMAIN seed
    BY <1>2, <1>4, <2>1
  <2>3. seed'[i].name = n /\ \A j \in DOMAIN seed : j # i => seed'[j] = seed[j]
    BY <1>2, <1>4, <2>1 DEF Monitors!Entries
  <2> QED
    BY <1>4, <2>2, <2>3
<1>5. ASSUME NEW i \in DOMAIN seed, seed' = [seed EXCEPT ![i].content = 3 - @] PROVE Fits(seed')
  <2>1. seed[i] \in Monitors!Entries /\ 3 - seed[i].content \in {1, 2}
    <3>1. seed[i] \in Monitors!Entries
      BY <1>2
    <3> QED
      BY <3>1 DEF Monitors!Entries
  <2>2. [seed[i] EXCEPT !.content = 3 - @] \in Monitors!Entries
    BY <2>1 DEF Monitors!Entries
  <2>3. seed' \in Seq(Monitors!Entries) /\ DOMAIN seed' = DOMAIN seed
    BY <1>2, <1>5, <2>2
  <2>4. \A j \in DOMAIN seed : seed'[j].key = seed[j].key /\ seed'[j].name = seed[j].name
    BY <1>2, <1>5, <2>1 DEF Monitors!Entries
  <2> QED
    BY <2>3, <2>4
<1>6. ASSUME NEW i \in DOMAIN seed, seed' = [seed EXCEPT ![i].muted = ~@] PROVE Fits(seed')
  <2> DEFINE b == ~seed[i].muted
  <2>1. b \in BOOLEAN /\ seed' = [seed EXCEPT ![i] = [seed[i] EXCEPT !.muted = b]]
    BY <1>6
  <2> HIDE DEF b
  <2>2. seed[i] \in Monitors!Entries /\ [seed[i] EXCEPT !.muted = b] \in Monitors!Entries
    <3>1. seed[i] \in Monitors!Entries
      BY <1>2
    <3> QED
      BY <2>1, <3>1 DEF Monitors!Entries
  <2>3. seed' \in Seq(Monitors!Entries) /\ DOMAIN seed' = DOMAIN seed
    BY <1>2, <2>1, <2>2
  <2>4. \A j \in DOMAIN seed : seed'[j].key = seed[j].key /\ seed'[j].name = seed[j].name
    BY <1>2, <2>1, <2>2 DEF Monitors!Entries
  <2> QED
    BY <2>3, <2>4
<1>7. ASSUME NEW i \in DOMAIN seed, seed' = SubSeq(seed, 1, i - 1) \o SubSeq(seed, i + 1, Len(seed)) PROVE Fits(seed')
  <2>1. seed' \in Seq(Monitors!Entries) /\ \A j \in DOMAIN seed' : \E k \in DOMAIN seed : seed'[j] = seed[k]
    BY <1>2, <1>7, DroppedIs
  <2>2. \A j \in DOMAIN seed' : Old(seed', j)
    BY <2>1
  <2> HIDE DEF Old
  <2> QED
    BY <2>1, <2>2
<1>8. ASSUME NEW k \in Keys, NEW n \in Titles, NEW b \in BOOLEAN, ReuseNames \/ n \notin Monitors!InUse,
             NEW e, e = [key |-> k, name |-> n, content |-> 1, muted |-> b],
             seed' = <<e>> \o seed \/ seed' = Append(seed, e)
      PROVE  Fits(seed')
  <2>1. e \in Monitors!Entries /\ e.name = n
    BY <1>8 DEF Monitors!Entries
  <2>2. Len(seed) \in Nat /\ DOMAIN seed = 1..Len(seed)
    BY <1>2
  <2>3. CASE seed' = <<e>> \o seed
    <3>1. <<e>> \in Seq(Monitors!Entries) /\ Len(<<e>>) = 1 /\ <<e>>[1] = e
      BY <2>1
    <3>2. seed' \in Seq(Monitors!Entries) /\ Len(seed') = Len(seed) + 1 /\ DOMAIN seed' = 1..(Len(seed) + 1)
      BY <1>2, <2>3, <3>1
    <3>3. seed'[1] = e /\ \A j \in 1..(Len(seed) + 1) : j # 1 => j - 1 \in DOMAIN seed /\ seed'[j] = seed[j - 1]
      BY <1>2, <2>2, <2>3, <3>1
    <3> QED
      BY <1>8, <2>1, <3>2, <3>3
  <2>4. CASE seed' = Append(seed, e)
    <3>1. seed' \in Seq(Monitors!Entries) /\ DOMAIN seed' = 1..(Len(seed) + 1)
      BY <1>2, <2>1, <2>4
    <3>2. /\ seed'[Len(seed) + 1] = e
          /\ \A j \in 1..(Len(seed) + 1) : j # Len(seed) + 1 => j \in DOMAIN seed /\ seed'[j] = seed[j]
      BY <1>2, <2>2, <2>4
    <3> QED
      BY <1>8, <2>1, <3>1, <3>2
  <2> QED
    BY <1>8, <2>3, <2>4
<1>9. Fits(seed')
  <2> HIDE DEF Fits
  <2> QED
    BY <1>4, <1>5, <1>6, <1>7, <1>8 DEF Monitors!EditSeed
<1> QED
  BY <1>1, <1>2, <1>3, <1>9, SeedStep

\* The database is copied, or replaced by its copy.
LEMMA CopyStep == ASSUME MonitorsInv, Monitors!Backup \/ Monitors!Restore PROVE MonitorsInv'
<1>1. /\ pc = "idle" /\ edits' = edits + 1
      /\ going' = going \/ going' = {}
      /\ (live' = live /\ backup' \in {live, backup}) \/ (live' = backup /\ backup' = backup)
      /\ UNCHANGED <<seed, nextId, admin, notifier, pc, sync>>
  BY DEF Monitors!Backup, Monitors!Restore, Monitors!instance, Monitors!command
<1>2. edits' \in Nat /\ faults' \in Nat
  BY <1>1 DEF MonitorsInv, MonitorsTyped, Monitors!Backup, Monitors!Restore, Monitors!Fault
<1>3. MonitorsTyped'
  <2>1. Sound(live, nextId)' /\ Sound(backup, nextId)'
    BY <1>1 DEF MonitorsInv, MonitorsTyped, Sound
  <2> QED
    BY <1>1, <1>2, <2>1 DEF MonitorsInv, MonitorsTyped
<1>4. ASSUME MonitorsHold PROVE MonitorsHold'
  <2>1. NamesHold'
    BY <1>1, <1>4, NamesStay DEF MonitorsHold, Owns
  <2>2. OneKey(live)' /\ OneKey(backup)'
    BY <1>1, <1>4 DEF MonitorsHold, OneKey
  <2> QED
    BY <1>1, <1>4, <2>1, <2>2 DEF MonitorsHold, Monitors!Distinct
<1> QED
  BY <1>3, <1>4 DEF MonitorsInv

\* Monitors vanish, or people change them.
LEMMA LivesStep ==
  ASSUME MonitorsInv, Monitors!ByHand \/ \E i \in going : Monitors!Vanish(i) PROVE MonitorsInv'
<1>1. MonitorsTyped /\ live \subseteq Monitor /\ \A m, n \in live : m.id = n.id => m = n
  BY DEF MonitorsInv, MonitorsTyped, Sound
<1>2. ASSUME NEW i \in going, Monitors!Vanish(i) PROVE MonitorsInv'
  <2>1. /\ live' = {m \in live : m.id # i} /\ going' \subseteq going
        /\ UNCHANGED <<seed, nextId, admin, notifier, backup, pc, sync, edits, faults>>
    BY <1>2 DEF Monitors!Vanish, Monitors!command
  <2>2. live' \subseteq live /\ edits' \in Nat
    BY <1>1, <2>1 DEF MonitorsTyped
  <2> QED
    BY <1>1, <2>1, <2>2, ThinnedStep
<1>3. ASSUME Monitors!ByHand PROVE MonitorsInv'
  <2>1. /\ edits' \in Nat
        /\ UNCHANGED <<seed, going, nextId, admin, notifier, backup, pc, sync, faults>>
    BY <1>1, <1>3 DEF Monitors!ByHand, Monitors!command, MonitorsTyped
  <2>2. PICK m \in live : \/ live' = (live \ {m}) \cup {[m EXCEPT !.content = 3 - @]}
                          \/ live' = (live \ {m}) \cup {[m EXCEPT !.notify = ~@]}
                          \/ live' = live \ {m}
    BY <1>3 DEF Monitors!ByHand
  <2>3. CASE live' = live \ {m}
    <3>1. live' \subseteq live
      BY <2>3
    <3> QED
      BY <1>1, <2>1, <3>1, ThinnedStep
  <2>4. ASSUME NEW x \in Monitor, x.id = m.id, x.key = m.key, x.name = m.name, live' = (live \ {m}) \cup {x}
        PROVE  MonitorsInv'
    <3>1. live' \subseteq Monitor /\ going' \subseteq going
      BY <1>1, <2>1, <2>4
    <3>2. \A y \in live' : \E n \in live : y.id = n.id /\ y.key = n.key /\ y.name = n.name
      BY <2>4
    <3>3. \A y, z \in live' : y.id = z.id => y = z
      BY <1>1, <2>4
    <3> QED
      BY <2>1, <3>1, <3>2, <3>3, ThinnedStep
  <2>5. ASSUME NEW x, x = [m EXCEPT !.content = 3 - @] PROVE x \in Monitor /\ x.id = m.id /\ x.key = m.key /\ x.name = m.name
    BY <1>1, <2>5 DEF Monitor
  <2>6. ASSUME NEW x, x = [m EXCEPT !.notify = ~@] PROVE x \in Monitor /\ x.id = m.id /\ x.key = m.key /\ x.name = m.name
    <3> DEFINE b == ~m.notify
    <3>1. b \in BOOLEAN /\ x = [m EXCEPT !.notify = b]
      BY <2>6
    <3> HIDE DEF b
    <3> QED
      BY <1>1, <3>1 DEF Monitor
  <2> QED
    BY <2>2, <2>3, <2>4, <2>5, <2>6
<1> QED
  BY <1>2, <1>3

\* Each step keeps what is known of the monitors.
LEMMA MonitorsStep == ASSUME MonitorsInv, Monitors!Next PROVE MonitorsInv'
<1>0. /\ MonitorsTyped /\ sync \in Syncs
      /\ \A p \in sync.edit : p = <<p[1], p[2]>> /\ p[1] \in Nat /\ p[2] \in Monitors!Entries
  BY DEF MonitorsInv, MonitorsTyped, Syncs, Edits
<1>1. CASE Monitors!Apply \/ Monitors!BootstrapApplies
  <2>1. /\ sync' = Monitors!Diff /\ pc' = "delete"
        /\ UNCHANGED <<seed, live, going, nextId, admin, notifier, backup, edits, faults>>
    BY <1>1 DEF Monitors!Apply, Monitors!BootstrapApplies, Monitors!instance
  <2>2. admin' \in BOOLEAN
    BY <1>0, <2>1 DEF MonitorsTyped
  <2> QED
    BY <2>1, <2>2, DiffStep
<1>2. CASE (\E i \in sync.delete : Monitors!Delete(i)) \/ Monitors!AllGone \/ Monitors!Bootstrap
  <2>1. UNCHANGED <<seed, live, nextId, notifier, backup, sync, edits>>
    BY <1>2 DEF Monitors!Delete, Monitors!AllGone, Monitors!Bootstrap, Monitors!instance, Monitors!command
  <2>2. faults' \in Nat
    BY <1>0, <1>2 DEF MonitorsTyped, Monitors!Delete, Monitors!AllGone, Monitors!Bootstrap, Monitors!Fault
  <2> QED
    BY <1>2, <2>1, <2>2, PhaseStep
<1>3. CASE Monitors!DeletionFails \/ Monitors!Applied \/ Monitors!Interrupt
  <2>1. Monitors!End /\ UNCHANGED <<seed, live, going, nextId, admin, notifier, backup, edits>>
    BY <1>3 DEF Monitors!DeletionFails, Monitors!Applied, Monitors!Interrupt, Monitors!instance
  <2>2. faults' \in Nat
    BY <1>0, <1>3 DEF MonitorsTyped, Monitors!DeletionFails, Monitors!Applied, Monitors!Interrupt, Monitors!Fault
  <2> QED
    BY <2>1, <2>2, SyncEnds
<1>4. ASSUME NEW p \in sync.edit, Monitors!Edit(p[1], p[2]) PROVE MonitorsInv'
  BY <1>0, <1>4, EditStep
<1>5. ASSUME NEW e \in sync.create, Monitors!Create(e) PROVE MonitorsInv'
  BY <1>5, CreateStep
<1> QED
  BY <1>1, <1>2, <1>3, <1>4, <1>5, ExportStep, CopyStep, EditSeedStep, LivesStep DEF Monitors!Next, Monitors!Work

\* At first there are the monitors of the seed, with or without their keys, or none.
LEMMA MonitorsInit == Init => MonitorsInv
<1>1. Init => Monitors!Init
  BY DEF Init
<1>2. ASSUME Monitors!Init PROVE MonitorsInv
  <2>1. /\ seed \in Seq(Monitors!Entries) /\ Monitors!Distinct(seed)
        /\ going = {} /\ nextId = Len(seed) + 1 /\ backup = live /\ pc = "idle" /\ sync = Monitors!Nothing
        /\ edits = 0 /\ faults = 0
    BY <1>2, MonitorsAssumption DEF Monitors!Init
  <2>2. admin \in BOOLEAN /\ notifier \in BOOLEAN
    BY <1>2 DEF Monitors!Init
  <2>3. Len(seed) \in Nat /\ DOMAIN seed = 1..Len(seed) /\ \A i \in DOMAIN seed : seed[i] \in Monitors!Entries
    BY <2>1
  <2>4. ASSUME NEW e \in Monitors!Entries, NEW i \in Nat, NEW k \in Keys \cup {None}
        PROVE  LET m == Monitors!Made(e, i, k) IN m \in Monitor /\ m.id = i /\ m.key = k /\ m.name = e.name
    <3> DEFINE b == ~e.muted
    <3>1. b \in BOOLEAN /\ Monitors!Made(e, i, k) = [id |-> i, key |-> k, name |-> e.name, content |-> e.content, notify |-> b]
      BY DEF Monitors!Made
    <3> HIDE DEF b
    <3>2. e.name \in Titles /\ e.content \in {1, 2}
      BY DEF Monitors!Entries
    <3> QED
      BY <3>1, <3>2 DEF Monitor
  <2>5. ASSUME NEW m \in live
        PROVE  \E i \in DOMAIN seed : /\ m = Monitors!Made(seed[i], i, seed[i].key) \/ m = Monitors!Made(seed[i], i, None)
                                      /\ m \in Monitor /\ m.id = i /\ m.key \in {None, seed[i].key} /\ m.name = seed[i].name
    <3>1. PICK i \in DOMAIN seed : m = Monitors!Made(seed[i], i, seed[i].key) \/ m = Monitors!Made(seed[i], i, None)
      BY <1>2 DEF Monitors!Init
    <3>2. i \in Nat /\ seed[i] \in Monitors!Entries /\ seed[i].key \in Keys \cup {None}
      BY <2>3 DEF Monitors!Entries
    <3> QED
      BY <2>4, <3>1, <3>2
  <2>6. \A m, n \in live : m.id = n.id => m = n
    <3>1. \/ live = {}
          \/ live = {Monitors!Made(seed[i], i, seed[i].key) : i \in DOMAIN seed}
          \/ live = {Monitors!Made(seed[i], i, None) : i \in DOMAIN seed}
      BY <1>2 DEF Monitors!Init
    <3>2. \A i \in DOMAIN seed : /\ Monitors!Made(seed[i], i, seed[i].key).id = i
                                 /\ Monitors!Made(seed[i], i, None).id = i
      <4>1. \A i \in DOMAIN seed : i \in Nat /\ seed[i].key \in Keys \cup {None}
        BY <2>3 DEF Monitors!Entries
      <4> QED
        BY <2>3, <2>4, <4>1
    <3> QED
      BY <3>1, <3>2
  <2>7. Sound(live, nextId) /\ live \subseteq Monitor
    BY <2>1, <2>3, <2>5, <2>6 DEF Sound
  <2>8. MonitorsTyped
    <3>1. sync \in Syncs /\ sync.delete = {}
      BY <2>1 DEF Monitors!Nothing, Syncs
    <3> QED
      BY <2>1, <2>2, <2>3, <2>7, <3>1 DEF MonitorsTyped
  <2>9. MonitorsHold
    <3>1. \A i, j \in DOMAIN seed : i # j => seed[i].key # seed[j].key /\ seed[i].name # seed[j].name
      BY <2>1 DEF Monitors!Distinct
    <3>2. OneKey(live)
      BY <2>5, <2>6, <3>1 DEF OneKey
    <3>3. \A n \in Titles, k \in Keys : Owns(n, k) => \E i \in DOMAIN seed : seed[i].name = n /\ seed[i].key = k
      BY <2>1, <2>5, MonitorsAssumption DEF Owns
    <3>4. NamesHold
      BY <3>1, <3>3 DEF NamesHold
    <3>5. sync.delete = {}
      BY <2>1 DEF Monitors!Nothing
    <3> QED
      BY <2>1, <3>2, <3>4, <3>5 DEF MonitorsHold
  <2> QED
    BY <2>8, <2>9 DEF MonitorsInv
<1> QED
  BY <1>1, <1>2

\* What is checked follows.
LEMMA MonitorsAreTyped == ASSUME MonitorsInv PROVE Monitors!TypeOK /\ (~ReuseNames => Monitors!OneMonitorPerKey)
<1>1. MonitorsTyped
  BY DEF MonitorsInv
<1>2. \A i \in Nat : 1 <= i /\ i < nextId => i \in 1..nextId - 1
  BY <1>1 DEF MonitorsTyped
<1>3. ASSUME NEW m \in live
      PROVE  /\ m.id \in 1..nextId - 1 /\ m.key \in Keys \cup {None} /\ m.name \in Titles
             /\ m.content \in {1, 2} /\ m.notify \in BOOLEAN
  <2>1. m \in Monitor /\ 1 <= m.id /\ m.id < nextId
    BY <1>1 DEF MonitorsTyped, Sound
  <2> QED
    BY <1>2, <2>1 DEF Monitor
<1>4. Monitors!TypeOK
  <2>1. sync.create \subseteq Monitors!Entries /\ sync.delete \subseteq 1..nextId - 1 /\ going \subseteq 1..nextId - 1
    BY <1>1, <1>2 DEF MonitorsTyped, Syncs
  <2>2. \A i \in DOMAIN seed : seed[i] \in Monitors!Entries
    BY <1>1 DEF MonitorsTyped
  <2> QED
    BY <1>1, <1>3, <2>1, <2>2 DEF MonitorsTyped, Monitors!TypeOK
<1> QED
  BY <1>4 DEF MonitorsInv, MonitorsHold, OneKey, Monitors!OneMonitorPerKey

\* The history of a key that the seed still has is neither deleted nor made another's.
LEMMA HistoryStays == ASSUME MonitorsInv, ~ReuseNames, Monitors!Next PROVE Monitors!HistoryFollowsKey
<1>1. MonitorsTyped /\ MonitorsHold /\ live \subseteq Monitor /\ \A m, n \in live : m.id = n.id => m = n
  BY DEF MonitorsInv, MonitorsTyped, Sound
<1>2. pc = "write" \/ pc = "delete" => ToDelete /\ ToEdit
  BY <1>1 DEF MonitorsHold
<1>3. \A m \in live, i \in DOMAIN seed : m.key = seed[i].key => m.id \notin sync.delete
  BY <1>1, <1>2 DEF MonitorsHold, MonitorsTyped, ToDelete
<1>4. ASSUME NEW m \in live, NEW i \in DOMAIN seed, m.key = seed[i].key PROVE m.id \notin sync'.delete
  <2>1. CASE Monitors!Apply \/ Monitors!BootstrapApplies
    <3>1. MonitorsHold'
      BY MonitorsStep DEF MonitorsInv
    <3>2. pc' = "delete" /\ live' = live /\ seed' = seed
      BY <2>1 DEF Monitors!Apply, Monitors!BootstrapApplies, Monitors!instance
    <3>3. ToDelete'
      BY <3>1, <3>2 DEF MonitorsHold
    <3> QED
      BY <1>4, <3>2, <3>3 DEF ToDelete
  <2>2. CASE sync' = Monitors!Nothing
    BY <2>2 DEF Monitors!Nothing
  <2>3. CASE sync'.delete = sync.delete
    BY <1>3, <1>4, <2>3
  <2>4. Monitors!Apply \/ Monitors!BootstrapApplies \/ sync' = Monitors!Nothing \/ sync'.delete = sync.delete
    <3>0. sync \in Syncs
      BY <1>1 DEF MonitorsTyped
    <3>1. ASSUME NEW p \in sync.edit, Monitors!Edit(p[1], p[2]) PROVE sync'.delete = sync.delete
      BY <3>0, <3>1 DEF Monitors!Edit, Syncs
    <3>2. ASSUME NEW e \in sync.create, Monitors!Create(e) PROVE sync'.delete = sync.delete
      BY <3>0, <3>2 DEF Monitors!Create, Syncs
    <3>3. CASE \/ (\E k \in sync.delete : Monitors!Delete(k)) \/ Monitors!AllGone \/ Monitors!Bootstrap
               \/ Monitors!Export \/ Monitors!Backup \/ Monitors!Restore \/ Monitors!EditSeed \/ Monitors!ByHand
               \/ \E k \in going : Monitors!Vanish(k)
      BY <3>3 DEF Monitors!Delete, Monitors!AllGone, Monitors!Bootstrap, Monitors!Export, Monitors!Backup,
                  Monitors!Restore, Monitors!EditSeed, Monitors!ByHand, Monitors!Vanish, Monitors!command
    <3>4. CASE Monitors!DeletionFails \/ Monitors!Applied \/ Monitors!Interrupt
      BY <3>4 DEF Monitors!DeletionFails, Monitors!Applied, Monitors!Interrupt, Monitors!End
    <3> QED
      BY <3>1, <3>2, <3>3, <3>4 DEF Monitors!Next, Monitors!Work
  <2> QED
    BY <2>1, <2>2, <2>3, <2>4
<1>5. ASSUME pc = "write", NEW m \in live, NEW i \in DOMAIN seed, m.key = seed[i].key, NEW n \in live', n.id = m.id
      PROVE  n.key = m.key
  <2>0. seed[i].key # None /\ m.id # nextId
    <3>1. seed[i] \in Monitors!Entries
      BY <1>1 DEF MonitorsTyped
    <3>2. nextId \in Nat /\ m.id < nextId
      BY <1>1 DEF MonitorsTyped, Sound
    <3> QED
      BY <3>1, <3>2, MonitorsAssumption DEF Monitors!Entries
  <2>1. CASE live' \subseteq live
    BY <1>1, <1>5, <2>1
  <2>2. ASSUME NEW p \in sync.edit, Monitors!Edit(p[1], p[2]) PROVE n.key = m.key
    <3>1. p[2] \in Monitors!Entries
      BY <1>1 DEF MonitorsTyped, Syncs, Edits
    <3>2. m.id = p[1] => m.key = p[2].key
      BY <1>2, <1>5, <2>0 DEF ToEdit
    <3>3. CASE live' = live
      BY <1>1, <1>5, <3>3
    <3>4. CASE live' = {IF k.id = p[1] THEN Monitors!Written(k, p[2]) ELSE k : k \in live}
      <4>1. PICK k \in live : n = IF k.id = p[1] THEN Monitors!Written(k, p[2]) ELSE k
        BY <1>5, <3>4
      <4>2. k \in Monitor
        BY <1>1
      <4>3. Monitors!Written(k, p[2]).id = k.id /\ Monitors!Written(k, p[2]).key = p[2].key
        BY <1>1, <3>1, <4>2, WrittenIs
      <4>4. k = m
        BY <1>1, <1>5, <4>1, <4>3
      <4> QED
        BY <3>2, <4>1, <4>3, <4>4
    <3> QED
      BY <2>2, <3>3, <3>4 DEF Monitors!Edit
  <2>3. ASSUME NEW e \in sync.create, Monitors!Create(e) PROVE n.key = m.key
    <3> DEFINE x == [Monitors!Made(e, nextId, e.key) EXCEPT !.notify = notifier /\ ~e.muted]
    <3>1. x.id = nextId
      BY DEF Monitors!Made
    <3>2. live' = live \/ live' = live \cup {x}
      BY <2>3 DEF Monitors!Create
    <3> HIDE DEF x
    <3> QED
      BY <1>1, <1>5, <2>0, <3>1, <3>2
  <2>4. ASSUME Monitors!ByHand PROVE n.key = m.key
    <3>1. PICK k \in live : \/ live' = (live \ {k}) \cup {[k EXCEPT !.content = 3 - @]}
                            \/ live' = (live \ {k}) \cup {[k EXCEPT !.notify = ~@]}
                            \/ live' = live \ {k}
      BY <2>4 DEF Monitors!ByHand
    <3>2. ASSUME NEW x, x = [k EXCEPT !.content = 3 - @] \/ x = [k EXCEPT !.notify = ~@] PROVE x.id = k.id /\ x.key = k.key
      BY <1>1, <3>2 DEF Monitor
    <3>3. n \in live \/ \E x : (x = [k EXCEPT !.content = 3 - @] \/ x = [k EXCEPT !.notify = ~@]) /\ n = x
      BY <1>5, <3>1
    <3>4. \E y \in live : n.id = y.id /\ n.key = y.key
      BY <3>2, <3>3
    <3> QED
      BY <1>1, <1>5, <3>4
  <2>5. CASE \/ (\E k \in sync.delete : Monitors!Delete(k)) \/ Monitors!AllGone \/ Monitors!DeletionFails
             \/ Monitors!Applied \/ Monitors!Interrupt \/ \E k \in going : Monitors!Vanish(k)
    <3>1. live' \subseteq live
      BY <2>5 DEF Monitors!Delete, Monitors!AllGone, Monitors!DeletionFails, Monitors!Applied, Monitors!Interrupt,
                  Monitors!Vanish, Monitors!instance
    <3> QED
      BY <2>1, <3>1
  <2>6. CASE \/ Monitors!Apply \/ Monitors!Bootstrap \/ Monitors!BootstrapApplies \/ Monitors!Export
             \/ Monitors!Backup \/ Monitors!Restore \/ Monitors!EditSeed
    BY <1>5, <2>6 DEF Monitors!Apply, Monitors!Bootstrap, Monitors!BootstrapApplies, Monitors!Export,
                      Monitors!Backup, Monitors!Restore, Monitors!EditSeed
  <2> QED
    BY <2>2, <2>3, <2>4, <2>5, <2>6 DEF Monitors!Next, Monitors!Work
<1> QED
  BY <1>4, <1>5 DEF Monitors!HistoryFollowsKey, Monitors!SeedKeys

-----------------------------------------------------------------------------
\* The hub's machine

MeshNodes == [vm : Nat, name : {"hub", "suffixed"}, online : BOOLEAN]

MachineTyped ==
    /\ size \in {0, 1} /\ vm \in Nat /\ builds \in Nat /\ joined \in BOOLEAN
    /\ \A n \in nodes : n \in MeshNodes
    /\ route \in Nat /\ old \in Nat /\ recycling \in [stale : Nat, live : Nat]
    /\ pc \in {"idle", "requested", "await", "repoint", "delete", "rename"}
    /\ faults \in Nat

\* The machine that runs is the last build, and one that is about to stop leaves a build
\* for the next.
BuildsHold ==
    /\ 1 <= builds /\ builds <= MaxBuilds + 1 /\ vm \in {0, builds}
    /\ vm = 0 => builds <= MaxBuilds
    /\ route <= builds /\ old <= builds /\ recycling.stale <= builds /\ recycling.live <= builds
    /\ pc = "requested" /\ old = builds => builds < MaxBuilds

\* A build has one node and none before it has joined; only the machine is online, and
\* what is about to be deleted is not its node.
NodesAreBuilds ==
    /\ \A n \in nodes : 1 <= n.vm /\ n.vm <= builds
    /\ \A m, n \in nodes : m.vm = n.vm => m = n
    /\ joined = FALSE => \A n \in nodes : n.vm # vm
    /\ \A n \in nodes : n.online = TRUE => n.vm = vm
    /\ pc = "delete" => recycling.stale # vm /\ 1 <= recycling.stale

MachineInv == MachineTyped /\ BuildsHold /\ NodesAreBuilds

\* What stops the machine takes its node offline and no more.
LEMMA StopStep ==
  ASSUME MachineInv, Machine!Stop, builds < MaxBuilds, size' \in {0, 1}, UNCHANGED <<builds, route, pc, old, recycling, faults>>
  PROVE  MachineInv'
<1>0. /\ vm # 0 /\ vm' = 0 /\ joined' = FALSE
      /\ nodes' = {IF n.vm = vm THEN [n EXCEPT !.online = FALSE] ELSE n : n \in nodes}
  BY DEF Machine!Stop, Machine!Stopped
<1>1. \A m \in nodes' : \E n \in nodes :
        m \in MeshNodes /\ m.vm = n.vm /\ m.online = FALSE /\ m = (IF n.vm = vm THEN [n EXCEPT !.online = FALSE] ELSE n)
  <2>1. \A n \in nodes : LET m == IF n.vm = vm THEN [n EXCEPT !.online = FALSE] ELSE n
                         IN  m \in MeshNodes /\ m.vm = n.vm /\ m.online = FALSE
    BY DEF MachineInv, MachineTyped, NodesAreBuilds, MeshNodes
  <2> QED
    BY <1>0, <2>1
<1>2. joined' \in BOOLEAN
  BY <1>0
<1>3. MachineTyped'
  BY <1>0, <1>1, <1>2 DEF MachineInv, MachineTyped
<1>4. BuildsHold'
  BY <1>0, BoundsAssumption DEF MachineInv, MachineTyped, BuildsHold
<1>5. NodesAreBuilds'
  <2>1. \A m \in nodes' : 1 <= m.vm /\ m.vm <= builds'
    BY <1>1 DEF MachineInv, NodesAreBuilds
  <2>2. \A m, n \in nodes' : m.vm = n.vm => m = n
    <3>1. SUFFICES ASSUME NEW m \in nodes', NEW n \in nodes', m.vm = n.vm PROVE m = n
      OBVIOUS
    <3>2. PICK k \in nodes : m.vm = k.vm /\ m = (IF k.vm = vm THEN [k EXCEPT !.online = FALSE] ELSE k)
      BY <1>1
    <3>3. PICK l \in nodes : n.vm = l.vm /\ n = (IF l.vm = vm THEN [l EXCEPT !.online = FALSE] ELSE l)
      BY <1>1
    <3>4. k = l
      BY <3>1, <3>2, <3>3 DEF MachineInv, NodesAreBuilds
    <3> QED
      BY <3>2, <3>3, <3>4
  <2>3. \A m \in nodes' : m.vm # vm' /\ m.online = FALSE
    <3>1. \A m \in nodes' : m.vm # 0
      BY <1>1, <2>1 DEF MeshNodes
    <3> QED
      BY <1>0, <1>1, <3>1
  <2>4. pc = "delete" => recycling.stale # 0 /\ 1 <= recycling.stale
    BY DEF MachineInv, NodesAreBuilds, MachineTyped
  <2> QED
    BY <1>0, <2>1, <2>2, <2>3, <2>4 DEF NodesAreBuilds
<1> QED
  BY <1>3, <1>4, <1>5 DEF MachineInv

\* What leaves the machine, its builds and the nodes alone.
LEMMA CommandStep ==
  ASSUME MachineInv, UNCHANGED <<size, vm, joined, builds, nodes>>, faults' \in Nat,
         route' \in Nat, route' <= builds, old' \in Nat, old' <= builds,
         recycling' \in [stale : Nat, live : Nat], recycling'.stale <= builds, recycling'.live <= builds,
         pc' \in {"idle", "requested", "await", "repoint", "delete", "rename"},
         pc' = "requested" /\ old' = builds => builds < MaxBuilds,
         pc' = "delete" => recycling'.stale # vm /\ 1 <= recycling'.stale
  PROVE  MachineInv'
<1>1. joined' \in BOOLEAN
  BY DEF MachineInv, MachineTyped
<1>2. MachineTyped'
  BY <1>1 DEF MachineInv, MachineTyped
<1>3. BuildsHold'
  BY DEF MachineInv, BuildsHold
<1>4. NodesAreBuilds'
  BY DEF MachineInv, NodesAreBuilds
<1> QED
  BY <1>2, <1>3, <1>4 DEF MachineInv

\* The end of a command.
LEMMA MachineEnds ==
  ASSUME MachineInv, UNCHANGED <<size, vm, joined, builds, nodes>>, faults' \in Nat,
         route' \in Nat, route' <= builds, Machine!End
  PROVE  MachineInv'
<1>1. /\ recycling' \in [stale : Nat, live : Nat] /\ recycling'.stale = 0 /\ recycling'.live = 0
      /\ pc' = "idle" /\ old' = 0
  BY DEF Machine!End, Machine!NoPlan
<1>2. 0 <= builds
  BY DEF MachineInv, MachineTyped
<1> QED
  BY <1>1, <1>2, CommandStep

\* What changes the nodes alone, and takes none of them from the machine that runs.
LEMMA NodesStep ==
  ASSUME MachineInv, UNCHANGED <<size, vm, builds, route>>, joined' \in {joined, TRUE}, faults' \in Nat,
         old' \in {0, old}, pc' \in {"idle", pc, "rename"},
         recycling' \in {recycling, [stale |-> 0, live |-> 0]},
         pc' = "requested" => old' = old /\ pc = "requested",
         pc' = "delete" => recycling' = recycling /\ pc = "delete",
         \A n \in nodes' : n \in MeshNodes /\ 1 <= n.vm /\ n.vm <= builds /\ (n.online = TRUE => n.vm = vm),
         \A m, n \in nodes' : m.vm = n.vm => m = n,
         joined' = FALSE => \A n \in nodes' : n.vm # vm
  PROVE  MachineInv'
<1>1. joined' \in BOOLEAN
  BY DEF MachineInv, MachineTyped
<1>2. recycling' \in [stale : Nat, live : Nat] /\ recycling'.stale <= builds /\ recycling'.live <= builds
  <2>1. recycling \in [stale : Nat, live : Nat] /\ recycling.stale <= builds /\ recycling.live <= builds /\ builds \in Nat
    BY DEF MachineInv, MachineTyped, BuildsHold
  <2> QED
    BY <2>1
<1>3. MachineTyped'
  BY <1>1, <1>2 DEF MachineInv, MachineTyped
<1>4. BuildsHold'
  BY <1>2 DEF MachineInv, MachineTyped, BuildsHold
<1>5. NodesAreBuilds'
  BY DEF MachineInv, NodesAreBuilds
<1> QED
  BY <1>3, <1>4, <1>5 DEF MachineInv

\* The steps of the group and of the mesh.
LEMMA GroupStep ==
  ASSUME MachineInv,
         \/ Machine!Runs \/ Machine!Preempt \/ Machine!Blip \/ \E n \in {0, 1} : Machine!Resize(n)
  PROVE  MachineInv'
<1> USE DEF Machine!group, Machine!command
<1>t. /\ builds \in Nat /\ MaxBuilds \in Nat /\ vm \in Nat /\ faults \in Nat /\ joined \in BOOLEAN
      /\ pc \in {"idle", "requested", "await", "repoint", "delete", "rename"}
      /\ \A n \in nodes : n \in MeshNodes /\ 1 <= n.vm /\ n.vm <= builds /\ (n.online = TRUE => n.vm = vm)
      /\ \A m, n \in nodes : m.vm = n.vm => m = n
      /\ joined = FALSE => \A n \in nodes : n.vm # vm
      /\ vm \in {0, builds} /\ 1 <= builds
  BY BoundsAssumption DEF MachineInv, MachineTyped, BuildsHold, NodesAreBuilds
<1>1. CASE Machine!Build
  <2>0. /\ vm = 0 /\ builds' = builds + 1 /\ vm' = builds + 1
        /\ UNCHANGED <<size, joined, nodes, route, pc, old, recycling, faults>>
    BY <1>1 DEF Machine!Build
  <2>1. joined' \in BOOLEAN
    BY <1>t, <2>0
  <2>2. MachineTyped'
    BY <1>t, <2>0, <2>1 DEF MachineInv, MachineTyped
  <2>3. BuildsHold'
    <3>1. \A a \in Nat : a <= builds => a <= builds + 1 /\ a # builds + 1
      BY <1>t
    <3> QED
      BY <1>t, <2>0, <3>1 DEF MachineInv, MachineTyped, BuildsHold
  <2>4. NodesAreBuilds'
    <3>1. \A n \in nodes : n.vm <= builds + 1 /\ n.vm # builds + 1
      BY <1>t DEF MeshNodes
    <3>2. \A n \in nodes : n.online # TRUE
      <4>1. \A n \in nodes : n.vm # 0
        BY <1>t DEF MeshNodes
      <4> QED
        BY <1>t, <2>0, <4>1
    <3>3. recycling.stale # builds + 1
      BY <1>t DEF MachineInv, MachineTyped, BuildsHold
    <3> QED
      BY <1>t, <2>0, <3>1, <3>2, <3>3 DEF MachineInv, NodesAreBuilds
  <2> QED
    BY <2>2, <2>3, <2>4 DEF MachineInv
<1>2. CASE Machine!Join
  <2> DEFINE new(name) == [vm |-> vm, name |-> name, online |-> TRUE]
  <2>0. /\ vm # 0 /\ joined = FALSE /\ joined' = TRUE
        /\ UNCHANGED <<size, vm, builds, route, pc, old, recycling>>
        /\ \E name \in {"hub", "suffixed"} : nodes' \subseteq nodes \cup {new(name)}
    BY <1>2, <1>t DEF Machine!Join
  <2>1. faults' \in Nat
    BY <1>2, <1>t DEF Machine!Join, Machine!Fault
  <2>2. PICK name \in {"hub", "suffixed"} : nodes' \subseteq nodes \cup {new(name)}
    BY <2>0
  <2>3. new(name) \in MeshNodes /\ new(name).vm = vm /\ new(name).vm <= builds /\ 1 <= new(name).vm
    BY <1>t, <2>0 DEF MeshNodes
  <2> HIDE DEF new
  <2>4. \A n \in nodes' : n \in MeshNodes /\ 1 <= n.vm /\ n.vm <= builds /\ (n.online = TRUE => n.vm = vm)
    BY <1>t, <2>2, <2>3
  <2>5. \A m, n \in nodes' : m.vm = n.vm => m = n
    <3>1. \A n \in nodes : n.vm # vm
      BY <1>t, <2>0
    <3> QED
      BY <1>t, <2>2, <2>3, <3>1
  <2> QED
    BY <1>t, <2>0, <2>1, <2>4, <2>5, NodesStep
<1>3. ASSUME NEW n \in nodes, NEW b \in BOOLEAN, n.vm = vm, nodes' = (nodes \ {n}) \cup {[n EXCEPT !.online = b]},
             UNCHANGED <<size, vm, joined, builds, route, pc, old, recycling>>, faults' \in Nat
      PROVE  MachineInv'
  <2> DEFINE m == [n EXCEPT !.online = b]
  <2>1. m \in MeshNodes /\ m.vm = vm /\ 1 <= m.vm /\ m.vm <= builds
    BY <1>3, <1>t DEF MeshNodes
  <2>2. nodes' = (nodes \ {n}) \cup {m}
    BY <1>3
  <2> HIDE DEF m
  <2>3. \A k \in nodes' : k \in MeshNodes /\ 1 <= k.vm /\ k.vm <= builds /\ (k.online = TRUE => k.vm = vm)
    BY <1>t, <2>1, <2>2
  <2>4. \A k, l \in nodes' : k.vm = l.vm => k = l
    <3>1. \A k \in nodes \ {n} : k.vm # vm
      BY <1>3, <1>t
    <3> QED
      BY <1>t, <2>1, <2>2, <3>1
  <2>5. joined' = FALSE => \A k \in nodes' : k.vm # vm
    BY <1>3, <1>t
  <2> QED
    BY <1>3, <1>t, <2>3, <2>4, <2>5, NodesStep
<1>4. CASE Machine!Reconnect
  BY <1>3, <1>4, <1>t, TRUE \in BOOLEAN DEF Machine!Reconnect
<1>5. CASE Machine!Blip
  <2>1. faults' \in Nat
    BY <1>5, <1>t DEF Machine!Blip, Machine!Fault
  <2> QED
    BY <1>3, <1>5, <2>1, FALSE \in BOOLEAN DEF Machine!Blip
<1>6. CASE Machine!GroupReplaces
  <2>1. builds < MaxBuilds
    BY <1>6, <1>t DEF Machine!GroupReplaces, Machine!Stop, MachineInv, BuildsHold
  <2> QED
    BY <1>6, <2>1, StopStep DEF Machine!GroupReplaces, MachineInv, MachineTyped
<1>7. CASE Machine!Preempt
  BY <1>7, StopStep DEF Machine!Preempt, MachineInv, MachineTyped
<1>8. ASSUME NEW n \in {0, 1}, Machine!Resize(n) PROVE MachineInv'
  <2>1. CASE Machine!Stop
    BY <1>8, <2>1, StopStep DEF Machine!Resize, Machine!Stop
  <2>2. CASE UNCHANGED <<vm, joined, nodes>>
    <3>1. joined' \in BOOLEAN /\ size' \in {0, 1} /\ UNCHANGED <<builds, route, pc, old, recycling, faults>>
      BY <1>8, <1>t, <2>2 DEF Machine!Resize
    <3> QED
      BY <2>2, <3>1 DEF MachineInv, MachineTyped, BuildsHold, NodesAreBuilds
  <2> QED
    BY <1>8, <2>1, <2>2 DEF Machine!Resize
<1> QED
  BY <1>1, <1>2, <1>4, <1>5, <1>6, <1>7, <1>8 DEF Machine!Runs

\* The steps of the commands.
LEMMA CommandsStep ==
  ASSUME MachineInv,
         \/ Machine!Recreate \/ Machine!GoesOn \/ Machine!ReplacementTimesOut \/ Machine!Repoint
         \/ Machine!Recycle \/ Machine!DeletionFails \/ Machine!RenameIsLost \/ Machine!ByHand
  PROVE  MachineInv'
<1> USE DEF Machine!group, Machine!command
<1>t. /\ builds \in Nat /\ MaxBuilds \in Nat /\ vm \in Nat /\ faults \in Nat /\ joined \in BOOLEAN
      /\ pc \in {"idle", "requested", "await", "repoint", "delete", "rename"}
      /\ route \in Nat /\ route <= builds /\ old \in Nat /\ old <= builds
      /\ recycling \in [stale : Nat, live : Nat] /\ recycling.stale <= builds /\ recycling.live <= builds
      /\ \A n \in nodes : n \in MeshNodes /\ 1 <= n.vm /\ n.vm <= builds /\ (n.online = TRUE => n.vm = vm)
      /\ \A m, n \in nodes : m.vm = n.vm => m = n
      /\ joined = FALSE => \A n \in nodes : n.vm # vm
      /\ vm \in {0, builds} /\ 1 <= builds
  BY BoundsAssumption DEF MachineInv, MachineTyped, BuildsHold, NodesAreBuilds
<1>1. CASE Machine!Recreate
  BY <1>1, <1>t, CommandStep DEF Machine!Recreate
<1>2. CASE Machine!Replaced
  BY <1>2, <1>t, CommandStep DEF Machine!Replaced
<1>3. CASE Machine!Ready
  BY <1>3, <1>t, CommandStep DEF Machine!Ready
<1>4. CASE Machine!NeverReady
  BY <1>4, <1>t, MachineEnds DEF Machine!NeverReady
<1>5. CASE Machine!ReplacementTimesOut
  BY <1>5, <1>t, MachineEnds DEF Machine!ReplacementTimesOut, Machine!Fault
<1>6. CASE Machine!Repoint
  <2>1. route' \in Nat /\ route' <= builds
    <3>1. \A n \in Machine!Holders : n.vm \in Nat /\ n.vm <= builds
      BY <1>t DEF Machine!Holders, MeshNodes
    <3>2. route' = route \/ \E n \in Machine!Holders : route' = n.vm
      BY <1>6 DEF Machine!Repoint
    <3> QED
      BY <1>t, <3>1, <3>2
  <2> QED
    BY <1>6, <1>t, <2>1, MachineEnds DEF Machine!Repoint
<1>7. CASE Machine!DeletionFails
  BY <1>7, <1>t, MachineEnds DEF Machine!DeletionFails, Machine!Fault
<1>8. CASE Machine!RenameIsLost
  BY <1>8, <1>t, MachineEnds DEF Machine!RenameIsLost, Machine!Fault
<1>9. CASE Machine!Recycle
  <2>1. PICK stale \in nodes, live_ \in nodes :
          Machine!MayRecycle(stale, live_) /\ recycling' = [stale |-> stale.vm, live |-> live_.vm]
    BY <1>9 DEF Machine!Recycle
  <2>2. stale.name = "hub" /\ live_.name = "suffixed" /\ live_.online = TRUE
    <3>1. stale \in Machine!Holders /\ live_ \in Machine!Suffixed /\ live_.online
      BY <2>1 DEF Machine!MayRecycle
    <3>2. live_.online \in BOOLEAN
      BY <1>t DEF MeshNodes
    <3> QED
      BY <3>1, <3>2 DEF Machine!Holders, Machine!Suffixed
  <2>3. stale.vm # vm
    BY <1>t, <2>2
  <2>4. stale.vm \in Nat /\ live_.vm \in Nat /\ 1 <= stale.vm /\ stale.vm <= builds /\ live_.vm <= builds
    BY <1>t DEF MeshNodes
  <2>5. /\ recycling' \in [stale : Nat, live : Nat] /\ recycling'.stale = stale.vm /\ recycling'.live = live_.vm
    BY <2>1, <2>4
  <2>6. pc' = "delete" /\ UNCHANGED <<size, vm, joined, builds, nodes, route, old, faults>>
    BY <1>9 DEF Machine!Recycle
  <2> QED
    BY <1>t, <2>3, <2>4, <2>5, <2>6, CommandStep
<1>10. CASE Machine!DeleteStale
  <2>1. /\ nodes' \subseteq nodes /\ pc' = "rename"
        /\ UNCHANGED <<size, vm, joined, builds, route, old, recycling, faults>>
    BY <1>10 DEF Machine!DeleteStale
  <2>2. \A n \in nodes' : n \in MeshNodes /\ 1 <= n.vm /\ n.vm <= builds /\ (n.online = TRUE => n.vm = vm)
    BY <1>t, <2>1
  <2>3. \A m, n \in nodes' : m.vm = n.vm => m = n
    BY <1>t, <2>1
  <2>4. joined' = FALSE => \A n \in nodes' : n.vm # vm
    BY <1>t, <2>1
  <2> QED
    BY <1>t, <2>1, <2>2, <2>3, <2>4, NodesStep
<1>11. CASE Machine!RenameLive
  <2> DEFINE Renamed(n) == IF n.vm = recycling.live THEN [n EXCEPT !.name = "hub"] ELSE n
  <2>1. /\ pc' = "idle" /\ old' = 0 /\ recycling' = [stale |-> 0, live |-> 0]
        /\ UNCHANGED <<size, vm, joined, builds, route, faults>>
        /\ nodes' = nodes \/ nodes' = {Renamed(n) : n \in nodes}
    BY <1>11 DEF Machine!RenameLive, Machine!End, Machine!NoPlan
  <2>2. \A n \in nodes : Renamed(n) \in MeshNodes /\ Renamed(n).vm = n.vm /\ Renamed(n).online = n.online
    BY <1>t DEF MeshNodes
  <2>3. CASE nodes' = nodes
    BY <1>t, <2>1, <2>3, NodesStep
  <2>4. CASE nodes' = {Renamed(n) : n \in nodes}
    <3> HIDE DEF Renamed
    <3>1. \A n \in nodes' : n \in MeshNodes /\ 1 <= n.vm /\ n.vm <= builds /\ (n.online = TRUE => n.vm = vm)
      BY <1>t, <2>2, <2>4
    <3>2. \A m, n \in nodes' : m.vm = n.vm => m = n
      <4>1. SUFFICES ASSUME NEW m \in nodes, NEW n \in nodes, Renamed(m).vm = Renamed(n).vm
                     PROVE  Renamed(m) = Renamed(n)
        BY <2>4
      <4>2. m = n
        BY <1>t, <2>2, <4>1
      <4> QED
        BY <4>2
    <3>3. joined' = FALSE => \A n \in nodes' : n.vm # vm
      BY <1>t, <2>1, <2>2, <2>4
    <3> QED
      BY <1>t, <2>1, <3>1, <3>2, <3>3, NodesStep
  <2> QED
    BY <2>1, <2>3, <2>4
<1>12. CASE Machine!ByHand
  <2>1. PICK n \in nodes : n.vm = vm /\ nodes' = {[n EXCEPT !.name = "hub"]}
    BY <1>12 DEF Machine!ByHand, Machine!Suffixed
  <2> DEFINE m == [n EXCEPT !.name = "hub"]
  <2>2. m \in MeshNodes /\ m.vm = vm /\ 1 <= m.vm /\ m.vm <= builds /\ nodes' = {m}
    BY <1>t, <2>1 DEF MeshNodes
  <2> HIDE DEF m
  <2>3. UNCHANGED <<size, vm, joined, builds, route, pc, old, recycling, faults>> /\ joined # FALSE
    BY <1>12, <1>t, <2>1 DEF Machine!ByHand
  <2> QED
    BY <1>t, <2>2, <2>3, NodesStep
<1> QED
  BY <1>1, <1>2, <1>3, <1>4, <1>5, <1>6, <1>7, <1>8, <1>9, <1>10, <1>11, <1>12 DEF Machine!GoesOn

\* Each step keeps what is known of the machine.
LEMMA MachineStep == ASSUME MachineInv, Machine!Next PROVE MachineInv'
BY GroupStep, CommandsStep DEF Machine!Next

\* At first the first build runs and has the name.
LEMMA MachineInit == Init => MachineInv
<1>1. Init => Machine!Init
  BY DEF Init
<1>2. ASSUME Machine!Init PROVE MachineInv
  <2>1. /\ size = 1 /\ vm = 1 /\ joined = TRUE /\ builds = 1 /\ route \in {0, 1} /\ pc = "idle" /\ old = 0
        /\ recycling = [stale |-> 0, live |-> 0] /\ faults = 0
        /\ nodes = {[vm |-> 1, name |-> "hub", online |-> TRUE]}
    BY <1>2 DEF Machine!Init, Machine!NoPlan
  <2>2. joined \in BOOLEAN
    BY <2>1
  <2>3. [vm |-> 1, name |-> "hub", online |-> TRUE] \in MeshNodes
    BY DEF MeshNodes
  <2>4. MachineTyped
    BY <2>1, <2>2, <2>3 DEF MachineTyped
  <2>5. BuildsHold
    BY <2>1, BoundsAssumption DEF BuildsHold
  <2>6. NodesAreBuilds
    BY <2>1 DEF NodesAreBuilds
  <2> QED
    BY <2>4, <2>5, <2>6 DEF MachineInv
<1> QED
  BY <1>1, <1>2

\* What is checked follows.
LEMMA MachineIsTyped == ASSUME MachineInv PROVE Machine!TypeOK
<1>1. joined \in BOOLEAN /\ builds \in Nat /\ MaxBuilds \in Nat
  BY BoundsAssumption DEF MachineInv, MachineTyped
<1>2. \A n \in nodes : n.vm \in 1..builds /\ n.name \in {"hub", "suffixed"} /\ n.online \in BOOLEAN
  BY DEF MachineInv, MachineTyped, NodesAreBuilds, MeshNodes
<1>3. vm \in 0..MaxBuilds + 1 /\ builds \in 1..MaxBuilds + 1
  BY <1>1 DEF MachineInv, MachineTyped, BuildsHold
<1>4. route \in 0..builds /\ old \in 0..builds /\ recycling.stale \in 0..builds /\ recycling.live \in 0..builds
  BY <1>1 DEF MachineInv, MachineTyped, BuildsHold
<1> QED
  BY <1>1, <1>2, <1>3, <1>4 DEF MachineInv, MachineTyped, Machine!TypeOK

\* No step takes the name from the machine that runs.
LEMMA NameStays == ASSUME MachineInv, Machine!Next PROVE Machine!LivingKept
<1> USE DEF Machine!group, Machine!command
<1>t. /\ builds \in Nat /\ vm \in Nat /\ joined \in BOOLEAN
      /\ \A n \in nodes : n \in MeshNodes
      /\ joined = FALSE => \A n \in nodes : n.vm # vm
  BY DEF MachineInv, MachineTyped, NodesAreBuilds
<1> SUFFICES ASSUME NEW k \in nodes, k.name = "hub", k.vm = vm, vm' = vm
             PROVE  \E n \in nodes' : n.name = "hub" /\ n.vm = vm
  BY DEF Machine!LivingKept, Machine!Holders
<1>s. ASSUME Machine!Stop PROVE FALSE
  BY <1>s DEF Machine!Stop
<1>k. ASSUME nodes' = nodes PROVE \E n \in nodes' : n.name = "hub" /\ n.vm = vm
  BY <1>k
<1>r. ASSUME NEW n \in nodes, NEW b \in BOOLEAN, n.vm = vm, nodes' = (nodes \ {n}) \cup {[n EXCEPT !.online = b]}
      PROVE  \E m \in nodes' : m.name = "hub" /\ m.vm = vm
  <2>1. n = k
    BY <1>r DEF MachineInv, NodesAreBuilds
  <2>2. [n EXCEPT !.online = b].name = "hub" /\ [n EXCEPT !.online = b].vm = vm
    BY <1>t, <2>1 DEF MeshNodes
  <2> QED
    BY <1>r, <2>2
<1>1. CASE Machine!Build \/ Machine!GroupReplaces \/ Machine!Preempt
  BY <1>1, <1>s, <1>k DEF Machine!Build, Machine!GroupReplaces, Machine!Preempt
<1>2. CASE Machine!Join
  BY <1>2, <1>t DEF Machine!Join
<1>3. CASE Machine!Reconnect \/ Machine!Blip
  BY <1>3, <1>r, TRUE \in BOOLEAN, FALSE \in BOOLEAN DEF Machine!Reconnect, Machine!Blip
<1>4. ASSUME NEW n \in {0, 1}, Machine!Resize(n) PROVE \E m \in nodes' : m.name = "hub" /\ m.vm = vm
  BY <1>4, <1>s, <1>k DEF Machine!Resize
<1>5. CASE \/ Machine!Recreate \/ Machine!Replaced \/ Machine!Ready \/ Machine!NeverReady \/ Machine!ReplacementTimesOut
           \/ Machine!Repoint \/ Machine!Recycle \/ Machine!DeletionFails \/ Machine!RenameIsLost
  BY <1>5, <1>k DEF Machine!Recreate, Machine!Replaced, Machine!Ready, Machine!NeverReady, Machine!ReplacementTimesOut,
     Machine!Repoint, Machine!Recycle, Machine!DeletionFails, Machine!RenameIsLost
<1>6. CASE Machine!DeleteStale
  <2>1. recycling.stale # vm
    BY <1>6 DEF Machine!DeleteStale, MachineInv, NodesAreBuilds
  <2> QED
    BY <1>6, <2>1 DEF Machine!DeleteStale
<1>7. CASE Machine!RenameLive
  <2>1. k \in Machine!Holders
    BY DEF Machine!Holders
  <2> QED
    BY <1>7, <1>k, <2>1 DEF Machine!RenameLive
<1>8. CASE Machine!ByHand
  <2>1. PICK n \in nodes : n.vm = vm /\ nodes' = {[n EXCEPT !.name = "hub"]}
    BY <1>8 DEF Machine!ByHand, Machine!Suffixed
  <2>2. [n EXCEPT !.name = "hub"].name = "hub" /\ [n EXCEPT !.name = "hub"].vm = vm
    BY <1>t, <2>1 DEF MeshNodes
  <2> QED
    BY <2>1, <2>2
<1> QED
  BY <1>1, <1>2, <1>3, <1>4, <1>5, <1>6, <1>7, <1>8 DEF Machine!Next, Machine!Runs, Machine!GoesOn

-----------------------------------------------------------------------------
\* The kill switch

\* A proof publishes once, before it polls; what it published may be on its way for
\* long after it.
SwitchTyped ==
    /\ target \in {"hub", "scratch"} /\ billed \subseteq {"hub", "scratch"} /\ spent \in BOOLEAN
    /\ queue \in [budget : {0, 1}, proof : Nat]
    /\ pc \in {"idle", "repoint", "publish", "poll", "restore", "verify"}
    /\ said \in {"nothing", "detached", "not-detached", "misaimed", "killed"}
    /\ fired \in BOOLEAN /\ proofs \in 0..MaxProofs /\ faults \in Nat
    /\ queue.proof <= proofs
    /\ pc \in {"repoint", "publish"} => queue.proof < proofs

\* The function is pointed elsewhere only while a proof runs that has not restored it
\* yet, or after one that said so or was killed.
AimedOrSaid ==
    /\ pc = "idle" => target = "hub" \/ said \in {"misaimed", "killed"}
    /\ pc = "repoint" => target = "hub"

SwitchInv == SwitchTyped /\ AimedOrSaid

\* Each step of the proof, of a person and of the topic keeps it.
LEMMA SwitchStep == ASSUME SwitchInv, Switch!Next PROVE SwitchInv'
<1> USE BoundsAssumption DEF SwitchInv, SwitchTyped, AimedOrSaid
<1>1. CASE Switch!Begin
  <2>1. fired' \in BOOLEAN
    BY <1>1 DEF Switch!Begin
  <2> QED
    BY <1>1, <2>1 DEF Switch!Begin
<1>2. CASE Switch!Repoint
  BY <1>2 DEF Switch!Repoint, Switch!GoTo, Switch!Fault
<1>3. CASE Switch!Publish
  <2>1. queue'.proof \in {queue.proof, queue.proof + 1} /\ queue' \in [budget : {0, 1}, proof : Nat]
    BY <1>3 DEF Switch!Publish
  <2>2. /\ pc = "publish" /\ pc' \in {"poll", "restore"} /\ faults' \in Nat
        /\ UNCHANGED <<target, billed, spent, said, fired, proofs>>
    BY <1>3 DEF Switch!Publish, Switch!GoTo, Switch!Fault
  <2> QED
    BY <2>1, <2>2
<1>4. CASE Switch!Detached
  BY <1>4 DEF Switch!Detached
<1>5. CASE Switch!PollEnds
  BY <1>5 DEF Switch!PollEnds, Switch!GoTo
<1>6. CASE Switch!Restore
  <2>1. fired' \in BOOLEAN
    BY <1>6 DEF Switch!Restore, Switch!GoTo, Switch!End
  <2> QED
    BY <1>6, <2>1 DEF Switch!Restore, Switch!GoTo, Switch!End, Switch!Fault
<1>7. CASE Switch!Verify
  <2>1. said' \in {"detached", "not-detached", "misaimed"} /\ (target # "hub" => said' = "misaimed")
    BY <1>7 DEF Switch!Verify, Switch!End
  <2>2. pc' = "idle" /\ fired' = FALSE /\ faults' \in Nat /\ UNCHANGED <<target, billed, spent, queue, proofs>>
    BY <1>7 DEF Switch!Verify, Switch!End, Switch!Fault
  <2>3. fired' \in BOOLEAN
    BY <2>2
  <2> QED
    BY <2>1, <2>2, <2>3
<1>8. CASE Switch!Killed
  <2>1. fired' \in BOOLEAN
    BY <1>8 DEF Switch!Killed, Switch!End
  <2> QED
    BY <1>8, <2>1 DEF Switch!Killed, Switch!End, Switch!Fault
<1>9. CASE Switch!Repair
  BY <1>9 DEF Switch!Repair
<1>10. CASE Switch!Spend
  BY <1>10 DEF Switch!Spend, Switch!proof
<1>11. CASE Switch!Notify
  BY <1>11 DEF Switch!Notify, Switch!proof
<1>12. ASSUME NEW origin \in DOMAIN queue, Switch!Deliver(origin) PROVE SwitchInv'
  <2>1. origin \in {"budget", "proof"}
    OBVIOUS
  <2>2. queue' \in [budget : {0, 1}, proof : Nat] /\ queue'.proof <= queue.proof
    <3>1. CASE origin = "budget"
      BY <1>12, <3>1 DEF Switch!Deliver
    <3>2. CASE origin = "proof"
      BY <1>12, <3>2 DEF Switch!Deliver
    <3> QED
      BY <2>1, <3>1, <3>2
  <2>3. billed' \subseteq billed /\ UNCHANGED <<target, spent, pc, said, fired, proofs, faults>>
    BY <1>12 DEF Switch!Deliver, Switch!proof
  <2> QED
    BY <2>2, <2>3
<1> QED
  BY <1>1, <1>2, <1>3, <1>4, <1>5, <1>6, <1>7, <1>8, <1>9, <1>10, <1>11, <1>12 DEF Switch!Next, Switch!Works

\* At first the function is pointed at the hub and nothing was published.
LEMMA SwitchInit == Init => SwitchInv
<1>1. Init => Switch!Init
  BY DEF Init
<1>2. ASSUME Switch!Init PROVE SwitchInv
  <2>1. fired \in BOOLEAN /\ spent \in BOOLEAN
    BY <1>2 DEF Switch!Init
  <2> QED
    BY <1>2, <2>1, BoundsAssumption DEF Switch!Init, SwitchInv, SwitchTyped, AimedOrSaid
<1> QED
  BY <1>1, <1>2

\* The types that are checked follow.
LEMMA SwitchIsTyped == ASSUME SwitchInv PROVE Switch!TypeOK /\ Switch!SwitchIsAimed
<1>1. queue.budget \in {0, 1} /\ queue.proof \in 0..MaxProofs
  BY BoundsAssumption DEF SwitchInv, SwitchTyped
<1> QED
  BY <1>1 DEF SwitchInv, SwitchTyped, AimedOrSaid, Switch!TypeOK, Switch!Projects, Switch!SwitchIsAimed

-----------------------------------------------------------------------------
\* The drill

DrillTyped ==
    /\ claim \in Nat /\ cause \in Nat /\ cause <= drill
    /\ \A d \in evidence : d \in Nat /\ 1 <= d /\ d <= drill
    /\ alert \in {"quiet", "pending", "firing"}
    /\ pc \in {"idle", "absorb", "check", "create", "poll", "remove"}
    /\ said \in {"nothing", "refused", "fired", "did-not-fire", "error", "live-claim", "killed"}
    /\ drill \in Nat /\ 1 <= drill /\ drill <= MaxDrills /\ faults \in Nat

\* The claim is that of an earlier drill until this one creates its own, and is gone
\* when it has ended and did not say otherwise.
ClaimHolds ==
    /\ claim <= drill
    /\ pc \in {"absorb", "check", "create"} => claim < drill
    /\ pc \in {"check", "create"} => claim = 0
    /\ pc = "poll" => claim = drill
    /\ pc = "remove" => claim \in {0, drill} /\ (said = "fired" => claim = drill)
    /\ Drill!NoResidue

\* While the alert is anything but quiet, the claim there is was logged; so that before
\* a drill creates its claim all that an earlier one caused has gone.
CauseHolds ==
    /\ evidence # {} \/ alert # "quiet" => claim = 0 \/ claim \in evidence
    /\ pc \in {"absorb", "check"} => alert = "firing" \/ (claim = 0 /\ evidence = {} /\ alert = "quiet")
    /\ pc = "create" => evidence = {} /\ alert = "quiet"
    /\ pc \in {"poll", "remove"} => evidence \subseteq {drill} /\ (alert # "quiet" => cause = drill)
    /\ pc = "remove" /\ said = "fired" => alert # "quiet"

DrillInv == DrillTyped /\ ClaimHolds /\ (~Hasty => CauseHolds)

\* Each step of the drill keeps the types and what holds of the claim.
LEMMA DrillTypeStep == ASSUME DrillTyped, ClaimHolds, Drill!Next PROVE DrillTyped'
<1> USE BoundsAssumption DEF DrillTyped, ClaimHolds, Drill!NoResidue
<1>1. CASE Drill!Begin
  BY <1>1 DEF Drill!Begin, Drill!pipeline
<1>2. CASE Drill!Absorb
  BY <1>2 DEF Drill!Absorb, Drill!pipeline, Drill!GoTo, Drill!End, Drill!Fault
<1>3. CASE Drill!Check
  BY <1>3 DEF Drill!Check, Drill!pipeline, Drill!GoTo, Drill!End, Drill!Fault
<1>4. CASE Drill!Create
  BY <1>4 DEF Drill!Create, Drill!pipeline, Drill!GoTo, Drill!Fault
<1>5. CASE Drill!Poll
  BY <1>5 DEF Drill!Poll, Drill!pipeline
<1>6. CASE Drill!Remove
  BY <1>6 DEF Drill!Remove, Drill!pipeline, Drill!End, Drill!Fault
<1>7. CASE Drill!Killed
  BY <1>7 DEF Drill!Killed, Drill!pipeline, Drill!End, Drill!Fault
<1>8. CASE Drill!Log
  BY <1>8 DEF Drill!Log
<1>9. CASE Drill!Expire
  BY <1>9 DEF Drill!Expire
<1>10. CASE Drill!Evaluate
  BY <1>10 DEF Drill!Evaluate
<1> QED
  BY <1>1, <1>2, <1>3, <1>4, <1>5, <1>6, <1>7, <1>8, <1>9, <1>10 DEF Drill!Next

\* Each step of the drill keeps what holds of the claim.
LEMMA ClaimStep == ASSUME DrillTyped, ClaimHolds, Drill!Next PROVE ClaimHolds'
<1> USE BoundsAssumption DEF DrillTyped, ClaimHolds, Drill!NoResidue
<1>1. CASE Drill!Begin
  BY <1>1 DEF Drill!Begin, Drill!pipeline
<1>2. CASE Drill!Absorb
  BY <1>2 DEF Drill!Absorb, Drill!pipeline, Drill!GoTo, Drill!End, Drill!Fault
<1>3. CASE Drill!Check
  BY <1>3 DEF Drill!Check, Drill!pipeline, Drill!GoTo, Drill!End, Drill!Fault
<1>4. CASE Drill!Create
  BY <1>4 DEF Drill!Create, Drill!pipeline, Drill!GoTo, Drill!Fault
<1>5. CASE Drill!Poll
  BY <1>5 DEF Drill!Poll, Drill!pipeline
<1>6. CASE Drill!Remove
  BY <1>6 DEF Drill!Remove, Drill!pipeline, Drill!End, Drill!Fault
<1>7. CASE Drill!Killed
  BY <1>7 DEF Drill!Killed, Drill!pipeline, Drill!End, Drill!Fault
<1>8. CASE Drill!Log
  BY <1>8 DEF Drill!Log
<1>9. CASE Drill!Expire
  BY <1>9 DEF Drill!Expire
<1>10. CASE Drill!Evaluate
  BY <1>10 DEF Drill!Evaluate
<1> QED
  BY <1>1, <1>2, <1>3, <1>4, <1>5, <1>6, <1>7, <1>8, <1>9, <1>10 DEF Drill!Next

\* Each step keeps what holds of the alert, if no drill is begun while an earlier claim
\* may make it fire.
LEMMA CauseStep == ASSUME DrillTyped, ClaimHolds, CauseHolds, ~Hasty, Drill!Next PROVE CauseHolds'
<1> USE BoundsAssumption DEF DrillTyped, ClaimHolds, CauseHolds
<1>1. CASE Drill!Begin
  BY <1>1 DEF Drill!Begin, Drill!pipeline
<1>2. CASE Drill!Absorb
  BY <1>2 DEF Drill!Absorb, Drill!pipeline, Drill!GoTo, Drill!End
<1>3. CASE Drill!Check
  BY <1>3 DEF Drill!Check, Drill!pipeline, Drill!GoTo, Drill!End
<1>4. CASE Drill!Create
  BY <1>4 DEF Drill!Create, Drill!pipeline, Drill!GoTo
<1>5. CASE Drill!Poll
  BY <1>5 DEF Drill!Poll, Drill!pipeline
<1>6. CASE Drill!Remove
  BY <1>6 DEF Drill!Remove, Drill!pipeline, Drill!End
<1>7. CASE Drill!Killed
  BY <1>7 DEF Drill!Killed, Drill!pipeline, Drill!End
<1>8. CASE Drill!Log
  BY <1>8 DEF Drill!Log
<1>9. CASE Drill!Expire
  BY <1>9 DEF Drill!Expire
<1>10. CASE Drill!Evaluate
  BY <1>10 DEF Drill!Evaluate
<1> QED
  BY <1>1, <1>2, <1>3, <1>4, <1>5, <1>6, <1>7, <1>8, <1>9, <1>10 DEF Drill!Next

\* At first there is no claim, or that of a drill long ago.
LEMMA DrillInit == Init => DrillInv
<1>1. Init => Drill!Init
  BY DEF Init
<1>2. ASSUME Drill!Init PROVE DrillInv
  BY <1>2, BoundsAssumption DEF Drill!Init, DrillInv, DrillTyped, ClaimHolds, CauseHolds, Drill!NoResidue
<1> QED
  BY <1>1, <1>2

\* What is checked follows.
LEMMA DrillIsTyped ==
  ASSUME DrillInv
  PROVE  Drill!TypeOK /\ Drill!NoResidue /\ (~Hasty => Drill!FiredIsCaused)
<1>1. Drill!TypeOK
  <2>1. claim \in 0..MaxDrills /\ cause \in 0..MaxDrills /\ drill \in 1..MaxDrills
    BY BoundsAssumption DEF DrillInv, DrillTyped, ClaimHolds
  <2>2. evidence \subseteq 1..MaxDrills
    BY BoundsAssumption DEF DrillInv, DrillTyped
  <2> QED
    BY <2>1, <2>2 DEF DrillInv, DrillTyped, Drill!TypeOK
<1> QED
  BY <1>1 DEF DrillInv, ClaimHolds, CauseHolds, Drill!FiredIsCaused

-----------------------------------------------------------------------------
\* The reclaim

ReclaimTyped ==
    /\ running \subseteq Reclaim!RunnerSet
    /\ job \in [Jobs -> Reclaim!RunnerSet \cup {None, "over"}]
    /\ builders \subseteq Jobs /\ volumes \subseteq Jobs /\ oldBuilders \subseteq Jobs
    /\ pc \in {"idle", "list", "plan", "stop", "builders", "volumes", "images", "start"}
    /\ at \in DOMAIN Runners /\ ok \in BOOLEAN
    /\ seen \in [all : SUBSET Jobs, old : SUBSET Jobs]
    /\ doomed \in [builders : SUBSET Jobs, volumes : SUBSET Jobs]
    /\ said \in {"nothing", "reclaimed", "failed", "may-be-stopped"}
    /\ faults \in Nat

\* What is old is that of a job that is over, and so is what the command takes; a job
\* that runs has its builder.
BusyHold ==
    /\ \A j \in oldBuilders : job[j] = "over"
    /\ \A j \in Jobs : job[j] = None => j \notin builders \cup volumes
    /\ \A j \in Jobs : job[j] \in Reclaim!RunnerSet => j \in builders
    /\ seen.old \subseteq oldBuilders /\ seen.old \subseteq seen.all
    /\ doomed.builders \subseteq oldBuilders
    /\ \A j \in doomed.volumes \cup seen.all : job[j] # None

\* The runners are all up unless the command has them stopped, or said that it may.
RunnersHold ==
    /\ pc \in {"idle", "list", "plan"} => running = Reclaim!RunnerSet \/ said = "may-be-stopped"
    /\ pc = "start" => \A k \in 1..(at - 1) : Runners[k] \in running
    /\ pc \in {"idle", "list", "plan", "builders", "volumes", "images"} => at = 1

ReclaimInv == ReclaimTyped /\ BusyHold /\ (~DaemonFails => RunnersHold)

\* The place in the sequence of the runners stays in it.
LEMMA PlaceSteps ==
  /\ 1 \in DOMAIN Runners /\ Len(Runners) \in Nat /\ DOMAIN Runners = 1..Len(Runners)
  /\ \A i \in DOMAIN Runners : i # Len(Runners) => i + 1 \in DOMAIN Runners
  /\ \A i \in DOMAIN Runners : Runners[i] \in Reclaim!RunnerSet
BY ReclaimAssumption DEF Reclaim!RunnerSet

\* Each step of the reclaim and of the node keeps the types.
LEMMA ReclaimTypeStep == ASSUME ReclaimTyped, Reclaim!Next PROVE ReclaimTyped'
<1> USE DEF ReclaimTyped, Reclaim!daemon, Reclaim!command, Reclaim!Nobody, Reclaim!Spared
<1>0. 1 \in DOMAIN Runners
  BY PlaceSteps
<1>1. CASE Reclaim!Begin
  BY <1>1 DEF Reclaim!Begin
<1>2. CASE Reclaim!ListContainers
  BY <1>2 DEF Reclaim!ListContainers
<1>3. CASE Reclaim!Plan
  BY <1>3 DEF Reclaim!Plan
<1>4. CASE Reclaim!StopRunner
  <2>1. running' \subseteq Reclaim!RunnerSet /\ job' \in [Jobs -> Reclaim!RunnerSet \cup {None, "over"}]
    BY <1>4 DEF Reclaim!StopRunner
  <2>2. pc' \in {"stop", "builders"} /\ at' \in DOMAIN Runners
    BY <1>4, PlaceSteps DEF Reclaim!StopRunner, Reclaim!NextRunner
  <2>3. ok' \in BOOLEAN
    BY <1>4 DEF Reclaim!StopRunner
  <2> QED
    BY <1>4, <2>1, <2>2, <2>3 DEF Reclaim!StopRunner
<1>5. CASE Reclaim!RemoveBuilder
  <2>1. ok' \in BOOLEAN
    BY <1>5 DEF Reclaim!RemoveBuilder
  <2>2. /\ pc' \in {"builders", "volumes"} /\ builders' \subseteq Jobs
        /\ doomed' \in [builders : SUBSET Jobs, volumes : SUBSET Jobs]
    BY <1>5 DEF Reclaim!RemoveBuilder
  <2> QED
    BY <1>5, <2>1, <2>2 DEF Reclaim!RemoveBuilder
<1>6. CASE Reclaim!RemoveVolume
  <2>1. ok' \in BOOLEAN
    BY <1>6 DEF Reclaim!RemoveVolume
  <2>2. /\ pc' \in {"start", "volumes", "images"} /\ volumes' \subseteq Jobs
        /\ doomed' \in [builders : SUBSET Jobs, volumes : SUBSET Jobs]
    BY <1>6 DEF Reclaim!RemoveVolume
  <2> QED
    BY <1>6, <2>1, <2>2 DEF Reclaim!RemoveVolume
<1>7. CASE Reclaim!PruneImages
  BY <1>7 DEF Reclaim!PruneImages
<1>8. CASE Reclaim!StartRunner
  <2>1. ok' \in BOOLEAN
    BY <1>8 DEF Reclaim!StartRunner, Reclaim!End
  <2>2. running' \subseteq Reclaim!RunnerSet
    BY <1>8, PlaceSteps DEF Reclaim!StartRunner
  <2>3. CASE at = Len(Runners)
    BY <1>0, <1>8, <2>1, <2>2, <2>3 DEF Reclaim!StartRunner, Reclaim!End
  <2>4. CASE at # Len(Runners)
    BY <1>8, <2>1, <2>2, <2>4, PlaceSteps DEF Reclaim!StartRunner
  <2> QED
    BY <2>3, <2>4
<1>9. CASE Reclaim!CallFails
  <2>1. ok' \in BOOLEAN
    BY <1>9 DEF Reclaim!CallFails, Reclaim!End
  <2> QED
    BY <1>0, <1>9, <2>1 DEF Reclaim!CallFails, Reclaim!End, Reclaim!Fault
<1>10. CASE Reclaim!StartFails
  <2>1. ok' \in BOOLEAN
    BY <1>10 DEF Reclaim!StartFails, Reclaim!End
  <2> QED
    BY <1>0, <1>10, <2>1 DEF Reclaim!StartFails, Reclaim!End, Reclaim!Fault
<1>11. ASSUME NEW j \in Jobs, Reclaim!EndJob(j) PROVE ReclaimTyped'
  BY <1>11 DEF Reclaim!EndJob
<1>12. ASSUME NEW j \in Jobs, Reclaim!GetOld(j) PROVE ReclaimTyped'
  BY <1>12 DEF Reclaim!GetOld
<1>13. ASSUME NEW j \in Jobs, NEW r \in Reclaim!RunnerSet, Reclaim!StartJob(r, j) PROVE ReclaimTyped'
  BY <1>13 DEF Reclaim!StartJob
<1> QED
  BY <1>1, <1>2, <1>3, <1>4, <1>5, <1>6, <1>7, <1>8, <1>9, <1>10, <1>11, <1>12, <1>13
     DEF Reclaim!Next, Reclaim!Goes

\* Each step keeps what is known of what is old.
LEMMA BusyStep == ASSUME ReclaimTyped, BusyHold, Reclaim!Next PROVE BusyHold'
<1> USE ReclaimAssumption DEF ReclaimTyped, BusyHold, Reclaim!daemon, Reclaim!command, Reclaim!Nobody, Reclaim!Spared
<1>1. CASE Reclaim!Begin
  BY <1>1 DEF Reclaim!Begin
<1>2. CASE Reclaim!ListContainers
  BY <1>2 DEF Reclaim!ListContainers
<1>3. CASE Reclaim!Plan
  BY <1>3 DEF Reclaim!Plan
<1>4. CASE Reclaim!StopRunner
  <2>1. \A j \in Jobs : job'[j] \in {job[j], "over"}
    BY <1>4 DEF Reclaim!StopRunner
  <2> QED
    BY <1>4, <2>1 DEF Reclaim!StopRunner
<1>5. CASE Reclaim!RemoveBuilder
  <2>1. /\ builders' \subseteq builders /\ builders \ builders' \subseteq doomed.builders
        /\ doomed'.builders \subseteq doomed.builders /\ doomed'.volumes = doomed.volumes
    BY <1>5 DEF Reclaim!RemoveBuilder
  <2> QED
    BY <1>5, <2>1 DEF Reclaim!RemoveBuilder
<1>6. CASE Reclaim!RemoveVolume
  <2>1. volumes' \subseteq volumes /\ doomed'.builders = doomed.builders /\ doomed'.volumes \subseteq doomed.volumes
    BY <1>6 DEF Reclaim!RemoveVolume
  <2> QED
    BY <1>6, <2>1 DEF Reclaim!RemoveVolume
<1>7. CASE Reclaim!PruneImages
  BY <1>7 DEF Reclaim!PruneImages
<1>8. CASE Reclaim!StartRunner
  <2>1. seen' \in {seen, Reclaim!Nobody} /\ doomed' \in {doomed, Reclaim!Spared}
    BY <1>8 DEF Reclaim!StartRunner, Reclaim!End
  <2> QED
    BY <1>8, <2>1 DEF Reclaim!StartRunner
<1>9. CASE Reclaim!CallFails
  <2>1. seen' \in {seen, Reclaim!Nobody} /\ doomed' \in {doomed, Reclaim!Spared}
    BY <1>9 DEF Reclaim!CallFails, Reclaim!End
  <2> QED
    BY <1>9, <2>1 DEF Reclaim!CallFails
<1>10. CASE Reclaim!StartFails
  BY <1>10 DEF Reclaim!StartFails, Reclaim!End
<1>11. ASSUME NEW j \in Jobs, Reclaim!EndJob(j) PROVE BusyHold'
  BY <1>11 DEF Reclaim!EndJob
<1>12. ASSUME NEW j \in Jobs, Reclaim!GetOld(j) PROVE BusyHold'
  BY <1>12 DEF Reclaim!GetOld
<1>13. ASSUME NEW j \in Jobs, NEW r \in Reclaim!RunnerSet, Reclaim!StartJob(r, j) PROVE BusyHold'
  BY <1>13 DEF Reclaim!StartJob
<1> QED
  BY <1>1, <1>2, <1>3, <1>4, <1>5, <1>6, <1>7, <1>8, <1>9, <1>10, <1>11, <1>12, <1>13
     DEF Reclaim!Next, Reclaim!Goes

\* Each step keeps what is known of the runners, if docker stops and starts them.
LEMMA RunnersStep == ASSUME ReclaimTyped, RunnersHold, ~DaemonFails, Reclaim!Next PROVE RunnersHold'
<1> USE DEF ReclaimTyped, RunnersHold, Reclaim!daemon, Reclaim!command
<1>0. at \in Nat /\ at >= 1 /\ at <= Len(Runners) /\ Len(Runners) \in Nat
  BY PlaceSteps
<1>1. CASE Reclaim!Begin
  BY <1>1 DEF Reclaim!Begin
<1>2. CASE Reclaim!ListContainers
  BY <1>2 DEF Reclaim!ListContainers
<1>3. CASE Reclaim!Plan
  BY <1>3 DEF Reclaim!Plan
<1>4. CASE Reclaim!StopRunner
  BY <1>4 DEF Reclaim!StopRunner, Reclaim!NextRunner
<1>5. CASE Reclaim!RemoveBuilder
  BY <1>5 DEF Reclaim!RemoveBuilder
<1>6. CASE Reclaim!RemoveVolume
  BY <1>6 DEF Reclaim!RemoveVolume
<1>7. CASE Reclaim!PruneImages
  BY <1>7 DEF Reclaim!PruneImages
<1>8. CASE Reclaim!StartRunner
  <2>1. pc = "start" /\ running' = running \cup {Runners[at]}
    BY <1>8 DEF Reclaim!StartRunner
  <2>2. \A k \in 1..at : Runners[k] \in running'
    BY <1>0, <2>1
  <2>3. CASE at = Len(Runners)
    <3>1. running' = Reclaim!RunnerSet
      BY <1>0, <2>1, <2>2, <2>3, PlaceSteps DEF Reclaim!RunnerSet
    <3> QED
      BY <1>8, <2>3, <3>1 DEF Reclaim!StartRunner, Reclaim!End
  <2>4. CASE at # Len(Runners)
    <3>1. pc' = "start" /\ at' = at + 1
      BY <1>8, <2>1, <2>4 DEF Reclaim!StartRunner
    <3> QED
      BY <1>0, <2>2, <3>1
  <2> QED
    BY <2>3, <2>4
<1>9. CASE Reclaim!CallFails
  BY <1>9 DEF Reclaim!CallFails, Reclaim!End
<1>10. CASE Reclaim!StartFails
  BY <1>10 DEF Reclaim!StartFails, Reclaim!End
<1>11. ASSUME NEW j \in Jobs, Reclaim!EndJob(j) PROVE RunnersHold'
  BY <1>11 DEF Reclaim!EndJob
<1>12. ASSUME NEW j \in Jobs, Reclaim!GetOld(j) PROVE RunnersHold'
  BY <1>12 DEF Reclaim!GetOld
<1>13. ASSUME NEW j \in Jobs, NEW r \in Reclaim!RunnerSet, Reclaim!StartJob(r, j) PROVE RunnersHold'
  BY <1>13 DEF Reclaim!StartJob
<1> QED
  BY <1>1, <1>2, <1>3, <1>4, <1>5, <1>6, <1>7, <1>8, <1>9, <1>10, <1>11, <1>12, <1>13
     DEF Reclaim!Next, Reclaim!Goes

\* At first the runners run and no job has.
LEMMA ReclaimInit == Init => ReclaimInv
<1>1. Init => Reclaim!Init
  BY DEF Init
<1>2. ASSUME Reclaim!Init PROVE ReclaimInv
  <2>1. ok \in BOOLEAN
    BY <1>2 DEF Reclaim!Init
  <2>2. 1 \in DOMAIN Runners
    BY PlaceSteps
  <2> QED
    BY <1>2, <2>1, <2>2, ReclaimAssumption
       DEF Reclaim!Init, ReclaimInv, ReclaimTyped, BusyHold, RunnersHold, Reclaim!Nobody, Reclaim!Spared
<1> QED
  BY <1>1, <1>2

\* What is checked follows.
LEMMA ReclaimIsTyped ==
  ASSUME ReclaimInv
  PROVE  Reclaim!TypeOK /\ (~DaemonFails => Reclaim!RunnersReturn)
BY DEF ReclaimInv, ReclaimTyped, BusyHold, RunnersHold, Reclaim!TypeOK, Reclaim!RunnersReturn

\* A step removes only a builder that is old, and a volume that no builder has.
LEMMA BusyStay == ASSUME ReclaimInv, Reclaim!Next PROVE Reclaim!BusyAreSpared
<1> USE ReclaimAssumption DEF ReclaimInv, ReclaimTyped, BusyHold, Reclaim!daemon, Reclaim!command
<1>1. CASE Reclaim!RemoveBuilder
  BY <1>1 DEF Reclaim!RemoveBuilder, Reclaim!BusyAreSpared
<1>2. CASE Reclaim!RemoveVolume
  <2>1. builders' = builders /\ \A j \in volumes \ volumes' : j \in doomed.volumes /\ j \notin builders
    BY <1>2 DEF Reclaim!RemoveVolume
  <2> QED
    BY <2>1 DEF Reclaim!BusyAreSpared
<1>3. CASE ~Reclaim!RemoveBuilder /\ ~Reclaim!RemoveVolume
  <2>1. builders \subseteq builders' /\ volumes \subseteq volumes'
    BY <1>3 DEF Reclaim!Next, Reclaim!Goes, Reclaim!Begin, Reclaim!ListContainers, Reclaim!Plan, Reclaim!StopRunner,
       Reclaim!PruneImages, Reclaim!StartRunner, Reclaim!CallFails, Reclaim!StartFails, Reclaim!EndJob,
       Reclaim!GetOld, Reclaim!StartJob
  <2> QED
    BY <2>1 DEF Reclaim!BusyAreSpared
<1> QED
  BY <1>1, <1>2, <1>3

-----------------------------------------------------------------------------
\* The import

Flows == [flow : Nat, secret : Nat, published : BOOLEAN]

ImportTyped ==
    /\ source \in [flow : [Import!Names -> Nat], secret : Nat]
    /\ db \in [Import!Names -> Flows] /\ loaded \in [Import!Names -> Flows] /\ brought \in [Import!Names -> Flows]
    /\ read \in Flows
    /\ pc \in {"idle", "read", "credential", "workflow", "publish", "restart"}
    /\ at \in DOMAIN Workflows /\ tries \in {0, 1} /\ ok \in BOOLEAN
    /\ said \in {"nothing", "imported", "failed"} /\ edits \in Nat /\ faults \in Nat

\* A workflow that the database has as it was brought in, and the process too.
Brought(n) == db[n] = brought[n] /\ loaded[n] = brought[n]

\* Of the workflow it works on the database has what was written.
WrittenHolds ==
    /\ pc # "idle" => said = "nothing"
    /\ pc = "idle" => at = 1 /\ tries = 0
    /\ pc \in {"credential", "workflow", "publish", "restart"} => read.published = TRUE
    /\ pc \in {"workflow", "publish", "restart"} => db[Workflows[at]].secret = read.secret
    /\ pc \in {"publish", "restart"} => db[Workflows[at]].flow = read.flow
    /\ pc = "restart" => db[Workflows[at]] = read

\* While all went well, what came before is there; and after it, until the volume is wiped.
BroughtHolds ==
    /\ pc # "idle" /\ ok = TRUE => \A k \in 1..(at - 1) : Brought(Workflows[k])
    /\ said = "imported" =>
          \A n \in Import!Names : db[n] \in {brought[n], Import!Absent} /\ loaded[n] \in {brought[n], Import!Absent}

ImportInv == ImportTyped /\ WrittenHolds /\ BroughtHolds

\* The place in the catalogue stays in it.
LEMMA CatalogueSteps ==
  /\ 1 \in DOMAIN Workflows /\ Len(Workflows) \in Nat /\ DOMAIN Workflows = 1..Len(Workflows)
  /\ \A i \in DOMAIN Workflows : i # Len(Workflows) => i + 1 \in DOMAIN Workflows
  /\ \A i \in DOMAIN Workflows : Workflows[i] \in Import!Names
  /\ \A n \in Import!Names : \E i \in DOMAIN Workflows : n = Workflows[i]
  /\ Import!Absent \in Flows
<1>1. Import!Absent \in Flows
  BY DEF Import!Absent, Flows
<1> QED
  BY <1>1, ImportAssumption DEF Import!Names

\* What a call does to a workflow.
LEMMA EffectTyped ==
  ASSUME ImportTyped, NEW call \in {"credential", "workflow", "publish"}
  PROVE  /\ Import!Effect(call) \in Flows
         /\ call = "credential" => Import!Effect(call).secret = read.secret
         /\ call # "credential" => Import!Effect(call).secret = db[Workflows[at]].secret
         /\ call = "workflow" => Import!Effect(call).flow = read.flow
         /\ call = "publish" => Import!Effect(call).flow = db[Workflows[at]].flow
         /\ call = "publish" => Import!Effect(call).published = TRUE
<1>1. db[Workflows[at]] \in Flows /\ read \in Flows
  BY CatalogueSteps DEF ImportTyped
<1> DEFINE d == db[Workflows[at]]
<1>2. d \in Flows
  BY <1>1
<1>3. Import!Effect(call) = CASE call = "credential" -> [d EXCEPT !.secret = read.secret]
                               [] call = "workflow"   -> [d EXCEPT !.flow = read.flow]
                               [] call = "publish"    -> [d EXCEPT !.published = TRUE]
  BY DEF Import!Effect, Import!w
<1> HIDE DEF d
<1>4. CASE call = "credential"
  BY <1>1, <1>2, <1>3, <1>4 DEF Flows, d
<1>5. CASE call = "workflow"
  BY <1>1, <1>2, <1>3, <1>5 DEF Flows, d
<1>6. CASE call = "publish"
  BY <1>1, <1>2, <1>3, <1>6 DEF Flows, d
<1> QED
  BY <1>4, <1>5, <1>6

\* The next workflow, or the end.
LEMMA DoneTyped ==
  ASSUME ImportTyped, NEW all \in BOOLEAN, Import!Done(all)
  PROVE  /\ read' \in Flows /\ tries' \in {0, 1} /\ ok' \in BOOLEAN /\ at' \in DOMAIN Workflows
         /\ pc' \in {"idle", "read"} /\ said' \in {"nothing", "imported", "failed"}
<1>1. ok' \in BOOLEAN
  BY DEF Import!Done
<1>2. read' \in Flows
  BY CatalogueSteps DEF Import!Done
<1>3. CASE at = Len(Workflows)
  BY <1>1, <1>2, <1>3, CatalogueSteps DEF Import!Done, ImportTyped
<1>4. CASE at # Len(Workflows)
  BY <1>1, <1>2, <1>4, CatalogueSteps DEF Import!Done, ImportTyped
<1> QED
  BY <1>3, <1>4

\* A failed workflow.
LEMMA FailTyped ==
  ASSUME ImportTyped, Import!Fault, Import!Done(FALSE)
  PROVE  /\ read' \in Flows /\ tries' \in {0, 1} /\ ok' \in BOOLEAN /\ at' \in DOMAIN Workflows
         /\ pc' \in {"idle", "read"} /\ said' \in {"nothing", "imported", "failed"} /\ faults' \in Nat
<1>1. /\ read' \in Flows /\ tries' \in {0, 1} /\ ok' \in BOOLEAN /\ at' \in DOMAIN Workflows
      /\ pc' \in {"idle", "read"} /\ said' \in {"nothing", "imported", "failed"}
  BY DoneTyped, FALSE \in BOOLEAN
<1>2. faults' \in Nat
  BY DEF Import!Fault, ImportTyped
<1> QED
  BY <1>1, <1>2

\* Each step of the import, of the cluster and of the people keeps the types.
LEMMA ImportTypeStep == ASSUME ImportTyped, Import!Next PROVE ImportTyped'
<1> USE DEF ImportTyped, Import!command
<1>0. Workflows[at] \in Import!Names
  BY CatalogueSteps
<1>1. CASE Import!Begin
  BY <1>1, CatalogueSteps DEF Import!Begin
<1>2. CASE Import!Read
  <2>1. CASE Import!Fault /\ Import!Done(FALSE)
    BY <1>2, <2>1, FailTyped DEF Import!Read
  <2>2. CASE pc' = "credential" /\ UNCHANGED <<at, tries, ok, said, faults>>
                /\ read' = [flow |-> source.flow[Import!w], secret |-> source.secret, published |-> TRUE]
    <3>1. read' \in Flows
      BY <1>0, <2>2 DEF Flows, Import!w
    <3> QED
      BY <1>2, <2>2, <3>1 DEF Import!Read
  <2> QED
    BY <1>2, <2>1, <2>2 DEF Import!Read
<1>3. CASE Import!Exec
  <2>0. pc \in {"credential", "workflow", "publish"}
    BY <1>3 DEF Import!Exec, Import!Execs
  <2>1. db' \in [Import!Names -> Flows]
    <3>1. [db EXCEPT ![Import!w] = Import!Effect(pc)] \in [Import!Names -> Flows]
      BY <1>0, <2>0, EffectTyped DEF Import!w
    <3> QED
      BY <1>3, <3>1 DEF Import!Exec
  <2>2. CASE Import!Fault /\ Import!Done(FALSE)
    BY <1>3, <2>1, <2>2, FailTyped DEF Import!Exec
  <2>3. CASE Import!Fault /\ tries' = 1 /\ UNCHANGED <<pc, at, read, ok, said>>
    BY <1>3, <2>1, <2>3 DEF Import!Exec, Import!Fault
  <2>4. CASE pc' = Import!After(pc) /\ tries' = 0 /\ UNCHANGED <<at, read, ok, said, faults>>
    BY <1>3, <2>0, <2>1, <2>4 DEF Import!Exec, Import!After
  <2> QED
    BY <1>3, <2>2, <2>3, <2>4 DEF Import!Exec
<1>4. CASE Import!Restart
  <2>1. loaded' \in [Import!Names -> Flows] /\ brought' \in [Import!Names -> Flows]
    BY <1>0, <1>4 DEF Import!Restart, Import!w
  <2>2. CASE Import!Done(ok) /\ UNCHANGED faults
    BY <1>4, <2>1, <2>2, DoneTyped DEF Import!Restart
  <2>3. CASE Import!Fault /\ Import!Done(FALSE)
    BY <1>4, <2>1, <2>3, FailTyped DEF Import!Restart
  <2> QED
    BY <1>4, <2>2, <2>3 DEF Import!Restart
<1>5. CASE Import!Interrupt
  <2>1. ok' \in BOOLEAN
    BY <1>5 DEF Import!Interrupt
  <2> QED
    BY <1>5, <2>1, CatalogueSteps DEF Import!Interrupt, Import!Fault
<1>6. CASE Import!PodRestarts
  BY <1>6 DEF Import!PodRestarts
<1>7. CASE Import!Edit
  <2>1. source' \in [flow : [Import!Names -> Nat], secret : Nat]
    BY <1>7 DEF Import!Edit
  <2>2. db' \in [Import!Names -> Flows] /\ loaded' \in [Import!Names -> Flows]
    BY <1>7, CatalogueSteps DEF Import!Edit
  <2> QED
    BY <1>7, <2>1, <2>2 DEF Import!Edit
<1> QED
  BY <1>1, <1>2, <1>3, <1>4, <1>5, <1>6, <1>7 DEF Import!Next, Import!Goes

\* Each step keeps what is known of the workflow at work.
LEMMA WrittenStep == ASSUME ImportTyped, WrittenHolds, Import!Next PROVE WrittenHolds'
<1> USE DEF WrittenHolds, Import!command
<1>0. Workflows[at] \in Import!Names
  BY CatalogueSteps DEF ImportTyped
<1>1. CASE Import!Begin
  BY <1>1 DEF Import!Begin
<1>2. CASE Import!Read
  <2>1. CASE Import!Done(FALSE)
    BY <1>2, <2>1 DEF Import!Read, Import!Done
  <2>2. CASE /\ pc' = "credential" /\ UNCHANGED <<at, tries, ok, said, faults>>
             /\ read' = [flow |-> source.flow[Import!w], secret |-> source.secret, published |-> TRUE]
    <3>1. read'.published = TRUE
      BY <2>2
    <3>2. pc = "read"
      BY <1>2 DEF Import!Read
    <3> QED
      BY <2>2, <3>1, <3>2
  <2> QED
    BY <1>2, <2>1, <2>2 DEF Import!Read
<1>3. CASE Import!Exec
  <2>0. pc \in {"credential", "workflow", "publish"}
    BY <1>3 DEF Import!Exec, Import!Execs
  <2>1. CASE Import!Fault /\ Import!Done(FALSE)
    BY <1>3, <2>0, <2>1 DEF Import!Done
  <2> DEFINE e == Import!Effect(pc)
  <2>2. /\ e \in Flows
        /\ pc = "credential" => e.secret = read.secret
        /\ pc # "credential" => e.secret = db[Workflows[at]].secret
        /\ pc = "workflow" => e.flow = read.flow
        /\ pc = "publish" => e.flow = db[Workflows[at]].flow
        /\ pc = "publish" => e.published = TRUE
    BY <2>0, EffectTyped
  <2>3. db' \in {db, [db EXCEPT ![Workflows[at]] = e]}
    BY <1>3 DEF Import!Exec, Import!w
  <2> HIDE DEF e
  <2>4. db'[Workflows[at]] \in {db[Workflows[at]], e}
    BY <1>0, <2>3 DEF ImportTyped
  <2>5. CASE tries' = 1 /\ UNCHANGED <<pc, at, read, ok, said>>
    BY <2>0, <2>2, <2>4, <2>5
  <2>6. CASE db' = [db EXCEPT ![Workflows[at]] = e] /\ pc' = Import!After(pc) /\ UNCHANGED <<at, read, ok, said>>
    <3>1. db'[Workflows[at]] = e
      BY <1>0, <2>6 DEF ImportTyped
    <3>2. pc = "publish" => e = read
      BY <2>2 DEF ImportTyped, Flows
    <3>3. CASE pc = "credential"
      BY <2>2, <2>6, <3>1, <3>3 DEF Import!After
    <3>4. CASE pc = "workflow"
      BY <2>2, <2>6, <3>1, <3>4 DEF Import!After
    <3>5. CASE pc = "publish"
      <4>1. pc' = "restart" /\ said' = "nothing" /\ read' = read /\ at' = at
        BY <2>6, <3>5 DEF Import!After
      <4> QED
        BY <3>1, <3>2, <3>5, <4>1
    <3> QED
      BY <2>0, <3>3, <3>4, <3>5
  <2> QED
    BY <1>3, <2>1, <2>5, <2>6 DEF Import!Exec, Import!w, e
<1>4. CASE Import!Restart
  BY <1>4 DEF Import!Restart, Import!Done
<1>5. CASE Import!Interrupt
  BY <1>5 DEF Import!Interrupt
<1>6. CASE Import!PodRestarts
  BY <1>6 DEF Import!PodRestarts
<1>7. CASE Import!Edit
  BY <1>7 DEF Import!Edit
<1> QED
  BY <1>1, <1>2, <1>3, <1>4, <1>5, <1>6, <1>7 DEF Import!Next, Import!Goes

\* Each step keeps what is known of the workflows before it.
LEMMA BroughtStep == ASSUME ImportInv, Import!Next PROVE BroughtHolds'
<1> USE DEF BroughtHolds, Brought, Import!command
<1>a. at \in DOMAIN Workflows
  BY DEF ImportInv, ImportTyped
<1>c. /\ Workflows[at] \in Import!Names /\ at \in Nat /\ at >= 1 /\ Len(Workflows) \in Nat /\ at <= Len(Workflows)
      /\ \A k \in 1..(at - 1) : k \in DOMAIN Workflows /\ k # at
  BY <1>a, CatalogueSteps
<1>0. /\ Workflows[at] \in Import!Names /\ at \in Nat /\ at >= 1 /\ Len(Workflows) \in Nat /\ at <= Len(Workflows)
      /\ \A k \in 1..(at - 1) : Workflows[k] # Workflows[at] /\ Workflows[k] \in Import!Names
  BY <1>a, <1>c, CatalogueSteps, ImportAssumption
<1>b. BroughtHolds /\ WrittenHolds /\ ImportTyped
  BY DEF ImportInv
<1>1. CASE Import!Begin
  BY <1>1, <1>b DEF Import!Begin, WrittenHolds
<1>2. CASE Import!Read
  BY <1>2, <1>b DEF Import!Read, Import!Done, WrittenHolds
<1>3. CASE Import!Exec
  <2>1. /\ pc # "idle" /\ said = "nothing" /\ UNCHANGED <<loaded, brought>>
        /\ ok' = TRUE => ok = TRUE \/ pc' = "idle"
        /\ said' # "imported"
        /\ pc' # "idle" /\ ok' = TRUE => at' = at
    BY <1>3, <1>b DEF Import!Exec, Import!Execs, Import!Done, WrittenHolds
  <2>2. \A k \in 1..(at - 1) : db'[Workflows[k]] = db[Workflows[k]]
    BY <1>0, <1>3, <1>b DEF Import!Exec, Import!w, ImportTyped
  <2> QED
    BY <1>b, <2>1, <2>2
<1>4. CASE Import!Restart
  <2>1. pc = "restart" /\ said = "nothing" /\ db[Workflows[at]] = read /\ UNCHANGED db
    BY <1>4, <1>b DEF Import!Restart, WrittenHolds
  <2>2. CASE Import!Done(FALSE)
    BY <2>1, <2>2 DEF Import!Done
  <2>3. CASE loaded' = db /\ brought' = [brought EXCEPT ![Workflows[at]] = read] /\ Import!Done(ok)
    <3>1. brought'[Workflows[at]] = read /\ \A k \in 1..(at - 1) : brought'[Workflows[k]] = brought[Workflows[k]]
      BY <1>0, <1>b, <2>3 DEF ImportTyped
    <3>2. ok = TRUE => \A k \in 1..at : Brought(Workflows[k])'
      BY <1>0, <1>b, <2>1, <2>3, <3>1
    <3>3. CASE at = Len(Workflows)
      <4>1. ok = TRUE => \A n \in Import!Names : db'[n] = brought'[n] /\ loaded'[n] = brought'[n]
        BY <3>2, <3>3, CatalogueSteps
      <4>2. pc' = "idle" /\ (said' = "imported" => ok)
        BY <2>3, <3>3 DEF Import!Done
      <4>3. ok => ok = TRUE
        BY <1>b DEF ImportTyped
      <4> QED
        BY <4>1, <4>2, <4>3
    <3>4. CASE at # Len(Workflows)
      <4>1. at' = at + 1 /\ said' = "nothing" /\ ok' = ok
        BY <2>1, <2>3, <3>4 DEF Import!Done
      <4> QED
        BY <1>0, <3>2, <4>1
    <3> QED
      BY <3>3, <3>4
  <2> QED
    BY <1>4, <2>2, <2>3 DEF Import!Restart, Import!w
<1>5. CASE Import!Interrupt
  BY <1>5, <1>b DEF Import!Interrupt, WrittenHolds
<1>6. CASE Import!PodRestarts
  BY <1>6, <1>b DEF Import!PodRestarts
<1>7. CASE Import!Edit
  <2>1. UNCHANGED <<pc, at, ok, brought, said>>
    BY <1>7 DEF Import!Edit
  <2>2. CASE UNCHANGED <<db, loaded>>
    BY <1>b, <2>1, <2>2
  <2>3. CASE pc = "idle" /\ db' = [n \in Import!Names |-> Import!Absent] /\ loaded' = db'
    BY <2>1, <2>3
  <2> QED
    BY <1>7, <2>2, <2>3 DEF Import!Edit
<1> QED
  BY <1>1, <1>2, <1>3, <1>4, <1>5, <1>6, <1>7 DEF Import!Next, Import!Goes

\* At first nothing was imported.
LEMMA ImportInit == Init => ImportInv
<1>1. Init => Import!Init
  BY DEF Init
<1>2. ASSUME Import!Init PROVE ImportInv
  <2>1. ok \in BOOLEAN /\ 1 \in DOMAIN Workflows /\ read \in Flows
    BY <1>2, CatalogueSteps DEF Import!Init
  <2>2. [flow |-> 1, secret |-> 1, published |-> TRUE] \in Flows
    BY DEF Flows
  <2>3. PICK had \in {Import!Absent, [flow |-> 1, secret |-> 1, published |-> TRUE]} : db = [n \in Import!Names |-> had]
    BY <1>2 DEF Import!Init
  <2>4. had \in Flows
    BY <2>2, <2>3, CatalogueSteps
  <2>5. db \in [Import!Names -> Flows]
    BY <2>3, <2>4
  <2> QED
    BY <1>2, <2>1, <2>5, CatalogueSteps DEF Import!Init, ImportInv, ImportTyped, WrittenHolds, BroughtHolds
<1> QED
  BY <1>1, <1>2

\* What is checked follows.
LEMMA ImportIsTyped == ASSUME ImportInv PROVE Import!TypeOK /\ Import!ImportedIsLive
<1>1. Import!TypeOK
  <2>1. \A f \in {db, loaded, brought} : \A n \in Import!Names :
           f[n].flow \in Nat /\ f[n].secret \in Nat /\ f[n].published \in BOOLEAN
    BY DEF ImportInv, ImportTyped, Flows
  <2> QED
    BY <2>1 DEF ImportInv, ImportTyped, Import!TypeOK, Import!Execs
<1>2. Import!ImportedIsLive
  BY DEF ImportInv, BroughtHolds, Import!ImportedIsLive
<1> QED
  BY <1>1, <1>2

-----------------------------------------------------------------------------
\* Vikunja

\* Of each item there is one, and one more for each answer that had left it out; and what
\* was listed of the namespaces and the labels has its creation to come.
VikunjaInv ==
    /\ copies \in [Vikunja!Items -> Nat] /\ projects \subseteq Lists
    /\ pc \in {"idle", "namespaces", "labels", "webhooks"}
    /\ listed \in BOOLEAN /\ todo \subseteq Vikunja!Items
    /\ missed \in [Vikunja!Items -> Nat]
    /\ edits \in Nat /\ faults \in Nat
    /\ Vikunja!OneOfEach
    /\ pc = "idle" => listed = FALSE
    /\ pc \in {"namespaces", "labels"} => \A i \in todo : copies[i] <= missed[i]

\* A listing makes a creation due of what it did not get only.
LEMMA VikunjaListStep == ASSUME VikunjaInv, Vikunja!List PROVE VikunjaInv'
<1>1. PICK got \in SUBSET Vikunja!There :
         /\ IF got = Vikunja!There THEN UNCHANGED faults ELSE Vikunja!Fault
         /\ IF pc = "webhooks"
            THEN todo' = got /\ UNCHANGED missed
            ELSE /\ todo' = Vikunja!Wanted \ got
                 /\ missed' = [i \in Vikunja!Items |-> IF i \in Vikunja!There \ got THEN missed[i] + 1 ELSE missed[i]]
  BY DEF Vikunja!List
<1>2. pc \in {"namespaces", "labels", "webhooks"} /\ listed' = TRUE /\ UNCHANGED <<pc, copies, projects, edits>>
  BY DEF VikunjaInv, Vikunja!List
<1>3. faults' \in Nat
  BY <1>1 DEF VikunjaInv, Vikunja!Fault
<1>4. CASE pc = "webhooks"
  <2>1. Vikunja!There = projects
    BY <1>4 DEF Vikunja!There
  <2>2. todo' \subseteq Vikunja!Items /\ missed' = missed
    BY <1>1, <1>4, <2>1 DEF VikunjaInv, Vikunja!Items
  <2> QED
    BY <1>2, <1>3, <1>4, <2>2 DEF VikunjaInv, Vikunja!OneOfEach
<1>5. CASE pc # "webhooks"
  <2>1. Vikunja!Wanted \subseteq Vikunja!Items
    <3>1. CASE pc = "namespaces"
      BY <3>1 DEF Vikunja!Wanted, Vikunja!Items
    <3>2. CASE pc = "labels"
      BY <3>2 DEF Vikunja!Wanted, Vikunja!Items
    <3> QED
      BY <1>2, <1>5, <3>1, <3>2
  <2>2. Vikunja!There = {i \in Vikunja!Wanted : copies[i] > 0}
    BY <1>5 DEF Vikunja!There
  <2>3. /\ todo' = Vikunja!Wanted \ got
        /\ missed' = [i \in Vikunja!Items |-> IF i \in Vikunja!There \ got THEN missed[i] + 1 ELSE missed[i]]
    BY <1>1, <1>5
  <2>4. missed' \in [Vikunja!Items -> Nat] /\ \A i \in Vikunja!Items : missed'[i] >= missed[i]
    BY <2>3 DEF VikunjaInv
  <2>5. ASSUME NEW i \in todo' PROVE copies[i] <= missed'[i]
    <3>1. i \in Vikunja!Items /\ i \in Vikunja!Wanted /\ i \notin got /\ copies[i] \in Nat /\ missed[i] \in Nat
      BY <2>1, <2>3, <2>5 DEF VikunjaInv
    <3>2. CASE copies[i] = 0
      BY <2>4, <3>1, <3>2
    <3>3. CASE copies[i] > 0
      <4>1. missed'[i] = missed[i] + 1
        BY <2>2, <2>3, <3>1, <3>3
      <4> QED
        BY <3>1, <4>1 DEF VikunjaInv, Vikunja!OneOfEach
    <3> QED
      BY <3>1, <3>2, <3>3
  <2>6. Vikunja!OneOfEach'
    BY <1>2, <2>4 DEF VikunjaInv, Vikunja!OneOfEach
  <2> QED
    BY <1>2, <1>3, <2>1, <2>3, <2>4, <2>5, <2>6 DEF VikunjaInv
<1> QED
  BY <1>4, <1>5

\* A creation makes one more of what was not there or had been left out.
LEMMA VikunjaCreateStep == ASSUME VikunjaInv, NEW i \in todo, Vikunja!Create(i) PROVE VikunjaInv'
<1>1. /\ i \in Vikunja!Items /\ copies[i] \in Nat /\ missed[i] \in Nat
      /\ todo' = todo \ {i} /\ listed /\ UNCHANGED <<pc, listed, projects, edits>>
  BY DEF VikunjaInv, Vikunja!Create
<1>2. CASE UNCHANGED <<copies, missed, faults>>
  BY <1>1, <1>2 DEF VikunjaInv, Vikunja!OneOfEach
<1>3. CASE Vikunja!Fault /\ copies' = [copies EXCEPT ![i] = @ + 1] /\ missed' = [missed EXCEPT ![i] = @ + 1]
  <2>1. \A j \in Vikunja!Items : j # i => copies'[j] = copies[j] /\ missed'[j] = missed[j]
    BY <1>3 DEF VikunjaInv
  <2>2. copies'[i] = copies[i] + 1 /\ missed'[i] = missed[i] + 1
    BY <1>1, <1>3 DEF VikunjaInv
  <2>3. copies' \in [Vikunja!Items -> Nat] /\ missed' \in [Vikunja!Items -> Nat] /\ faults' \in Nat
    BY <1>1, <1>3 DEF VikunjaInv, Vikunja!Fault
  <2>4. ASSUME NEW j \in Vikunja!Items PROVE copies'[j] <= 1 + missed'[j]
    BY <1>1, <2>1, <2>2 DEF VikunjaInv, Vikunja!OneOfEach
  <2>5. \A j \in todo' : j \in todo /\ j \in Vikunja!Items /\ j # i
    BY <1>1 DEF VikunjaInv
  <2> QED
    BY <1>1, <2>1, <2>3, <2>4, <2>5 DEF VikunjaInv, Vikunja!OneOfEach
<1>4. CASE ~(pc = "webhooks" /\ copies[i] > 0) /\ copies' = [copies EXCEPT ![i] = @ + 1] /\ UNCHANGED <<missed, faults>>
  <2>1. copies[i] <= missed[i]
    BY <1>1, <1>4 DEF VikunjaInv
  <2>2. copies' \in [Vikunja!Items -> Nat] /\ \A j \in Vikunja!Items : copies'[j] = IF j = i THEN copies[i] + 1 ELSE copies[j]
    BY <1>1, <1>4 DEF VikunjaInv
  <2>3. Vikunja!OneOfEach'
    BY <1>1, <1>4, <2>1, <2>2 DEF VikunjaInv, Vikunja!OneOfEach
  <2>4. \A j \in todo' : j \in todo /\ copies'[j] = copies[j]
    BY <1>1, <2>2 DEF VikunjaInv
  <2> QED
    BY <1>1, <1>4, <2>2, <2>3, <2>4 DEF VikunjaInv
<1> QED
  BY <1>2, <1>3, <1>4 DEF Vikunja!Create

\* Each step of the reconciler and of people keeps it.
LEMMA VikunjaStep == ASSUME VikunjaInv, Vikunja!Next PROVE VikunjaInv'
<1>1. CASE Vikunja!Begin
  BY <1>1 DEF Vikunja!Begin, Vikunja!GoTo, VikunjaInv, Vikunja!OneOfEach
<1>2. CASE Vikunja!NextPhase
  <2>1. pc \in {"namespaces", "labels", "webhooks"}
    BY <1>2 DEF Vikunja!NextPhase, VikunjaInv
  <2>2. pc' \in {"labels", "webhooks", "idle"}
    BY <1>2, <2>1 DEF Vikunja!NextPhase, Vikunja!GoTo
  <2> QED
    BY <1>2, <2>2 DEF Vikunja!NextPhase, Vikunja!GoTo, VikunjaInv, Vikunja!OneOfEach
<1>3. CASE Vikunja!Fails
  <2>1. /\ pc # "idle" /\ pc' = "idle" /\ listed' = FALSE /\ todo' = {} /\ faults' = faults + 1
        /\ UNCHANGED <<projects, missed, edits>>
    BY <1>3 DEF Vikunja!Fails, Vikunja!Fault, Vikunja!GoTo
  <2>4. /\ pc' \in {"idle", "namespaces", "labels", "webhooks"} /\ pc' \notin {"namespaces", "labels"}
        /\ listed' \in BOOLEAN /\ todo' \subseteq Vikunja!Items /\ missed' = missed
        /\ faults' \in Nat /\ edits' \in Nat /\ projects' = projects /\ (pc' = "idle" => listed' = FALSE)
    <3>1. faults' \in Nat /\ edits' \in Nat
      BY <2>1 DEF VikunjaInv
    <3>2. listed' \in BOOLEAN
      BY <2>1
    <3> QED
      BY <2>1, <3>1, <3>2
  <2>2. CASE copies' = copies
    BY <2>2, <2>4 DEF VikunjaInv, Vikunja!OneOfEach
  <2>3. ASSUME NEW i \in todo, pc = "webhooks" => copies[i] = 0, copies' = [copies EXCEPT ![i] = @ + 1] PROVE VikunjaInv'
    <3>1. i \in Vikunja!Items /\ copies[i] \in Nat /\ missed[i] \in Nat /\ copies[i] <= missed[i]
      BY <2>1, <2>3 DEF VikunjaInv
    <3>2. copies' \in [Vikunja!Items -> Nat] /\ \A j \in Vikunja!Items : copies'[j] = IF j = i THEN copies[i] + 1 ELSE copies[j]
      BY <2>3, <3>1 DEF VikunjaInv
    <3>3. Vikunja!OneOfEach'
      BY <2>1, <3>1, <3>2 DEF VikunjaInv, Vikunja!OneOfEach
    <3> QED
      BY <2>4, <3>2, <3>3 DEF VikunjaInv
  <2> QED
    BY <1>3, <2>2, <2>3 DEF Vikunja!Fails
<1>4. CASE Vikunja!Edit
  <2>1. edits' \in Nat /\ UNCHANGED <<pc, listed, todo, missed, faults>>
    BY <1>4 DEF Vikunja!Edit, Vikunja!command, VikunjaInv
  <2>2. CASE (\E p \in Lists \ projects : projects' = projects \cup {p}) /\ UNCHANGED copies
    BY <2>1, <2>2 DEF VikunjaInv, Vikunja!OneOfEach
  <2>3. ASSUME NEW i \in Vikunja!Items, copies[i] > 0, copies' = [copies EXCEPT ![i] = @ - 1], UNCHANGED projects
        PROVE  VikunjaInv'
    <3>1. copies' \in [Vikunja!Items -> Nat] /\ \A j \in Vikunja!Items : copies'[j] <= copies[j]
      BY <2>3 DEF VikunjaInv
    <3>2. Vikunja!OneOfEach' /\ (pc \in {"namespaces", "labels"} => \A j \in todo : copies'[j] <= missed[j])
      BY <2>1, <3>1 DEF VikunjaInv, Vikunja!OneOfEach
    <3> QED
      BY <2>1, <2>3, <3>1, <3>2 DEF VikunjaInv
  <2> QED
    BY <1>4, <2>2, <2>3 DEF Vikunja!Edit
<1> QED
  BY <1>1, <1>2, <1>3, <1>4, VikunjaListStep, VikunjaCreateStep DEF Vikunja!Next, Vikunja!Goes

\* At first each item is there once or not at all.
LEMMA VikunjaInit == Init => VikunjaInv
<1>1. Init => Vikunja!Init
  BY DEF Init
<1>2. Vikunja!Init => VikunjaInv
  <2> SUFFICES ASSUME Vikunja!Init PROVE VikunjaInv
    OBVIOUS
  <2>1. copies \in [Vikunja!Items -> {0, 1}] /\ projects \subseteq Lists
    BY DEF Vikunja!Init
  <2>2. listed \in BOOLEAN /\ (pc = "idle" => listed = FALSE)
    BY DEF Vikunja!Init
  <2> QED
    BY <2>1, <2>2 DEF Vikunja!Init, VikunjaInv, Vikunja!OneOfEach
<1> QED
  BY <1>1, <1>2

-----------------------------------------------------------------------------
\* The board

Priorities == {"none", "P1", "P2"}
StreamNames == {"none", "a", "b"}
Fields == {"status", "priority", "stream", "parent"}
FieldsOfItem == {"open", "listed", "status", "priority", "stream", "parent"}

\* The values a field takes, and what may be written.
ValuesOf(field) ==
    IF field = "status" THEN Governed!Statuses
    ELSE IF field = "priority" THEN Priorities
    ELSE IF field = "stream" THEN StreamNames
    ELSE Issues \cup {"none"}

Writes ==
    {w \in [issue : Issues, field : Fields,
            value : Governed!Statuses \cup Priorities \cup StreamNames \cup Issues \cup {"none"}] :
        w.value \in ValuesOf(w.field)}

BoardJobs ==
    [command : Governed!Commands \cup {"none"}, pc : {"idle", "read", "write"}, issue : Issues \cup {"none"},
     open : BOOLEAN, read : [Issues -> Governed!Item] \cup {<<>>}, plan : SUBSET Writes,
     said : {"nothing", "nothing-to-do", "written", "left", "refused", "failed"}]

BoardTyped ==
    /\ board \in [Issues -> Governed!Item]
    /\ command \in BoardJobs
    /\ command.pc # "idle" /\ command.command = "set" => command.issue \in Issues
    /\ command.pc = "write" => command.read \in [Issues -> Governed!Item]
    /\ edits \in Nat /\ faults \in Nat

\* A set that writes found its issue open, and so did one that reports success; a run
\* that gives priorities plans one only where it read none.
PlansHold ==
    /\ command.pc = "write" /\ command.command = "set" => command.open = TRUE
    /\ command.command = "set" /\ command.said \in {"nothing-to-do", "written"} => command.open = TRUE
    /\ command.pc = "write" /\ command.command \in {"priority", "sweep"} =>
          \A w \in command.plan : w.field = "priority" => command.read[w.issue].priority = "none"

BoardInv == BoardTyped /\ PlansHold

\* A record with a value of its type for each field of an issue is one.
LEMMA FieldsMakeItem ==
  ASSUME NEW g, DOMAIN g = FieldsOfItem, g = [f \in FieldsOfItem |-> g[f]],
         g["open"] \in BOOLEAN, g["listed"] \in BOOLEAN, g["status"] \in Governed!Statuses, g["priority"] \in Priorities,
         g["stream"] \in StreamNames, g["parent"] \in Issues \cup {"none"}
  PROVE  g \in Governed!Item
BY DEF Governed!Item, Priorities, StreamNames, FieldsOfItem

\* What a board says after some writes: each field has what it had or what one of
\* them gives it.
LEMMA AfterHolds ==
  ASSUME NEW b \in [Issues -> Governed!Item], NEW writes \in SUBSET Writes
  PROVE  /\ Governed!After(b, writes) \in [Issues -> Governed!Item]
         /\ \A i \in Issues, f \in Fields :
              \/ Governed!After(b, writes)[i][f] = b[i][f]
              \/ \E w \in writes : w.issue = i /\ w.field = f
<1> DEFINE g(i) == [f \in DOMAIN b[i] |->
                      IF \E w \in writes : w.issue = i /\ w.field = f
                      THEN (CHOOSE w \in writes : w.issue = i /\ w.field = f).value ELSE b[i][f]]
<1>1. Governed!After(b, writes) = [i \in Issues |-> g(i)]
  BY DEF Governed!After
<1>2. ASSUME NEW i \in Issues
      PROVE  /\ g(i) \in Governed!Item
             /\ \A f \in Fields : g(i)[f] = b[i][f] \/ \E w \in writes : w.issue = i /\ w.field = f
  <2>1. b[i] \in Governed!Item /\ DOMAIN b[i] = FieldsOfItem
    BY DEF Governed!Item, FieldsOfItem
  <2>2. ASSUME NEW f \in FieldsOfItem
        PROVE  \/ g(i)[f] = b[i][f] /\ ~(\E w \in writes : w.issue = i /\ w.field = f)
               \/ \E w \in writes : w.issue = i /\ w.field = f /\ g(i)[f] = w.value
    <3>1. CASE \E w \in writes : w.issue = i /\ w.field = f
      <4> DEFINE v == CHOOSE w \in writes : w.issue = i /\ w.field = f
      <4>1. v \in writes /\ v.issue = i /\ v.field = f
        BY <3>1
      <4>2. g(i)[f] = v.value
        BY <2>1, <3>1
      <4> QED
        BY <4>1, <4>2
    <3>2. CASE ~(\E w \in writes : w.issue = i /\ w.field = f)
      BY <2>1, <3>2
    <3> QED
      BY <3>1, <3>2
  <2>3. DOMAIN g(i) = FieldsOfItem /\ g(i) = [f \in FieldsOfItem |-> g(i)[f]]
    BY <2>1
  <2> HIDE DEF g
  <2>4. \A w \in writes : w.field \in Fields /\ w.value \in ValuesOf(w.field)
    BY DEF Writes
  <2>5. g(i)["open"] = b[i]["open"] /\ g(i)["listed"] = b[i]["listed"]
    BY <2>2, <2>4 DEF Fields, FieldsOfItem
  <2>6. /\ b[i]["open"] \in BOOLEAN /\ b[i]["listed"] \in BOOLEAN /\ b[i]["status"] \in Governed!Statuses
        /\ b[i]["priority"] \in Priorities /\ b[i]["stream"] \in StreamNames /\ b[i]["parent"] \in Issues \cup {"none"}
    BY <2>1 DEF Governed!Item, Priorities, StreamNames
  <2>7. g(i)["open"] \in BOOLEAN /\ g(i)["listed"] \in BOOLEAN
    BY <2>5, <2>6
  <2>8. g(i)["status"] \in Governed!Statuses
    BY <2>2, <2>4, <2>6 DEF ValuesOf, FieldsOfItem
  <2>9. g(i)["priority"] \in Priorities
    BY <2>2, <2>4, <2>6 DEF ValuesOf, FieldsOfItem
  <2>10. g(i)["stream"] \in StreamNames
    BY <2>2, <2>4, <2>6 DEF ValuesOf, FieldsOfItem
  <2>11. g(i)["parent"] \in Issues \cup {"none"}
    BY <2>2, <2>4, <2>6 DEF ValuesOf, FieldsOfItem
  <2>12. g(i) \in Governed!Item
    BY <2>3, <2>7, <2>8, <2>9, <2>10, <2>11, FieldsMakeItem
  <2>13. \A f \in Fields : f \in FieldsOfItem
    BY DEF Fields, FieldsOfItem
  <2> QED
    BY <2>2, <2>12, <2>13
<1> HIDE DEF g
<1> QED
  BY <1>1, <1>2

\* What the commands plan to write may be written.
LEMMA PlansAreWrites ==
  ASSUME NEW b \in [Issues -> Governed!Item]
  PROVE  /\ \A i \in Issues : Governed!PlanSet(b, i) \subseteq Writes
         /\ Governed!PlanStreams(b) \subseteq Writes
         /\ Governed!PlanPriority(b) \subseteq Writes
         /\ Governed!PlanSweep(b) \subseteq Writes
         /\ Governed!PlanParts(b) \subseteq Writes
         /\ \A w \in Governed!PlanPriority(b) \cup Governed!PlanSweep(b) :
               w.field = "priority" => b[w.issue].priority = "none"
<1> USE BoardAssumption DEF Governed!Write, Fields, ValuesOf, Priorities, StreamNames, Governed!Statuses
<1>1. \A i \in Issues : Governed!PlanSet(b, i) \subseteq Writes
  BY DEF Governed!PlanSet, Governed!Desired, Writes
<1>2. Governed!PlanStreams(b) \subseteq Writes
  BY DEF Governed!PlanStreams, Governed!OpenItems, Writes
<1>3. Governed!PlanPriority(b) \subseteq Writes
  BY DEF Governed!PlanPriority, Governed!OpenItems, Writes
<1>4. Governed!PlanSweep(b) \subseteq Writes
  BY DEF Governed!PlanSweep, Writes
<1>5. Governed!PlanParts(b) \subseteq Writes
  BY DEF Governed!PlanParts, Writes
<1>6. \A w \in Governed!PlanPriority(b) \cup Governed!PlanSweep(b) : w.field = "priority" => b[w.issue].priority = "none"
  BY DEF Governed!PlanPriority, Governed!PlanSweep, Governed!OpenItems
<1> QED
  BY <1>1, <1>2, <1>3, <1>4, <1>5, <1>6

\* The end of a command that failed, was refused, or wrote.
LEMMA CommandEnds ==
  ASSUME BoardInv, NEW r \in {"written", "left", "refused", "failed"}, Governed!End(r),
         board' \in [Issues -> Governed!Item], edits' \in Nat, faults' \in Nat,
         r = "written" => command.pc = "write"
  PROVE  BoardInv'
<1>1. command \in BoardJobs
  BY DEF BoardInv, BoardTyped
<1>2. /\ command' \in BoardJobs /\ command'.pc = "idle" /\ command'.said = r /\ command'.command = command.command
      /\ command'.open = command.open
  BY <1>1 DEF Governed!End, BoardJobs
<1>3. BoardTyped'
  BY <1>2 DEF BoardTyped
<1>4. r = "written" /\ command.command = "set" => command.open = TRUE
  BY DEF BoardInv, PlansHold
<1> QED
  BY <1>2, <1>3, <1>4 DEF BoardInv, PlansHold

\* What follows the reading of the board.
LEMMA PlannedStep ==
  ASSUME BoardInv, NEW plan \in SUBSET Writes, Governed!Planned(plan), command.pc = "read",
         UNCHANGED <<board, edits, faults>>,
         command.command = "set" => board[command.issue].open,
         command.command \in {"priority", "sweep"} =>
            \A w \in plan : w.field = "priority" => board[w.issue].priority = "none"
  PROVE  BoardInv'
<1> DEFINE open == command.command = "set" /\ board[command.issue].open
<1>1. command \in BoardJobs /\ board \in [Issues -> Governed!Item]
  BY DEF BoardInv, BoardTyped
<1>2. open \in BOOLEAN /\ (command.command = "set" => open = TRUE)
  <2>1. command.command = "set" => board[command.issue].open \in BOOLEAN
    BY <1>1 DEF BoardInv, BoardTyped, Governed!Item
  <2> QED
    BY <2>1
<1>3. command' = IF plan = {} THEN [command EXCEPT !.pc = "idle", !.said = "nothing-to-do", !.open = open]
                 ELSE [command EXCEPT !.pc = "write", !.plan = plan, !.read = board, !.open = open]
  BY DEF Governed!Planned
<1> HIDE DEF open
<1>4. CASE plan = {}
  <2>1. /\ command' \in BoardJobs /\ command'.pc = "idle" /\ command'.said = "nothing-to-do"
        /\ command'.command = command.command /\ command'.open = open
    BY <1>1, <1>2, <1>3, <1>4 DEF BoardJobs
  <2>2. BoardTyped'
    BY <2>1 DEF BoardInv, BoardTyped
  <2> QED
    BY <1>2, <2>1, <2>2 DEF BoardInv, PlansHold
<1>5. CASE plan # {}
  <2>1. /\ command' \in BoardJobs /\ command'.pc = "write" /\ command'.said = command.said /\ command'.plan = plan
        /\ command'.command = command.command /\ command'.open = open /\ command'.read = board
        /\ command'.issue = command.issue
    BY <1>1, <1>2, <1>3, <1>5 DEF BoardJobs
  <2>2. BoardTyped'
    BY <1>1, <2>1 DEF BoardInv, BoardTyped
  <2> QED
    BY <1>2, <2>1, <2>2 DEF BoardInv, PlansHold
<1> QED
  BY <1>4, <1>5

\* The commands begin and read.
LEMMA ReadingStep ==
  ASSUME BoardInv, Governed!Reading \/ Governed!ReadFails \/ \E c \in Governed!Commands : Governed!Start(c)
  PROVE  BoardInv'
<1>t. /\ command \in BoardJobs /\ board \in [Issues -> Governed!Item] /\ edits \in Nat /\ faults \in Nat
      /\ command.pc # "idle" /\ command.command = "set" => command.issue \in Issues
  BY DEF BoardInv, BoardTyped
<1>1. ASSUME NEW c \in Governed!Commands, Governed!Start(c) PROVE BoardInv'
  <2>1. PICK i \in IF c = "set" THEN Issues ELSE {"none"} :
          command' = [Governed!NoJob EXCEPT !.command = c, !.pc = "read", !.issue = i]
    BY <1>1 DEF Governed!Start
  <2>2. i \in Issues \cup {"none"} /\ (c = "set" => i \in Issues)
    OBVIOUS
  <2>3. /\ command' \in BoardJobs /\ command'.pc = "read" /\ command'.said = "nothing" /\ command'.command = c
        /\ command'.issue = i
    BY <2>1, <2>2 DEF Governed!NoJob, BoardJobs
  <2>4. BoardTyped'
    BY <1>1, <1>t, <2>2, <2>3 DEF BoardTyped, Governed!Start
  <2> QED
    BY <2>3, <2>4 DEF BoardInv, PlansHold
<1>2. CASE Governed!ReadFails
  <2>1. faults' \in Nat /\ edits' \in Nat /\ board' = board
    BY <1>2, <1>t DEF Governed!ReadFails, Governed!Fault
  <2> QED
    BY <1>2, <1>t, <2>1, CommandEnds DEF Governed!ReadFails
<1>3. CASE Governed!Read("streams", Governed!PlanStreams(board))
  BY <1>3, <1>t, PlansAreWrites, PlannedStep DEF Governed!Read
<1>4. CASE Governed!Read("priority", Governed!PlanPriority(board))
  BY <1>4, <1>t, PlansAreWrites, PlannedStep DEF Governed!Read
<1>5. CASE Governed!Read("parts", Governed!PlanParts(board))
  BY <1>5, <1>t, PlansAreWrites, PlannedStep DEF Governed!Read
<1>6. CASE Governed!ReadSweep
  BY <1>6, <1>t, PlansAreWrites, PlannedStep DEF Governed!Read, Governed!ReadSweep
<1>7. CASE Governed!ReadSet
  <2>0. command.pc = "read" /\ command.command = "set" /\ command.issue \in Issues /\ UNCHANGED <<board, edits, faults>>
    BY <1>7, <1>t DEF Governed!ReadSet
  <2>1. CASE ~board[command.issue].open
    BY <1>7, <1>t, <2>0, <2>1, CommandEnds DEF Governed!ReadSet
  <2>2. CASE board[command.issue].open
    <3>1. Governed!Planned(Governed!PlanSet(board, command.issue))
      BY <1>7, <2>2 DEF Governed!ReadSet
    <3>2. Governed!PlanSet(board, command.issue) \in SUBSET Writes
      BY <1>t, <2>0, PlansAreWrites
    <3> QED
      BY <2>0, <2>2, <3>1, <3>2, PlannedStep
  <2> QED
    BY <2>1, <2>2
<1>8. CASE Governed!ReadUnlisted
  BY <1>8, <1>t, CommandEnds DEF Governed!ReadUnlisted
<1> QED
  BY <1>1, <1>2, <1>3, <1>4, <1>5, <1>6, <1>7, <1>8 DEF Governed!Reading

\* A batch is written, the whole or a part.
LEMMA WritingStep == ASSUME BoardInv, Governed!Writing PROVE BoardInv'
<1>t. /\ command \in BoardJobs /\ board \in [Issues -> Governed!Item] /\ edits \in Nat /\ faults \in Nat
  BY DEF BoardInv, BoardTyped
<1>1. PICK batch \in SUBSET command.plan : command.pc = "write" /\ Governed!ApplyBatch(batch)
  BY DEF Governed!Writing, Governed!Batches
<1>2. command.plan \in SUBSET Writes
  BY <1>t DEF BoardJobs
<1>3. edits' \in Nat /\ faults' \in Nat
  <2>1. edits' = edits /\ faults' \in {faults, faults + 1}
    BY <1>1 DEF Governed!ApplyBatch, Governed!Fault
  <2> QED
    BY <1>t, <2>1
<1>4. board' \in [Issues -> Governed!Item]
  <2>1. \E done \in SUBSET batch : board' = Governed!After(board, done)
    BY <1>1 DEF Governed!ApplyBatch
  <2> QED
    BY <1>t, <1>2, <2>1, AfterHolds
<1>5. CASE \E r \in {"written", "left", "failed"} : Governed!End(r)
  BY <1>1, <1>3, <1>4, <1>5, CommandEnds
<1>6. CASE command' = [command EXCEPT !.plan = @ \ batch]
  <2>1. command' = [command EXCEPT !.plan = command.plan \ batch]
    BY <1>6, <1>t DEF BoardJobs
  <2>2. /\ command' \in BoardJobs /\ command'.pc = command.pc /\ command'.said = command.said
        /\ command'.plan \subseteq command.plan /\ command'.command = command.command /\ command'.open = command.open
        /\ command'.read = command.read /\ command'.issue = command.issue
    BY <1>t, <1>2, <2>1 DEF BoardJobs
  <2>3. BoardTyped'
    BY <1>3, <1>4, <2>2 DEF BoardInv, BoardTyped
  <2> QED
    BY <2>2, <2>3 DEF BoardInv, PlansHold
<1> QED
  BY <1>1, <1>5, <1>6 DEF Governed!ApplyBatch

\* What people do to an issue.
LEMMA PeopleStep ==
  ASSUME BoardInv, NEW i \in Issues,
         Governed!List(i) \/ Governed!Close(i) \/ Governed!Reopen(i) \/ Governed!ByHand(i)
  PROVE  BoardInv' /\ command' = command
<1>t. board \in [Issues -> Governed!Item] /\ edits \in Nat /\ faults \in Nat
  BY DEF BoardInv, BoardTyped
<1>0. command' = command /\ faults' = faults
  BY DEF Governed!List, Governed!Close, Governed!Reopen, Governed!ByHand
<1>1. edits' \in Nat
  <2>1. edits' \in {edits, edits + 1}
    BY DEF Governed!List, Governed!Close, Governed!Reopen, Governed!ByHand, Governed!Edits
  <2> QED
    BY <1>t, <2>1
<1>2. board' \in [Issues -> Governed!Item]
  <2>1. CASE Governed!List(i)
    BY <1>t, <2>1 DEF Governed!List, Governed!Item
  <2>2. CASE Governed!Close(i)
    <3>1. PICK s \in {board[i].status, "Done"} : board' = [board EXCEPT ![i].open = FALSE, ![i].status = s]
      BY <2>2 DEF Governed!Close
    <3>2. s \in Governed!Statuses
      BY <1>t DEF Governed!Item, Governed!Statuses
    <3> QED
      BY <1>t, <3>1, <3>2 DEF Governed!Item
  <2>3. CASE Governed!Reopen(i)
    BY <1>t, <2>3 DEF Governed!Reopen, Governed!Item
  <2>4. CASE Governed!ByHand(i)
    <3>1. CASE board' = [board EXCEPT ![i].priority = "P2"]
      BY <1>t, <3>1 DEF Governed!Item
    <3>2. ASSUME NEW p \in Issues, board' = [board EXCEPT ![i].parent = p] PROVE board' \in [Issues -> Governed!Item]
      BY <1>t, <3>2 DEF Governed!Item
    <3>3. CASE board' = [board EXCEPT ![i].stream = "b"]
      BY <1>t, <3>3 DEF Governed!Item
    <3> QED
      BY <2>4, <3>1, <3>2, <3>3 DEF Governed!ByHand
  <2> QED
    BY <2>1, <2>2, <2>3, <2>4
<1> QED
  BY <1>0, <1>1, <1>2 DEF BoardInv, BoardTyped, PlansHold

\* Each step keeps what is known of the board.
LEMMA BoardStep == ASSUME BoardInv, Governed!Next PROVE BoardInv'
BY ReadingStep, WritingStep, PeopleStep DEF Governed!Next

\* At first no issue has been classified.
LEMMA BoardInit == Init => BoardInv
<1>1. Init => Governed!Init
  BY DEF Init
<1>2. ASSUME Governed!Init PROVE BoardInv
  <2>1. board \in [Issues -> Governed!Item]
    BY <1>2 DEF Governed!Init, Governed!Item, Governed!Statuses
  <2>2. command = Governed!NoJob /\ edits = 0 /\ faults = 0
    BY <1>2 DEF Governed!Init
  <2>3. /\ command \in BoardJobs /\ command.pc = "idle" /\ command.said = "nothing"
    BY <2>2 DEF Governed!NoJob, BoardJobs
  <2> QED
    BY <2>1, <2>2, <2>3 DEF BoardInv, BoardTyped, PlansHold
<1> QED
  BY <1>1, <1>2

\* What is checked follows.
LEMMA BoardIsTyped == ASSUME BoardInv PROVE Governed!TypeOK /\ Governed!ReportIsTrue
<1>1. command \in BoardJobs /\ board \in [Issues -> Governed!Item]
  BY DEF BoardInv, BoardTyped
<1>2. \A w \in command.plan : w.issue \in Issues /\ w.field \in {"status", "priority", "stream", "parent"}
  BY <1>1 DEF BoardJobs, Writes, Fields
<1> QED
  BY <1>1, <1>2 DEF BoardInv, PlansHold, Governed!TypeOK, Governed!ReportIsTrue, BoardJobs

\* No step replaces a parent, nor a priority that a run read.
LEMMA PeoplesStay == ASSUME BoardInv, Governed!Next PROVE Governed!BoardKept
<1>t. /\ command \in BoardJobs /\ board \in [Issues -> Governed!Item] /\ edits \in Nat
  BY DEF BoardInv, BoardTyped
<1> SUFFICES ASSUME NEW i \in Issues, command.pc = "write"
             PROVE  /\ board[i].parent # "none" => board'[i].parent = board[i].parent
                    /\ command.command \in {"priority", "sweep"} /\ command.read[i].priority # "none"
                          => board'[i].priority = board[i].priority \/ edits' # edits
  BY DEF Governed!BoardKept
<1>1. CASE Governed!Writing
  <2>1. PICK batch \in SUBSET command.plan : Governed!ApplyBatch(batch)
    BY <1>1 DEF Governed!Writing, Governed!Batches
  <2>2. PICK done \in SUBSET batch : board' = Governed!After(board, done) /\ \A w \in done : Governed!Takes(w)
    <3>1. CASE (\A w \in batch : Governed!Takes(w)) /\ board' = Governed!After(board, batch)
      BY <3>1
    <3>2. ASSUME NEW d \in SUBSET {w \in batch : Governed!Takes(w)}, board' = Governed!After(board, d)
          PROVE  \E done \in SUBSET batch : board' = Governed!After(board, done) /\ \A w \in done : Governed!Takes(w)
      BY <3>2
    <3> QED
      BY <2>1, <3>1, <3>2 DEF Governed!ApplyBatch
  <2>3. done \in SUBSET Writes
    BY <1>t DEF BoardJobs
  <2>4. \A f \in Fields : board'[i][f] = board[i][f] \/ \E w \in done : w.issue = i /\ w.field = f
    BY <1>t, <2>2, <2>3, AfterHolds
  <2>5. board[i].parent # "none" => board'[i].parent = board[i].parent
    <3>1. \A w \in done : w.issue = i /\ w.field = "parent" => board[i].parent = "none"
      BY <2>2 DEF Governed!Takes
    <3> QED
      BY <2>4, <3>1 DEF Fields
  <2>6. command.command \in {"priority", "sweep"} /\ command.read[i].priority # "none" =>
          board'[i].priority = board[i].priority
    <3>1. command.command \in {"priority", "sweep"} =>
            \A w \in done : w.issue = i /\ w.field = "priority" => command.read[i].priority = "none"
      BY DEF BoardInv, PlansHold
    <3> QED
      BY <2>4, <3>1 DEF Fields
  <2> QED
    BY <2>5, <2>6
<1>2. CASE board' = board
  BY <1>2
<1>3. CASE Governed!Reading \/ Governed!ReadFails \/ \E c \in Governed!Commands : Governed!Start(c)
  BY <1>2, <1>3 DEF Governed!Reading, Governed!ReadFails, Governed!Start, Governed!Read, Governed!ReadSet, Governed!ReadSweep,
     Governed!ReadUnlisted
<1>4. ASSUME NEW k \in Issues, Governed!List(k) \/ Governed!Close(k) \/ Governed!Reopen(k)
      PROVE  board'[i].parent = board[i].parent /\ board'[i].priority = board[i].priority
  <2>1. board' = [board EXCEPT ![k].listed = TRUE] \/ board' = [board EXCEPT ![k].open = TRUE]
          \/ \E s \in {board[k].status, "Done"} : board' = [board EXCEPT ![k].open = FALSE, ![k].status = s]
    BY <1>4 DEF Governed!List, Governed!Close, Governed!Reopen
  <2> QED
    BY <1>t, <2>1 DEF Governed!Item
<1>5. ASSUME NEW k \in Issues, Governed!ByHand(k)
      PROVE  edits' # edits /\ (board[i].parent # "none" => board'[i].parent = board[i].parent)
  <2>1. edits' # edits
    BY <1>5, <1>t DEF Governed!ByHand, Governed!Edits
  <2>2. \/ board' = [board EXCEPT ![k].priority = "P2"]
        \/ board[k].parent = "none" /\ \E p \in Issues \ {k} : board' = [board EXCEPT ![k].parent = p]
        \/ board' = [board EXCEPT ![k].stream = "b"]
    BY <1>5 DEF Governed!ByHand
  <2>3. board[i].parent # "none" => board'[i].parent = board[i].parent
    BY <1>t, <2>2 DEF Governed!Item
  <2> QED
    BY <2>1, <2>3
<1> QED
  BY <1>1, <1>3, <1>4, <1>5 DEF Governed!Next

-----------------------------------------------------------------------------
\* The deployment

LayerSet == {Layer[i] : i \in DOMAIN Layer}

Rollouts ==
    [pc : {"idle", "generate", "rehearse", "bootstrap", "apply", "rollout", "applications", "check"},
     what : {"none", "deploy", "dry-run", "bootstrap", "restart", "deploy-apps"},
     at : Nat, from : Versions, as : {"spoke", "operator"}, since : Nat, fresh : BOOLEAN]

Running == [version : Versions, image : Nat, due : BOOLEAN]

Outcomes == {"nothing", "failed", "valid", "bootstrapped", "deployed", "restarted", "clean", "drift", "cannot-check"}

DeployTyped ==
    /\ declared \in Versions /\ master \in Versions /\ synced \in Versions
    /\ overlay \in [Deployment!FileSet -> Versions] /\ inCluster \in [Deployment!FileSet -> Versions]
    /\ revision \in {"master", "preview"} /\ selfHeal \in BOOLEAN
    /\ forced \subseteq Versions /\ installed \subseteq LayerSet
    /\ pods \in Running /\ pushed \in Nat /\ cached \in Nat
    /\ rollout \in Rollouts /\ said \in Outcomes /\ edits \in Nat /\ faults \in Nat

\* A command has reported nothing until it is over, and does what belongs to it.
CommandHolds ==
    /\ rollout.pc # "idle" => said = "nothing"
    /\ rollout.pc = "generate" => rollout.what \in {"deploy", "dry-run"} /\ rollout.fresh = TRUE
    /\ rollout.pc \in {"rehearse", "apply"} => rollout.what = "deploy"
    /\ rollout.pc = "bootstrap" => rollout.what \in {"deploy", "dry-run", "bootstrap"}
    /\ rollout.pc = "rollout" => rollout.what \in {"deploy", "restart"}
    /\ rollout.at >= 1

\* The files that were generated are all of the configuration that was read first, and
\* what was applied of them is one configuration.
FreshHolds ==
    rollout.fresh = TRUE =>
        /\ rollout.pc = "generate" => \A k \in 1..(rollout.at - 1) : k <= Len(Files) => overlay[Files[k]] = rollout.from
        /\ rollout.pc \in {"rehearse", "bootstrap", "apply"} => overlay = Deployment!Whole(rollout.from)
        /\ rollout.pc = "rollout" => \E v \in Versions : inCluster = Deployment!Whole(v)

\* No image is newer than the last push, and the pods that follow a restart have none
\* that is older than it.
ImagesHold ==
    /\ pods.image <= pushed /\ cached <= pushed /\ rollout.since <= pushed
    /\ rollout.pc = "rollout" /\ rollout.what = "restart" /\ pods.due = FALSE /\ pods.version \in Floating
          => pods.image >= rollout.since

DeployInv == DeployTyped /\ CommandHolds /\ FreshHolds /\ ImagesHold /\ Deployment!NothingSmuggled

\* The files and the layer.
LEMMA FilesHold ==
  /\ Files[1] \in Deployment!FileSet /\ Len(Files) \in Nat /\ DOMAIN Files = 1..Len(Files)
  /\ \A i \in 1..Len(Files) : Files[i] \in Deployment!FileSet
  /\ \A f \in Deployment!FileSet : \E i \in 1..Len(Files) : f = Files[i]
  /\ Len(Layer) \in Nat /\ \A i \in 1..Len(Layer) : Layer[i] \in LayerSet
  /\ 1 \in Versions /\ Preview \in Versions /\ Versions \subseteq Nat
  /\ \A v \in Versions : Deployment!Whole(v) \in [Deployment!FileSet -> Versions]
BY DeployAssumption DEF Deployment!FileSet, LayerSet, Deployment!Whole

\* The command at another call and entry, the same in all else.
Moved(l, n) ==
    /\ rollout' \in Rollouts /\ rollout'.pc = l /\ rollout'.at = n /\ rollout'.what = rollout.what
    /\ rollout'.from = rollout.from /\ rollout'.as = rollout.as /\ rollout'.since = rollout.since
    /\ rollout'.fresh = rollout.fresh

\* The step to another call keeps the rest of the command.
LEMMA RolloutGoesOn ==
  ASSUME rollout \in Rollouts,
         NEW l \in {"generate", "rehearse", "bootstrap", "apply", "rollout", "applications", "check"},
         Deployment!GoTo(l)
  PROVE  Moved(l, 1)
BY DEF Rollouts, Deployment!GoTo, Moved

\* And so does the one to the next file or entry.
LEMMA RolloutNext ==
  ASSUME rollout \in Rollouts, rollout' = [rollout EXCEPT !.at = @ + 1]
  PROVE  Moved(rollout.pc, rollout.at + 1)
BY DEF Rollouts, Moved

\* A command that is over.
LEMMA NoRollout ==
  /\ Deployment!Idle \in Rollouts /\ Deployment!Idle.pc = "idle" /\ Deployment!Idle.since = 0
  /\ Deployment!Idle.fresh = FALSE /\ Deployment!Idle.at = 1
BY FilesHold DEF Deployment!Idle, Rollouts

\* The start of a command.
LEMMA StartStep ==
  ASSUME DeployInv, Deployment!Next,
         NEW what \in {"deploy", "dry-run", "bootstrap", "deploy-apps"}, NEW as \in {"spoke", "operator"},
         NEW label \in {"generate", "rehearse", "bootstrap", "applications"},
         Deployment!Start(what, as, label), Deployment!Hand,
         label \in {"generate", "rehearse"} => what \in {"deploy", "dry-run"},
         label = "rehearse" => what = "deploy", label = "bootstrap" => what = "bootstrap"
  PROVE  DeployInv'
<1> DEFINE f == label = "generate"
           j == [pc |-> label, what |-> what, at |-> 1, from |-> declared, as |-> as, since |-> pushed, fresh |-> f]
<1>1. f \in BOOLEAN /\ (f = TRUE <=> label = "generate")
  OBVIOUS
<1>2. rollout' = j /\ said' = "nothing"
  BY DEF Deployment!Start, Deployment!Context
<1> HIDE DEF f
<1>3. /\ j \in Rollouts /\ j.pc = label /\ j.what = what /\ j.at = 1 /\ j.since = pushed /\ j.fresh = f
  BY <1>1 DEF Rollouts, DeployInv, DeployTyped
<1>4. /\ UNCHANGED <<declared, master, overlay, revision, synced, selfHeal, inCluster, forced, installed, pods,
                     pushed, cached, faults>>
      /\ edits' \in Nat
  BY DEF Deployment!Start, Deployment!Hand, Deployment!git, Deployment!hub, Deployment!cluster, Deployment!images,
     DeployInv, DeployTyped
<1> HIDE DEF j
<1>5. selfHeal' \in BOOLEAN
  BY <1>4 DEF DeployInv, DeployTyped
<1>6. DeployTyped'
  BY <1>2, <1>3, <1>4, <1>5 DEF DeployInv, DeployTyped, Outcomes
<1>7. CommandHolds'
  BY <1>1, <1>2, <1>3 DEF CommandHolds
<1>8. FreshHolds'
  BY <1>1, <1>2, <1>3, <1>4 DEF FreshHolds
<1>9. ImagesHold' /\ Deployment!NothingSmuggled'
  BY <1>2, <1>3, <1>4 DEF DeployInv, DeployTyped, ImagesHold, Deployment!NothingSmuggled
<1> QED
  BY <1>6, <1>7, <1>8, <1>9 DEF DeployInv

\* The rest of the cluster and of git, as a step of a command leaves it.
Elsewhere == <<declared, master, synced, selfHeal, forced, pushed, cached, pods, edits>>

\* The end of a command.
LEMMA EndStep ==
  ASSUME DeployInv, NEW r \in Outcomes, Deployment!End(r), UNCHANGED <<Elsewhere, inCluster>>,
         overlay' = overlay, installed' = installed, revision' = revision, faults' \in Nat
  PROVE  DeployInv'
<1>1. rollout' = Deployment!Idle /\ said' = r
  BY DEF Deployment!End
<1>2. selfHeal' \in BOOLEAN
  BY DEF DeployInv, DeployTyped, Elsewhere
<1>3. DeployTyped'
  BY <1>1, <1>2, NoRollout DEF DeployInv, DeployTyped, Elsewhere
<1>4. CommandHolds' /\ FreshHolds'
  BY <1>1, NoRollout DEF CommandHolds, FreshHolds
<1>5. ImagesHold' /\ Deployment!NothingSmuggled'
  BY <1>1, NoRollout DEF DeployInv, DeployTyped, ImagesHold, Deployment!NothingSmuggled, Elsewhere
<1> QED
  BY <1>3, <1>4, <1>5 DEF DeployInv

\* Generating, file by file.
LEMMA GenerateStep == ASSUME DeployInv, Deployment!Generate PROVE DeployInv'
<1>0. /\ rollout.pc = "generate" /\ rollout \in Rollouts /\ rollout.fresh = TRUE /\ said = "nothing"
      /\ rollout.what \in {"deploy", "dry-run"} /\ rollout.at \in Nat /\ rollout.at >= 1 /\ rollout.from \in Versions
      /\ rollout.since \in Nat
  BY DEF Deployment!Generate, DeployInv, DeployTyped, CommandHolds, Rollouts
<1>1. /\ UNCHANGED <<declared, master, revision, synced, selfHeal, inCluster, forced, installed, pods,
                     pushed, cached, edits, faults>>
      /\ selfHeal' \in BOOLEAN /\ faults' \in Nat
  BY DEF Deployment!Generate, Deployment!git, Deployment!hub, Deployment!cluster, Deployment!images, DeployInv, DeployTyped
<1>2. CASE Deployment!End("failed") /\ overlay' = overlay
  BY <1>1, <1>2, EndStep DEF Elsewhere, Outcomes
<1>3. ASSUME rollout.at > Len(Files), NEW l \in {"rehearse", "bootstrap"}, Deployment!GoTo(l), overlay' = overlay, said' = said,
             l = "rehearse" <=> rollout.what = "deploy"
      PROVE  DeployInv'
  <2>1. /\ rollout' \in Rollouts /\ rollout'.pc = l /\ rollout'.at = 1 /\ rollout'.what = rollout.what
        /\ rollout'.from = rollout.from /\ rollout'.since = rollout.since /\ rollout'.fresh = TRUE
    BY <1>0, <1>3, RolloutGoesOn DEF Moved
  <2>2. overlay = Deployment!Whole(rollout.from)
    <3>1. \A k \in 1..Len(Files) : overlay[Files[k]] = rollout.from
      BY <1>0, <1>3, FilesHold DEF DeployInv, FreshHolds
    <3>2. \A f \in Deployment!FileSet : overlay[f] = rollout.from
      BY <3>1, FilesHold
    <3> QED
      BY <3>2 DEF DeployInv, DeployTyped, Deployment!Whole
  <2>3. DeployTyped'
    BY <1>1, <1>3, <2>1 DEF DeployInv, DeployTyped
  <2>4. CommandHolds'
    BY <1>0, <1>3, <2>1 DEF CommandHolds
  <2>5. FreshHolds'
    BY <1>3, <2>1, <2>2 DEF FreshHolds, Deployment!Whole
  <2>6. ImagesHold' /\ Deployment!NothingSmuggled'
    BY <1>0, <1>1, <1>3, <2>1 DEF DeployInv, DeployTyped, ImagesHold, Deployment!NothingSmuggled
  <2> QED
    BY <2>3, <2>4, <2>5, <2>6 DEF DeployInv
<1>4. ASSUME rollout.at <= Len(Files), overlay' = [overlay EXCEPT ![Files[rollout.at]] = rollout.from],
             rollout' = [rollout EXCEPT !.at = @ + 1], said' = said
      PROVE  DeployInv'
  <2>0. rollout.at \in 1..Len(Files) /\ Files[rollout.at] \in Deployment!FileSet
    BY <1>0, <1>4, FilesHold
  <2>1. /\ rollout' \in Rollouts /\ rollout'.pc = "generate" /\ rollout'.at = rollout.at + 1 /\ rollout'.what = rollout.what
        /\ rollout'.from = rollout.from /\ rollout'.since = rollout.since /\ rollout'.fresh = TRUE
    BY <1>0, <1>4, RolloutNext DEF Moved
  <2>2. overlay' \in [Deployment!FileSet -> Versions] /\ overlay'[Files[rollout.at]] = rollout.from
        /\ \A f \in Deployment!FileSet : overlay'[f] \in {overlay[f], rollout.from}
    BY <1>0, <1>4, <2>0 DEF DeployInv, DeployTyped
  <2>3. DeployTyped'
    BY <1>1, <1>4, <2>1, <2>2 DEF DeployInv, DeployTyped
  <2>4. CommandHolds'
    BY <1>0, <1>4, <2>1 DEF CommandHolds
  <2>5. FreshHolds'
    <3>1. \A k \in 1..(rollout.at - 1) : k <= Len(Files) => overlay[Files[k]] = rollout.from
      BY <1>0 DEF DeployInv, FreshHolds
    <3>2. \A k \in 1..rollout.at : k <= Len(Files) => overlay'[Files[k]] = rollout.from
      <4> SUFFICES ASSUME NEW k \in 1..rollout.at, k <= Len(Files) PROVE overlay'[Files[k]] = rollout.from
        OBVIOUS
      <4>1. Files[k] \in Deployment!FileSet
        BY <1>0, FilesHold
      <4>2. CASE k = rollout.at
        BY <2>2, <4>2
      <4>3. CASE k # rollout.at
        BY <1>0, <2>2, <3>1, <4>1, <4>3
      <4> QED
        BY <4>2, <4>3
    <3>3. (rollout.at + 1) - 1 = rollout.at
      BY <1>0
    <3> QED
      BY <2>1, <3>2, <3>3 DEF FreshHolds
  <2>6. ImagesHold' /\ Deployment!NothingSmuggled'
    BY <1>0, <1>1, <1>4, <2>1 DEF DeployInv, DeployTyped, ImagesHold, Deployment!NothingSmuggled
  <2> QED
    BY <2>3, <2>4, <2>5, <2>6 DEF DeployInv
<1> QED
  <2>1. CASE rollout.at > Len(Files) /\ overlay' = overlay /\ said' = said
             /\ Deployment!GoTo(IF rollout.what = "deploy" THEN "rehearse" ELSE "bootstrap")
    <3>1. CASE rollout.what = "deploy"
      BY <1>3, <2>1, <3>1
    <3>2. CASE rollout.what # "deploy"
      BY <1>3, <2>1, <3>2
    <3> QED
      BY <3>1, <3>2
  <2> QED
    BY <1>2, <1>4, <2>1 DEF Deployment!Generate

\* The step of a command to its next call or entry.
LEMMA MoveStep ==
  ASSUME DeployInv, NEW l \in {"bootstrap", "apply", "check"}, NEW n \in Nat, n >= 1,
         Moved(l, n),
         UNCHANGED <<Elsewhere, inCluster>>, overlay' = overlay, said' = said,
         installed' \subseteq LayerSet, revision' \in {"master", "preview"}, faults' \in Nat,
         rollout.pc \in {"rehearse", "bootstrap", "applications"},
         l # "check" => rollout.pc # "applications",
         l = "apply" => rollout.what = "deploy"
  PROVE  DeployInv'
<1>1. /\ rollout' \in Rollouts /\ rollout'.pc = l /\ rollout'.at = n /\ rollout'.what = rollout.what
      /\ rollout'.from = rollout.from /\ rollout'.since = rollout.since /\ rollout'.fresh = rollout.fresh
  BY DEF Moved
<1>2. selfHeal' \in BOOLEAN
  BY DEF DeployInv, DeployTyped, Elsewhere
<1>3. DeployTyped'
  BY <1>1, <1>2 DEF DeployInv, DeployTyped, Elsewhere
<1>4. CommandHolds'
  BY <1>1 DEF DeployInv, CommandHolds
<1>5. FreshHolds'
  BY <1>1 DEF DeployInv, FreshHolds, Deployment!Whole
<1>6. ImagesHold' /\ Deployment!NothingSmuggled'
  BY <1>1 DEF DeployInv, DeployTyped, ImagesHold, Deployment!NothingSmuggled, Elsewhere
<1> QED
  BY <1>3, <1>4, <1>5, <1>6 DEF DeployInv

\* Rehearsing and preparing.
LEMMA PrepareStep == ASSUME DeployInv, Deployment!Rehearse \/ Deployment!Prepare PROVE DeployInv'
<1>0. rollout \in Rollouts /\ rollout.at \in Nat /\ faults \in Nat /\ rollout.at >= 1 /\ installed \subseteq LayerSet
      /\ revision \in {"master", "preview"}
  BY DEF DeployInv, DeployTyped, CommandHolds, Rollouts
<1>1. CASE Deployment!Rehearse
  <2>1. /\ UNCHANGED <<Elsewhere, inCluster>> /\ overlay' = overlay /\ installed' = installed /\ revision' = revision
        /\ faults' \in Nat /\ rollout.pc = "rehearse"
    BY <1>0, <1>1 DEF Deployment!Rehearse, Deployment!git, Deployment!hub, Deployment!cluster, Deployment!images, Elsewhere,
       Deployment!Fault
  <2>2. CASE Deployment!End("failed")
    BY <2>1, <2>2, EndStep DEF Outcomes
  <2>3. CASE Deployment!GoTo("bootstrap") /\ said' = said
    <3>1. Moved("bootstrap", 1)
      BY <1>0, <2>3, RolloutGoesOn
    <3> QED
      BY <1>0, <2>1, <2>3, <3>1, MoveStep
  <2> QED
    BY <1>1, <2>2, <2>3 DEF Deployment!Rehearse
<1>2. CASE Deployment!Prepare
  <2>1. /\ UNCHANGED <<Elsewhere, inCluster>> /\ overlay' = overlay /\ revision' = revision
        /\ faults' \in Nat /\ rollout.pc = "bootstrap"
    BY <1>0, <1>2 DEF Deployment!Prepare, Deployment!git, Deployment!hub, Deployment!images, Elsewhere, Deployment!Fault
  <2>2. rollout.what \in {"deploy", "dry-run", "bootstrap"}
    BY <2>1 DEF DeployInv, CommandHolds
  <2>3. ASSUME installed' = installed, NEW r \in {"failed", "valid", "bootstrapped"}, Deployment!End(r) PROVE DeployInv'
    BY <2>1, <2>3, EndStep DEF Outcomes
  <2>4. CASE rollout.what = "deploy" /\ installed' = installed /\ Deployment!GoTo("apply") /\ said' = said
    <3>1. Moved("apply", 1)
      BY <1>0, <2>4, RolloutGoesOn
    <3> QED
      BY <1>0, <2>1, <2>4, <3>1, MoveStep
  <2>5. CASE /\ rollout.at <= Len(Layer) /\ rollout' = [rollout EXCEPT !.at = @ + 1] /\ said' = said
             /\ installed' \in {installed, installed \cup {Layer[rollout.at]}}
    <3>1. Moved("bootstrap", rollout.at + 1)
      BY <1>0, <2>1, <2>5, RolloutNext
    <3>2. Layer[rollout.at] \in LayerSet
      BY <1>0, <2>5, FilesHold
    <3>3. rollout.at + 1 \in Nat /\ rollout.at + 1 >= 1 /\ installed' \subseteq LayerSet
      BY <1>0, <2>5, <3>2
    <3> QED
      BY <1>0, <2>1, <2>5, <3>1, <3>3, MoveStep
  <2> QED
    <3>1. CASE rollout.at > Len(Layer) /\ rollout.what = "deploy"
      BY <1>0, <1>2, <2>4, <2>3, <3>1, FilesHold DEF Deployment!Prepare
    <3>2. CASE rollout.at > Len(Layer) /\ rollout.what # "deploy"
      BY <1>0, <1>2, <2>2, <2>3, <3>2, FilesHold DEF Deployment!Prepare
    <3>3. CASE rollout.at <= Len(Layer)
      BY <1>0, <1>2, <2>3, <2>5, <3>3, FilesHold DEF Deployment!Prepare
    <3> QED
      BY <1>0, <3>1, <3>2, <3>3, FilesHold
<1> QED
  BY <1>1, <1>2

\* Applying, all or a part.
LEMMA ApplyStep == ASSUME DeployInv, Deployment!Apply PROVE DeployInv'
<1>0. /\ rollout.pc = "apply" /\ rollout \in Rollouts /\ rollout.what = "deploy" /\ rollout.at \in Nat /\ rollout.at >= 1
      /\ said = "nothing" /\ rollout.as \in {"spoke", "operator"} /\ rollout.from \in Versions
  BY DEF Deployment!Apply, DeployInv, DeployTyped, CommandHolds, Rollouts
<1>1. PICK S \in SUBSET {f \in Deployment!FileSet : Deployment!Admits(f)} :
        /\ inCluster' = [f \in Deployment!FileSet |-> IF f \in S THEN overlay[f] ELSE inCluster[f]]
        /\ forced' = IF rollout.as = "operator" THEN forced \cup {overlay[f] : f \in S} ELSE forced
        /\ IF S = Deployment!FileSet
           THEN Deployment!GoTo("rollout") /\ UNCHANGED <<said, faults>>
           ELSE /\ Deployment!End("failed")
                /\ IF S = {f \in Deployment!FileSet : Deployment!Admits(f)} THEN UNCHANGED faults ELSE Deployment!Fault
  BY DEF Deployment!Apply
<1>2. /\ UNCHANGED <<declared, master, overlay, revision, synced, selfHeal, installed, pods, pushed, cached, edits>>
      /\ selfHeal' \in BOOLEAN
  BY DEF Deployment!Apply, Deployment!git, Deployment!hub, Deployment!images, DeployInv, DeployTyped
<1>3. faults' \in Nat
  BY <1>1 DEF Deployment!Fault, DeployInv, DeployTyped
<1>4. inCluster' \in [Deployment!FileSet -> Versions] /\ forced' \subseteq Versions /\ forced \subseteq forced'
  BY <1>1 DEF DeployInv, DeployTyped
<1>5. Deployment!NothingSmuggled'
  <2> SUFFICES ASSUME NEW f \in Deployment!FileSet, <<f, inCluster'[f]>> \in Refused PROVE inCluster'[f] \in forced'
    BY DEF Deployment!NothingSmuggled
  <2>1. CASE f \in S
    <3>1. inCluster'[f] = overlay[f] /\ Deployment!Admits(f)
      BY <1>1, <2>1
    <3>2. rollout.as = "operator"
      BY <3>1 DEF Deployment!Admits
    <3> QED
      BY <1>1, <2>1, <3>1, <3>2
  <2>2. CASE f \notin S
    BY <1>1, <1>4, <2>2 DEF DeployInv, Deployment!NothingSmuggled
  <2> QED
    BY <2>1, <2>2
<1>6. CASE S = Deployment!FileSet
  <2>1. Deployment!GoTo("rollout") /\ said' = said
    BY <1>1, <1>6
  <2>2. /\ rollout' \in Rollouts /\ rollout'.pc = "rollout" /\ rollout'.at = 1 /\ rollout'.what = rollout.what
        /\ rollout'.from = rollout.from /\ rollout'.since = rollout.since /\ rollout'.fresh = rollout.fresh
    BY <1>0, <2>1, RolloutGoesOn DEF Moved
  <2>3. inCluster' = overlay
    BY <1>1, <1>6 DEF DeployInv, DeployTyped
  <2>4. DeployTyped'
    BY <1>2, <1>3, <1>4, <2>1, <2>2 DEF DeployInv, DeployTyped
  <2>5. CommandHolds'
    BY <1>0, <2>1, <2>2 DEF CommandHolds
  <2>6. FreshHolds'
    BY <1>0, <2>2, <2>3 DEF DeployInv, FreshHolds
  <2>7. ImagesHold'
    BY <1>0, <1>2, <2>2 DEF DeployInv, ImagesHold
  <2> QED
    BY <1>5, <2>4, <2>5, <2>6, <2>7 DEF DeployInv
<1>7. CASE S # Deployment!FileSet
  <2>1. rollout' = Deployment!Idle /\ said' = "failed"
    BY <1>1, <1>7 DEF Deployment!End
  <2>2. DeployTyped'
    BY <1>2, <1>3, <1>4, <2>1, NoRollout DEF DeployInv, DeployTyped, Outcomes
  <2>3. CommandHolds' /\ FreshHolds'
    BY <2>1, NoRollout DEF CommandHolds, FreshHolds
  <2>4. ImagesHold'
    BY <1>2, <2>1, NoRollout DEF DeployInv, DeployTyped, ImagesHold
  <2> QED
    BY <1>5, <2>2, <2>3, <2>4 DEF DeployInv
<1> QED
  BY <1>6, <1>7

\* Restarting, and waiting for the pods.
LEMMA RestartStep == ASSUME DeployInv, Deployment!Restart \/ Deployment!Rollout PROVE DeployInv'
<1>1. CASE Deployment!Restart
  <2> DEFINE j == [Deployment!Idle EXCEPT !.pc = "rollout", !.what = "restart", !.since = pushed]
  <2>1. /\ j \in Rollouts /\ j.pc = "rollout" /\ j.what = "restart" /\ j.at = 1 /\ j.since = pushed /\ j.fresh = FALSE
    BY NoRollout DEF Rollouts, DeployInv, DeployTyped
  <2>2. rollout' = j /\ said' = "nothing" /\ pods' = [pods EXCEPT !.due = TRUE]
    BY <1>1 DEF Deployment!Restart
  <2> HIDE DEF j
  <2>3. pods' \in Running /\ pods'.image = pods.image /\ pods'.due = TRUE
    BY <2>2 DEF Running, DeployInv, DeployTyped
  <2>4. /\ UNCHANGED <<declared, master, overlay, revision, synced, selfHeal, inCluster, forced, installed, pushed, cached, faults>>
        /\ edits' \in Nat
    BY <1>1 DEF Deployment!Restart, Deployment!Hand, Deployment!git, Deployment!hub, Deployment!cluster, Deployment!images,
       DeployInv, DeployTyped
  <2>5. selfHeal' \in BOOLEAN
    BY <2>4 DEF DeployInv, DeployTyped
  <2>6. DeployTyped'
    BY <2>1, <2>2, <2>3, <2>4, <2>5 DEF DeployInv, DeployTyped, Outcomes
  <2>7. CommandHolds' /\ FreshHolds'
    BY <2>1, <2>2 DEF CommandHolds, FreshHolds
  <2>8. ImagesHold' /\ Deployment!NothingSmuggled'
    BY <2>1, <2>2, <2>3, <2>4 DEF DeployInv, DeployTyped, ImagesHold, Deployment!NothingSmuggled
  <2> QED
    BY <2>6, <2>7, <2>8 DEF DeployInv
<1>2. CASE Deployment!Rollout
  <2>1. /\ UNCHANGED <<Elsewhere, inCluster>> /\ overlay' = overlay /\ installed' = installed /\ revision' = revision
        /\ faults' \in Nat
    BY <1>2 DEF Deployment!Rollout, Deployment!git, Deployment!hub, Deployment!cluster, Deployment!images, Elsewhere,
       Deployment!Fault, DeployInv, DeployTyped
  <2>2. \E r \in {"deployed", "restarted", "failed"} : Deployment!End(r)
    BY <1>2 DEF Deployment!Rollout
  <2> QED
    BY <2>1, <2>2, EndStep DEF Outcomes
<1> QED
  BY <1>1, <1>2

\* The pods, Argo CD and the people.
LEMMA AroundStep ==
  ASSUME DeployInv,
         \/ Deployment!PodsStart \/ Deployment!Sync \/ Deployment!SetRevision \/ Deployment!Declare
         \/ Deployment!Merge \/ Deployment!PushImage
  PROVE  DeployInv'
<1>0. UNCHANGED <<rollout, said, overlay, installed, selfHeal, forced>>
  BY DEF Deployment!PodsStart, Deployment!Sync, Deployment!SetRevision, Deployment!Declare, Deployment!Merge,
     Deployment!PushImage, Deployment!git, Deployment!hub, Deployment!cluster, Deployment!images
<1>1. selfHeal' \in BOOLEAN /\ CommandHolds'
  BY <1>0 DEF DeployInv, DeployTyped, CommandHolds
<1>2. CASE Deployment!PodsStart
  <2>1. UNCHANGED <<declared, master, revision, synced, inCluster, pushed, edits, faults>>
    BY <1>2 DEF Deployment!PodsStart, Deployment!git, Deployment!hub, Deployment!cluster
  <2> DEFINE t == Deployment!Template
             i == Deployment!Pulled(t)
  <2>2. t \in Versions /\ i \in Nat /\ i <= pushed /\ (t \in Floating => i = pushed)
    BY FilesHold DEF Deployment!Template, Deployment!Pulled, DeployInv, DeployTyped
  <2>3. pods' = [version |-> t, image |-> i, due |-> FALSE] /\ cached' \in {i, cached}
    BY <1>2 DEF Deployment!PodsStart
  <2> HIDE DEF t, i
  <2>4. pods' \in Running /\ pods'.version = t /\ pods'.image = i
    BY <2>2, <2>3 DEF Running
  <2>5. DeployTyped'
    BY <1>0, <1>1, <2>1, <2>2, <2>3, <2>4 DEF DeployInv, DeployTyped
  <2>6. FreshHolds' /\ Deployment!NothingSmuggled'
    BY <1>0, <2>1 DEF DeployInv, FreshHolds, Deployment!NothingSmuggled
  <2>7. ImagesHold'
    BY <1>0, <2>1, <2>2, <2>3, <2>4 DEF DeployInv, DeployTyped, ImagesHold
  <2> QED
    BY <1>1, <2>5, <2>6, <2>7 DEF DeployInv
<1>3. CASE Deployment!Sync
  <2> DEFINE rev == Deployment!Revision(revision)
  <2>1. rev \in Versions
    BY FilesHold DEF Deployment!Revision, DeployInv, DeployTyped
  <2>2. /\ inCluster' = Deployment!Whole(rev) /\ synced' = rev /\ \A f \in Deployment!FileSet : <<f, rev>> \notin Refused
        /\ UNCHANGED <<declared, master, revision, pods, pushed, cached, edits, faults>>
    BY <1>3 DEF Deployment!Sync, Deployment!git, Deployment!images
  <2> HIDE DEF rev
  <2>3. DeployTyped'
    BY <1>0, <1>1, <2>1, <2>2, FilesHold DEF DeployInv, DeployTyped
  <2>4. FreshHolds'
    BY <1>0, <2>1, <2>2 DEF DeployInv, FreshHolds, Deployment!Whole
  <2>5. ImagesHold'
    BY <1>0, <2>2 DEF DeployInv, ImagesHold
  <2>6. Deployment!NothingSmuggled'
    BY <2>2 DEF Deployment!NothingSmuggled, Deployment!Whole
  <2> QED
    BY <1>1, <2>3, <2>4, <2>5, <2>6 DEF DeployInv
<1>4. CASE Deployment!SetRevision \/ Deployment!Declare \/ Deployment!Merge \/ Deployment!PushImage
  <2>1. /\ UNCHANGED <<synced, inCluster, pods, cached, faults>>
        /\ declared' \in Versions /\ master' \in Versions /\ revision' \in {"master", "preview"}
        /\ pushed' \in Nat /\ pushed' >= pushed /\ edits' \in Nat
    BY <1>4 DEF DeployInv, DeployTyped, Deployment!SetRevision, Deployment!Declare, Deployment!Merge, Deployment!Patch,
       Deployment!PushImage, Deployment!Hand, Deployment!git, Deployment!hub, Deployment!cluster, Deployment!images
  <2>2. DeployTyped'
    BY <1>0, <1>1, <2>1 DEF DeployInv, DeployTyped
  <2>3. FreshHolds' /\ Deployment!NothingSmuggled'
    BY <1>0, <2>1 DEF DeployInv, FreshHolds, Deployment!NothingSmuggled
  <2>4. ImagesHold'
    <3>1. pods \in Running /\ rollout \in Rollouts /\ cached \in Nat /\ pushed \in Nat
      BY DEF DeployInv, DeployTyped
    <3>2. pods.image \in Nat /\ rollout.since \in Nat
      BY <3>1 DEF Running, Rollouts
    <3>3. pods.image <= pushed' /\ cached <= pushed' /\ rollout.since <= pushed'
      BY <2>1, <3>1, <3>2 DEF DeployInv, ImagesHold
    <3> QED
      BY <1>0, <2>1, <3>3 DEF DeployInv, ImagesHold
  <2> QED
    BY <1>1, <2>2, <2>3, <2>4 DEF DeployInv
<1> QED
  BY <1>2, <1>3, <1>4

\* The Applications and their check.
LEMMA AppsStep == ASSUME DeployInv, Deployment!ApplyApps \/ Deployment!CheckDrift PROVE DeployInv'
<1>1. /\ UNCHANGED <<Elsewhere, inCluster>> /\ overlay' = overlay /\ installed' = installed /\ faults' \in Nat
      /\ rollout.pc \in {"applications", "check"}
  BY DEF Deployment!ApplyApps, Deployment!CheckDrift, Deployment!git, Deployment!hub, Deployment!cluster, Deployment!images,
     Elsewhere, Deployment!Fault, DeployInv, DeployTyped
<1>2. ASSUME NEW r \in {"failed", "clean", "drift", "cannot-check"}, Deployment!End(r), revision' = revision PROVE DeployInv'
  BY <1>1, <1>2, EndStep DEF Outcomes
<1>3. CASE rollout.pc = "applications" /\ revision' = "master" /\ Deployment!GoTo("check") /\ said' = said
  <2>1. Moved("check", 1)
    BY <1>3, RolloutGoesOn DEF DeployInv, DeployTyped
  <2>2. installed' \subseteq LayerSet
    BY <1>1 DEF DeployInv, DeployTyped
  <2> QED
    BY <1>1, <1>3, <2>1, <2>2, MoveStep
<1>4. CASE Deployment!ApplyApps
  BY <1>2, <1>3, <1>4 DEF Deployment!ApplyApps
<1>5. CASE Deployment!CheckDrift
  BY <1>2, <1>5 DEF Deployment!CheckDrift, Deployment!hub
<1> QED
  BY <1>4, <1>5

\* Each step of a command, of Argo CD and of the people.
LEMMA DeployStep == ASSUME DeployInv, Deployment!Next PROVE DeployInv'
<1>1. CASE Deployment!Deploy \/ Deployment!DryRun \/ Deployment!Bootstrap \/ Deployment!DeployApps
  BY <1>1, StartStep DEF Deployment!Deploy, Deployment!DryRun, Deployment!Bootstrap, Deployment!DeployApps
<1> QED
  BY <1>1, GenerateStep, PrepareStep, ApplyStep, RestartStep, AroundStep, AppsStep DEF Deployment!Next, Deployment!Works

\* At first the cluster has one configuration, which is not refused.
LEMMA DeployInit == Init => DeployInv
<1>1. Init => Deployment!Init
  BY DEF Init
<1>2. ASSUME Deployment!Init PROVE DeployInv
  <2>1. selfHeal \in BOOLEAN
    BY <1>2 DEF Deployment!Init
  <2>2. pods \in Running /\ pods.image <= 1 /\ pushed = 1
    BY <1>2, FilesHold DEF Deployment!Init, Deployment!Pulled, Running
  <2>3. DeployTyped
    BY <1>2, <2>1, <2>2, NoRollout, FilesHold DEF Deployment!Init, DeployTyped, Outcomes
  <2>4. CommandHolds /\ FreshHolds /\ ImagesHold
    BY <1>2, <2>2, NoRollout DEF Deployment!Init, CommandHolds, FreshHolds, ImagesHold
  <2>5. Deployment!NothingSmuggled
    BY <1>2, DeployAssumption DEF Deployment!Init, Deployment!NothingSmuggled, Deployment!Whole
  <2> QED
    BY <2>3, <2>4, <2>5 DEF DeployInv
<1> QED
  BY <1>1, <1>2

\* What is checked follows.
LEMMA DeployIsTyped == ASSUME DeployInv PROVE Deployment!TypeOK /\ Deployment!NothingSmuggled
<1>1. /\ pods.version \in Versions /\ pods.image \in 0..pushed /\ pods.due \in BOOLEAN /\ cached \in 0..pushed
  BY DEF DeployInv, DeployTyped, ImagesHold, Running
<1>2. rollout.pc \in {"idle", "generate", "rehearse", "bootstrap", "apply", "rollout", "applications", "check"}
  BY DEF DeployInv, DeployTyped, Rollouts
<1> QED
  BY <1>1, <1>2 DEF DeployInv, DeployTyped, Deployment!TypeOK, Outcomes, LayerSet

\* What a command reports is so.
LEMMA OutcomesAreSo == ASSUME DeployInv, Deployment!Next PROVE Deployment!ReportHolds
<1>0. DeployTyped /\ CommandHolds /\ FreshHolds /\ ImagesHold
  BY DEF DeployInv
<1>1. CASE Deployment!Rollout
  <2>1. UNCHANGED <<pods, inCluster>> /\ rollout.pc = "rollout" /\ rollout.what \in {"deploy", "restart"}
        /\ (said' \in {"deployed", "restarted"} => Deployment!Settled) /\ said' # "clean"
        /\ (said' = "restarted" => rollout.what = "restart")
    BY <1>0, <1>1 DEF Deployment!Rollout, Deployment!End, Deployment!cluster, CommandHolds
  <2>2. Deployment!Settled => pods.version = inCluster[Files[1]] /\ pods.due = FALSE
    BY <1>0 DEF Deployment!Settled, Deployment!Template, DeployTyped, Running
  <2>3. rollout.fresh => rollout.fresh = TRUE
    BY <1>0 DEF DeployTyped, Rollouts
  <2> QED
    BY <1>0, <2>1, <2>2, <2>3 DEF Deployment!ReportHolds, Deployment!Done, FreshHolds, ImagesHold
<1>2. CASE Deployment!CheckDrift
  <2>1. said' \in {"clean", "drift", "cannot-check"} /\ (said' = "clean" => revision' = "master")
    BY <1>2 DEF Deployment!CheckDrift, Deployment!End, Deployment!hub
  <2> QED
    BY <2>1 DEF Deployment!ReportHolds, Deployment!Done
<1>3. CASE ~Deployment!Rollout /\ ~Deployment!CheckDrift
  <2>1. rollout.pc # "idle" => said' \notin {"deployed", "restarted", "clean"}
    <3>1. said' \in {said, "nothing", "failed", "valid", "bootstrapped"}
      BY <1>3 DEF Deployment!Next, Deployment!Works, Deployment!Deploy, Deployment!DryRun, Deployment!Bootstrap,
         Deployment!DeployApps, Deployment!Start, Deployment!Generate, Deployment!Rehearse, Deployment!Prepare,
         Deployment!Apply, Deployment!Restart, Deployment!PodsStart, Deployment!Sync, Deployment!SetRevision,
         Deployment!ApplyApps, Deployment!Declare, Deployment!Merge, Deployment!PushImage, Deployment!End
    <3> QED
      BY <1>0, <3>1 DEF CommandHolds
  <2>2. ~Deployment!Done("deployed") /\ ~Deployment!Done("restarted") /\ ~Deployment!Done("clean")
    BY <2>1 DEF Deployment!Done
  <2> QED
    BY <2>2 DEF Deployment!ReportHolds
<1> QED
  BY <1>1, <1>2, <1>3

-----------------------------------------------------------------------------
\* The backups

Checks ==
    [pc : {"idle", "reach", "write", "read", "remove", "unreached", "password", "cover",
           "notify", "init", "use", "discard"},
     what : {"none", "destination", "coverage", "health", "restic"},
     at : Nat, probe : Nat, key : Nat, dest : BOOLEAN, ok : BOOLEAN, was : Nat, fine : BOOLEAN, hurt : BOOLEAN]

Repositories == [key : Nat, saved : BOOLEAN]

Verdicts == {"nothing", "usable", "covered", "uncovered", "healthy", "unhealthy", "works", "failed", "crashed"}

\* What is in the bucket was put there by a command that began, with a password that
\* was generated, and a node that wrote has the one there is unless it was replaced.
BucketHolds ==
    /\ rights \subseteq Destination!Rights
    /\ \A o \in objects : o \in Nat /\ 1 <= o /\ o <= edits
    /\ repos \in [Destination!Repos -> Repositories]
    /\ \A r \in Destination!Repos : repos[r].key <= edits + 1
    /\ repoKey \in [Destination!SopsFiles -> Nat] /\ \A f \in Destination!SopsFiles : repoKey[f] <= edits + 1
    /\ replaced \subseteq {"force", "unseen", "shadowed"}
    /\ paged \in {"none", "log", "page"}
    /\ edits \in Nat /\ edits <= MaxEdits["backup"] /\ faults \in Nat
    /\ \/ replaced \cap {"force", "unseen"} # {}
       \/ \A n \in Destination!NodeSet : repos[Destination!WrittenTo(n)].key \in {0, repoKey["common"]}

\* A node whose newest snapshot a password opens.
Covered(n, key) ==
    repos[Destination!WrittenTo(n)].key = key /\ repos[Destination!WrittenTo(n)].saved = TRUE

\* The command has what it has got so far with the rights that this takes.
CheckTyped ==
    /\ check \in Checks /\ said \in Verdicts
    /\ check.pc # "idle" => said = "nothing"
    /\ check.at >= 1 /\ check.probe <= edits /\ check.was <= edits + 1
    /\ check.pc # "idle" => check.probe >= 1
    /\ check.pc \in {"reach", "write", "read", "remove", "unreached"} => check.what \in {"destination", "health"}
    /\ check.pc \in {"password", "cover"} => check.what \in {"coverage", "health"}
    /\ check.pc = "notify" => check.what = "health"

ProbeHolds ==
    /\ check.pc = "write" => "list" \in rights
    /\ check.pc = "read" => {"list", "write"} \subseteq rights
    /\ check.pc = "remove" => {"list", "write"} \subseteq rights /\ (check.ok = TRUE => "read" \in rights)
    /\ check.pc \in {"password", "cover", "notify"} /\ check.what = "health" /\ check.dest = TRUE =>
          rights = Destination!Rights /\ check.probe \notin objects

CoverHolds ==
    /\ check.pc = "cover" /\ check.ok = TRUE =>
          \A k \in 1..(check.at - 1) : k <= Len(Nodes) => Covered(Nodes[k], check.key)
    /\ check.pc = "notify" /\ check.ok = TRUE => \A n \in Destination!NodeSet : Covered(n, check.key)

\* Where all was well when it began, and no call failed, nothing has gone wrong, as long
\* as the password is the same.
FineHolds ==
    check.fine = TRUE =>
        /\ rights = Destination!Rights /\ check.was # 0
        /\ \A n \in Destination!NodeSet : Covered(n, check.was)
        /\ check.hurt = FALSE =>
              /\ check.pc # "unreached"
              /\ check.pc = "remove" => check.ok = TRUE
              /\ check.pc \in {"password", "cover", "notify"} /\ check.what = "health" => check.dest = TRUE
              /\ check.pc = "cover" /\ Destination!InForce = check.was => check.key = check.was
              /\ check.pc \in {"cover", "notify"} /\ Destination!InForce = check.was => check.ok = TRUE

BackupInv == BucketHolds /\ CheckTyped /\ ProbeHolds /\ CoverHolds /\ FineHolds

\* The nodes and their repositories.
LEMMA NodesHold ==
  /\ Len(Nodes) \in Nat /\ \A i \in 1..Len(Nodes) : Nodes[i] \in Destination!NodeSet
  /\ \A n \in Destination!NodeSet : \E i \in 1..Len(Nodes) : n = Nodes[i]
  /\ \A n \in Destination!NodeSet : Destination!WrittenTo(n) \in Destination!Repos /\ Destination!WrittenTo(n) # Smoke
  /\ \A n : Destination!RepositoryName(n) = Destination!WrittenTo(n)
  /\ Smoke \in Destination!Repos
<1>1. \A n : Destination!RepositoryName(n) = Destination!WrittenTo(n)
  BY DEF Destination!RepositoryName, Destination!WrittenTo
<1>2. /\ Len(Nodes) \in Nat /\ \A i \in 1..Len(Nodes) : Nodes[i] \in Destination!NodeSet
      /\ \A n \in Destination!NodeSet : \E i \in 1..Len(Nodes) : n = Nodes[i]
  BY BackupAssumption DEF Destination!NodeSet
<1>3. /\ \A n \in Destination!NodeSet : Destination!WrittenTo(n) \in Destination!Repos
      /\ Smoke \in Destination!Repos
  BY DEF Destination!Repos
<1> QED
  BY <1>1, <1>2, <1>3, BackupAssumption

\* The passwords there are.
LEMMA ForceHolds ==
  ASSUME BucketHolds
  PROVE  /\ Destination!InForce \in Nat /\ Destination!InForce <= edits + 1
         /\ repoKey["common"] \in Nat /\ repoKey["common"] <= edits + 1
         /\ repoKey["env"] \in Nat /\ repoKey["env"] <= edits + 1
         /\ Destination!InForce = 0 => repoKey["common"] = 0 /\ repoKey["env"] = 0
BY DEF BucketHolds, Destination!InForce, Destination!SopsFiles

\* Where the files stay, so does the password in force.
LEMMA ForceStays == ASSUME repoKey' = repoKey PROVE Destination!InForce' = Destination!InForce
BY DEF Destination!InForce

\* A command that is over.
LEMMA NoCheck ==
  /\ Destination!Idle \in Checks /\ Destination!Idle.pc = "idle" /\ Destination!Idle.at = 1
  /\ Destination!Idle.probe = 0 /\ Destination!Idle.key = 0 /\ Destination!Idle.was = 0
  /\ Destination!Idle.fine = FALSE /\ Destination!Idle.hurt = FALSE
BY DEF Destination!Idle, Checks

\* The end of a command.
LEMMA CheckEnds ==
  ASSUME BucketHolds', NEW r \in Verdicts, Destination!End(r)
  PROVE  BackupInv'
<1>1. check' = Destination!Idle /\ said' = r
  BY DEF Destination!End
<1>2. CheckTyped'
  <2>0. edits' \in Nat
    BY DEF BucketHolds
  <2>1. 0 <= edits' /\ 0 <= edits' + 1
    <3>1. \A e \in Nat : 0 <= e /\ 0 <= e + 1
      OBVIOUS
    <3> QED
      BY <2>0, <3>1
  <2> QED
    BY <1>1, <2>1, NoCheck DEF CheckTyped
<1>3. ProbeHolds' /\ CoverHolds' /\ FineHolds'
  BY <1>1, NoCheck DEF ProbeHolds, CoverHolds, FineHolds
<1> QED
  BY <1>2, <1>3 DEF BackupInv

\* What a call leaves alone.
Kept == <<rights, repos, repoKey, replaced, edits>>

\* The bucket after a call.
LEMMA BucketStays ==
  ASSUME BackupInv, UNCHANGED Kept, faults' \in Nat, paged' \in {"none", "log", "page"},
         \A o \in objects' : o \in objects \/ (o = check.probe /\ check.probe >= 1)
  PROVE  BucketHolds'
<1>0. check.probe \in Nat /\ check.probe <= edits
  BY DEF BackupInv, CheckTyped, Checks
<1>1. replaced' \subseteq {"force", "unseen", "shadowed"}
  BY DEF BackupInv, BucketHolds, Kept
<1>2. \A o \in objects' : o \in Nat /\ 1 <= o /\ o <= edits
  BY <1>0 DEF BackupInv, BucketHolds
<1> QED
  BY <1>1, <1>2 DEF BackupInv, BucketHolds, Kept

\* The beginning of one: it has the next number, and nothing has gone wrong.
LEMMA CheckBegins ==
  ASSUME BackupInv, NEW what \in {"destination", "coverage", "health", "restic"},
         NEW label \in {"reach", "password", "init"}, Destination!Start(what, label),
         label = "reach" => what \in {"destination", "health"},
         label = "password" => what = "coverage"
  PROVE  BackupInv'
<1> DEFINE fine == Destination!Usable /\ Destination!AllCovered(Destination!InForce)
           j == [Destination!Idle EXCEPT !.pc = label, !.what = what, !.probe = edits + 1, !.was = Destination!InForce,
                                         !.fine = fine]
<1>0. /\ UNCHANGED <<rights, objects, repos, repoKey, replaced, paged, faults>> /\ said' = "nothing"
      /\ edits' = edits + 1 /\ edits < MaxEdits["backup"] /\ check' = j
  BY DEF Destination!Start, Destination!Hand, Destination!bucket
<1>1. fine \in BOOLEAN
  OBVIOUS
<1>2. /\ fine = TRUE => rights = Destination!Rights /\ Destination!InForce # 0
      /\ fine = TRUE => \A n \in Destination!NodeSet : Covered(n, Destination!InForce)
  <2>1. \A n \in Destination!NodeSet : repos[Destination!WrittenTo(n)].saved \in BOOLEAN
    BY NodesHold DEF BackupInv, BucketHolds, Repositories
  <2> QED
    BY <2>1 DEF Destination!Usable, Destination!AllCovered, Destination!Covers, Covered
<1>3. /\ edits \in Nat /\ MaxEdits["backup"] \in Nat /\ edits + 1 \in Nat
      /\ Destination!InForce \in Nat /\ Destination!InForce <= edits + 1
  BY EditsAssumption, ForceHolds DEF BackupInv, BucketHolds
<1> HIDE DEF fine
<1>4. /\ j \in Checks /\ j.pc = label /\ j.what = what /\ j.at = 1 /\ j.probe = edits + 1 /\ j.was = Destination!InForce
      /\ j.fine = fine /\ j.hurt = FALSE /\ j.key = 0 /\ j.dest = TRUE /\ j.ok = TRUE
  BY <1>1, <1>3 DEF Destination!Idle, Checks
<1> HIDE DEF j
<1>5. BucketHolds'
  <2>1. replaced' \subseteq {"force", "unseen", "shadowed"}
    BY <1>0 DEF BackupInv, BucketHolds
  <2>2. /\ \A f \in Destination!SopsFiles : repoKey[f] <= edits' + 1
        /\ \A r \in Destination!Repos : repos[r].key <= edits' + 1
    BY <1>0, <1>3, NextLater DEF BackupInv, BucketHolds, Repositories
  <2>3. \A o \in objects' : o \in Nat /\ 1 <= o /\ o <= edits'
    BY <1>0, <1>3 DEF BackupInv, BucketHolds
  <2>4. edits' \in Nat /\ edits' <= MaxEdits["backup"]
    BY <1>0, <1>3
  <2> QED
    BY <1>0, <2>1, <2>2, <2>3, <2>4 DEF BackupInv, BucketHolds
<1>6. CheckTyped'
  <2>1. Destination!InForce <= edits' + 1
    BY <1>0, <1>3
  <2> QED
    BY <1>0, <1>3, <1>4, <2>1 DEF CheckTyped, Verdicts
<1>7. \A o \in objects : o # edits + 1
  BY <1>3 DEF BackupInv, BucketHolds
<1>8. ProbeHolds' /\ CoverHolds'
  BY <1>0, <1>4 DEF ProbeHolds, CoverHolds
<1>9. FineHolds'
  BY <1>0, <1>2, <1>4 DEF FineHolds, Covered
<1> QED
  BY <1>5, <1>6, <1>8, <1>9 DEF BackupInv

\* The end of the probe of the bucket, of which the health makes use.
LEMMA ProbedStep ==
  ASSUME BackupInv, NEW b \in BOOLEAN, Destination!Probed(b), BucketHolds', UNCHANGED Kept,
         check.pc \in {"reach", "write", "remove", "unreached"},
         b = TRUE => rights = Destination!Rights /\ check.probe \notin objects',
         b = FALSE /\ check.fine = TRUE => check.hurt = TRUE
  PROVE  BackupInv'
<1>1. CASE check.what = "health"
  <2>1. check' = [check EXCEPT !.pc = "password", !.dest = b] /\ said' = said
    BY <1>1 DEF Destination!Probed
  <2>2. /\ check' \in Checks /\ check'.pc = "password" /\ check'.what = check.what /\ check'.at = check.at
        /\ check'.probe = check.probe /\ check'.was = check.was /\ check'.fine = check.fine /\ check'.hurt = check.hurt
        /\ check'.key = check.key /\ check'.dest = b
    BY <2>1 DEF BackupInv, CheckTyped, Checks
  <2>3. CheckTyped'
    BY <1>1, <2>1, <2>2 DEF BackupInv, CheckTyped, Kept
  <2>4. ProbeHolds' /\ CoverHolds'
    BY <2>2 DEF ProbeHolds, CoverHolds, Kept
  <2>5. FineHolds'
    <3>1. check.hurt \in BOOLEAN
      BY DEF BackupInv, CheckTyped, Checks
    <3> QED
      BY <2>2, <3>1, ForceStays DEF BackupInv, FineHolds, Covered, Kept
  <2> QED
    BY <2>3, <2>4, <2>5 DEF BackupInv
<1>2. CASE check.what # "health"
  <2>1. \E r \in {"usable", "failed"} : Destination!End(r)
    BY <1>2 DEF Destination!Probed
  <2> QED
    BY <2>1, CheckEnds DEF Verdicts
<1> QED
  BY <1>1, <1>2

\* The step to the next call of the probe, with what is known then.
LEMMA ProbeGoesOn ==
  ASSUME BackupInv, BucketHolds', UNCHANGED Kept, said' = said,
         NEW l \in {"write", "read", "remove", "unreached"},
         check.pc \in {"reach", "write", "read", "remove"},
         check' \in Checks, check'.pc = l, check'.what = check.what, check'.at >= 1, check'.probe = check.probe,
         check'.was = check.was, check'.fine = check.fine, check'.hurt = FALSE => check.hurt = FALSE,
         l = "write" => "list" \in rights,
         l = "read" => {"list", "write"} \subseteq rights,
         l = "remove" => {"list", "write"} \subseteq rights /\ (check'.ok = TRUE => "read" \in rights),
         l = "remove" /\ check'.ok = FALSE => rights # Destination!Rights \/ check'.hurt = TRUE,
         l = "unreached" => check'.hurt = TRUE
  PROVE  BackupInv'
<1>1. CheckTyped'
  BY DEF BackupInv, CheckTyped, Kept
<1>2. ProbeHolds' /\ CoverHolds'
  BY DEF ProbeHolds, CoverHolds, Kept
<1>3. FineHolds'
  <2>1. check'.ok \in BOOLEAN
    BY DEF Checks
  <2> QED
    BY <2>1, ForceStays DEF BackupInv, FineHolds, Covered, Kept
<1> QED
  BY <1>1, <1>2, <1>3 DEF BackupInv

\* The probe of the bucket, call by call.
LEMMA ProbeStep ==
  ASSUME BackupInv,
         \/ Destination!Reach \/ Destination!Write \/ Destination!ReadBack \/ Destination!Remove
         \/ Destination!Unreached
  PROVE  BackupInv'
<1>0. /\ UNCHANGED Kept /\ paged' = paged
      /\ check.pc \in {"reach", "write", "read", "remove", "unreached"} /\ check \in Checks
  BY DEF Destination!Reach, Destination!Write, Destination!ReadBack, Destination!Remove, Destination!Unreached, Kept,
     Destination!bucket, BackupInv, CheckTyped
<1>f. faults' \in Nat
  <2>1. faults' \in {faults, faults + 1} /\ faults \in Nat
    BY DEF Destination!Reach, Destination!Write, Destination!ReadBack, Destination!Remove, Destination!Unreached,
       Destination!Fault, BackupInv, BucketHolds
  <2> QED
    BY <2>1
<1>t. check.at \in Nat /\ check.probe \in Nat /\ check.hurt \in BOOLEAN /\ check.ok \in BOOLEAN /\ check.dest \in BOOLEAN
  BY <1>0 DEF Checks
<1>p. paged' \in {"none", "log", "page"}
  BY <1>0 DEF BackupInv, BucketHolds
<1>m. ASSUME NEW l \in {"write", "read", "remove", "unreached"}, NEW a \in Nat, NEW o \in BOOLEAN, NEW h \in BOOLEAN,
             \/ check' = [check EXCEPT !.pc = l, !.at = a] /\ o = check.ok /\ h = check.hurt
             \/ check' = [check EXCEPT !.pc = l, !.hurt = h] /\ o = check.ok /\ a = check.at
             \/ check' = [check EXCEPT !.pc = l, !.ok = o] /\ h = check.hurt /\ a = check.at
             \/ check' = [check EXCEPT !.pc = l, !.ok = o, !.hurt = h] /\ a = check.at
      PROVE  /\ check' \in Checks /\ check'.pc = l /\ check'.what = check.what /\ check'.at = a
             /\ check'.probe = check.probe /\ check'.was = check.was /\ check'.fine = check.fine
             /\ check'.ok = o /\ check'.hurt = h
  BY <1>0, <1>m DEF Checks
<1>a. check.at >= 1
  BY DEF BackupInv, CheckTyped
<1>s. CASE check.pc \in {"reach", "read", "unreached"} /\ objects' = objects
  <2>1. BucketHolds'
    BY <1>0, <1>f, <1>p, <1>s, BucketStays
  <2>2. CASE Destination!Reach
    <3>0. check.pc = "reach"
      BY <2>2 DEF Destination!Reach
    <3>1. CASE "list" \in rights /\ Destination!GoTo("write") /\ said' = said
      <4>1. check' = [check EXCEPT !.pc = "write", !.at = 1]
        BY <3>1 DEF Destination!GoTo
      <4>2. /\ check' \in Checks /\ check'.pc = "write" /\ check'.what = check.what /\ check'.at = 1
            /\ check'.probe = check.probe /\ check'.was = check.was /\ check'.fine = check.fine
            /\ check'.ok = check.ok /\ check'.hurt = check.hurt
        BY <1>m, <1>t, <4>1
      <4>3. check'.at >= 1 /\ (check'.hurt = FALSE => check.hurt = FALSE)
        BY <4>2
      <4> QED
        BY <1>0, <2>1, <3>0, <3>1, <4>2, <4>3, ProbeGoesOn
    <3>2. CASE "list" \notin rights /\ Destination!Probed(FALSE)
      <4>1. rights # Destination!Rights
        BY <3>2 DEF Destination!Rights
      <4>2. check.fine # TRUE
        BY <4>1 DEF BackupInv, FineHolds
      <4> QED
        BY <1>0, <2>1, <3>0, <3>2, <4>2, ProbedStep, FALSE \in BOOLEAN
    <3>3. CASE check' = [check EXCEPT !.pc = "unreached", !.hurt = TRUE] /\ said' = said
      <4>1. /\ check' \in Checks /\ check'.pc = "unreached" /\ check'.what = check.what /\ check'.at = check.at
            /\ check'.probe = check.probe /\ check'.was = check.was /\ check'.fine = check.fine /\ check'.hurt = TRUE
        BY <1>m, <1>t, <3>3, TRUE \in BOOLEAN
      <4> QED
        BY <1>0, <1>a, <2>1, <3>0, <3>3, <4>1, ProbeGoesOn
    <3> QED
      BY <2>2, <3>1, <3>2, <3>3 DEF Destination!Reach
  <2>3. CASE Destination!ReadBack
    <3> DEFINE b == "read" \in rights
    <3>0. check.pc = "read" /\ {"list", "write"} \subseteq rights
      BY <2>3 DEF Destination!ReadBack, BackupInv, ProbeHolds
    <3>b. b \in BOOLEAN /\ (b = TRUE => "read" \in rights) /\ (b = FALSE => rights # Destination!Rights)
      BY DEF Destination!Rights
    <3>c. \/ check' = [check EXCEPT !.pc = "remove", !.ok = b] /\ said' = said
          \/ check' = [check EXCEPT !.pc = "remove", !.ok = FALSE, !.hurt = TRUE] /\ said' = said
          \/ Destination!End("crashed")
      BY <2>3 DEF Destination!ReadBack
    <3> HIDE DEF b
    <3>1. CASE check' = [check EXCEPT !.pc = "remove", !.ok = b] /\ said' = said
      <4>1. /\ check' \in Checks /\ check'.pc = "remove" /\ check'.what = check.what /\ check'.at = check.at
            /\ check'.probe = check.probe /\ check'.was = check.was /\ check'.fine = check.fine
            /\ check'.ok = b /\ check'.hurt = check.hurt
        BY <1>m, <1>t, <3>1, <3>b
      <4> QED
        BY <1>0, <1>a, <2>1, <3>0, <3>1, <3>b, <4>1, ProbeGoesOn
    <3>2. CASE check' = [check EXCEPT !.pc = "remove", !.ok = FALSE, !.hurt = TRUE] /\ said' = said
      <4>1. /\ check' \in Checks /\ check'.pc = "remove" /\ check'.what = check.what /\ check'.at = check.at
            /\ check'.probe = check.probe /\ check'.was = check.was /\ check'.fine = check.fine
            /\ check'.ok = FALSE /\ check'.hurt = TRUE
        BY <1>m, <1>t, <3>2, TRUE \in BOOLEAN, FALSE \in BOOLEAN
      <4> QED
        BY <1>0, <1>a, <2>1, <3>0, <3>2, <4>1, ProbeGoesOn
    <3>3. CASE Destination!End("crashed")
      BY <2>1, <3>3, CheckEnds DEF Verdicts
    <3> QED
      BY <3>1, <3>2, <3>3, <3>c
  <2>4. CASE Destination!Unreached
    <3>0. check.pc = "unreached"
      BY <2>4 DEF Destination!Unreached
    <3>1. check.fine = TRUE => check.hurt = TRUE
      BY <1>t, <3>0 DEF BackupInv, FineHolds
    <3>2. CASE Destination!Probed(FALSE)
      BY <1>0, <2>1, <3>0, <3>1, <3>2, ProbedStep, FALSE \in BOOLEAN
    <3>3. CASE Destination!End("crashed")
      BY <2>1, <3>3, CheckEnds DEF Verdicts
    <3> QED
      BY <2>4, <3>2, <3>3 DEF Destination!Unreached
  <2>5. ~Destination!Write /\ ~Destination!Remove
    BY <1>s DEF Destination!Write, Destination!Remove
  <2> QED
    BY <2>2, <2>3, <2>4, <2>5
<1>w. CASE Destination!Write
  <2>0. check.pc = "write" /\ "list" \in rights
    BY <1>w DEF Destination!Write, BackupInv, ProbeHolds
  <2>1. \A o \in objects' : o \in objects \/ (o = check.probe /\ check.probe >= 1)
    BY <1>w, <2>0 DEF Destination!Write, BackupInv, CheckTyped
  <2>2. BucketHolds'
    BY <1>0, <1>f, <1>p, <2>0, <2>1, BucketStays
  <2>3. CASE "write" \in rights /\ Destination!GoTo("read") /\ said' = said
    <3>1. check' = [check EXCEPT !.pc = "read", !.at = 1]
      BY <2>3 DEF Destination!GoTo
    <3>2. /\ check' \in Checks /\ check'.pc = "read" /\ check'.what = check.what /\ check'.at = 1
          /\ check'.probe = check.probe /\ check'.was = check.was /\ check'.fine = check.fine
          /\ check'.ok = check.ok /\ check'.hurt = check.hurt
      BY <1>m, <1>t, <3>1
    <3>3. check'.at >= 1 /\ (check'.hurt = FALSE => check.hurt = FALSE) /\ {"list", "write"} \subseteq rights
      BY <2>0, <2>3, <3>2
    <3> QED
      BY <1>0, <2>0, <2>2, <2>3, <3>2, <3>3, ProbeGoesOn
  <2>4. CASE "write" \notin rights /\ Destination!Probed(FALSE)
    <3>1. rights # Destination!Rights
      BY <2>4 DEF Destination!Rights
    <3>2. check.fine # TRUE
      BY <3>1 DEF BackupInv, FineHolds
    <3> QED
      BY <1>0, <2>0, <2>2, <2>4, <3>2, ProbedStep, FALSE \in BOOLEAN
  <2>5. CASE check' = [check EXCEPT !.pc = "unreached", !.hurt = TRUE] /\ said' = said
    <3>1. /\ check' \in Checks /\ check'.pc = "unreached" /\ check'.what = check.what /\ check'.at = check.at
          /\ check'.probe = check.probe /\ check'.was = check.was /\ check'.fine = check.fine /\ check'.hurt = TRUE
      BY <1>m, <1>t, <2>5, TRUE \in BOOLEAN
    <3> QED
      BY <1>0, <1>a, <2>0, <2>2, <2>5, <3>1, ProbeGoesOn
  <2> QED
    BY <1>w, <2>3, <2>4, <2>5 DEF Destination!Write
<1>r. CASE Destination!Remove
  <2>0. /\ check.pc = "remove" /\ {"list", "write"} \subseteq rights /\ (check.ok = TRUE => "read" \in rights)
        /\ check.ok = FALSE /\ check.fine = TRUE => check.hurt = TRUE
    BY <1>r, <1>t DEF Destination!Remove, BackupInv, ProbeHolds, FineHolds
  <2>1. \A o \in objects' : o \in objects
    BY <1>r DEF Destination!Remove
  <2>2. BucketHolds'
    BY <1>0, <1>f, <1>p, <2>1, BucketStays
  <2>3. CASE "delete" \in rights /\ objects' = objects \ {check.probe} /\ Destination!Probed(check.ok)
    <3>1. check.ok = TRUE => rights = Destination!Rights /\ check.probe \notin objects'
      BY <2>0, <2>3 DEF Destination!Rights, BackupInv, BucketHolds
    <3> QED
      BY <1>0, <1>t, <2>0, <2>2, <2>3, <3>1, ProbedStep
  <2>4. CASE "delete" \notin rights /\ Destination!Probed(FALSE)
    <3>1. rights # Destination!Rights
      BY <2>4 DEF Destination!Rights
    <3>2. check.fine # TRUE
      BY <3>1 DEF BackupInv, FineHolds
    <3> QED
      BY <1>0, <2>0, <2>2, <2>4, <3>2, ProbedStep, FALSE \in BOOLEAN
  <2>5. CASE check' = [check EXCEPT !.pc = "unreached", !.hurt = TRUE] /\ said' = said
    <3>1. /\ check' \in Checks /\ check'.pc = "unreached" /\ check'.what = check.what /\ check'.at = check.at
          /\ check'.probe = check.probe /\ check'.was = check.was /\ check'.fine = check.fine /\ check'.hurt = TRUE
      BY <1>m, <1>t, <2>5, TRUE \in BOOLEAN
    <3> QED
      BY <1>0, <1>a, <2>0, <2>2, <2>5, <3>1, ProbeGoesOn
  <2> QED
    BY <1>r, <2>3, <2>4, <2>5 DEF Destination!Remove
<1> QED
  <2>1. ASSUME Destination!Reach \/ Destination!ReadBack \/ Destination!Unreached PROVE BackupInv'
    <3>1. check.pc \in {"reach", "read", "unreached"} /\ objects' = objects
      BY <2>1 DEF Destination!Reach, Destination!ReadBack, Destination!Unreached, Destination!bucket
    <3> QED
      BY <1>s, <3>1
  <2> QED
    BY <1>r, <1>w, <2>1

\* The end of the coverage, of which the health makes use.
LEMMA CountedStep ==
  ASSUME BackupInv, NEW b \in BOOLEAN, Destination!Counted(b), UNCHANGED Kept, objects' = objects,
         paged' = paged, faults' \in Nat, check.pc \in {"password", "cover"},
         b = TRUE => \A n \in Destination!NodeSet : Covered(n, check.key),
         b = FALSE /\ check.fine = TRUE => check.hurt = TRUE \/ Destination!InForce # check.was
  PROVE  BackupInv'
<1>0. check \in Checks /\ paged' \in {"none", "log", "page"} /\ check.hurt \in BOOLEAN
  BY DEF BackupInv, CheckTyped, BucketHolds, Checks
<1>1. BucketHolds'
  BY <1>0, BucketStays
<1>2. CASE check.what = "health"
  <2>1. check' = [check EXCEPT !.pc = "notify", !.ok = b] /\ said' = said
    BY <1>2 DEF Destination!Counted
  <2>2. /\ check' \in Checks /\ check'.pc = "notify" /\ check'.what = check.what /\ check'.at = check.at
        /\ check'.probe = check.probe /\ check'.was = check.was /\ check'.fine = check.fine /\ check'.hurt = check.hurt
        /\ check'.key = check.key /\ check'.dest = check.dest /\ check'.ok = b
    BY <1>0, <2>1 DEF Checks
  <2>3. CheckTyped'
    BY <1>2, <2>1, <2>2 DEF BackupInv, CheckTyped, Kept
  <2>4. ProbeHolds'
    BY <2>2 DEF BackupInv, ProbeHolds, Kept
  <2>5. CoverHolds'
    BY <2>2 DEF CoverHolds, Covered, Kept
  <2>6. FineHolds'
    BY <1>0, <2>2, ForceStays DEF BackupInv, FineHolds, Covered, Kept
  <2> QED
    BY <1>1, <2>3, <2>4, <2>5, <2>6 DEF BackupInv
<1>3. CASE check.what # "health"
  <2>1. \E r \in {"covered", "uncovered"} : Destination!End(r)
    BY <1>3 DEF Destination!Counted
  <2> QED
    BY <1>1, <2>1, CheckEnds DEF Verdicts
<1> QED
  BY <1>2, <1>3

\* The coverage, node by node.
LEMMA CoverStep ==
  ASSUME BackupInv, Destination!ReadPassword \/ Destination!Cover
  PROVE  BackupInv'
<1>0. /\ UNCHANGED Kept /\ objects' = objects /\ paged' = paged
      /\ check.pc \in {"password", "cover"} /\ check \in Checks
  BY DEF Destination!ReadPassword, Destination!Cover, Kept, Destination!bucket, BackupInv, CheckTyped
<1>f. faults' \in Nat
  <2>1. faults' \in {faults, faults + 1} /\ faults \in Nat
    BY DEF Destination!ReadPassword, Destination!Cover, Destination!Fault, BackupInv, BucketHolds
  <2> QED
    BY <2>1
<1>t. /\ check.at \in Nat /\ check.at >= 1 /\ check.hurt \in BOOLEAN /\ check.ok \in BOOLEAN
      /\ check.was \in Nat /\ check.key \in Nat /\ Destination!InForce \in Nat
  BY <1>0, ForceHolds DEF Checks, BackupInv, CheckTyped
<1>k. {0, repoKey["common"]} \subseteq Nat
  BY ForceHolds DEF BackupInv
<1>p. paged' \in {"none", "log", "page"}
  BY <1>0 DEF BackupInv, BucketHolds
<1>b. BucketHolds'
  BY <1>0, <1>f, <1>p, BucketStays
<1>1. CASE Destination!ReadPassword /\ Destination!InForce = 0 /\ Destination!Counted(FALSE)
  <2>1. check.fine = TRUE => Destination!InForce # check.was
    BY <1>1 DEF BackupInv, FineHolds
  <2> QED
    BY <1>0, <1>f, <1>1, <2>1, CountedStep, FALSE \in BOOLEAN
<1>2. ASSUME Destination!ReadPassword, said' = said,
             NEW key \in Nat, NEW a \in Nat, NEW good \in BOOLEAN, NEW h \in BOOLEAN,
             check' \in Checks, check'.pc = "cover", check'.what = check.what, check'.at = a,
             check'.probe = check.probe, check'.was = check.was, check'.fine = check.fine,
             check'.key = key, check'.dest = check.dest, check'.ok = good, check'.hurt = h,
             a >= 1, good = TRUE => a = 1,
             h = FALSE => check.hurt = FALSE /\ key = Destination!InForce /\ good = TRUE
      PROVE  BackupInv'
  <2>1. check.pc = "password"
    BY <1>2 DEF Destination!ReadPassword
  <2>3. CheckTyped'
    BY <1>0, <1>t, <1>2, <2>1 DEF BackupInv, CheckTyped, Kept
  <2>4. ProbeHolds'
    BY <1>0, <1>2, <2>1 DEF BackupInv, ProbeHolds, Kept
  <2>5. CoverHolds'
    BY <1>2 DEF CoverHolds
  <2>6. FineHolds'
    BY <1>0, <1>t, <1>2, <2>1, ForceStays DEF BackupInv, FineHolds, Covered, Kept
  <2> QED
    BY <1>b, <2>3, <2>4, <2>5, <2>6 DEF BackupInv
<1>5. CASE /\ Destination!ReadPassword /\ said' = said
           /\ check' = [check EXCEPT !.pc = "cover", !.at = 1, !.key = Destination!InForce, !.ok = TRUE]
  <2>2. /\ check' \in Checks /\ check'.pc = "cover" /\ check'.what = check.what /\ check'.at = 1
        /\ check'.probe = check.probe /\ check'.was = check.was /\ check'.fine = check.fine /\ check'.hurt = check.hurt
        /\ check'.key = Destination!InForce /\ check'.dest = check.dest /\ check'.ok = TRUE
    BY <1>0, <1>t, <1>5 DEF Checks
  <2>3. TRUE \in BOOLEAN /\ 1 \in Nat /\ 1 >= 1
    OBVIOUS
  <2> QED
    BY <1>2, <1>5, <1>t, <2>2, <2>3
<1>6. ASSUME Destination!ReadPassword, said' = said, NEW key \in {0, repoKey["common"]},
             check' = [check EXCEPT !.pc = "cover", !.at = IF key = 0 THEN Len(Nodes) + 1 ELSE 1, !.key = key,
                                    !.ok = (key # 0), !.hurt = TRUE]
      PROVE  BackupInv'
  <2> DEFINE a == IF key = 0 THEN Len(Nodes) + 1 ELSE 1
             good == key # 0
  <2>1. a \in Nat /\ a >= 1 /\ key \in Nat
    BY <1>k, <1>6, NodesHold
  <2>2. good \in BOOLEAN /\ (good = TRUE => a = 1)
    OBVIOUS
  <2>3. check' = [check EXCEPT !.pc = "cover", !.at = a, !.key = key, !.ok = good, !.hurt = TRUE]
    BY <1>6
  <2> HIDE DEF a, good
  <2>4. /\ check' \in Checks /\ check'.pc = "cover" /\ check'.what = check.what /\ check'.at = a
        /\ check'.probe = check.probe /\ check'.was = check.was /\ check'.fine = check.fine /\ check'.hurt = TRUE
        /\ check'.key = key /\ check'.dest = check.dest /\ check'.ok = good
    BY <1>0, <2>1, <2>2, <2>3 DEF Checks
  <2> QED
    BY <1>2, <1>6, <2>1, <2>2, <2>4, TRUE \in BOOLEAN
<1>3. CASE Destination!Cover /\ check.at > Len(Nodes)
  <2>1. Destination!Counted(check.ok) /\ check.pc = "cover"
    BY <1>3, <1>t, NodesHold DEF Destination!Cover
  <2>2. check.ok = TRUE => \A n \in Destination!NodeSet : Covered(n, check.key)
    <3>1. \A i \in 1..Len(Nodes) : i \in 1..(check.at - 1) /\ i <= Len(Nodes)
      BY <1>3, <1>t, NodesHold
    <3> QED
      BY <2>1, <3>1, NodesHold DEF BackupInv, CoverHolds
  <2>3. check.ok = FALSE /\ check.fine = TRUE => check.hurt = TRUE \/ Destination!InForce # check.was
    BY <1>t, <2>1 DEF BackupInv, FineHolds
  <2> QED
    BY <1>0, <1>f, <1>t, <2>1, <2>2, <2>3, CountedStep
<1>4. CASE Destination!Cover /\ check.at <= Len(Nodes)
  <2> DEFINE c == check.ok /\ Destination!Covers(Destination!RepositoryName(Nodes[check.at]), check.key)
  <2>0. check.pc = "cover" /\ Nodes[check.at] \in Destination!NodeSet
    BY <1>4, <1>t, NodesHold DEF Destination!Cover
  <2>c. c \in BOOLEAN /\ (c = TRUE => check.ok = TRUE /\ Covered(Nodes[check.at], check.key))
        /\ (c = FALSE => check.ok = FALSE \/ ~Covered(Nodes[check.at], check.key))
    <3>1. repos[Destination!WrittenTo(Nodes[check.at])].saved \in BOOLEAN
      BY <2>0, NodesHold DEF BackupInv, BucketHolds, Repositories
    <3> QED
      BY <1>t, <3>1, NodesHold DEF Destination!Covers, Covered
  <2>1. \/ check' = [check EXCEPT !.at = @ + 1, !.ok = c] /\ said' = said
        \/ check' = [check EXCEPT !.at = @ + 1, !.ok = FALSE, !.hurt = TRUE] /\ said' = said
        \/ Destination!End("crashed")
    BY <1>4, <1>t, NodesHold DEF Destination!Cover
  <2> HIDE DEF c
  <2>2. CASE Destination!End("crashed")
    BY <1>b, <2>2, CheckEnds DEF Verdicts
  <2>3. ASSUME NEW o \in BOOLEAN, NEW h \in BOOLEAN, said' = said,
               check' \in Checks, check'.pc = "cover", check'.what = check.what, check'.at = check.at + 1,
               check'.probe = check.probe, check'.was = check.was, check'.fine = check.fine,
               check'.key = check.key, check'.dest = check.dest, check'.ok = o, check'.hurt = h,
               o = TRUE => c = TRUE, h = FALSE => check.hurt = FALSE /\ o = c
        PROVE  BackupInv'
    <3>1. CheckTyped'
      BY <1>0, <1>t, <2>0, <2>3 DEF BackupInv, CheckTyped, Kept
    <3>2. ProbeHolds'
      BY <1>0, <2>0, <2>3 DEF BackupInv, ProbeHolds, Kept
    <3>3. CoverHolds'
      <4>1. ASSUME o = TRUE, NEW k \in 1..(check'.at - 1), k <= Len(Nodes)
            PROVE  Covered(Nodes[k], check.key)
        <5>1. CASE k = check.at
          BY <2>3, <2>c, <4>1, <5>1
        <5>2. CASE k # check.at
          <6>1. k \in 1..(check.at - 1)
            BY <1>t, <2>3, <4>1, <5>2
          <6> QED
            BY <2>0, <2>3, <2>c, <4>1, <6>1 DEF BackupInv, CoverHolds
        <5> QED
          BY <5>1, <5>2
      <4> QED
        BY <1>0, <2>3, <4>1 DEF CoverHolds, Covered, Kept
    <3>4. FineHolds'
      <4>1. ASSUME check.fine = TRUE, h = FALSE, Destination!InForce = check.was PROVE o = TRUE
        <5>1. check.ok = TRUE /\ check.key = check.was
          BY <1>t, <2>0, <2>3, <4>1 DEF BackupInv, FineHolds
        <5>2. Covered(Nodes[check.at], check.key)
          BY <2>0, <4>1, <5>1 DEF BackupInv, FineHolds
        <5> QED
          BY <2>3, <2>c, <4>1, <5>1, <5>2
      <4>2. h = FALSE => check.hurt = FALSE
        BY <2>3
      <4> QED
        BY <1>0, <2>0, <2>3, <4>1, <4>2, ForceStays DEF BackupInv, FineHolds, Covered, Kept
    <3> QED
      BY <1>b, <3>1, <3>2, <3>3, <3>4 DEF BackupInv
  <2>4. CASE check' = [check EXCEPT !.at = @ + 1, !.ok = c] /\ said' = said
    <3>1. /\ check' \in Checks /\ check'.pc = "cover" /\ check'.what = check.what /\ check'.at = check.at + 1
          /\ check'.probe = check.probe /\ check'.was = check.was /\ check'.fine = check.fine
          /\ check'.key = check.key /\ check'.dest = check.dest /\ check'.ok = c /\ check'.hurt = check.hurt
      <4>1. check.at + 1 \in Nat
        BY <1>t
      <4>2. c \in BOOLEAN
        BY <2>c
      <4> QED
        BY <1>0, <2>0, <2>4, <4>1, <4>2 DEF Checks
    <3> QED
      BY <1>t, <2>3, <2>4, <2>c, <3>1
  <2>5. CASE check' = [check EXCEPT !.at = @ + 1, !.ok = FALSE, !.hurt = TRUE] /\ said' = said
    <3>1. /\ check' \in Checks /\ check'.pc = "cover" /\ check'.what = check.what /\ check'.at = check.at + 1
          /\ check'.probe = check.probe /\ check'.was = check.was /\ check'.fine = check.fine
          /\ check'.key = check.key /\ check'.dest = check.dest /\ check'.ok = FALSE /\ check'.hurt = TRUE
      <4>1. check.at + 1 \in Nat
        BY <1>t
      <4> QED
        BY <1>0, <2>0, <2>5, <4>1 DEF Checks
    <3> QED
      BY <2>3, <2>5, <3>1, TRUE \in BOOLEAN, FALSE \in BOOLEAN
  <2> QED
    BY <2>1, <2>2, <2>4, <2>5
<1> QED
  <2>1. Destination!Cover => check.at > Len(Nodes) \/ check.at <= Len(Nodes)
    BY <1>t, NodesHold
  <2>2. ASSUME Destination!ReadPassword PROVE BackupInv'
    <3>1. \/ Destination!InForce = 0 /\ Destination!Counted(FALSE)
          \/ /\ said' = said
             /\ check' = [check EXCEPT !.pc = "cover", !.at = 1, !.key = Destination!InForce, !.ok = TRUE]
          \/ /\ said' = said
             /\ \E key \in {0, repoKey["common"]} :
                   check' = [check EXCEPT !.pc = "cover", !.at = IF key = 0 THEN Len(Nodes) + 1 ELSE 1, !.key = key,
                                          !.ok = (key # 0), !.hurt = TRUE]
      BY <2>2 DEF Destination!ReadPassword
    <3> QED
      BY <1>1, <1>5, <1>6, <2>2, <3>1
  <2> QED
    BY <1>3, <1>4, <2>1, <2>2

\* The life of the probe repository, which is no node's.
LEMMA RepoStep ==
  ASSUME BackupInv, Destination!InitRepo \/ Destination!UseRepo \/ Destination!DiscardRepo
  PROVE  BackupInv'
<1>0. /\ UNCHANGED <<rights, objects, repoKey, replaced, edits, paged>>
      /\ check.pc \in {"init", "use", "discard"} /\ check \in Checks
  BY DEF Destination!InitRepo, Destination!UseRepo, Destination!DiscardRepo, BackupInv, CheckTyped
<1>f. faults' \in Nat
  <2>1. faults' \in {faults, faults + 1} /\ faults \in Nat
    BY DEF Destination!InitRepo, Destination!UseRepo, Destination!DiscardRepo, Destination!Fault, BackupInv, BucketHolds
  <2> QED
    BY <2>1
<1>t. edits \in Nat /\ repos \in [Destination!Repos -> Repositories]
  BY DEF BackupInv, BucketHolds
<1>k. \A key \in {Destination!InForce, 0, repoKey["common"]} : key \in Nat /\ key <= edits + 1
  BY <1>t, ForceHolds DEF BackupInv
<1>1. \/ repos' = repos
      \/ \E e \in Repositories : e.key <= edits + 1 /\ repos' = [repos EXCEPT ![Smoke] = e]
  <2>0. repos[Smoke] \in Repositories /\ repos[Smoke].key <= edits + 1
    BY <1>t, NodesHold DEF BackupInv, BucketHolds
  <2>1. CASE Destination!InitRepo
    <3>1. PICK key \in {Destination!InForce, 0, repoKey["common"]} :
                repos' = repos \/ repos' = [repos EXCEPT ![Smoke].key = key]
      BY <2>1 DEF Destination!InitRepo
    <3> DEFINE e == [repos[Smoke] EXCEPT !.key = key]
    <3>2. e \in Repositories /\ e.key <= edits + 1
      BY <1>k, <2>0 DEF Repositories
    <3>3. repos' = repos \/ repos' = [repos EXCEPT ![Smoke] = e]
      BY <1>t, <3>1, NodesHold
    <3> QED
      BY <3>2, <3>3
  <2>2. CASE Destination!UseRepo
    <3> DEFINE e == [repos[Smoke] EXCEPT !.saved = TRUE]
    <3>1. e \in Repositories /\ e.key <= edits + 1
      BY <1>t, <2>0 DEF Repositories
    <3>2. repos' = repos \/ repos' = [repos EXCEPT ![Smoke] = e]
      BY <1>t, <2>2, NodesHold DEF Destination!UseRepo
    <3> QED
      BY <3>1, <3>2
  <2>3. CASE Destination!DiscardRepo
    <3>1. Destination!Empty \in Repositories /\ Destination!Empty.key <= edits + 1
      BY <1>t DEF Repositories, Destination!Empty
    <3> QED
      BY <2>3, <3>1 DEF Destination!DiscardRepo
  <2> QED
    BY <2>1, <2>2, <2>3
<1>2. /\ repos' \in [Destination!Repos -> Repositories]
      /\ \A r \in Destination!Repos : r # Smoke => repos'[r] = repos[r]
      /\ repos'[Smoke].key <= edits + 1
  BY <1>1, <1>t, NodesHold DEF BackupInv, BucketHolds
<1>3. BucketHolds'
  <2>1. replaced' \subseteq {"force", "unseen", "shadowed"}
    BY <1>0 DEF BackupInv, BucketHolds
  <2>2. \A r \in Destination!Repos : repos'[r].key <= edits + 1
    BY <1>2 DEF BackupInv, BucketHolds
  <2>3. \A n \in Destination!NodeSet : repos'[Destination!WrittenTo(n)] = repos[Destination!WrittenTo(n)]
    BY <1>2, NodesHold
  <2> QED
    BY <1>0, <1>2, <1>f, <2>1, <2>2, <2>3 DEF BackupInv, BucketHolds
<1>4. \A n \in Destination!NodeSet, k \in Nat : Covered(n, k) => Covered(n, k)'
  BY <1>2, NodesHold DEF Covered
<1>5. ASSUME NEW l \in {"use", "discard"}, NEW o \in BOOLEAN, said' = said,
             check' \in Checks, check'.pc = l, check'.at = check.at,
             check'.probe = check.probe, check'.was = check.was, check'.fine = check.fine, check'.hurt = check.hurt
      PROVE  BackupInv'
  <2>1. CheckTyped'
    BY <1>0, <1>5 DEF BackupInv, CheckTyped
  <2>2. ProbeHolds' /\ CoverHolds'
    BY <1>5 DEF ProbeHolds, CoverHolds
  <2>3. FineHolds'
    <3>1. check.was \in Nat
      BY <1>0 DEF Checks
    <3>2. check.fine = TRUE => \A n \in Destination!NodeSet : Covered(n, check.was)'
      BY <1>4, <1>5, <3>1 DEF BackupInv, FineHolds
    <3>3. check'.fine = TRUE => \A n \in Destination!NodeSet : Covered(n, check.was)'
      BY <1>5, <3>2
    <3> QED
      BY <1>0, <1>5, <3>3, ForceStays DEF BackupInv, FineHolds, Covered
  <2> QED
    BY <1>3, <2>1, <2>2, <2>3 DEF BackupInv
<1>6. CASE \E r \in Verdicts : Destination!End(r)
  BY <1>3, <1>6, CheckEnds
<1>7. ASSUME NEW key \in {Destination!InForce, 0, repoKey["common"]}, said' = said,
             check' = [check EXCEPT !.pc = "use", !.key = key]
      PROVE  BackupInv'
  <2>1. /\ check' \in Checks /\ check'.pc = "use" /\ check'.at = check.at
        /\ check'.probe = check.probe /\ check'.was = check.was /\ check'.fine = check.fine /\ check'.hurt = check.hurt
    BY <1>0, <1>7, <1>k DEF Checks
  <2> QED
    BY <1>5, <1>7, <2>1
<1>8. ASSUME NEW o \in BOOLEAN, said' = said, check' = [check EXCEPT !.pc = "discard", !.ok = o]
      PROVE  BackupInv'
  <2>1. /\ check' \in Checks /\ check'.pc = "discard" /\ check'.at = check.at
        /\ check'.probe = check.probe /\ check'.was = check.was /\ check'.fine = check.fine /\ check'.hurt = check.hurt
    BY <1>0, <1>8 DEF Checks
  <2> QED
    BY <1>5, <1>8, <2>1
<1>9. CASE Destination!InitRepo
  <2>1. \/ Destination!End("failed")
        \/ \E key \in {Destination!InForce, 0, repoKey["common"]} :
              said' = said /\ check' = [check EXCEPT !.pc = "use", !.key = key]
    BY <1>9 DEF Destination!InitRepo
  <2> QED
    BY <1>6, <1>7, <2>1 DEF Verdicts
<1>10. CASE Destination!UseRepo
  <2> DEFINE o == repos[Smoke].key = check.key /\ {"list", "read", "write"} \subseteq rights
  <2>1. o \in BOOLEAN
    OBVIOUS
  <2>2. /\ said' = said
        /\ \/ check' = [check EXCEPT !.pc = "discard", !.ok = o]
           \/ check' = [check EXCEPT !.pc = "discard", !.ok = FALSE]
    BY <1>10 DEF Destination!UseRepo
  <2> HIDE DEF o
  <2> QED
    BY <1>8, <2>1, <2>2, FALSE \in BOOLEAN
<1>11. CASE Destination!DiscardRepo
  <2>1. \E r \in {"works", "failed"} : Destination!End(r)
    BY <1>11 DEF Destination!DiscardRepo
  <2> QED
    BY <1>6, <2>1 DEF Verdicts
<1> QED
  BY <1>9, <1>10, <1>11

\* A password that is generated, which opens nothing that another one has locked.
LEMMA PasswordStep ==
  ASSUME BackupInv, NEW force \in BOOLEAN, NEW f \in Destination!SopsFiles, Destination!GeneratePassword(force, f)
  PROVE  BackupInv'
<1>0. /\ UNCHANGED <<rights, objects, repos, check, said, paged>>
      /\ edits' = edits + 1 /\ edits < MaxEdits["backup"] /\ repoKey' = [repoKey EXCEPT ![f] = edits + 2]
  BY DEF Destination!GeneratePassword, Destination!Hand, Destination!bucket
<1>2. /\ edits \in Nat /\ MaxEdits["backup"] \in Nat /\ edits + 2 \in Nat
      /\ repos \in [Destination!Repos -> Repositories] /\ check \in Checks
      /\ check.was \in Nat /\ check.was <= edits + 1 /\ check.probe \in Nat /\ check.probe <= edits
      /\ repoKey \in [Destination!SopsFiles -> Nat] /\ f \in {"common", "env"}
  BY EditsAssumption DEF BackupInv, BucketHolds, CheckTyped, Checks, Destination!SopsFiles
<1>f. faults' \in Nat
  <2>1. faults' \in {faults, faults + 1} /\ faults \in Nat
    BY DEF Destination!GeneratePassword, Destination!Fault, BackupInv, BucketHolds
  <2> QED
    BY <2>1
<1>1. /\ replaced' \subseteq {"force", "unseen", "shadowed"} /\ replaced \subseteq replaced'
      /\ f = "common" /\ repoKey["common"] # 0 => replaced' \cap {"force", "unseen"} # {}
  <2>1. replaced' = replaced \cup (IF {repoKey[f], repoKey["common"]} = {0} THEN {}
                                   ELSE {IF force THEN "force" ELSE IF repoKey[f] # 0 THEN "unseen" ELSE "shadowed"})
    BY DEF Destination!GeneratePassword
  <2>2. replaced \subseteq {"force", "unseen", "shadowed"}
    BY DEF BackupInv, BucketHolds
  <2> QED
    BY <2>1, <2>2
<1>3. BucketHolds'
  <2>1. \A r \in Destination!Repos : repos'[r].key <= edits' + 1
    BY <1>0, <1>2 DEF BackupInv, BucketHolds, Repositories
  <2>2. \A o \in objects' : o \in Nat /\ 1 <= o /\ o <= edits'
    BY <1>0, <1>2 DEF BackupInv, BucketHolds
  <2>3. edits' \in Nat /\ edits' <= MaxEdits["backup"]
    BY <1>0, <1>2
  <2>5. repoKey' \in [Destination!SopsFiles -> Nat] /\ \A g \in Destination!SopsFiles : repoKey'[g] <= edits' + 1
    <3>1. edits + 2 <= edits' + 1 /\ \A g \in Destination!SopsFiles : repoKey[g] <= edits' + 1
      BY <1>0, <1>2 DEF BackupInv, BucketHolds
    <3> QED
      BY <1>0, <1>2, <3>1
  <2>4. \/ replaced' \cap {"force", "unseen"} # {}
        \/ \A n \in Destination!NodeSet : repos'[Destination!WrittenTo(n)].key \in {0, repoKey'["common"]}
    <3>0. "common" \in Destination!SopsFiles
      BY DEF Destination!SopsFiles
    <3>1. CASE replaced \cap {"force", "unseen"} # {}
      BY <1>1, <3>1
    <3>2. CASE f = "common" /\ repoKey["common"] # 0
      BY <1>1, <3>2
    <3>3. CASE f = "common" /\ repoKey["common"] = 0 /\ ~(replaced \cap {"force", "unseen"} # {})
      <4>1. \A n \in Destination!NodeSet : repos[Destination!WrittenTo(n)].key = 0
        BY <3>3 DEF BackupInv, BucketHolds
      <4> QED
        BY <1>0, <4>1
    <3>4. CASE f = "env" /\ ~(replaced \cap {"force", "unseen"} # {})
      <4>1. repoKey'["common"] = repoKey["common"]
        BY <1>0, <1>2, <3>0, <3>4
      <4> QED
        BY <1>0, <3>4, <4>1 DEF BackupInv, BucketHolds
    <3> QED
      BY <1>2, <3>1, <3>2, <3>3, <3>4
  <2> QED
    BY <1>0, <1>1, <1>f, <2>1, <2>2, <2>3, <2>4, <2>5 DEF BackupInv, BucketHolds
<1>4. CheckTyped'
  <2>1. check.probe <= edits' /\ check.was <= edits' + 1
    BY <1>0, <1>2
  <2> QED
    BY <1>0, <2>1 DEF BackupInv, CheckTyped
<1>5. ProbeHolds' /\ CoverHolds'
  BY <1>0 DEF BackupInv, ProbeHolds, CoverHolds, Covered
<1>6. FineHolds'
  <2>1. Destination!InForce' \in {Destination!InForce, edits + 2}
    BY <1>0, <1>2 DEF Destination!InForce, Destination!SopsFiles
  <2>2. Destination!InForce' = check.was => Destination!InForce = check.was
    BY <1>2, <2>1
  <2> QED
    BY <1>0, <2>2 DEF BackupInv, FineHolds, Covered
<1> QED
  BY <1>3, <1>4, <1>5, <1>6 DEF BackupInv

\* What a node writes it writes where it had nothing yet, with the password there is.
LEMMA NodeStep ==
  ASSUME BackupInv, NEW n \in Destination!NodeSet, Destination!NodeBackup(n)
  PROVE  BackupInv'
<1> DEFINE r == Destination!WrittenTo(n)
           e == [key |-> repoKey["common"], saved |-> TRUE]
<1>0. /\ UNCHANGED <<rights, objects, repoKey, replaced, check, said, paged, edits, faults>>
      /\ repos' = [repos EXCEPT ![r] = e] /\ repos[r].saved # TRUE /\ r \in Destination!Repos
  BY NodesHold DEF Destination!NodeBackup
<1>1. /\ repoKey["common"] \in Nat /\ repoKey["common"] <= edits + 1
      /\ repos \in [Destination!Repos -> Repositories] /\ e \in Repositories
  BY ForceHolds DEF BackupInv, BucketHolds, Repositories
<1>2. e.key = repoKey["common"] /\ e.saved = TRUE
  OBVIOUS
<1> HIDE DEF r, e
<1>3. /\ repos' \in [Destination!Repos -> Repositories] /\ repos'[r] = e
      /\ \A q \in Destination!Repos : q # r => repos'[q] = repos[q]
  BY <1>0, <1>1
<1>4. BucketHolds'
  <2>1. replaced' \subseteq {"force", "unseen", "shadowed"}
    BY <1>0 DEF BackupInv, BucketHolds
  <2>2. \A q \in Destination!Repos : repos'[q].key <= edits + 1
    BY <1>1, <1>2, <1>3 DEF BackupInv, BucketHolds
  <2>3. \/ replaced \cap {"force", "unseen"} # {}
        \/ \A m \in Destination!NodeSet : repos'[Destination!WrittenTo(m)].key \in {0, repoKey["common"]}
    BY <1>2, <1>3, NodesHold DEF BackupInv, BucketHolds
  <2> QED
    BY <1>0, <1>3, <2>1, <2>2, <2>3 DEF BackupInv, BucketHolds
<1> DEFINE CoveredNext(m, k) == repos'[Destination!WrittenTo(m)].key = k /\ repos'[Destination!WrittenTo(m)].saved = TRUE
<1>5. \A m \in Destination!NodeSet, k \in Nat : Covered(m, k) => CoveredNext(m, k)
  BY <1>0, <1>3, NodesHold DEF Covered
<1> HIDE DEF CoveredNext
<1>6. check \in Checks /\ check.was \in Nat /\ check.key \in Nat /\ check.at \in Nat
  BY DEF BackupInv, CheckTyped, Checks
<1>7. CheckTyped'
  BY <1>0 DEF BackupInv, CheckTyped
<1>8. ProbeHolds'
  BY <1>0 DEF BackupInv, ProbeHolds
<1>9. CoverHolds'
  <2>1. check.pc = "cover" /\ check.ok = TRUE =>
          \A k \in 1..(check.at - 1) : k <= Len(Nodes) => CoveredNext(Nodes[k], check.key)
    <3>1. \A k \in 1..(check.at - 1) : k <= Len(Nodes) => Nodes[k] \in Destination!NodeSet
      BY <1>6, NodesHold
    <3> QED
      BY <1>5, <1>6, <3>1 DEF BackupInv, CoverHolds
  <2>2. check.pc = "notify" /\ check.ok = TRUE => \A m \in Destination!NodeSet : CoveredNext(m, check.key)
    BY <1>5, <1>6 DEF BackupInv, CoverHolds
  <2> QED
    BY <1>0, <2>1, <2>2 DEF CoverHolds, Covered, CoveredNext
<1>10. FineHolds'
  <2>1. check.fine = TRUE => \A m \in Destination!NodeSet : CoveredNext(m, check.was)
    BY <1>5, <1>6 DEF BackupInv, FineHolds
  <2>2. check'.fine = TRUE => \A m \in Destination!NodeSet : CoveredNext(m, check.was)
    BY <1>0, <2>1
  <2> QED
    BY <1>0, <2>2, ForceStays DEF BackupInv, FineHolds, Covered, CoveredNext
<1> QED
  BY <1>4, <1>7, <1>8, <1>9, <1>10 DEF BackupInv

\* The end of the health, told or not.
LEMMA NotifyStep == ASSUME BackupInv, Destination!Notify PROVE BackupInv'
<1>1. UNCHANGED Kept /\ objects' = objects /\ faults' = faults /\ paged' \in {paged, "log", "page"}
  BY DEF Destination!Notify, Destination!bucket, Kept
<1>2. faults' \in Nat /\ paged' \in {"none", "log", "page"}
  BY <1>1 DEF BackupInv, BucketHolds
<1>3. BucketHolds'
  BY <1>1, <1>2, BucketStays
<1>4. \E r \in {"healthy", "unhealthy"} : Destination!End(r)
  BY DEF Destination!Notify
<1> QED
  BY <1>3, <1>4, CheckEnds DEF Verdicts

\* Each step keeps what is known of the backups.
LEMMA BackupStep == ASSUME BackupInv, Destination!Next PROVE BackupInv'
<1>1. CASE Destination!VerifyDestination
  BY <1>1, CheckBegins DEF Destination!VerifyDestination
<1>2. CASE Destination!Coverage
  BY <1>2, CheckBegins DEF Destination!Coverage
<1>3. CASE Destination!HealthCheck
  BY <1>3, CheckBegins DEF Destination!HealthCheck
<1>4. CASE Destination!VerifyRestic
  BY <1>4, CheckBegins DEF Destination!VerifyRestic
<1> QED
  BY <1>1, <1>2, <1>3, <1>4, ProbeStep, CoverStep, NotifyStep, RepoStep, PasswordStep, NodeStep DEF Destination!Next

\* At first what the nodes wrote has the password there is.
LEMMA BackupInit == Init => BackupInv
<1>1. Init => Destination!Init
  BY DEF Init
<1>2. ASSUME Destination!Init PROVE BackupInv
  <2>1. /\ rights \subseteq Destination!Rights /\ objects = {} /\ replaced = {}
        /\ repoKey \in [Destination!SopsFiles -> {0, 1}] /\ Destination!InForce = repoKey["common"]
        /\ check = Destination!Idle /\ said = "nothing" /\ paged = "none" /\ edits = 0 /\ faults = 0
    BY <1>2 DEF Destination!Init, Destination!InForce
  <2>2. replaced \subseteq {"force", "unseen", "shadowed"} /\ repoKey["common"] \in {0, 1}
    BY <2>1 DEF Destination!SopsFiles
  <2>3. repos \in [Destination!Repos -> Repositories] /\ \A r \in Destination!Repos : repos[r].key \in {0, repoKey["common"]}
    <3>1. /\ {Destination!Empty, [key |-> Destination!InForce, saved |-> FALSE], [key |-> Destination!InForce, saved |-> TRUE]} \subseteq Repositories
          /\ \A e \in {Destination!Empty, [key |-> Destination!InForce, saved |-> FALSE], [key |-> Destination!InForce, saved |-> TRUE]} :
                e.key \in {0, repoKey["common"]}
      BY <2>1, <2>2 DEF Repositories, Destination!Empty
    <3>2. repos \in [Destination!Repos -> {Destination!Empty, [key |-> Destination!InForce, saved |-> FALSE], [key |-> Destination!InForce, saved |-> TRUE]}]
      BY <1>2 DEF Destination!Init
    <3> QED
      BY <3>1, <3>2
  <2>4. BucketHolds
    BY <2>1, <2>2, <2>3, NodesHold, EditsAssumption DEF BucketHolds
  <2>5. CheckTyped
    BY <2>1, NoCheck DEF CheckTyped, Verdicts
  <2>6. ProbeHolds /\ CoverHolds /\ FineHolds
    BY <2>1, NoCheck DEF ProbeHolds, CoverHolds, FineHolds
  <2> QED
    BY <2>4, <2>5, <2>6 DEF BackupInv
<1> QED
  BY <1>1, <1>2

\* What is checked follows.
LEMMA BackupIsTyped == ASSUME BackupInv PROVE Destination!TypeOK /\ Destination!NoLockout
<1>1. edits \in Nat /\ MaxEdits["backup"] \in Nat /\ edits <= MaxEdits["backup"]
  BY EditsAssumption DEF BackupInv, BucketHolds
<1>2. repoKey \in [Destination!SopsFiles -> 0..(MaxEdits["backup"] + 1)]
  BY <1>1 DEF BackupInv, BucketHolds
<1>3. objects \subseteq 1..MaxEdits["backup"]
  BY <1>1 DEF BackupInv, BucketHolds
<1>4. repos \in [Destination!Repos -> [key : 0..(MaxEdits["backup"] + 1), saved : BOOLEAN]]
  <2>1. ASSUME NEW r \in Destination!Repos
        PROVE  repos[r] \in [key : 0..(MaxEdits["backup"] + 1), saved : BOOLEAN]
    <3>1. repos[r] \in Repositories /\ repos[r].key <= edits + 1
      BY DEF BackupInv, BucketHolds
    <3>2. repos[r].key \in 0..(MaxEdits["backup"] + 1)
      BY <1>1, <3>1 DEF Repositories
    <3> QED
      BY <3>1, <3>2 DEF Repositories
  <2> QED
    BY <2>1 DEF BackupInv, BucketHolds
<1>5. replaced \subseteq {"force", "unseen", "shadowed"}
  BY DEF BackupInv, BucketHolds
<1>6. Destination!TypeOK
  BY <1>2, <1>3, <1>4, <1>5 DEF Destination!TypeOK, BackupInv, BucketHolds, CheckTyped, Checks, Verdicts
<1>7. Destination!NoLockout
  BY DEF Destination!NoLockout, BackupInv, BucketHolds
<1> QED
  BY <1>6, <1>7

\* What a step reports of the backups is so.
LEMMA BackupVerdicts == ASSUME BackupInv, Destination!Next PROVE Destination!VerdictHolds
<1> USE DEF Destination!VerdictHolds, Destination!Done, Destination!Usable
<1>t. /\ check \in Checks /\ check.ok \in BOOLEAN /\ check.dest \in BOOLEAN /\ check.fine \in BOOLEAN
      /\ check.hurt \in BOOLEAN /\ check.was \in Nat /\ check.key \in Nat /\ check.at \in Nat /\ check.at >= 1
      /\ repos \in [Destination!Repos -> Repositories]
  BY DEF BackupInv, CheckTyped, BucketHolds, Checks
<1>q. ASSUME paged' = paged, \/ said' \in {"nothing", "failed", "crashed", "works"} \/ said' = said
      PROVE  Destination!VerdictHolds
  BY <1>q DEF BackupInv, CheckTyped
<1>c. \A n \in Destination!NodeSet, k \in Nat :
          Covered(n, k) => repos[Destination!WrittenTo(n)] = [key |-> k, saved |-> TRUE]
  BY <1>t, NodesHold DEF Covered, Repositories
<1>p. ASSUME NEW b \in BOOLEAN, Destination!Probed(b), paged' = paged,
             b = TRUE => rights = Destination!Rights /\ check.probe \notin objects'
      PROVE  Destination!VerdictHolds
  BY <1>p, <1>q DEF Destination!Probed, Destination!End
<1>n. ASSUME NEW b \in BOOLEAN, Destination!Counted(b), UNCHANGED <<paged, repos, repoKey>>,
             b = TRUE => \A n \in Destination!NodeSet : Covered(n, check.key),
             b = FALSE /\ check.fine = TRUE => check.hurt = TRUE \/ Destination!InForce # check.was
      PROVE  Destination!VerdictHolds
  <2>1. CASE check.what = "health"
    BY <1>n, <1>q, <2>1 DEF Destination!Counted
  <2>2. CASE check.what # "health" /\ b = TRUE
    <3>1. said' = "covered"
      BY <1>n, <2>2 DEF Destination!Counted, Destination!End
    <3>2. \A n \in Destination!NodeSet : repos'[Destination!WrittenTo(n)] = [key |-> check.key, saved |-> TRUE]
      BY <1>n, <1>t, <1>c, <2>2
    <3> QED
      BY <1>n, <3>1, <3>2
  <2>3. CASE check.what # "health" /\ b = FALSE
    <3>1. said' = "uncovered"
      BY <1>n, <2>3 DEF Destination!Counted, Destination!End
    <3>2. ~check.fine \/ check.hurt \/ Destination!InForce # check.was
      BY <1>n, <1>t, <2>3
    <3> QED
      BY <1>n, <3>1, <3>2
  <2> QED
    BY <1>n, <2>1, <2>2, <2>3
<1>1. CASE \/ Destination!VerifyDestination \/ Destination!Coverage \/ Destination!HealthCheck \/ Destination!VerifyRestic
  BY <1>1, <1>q DEF Destination!VerifyDestination, Destination!Coverage, Destination!HealthCheck, Destination!VerifyRestic,
     Destination!Start
<1>2. CASE Destination!Reach
  <2>1. paged' = paged /\ (said' = said \/ (Destination!Probed(FALSE)))
    BY <1>2 DEF Destination!Reach
  <2> QED
    BY <1>p, <1>q, <2>1, FALSE \in BOOLEAN
<1>3. CASE Destination!Write
  <2>1. paged' = paged /\ (said' = said \/ (Destination!Probed(FALSE)))
    BY <1>3 DEF Destination!Write
  <2> QED
    BY <1>p, <1>q, <2>1, FALSE \in BOOLEAN
<1>4. CASE Destination!ReadBack
  <2>1. paged' = paged /\ said' \in {said, "crashed"}
    BY <1>4 DEF Destination!ReadBack, Destination!End
  <2> QED
    BY <1>q, <2>1
<1>5. CASE Destination!Remove
  <2>1. paged' = paged
    BY <1>5 DEF Destination!Remove
  <2>2. CASE "delete" \in rights /\ objects' = objects \ {check.probe} /\ Destination!Probed(check.ok)
    <3>1. check.ok = TRUE => rights = Destination!Rights /\ check.probe \notin objects'
      BY <1>5, <2>2 DEF Destination!Remove, Destination!Rights, BackupInv, BucketHolds, ProbeHolds
    <3> QED
      BY <1>p, <1>t, <2>1, <2>2, <3>1
  <2>3. CASE Destination!Probed(FALSE)
    BY <1>p, <2>1, <2>3, FALSE \in BOOLEAN
  <2>4. CASE said' = said
    BY <1>q, <2>1, <2>4
  <2> QED
    BY <1>5, <2>2, <2>3, <2>4 DEF Destination!Remove
<1>6. CASE Destination!Unreached
  <2>1. paged' = paged /\ (Destination!Probed(FALSE) \/ said' = "crashed")
    BY <1>6 DEF Destination!Unreached, Destination!End
  <2> QED
    BY <1>p, <1>q, <2>1, FALSE \in BOOLEAN
<1>7. CASE Destination!ReadPassword
  <2>1. UNCHANGED <<paged, repos, repoKey>>
    BY <1>7 DEF Destination!ReadPassword, Destination!bucket
  <2>2. CASE Destination!InForce = 0 /\ Destination!Counted(FALSE)
    <3>1. check.fine = TRUE => Destination!InForce # check.was
      BY <2>2 DEF BackupInv, FineHolds
    <3> QED
      BY <1>n, <2>1, <2>2, <3>1, FALSE \in BOOLEAN
  <2>3. CASE said' = said
    BY <1>q, <2>1, <2>3
  <2> QED
    BY <1>7, <2>2, <2>3 DEF Destination!ReadPassword
<1>8. CASE Destination!Cover
  <2>1. UNCHANGED <<paged, repos, repoKey>> /\ check.pc = "cover"
    BY <1>8 DEF Destination!Cover, Destination!bucket
  <2>2. CASE check.at > Len(Nodes) /\ Destination!Counted(check.ok)
    <3>1. check.ok = TRUE => \A n \in Destination!NodeSet : Covered(n, check.key)
      <4>1. \A i \in 1..Len(Nodes) : i \in 1..(check.at - 1) /\ i <= Len(Nodes)
        BY <1>t, <2>2, NodesHold
      <4> QED
        BY <2>1, <4>1, NodesHold DEF BackupInv, CoverHolds
    <3>2. check.ok = FALSE /\ check.fine = TRUE => check.hurt = TRUE \/ Destination!InForce # check.was
      BY <1>t, <2>1 DEF BackupInv, FineHolds
    <3> QED
      BY <1>n, <1>t, <2>1, <2>2, <3>1, <3>2
  <2>3. CASE said' \in {said, "crashed"}
    BY <1>q, <2>1, <2>3
  <2> QED
    BY <1>8, <2>2, <2>3 DEF Destination!Cover, Destination!End
<1>9. CASE Destination!Notify
  <2> DEFINE healthy == check.dest /\ check.ok
  <2>0. /\ check.pc = "notify" /\ check.what = "health" /\ UNCHANGED <<objects, repos, repoKey>>
        /\ paged' \in {paged, IF healthy THEN "log" ELSE "page"}
        /\ said' = IF healthy THEN "healthy" ELSE "unhealthy"
    BY <1>9 DEF Destination!Notify, Destination!bucket, Destination!End, BackupInv, CheckTyped
  <2>1. CASE check.dest = TRUE /\ check.ok = TRUE
    <3>1. said' = "healthy" /\ check.probe \notin objects' /\ rights = Destination!Rights
      BY <2>0, <2>1 DEF BackupInv, ProbeHolds
    <3>2. \A n \in Destination!NodeSet : repos'[Destination!WrittenTo(n)] = [key |-> check.key, saved |-> TRUE]
      BY <1>c, <1>t, <2>0, <2>1 DEF BackupInv, CoverHolds
    <3> QED
      BY <3>1, <3>2
  <2>2. CASE ~(check.dest = TRUE /\ check.ok = TRUE)
    <3>1. said' = "unhealthy" /\ paged' \in {paged, "page"}
      BY <1>t, <2>0, <2>2
    <3>2. ~check.fine \/ check.hurt \/ Destination!InForce # check.was
      BY <1>t, <2>0, <2>2 DEF BackupInv, FineHolds
    <3> QED
      BY <3>1, <3>2
  <2> QED
    BY <2>1, <2>2
<1>10. CASE Destination!InitRepo \/ Destination!UseRepo \/ Destination!DiscardRepo
  <2>1. paged' = paged /\ said' \in {said, "failed", "works"}
    BY <1>10 DEF Destination!InitRepo, Destination!UseRepo, Destination!DiscardRepo, Destination!End
  <2> QED
    BY <1>q, <2>1
<1>11. ASSUME NEW force \in BOOLEAN, NEW f \in Destination!SopsFiles, Destination!GeneratePassword(force, f) PROVE Destination!VerdictHolds
  BY <1>11, <1>q DEF Destination!GeneratePassword
<1>12. ASSUME NEW n \in Destination!NodeSet, Destination!NodeBackup(n) PROVE Destination!VerdictHolds
  BY <1>12, <1>q DEF Destination!NodeBackup
<1> QED
  BY <1>1, <1>2, <1>3, <1>4, <1>5, <1>6, <1>7, <1>8, <1>9, <1>10, <1>11, <1>12 DEF Destination!Next

-----------------------------------------------------------------------------
\* The sign-on

Signings ==
    [pc : {"idle", "list", "write", "restart", "verify", "check", "probe", "reset", "rename", "confirm"},
     secret : Nat, login : Logins \cup {"none"}, password : Nat, known : BOOLEAN]

Identities == [login : Logins \cup {"admin"}, password : Nat]

SignOnTyped ==
    /\ secret \in Nat /\ hash \in Nat /\ inGit \in Nat /\ authelia \in Nat /\ gitea \in Nat /\ web \in Nat
    /\ restart \in BOOLEAN /\ warned \in BOOLEAN
    /\ superadmin \in Logins /\ password \in Nat /\ grafana \in Identities
    /\ signing \in Signings
    /\ signing.pc # "idle" => said = "nothing"
    /\ said \in {"nothing", "failed", "pass", "drift", "inconclusive", "matches", "differs",
                 "reconciled", "unavailable"}
    /\ edits \in Nat /\ faults \in Nat

\* Nothing is newer than what it was taken from, and each edit makes one version.
VersionsHold ==
    /\ 1 <= secret /\ secret <= edits + 1 /\ edits <= MaxEdits["sign-on"]
    /\ hash <= secret /\ inGit <= secret /\ authelia <= secret /\ gitea <= secret /\ web <= secret
    /\ signing.secret <= secret
    /\ 1 <= password /\ password <= edits + 1 /\ grafana.password <= password /\ signing.password <= password
    /\ signing.pc \in {"check", "probe", "reset", "rename", "confirm"} => signing.login \in Logins

\* What the command wrote is in the database until it has verified it; Authelia got
\* what it has from git; and Gitea runs with what it has, or is about to, or the command has warned.
CopiesHold ==
    /\ signing.pc \in {"restart", "verify"} => gitea = signing.secret
    /\ inGit = 0 => authelia = 0
    /\ web = gitea \/ restart = TRUE \/ signing.pc = "restart" \/ warned = TRUE

SignOnInv == SignOnTyped /\ VersionsHold /\ CopiesHold

\* A command that is over, and one that begins.
LEMMA IdleTyped ==
  /\ Single!Idle \in Signings /\ Single!Idle.pc = "idle" /\ Single!Idle.secret = 0 /\ Single!Idle.password = 0
  /\ Single!Idle.login = "none"
BY DEF Single!Idle, Signings

\* A command that goes on to its next call.
LEMMA GoesOn ==
  ASSUME signing \in Signings,
         NEW l \in {"idle", "list", "write", "restart", "verify", "check", "probe", "reset", "rename", "confirm"}
  PROVE  LET n == [signing EXCEPT !.pc = l]
         IN /\ n \in Signings /\ n.pc = l /\ n.secret = signing.secret /\ n.login = signing.login
            /\ n.password = signing.password /\ n.known = signing.known
BY DEF Signings

\* Each step of the sign-on keeps what is known of it.
LEMMA SignOnStep == ASSUME SignOnInv, Single!Next PROVE SignOnInv'
<1> DEFINE Pcs == {"idle", "list", "write", "restart", "verify", "check", "probe", "reset", "rename", "confirm"}
<1> USE EditsAssumption DEF SignOnInv, SignOnTyped, VersionsHold, CopiesHold, Single!oidc, Single!grafana
<1>1. CASE Single!Configure
  <2> DEFINE n == [Single!Idle EXCEPT !.pc = "list", !.secret = secret]
  <2>1. n \in Signings /\ n.pc = "list" /\ n.secret = secret /\ n.password = 0
    BY IdleTyped DEF Signings
  <2>2. signing' = n /\ said' = "nothing" /\ edits' = edits + 1 /\ edits < MaxEdits["sign-on"]
    BY <1>1 DEF Single!Configure, Single!Begin, Single!Hand
  <2>3. /\ UNCHANGED <<secret, hash, inGit, authelia, gitea, web, restart, warned, superadmin, password, grafana, faults>>
        /\ signing.pc = "idle"
    BY <1>1 DEF Single!Configure, Single!Begin
  <2>4. restart' \in BOOLEAN /\ warned' \in BOOLEAN
    BY <2>3
  <2> HIDE DEF n
  <2> QED
    BY <2>1, <2>2, <2>3, <2>4
<1>2. CASE Single!ListSources
  <2>1. PICK k \in BOOLEAN : signing' = [signing EXCEPT !.pc = "write", !.known = k]
    <3>1. CASE signing' = [signing EXCEPT !.pc = "write", !.known = gitea # 0]
      BY <3>1, (gitea # 0) \in BOOLEAN
    <3>2. CASE signing' = [signing EXCEPT !.pc = "write"]
      <4>1. signing' = [signing EXCEPT !.pc = "write", !.known = signing.known] /\ signing.known \in BOOLEAN
        BY <3>2 DEF Signings
      <4> QED
        BY <4>1
    <3> QED
      BY <1>2, <3>1, <3>2 DEF Single!ListSources
  <2>2. /\ signing' \in Signings /\ signing'.pc = "write" /\ signing'.secret = signing.secret
        /\ signing'.password = signing.password
    BY <2>1 DEF Signings
  <2>3. /\ UNCHANGED <<secret, hash, inGit, authelia, gitea, web, restart, warned, superadmin, password, grafana, said, edits>>
        /\ faults' \in Nat /\ faults' >= faults /\ signing.pc = "list"
    BY <1>2 DEF Single!ListSources, Single!Fault
  <2>4. restart' \in BOOLEAN /\ warned' \in BOOLEAN
    BY <2>3
  <2> QED
    BY <2>2, <2>3, <2>4
<1>3. CASE Single!WriteSource
  <2>1. /\ UNCHANGED <<secret, hash, inGit, authelia, web, restart, superadmin, password, grafana, edits>>
        /\ signing.pc = "write" /\ faults' \in Nat /\ faults' >= faults /\ signing.secret \in Nat
    BY <1>3 DEF Single!WriteSource, Single!Fault, Signings
  <2>2. restart' \in BOOLEAN
    BY <2>1
  <2>3. CASE gitea' = signing.secret /\ signing' = [signing EXCEPT !.pc = "restart"] /\ UNCHANGED <<warned, said>>
    <3>1. /\ signing' \in Signings /\ signing'.pc = "restart" /\ signing'.secret = signing.secret
          /\ signing'.password = signing.password
      BY <2>3 DEF Signings
    <3>2. warned' \in BOOLEAN
      BY <2>3
    <3> QED
      BY <2>1, <2>2, <2>3, <3>1, <3>2
  <2>4. CASE Single!End("failed") /\ UNCHANGED <<gitea, warned>>
    <3>1. signing' = Single!Idle /\ said' = "failed"
      BY <2>4 DEF Single!End
    <3>2. warned' \in BOOLEAN
      BY <2>4
    <3> QED
      BY <2>1, <2>2, <2>4, <3>1, <3>2, IdleTyped
  <2>5. CASE Single!End("failed") /\ warned' = TRUE /\ gitea' \in {gitea, signing.secret}
    <3>1. signing' = Single!Idle /\ said' = "failed"
      BY <2>5 DEF Single!End
    <3> QED
      BY <2>1, <2>2, <2>5, <3>1, IdleTyped
  <2> QED
    BY <1>3, <2>3, <2>4, <2>5 DEF Single!WriteSource
<1>4. CASE Single!Restart
  <2>1. /\ UNCHANGED <<secret, hash, inGit, authelia, gitea, web, superadmin, password, grafana, said, edits>>
        /\ signing.pc = "restart" /\ faults' \in Nat /\ signing' = [signing EXCEPT !.pc = "verify"]
    <3>1. CASE UNCHANGED faults
      BY <1>4, <3>1 DEF Single!Restart
    <3>2. CASE Single!Fault
      BY <1>4, <3>2 DEF Single!Restart, Single!Fault
    <3> QED
      BY <1>4, <3>1, <3>2 DEF Single!Restart
  <2>2. restart' \in BOOLEAN /\ warned' \in BOOLEAN /\ (restart' = TRUE \/ warned' = TRUE)
    <3>1. CASE restart' = TRUE /\ warned' = FALSE
      BY <3>1
    <3>2. CASE restart' \in {restart, TRUE} /\ warned' = TRUE
      BY <3>2
    <3> QED
      BY <1>4, <3>1, <3>2 DEF Single!Restart
  <2>4. /\ signing' \in Signings /\ signing'.pc = "verify" /\ signing'.secret = signing.secret
        /\ signing'.password = signing.password
    BY <2>1 DEF Signings
  <2> QED
    BY <2>1, <2>2, <2>4
<1>5. CASE Single!Verify
  <2>1. /\ UNCHANGED <<secret, hash, inGit, authelia, gitea, web, restart, warned, superadmin, password, grafana, edits>>
        /\ signing.pc = "verify" /\ faults' \in Nat /\ faults' >= faults
    BY <1>5 DEF Single!Verify, Single!Fault
  <2>2. restart' \in BOOLEAN /\ warned' \in BOOLEAN
    BY <2>1
  <2>3. signing' = Single!Idle /\ said' \in {"pass", "drift", "inconclusive"}
    BY <1>5 DEF Single!Verify, Single!End, Single!Classify
  <2> QED
    BY <2>1, <2>2, <2>3, IdleTyped
<1>6. CASE Single!PodRestarts
  <2>1. restart' \in BOOLEAN /\ warned' \in BOOLEAN
    BY <1>6 DEF Single!PodRestarts
  <2> QED
    BY <1>6, <2>1 DEF Single!PodRestarts
<1>7. CASE Single!RotateSecret \/ Single!HashSecret \/ Single!SyncHashes \/ Single!DeployAuthelia
  <2>1. /\ UNCHANGED <<gitea, web, restart, warned, superadmin, password, grafana, signing, said, faults>>
        /\ edits' \in Nat /\ edits' >= edits /\ edits' <= MaxEdits["sign-on"]
        /\ secret' \in {secret, secret + 1} /\ (secret' # secret => edits' = edits + 1)
        /\ hash' \in {hash, secret'} /\ inGit' \in {inGit, hash} /\ authelia' \in {authelia, inGit}
        /\ (inGit' = 0 => inGit = 0) /\ (authelia' # authelia => inGit' = inGit)
    BY <1>7 DEF Single!RotateSecret, Single!HashSecret, Single!SyncHashes, Single!DeployAuthelia, Single!Hand
  <2>2. restart' \in BOOLEAN /\ warned' \in BOOLEAN
    BY <2>1
  <2>3. CopiesHold'
    BY <2>1
  <2>7. secret' \in Nat /\ hash' \in Nat /\ inGit' \in Nat /\ authelia' \in Nat
    BY <2>1
  <2>4. VersionsHold'
    <3>0. secret \in Nat /\ edits \in Nat /\ 1 <= secret /\ secret <= edits + 1
      OBVIOUS
    <3>1. 1 <= secret' /\ secret' <= edits' + 1 /\ secret <= secret'
      <4>1. CASE secret' = secret
        <5>1. edits' \in Nat /\ edits <= edits'
          BY <2>1, <3>0
        <5>2. secret <= edits' + 1
          BY <3>0, <5>1, NextLater
        <5> QED
          BY <3>0, <4>1, <5>2
      <4>2. CASE secret' = secret + 1
        <5>1. edits' = edits + 1
          BY <2>1, <3>0, <4>2
        <5> QED
          BY <3>0, <4>2, <5>1
      <4> QED
        BY <2>1, <4>1, <4>2
    <3>2. hash' <= secret' /\ inGit' <= secret' /\ authelia' <= secret'
      BY <2>1, <2>7, <3>1
    <3>3. signing \in Signings /\ signing' = signing
      BY <2>1
    <3>4. signing.secret \in Nat /\ signing.password \in Nat
      BY <3>3 DEF Signings
    <3>5. gitea' <= secret' /\ web' <= secret' /\ signing'.secret <= secret'
      BY <2>1, <2>7, <3>0, <3>1, <3>3, <3>4
    <3>6. password' = password /\ grafana' = grafana /\ password' <= edits' + 1
      BY <2>1, NextLater
    <3> QED
      BY <2>1, <3>1, <3>2, <3>3, <3>5, <3>6
  <2>5. SignOnTyped'
    BY <2>1, <2>2, <2>7
  <2> QED
    BY <2>3, <2>4, <2>5
<1>8. CASE Single!AskGrafana
  <2>1. PICK l \in {"check", "probe"} :
           signing' = [Single!Idle EXCEPT !.pc = l, !.login = superadmin, !.password = password]
    BY <1>8 DEF Single!AskGrafana, Single!Begin
  <2>2. /\ signing' \in Signings /\ signing'.pc = l /\ signing'.secret = 0 /\ signing'.password = password
        /\ signing'.login \in Logins
    BY <2>1, IdleTyped DEF Signings
  <2>3. /\ UNCHANGED <<secret, hash, inGit, authelia, gitea, web, restart, warned, superadmin, password, grafana, faults>>
        /\ signing.pc = "idle" /\ said' = "nothing" /\ edits' = edits + 1 /\ edits < MaxEdits["sign-on"]
    BY <1>8 DEF Single!AskGrafana, Single!Begin, Single!Hand
  <2>4. restart' \in BOOLEAN /\ warned' \in BOOLEAN
    BY <2>3
  <2> QED
    BY <2>1, <2>2, <2>3, <2>4
<1>9. CASE Single!Probe \/ Single!Confirm
  <2>1. /\ UNCHANGED <<secret, hash, inGit, authelia, gitea, web, restart, warned, superadmin, password, grafana, edits>>
        /\ signing.pc \in {"check", "probe", "confirm"} /\ faults' \in Nat /\ faults' >= faults
    BY <1>9 DEF Single!Probe, Single!Confirm, Single!Fault
  <2>2. restart' \in BOOLEAN /\ warned' \in BOOLEAN
    BY <2>1
  <2>3. CASE signing' = Single!Idle /\ said' \in {"matches", "differs", "unavailable", "reconciled"}
    BY <2>1, <2>2, <2>3, IdleTyped
  <2>4. CASE signing' = [signing EXCEPT !.pc = "reset", !.password = password] /\ UNCHANGED said
    <3>1. /\ signing' \in Signings /\ signing'.pc = "reset" /\ signing'.secret = signing.secret
          /\ signing'.password = password /\ signing'.login = signing.login
      BY <2>4 DEF Signings
    <3> QED
      BY <2>1, <2>2, <2>4, <3>1
  <2> QED
    BY <1>9, <2>3, <2>4 DEF Single!Probe, Single!Confirm, Single!End
<1>10. CASE Single!Reset \/ Single!Rename
  <2>1. /\ UNCHANGED <<secret, hash, inGit, authelia, gitea, web, restart, warned, superadmin, password, edits>>
        /\ signing.pc \in {"reset", "rename"} /\ faults' \in Nat /\ faults' >= faults
    BY <1>10 DEF Single!Reset, Single!Rename, Single!Fault
  <2>2. restart' \in BOOLEAN /\ warned' \in BOOLEAN
    BY <2>1
  <2>3. grafana' \in {grafana, [grafana EXCEPT !.password = signing.password], [grafana EXCEPT !.login = signing.login]}
    BY <1>10 DEF Single!Reset, Single!Rename
  <2>4. grafana' \in Identities /\ grafana'.password \in {grafana.password, signing.password}
    BY <2>1, <2>3 DEF Identities, Signings
  <2>5. CASE signing' = Single!Idle /\ said' = "unavailable"
    BY <2>1, <2>2, <2>4, <2>5, IdleTyped
  <2>6. ASSUME NEW l \in {"rename", "confirm"}, signing' = [signing EXCEPT !.pc = l], UNCHANGED said PROVE SignOnInv'
    <3>1. /\ signing' \in Signings /\ signing'.pc = l /\ signing'.secret = signing.secret
          /\ signing'.password = signing.password /\ signing'.login = signing.login
      BY <2>6 DEF Signings
    <3> QED
      BY <2>1, <2>2, <2>4, <2>6, <3>1
  <2> QED
    BY <1>10, <2>5, <2>6 DEF Single!Reset, Single!Rename, Single!End
<1>11. CASE Single!Declare
  <2>1. /\ UNCHANGED <<secret, hash, inGit, authelia, gitea, web, restart, warned, signing, said, faults>>
        /\ edits' = edits + 1 /\ edits < MaxEdits["sign-on"]
        /\ superadmin' \in Logins /\ password' \in {password, password + 1}
        /\ grafana' \in {grafana, [grafana EXCEPT !.password = 0]}
    BY <1>11 DEF Single!Declare, Single!Hand
  <2>2. restart' \in BOOLEAN /\ warned' \in BOOLEAN
    BY <2>1
  <2>3. grafana' \in Identities /\ grafana'.password \in {grafana.password, 0}
    BY <2>1 DEF Identities
  <2>4. CopiesHold'
    BY <2>1
  <2>5. VersionsHold'
    <3>1. signing \in Signings /\ signing' = signing
      BY <2>1
    <3>2. signing.secret \in Nat /\ signing.password \in Nat /\ grafana.password \in Nat
      BY <3>1 DEF Signings, Identities
    <3>3. password' \in Nat /\ password <= password' /\ password' <= edits' + 1
      BY <2>1, NextLater
    <3>4. grafana'.password <= password'
      BY <2>3, <3>2, <3>3
    <3> QED
      BY <2>1, <3>1, <3>2, <3>3, <3>4
  <2>6. SignOnTyped'
    BY <2>1, <2>2, <2>3
  <2> QED
    BY <2>4, <2>5, <2>6
<1> QED
  BY <1>1, <1>2, <1>3, <1>4, <1>5, <1>6, <1>7, <1>8, <1>9, <1>10, <1>11 DEF Single!Next

\* At first Gitea runs with what its database has.
LEMMA SignOnInit == Init => SignOnInv
<1>1. Init => Single!Init
  BY DEF Init
<1>2. ASSUME Single!Init PROVE SignOnInv
  <2>1. restart \in BOOLEAN /\ warned = FALSE
    BY <1>2 DEF Single!Init
  <2>2. grafana \in Identities /\ grafana.password <= 1
    BY <1>2 DEF Single!Init, Identities
  <2>3. /\ secret = 1 /\ hash \in {0, 1} /\ inGit \in {0, 1} /\ authelia = inGit /\ gitea \in {0, 1} /\ web = gitea
        /\ superadmin \in Logins /\ password = 1 /\ signing = Single!Idle /\ said = "nothing" /\ edits = 0 /\ faults = 0
    BY <1>2 DEF Single!Init
  <2>4. warned \in BOOLEAN
    BY <2>1
  <2>5. SignOnTyped
    BY <2>1, <2>2, <2>3, <2>4, IdleTyped DEF SignOnTyped
  <2>6. VersionsHold
    BY <2>2, <2>3, IdleTyped, EditsAssumption DEF VersionsHold, Identities
  <2>7. CopiesHold
    BY <2>3, IdleTyped DEF CopiesHold
  <2> QED
    BY <2>5, <2>6, <2>7 DEF SignOnInv
<1> QED
  BY <1>1, <1>2

\* What is checked follows.
LEMMA SignOnIsTyped == ASSUME SignOnInv PROVE Single!TypeOK /\ Single!StaleIsKnown
<1>1. Single!TypeOK
  <2>1. secret \in 1..(MaxEdits["sign-on"] + 1) /\ password \in 1..(MaxEdits["sign-on"] + 1)
    BY EditsAssumption DEF SignOnInv, SignOnTyped, VersionsHold
  <2>2. {hash, inGit, authelia, gitea, web} \subseteq 0..secret
    BY DEF SignOnInv, SignOnTyped, VersionsHold
  <2>3. grafana \in [login : Logins \cup {"admin"}, password : 0..password]
    BY DEF SignOnInv, SignOnTyped, VersionsHold, Identities
  <2>4. signing.pc \in {"idle", "list", "write", "restart", "verify", "check", "probe", "reset", "rename", "confirm"}
    BY DEF SignOnInv, SignOnTyped, Signings
  <2> QED
    BY <2>1, <2>2, <2>3, <2>4 DEF SignOnInv, SignOnTyped, Single!TypeOK
<1>2. Single!StaleIsKnown
  BY DEF SignOnInv, CopiesHold, Single!StaleIsKnown
<1> QED
  BY <1>1, <1>2

\* A verdict is about what Gitea's database has, and about the identity that was asked
\* for; and no placeholder is deployed over a hash.
LEMMA VerdictsAreSo == ASSUME SignOnInv, Single!Next PROVE Single!SignOnHolds /\ Single!HashStays
<1>0. SignOnTyped /\ CopiesHold
  BY DEF SignOnInv
<1>1. Single!HashStays
  <2>1. authelia' \in {authelia, inGit}
    BY DEF Single!oidc, Single!Next, Single!Configure, Single!ListSources, Single!WriteSource, Single!Restart,
       Single!Verify, Single!PodRestarts, Single!RotateSecret, Single!HashSecret, Single!SyncHashes,
       Single!DeployAuthelia, Single!AskGrafana, Single!Probe, Single!Reset, Single!Rename, Single!Confirm, Single!Declare
  <2> QED
    BY <1>0, <2>1 DEF CopiesHold, Single!HashStays
<1>2. CASE Single!Verify
  <2>1. /\ gitea' = gitea /\ gitea = signing.secret /\ authelia' = authelia /\ said' \in {"pass", "drift", "inconclusive"}
        /\ said' = "pass" => authelia = signing.secret
        /\ said' = "drift" => authelia # signing.secret
    BY <1>0, <1>2 DEF CopiesHold, Single!Verify, Single!Classify, Single!End, Single!oidc
  <2> QED
    BY <1>1, <2>1 DEF Single!SignOnHolds, Single!Done
<1>3. CASE Single!Probe \/ Single!Confirm
  <2>1. grafana' = grafana
    BY <1>3 DEF Single!Probe, Single!Confirm, Single!grafana
  <2>2. /\ signing.pc # "idle" => said' \notin {"pass", "drift"}
        /\ signing.pc # "idle" /\ said' \in {"matches", "reconciled"} =>
              grafana = [login |-> signing.login, password |-> signing.password]
    BY <1>0, <1>3 DEF SignOnTyped, Single!Probe, Single!Confirm, Single!LogsIn, Single!End
  <2> QED
    BY <1>1, <2>1, <2>2 DEF Single!SignOnHolds, Single!Done
<1>4. CASE ~Single!Verify /\ ~Single!Probe /\ ~Single!Confirm
  <2>1. signing.pc # "idle" => said' \notin {"pass", "drift", "matches", "reconciled"}
    BY <1>0, <1>4 DEF SignOnTyped, Single!Next, Single!Configure, Single!ListSources, Single!WriteSource, Single!Restart,
       Single!PodRestarts, Single!RotateSecret, Single!HashSecret, Single!SyncHashes, Single!Begin, Single!End,
       Single!DeployAuthelia, Single!AskGrafana, Single!Reset, Single!Rename, Single!Declare
  <2>2. ~Single!Done("pass") /\ ~Single!Done("drift") /\ ~Single!Done("matches") /\ ~Single!Done("reconciled")
    BY <2>1 DEF Single!Done
  <2> QED
    BY <1>1, <2>2 DEF Single!SignOnHolds
<1> QED
  BY <1>1, <1>2, <1>3, <1>4

-----------------------------------------------------------------------------
\* The expiry of credentials

Askings ==
    [pc : {"idle", "ask", "list", "expire"}, what : {"none", "check", "audit", "preauth"}, at : Nat,
     blind : SUBSET Expiring!TokenSet, soon : SUBSET Expiring!TokenSet,
     doomed : SUBSET (Expiring!TokenSet \X Expiring!Serials \cup {"headscale"} \X ApiKeys),
     missed : SUBSET (Expiring!TokenSet \X Expiring!Serials), read : [Expiring!TokenSet -> 0..2],
     seen : SUBSET Expiring!TicketSet, want : SUBSET (Expiring!TicketSet \cup {"unknown"})]

Reports == {"nothing", "fine", "expiring", "cannot-check", "audited", "refused", "listed"}

ExpiryTyped ==
    /\ stored \in [Expiring!EnvSet -> [Expiring!TokenSet -> 0..2]]
    /\ left \in [Expiring!TokenSet -> [Expiring!Serials -> Expiring!Lives]]
    /\ apiKeys \in [ApiKeys -> Expiring!Lives \cup {"gone"}]
    /\ tickets \in [Expiring!TicketSet -> [live : BOOLEAN, reusable : BOOLEAN, used : BOOLEAN]]
    /\ named \subseteq Expiring!TicketSet \cup {"unknown"}
    /\ asking \in Askings /\ said \in Reports
    /\ asking.pc # "idle" => said = "nothing"
    /\ asking.at >= 1

\* A ticket that no longer admits was used or named; those that are not in the list that
\* the command has do not admit, and it expires what was named.
TicketsHold ==
    /\ \A k \in Expiring!TicketSet : tickets[k].live = TRUE \/ tickets[k].used = TRUE \/ k \in named
    /\ asking.want \subseteq named
    /\ asking.pc = "expire" => \A k \in Expiring!TicketSet \ asking.seen : tickets[k].live = FALSE

\* The files agree on a token.  What was to expire soon and was in a file that could be
\* read is what the command has read of the token, and is to expire soon still; and of
\* what has been asked the command knows.
TokensHold ==
    /\ \A c \in Expiring!TokenSet, e, f \in Expiring!EnvSet :
          stored[e][c] # 0 /\ stored[f][c] # 0 => stored[e][c] = stored[f][c]
    /\ \A c \in Expiring!TokenSet, n \in Expiring!Serials :
          <<c, n>> \in asking.doomed \ asking.missed => left[c][n] # "long" /\ asking.read[c] = n
    /\ \A i \in DOMAIN Tokens, n \in Expiring!Serials :
          asking.pc = "ask" /\ i < asking.at /\ <<Tokens[i], n>> \in asking.doomed \ asking.missed
             => Tokens[i] \in asking.soon \cup asking.blind

\* And so is an API key that was.
KeysHold == \A k \in ApiKeys : <<"headscale", k>> \in asking.doomed => apiKeys[k] \in {"short", "none"}

ExpiryInv == ExpiryTyped /\ TicketsHold /\ KeysHold /\ (~Divergent => TokensHold)

\* A command that is over.
LEMMA NoAsking ==
  /\ Expiring!Idle \in Askings /\ Expiring!Idle.pc = "idle" /\ Expiring!Idle.at = 1 /\ Expiring!Idle.doomed = {}
  /\ Expiring!Idle.want = {} /\ Expiring!Idle.blind = {} /\ Expiring!Idle.soon = {}
  /\ Expiring!Idle.missed = {} /\ Expiring!Idle.read = [c \in Expiring!TokenSet |-> 0]
BY DEF Expiring!Idle, Askings

\* What is left of a credential is never more than it was.
LEMMA ShorterHolds ==
  /\ \A l \in Expiring!Lives : Expiring!Shorter(l) \in Expiring!Lives /\ Expiring!Shorter(l) # "long"
  /\ \A l \in Expiring!Lives : Expiring!GithubPat(l) \in {"cannot-ask", "soon", "fine"}
  /\ \A l \in Expiring!Lives : l # "long" => Expiring!GithubPat(l) # "fine"
BY DEF Expiring!Shorter, Expiring!GithubPat, Expiring!Lives

\* Where the files agree, what the command reads of a token is what any has that it can read.
LEMMA DigFinds ==
  ASSUME ExpiryTyped, NEW c \in Expiring!TokenSet, NEW n \in Expiring!Serials,
         NEW files \in SUBSET Expiring!EnvSet, NEW e \in files, stored[e][c] = n,
         \A f \in Expiring!EnvSet : stored[f][c] # 0 => stored[f][c] = n
  PROVE  Expiring!Dig(c, files) = n
<1> DEFINE has == {i \in DOMAIN Envs : Envs[i] \in files /\ stored[Envs[i]][c] # 0}
<1>2. PICK i \in DOMAIN Envs : e = Envs[i]
  BY DEF Expiring!EnvSet
<1>3. i \in has
  BY <1>2 DEF Expiring!Serials
<1>4. has \subseteq Nat
  BY ExpiryAssumption
<1>5. \E j \in has : \A k \in has : j <= k
  <2> HIDE DEF has
  <2> QED
    BY <1>3, <1>4, SmallestExists
<1> DEFINE first == CHOOSE j \in has : \A k \in has : j <= k
<1>6. first \in has
  <2> HIDE DEF has
  <2> QED
    BY <1>5
<1>7. Expiring!Dig(c, files) = stored[Envs[first]][c]
  BY <1>3 DEF Expiring!Dig
<1> HIDE DEF first
<1>8. Envs[first] \in Expiring!EnvSet /\ stored[Envs[first]][c] # 0
  BY <1>6 DEF Expiring!EnvSet
<1> QED
  BY <1>7, <1>8

\* What it reads is a serial number, or none.
LEMMA DigTyped ==
  ASSUME ExpiryTyped, NEW c \in Expiring!TokenSet, NEW files \in SUBSET Expiring!EnvSet
  PROVE  Expiring!Dig(c, files) \in 0..2
<1> DEFINE has == {i \in DOMAIN Envs : Envs[i] \in files /\ stored[Envs[i]][c] # 0}
<1>1. CASE has = {}
  BY <1>1 DEF Expiring!Dig
<1>2. CASE has # {}
  <2>1. has \subseteq Nat
    BY ExpiryAssumption
  <2> DEFINE first == CHOOSE j \in has : \A k \in has : j <= k
  <2>2. first \in has
    <3> HIDE DEF has
    <3>1. \E j \in has : \A k \in has : j <= k
      BY <1>2, <2>1, SmallestExists
    <3> QED
      BY <3>1
  <2>3. Expiring!Dig(c, files) = stored[Envs[first]][c]
    BY <1>2 DEF Expiring!Dig
  <2> HIDE DEF first
  <2>4. Envs[first] \in Expiring!EnvSet
    BY <2>2 DEF Expiring!EnvSet
  <2> QED
    BY <2>3, <2>4 DEF ExpiryTyped
<1> QED
  BY <1>1, <1>2

\* The end of a command.
LEMMA AskingEnds ==
  ASSUME ExpiryInv, NEW r \in Reports, Expiring!End(r), UNCHANGED <<stored, left, apiKeys, named>>,
         tickets' \in [Expiring!TicketSet -> [live : BOOLEAN, reusable : BOOLEAN, used : BOOLEAN]],
         \A k \in Expiring!TicketSet : tickets'[k].live = TRUE \/ tickets'[k].used = TRUE \/ k \in named
  PROVE  ExpiryInv'
<1>1. asking' = Expiring!Idle /\ said' = r
  BY DEF Expiring!End
<1>2. ExpiryTyped'
  BY <1>1, NoAsking DEF ExpiryInv, ExpiryTyped
<1>3. TicketsHold'
  BY <1>1, NoAsking DEF TicketsHold
<1>4. ~Divergent => TokensHold'
  BY <1>1, NoAsking DEF ExpiryInv, TokensHold
<1>5. KeysHold'
  BY <1>1, NoAsking DEF KeysHold
<1> QED
  BY <1>2, <1>3, <1>4, <1>5 DEF ExpiryInv

\* The check and the audit begin with what is to expire soon then.
LEMMA CheckStep == ASSUME ExpiryInv, Expiring!CheckExpiry \/ Expiring!Audit PROVE ExpiryInv'
<1> DEFINE Doomed      == Expiring!DyingIn(Expiring!EnvSet) \cup Expiring!DyingKeys
           Missed(files) == Expiring!DyingIn(Expiring!EnvSet) \ Expiring!DyingIn(files)
           Read(files)   == [c \in Expiring!TokenSet |-> Expiring!Dig(c, files)]
<1>0. PICK w \in {"check", "audit"}, files \in SUBSET Expiring!EnvSet :
        /\ asking' = [Expiring!Idle EXCEPT !.pc = "ask", !.what = w, !.read = Read(files), !.doomed = Doomed,
                                          !.missed = Missed(files)]
        /\ said' = "nothing" /\ UNCHANGED <<stored, left, apiKeys, tickets, named>>
  BY DEF Expiring!CheckExpiry, Expiring!Audit, Expiring!AskOf, Expiring!Begin, Expiring!issued
<1>1. /\ Doomed \subseteq Expiring!TokenSet \X Expiring!Serials \cup {"headscale"} \X ApiKeys
      /\ Missed(files) \subseteq Expiring!TokenSet \X Expiring!Serials
  BY DEF Expiring!DyingIn, Expiring!DyingKeys
<1>2. Read(files) \in [Expiring!TokenSet -> 0..2] /\ \A c \in Expiring!TokenSet : Read(files)[c] = Expiring!Dig(c, files)
  BY DigTyped DEF ExpiryInv
<1>3. /\ asking' \in Askings /\ asking'.pc = "ask" /\ asking'.at = 1 /\ asking'.doomed = Doomed
      /\ asking'.missed = Missed(files) /\ asking'.read = Read(files) /\ asking'.want = {}
  <2> HIDE DEF Doomed, Missed, Read
  <2> QED
    BY <1>0, <1>1, <1>2 DEF Expiring!Idle, Askings
<1>4. ExpiryTyped'
  BY <1>0, <1>3 DEF ExpiryInv, ExpiryTyped, Reports
<1>5. TicketsHold'
  BY <1>0, <1>3 DEF ExpiryInv, TicketsHold
<1>6. KeysHold'
  <2>1. ASSUME NEW k \in ApiKeys, <<"headscale", k>> \in Doomed PROVE apiKeys[k] \in {"short", "none"}
    <3>1. <<"headscale", k>> \in Expiring!DyingKeys
      BY <2>1, ExpiryAssumption DEF Expiring!DyingIn
    <3>2. PICK x \in ApiKeys : <<"headscale", k>> = <<"headscale", x>> /\ apiKeys[x] \in {"short", "none"}
      BY <3>1 DEF Expiring!DyingKeys
    <3> QED
      BY <3>2
  <2> QED
    BY <1>0, <1>3, <2>1 DEF KeysHold
<1>7. ASSUME ~Divergent PROVE TokensHold'
  <2>0. TokensHold /\ ExpiryTyped
    BY <1>7 DEF ExpiryInv
  <2>1. \A i \in DOMAIN Tokens : ~(i < asking'.at)
    BY <1>3, ExpiryAssumption
  <2>2. ASSUME NEW c \in Expiring!TokenSet, NEW n \in Expiring!Serials, <<c, n>> \in Doomed \ Missed(files)
        PROVE  left[c][n] # "long" /\ Read(files)[c] = n
    <3>1. <<c, n>> \notin Expiring!DyingKeys
      BY ExpiryAssumption DEF Expiring!DyingKeys
    <3>2. <<c, n>> \in Expiring!DyingIn(files)
      BY <2>2, <3>1
    <3>3. left[c][n] # "long" /\ \E e \in files : stored[e][c] = n
      BY <3>2 DEF Expiring!DyingIn, Expiring!Soon
    <3>4. PICK e \in files : stored[e][c] = n
      BY <3>3
    <3>5. \A f \in Expiring!EnvSet : stored[f][c] # 0 => stored[f][c] = n
      BY <2>0, <3>4 DEF TokensHold, Expiring!Serials
    <3>6. Expiring!Dig(c, files) = n
      BY <2>0, <3>4, <3>5, DigFinds
    <3> QED
      BY <1>2, <3>3, <3>6
  <2> HIDE DEF Doomed, Missed, Read
  <2> QED
    BY <1>0, <1>3, <2>0, <2>1, <2>2 DEF TokensHold
<1> QED
  BY <1>4, <1>5, <1>6, <1>7 DEF ExpiryInv

\* A token is asked for by what is read of it.
LEMMA AskStep == ASSUME ExpiryInv, Expiring!Ask PROVE ExpiryInv'
<1> DEFINE c == Tokens[asking.at]
           v == asking.read[c]
           answer == IF v = 0 THEN "absent" ELSE Expiring!GithubPat(left[c][v])
<1>0. /\ asking \in Askings /\ asking.pc = "ask" /\ asking.at <= Len(Tokens)
      /\ UNCHANGED <<stored, left, apiKeys, tickets, named, said>>
  BY DEF Expiring!Ask, Expiring!issued, ExpiryInv, ExpiryTyped
<1>1. PICK soon \in SUBSET (asking.soon \cup {c}), blind \in SUBSET (asking.blind \cup {c}) :
        /\ asking' = [asking EXCEPT !.at = @ + 1, !.soon = soon, !.blind = blind]
        /\ asking.soon \subseteq soon /\ asking.blind \subseteq blind
        /\ c \in soon \cup blind \/ answer \notin {"soon", "cannot-ask"}
  <2>1. CASE asking' = [asking EXCEPT !.at = @ + 1,
                                      !.soon = IF answer = "soon" THEN @ \cup {c} ELSE @,
                                      !.blind = IF answer = "cannot-ask" THEN @ \cup {c} ELSE @]
    <3> DEFINE s == IF answer = "soon" THEN asking.soon \cup {c} ELSE asking.soon
               b == IF answer = "cannot-ask" THEN asking.blind \cup {c} ELSE asking.blind
    <3>1. asking' = [asking EXCEPT !.at = @ + 1, !.soon = s, !.blind = b]
      BY <1>0, <2>1 DEF Askings
    <3>2. /\ s \in SUBSET (asking.soon \cup {c}) /\ b \in SUBSET (asking.blind \cup {c})
          /\ asking.soon \subseteq s /\ asking.blind \subseteq b /\ (c \in s \cup b \/ answer \notin {"soon", "cannot-ask"})
      OBVIOUS
    <3> QED
      BY <3>1, <3>2
  <2>2. CASE asking' = [asking EXCEPT !.at = @ + 1, !.blind = @ \cup {c}]
    <3>1. asking' = [asking EXCEPT !.at = @ + 1, !.soon = asking.soon, !.blind = asking.blind \cup {c}]
      BY <1>0, <2>2 DEF Askings
    <3>2. /\ asking.soon \in SUBSET (asking.soon \cup {c}) /\ asking.blind \cup {c} \in SUBSET (asking.blind \cup {c})
          /\ asking.blind \subseteq asking.blind \cup {c} /\ c \in asking.soon \cup (asking.blind \cup {c})
      OBVIOUS
    <3> QED
      BY <3>1, <3>2
  <2> QED
    BY <2>1, <2>2 DEF Expiring!Ask
<1>2. asking.at \in Nat /\ asking.at >= 1 /\ asking.at \in DOMAIN Tokens /\ c \in Expiring!TokenSet
  <2>1. asking.at \in Nat /\ asking.at >= 1
    BY <1>0 DEF ExpiryInv, ExpiryTyped, Askings
  <2> QED
    BY <1>0, <2>1, ExpiryAssumption DEF Expiring!TokenSet
<1>3. /\ asking' \in Askings /\ asking'.pc = "ask" /\ asking'.at = asking.at + 1 /\ asking'.soon = soon
      /\ asking'.blind = blind /\ asking'.doomed = asking.doomed /\ asking'.want = asking.want
      /\ asking'.missed = asking.missed /\ asking'.read = asking.read
  <2>1. soon \in SUBSET Expiring!TokenSet /\ blind \in SUBSET Expiring!TokenSet
    BY <1>0, <1>1, <1>2 DEF Askings
  <2>2. asking.at + 1 \in Nat /\ asking' = [asking EXCEPT !.at = asking.at + 1, !.soon = soon, !.blind = blind]
    BY <1>0, <1>1, <1>2 DEF Askings
  <2> HIDE DEF c
  <2> QED
    BY <1>0, <2>1, <2>2 DEF Askings
<1>4. ExpiryTyped'
  BY <1>0, <1>2, <1>3 DEF ExpiryInv, ExpiryTyped
<1>5. TicketsHold'
  BY <1>0, <1>3 DEF ExpiryInv, TicketsHold
<1>6. ASSUME ~Divergent PROVE TokensHold'
  <2>0. TokensHold /\ ExpiryTyped
    BY <1>6 DEF ExpiryInv
  <2>1. ASSUME NEW n \in Expiring!Serials, <<c, n>> \in asking.doomed \ asking.missed PROVE c \in soon \cup blind
    <3>1. left[c][n] # "long" /\ v = n
      BY <1>2, <2>0, <2>1 DEF TokensHold
    <3>2. v # 0 /\ v \in Expiring!Serials
      BY <3>1 DEF Expiring!Serials
    <3>3. left[c][v] # "long" /\ left[c][v] \in Expiring!Lives
      BY <1>2, <2>0, <2>1, <3>1 DEF ExpiryTyped
    <3>4. answer = Expiring!GithubPat(left[c][v])
      BY <3>2
    <3>5. answer \in {"soon", "cannot-ask"}
      BY <3>3, <3>4, ShorterHolds
    <3> QED
      BY <1>1, <3>5
  <2> HIDE DEF c, v, answer
  <2>2. ASSUME NEW i \in DOMAIN Tokens, NEW n \in Expiring!Serials, i < asking.at + 1,
               <<Tokens[i], n>> \in asking.doomed \ asking.missed
        PROVE  Tokens[i] \in soon \cup blind
    <3>1. CASE i = asking.at
      BY <2>1, <2>2, <3>1 DEF c
    <3>2. CASE i # asking.at
      <4>1. i < asking.at
        BY <1>2, <2>2, <3>2, ExpiryAssumption
      <4>2. Tokens[i] \in asking.soon \cup asking.blind
        BY <1>0, <2>0, <2>2, <4>1 DEF TokensHold
      <4> QED
        BY <1>1, <4>2
    <3> QED
      BY <3>1, <3>2
  <2> QED
    BY <1>0, <1>3, <2>0, <2>2 DEF TokensHold
<1>7. KeysHold'
  BY <1>0, <1>3 DEF ExpiryInv, KeysHold
<1> QED
  BY <1>4, <1>5, <1>6, <1>7 DEF ExpiryInv

\* A step that leaves the command and what is issued of tokens alone.
LEMMA TicketStep ==
  ASSUME ExpiryInv, UNCHANGED <<stored, left, asking, said>>, named \subseteq named',
         named' \subseteq Expiring!TicketSet \cup {"unknown"},
         apiKeys' \in [ApiKeys -> Expiring!Lives \cup {"gone"}],
         tickets' \in [Expiring!TicketSet -> [live : BOOLEAN, reusable : BOOLEAN, used : BOOLEAN]],
         \A k \in Expiring!TicketSet : tickets'[k].live = TRUE \/ tickets'[k].used = TRUE \/ k \in named',
         \A k \in Expiring!TicketSet : tickets[k].live = FALSE => tickets'[k].live = FALSE,
         \A k \in ApiKeys : apiKeys[k] \in {"short", "none"} => apiKeys'[k] \in {"short", "none"}
  PROVE  ExpiryInv'
<1>1. ExpiryTyped'
  BY DEF ExpiryInv, ExpiryTyped
<1>2. TicketsHold'
  BY DEF ExpiryInv, TicketsHold
<1>3. ~Divergent => TokensHold'
  BY DEF ExpiryInv, TokensHold
<1>4. KeysHold'
  BY DEF ExpiryInv, KeysHold
<1> QED
  BY <1>1, <1>2, <1>3, <1>4 DEF ExpiryInv

\* Time passes, tokens are minted and machines register.
LEMMA OutsideStep ==
  ASSUME ExpiryInv, Expiring!TimePasses \/ Expiring!Remint \/ Expiring!Register
  PROVE  ExpiryInv'
<1>t. /\ tickets \in [Expiring!TicketSet -> [live : BOOLEAN, reusable : BOOLEAN, used : BOOLEAN]]
      /\ named \subseteq Expiring!TicketSet \cup {"unknown"} /\ apiKeys \in [ApiKeys -> Expiring!Lives \cup {"gone"}]
      /\ left \in [Expiring!TokenSet -> [Expiring!Serials -> Expiring!Lives]]
      /\ stored \in [Expiring!EnvSet -> [Expiring!TokenSet -> 0..2]] /\ asking \in Askings
      /\ \A k \in Expiring!TicketSet : tickets[k].live = TRUE \/ tickets[k].used = TRUE \/ k \in named
  BY DEF ExpiryInv, ExpiryTyped, TicketsHold
<1>1. CASE Expiring!TimePasses
  <2>0. UNCHANGED <<stored, named, asking, said>> /\ tickets' = tickets
    BY <1>1 DEF Expiring!TimePasses
  <2>1. ASSUME NEW k \in ApiKeys, apiKeys[k] # "gone", apiKeys' = [apiKeys EXCEPT ![k] = Expiring!Shorter(@)],
               left' = left
        PROVE  ExpiryInv'
    <3>1. /\ apiKeys' \in [ApiKeys -> Expiring!Lives \cup {"gone"}]
          /\ \A x \in ApiKeys : apiKeys[x] \in {"short", "none"} => apiKeys'[x] \in {"short", "none"}
      <4>1. apiKeys[k] \in Expiring!Lives
        BY <1>t, <2>1
      <4>2. Expiring!Shorter(apiKeys[k]) \in Expiring!Lives /\ Expiring!Shorter(apiKeys[k]) \in {"short", "none"}
        BY <4>1, ShorterHolds DEF Expiring!Lives
      <4> QED
        BY <1>t, <2>1, <4>2
    <3> QED
      BY <1>t, <2>0, <2>1, <3>1, TicketStep
  <2>2. ASSUME NEW c \in Expiring!TokenSet, NEW n \in Expiring!Serials, left' = [left EXCEPT ![c][n] = Expiring!Shorter(@)],
               apiKeys' = apiKeys
        PROVE  ExpiryInv'
    <3>1. left[c][n] \in Expiring!Lives
      BY <1>t
    <3>2. Expiring!Shorter(left[c][n]) \in Expiring!Lives /\ Expiring!Shorter(left[c][n]) # "long"
      BY <3>1, ShorterHolds
    <3>3. /\ left' \in [Expiring!TokenSet -> [Expiring!Serials -> Expiring!Lives]]
          /\ \A d \in Expiring!TokenSet, m \in Expiring!Serials : left[d][m] # "long" => left'[d][m] # "long"
      BY <1>t, <2>2, <3>2
    <3>4. ExpiryTyped'
      BY <2>0, <2>2, <3>3 DEF ExpiryInv, ExpiryTyped
    <3>5. TicketsHold'
      BY <2>0 DEF ExpiryInv, TicketsHold
    <3>6. ~Divergent => TokensHold'
      BY <2>0, <3>3 DEF ExpiryInv, TokensHold
    <3>7. KeysHold'
      BY <2>0, <2>2 DEF ExpiryInv, KeysHold
    <3> QED
      BY <3>4, <3>5, <3>6, <3>7 DEF ExpiryInv
  <2> QED
    BY <1>1, <2>1, <2>2 DEF Expiring!TimePasses
<1>2. CASE Expiring!Remint
  <2>0. UNCHANGED <<left, apiKeys, tickets, named, asking, said>>
    BY <1>2 DEF Expiring!Remint
  <2>1. PICK c \in Expiring!TokenSet, E \in SUBSET Expiring!EnvSet :
          /\ E # {} /\ (Divergent \/ \A e \in Expiring!EnvSet \ E : stored[e][c] = 0)
          /\ stored' = [e \in Expiring!EnvSet |-> IF e \in E THEN [stored[e] EXCEPT ![c] = 2] ELSE stored[e]]
    BY <1>2 DEF Expiring!Remint
  <2>2. /\ stored' \in [Expiring!EnvSet -> [Expiring!TokenSet -> 0..2]]
        /\ \A e \in Expiring!EnvSet, d \in Expiring!TokenSet :
              stored'[e][d] = IF e \in E /\ d = c THEN 2 ELSE stored[e][d]
    BY <1>t, <2>1
  <2>3. ExpiryTyped'
    BY <2>0, <2>2 DEF ExpiryInv, ExpiryTyped
  <2>4. TicketsHold'
    BY <2>0 DEF ExpiryInv, TicketsHold
  <2>5. ASSUME ~Divergent PROVE TokensHold'
    <3>0. TokensHold /\ \A e \in Expiring!EnvSet \ E : stored[e][c] = 0
      BY <2>1, <2>5 DEF ExpiryInv
    <3>1. ASSUME NEW d \in Expiring!TokenSet, NEW e \in Expiring!EnvSet, NEW f \in Expiring!EnvSet,
                 stored'[e][d] # 0, stored'[f][d] # 0
          PROVE  stored'[e][d] = stored'[f][d]
      BY <2>2, <3>0, <3>1 DEF TokensHold
    <3> QED
      BY <2>0, <3>0, <3>1 DEF TokensHold
  <2>6. KeysHold'
    BY <2>0 DEF ExpiryInv, KeysHold
  <2> QED
    BY <2>3, <2>4, <2>5, <2>6 DEF ExpiryInv
<1>3. CASE Expiring!Register
  <2>0. UNCHANGED <<stored, left, apiKeys, named, asking, said>>
    BY <1>3 DEF Expiring!Register
  <2>1. PICK k \in Expiring!Live : tickets' = [tickets EXCEPT ![k].used = TRUE, ![k].live = tickets[k].reusable]
    BY <1>3 DEF Expiring!Register
  <2>2. k \in Expiring!TicketSet /\ tickets[k].live
    BY DEF Expiring!Live
  <2>3. tickets[k].live # FALSE
    BY <1>t, <2>2
  <2>4. /\ tickets' \in [Expiring!TicketSet -> [live : BOOLEAN, reusable : BOOLEAN, used : BOOLEAN]]
        /\ tickets'[k].used = TRUE /\ \A l \in Expiring!TicketSet : l # k => tickets'[l] = tickets[l]
    BY <1>t, <2>1, <2>2
  <2> QED
    BY <1>t, <2>0, <2>3, <2>4, TicketStep
<1> QED
  BY <1>1, <1>2, <1>3

\* The tickets, from the list to the last that is expired, and the ends of the checks.
LEMMA TicketsStep ==
  ASSUME ExpiryInv,
         \/ Expiring!AskHeadscale \/ Expiring!ReportExpiry \/ Expiring!PreauthKeys \/ Expiring!ListTickets
         \/ Expiring!Expire \/ Expiring!Reported
  PROVE  ExpiryInv'
<1> USE DEF Expiring!issued
<1>t. /\ tickets \in [Expiring!TicketSet -> [live : BOOLEAN, reusable : BOOLEAN, used : BOOLEAN]]
      /\ asking \in Askings /\ named \subseteq Expiring!TicketSet \cup {"unknown"} /\ asking.want \subseteq named
      /\ \A k \in Expiring!TicketSet : tickets[k].live = TRUE \/ tickets[k].used = TRUE \/ k \in named
      /\ asking.pc = "expire" => \A k \in Expiring!TicketSet \ asking.seen : tickets[k].live = FALSE
      /\ asking.pc # "idle" => said = "nothing"
      /\ asking.at >= 1
  BY DEF ExpiryInv, ExpiryTyped, TicketsHold
<1>e. ASSUME NEW r \in Reports, Expiring!End(r), UNCHANGED <<stored, left, apiKeys, tickets, named>>
      PROVE  ExpiryInv'
  BY <1>e, <1>t, AskingEnds
<1>1. CASE Expiring!AskHeadscale
  <2>1. \E r \in Reports : Expiring!End(r)
    BY <1>1 DEF Expiring!AskHeadscale, Reports
  <2> QED
    BY <1>1, <1>e, <2>1 DEF Expiring!AskHeadscale
<1>2. CASE Expiring!ReportExpiry
  BY <1>2, <1>e DEF Expiring!ReportExpiry, Reports
<1>3. CASE Expiring!Reported
  BY <1>3, <1>e DEF Expiring!Reported, Reports
<1>4. CASE Expiring!PreauthKeys
  <2>1. PICK S \in SUBSET (Expiring!TicketSet \cup {"unknown"}) :
          /\ asking' = [Expiring!Idle EXCEPT !.pc = "list", !.what = "preauth", !.want = S] /\ said' = "nothing"
          /\ named' = named \cup S
    BY <1>4 DEF Expiring!PreauthKeys, Expiring!Begin
  <2>2. UNCHANGED <<stored, left, apiKeys, tickets>>
    BY <1>4 DEF Expiring!PreauthKeys
  <2>3. /\ asking' \in Askings /\ asking'.pc = "list" /\ asking'.want = S /\ asking'.at = 1 /\ asking'.doomed = {}
    BY <2>1, NoAsking DEF Askings
  <2>4. ExpiryTyped'
    BY <1>t, <2>1, <2>2, <2>3 DEF ExpiryInv, ExpiryTyped, Reports
  <2>5. TicketsHold'
    BY <1>t, <2>1, <2>2, <2>3 DEF TicketsHold
  <2>6. ~Divergent => TokensHold'
    BY <2>2, <2>3 DEF ExpiryInv, TokensHold
  <2>7. KeysHold'
    BY <2>3 DEF KeysHold
  <2> QED
    BY <2>4, <2>5, <2>6, <2>7 DEF ExpiryInv
<1>5. CASE Expiring!ListTickets
  <2>0. UNCHANGED <<stored, left, apiKeys, tickets, named>> /\ asking.pc = "list"
    BY <1>5 DEF Expiring!ListTickets
  <2>1. CASE Expiring!End("cannot-check")
    BY <1>e, <2>0, <2>1 DEF Reports
  <2>2. CASE asking' = [asking EXCEPT !.pc = "expire", !.seen = Expiring!Live] /\ said' = said
    <3>1. Expiring!Live \in SUBSET Expiring!TicketSet
          /\ \A k \in Expiring!TicketSet \ Expiring!Live : tickets[k].live = FALSE
      BY <1>t DEF Expiring!Live
    <3>2. /\ asking' \in Askings /\ asking'.pc = "expire" /\ asking'.want = asking.want /\ asking'.at = asking.at
          /\ asking'.doomed = asking.doomed /\ asking'.missed = asking.missed /\ asking'.read = asking.read
          /\ asking'.seen = Expiring!Live
      BY <1>t, <2>2, <3>1 DEF Askings
    <3>3. ExpiryTyped'
      BY <1>t, <2>0, <2>2, <3>2 DEF ExpiryInv, ExpiryTyped
    <3>4. TicketsHold'
      BY <1>t, <2>0, <3>1, <3>2 DEF TicketsHold
    <3>5. ~Divergent => TokensHold'
      BY <2>0, <3>2 DEF ExpiryInv, TokensHold
    <3>6. KeysHold'
      BY <2>0, <3>2 DEF ExpiryInv, KeysHold
    <3> QED
      BY <3>3, <3>4, <3>5, <3>6 DEF ExpiryInv
  <2> QED
    BY <1>5, <2>1, <2>2 DEF Expiring!ListTickets
<1>6. CASE Expiring!Expire
  <2>0. UNCHANGED <<stored, left, apiKeys, named>> /\ asking.pc = "expire"
    BY <1>6 DEF Expiring!Expire
  <2>1. PICK k \in asking.want :
        \/ /\ k \in Expiring!TicketSet
           /\ tickets' = IF k \in asking.seen THEN [tickets EXCEPT ![k].live = FALSE] ELSE tickets
           /\ asking' = [asking EXCEPT !.want = @ \ {k}] /\ said' = said
        \/ Expiring!End("refused") /\ tickets' = tickets
        \/ k \in asking.seen /\ Expiring!End("cannot-check") /\ tickets' \in {tickets, [tickets EXCEPT ![k].live = FALSE]}
    BY <1>6 DEF Expiring!Expire
  <2>2. k \in asking.seen => k \in Expiring!TicketSet
    BY <1>t DEF Askings
  <2>3. /\ tickets' \in [Expiring!TicketSet -> [live : BOOLEAN, reusable : BOOLEAN, used : BOOLEAN]]
        /\ \A l \in Expiring!TicketSet : tickets'[l].live = TRUE \/ tickets'[l].used = TRUE \/ l \in named
        /\ \A l \in Expiring!TicketSet : tickets[l].live = FALSE => tickets'[l].live = FALSE
    <3>1. CASE tickets' = tickets
      BY <1>t, <3>1
    <3>2. CASE tickets' = [tickets EXCEPT ![k].live = FALSE] /\ k \in Expiring!TicketSet
      <4>1. /\ tickets' \in [Expiring!TicketSet -> [live : BOOLEAN, reusable : BOOLEAN, used : BOOLEAN]]
            /\ tickets'[k].live = FALSE /\ \A l \in Expiring!TicketSet : l # k => tickets'[l] = tickets[l]
        BY <1>t, <3>2
      <4> QED
        BY <1>t, <4>1
    <3> QED
      BY <2>1, <2>2, <3>1, <3>2
  <2>4. CASE Expiring!End("refused") \/ Expiring!End("cannot-check")
    BY <2>0, <2>3, <2>4, AskingEnds DEF Reports
  <2>5. CASE asking' = [asking EXCEPT !.want = @ \ {k}] /\ said' = said
    <3>1. asking' = [asking EXCEPT !.want = asking.want \ {k}]
      BY <1>t, <2>5 DEF Askings
    <3>2. /\ asking' \in Askings /\ asking'.pc = "expire" /\ asking'.want = asking.want \ {k} /\ asking'.at = asking.at
          /\ asking'.doomed = asking.doomed /\ asking'.missed = asking.missed /\ asking'.read = asking.read
          /\ asking'.seen = asking.seen
      BY <1>t, <2>0, <3>1 DEF Askings
    <3>3. ExpiryTyped'
      BY <1>t, <2>0, <2>3, <2>5, <3>2 DEF ExpiryInv, ExpiryTyped
    <3>4. TicketsHold'
      BY <1>t, <2>0, <2>3, <3>2 DEF TicketsHold
    <3>5. ~Divergent => TokensHold'
      BY <2>0, <3>2 DEF ExpiryInv, TokensHold
    <3>6. KeysHold'
      BY <2>0, <3>2 DEF ExpiryInv, KeysHold
    <3> QED
      BY <3>3, <3>4, <3>5, <3>6 DEF ExpiryInv
  <2> QED
    BY <2>1, <2>4, <2>5
<1> QED
  BY <1>1, <1>2, <1>3, <1>4, <1>5, <1>6

\* Each step keeps what is known of the credentials.
LEMMA ExpiryStep == ASSUME ExpiryInv, Expiring!Next PROVE ExpiryInv'
BY CheckStep, AskStep, TicketsStep, OutsideStep DEF Expiring!Next

\* At first all files have the first token issued, or none, and every ticket admits.
LEMMA ExpiryInit == Init => ExpiryInv
<1>1. Init => Expiring!Init
  BY DEF Init
<1>2. ASSUME Expiring!Init PROVE ExpiryInv
  <2>0. /\ asking = Expiring!Idle /\ said = "nothing" /\ named = {}
        /\ apiKeys \in [ApiKeys -> {"long", "gone"}] /\ stored \in [Expiring!EnvSet -> [Expiring!TokenSet -> 0..1]]
    BY <1>2 DEF Expiring!Init
  <2>1. /\ tickets \in [Expiring!TicketSet -> [live : BOOLEAN, reusable : BOOLEAN, used : BOOLEAN]]
        /\ \A k \in Expiring!TicketSet : tickets[k].live = TRUE
    BY <1>2 DEF Expiring!Init
  <2>2. left \in [Expiring!TokenSet -> [Expiring!Serials -> Expiring!Lives]]
    BY <1>2 DEF Expiring!Init, Expiring!Lives
  <2>3. stored \in [Expiring!EnvSet -> [Expiring!TokenSet -> 0..2]]
    <3>1. \A n \in 0..1 : n \in 0..2
      OBVIOUS
    <3> QED
      BY <2>0, <3>1
  <2>4. ExpiryTyped
    BY <2>0, <2>1, <2>2, <2>3, NoAsking DEF ExpiryTyped, Expiring!Lives, Reports
  <2>5. TicketsHold
    BY <2>0, <2>1, NoAsking DEF TicketsHold
  <2>6. TokensHold
    <3>1. \A n, m \in 0..1 : n # 0 /\ m # 0 => n = m
      OBVIOUS
    <3> QED
      BY <2>0, <3>1, NoAsking DEF TokensHold
  <2>7. KeysHold
    BY <2>0, NoAsking DEF KeysHold
  <2> QED
    BY <2>4, <2>5, <2>6, <2>7 DEF ExpiryInv
<1> QED
  BY <1>1, <1>2

\* What is checked follows.
LEMMA ExpiryIsTyped == ASSUME ExpiryInv PROVE Expiring!TypeOK /\ Expiring!TicketsStay
<1>1. Expiring!TypeOK
  BY DEF ExpiryInv, ExpiryTyped, Expiring!TypeOK, Askings, Reports
<1>2. Expiring!TicketsStay
  BY DEF ExpiryInv, TicketsHold, Expiring!TicketsStay
<1> QED
  BY <1>1, <1>2

\* What a check reports to be fine is, and what is said to be expired admits nobody.
LEMMA ExpiryVerdicts == ASSUME ExpiryInv, ~Divergent, Expiring!Next PROVE Expiring!FineIsSo
<1> USE DEF Expiring!issued
<1>t. /\ asking \in Askings /\ apiKeys \in [ApiKeys -> Expiring!Lives \cup {"gone"}]
      /\ asking.pc # "idle" => said = "nothing"
      /\ asking.pc = "expire" => \A k \in Expiring!TicketSet \ asking.seen : tickets[k].live = FALSE
      /\ tickets \in [Expiring!TicketSet -> [live : BOOLEAN, reusable : BOOLEAN, used : BOOLEAN]]
      /\ TokensHold /\ KeysHold
  BY DEF ExpiryInv, ExpiryTyped, TicketsHold
<1>1. ASSUME asking.pc # "idle", said' = "fine" PROVE asking.doomed \subseteq asking.missed
  <2>0. said # "fine"
    BY <1>1, <1>t
  <2>1. Expiring!AskHeadscale
    BY <1>1, <2>0 DEF Expiring!Next, Expiring!CheckExpiry, Expiring!Audit, Expiring!AskOf, Expiring!Begin, Expiring!Ask, Expiring!ReportExpiry,
       Expiring!PreauthKeys, Expiring!ListTickets, Expiring!Expire, Expiring!Reported, Expiring!TimePasses,
       Expiring!Remint, Expiring!Register, Expiring!End
  <2> DEFINE there == {k \in ApiKeys : apiKeys[k] # "gone"}
             soon == asking.soon \cup {k \in there : Expiring!Soon(apiKeys[k])}
  <2>2. asking.pc = "ask" /\ asking.at > Len(Tokens) /\ asking.blind = {} /\ soon = {}
    BY <1>1, <2>1 DEF Expiring!AskHeadscale, Expiring!End
  <2>3. asking.soon = {} /\ \A k \in ApiKeys : apiKeys[k] \notin {"short", "none"}
    BY <2>2 DEF Expiring!Soon
  <2>4. ASSUME NEW t \in asking.doomed \ asking.missed PROVE FALSE
    <3>1. CASE t \in Expiring!TokenSet \X Expiring!Serials
      <4>1. PICK i \in DOMAIN Tokens : t[1] = Tokens[i]
        BY <3>1 DEF Expiring!TokenSet
      <4>2. i < asking.at
        BY <1>t, <2>2, ExpiryAssumption DEF Askings
      <4>3. t = <<Tokens[i], t[2]>> /\ t[2] \in Expiring!Serials
        BY <3>1, <4>1
      <4> QED
        BY <1>t, <2>2, <2>3, <2>4, <4>2, <4>3 DEF TokensHold
    <3>2. CASE t \in {"headscale"} \X ApiKeys
      <4>1. t = <<"headscale", t[2]>> /\ t[2] \in ApiKeys
        BY <3>2
      <4> QED
        BY <1>t, <2>3, <2>4, <4>1 DEF KeysHold
    <3> QED
      BY <1>t, <2>4, <3>1, <3>2 DEF Askings
  <2> QED
    BY <2>4
<1>2. ASSUME asking.pc = "expire", asking.want # {}, said' = said, NEW k \in asking.want \ asking'.want
      PROVE  ~tickets'[k].live
  <2>0. said = "nothing" /\ asking' # asking
    BY <1>2, <1>t
  <2>1. Expiring!Expire
    BY <1>2, <2>0 DEF Expiring!Next, Expiring!CheckExpiry, Expiring!Audit, Expiring!AskOf, Expiring!Begin, Expiring!Ask, Expiring!AskHeadscale,
       Expiring!ReportExpiry, Expiring!PreauthKeys, Expiring!ListTickets, Expiring!Reported, Expiring!TimePasses,
       Expiring!Remint, Expiring!Register
  <2>2. PICK l \in asking.want :
           /\ l \in Expiring!TicketSet
           /\ tickets' = IF l \in asking.seen THEN [tickets EXCEPT ![l].live = FALSE] ELSE tickets
           /\ asking' = [asking EXCEPT !.want = @ \ {l}]
    BY <1>2, <2>0, <2>1 DEF Expiring!Expire, Expiring!End
  <2>3. asking'.want = asking.want \ {l}
    BY <1>t, <2>2 DEF Askings
  <2>4. k = l
    BY <2>3
  <2>5. CASE l \in asking.seen
    BY <1>t, <2>2, <2>4, <2>5
  <2>6. CASE l \notin asking.seen
    BY <1>2, <1>t, <2>2, <2>4, <2>6
  <2> QED
    BY <2>5, <2>6
<1> QED
  BY <1>1, <1>2 DEF Expiring!FineIsSo

-----------------------------------------------------------------------------
\* What keeps the parts

\* Each step keeps what is known of the access.
LEMMA AccessStep == ASSUME AccessInv, Access!Next PROVE AccessInv'
BY AccessTypeStep, BridgesStep DEF AccessInv

\* Each step keeps what is known of the drill.
LEMMA DrillStep == ASSUME DrillInv, Drill!Next PROVE DrillInv'
BY DrillTypeStep, ClaimStep, CauseStep DEF DrillInv

\* Each step keeps what is known of the reclaim.
LEMMA ReclaimStep == ASSUME ReclaimInv, Reclaim!Next PROVE ReclaimInv'
BY ReclaimTypeStep, BusyStep, RunnersStep DEF ReclaimInv

\* Each step keeps what is known of the import.
LEMMA ImportStep == ASSUME ImportInv, Import!Next PROVE ImportInv'
BY ImportTypeStep, WrittenStep, BroughtStep DEF ImportInv

-----------------------------------------------------------------------------
\* Time that passes

\* What is known of the access hangs on nothing else.
LEMMA AccessRests == ASSUME AccessInv, UNCHANGED vars PROVE AccessInv'
BY DEF AccessInv, AccessTyped, Alone, BridgesHold, CommandsHold, OwnHolds, vars, accessVars

\* What is known of the monitors hangs on nothing else.
LEMMA MonitorsRests == ASSUME MonitorsInv, UNCHANGED vars PROVE MonitorsInv'
BY DEF MonitorsHold, MonitorsInv, MonitorsTyped, NamesHold, Owns, ToCreate, ToDelete, ToEdit, vars, monitorVars

\* What is known of the machine hangs on nothing else.
LEMMA MachineRests == ASSUME MachineInv, UNCHANGED vars PROVE MachineInv'
BY DEF BuildsHold, MachineInv, MachineTyped, MeshNodes, NodesAreBuilds, vars, machineVars

\* What is known of the kill switch hangs on nothing else.
LEMMA SwitchRests == ASSUME SwitchInv, UNCHANGED vars PROVE SwitchInv'
BY DEF AimedOrSaid, SwitchInv, SwitchTyped, vars, switchVars

\* What is known of the drill hangs on nothing else.
LEMMA DrillRests == ASSUME DrillInv, UNCHANGED vars PROVE DrillInv'
BY DEF CauseHolds, ClaimHolds, Drill!NoResidue, DrillInv, DrillTyped, vars, drillVars

\* What is known of the reclaim hangs on nothing else.
LEMMA ReclaimRests == ASSUME ReclaimInv, UNCHANGED vars PROVE ReclaimInv'
BY DEF BusyHold, ReclaimInv, ReclaimTyped, RunnersHold, vars, reclaimVars

\* What is known of the import hangs on nothing else.
LEMMA ImportRests == ASSUME ImportInv, UNCHANGED vars PROVE ImportInv'
BY DEF Brought, BroughtHolds, Flows, ImportInv, ImportTyped, WrittenHolds, vars, importVars

\* What is known of Vikunja hangs on nothing else.
LEMMA VikunjaRests == ASSUME VikunjaInv, UNCHANGED vars PROVE VikunjaInv'
BY DEF Vikunja!OneOfEach, VikunjaInv, vars, vikunjaVars

\* What is known of the board hangs on nothing else.
LEMMA BoardRests == ASSUME BoardInv, UNCHANGED vars PROVE BoardInv'
BY DEF BoardInv, BoardJobs, BoardTyped, PlansHold, vars, boardVars

\* What is known of the deployment hangs on nothing else.
LEMMA DeployRests == ASSUME DeployInv, UNCHANGED vars PROVE DeployInv'
BY DEF CommandHolds, DeployInv, DeployTyped, Deployment!NothingSmuggled, FreshHolds, ImagesHold, Rollouts, vars,
       deployVars

\* What is known of the backups hangs on nothing else.
LEMMA BackupRests == ASSUME BackupInv, UNCHANGED vars PROVE BackupInv'
BY DEF BackupInv, BucketHolds, CheckTyped, Checks, CoverHolds, Covered, Destination!InForce, FineHolds, ProbeHolds, vars, backupVars

\* What is known of the sign-on hangs on nothing else.
LEMMA SignOnRests == ASSUME SignOnInv, UNCHANGED vars PROVE SignOnInv'
BY DEF CopiesHold, Identities, SignOnInv, SignOnTyped, Signings, VersionsHold, vars, signOnVars

\* What is known of the expiry hangs on nothing else.
LEMMA ExpiryRests == ASSUME ExpiryInv, UNCHANGED vars PROVE ExpiryInv'
BY DEF Askings, ExpiryInv, ExpiryTyped, KeysHold, TicketsHold, TokensHold, vars, expiryVars

-----------------------------------------------------------------------------
\* The whole

\* What is known of the part that takes steps.
Active ==
    /\ part = "access" => AccessInv
    /\ part = "monitors" => MonitorsInv
    /\ part = "machine" => MachineInv
    /\ part = "switch" => SwitchInv
    /\ part = "drill" => DrillInv
    /\ part = "reclaim" => ReclaimInv
    /\ part = "import" => ImportInv
    /\ part = "vikunja" => VikunjaInv
    /\ part = "board" => BoardInv
    /\ part = "deploy" => DeployInv
    /\ part = "backup" => BackupInv
    /\ part = "sign-on" => SignOnInv
    /\ part = "expiry" => ExpiryInv

\* And of those that do not.
Resting ==
    /\ part # "access" => proc = [p \in Pids |-> "free"] /\ bound = {}
    /\ part # "monitors" => live = {}
    /\ part # "switch" => target = "hub"
    /\ part # "drill" => drill = 1 /\ pc # "remove"
    /\ part # "reclaim" => running = Reclaim!RunnerSet
    /\ part # "import" => loaded = [n \in Import!Names |-> Import!Absent]
    /\ part # "vikunja" => Vikunja!OneOfEach
    /\ part # "board" => command = Governed!NoJob
    /\ part # "deploy" => Deployment!NothingSmuggled
    /\ part # "backup" => Destination!NoLockout
    /\ part # "sign-on" => web = gitea
    /\ part # "expiry" => Expiring!TicketsStay

Inv == part \in Parts /\ Active /\ Resting

\* At first every part is known.
LEMMA InvInit == Init => Inv
<1> SUFFICES ASSUME Init PROVE Inv
  OBVIOUS
<1>1. /\ AccessInv /\ MonitorsInv /\ MachineInv /\ SwitchInv /\ DrillInv /\ ReclaimInv /\ ImportInv
      /\ VikunjaInv /\ BoardInv /\ DeployInv /\ BackupInv /\ SignOnInv /\ ExpiryInv
  BY AccessInit, MonitorsInit, MachineInit, SwitchInit, DrillInit, ReclaimInit, ImportInit, VikunjaInit, BoardInit,
     DeployInit, BackupInit, SignOnInit, ExpiryInit
<1>2. part \in Parts /\ Active
  BY <1>1 DEF Active, Init
<1>3. /\ proc = [p \in Pids |-> "free"] /\ bound = {}
  BY DEF Init, Access!Init
<1>4. part # "monitors" => live = {}
  BY DEF Init
<1>5. target = "hub"
  BY DEF Init, Switch!Init
<1>6. drill = 1 /\ pc # "remove"
  BY DEF Init, Drill!Init
<1>7. running = Reclaim!RunnerSet
  BY DEF Init, Reclaim!Init
<1>8. part # "import" => loaded = [n \in Import!Names |-> Import!Absent]
  BY DEF Init, Import!Init
<1>9. Vikunja!OneOfEach
  BY <1>1 DEF VikunjaInv
<1>10. command = Governed!NoJob
  BY DEF Init, Governed!Init
<1>11. web = gitea
  BY DEF Init, Single!Init
<1>12. Deployment!NothingSmuggled /\ Destination!NoLockout /\ Expiring!TicketsStay
  BY <1>1, DeployIsTyped, BackupIsTyped, ExpiryIsTyped
<1> QED
  BY <1>2, <1>3, <1>4, <1>5, <1>6, <1>7, <1>8, <1>9, <1>10, <1>11, <1>12 DEF Resting, Inv

\* The parts that take no step stay as they are.
LEMMA RestsStay ==
  ASSUME Resting, NEW p, part = p, StillBut(p), pc' = pc \/ pc' # "remove" \/ p = "drill"
  PROVE  Resting'
<1>0. part' = p
  BY DEF StillBut
<1>1. /\ p # "access" => proc' = [q \in Pids |-> "free"] /\ bound' = {}
      /\ p # "monitors" => live' = {}
      /\ p # "switch" => target' = "hub"
      /\ p # "drill" => drill' = 1 /\ pc' # "remove"
      /\ p # "reclaim" => running' = Reclaim!RunnerSet
      /\ p # "import" => loaded' = [n \in Import!Names |-> Import!Absent]
      /\ p # "board" => command' = Governed!NoJob
      /\ p # "sign-on" => web' = gitea'
  BY DEF Resting, StillBut, accessVars, monitorVars, switchVars, drillVars, reclaimVars, importVars, boardVars, signOnVars
<1>2. p # "vikunja" => Vikunja!OneOfEach'
  BY DEF Resting, StillBut, vikunjaVars, Vikunja!OneOfEach
<1>3. p # "deploy" => Deployment!NothingSmuggled'
  BY DEF Resting, StillBut, deployVars, Deployment!NothingSmuggled
<1>4. p # "backup" => Destination!NoLockout'
  BY DEF Resting, StillBut, backupVars, Destination!NoLockout
<1>5. p # "expiry" => Expiring!TicketsStay'
  BY DEF Resting, StillBut, expiryVars, Expiring!TicketsStay
<1> QED
  BY <1>0, <1>1, <1>2, <1>3, <1>4, <1>5 DEF Resting

\* The one that takes a step keeps what is known of it.
LEMMA ActiveStep == ASSUME part \in Parts, Active, Next PROVE Active' /\ part' = part
<1>0. part' = part
  BY DEF Next, Step, StillBut
<1>1. ASSUME part = "access" PROVE AccessInv'
  BY <1>1, AccessStep DEF Active, Next, Step
<1>2. ASSUME part = "monitors" PROVE MonitorsInv'
  BY <1>2, MonitorsStep DEF Active, Next, Step
<1>3. ASSUME part = "machine" PROVE MachineInv'
  BY <1>3, MachineStep DEF Active, Next, Step
<1>4. ASSUME part = "switch" PROVE SwitchInv'
  BY <1>4, SwitchStep DEF Active, Next, Step
<1>5. ASSUME part = "drill" PROVE DrillInv'
  BY <1>5, DrillStep DEF Active, Next, Step
<1>6. ASSUME part = "reclaim" PROVE ReclaimInv'
  BY <1>6, ReclaimStep DEF Active, Next, Step
<1>7. ASSUME part = "import" PROVE ImportInv'
  BY <1>7, ImportStep DEF Active, Next, Step
<1>8. ASSUME part = "vikunja" PROVE VikunjaInv'
  BY <1>8, VikunjaStep DEF Active, Next, Step
<1>9. ASSUME part = "board" PROVE BoardInv'
  BY <1>9, BoardStep DEF Active, Next, Step
<1>10. ASSUME part = "deploy" PROVE DeployInv'
  BY <1>10, DeployStep DEF Active, Next, Step
<1>11. ASSUME part = "backup" PROVE BackupInv'
  BY <1>11, BackupStep DEF Active, Next, Step
<1>12. ASSUME part = "sign-on" PROVE SignOnInv'
  BY <1>12, SignOnStep DEF Active, Next, Step
<1>13. ASSUME part = "expiry" PROVE ExpiryInv'
  BY <1>13, ExpiryStep DEF Active, Next, Step
<1> QED
  BY <1>0, <1>1, <1>2, <1>3, <1>4, <1>5, <1>6, <1>7, <1>8, <1>9, <1>10, <1>11, <1>12, <1>13 DEF Active

\* No step of another part is the removal of a claim.
LEMMA NoOtherRemoves == ASSUME part \in Parts, Active, Next, part # "drill" PROVE pc' = pc \/ pc' # "remove"
<1>1. Active' /\ part' = part
  BY ActiveStep
<1>2. CASE part \in {"access", "board", "deploy", "backup", "sign-on", "expiry"}
  BY <1>2 DEF Next, Step, StillBut
<1>3. ASSUME part = "monitors" PROVE pc' # "remove"
  BY <1>1, <1>3 DEF Active, MonitorsInv, MonitorsTyped
<1>4. ASSUME part = "machine" PROVE pc' # "remove"
  BY <1>1, <1>4 DEF Active, MachineInv, MachineTyped
<1>5. ASSUME part = "switch" PROVE pc' # "remove"
  BY <1>1, <1>5 DEF Active, SwitchInv, SwitchTyped
<1>6. ASSUME part = "reclaim" PROVE pc' # "remove"
  BY <1>1, <1>6 DEF Active, ReclaimInv, ReclaimTyped
<1>7. ASSUME part = "import" PROVE pc' # "remove"
  BY <1>1, <1>7 DEF Active, ImportInv, ImportTyped
<1>8. ASSUME part = "vikunja" PROVE pc' # "remove"
  BY <1>1, <1>8 DEF Active, VikunjaInv
<1> QED
  BY <1>2, <1>3, <1>4, <1>5, <1>6, <1>7, <1>8 DEF Parts

\* Nothing is known of what does not change that is not known afterwards.
LEMMA InvRests == ASSUME Inv, UNCHANGED vars PROVE Inv'
<1>0. part' = part
  BY DEF vars
<1>1. Active'
  BY <1>0, AccessRests, MonitorsRests, MachineRests, SwitchRests, DrillRests, ReclaimRests, ImportRests, VikunjaRests,
     BoardRests, DeployRests, BackupRests, SignOnRests, ExpiryRests DEF Inv, Active
<1>2. StillBut(part) /\ pc' = pc
  BY DEF vars, StillBut
<1>3. Resting'
  BY <1>2, RestsStay DEF Inv
<1> QED
  BY <1>0, <1>1, <1>3 DEF Inv

\* What is known of the parts holds at every moment.
LEMMA InvHolds == Spec => []Inv
<1>1. Init => Inv
  BY InvInit
<1>2. ASSUME Inv, Next PROVE Inv'
  <2>1. Active' /\ part' = part
    BY <1>2, ActiveStep DEF Inv
  <2>2. StillBut(part)
    BY <1>2 DEF Next, Step
  <2>3. Resting'
    BY <1>2, <2>2, NoOtherRemoves, RestsStay DEF Inv
  <2> QED
    BY <1>2, <2>1, <2>3 DEF Inv
<1>3. Inv /\ [Next]_vars => Inv'
  BY <1>2, InvRests
<1> QED
  BY <1>1, <1>3, PTL DEF Spec

\* Every variable of the part at work keeps its type.
THEOREM TypesHold == Spec => []TypeOK
<1>1. Inv => TypeOK
  BY AccessIsTyped, MonitorsAreTyped, MachineIsTyped, SwitchIsTyped, DrillIsTyped, ReclaimIsTyped, ImportIsTyped,
     BoardIsTyped, DeployIsTyped, BackupIsTyped, SignOnIsTyped, ExpiryIsTyped DEF Inv, Active, TypeOK, VikunjaInv, Vikunja!TypeOK
<1> QED
  BY <1>1, InvHolds, PTL

\* A command that changes something for the time it runs has put it back when it is
\* over, as long as no two operators use the access at once and Docker starts what it
\* is told to start: no bridge, claim, stopped runner, kill switch pointed elsewhere or
\* stale Gitea stays without somebody having been told (k8s_connect.py, pvc_drill.py,
\* infra.py, gcp_killswitch_proof.py, configure_oidc.py).
THEOREM NothingIsLeft == ASSUME ~Overlap, ~DaemonFails PROVE Spec => []NothingLeftBehind
<1>1. ASSUME Inv PROVE Access!NoOrphan
  BY <1>1, AccessIsTyped DEF Inv, Active, Resting, Access!NoOrphan
<1>2. ASSUME Inv PROVE Drill!NoResidue
  BY <1>2, DrillIsTyped DEF Inv, Active, Resting, Drill!NoResidue
<1>3. ASSUME Inv PROVE Reclaim!RunnersReturn
  BY <1>3, ReclaimIsTyped DEF Inv, Active, Resting, Reclaim!RunnersReturn
<1>4. ASSUME Inv PROVE Switch!SwitchIsAimed
  BY <1>4, SwitchIsTyped DEF Inv, Active, Resting, Switch!SwitchIsAimed
<1>5. ASSUME Inv PROVE Single!StaleIsKnown
  BY <1>5, SignOnIsTyped DEF Inv, Active, Resting, Single!StaleIsKnown
<1>6. Inv => NothingLeftBehind
  BY <1>1, <1>2, <1>3, <1>4, <1>5 DEF NothingLeftBehind
<1> QED
  BY <1>6, InvHolds, PTL

\* A synchronisation of the monitors or of Vikunja makes nothing twice, however often
\* it fails and is run again: a monitor as long as none is given the name of one that the
\* seed, the monitors or a backup have, an item of Vikunja but for one more each time that
\* an answer left it out (monitoring.py, vikunja_reconciler.py).
THEOREM OneOfEachIsKept == ASSUME ~ReuseNames PROVE Spec => []OneOfEachKept
<1>1. ASSUME Inv PROVE Monitors!OneMonitorPerKey
  BY <1>1, MonitorsAreTyped DEF Inv, Active, Resting, Monitors!OneMonitorPerKey
<1>2. ASSUME Inv PROVE Vikunja!OneOfEach
  BY <1>2 DEF Inv, Active, Resting, VikunjaInv
<1>3. Inv => OneOfEachKept
  BY <1>1, <1>2 DEF OneOfEachKept
<1> QED
  BY <1>3, InvHolds, PTL

\* The halves of ReportsAreTrue and OthersSpared: of the states, and of the steps.
ReportsStand ==
    /\ Access!DownIsDown /\ Drill!FiredIsCaused /\ Import!ImportedIsLive
    /\ Governed!ReportIsTrue /\ Deployment!NothingSmuggled

VerdictsAre ==
    /\ part = "deploy" => Deployment!ReportHolds
    /\ part = "backup" => Destination!VerdictHolds
    /\ part = "sign-on" => Single!SignOnHolds
    /\ part = "expiry" => Expiring!FineIsSo

AccessStays == Destination!NoLockout /\ Expiring!TicketsStay

OwnersKeep ==
    /\ Monitors!HistoryFollowsKey /\ Machine!LivingKept /\ Reclaim!BusyAreSpared
    /\ Governed!BoardKept /\ Single!HashStays

\* What a command has reported stays so, as long as no two operators use the access at
\* once and no drill is begun under a pending alert (k8s_connect.py, pvc_drill.py,
\* n8n_import.py, board_set.py, infra.py).
THEOREM ReportsHold == ASSUME ~Overlap, ~Hasty PROVE Spec => []ReportsStand
<1>1. Inv => ReportsStand
  <2>1. ASSUME Inv PROVE Access!DownIsDown
    BY <2>1, AccessIsTyped DEF Inv, Active, Resting, Access!DownIsDown
  <2>2. ASSUME Inv PROVE Drill!FiredIsCaused
    BY <2>2, DrillIsTyped DEF Inv, Active, Resting, Drill!FiredIsCaused
  <2>3. ASSUME Inv PROVE Import!ImportedIsLive
    BY <2>3, ImportIsTyped DEF Inv, Active, Resting, Import!ImportedIsLive
  <2>4. ASSUME Inv PROVE Governed!ReportIsTrue
    BY <2>4, BoardIsTyped DEF Inv, Active, Resting, Governed!ReportIsTrue, Governed!NoJob
  <2>5. ASSUME Inv PROVE Deployment!NothingSmuggled
    BY <2>5, DeployIsTyped DEF Inv, Active, Resting
  <2> QED
    BY <2>1, <2>2, <2>3, <2>4, <2>5 DEF ReportsStand
<1> QED
  BY <1>1, InvHolds, PTL

\* What a command reports is so in the step in which it does, as long as no two files
\* have different tokens under one path: a check of the tokens speaks only of those that
\* are in a file that it could read (infra.py, backup_destination.py, configure_oidc.py,
\* grafana_admin_identity.py, cli/secrets.py).
THEOREM VerdictsHold == ASSUME ~Divergent PROVE Spec => [][VerdictsAre]_vars
<1>1. ASSUME Inv, Next PROVE VerdictsAre
  <2>1. ASSUME part = "deploy" PROVE Deployment!ReportHolds
    <3>1. DeployInv /\ Deployment!Next
      BY <1>1, <2>1 DEF Inv, Active, Next, Step
    <3> QED
      BY <3>1, OutcomesAreSo
  <2>2. ASSUME part = "backup" PROVE Destination!VerdictHolds
    <3>1. BackupInv /\ Destination!Next
      BY <1>1, <2>2 DEF Inv, Active, Next, Step
    <3> QED
      BY <3>1, BackupVerdicts
  <2>3. ASSUME part = "sign-on" PROVE Single!SignOnHolds
    <3>1. SignOnInv /\ Single!Next
      BY <1>1, <2>3 DEF Inv, Active, Next, Step
    <3> QED
      BY <3>1, VerdictsAreSo
  <2>4. ASSUME part = "expiry" PROVE Expiring!FineIsSo
    <3>1. ExpiryInv /\ Expiring!Next
      BY <1>1, <2>4 DEF Inv, Active, Next, Step
    <3> QED
      BY <3>1, ExpiryVerdicts
  <2> QED
    BY <2>1, <2>2, <2>3, <2>4 DEF VerdictsAre
<1>2. Inv /\ [Next]_vars => [VerdictsAre]_vars
  BY <1>1
<1> QED
  BY <1>2, InvHolds, PTL DEF Spec

\* What a command reports is so, under the hypotheses of both.
THEOREM ReportsAreSo == ASSUME ~Overlap, ~Hasty, ~Divergent PROVE Spec => ReportsAreTrue
<1>1. Spec => []ReportsStand /\ [][VerdictsAre]_vars
  BY ReportsHold, VerdictsHold
<1> QED
  BY <1>1 DEF ReportsAreTrue, ReportsStand, VerdictsAre

\* Nobody is locked out: the nodes' snapshots can be read unless the password was replaced,
\* by force or because sops failed when it was looked for, and a ticket that nobody named
\* admits until it is used (cli/backup.py, secret_expiry.py).
THEOREM AccessIsKept == Spec => []AccessStays
<1>1. Inv => AccessStays
  <2>1. ASSUME Inv PROVE Destination!NoLockout
    BY <2>1, BackupIsTyped DEF Inv, Active, Resting
  <2>2. ASSUME Inv PROVE Expiring!TicketsStay
    BY <2>2, ExpiryIsTyped DEF Inv, Active, Resting
  <2> QED
    BY <2>1, <2>2 DEF AccessStays
<1> QED
  BY <1>1, InvHolds, PTL

\* What is alive and somebody else's is not taken, as long as no monitor is given a name
\* that another one has: besides snapshots and tickets, not the history of a monitor, the name of the machine
\* that runs, the builder of a job, what people gave an issue or the hash that Authelia
\* runs with (monitoring_diff.py, headscale_nodes.py, docker_reclaim.py,
\* board_priority.py, board_streams.py, sync_oidc_hashes.py).
THEOREM OthersAreSpared == ASSUME ~ReuseNames PROVE Spec => OthersSpared
<1>1. ASSUME Inv, Next PROVE OwnersKeep
  <2>0. StillBut(part)
    BY <1>1 DEF Next, Step
  <2>1. Monitors!HistoryFollowsKey
    <3>1. ASSUME part = "monitors" PROVE Monitors!HistoryFollowsKey
      <4>1. MonitorsInv /\ Monitors!Next
        BY <1>1, <3>1 DEF Inv, Active, Next, Step
      <4> QED
        BY <4>1, HistoryStays
    <3>2. ASSUME part # "monitors" PROVE Monitors!HistoryFollowsKey
      BY <1>1, <3>2 DEF Inv, Resting, Monitors!HistoryFollowsKey
    <3> QED
      BY <3>1, <3>2
  <2>2. Machine!LivingKept
    <3>1. ASSUME part = "machine" PROVE Machine!LivingKept
      <4>1. MachineInv /\ Machine!Next
        BY <1>1, <3>1 DEF Inv, Active, Next, Step
      <4> QED
        BY <4>1, NameStays
    <3>2. ASSUME part # "machine" PROVE Machine!LivingKept
      BY <2>0, <3>2 DEF StillBut, machineVars, Machine!LivingKept, Machine!Holders
    <3> QED
      BY <3>1, <3>2
  <2>3. Reclaim!BusyAreSpared
    <3>1. ASSUME part = "reclaim" PROVE Reclaim!BusyAreSpared
      <4>1. ReclaimInv /\ Reclaim!Next
        BY <1>1, <3>1 DEF Inv, Active, Next, Step
      <4> QED
        BY <4>1, BusyStay
    <3>2. ASSUME part # "reclaim" PROVE Reclaim!BusyAreSpared
      BY <2>0, <3>2 DEF StillBut, reclaimVars, Reclaim!BusyAreSpared
    <3> QED
      BY <3>1, <3>2
  <2>4. Governed!BoardKept
    <3>1. ASSUME part = "board" PROVE Governed!BoardKept
      <4>1. BoardInv /\ Governed!Next
        BY <1>1, <3>1 DEF Inv, Active, Next, Step
      <4> QED
        BY <4>1, PeoplesStay
    <3>2. ASSUME part # "board" PROVE Governed!BoardKept
      BY <2>0, <3>2 DEF StillBut, boardVars, Governed!BoardKept
    <3> QED
      BY <3>1, <3>2
  <2>5. Single!HashStays
    <3>1. ASSUME part = "sign-on" PROVE Single!HashStays
      <4>1. SignOnInv /\ Single!Next
        BY <1>1, <3>1 DEF Inv, Active, Next, Step
      <4> QED
        BY <4>1, VerdictsAreSo
    <3>2. ASSUME part # "sign-on" PROVE Single!HashStays
      BY <2>0, <3>2 DEF StillBut, signOnVars, Single!HashStays
    <3> QED
      BY <3>1, <3>2
  <2> QED
    BY <2>1, <2>2, <2>3, <2>4, <2>5 DEF OwnersKeep
<1>2. Inv /\ [Next]_vars => [OwnersKeep]_vars
  BY <1>1
<1>3. Spec => []AccessStays /\ [][OwnersKeep]_vars
  BY <1>2, AccessIsKept, InvHolds, PTL DEF Spec
<1> QED
  BY <1>3 DEF OthersSpared, AccessStays, OwnersKeep
=============================================================================
