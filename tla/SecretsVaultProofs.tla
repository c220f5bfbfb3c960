-------------------------- MODULE SecretsVaultProofs --------------------------
(****************************************************************************)
(* What the commands on the credential files keep, for any catalog, any     *)
(* operators, and any number of commands, failures and interruptions.       *)
(****************************************************************************)
EXTENDS SecretsVault, TLAPS

\* The values of the catalog.
Values == [Keys -> Int]

\* What a reader gets of a file is a value of each key, and so is what is in it.
LEMMA ValuesOfFiles == ASSUME TypeOK, NEW f \in Files PROVE Decrypted(f) \in Values /\ data[f] \in Values
BY DEF TypeOK, Decrypted, Nothing, Values, Absent

\* So is what a reader gets of a file that it cannot decrypt.
LEMMA NothingIsValues == Nothing \in Values
BY DEF Nothing, Values, Absent

\* One file laid over the other.
LEMMA OverIsValues == ASSUME NEW u \in Values, NEW l \in Values PROVE Over(u, l) \in Values
BY DEF Over, Values

\* What `generate` sets in the two files.
LEMMA SeedIsValues ==
  ASSUME NEW v \in Values, NEW p \in Int, NEW n \in Int
  PROVE  SeedValues(v, p, n) \in Values /\ HubValues(p) \in Values
BY DEF SeedValues, HubValues, Kept, Values, Absent

\* What `hash` sets.
LEMMA DigestsAreValues ==
  ASSUME NEW v \in Values, NEW S PROVE Digests(v, S) \in Values
BY CatalogAssumption DEF Digests, Values, Absent

\* The types of what commands hold.
ProcessTyped ==
    /\ cmd \in [Operators -> {"none"} \cup Commands]
    /\ pc \in [Operators -> {"idle", "decrypt", "write", "seal", "digest", "share", "derive", "edit", "told", "kuma"}]
    /\ target \in [Operators -> Files]
    /\ seen \in [Operators -> [Keys -> Int]] /\ pick \in [Operators -> [Keys -> Int]]
    /\ copy \in [Operators -> [Keys -> Int]] /\ typed \in [Operators -> Int]
    /\ todo \in [Operators -> SUBSET Keys]
    /\ hurt \in [Operators -> BOOLEAN] /\ blind \in [Operators -> BOOLEAN]
    /\ ended \in [Operators -> {"none"} \cup Commands]

\* They are a part of the type invariant.
LEMMA ProcessOfType == TypeOK => ProcessTyped
BY DEF TypeOK, ProcessTyped

\* What was read, in whole or not, is noted as a truth value.
LEMMA GetsIsTyped ==
  ASSUME TypeOK, NEW o \in Operators, NEW got, NEW there, Gets(o, got, there)
  PROVE  blind' \in [Operators -> BOOLEAN] /\ faults' \in Nat
<1>1. CASE got = there
  BY <1>1 DEF Gets, TypeOK
<1>2. CASE got # there
  <2>1. faults' = faults + 1 /\ blind' = [blind EXCEPT ![o] = TRUE]
    BY <1>2 DEF Gets, Fault
  <2>2. faults \in Nat /\ blind \in [Operators -> BOOLEAN]
    BY DEF TypeOK
  <2>3. blind' \in [Operators -> BOOLEAN]
    BY <2>1, <2>2
  <2> QED
    BY <2>1, <2>2, <2>3
<1> QED
  BY <1>1, <1>2

\* The end of a command clears what is the command's.
LEMMA EndIsTyped == ASSUME TypeOK, NEW o \in Operators, NEW well, End(o, well) PROVE ProcessTyped'
<1>1. Absent \in Int /\ Nothing \in [Keys -> Int] /\ "env" \in Files
  BY DEF Absent, Nothing, Files
<1> QED
  BY <1>1 DEF TypeOK, ProcessTyped, End, GoTo

\* After a rewrite a command goes on, or ends.
LEMMA OnwardIsTyped ==
  ASSUME TypeOK, NEW o \in Operators, NEW h \in BOOLEAN, Onward(o), hurt' = [hurt EXCEPT ![o] = h] \/ hurt' = hurt
  PROVE  ProcessTyped'
<1>1. HubValues(typed[o]) \in [Keys -> Int]
  BY SeedIsValues, NothingIsValues DEF TypeOK, Values, Absent
<1>2. hurt' \in [Operators -> BOOLEAN]
  BY DEF TypeOK
<1>3. CASE Rewrite(o, "common", HubValues(typed[o])) /\ UNCHANGED <<cmd, seen, typed, copy, todo, blind, ended>>
  BY <1>1, <1>2, <1>3 DEF Rewrite, GoTo, TypeOK, ProcessTyped, Files
<1>4. CASE GoTo(o, "kuma") /\ UNCHANGED <<cmd, target, seen, pick, typed, copy, todo, blind, ended>>
  BY <1>2, <1>4 DEF GoTo, TypeOK, ProcessTyped
<1> QED
  BY <1>3, <1>4 DEF Onward

\* What follows a rewrite that succeeded keeps the types.
LEMMA SealedIsTyped == ASSUME TypeOK, NEW o \in Operators, Sealed(o) PROVE ProcessTyped'
<1>1. CASE Onward(o) /\ UNCHANGED hurt
  BY <1>1, OnwardIsTyped
<1>2. CASE End(o, ~hurt[o])
  BY <1>2, EndIsTyped
<1>3. CASE /\ todo' = [todo EXCEPT ![o] = {}] /\ GoTo(o, "digest")
           /\ UNCHANGED <<cmd, target, seen, pick, typed, copy, hurt, blind, ended>>
  BY <1>3 DEF GoTo, TypeOK, ProcessTyped
<1>4. CASE /\ copy' = [copy EXCEPT ![o] = [k \in Keys |-> IF k \in Shared THEN Absent ELSE seen[o][k]]]
           /\ target' = [target EXCEPT ![o] = "env"] /\ GoTo(o, "write")
           /\ UNCHANGED <<cmd, seen, pick, typed, todo, hurt, blind, ended>>
  <2>1. [k \in Keys |-> IF k \in Shared THEN Absent ELSE seen[o][k]] \in [Keys -> Int]
    BY DEF TypeOK, Absent
  <2> QED
    BY <1>4, <2>1 DEF GoTo, TypeOK, ProcessTyped, Files
<1> QED
  BY <1>1, <1>2, <1>3, <1>4 DEF Sealed

\* And what follows one that did not take place.
LEMMA NotWrittenIsTyped == ASSUME TypeOK, NEW o \in Operators, NotWritten(o) PROVE ProcessTyped'
<1>1. CASE Onward(o) /\ hurt' = [hurt EXCEPT ![o] = TRUE]
  BY <1>1, OnwardIsTyped
<1>2. CASE End(o, FALSE)
  BY <1>2, EndIsTyped
<1>3. CASE /\ hurt' = [hurt EXCEPT ![o] = TRUE] /\ GoTo(o, "digest")
           /\ UNCHANGED <<cmd, target, seen, pick, typed, copy, todo, blind, ended>>
  BY <1>3 DEF GoTo, TypeOK, ProcessTyped
<1> QED
  BY <1>1, <1>2, <1>3 DEF NotWritten

\* The types of all that a failed read does not change.
OthersTyped ==
    /\ form \in [Files -> {"sealed", "plain"}] /\ data \in [Files -> [Keys -> Int]] /\ kuma \in Int
    /\ cmd \in [Operators -> {"none"} \cup Commands]
    /\ pc \in [Operators -> {"idle", "decrypt", "write", "seal", "digest", "share", "derive", "edit", "told", "kuma"}]
    /\ target \in [Operators -> Files]
    /\ seen \in [Operators -> [Keys -> Int]] /\ pick \in [Operators -> [Keys -> Int]]
    /\ copy \in [Operators -> [Keys -> Int]] /\ typed \in [Operators -> Int]
    /\ todo \in [Operators -> SUBSET Keys] /\ hurt \in [Operators -> BOOLEAN]
    /\ ended \in [Operators -> {"none"} \cup Commands]
    /\ fresh \in Nat /\ runs \in Nat

\* Every step keeps the types of the files and of what commands hold.
LEMMA TypeStep == ASSUME TypeOK, [Next]_vars PROVE TypeOK'
<1> USE DEF Files
<1>0. Values = [Keys -> Int] /\ Absent \in Int /\ fresh \in Nat
  BY DEF Values, Absent, TypeOK
<1>1. ASSUME NEW o \in Operators, Generate(o) PROVE TypeOK'
  <2>1. PICK read \in {Decrypted("env"), Nothing}, password \in {fresh', data["env"][Password]} \ {Absent} :
          /\ Gets(o, read, Decrypted("env"))
          /\ seen' = [seen EXCEPT ![o] = read]
          /\ typed' = [typed EXCEPT ![o] = password]
          /\ Rewrite(o, "env", SeedValues(read, password, fresh'))
    BY <1>1 DEF Generate
  <2>2. password \in Int /\ fresh' \in Int
    BY <1>1, CatalogAssumption DEF Generate, TypeOK
  <2>3. read \in Values
    BY <2>1, ValuesOfFiles, NothingIsValues
  <2>4. SeedValues(read, password, fresh') \in Values
    BY <2>2, <2>3, SeedIsValues
  <2>5. blind' \in [Operators -> BOOLEAN] /\ faults' \in Nat
    BY <2>1, GetsIsTyped
  <2>6. OthersTyped'
    BY <1>1, <1>0, <2>1, <2>2, <2>3, <2>4 DEF Generate, Start, Rewrite, GoTo, TypeOK, OthersTyped, files
  <2> QED
    BY <2>5, <2>6 DEF TypeOK, OthersTyped
<1>2. ASSUME NEW o \in Operators, NEW S \in SUBSET Keys, InitSecrets(o, S) \/ ForceSecrets(o, S) PROVE TypeOK'
  <2>1. fresh' \in Nat /\ [k \in Keys |-> IF k \in S THEN fresh' ELSE Absent] \in Values
    BY <1>2, <1>0 DEF InitSecrets, ForceSecrets
  <2>2. PICK values \in [Keys -> Int] : Rewrite(o, "env", values)
    BY <1>2, <1>0, <2>1 DEF InitSecrets, ForceSecrets
  <2>3. PICK c \in Commands : Start(o, c)
    BY <1>2 DEF InitSecrets, ForceSecrets, Start
  <2>4. UNCHANGED <<files, kuma, seen, typed, copy, todo, hurt>>
    BY <1>2 DEF InitSecrets, ForceSecrets
  <2>5. blind' \in [Operators -> BOOLEAN] /\ faults' \in Nat
    <3>1. CASE InitSecrets(o, S)
      BY <3>1, GetsIsTyped DEF InitSecrets
    <3>2. CASE ForceSecrets(o, S)
      BY <3>2 DEF ForceSecrets, TypeOK
    <3> QED
      BY <1>2, <3>1, <3>2
  <2>6. OthersTyped'
    BY <2>1, <2>2, <2>3, <2>4 DEF Start, Rewrite, GoTo, TypeOK, OthersTyped, files
  <2> QED
    BY <2>5, <2>6 DEF TypeOK, OthersTyped
<1>3. ASSUME NEW o \in Operators, Hash(o) PROVE TypeOK'
  <2>1. data["env"] \in Values /\ Digests(data["env"], {}) \in Values
    BY ValuesOfFiles, DigestsAreValues
  <2>2. Lacking(Nothing) \subseteq Keys
    BY CatalogAssumption DEF Lacking, HashSources
  <2>3. ASSUME NEW anew \in SUBSET Lacking(Nothing), Gets(o, anew, Lacking(data["env"])),
               Rewrite(o, "env", [k \in Keys |-> IF k \in anew THEN fresh' ELSE Absent]),
               fresh' = fresh + 1, todo' = [todo EXCEPT ![o] = anew]
        PROVE  TypeOK'
    <3>1. [k \in Keys |-> IF k \in anew THEN fresh' ELSE Absent] \in Values /\ anew \subseteq Keys
      BY <1>0, <2>2, <2>3
    <3>2. blind' \in [Operators -> BOOLEAN] /\ faults' \in Nat
      BY <2>3, GetsIsTyped
    <3>3. OthersTyped'
      BY <1>3, <1>0, <2>1, <2>3, <3>1 DEF Hash, Start, Rewrite, GoTo, TypeOK, OthersTyped, files
    <3> QED
      BY <3>2, <3>3 DEF TypeOK, OthersTyped
  <2>4. CASE Rewrite(o, "env", Digests(data["env"], {})) /\ UNCHANGED <<todo, blind, fresh, faults>>
    BY <1>3, <1>0, <2>1, <2>4 DEF Hash, Start, Rewrite, GoTo, TypeOK, files
  <2> QED
    BY <1>3, <2>3, <2>4 DEF Hash
<1>4. ASSUME NEW o \in Operators, HashGoesOn(o) PROVE TypeOK'
  <2> DEFINE values == IF todo[o] = {} THEN Decrypted("env") ELSE seen[o]
  <2> DEFINE digests == Digests(values, todo[o])
  <2>1. digests \in Values
    <3>1. values \in Values
      BY ValuesOfFiles, <1>0 DEF TypeOK
    <3> QED
      BY <3>1, DigestsAreValues
  <2>2. CASE End(o, FALSE)
    BY <1>4, <2>2, EndIsTyped DEF HashGoesOn, TypeOK, ProcessTyped, files
  <2>3. CASE Rewrite(o, "env", digests) /\ todo' = [todo EXCEPT ![o] = {}] /\ UNCHANGED <<cmd, seen, typed, copy, hurt, blind, ended>>
    <3> HIDE DEF digests
    <3> QED
      BY <1>4, <1>0, <2>1, <2>3 DEF HashGoesOn, Rewrite, GoTo, TypeOK, files
  <2> QED
    BY <1>4, <2>2, <2>3 DEF HashGoesOn
<1>5. ASSUME NEW o \in Operators, Extract(o) PROVE TypeOK'
  BY <1>5 DEF Extract, Start, GoTo, TypeOK, files
<1>6. ASSUME NEW o \in Operators, Share(o) PROVE TypeOK'
  <2>1. PICK read \in {Decrypted("common"), Nothing} :
          /\ Gets(o, read, Decrypted("common"))
          /\ copy' = [copy EXCEPT ![o] =
                [k \in Keys |-> IF k \in Shared /\ seen[o][k] # Absent THEN seen[o][k] ELSE read[k]]]
    BY <1>6 DEF Share
  <2>2. read \in Values
    BY <2>1, ValuesOfFiles, NothingIsValues
  <2>3. [k \in Keys |-> IF k \in Shared /\ seen[o][k] # Absent THEN seen[o][k] ELSE read[k]] \in Values
    BY <2>2, <1>0 DEF TypeOK
  <2>4. blind' \in [Operators -> BOOLEAN] /\ faults' \in Nat
    BY <2>1, GetsIsTyped
  <2>5. OthersTyped'
    BY <1>6, <1>0, <2>1, <2>3 DEF Share, GoTo, TypeOK, OthersTyped, files
  <2> QED
    BY <2>4, <2>5 DEF TypeOK, OthersTyped
<1>7. ASSUME NEW o \in Operators, Decrypt(o) PROVE TypeOK'
  <2>1. Over(pick[o], data[target[o]]) \in Values
    BY OverIsValues, <1>0 DEF TypeOK
  <2> QED
    BY <1>7, <1>0, <2>1 DEF Decrypt, GoTo, TypeOK, files
<1>8. ASSUME NEW o \in Operators, Write(o) PROVE TypeOK'
  BY <1>8 DEF Write, GoTo, TypeOK
<1>9. ASSUME NEW o \in Operators, CannotDecrypt(o) \/ CannotSeal(o) PROVE TypeOK'
  <2>1. ProcessTyped' /\ faults' \in Nat
    BY <1>9, NotWrittenIsTyped DEF CannotDecrypt, CannotSeal, Fault, TypeOK
  <2> QED
    BY <1>9, <2>1 DEF CannotDecrypt, CannotSeal, TypeOK, ProcessTyped, files
<1>10. ASSUME NEW o \in Operators, Seal(o) PROVE TypeOK'
  <2>1. ProcessTyped'
    BY <1>10, SealedIsTyped DEF Seal
  <2> QED
    BY <1>10, <2>1 DEF Seal, TypeOK, ProcessTyped
<1>11. ASSUME NEW o \in Operators, Reconcile(o) \/ ReconcileFails(o) PROVE TypeOK'
  <2>1. ProcessTyped'
    BY <1>11, EndIsTyped DEF Reconcile, ReconcileFails
  <2>2. faults' \in Nat
    <3>1. CASE Reconcile(o)
      BY <3>1 DEF Reconcile, TypeOK
    <3>2. CASE ReconcileFails(o)
      BY <3>2 DEF ReconcileFails, Fault, TypeOK
    <3> QED
      BY <1>11, <3>1, <3>2
  <2>4. kuma' \in Int
    <3>1. typed[o] \in Int /\ kuma \in Int
      BY DEF TypeOK
    <3> QED
      BY <1>11, <3>1 DEF Reconcile, ReconcileFails
  <2>3. UNCHANGED <<files, fresh, runs>>
    BY <1>11 DEF Reconcile, ReconcileFails
  <2> QED
    BY <2>1, <2>2, <2>3, <2>4 DEF TypeOK, ProcessTyped, files
<1>12. ASSUME NEW o \in Operators, Rotated(o) \/ Told(o) PROVE TypeOK'
  <2>1. ProcessTyped'
    BY <1>12, EndIsTyped DEF Rotated, Told
  <2> QED
    BY <1>12, <2>1 DEF Rotated, Told, TypeOK, ProcessTyped, files
<1>13. ASSUME NEW o \in Operators, NEW k \in Keys, Rotate(o, k) PROVE TypeOK'
  <2>1. DigestsOf(k) \subseteq Keys /\ [Nothing EXCEPT ![k] = fresh'] \in Values /\ fresh' \in Nat
    BY <1>13, <1>0, NothingIsValues DEF DigestsOf, Rotate
  <2> QED
    BY <1>13, <1>0, <2>1 DEF Rotate, Start, Assign, GoTo, TypeOK
<1>14. ASSUME NEW o \in Operators, NEW k \in Keys, Derive(o, k) PROVE TypeOK'
  <2>1. pick[o][SourceOf[k]] \in Int
    BY CatalogAssumption DEF TypeOK
  <2> QED
    BY <1>14, <2>1 DEF Derive, Assign, TypeOK
<1>15. ASSUME NEW o \in Operators, NEW k \in Keys, CannotDerive(o, k) PROVE TypeOK'
  BY <1>15 DEF CannotDerive, Fault, TypeOK, files
<1>16. ASSUME NEW o \in Operators, NEW f \in Files, NEW k \in Keys, SetByHand(o, f, k) PROVE TypeOK'
  <2>1. \E v \in Int : data' = [data EXCEPT ![f][k] = v]
    BY <1>16, <1>0 DEF SetByHand, Assign
  <2>2. fresh' \in Nat
    BY <1>16, <1>0 DEF SetByHand
  <2> QED
    BY <1>16, <2>1, <2>2 DEF SetByHand, Start, GoTo, TypeOK
<1>17. ASSUME NEW o \in Operators, NEW f \in Files, EditOpens(o, f) PROVE TypeOK'
  BY <1>17 DEF EditOpens, Start, GoTo, TypeOK, files
<1>18. ASSUME NEW o \in Operators, NEW k \in Keys, EditSaves(o, k) PROVE TypeOK'
  <2>1. [copy[o] EXCEPT ![k] = fresh + 1] \in Values /\ fresh' \in Nat
    BY <1>18, <1>0 DEF EditSaves, TypeOK
  <2> QED
    BY <1>18, <1>0, <2>1 DEF EditSaves, GoTo, TypeOK
<1>19. ASSUME NEW o \in Operators, Kill(o) PROVE TypeOK'
  <2>1. ProcessTyped'
    BY <1>19, EndIsTyped DEF Kill
  <2>2. faults' \in Nat
    BY <1>19 DEF Kill, Fault, TypeOK
  <2> QED
    BY <1>19, <2>1, <2>2 DEF Kill, TypeOK, ProcessTyped, files
<1>20. CASE UNCHANGED vars
  BY <1>20 DEF vars, files, process, TypeOK
<1> QED
  BY <1>1, <1>2, <1>3, <1>4, <1>5, <1>6, <1>7, <1>8, <1>9, <1>10, <1>11, <1>12, <1>13, <1>14, <1>15, <1>16,
     <1>17, <1>18, <1>19, <1>20 DEF Next, Begin, GoOn

\* The files, and what a command holds of them, have their types, however many
\* commands run at once (toolkit/features/secrets_manager.py, credentials.py).
THEOREM TypeCorrect == Spec => []TypeOK
<1>1. Init => TypeOK
  BY DEF Init, TypeOK, Nothing, Absent, Placeholder, Files
<1> QED
  BY <1>1, TypeStep, PTL DEF Spec

-----------------------------------------------------------------------------
\* What is immutable

\* At most one command runs.
OneAtATime == \A o, p \in Operators : pc[o] # "idle" /\ pc[p] # "idle" => o = p

\* How far a command is says what it is.
Staged(o) ==
    /\ pc[o] = "idle" <=> cmd[o] = "none"
    /\ pc[o] = "derive" <=> cmd[o] = "rotate"
    /\ pc[o] = "derive" => todo[o] \cap Immutable = {}
    /\ pc[o] = "edit" => cmd[o] = "edit"
    /\ pc[o] = "digest" => cmd[o] = "hash"
    /\ pc[o] = "share" => cmd[o] = "extract"
    /\ pc[o] = "decrypt" => cmd[o] # "extract"

\* A command that will rewrite the environment's file, and is no `generate` that could not
\* read it, sets of each immutable key that is there the value that is there or none. Were
\* the file in clear text it would have read nothing of it, and then it cannot rewrite it.
Mistaken(o) == cmd[o] = "generate" /\ blind[o]

Spares(o, k) ==
    /\ data["env"][k] # Absent /\ target[o] = "env" /\ ~Mistaken(o) =>
        /\ pc[o] = "decrypt" /\ form["env"] = "sealed" => pick[o][k] \in {Absent, data["env"][k]}
        /\ pc[o] = "write" => copy[o][k] = data["env"][k]
    /\ cmd[o] = "extract" =>
        /\ seen[o][k] = data["env"][k]
        /\ pc[o] = "write" /\ target[o] = "env" => copy[o][k] = data["env"][k]

Inv == TypeOK /\ OneAtATime /\ \A o \in Operators : Staged(o) /\ \A k \in Immutable : Spares(o, k)

\* What an immutable key is, and is not.
LEMMA ImmutableKeys ==
  ASSUME NEW k \in Immutable
  PROVE  k \in Keys /\ KindOf[k] = "token" /\ SourceOf[k] = k /\ k \notin Shared
BY CatalogAssumption

\* A step of one command is a step of that one.
LEMMA OnlyOwn ==
  ASSUME TypeOK, NEW o \in Operators, Begin(o) \/ GoOn(o) \/ Kill(o), NEW p \in Operators, p # o
  PROVE  pc'[p] = pc[p] /\ cmd'[p] = cmd[p]
<1> USE DEF TypeOK, GoTo, Rewrite
<1>1. CASE End(o, TRUE) \/ End(o, FALSE) \/ End(o, ~hurt[o])
  BY <1>1 DEF End
<1>2. ASSUME NEW c, Start(o, c), NEW label, GoTo(o, label) PROVE pc'[p] = pc[p] /\ cmd'[p] = cmd[p]
  BY <1>2 DEF Start
<1>3. CASE Begin(o)
  <2>1. CASE Generate(o) \/ Hash(o) \/ Extract(o)
    BY <1>2, <2>1 DEF Generate, Hash, Extract
  <2>2. CASE \E S \in SUBSET Keys : InitSecrets(o, S) \/ ForceSecrets(o, S)
    BY <1>2, <2>2 DEF InitSecrets, ForceSecrets
  <2>3. CASE \E k \in Keys : Rotate(o, k)
    BY <1>2, <2>3 DEF Rotate
  <2>4. CASE \E f \in Files : EditOpens(o, f) \/ \E k \in Keys : SetByHand(o, f, k)
    BY <1>2, <2>4 DEF EditOpens, SetByHand
  <2> QED
    BY <1>3, <2>1, <2>2, <2>3, <2>4 DEF Begin
<1>4. CASE Onward(o)
  BY <1>4 DEF Onward
<1>5. CASE Sealed(o) \/ NotWritten(o)
  BY <1>1, <1>4, <1>5 DEF Sealed, NotWritten
<1>6. CASE HashGoesOn(o)
  BY <1>1, <1>6 DEF HashGoesOn
<1>7. CASE Share(o) \/ Decrypt(o) \/ Write(o)
  BY <1>7 DEF Share, Decrypt, Write
<1>8. CASE CannotDecrypt(o) \/ Seal(o) \/ CannotSeal(o)
  BY <1>5, <1>8 DEF CannotDecrypt, Seal, CannotSeal
<1>9. CASE Reconcile(o)
  <2>1. PICK well : End(o, well)
    BY <1>9 DEF Reconcile
  <2> QED
    BY <2>1 DEF End
<1>10. CASE ReconcileFails(o) \/ Rotated(o) \/ Told(o) \/ Kill(o)
  BY <1>1, <1>10 DEF ReconcileFails, Rotated, Told, Kill
<1>11. CASE \E k \in Keys : Derive(o, k) \/ CannotDerive(o, k) \/ EditSaves(o, k)
  BY <1>11 DEF Derive, CannotDerive, EditSaves
<1> QED
  BY <1>3, <1>6, <1>7, <1>8, <1>9, <1>10, <1>11 DEF GoOn

\* A command begins when all are idle, and goes on when it alone is not.
LEMMA OthersRest ==
  ASSUME ~Overlap, Inv, NEW o \in Operators, Begin(o) \/ GoOn(o) \/ Kill(o), NEW p \in Operators, p # o
  PROVE  pc[p] = "idle" /\ cmd[p] = "none"
<1>1. pc[p] = "idle"
  <2>1. CASE Begin(o)
    BY <2>1 DEF Begin, Generate, Hash, Extract, InitSecrets, ForceSecrets, Rotate, EditOpens, SetByHand, Start
  <2>2. CASE pc[o] # "idle"
    BY <2>2 DEF Inv, OneAtATime
  <2>3. CASE GoOn(o) \/ Kill(o)
    <3>1. pc[o] # "idle"
      BY <2>3 DEF GoOn, Kill, HashGoesOn, Share, Decrypt, CannotDecrypt, Write, Seal, CannotSeal, Reconcile,
         ReconcileFails, Rotated, Told, Derive, CannotDerive, EditSaves
    <3> QED
      BY <2>2, <3>1
  <2> QED
    BY <2>1, <2>3
<1> QED
  BY <1>1 DEF Inv, Staged

\* A step changes no immutable value of the environment unless it is by hand.
Holds(o, k) ==
    Replaced(k) => cmd'[o] \in {"set", "edit"} \/ Mistaken(o)

Moves(o) == Staged(o)' /\ \A k \in Immutable : Spares(o, k)' /\ Holds(o, k)

\* A command that is over has nothing more to spare.
LEMMA EndMoves ==
  ASSUME TypeOK, NEW o \in Operators, NEW well, End(o, well), UNCHANGED data
  PROVE  Moves(o)
<1>1. pc'[o] = "idle" /\ cmd'[o] = "none"
  BY DEF End, GoTo, TypeOK
<1> QED
  BY <1>1 DEF Moves, Staged, Spares, Holds, Replaced, Mistaken

\* A command that sets no immutable key, or to what it is, spares them all.
LEMMA RewriteMoves ==
  ASSUME Inv, NEW o \in Operators, NEW values \in [Keys -> Int], Rewrite(o, "env", values),
         UNCHANGED files, cmd'[o] \in {"generate", "init", "force", "hash"},
         form["env"] = "sealed" /\ ~(cmd'[o] = "generate" /\ blind'[o]) =>
            \A k \in Immutable : data["env"][k] # Absent => values[k] \in {Absent, data["env"][k]}
  PROVE  Moves(o)
<1>1. pc'[o] = "decrypt" /\ target'[o] = "env" /\ pick'[o] = values
  BY DEF Rewrite, GoTo, Inv, TypeOK
<1> QED
  BY <1>1 DEF Moves, Staged, Spares, Holds, Replaced, Mistaken, files

\* The first step of a command.
LEMMA BeginMoves ==
  ASSUME Inv, NEW o \in Operators, Begin(o)
  PROVE  Moves(o)
<1>0. TypeOK
  BY DEF Inv
<1>a. ASSUME NEW c, Start(o, c) PROVE cmd'[o] = c
  BY <1>0, <1>a DEF Start, TypeOK
<1>b. fresh + 1 \in Int /\ Absent \in Int
  BY <1>0 DEF TypeOK, Absent
<1>1. CASE Generate(o)
  <2>1. PICK read \in {Decrypted("env"), Nothing}, password \in {fresh', data["env"][Password]} \ {Absent} :
          Gets(o, read, Decrypted("env")) /\ Rewrite(o, "env", SeedValues(read, password, fresh'))
    BY <1>1 DEF Generate
  <2>2. password \in Int /\ fresh' \in Int
    BY <1>0, <1>1, <1>b, CatalogAssumption DEF Generate, TypeOK, Files
  <2>3. SeedValues(read, password, fresh') \in Values
    BY <1>0, <2>1, <2>2, ValuesOfFiles, NothingIsValues, SeedIsValues DEF Files
  <2>4. ASSUME form["env"] = "sealed", ~blind'[o], NEW k \in Immutable, data["env"][k] # Absent
        PROVE  SeedValues(read, password, fresh')[k] \in {Absent, data["env"][k]}
    <3>1. read = Decrypted("env")
      BY <1>0, <2>1, <2>4 DEF Gets, TypeOK
    <3>2. read[k] = data["env"][k]
      BY <2>4, <3>1 DEF Decrypted
    <3> QED
      BY <2>4, <3>2, ImmutableKeys DEF SeedValues, Kept
  <2>5. cmd'[o] = "generate"
    BY <1>a, <1>1 DEF Generate
  <2>6. UNCHANGED files
    BY <1>1 DEF Generate
  <2> QED
    BY <2>1, <2>3, <2>4, <2>5, <2>6, RewriteMoves DEF Values
<1>2. ASSUME NEW S \in SUBSET Keys, InitSecrets(o, S) \/ ForceSecrets(o, S) PROVE Moves(o)
  <2> DEFINE values == [k \in Keys |-> IF k \in S THEN fresh + 1 ELSE Absent]
  <2>1. values \in [Keys -> Int]
    BY <1>b
  <2>2. Rewrite(o, "env", values) /\ UNCHANGED files
    BY <1>2 DEF InitSecrets, ForceSecrets
  <2>3. cmd'[o] \in {"init", "force"}
    BY <1>a, <1>2 DEF InitSecrets, ForceSecrets
  <2>4. \A k \in Immutable : values[k] = Absent
    BY <1>2, ImmutableKeys DEF InitSecrets, ForceSecrets, InitTargets
  <2> HIDE DEF values
  <2> QED
    BY <2>1, <2>2, <2>3, <2>4, RewriteMoves
<1>3. CASE Hash(o)
  <2>1. cmd'[o] = "hash" /\ UNCHANGED files
    BY <1>a, <1>3 DEF Hash
  <2>2. ASSUME NEW anew \in SUBSET Lacking(Nothing), fresh' = fresh + 1,
               Rewrite(o, "env", [k \in Keys |-> IF k \in anew THEN fresh' ELSE Absent])
        PROVE  Moves(o)
    <3> DEFINE values == [k \in Keys |-> IF k \in anew THEN fresh + 1 ELSE Absent]
    <3>1. values \in [Keys -> Int]
      BY <1>b
    <3>2. \A k \in Immutable : values[k] = Absent
      BY ImmutableKeys DEF Lacking
    <3>3. Rewrite(o, "env", values)
      BY <2>2
    <3> HIDE DEF values
    <3> QED
      BY <2>1, <3>1, <3>2, <3>3, RewriteMoves
  <2>3. CASE Rewrite(o, "env", Digests(data["env"], {}))
    <3>1. Digests(data["env"], {}) \in [Keys -> Int]
      BY <1>0, ValuesOfFiles, DigestsAreValues DEF Files, Values
    <3>2. \A k \in Immutable : Digests(data["env"], {})[k] = Absent
      BY ImmutableKeys DEF Digests
    <3> QED
      BY <2>1, <2>3, <3>1, <3>2, RewriteMoves
  <2> QED
    BY <1>3, <2>2, <2>3 DEF Hash
<1>4. CASE Extract(o)
  <2>1. cmd'[o] = "extract" /\ pc'[o] = "share" /\ seen'[o] = data["env"] /\ UNCHANGED data
    BY <1>0, <1>a, <1>4 DEF Extract, GoTo, TypeOK, files
  <2> QED
    BY <2>1 DEF Moves, Staged, Spares, Holds, Replaced, Mistaken
<1>5. ASSUME NEW j \in Keys, Rotate(o, j) PROVE Moves(o)
  <2>1. cmd'[o] = "rotate" /\ pc'[o] = "derive" /\ todo'[o] = DigestsOf(j)
    BY <1>0, <1>a, <1>5 DEF Rotate, GoTo, TypeOK
  <2>2. DigestsOf(j) \cap Immutable = {}
    BY ImmutableKeys DEF DigestsOf
  <2>3. \A k \in Immutable : data'["env"][k] = data["env"][k]
    BY <1>0, <1>5, ImmutableKeys DEF Rotate, Assign, TypeOK, Files
  <2> QED
    BY <2>1, <2>2, <2>3 DEF Moves, Staged, Spares, Holds, Replaced, Mistaken
<1>6. ASSUME NEW f \in Files, EditOpens(o, f) \/ \E j \in Keys : SetByHand(o, f, j) PROVE Moves(o)
  <2>1. \/ cmd'[o] = "edit" /\ pc'[o] = "edit"
        \/ cmd'[o] = "set" /\ pc'[o] = "told"
    BY <1>0, <1>a, <1>6 DEF EditOpens, SetByHand, GoTo, TypeOK
  <2> QED
    BY <2>1 DEF Moves, Staged, Spares, Holds, Replaced, Mistaken
<1> QED
  BY <1>1, <1>2, <1>3, <1>4, <1>5, <1>6 DEF Begin

\* A command that turns to the common file or to Uptime Kuma.
LEMMA OnwardMoves ==
  ASSUME Inv, NEW o \in Operators, Onward(o), UNCHANGED data
  PROVE  Moves(o)
<1>1. cmd[o] = "generate" /\ cmd'[o] = "generate"
  BY DEF Onward
<1>2. (pc'[o] = "decrypt" /\ target'[o] = "common") \/ pc'[o] = "kuma"
  BY DEF Onward, Rewrite, GoTo, Inv, TypeOK
<1> QED
  BY <1>1, <1>2 DEF Moves, Staged, Spares, Holds, Replaced, Mistaken

\* What follows a rewrite that succeeded.
LEMMA SealedMoves ==
  ASSUME Inv, NEW o \in Operators, Sealed(o), UNCHANGED data
  PROVE  Moves(o)
<1>0. TypeOK
  BY DEF Inv
<1>1. CASE Onward(o)
  BY <1>1, OnwardMoves
<1>2. CASE End(o, ~hurt[o])
  BY <1>0, <1>2, EndMoves
<1>3. CASE cmd[o] = "hash" /\ GoTo(o, "digest") /\ UNCHANGED cmd
  <2>1. cmd'[o] = "hash" /\ pc'[o] = "digest"
    BY <1>0, <1>3 DEF GoTo, TypeOK
  <2> QED
    BY <2>1 DEF Moves, Staged, Spares, Holds, Replaced, Mistaken
<1>4. CASE /\ cmd[o] = "extract"
           /\ copy' = [copy EXCEPT ![o] = [k \in Keys |-> IF k \in Shared THEN Absent ELSE seen[o][k]]]
           /\ target' = [target EXCEPT ![o] = "env"] /\ GoTo(o, "write") /\ UNCHANGED <<cmd, seen>>
  <2>1. cmd'[o] = "extract" /\ pc'[o] = "write" /\ target'[o] = "env" /\ seen'[o] = seen[o]
    BY <1>0, <1>4 DEF GoTo, TypeOK, Files
  <2>2. \A k \in Immutable : copy'[o][k] = seen[o][k]
    BY <1>0, <1>4, ImmutableKeys DEF TypeOK
  <2>3. \A k \in Immutable : seen[o][k] = data["env"][k]
    BY <1>4 DEF Inv, Spares
  <2> QED
    BY <2>1, <2>2, <2>3 DEF Moves, Staged, Spares, Holds, Replaced, Mistaken
<1> QED
  BY <1>1, <1>2, <1>3, <1>4 DEF Sealed

\* What follows a rewrite that did not take place.
LEMMA NotWrittenMoves ==
  ASSUME Inv, NEW o \in Operators, NotWritten(o), UNCHANGED data
  PROVE  Moves(o)
<1>0. TypeOK
  BY DEF Inv
<1>1. CASE Onward(o)
  BY <1>1, OnwardMoves
<1>2. CASE End(o, FALSE)
  BY <1>0, <1>2, EndMoves
<1>3. CASE cmd[o] = "hash" /\ GoTo(o, "digest") /\ UNCHANGED cmd
  <2>1. cmd'[o] = "hash" /\ pc'[o] = "digest"
    BY <1>0, <1>3 DEF GoTo, TypeOK
  <2> QED
    BY <2>1 DEF Moves, Staged, Spares, Holds, Replaced, Mistaken
<1> QED
  BY <1>1, <1>2, <1>3 DEF NotWritten

\* The further steps of a command, and its interruption.
LEMMA GoOnMoves ==
  ASSUME Inv, NEW o \in Operators, GoOn(o) \/ Kill(o)
  PROVE  Moves(o)
<1>0. TypeOK /\ Staged(o) /\ \A k \in Immutable : Spares(o, k)
  BY DEF Inv
<1>1. CASE HashGoesOn(o)
  <2> DEFINE values == IF todo[o] = {} THEN Decrypted("env") ELSE seen[o]
  <2> DEFINE digests == Digests(values, todo[o])
  <2>1. digests \in [Keys -> Int]
    <3>1. values \in Values
      BY <1>0, ValuesOfFiles DEF TypeOK, Values, Files
    <3> QED
      BY <3>1, DigestsAreValues DEF Values
  <2>2. CASE End(o, FALSE)
    BY <1>0, <1>1, <2>2, EndMoves DEF HashGoesOn, files
  <2>3. CASE Rewrite(o, "env", digests) /\ UNCHANGED cmd
    <3>1. \A k \in Immutable : digests[k] = Absent
      BY ImmutableKeys DEF Digests
    <3> HIDE DEF digests
    <3>2. cmd'[o] = "hash" /\ UNCHANGED files
      BY <1>0, <1>1, <2>3 DEF HashGoesOn, Staged
    <3> QED
      BY <2>1, <2>3, <3>1, <3>2, RewriteMoves
  <2> QED
    BY <1>1, <2>2, <2>3 DEF HashGoesOn
<1>2. CASE Share(o)
  <2>1. pc'[o] = "write" /\ target'[o] = "common" /\ UNCHANGED <<cmd, data, seen>> /\ pc[o] = "share" /\ cmd[o] = "extract"
    BY <1>0, <1>2 DEF Share, GoTo, TypeOK, Files, files, Staged
  <2> QED
    BY <1>0, <2>1 DEF Moves, Staged, Spares, Holds, Replaced, Mistaken
<1>3. CASE Decrypt(o)
  <2>1. pc[o] = "decrypt" /\ pc'[o] = "write" /\ UNCHANGED <<cmd, data, form, seen, target, blind>> /\ form[target[o]] = "sealed"
    BY <1>0, <1>3 DEF Decrypt, GoTo, TypeOK, files
  <2>2. cmd'[o] # "extract"
    BY <1>0, <2>1 DEF Staged
  <2>3. \A k \in Immutable : copy'[o][k] = IF pick[o][k] # Absent THEN pick[o][k] ELSE data[target[o]][k]
    BY <1>0, <1>3, ImmutableKeys DEF Decrypt, TypeOK, Over
  <2>4. ASSUME NEW k \in Immutable, data["env"][k] # Absent, target[o] = "env", ~Mistaken(o) PROVE copy'[o][k] = data["env"][k]
    BY <1>0, <2>1, <2>3, <2>4 DEF Spares, Mistaken
  <2>5. Staged(o)'
    BY <1>0, <2>1, <2>2 DEF Staged
  <2> QED
    BY <2>1, <2>2, <2>4, <2>5 DEF Moves, Spares, Holds, Replaced, Mistaken
<1>4. CASE Write(o)
  <2>1. pc[o] = "write" /\ pc'[o] = "seal" /\ UNCHANGED <<cmd, seen, blind>>
    BY <1>0, <1>4 DEF Write, GoTo, TypeOK
  <2>2. data'["env"] = IF target[o] = "env" THEN copy[o] ELSE data["env"]
    BY <1>0, <1>4 DEF Write, TypeOK, Files
  <2>3. ASSUME NEW k \in Immutable PROVE Spares(o, k)' /\ Holds(o, k)
    BY <1>0, <2>1, <2>2 DEF Spares, Holds, Replaced, Mistaken
  <2> QED
    BY <1>0, <2>1, <2>3 DEF Moves, Staged
<1>5. CASE Seal(o)
  BY <1>5, SealedMoves DEF Seal
<1>6. CASE CannotDecrypt(o) \/ CannotSeal(o)
  BY <1>6, NotWrittenMoves DEF CannotDecrypt, CannotSeal, files
<1>7. CASE Reconcile(o)
  <2>1. PICK well : End(o, well)
    BY <1>7 DEF Reconcile
  <2> QED
    BY <1>0, <1>7, <2>1, EndMoves DEF Reconcile, files
<1>8. CASE ReconcileFails(o) \/ Rotated(o) \/ Told(o) \/ Kill(o)
  BY <1>0, <1>8, EndMoves DEF ReconcileFails, Rotated, Told, Kill, files
<1>9. ASSUME NEW j \in Keys, Derive(o, j) \/ CannotDerive(o, j) PROVE Moves(o)
  <2>1. pc[o] = "derive" /\ UNCHANGED <<cmd, pc>> /\ j \in todo[o] /\ cmd[o] = "rotate"
    BY <1>0, <1>9 DEF Derive, CannotDerive, Staged
  <2>2. todo'[o] = todo[o] \ {j}
    BY <1>0, <1>9 DEF Derive, CannotDerive, TypeOK
  <2>3. \A k \in Immutable : k # j /\ k \in Keys
    BY <1>0, <2>1, ImmutableKeys DEF Staged
  <2>4. \A k \in Immutable : data'["env"][k] = data["env"][k]
    BY <1>0, <1>9, <2>3 DEF Derive, CannotDerive, Assign, TypeOK, Files, files
  <2> QED
    BY <1>0, <2>1, <2>2, <2>4 DEF Moves, Staged, Spares, Holds, Replaced, Mistaken
<1>10. ASSUME NEW j \in Keys, EditSaves(o, j) PROVE Moves(o)
  <2>1. pc'[o] = "told" /\ cmd'[o] = "edit"
    BY <1>0, <1>10 DEF EditSaves, GoTo, TypeOK, Staged
  <2> QED
    BY <2>1 DEF Moves, Staged, Spares, Holds, Replaced, Mistaken
<1> QED
  BY <1>1, <1>2, <1>3, <1>4, <1>5, <1>6, <1>7, <1>8, <1>9, <1>10 DEF GoOn

\* The strengthened invariant, when one command runs at a time.
LEMMA InvStep == ASSUME ~Overlap, Inv, [Next]_vars PROVE Inv'
<1>1. TypeOK'
  BY TypeStep DEF Inv
<1>2. CASE UNCHANGED vars
  <2>1. OneAtATime'
    BY <1>2 DEF Inv, OneAtATime, vars, process
  <2>2. \A o \in Operators : Staged(o)' /\ \A k \in Immutable : Spares(o, k)'
    BY <1>2 DEF Inv, Staged, Spares, Mistaken, vars, process, files
  <2> QED
    BY <1>1, <2>1, <2>2 DEF Inv
<1>3. ASSUME NEW o \in Operators, Begin(o) \/ GoOn(o) \/ Kill(o) PROVE Inv'
  <2>1. Moves(o)
    BY <1>3, BeginMoves, GoOnMoves
  <2>2. ASSUME NEW p \in Operators, p # o PROVE pc'[p] = "idle" /\ cmd'[p] = "none"
    BY <1>3, <2>2, OthersRest, OnlyOwn DEF Inv
  <2>3. ASSUME NEW p \in Operators, p # o PROVE Staged(p)' /\ \A k \in Immutable : Spares(p, k)'
    BY <2>2, <2>3 DEF Staged, Spares
  <2>4. OneAtATime'
    BY <2>2 DEF OneAtATime
  <2> QED
    BY <1>1, <2>1, <2>3, <2>4 DEF Inv, Moves
<1> QED
  BY <1>2, <1>3 DEF Next

\* The vault as it is found.
LEMMA InvInit == Init => Inv
<1> SUFFICES ASSUME Init PROVE Inv
  OBVIOUS
<1>1. TypeOK
  BY DEF Init, TypeOK, Nothing, Absent, Placeholder, Files
<1>2. \A o \in Operators : pc[o] = "idle" /\ cmd[o] = "none"
  BY DEF Init
<1> QED
  BY <1>1, <1>2 DEF Inv, OneAtATime, Staged, Spares

\* An immutable value of the environment is changed by hand or not at all, by whatever commands
\* are run one after the other and wherever a call of theirs fails or they are interrupted, with
\* one exception: a `generate` that could not read the file and then could write it takes every
\* value for absent (credentials.py, IMMUTABLE_SECRETS and _read_existing_secrets).
THEOREM ImmutableIsKept == ASSUME ~Overlap PROVE Spec => ImmutableKept
<1>1. Init => Inv
  BY InvInit
<1>2. Inv /\ [Next]_vars => Inv'
  BY InvStep
<1>3. Inv /\ [Next]_vars =>
        [\A k \in Immutable : Replaced(k) => ByHand \/ Blindly]_vars
  <2> SUFFICES ASSUME Inv, NEW o \in Operators, Begin(o) \/ GoOn(o) \/ Kill(o), NEW k \in Immutable
               PROVE  Replaced(k) => ByHand \/ Blindly
    BY DEF Next
  <2>1. Holds(o, k)
    BY BeginMoves, GoOnMoves DEF Moves
  <2> QED
    BY <2>1 DEF Holds, ByHand, Blindly, Mistaken
<1> QED
  BY <1>1, <1>2, <1>3, PTL DEF Spec, ImmutableKept

-----------------------------------------------------------------------------
\* What a digest is of

Hashed == {d \in Keys : KindOf[d] = "digest"}

\* Each of these digests is there, and is that of the secret that is there.
Paired(v, D) == \A d \in D : v[d] = v[SourceOf[d]] /\ v[d] # Absent

\* `generate` writes both halves anew, whatever it could read, and reports a failure when
\* it did not.
Generates(o) ==
    cmd[o] = "generate" =>
        /\ pc[o] \in {"decrypt", "write", "seal", "kuma"}
        /\ target[o] = "env" =>
              /\ pc[o] = "decrypt" => Paired(pick[o], Hashed \cap Seeded)
              /\ pc[o] = "write" => Paired(copy[o], Hashed \cap Seeded)
              /\ pc[o] = "seal" => Paired(data["env"], Hashed \cap Seeded)
              /\ pc[o] # "kuma"
        /\ target[o] = "common" => hurt[o] \/ Paired(data["env"], Hashed \cap Seeded)

\* `hash` first writes the client secrets that lack, or seem to.
FirstHalf(o) ==
    /\ pc[o] = "decrypt" => \A d \in Hashed : pick[o][SourceOf[d]] # Absent \/ data["env"][SourceOf[d]] # Absent
    /\ pc[o] = "write" => \A d \in Hashed : copy[o][SourceOf[d]] # Absent
    /\ pc[o] = "seal" => \A d \in Hashed : data["env"][SourceOf[d]] # Absent
    /\ pc[o] # "digest"

\* Then the digests of what is there.
SecondHalf(o) ==
    /\ pc[o] = "digest" => form["env"] = "sealed" /\ \A d \in Hashed : data["env"][SourceOf[d]] # Absent
    /\ pc[o] = "decrypt" /\ form["env"] = "sealed" =>
          \A d \in Hashed :
              /\ pick[o][d] = data["env"][SourceOf[d]] /\ pick[o][d] # Absent
              /\ pick[o][SourceOf[d]] = Absent
    /\ pc[o] = "write" => Paired(copy[o], Hashed)
    /\ pc[o] = "seal" => Paired(data["env"], Hashed)

Halves(o) ==
    /\ pc[o] = "seal" => form["env"] = "plain"
    /\ todo[o] # {} => FirstHalf(o)
    /\ todo[o] = {} => SecondHalf(o)

\* Once one of its rewrites has not taken place it will report that, whatever follows.
Hashes(o) ==
    cmd[o] = "hash" =>
        /\ target[o] = "env"
        /\ pc[o] \in {"decrypt", "write", "seal", "digest"}
        /\ hurt[o] \/ Halves(o)

EndedWell(o) ==
    /\ ended[o] = "generate" => Paired(data["env"], Hashed \cap Seeded)
    /\ ended[o] = "hash" => Paired(data["env"], Hashed)

\* A command that runs has ended nothing yet, nor has any other since it began.
Quiet == \A o, p \in Operators : pc[o] # "idle" => ended[p] = "none"

Follows(o) == Generates(o) /\ Hashes(o) /\ EndedWell(o)

PairInv == Inv /\ Quiet /\ \A o \in Operators : Follows(o)

\* A digest and the client secret it is of are two keys.
LEMMA DigestKeys ==
  ASSUME NEW d \in Hashed
  PROVE  /\ d \in Keys /\ KindOf[d] = "digest" /\ d \notin Immutable /\ SourceOf[d] \in Keys
         /\ KindOf[SourceOf[d]] = "client" /\ SourceOf[d] \notin Hashed /\ SourceOf[d] \notin Immutable
         /\ d \in Seeded => SourceOf[d] \in Seeded
BY CatalogAssumption, PairAssumption DEF Hashed

\* A command that is over has nothing to keep, but for what it reported.
LEMMA EndFollows ==
  ASSUME TypeOK, NEW o \in Operators, NEW well, End(o, well), UNCHANGED data,
         well => /\ cmd[o] = "generate" => Paired(data["env"], Hashed \cap Seeded)
                 /\ cmd[o] = "hash" => Paired(data["env"], Hashed)
  PROVE  Follows(o)'
<1>1. cmd'[o] = "none" /\ ended'[o] = IF well THEN cmd[o] ELSE "none"
  BY DEF End, TypeOK
<1>2. Generates(o)' /\ Hashes(o)'
  BY <1>1 DEF Generates, Hashes
<1>3. EndedWell(o)'
  BY <1>1 DEF EndedWell, Paired
<1> QED
  BY <1>2, <1>3 DEF Follows

\* What is laid over a file keeps what was paired.
LEMMA OverIsPaired ==
  ASSUME NEW u \in Values, NEW l \in Values, NEW D, D \subseteq Hashed, Paired(u, D)
  PROVE  Paired(Over(u, l), D)
BY DigestKeys DEF Paired, Over, Values

\* The first step of a command.
LEMMA BeginFollows ==
  ASSUME Inv, NEW o \in Operators, Begin(o)
  PROVE  Follows(o)' /\ \A p \in Operators : ended'[p] = "none"
<1>0. TypeOK /\ Absent \in Int
  BY DEF Inv, Absent
<1>a. ASSUME NEW c, Start(o, c) PROVE cmd'[o] = c /\ \A p \in Operators : ended'[p] = "none"
  BY <1>0, <1>a DEF Start, TypeOK
<1>1. CASE Generate(o)
  <2>1. PICK read \in {Decrypted("env"), Nothing}, password \in {fresh', data["env"][Password]} \ {Absent} :
          Rewrite(o, "env", SeedValues(read, password, fresh'))
    BY <1>1 DEF Generate
  <2>2. password \in Int /\ fresh' \in Nat /\ fresh' # Absent
    BY <1>0, <1>1, CatalogAssumption DEF Generate, TypeOK, Files, Absent
  <2> DEFINE values == SeedValues(read, password, fresh')
  <2>3. Paired(values, Hashed \cap Seeded)
    <3>1. ASSUME NEW d \in Hashed \cap Seeded PROVE values[d] = fresh' /\ values[SourceOf[d]] = fresh'
      BY <3>1, DigestKeys DEF SeedValues, Kept
    <3> HIDE DEF values
    <3> QED
      BY <2>2, <3>1 DEF Paired
  <2>4. cmd'[o] = "generate" /\ \A p \in Operators : ended'[p] = "none"
    BY <1>a, <1>1 DEF Generate
  <2> HIDE DEF values
  <2>5. pc'[o] = "decrypt" /\ target'[o] = "env" /\ pick'[o] = values
    BY <1>0, <2>1 DEF Rewrite, GoTo, TypeOK, values
  <2>6. Generates(o)'
    BY <2>3, <2>5 DEF Generates, Paired
  <2> QED
    BY <2>4, <2>6 DEF Follows, Hashes, EndedWell
<1>2. CASE Hash(o)
  <2>1. cmd'[o] = "hash" /\ (\A p \in Operators : ended'[p] = "none") /\ UNCHANGED files /\ form["env"] = "sealed"
    BY <1>a, <1>2 DEF Hash
  <2>2. ASSUME NEW anew \in SUBSET Lacking(Nothing), Lacking(data["env"]) # {}, Lacking(data["env"]) \subseteq anew,
               fresh' = fresh + 1, todo' = [todo EXCEPT ![o] = anew],
               Rewrite(o, "env", [k \in Keys |-> IF k \in anew THEN fresh' ELSE Absent])
        PROVE  Follows(o)' /\ \A p \in Operators : ended'[p] = "none"
    <3>1. pc'[o] = "decrypt" /\ target'[o] = "env" /\ todo'[o] # {}
      BY <1>0, <2>2 DEF Rewrite, GoTo, TypeOK
    <3>2. fresh' # Absent
      BY <1>0, <2>2 DEF TypeOK, Absent
    <3>3. \A k \in Lacking(data["env"]) : k \in Keys => pick'[o][k] = fresh'
      BY <1>0, <2>2 DEF Rewrite, TypeOK
    <3>4. ASSUME NEW d \in Hashed PROVE pick'[o][SourceOf[d]] # Absent \/ data'["env"][SourceOf[d]] # Absent
      <4>1. CASE data["env"][SourceOf[d]] = Absent
        <5>1. SourceOf[d] \in Lacking(data["env"])
          BY <4>1, DigestKeys DEF Lacking, HashSources, Hashed
        <5> QED
          BY <3>2, <3>3, <5>1, DigestKeys
      <4> QED
        BY <2>1, <4>1 DEF files
    <3>5. Hashes(o)'
      BY <3>1, <3>4 DEF Hashes, Halves, FirstHalf, SecondHalf
    <3> QED
      BY <2>1, <3>5 DEF Follows, Generates, EndedWell
  <2>3. CASE Lacking(data["env"]) = {} /\ Rewrite(o, "env", Digests(data["env"], {})) /\ UNCHANGED todo
    <3>1. pc'[o] = "decrypt" /\ target'[o] = "env" /\ pick'[o] = Digests(data["env"], {})
      BY <1>0, <2>3 DEF Rewrite, GoTo, TypeOK
    <3>2. ASSUME NEW d \in Hashed PROVE data["env"][SourceOf[d]] # Absent
      BY <2>3, DigestKeys DEF Lacking, HashSources, Hashed
    <3>3. ASSUME NEW d \in Hashed
          PROVE  pick'[o][d] = data["env"][SourceOf[d]] /\ pick'[o][SourceOf[d]] = Absent
      BY <3>1, DigestKeys DEF Digests
    <3>4. FirstHalf(o)'
      BY <2>1, <3>1, <3>2 DEF FirstHalf, files
    <3>5. SecondHalf(o)'
      BY <2>1, <3>1, <3>2, <3>3 DEF SecondHalf, files
    <3>6. Hashes(o)'
      BY <3>1, <3>4, <3>5 DEF Hashes, Halves
    <3> QED
      BY <2>1, <3>6 DEF Follows, Generates, EndedWell
  <2> QED
    BY <1>2, <2>2, <2>3 DEF Hash
<1>3. ASSUME NEW c, Start(o, c), c \notin {"generate", "hash"} PROVE Follows(o)' /\ \A p \in Operators : ended'[p] = "none"
  <2>1. cmd'[o] = c /\ \A p \in Operators : ended'[p] = "none"
    BY <1>a, <1>3
  <2> QED
    BY <1>3, <2>1 DEF Follows, Generates, Hashes, EndedWell
<1>4. CASE Extract(o)
  BY <1>3, <1>4 DEF Extract
<1>5. CASE \E S \in SUBSET Keys : InitSecrets(o, S) \/ ForceSecrets(o, S)
  BY <1>3, <1>5 DEF InitSecrets, ForceSecrets
<1>6. CASE \E k \in Keys : Rotate(o, k)
  BY <1>3, <1>6 DEF Rotate
<1>7. CASE \E f \in Files : EditOpens(o, f) \/ \E k \in Keys : SetByHand(o, f, k)
  BY <1>3, <1>7 DEF EditOpens, SetByHand
<1> QED
  BY <1>1, <1>2, <1>4, <1>5, <1>6, <1>7 DEF Begin

\* A command that turns to the common file or to Uptime Kuma.
LEMMA OnwardFollows ==
  ASSUME PairInv, NEW o \in Operators, pc[o] # "idle", Onward(o), UNCHANGED data,
         hurt' = hurt \/ hurt' = [hurt EXCEPT ![o] = TRUE],
         hurt'[o] \/ pc[o] = "seal"
  PROVE  Follows(o)'
<1>0. TypeOK /\ Follows(o) /\ ended[o] = "none"
  BY DEF PairInv, Inv, Quiet
<1>1. cmd'[o] = "generate" /\ cmd[o] = "generate" /\ ended' = ended
  BY DEF Onward
<1>2. hurt'[o] \/ Paired(data["env"], Hashed \cap Seeded)
  BY <1>0, <1>1 DEF Follows, Generates, TypeOK, Files
<1>3. pc'[o] \in {"decrypt", "kuma"} /\ target'[o] = "common"
  BY <1>0 DEF Onward, Rewrite, GoTo, TypeOK, Files
<1>4. Generates(o)'
  BY <1>2, <1>3 DEF Generates, Paired
<1> QED
  BY <1>0, <1>1, <1>4 DEF Follows, Hashes, EndedWell

\* What follows a rewrite that succeeded.
LEMMA SealFollows ==
  ASSUME PairInv, NEW o \in Operators, Seal(o)
  PROVE  Follows(o)'
<1>0. TypeOK /\ Follows(o) /\ ended[o] = "none" /\ pc[o] = "seal" /\ UNCHANGED data
  BY DEF PairInv, Inv, Quiet, Seal
<1>1. CASE Onward(o) /\ UNCHANGED hurt
  BY <1>0, <1>1, OnwardFollows
<1>2. CASE cmd[o] = "hash" /\ todo[o] # {} /\ todo' = [todo EXCEPT ![o] = {}] /\ GoTo(o, "digest")
           /\ UNCHANGED <<cmd, target, hurt, ended>>
  <2>1. cmd'[o] = "hash" /\ pc'[o] = "digest" /\ todo'[o] = {} /\ target'[o] = "env" /\ ended'[o] = "none"
    BY <1>0, <1>2 DEF GoTo, TypeOK, Follows, Hashes
  <2>2. form'["env"] = "sealed"
    BY <1>0, <2>1, <1>2 DEF Seal, TypeOK, Files
  <2>3. hurt[o] \/ \A d \in Hashed : data'["env"][SourceOf[d]] # Absent
    BY <1>0, <1>2 DEF Follows, Hashes, Halves, FirstHalf
  <2>4. hurt'[o] \/ Halves(o)'
    BY <1>2, <2>1, <2>2, <2>3 DEF Halves, SecondHalf
  <2>5. Hashes(o)'
    BY <2>1, <2>4 DEF Hashes
  <2> QED
    BY <2>1, <2>5 DEF Follows, Generates, EndedWell
<1>3. CASE cmd[o] = "extract" /\ UNCHANGED <<cmd, ended>>
  BY <1>0, <1>3 DEF Follows, Generates, Hashes, EndedWell
<1>4. CASE cmd[o] \in {"init", "force", "extract"} \/ (cmd[o] = "hash" /\ todo[o] = {})
  <2> SUFFICES ASSUME End(o, ~hurt[o]) PROVE Follows(o)'
    BY <1>1, <1>2, <1>3, <1>4 DEF Seal, Sealed
  <2>1. ~hurt[o] /\ cmd[o] = "hash" => Paired(data["env"], Hashed)
    BY <1>0, <1>4 DEF Follows, Hashes, Halves, SecondHalf
  <2>2. cmd[o] # "generate"
    BY <1>4
  <2> QED
    BY <1>0, <2>1, <2>2, EndFollows
<1> QED
  BY <1>1, <1>2, <1>3, <1>4 DEF Seal, Sealed

\* What follows a rewrite that did not take place.
LEMMA NotWrittenFollows ==
  ASSUME PairInv, NEW o \in Operators, CannotDecrypt(o) \/ CannotSeal(o)
  PROVE  Follows(o)'
<1>0. TypeOK /\ Follows(o) /\ ended[o] = "none" /\ pc[o] \in {"decrypt", "seal"} /\ UNCHANGED <<data, form>>
  BY DEF PairInv, Inv, Quiet, CannotDecrypt, CannotSeal, files
<1>1. CASE Onward(o) /\ hurt' = [hurt EXCEPT ![o] = TRUE]
  <2>1. hurt'[o]
    BY <1>0, <1>1 DEF TypeOK
  <2> QED
    BY <1>0, <1>1, <2>1, OnwardFollows
<1>2. CASE End(o, FALSE)
  BY <1>0, <1>2, EndFollows
<1>3. CASE cmd[o] = "hash" /\ todo[o] # {} /\ GoTo(o, "digest") /\ hurt' = [hurt EXCEPT ![o] = TRUE] /\ UNCHANGED <<cmd, target, todo, ended>>
  <2>1. cmd'[o] = "hash" /\ pc'[o] = "digest" /\ target'[o] = "env" /\ ended'[o] = "none"
    BY <1>0, <1>3 DEF GoTo, TypeOK, Follows, Hashes
  <2>2. hurt'[o]
    BY <1>0, <1>3 DEF TypeOK
  <2>3. Hashes(o)'
    BY <2>1, <2>2 DEF Hashes
  <2> QED
    BY <2>1, <2>3 DEF Follows, Generates, EndedWell
<1> QED
  BY <1>1, <1>2, <1>3 DEF CannotDecrypt, CannotSeal, NotWritten

\* The further steps of a command, and its interruption.
LEMMA GoOnFollows ==
  ASSUME PairInv, NEW o \in Operators, GoOn(o) \/ Kill(o)
  PROVE  Follows(o)'
<1>0. TypeOK /\ Staged(o) /\ Follows(o)
  BY DEF PairInv, Inv
<1>a. pc[o] # "idle"
  BY DEF GoOn, Kill, HashGoesOn, Share, Decrypt, CannotDecrypt, Write, Seal, CannotSeal, Reconcile,
     ReconcileFails, Rotated, Told, Derive, CannotDerive, EditSaves
<1>b. ended[o] = "none"
  BY <1>a DEF PairInv, Quiet
<1>c. ASSUME cmd'[o] \notin {"generate", "hash"}, ended'[o] = "none" PROVE Follows(o)'
  BY <1>c DEF Follows, Generates, Hashes, EndedWell
<1>1. CASE HashGoesOn(o)
  <2> DEFINE values == IF todo[o] = {} THEN Decrypted("env") ELSE seen[o]
  <2> DEFINE digests == Digests(values, todo[o])
  <2>1. CASE End(o, FALSE)
    BY <1>0, <1>1, <2>1, EndFollows DEF HashGoesOn, files
  <2>2. CASE Rewrite(o, "env", digests) /\ todo' = [todo EXCEPT ![o] = {}] /\ UNCHANGED <<cmd, hurt, ended>>
    <3>1. cmd[o] = "hash" /\ UNCHANGED files /\ pc[o] = "digest"
      BY <1>0, <1>1 DEF HashGoesOn, Staged
    <3>2. cmd'[o] = "hash" /\ pc'[o] = "decrypt" /\ target'[o] = "env" /\ todo'[o] = {} /\ pick'[o] = digests
      BY <1>0, <2>2, <3>1 DEF Rewrite, GoTo, TypeOK
    <3>3. ASSUME ~hurt[o], form["env"] = "sealed", NEW d \in Hashed
          PROVE  pick'[o][d] = data["env"][SourceOf[d]] /\ pick'[o][d] # Absent /\ pick'[o][SourceOf[d]] = Absent
      <4>1. todo[o] = {} /\ data["env"][SourceOf[d]] # Absent
        BY <1>0, <3>1, <3>3 DEF Follows, Hashes, Halves, FirstHalf, SecondHalf
      <4>2. values = data["env"]
        BY <3>3, <4>1 DEF Decrypted
      <4> QED
        BY <3>2, <4>1, <4>2, DigestKeys DEF Digests
    <3>4. hurt[o] \/ Halves(o)'
      BY <3>1, <3>2, <3>3 DEF Halves, SecondHalf, files
    <3>5. Hashes(o)'
      BY <2>2, <3>2, <3>4 DEF Hashes
    <3> QED
      BY <1>b, <2>2, <3>2, <3>5 DEF Follows, Generates, EndedWell
  <2> QED
    BY <1>1, <2>1, <2>2 DEF HashGoesOn
<1>2. CASE Share(o)
  <2>1. cmd[o] \notin {"generate", "hash"}
    BY <1>0, <1>2 DEF Share, Follows, Generates, Hashes
  <2> QED
    BY <1>2, <1>b, <1>c, <2>1 DEF Share
<1>3. CASE Decrypt(o)
  <2>1. /\ pc[o] = "decrypt" /\ pc'[o] = "write" /\ form[target[o]] = "sealed"
        /\ UNCHANGED <<cmd, form, data, target, todo, hurt, ended>>
        /\ copy'[o] = Over(pick[o], data[target[o]])
    BY <1>0, <1>3 DEF Decrypt, GoTo, TypeOK, files
  <2>2. pick[o] \in Values /\ data[target[o]] \in Values
    BY <1>0 DEF TypeOK, Values
  <2>3. Generates(o)'
    <3>1. CASE cmd[o] = "generate"
      <4>1. target[o] = "env" => Paired(copy'[o], Hashed \cap Seeded)
        BY <1>0, <2>1, <2>2, <3>1, OverIsPaired DEF Follows, Generates
      <4> QED
        BY <1>0, <2>1, <3>1, <4>1 DEF Follows, Generates, Paired
    <3> QED
      BY <2>1, <3>1 DEF Generates
  <2>4. Hashes(o)'
    <3>1. CASE cmd[o] = "hash"
      <4>1. target[o] = "env" /\ form["env"] = "sealed"
        BY <1>0, <2>1, <3>1 DEF Follows, Hashes
      <4>2. \A d \in Hashed :
              /\ copy'[o][d] = IF pick[o][d] # Absent THEN pick[o][d] ELSE data["env"][d]
              /\ copy'[o][SourceOf[d]] = IF pick[o][SourceOf[d]] # Absent THEN pick[o][SourceOf[d]]
                                         ELSE data["env"][SourceOf[d]]
        BY <2>1, <4>1, DigestKeys DEF Over
      <4>3. ~hurt[o] /\ todo[o] # {} => FirstHalf(o)'
        BY <1>0, <2>1, <3>1, <4>2 DEF Follows, Hashes, Halves, FirstHalf
      <4>4. ~hurt[o] /\ todo[o] = {} => Paired(copy'[o], Hashed)
        BY <1>0, <2>1, <3>1, <4>1, <4>2 DEF Follows, Hashes, Halves, SecondHalf, Paired
      <4>5. ~hurt[o] /\ todo[o] = {} => SecondHalf(o)'
        BY <2>1, <4>4 DEF SecondHalf, Paired
      <4> QED
        BY <2>1, <4>1, <4>3, <4>5 DEF Hashes, Halves
    <3> QED
      BY <2>1, <3>1 DEF Hashes
  <2> QED
    BY <1>b, <2>1, <2>3, <2>4 DEF Follows, EndedWell
<1>4. CASE Write(o)
  <2>1. /\ pc[o] = "write" /\ pc'[o] = "seal" /\ UNCHANGED <<cmd, target, todo, hurt, ended>>
        /\ data'["env"] = IF target[o] = "env" THEN copy[o] ELSE data["env"]
        /\ form'[target[o]] = "plain"
    BY <1>0, <1>4 DEF Write, GoTo, TypeOK, Files
  <2>2. Generates(o)'
    BY <1>0, <2>1 DEF Follows, Generates, Paired
  <2>3. Hashes(o)'
    <3>1. CASE cmd[o] = "hash"
      <4>1. target[o] = "env" /\ form'["env"] = "plain" /\ data'["env"] = copy[o]
        BY <1>0, <2>1, <3>1 DEF Follows, Hashes
      <4>2. ~hurt[o] /\ todo[o] # {} => FirstHalf(o)'
        BY <1>0, <2>1, <3>1, <4>1 DEF Follows, Hashes, Halves, FirstHalf
      <4>3. ~hurt[o] /\ todo[o] = {} => SecondHalf(o)'
        BY <1>0, <2>1, <3>1, <4>1 DEF Follows, Hashes, Halves, SecondHalf, Paired
      <4> QED
        BY <2>1, <4>1, <4>2, <4>3 DEF Hashes, Halves
    <3> QED
      BY <2>1, <3>1 DEF Hashes
  <2> QED
    BY <1>b, <2>1, <2>2, <2>3 DEF Follows, EndedWell
<1>5. CASE Seal(o)
  BY <1>5, SealFollows
<1>6. CASE CannotDecrypt(o) \/ CannotSeal(o)
  BY <1>6, NotWrittenFollows
<1>7. CASE Reconcile(o)
  <2>1. PICK well : End(o, well) /\ (well => ~hurt[o])
    BY <1>7 DEF Reconcile
  <2>2. cmd[o] # "hash"
    BY <1>0, <1>7 DEF Reconcile, Follows, Hashes
  <2>3. well /\ cmd[o] = "generate" => Paired(data["env"], Hashed \cap Seeded)
    BY <1>0, <1>7, <2>1 DEF Reconcile, Follows, Generates, TypeOK, Files
  <2> QED
    BY <1>0, <1>7, <2>1, <2>2, <2>3, EndFollows DEF Reconcile, files
<1>8. CASE ReconcileFails(o) \/ Kill(o)
  BY <1>0, <1>8, EndFollows DEF ReconcileFails, Kill, files
<1>9. CASE Rotated(o) \/ Told(o)
  <2>1. cmd[o] \notin {"generate", "hash"} /\ End(o, TRUE) /\ UNCHANGED data
    BY <1>0, <1>9 DEF Rotated, Told, Follows, Generates, Hashes, files
  <2> QED
    BY <1>0, <2>1, EndFollows
<1>10. ASSUME NEW j \in Keys, Derive(o, j) \/ CannotDerive(o, j) \/ EditSaves(o, j) PROVE Follows(o)'
  <2>1. cmd[o] \notin {"generate", "hash"} /\ UNCHANGED <<cmd, ended>>
    BY <1>0, <1>10 DEF Derive, CannotDerive, EditSaves, Staged
  <2> QED
    BY <1>b, <1>c, <2>1
<1> QED
  BY <1>1, <1>2, <1>3, <1>4, <1>5, <1>6, <1>7, <1>8, <1>9, <1>10 DEF GoOn

\* What a command reported stays with the one who ran it until the next begins.
LEMMA GoOnQuiet ==
  ASSUME PairInv, NEW o \in Operators, GoOn(o) \/ Kill(o)
  PROVE  /\ \A p \in Operators : p # o => ended'[p] = "none"
         /\ pc'[o] # "idle" => ended'[o] = "none"
<1>0. TypeOK
  BY DEF PairInv, Inv
<1>1. \A p \in Operators : ended[p] = "none"
  <2>1. pc[o] # "idle"
    BY DEF GoOn, Kill, HashGoesOn, Share, Decrypt, CannotDecrypt, Write, Seal, CannotSeal, Reconcile,
       ReconcileFails, Rotated, Told, Derive, CannotDerive, EditSaves
  <2> QED
    BY <2>1 DEF PairInv, Quiet
<1>2. ASSUME NEW well, End(o, well)
      PROVE  pc'[o] = "idle" /\ \A p \in Operators : p # o => ended'[p] = ended[p]
  BY <1>0, <1>2 DEF End, GoTo, TypeOK
<1>3. (\E well : End(o, well)) \/ UNCHANGED ended
  <2>1. CASE Seal(o) \/ CannotSeal(o) \/ CannotDecrypt(o)
    BY <2>1 DEF Seal, CannotSeal, CannotDecrypt, Sealed, NotWritten, Onward
  <2>2. CASE Reconcile(o) \/ ReconcileFails(o) \/ Rotated(o) \/ Told(o) \/ Kill(o)
    BY <2>2 DEF Reconcile, ReconcileFails, Rotated, Told, Kill
  <2>3. CASE HashGoesOn(o)
    BY <2>3 DEF HashGoesOn
  <2>4. CASE Share(o) \/ Decrypt(o) \/ Write(o)
    BY <2>4 DEF Share, Decrypt, Write
  <2>5. CASE \E k \in Keys : Derive(o, k) \/ CannotDerive(o, k) \/ EditSaves(o, k)
    BY <2>5 DEF Derive, CannotDerive, EditSaves
  <2> QED
    BY <2>1, <2>2, <2>3, <2>4, <2>5 DEF GoOn
<1> QED
  BY <1>1, <1>2, <1>3

\* The digests, when one command runs at a time.
LEMMA PairStep == ASSUME ~Overlap, PairInv, [Next]_vars PROVE PairInv'
<1>1. Inv'
  BY InvStep DEF PairInv
<1>2. CASE UNCHANGED vars
  <2>1. \A o \in Operators : Follows(o)'
    BY <1>2 DEF PairInv, Follows, Generates, Hashes, EndedWell, Halves, FirstHalf, SecondHalf, Paired, vars, process, files
  <2>2. Quiet'
    BY <1>2 DEF PairInv, Quiet, vars, process
  <2> QED
    BY <1>1, <2>1, <2>2 DEF PairInv
<1>3. ASSUME NEW o \in Operators, Begin(o) \/ GoOn(o) \/ Kill(o) PROVE PairInv'
  <2>1. Follows(o)'
    BY <1>3, BeginFollows, GoOnFollows DEF PairInv
  <2>2. ASSUME NEW p \in Operators, p # o
        PROVE  pc'[p] = "idle" /\ cmd'[p] = "none" /\ ended'[p] = "none"
    BY <1>3, <2>2, OthersRest, OnlyOwn, BeginFollows, GoOnQuiet DEF PairInv, Inv
  <2>3. pc'[o] # "idle" => ended'[o] = "none"
    BY <1>3, BeginFollows, GoOnQuiet DEF PairInv
  <2>4. Quiet'
    BY <2>2, <2>3 DEF Quiet
  <2>5. ASSUME NEW p \in Operators, p # o PROVE Follows(p)'
    BY <2>2, <2>5 DEF Follows, Generates, Hashes, EndedWell
  <2> QED
    BY <1>1, <2>1, <2>4, <2>5 DEF PairInv
<1> QED
  BY <1>2, <1>3 DEF Next

\* After `generate` or `hash` has reported success, each digest in force is that of the client
\* secret in force, whatever failed or was interrupted before, until the next command begins
\* (credentials.py, generate_all_credentials; cli/secrets.py, hash): of any catalog in which the
\* digests are those of client secrets, and with any number of operators, one command at a time.
THEOREM DigestsAreOfSecrets == ASSUME ~Overlap PROVE Spec => []DigestsFollow
<1>1. Init => PairInv
  <2> SUFFICES ASSUME Init PROVE PairInv
    OBVIOUS
  <2>1. \A o \in Operators : pc[o] = "idle" /\ cmd[o] = "none" /\ ended[o] = "none"
    BY DEF Init
  <2> QED
    BY <2>1, InvInit DEF PairInv, Quiet, Follows, Generates, Hashes, EndedWell
<1>2. PairInv /\ [Next]_vars => PairInv'
  BY PairStep
<1>3. PairInv => DigestsFollow
  <2> SUFFICES ASSUME PairInv, NEW o \in Operators, NEW d \in Keys, KindOf[d] = "digest",
                      \/ ended[o] = "generate" /\ d \in Seeded
                      \/ ended[o] = "hash"
               PROVE  PairHolds(d)
    BY DEF DigestsFollow
  <2>1. data["env"][d] = data["env"][SourceOf[d]] /\ data["env"][d] # Absent
    BY DEF PairInv, Follows, EndedWell, Paired, Hashed
  <2>2. SourceOf[d] \in Keys
    BY CatalogAssumption
  <2> QED
    BY <2>1, <2>2 DEF PairHolds, InForce, Over
<1> QED
  BY <1>1, <1>2, <1>3, PTL DEF Spec

-----------------------------------------------------------------------------
\* What is promised

Readable == \A f \in Files : form[f] = "sealed"

\* `init` sets what neither file has a value of, as long as it can read both.
Fills(o) ==
    cmd[o] = "init" =>
        /\ target[o] = "env"
        /\ Readable /\ ~blind[o] =>
              \A k \in Keys :
                  /\ pc[o] = "decrypt" /\ pick[o][k] # Absent => k \notin Immutable /\ Gap(InForce[k])
                  /\ pc[o] = "write" /\ copy[o][k] # data["env"][k] => k \notin Immutable /\ Gap(InForce[k])

\* The commands that renew a credential remove none.
Adds(o) ==
    /\ cmd[o] \in {"init", "generate", "force", "hash"} /\ pc[o] = "write" =>
          \A k \in Keys : copy[o][k] = Absent => data[target[o]][k] = Absent
    /\ cmd[o] = "rotate" => \A d \in todo[o] : pick[o][SourceOf[d]] # Absent

\* The extraction puts what it took in the common file before it removes it from the other.
Taken(o) == {k \in Shared : seen[o][k] # Absent}

Extracts(o) ==
    cmd[o] = "extract" =>
        /\ pc[o] \in {"share", "write", "seal"}
        /\ pc[o] \in {"share", "write"} \/ target[o] = "common" => seen[o] = data["env"]
        /\ pc[o] = "write" /\ target[o] = "common" =>
              /\ \A k \in Taken(o) : copy[o][k] = seen[o][k]
              /\ Readable /\ ~blind[o] => \A k \in Keys \ Taken(o) : copy[o][k] = data["common"][k]
        /\ pc[o] = "seal" /\ target[o] = "common" =>
              \A k \in Taken(o) : data["common"][k] = seen[o][k]
        /\ pc[o] = "write" /\ target[o] = "env" =>
              /\ \A k \in Taken(o) : data["common"][k] = seen[o][k]
              /\ \A k \in Keys : copy[o][k] = IF k \in Shared THEN Absent ELSE seen[o][k]

Keeps(o) == Fills(o) /\ Adds(o) /\ Extracts(o)

PromiseInv == Inv /\ \A o \in Operators : Keeps(o)

\* A command that is none of these has nothing to keep.
LEMMA OtherKeeps ==
  ASSUME NEW o \in Operators, cmd'[o] \notin {"init", "generate", "force", "hash", "rotate", "extract"}
  PROVE  Keeps(o)'
BY DEF Keeps, Fills, Adds, Extracts

\* A command that renews keeps its word until it writes.
LEMMA RenewKeeps ==
  ASSUME NEW o \in Operators, cmd'[o] \in {"generate", "force", "hash"}, pc'[o] # "write"
  PROVE  Keeps(o)'
BY DEF Keeps, Fills, Adds, Extracts

\* A command that is over.
LEMMA EndKeeps ==
  ASSUME TypeOK, NEW o \in Operators, NEW well, End(o, well) PROVE Keeps(o)'
<1>1. cmd'[o] = "none"
  BY DEF End, TypeOK
<1> QED
  BY <1>1, OtherKeeps

\* What the files give together, when both can be read, is what is in force.
LEMMA MergedIsInForce == Readable => Merged = InForce
BY DEF Readable, Merged, InForce, Decrypted, Files

\* The first step of a command.
LEMMA BeginKeeps ==
  ASSUME Inv, NEW o \in Operators, Begin(o) PROVE Keeps(o)'
<1>0. TypeOK
  BY DEF Inv
<1>a. ASSUME NEW c, Start(o, c) PROVE cmd'[o] = c
  BY <1>0, <1>a DEF Start, TypeOK
<1>b. ASSUME NEW f, NEW values, Rewrite(o, f, values) PROVE pc'[o] = "decrypt" /\ target'[o] = f /\ pick'[o] = values
  BY <1>0, <1>b DEF Rewrite, GoTo, TypeOK
<1>1. CASE Generate(o)
  <2>1. cmd'[o] = "generate" /\ pc'[o] = "decrypt"
    BY <1>a, <1>b, <1>1 DEF Generate
  <2> QED
    BY <2>1, RenewKeeps
<1>2. CASE Hash(o)
  <2>1. cmd'[o] = "hash" /\ pc'[o] = "decrypt"
    BY <1>a, <1>b, <1>2 DEF Hash
  <2> QED
    BY <2>1, RenewKeeps
<1>3. ASSUME NEW S \in SUBSET Keys, ForceSecrets(o, S) PROVE Keeps(o)'
  <2>1. cmd'[o] = "force" /\ pc'[o] = "decrypt"
    BY <1>a, <1>b, <1>3 DEF ForceSecrets
  <2> QED
    BY <2>1, RenewKeeps
<1>4. ASSUME NEW S \in SUBSET Keys, InitSecrets(o, S) PROVE Keeps(o)'
  <2>1. /\ cmd'[o] = "init" /\ pc'[o] = "decrypt" /\ target'[o] = "env" /\ UNCHANGED <<form, data>>
        /\ pick'[o] = [k \in Keys |-> IF k \in S THEN fresh' ELSE Absent]
    BY <1>a, <1>b, <1>4 DEF InitSecrets, files
  <2>2. ~blind'[o] => S = InitTargets \ Present(Merged)
    <3>1. PICK read : Gets(o, read, Merged) /\ S = InitTargets \ Present(read)
      BY <1>4 DEF InitSecrets
    <3>2. CASE read = Merged
      BY <3>1, <3>2
    <3>3. CASE read # Merged
      BY <1>0, <3>1, <3>3 DEF Gets, TypeOK
    <3> QED
      BY <3>2, <3>3
  <2>3. InForce' = InForce /\ Readable' = Readable
    BY <2>1 DEF InForce, Readable
  <2>4. ASSUME Readable, ~blind'[o], NEW k \in Keys, pick'[o][k] # Absent PROVE k \notin Immutable /\ Gap(InForce[k])
    <3>1. k \in S
      BY <2>1, <2>4
    <3> QED
      BY <2>2, <2>4, <3>1, MergedIsInForce DEF InitTargets, Present
  <2>5. Fills(o)'
    BY <2>1, <2>3, <2>4 DEF Fills
  <2> QED
    BY <2>1, <2>5 DEF Keeps, Adds, Extracts
<1>5. CASE Extract(o)
  <2>1. cmd'[o] = "extract" /\ pc'[o] = "share" /\ seen'[o] = data'["env"]
    BY <1>0, <1>a, <1>5 DEF Extract, GoTo, TypeOK, files
  <2> QED
    BY <2>1 DEF Keeps, Fills, Adds, Extracts
<1>6. ASSUME NEW j \in Keys, Rotate(o, j) PROVE Keeps(o)'
  <2>1. cmd'[o] = "rotate" /\ todo'[o] = DigestsOf(j) /\ pick'[o] = [Nothing EXCEPT ![j] = fresh'] /\ fresh' # Absent
    BY <1>0, <1>a, <1>6 DEF Rotate, TypeOK, Absent
  <2>2. \A d \in todo'[o] : SourceOf[d] = j
    BY <2>1 DEF DigestsOf
  <2>3. pick'[o][j] = fresh'
    BY <2>1 DEF Nothing
  <2> QED
    BY <2>1, <2>2, <2>3 DEF Keeps, Fills, Adds, Extracts
<1>7. ASSUME NEW f \in Files, EditOpens(o, f) \/ \E k \in Keys : SetByHand(o, f, k) PROVE Keeps(o)'
  <2>1. cmd'[o] \in {"edit", "set"}
    BY <1>a, <1>7 DEF EditOpens, SetByHand
  <2> QED
    BY <2>1, OtherKeeps
<1> QED
  BY <1>1, <1>2, <1>3, <1>4, <1>5, <1>6, <1>7 DEF Begin

\* A command that turns to the common file or to Uptime Kuma.
LEMMA OnwardKeeps ==
  ASSUME TypeOK, NEW o \in Operators, Onward(o) PROVE Keeps(o)'
<1>1. cmd'[o] = "generate" /\ pc'[o] \in {"decrypt", "kuma"}
  BY DEF Onward, Rewrite, GoTo, TypeOK
<1> QED
  BY <1>1, RenewKeeps

\* What follows a rewrite, whether it took place or not.
LEMMA AfterKeeps ==
  ASSUME PromiseInv, NEW o \in Operators, Seal(o) \/ CannotDecrypt(o) \/ CannotSeal(o) PROVE Keeps(o)'
<1>0. TypeOK /\ Keeps(o)
  BY DEF PromiseInv, Inv
<1>1. CASE Onward(o)
  BY <1>0, <1>1, OnwardKeeps
<1>2. CASE End(o, TRUE) \/ End(o, FALSE)
  BY <1>0, <1>2, EndKeeps
<1>3. CASE cmd[o] = "hash" /\ GoTo(o, "digest") /\ UNCHANGED cmd
  <2>1. cmd'[o] = "hash" /\ pc'[o] = "digest"
    BY <1>0, <1>3 DEF GoTo, TypeOK
  <2> QED
    BY <2>1, RenewKeeps
<1>4. CASE /\ Seal(o) /\ cmd[o] = "extract" /\ target[o] = "common"
           /\ copy' = [copy EXCEPT ![o] = [k \in Keys |-> IF k \in Shared THEN Absent ELSE seen[o][k]]]
           /\ target' = [target EXCEPT ![o] = "env"] /\ GoTo(o, "write") /\ UNCHANGED <<cmd, seen>>
  <2>1. /\ cmd'[o] = "extract" /\ pc'[o] = "write" /\ target'[o] = "env" /\ UNCHANGED <<seen, data>>
        /\ copy'[o] = [k \in Keys |-> IF k \in Shared THEN Absent ELSE seen[o][k]]
    BY <1>0, <1>4 DEF Seal, GoTo, TypeOK
  <2>2. seen[o] = data["env"] /\ \A k \in Taken(o) : data["common"][k] = seen[o][k]
    BY <1>0, <1>4 DEF Seal, Keeps, Extracts
  <2>3. Taken(o)' = Taken(o)
    BY <2>1 DEF Taken
  <2>4. Extracts(o)'
    BY <2>1, <2>2, <2>3 DEF Extracts
  <2> QED
    BY <2>1, <2>4 DEF Keeps, Fills, Adds
<1> QED
  BY <1>1, <1>2, <1>3, <1>4 DEF Seal, Sealed, CannotDecrypt, CannotSeal, NotWritten

\* The further steps of a command, and its interruption.
LEMMA GoOnKeeps ==
  ASSUME PromiseInv, NEW o \in Operators, GoOn(o) \/ Kill(o) PROVE Keeps(o)'
<1>0. TypeOK /\ Staged(o) /\ Keeps(o)
  BY DEF PromiseInv, Inv
<1>1. CASE HashGoesOn(o)
  <2>1. CASE End(o, FALSE)
    BY <1>0, <2>1, EndKeeps
  <2>2. CASE \E values : Rewrite(o, "env", values) /\ UNCHANGED cmd
    <3>1. cmd'[o] = "hash" /\ pc'[o] = "decrypt"
      BY <1>0, <1>1, <2>2 DEF HashGoesOn, Staged, Rewrite, GoTo, TypeOK
    <3> QED
      BY <3>1, RenewKeeps
  <2> QED
    BY <1>1, <2>1, <2>2 DEF HashGoesOn
<1>2. CASE Share(o)
  <2>1. /\ pc[o] = "share" /\ pc'[o] = "write" /\ target'[o] = "common" /\ UNCHANGED <<cmd, seen, form, data>>
    BY <1>0, <1>2 DEF Share, GoTo, TypeOK, Files, files
  <2>3. PICK read \in {Decrypted("common"), Nothing} :
          /\ Gets(o, read, Decrypted("common"))
          /\ copy' = [copy EXCEPT ![o] =
                [k \in Keys |-> IF k \in Shared /\ seen[o][k] # Absent THEN seen[o][k] ELSE read[k]]]
    BY <1>2 DEF Share
  <2>4. \A k \in Keys : copy'[o][k] = IF k \in Shared /\ seen[o][k] # Absent THEN seen[o][k] ELSE read[k]
    BY <1>0, <2>3 DEF TypeOK
  <2>5. ~blind'[o] => read = Decrypted("common")
    BY <1>0, <2>3 DEF Gets, TypeOK
  <2>2. CASE cmd[o] = "extract"
    <3>1. Taken(o)' = Taken(o) /\ Readable' = Readable /\ Taken(o) \subseteq Keys
      BY <2>1, CatalogAssumption DEF Taken, Readable
    <3>2. \A k \in Taken(o) : copy'[o][k] = seen[o][k]
      BY <2>4, <3>1 DEF Taken
    <3>3. Readable /\ ~blind'[o] => \A k \in Keys \ Taken(o) : copy'[o][k] = data["common"][k]
      BY <2>4, <2>5 DEF Taken, Readable, Decrypted, Files
    <3>4. seen[o] = data["env"]
      BY <1>0, <2>1, <2>2 DEF Keeps, Extracts
    <3>5. Extracts(o)'
      BY <2>1, <3>1, <3>2, <3>3, <3>4 DEF Extracts
    <3> QED
      BY <2>1, <2>2, <3>5 DEF Keeps, Fills, Adds
  <2> QED
    BY <1>0, <2>1, <2>2 DEF Staged
<1>3. CASE Decrypt(o)
  <2>1. /\ pc[o] = "decrypt" /\ pc'[o] = "write" /\ form[target[o]] = "sealed"
        /\ UNCHANGED <<cmd, form, data, target, todo, pick, seen, blind>>
        /\ \A k \in Keys : copy'[o][k] = IF pick[o][k] # Absent THEN pick[o][k] ELSE data[target[o]][k]
    BY <1>0, <1>3 DEF Decrypt, GoTo, TypeOK, files, Over
  <2>2. cmd[o] # "extract"
    BY <1>0, <2>1 DEF Staged
  <2>3. Readable' = Readable /\ InForce' = InForce
    BY <2>1 DEF Readable, InForce
  <2>4. Fills(o)'
    BY <1>0, <2>1, <2>3 DEF Keeps, Fills
  <2>5. Adds(o)'
    BY <1>0, <2>1 DEF Keeps, Adds
  <2> QED
    BY <2>1, <2>2, <2>4, <2>5 DEF Keeps, Extracts
<1>4. CASE Write(o)
  <2>1. /\ pc[o] = "write" /\ pc'[o] = "seal" /\ UNCHANGED <<cmd, target, todo, pick, seen, copy, blind>>
        /\ data' = [data EXCEPT ![target[o]] = copy[o]]
    BY <1>0, <1>4 DEF Write, GoTo, TypeOK
  <2>2. Fills(o)' /\ Adds(o)'
    BY <1>0, <2>1 DEF Keeps, Fills, Adds
  <2>3. CASE cmd[o] = "extract" /\ target[o] = "common"
    <3>1. data'["env"] = data["env"] /\ data'["common"] = copy[o] /\ Taken(o)' = Taken(o)
      BY <1>0, <2>1, <2>3 DEF TypeOK, Files, Taken
    <3>2. seen[o] = data["env"] /\ \A k \in Taken(o) : copy[o][k] = seen[o][k]
      BY <1>0, <2>1, <2>3 DEF Keeps, Extracts
    <3>3. Extracts(o)'
      BY <2>1, <2>3, <3>1, <3>2 DEF Extracts
    <3> QED
      BY <2>2, <3>3 DEF Keeps
  <2>4. CASE ~(cmd[o] = "extract" /\ target[o] = "common")
    BY <2>1, <2>2, <2>4 DEF Keeps, Extracts
  <2> QED
    BY <2>3, <2>4
<1>5. CASE Seal(o) \/ CannotDecrypt(o) \/ CannotSeal(o)
  BY <1>5, AfterKeeps
<1>6. CASE Reconcile(o)
  <2>1. PICK well : End(o, well)
    BY <1>6 DEF Reconcile
  <2> QED
    BY <1>0, <2>1, EndKeeps
<1>7. CASE ReconcileFails(o) \/ Rotated(o) \/ Told(o) \/ Kill(o)
  BY <1>0, <1>7, EndKeeps DEF ReconcileFails, Rotated, Told, Kill
<1>8. ASSUME NEW j \in Keys, Derive(o, j) \/ CannotDerive(o, j) PROVE Keeps(o)'
  <2>1. cmd'[o] = "rotate" /\ UNCHANGED pick /\ todo'[o] \subseteq todo[o] /\ cmd[o] = "rotate"
    BY <1>0, <1>8 DEF Derive, CannotDerive, Staged, TypeOK
  <2> QED
    BY <1>0, <2>1 DEF Keeps, Fills, Adds, Extracts
<1>9. ASSUME NEW j \in Keys, EditSaves(o, j) PROVE Keeps(o)'
  <2>1. cmd'[o] = "edit"
    BY <1>0, <1>9 DEF EditSaves, Staged
  <2> QED
    BY <2>1, OtherKeeps
<1> QED
  BY <1>1, <1>2, <1>3, <1>4, <1>5, <1>6, <1>7, <1>8, <1>9 DEF GoOn

\* The promise, when one command runs at a time.
LEMMA PromiseInvStep == ASSUME ~Overlap, PromiseInv, [Next]_vars PROVE PromiseInv'
<1>1. Inv'
  BY InvStep DEF PromiseInv
<1>2. CASE UNCHANGED vars
  <2>1. \A o \in Operators : Keeps(o)'
    BY <1>2 DEF PromiseInv, Keeps, Fills, Adds, Extracts, Readable, InForce, Taken, vars, process, files
  <2> QED
    BY <1>1, <2>1 DEF PromiseInv
<1>3. ASSUME NEW o \in Operators, Begin(o) \/ GoOn(o) \/ Kill(o) PROVE PromiseInv'
  <2>1. Keeps(o)'
    BY <1>3, BeginKeeps, GoOnKeeps DEF PromiseInv
  <2>2. ASSUME NEW p \in Operators, p # o PROVE Keeps(p)'
    <3>1. cmd'[p] = "none"
      BY <1>3, <2>2, OthersRest, OnlyOwn DEF PromiseInv, Inv
    <3> QED
      BY <3>1, OtherKeeps
  <2> QED
    BY <1>1, <2>1, <2>2 DEF PromiseInv
<1> QED
  BY <1>2, <1>3 DEF Next

\* The credentials in force as the promise sees them.
Value == [k \in Keys |-> IF k \in Immutable THEN data["env"][k] ELSE InForce[k]]

Altered == {k \in Keys : Value'[k] # Value[k]}

\* What the command c is for, when it could read what it asked for and when not.
Purpose(c, b) ==
    CASE c = "init" /\ ~b -> "fill"
      [] c = "init" /\ b -> "renew"
      [] c \in {"generate", "force", "hash", "rotate"} -> "renew"
      [] c = "extract" -> "move"
      [] OTHER -> "hand"

\* The command at work is the one that runs.
LEMMA JobIsPurpose ==
  ASSUME NEW o \in Operators, \A p \in Operators : p # o => cmd[p] = "none"
  PROVE  Job = IF cmd[o] = "none" THEN "none" ELSE Purpose(cmd[o], blind[o])
<1> DEFINE busy == {p \in Operators : cmd[p] # "none"}
<1>1. CASE cmd[o] = "none"
  <2>1. busy = {}
    BY <1>1
  <2> QED
    BY <1>1, <2>1 DEF Job
<1>2. CASE cmd[o] # "none"
  <2>1. busy = {o}
    BY <1>2
  <2>2. \A p \in busy : p = o
    BY <2>1
  <2>3. (CHOOSE p \in busy : TRUE) = o
    BY <2>1, <2>2
  <2> QED
    BY <1>2, <2>1, <2>3 DEF Job, Purpose
<1> QED
  BY <1>1, <1>2

\* And after a step.
LEMMA NextJobIsPurpose ==
  ASSUME NEW o \in Operators, \A p \in Operators : p # o => cmd'[p] = "none"
  PROVE  Job' = IF cmd'[o] = "none" THEN "none" ELSE Purpose(cmd'[o], blind'[o])
<1> DEFINE busy == {p \in Operators : cmd'[p] # "none"}
<1>1. CASE cmd'[o] = "none"
  <2>1. busy = {}
    BY <1>1
  <2> QED
    BY <1>1, <2>1 DEF Job
<1>2. CASE cmd'[o] # "none"
  <2>1. busy = {o}
    BY <1>2
  <2>2. \A p \in busy : p = o
    BY <2>1
  <2>3. (CHOOSE p \in busy : TRUE) = o
    BY <2>1, <2>2
  <2> QED
    BY <1>2, <2>1, <2>3 DEF Job, Purpose
<1> QED
  BY <1>1, <1>2

\* A step that leaves the values alone.
LEMMA SameValue == UNCHANGED data => Altered = {}
BY DEF Altered, Value, InForce

\* What a value of the files is, key by key.
LEMMA ValueOf ==
  ASSUME NEW k \in Keys
  PROVE  /\ Value[k] = IF k \in Immutable \/ data["env"][k] # Absent THEN data["env"][k] ELSE data["common"][k]
         /\ Value'[k] = IF k \in Immutable \/ data'["env"][k] # Absent THEN data'["env"][k] ELSE data'["common"][k]
BY DEF Value, InForce, Over

\* What a step does to the values in force, by what the command is for.
Promised(c, b) ==
    /\ c = "init" /\ ~b => \A k \in Altered : Gap(Value[k])
    /\ c \in {"init", "generate", "force", "hash", "rotate"} =>
          \A k \in Altered : (k \in Immutable => Gap(Value[k])) /\ Value'[k] # Absent
    /\ c \in {"extract", "none"} => Altered = {}

\* The step that writes a file.
LEMMA WritePromised ==
  ASSUME PromiseInv, NEW o \in Operators, Write(o), Readable, ~Misled PROVE Promised(cmd'[o], blind'[o])
<1>0. TypeOK /\ Staged(o) /\ Keeps(o) /\ \A k \in Immutable : Spares(o, k)
  BY DEF PromiseInv, Inv
<1>1. /\ pc[o] = "write" /\ UNCHANGED <<cmd, blind>> /\ data' = [data EXCEPT ![target[o]] = copy[o]]
      /\ target[o] \in {"env", "common"}
  BY <1>0 DEF Write, TypeOK, Files
<1>a. ~Mistaken(o) /\ (cmd[o] = "extract" => ~blind[o])
  BY DEF Misled, Mistaken
<1>2. /\ target[o] = "env" => data'["env"] = copy[o] /\ data'["common"] = data["common"]
      /\ target[o] = "common" => data'["common"] = copy[o] /\ data'["env"] = data["env"]
  BY <1>0, <1>1 DEF TypeOK, Files
<1>3. \A k \in Altered : k \in Keys /\ Value'[k] # Value[k]
  BY DEF Altered
<1>4. ASSUME cmd[o] = "init", ~blind[o], NEW k \in Altered PROVE Gap(Value[k])
  <2>1. target[o] = "env" /\ (copy[o][k] # data["env"][k] => k \notin Immutable /\ Gap(InForce[k]))
    BY <1>0, <1>1, <1>3, <1>4 DEF Keeps, Fills
  <2>2. data'["env"][k] # data["env"][k]
    BY <1>2, <1>3, <2>1, ValueOf
  <2> QED
    BY <1>2, <1>3, <2>1, <2>2 DEF Value
<1>5. ASSUME cmd[o] \in {"init", "generate", "force", "hash"}, NEW k \in Altered
      PROVE  (k \in Immutable => Gap(Value[k])) /\ Value'[k] # Absent
  <2>1. copy[o][k] = Absent => data[target[o]][k] = Absent
    BY <1>0, <1>1, <1>3, <1>5 DEF Keeps, Adds
  <2>2. ASSUME k \in Immutable PROVE data["env"][k] = Absent
    <3>1. target[o] = "env" /\ data["env"][k] # copy[o][k]
      BY <1>1, <1>2, <1>3, <2>2, ValueOf
    <3> QED
      BY <1>0, <1>1, <1>a, <2>2, <3>1 DEF Spares
  <2>3. k \in Immutable => Gap(Value[k])
    BY <1>3, <2>2, ValueOf DEF Gap
  <2>4. Value'[k] # Absent
    BY <1>1, <1>2, <1>3, <2>1, ValueOf
  <2> QED
    BY <2>3, <2>4
<1>6. ASSUME cmd[o] = "extract", NEW k \in Keys PROVE Value'[k] = Value[k]
  <2>1. seen[o] = data["env"] /\ (k \in Taken(o) <=> k \in Shared /\ data["env"][k] # Absent)
    BY <1>0, <1>1, <1>6 DEF Keeps, Extracts, Taken
  <2>2. k \in Shared => k \notin Immutable
    BY CatalogAssumption
  <2>3. CASE target[o] = "common"
    <3>1. copy[o][k] = IF k \in Taken(o) THEN data["env"][k] ELSE data["common"][k]
      BY <1>0, <1>1, <1>a, <1>6, <2>1, <2>3 DEF Keeps, Extracts
    <3> QED
      BY <1>2, <2>1, <2>3, <3>1, ValueOf
  <2>4. CASE target[o] = "env"
    <3>1. /\ k \in Taken(o) => data["common"][k] = data["env"][k]
          /\ copy[o][k] = IF k \in Shared THEN Absent ELSE data["env"][k]
      BY <1>0, <1>1, <1>6, <2>1, <2>4 DEF Keeps, Extracts
    <3> QED
      BY <1>2, <2>1, <2>2, <2>4, <3>1, ValueOf
  <2> QED
    BY <1>1, <2>3, <2>4
<1>7. cmd[o] = "extract" => Altered = {}
  BY <1>6 DEF Altered
<1>8. cmd[o] \notin {"rotate", "none"}
  <2>1. cmd[o] # "none"
    BY <1>0, <1>1 DEF Staged
  <2>2. cmd[o] # "rotate"
    BY <1>0, <1>1 DEF Staged
  <2> QED
    BY <2>1, <2>2
<1> QED
  BY <1>1, <1>4, <1>5, <1>7, <1>8 DEF Promised

\* The steps that set one value in place.
LEMMA RotatePromised ==
  ASSUME PromiseInv, NEW o \in Operators, NEW j \in Keys, Rotate(o, j) \/ Derive(o, j) PROVE Promised(cmd'[o], blind'[o])
<1>0. TypeOK /\ Staged(o) /\ Keeps(o)
  BY DEF PromiseInv, Inv
<1>1. cmd'[o] = "rotate" /\ j \notin Immutable
  <2>1. CASE Rotate(o, j)
    BY <1>0, <2>1 DEF Rotate, Start, TypeOK
  <2>2. CASE Derive(o, j)
    BY <1>0, <2>2 DEF Derive, Staged
  <2> QED
    BY <2>1, <2>2
<1>2. PICK v \in Int : data' = [data EXCEPT !["env"][j] = v] /\ v # Absent
  <2>1. CASE Rotate(o, j)
    <3>1. fresh' \in Int /\ fresh' # Absent
      BY <1>0, <2>1 DEF Rotate, TypeOK, Absent
    <3>2. data' = [data EXCEPT !["env"][j] = fresh']
      BY <2>1 DEF Rotate, Assign
    <3> QED
      BY <3>1, <3>2
  <2>2. CASE Derive(o, j)
    <3>1. pick[o][SourceOf[j]] \in Int
      BY <1>0, CatalogAssumption DEF TypeOK
    <3>2. pick[o][SourceOf[j]] # Absent
      BY <1>0, <2>2 DEF Derive, Staged, Keeps, Adds
    <3> QED
      BY <2>2, <3>1, <3>2 DEF Derive, Assign
  <2> QED
    BY <2>1, <2>2
<1>3. /\ data'["env"][j] = v /\ data'["common"] = data["common"]
      /\ \A k \in Keys : k # j => data'["env"][k] = data["env"][k]
  BY <1>0, <1>2 DEF TypeOK, Files
<1>4. ASSUME NEW k \in Altered PROVE k = j /\ k \notin Immutable /\ Value'[k] # Absent
  <2>1. k \in Keys /\ Value'[k] # Value[k]
    BY DEF Altered
  <2>2. k = j
    BY <1>3, <2>1, ValueOf
  <2> QED
    BY <1>1, <1>2, <1>3, <2>1, <2>2, ValueOf
<1> QED
  BY <1>1, <1>4 DEF Promised

\* A file left in clear text keeps the promise from being one.
LEMMA WhoWritesReads ==
  ASSUME Inv, NEW o \in Operators, pc[o] = "write", ~LeftInClear PROVE Readable
<1>1. ASSUME NEW f \in Files, form[f] = "plain" PROVE FALSE
  <2>1. PICK p \in Operators : pc[p] = "seal"
    BY <1>1 DEF LeftInClear
  <2>2. p = o
    BY <2>1 DEF Inv, OneAtATime
  <2> QED
    BY <2>1, <2>2
<1> QED
  BY <1>1 DEF Readable, Inv, TypeOK

\* Every step of a command.
LEMMA StepPromised ==
  ASSUME PromiseInv, ~LeftInClear, ~Misled, NEW o \in Operators, Begin(o) \/ GoOn(o) \/ Kill(o) PROVE Promised(cmd'[o], blind'[o])
<1>0. TypeOK /\ Staged(o)
  BY DEF PromiseInv, Inv
<1>1. ASSUME UNCHANGED data PROVE Promised(cmd'[o], blind'[o])
  BY <1>1, SameValue DEF Promised
<1>2. CASE Begin(o)
  <2>1. CASE Generate(o) \/ Hash(o) \/ Extract(o)
    BY <1>1, <2>1 DEF Generate, Hash, Extract, files
  <2>2. CASE \E S \in SUBSET Keys : InitSecrets(o, S) \/ ForceSecrets(o, S)
    BY <1>1, <2>2 DEF InitSecrets, ForceSecrets, files
  <2>3. CASE \E k \in Keys : Rotate(o, k)
    BY <2>3, RotatePromised
  <2>4. CASE \E f \in Files : EditOpens(o, f)
    BY <1>1, <2>4 DEF EditOpens, files
  <2>5. CASE \E f \in Files, k \in Keys : SetByHand(o, f, k)
    <3>1. cmd'[o] = "set"
      BY <1>0, <2>5 DEF SetByHand, Start, TypeOK
    <3> QED
      BY <3>1 DEF Promised
  <2> QED
    BY <1>2, <2>1, <2>2, <2>3, <2>4, <2>5 DEF Begin
<1>3. CASE GoOn(o) \/ Kill(o)
  <2>1. CASE Write(o)
    <3>1. Readable
      BY <2>1, WhoWritesReads DEF PromiseInv, Write
    <3> QED
      BY <2>1, <3>1, WritePromised
  <2>2. CASE \E k \in Keys : Derive(o, k)
    BY <2>2, RotatePromised
  <2>3. CASE \E k \in Keys : EditSaves(o, k)
    <3>1. cmd'[o] = "edit"
      BY <1>0, <2>3 DEF EditSaves, Staged
    <3> QED
      BY <3>1 DEF Promised
  <2>4. CASE HashGoesOn(o) \/ Share(o) \/ Decrypt(o) \/ CannotDecrypt(o) \/ Seal(o) \/ CannotSeal(o)
    BY <1>1, <2>4 DEF HashGoesOn, Share, Decrypt, CannotDecrypt, Seal, CannotSeal, files
  <2>5. CASE Reconcile(o) \/ ReconcileFails(o) \/ Rotated(o) \/ Told(o) \/ Kill(o)
    BY <1>1, <2>5 DEF Reconcile, ReconcileFails, Rotated, Told, Kill, files
  <2>6. CASE \E k \in Keys : CannotDerive(o, k)
    BY <1>1, <2>6 DEF CannotDerive, files
  <2> QED
    BY <1>3, <2>1, <2>2, <2>3, <2>4, <2>5, <2>6 DEF GoOn
<1> QED
  BY <1>2, <1>3

\* What the command does to the values, it does as one of the four things that are promised.
LEMMA PromisedMaps ==
  ASSUME NEW o \in Operators, \A p \in Operators : p # o => cmd'[p] = "none", Promised(cmd'[o], blind'[o])
  PROVE  Promise!Next
<1>1. Job' = IF cmd'[o] = "none" THEN "none" ELSE Purpose(cmd'[o], blind'[o])
  BY NextJobIsPurpose
<1>2. Promise!Changed = Altered
  BY DEF Promise!Changed, Altered, Value
<1>3. CASE cmd'[o] = "init" /\ ~blind'[o]
  <2>1. \A k \in Altered : k \in Promise!Gaps
    BY <1>3 DEF Promised, Promise!Gaps, Altered, Value, Gap, Absent, Placeholder
  <2>2. Job' = "fill"
    BY <1>1, <1>3 DEF Purpose
  <2>3. Altered \subseteq Promise!Gaps
    BY <2>1
  <2> QED
    BY <1>2, <2>2, <2>3 DEF Promise!Next, Promise!Fill
<1>4. CASE (cmd'[o] = "init" /\ blind'[o]) \/ cmd'[o] \in {"generate", "force", "hash", "rotate"}
  <2>1. \A k \in Altered \cap Immutable : k \in Promise!Gaps
    BY <1>4 DEF Promised, Promise!Gaps, Altered, Value, Gap, Absent, Placeholder
  <2>2. \A k \in Altered : Value'[k] # 0
    BY <1>4 DEF Promised, Absent
  <2>3. Job' = "renew"
    BY <1>1, <1>4 DEF Purpose
  <2> QED
    BY <1>2, <2>1, <2>2, <2>3 DEF Promise!Next, Promise!Renew, Value
<1>5. CASE cmd'[o] \in {"extract", "none"}
  <2>1. Job' \in {"none", "move"} /\ Altered = {}
    BY <1>1, <1>5 DEF Purpose, Promised
  <2> QED
    BY <1>2, <2>1 DEF Promise!Next, Promise!Rest
<1>6. CASE cmd'[o] \notin {"init", "generate", "force", "hash", "rotate", "extract", "none"}
  <2>1. Job' = "hand"
    BY <1>1, <1>6 DEF Purpose
  <2> QED
    BY <2>1 DEF Promise!Next, Promise!Hand
<1> QED
  BY <1>3, <1>4, <1>5, <1>6

\* The commands keep what SecretsPromise says of the credentials in force, one command at a time:
\* filling the gaps touches nothing that has a value, renewing spares what is immutable and removes
\* nothing, moving from one file to the other changes nothing, unless a rewrite was interrupted with
\* a file in clear text. Every decryption may fail: an `init` that took a file for empty still spares
\* what is immutable and removes nothing; of a `generate` or an extraction that did, nothing is said
\* (secrets_manager.py, credentials.py; for any catalog and any operators).
THEOREM FilesKeepThePromise == ASSUME ~Overlap PROVE Spec => PromiseKept
<1>1. Init => PromiseInv
  <2> SUFFICES ASSUME Init PROVE PromiseInv
    OBVIOUS
  <2>1. \A o \in Operators : cmd[o] = "none"
    BY DEF Init
  <2> QED
    BY <2>1, InvInit DEF PromiseInv, Keeps, Fills, Adds, Extracts
<1>2. PromiseInv /\ [Next]_vars => PromiseInv'
  BY PromiseInvStep
<1>3. Init => Promise!Init
  <2> SUFFICES ASSUME Init PROVE Promise!Init
    OBVIOUS
  <2>1. Inv /\ \A o \in Operators : cmd[o] = "none"
    BY InvInit DEF Init
  <2>2. Value \in [Keys -> Int]
    BY <2>1 DEF Value, InForce, Over, Inv, TypeOK, Files
  <2>3. {o \in Operators : cmd[o] # "none"} = {}
    BY <2>1
  <2>4. Job = "none"
    BY <2>3 DEF Job
  <2>5. (LeftInClear \/ Misled) = FALSE
    BY DEF Init, LeftInClear, Misled
  <2> QED
    BY <2>2, <2>4, <2>5 DEF Promise!Init, Value
<1>4. PromiseInv /\ [Next]_vars => [Promise!Next]_Promise!vars
  <2> SUFFICES ASSUME PromiseInv, [Next]_vars PROVE [Promise!Next]_Promise!vars
    OBVIOUS
  <2>1. CASE UNCHANGED vars
    <3>1. UNCHANGED <<form, data, cmd, pc, target, blind>>
      BY <2>1 DEF vars, files, process
    <3>2. Job' = Job /\ (LeftInClear \/ Misled)' = (LeftInClear \/ Misled)
      BY <3>1 DEF Job, LeftInClear, Misled
    <3>3. InForce' = InForce
      BY <3>1 DEF InForce
    <3>4. Value' = Value
      BY <3>1, <3>3 DEF Value
    <3> QED
      BY <3>2, <3>4 DEF Promise!vars, Value
  <2>2. ASSUME NEW o \in Operators, Begin(o) \/ GoOn(o) \/ Kill(o) PROVE Promise!Next
    <3>1. CASE LeftInClear \/ Misled
      BY <3>1 DEF Promise!Next
    <3>2. CASE ~LeftInClear /\ ~Misled
      <4>1. \A p \in Operators : p # o => cmd'[p] = "none"
        BY <2>2, OthersRest, OnlyOwn DEF PromiseInv, Inv
      <4> QED
        BY <2>2, <3>2, <4>1, StepPromised, PromisedMaps
    <3> QED
      BY <3>1, <3>2
  <2> QED
    BY <2>1, <2>2 DEF Next
<1> QED
  BY <1>1, <1>2, <1>3, <1>4, PTL DEF Spec, PromiseKept, Promise!Spec
=============================================================================
