---------------------------- MODULE SecretsVault ----------------------------
(****************************************************************************)
(* The SOPS files behind every credential: common.enc.yaml and the file of  *)
(* one environment, which overrides it, and the commands that rewrite them: *)
(* `credentials generate`, `secrets init`, `hash`, `jwks`, `rotate`, `set`, *)
(* `unset`, `edit`, and the extraction of shared secrets.                   *)
(*                                                                          *)
(* A rewrite of a whole file is three steps: decrypt it, write the result   *)
(* in clear text over it, encrypt it in place.  Whoever reads between the   *)
(* last two finds a file that sops cannot decrypt, and the readers take     *)
(* that for an empty one; and so they take one that sops fails to decrypt   *)
(* for any other reason, and go on.  `sops set` edits in place and is one   *)
(* step.                                                                    *)
(*                                                                          *)
(* The values a command generates are all new, so one number stands for all *)
(* that one command makes; a digest is the number of what it was made from. *)
(****************************************************************************)
EXTENDS Integers, FiniteSets

CONSTANTS Operators,
          Keys,        \* the catalog, and of each key
          KindOf,      \* how it is made,
          SourceOf,    \* what it is derived from (itself when it is not),
          Immutable,   \* whether it encrypts state that still exists,
          Shared,      \* whether the extraction takes it for shared,
          Seeded,      \* and whether `credentials generate` writes it
          Password,    \* the key of the common password
          Commands,    \* the commands in use
          Overlap,     \* whether one command may start while another runs
          MaxRuns, MaxFaults

Absent == 0
Placeholder == -1
Kinds == {"token", "client", "digest", "password", "external", "hub"}
Files == {"common", "env"}

ASSUME CatalogAssumption ==
    /\ KindOf \in [Keys -> Kinds]
    /\ SourceOf \in [Keys -> Keys]
    /\ Immutable \subseteq {k \in Keys : KindOf[k] = "token" /\ SourceOf[k] = k}
    /\ Shared \subseteq Keys \ Immutable
    /\ Seeded \subseteq Keys
    /\ Password \in Seeded
\* A digest is that of a client secret, and whoever writes the one writes both.
ASSUME PairAssumption ==
    \A d \in Keys : KindOf[d] = "digest" =>
        KindOf[SourceOf[d]] = "client" /\ (d \in Seeded => SourceOf[d] \in Seeded)
ASSUME OverlapAssumption == Overlap \in BOOLEAN

VARIABLES form, data,   \* the files: whether sops can read them, and their values
          kuma,         \* the password Uptime Kuma accepts
          cmd, pc,      \* what each operator runs, and how far it is
          target,       \* the file it rewrites
          seen,         \* the values it has read
          pick,         \* the values it will set
          typed,        \* the password it was given
          copy,         \* the file as it will write it
          todo,         \* the digests it has still to set one by one
          hurt,         \* whether a call of it has failed and it has said so
          blind,        \* history: whether it took what is in a file for absent
          ended,        \* the last command of all, when it reported no failure
          fresh, runs, faults

files   == <<form, data>>
process == <<cmd, pc, target, seen, pick, typed, copy, todo, hurt, blind, ended>>
vars == <<files, kuma, process, fresh, runs, faults>>

Nothing == [k \in Keys |-> Absent]

Generable(k) == KindOf[k] \in {"token", "client"}

Gap(v) == v \in {Absent, Placeholder}

\* What a reader of one file gets, and of both, the environment's on top.
Decrypted(f) == IF form[f] = "sealed" THEN data[f] ELSE Nothing

Over(upper, lower) == [k \in Keys |-> IF upper[k] # Absent THEN upper[k] ELSE lower[k]]

\* A mutant: an audit that looks at the environment's file alone.
EnvAlone == Decrypted("env")

Merged == Over(Decrypted("env"), Decrypted("common"))

\* The values in force, whoever can read them.
InForce == Over(data["env"], data["common"])

DigestsOf(k) == {d \in Keys \ {k} : SourceOf[d] = k}

-----------------------------------------------------------------------------
\* The vault as earlier commands have left it: the environment's file whole or
\* still without its machine secrets, the shared ones here or there.

Init ==
    /\ form = [f \in Files |-> "sealed"]
    /\ \E gone \in SUBSET (Keys \ {Password}), moved \in {{}, Shared}, raw \in SUBSET Immutable :
          /\ \A k \in gone : DigestsOf(k) \subseteq gone \/ ~Generable(k)
          /\ data = [f \in Files |->
                [k \in Keys |->
                    IF k \in gone \/ (f = "common") # (k \in moved \/ KindOf[k] = "hub") THEN Absent
                    ELSE IF k \in raw THEN Placeholder ELSE 1]]
    /\ kuma = 1
    /\ cmd = [o \in Operators |-> "none"]
    /\ pc = [o \in Operators |-> "idle"]
    /\ target = [o \in Operators |-> "env"]
    /\ seen = [o \in Operators |-> Nothing]
    /\ pick = [o \in Operators |-> Nothing]
    /\ typed = [o \in Operators |-> Absent]
    /\ copy = [o \in Operators |-> Nothing]
    /\ todo = [o \in Operators |-> {}]
    /\ hurt = [o \in Operators |-> FALSE]
    /\ blind = [o \in Operators |-> FALSE]
    /\ ended = [o \in Operators |-> "none"]
    /\ fresh = 1 /\ runs = 0 /\ faults = 0

-----------------------------------------------------------------------------
GoTo(o, label) == pc' = [pc EXCEPT ![o] = label]

Start(o, c) ==
    /\ c \in Commands
    /\ pc[o] = "idle"
    /\ Overlap \/ \A p \in Operators : pc[p] = "idle"
    /\ runs < MaxRuns /\ runs' = runs + 1
    /\ cmd' = [cmd EXCEPT ![o] = c]
    /\ ended' = [p \in Operators |-> "none"]

\* A mutant: a command that is over keeps what it looked at.
EndUnlabelled(o, well) ==
    /\ GoTo(o, "over")
    /\ ended' = [ended EXCEPT ![o] = IF well THEN cmd[o] ELSE "none"]
    /\ UNCHANGED <<cmd, target, seen, pick, typed, copy, todo, hurt, blind>>

\* The command is over; what it looked at is forgotten.
End(o, well) ==
    /\ GoTo(o, "idle")
    /\ ended' = [ended EXCEPT ![o] = IF well THEN cmd[o] ELSE "none"]
    /\ cmd' = [cmd EXCEPT ![o] = "none"]
    /\ target' = [target EXCEPT ![o] = "env"]
    /\ seen' = [seen EXCEPT ![o] = Nothing]
    /\ pick' = [pick EXCEPT ![o] = Nothing]
    /\ typed' = [typed EXCEPT ![o] = Absent]
    /\ copy' = [copy EXCEPT ![o] = Nothing]
    /\ todo' = [todo EXCEPT ![o] = {}]
    /\ hurt' = [hurt EXCEPT ![o] = FALSE]
    /\ blind' = [blind EXCEPT ![o] = FALSE]

Fault == faults < MaxFaults /\ faults' = faults + 1

\* A command goes by what it got; it is less than what is there when a
\* decryption has failed.
Gets(o, got, there) ==
    IF got = there THEN UNCHANGED <<blind, faults>>
    ELSE Fault /\ blind' = [blind EXCEPT ![o] = TRUE]

\* What a command does once it knows what to set in a file.
Rewrite(o, f, values) ==
    /\ pick' = [pick EXCEPT ![o] = values]
    /\ target' = [target EXCEPT ![o] = f]
    /\ GoTo(o, "decrypt")

-----------------------------------------------------------------------------
\* The commands, up to their first write

\* credentials generate: the existing values are those of the environment's
\* file, none when it could not be read; immutable ones are kept, all others
\* new.  That the file could not be read then keeps nothing from writing it.
\* The person types a password, the one in use or another.
Kept(values) == {k \in Immutable : values[k] # Absent}

\* Two mutants: all values are new; a digest that exists is kept.
SeedAnew(values, password, new) ==
    [k \in Keys |->
        IF k \notin Seeded \/ KindOf[k] = "hub" THEN Absent
        ELSE IF KindOf[k] = "password" THEN password
        ELSE new]

SeedKeepingDigests(values, password, new) ==
    [k \in Keys |->
        IF k \notin Seeded \/ KindOf[k] = "hub" THEN Absent
        ELSE IF k \in Kept(values) \/ (KindOf[k] = "digest" /\ values[k] # Absent) THEN values[k]
        ELSE IF KindOf[k] = "password" THEN password
        ELSE new]

SeedValues(values, password, new) ==
    [k \in Keys |->
        IF k \notin Seeded \/ KindOf[k] = "hub" THEN Absent
        ELSE IF k \in Kept(values) THEN values[k]
        ELSE IF KindOf[k] = "password" THEN password
        ELSE new]

HubValues(password) == [k \in Keys |-> IF k \in Seeded /\ KindOf[k] = "hub" THEN password ELSE Absent]

Generate(o) ==
    /\ Start(o, "generate")
    /\ fresh' = fresh + 1
    /\ \E read \in {Decrypted("env"), Nothing}, password \in {fresh', data["env"][Password]} \ {Absent} :
          /\ Gets(o, read, Decrypted("env"))
          /\ seen' = [seen EXCEPT ![o] = read]
          /\ typed' = [typed EXCEPT ![o] = password]
          /\ Rewrite(o, "env", SeedValues(read, password, fresh'))
    /\ UNCHANGED <<files, kuma, copy, todo, hurt>>

\* secrets init: without flags, the generable secrets that an audit of the two
\* files finds missing, of which it may fail to read either; with --force all
\* of them; with --rotate the named one.  Never an immutable one.
Present(values) == {k \in Keys : ~Gap(values[k])}

InitTargets == {k \in Keys : Generable(k)} \ Immutable

InitSecrets(o, chosen) ==
    /\ Start(o, "init")
    /\ \E read \in {Merged, Decrypted("common"), Decrypted("env"), Nothing} :
          /\ Gets(o, read, Merged)
          /\ chosen = InitTargets \ Present(read)
    /\ chosen # {}
    /\ fresh' = fresh + 1
    /\ Rewrite(o, "env", [k \in Keys |-> IF k \in chosen THEN fresh' ELSE Absent])
    /\ UNCHANGED <<files, kuma, seen, typed, copy, todo, hurt>>

ForceSecrets(o, chosen) ==
    /\ Start(o, "force")
    /\ chosen # {} /\ chosen \subseteq InitTargets
    /\ chosen = InitTargets \/ \A j, k \in chosen : j = k
    /\ fresh' = fresh + 1
    /\ Rewrite(o, "env", [k \in Keys |-> IF k \in chosen THEN fresh' ELSE Absent])
    /\ UNCHANGED <<files, kuma, seen, typed, copy, todo, hurt, blind, faults>>

\* secrets hash: reads the environment's file alone.  A client secret that is
\* not in it is generated first, and then the digests are taken.  It reads the
\* file again after each that it has generated; when that fails, the next ones
\* seem to lack as well.
HashSources(values) == {SourceOf[d] : d \in {e \in Keys : KindOf[e] = "digest"}}

Lacking(values) == {k \in HashSources(values) : KindOf[k] = "client" /\ values[k] = Absent}

Digests(values, skipped) ==
    [d \in Keys |-> IF KindOf[d] = "digest" /\ SourceOf[d] \notin skipped THEN values[SourceOf[d]] ELSE Absent]

Hash(o) ==
    /\ Start(o, "hash")
    /\ form["env"] = "sealed"
    /\ seen' = [seen EXCEPT ![o] = data["env"]]
    /\ \/ \E anew \in SUBSET Lacking(Nothing) :
             /\ Lacking(data["env"]) # {} /\ Lacking(data["env"]) \subseteq anew
             /\ Gets(o, anew, Lacking(data["env"]))
             /\ fresh' = fresh + 1
             /\ todo' = [todo EXCEPT ![o] = anew]
             /\ Rewrite(o, "env", [k \in Keys |-> IF k \in anew THEN fresh' ELSE Absent])
       \/ /\ Lacking(data["env"]) = {}
          /\ Digests(data["env"], {}) # Nothing
          /\ Rewrite(o, "env", Digests(data["env"], {}))
          /\ UNCHANGED <<todo, blind, fresh, faults>>
    /\ UNCHANGED <<files, kuma, typed, copy, hurt>>

\* The sources are in the file, or, those left in todo, could not be written.
HashGoesOn(o) ==
    LET values  == IF todo[o] = {} THEN Decrypted("env") ELSE seen[o]
        digests == Digests(values, todo[o])
    IN  /\ pc[o] = "digest"
        /\ \/ /\ digests # Nothing
              /\ Rewrite(o, "env", digests)
              /\ todo' = [todo EXCEPT ![o] = {}]
              /\ UNCHANGED <<cmd, seen, typed, copy, hurt, blind, ended>>
           \/ digests = Nothing /\ End(o, FALSE)
        /\ UNCHANGED <<files, kuma, fresh, runs, faults>>

\* The extraction of the shared secrets of the environment's file.  The common
\* file that could not be read is taken for empty.
Extract(o) ==
    /\ Start(o, "extract")
    /\ \E k \in Shared : Decrypted("env")[k] # Absent
    /\ seen' = [seen EXCEPT ![o] = data["env"]]
    /\ GoTo(o, "share")
    /\ UNCHANGED <<files, kuma, target, pick, typed, copy, todo, hurt, blind, fresh, faults>>

Share(o) ==
    /\ pc[o] = "share"
    /\ \E read \in {Decrypted("common"), Nothing} :
          /\ Gets(o, read, Decrypted("common"))
          /\ copy' = [copy EXCEPT ![o] =
                [k \in Keys |-> IF k \in Shared /\ seen[o][k] # Absent THEN seen[o][k] ELSE read[k]]]
    /\ target' = [target EXCEPT ![o] = "common"]
    /\ GoTo(o, "write")
    /\ UNCHANGED <<files, kuma, cmd, seen, pick, typed, todo, hurt, ended, fresh, runs>>

-----------------------------------------------------------------------------
\* The rewrite of a file

Decrypt(o) ==
    /\ pc[o] = "decrypt"
    /\ form[target[o]] = "sealed"
    /\ copy' = [copy EXCEPT ![o] = Over(pick[o], data[target[o]])]
    /\ GoTo(o, "write")
    /\ UNCHANGED <<files, kuma, cmd, target, seen, pick, typed, todo, hurt, blind, ended, fresh, runs, faults>>

Write(o) ==
    /\ pc[o] = "write"
    /\ form' = [form EXCEPT ![target[o]] = "plain"]
    /\ data' = [data EXCEPT ![target[o]] = copy[o]]
    /\ GoTo(o, "seal")
    /\ UNCHANGED <<kuma, cmd, target, seen, pick, typed, copy, todo, hurt, blind, ended, fresh, runs, faults>>

\* Where a command goes from a rewrite that succeeded.  `generate` goes on to
\* the common file and to Uptime Kuma whatever became of the rewrite before.
Onward(o) ==
    \/ /\ cmd[o] = "generate" /\ target[o] = "env"
       /\ Rewrite(o, "common", HubValues(typed[o]))
       /\ UNCHANGED <<cmd, seen, typed, copy, todo, blind, ended>>
    \/ /\ cmd[o] = "generate" /\ target[o] = "common"
       /\ GoTo(o, "kuma")
       /\ UNCHANGED <<cmd, target, seen, pick, typed, copy, todo, blind, ended>>

\* `extract` may be asked to remove from the environment's file what it shared.
Sealed(o) ==
    \/ Onward(o) /\ UNCHANGED hurt
    \/ /\ cmd[o] = "hash" /\ todo[o] # {}
       /\ todo' = [todo EXCEPT ![o] = {}]
       /\ GoTo(o, "digest")
       /\ UNCHANGED <<cmd, target, seen, pick, typed, copy, hurt, blind, ended>>
    \/ /\ cmd[o] = "extract" /\ target[o] = "common"
       /\ \E k \in Keys \ Shared : seen[o][k] # Absent
       /\ copy' = [copy EXCEPT ![o] = [k \in Keys |-> IF k \in Shared THEN Absent ELSE seen[o][k]]]
       /\ target' = [target EXCEPT ![o] = "env"]
       /\ GoTo(o, "write")
       /\ UNCHANGED <<cmd, seen, pick, typed, todo, hurt, blind, ended>>
    \/ /\ cmd[o] \in {"init", "force", "extract"} \/ (cmd[o] = "hash" /\ todo[o] = {})
       /\ End(o, ~hurt[o])

\* `hash` keeps in todo the sources it could not write.
NotWritten(o) ==
    \/ Onward(o) /\ hurt' = [hurt EXCEPT ![o] = TRUE]
    \/ /\ cmd[o] = "hash" /\ todo[o] # {}
       /\ hurt' = [hurt EXCEPT ![o] = TRUE]
       /\ GoTo(o, "digest")
       /\ UNCHANGED <<cmd, target, seen, pick, typed, copy, todo, blind, ended>>
    \/ /\ cmd[o] \in {"init", "force", "extract"} \/ (cmd[o] = "hash" /\ todo[o] = {})
       /\ End(o, FALSE)

CannotDecrypt(o) ==
    /\ pc[o] = "decrypt"
    /\ \/ form[target[o]] = "plain" /\ UNCHANGED faults
       \/ Fault
    /\ NotWritten(o)
    /\ UNCHANGED <<files, kuma, fresh, runs>>

Seal(o) ==
    /\ pc[o] = "seal"
    /\ form[target[o]] = "plain"
    /\ form' = [form EXCEPT ![target[o]] = "sealed"]
    /\ Sealed(o)
    /\ UNCHANGED <<data, kuma, fresh, runs, faults>>

\* sops refuses a file that another command has encrypted meanwhile, or it fails.
CannotSeal(o) ==
    /\ pc[o] = "seal"
    /\ \/ form[target[o]] = "sealed" /\ UNCHANGED faults
       \/ Fault
    /\ NotWritten(o)
    /\ UNCHANGED <<files, kuma, fresh, runs>>

\* Uptime Kuma keeps its own password: the command logs in with the one the
\* vault had, or the new one, and changes the first into the second.
Reconcile(o) ==
    LET login == IF seen[o][Password] # Absent THEN seen[o][Password] ELSE typed[o]
    IN  /\ pc[o] = "kuma"
        /\ kuma' = IF kuma = login THEN typed[o] ELSE kuma
        /\ End(o, kuma = login /\ ~hurt[o])
        /\ UNCHANGED <<files, fresh, runs, faults>>

ReconcileFails(o) ==
    /\ pc[o] = "kuma"
    /\ Fault
    /\ End(o, FALSE)
    /\ UNCHANGED <<files, kuma, fresh, runs>>

-----------------------------------------------------------------------------
\* The commands that edit in place

Assign(f, k, v) == data' = [data EXCEPT ![f][k] = v]

\* secrets rotate: one generable secret of the environment, then each digest of
\* it.  A digest that cannot be written is left out of the report.
Rotate(o, k) ==
    /\ Start(o, "rotate")
    /\ Generable(k) /\ k \notin Immutable
    /\ form["env"] = "sealed"
    /\ fresh' = fresh + 1
    /\ Assign("env", k, fresh')
    /\ pick' = [pick EXCEPT ![o] = [Nothing EXCEPT ![k] = fresh']]
    /\ todo' = [todo EXCEPT ![o] = DigestsOf(k)]
    /\ GoTo(o, "derive")
    /\ UNCHANGED <<form, kuma, target, seen, typed, copy, hurt, blind, faults>>

Derive(o, d) ==
    /\ pc[o] = "derive"
    /\ d \in todo[o]
    /\ form["env"] = "sealed"
    /\ Assign("env", d, pick[o][SourceOf[d]])
    /\ todo' = [todo EXCEPT ![o] = @ \ {d}]
    /\ UNCHANGED <<form, kuma, cmd, pc, target, seen, pick, typed, copy, hurt, blind, ended, fresh, runs, faults>>

CannotDerive(o, d) ==
    /\ pc[o] = "derive"
    /\ d \in todo[o]
    /\ \/ form["env"] = "plain" /\ UNCHANGED faults
       \/ Fault
    /\ todo' = [todo EXCEPT ![o] = @ \ {d}]
    /\ hurt' = [hurt EXCEPT ![o] = TRUE]
    /\ UNCHANGED <<files, kuma, cmd, pc, target, seen, pick, typed, copy, blind, ended, fresh, runs>>

Rotated(o) ==
    /\ pc[o] = "derive"
    /\ todo[o] = {}
    /\ End(o, TRUE)
    /\ UNCHANGED <<files, kuma, fresh, runs, faults>>

\* secrets set and unset, of any key of either file.
SetByHand(o, f, k) ==
    /\ Start(o, "set")
    /\ form[f] = "sealed"
    /\ \/ Assign(f, k, fresh + 1) /\ fresh' = fresh + 1
       \/ data[f][k] # Absent /\ Assign(f, k, Absent) /\ UNCHANGED fresh
    /\ GoTo(o, "told")
    /\ UNCHANGED <<form, kuma, target, seen, pick, typed, copy, todo, hurt, blind, faults>>

\* secrets edit: sops decrypts into an editor and encrypts what is saved.
EditOpens(o, f) ==
    /\ Start(o, "edit")
    /\ form[f] = "sealed"
    /\ copy' = [copy EXCEPT ![o] = data[f]]
    /\ target' = [target EXCEPT ![o] = f]
    /\ GoTo(o, "edit")
    /\ UNCHANGED <<files, kuma, seen, pick, typed, todo, hurt, blind, fresh, faults>>

EditSaves(o, k) ==
    /\ pc[o] = "edit"
    /\ data' = [data EXCEPT ![target[o]] = [copy[o] EXCEPT ![k] = fresh + 1]]
    /\ form' = [form EXCEPT ![target[o]] = "sealed"]
    /\ fresh' = fresh + 1
    /\ GoTo(o, "told")
    /\ UNCHANGED <<kuma, cmd, target, seen, pick, typed, copy, todo, hurt, blind, ended, runs, faults>>

Told(o) ==
    /\ pc[o] = "told"
    /\ End(o, TRUE)
    /\ UNCHANGED <<files, kuma, fresh, runs, faults>>

\* A command is interrupted.
Kill(o) ==
    /\ pc[o] # "idle"
    /\ Fault
    /\ End(o, FALSE)
    /\ UNCHANGED <<files, kuma, fresh, runs>>

-----------------------------------------------------------------------------
Begin(o) ==
    \/ Generate(o) \/ Hash(o) \/ Extract(o)
    \/ \E S \in SUBSET Keys : InitSecrets(o, S) \/ ForceSecrets(o, S)
    \/ \E k \in Keys : Rotate(o, k)
    \/ \E f \in Files : EditOpens(o, f) \/ \E k \in Keys : SetByHand(o, f, k)

GoOn(o) ==
    \/ HashGoesOn(o) \/ Share(o)
    \/ Decrypt(o) \/ CannotDecrypt(o) \/ Write(o) \/ Seal(o) \/ CannotSeal(o)
    \/ Reconcile(o) \/ ReconcileFails(o)
    \/ Rotated(o) \/ Told(o)
    \/ \E k \in Keys : Derive(o, k) \/ CannotDerive(o, k) \/ EditSaves(o, k)

Next == \E o \in Operators : Begin(o) \/ GoOn(o) \/ Kill(o)

Spec == Init /\ [][Next]_vars

-----------------------------------------------------------------------------
TypeOK ==
    /\ form \in [Files -> {"sealed", "plain"}]
    /\ data \in [Files -> [Keys -> Int]]
    /\ kuma \in Int
    /\ cmd \in [Operators -> {"none"} \cup Commands]
    /\ pc \in [Operators ->
          {"idle", "decrypt", "write", "seal", "digest", "share", "derive", "edit", "told", "kuma"}]
    /\ target \in [Operators -> Files]
    /\ seen \in [Operators -> [Keys -> Int]]
    /\ pick \in [Operators -> [Keys -> Int]]
    /\ typed \in [Operators -> Int]
    /\ copy \in [Operators -> [Keys -> Int]]
    /\ todo \in [Operators -> SUBSET Keys]
    /\ hurt \in [Operators -> BOOLEAN]
    /\ blind \in [Operators -> BOOLEAN]
    /\ ended \in [Operators -> {"none"} \cup Commands]
    /\ fresh \in Nat /\ runs \in Nat /\ faults \in Nat

\* An immutable value of the environment is changed by hand or not at all, by
\* whatever commands are run and wherever they fail or are interrupted (the set
\* IMMUTABLE_SECRETS: overwriting one destroys the state it encrypts), unless by
\* a `generate` that took the file for empty because it could not read it: that one
\* regenerates what "MUST NOT be regenerated if they already exist".
ByHand == \E o \in Operators : cmd'[o] \in {"set", "edit"}

Blindly == \E o \in Operators : cmd[o] = "generate" /\ blind[o]

Replaced(k) == data["env"][k] # Absent /\ data'["env"][k] # data["env"][k]

ImmutableKept == [][\A k \in Immutable : Replaced(k) => ByHand \/ Blindly]_vars

\* After `generate` or `hash` has ended well, each digest in force is that of
\* the client secret in force: a service that checks one accepts the other.
PairHolds(d) == InForce[SourceOf[d]] = InForce[d]

DigestsFollow ==
    \A o \in Operators, d \in Keys :
        KindOf[d] = "digest" /\ InForce[SourceOf[d]] # Absent =>
            /\ ended[o] = "generate" /\ d \in Seeded => PairHolds(d)
            /\ ended[o] = "hash" => PairHolds(d)

\* What the vault promises of the values in force, as long as no interrupted
\* rewrite has left a file in clear text.  An `init` that could not read a file
\* renews; of `generate` and the extraction nothing is promised then.
Job ==
    LET busy == {o \in Operators : cmd[o] # "none"}
    IN  IF busy = {} THEN "none"
        ELSE LET o == CHOOSE p \in busy : TRUE
             IN  CASE cmd[o] = "init" /\ ~blind[o] -> "fill"
                   [] cmd[o] = "init" /\ blind[o] -> "renew"
                   [] cmd[o] \in {"generate", "force", "hash", "rotate"} -> "renew"
                   [] cmd[o] = "extract" -> "move"
                   [] OTHER -> "hand"

LeftInClear == \E f \in Files : form[f] = "plain" /\ ~\E o \in Operators : pc[o] = "seal" /\ target[o] = f

Misled == \E o \in Operators : cmd[o] \in {"generate", "extract"} /\ blind[o]

Promise == INSTANCE SecretsPromise WITH
    value  <- [k \in Keys |-> IF k \in Immutable THEN data["env"][k] ELSE InForce[k]],
    job    <- Job,
    broken <- LeftInClear \/ Misled

PromiseKept == Promise!Spec
=============================================================================
