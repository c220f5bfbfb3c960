----------------------------- MODULE GiteaTokens -----------------------------
(****************************************************************************)
(* The two machine tokens of the forge: `gitea rotate-token --apply`, which *)
(* revokes one and clears its key in the vault, and the provisioning play,  *)
(* whose mint tasks are gated on that key being absent.  A command may be   *)
(* killed between any two steps, an answer may be lost, and the admin       *)
(* password the forge accepts may drift from the recorded one.              *)
(*                                                                          *)
(* The tokens of an account are numbered in the order they are minted, and  *)
(* 0 stands for an absent key; passwords are numbered alike.  The vault is  *)
(* one SOPS file: sops reads all of it, then writes all of it.              *)
(****************************************************************************)
EXTENDS Integers

CONSTANTS Rotators,      \* operators rotating a token
          Plays,         \* operators provisioning the node
          Overlap,       \* whether one command may start while another runs
          MaxRotations,  \* bounds: rotations wanted,
          MaxFaults,     \* calls that fail and commands that are killed,
          MaxChanges     \* and changes of the admin password

ASSUME ProcessAssumption == Rotators \cap Plays = {}
ASSUME OverlapAssumption == Overlap \in BOOLEAN

VARIABLES live,          \* the tokens the forge honours, by credential
          lost,          \* the tokens no command knows the value of any more
          minted,        \* how many tokens were minted
          forgePassword, \* the admin password the forge accepts
          vault,         \* the keys recorded in SOPS
          pc, cred,      \* where each command is, and with which credential
          saw,           \* the vault as the command read it when it started
          copy,          \* the vault as its sops read it
          held,          \* the token a play has minted and not yet recorded
          unfinished,    \* the credentials whose last rotation ended in an error
          rotations, faults, changes

forgeVars   == <<live, lost, minted, forgePassword>>
processVars == <<pc, cred, saw, copy, held>>
budgets     == <<rotations, faults, changes>>
vars == <<forgeVars, vault, processVars, unfinished, budgets>>

Creds == {"bot", "admin"}
Keys  == Creds \cup {"password"}
Procs == Rotators \cup Plays

AtMostOne(S) == \A s, t \in S : s = t

Init ==
    /\ live = [c \in Creds |-> {}]
    /\ lost = {}
    /\ minted = 0
    /\ forgePassword = 0
    /\ vault = [k \in Keys |-> 0]
    /\ pc = [p \in Procs |-> "idle"]
    /\ cred = [p \in Procs |-> "bot"]
    /\ saw = [p \in Procs |-> vault]
    /\ copy = [p \in Procs |-> vault]
    /\ held = [p \in Procs |-> 0]
    /\ unfinished = {}
    /\ rotations = 0 /\ faults = 0 /\ changes = 0

MayStart(p) ==
    /\ pc[p] = "idle"
    /\ Overlap \/ \A q \in Procs : pc[q] = "idle"

GoTo(p, label) == pc' = [pc EXCEPT ![p] = label]

Fault == faults < MaxFaults /\ faults' = faults + 1

-----------------------------------------------------------------------------
\* gitea rotate-token

\* The command reads the configuration once: whether the key is recorded, and
\* the admin password.  An error that ends it before it has done anything (an
\* unknown token, no password) is the same as not starting.  An operator whose
\* rotation ended in an error runs it again.
PlanRotation(r, c) ==
    /\ MayStart(r)
    /\ \/ c \in unfinished /\ UNCHANGED rotations
       \/ rotations < MaxRotations /\ rotations' = rotations + 1
    /\ saw' = [saw EXCEPT ![r] = vault]
    /\ cred' = [cred EXCEPT ![r] = c]
    /\ GoTo(r, "revoke")
    /\ UNCHANGED <<forgeVars, vault, copy, held, unfinished, faults, changes>>

\* The command is over, with exit code 0 or not.
EndRotation(r, well) ==
    /\ GoTo(r, "idle")
    /\ unfinished' = IF well THEN unfinished \ {cred[r]} ELSE unfinished \cup {cred[r]}

\* Gitea finds a token by its name: one that is absent is a 404, which
\* revoke_token takes for success, and two of that name are a 422.
MayRevoke(r) ==
    /\ forgePassword = saw[r]["password"]
    /\ AtMostOne(live[cred[r]])

RevokeToken(r) == live' = [live EXCEPT ![cred[r]] = {}]

\* A mutant: a token that is already absent ends the rotation.
RevokeOnce(r) ==
    /\ pc[r] = "revoke"
    /\ MayRevoke(r)
    /\ RevokeToken(r)
    /\ \/ saw[r][cred[r]] # 0 /\ live[cred[r]] # {} /\ GoTo(r, "clear") /\ UNCHANGED unfinished
       \/ (saw[r][cred[r]] = 0 \/ live[cred[r]] = {}) /\ EndRotation(r, TRUE)
    /\ UNCHANGED <<lost, minted, forgePassword, vault, cred, saw, copy, held, budgets>>

Revoke(r) ==
    /\ pc[r] = "revoke"
    /\ MayRevoke(r)
    /\ RevokeToken(r)
    /\ \/ saw[r][cred[r]] # 0 /\ GoTo(r, "clear") /\ UNCHANGED unfinished
       \/ saw[r][cred[r]] = 0 /\ EndRotation(r, TRUE)
    /\ UNCHANGED <<lost, minted, forgePassword, vault, cred, saw, copy, held, budgets>>

\* A mutant: a revoke that the forge refused is logged, and the key cleared.
RevokeRefusedButClear(r) ==
    /\ pc[r] = "revoke"
    /\ ~MayRevoke(r)
    /\ GoTo(r, "clear")
    /\ UNCHANGED <<forgeVars, vault, cred, saw, copy, held, unfinished, budgets>>

RevokeRefused(r) ==
    /\ pc[r] = "revoke"
    /\ ~MayRevoke(r)
    /\ EndRotation(r, FALSE)
    /\ UNCHANGED <<forgeVars, vault, cred, saw, copy, held, budgets>>

\* The call fails, before the forge has acted or after.
RevokeFails(r) ==
    /\ pc[r] = "revoke"
    /\ Fault
    /\ UNCHANGED live \/ (MayRevoke(r) /\ RevokeToken(r))
    /\ EndRotation(r, FALSE)
    /\ UNCHANGED <<lost, minted, forgePassword, vault, cred, saw, copy, held, rotations, changes>>

\* sops begins to rewrite the vault.
ReadVault(p) == copy' = [copy EXCEPT ![p] = vault]

WriteVault(p, token) == vault' = [copy[p] EXCEPT ![cred[p]] = token]

Clear(r) ==
    /\ pc[r] = "clear"
    /\ ReadVault(r)
    /\ GoTo(r, "unset")
    /\ UNCHANGED <<forgeVars, vault, cred, saw, held, unfinished, budgets>>

Cleared(r) ==
    /\ pc[r] = "unset"
    /\ WriteVault(r, 0)
    /\ EndRotation(r, TRUE)
    /\ UNCHANGED <<forgeVars, cred, saw, copy, held, budgets>>

\* A mutant: the result of unset_secret is ignored.
ClearFailsQuietly(r) ==
    /\ pc[r] \in {"clear", "unset"}
    /\ Fault
    /\ EndRotation(r, TRUE)
    /\ UNCHANGED <<forgeVars, vault, cred, saw, copy, held, rotations, changes>>

\* unset_secret returns False: REVOKED BUT NOT CLEARED.
ClearFails(r) ==
    /\ pc[r] \in {"clear", "unset"}
    /\ Fault
    /\ EndRotation(r, FALSE)
    /\ UNCHANGED <<forgeVars, vault, cred, saw, copy, held, rotations, changes>>

\* The operator's shell dies, or is interrupted.
KillRotation(r) ==
    /\ pc[r] # "idle"
    /\ Fault
    /\ EndRotation(r, FALSE)
    /\ UNCHANGED <<forgeVars, vault, cred, saw, copy, held, rotations, changes>>

-----------------------------------------------------------------------------
\* make provision NODE=bee: mint and record the bot's token, probe and reassert
\* the admin password, mint and record the superadmin's token

StartPlay(p) ==
    /\ MayStart(p)
    /\ saw' = [saw EXCEPT ![p] = vault]
    /\ cred' = [cred EXCEPT ![p] = "bot"]
    /\ GoTo(p, "mint")
    /\ UNCHANGED <<forgeVars, vault, copy, held, unfinished, budgets>>

\* The task that follows the minting of a token.
NextTask(p) == GoTo(p, IF cred[p] = "bot" THEN "probe" ELSE "idle")

GateOpen(p) == saw[p][cred[p]] = 0

SkipMint(p) ==
    /\ pc[p] = "mint"
    /\ ~GateOpen(p)
    /\ NextTask(p)
    /\ UNCHANGED <<forgeVars, vault, cred, saw, copy, held, unfinished, budgets>>

\* generate-access-token always succeeds and always makes another token.
MintToken(p) ==
    /\ minted' = minted + 1
    /\ live' = [live EXCEPT ![cred[p]] = @ \cup {minted'}]

\* A mutant: the mint task does not register the token it printed.
MintUnheld(p) ==
    /\ pc[p] = "mint"
    /\ GateOpen(p)
    /\ MintToken(p)
    /\ GoTo(p, "record")
    /\ UNCHANGED <<lost, forgePassword, vault, cred, saw, copy, held, unfinished, budgets>>

Mint(p) ==
    /\ pc[p] = "mint"
    /\ GateOpen(p)
    /\ MintToken(p)
    /\ held' = [held EXCEPT ![p] = minted']
    /\ GoTo(p, "record")
    /\ UNCHANGED <<lost, forgePassword, vault, cred, saw, copy, unfinished, budgets>>

\* The task reports a failure, which does not mean that nothing was minted.
MintFails(p) ==
    /\ pc[p] = "mint"
    /\ GateOpen(p)
    /\ Fault
    /\ \/ UNCHANGED <<live, minted, lost>>
       \/ MintToken(p) /\ lost' = lost \cup {minted'}
    /\ GoTo(p, "idle")
    /\ UNCHANGED <<forgePassword, vault, cred, saw, copy, held, unfinished, rotations, changes>>

Record(p) ==
    /\ pc[p] = "record"
    /\ ReadVault(p)
    /\ GoTo(p, "set")
    /\ UNCHANGED <<forgeVars, vault, cred, saw, held, unfinished, budgets>>

Recorded(p) ==
    /\ pc[p] = "set"
    /\ WriteVault(p, held[p])
    /\ NextTask(p)
    /\ UNCHANGED <<forgeVars, cred, saw, copy, held, unfinished, budgets>>

\* The play stops with a token it has not recorded.
RecordFails(p) ==
    /\ pc[p] \in {"record", "set"}
    /\ Fault
    /\ lost' = lost \cup {held[p]}
    /\ GoTo(p, "idle")
    /\ UNCHANGED <<live, minted, forgePassword, vault, cred, saw, copy, held, unfinished,
                   rotations, changes>>

\* A probe that could not be made counts as a password that is refused.
Probe(p) ==
    /\ pc[p] = "probe"
    /\ \/ /\ forgePassword = saw[p]["password"]
          /\ cred' = [cred EXCEPT ![p] = "admin"]
          /\ GoTo(p, "mint")
          /\ UNCHANGED faults
       \/ /\ forgePassword # saw[p]["password"]
          /\ GoTo(p, "reassert")
          /\ UNCHANGED <<cred, faults>>
       \/ /\ Fault
          /\ GoTo(p, "reassert")
          /\ UNCHANGED cred
    /\ UNCHANGED <<forgeVars, vault, saw, copy, held, unfinished, rotations, changes>>

Reassert(p) ==
    /\ pc[p] = "reassert"
    /\ forgePassword' = saw[p]["password"]
    /\ cred' = [cred EXCEPT ![p] = "admin"]
    /\ GoTo(p, "mint")
    /\ UNCHANGED <<live, lost, minted, vault, saw, copy, held, unfinished, budgets>>

\* A task fails, or the play is interrupted, with no token in hand.
StopPlay(p) ==
    /\ pc[p] \in {"mint", "probe", "reassert"}
    /\ Fault
    /\ GoTo(p, "idle")
    /\ UNCHANGED <<forgeVars, vault, cred, saw, copy, held, unfinished, rotations, changes>>

-----------------------------------------------------------------------------
\* The admin password is changed: in the vault, with `secrets set`, or at the
\* forge.
ChangePassword ==
    /\ changes < MaxChanges
    /\ changes' = changes + 1
    /\ Overlap \/ \A q \in Procs : pc[q] = "idle"
    /\ \/ vault' = [vault EXCEPT !["password"] = changes'] /\ UNCHANGED forgePassword
       \/ forgePassword' = changes' /\ UNCHANGED vault
    /\ UNCHANGED <<live, lost, minted, processVars, unfinished, rotations, faults>>

Rotation(r) ==
    \/ Revoke(r) \/ RevokeRefused(r) \/ RevokeFails(r)
    \/ Clear(r) \/ Cleared(r) \/ ClearFails(r) \/ KillRotation(r)

Play(p) ==
    \/ SkipMint(p) \/ Mint(p) \/ MintFails(p)
    \/ Record(p) \/ Recorded(p) \/ RecordFails(p)
    \/ Probe(p) \/ Reassert(p) \/ StopPlay(p)

Next ==
    \/ \E r \in Rotators : Rotation(r) \/ \E c \in Creds : PlanRotation(r, c)
    \/ \E p \in Plays : StartPlay(p) \/ Play(p)
    \/ ChangePassword

Spec == Init /\ [][Next]_vars

\* A command that runs goes on; a rotation that ended in an error is run again,
\* as its message says; and the node is provisioned again and again, which is
\* how it is kept up to date.  Where commands exclude each other each of them
\* gets its turn.
FairSpec ==
    /\ Spec
    /\ \A r \in Rotators : WF_vars(Rotation(r))
    /\ \A p \in Plays : WF_vars(Play(p)) /\ SF_vars(StartPlay(p))
    /\ \A r \in Rotators, c \in Creds : SF_vars(c \in unfinished /\ PlanRotation(r, c))

-----------------------------------------------------------------------------
\* What must hold

Vaults == [Keys -> Nat]

RotatorLabels == {"idle", "revoke", "clear", "unset"}
PlayLabels == {"idle", "mint", "record", "set", "probe", "reassert"}

Minting(p) == p \in Plays /\ pc[p] \in {"record", "set"}
Clearing(r) == r \in Rotators /\ pc[r] \in {"clear", "unset"}

\* Every variable has its type; a play that is about to record has a token.
TypeOK ==
    /\ live \in [Creds -> SUBSET (1..minted)]
    /\ lost \subseteq 1..minted
    /\ minted \in Nat
    /\ forgePassword \in Nat
    /\ vault \in Vaults
    /\ pc \in [Procs -> RotatorLabels \cup PlayLabels]
    /\ \A r \in Rotators : pc[r] \in RotatorLabels
    /\ \A p \in Plays : pc[p] \in PlayLabels
    /\ cred \in [Procs -> Creds]
    /\ saw \in [Procs -> Vaults]
    /\ copy \in [Procs -> Vaults]
    /\ held \in [Procs -> 0..minted]
    /\ \A p \in Procs : Minting(p) => held[p] # 0
    /\ unfinished \subseteq Creds
    /\ rotations \in Nat /\ faults \in Nat /\ changes \in Nat

\* No account is given a second token while the first is honoured, other than
\* one whose value was lost between the mint task and the record task: the
\* reason revoke comes before unset in gitea_rotate_token.
NoSecondCredential == \A c \in Creds : AtMostOne(live[c] \ lost)

\* A recorded token that the forge no longer honours keeps the mint gate shut.
\* It is never silent: a rotation is at work on it, or has ended in an error
\* (REVOKED BUT NOT CLEARED) that no later rotation has made good.
DeadTokenIsAnnounced ==
    \A c \in Creds : \/ vault[c] \in live[c] \cup {0}
                     \/ c \in unfinished
                     \/ \E r \in Rotators : Clearing(r) /\ cred[r] = c

\* A rotation that ends well has done both halves: the account holds no token
\* and the key is absent, so that the next play mints one.
EndsWell(r) == pc[r] # "idle" /\ pc'[r] = "idle" /\ cred[r] \notin unfinished'

BothHalves ==
    [][\A r \in Rotators :
          EndsWell(r) => live'[cred[r]] = {} /\ vault'[cred[r]] = 0]_vars

\* Once rotations and failures cease, provisioning leaves every recorded token
\* honoured: no state that a failed rotation or play leaves behind is final.
TokensReturn == <>[](\A c \in Creds : vault[c] \in live[c])
=============================================================================
