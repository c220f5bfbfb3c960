------------------------- MODULE GiteaTokensProofs -------------------------
(****************************************************************************)
(* What holds of GiteaTokens for any operators, and any number of           *)
(* rotations, failures and changes of password.                             *)
(****************************************************************************)
EXTENDS GiteaTokens, TLAPS

\* Every variable keeps its type.
THEOREM TypeCorrect == Spec => []TypeOK
<1>1. Init => TypeOK
  BY DEF Init, TypeOK, Minting, Procs, Creds, Keys, Vaults, RotatorLabels, PlayLabels
<1>2. TypeOK /\ [Next]_vars => TypeOK'
  <2> SUFFICES ASSUME TypeOK, [Next]_vars PROVE TypeOK'
    OBVIOUS
  <2> USE ProcessAssumption DEF TypeOK, forgeVars, processVars, budgets, GoTo, Minting, Procs, Creds,
                                Keys, Vaults, RotatorLabels, PlayLabels
  <2>1. ASSUME NEW r \in Rotators, NEW c \in Creds, PlanRotation(r, c) PROVE TypeOK'
    BY <2>1 DEF PlanRotation, MayStart
  <2>2. ASSUME NEW r \in Rotators, Revoke(r) PROVE TypeOK'
    BY <2>2 DEF Revoke, MayRevoke, RevokeToken, EndRotation
  <2>3. ASSUME NEW r \in Rotators, RevokeRefused(r) PROVE TypeOK'
    BY <2>3 DEF RevokeRefused, EndRotation
  <2>4. ASSUME NEW r \in Rotators, RevokeFails(r) PROVE TypeOK'
    <3>1. faults' \in Nat
      BY <2>4 DEF RevokeFails, Fault
    <3> QED
      BY <3>1, <2>4 DEF RevokeFails, MayRevoke, RevokeToken, EndRotation
  <2>5. ASSUME NEW r \in Rotators, Clear(r) PROVE TypeOK'
    BY <2>5 DEF Clear, ReadVault
  <2>6. ASSUME NEW r \in Rotators, Cleared(r) PROVE TypeOK'
    BY <2>6 DEF Cleared, WriteVault, EndRotation
  <2>7. ASSUME NEW r \in Rotators, ClearFails(r) PROVE TypeOK'
    <3>1. faults' \in Nat
      BY <2>7 DEF ClearFails, Fault
    <3> QED
      BY <3>1, <2>7 DEF ClearFails, EndRotation
  <2>8. ASSUME NEW r \in Rotators, KillRotation(r) PROVE TypeOK'
    <3>1. faults' \in Nat
      BY <2>8 DEF KillRotation, Fault
    <3> QED
      BY <3>1, <2>8 DEF KillRotation, EndRotation
  <2>9. ASSUME NEW p \in Plays, StartPlay(p) PROVE TypeOK'
    BY <2>9 DEF StartPlay, MayStart
  <2>10. ASSUME NEW p \in Plays, SkipMint(p) PROVE TypeOK'
    BY <2>10 DEF SkipMint, GateOpen, NextTask
  <2>11. ASSUME NEW p \in Plays, Mint(p) PROVE TypeOK'
    BY <2>11 DEF Mint, GateOpen, MintToken
  <2>12. ASSUME NEW p \in Plays, MintFails(p) PROVE TypeOK'
    <3>1. faults' \in Nat
      BY <2>12 DEF MintFails, Fault
    <3>2. /\ minted' \in Nat /\ minted <= minted'
          /\ lost' = lost \/ lost' = lost \cup {minted'}
          /\ live' = live \/ live' = [live EXCEPT ![cred[p]] = @ \cup {minted'}]
          /\ minted' = minted + 1 \/ (live' = live /\ lost' = lost /\ minted' = minted)
      BY <2>12 DEF MintFails, MintToken
    <3>3. 1..minted \subseteq 1..minted' /\ 0..minted \subseteq 0..minted'
      BY <3>2
    <3>4. live' \in [Creds -> SUBSET (1..minted')]
      BY <3>2, <3>3
    <3>5. lost' \subseteq 1..minted'
      <4>1. CASE lost' = lost
        BY <4>1, <3>3
      <4>2. CASE lost' # lost
        <5>1. lost' = lost \cup {minted'} /\ minted' = minted + 1
          BY <4>2, <3>2
        <5>2. minted' \in 1..minted'
          BY <5>1
        <5> QED
          BY <5>1, <5>2, <3>3
      <4> QED
        BY <4>1, <4>2
    <3>6. /\ pc' = [pc EXCEPT ![p] = "idle"]
          /\ UNCHANGED <<forgePassword, vault, cred, saw, copy, held, unfinished, rotations, changes>>
      BY <2>12 DEF MintFails
    <3>7. /\ pc' \in [Procs -> RotatorLabels \cup PlayLabels]
          /\ \A r \in Rotators : pc'[r] \in RotatorLabels
          /\ \A q \in Plays : pc'[q] \in PlayLabels
      BY <3>6
    <3>8. \A q \in Procs : Minting(q)' => held'[q] # 0
      BY <3>6
    <3>9. held' \in [Procs -> 0..minted']
      BY <3>1, <3>2, <3>3, <3>4, <3>5, <3>6
    <3> QED
      BY <3>1, <3>2, <3>3, <3>4, <3>5, <3>6, <3>7, <3>8, <3>9
  <2>13. ASSUME NEW p \in Plays, Record(p) PROVE TypeOK'
    BY <2>13 DEF Record, ReadVault
  <2>14. ASSUME NEW p \in Plays, Recorded(p) PROVE TypeOK'
    BY <2>14 DEF Recorded, WriteVault, NextTask
  <2>15. ASSUME NEW p \in Plays, RecordFails(p) PROVE TypeOK'
    <3>1. faults' \in Nat
      BY <2>15 DEF RecordFails, Fault
    <3>2. pc[p] \in {"record", "set"} /\ lost' = lost \cup {held[p]} /\ minted' = minted
      BY <2>15 DEF RecordFails
    <3>3. lost' \subseteq 1..minted'
      <4>1. held[p] \in 0..minted /\ held[p] # 0
        BY <3>2
      <4>2. held[p] \in 1..minted
        BY <4>1
      <4> QED
        BY <3>2, <4>2
    <3>4. /\ pc' = [pc EXCEPT ![p] = "idle"]
          /\ UNCHANGED <<live, forgePassword, vault, cred, saw, copy, held, unfinished, rotations, changes>>
      BY <2>15 DEF RecordFails
    <3>5. /\ pc' \in [Procs -> RotatorLabels \cup PlayLabels]
          /\ \A r \in Rotators : pc'[r] \in RotatorLabels
          /\ \A q \in Plays : pc'[q] \in PlayLabels
      BY <3>4
    <3>6. \A q \in Procs : Minting(q)' => held'[q] # 0
      BY <3>4
    <3>7. held' \in [Procs -> 0..minted']
      BY <3>1, <3>2, <3>3, <3>4
    <3> QED
      BY <3>1, <3>2, <3>3, <3>4, <3>5, <3>6, <3>7
  <2>16. ASSUME NEW p \in Plays, Probe(p) PROVE TypeOK'
    BY <2>16 DEF Probe, Fault
  <2>17. ASSUME NEW p \in Plays, Reassert(p) PROVE TypeOK'
    BY <2>17 DEF Reassert
  <2>18. ASSUME NEW p \in Plays, StopPlay(p) PROVE TypeOK'
    BY <2>18 DEF StopPlay, Fault
  <2>19. CASE ChangePassword
    BY <2>19 DEF ChangePassword
  <2>20. CASE UNCHANGED vars
    BY <2>20 DEF vars
  <2> QED
    BY <2>1, <2>2, <2>3, <2>4, <2>5, <2>6, <2>7, <2>8, <2>9, <2>10,
       <2>11, <2>12, <2>13, <2>14, <2>15, <2>16, <2>17, <2>18, <2>19, <2>20
    DEF Next, Rotation, Play
<1> QED
  BY <1>1, <1>2, PTL DEF Spec

-----------------------------------------------------------------------------
(****************************************************************************)
(* The rest is about commands that run one at a time.  What a command read  *)
(* still holds while it runs, and every token the forge honours is recorded,*)
(* lost, or in the hands of the play that minted it.                        *)
(****************************************************************************)

OneAtATime == \A p, q \in Procs : pc[p] # "idle" /\ pc[q] # "idle" => p = q

\* What is true of a command that runs.
Fits(p) ==
    /\ p \in Rotators /\ pc[p] # "idle" => saw[p][cred[p]] = vault[cred[p]]
    /\ pc[p] = "mint" => saw[p][cred[p]] = vault[cred[p]]
    /\ p \in Plays /\ pc[p] # "idle" /\ cred[p] = "bot" => saw[p]["admin"] = vault["admin"]
    /\ pc[p] \in {"unset", "set"} => copy[p] = vault
    /\ pc[p] \in {"probe", "reassert"} => cred[p] = "bot"
    /\ Clearing(p) => live[cred[p]] = {}
    /\ Minting(p) => vault[cred[p]] = 0 /\ held[p] \in live[cred[p]]

\* A token that is honoured is recorded, or about to be.
Accounted(c) ==
    \A t \in live[c] \ lost :
        t = vault[c] \/ \E p \in Plays : Minting(p) /\ cred[p] = c /\ held[p] = t

Sound ==
    /\ OneAtATime
    /\ \A p \in Procs : Fits(p)
    /\ \A c \in Creds : Accounted(c)
    /\ DeadTokenIsAnnounced

\* Nothing is asked of a command that does not run.
LEMMA IdleFits ==
    ASSUME NEW p, pc[p] = "idle"
    PROVE  Fits(p)
BY DEF Fits, Clearing, Minting

\* A step of the one command that runs, or of one that starts.
LEMMA SoundStep ==
    ASSUME TypeOK, NEW p \in Procs, NEW label,
           \A q \in Procs \ {p} : pc[q] = "idle",
           pc' = [pc EXCEPT ![p] = label],
           Fits(p)', \A c \in Creds : Accounted(c)', DeadTokenIsAnnounced'
    PROVE  Sound'
<1>1. \A q \in Procs \ {p} : pc'[q] = "idle"
  BY DEF TypeOK
<1>2. OneAtATime'
  BY <1>1 DEF OneAtATime
<1>3. ASSUME NEW q \in Procs \ {p} PROVE Fits(q)'
  BY <1>1 DEF Fits, Clearing, Minting
<1> QED
  BY <1>2, <1>3 DEF Sound

\* The invariant of commands that exclude each other.
THEOREM CommandsAreSound == ASSUME ~Overlap PROVE Spec => []Sound
<1>1. Init => Sound
  BY DEF Init, Sound, OneAtATime, Fits, Accounted, DeadTokenIsAnnounced, Minting, Clearing,
         Procs, Creds, Keys
<1>2. TypeOK /\ TypeOK' /\ Sound /\ [Next]_vars => Sound'
  <2> SUFFICES ASSUME TypeOK, TypeOK', Sound, [Next]_vars PROVE Sound'
    OBVIOUS
  <2> USE ProcessAssumption DEF TypeOK, forgeVars, processVars, budgets, GoTo, Minting, Clearing, Procs,
                                Creds, Keys, Vaults, RotatorLabels, PlayLabels, Sound, OneAtATime, Fits,
                                Accounted, DeadTokenIsAnnounced
  <2>1. ASSUME NEW r \in Rotators, NEW c \in Creds, PlanRotation(r, c) PROVE Sound'
    <3>1. \A q \in Procs : pc[q] = "idle"
      BY <2>1 DEF PlanRotation, MayStart
    <3>2. Fits(r)'
      BY <2>1 DEF PlanRotation
    <3>3. \A k \in Creds : Accounted(k)'
      BY <2>1, <3>1 DEF PlanRotation
    <3>4. DeadTokenIsAnnounced'
      BY <2>1, <3>1 DEF PlanRotation
    <3> QED
      BY <2>1, <3>1, <3>2, <3>3, <3>4, SoundStep DEF PlanRotation
  <2>2. ASSUME NEW r \in Rotators, Revoke(r) PROVE Sound'
    <3>1. pc[r] # "idle" /\ \A q \in Procs \ {r} : pc[q] = "idle"
      BY <2>2 DEF Revoke
    <3>2. Fits(r)'
      BY <2>2 DEF Revoke, MayRevoke, RevokeToken, EndRotation
    <3>3. \A k \in Creds : Accounted(k)'
      BY <2>2, <3>1 DEF Revoke, MayRevoke, RevokeToken, EndRotation
    <3>4. DeadTokenIsAnnounced'
      BY <2>2, <3>1 DEF Revoke, MayRevoke, RevokeToken, EndRotation
    <3> QED
      BY <2>2, <3>1, <3>2, <3>3, <3>4, SoundStep, SMTT(30) DEF Revoke, MayRevoke, RevokeToken, EndRotation
  <2>3. ASSUME NEW r \in Rotators, RevokeRefused(r) PROVE Sound'
    <3>1. pc[r] # "idle" /\ \A q \in Procs \ {r} : pc[q] = "idle"
      BY <2>3 DEF RevokeRefused
    <3>2. Fits(r)'
      BY <2>3 DEF RevokeRefused, EndRotation
    <3>3. \A k \in Creds : Accounted(k)'
      BY <2>3, <3>1 DEF RevokeRefused, EndRotation
    <3>4. DeadTokenIsAnnounced'
      BY <2>3, <3>1 DEF RevokeRefused, EndRotation
    <3> QED
      BY <2>3, <3>1, <3>2, <3>3, <3>4, SoundStep DEF RevokeRefused, EndRotation
  <2>4. ASSUME NEW r \in Rotators, RevokeFails(r) PROVE Sound'
    <3>1. pc[r] # "idle" /\ \A q \in Procs \ {r} : pc[q] = "idle"
      BY <2>4 DEF RevokeFails
    <3>2. Fits(r)'
      BY <2>4 DEF RevokeFails, MayRevoke, RevokeToken, EndRotation
    <3>3. \A k \in Creds : Accounted(k)'
      BY <2>4, <3>1 DEF RevokeFails, MayRevoke, RevokeToken, EndRotation
    <3>4. DeadTokenIsAnnounced'
      BY <2>4, <3>1 DEF RevokeFails, MayRevoke, RevokeToken, EndRotation
    <3> QED
      BY <2>4, <3>1, <3>2, <3>3, <3>4, SoundStep DEF RevokeFails, MayRevoke, RevokeToken, EndRotation
  <2>5. ASSUME NEW r \in Rotators, Clear(r) PROVE Sound'
    <3>1. pc[r] # "idle" /\ \A q \in Procs \ {r} : pc[q] = "idle"
      BY <2>5 DEF Clear
    <3>2. Fits(r)'
      BY <2>5 DEF Clear, ReadVault
    <3>3. \A k \in Creds : Accounted(k)'
      BY <2>5, <3>1 DEF Clear, ReadVault
    <3>4. DeadTokenIsAnnounced'
      BY <2>5, <3>1 DEF Clear, ReadVault
    <3> QED
      BY <2>5, <3>1, <3>2, <3>3, <3>4, SoundStep DEF Clear, ReadVault
  <2>6. ASSUME NEW r \in Rotators, Cleared(r) PROVE Sound'
    <3>1. pc[r] # "idle" /\ \A q \in Procs \ {r} : pc[q] = "idle"
      BY <2>6 DEF Cleared
    <3>2. Fits(r)'
      BY <2>6 DEF Cleared, WriteVault, EndRotation
    <3>3. \A k \in Creds : Accounted(k)'
      BY <2>6, <3>1 DEF Cleared, WriteVault, EndRotation
    <3>4. DeadTokenIsAnnounced'
      BY <2>6, <3>1 DEF Cleared, WriteVault, EndRotation
    <3> QED
      BY <2>6, <3>1, <3>2, <3>3, <3>4, SoundStep DEF Cleared, WriteVault, EndRotation
  <2>7. ASSUME NEW r \in Rotators, ClearFails(r) PROVE Sound'
    <3>1. pc[r] # "idle" /\ \A q \in Procs \ {r} : pc[q] = "idle"
      BY <2>7 DEF ClearFails
    <3>2. Fits(r)'
      BY <2>7 DEF ClearFails, EndRotation
    <3>3. \A k \in Creds : Accounted(k)'
      BY <2>7, <3>1 DEF ClearFails, EndRotation
    <3>4. DeadTokenIsAnnounced'
      BY <2>7, <3>1 DEF ClearFails, EndRotation
    <3> QED
      BY <2>7, <3>1, <3>2, <3>3, <3>4, SoundStep DEF ClearFails, EndRotation
  <2>8. ASSUME NEW r \in Rotators, KillRotation(r) PROVE Sound'
    <3>1. pc[r] # "idle" /\ \A q \in Procs \ {r} : pc[q] = "idle"
      BY <2>8 DEF KillRotation
    <3>2. Fits(r)'
      BY <2>8 DEF KillRotation, EndRotation
    <3>3. \A k \in Creds : Accounted(k)'
      BY <2>8, <3>1 DEF KillRotation, EndRotation
    <3>4. DeadTokenIsAnnounced'
      BY <2>8, <3>1 DEF KillRotation, EndRotation
    <3> QED
      BY <2>8, <3>1, <3>2, <3>3, <3>4, SoundStep DEF KillRotation, EndRotation
  <2>9. ASSUME NEW p \in Plays, StartPlay(p) PROVE Sound'
    <3>1. \A q \in Procs : pc[q] = "idle"
      BY <2>9 DEF StartPlay, MayStart
    <3>2. Fits(p)'
      BY <2>9 DEF StartPlay
    <3>3. \A k \in Creds : Accounted(k)'
      BY <2>9, <3>1 DEF StartPlay
    <3>4. DeadTokenIsAnnounced'
      BY <2>9, <3>1 DEF StartPlay
    <3> QED
      BY <2>9, <3>1, <3>2, <3>3, <3>4, SoundStep DEF StartPlay
  <2>10. ASSUME NEW p \in Plays, SkipMint(p) PROVE Sound'
    <3>1. pc[p] # "idle" /\ \A q \in Procs \ {p} : pc[q] = "idle"
      BY <2>10 DEF SkipMint
    <3>2. Fits(p)'
      BY <2>10 DEF SkipMint, GateOpen, NextTask
    <3>3. \A k \in Creds : Accounted(k)'
      BY <2>10, <3>1 DEF SkipMint, GateOpen, NextTask
    <3>4. DeadTokenIsAnnounced'
      BY <2>10, <3>1 DEF SkipMint, GateOpen, NextTask
    <3> QED
      BY <2>10, <3>1, <3>2, <3>3, <3>4, SoundStep DEF SkipMint, GateOpen, NextTask
  <2>11. ASSUME NEW p \in Plays, Mint(p) PROVE Sound'
    <3>1. pc[p] # "idle" /\ \A q \in Procs \ {p} : pc[q] = "idle"
      BY <2>11 DEF Mint
    <3>2. Fits(p)'
      BY <2>11 DEF Mint, GateOpen, MintToken
    <3>3. \A k \in Creds : Accounted(k)'
      BY <2>11, <3>1 DEF Mint, GateOpen, MintToken
    <3>4. DeadTokenIsAnnounced'
      BY <2>11, <3>1 DEF Mint, GateOpen, MintToken
    <3> QED
      BY <2>11, <3>1, <3>2, <3>3, <3>4, SoundStep DEF Mint, GateOpen, MintToken
  <2>12. ASSUME NEW p \in Plays, MintFails(p) PROVE Sound'
    <3>1. pc[p] # "idle" /\ \A q \in Procs \ {p} : pc[q] = "idle"
      BY <2>12 DEF MintFails
    <3>2. Fits(p)'
      BY <2>12 DEF MintFails, MintToken
    <3>3. \A k \in Creds : Accounted(k)'
      BY <2>12, <3>1 DEF MintFails, MintToken
    <3>4. DeadTokenIsAnnounced'
      BY <2>12, <3>1 DEF MintFails, MintToken
    <3> QED
      BY <2>12, <3>1, <3>2, <3>3, <3>4, SoundStep DEF MintFails, MintToken
  <2>13. ASSUME NEW p \in Plays, Record(p) PROVE Sound'
    <3>1. pc[p] # "idle" /\ \A q \in Procs \ {p} : pc[q] = "idle"
      BY <2>13 DEF Record
    <3>2. Fits(p)'
      BY <2>13 DEF Record, ReadVault
    <3>3. \A k \in Creds : Accounted(k)'
      BY <2>13, <3>1 DEF Record, ReadVault
    <3>4. DeadTokenIsAnnounced'
      BY <2>13, <3>1 DEF Record, ReadVault
    <3> QED
      BY <2>13, <3>1, <3>2, <3>3, <3>4, SoundStep DEF Record, ReadVault
  <2>14. ASSUME NEW p \in Plays, Recorded(p) PROVE Sound'
    <3>1. pc[p] # "idle" /\ \A q \in Procs \ {p} : pc[q] = "idle"
      BY <2>14 DEF Recorded
    <3>2. Fits(p)'
      BY <2>14 DEF Recorded, WriteVault, NextTask
    <3>3. \A k \in Creds : Accounted(k)'
      BY <2>14, <3>1 DEF Recorded, WriteVault, NextTask
    <3>4. DeadTokenIsAnnounced'
      BY <2>14, <3>1 DEF Recorded, WriteVault, NextTask
    <3> QED
      BY <2>14, <3>1, <3>2, <3>3, <3>4, SoundStep DEF Recorded, WriteVault, NextTask
  <2>15. ASSUME NEW p \in Plays, RecordFails(p) PROVE Sound'
    <3>1. pc[p] # "idle" /\ \A q \in Procs \ {p} : pc[q] = "idle"
      BY <2>15 DEF RecordFails
    <3>2. Fits(p)'
      BY <2>15 DEF RecordFails
    <3>3. \A k \in Creds : Accounted(k)'
      BY <2>15, <3>1 DEF RecordFails
    <3>4. DeadTokenIsAnnounced'
      BY <2>15, <3>1 DEF RecordFails
    <3> QED
      BY <2>15, <3>1, <3>2, <3>3, <3>4, SoundStep DEF RecordFails
  <2>16. ASSUME NEW p \in Plays, Probe(p) PROVE Sound'
    <3>1. pc[p] # "idle" /\ \A q \in Procs \ {p} : pc[q] = "idle"
      BY <2>16 DEF Probe
    <3>2. Fits(p)'
      BY <2>16 DEF Probe
    <3>3. \A k \in Creds : Accounted(k)'
      BY <2>16, <3>1 DEF Probe
    <3>4. DeadTokenIsAnnounced'
      BY <2>16, <3>1 DEF Probe
    <3> QED
      BY <2>16, <3>1, <3>2, <3>3, <3>4, SoundStep DEF Probe
  <2>17. ASSUME NEW p \in Plays, Reassert(p) PROVE Sound'
    <3>1. pc[p] # "idle" /\ \A q \in Procs \ {p} : pc[q] = "idle"
      BY <2>17 DEF Reassert
    <3>2. Fits(p)'
      BY <2>17 DEF Reassert
    <3>3. \A k \in Creds : Accounted(k)'
      BY <2>17, <3>1 DEF Reassert
    <3>4. DeadTokenIsAnnounced'
      BY <2>17, <3>1 DEF Reassert
    <3> QED
      BY <2>17, <3>1, <3>2, <3>3, <3>4, SoundStep DEF Reassert
  <2>18. ASSUME NEW p \in Plays, StopPlay(p) PROVE Sound'
    <3>1. pc[p] # "idle" /\ \A q \in Procs \ {p} : pc[q] = "idle"
      BY <2>18 DEF StopPlay
    <3>2. Fits(p)'
      BY <2>18 DEF StopPlay
    <3>3. \A k \in Creds : Accounted(k)'
      BY <2>18, <3>1 DEF StopPlay
    <3>4. DeadTokenIsAnnounced'
      BY <2>18, <3>1 DEF StopPlay
    <3> QED
      BY <2>18, <3>1, <3>2, <3>3, <3>4, SoundStep DEF StopPlay
  <2>19. CASE ChangePassword
    BY <2>19, SMTT(30) DEF ChangePassword
  <2>20. CASE UNCHANGED vars
    BY <2>20 DEF vars
  <2> QED
    BY <2>1, <2>2, <2>3, <2>4, <2>5, <2>6, <2>7, <2>8, <2>9, <2>10,
       <2>11, <2>12, <2>13, <2>14, <2>15, <2>16, <2>17, <2>18, <2>19, <2>20
    DEF Next, Rotation, Play
<1> QED
  BY <1>1, <1>2, TypeCorrect, PTL DEF Spec

\* No account is ever given a second token while the first is honoured, save
\* one whose value was lost with the play that minted it.
THEOREM NoSecondToken == ASSUME ~Overlap PROVE Spec => []NoSecondCredential
<1>1. TypeOK /\ Sound => NoSecondCredential
  <2> SUFFICES ASSUME TypeOK, Sound, NEW c \in Creds,
                      NEW s \in live[c] \ lost, NEW t \in live[c] \ lost
               PROVE  s = t
    BY DEF NoSecondCredential, AtMostOne
  <2>1. s # 0 /\ t # 0
    BY DEF TypeOK
  <2>2. CASE \E p \in Plays : Minting(p) /\ cred[p] = c
    <3>1. vault[c] = 0
      BY <2>2 DEF Sound, Fits, Procs
    <3>2. /\ \E p \in Plays : Minting(p) /\ cred[p] = c /\ held[p] = s
          /\ \E p \in Plays : Minting(p) /\ cred[p] = c /\ held[p] = t
      BY <2>1, <3>1 DEF Sound, Accounted
    <3>3. \A p, q \in Plays : Minting(p) /\ Minting(q) => p = q
      BY DEF Sound, OneAtATime, Minting, Procs
    <3> QED
      BY <3>2, <3>3
  <2>3. CASE ~\E p \in Plays : Minting(p) /\ cred[p] = c
    BY <2>3 DEF Sound, Accounted
  <2> QED
    BY <2>2, <2>3
<1> QED
  BY <1>1, TypeCorrect, CommandsAreSound, PTL

\* A recorded token that is no longer honoured is always announced: by the
\* rotation at work on it, or by one that ended in an error.
THEOREM DeadTokensAreAnnounced == ASSUME ~Overlap PROVE Spec => []DeadTokenIsAnnounced
<1>1. Sound => DeadTokenIsAnnounced
  BY DEF Sound
<1> QED
  BY <1>1, CommandsAreSound, PTL

\* A rotation that ends well has done both of its halves.
THEOREM BothHalvesAreDone == ASSUME ~Overlap PROVE Spec => BothHalves
<1> DEFINE Halves == \A r \in Rotators :
                        EndsWell(r) => live'[cred[r]] = {} /\ vault'[cred[r]] = 0
<1>1. TypeOK /\ Sound /\ [Next]_vars => [Halves]_vars
  <2> SUFFICES ASSUME TypeOK, Sound, Next, NEW r \in Rotators, EndsWell(r)
               PROVE  live'[cred[r]] = {} /\ vault'[cred[r]] = 0
    OBVIOUS
  <2>1. pc[r] # "idle" /\ pc'[r] = "idle" /\ cred[r] \notin unfinished'
    BY DEF EndsWell
  <2>2. \A q \in Procs : pc[q] # "idle" => q = r
    BY <2>1 DEF Sound, OneAtATime, Procs
  <2>3. ASSUME NEW q \in Rotators, Rotation(q) PROVE Rotation(r)
    <3>1. pc[q] # "idle"
      BY <2>3 DEF Rotation, Revoke, RevokeRefused, RevokeFails, Clear, Cleared, ClearFails, KillRotation
    <3> QED
      BY <2>2, <2>3, <3>1 DEF Procs
  <2>4. ASSUME NEW p \in Plays PROVE ~Play(p)
    <3>1. pc[p] = "idle"
      BY <2>2, ProcessAssumption DEF Procs
    <3> QED
      BY <3>1 DEF Play, SkipMint, Mint, MintFails, Record, Recorded, RecordFails, Probe, Reassert,
                  StopPlay
  <2>5. \A p \in Procs : ~MayStart(p)
    BY <2>1 DEF MayStart, Procs
  <2>6. ~ChangePassword
    BY <2>1 DEF ChangePassword, processVars
  <2>7. Rotation(r)
    BY <2>3, <2>4, <2>5, <2>6 DEF Next, PlanRotation, StartPlay, Procs
  <2>8. CASE Revoke(r)
    <3>1. saw[r][cred[r]] = vault[cred[r]]
      BY <2>1, <2>8 DEF Sound, Fits, Procs
    <3>2. saw[r][cred[r]] = 0
      BY <2>1, <2>8 DEF Revoke, GoTo, TypeOK, Procs
    <3> QED
      BY <2>8, <3>1, <3>2 DEF Revoke, RevokeToken, TypeOK, Procs
  <2>9. CASE Cleared(r)
    <3>1. live[cred[r]] = {}
      BY <2>9 DEF Cleared, Sound, Fits, Clearing, Procs
    <3> QED
      BY <2>9, <3>1 DEF Cleared, WriteVault, forgeVars, TypeOK, Vaults, Keys, Procs
  <2>10. CASE RevokeRefused(r) \/ RevokeFails(r) \/ ClearFails(r) \/ KillRotation(r)
    BY <2>1, <2>10 DEF RevokeRefused, RevokeFails, ClearFails, KillRotation, EndRotation
  <2>11. CASE Clear(r)
    BY <2>1, <2>11 DEF Clear, GoTo, TypeOK, Procs
  <2> QED
    BY <2>7, <2>8, <2>9, <2>10, <2>11 DEF Rotation
<1> QED
  BY <1>1, TypeCorrect, CommandsAreSound, PTL DEF Spec, BothHalves
=============================================================================
