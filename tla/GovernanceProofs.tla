-------------------------- MODULE GovernanceProofs --------------------------
(****************************************************************************)
(* What decides what reaches master and production, for any pull requests,  *)
(* branches, generators and versions of the values, and any bounds: what    *)
(* holds of each part at every moment, and what follows for the whole.      *)
(****************************************************************************)
EXTENDS Governance, FiniteSetTheorems, WellFoundedInduction, TLAPS

-----------------------------------------------------------------------------
\* The delivery of images

\* The variables of the delivery have their types, and a promotion its versions: what it
\* writes and what staging is pinned to was built, and a pin that was seen exists.
Numbers == 0..MaxBuilds + MaxReleases

JobType == [pc : {"idle", "check", "write", "write unseen", "generate"}, version : Numbers,
            tree : Delivery!Pins, said : {"nothing", "promoted", "failed"}]

PruneType == [pc : {"idle", "list", "delete"}, pins : SUBSET Nat, stale : SUBSET (1..built), since : 0..built]

\* A pin: what staging is pinned to was built, and what prod is seen to be exists.
Pinned(e, p) ==
    /\ e = "staging" => p.values \in 0..built
    /\ p.seen /\ e = "prod" => p.values \in DOMAIN releases
    /\ p.seen => p.values # 0

DeliveryTyped ==
    /\ built \in 0..MaxBuilds
    /\ tags \subseteq 1..built
    /\ releases \in Seq(1..built) /\ Len(releases) <= MaxReleases
    /\ master \in [Delivery!Envs -> Delivery!Pins]
    /\ ran \subseteq 1..built
    /\ prs \subseteq [env : Delivery!Envs, pin : Delivery!Pins]
    /\ job \in [Delivery!Envs -> JobType]
    /\ prune \in PruneType
    /\ cut \in 0..built

\* A promotion writes a version that can be asked for, and one it has seen exists.  What
\* it begins from has the overlay of its values, and so has what it ends well with.
JobHolds(e, j) ==
    /\ Pinned(e, j.tree)
    /\ j.pc # "idle" => j.version \in Delivery!Versions(e) /\ j.said = "nothing"
    /\ j.pc = "write" /\ e = "prod" => j.version \in DOMAIN releases
    /\ j.pc = "generate" => j.tree.values = j.version
    /\ j.said = "promoted" => j.tree.values # 0
    /\ ~Reuse /\ (j.pc \in {"check", "write", "write unseen"} \/ j.said = "promoted")
          => j.tree.overlay = j.tree.values

PromotionsHold ==
    /\ \A e \in Delivery!Envs :
          Pinned(e, master[e]) /\ master[e].overlay = master[e].values /\ JobHolds(e, job[e])
    /\ \A p \in prs : Pinned(p.env, p.pin) /\ p.pin.values # 0

\* What is released or about to be ran on staging.
ReleasesHold ==
    /\ \A i \in DOMAIN releases : releases[i] \in ran
    /\ cut # 0 => cut \in ran
    /\ master["staging"].values # 0 => master["staging"].values \in ran

\* A pruning deletes neither a recent tag nor the one that staging is pinned to, which is
\* the one it read or one that was recent then.
PruningHolds ==
    /\ \A v \in 1..built : v > built - Recent => v \in tags
    /\ master["staging"].values # 0 => master["staging"].values \in tags
    /\ prune.pc # "idle" =>
          /\ built <= prune.since + Retention - Recent
          /\ \/ master["staging"].values \in prune.pins
             \/ master["staging"].values > prune.since - Recent
    /\ prune.pc = "delete" =>
          /\ master["staging"].values \notin prune.stale
          /\ \A t \in prune.stale : t <= prune.since - Recent

DeliveryInv == DeliveryTyped /\ PromotionsHold /\ ReleasesHold /\ PruningHolds

\* The two environments.
LEMMA TwoEnvs == "staging" \in Delivery!Envs /\ "prod" \in Delivery!Envs /\ \A e \in Delivery!Envs : e \in {"staging", "prod"}
BY DEF Delivery!Envs

\* What can be asked for is a number.
LEMMA AskedIsNumber ==
  ASSUME DeliveryTyped, NEW e, NEW v \in Delivery!Versions(e)
  PROVE  v \in Numbers /\ v # 0 /\ (e = "staging" => v \in 1..built)
BY DeliveryAssumption DEF Delivery!Versions, Numbers, DeliveryTyped

\* A job at rest.
LEMMA RestingJob ==
  ASSUME built \in Nat, NEW e
  PROVE  /\ Delivery!Unpinned \in Delivery!Pins /\ Pinned(e, Delivery!Unpinned)
         /\ Delivery!Unpinned.values = 0 /\ Delivery!Unpinned.overlay = 0
         /\ Delivery!Resting \in JobType /\ JobHolds(e, Delivery!Resting)
<1>1. 0 \in Numbers /\ 0 \in 0..built
  BY DeliveryAssumption DEF Numbers
<1>2. Delivery!Unpinned \in Delivery!Pins
  BY <1>1 DEF Delivery!Unpinned, Delivery!Pins, Numbers
<1>3. Pinned(e, Delivery!Unpinned)
  BY <1>1 DEF Pinned, Delivery!Unpinned
<1>4. Delivery!Resting \in JobType
  BY <1>1, <1>2 DEF Delivery!Resting, JobType
<1>5. Delivery!Unpinned.values = 0 /\ Delivery!Unpinned.overlay = 0
  BY DEF Delivery!Unpinned
<1>6. JobHolds(e, Delivery!Resting)
  BY <1>3 DEF JobHolds, Delivery!Resting
<1> QED
  BY <1>2, <1>3, <1>4, <1>5, <1>6

\* The begin of a delivery.
LEMMA DeliveryInit == ASSUME Delivery!Init PROVE DeliveryInv
<1> USE DEF Delivery!Init
<1>1. Delivery!Unpinned \in Delivery!Pins /\ Delivery!Resting \in JobType
  BY RestingJob
<1>2. Delivery!NoPruning \in PruneType
  BY DEF Delivery!NoPruning, PruneType
<1>3. DeliveryTyped
  BY <1>1, <1>2, DeliveryAssumption DEF DeliveryTyped
<1>4. PromotionsHold
  <2>1. \A e \in Delivery!Envs : job[e] = Delivery!Resting /\ master[e] = Delivery!Unpinned
    OBVIOUS
  <2>2. \A e \in Delivery!Envs : Pinned(e, Delivery!Unpinned) /\ JobHolds(e, Delivery!Resting)
    BY RestingJob
  <2>3. prs = {} /\ Delivery!Unpinned.values = Delivery!Unpinned.overlay
    BY RestingJob
  <2> QED
    BY <2>1, <2>2, <2>3 DEF PromotionsHold
<1>5. ReleasesHold /\ PruningHolds
  BY TwoEnvs DEF ReleasesHold, PruningHolds, Delivery!Unpinned, Delivery!NoPruning
<1> QED
  BY <1>3, <1>4, <1>5 DEF DeliveryInv

\* What holds of the delivery does not hang on the other parts.
LEMMA DeliveryRests == ASSUME DeliveryInv, UNCHANGED deliveryVars PROVE DeliveryInv'
<1> USE DEF deliveryVars
<1>1. DeliveryTyped'
  BY DEF DeliveryInv, DeliveryTyped, PruneType, JobType, Numbers
<1>2. PromotionsHold'
  BY DEF DeliveryInv, PromotionsHold, JobHolds, Pinned, Delivery!Versions
<1>3. ReleasesHold' /\ PruningHolds'
  BY DEF DeliveryInv, ReleasesHold, PruningHolds
<1> QED
  BY <1>1, <1>2, <1>3 DEF DeliveryInv

\* A step of one promotion is one of its job.
LEMMA JobStep ==
  ASSUME DeliveryInv, NEW e \in Delivery!Envs, NEW j \in JobType, JobHolds(e, j), job' = [job EXCEPT ![e] = j],
         prs' = prs \/ (\E p \in [env : Delivery!Envs, pin : Delivery!Pins] :
                           Pinned(p.env, p.pin) /\ p.pin.values # 0 /\ prs' = prs \cup {p}),
         UNCHANGED <<built, tags, releases, master, ran, prune, cut>>
  PROVE  DeliveryInv'
<1>1. DeliveryTyped'
  BY DEF DeliveryInv, DeliveryTyped, PruneType
<1>2. \A f \in Delivery!Envs : job'[f] = IF f = e THEN j ELSE job[f]
  BY DEF DeliveryInv, DeliveryTyped
<1>3. \A f \in Delivery!Envs : JobHolds(f, job[f]) /\ Pinned(f, master[f]) /\ master[f].overlay = master[f].values
  BY DEF DeliveryInv, PromotionsHold
<1>4. \A p \in prs' : Pinned(p.env, p.pin) /\ p.pin.values # 0
  BY DEF DeliveryInv, PromotionsHold
<1>5. PromotionsHold'
  <2>2. ASSUME NEW f \in Delivery!Envs PROVE JobHolds(f, job'[f])
    BY <1>2, <1>3
  <2>3. ASSUME NEW f \in Delivery!Envs PROVE Pinned(f, master[f])' /\ master'[f].overlay = master'[f].values
    BY <1>3 DEF Pinned
  <2>4. ASSUME NEW f \in Delivery!Envs PROVE JobHolds(f, job[f])'
    BY <2>2 DEF JobHolds, Pinned, Delivery!Versions
  <2>5. ASSUME NEW p \in prs' PROVE Pinned(p.env, p.pin)' /\ p.pin.values # 0
    BY <1>4 DEF Pinned
  <2> QED
    BY <2>3, <2>4, <2>5 DEF PromotionsHold
<1>6. ReleasesHold' /\ PruningHolds'
  BY DEF DeliveryInv, ReleasesHold, PruningHolds
<1> QED
  BY <1>1, <1>5, <1>6 DEF DeliveryInv

\* A job that ends keeps what it has written.
LEMMA EndedJob ==
  ASSUME NEW e, NEW j \in JobType, NEW r \in {"nothing", "promoted", "failed"}, Pinned(e, j.tree),
         r = "promoted" => j.tree.values # 0 /\ (~Reuse => j.tree.overlay = j.tree.values)
  PROVE  LET k == [j EXCEPT !.pc = "idle", !.version = 0, !.said = r] IN k \in JobType /\ JobHolds(e, k)
<1> DEFINE k == [j EXCEPT !.pc = "idle", !.version = 0, !.said = r]
<1>1. k \in JobType /\ k.pc = "idle" /\ k.said = r /\ k.tree = j.tree
  <2>1. 0 \in Numbers
    BY DeliveryAssumption DEF Numbers
  <2> QED
    BY <2>1 DEF JobType
<1> QED
  BY <1>1 DEF JobHolds

\* deployment promote.
LEMMA PromotionStep ==
  ASSUME DeliveryInv, NEW e \in Delivery!Envs,
         \/ \E v \in Delivery!Versions(e) : Delivery!Begin(e, v)
         \/ Delivery!Check(e) \/ Delivery!Write(e) \/ Delivery!Generate(e) \/ Delivery!OpenPr(e)
  PROVE  DeliveryInv'
<1> USE DEF Delivery!registry
<1> DEFINE j == job[e]
<1>1. job \in [Delivery!Envs -> JobType] /\ j \in JobType /\ JobHolds(e, j) /\ DeliveryTyped
  BY DEF DeliveryInv, DeliveryTyped, PromotionsHold
<1>2. master[e] \in Delivery!Pins /\ Pinned(e, master[e]) /\ master[e].overlay = master[e].values
  BY DEF DeliveryInv, DeliveryTyped, PromotionsHold
<1>3. j.pc # "idle" => j.version \in Delivery!Versions(e) /\ j.version \in Numbers /\ j.version # 0
                        /\ (e = "staging" => j.version \in 1..built)
  BY <1>1, AskedIsNumber DEF JobHolds
<1>4. ASSUME NEW v \in Delivery!Versions(e), Delivery!Begin(e, v) PROVE DeliveryInv'
  <2>1. PICK t \in {master[e]} \cup (IF Reuse THEN {j.tree} ELSE {}) :
            job' = [job EXCEPT ![e] = [pc |-> "check", version |-> v, tree |-> t, said |-> "nothing"]]
    BY <1>4 DEF Delivery!Begin
  <2> DEFINE k == [pc |-> "check", version |-> v, tree |-> t, said |-> "nothing"]
  <2>2. t \in Delivery!Pins /\ Pinned(e, t) /\ (~Reuse => t.overlay = t.values)
    BY <1>1, <1>2, <2>1 DEF JobHolds, JobType
  <2>3. k \in JobType /\ JobHolds(e, k)
    BY <1>1, <2>2, AskedIsNumber DEF JobType, JobHolds
  <2> HIDE DEF k, j
  <2> QED
    BY <1>4, <2>1, <2>3, JobStep DEF Delivery!Begin, k
<1>5. CASE Delivery!Check(e)
  <2>1. PICK k : job' = [job EXCEPT ![e] = k] /\ k \in JobType /\ JobHolds(e, k)
    <3>1. CASE Delivery!Exists(e, j.version) /\ job' = [job EXCEPT ![e].pc = "write"]
      <4> DEFINE k == [j EXCEPT !.pc = "write"]
      <4>1. job' = [job EXCEPT ![e] = k]
        BY <1>1, <3>1
      <4>2. k \in JobType /\ JobHolds(e, k)
        BY <1>1, <1>5, <3>1 DEF JobType, JobHolds, Delivery!Check, Delivery!Exists
      <4> QED
        BY <4>1, <4>2
    <3>2. CASE Delivery!End(e, "failed")
      <4> DEFINE k == [j EXCEPT !.pc = "idle", !.version = 0, !.said = "failed"]
      <4>1. job' = [job EXCEPT ![e] = k]
        BY <1>1, <3>2 DEF Delivery!End
      <4>2. k \in JobType /\ JobHolds(e, k)
        BY <1>1, EndedJob DEF JobHolds
      <4> QED
        BY <4>1, <4>2
    <3>3. CASE job' = [job EXCEPT ![e].pc = "write unseen"]
      <4> DEFINE k == [j EXCEPT !.pc = "write unseen"]
      <4>1. job' = [job EXCEPT ![e] = k]
        BY <1>1, <3>3
      <4>2. k \in JobType /\ JobHolds(e, k)
        BY <1>1, <1>5 DEF JobType, JobHolds, Delivery!Check
      <4> QED
        BY <4>1, <4>2
    <3> QED
      BY <1>5, <3>1, <3>2, <3>3 DEF Delivery!Check
  <2> QED
    BY <1>5, <2>1, JobStep DEF Delivery!Check
<1>6. CASE Delivery!Write(e)
  <2>1. PICK k : job' = [job EXCEPT ![e] = k] /\ k \in JobType /\ JobHolds(e, k)
    <3>1. CASE j.tree.values = j.version
      <4> DEFINE k == [j EXCEPT !.pc = "idle", !.version = 0, !.said = "promoted"]
      <4>1. job' = [job EXCEPT ![e] = k]
        BY <1>1, <1>6, <3>1 DEF Delivery!Write, Delivery!End
      <4>2. k \in JobType /\ JobHolds(e, k)
        BY <1>1, <1>3, <1>6, <3>1, EndedJob DEF JobHolds, Delivery!Write
      <4> QED
        BY <4>1, <4>2
    <3>2. CASE j.tree.values # j.version
      <4> DEFINE k == [j EXCEPT !.pc = "generate", !.tree.values = j.version, !.tree.seen = (j.pc = "write")]
      <4>1. job' = [job EXCEPT ![e] = k]
        BY <1>1, <1>6, <3>2 DEF Delivery!Write
      <4>2. /\ k.pc = "generate" /\ k.version = j.version /\ k.said = j.said
            /\ k.tree = [j.tree EXCEPT !.values = j.version, !.seen = (j.pc = "write")]
        BY <1>1 DEF JobType
      <4>3. j.pc \in {"write", "write unseen"} /\ j.version \in Numbers /\ j.version # 0 /\ j.said = "nothing"
        BY <1>1, <1>3, <1>6 DEF Delivery!Write, JobHolds
      <4>4. k.tree.values = j.version /\ k.tree.seen = (j.pc = "write") /\ k.tree \in Delivery!Pins
        BY <1>1, <4>2, <4>3 DEF JobType, Delivery!Pins, Numbers
      <4>5. k \in JobType
        <5> DEFINE t == k.tree
        <5>1. t \in Delivery!Pins /\ k = [j EXCEPT !.pc = "generate", !.tree = t]
          BY <1>1, <4>2, <4>4 DEF JobType
        <5> HIDE DEF t
        <5> QED
          BY <1>1, <5>1 DEF JobType
      <4>6. Pinned(e, k.tree)
        <5>1. e = "staging" => j.version \in 0..built
          <6>1. built \in Nat
            BY <1>1, DeliveryAssumption DEF DeliveryTyped
          <6>2. \A n \in 1..built : n \in 0..built
            BY <6>1
          <6> QED
            BY <1>3, <4>3, <6>2
        <5>2. j.pc = "write" /\ e = "prod" => j.version \in DOMAIN releases
          BY <1>1 DEF JobHolds
        <5> QED
          BY <4>3, <4>4, <5>1, <5>2 DEF Pinned
      <4>7. JobHolds(e, k)
        BY <1>3, <4>2, <4>3, <4>4, <4>6 DEF JobHolds
      <4> QED
        BY <4>1, <4>5, <4>7
    <3> QED
      BY <3>1, <3>2
  <2> QED
    BY <1>6, <2>1, JobStep DEF Delivery!Write
<1>7. CASE Delivery!Generate(e)
  <2>1. PICK k : job' = [job EXCEPT ![e] = k] /\ k \in JobType /\ JobHolds(e, k)
    <3>1. CASE Delivery!End(e, "failed")
      <4> DEFINE k == [j EXCEPT !.pc = "idle", !.version = 0, !.said = "failed"]
      <4>1. job' = [job EXCEPT ![e] = k]
        BY <1>1, <3>1 DEF Delivery!End
      <4>2. k \in JobType /\ JobHolds(e, k)
        BY <1>1, EndedJob DEF JobHolds
      <4> QED
        BY <4>1, <4>2
    <3>2. CASE job' = [job EXCEPT ![e] = [pc |-> "idle", version |-> 0, said |-> "promoted",
                                          tree |-> [@.tree EXCEPT !.overlay = job[e].tree.values]]]
      <4> DEFINE t == [j.tree EXCEPT !.overlay = j.tree.values]
                 k == [pc |-> "idle", version |-> 0, said |-> "promoted", tree |-> t]
      <4>1. job' = [job EXCEPT ![e] = k]
        BY <1>1, <3>2
      <4>2. t \in Delivery!Pins /\ t.values = j.tree.values /\ t.overlay = j.tree.values /\ t.seen = j.tree.seen
        BY <1>1 DEF JobType, Delivery!Pins
      <4>3. j.tree.values # 0
        BY <1>1, <1>3, <1>7 DEF JobHolds, Delivery!Generate
      <4>4. Pinned(e, t)
        BY <1>1, <4>2 DEF Pinned, JobHolds
      <4>5. k \in JobType
        BY <4>2, DeliveryAssumption DEF JobType, Numbers
      <4>6. JobHolds(e, k)
        BY <4>2, <4>3, <4>4 DEF JobHolds
      <4> QED
        BY <4>1, <4>5, <4>6
    <3> QED
      BY <1>7, <3>1, <3>2 DEF Delivery!Generate
  <2> QED
    BY <1>7, <2>1, JobStep DEF Delivery!Generate
<1>8. CASE Delivery!OpenPr(e)
  <2>1. Delivery!Resting \in JobType /\ JobHolds(e, Delivery!Resting)
    BY <1>1, RestingJob DEF DeliveryTyped
  <2> DEFINE p == [env |-> e, pin |-> j.tree]
  <2>2. p \in [env : Delivery!Envs, pin : Delivery!Pins] /\ Pinned(p.env, p.pin) /\ p.pin.values # 0
    BY <1>1, <1>8 DEF Delivery!OpenPr, JobType, JobHolds
  <2>3. prs' = prs \cup {p} /\ job' = [job EXCEPT ![e] = Delivery!Resting]
    BY <1>8 DEF Delivery!OpenPr
  <2> HIDE DEF p, j
  <2> QED
    BY <1>8, <2>1, <2>2, <2>3, JobStep DEF Delivery!OpenPr
<1> QED
  BY <1>4, <1>5, <1>6, <1>7, <1>8
\* What a promotion and the pull requests need of the registry, when nothing is lost of it.
LEMMA PromotionsKept ==
  ASSUME DeliveryInv, UNCHANGED <<master, prs, job>>, built' \in Nat, built' >= built,
         DOMAIN releases \subseteq DOMAIN releases'
  PROVE  PromotionsHold'
<1>1. built \in Nat
  BY DeliveryAssumption DEF DeliveryInv, DeliveryTyped
<1>2. \A n : n \in 0..built => n \in 0..built'
  BY <1>1
<1>3. \A e \in Delivery!Envs : Pinned(e, master[e])'
  BY <1>2 DEF DeliveryInv, PromotionsHold, Pinned
<1>4. \A p \in prs : Pinned(p.env, p.pin)'
  BY <1>2 DEF DeliveryInv, PromotionsHold, Pinned
<1>5. \A e \in Delivery!Envs : JobHolds(e, job[e])'
  <2>1. \A e : Delivery!Versions(e) \subseteq Delivery!Versions(e)'
    BY <1>1 DEF Delivery!Versions
  <2> QED
    BY <1>2, <2>1 DEF DeliveryInv, PromotionsHold, JobHolds, Pinned
<1> QED
  BY <1>3, <1>4, <1>5 DEF DeliveryInv, PromotionsHold

\* A build.
LEMMA BuildStep == ASSUME DeliveryInv, Delivery!Build PROVE DeliveryInv'
<1> USE DEF Delivery!Build
<1>1. built \in Nat /\ built + 1 \in 0..MaxBuilds /\ Retention \in Nat /\ Recent \in Nat
  BY DeliveryAssumption DEF DeliveryInv, DeliveryTyped
<1>2. \A n : n \in 1..built => n \in 1..built'
  BY <1>1
<1>3. DeliveryTyped'
  <2>1. prune' \in PruneType'
    <3>1. \A n : n \in 0..built => n \in 0..built'
      BY <1>1
    <3> QED
      BY <1>2, <3>1 DEF DeliveryInv, DeliveryTyped, PruneType
  <2>2. releases' \in Seq(1..built')
    BY <1>2 DEF DeliveryInv, DeliveryTyped
  <2>3. cut' \in 0..built'
    BY <1>1 DEF DeliveryInv, DeliveryTyped
  <2>4. tags' \subseteq 1..built' /\ ran' \subseteq 1..built'
    BY <1>1, <1>2 DEF DeliveryInv, DeliveryTyped
  <2> QED
    BY <1>1, <2>1, <2>2, <2>3, <2>4 DEF DeliveryInv, DeliveryTyped
<1>4. PromotionsHold'
  BY <1>1, PromotionsKept
<1>5. ReleasesHold'
  BY DEF DeliveryInv, ReleasesHold
<1>6. PruningHolds'
  <2>1. \A v \in 1..built' : v > built' - Recent => v \in tags'
    BY <1>1 DEF DeliveryInv, PruningHolds
  <2>2. prune.pc # "idle" => built' <= prune.since + Retention - Recent
    <3>1. prune.since \in Nat
      BY <1>1 DEF DeliveryInv, DeliveryTyped, PruneType
    <3> QED
      BY <1>1, <3>1
  <2> QED
    BY <2>1, <2>2 DEF DeliveryInv, PruningHolds
<1> QED
  BY <1>3, <1>4, <1>5, <1>6 DEF DeliveryInv

\* A pull request is merged or closed.
LEMMA PrStep == ASSUME DeliveryInv, NEW p \in prs, Delivery!Merge(p) \/ Delivery!ClosePr(p) PROVE DeliveryInv'
<1> USE DEF Delivery!registry
<1>1. /\ p.env \in Delivery!Envs /\ p.pin \in Delivery!Pins /\ Pinned(p.env, p.pin) /\ p.pin.values # 0
      /\ master \in [Delivery!Envs -> Delivery!Pins]
  BY DEF DeliveryInv, DeliveryTyped, PromotionsHold
<1>2. CASE Delivery!ClosePr(p)
  <2>1. DeliveryTyped'
    BY <1>2 DEF DeliveryInv, DeliveryTyped, PruneType, Delivery!ClosePr
  <2>2. PromotionsHold'
    BY <1>2 DEF DeliveryInv, PromotionsHold, JobHolds, Pinned, Delivery!Versions, Delivery!ClosePr
  <2>3. ReleasesHold' /\ PruningHolds'
    BY <1>2 DEF DeliveryInv, ReleasesHold, PruningHolds, Delivery!ClosePr
  <2> QED
    BY <2>1, <2>2, <2>3 DEF DeliveryInv
<1>3. CASE Delivery!Merge(p)
  <2>1. /\ \A e \in Delivery!Envs : master'[e] = IF e = p.env THEN p.pin ELSE master[e]
        /\ master' \in [Delivery!Envs -> Delivery!Pins]
    BY <1>1, <1>3 DEF Delivery!Merge
  <2>2. built \in Nat /\ Recent \in Nat /\ Retention \in Nat
    BY DeliveryAssumption DEF DeliveryInv, DeliveryTyped
  <2>3. p.env = "staging" => p.pin.values \in 1..built /\ p.pin.values > built - Recent
    BY <1>1, <1>3, <2>2 DEF Pinned, Delivery!Merge
  <2>4. DeliveryTyped'
    <3>1. ran' \subseteq 1..built
      BY <1>3, <2>3 DEF Delivery!Merge, DeliveryInv, DeliveryTyped
    <3> QED
      BY <1>3, <2>1, <3>1 DEF DeliveryInv, DeliveryTyped, PruneType, Delivery!Merge
  <2>5. PromotionsHold'
    <3>1. \A e \in Delivery!Envs : Pinned(e, master'[e]) /\ master'[e].overlay = master'[e].values
      BY <1>1, <1>3, <2>1 DEF DeliveryInv, PromotionsHold, Delivery!Merge
    <3>2. \A e \in Delivery!Envs : Pinned(e, master[e])' /\ master'[e].overlay = master'[e].values
      BY <1>3, <3>1 DEF Pinned, Delivery!Merge
    <3>3. \A e \in Delivery!Envs : JobHolds(e, job[e])'
      BY <1>3 DEF DeliveryInv, PromotionsHold, JobHolds, Pinned, Delivery!Versions, Delivery!Merge
    <3>4. \A q \in prs' : Pinned(q.env, q.pin)' /\ q.pin.values # 0
      BY <1>3 DEF DeliveryInv, PromotionsHold, Pinned, Delivery!Merge
    <3> QED
      BY <3>2, <3>3, <3>4 DEF PromotionsHold
  <2>6. ReleasesHold'
    <3>1. master'["staging"].values # 0 => master'["staging"].values \in ran'
      BY <1>3, <2>1, TwoEnvs DEF DeliveryInv, ReleasesHold, Delivery!Merge
    <3>2. ran \subseteq ran'
      BY <1>3 DEF Delivery!Merge
    <3> QED
      BY <1>3, <3>1, <3>2 DEF DeliveryInv, ReleasesHold, Delivery!Merge
  <2>7. PruningHolds'
    <3>1. CASE p.env # "staging"
      <4>1. master'["staging"] = master["staging"]
        BY <2>1, <3>1, TwoEnvs
      <4> QED
        BY <1>3, <4>1 DEF DeliveryInv, PruningHolds, Delivery!Merge
    <3>2. CASE p.env = "staging"
      <4>1. master'["staging"].values = p.pin.values /\ p.pin.values \in tags
        BY <2>1, <2>3, <3>2, TwoEnvs DEF DeliveryInv, PruningHolds
      <4>2. prune.since \in 0..built /\ prune.stale \subseteq 1..built
        BY DEF DeliveryInv, DeliveryTyped, PruneType
      <4>3. p.pin.values > prune.since - Recent
        BY <2>2, <2>3, <3>2, <4>2
      <4>4. prune.pc = "delete" => p.pin.values \notin prune.stale
        BY <2>2, <4>2, <4>3 DEF DeliveryInv, PruningHolds
      <4> QED
        BY <1>3, <4>1, <4>3, <4>4 DEF DeliveryInv, PruningHolds, Delivery!Merge
    <3> QED
      BY <3>1, <3>2
  <2> QED
    BY <2>4, <2>5, <2>6, <2>7 DEF DeliveryInv
<1> QED
  BY <1>2, <1>3

\* The release.
LEMMA ReleaseStep == ASSUME DeliveryInv, Delivery!Resolve \/ Delivery!Retag PROVE DeliveryInv'
<1> USE DEF Delivery!registry
<1>1. built \in Nat
  BY DeliveryAssumption DEF DeliveryInv, DeliveryTyped
<1>2. CASE Delivery!Resolve
  <2>1. cut' \in 0..built
    BY <1>2, TwoEnvs DEF DeliveryInv, PromotionsHold, Pinned, Delivery!Resolve
  <2>2. DeliveryTyped'
    BY <1>2, <2>1 DEF DeliveryInv, DeliveryTyped, PruneType, Delivery!Resolve
  <2>3. PromotionsHold'
    BY <1>1, <1>2, PromotionsKept DEF Delivery!Resolve
  <2>4. ReleasesHold' /\ PruningHolds'
    BY <1>2 DEF DeliveryInv, ReleasesHold, PruningHolds, Delivery!Resolve
  <2> QED
    BY <2>2, <2>3, <2>4 DEF DeliveryInv
<1>3. CASE Delivery!Retag
  <2>1. cut \in 0..built /\ cut # 0 /\ cut \in ran /\ releases \in Seq(1..built) /\ Len(releases) <= MaxReleases
    BY <1>3 DEF DeliveryInv, DeliveryTyped, ReleasesHold, Delivery!Retag
  <2>2. cut \in 1..built
    BY <1>1, <2>1
  <2>3. /\ releases' \in Seq(1..built) /\ Len(releases') <= MaxReleases
        /\ DOMAIN releases \subseteq DOMAIN releases'
        /\ \A i \in DOMAIN releases' : releases'[i] \in ran
    <3>1. CASE releases' = releases
      BY <2>1, <3>1 DEF DeliveryInv, ReleasesHold
    <3>2. CASE releases' = Append(releases, cut) /\ Len(releases) < MaxReleases
      <4>1. releases' \in Seq(1..built) /\ Len(releases') = Len(releases) + 1 /\ Len(releases) \in Nat
        BY <2>1, <2>2, <3>2
      <4>2. \A i \in 1..Len(releases) + 1 : releases'[i] = IF i = Len(releases) + 1 THEN cut ELSE releases[i]
        BY <2>1, <3>2, <4>1
      <4>3. DOMAIN releases' = 1..Len(releases) + 1 /\ DOMAIN releases = 1..Len(releases)
        BY <2>1, <4>1
      <4> QED
        BY <2>1, <3>2, <4>1, <4>2, <4>3, DeliveryAssumption DEF DeliveryInv, ReleasesHold
    <3> QED
      BY <1>3, <3>1, <3>2 DEF Delivery!Retag
  <2>4. DeliveryTyped'
    BY <1>1, <1>3, <2>3 DEF DeliveryInv, DeliveryTyped, PruneType, Delivery!Retag
  <2>5. PromotionsHold'
    BY <1>1, <1>3, <2>3, PromotionsKept DEF Delivery!Retag
  <2>6. ReleasesHold' /\ PruningHolds'
    BY <1>3, <2>3 DEF DeliveryInv, ReleasesHold, PruningHolds, Delivery!Retag
  <2> QED
    BY <2>4, <2>5, <2>6 DEF DeliveryInv
<1> QED
  BY <1>2, <1>3

\* The delivery counts as FiniteSets does.
LEMMA SameCardinality == \A T : Delivery!Cardinality(T) = Cardinality(T)
BY DEF Cardinality, Delivery!Cardinality, IsFiniteSet, Delivery!IsFiniteSet

\* The tags newer than one are no more than the builds after it.
LEMMA StaleIsOld ==
  ASSUME DeliveryTyped, NEW pins, NEW t \in Delivery!SelectStale(tags, pins)
  PROVE  t \in 1..built /\ t <= built - Retention /\ t \notin pins
<1>1. built \in Nat /\ t \in tags /\ t \in 1..built /\ t \notin pins /\ Retention \in Nat
  BY DeliveryAssumption DEF Delivery!SelectStale, DeliveryTyped
<1>2. Cardinality(Delivery!Newer(t, tags)) >= Retention
  BY SameCardinality DEF Delivery!SelectStale
<1>3. Delivery!Newer(t, tags) \subseteq (t + 1)..built
  <2>1. tags \subseteq 1..built
    BY DEF DeliveryTyped
  <2>2. ASSUME NEW u \in Delivery!Newer(t, tags) PROVE u \in (t + 1)..built
    <3>1. u \in tags /\ u > t
      BY <2>2 DEF Delivery!Newer
    <3>2. u \in 1..built
      BY <2>1, <3>1
    <3> QED
      BY <1>1, <3>1, <3>2
  <2> QED
    BY <2>2
<1>4. IsFiniteSet((t + 1)..built) /\ Cardinality((t + 1)..built) = built - t
  BY <1>1, FS_Interval
<1>5. Cardinality(Delivery!Newer(t, tags)) <= built - t /\ Cardinality(Delivery!Newer(t, tags)) \in Nat
  BY <1>3, <1>4, FS_Subset, FS_CardinalityType
<1> QED
  BY <1>1, <1>2, <1>5

\* A set of numbers has a smallest.
LEMMA SmallestExists ==
  ASSUME NEW T, T \subseteq Nat, T # {} PROVE \E x \in T : \A u \in T : x <= u
<1>1. PICK x \in T : \A u \in T : ~(<<u, x>> \in OpToRel(<, Nat))
  BY NatLessThanWellFounded, WFMin
<1>2. ASSUME NEW u \in T PROVE x <= u
  <2>1. u \in Nat /\ x \in Nat
    OBVIOUS
  <2>2. ~(u < x)
    BY <1>1, <2>1 DEF OpToRel
  <2> QED
    BY <2>1, <2>2
<1> QED
  BY <1>2

\* registry prune.
LEMMA PruneStep ==
  ASSUME DeliveryInv, Delivery!ReadPins \/ Delivery!ListTags \/ Delivery!DeleteTag \/ Delivery!EndPrune
  PROVE  DeliveryInv'
<1> USE DEF Delivery!registry
<1>1. built \in Nat /\ Recent \in Nat /\ Retention \in Nat /\ Recent <= Retention
  BY DeliveryAssumption DEF DeliveryInv, DeliveryTyped
<1>2. UNCHANGED <<built, releases, master, ran, prs, job, cut>>
  BY DEF Delivery!ReadPins, Delivery!ListTags, Delivery!DeleteTag, Delivery!EndPrune
<1>3. PromotionsHold' /\ ReleasesHold'
  <2>1. PromotionsHold'
    BY <1>1, <1>2, PromotionsKept
  <2> QED
    BY <1>2, <2>1 DEF DeliveryInv, ReleasesHold
<1>4. ASSUME prune' \in PruneType, tags' \subseteq tags, PruningHolds' PROVE DeliveryInv'
  <2>1. DeliveryTyped'
    BY <1>2, <1>4 DEF DeliveryInv, DeliveryTyped, PruneType
  <2> QED
    BY <1>3, <1>4, <2>1 DEF DeliveryInv
<1>5. Delivery!NoPruning \in PruneType /\ Delivery!NoPruning.pc = "idle"
  BY <1>1 DEF Delivery!NoPruning, PruneType
<1>6. ASSUME prune' = Delivery!NoPruning, UNCHANGED tags PROVE DeliveryInv'
  <2>1. PruningHolds'
    BY <1>2, <1>5, <1>6 DEF DeliveryInv, PruningHolds
  <2> QED
    BY <1>4, <1>5, <1>6, <2>1
<1>7. CASE Delivery!ReadPins
  <2>1. master["staging"].values \in 0..built
    BY TwoEnvs DEF DeliveryInv, PromotionsHold, Pinned
  <2>2. prune' = [pc |-> "list", pins |-> {master["staging"].values}, stale |-> {}, since |-> built]
    BY <1>7 DEF Delivery!ReadPins, Delivery!NoPruning
  <2>3. prune' \in PruneType
    BY <1>1, <2>1, <2>2 DEF PruneType
  <2>4. PruningHolds'
    BY <1>1, <1>2, <1>7, <2>2 DEF DeliveryInv, PruningHolds, Delivery!ReadPins
  <2> QED
    BY <1>4, <1>7, <2>3, <2>4 DEF Delivery!ReadPins
<1>8. CASE Delivery!ListTags
  <2> DEFINE found == Delivery!SelectStale(tags, prune.pins)
  <2>1. CASE prune' = [prune EXCEPT !.pc = "delete", !.stale = found]
    <3>1. \A t \in found : t \in 1..built /\ t <= built - Retention /\ t \notin prune.pins
      BY StaleIsOld DEF DeliveryInv
    <3> HIDE DEF found
    <3>2. prune \in PruneType /\ prune.pc # "idle" /\ prune.since \in 0..built
      BY <1>8 DEF DeliveryInv, DeliveryTyped, PruneType, Delivery!ListTags
    <3>3. /\ prune' \in PruneType
          /\ prune'.since = prune.since /\ prune'.pins = prune.pins /\ prune'.stale = found /\ prune'.pc = "delete"
      BY <2>1, <3>1, <3>2 DEF PruneType
    <3>4. built <= prune.since + Retention - Recent
      BY <3>2 DEF DeliveryInv, PruningHolds
    <3>5. \A t \in found : t <= prune.since - Recent
      BY <1>1, <3>1, <3>2, <3>4
    <3>6. master["staging"].values \in prune.pins \/ master["staging"].values > prune.since - Recent
      BY <3>2 DEF DeliveryInv, PruningHolds
    <3>7. master["staging"].values \notin found
      BY <1>1, <3>1, <3>2, <3>5, <3>6
    <3>8. PruningHolds'
      BY <1>2, <1>8, <3>3, <3>4, <3>5, <3>6, <3>7 DEF DeliveryInv, PruningHolds, Delivery!ListTags
    <3> QED
      BY <1>4, <1>8, <3>3, <3>8 DEF Delivery!ListTags
  <2> QED
    BY <1>6, <1>8, <2>1 DEF Delivery!ListTags, Delivery!EndPruning
<1>9. CASE Delivery!DeleteTag
  <2> DEFINE t == CHOOSE t \in prune.stale : \A u \in prune.stale : t <= u
  <2>1. /\ prune' = [prune EXCEPT !.stale = @ \ {t}] /\ prune.pc = "delete"
        /\ tags' = tags \ {t} \/ UNCHANGED tags
    BY <1>9 DEF Delivery!DeleteTag
  <2>2. t \in prune.stale
    <3>1. prune.stale # {} /\ prune.stale \subseteq Nat
      BY <1>9 DEF Delivery!DeleteTag, DeliveryInv, DeliveryTyped, PruneType
    <3>2. \E x \in prune.stale : \A u \in prune.stale : x <= u
      BY <3>1, SmallestExists
    <3> QED
      BY <3>2
  <2> HIDE DEF t
  <2>3. prune \in PruneType
    BY DEF DeliveryInv, DeliveryTyped
  <2>4. /\ prune' \in PruneType /\ prune'.pc = "delete"
        /\ prune'.since = prune.since /\ prune'.pins = prune.pins /\ prune'.stale = prune.stale \ {t}
    BY <2>1, <2>3 DEF PruneType
  <2>5. PruningHolds'
    <3>1. t <= prune.since - Recent /\ t # master["staging"].values /\ prune.since \in 0..built /\ t \in 1..built
      BY <2>1, <2>2, <2>3 DEF DeliveryInv, PruningHolds, PruneType
    <3>2. \A v \in 1..built : v > built - Recent => v \in tags'
      BY <1>1, <2>1, <3>1 DEF DeliveryInv, PruningHolds
    <3> QED
      BY <1>2, <2>1, <2>4, <3>1, <3>2 DEF DeliveryInv, PruningHolds
  <2> QED
    BY <1>4, <2>1, <2>4, <2>5
<1>10. CASE Delivery!EndPrune
  BY <1>6, <1>10 DEF Delivery!EndPrune, Delivery!EndPruning
<1> QED
  BY <1>7, <1>8, <1>9, <1>10

\* Every step of the delivery.
LEMMA DeliveryStep == ASSUME DeliveryInv, Delivery!Next PROVE DeliveryInv'
BY BuildStep, PromotionStep, PrStep, ReleaseStep, PruneStep DEF Delivery!Next

\* The types, and what is seen of a pin.
LEMMA DeliveryIsTyped ==
  ASSUME DeliveryInv
  PROVE  Delivery!TypeOK /\ Delivery!PinnedIsPullable /\ Delivery!ProdRanOnStaging
<1>1. DeliveryTyped /\ PromotionsHold /\ ReleasesHold /\ PruningHolds
  BY DEF DeliveryInv
<1>2. Delivery!TypeOK
  <2>1. \A e \in Delivery!Envs : job[e].tree \in Delivery!Pins
    BY <1>1 DEF DeliveryTyped, JobType
  <2>2. \A i \in DOMAIN releases : releases[i] \in 1..built
    BY <1>1 DEF DeliveryTyped
  <2>3. prune.stale \subseteq 1..built
    BY <1>1 DEF DeliveryTyped, PruneType
  <2> QED
    BY <1>1, <2>1, <2>2, <2>3 DEF DeliveryTyped, Delivery!TypeOK
<1>3. ASSUME NEW e \in Delivery!Envs, master[e].seen PROVE Delivery!Exists(e, master[e].values)
  <2>1. Pinned(e, master[e])
    BY <1>1 DEF PromotionsHold
  <2>2. CASE e = "staging"
    BY <1>1, <1>3, <2>1, <2>2 DEF Pinned, PruningHolds, Delivery!Exists
  <2>3. CASE e = "prod"
    BY <1>3, <2>1, <2>3 DEF Pinned, Delivery!Exists
  <2> QED
    BY <2>2, <2>3, TwoEnvs
<1> QED
  BY <1>1, <1>2, <1>3 DEF Delivery!PinnedIsPullable, Delivery!ProdRanOnStaging, ReleasesHold

-----------------------------------------------------------------------------
\* The attestation of reviews

Commits == 1..MaxHeads
Words   == {"none", "failure", "a review happened", "exempt", "NOT reviewed"}

RunType == [pc : {"idle", "failed", "resolve", "payload", "publish"}, sha : 0..MaxHeads,
            read : {"nothing", "attested", "exempt", "disclosed", "disclosed-declined", "declined", "pending"}]

PrType == [state : {"open", "merged"}, head : Commits, reviews : SUBSET Attestation!Reviews,
           comments : SUBSET (Attestation!Comments \cup {Attestation!OwnReview}),
           label : BOOLEAN, section : BOOLEAN, files : {"code", "exempt"}]

AttestationTyped ==
    /\ pr \in PrType
    /\ runs \in [Attestation!Groups -> RunType]
    /\ queued \subseteq Attestation!Groups
    /\ \A g \in queued : runs[g].pc \notin {"idle", "failed"}
    /\ status \in [Commits -> Words]

\* A run that has still to read, or the agent's that will start one.
Underway ==
    \/ \E g \in Attestation!Groups : runs[g].pc \in {"resolve", "payload", "failed"} \/ g \in queued
    \/ agent = "running"

\* Of the two groups one publishes at a time; what it is about to publish is so or there
\* is a run to come.  A run of an older head is that of the reviewer, which will end.
RunsHold ==
    /\ \A g, h \in Attestation!Groups : runs[g].pc = "publish" /\ runs[h].pc = "publish" => g = h
    /\ Attestation!Open => \A g \in Attestation!Groups :
          /\ runs[g].pc \in {"payload", "publish"} /\ runs[g].sha # pr.head => g = "reviewer" /\ agent = "running"
          /\ runs[g].pc = "publish" => Attestation!Published(runs[g].read) = Attestation!StatusDue \/ Underway

AttestationInv == AttestationTyped /\ RunsHold /\ Attestation!StatusIsCurrent

\* What a run has read of a review, or of a notice, has been said; and so what is published.
SaidOfReviews ==
    /\ \A g \in Attestation!Groups :
          runs[g].pc = "publish" /\ Attestation!Published(runs[g].read) = "a review happened"
          => Attestation!SomebodyReviewed \/ Attestation!Notice
    /\ Attestation!ReviewOrNotice

\* The runs that nothing has been made of yet.
LEMMA FreshRuns ==
  /\ Attestation!NoRun \in RunType /\ Attestation!Begun \in RunType /\ [Attestation!NoRun EXCEPT !.pc = "failed"] \in RunType
  /\ Attestation!NoRun.pc = "idle" /\ Attestation!Begun.pc = "resolve" /\ [Attestation!NoRun EXCEPT !.pc = "failed"].pc = "failed"
BY AttestationAssumption DEF Attestation!NoRun, Attestation!Begun, RunType

\* A pull request has a commit.
LEMMA FirstCommit == 1 \in Commits
<1>1. MaxHeads >= 1 /\ MaxHeads \in Int
  BY AttestationAssumption
<1> QED
  BY <1>1 DEF Commits

\* There are two groups.
LEMMA TwoGroups == "pull request" \in Attestation!Groups /\ "reviewer" \in Attestation!Groups
BY DEF Attestation!Groups

\* The attestation at the beginning.
LEMMA AttestationInit == ASSUME Attestation!Init PROVE AttestationInv
<1> USE DEF Attestation!Init
<1>1. AttestationTyped
  <2>1. pr \in PrType
    <3>1. 1 \in Commits
      BY FirstCommit
    <3> QED
      BY <3>1 DEF PrType
  <2>2. runs \in [Attestation!Groups -> RunType] /\ status \in [Commits -> Words] /\ queued = {}
    BY FreshRuns DEF Commits, Words
  <2> QED
    BY <2>1, <2>2 DEF AttestationTyped
<1>2. RunsHold
  BY FreshRuns DEF RunsHold
<1>3. Attestation!StatusIsCurrent
  BY DEF Attestation!StatusIsCurrent
<1> QED
  BY <1>1, <1>2, <1>3 DEF AttestationInv

\* What holds of it does not hang on the other parts.
LEMMA AttestationRests == ASSUME AttestationInv, UNCHANGED attestationVars PROVE AttestationInv'
<1> USE DEF attestationVars
<1>1. AttestationTyped'
  BY DEF AttestationInv, AttestationTyped, PrType
<1>2. Attestation!StatusDue' = Attestation!StatusDue
  BY DEF Attestation!StatusDue, Attestation!SomebodyReviewed, Attestation!Notice
<1>3. RunsHold'
  BY <1>2 DEF AttestationInv, RunsHold, Underway, Attestation!Open, Attestation!Published
<1>4. Attestation!StatusIsCurrent'
  BY <1>2 DEF AttestationInv, Attestation!StatusIsCurrent, Attestation!Open, Attestation!Published
<1> QED
  BY <1>1, <1>3, <1>4 DEF AttestationInv

\* An event has a run begin at once or after the one that goes on.
LEMMA StartsOne ==
  ASSUME AttestationTyped, NEW g \in Attestation!Groups, NEW c \in BOOLEAN, Attestation!Starts(g, c)
  PROVE  /\ runs' \in [Attestation!Groups -> RunType] /\ queued' \subseteq Attestation!Groups
         /\ \A h \in queued' : runs'[h].pc \notin {"idle", "failed"}
         /\ runs'[g].pc = "resolve" \/ g \in queued'
         /\ c => runs'[g].pc = "resolve"
         /\ \A h \in Attestation!Groups : runs'[h] = runs[h] \/ runs'[h].pc = "resolve"
<1>1. CASE runs' = [runs EXCEPT ![g] = Attestation!Begun] /\ queued' = queued \ {g}
  BY <1>1, FreshRuns DEF AttestationTyped
<1>2. CASE ~c /\ runs[g].pc \notin {"idle", "failed"} /\ queued' = queued \cup {g} /\ UNCHANGED runs
  BY <1>2 DEF AttestationTyped
<1> QED
  BY <1>1, <1>2 DEF Attestation!Starts

\* The end of a run has the one begin that waits for it.
LEMMA EndsOne ==
  ASSUME AttestationTyped, NEW g \in Attestation!Groups, NEW end \in RunType, end.pc \in {"idle", "failed"},
         Attestation!Ends(g, end)
  PROVE  /\ runs' \in [Attestation!Groups -> RunType] /\ queued' \subseteq Attestation!Groups
         /\ \A h \in queued' : runs'[h].pc \notin {"idle", "failed"}
         /\ \A h \in Attestation!Groups : h # g => runs'[h] = runs[h] /\ (h \in queued => h \in queued')
         /\ IF g \in queued THEN runs'[g].pc = "resolve" ELSE runs'[g] = end
<1>1. CASE g \in queued /\ runs' = [runs EXCEPT ![g] = Attestation!Begun] /\ queued' = queued \ {g}
  BY <1>1, FreshRuns DEF AttestationTyped
<1>2. CASE g \notin queued /\ runs' = [runs EXCEPT ![g] = end] /\ UNCHANGED queued
  BY <1>2 DEF AttestationTyped
<1> QED
  BY <1>1, <1>2 DEF Attestation!Ends

\* An event leaves a run to come, and no run of an older head but the reviewer's.
LEMMA EventStep ==
  ASSUME AttestationInv, NEW g \in Attestation!Groups, NEW c \in BOOLEAN, Attestation!Starts(g, c),
         pr' \in PrType, pr'.state = pr.state, UNCHANGED status,
         \/ pr'.head = pr.head /\ (agent' = agent \/ (g = "reviewer" /\ c))
         \/ agent' = "running" /\ g = "pull request" /\ c
  PROVE  AttestationInv'
<1>1. /\ runs' \in [Attestation!Groups -> RunType] /\ queued' \subseteq Attestation!Groups
      /\ \A h \in queued' : runs'[h].pc \notin {"idle", "failed"}
      /\ runs'[g].pc = "resolve" \/ g \in queued'
      /\ c => runs'[g].pc = "resolve"
      /\ \A h \in Attestation!Groups : runs'[h] = runs[h] \/ runs'[h].pc = "resolve"
  BY StartsOne DEF AttestationInv
<1>2. AttestationTyped'
  BY <1>1 DEF AttestationInv, AttestationTyped, PrType
<1>3. Underway'
  BY <1>1 DEF Underway
<1>4. RunsHold'
  <2>1. \A h \in Attestation!Groups : runs'[h].pc = "publish" => runs[h].pc = "publish"
    BY <1>1
  <2>2. ASSUME Attestation!Open', NEW h \in Attestation!Groups, runs'[h].pc \in {"payload", "publish"}, runs'[h].sha # pr'.head
        PROVE  h = "reviewer" /\ agent' = "running"
    <3>1. Attestation!Open /\ runs'[h] = runs[h] /\ (c => h # g)
      BY <1>1, <2>2 DEF Attestation!Open
    <3>2. h \in {"pull request", "reviewer"}
      BY DEF Attestation!Groups
    <3>3. CASE pr'.head = pr.head
      <4>1. h = "reviewer" /\ agent = "running"
        BY <2>2, <3>1, <3>3 DEF AttestationInv, RunsHold
      <4> QED
        BY <3>1, <4>1
    <3>4. CASE pr'.head # pr.head
      BY <3>1, <3>2, <3>4
    <3> QED
      BY <3>3, <3>4
  <2> QED
    BY <1>3, <2>1, <2>2 DEF AttestationInv, RunsHold
<1>5. Attestation!StatusIsCurrent'
  BY <1>3 DEF Underway, Attestation!StatusIsCurrent
<1> QED
  BY <1>2, <1>4, <1>5 DEF AttestationInv

\* What happens to the pull request.
LEMMA RequestStep ==
  ASSUME AttestationInv,
         \/ \E files \in {"code", "exempt"} : Attestation!Push(files)
         \/ \E r \in Attestation!Reviews : Attestation!Reviewed(r)
         \/ \E c \in Attestation!Comments : Attestation!Commented(c)
         \/ Attestation!OwnReviewed \/ Attestation!AgentEnds \/ Attestation!Relabelled \/ Attestation!Rewritten
         \/ Attestation!Merge
  PROVE  AttestationInv'
<1>1. pr \in PrType /\ "pull request" \in Attestation!Groups /\ "reviewer" \in Attestation!Groups
  BY TwoGroups DEF AttestationInv, AttestationTyped
<1>2. ASSUME NEW files \in {"code", "exempt"}, Attestation!Push(files) PROVE AttestationInv'
  <2>1. pr' \in PrType /\ pr'.state = pr.state
    <3>1. pr.head + 1 \in Commits
      <4>1. pr.head \in Commits /\ pr.head < MaxHeads
        BY <1>1, <1>2 DEF PrType, Attestation!Push
      <4> QED
        BY <4>1, AttestationAssumption DEF Commits
    <3> QED
      BY <1>1, <1>2, <3>1 DEF Attestation!Push, PrType
  <2> QED
    BY <1>1, <1>2, <2>1, EventStep DEF Attestation!Push
<1>3. ASSUME NEW r \in Attestation!Reviews, Attestation!Reviewed(r) PROVE AttestationInv'
  <2>1. pr' \in PrType /\ pr'.state = pr.state /\ pr'.head = pr.head
    BY <1>1, <1>3 DEF Attestation!Reviewed, PrType
  <2> QED
    BY <1>1, <1>3, <2>1, EventStep DEF Attestation!Reviewed
<1>4. ASSUME NEW c \in Attestation!Comments, Attestation!Commented(c) PROVE AttestationInv'
  <2>1. pr' \in PrType /\ pr'.state = pr.state /\ pr'.head = pr.head
    BY <1>1, <1>4 DEF Attestation!Commented, PrType
  <2> QED
    BY <1>1, <1>4, <2>1, EventStep DEF Attestation!Commented
<1>5. CASE Attestation!OwnReviewed
  <2>1. pr' \in PrType /\ pr'.state = pr.state /\ pr'.head = pr.head
    BY <1>1, <1>5 DEF Attestation!OwnReviewed, PrType
  <2>2. UNCHANGED <<agent, runs, queued, status>> /\ agent = "running"
    BY <1>5 DEF Attestation!OwnReviewed
  <2>3. AttestationTyped'
    BY <2>1, <2>2 DEF AttestationInv, AttestationTyped
  <2>4. RunsHold'
    BY <2>1, <2>2 DEF AttestationInv, RunsHold, Underway, Attestation!Open
  <2>5. Attestation!StatusIsCurrent'
    BY <2>2 DEF Attestation!StatusIsCurrent
  <2> QED
    BY <2>3, <2>4, <2>5 DEF AttestationInv
<1>6. CASE Attestation!AgentEnds
  BY <1>1, <1>6, EventStep DEF Attestation!AgentEnds
<1>7. CASE Attestation!Relabelled
  <2>1. pr' \in PrType /\ pr'.state = pr.state /\ pr'.head = pr.head
    <3>1. pr' = [pr EXCEPT !.label = ~pr.label] /\ (~pr.label) \in BOOLEAN
      BY <1>1, <1>7 DEF Attestation!Relabelled
    <3> QED
      BY <1>1, <3>1 DEF PrType
  <2> QED
    BY <1>1, <1>7, <2>1, EventStep DEF Attestation!Relabelled
<1>8. CASE Attestation!Rewritten
  <2>1. pr' \in PrType /\ pr'.state = pr.state /\ pr'.head = pr.head
    <3>1. pr' = [pr EXCEPT !.section = ~pr.section] /\ (~pr.section) \in BOOLEAN
      BY <1>1, <1>8 DEF Attestation!Rewritten
    <3> QED
      BY <1>1, <3>1 DEF PrType
  <2> QED
    BY <1>1, <1>8, <2>1, EventStep DEF Attestation!Rewritten
<1>9. CASE Attestation!Merge
  <2>1. pr' \in PrType /\ ~Attestation!Open' /\ UNCHANGED <<agent, runs, queued, status>>
    BY <1>1, <1>9 DEF Attestation!Merge, PrType, Attestation!Open
  <2>2. AttestationTyped'
    BY <2>1 DEF AttestationInv, AttestationTyped
  <2>3. RunsHold' /\ Attestation!StatusIsCurrent'
    BY <2>1 DEF AttestationInv, RunsHold, Attestation!StatusIsCurrent
  <2> QED
    BY <2>2, <2>3 DEF AttestationInv
<1> QED
  BY <1>2, <1>3, <1>4, <1>5, <1>6, <1>7, <1>8, <1>9

\* What is printed of a pull request makes the status that the gate has to give it.
LEMMA PrintedIsDue ==
  /\ Attestation!Printed(pr) \in {"attested", "exempt", "disclosed", "disclosed-declined", "declined", "pending"}
  /\ Attestation!Published(Attestation!Printed(pr)) = Attestation!StatusDue
<1>1. (Attestation!Attesting(pr) # {} \/ Attestation!CommentShaped(pr) # {}) <=> Attestation!SomebodyReviewed
  BY DEF Attestation!Attesting, Attestation!CommentShaped, Attestation!SomebodyReviewed, Attestation!Norm,
     Attestation!Declared, Attestation!Member
<1>2. Attestation!Declines(pr) # {} <=> Attestation!Notice
  BY DEF Attestation!Declines, Attestation!Notice, Attestation!Norm, Attestation!Declared
<1>3. CASE Attestation!SomebodyReviewed
  <2>1. Attestation!Classify(pr) = "attested"
    BY <1>1, <1>3 DEF Attestation!Classify
  <2> QED
    BY <1>3, <2>1 DEF Attestation!Printed, Attestation!Published, Attestation!StatusDue
<1>4. CASE ~Attestation!SomebodyReviewed
  <2>1. Attestation!Attesting(pr) = {} /\ Attestation!CommentShaped(pr) = {}
    BY <1>1, <1>4
  <2>2. CASE pr.files = "exempt"
    <3>1. Attestation!Classify(pr) = "exempt"
      BY <2>1, <2>2 DEF Attestation!Classify
    <3> QED
      BY <1>4, <2>2, <3>1 DEF Attestation!Printed, Attestation!Published, Attestation!StatusDue
  <2>3. CASE pr.files # "exempt"
    <3>1. Attestation!Classify(pr) = IF pr.label /\ pr.section THEN "disclosed"
                                     ELSE IF Attestation!Declines(pr) # {} THEN "declined" ELSE "pending"
      BY <2>1, <2>3 DEF Attestation!Classify
    <3>2. CASE pr.label /\ pr.section
      BY <1>2, <1>4, <2>3, <3>1, <3>2 DEF Attestation!Printed, Attestation!Published, Attestation!StatusDue
    <3>3. CASE ~(pr.label /\ pr.section)
      BY <1>4, <2>3, <3>1, <3>3 DEF Attestation!Printed, Attestation!Published, Attestation!StatusDue
    <3> QED
      BY <3>2, <3>3
  <2> QED
    BY <2>2, <2>3
<1> QED
  BY <1>3, <1>4

\* The runs.
LEMMA RunStep ==
  ASSUME AttestationInv, NEW g \in Attestation!Groups,
         Attestation!Resolve(g) \/ Attestation!Read(g) \/ Attestation!Publish(g) \/ Attestation!Fail(g) \/ Attestation!Rerun(g)
  PROVE  AttestationInv'
<1>1. pr \in PrType /\ runs \in [Attestation!Groups -> RunType] /\ status \in [Commits -> Words] /\ UNCHANGED <<pr, agent>>
  BY DEF AttestationInv, AttestationTyped, Attestation!Resolve, Attestation!Read, Attestation!Publish, Attestation!Fail,
     Attestation!Rerun
<1>2. Attestation!StatusDue' = Attestation!StatusDue
  BY <1>1 DEF Attestation!StatusDue, Attestation!SomebodyReviewed, Attestation!Notice
<1> DEFINE due == Attestation!StatusDue
<1> HIDE DEF due
<1>3. ASSUME Underway', UNCHANGED status, runs' \in [Attestation!Groups -> RunType],
             queued' \subseteq Attestation!Groups, \A h \in queued' : runs'[h].pc \notin {"idle", "failed"},
             \A h \in Attestation!Groups : h # g => runs'[h] = runs[h],
             runs'[g].pc # "publish",
             runs'[g].pc = "payload" => runs'[g].sha = pr.head
      PROVE  AttestationInv'
  <2>1. AttestationTyped'
    BY <1>1, <1>3 DEF AttestationTyped
  <2>2. RunsHold'
    BY <1>1, <1>3 DEF AttestationInv, RunsHold, Attestation!Open
  <2>3. Attestation!StatusIsCurrent'
    BY <1>3 DEF Underway, Attestation!StatusIsCurrent
  <2> QED
    BY <2>1, <2>2, <2>3 DEF AttestationInv
<1>4. CASE Attestation!Resolve(g)
  <2>1. runs' = [runs EXCEPT ![g].pc = "payload", ![g].sha = pr.head] /\ UNCHANGED <<queued, status>>
    BY <1>4 DEF Attestation!Resolve
  <2>2. /\ runs' \in [Attestation!Groups -> RunType] /\ runs'[g].pc = "payload" /\ runs'[g].sha = pr.head
        /\ \A h \in Attestation!Groups : h # g => runs'[h] = runs[h]
    <3>1. pr.head \in Commits
      BY <1>1 DEF PrType
    <3>2. pr.head \in 0..MaxHeads
      BY <3>1, AttestationAssumption DEF Commits
    <3> QED
      BY <1>1, <2>1, <3>2 DEF RunType
  <2>3. Underway' /\ queued \subseteq Attestation!Groups /\ \A h \in queued : runs'[h].pc \notin {"idle", "failed"}
    BY <2>2 DEF Underway, AttestationInv, AttestationTyped
  <2> QED
    BY <1>3, <2>1, <2>2, <2>3
<1>5. CASE Attestation!Rerun(g)
  <2>1. runs' = [runs EXCEPT ![g] = Attestation!Begun] /\ UNCHANGED <<queued, status>>
    BY <1>5 DEF Attestation!Rerun
  <2>2. /\ runs' \in [Attestation!Groups -> RunType] /\ runs'[g].pc = "resolve"
        /\ \A h \in Attestation!Groups : h # g => runs'[h] = runs[h]
    BY <1>1, <2>1, FreshRuns
  <2>3. Underway' /\ queued \subseteq Attestation!Groups /\ \A h \in queued : runs'[h].pc \notin {"idle", "failed"}
    BY <2>2 DEF Underway, AttestationInv, AttestationTyped
  <2> QED
    BY <1>3, <2>1, <2>2, <2>3
<1>6. CASE Attestation!Fail(g)
  <2> DEFINE end == [Attestation!NoRun EXCEPT !.pc = "failed"]
  <2>1. Attestation!Ends(g, end) /\ UNCHANGED status
    BY <1>6 DEF Attestation!Fail
  <2>2. end \in RunType /\ end.pc = "failed"
    BY FreshRuns
  <2> HIDE DEF end
  <2>3. /\ runs' \in [Attestation!Groups -> RunType] /\ queued' \subseteq Attestation!Groups
        /\ \A h \in queued' : runs'[h].pc \notin {"idle", "failed"}
        /\ \A h \in Attestation!Groups : h # g => runs'[h] = runs[h]
        /\ IF g \in queued THEN runs'[g].pc = "resolve" ELSE runs'[g] = end
    BY <2>1, <2>2, EndsOne DEF AttestationInv
  <2>4. runs'[g].pc \in {"resolve", "failed"}
    BY <2>2, <2>3
  <2>5. Underway'
    BY <2>4 DEF Underway
  <2> QED
    BY <1>3, <2>1, <2>3, <2>4, <2>5
<1>7. CASE Attestation!Read(g)
  <2> DEFINE v == Attestation!Printed(pr)
  <2>1. /\ v \in {"attested", "exempt", "disclosed", "disclosed-declined", "declined", "pending"}
        /\ Attestation!Published(v) = due
    BY PrintedIsDue DEF due
  <2>2. /\ runs' = [runs EXCEPT ![g].pc = "publish", ![g].read = v] /\ UNCHANGED <<queued, status>>
        /\ runs[g].pc = "payload" /\ \A h \in Attestation!Groups : runs[h].pc # "publish"
    BY <1>7 DEF Attestation!Read
  <2> HIDE DEF v
  <2>3. /\ runs' \in [Attestation!Groups -> RunType]
        /\ runs'[g].pc = "publish" /\ runs'[g].sha = runs[g].sha /\ runs'[g].read = v
        /\ \A h \in Attestation!Groups : h # g => runs'[h] = runs[h]
    BY <1>1, <2>1, <2>2 DEF RunType
  <2>4. AttestationTyped'
    BY <1>1, <2>2, <2>3 DEF AttestationInv, AttestationTyped
  <2>5. RunsHold'
    <3>1. \A h \in Attestation!Groups : runs'[h].pc = "publish" => h = g
      BY <2>2, <2>3
    <3>2. \A h \in Attestation!Groups : runs'[h].pc \in {"payload", "publish"} =>
              runs[h].pc \in {"payload", "publish"} /\ runs'[h].sha = runs[h].sha
      BY <2>2, <2>3
    <3>3. Attestation!Published(runs[g].read)' = Attestation!StatusDue'
      BY <1>2, <2>1, <2>3 DEF due, Attestation!Published
    <3> QED
      BY <1>1, <3>1, <3>2, <3>3 DEF AttestationInv, RunsHold, Attestation!Open
  <2>6. Attestation!StatusIsCurrent'
    <3>1. CASE ~Attestation!Open'
      BY <3>1 DEF Attestation!StatusIsCurrent
    <3>2. CASE Attestation!Open' /\ runs[g].sha # pr.head
      BY <1>1, <2>2, <3>2 DEF AttestationInv, RunsHold, Attestation!Open, Attestation!StatusIsCurrent
    <3>3. CASE runs[g].sha = pr.head
      <4>1. Attestation!Published(runs[g].read)' = Attestation!StatusDue'
        BY <1>2, <2>1, <2>3 DEF due, Attestation!Published
      <4> QED
        BY <1>1, <2>3, <3>3, <4>1 DEF Attestation!StatusIsCurrent
    <3> QED
      BY <3>1, <3>2, <3>3
  <2> QED
    BY <2>4, <2>5, <2>6 DEF AttestationInv
<1>8. CASE Attestation!Publish(g)
  <2>1. /\ Attestation!Ends(g, Attestation!NoRun) /\ runs[g].pc = "publish"
        /\ status' = [status EXCEPT ![runs[g].sha] = Attestation!Published(runs[g].read)]
    BY <1>8 DEF Attestation!Publish
  <2>2. /\ runs' \in [Attestation!Groups -> RunType] /\ queued' \subseteq Attestation!Groups
        /\ \A h \in queued' : runs'[h].pc \notin {"idle", "failed"}
        /\ \A h \in Attestation!Groups : h # g => runs'[h] = runs[h] /\ (h \in queued => h \in queued')
        /\ IF g \in queued THEN runs'[g].pc = "resolve" ELSE runs'[g] = Attestation!NoRun
    BY <2>1, FreshRuns, EndsOne DEF AttestationInv
  <2>3. \A h \in Attestation!Groups : runs'[h].pc # "publish"
    BY <2>1, <2>2, FreshRuns DEF AttestationInv, RunsHold
  <2>4. Underway => Underway'
    BY <1>1, <2>1, <2>2 DEF Underway
  <2>5. AttestationTyped'
    <3>1. Attestation!Published(runs[g].read) \in Words
      BY DEF Attestation!Published, Words
    <3> QED
      BY <1>1, <2>1, <2>2, <3>1 DEF AttestationTyped
  <2>6. RunsHold'
    <3>1. \A h \in Attestation!Groups : runs'[h].pc = "payload" => runs'[h] = runs[h]
      BY <2>2, FreshRuns
    <3> QED
      BY <1>1, <2>3, <3>1 DEF AttestationInv, RunsHold, Attestation!Open
  <2>7. Attestation!StatusIsCurrent'
    <3> SUFFICES ASSUME Attestation!Open', status'[pr'.head] # Attestation!StatusDue' PROVE Underway'
      BY DEF Underway, Attestation!StatusIsCurrent
    <3>1. Attestation!Open /\ pr' = pr /\ pr.head \in Commits /\ status'[pr.head] # Attestation!StatusDue
      BY <1>1, <1>2 DEF Attestation!Open, PrType
    <3>2. CASE runs[g].sha # pr.head
      <4>1. agent = "running"
        BY <2>1, <3>1, <3>2 DEF AttestationInv, RunsHold
      <4> QED
        BY <2>4, <4>1 DEF Underway
    <3>3. CASE runs[g].sha = pr.head
      <4>1. Attestation!Published(runs[g].read) # Attestation!StatusDue
        BY <1>1, <2>1, <3>1, <3>3
      <4>2. Underway
        BY <2>1, <3>1, <4>1 DEF AttestationInv, RunsHold
      <4> QED
        BY <2>4, <4>2
    <3> QED
      BY <3>2, <3>3
  <2> QED
    BY <2>5, <2>6, <2>7 DEF AttestationInv
<1> QED
  BY <1>4, <1>5, <1>6, <1>7, <1>8

\* Every step of the attestation.
LEMMA AttestationStep == ASSUME AttestationInv, Attestation!Next PROVE AttestationInv'
BY RequestStep, RunStep DEF Attestation!Next

\* Reviews and comments are never taken back.
LEMMA SaidStays ==
  ASSUME AttestationTyped, Attestation!Next
  PROVE  pr.reviews \subseteq pr'.reviews /\ pr.comments \subseteq pr'.comments
<1>1. pr \in PrType
  BY DEF AttestationTyped
<1>2. ASSUME NEW files \in {"code", "exempt"}, Attestation!Push(files) PROVE UNCHANGED <<pr.reviews, pr.comments>>
  BY <1>1, <1>2 DEF Attestation!Push, PrType
<1>3. ASSUME NEW r \in Attestation!Reviews, Attestation!Reviewed(r)
      PROVE  pr'.reviews = pr.reviews \cup {r} /\ pr'.comments = pr.comments
  BY <1>1, <1>3 DEF Attestation!Reviewed, PrType
<1>4. ASSUME NEW c, Attestation!Commented(c) PROVE pr'.reviews = pr.reviews /\ pr'.comments = pr.comments \cup {c}
  BY <1>1, <1>4 DEF Attestation!Commented, PrType
<1>5. ASSUME Attestation!OwnReviewed PROVE pr'.reviews = pr.reviews /\ pr'.comments = pr.comments \cup {Attestation!OwnReview}
  BY <1>1, <1>5 DEF Attestation!OwnReviewed, PrType
<1>6. ASSUME Attestation!Relabelled \/ Attestation!Rewritten \/ Attestation!Merge
      PROVE  UNCHANGED <<pr.reviews, pr.comments>>
  BY <1>1, <1>6 DEF Attestation!Relabelled, Attestation!Rewritten, Attestation!Merge, PrType
<1>7. ASSUME NEW g, Attestation!Resolve(g) \/ Attestation!Read(g) \/ Attestation!Publish(g) \/ Attestation!Fail(g) \/ Attestation!Rerun(g)
      PROVE  UNCHANGED pr
  BY <1>7 DEF Attestation!Resolve, Attestation!Read, Attestation!Publish, Attestation!Fail, Attestation!Rerun
<1>8. Attestation!AgentEnds => UNCHANGED pr
  BY DEF Attestation!AgentEnds
<1> QED
  BY <1>2, <1>3, <1>4, <1>5, <1>6, <1>7, <1>8 DEF Attestation!Next

\* What is published of a review has been said, and is not taken back.
LEMMA SaidOfReviewsStays ==
  ASSUME AttestationTyped, SaidOfReviews, Attestation!Next
  PROVE  SaidOfReviews'
<1>1. Attestation!SomebodyReviewed \/ Attestation!Notice => (Attestation!SomebodyReviewed \/ Attestation!Notice)'
  BY SaidStays DEF Attestation!SomebodyReviewed, Attestation!Notice
<1>2. /\ runs \in [Attestation!Groups -> RunType] /\ status \in [Commits -> Words]
      /\ \A r : Attestation!Published(r)' = Attestation!Published(r)
  BY DEF AttestationTyped, Attestation!Published
<1>3. ASSUME UNCHANGED status,
             \A h \in Attestation!Groups : runs'[h].pc = "publish" => runs[h].pc = "publish" /\ runs'[h].read = runs[h].read
      PROVE  SaidOfReviews'
  BY <1>1, <1>2, <1>3 DEF SaidOfReviews, Attestation!ReviewOrNotice
<1>4. ASSUME NEW g \in Attestation!Groups, NEW c \in BOOLEAN, Attestation!Starts(g, c), UNCHANGED status
      PROVE  SaidOfReviews'
  <2>1. \A h \in Attestation!Groups : runs'[h] = runs[h] \/ runs'[h].pc = "resolve"
    BY <1>4, StartsOne
  <2> QED
    BY <1>3, <1>4, <2>1
<1>5. ASSUME NEW g \in Attestation!Groups, Attestation!Resolve(g) \/ Attestation!Rerun(g) PROVE SaidOfReviews'
  BY <1>2, <1>3, <1>5, FreshRuns DEF Attestation!Resolve, Attestation!Rerun, RunType
<1>6. ASSUME NEW g \in Attestation!Groups, NEW end \in RunType, end.pc \in {"idle", "failed"}, Attestation!Ends(g, end)
      PROVE  \A h \in Attestation!Groups : runs'[h].pc = "publish" => runs'[h] = runs[h]
  BY <1>6, EndsOne
<1>7. ASSUME NEW g \in Attestation!Groups, Attestation!Fail(g) PROVE SaidOfReviews'
  <2>1. Attestation!Ends(g, [Attestation!NoRun EXCEPT !.pc = "failed"]) /\ UNCHANGED status
    BY <1>7 DEF Attestation!Fail
  <2>2. \A h \in Attestation!Groups : runs'[h].pc = "publish" => runs'[h] = runs[h]
    BY <1>6, <2>1, FreshRuns
  <2> QED
    BY <1>3, <2>1, <2>2
<1>8. ASSUME NEW g \in Attestation!Groups, Attestation!Read(g) PROVE SaidOfReviews'
  <2>1. UNCHANGED <<pr, status>> /\ runs' = [runs EXCEPT ![g].pc = "publish", ![g].read = Attestation!Printed(pr)]
    BY <1>8 DEF Attestation!Read
  <2>2. Attestation!StatusDue = "a review happened" => Attestation!SomebodyReviewed \/ Attestation!Notice
    BY DEF Attestation!StatusDue
  <2>3. runs'[g].read = Attestation!Printed(pr) /\ \A h \in Attestation!Groups : h # g => runs'[h] = runs[h]
    BY <1>2, <2>1 DEF RunType
  <2>4. Attestation!Published(runs'[g].read) = Attestation!StatusDue
    BY <2>3, PrintedIsDue
  <2> QED
    BY <1>1, <1>2, <2>1, <2>2, <2>3, <2>4 DEF SaidOfReviews, Attestation!ReviewOrNotice
<1>9. ASSUME NEW g \in Attestation!Groups, Attestation!Publish(g) PROVE SaidOfReviews'
  <2>1. /\ Attestation!Ends(g, Attestation!NoRun) /\ runs[g].pc = "publish"
        /\ status' = [status EXCEPT ![runs[g].sha] = Attestation!Published(runs[g].read)]
    BY <1>9 DEF Attestation!Publish
  <2>2. \A h \in Attestation!Groups : runs'[h].pc = "publish" => runs'[h] = runs[h]
    BY <1>6, <2>1, FreshRuns
  <2>3. Attestation!Published(runs[g].read) = "a review happened" => Attestation!SomebodyReviewed \/ Attestation!Notice
    BY <2>1 DEF SaidOfReviews
  <2>4. \A c \in Commits : status'[c] = status[c] \/ status'[c] = Attestation!Published(runs[g].read)
    BY <1>2, <2>1
  <2>5. Attestation!ReviewOrNotice'
    BY <1>1, <2>3, <2>4 DEF SaidOfReviews, Attestation!ReviewOrNotice, Commits
  <2> QED
    BY <1>1, <1>2, <2>2, <2>5 DEF SaidOfReviews
<1>10. "pull request" \in Attestation!Groups /\ "reviewer" \in Attestation!Groups
  BY TwoGroups
<1>11. CASE Attestation!OwnReviewed \/ Attestation!Merge
  BY <1>3, <1>11 DEF Attestation!OwnReviewed, Attestation!Merge
<1>12. CASE Attestation!AgentEnds \/ Attestation!Relabelled \/ Attestation!Rewritten
  BY <1>4, <1>10, <1>12 DEF Attestation!AgentEnds, Attestation!Relabelled, Attestation!Rewritten
<1>13. ASSUME NEW x, Attestation!Push(x) \/ Attestation!Reviewed(x) \/ Attestation!Commented(x) PROVE SaidOfReviews'
  BY <1>4, <1>10, <1>13 DEF Attestation!Push, Attestation!Reviewed, Attestation!Commented
<1> QED
  BY <1>5, <1>7, <1>8, <1>9, <1>11, <1>12, <1>13 DEF Attestation!Next

\* At the beginning nothing is published, and it does not hang on the other parts.
LEMMA SaidOfReviewsInit == ASSUME Attestation!Init PROVE SaidOfReviews
BY FreshRuns DEF Attestation!Init, SaidOfReviews, Attestation!ReviewOrNotice

\* The other parts take nothing from it.
LEMMA SaidOfReviewsRests == ASSUME SaidOfReviews, UNCHANGED attestationVars PROVE SaidOfReviews'
BY DEF attestationVars, SaidOfReviews, Attestation!ReviewOrNotice, Attestation!SomebodyReviewed, Attestation!Notice,
   Attestation!Published

\* What attests stays with what was said.
LEMMA AttestedIsKept ==
  ASSUME pr.reviews \subseteq pr'.reviews, pr.comments \subseteq pr'.comments
  PROVE  Attestation!AttestedStays
<1>1. Attestation!Attesting(pr) \subseteq Attestation!Attesting(pr')
  BY DEF Attestation!Attesting
<1>2. Attestation!CommentShaped(pr) \subseteq Attestation!CommentShaped(pr')
  BY DEF Attestation!CommentShaped
<1>3. Attestation!Classify(pr) = "attested" => Attestation!Attesting(pr) # {} \/ Attestation!CommentShaped(pr) # {}
  BY DEF Attestation!Classify
<1>4. Attestation!Attesting(pr') # {} \/ Attestation!CommentShaped(pr') # {} => Attestation!Classify(pr') = "attested"
  BY DEF Attestation!Classify
<1>5. Attestation!Classify(pr)' = Attestation!Classify(pr')
  BY DEF Attestation!Classify, Attestation!Attesting, Attestation!CommentShaped, Attestation!Declines
<1> QED
  BY <1>1, <1>2, <1>3, <1>4, <1>5 DEF Attestation!AttestedStays

\* The types that are checked follow.
LEMMA AttestationIsTyped == ASSUME AttestationInv PROVE Attestation!TypeOK
BY DEF AttestationInv, AttestationTyped, PrType, RunType, Commits, Words, Attestation!TypeOK

-----------------------------------------------------------------------------
\* The gate of the specs

\* People wait for the gate, or the branch requires it; and a push moves a spec into
\* the archive, it does not copy it there.
Guarded == ("Spec archive gate" \in Required \/ Waits) /\ ~Copies

SpecsTyped ==
    /\ state \in {"open", "merged"} /\ head \in 1..MaxPush
    /\ body \in Specs!Bodies /\ run.body \in Specs!Bodies
    /\ tree \in [Issues -> Specs!Places]
    /\ run.going \in BOOLEAN

\* While no run is going the verdict is that of the body and the tree; a run that is
\* going has the last event's body and there is no verdict; what merged had passed.
VerdictIsFresh ==
    /\ run.going => run.body = body /\ verdict = "none"
    /\ Guarded /\ run.going => state = "open"
    /\ verdict # "none" => verdict = Specs!Report(body, tree)
    /\ Guarded /\ state = "merged" => verdict = "passed"

SpecsInv == SpecsTyped /\ VerdictIsFresh

\* No record of a run that has ended says that it goes on.
LEMMA NoRunIsTyped == Specs!NoRun.going = FALSE /\ Specs!NoRun.body \in Specs!Bodies
BY DEF Specs!NoRun, Specs!Bodies

\* The gate at the beginning.
LEMMA SpecsInit == ASSUME Specs!Init PROVE SpecsInv
<1> USE DEF Specs!Init
<1>1. body \in Specs!Bodies
  BY DEF Specs!Bodies
<1>2. 1 \in 1..MaxPush
  <2>1. MaxPush >= 1 /\ MaxPush \in Int
    BY SpecsAssumption
  <2> QED
    BY <2>1
<1>3. SpecsTyped
  BY <1>1, <1>2 DEF SpecsTyped, Specs!Places
<1>4. VerdictIsFresh
  BY DEF VerdictIsFresh
<1> QED
  BY <1>3, <1>4 DEF SpecsInv

\* What holds of it does not hang on the other parts.
LEMMA SpecsRest == ASSUME SpecsInv, UNCHANGED specVars PROVE SpecsInv'
BY DEF specVars, SpecsInv, SpecsTyped, VerdictIsFresh, Specs!Report, Specs!Violations, Specs!ClosedIssues, Specs!Active,
   Specs!Archived, Specs!Unsigned

\* An event's run has its body and there is no verdict yet.
LEMMA TriggeredIsFresh ==
  ASSUME SpecsInv, state = "open", UNCHANGED state, head' \in 1..MaxPush, body' \in Specs!Bodies,
         tree' \in [Issues -> Specs!Places], Specs!Triggers
  PROVE  SpecsInv'
<1>1. run' = [going |-> TRUE, body |-> body', sha |-> head'] /\ verdict' = "none"
  BY DEF Specs!Triggers
<1>2. SpecsTyped'
  BY <1>1 DEF SpecsInv, SpecsTyped
<1>3. VerdictIsFresh'
  BY <1>1 DEF VerdictIsFresh
<1> QED
  BY <1>2, <1>3 DEF SpecsInv

\* The gate's verdict is fresh at every moment.
LEMMA SpecsStep == ASSUME SpecsInv, Specs!Next PROVE SpecsInv'
<1> USE DEF SpecsInv
<1>1. CASE Specs!Push
  <2>1. tree' \in [Issues -> Specs!Places]
    BY <1>1 DEF SpecsTyped, Specs!Push
  <2>2. head' \in 1..MaxPush
    <3>1. head \in 1..MaxPush /\ head < MaxPush /\ head' = head + 1
      BY <1>1 DEF SpecsTyped, Specs!Push
    <3> QED
      BY <3>1, SpecsAssumption
  <2> QED
    BY <1>1, <2>1, <2>2, TriggeredIsFresh DEF SpecsTyped, Specs!Push
<1>2. CASE Specs!Edit
  BY <1>2, TriggeredIsFresh DEF SpecsTyped, Specs!Edit
<1>3. CASE Specs!Judge
  <2>1. SpecsTyped'
    BY <1>3, NoRunIsTyped DEF SpecsTyped, Specs!Judge
  <2>2. verdict' = Specs!Report(body', tree')
    BY <1>3 DEF VerdictIsFresh, Specs!Judge
  <2>3. VerdictIsFresh'
    BY <1>3, <2>2, NoRunIsTyped DEF VerdictIsFresh, Specs!Judge
  <2> QED
    BY <2>1, <2>3
<1>4. CASE Specs!Merge
  <2>1. SpecsTyped'
    BY <1>4 DEF SpecsTyped, Specs!Merge
  <2>2. Guarded => verdict = "passed"
    BY <1>4 DEF Specs!Merge, Guarded
  <2>3. VerdictIsFresh'
    BY <1>4, <2>2 DEF VerdictIsFresh, Specs!Merge, Specs!Report, Guarded
  <2> QED
    BY <2>1, <2>3
<1> QED
  BY <1>1, <1>2, <1>3, <1>4 DEF Specs!Next

\* A body and a tree that pass without a waiver close only specs that are archived
\* and signed.
LEMMA PassedIsSigned ==
  ASSUME ~Copies, NEW b \in Specs!Bodies, NEW t \in [Issues -> Specs!Places],
         Specs!Report(b, t) = "passed", b.waiver # "declared", NEW s \in b.closes \ b.quoted
  PROVE  t[s] = "signed"
<1>1. s \in Issues
  BY DEF Specs!Bodies
<1>2. s \notin Specs!Active(t) \ Specs!Archived(t) /\ s \notin Specs!Unsigned(t)
  BY DEF Specs!Report, Specs!Violations, Specs!ClosedIssues
<1>3. t[s] \in {"active", "archived", "signed"}
  BY <1>1 DEF Specs!Places
<1> QED
  BY <1>1, <1>2, <1>3 DEF Specs!Active, Specs!Archived, Specs!Unsigned

\* The types, and what closed had passed.
LEMMA SpecsAreTyped ==
  ASSUME SpecsInv
  PROVE  Specs!TypeOK /\ (Guarded => Specs!ClosedIsSigned)
<1>1. Specs!TypeOK
  BY DEF SpecsInv, SpecsTyped, VerdictIsFresh, Specs!TypeOK
<1>2. Guarded => Specs!ClosedIsSigned
  BY PassedIsSigned DEF SpecsInv, SpecsTyped, VerdictIsFresh, Specs!ClosedIsSigned, Guarded
<1> QED
  BY <1>1, <1>2

-----------------------------------------------------------------------------
\* The branch protection

SetterType == [pc : {"idle", "get", "put", "verify"}, apply : BOOLEAN, at : 1..(Len(Branches) + 1),
            snap : Protection!Protections \cup {None}, pending : BOOLEAN, since : Nat]

ProtectionTyped ==
    /\ guard \in [Protection!BranchSet -> Protection!Protections \cup {None}]
    /\ setter \in SetterType
    /\ report \in {"nothing", "failed", "agrees", "disagrees"}
    /\ edits \in Nat
    /\ setter.pc \in {"put", "verify"} => setter.at <= Len(Branches) /\ setter.snap \in Protection!Protections

\* Whether GitHub has what is declared of a branch.
Agrees(b) == guard[b] # None /\ ~Protection!Changes(guard[b], b)

\* A command that runs has reported nothing. As long as nobody has edited since it
\* began, what it has read of the branch it works on is what is there, and the
\* branches behind it agree unless it has noted a difference.
SeenIsSo ==
    /\ setter.since <= edits
    /\ setter.pc # "idle" => report = "nothing"
    /\ setter.pc # "idle" /\ edits = setter.since =>
        /\ setter.pc = "put" => setter.snap = guard[Protection!Branch]
        /\ ~setter.pending => \A i \in 1..(setter.at - 1) : Agrees(Branches[i])

ProtectionInv == ProtectionTyped /\ SeenIsSo

\* The branch that a command works on is one of those declared.
LEMMA BranchIsDeclared == ASSUME ProtectionTyped, setter.at <= Len(Branches) PROVE Protection!Branch \in Protection!BranchSet
BY ProtectionAssumption DEF ProtectionTyped, SetterType, Protection!Branch, Protection!BranchSet

\* The body of a write is a protection, and has what is declared.
LEMMA BodyIsDeclared ==
  ASSUME NEW p \in Protection!Protections, NEW b \in Protection!BranchSet
  PROVE  /\ Protection!PutBody(p, b) \in Protection!Protections
         /\ ~Protection!Changes(Protection!PutBody(p, b), b)
         /\ Protection!PutBody(p, b).rest = p.rest
BY ProtectionAssumption DEF Protection!Protections, Protection!PutBody, Protection!Changes

\* A write that GitHub took in part leaves the checks as they were.
LEMMA PartKeepsChecks ==
  ASSUME NEW p \in Protection!Protections, NEW q \in Protection!Protections, NEW b \in Protection!BranchSet
  PROVE  /\ [p EXCEPT !.rest = q.rest] \in Protection!Protections
         /\ Protection!Changes([p EXCEPT !.rest = q.rest], b) <=> Protection!Changes(p, b)
BY DEF Protection!Protections, Protection!Changes

\* The end of a command, and the next branch.
LEMMA NoSetterIsTyped == Protection!Idle \in SetterType
BY ProtectionAssumption DEF Protection!Idle, SetterType

\* A command that goes on to the next branch keeps its type.
LEMMA NextBranchIsTyped ==
  ASSUME setter \in SetterType, setter.at \in 1..Len(Branches), Len(Branches) \in Nat, NEW p \in BOOLEAN, Protection!NextBranch(p)
  PROVE  setter' \in SetterType /\ setter'.pc = "get"
<1>1. setter.at + 1 \in 1..(Len(Branches) + 1)
  OBVIOUS
<1> QED
  BY <1>1 DEF Protection!NextBranch, SetterType

\* Every variable keeps its type.
LEMMA ProtectionTypedStep == ASSUME ProtectionTyped, Protection!Next PROVE ProtectionTyped'
<1> USE DEF ProtectionTyped, SetterType
<1>1. CASE Protection!Start
  <2>1. PICK a \in BOOLEAN : setter' = [Protection!Idle EXCEPT !.pc = "get", !.apply = a, !.since = edits + 1]
    BY <1>1 DEF Protection!Start
  <2>2. setter' \in SetterType /\ setter'.pc = "get"
    <3> DEFINE i == Protection!Idle
    <3>1. i \in SetterType /\ edits + 1 \in Nat
      BY NoSetterIsTyped
    <3>2. setter' = [i EXCEPT !.pc = "get", !.apply = a, !.since = edits + 1]
      BY <2>1
    <3> HIDE DEF i
    <3> QED
      BY <3>1, <3>2
  <2> QED
    BY <1>1, <2>2 DEF Protection!Start, Protection!Hand
<1>2. CASE Protection!Get
  <2>1. setter.at \in 1..Len(Branches) /\ Len(Branches) \in Nat
    BY <1>2, ProtectionAssumption DEF Protection!Get
  <2>2. Protection!Branch \in Protection!BranchSet
    BY <2>1, BranchIsDeclared
  <2>3. CASE Protection!End("failed")
    BY <1>2, <2>3, NoSetterIsTyped DEF Protection!Get, Protection!End, Protection!Idle
  <2>4. CASE setter' = [setter EXCEPT !.pc = "put", !.snap = guard[Protection!Branch]] /\ guard[Protection!Branch] # None /\ UNCHANGED report
    BY <1>2, <2>1, <2>2, <2>4 DEF Protection!Get
  <2>5. CASE Protection!NextBranch(setter.pending \/ Protection!Changes(guard[Protection!Branch], Protection!Branch))
    <3>1. (setter.pending \/ Protection!Changes(guard[Protection!Branch], Protection!Branch)) \in BOOLEAN
      BY DEF Protection!Changes
    <3>2. setter' \in SetterType /\ setter'.pc = "get"
      BY <2>1, <2>5, <3>1, NextBranchIsTyped
    <3> QED
      BY <1>2, <2>5, <3>2 DEF Protection!Get, Protection!NextBranch
  <2> QED
    BY <1>2, <2>3, <2>4, <2>5 DEF Protection!Get
<1>3. CASE Protection!Put
  <2>1. setter.at \in 1..Len(Branches) /\ setter.snap \in Protection!Protections /\ Len(Branches) \in Nat
    BY <1>3, ProtectionAssumption DEF Protection!Put
  <2>2. Protection!Branch \in Protection!BranchSet
    BY <2>1, BranchIsDeclared
  <2>3. Protection!PutBody(setter.snap, Protection!Branch) \in Protection!Protections
    BY <2>1, <2>2, BodyIsDeclared
  <2>4. guard[Protection!Branch] # None => [guard[Protection!Branch] EXCEPT !.rest = Protection!PutBody(setter.snap, Protection!Branch).rest] \in Protection!Protections
    BY <2>2, <2>3, PartKeepsChecks
  <2>5. guard' \in [Protection!BranchSet -> Protection!Protections \cup {None}]
    BY <1>3, <2>2, <2>3, <2>4 DEF Protection!Put
  <2>6. CASE setter' = [setter EXCEPT !.pc = "verify"] /\ UNCHANGED report
    BY <1>3, <2>1, <2>5, <2>6 DEF Protection!Put
  <2>7. CASE Protection!End("failed")
    BY <1>3, <2>5, <2>7, NoSetterIsTyped DEF Protection!Put, Protection!End, Protection!Idle
  <2> QED
    BY <1>3, <2>6, <2>7 DEF Protection!Put
<1>4. CASE Protection!Verify
  <2>1. setter.at \in 1..Len(Branches) /\ Len(Branches) \in Nat
    BY <1>4, ProtectionAssumption DEF Protection!Verify
  <2>2. CASE Protection!NextBranch(setter.pending)
    <3>1. setter' \in SetterType /\ setter'.pc = "get"
      BY <2>1, <2>2, NextBranchIsTyped
    <3> QED
      BY <1>4, <2>2, <3>1 DEF Protection!Verify, Protection!NextBranch
  <2>3. CASE Protection!End("failed")
    BY <1>4, <2>3, NoSetterIsTyped DEF Protection!Verify, Protection!End, Protection!Idle
  <2> QED
    BY <1>4, <2>2, <2>3 DEF Protection!Verify
<1>5. CASE Protection!Finish
  BY <1>5, NoSetterIsTyped DEF Protection!Finish, Protection!End, Protection!Idle
<1>6. CASE Protection!ByHand
  BY <1>6 DEF Protection!ByHand, Protection!Hand
<1> QED
  BY <1>1, <1>2, <1>3, <1>4, <1>5, <1>6 DEF Protection!Next

\* What a command has read and noted stays true while nobody edits.
LEMMA SeenStep == ASSUME ProtectionInv, ProtectionTyped', Protection!Next PROVE SeenIsSo'
<1>1. ProtectionTyped /\ SeenIsSo
  BY DEF ProtectionInv
<1>2. edits \in Nat /\ setter.since \in Nat /\ setter.at \in 1..(Len(Branches) + 1) /\ Len(Branches) \in Nat
  BY <1>1, ProtectionAssumption DEF ProtectionTyped, SetterType
<1>3. CASE Protection!Start
  BY <1>1, <1>2, <1>3 DEF Protection!Start, Protection!Hand, Protection!Idle, SeenIsSo
<1>4. CASE Protection!Get
  <2>1. CASE Protection!End("failed")
    BY <1>1, <1>2, <1>4, <2>1 DEF Protection!Get, Protection!End, Protection!Idle, SeenIsSo
  <2>2. CASE setter' = [setter EXCEPT !.pc = "put", !.snap = guard[Protection!Branch]] /\ UNCHANGED report
    BY <1>1, <1>2, <1>4, <2>2 DEF Protection!Get, SeenIsSo, ProtectionTyped, SetterType, Protection!Branch, Agrees, Protection!Changes
  <2>3. CASE Protection!NextBranch(setter.pending \/ Protection!Changes(guard[Protection!Branch], Protection!Branch)) /\ guard[Protection!Branch] # None
    <3>1. /\ setter'.pc = "get" /\ setter'.at = setter.at + 1 /\ setter'.since = setter.since
          /\ setter'.pending = (setter.pending \/ Protection!Changes(guard[Protection!Branch], Protection!Branch))
      BY <1>1, <2>3 DEF Protection!NextBranch, ProtectionTyped, SetterType
    <3>2. ASSUME setter.since = edits, ~setter'.pending, NEW i \in 1..setter.at PROVE Agrees(Branches[i])
      <4>1. ~setter.pending /\ ~Protection!Changes(guard[Protection!Branch], Protection!Branch)
        BY <3>1, <3>2
      <4>2. CASE i = setter.at
        BY <2>3, <4>1, <4>2 DEF Agrees, Protection!Branch
      <4>3. CASE i # setter.at
        <5>1. i \in 1..(setter.at - 1)
          BY <1>2, <4>3
        <5> QED
          BY <1>1, <1>4, <3>2, <4>1, <5>1 DEF SeenIsSo, Protection!Get
      <4> QED
        BY <4>2, <4>3
    <3>3. ASSUME setter.since = edits, ~setter'.pending, NEW i \in 1..setter.at PROVE Agrees(Branches[i])'
      BY <1>4, <3>2, <3>3 DEF Protection!Get, Agrees, Protection!Changes
    <3> QED
      BY <1>1, <1>2, <1>4, <2>3, <3>1, <3>3 DEF Protection!Get, SeenIsSo, Protection!NextBranch
  <2> QED
    BY <1>4, <2>1, <2>2, <2>3 DEF Protection!Get
<1>5. CASE Protection!Put
  <2>1. Protection!Branch \in Protection!BranchSet /\ setter.snap \in Protection!Protections /\ setter.at \in 1..Len(Branches)
    BY <1>1, <1>2, <1>5, BranchIsDeclared DEF Protection!Put, ProtectionTyped
  <2>2. CASE Protection!End("failed")
    BY <1>1, <1>2, <1>5, <2>2 DEF Protection!Put, Protection!End, Protection!Idle, SeenIsSo
  <2>3. CASE setter' = [setter EXCEPT !.pc = "verify"] /\ UNCHANGED report
    <3> DEFINE wanted == Protection!PutBody(setter.snap, Protection!Branch)
    <3>1. wanted \in Protection!Protections /\ ~Protection!Changes(wanted, Protection!Branch)
      BY <2>1, BodyIsDeclared
    <3>2. setter'.pc = "verify" /\ setter'.at = setter.at /\ setter'.since = setter.since /\ setter'.pending = setter.pending
      BY <1>1, <2>3 DEF ProtectionTyped, SetterType
    <3>3. ASSUME edits = setter.since, ~setter.pending, NEW i \in 1..(setter.at - 1) PROVE Agrees(Branches[i])'
      <4>1. Agrees(Branches[i])
        BY <1>1, <1>5, <3>3 DEF SeenIsSo, Protection!Put
      <4>2. Branches[i] \in Protection!BranchSet /\ guard[Branches[i]] \in Protection!Protections
        BY <1>1, <1>2, <2>1, <4>1 DEF Protection!BranchSet, Agrees, ProtectionTyped
      <4>3. CASE guard' = guard
        BY <4>1, <4>3 DEF Agrees, Protection!Changes
      <4>4. CASE guard' = [guard EXCEPT ![Protection!Branch] = wanted]
        <5>1. CASE Branches[i] = Protection!Branch
          <6>1. guard'[Branches[i]] = wanted
            BY <1>1, <2>1, <4>4, <5>1 DEF ProtectionTyped
          <6>2. wanted # None
            BY <3>1, ProtectionAssumption
          <6> QED
            BY <3>1, <5>1, <6>1, <6>2 DEF Agrees, Protection!Changes
        <5>2. CASE Branches[i] # Protection!Branch
          BY <1>1, <4>1, <4>2, <4>4, <5>2 DEF Agrees, Protection!Changes, ProtectionTyped
        <5> QED
          BY <5>1, <5>2
      <4>5. CASE guard' = [guard EXCEPT ![Protection!Branch] = [@ EXCEPT !.rest = wanted.rest]]
        <5> DEFINE mixed == [guard[Protection!Branch] EXCEPT !.rest = wanted.rest]
        <5>1. CASE Branches[i] = Protection!Branch
          <6>1. guard'[Branches[i]] = mixed
            BY <1>1, <2>1, <4>5, <5>1 DEF ProtectionTyped
          <6>2. ~Protection!Changes(mixed, Protection!Branch)
            BY <2>1, <3>1, <4>1, <4>2, <5>1, PartKeepsChecks DEF Agrees
          <6>3. mixed # None
            BY <3>1, <4>2, <5>1, PartKeepsChecks, <2>1, ProtectionAssumption
          <6> QED
            BY <5>1, <6>1, <6>2, <6>3 DEF Agrees, Protection!Changes
        <5>2. CASE Branches[i] # Protection!Branch
          BY <1>1, <4>1, <4>2, <4>5, <5>2 DEF Agrees, Protection!Changes, ProtectionTyped
        <5> QED
          BY <5>1, <5>2
      <4> QED
        BY <1>5, <4>3, <4>4, <4>5 DEF Protection!Put
    <3> QED
      BY <1>1, <1>2, <1>5, <2>3, <3>2, <3>3 DEF Protection!Put, SeenIsSo
  <2> QED
    BY <1>5, <2>2, <2>3 DEF Protection!Put
<1>6. CASE Protection!Verify
  <2>1. CASE Protection!End("failed")
    BY <1>1, <1>2, <1>6, <2>1 DEF Protection!Verify, Protection!End, Protection!Idle, SeenIsSo
  <2>2. CASE Protection!NextBranch(setter.pending) /\ Agrees(Protection!Branch)
    <3>1. setter'.pc = "get" /\ setter'.at = setter.at + 1 /\ setter'.since = setter.since /\ setter'.pending = setter.pending
      BY <1>1, <2>2 DEF Protection!NextBranch, ProtectionTyped, SetterType
    <3>2. ASSUME setter.since = edits, ~setter.pending, NEW i \in 1..setter.at PROVE Agrees(Branches[i])'
      <4>1. Agrees(Branches[i])
        <5>1. CASE i = setter.at
          BY <2>2, <5>1 DEF Protection!Branch
        <5>2. CASE i # setter.at
          <6>1. i \in 1..(setter.at - 1)
            BY <1>2, <5>2
          <6> QED
            BY <1>1, <1>6, <3>2, <6>1 DEF SeenIsSo, Protection!Verify
        <5> QED
          BY <5>1, <5>2
      <4> QED
        BY <1>6, <4>1 DEF Protection!Verify, Agrees, Protection!Changes
    <3> QED
      BY <1>1, <1>2, <1>6, <2>2, <3>1, <3>2 DEF Protection!Verify, SeenIsSo, Protection!NextBranch
  <2> QED
    BY <1>6, <2>1, <2>2 DEF Protection!Verify, Agrees
<1>7. CASE Protection!Finish
  BY <1>1, <1>2, <1>7 DEF Protection!Finish, Protection!End, Protection!Idle, SeenIsSo
<1>8. CASE Protection!ByHand
  BY <1>1, <1>2, <1>8 DEF Protection!ByHand, Protection!Hand, SeenIsSo
<1> QED
  BY <1>3, <1>4, <1>5, <1>6, <1>7, <1>8 DEF Protection!Next

\* The reconciliation at the beginning.
LEMMA ProtectionInit == ASSUME Protection!Init, edits = 0 PROVE ProtectionInv
<1>1. ProtectionTyped
  BY NoSetterIsTyped DEF Protection!Init, ProtectionTyped, Protection!Idle
<1>2. SeenIsSo
  BY DEF Protection!Init, SeenIsSo, Protection!Idle
<1> QED
  BY <1>1, <1>2 DEF ProtectionInv

\* The write replaces the whole object and still changes nothing but the checks of a
\* branch that nobody else has in hand (branch_protection.py, put_body).
LEMMA RestIsKept == ASSUME ProtectionInv, Protection!Next PROVE Protection!RestStays
<1> SUFFICES ASSUME edits' = edits, NEW b \in Protection!BranchSet,
                    guard'[b] # guard[b], guard[b] # None, edits = setter.since
             PROVE  guard'[b].rest = guard[b].rest
  BY DEF Protection!RestStays
<1>1. Protection!Put
  <2>1. edits + 1 # edits
    BY DEF ProtectionInv, ProtectionTyped
  <2>2. ~Protection!ByHand /\ ~Protection!Start
    BY <2>1 DEF Protection!ByHand, Protection!Start, Protection!Hand
  <2> QED
    BY <2>2 DEF Protection!Next, Protection!Get, Protection!Verify, Protection!Finish
<1>2. /\ setter.at <= Len(Branches) /\ Protection!Branch \in Protection!BranchSet
      /\ setter.snap \in Protection!Protections /\ setter.snap = guard[Protection!Branch]
  BY <1>1, BranchIsDeclared DEF Protection!Put, ProtectionInv, ProtectionTyped, SeenIsSo
<1>3. Protection!PutBody(setter.snap, Protection!Branch).rest = guard[Protection!Branch].rest
  BY <1>2, BodyIsDeclared
<1>4. guard \in [Protection!BranchSet -> Protection!Protections \cup {None}]
  BY DEF ProtectionInv, ProtectionTyped
<1>5. CASE guard' = [guard EXCEPT ![Protection!Branch] = Protection!PutBody(setter.snap, Protection!Branch)]
  BY <1>2, <1>3, <1>4, <1>5
<1>6. CASE guard' = [guard EXCEPT ![Protection!Branch]
                                    = [@ EXCEPT !.rest = Protection!PutBody(setter.snap, Protection!Branch).rest]]
  BY <1>2, <1>3, <1>4, <1>6 DEF Protection!Protections
<1> QED
  BY <1>1, <1>5, <1>6 DEF Protection!Put

\* A command that says that GitHub agrees is right of every branch, whatever was
\* refused, lost or taken in part on the way (reconcile_branch_protection).
LEMMA AgreementIsTrue == ASSUME ProtectionInv, Protection!Next PROVE Protection!AgreesIsSo
<1> SUFFICES ASSUME setter.pc # "idle", report' = "agrees", edits = setter.since, NEW b \in Protection!BranchSet
             PROVE  guard'[b] # None /\ ~Protection!Changes(guard'[b], b)
  BY DEF Protection!AgreesIsSo
<1>1. Protection!Finish /\ ~setter.pending
  BY DEF Protection!Next, Protection!Start, Protection!Get, Protection!Put, Protection!Verify, Protection!Finish,
     Protection!ByHand, Protection!End, Protection!NextBranch, ProtectionInv, SeenIsSo
<1>2. PICK i \in 1..Len(Branches) : b = Branches[i]
  BY ProtectionAssumption DEF Protection!BranchSet
<1>3. i \in 1..(setter.at - 1)
  BY <1>1, <1>2, ProtectionAssumption DEF Protection!Finish, ProtectionInv, ProtectionTyped, SetterType
<1>4. Agrees(b)
  BY <1>1, <1>2, <1>3 DEF ProtectionInv, SeenIsSo, Protection!Finish
<1> QED
  BY <1>1, <1>4 DEF Protection!Finish, Agrees, Protection!Changes

\* The invariant is kept.
LEMMA ProtectionStep == ASSUME ProtectionInv, Protection!Next PROVE ProtectionInv'
BY ProtectionTypedStep, SeenStep DEF ProtectionInv

-----------------------------------------------------------------------------
\* The generated files

Contents == [of : Revisions \cup {0}, day : 0..2]

\* What a command saves: files and what they are made from.
Saves == UNION {[D -> Contents] : D \in SUBSET Generation!Files}

GeneratorType ==
    [pc : {"idle", "label", "run", "compare", "restore"}, check : BOOLEAN, failed : BOOLEAN, hurt : BOOLEAN,
     todo : Seq(Generation!LabelSet), snap : Saves, before : Saves,
     ran : SUBSET (Generation!LabelSet \X Revisions), refused : SUBSET (Generation!LabelSet \X Revisions)]

GeneratorTyped ==
    /\ source \in Revisions /\ today \in 1..2 /\ sops \in BOOLEAN
    /\ file \in [Generation!Files -> Contents]
    /\ generator \in GeneratorType
    /\ report \in {"nothing", "synced", "in sync", "failed", "matches", "differs", "interrupted"}
    /\ generator.pc # "idle" => generator.before \in [Generation!Files -> Contents] /\ report = "nothing"

\* The generator that a check is at.
At == Head(generator.todo)

\* A file without a date, neither compared nor kept, has none; and what is saved is in
\* the directory of the generator: its list of files, if it has one.
DatesAreNone(contents) ==
    \A l \in Generation!LabelSet : l \notin Dated \cup Preserving =>
        \A f \in DOMAIN contents \cap Directory[l] : contents[f].day = 0

SnapTyped ==
    generator.pc \in {"run", "compare", "restore"} =>
        /\ generator.check /\ generator.todo # <<>>
        /\ DOMAIN generator.snap \subseteq Directory[At]
        /\ generator.snap \in [DOMAIN generator.snap -> Contents]
        /\ DatesAreNone(generator.snap)
        /\ Listing[At] # {} => DOMAIN generator.snap = Listing[At]

\* What a check found, or, after a crash, a file where there was none.
Found(c, f) == c = generator.before[f] \/ (generator.hurt /\ generator.before[f] = Generation!Absent)

\* A check has in its hands, on disk or saved, all that it found; the file that it does
\* not have is one of a directory, and was not there.
FilesAreFound ==
    generator.check =>
        /\ generator.pc \in {"label", "run"} => \A f \in Generation!Files : Found(file[f], f)
        /\ generator.pc = "run" =>
              /\ \A f \in DOMAIN generator.snap : generator.snap[f] = file[f]
              /\ \A f \in Directory[At] \ DOMAIN generator.snap : Listing[At] = {} => file[f] = Generation!Absent
        /\ generator.pc \in {"compare", "restore"} =>
              /\ \A f \in DOMAIN generator.snap : Found(generator.snap[f], f)
              /\ \A f \in Generation!Files \ DOMAIN generator.snap :
                    IF Listing[At] = {} /\ f \in Directory[At] THEN generator.before[f] = Generation!Absent
                                                               ELSE Found(file[f], f)
        /\ generator.hurt => generator.failed \/ generator.pc = "restore"
        /\ generator.pc = "restore" => generator.hurt

\* As long as a check has not failed, what ran made what it found, or made what is to
\* be compared; and what made it fail is a difference, unless a generator failed.
WhyFailed ==
    \/ generator.hurt \/ generator.refused # {}
    \/ \E r \in generator.ran : \E f \in Outputs[r[1]][r[2]] : generator.before[f].of # r[2]

Differs(f) == Generation!Norm(At, Generation!Was(f)) # Generation!Norm(At, file[f])

VerdictHasReason ==
    generator.check /\ generator.pc # "idle" =>
        /\ ~generator.failed /\ generator.pc # "restore" =>
              \A r \in generator.ran : \A f \in Outputs[r[1]][r[2]] :
                  \/ generator.before[f].of = r[2]
                  \/ generator.pc = "compare" /\ f \in Generation!Saved(At) /\ file[f].of = r[2]
        /\ generator.failed => WhyFailed
        /\ generator.pc = "compare" =>
              \/ generator.hurt \/ generator.refused # {}
              \/ \E v \in Revisions :
                    /\ <<At, v>> \in generator.ran
                    /\ \A f \in Generation!Saved(At) :
                          Differs(f) => f \in Outputs[At][v] /\ Generation!Was(f).of # v

GenerationInv == GeneratorTyped /\ SnapTyped /\ DatesAreNone(file) /\ FilesAreFound /\ VerdictHasReason

\* A generator writes in its directory, and in its list, if it has one.
LEMMA OutputsAreItsOwn ==
  ASSUME NEW l \in Generation!LabelSet, NEW v \in Revisions
  PROVE  /\ Directory[l] \subseteq Generation!Files /\ Listing[l] \subseteq Directory[l]
         /\ Outputs[l][v] \subseteq Directory[l]
         /\ Listing[l] # {} => Outputs[l][v] \subseteq Listing[l]
         /\ v \in Nat /\ v # 0
<1>1. Directory[l] \subseteq Generation!Files
  BY DEF Generation!Files
<1> QED
  BY <1>1, GenerationAssumption

\* What is saved of files is a save.
LEMMA SavesAreTyped ==
  ASSUME NEW D \in SUBSET Generation!Files, NEW g \in [D -> Contents]
  PROVE  g \in Saves
BY DEF Saves

\* Nothing saved is a save.
LEMMA NothingIsSaved == <<>> \in Saves
<1>1. <<>> \in [{} -> Contents]
  OBVIOUS
<1> QED
  BY <1>1, SavesAreTyped

\* No command.
LEMMA NoGeneratorIsTyped ==
  /\ Generation!Idle \in GeneratorType
  /\ Generation!Idle.pc = "idle" /\ Generation!Idle.check = FALSE /\ Generation!Idle.failed = FALSE
  /\ Generation!Idle.hurt = FALSE /\ Generation!Idle.ran = {} /\ Generation!Idle.refused = {}
<1>1. <<>> \in Seq(Generation!LabelSet)
  OBVIOUS
<1> QED
  BY <1>1, NothingIsSaved DEF Generation!Idle, GeneratorType

\* What a generator makes of the values, of some of its files.
LEMMA GeneratedIsTyped ==
  ASSUME GeneratorTyped, DatesAreNone(file), NEW l \in Generation!LabelSet, NEW F \in SUBSET Outputs[l][source]
  PROVE  /\ Generation!Generated(l, F) \in [Generation!Files -> Contents]
         /\ DatesAreNone(Generation!Generated(l, F))
         /\ \A f \in Generation!Files \ F : Generation!Generated(l, F)[f] = file[f]
         /\ \A f \in F : Generation!Generated(l, F)[f] = [of |-> source, day |-> Generation!Day(l, f)]
<1> DEFINE g == Generation!Generated(l, F)
<1>1. source \in Revisions /\ file \in [Generation!Files -> Contents] /\ today \in 1..2
  BY DEF GeneratorTyped
<1>2. F \subseteq Directory[l] /\ F \subseteq Generation!Files
  BY <1>1, OutputsAreItsOwn
<1>3. ASSUME NEW f \in F PROVE Generation!Day(l, f) \in 0..2 /\ (l \notin Dated \cup Preserving => Generation!Day(l, f) = 0)
  <2>1. file[f].day \in 0..2 /\ today \in 0..2 /\ 0 \in 0..2
    BY <1>1, <1>2 DEF Contents
  <2> QED
    BY <2>1 DEF Generation!Day
<1>4. g = [f \in Generation!Files |-> IF f \in F THEN [of |-> source, day |-> Generation!Day(l, f)] ELSE file[f]]
  BY DEF Generation!Generated
<1>5. \A f \in Generation!Files \ F : g[f] = file[f]
  BY <1>4
<1>6. \A f \in F : g[f] = [of |-> source, day |-> Generation!Day(l, f)]
  BY <1>2, <1>4
<1>7. DOMAIN g = Generation!Files
  BY <1>4
<1>8. g \in [Generation!Files -> Contents]
  <2>1. \A f \in F : [of |-> source, day |-> Generation!Day(l, f)] \in Contents
    BY <1>1, <1>3 DEF Contents
  <2>2. \A f \in Generation!Files : g[f] \in Contents
    BY <2>1, <1>1, <1>5, <1>6
  <2> QED
    BY <2>2, <1>4
<1>9. ASSUME NEW m \in Generation!LabelSet, m \notin Dated \cup Preserving, NEW f \in Generation!Files \cap Directory[m]
      PROVE  g[f].day = 0
  <2>1. file[f].day = 0
    BY <1>1, <1>9 DEF DatesAreNone
  <2>2. CASE f \notin F
    BY <1>5, <2>1, <2>2
  <2>3. CASE f \in F
    <3>1. m = l
      BY <2>3, <1>2, GenerationAssumption
    <3>2. Generation!Day(l, f) = 0
      BY <1>3, <1>9, <2>3, <3>1
    <3>3. g[f] = [of |-> source, day |-> 0]
      BY <1>6, <2>3, <3>2
    <3> HIDE DEF g
    <3> QED
      BY <3>3
  <2> QED
    BY <2>2, <2>3
<1> HIDE DEF g
<1>10. DatesAreNone(g)
  BY <1>7, <1>9 DEF DatesAreNone
<1> QED
  BY <1>5, <1>6, <1>8, <1>10 DEF g

\* What is put back is what was saved, or nothing.
LEMMA PutBackIsTyped ==
  ASSUME GeneratorTyped, SnapTyped, DatesAreNone(file), generator.pc \in {"compare", "restore"},
         NEW F \in SUBSET Generation!Files, Generation!PutBack(F)
  PROVE  /\ file' \in [Generation!Files -> Contents] /\ DatesAreNone(file')
         /\ \A f \in F : file'[f] = Generation!Was(f)
         /\ \A f \in Generation!Files \ F : file'[f] = file[f]
<1>1. file' = [f \in Generation!Files |-> IF f \in F THEN Generation!Was(f) ELSE file[f]]
  BY DEF Generation!PutBack
<1>2. /\ file \in [Generation!Files -> Contents] /\ generator.snap \in [DOMAIN generator.snap -> Contents]
      /\ DatesAreNone(generator.snap)
  BY DEF GeneratorTyped, SnapTyped
<1>3. Generation!Absent \in Contents /\ Generation!Absent.day = 0
  BY DEF Generation!Absent, Contents
<1>4. \A f \in F : file'[f] = Generation!Was(f) /\ Generation!Was(f) \in Contents
  BY <1>1, <1>2, <1>3 DEF Generation!Was
<1>5. \A f \in Generation!Files \ F : file'[f] = file[f]
  BY <1>1
<1>6. file' \in [Generation!Files -> Contents]
  <2>1. \A f \in Generation!Files : file'[f] \in Contents
    BY <1>2, <1>4, <1>5
  <2> QED
    BY <2>1, <1>1
<1>7. ASSUME NEW m \in Generation!LabelSet, m \notin Dated \cup Preserving, NEW f \in Generation!Files \cap Directory[m]
      PROVE  file'[f].day = 0
  <2>1. file[f].day = 0
    BY <1>2, <1>7 DEF DatesAreNone
  <2>2. f \in DOMAIN generator.snap => generator.snap[f].day = 0
    BY <1>2, <1>7 DEF DatesAreNone
  <2>3. Generation!Was(f).day = 0
    BY <1>3, <2>2 DEF Generation!Was
  <2> QED
    BY <1>4, <1>5, <2>1, <2>3
<1>8. DOMAIN file' = Generation!Files
  BY <1>1
<1>9. DatesAreNone(file')
  BY <1>7, <1>8 DEF DatesAreNone
<1> QED
  BY <1>4, <1>5, <1>6, <1>9


\* The generators at the beginning.
LEMMA GenerationInit == ASSUME Generation!Init PROVE GenerationInv
<1>1. source = 1 /\ 1 \in Revisions /\ 1 # 0
  BY GenerationAssumption DEF Generation!Init
<1>2. Generation!Absent \in Contents /\ [of |-> 1, day |-> 0] \in Contents
  BY <1>1 DEF Generation!Absent, Contents
<1>3. file \in [Generation!Files -> Contents] /\ \A f \in Generation!Files : file[f].day = 0
  BY <1>2 DEF Generation!Init, Generation!Absent
<1>4. GeneratorTyped
  BY <1>1, <1>3, NoGeneratorIsTyped DEF Generation!Init, GeneratorTyped
<1>5. SnapTyped
  BY NoGeneratorIsTyped DEF Generation!Init, SnapTyped
<1>6. DatesAreNone(file)
  BY <1>3 DEF DatesAreNone
<1>7. FilesAreFound
  BY NoGeneratorIsTyped DEF Generation!Init, FilesAreFound
<1>8. VerdictHasReason
  BY NoGeneratorIsTyped DEF Generation!Init, VerdictHasReason
<1> QED
  BY <1>4, <1>5, <1>6, <1>7, <1>8 DEF GenerationInv

\* A command that ends leaves nothing to hold.
LEMMA EndOfGenerator ==
  ASSUME GenerationInv, UNCHANGED <<source, today, sops, file>>, NEW r, Generation!End(r),
         r \in {"nothing", "synced", "in sync", "failed", "matches", "differs", "interrupted"}
  PROVE  GenerationInv'
<1>1. generator' = Generation!Idle /\ report' = r
  BY DEF Generation!End
<1>2. generator'.pc = "idle" /\ generator'.check = FALSE /\ generator' \in GeneratorType
  BY <1>1, NoGeneratorIsTyped
<1>3. GeneratorTyped'
  BY <1>1, <1>2 DEF GenerationInv, GeneratorTyped
<1>4. SnapTyped' /\ FilesAreFound' /\ VerdictHasReason'
  BY <1>2 DEF SnapTyped, FilesAreFound, VerdictHasReason
<1>5. DatesAreNone(file)'
  BY DEF GenerationInv, DatesAreNone
<1> QED
  BY <1>3, <1>4, <1>5 DEF GenerationInv

\* A command that starts has found the files as they are.
LEMMA StartStep == ASSUME GenerationInv, Generation!Start PROVE GenerationInv'
<1>1. GeneratorTyped /\ DatesAreNone(file)
  BY DEF GenerationInv
<1>2. PICK c \in BOOLEAN, t \in {Labels} \cup {<<l>> : l \in Generation!LabelSet} :
         generator' = [Generation!Idle EXCEPT !.pc = "label", !.check = c, !.todo = t, !.before = file]
  BY DEF Generation!Start
<1>3. t \in Seq(Generation!LabelSet)
  <2>1. CASE t = Labels
    BY <2>1, GenerationAssumption
  <2>2. ASSUME NEW l \in Generation!LabelSet, t = <<l>> PROVE t \in Seq(Generation!LabelSet)
    BY <2>2
  <2> QED
    BY <2>1, <2>2
<1>4. file \in Saves
  BY <1>1, SavesAreTyped DEF GeneratorTyped
<1>5. /\ generator' \in GeneratorType /\ generator'.pc = "label" /\ generator'.before = file
      /\ generator'.ran = {} /\ ~generator'.hurt /\ ~generator'.failed
  <2> DEFINE i == Generation!Idle
  <2>1. i \in GeneratorType /\ i.ran = {} /\ i.hurt = FALSE /\ i.failed = FALSE
    BY NoGeneratorIsTyped
  <2> HIDE DEF i
  <2> DEFINE k == [i EXCEPT !.pc = "label", !.check = c, !.todo = t, !.before = file]
  <2>2. k \in GeneratorType
    BY <2>1, <1>3, <1>4 DEF GeneratorType
  <2>3. k.pc = "label" /\ k.before = file /\ k.ran = {} /\ k.hurt = FALSE /\ k.failed = FALSE
    BY <2>1 DEF GeneratorType
  <2>4. generator' = k
    BY <1>2 DEF i
  <2> HIDE DEF k
  <2> QED
    BY <2>2, <2>3, <2>4
<1>6. GeneratorTyped'
  BY <1>1, <1>5 DEF Generation!Start, GeneratorTyped
<1>7. SnapTyped'
  BY <1>5 DEF SnapTyped
<1>8. DatesAreNone(file)'
  BY <1>1 DEF Generation!Start, DatesAreNone
<1>9. FilesAreFound'
  BY <1>5 DEF Generation!Start, FilesAreFound, Found
<1>10. VerdictHasReason'
  BY <1>5 DEF VerdictHasReason
<1> QED
  BY <1>6, <1>7, <1>8, <1>9, <1>10 DEF GenerationInv


\* The generator that a check is at is one of them, and so are those after it.
LEMMA HeadIsLabel ==
  ASSUME GeneratorTyped, generator.todo # <<>>
  PROVE  At \in Generation!LabelSet /\ Tail(generator.todo) \in Seq(Generation!LabelSet)
<1>1. generator.todo \in Seq(Generation!LabelSet)
  BY DEF GeneratorTyped, GeneratorType
<1> QED
  BY <1>1 DEF At

\* A command keeps its types from one step to the next.
LEMMA CommandIsTyped ==
  ASSUME GeneratorTyped, UNCHANGED <<source, today, sops, report>>,
         generator' \in GeneratorType, generator'.before = generator.before, generator.pc # "idle",
         file' \in [Generation!Files -> Contents]
  PROVE  GeneratorTyped'
BY DEF GeneratorTyped

\* Before a generator is run its files are saved.
LEMMA SnapshotStep == ASSUME GenerationInv, Generation!Snapshot PROVE GenerationInv'
<1>1. GeneratorTyped /\ DatesAreNone(file) /\ FilesAreFound /\ VerdictHasReason /\ generator \in GeneratorType
  BY DEF GenerationInv, GeneratorTyped
<1>2. /\ generator.pc = "label" /\ generator.check /\ generator.todo # <<>>
      /\ UNCHANGED <<source, today, sops, file, report, edits, faults>>
  BY DEF Generation!Snapshot
<1>3. At \in Generation!LabelSet /\ Tail(generator.todo) \in Seq(Generation!LabelSet)
  BY <1>1, <1>2, HeadIsLabel
<1>4. DatesAreNone(file)'
  BY <1>1, <1>2 DEF DatesAreNone
<1>5. CASE generator' = [generator EXCEPT !.todo = Tail(@)]
  <2>1. /\ generator' \in GeneratorType /\ generator'.pc = "label" /\ generator'.before = generator.before
        /\ generator'.check = generator.check /\ generator'.hurt = generator.hurt
        /\ generator'.failed = generator.failed /\ generator'.ran = generator.ran
        /\ generator'.refused = generator.refused
    BY <1>1, <1>2, <1>3, <1>5 DEF GeneratorType
  <2>2. GeneratorTyped'
    BY <1>1, <1>2, <2>1, CommandIsTyped DEF GeneratorTyped
  <2>3. SnapTyped'
    BY <2>1 DEF SnapTyped
  <2>4. FilesAreFound'
    BY <1>1, <1>2, <2>1 DEF FilesAreFound, Found
  <2>5. VerdictHasReason'
    BY <1>1, <1>2, <2>1 DEF VerdictHasReason, WhyFailed
  <2> QED
    BY <1>4, <2>2, <2>3, <2>4, <2>5 DEF GenerationInv
<1>6. CASE generator' = [generator EXCEPT !.pc = "run", !.snap = [f \in Generation!Listed(At) |-> file[f]]]
  <2> DEFINE g == [f \in Generation!Listed(At) |-> file[f]]
  <2>1. /\ Generation!Listed(At) \subseteq Directory[At] /\ Directory[At] \subseteq Generation!Files
        /\ Listing[At] # {} => Generation!Listed(At) = Listing[At]
        /\ \A f \in Directory[At] \ Generation!Listed(At) : Listing[At] = {} => file[f] = Generation!Absent
    BY <1>1, <1>3, OutputsAreItsOwn DEF Generation!Listed, GeneratorTyped
  <2>2. g \in [Generation!Listed(At) -> Contents]
    BY <1>1, <2>1 DEF GeneratorTyped
  <2>3. g \in Saves /\ DOMAIN g = Generation!Listed(At) /\ \A f \in DOMAIN g : g[f] = file[f]
    BY <2>1, <2>2, SavesAreTyped
  <2>4. DatesAreNone(g)
    BY <1>1, <2>1, <2>3 DEF DatesAreNone, GeneratorTyped
  <2>5. generator' = [generator EXCEPT !.pc = "run", !.snap = g]
    BY <1>6
  <2> HIDE DEF g
  <2>6. /\ generator' \in GeneratorType /\ generator'.pc = "run" /\ generator'.before = generator.before
        /\ generator'.check = generator.check /\ generator'.hurt = generator.hurt
        /\ generator'.failed = generator.failed /\ generator'.ran = generator.ran
        /\ generator'.refused = generator.refused /\ generator'.snap = g /\ generator'.todo = generator.todo
    BY <1>1, <2>3, <2>5 DEF GeneratorType
  <2>7. At' = At
    BY <2>6 DEF At
  <2>8. GeneratorTyped'
    BY <1>1, <1>2, <2>6, CommandIsTyped DEF GeneratorTyped
  <2>9. SnapTyped'
    BY <1>2, <2>1, <2>2, <2>3, <2>4, <2>6, <2>7 DEF SnapTyped
  <2>10. FilesAreFound'
    BY <1>1, <1>2, <2>1, <2>3, <2>6, <2>7 DEF FilesAreFound, Found
  <2>11. VerdictHasReason'
    BY <1>1, <1>2, <2>6 DEF VerdictHasReason, WhyFailed
  <2> QED
    BY <1>4, <2>8, <2>9, <2>10, <2>11 DEF GenerationInv
<1> QED
  BY <1>5, <1>6 DEF Generation!Snapshot, At

\* Without a check there is nothing but the types.
LEMMA SyncStep == ASSUME GenerationInv, Generation!Sync PROVE GenerationInv'
<1>1. GeneratorTyped /\ DatesAreNone(file) /\ generator \in GeneratorType /\ source \in Revisions
  BY DEF GenerationInv, GeneratorTyped
<1>2. /\ generator.pc = "label" /\ ~generator.check /\ generator.todo # <<>>
      /\ UNCHANGED <<source, today, sops, report>>
  BY DEF Generation!Sync
<1>3. At \in Generation!LabelSet /\ Tail(generator.todo) \in Seq(Generation!LabelSet)
  BY <1>1, <1>2, HeadIsLabel
<1>4. PICK F \in SUBSET Outputs[At][source], b \in BOOLEAN :
         /\ file' = Generation!Generated(At, F)
         /\ generator' = [generator EXCEPT !.todo = Tail(@), !.failed = @ \/ b]
  BY DEF Generation!Sync, Generation!Writes, Generation!Partly, At
<1>5. file' \in [Generation!Files -> Contents] /\ DatesAreNone(file')
  BY <1>1, <1>3, <1>4, GeneratedIsTyped
<1>6. /\ generator' \in GeneratorType /\ generator'.pc = "label" /\ generator'.before = generator.before
      /\ generator'.check = FALSE
  BY <1>1, <1>2, <1>3, <1>4 DEF GeneratorType
<1>7. GeneratorTyped'
  BY <1>1, <1>2, <1>5, <1>6, CommandIsTyped DEF GeneratorTyped
<1>8. SnapTyped' /\ FilesAreFound' /\ VerdictHasReason'
  BY <1>6 DEF SnapTyped, FilesAreFound, VerdictHasReason
<1>9. DatesAreNone(file)'
  BY <1>5 DEF DatesAreNone
<1> QED
  BY <1>7, <1>8, <1>9 DEF GenerationInv


\* What is on disk after a generator was run, or crashed, can be told from what is
\* saved and from what it makes.
LEMMA RunKeepsFiles ==
  ASSUME GenerationInv, generator.pc = "run", generator.hurt => generator.failed,
         NEW F \in SUBSET Outputs[At][source], file' = Generation!Generated(At, F),
         UNCHANGED <<source, today, sops, report>>, generator' \in GeneratorType,
         generator'.todo = generator.todo, generator'.snap = generator.snap, generator'.before = generator.before,
         generator'.check = generator.check, generator'.failed = generator.failed,
         \/ generator'.pc = "compare" /\ generator'.hurt = generator.hurt
         \/ generator'.pc = "restore" /\ generator'.hurt
  PROVE  GeneratorTyped' /\ SnapTyped' /\ DatesAreNone(file)' /\ FilesAreFound'
<1>1. GeneratorTyped /\ DatesAreNone(file) /\ FilesAreFound /\ SnapTyped
  BY DEF GenerationInv
<1>2. /\ generator.check /\ generator.todo # <<>> /\ source \in Revisions
      /\ DOMAIN generator.snap \subseteq Directory[At]
      /\ Listing[At] # {} => DOMAIN generator.snap = Listing[At]
  BY <1>1 DEF SnapTyped, GeneratorTyped
<1>3. At \in Generation!LabelSet /\ At' = At
  BY <1>1, <1>2, HeadIsLabel DEF At
<1>4. /\ file' \in [Generation!Files -> Contents] /\ DatesAreNone(file')
      /\ \A f \in Generation!Files \ F : file'[f] = file[f]
  BY <1>1, <1>3, GeneratedIsTyped
<1>5. GeneratorTyped'
  BY <1>1, <1>4, CommandIsTyped
<1>6. SnapTyped'
  BY <1>1, <1>3 DEF SnapTyped
<1>7. DatesAreNone(file)'
  BY <1>4 DEF DatesAreNone
<1>8. \A f \in Generation!Files : Found(file[f], f)
  BY <1>1, <1>2 DEF FilesAreFound
<1>9. generator.hurt => generator'.hurt
  OBVIOUS
<1>10. DOMAIN generator.snap \subseteq Generation!Files
  BY <1>2, <1>3, OutputsAreItsOwn
<1>11. \A f \in DOMAIN generator.snap : Found(generator.snap[f], f)
  BY <1>1, <1>2, <1>8, <1>10 DEF FilesAreFound
<1>12. \A f \in DOMAIN generator.snap : Found(generator.snap[f], f)'
  BY <1>9, <1>11 DEF Found
<1>13. ASSUME NEW f \in Generation!Files \ DOMAIN generator.snap
       PROVE  IF Listing[At] = {} /\ f \in Directory[At] THEN generator'.before[f] = Generation!Absent
                                                         ELSE Found(file[f], f)'
  <2>1. CASE Listing[At] = {} /\ f \in Directory[At]
    <3>1. file[f] = Generation!Absent
      BY <1>1, <1>2, <1>13, <2>1 DEF FilesAreFound
    <3> QED
      BY <1>8, <2>1, <3>1 DEF Found
  <2>2. CASE ~(Listing[At] = {} /\ f \in Directory[At])
    <3>1. f \notin F
      BY <1>2, <1>3, <1>13, <2>2, OutputsAreItsOwn
    <3>2. file'[f] = file[f]
      BY <1>4, <3>1
    <3> QED
      BY <1>8, <1>9, <2>2, <3>2 DEF Found
  <2> QED
    BY <2>1, <2>2
<1>14. FilesAreFound'
  BY <1>3, <1>12, <1>13 DEF FilesAreFound
<1> QED
  BY <1>5, <1>6, <1>7, <1>14

\* A generator that completed has made each of its files that differs from the saved
\* one, from other values.
LEMMA DifferenceIsMade ==
  ASSUME GenerationInv, generator.pc = "run", file' = Generation!Generated(At, Outputs[At][source]),
         generator'.todo = generator.todo, generator'.snap = generator.snap
  PROVE  /\ \A f \in Generation!Saved(At)' :
               Differs(f)' => f \in Outputs[At][source] /\ Generation!Was(f)'.of # source
         /\ \A f \in Outputs[At][source] : f \in Generation!Saved(At)' /\ file'[f].of = source
<1>1. GeneratorTyped /\ DatesAreNone(file) /\ FilesAreFound /\ SnapTyped
  BY DEF GenerationInv
<1>2. /\ generator.check /\ generator.todo # <<>> /\ source \in Revisions
      /\ DOMAIN generator.snap \subseteq Directory[At]
      /\ Listing[At] # {} => DOMAIN generator.snap = Listing[At]
  BY <1>1 DEF SnapTyped, GeneratorTyped
<1>3. At \in Generation!LabelSet /\ At' = At
  BY <1>1, <1>2, HeadIsLabel DEF At
<1>4. /\ file' \in [Generation!Files -> Contents]
      /\ \A f \in Generation!Files \ Outputs[At][source] : file'[f] = file[f]
      /\ \A f \in Outputs[At][source] : file'[f] = [of |-> source, day |-> Generation!Day(At, f)]
  BY <1>1, <1>3, GeneratedIsTyped
<1>5. /\ \A f \in DOMAIN generator.snap : generator.snap[f] = file[f]
      /\ \A f \in Directory[At] \ DOMAIN generator.snap : Listing[At] = {} => file[f] = Generation!Absent
  BY <1>1, <1>2 DEF FilesAreFound
<1>6. ASSUME NEW f \in Directory[At], f \in DOMAIN generator.snap \/ Listing[At] = {} PROVE Generation!Was(f)' = file[f]
  BY <1>5, <1>6 DEF Generation!Was
<1>7. ASSUME NEW f \in Generation!Saved(At)' PROVE f \in Directory[At] /\ (f \in DOMAIN generator.snap \/ Listing[At] = {})
  BY <1>2, <1>3, <1>7 DEF Generation!Saved
<1>8. ASSUME NEW f \in Generation!Saved(At)', Differs(f)'
      PROVE  f \in Outputs[At][source] /\ Generation!Was(f)'.of # source
  <2>1. f \in Directory[At] /\ f \in Generation!Files /\ Generation!Was(f)' = file[f]
    <3>1. f \in Directory[At] /\ (f \in DOMAIN generator.snap \/ Listing[At] = {})
      BY <1>7, <1>8
    <3>2. Generation!Was(f)' = file[f]
      BY <1>6, <3>1
    <3> QED
      BY <1>2, <1>3, <3>1, <3>2, OutputsAreItsOwn
  <2>2. Generation!Norm(At, file[f]) # Generation!Norm(At, file'[f])
    BY <1>3, <1>8, <2>1 DEF Differs, Generation!Norm
  <2>3. f \in Outputs[At][source]
    BY <1>4, <2>1, <2>2
  <2>4. file[f] \in Contents /\ file[f].day \in 0..2
    BY <1>1, <2>1 DEF GeneratorTyped, Contents
  <2>5. file'[f] = [of |-> source, day |-> Generation!Day(At, f)]
    BY <1>4, <2>3
  <2>6. ASSUME file[f].of = source PROVE FALSE
    <3>1. CASE At \in Dated
      <4>1. Generation!Norm(At, file[f]) = [of |-> source, day |-> 0]
        BY <2>4, <2>6, <3>1 DEF Generation!Norm, Contents
      <4>2. Generation!Norm(At, file'[f]) = [of |-> source, day |-> 0]
        BY <2>5, <3>1 DEF Generation!Norm
      <4> QED
        BY <2>2, <4>1, <4>2
    <3>2. CASE At \notin Dated
      <4>1. Generation!Day(At, f) = file[f].day
        <5>1. CASE At \in Preserving
          BY <2>6, <3>2, <5>1 DEF Generation!Day
        <5>2. CASE At \notin Preserving
          BY <1>1, <1>3, <2>1, <3>2, <5>2 DEF Generation!Day, DatesAreNone, GeneratorTyped
        <5> QED
          BY <5>1, <5>2
      <4>2. file'[f] = file[f]
        BY <2>4, <2>5, <2>6, <4>1 DEF Contents
      <4> QED
        BY <2>2, <4>2
    <3> QED
      BY <3>1, <3>2
  <2> QED
    BY <2>1, <2>3, <2>6
<1>9. ASSUME NEW f \in Outputs[At][source] PROVE f \in Generation!Saved(At)' /\ file'[f].of = source
  <2>1. file'[f].of = source /\ file'[f] # Generation!Absent
    <3>1. file'[f] = [of |-> source, day |-> Generation!Day(At, f)]
      BY <1>4
    <3>2. source # 0
      BY <1>2, <1>3, OutputsAreItsOwn
    <3> QED
      BY <3>1, <3>2 DEF Generation!Absent
  <2> QED
    BY <1>2, <1>3, <2>1, OutputsAreItsOwn DEF Generation!Saved
<1> QED
  BY <1>8, <1>9


\* A check runs a generator, whatever comes of it.
LEMMA GeneratorRunStep == ASSUME GenerationInv, Generation!Run PROVE GenerationInv'
<1>1. GeneratorTyped /\ FilesAreFound /\ VerdictHasReason /\ SnapTyped /\ generator \in GeneratorType
  BY DEF GenerationInv, GeneratorTyped
<1>2. /\ generator.pc = "run" /\ generator.check /\ generator.todo # <<>> /\ source \in Revisions
      /\ UNCHANGED <<source, today, sops, report>>
  BY <1>1 DEF Generation!Run, SnapTyped, GeneratorTyped
<1>3. generator.hurt => generator.failed
  BY <1>1, <1>2 DEF FilesAreFound
<1>4. At \in Generation!LabelSet
  BY <1>1, <1>2, HeadIsLabel
<1>5. /\ ~generator.failed => \A r \in generator.ran : \A f \in Outputs[r[1]][r[2]] : generator.before[f].of = r[2]
      /\ generator.failed => WhyFailed
  BY <1>1, <1>2 DEF VerdictHasReason
<1>6. ASSUME NEW F \in SUBSET Outputs[At][source], file' = Generation!Generated(At, F),
             generator' = [generator EXCEPT !.pc = "compare", !.refused = @ \cup {<<At, source>>}]
      PROVE  GenerationInv'
  <2>1. /\ generator' \in GeneratorType /\ generator'.pc = "compare" /\ generator'.refused # {}
        /\ generator'.todo = generator.todo /\ generator'.snap = generator.snap
        /\ generator'.before = generator.before /\ generator'.check = generator.check
        /\ generator'.failed = generator.failed /\ generator'.hurt = generator.hurt
        /\ generator'.ran = generator.ran
    <3> DEFINE R == generator.refused \cup {<<At, source>>}
    <3>1. R \in SUBSET (Generation!LabelSet \X Revisions) /\ R # {}
      <4>1. <<At, source>> \in Generation!LabelSet \X Revisions
        BY <1>2, <1>4
      <4>2. generator.refused \in SUBSET (Generation!LabelSet \X Revisions)
        BY <1>1 DEF GeneratorType
      <4> QED
        BY <4>1, <4>2
    <3>2. generator' = [generator EXCEPT !.pc = "compare", !.refused = R]
      BY <1>6
    <3> HIDE DEF R
    <3>3. /\ generator' \in GeneratorType /\ generator'.pc = "compare" /\ generator'.refused = R
          /\ generator'.todo = generator.todo /\ generator'.snap = generator.snap
          /\ generator'.before = generator.before /\ generator'.check = generator.check
          /\ generator'.failed = generator.failed /\ generator'.hurt = generator.hurt
          /\ generator'.ran = generator.ran
      BY <1>1, <3>1, <3>2 DEF GeneratorType
    <3> QED
      BY <3>1, <3>3 DEF R
  <2>2. GeneratorTyped' /\ SnapTyped' /\ DatesAreNone(file)' /\ FilesAreFound'
    BY <1>2, <1>3, <1>6, <2>1, RunKeepsFiles
  <2>3. VerdictHasReason'
    BY <1>5, <2>1 DEF VerdictHasReason, WhyFailed
  <2> QED
    BY <2>2, <2>3 DEF GenerationInv
<1>7. ASSUME file' = Generation!Generated(At, Outputs[At][source]),
             generator' = [generator EXCEPT !.pc = "compare", !.ran = @ \cup {<<At, source>>}]
      PROVE  GenerationInv'
  <2>1. /\ generator' \in GeneratorType /\ generator'.pc = "compare"
        /\ generator'.todo = generator.todo /\ generator'.snap = generator.snap
        /\ generator'.before = generator.before /\ generator'.check = generator.check
        /\ generator'.failed = generator.failed /\ generator'.hurt = generator.hurt
        /\ generator'.refused = generator.refused /\ generator'.ran = generator.ran \cup {<<At, source>>}
    <3> DEFINE R == generator.ran \cup {<<At, source>>}
    <3>1. R \in SUBSET (Generation!LabelSet \X Revisions) /\ R # {}
      <4>1. <<At, source>> \in Generation!LabelSet \X Revisions
        BY <1>2, <1>4
      <4>2. generator.ran \in SUBSET (Generation!LabelSet \X Revisions)
        BY <1>1 DEF GeneratorType
      <4> QED
        BY <4>1, <4>2
    <3>2. generator' = [generator EXCEPT !.pc = "compare", !.ran = R]
      BY <1>7
    <3> HIDE DEF R
    <3>3. /\ generator' \in GeneratorType /\ generator'.pc = "compare" /\ generator'.ran = R
          /\ generator'.todo = generator.todo /\ generator'.snap = generator.snap
          /\ generator'.before = generator.before /\ generator'.check = generator.check
          /\ generator'.failed = generator.failed /\ generator'.hurt = generator.hurt
          /\ generator'.refused = generator.refused
      BY <1>1, <3>1, <3>2 DEF GeneratorType
    <3> QED
      BY <3>1, <3>3 DEF R
  <2>2. GeneratorTyped' /\ SnapTyped' /\ DatesAreNone(file)' /\ FilesAreFound'
    BY <1>2, <1>3, <1>7, <2>1, RunKeepsFiles
  <2>3. At' = At
    BY <2>1 DEF At
  <2>4. /\ \A f \in Generation!Saved(At)' :
              Differs(f)' => f \in Outputs[At][source] /\ Generation!Was(f)'.of # source
        /\ \A f \in Outputs[At][source] : f \in Generation!Saved(At)' /\ file'[f].of = source
    BY <1>2, <1>7, <2>1, DifferenceIsMade
  <2>5. ASSUME ~generator.failed, NEW r \in generator'.ran, NEW f \in Outputs[r[1]][r[2]]
        PROVE  \/ generator'.before[f].of = r[2]
               \/ f \in Generation!Saved(At)' /\ file'[f].of = r[2]
    <3>1. CASE r \in generator.ran
      BY <1>5, <2>1, <2>5, <3>1
    <3>2. CASE r = <<At, source>>
      BY <2>4, <2>5, <3>2
    <3> QED
      BY <2>1, <3>1, <3>2
  <2>6. generator.failed => WhyFailed'
    BY <1>5, <2>1 DEF WhyFailed
  <2>7. VerdictHasReason'
    BY <1>2, <2>1, <2>3, <2>4, <2>5, <2>6 DEF VerdictHasReason
  <2> QED
    BY <2>2, <2>7 DEF GenerationInv
<1>8. ASSUME NEW F \in SUBSET Outputs[At][source], file' = Generation!Generated(At, F),
             generator' = [generator EXCEPT !.pc = "restore", !.hurt = TRUE]
      PROVE  GenerationInv'
  <2>1. /\ generator' \in GeneratorType /\ generator'.pc = "restore" /\ generator'.hurt
        /\ generator'.todo = generator.todo /\ generator'.snap = generator.snap
        /\ generator'.before = generator.before /\ generator'.check = generator.check
        /\ generator'.failed = generator.failed
    BY <1>1, <1>8 DEF GeneratorType
  <2>2. GeneratorTyped' /\ SnapTyped' /\ DatesAreNone(file)' /\ FilesAreFound'
    BY <1>2, <1>3, <1>8, <2>1, RunKeepsFiles
  <2>3. VerdictHasReason'
    BY <2>1 DEF VerdictHasReason, WhyFailed
  <2> QED
    BY <2>2, <2>3 DEF GenerationInv
<1>9. CASE /\ \E F \in Generation!Writes(At) : file' = Generation!Generated(At, F)
           /\ generator' = [generator EXCEPT !.pc = "compare", !.refused = @ \cup {<<At, source>>}]
  BY <1>6, <1>9 DEF Generation!Writes
<1>10. CASE /\ \E F \in Generation!Partly(At) : file' = Generation!Generated(At, F)
            /\ generator' = [generator EXCEPT !.pc = "restore", !.hurt = TRUE]
  BY <1>8, <1>10 DEF Generation!Partly
<1>11. CASE /\ UNCHANGED file
            /\ generator' = [generator EXCEPT !.pc = "compare", !.refused = @ \cup {<<At, source>>}]
  <2>1. file = Generation!Generated(At, {})
    BY <1>1 DEF Generation!Generated, GeneratorTyped
  <2> QED
    BY <1>6, <1>11, <2>1
<1> QED
  BY <1>7, <1>9, <1>10, <1>11 DEF Generation!Run, At

\* What a check goes on with is what it found, once the files of a generator are back.
LEMMA FilesAreBack ==
  ASSUME GenerationInv, generator.pc \in {"compare", "restore"},
         NEW F \in SUBSET Generation!Files, Generation!PutBack(F),
         F = Generation!Saved(At) \/ (F = DOMAIN generator.snap /\ generator.hurt),
         UNCHANGED <<source, today, sops, report>>, generator' \in GeneratorType, generator'.pc = "label",
         generator'.before = generator.before, generator'.check = generator.check,
         generator'.hurt = generator.hurt, generator.hurt => generator'.failed
  PROVE  GeneratorTyped' /\ SnapTyped' /\ DatesAreNone(file)' /\ FilesAreFound'
<1>1. GeneratorTyped /\ DatesAreNone(file) /\ FilesAreFound /\ SnapTyped
  BY DEF GenerationInv
<1>2. generator.check
  BY <1>1 DEF SnapTyped
<1>3. /\ file' \in [Generation!Files -> Contents] /\ DatesAreNone(file')
      /\ \A f \in F : file'[f] = Generation!Was(f)
      /\ \A f \in Generation!Files \ F : file'[f] = file[f]
  BY <1>1, PutBackIsTyped
<1>4. GeneratorTyped'
  BY <1>1, <1>3, CommandIsTyped
<1>5. SnapTyped' /\ DatesAreNone(file)'
  BY <1>3 DEF SnapTyped, DatesAreNone
<1>6. ASSUME NEW f \in Generation!Files PROVE Found(file'[f], f)
  <2>1. CASE f \in DOMAIN generator.snap
    <3>1. f \in F
      BY <2>1 DEF Generation!Saved
    <3> QED
      BY <1>1, <1>2, <1>3, <2>1, <3>1 DEF FilesAreFound, Generation!Was
  <2>2. CASE f \notin DOMAIN generator.snap /\ Listing[At] = {} /\ f \in Directory[At]
    <3>1. generator.before[f] = Generation!Absent
      BY <1>1, <1>2, <2>2 DEF FilesAreFound
    <3>2. CASE f \in F
      BY <1>3, <2>2, <3>1, <3>2 DEF Found, Generation!Was
    <3>3. CASE f \notin F /\ F = Generation!Saved(At)
      BY <1>3, <2>2, <3>1, <3>3 DEF Found, Generation!Saved
    <3>4. CASE f \notin F /\ generator.hurt
      BY <3>1, <3>4 DEF Found
    <3> QED
      BY <3>2, <3>3, <3>4
  <2>3. CASE f \notin DOMAIN generator.snap /\ ~(Listing[At] = {} /\ f \in Directory[At])
    <3>1. f \notin F
      BY <1>1, <2>3 DEF SnapTyped, Generation!Saved
    <3> QED
      BY <1>1, <1>2, <1>3, <2>3, <3>1 DEF FilesAreFound
  <2> QED
    BY <2>1, <2>2, <2>3
<1>7. FilesAreFound'
  BY <1>6 DEF FilesAreFound, Found
<1> QED
  BY <1>4, <1>5, <1>7


\* As long as no generator has crashed, what is compared with is what was found.
LEMMA WasIsFound ==
  ASSUME GenerationInv, generator.pc = "compare", ~generator.hurt, NEW f \in Generation!Saved(At)
  PROVE  Generation!Was(f) = generator.before[f] /\ Generation!Was(f) \in Contents /\ file[f] \in Contents
<1>1. GeneratorTyped /\ FilesAreFound /\ SnapTyped
  BY DEF GenerationInv
<1>2. /\ generator.check /\ generator.todo # <<>> /\ DOMAIN generator.snap \subseteq Directory[At]
      /\ Listing[At] # {} => DOMAIN generator.snap = Listing[At]
  BY <1>1 DEF SnapTyped
<1>3. At \in Generation!LabelSet
  BY <1>1, <1>2, HeadIsLabel
<1>4. f \in Directory[At] /\ f \in Generation!Files /\ (f \in DOMAIN generator.snap \/ Listing[At] = {})
  <2>1. f \in Directory[At] /\ (f \in DOMAIN generator.snap \/ Listing[At] = {})
    BY <1>2 DEF Generation!Saved
  <2> QED
    BY <1>3, <2>1, OutputsAreItsOwn, GenerationAssumption DEF Generation!Files
<1>5. Generation!Was(f) = generator.before[f]
  BY <1>1, <1>2, <1>4 DEF FilesAreFound, Found, Generation!Was
<1>6. generator.before \in [Generation!Files -> Contents] /\ file \in [Generation!Files -> Contents]
  BY <1>1 DEF GeneratorTyped
<1> QED
  BY <1>4, <1>5, <1>6

\* What is compared puts the files back and fails only for a reason.
LEMMA CompareStep == ASSUME GenerationInv, Generation!Compare PROVE GenerationInv'
<1> DEFINE drifted == {f \in Generation!Saved(At) : Differs(f)}
<1>1. GeneratorTyped /\ FilesAreFound /\ SnapTyped /\ VerdictHasReason /\ generator \in GeneratorType
  BY DEF GenerationInv, GeneratorTyped
<1>2. /\ generator.pc = "compare" /\ UNCHANGED <<source, today, sops, report>>
      /\ Generation!PutBack(Generation!Saved(At))
      /\ generator' = [generator EXCEPT !.pc = "label", !.todo = Tail(@), !.snap = <<>>, !.failed = @ \/ drifted # {}]
  BY DEF Generation!Compare, At, Differs
<1>3. generator.check /\ generator.todo # <<>> /\ DOMAIN generator.snap \subseteq Directory[At]
  BY <1>1, <1>2 DEF SnapTyped
<1>4. At \in Generation!LabelSet /\ Tail(generator.todo) \in Seq(Generation!LabelSet)
  BY <1>1, <1>3, HeadIsLabel
<1>5. Generation!Saved(At) \in SUBSET Generation!Files
  BY <1>3, <1>4, GenerationAssumption DEF Generation!Saved, Generation!Files
<1>6. /\ generator' \in GeneratorType /\ generator'.pc = "label" /\ generator'.before = generator.before
      /\ generator'.check = generator.check /\ generator'.hurt = generator.hurt
      /\ generator'.ran = generator.ran /\ generator'.refused = generator.refused
      /\ generator'.failed = (generator.failed \/ drifted # {})
  <2> DEFINE b == generator.failed \/ drifted # {}
  <2>1. b \in BOOLEAN
    OBVIOUS
  <2>2. generator' = [generator EXCEPT !.pc = "label", !.todo = Tail(generator.todo), !.snap = <<>>, !.failed = b]
    BY <1>2
  <2> HIDE DEF b
  <2>3. /\ generator' \in GeneratorType /\ generator'.pc = "label" /\ generator'.before = generator.before
        /\ generator'.check = generator.check /\ generator'.hurt = generator.hurt
        /\ generator'.ran = generator.ran /\ generator'.refused = generator.refused
        /\ generator'.failed = b
    BY <1>1, <1>4, <2>1, <2>2, NothingIsSaved DEF GeneratorType
  <2> QED
    BY <2>3 DEF b
<1>7. generator.hurt => generator.failed
  BY <1>1, <1>2, <1>3 DEF FilesAreFound
<1>8. GeneratorTyped' /\ SnapTyped' /\ DatesAreNone(file)' /\ FilesAreFound'
  BY <1>2, <1>5, <1>6, <1>7, FilesAreBack
<1>9. ASSUME ~generator.failed, drifted = {}, NEW r \in generator.ran, NEW f \in Outputs[r[1]][r[2]]
      PROVE  generator.before[f].of = r[2]
  <2>1. CASE f \in Generation!Saved(At) /\ file[f].of = r[2]
    <3>1. Generation!Norm(At, Generation!Was(f)) = Generation!Norm(At, file[f])
      BY <1>9, <2>1 DEF Differs
    <3>2. /\ Generation!Was(f) = generator.before[f]
          /\ Generation!Was(f) \in Contents /\ file[f] \in Contents
      BY <1>2, <1>7, <1>9, <2>1, WasIsFound
    <3>3. Generation!Norm(At, Generation!Was(f)).of = Generation!Was(f).of
      BY <3>2 DEF Generation!Norm, Contents
    <3>4. Generation!Norm(At, file[f]).of = file[f].of
      BY <3>2 DEF Generation!Norm, Contents
    <3> QED
      BY <2>1, <3>1, <3>2, <3>3, <3>4
  <2> QED
    BY <1>1, <1>2, <1>3, <1>9, <2>1 DEF VerdictHasReason
<1>10. ASSUME generator.failed \/ drifted # {} PROVE WhyFailed
  <2>1. CASE generator.failed
    BY <1>1, <1>2, <1>3, <2>1 DEF VerdictHasReason
  <2>2. CASE drifted # {} /\ ~generator.hurt /\ generator.refused = {}
    <3>1. PICK v \in Revisions : /\ <<At, v>> \in generator.ran
                                /\ \A f \in Generation!Saved(At) :
                                      Differs(f) => f \in Outputs[At][v] /\ Generation!Was(f).of # v
      BY <1>1, <1>2, <1>3, <2>2 DEF VerdictHasReason
    <3>2. PICK f \in Generation!Saved(At) : Differs(f)
      BY <2>2
    <3>3. f \in Outputs[At][v] /\ generator.before[f].of # v
      BY <1>2, <2>2, <3>1, <3>2, WasIsFound
    <3>4. <<At, v>>[1] = At /\ <<At, v>>[2] = v
      OBVIOUS
    <3> QED
      BY <3>1, <3>3, <3>4 DEF WhyFailed
  <2>3. CASE generator.hurt \/ generator.refused # {}
    BY <2>3 DEF WhyFailed
  <2> QED
    BY <1>10, <2>1, <2>2, <2>3
<1> HIDE DEF drifted
<1>11. WhyFailed => WhyFailed'
  BY <1>6 DEF WhyFailed
<1>12. VerdictHasReason'
  BY <1>6, <1>9, <1>10, <1>11 DEF VerdictHasReason
<1> QED
  BY <1>8, <1>12 DEF GenerationInv

\* A crash puts back what was saved, and is the reason to fail.
LEMMA RestoreStep == ASSUME GenerationInv, Generation!Restore PROVE GenerationInv'
<1>1. GeneratorTyped /\ FilesAreFound /\ SnapTyped /\ generator \in GeneratorType
  BY DEF GenerationInv, GeneratorTyped
<1>2. /\ generator.pc = "restore" /\ UNCHANGED <<source, today, sops, report>>
      /\ Generation!PutBack(DOMAIN generator.snap)
      /\ generator' = [generator EXCEPT !.pc = "label", !.todo = Tail(@), !.snap = <<>>, !.failed = TRUE]
  BY DEF Generation!Restore
<1>3. generator.check /\ generator.todo # <<>> /\ DOMAIN generator.snap \subseteq Directory[At]
  BY <1>1, <1>2 DEF SnapTyped
<1>4. At \in Generation!LabelSet /\ Tail(generator.todo) \in Seq(Generation!LabelSet)
  BY <1>1, <1>3, HeadIsLabel
<1>5. DOMAIN generator.snap \in SUBSET Generation!Files
  BY <1>3, <1>4, GenerationAssumption DEF Generation!Files
<1>6. generator.hurt
  BY <1>1, <1>2, <1>3 DEF FilesAreFound
<1>7. /\ generator' \in GeneratorType /\ generator'.pc = "label" /\ generator'.before = generator.before
      /\ generator'.check = generator.check /\ generator'.hurt = generator.hurt /\ generator'.failed = TRUE
  BY <1>1, <1>2, <1>4, NothingIsSaved DEF GeneratorType
<1>8. GeneratorTyped' /\ SnapTyped' /\ DatesAreNone(file)' /\ FilesAreFound'
  BY <1>2, <1>5, <1>6, <1>7, FilesAreBack
<1>9. VerdictHasReason'
  BY <1>6, <1>7 DEF VerdictHasReason, WhyFailed
<1> QED
  BY <1>8, <1>9 DEF GenerationInv

\* What nobody's command does keeps what a command holds.
LEMMA OthersStep ==
  ASSUME GenerationInv, UNCHANGED <<generator, sops>>, source' \in Revisions, today' \in 1..2,
         \/ UNCHANGED <<file, report>>
         \/ /\ generator.pc = "idle" /\ file' \in [Generation!Files -> Contents] /\ DatesAreNone(file')
            /\ report' \in {"nothing", "synced", "in sync", "failed", "matches", "differs", "interrupted"}
  PROVE  GenerationInv'
<1>1. GeneratorTyped /\ FilesAreFound /\ SnapTyped /\ VerdictHasReason /\ DatesAreNone(file)
  BY DEF GenerationInv
<1>2. GeneratorTyped'
  BY <1>1 DEF GeneratorTyped
<1>3. SnapTyped'
  BY <1>1 DEF SnapTyped, At
<1>4. DatesAreNone(file)'
  BY <1>1 DEF DatesAreNone
<1>5. FilesAreFound'
  BY <1>1 DEF FilesAreFound, Found, At
<1>6. VerdictHasReason'
  <2>1. CASE generator.pc = "idle"
    BY <2>1 DEF VerdictHasReason
  <2>2. CASE file' = file
    <3>1. /\ At' = At /\ Generation!Saved(At)' = Generation!Saved(At) /\ (WhyFailed' <=> WhyFailed)
          /\ \A f : Generation!Was(f)' = Generation!Was(f)
      BY <2>2 DEF WhyFailed, At, Generation!Saved, Generation!Was, Generation!Absent
    <3>2. \A f : Differs(f)' <=> Differs(f)
      BY <2>2, <3>1 DEF Differs, Generation!Norm
    <3>3. (\E v \in Revisions :
              /\ <<At, v>> \in generator.ran
              /\ \A f \in Generation!Saved(At) : Differs(f) => f \in Outputs[At][v] /\ Generation!Was(f).of # v)
          => (\E v \in Revisions :
                /\ <<At, v>> \in generator.ran
                /\ \A f \in Generation!Saved(At) : Differs(f) => f \in Outputs[At][v] /\ Generation!Was(f).of # v)'
      BY <3>1, <3>2
    <3> QED
      BY <1>1, <2>2, <3>1, <3>3 DEF VerdictHasReason
  <2> QED
    BY <2>1, <2>2
<1> QED
  BY <1>2, <1>3, <1>4, <1>5, <1>6 DEF GenerationInv

\* The invariant of the generators is kept.
LEMMA GenerationStep == ASSUME GenerationInv, Generation!Next PROVE GenerationInv'
<1>1. GeneratorTyped /\ DatesAreNone(file)
  BY DEF GenerationInv
<1>2. CASE Generation!Finish
  BY <1>2, EndOfGenerator DEF Generation!Finish
<1>3. ASSUME NEW l \in Generation!LabelSet, Generation!CheckManifest(l) PROVE GenerationInv'
  BY <1>1, <1>3, OthersStep DEF Generation!CheckManifest, GeneratorTyped
<1>4. CASE Generation!Interrupt
  BY <1>4, EndOfGenerator DEF Generation!Interrupt
<1>5. CASE Generation!EditValues
  BY <1>1, <1>5, OthersStep DEF Generation!EditValues, GeneratorTyped
<1>6. CASE Generation!EditFile
  <2>1. PICK f \in Generation!Files, c \in {Generation!Absent} \cup {[of |-> v, day |-> 0] : v \in Revisions} :
           file' = [file EXCEPT ![f] = c]
    BY <1>6 DEF Generation!EditFile
  <2>2. c \in Contents /\ c.day = 0
    BY DEF Contents, Generation!Absent
  <2>3. file' \in [Generation!Files -> Contents] /\ DatesAreNone(file')
    BY <1>1, <2>1, <2>2 DEF GeneratorTyped, DatesAreNone
  <2> QED
    BY <1>1, <1>6, <2>3, OthersStep DEF Generation!EditFile, GeneratorTyped
<1>7. CASE Generation!NextDay
  <2>1. today' \in 1..2
    BY <1>7 DEF Generation!NextDay
  <2> QED
    BY <1>1, <1>7, <2>1, OthersStep DEF Generation!NextDay, GeneratorTyped
<1> QED
  BY <1>2, <1>3, <1>4, <1>5, <1>6, <1>7, StartStep, SnapshotStep, SyncStep, GeneratorRunStep, CompareStep, RestoreStep
  DEF Generation!Next

\* A check leaves the files as it found them, and its verdict is so (cli/sync.py).
LEMMA ChecksAreSo == ASSUME GenerationInv, Generation!Next PROVE Generation!ChecksHold
<1>1. GeneratorTyped /\ FilesAreFound /\ VerdictHasReason
  BY DEF GenerationInv
<1>2. SUFFICES ASSUME generator.pc # "idle", generator.check, report' \in {"in sync", "failed"}
               PROVE  Generation!ChecksHold
  BY DEF Generation!ChecksHold, Generation!FilesStay, Generation!VerdictIsSo, Generation!Checked
<1>3. Generation!Finish
  BY <1>1, <1>2 DEF Generation!Next, Generation!Start, Generation!Snapshot, Generation!Sync, Generation!Run,
     Generation!Compare, Generation!Restore, Generation!CheckManifest, Generation!Interrupt, Generation!End,
     Generation!EditValues, Generation!EditFile, Generation!NextDay, GeneratorTyped
<1>4. generator.pc = "label" /\ file' = file /\ report' = IF generator.failed THEN "failed" ELSE "in sync"
  <2>1. CASE generator.failed
    BY <1>2, <1>3, <2>1 DEF Generation!Finish, Generation!End
  <2>2. CASE ~generator.failed
    BY <1>2, <1>3, <2>2 DEF Generation!Finish, Generation!End
  <2> QED
    BY <2>1, <2>2
<1>5. \A f \in Generation!Files : Found(file[f], f)
  BY <1>1, <1>2, <1>4 DEF FilesAreFound
<1>6. Generation!FilesStay
  BY <1>4, <1>5 DEF Generation!FilesStay, Found
<1>7. Generation!VerdictIsSo
  <2>1. CASE generator.failed
    BY <1>1, <1>2, <1>4, <2>1 DEF Generation!VerdictIsSo, Generation!Checked, VerdictHasReason, WhyFailed
  <2>2. CASE ~generator.failed
    <3>1. ASSUME NEW r \in generator.ran, NEW f \in Outputs[r[1]][r[2]] PROVE file'[f].of = r[2]
      <4>1. generator.before[f].of = r[2]
        BY <1>1, <1>2, <1>4, <2>2, <3>1 DEF VerdictHasReason
      <4>2. f \in Generation!Files
        <5>1. r[1] \in Generation!LabelSet /\ r[2] \in Revisions
          BY <1>1 DEF GeneratorTyped, GeneratorType
        <5> QED
          BY <5>1, OutputsAreItsOwn
      <4>3. ~generator.hurt
        BY <1>1, <1>2, <1>4, <2>2 DEF FilesAreFound
      <4> QED
        BY <1>4, <1>5, <4>1, <4>2, <4>3 DEF Found
    <3> QED
      BY <1>4, <2>2, <3>1 DEF Generation!VerdictIsSo, Generation!Checked
  <2> QED
    BY <2>1, <2>2
<1> QED
  BY <1>6, <1>7 DEF Generation!ChecksHold

-----------------------------------------------------------------------------
\* The whole

\* The parts that share no variable hold at every moment; of those that do, the one
\* that takes steps.
Inv ==
    /\ part \in {"delivery", "attestation", "specs", "protection", "generation"}
    /\ DeliveryInv /\ AttestationInv /\ SaidOfReviews /\ SpecsInv
    /\ part = "protection" => ProtectionInv
    /\ part = "generation" => GenerationInv

\* A step of a part keeps what holds of it and of the others.
LEMMA InvStep == ASSUME Inv, Next PROVE Inv'
<1>1. CASE Step("delivery", Delivery!Next)
  <2>1. DeliveryInv'
    BY <1>1, DeliveryStep DEF Inv, Step
  <2> QED
    BY <1>1, <2>1, AttestationRests, SaidOfReviewsRests, SpecsRest DEF Inv, Step, StillBut
<1>2. CASE Step("attestation", Attestation!Next)
  <2>1. AttestationInv' /\ SaidOfReviews'
    BY <1>2, AttestationStep, SaidOfReviewsStays DEF Inv, Step, AttestationInv
  <2> QED
    BY <1>2, <2>1, DeliveryRests, SpecsRest DEF Inv, Step, StillBut
<1>3. CASE Step("specs", Specs!Next)
  <2>1. SpecsInv'
    BY <1>3, SpecsStep DEF Inv, Step
  <2> QED
    BY <1>3, <2>1, DeliveryRests, AttestationRests, SaidOfReviewsRests DEF Inv, Step, StillBut
<1>4. CASE Step("protection", Protection!Next)
  <2>1. ProtectionInv'
    BY <1>4, ProtectionStep DEF Inv, Step
  <2> QED
    BY <1>4, <2>1, DeliveryRests, AttestationRests, SaidOfReviewsRests, SpecsRest DEF Inv, Step, StillBut
<1>5. CASE Step("generation", Generation!Next)
  <2>1. GenerationInv'
    BY <1>5, GenerationStep DEF Inv, Step
  <2> QED
    BY <1>5, <2>1, DeliveryRests, AttestationRests, SaidOfReviewsRests, SpecsRest DEF Inv, Step, StillBut
<1> QED
  BY <1>1, <1>2, <1>3, <1>4, <1>5 DEF Next

\* No part hangs on what does not change.
LEMMA InvRests == ASSUME Inv, UNCHANGED vars PROVE Inv'
<1>1. DeliveryInv' /\ AttestationInv' /\ SaidOfReviews' /\ SpecsInv'
  BY DeliveryRests, AttestationRests, SaidOfReviewsRests, SpecsRest DEF Inv, vars
<1>2. ASSUME part = "protection" PROVE ProtectionInv'
  BY <1>2 DEF Inv, vars, protectionVars, ProtectionInv, ProtectionTyped, SeenIsSo, Agrees, Protection!Changes, Protection!Branch
<1>3. ASSUME part = "generation" PROVE GenerationInv'
  BY <1>3, OthersStep DEF Inv, vars, generationVars, GenerationInv, GeneratorTyped
<1> QED
  BY <1>1, <1>2, <1>3 DEF Inv, vars

\* What holds of the parts holds at every moment.
LEMMA InvHolds == Spec => []Inv
<1>1. Init => Inv
  BY DeliveryInit, AttestationInit, SaidOfReviewsInit, SpecsInit, ProtectionInit, GenerationInit DEF Init, Inv
<1>2. Inv /\ [Next]_vars => Inv'
  BY InvStep, InvRests
<1> QED
  BY <1>1, <1>2, PTL DEF Spec

\* Every variable of the part at work keeps its type.
THEOREM TypesHold == Spec => []TypeOK
<1>1. ASSUME part = "protection", ProtectionInv PROVE Protection!TypeOK
  BY <1>1 DEF ProtectionInv, ProtectionTyped, SetterType, Protection!TypeOK
<1>2. ASSUME part = "generation", GenerationInv PROVE Generation!TypeOK
  BY <1>2 DEF GenerationInv, GeneratorTyped, GeneratorType, Contents, Generation!TypeOK
<1>3. Inv => TypeOK
  BY <1>1, <1>2, DeliveryIsTyped, AttestationIsTyped, SpecsAreTyped DEF Inv, TypeOK
<1> QED
  BY <1>3, InvHolds, PTL

\* What master pins can be pulled, what prod can be pinned to ran on staging, and a
\* promotion that reports success generated its overlay, as long as nobody promotes on
\* a branch of an earlier promotion (promotion.py, registry.py).
THEOREM PinsAreHeld == ASSUME ~Reuse PROVE Spec => []PinsHold
<1>1. DeliveryInv => Delivery!PromotedIsGenerated
  BY DEF DeliveryInv, PromotionsHold, JobHolds, Delivery!PromotedIsGenerated
<1>2. Inv => PinsHold
  BY <1>1, DeliveryIsTyped DEF Inv, PinsHold
<1> QED
  BY <1>2, InvHolds, PTL

\* A published status that is no longer what the gate has to say of the pull request is
\* about to be replaced; one that tells of a review rests on a review, or on the notice
\* that a declared merge is misread by (DeclaredIsNotReviewed); and a merge that
\* closes the issue of a spec leaves it archived and signed, if the branch requires the
\* gate or people wait for it, and a push moves a spec (review-attestation.yml,
\* spec_gate.py).
THEOREM MergesAreGuarded == ASSUME Guarded PROVE Spec => []MergesHold
<1>1. Inv => MergesHold
  BY SpecsAreTyped DEF Inv, AttestationInv, SaidOfReviews, MergesHold
<1> QED
  BY <1>1, InvHolds, PTL

\* No later remark takes a review back; a reconciliation of the branch protections
\* changes nothing that is not declared and is right when it says that GitHub agrees,
\* whatever was refused, lost or taken in part; and a check of the generated files puts
\* them back and is right about them, whatever a generator did (review_attestation.py,
\* branch_protection.py, cli/sync.py).
THEOREM GuardsAreKept == Spec => GuardsStay
<1> DEFINE Kept == /\ Attestation!AttestedStays
                   /\ part = "protection" => Protection!RestStays /\ Protection!AgreesIsSo
                   /\ part = "generation" => Generation!ChecksHold
<1>1. ASSUME Inv, Next PROVE Kept
  <2>1. pr.reviews \subseteq pr'.reviews /\ pr.comments \subseteq pr'.comments
    <3>1. CASE Attestation!Next
      BY <1>1, <3>1, SaidStays DEF Inv, AttestationInv
    <3>2. CASE pr' = pr
      BY <3>2
    <3> QED
      BY <1>1, <3>1, <3>2 DEF Next, Step, StillBut, attestationVars
  <2>2. Attestation!AttestedStays
    BY <2>1, AttestedIsKept
  <2>3. ASSUME part = "protection" PROVE Protection!RestStays /\ Protection!AgreesIsSo
    <3>1. ProtectionInv /\ Protection!Next
      BY <1>1, <2>3 DEF Inv, Next, Step
    <3> QED
      BY <3>1, RestIsKept, AgreementIsTrue
  <2>4. ASSUME part = "generation" PROVE Generation!ChecksHold
    <3>1. GenerationInv /\ Generation!Next
      BY <1>1, <2>4 DEF Inv, Next, Step
    <3> QED
      BY <3>1, ChecksAreSo
  <2> QED
    BY <2>2, <2>3, <2>4
<1>2. Inv /\ [Next]_vars => [Kept]_vars
  BY <1>1
<1>3. Spec => [][Kept]_vars
  BY <1>2, InvHolds, PTL DEF Spec
<1> QED
  BY <1>3 DEF GuardsStay
=============================================================================
