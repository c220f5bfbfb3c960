--------------------------- MODULE SecretsOutProofs ---------------------------
(****************************************************************************)
(* What the two ways out of the vault keep, for any Secrets, sources and    *)
(* items, any operators and syncers, and any number of failures and edits.  *)
(****************************************************************************)
EXTENDS SecretsOut, WellFoundedInduction, TLAPS

-----------------------------------------------------------------------------
\* The delivery to a cluster

Values == [Sources -> Int]

\* The values a run can read, and what it renders of them.
LEMMA ReadingsAreValues ==
  ASSUME D!TypeOK
  PROVE  D!Nothing \in Values /\ D!Readable \in Values /\ D!Rendered(D!Readable) \in Values
<1>1. D!Nothing \in Values /\ D!Readable \in Values
  BY DEF D!TypeOK, D!Nothing, D!Readable, D!Absent, Values
<1>2. D!Rendered(D!Readable) \in Values
  BY <1>1, DeliveryAssumption DEF D!Rendered, Values
<1> QED
  BY <1>1, <1>2

\* What a Secret is made of.
LEMMA ContentIsValues ==
  ASSUME D!TypeOK, NEW o \in Operators, NEW b \in Bundles PROVE D!Content(o, b) \in Values
BY DEF D!TypeOK, D!Content, D!Absent, Values

\* The end of a run clears what is the run's.
LEMMA EndIsTyped ==
  ASSUME D!TypeOK, NEW o \in Operators, NEW r \in {"nothing", "refused", "applied", "failed"}, D!End(o, r),
         UNCHANGED <<vault, clear, live, edits>>, faults' \in Nat
  PROVE  D!TypeOK'
BY ReadingsAreValues DEF D!End, D!GoTo, D!TypeOK, Values

\* Every step of a delivery keeps the types.
LEMMA DeliveryTypeStep == ASSUME D!TypeOK, D!Next PROVE D!TypeOK'
<1> USE DEF D!world, D!process, D!vars
<1>1. ASSUME NEW o \in Operators, D!Load(o) PROVE D!TypeOK'
  BY <1>1, ReadingsAreValues DEF D!Load, D!GoTo, D!Parts, D!TypeOK, Values
<1>2. ASSUME NEW o \in Operators, D!LoadRefuses(o) \/ D!RenderRefuses(o) \/ D!Finish(o) \/ D!Kill(o)
      PROVE  D!TypeOK'
  <2>1. PICK r \in {"nothing", "refused", "applied", "failed"} : D!End(o, r)
    BY <1>2 DEF D!LoadRefuses, D!RenderRefuses, D!Finish, D!Kill
  <2>2. faults' \in Nat
    BY <1>2 DEF D!LoadRefuses, D!RenderRefuses, D!Finish, D!Kill, D!Fault, D!TypeOK
  <2> QED
    BY <1>2, <2>1, <2>2, EndIsTyped DEF D!LoadRefuses, D!RenderRefuses, D!Finish, D!Kill
<1>3. ASSUME NEW o \in Operators, NEW i \in 1..3, D!Render(o, i) PROVE D!TypeOK'
  <2>1. [s \in Sources |-> IF KindOf[s] = D!Parts[i] THEN D!Rendered(D!Readable)[s] ELSE rendered[o][s]] \in Values
    BY ReadingsAreValues DEF D!TypeOK, Values
  <2>2. rendered' \in [Operators -> Values] /\ UNCHANGED <<vault, clear, live, loaded, bad, said, edits, faults>>
    BY <1>3, <2>1 DEF D!Render, D!TypeOK, Values
  <2>3. CASE i < 3
    <3>1. D!Parts[i + 1] \in {"users", "routes"}
      BY <2>3 DEF D!Parts
    <3>2. pc' = [pc EXCEPT ![o] = D!Parts[i + 1]] /\ UNCHANGED todo
      BY <1>3, <2>3 DEF D!Render, D!GoTo
    <3> QED
      BY <2>2, <3>1, <3>2 DEF D!TypeOK, Values
  <2>4. CASE i = 3
    <3>1. pc' = [pc EXCEPT ![o] = "apply"] /\ todo' = [todo EXCEPT ![o] = Bundles]
      BY <1>3, <2>4 DEF D!Render, D!GoTo
    <3> QED
      BY <2>2, <3>1 DEF D!TypeOK, Values
  <2> QED
    BY <2>3, <2>4
<1>4. ASSUME NEW o \in Operators, NEW b \in Bundles, D!Apply(o, b) \/ D!NotApplied(o, b) PROVE D!TypeOK'
  <2>1. CASE D!Apply(o, b)
    BY <2>1, ContentIsValues DEF D!Apply, D!TypeOK, Values
  <2>2. CASE D!NotApplied(o, b)
    BY <2>2 DEF D!NotApplied, D!Fault, D!TypeOK
  <2> QED
    BY <1>4, <2>1, <2>2
<1>5. ASSUME NEW s \in Sources, D!Edit(s) PROVE D!TypeOK'
  <2>1. PICK v \in {edits + 2, D!Absent, D!Placeholder} : vault' = [vault EXCEPT ![s] = v]
    BY <1>5 DEF D!Edit
  <2>2. v \in Int
    BY DEF D!TypeOK, D!Absent, D!Placeholder
  <2> QED
    BY <1>5, <2>1, <2>2 DEF D!Edit, D!TypeOK
<1>6. ASSUME NEW f \in D!SopsFiles, D!Uncover(f) \/ D!Cover(f) PROVE D!TypeOK'
  BY <1>6 DEF D!Uncover, D!Cover, D!TypeOK
<1> QED
  BY <1>1, <1>2, <1>3, <1>4, <1>5, <1>6 DEF D!Next, D!Work, D!World

\* A run has not been refused: of the values that have to be there none that it read is a
\* placeholder. Neither is one of those that are live. A run that applies has the superadmin.
Admitted ==
    /\ \A b \in Bundles : \A s \in Takes[b] \cap D!OfKind({"required"}) : live[b][s] # D!Placeholder
    /\ \A o \in Operators :
          /\ pc[o] # "idle" => \A s \in D!OfKind({"required"}) : loaded[o][s] # D!Placeholder
          /\ pc[o] = "apply" => \A s \in D!OfKind({"superadmin"}) : rendered[o][s] # D!Absent

\* One run at a time: while one goes on nobody has reported; what it has applied is what it
\* read, as long as it has applied everything so far; and what was reported stays.
OneRun ==
    /\ \A p, q \in Operators : pc[p] # "idle" /\ pc[q] # "idle" => p = q
    /\ \A p, q \in Operators : pc[p] # "idle" => said[q] = "nothing"
    /\ \A p \in Operators : pc[p] = "apply" /\ ~bad[p] => \A b \in Bundles \ todo[p] : live[b] = D!Content(p, b)

\* The sources of a Secret are sources.
LEMMA TakenAreSources ==
  ASSUME NEW b \in Bundles, NEW s \in Takes[b] PROVE s \in Sources
BY DeliveryAssumption

\* A step of a run that ends.
LEMMA EndsAdmitted ==
  ASSUME D!TypeOK, Admitted, NEW o \in Operators, NEW r, D!End(o, r), UNCHANGED live PROVE Admitted'
BY DEF D!End, D!GoTo, D!TypeOK, Admitted

\* What is read and what is live stay admitted.
LEMMA AdmittedStep == ASSUME D!TypeOK, Admitted, D!Next PROVE Admitted'
<1> USE DEF D!world, D!process, D!vars
<1>1. ASSUME NEW o \in Operators, D!Load(o) PROVE Admitted'
  BY <1>1 DEF D!Load, D!GoTo, D!Parts, D!TypeOK, Admitted, D!Refused
<1>2. ASSUME NEW o \in Operators, D!LoadRefuses(o) \/ D!RenderRefuses(o) \/ D!Finish(o) \/ D!Kill(o)
      PROVE  Admitted'
  <2>1. PICK r : D!End(o, r)
    BY <1>2 DEF D!LoadRefuses, D!RenderRefuses, D!Finish, D!Kill
  <2>2. UNCHANGED live
    BY <1>2 DEF D!LoadRefuses, D!RenderRefuses, D!Finish, D!Kill
  <2> QED
    BY <2>1, <2>2, EndsAdmitted
<1>3. ASSUME NEW o \in Operators, NEW i \in 1..3, D!Render(o, i) PROVE Admitted'
  <2>1. pc[o] # "idle" /\ UNCHANGED <<live, loaded>> /\ \A p \in Operators : p # o => pc'[p] = pc[p] /\ rendered'[p] = rendered[p]
    BY <1>3 DEF D!Render, D!GoTo, D!Parts, D!TypeOK
  <2>2. pc'[o] = "apply" => \A s \in D!OfKind({"superadmin"}) : rendered'[o][s] # D!Absent
    <3>1. ASSUME pc'[o] = "apply", NEW s \in D!OfKind({"superadmin"}) PROVE rendered'[o][s] # D!Absent
      <4>1. i = 3
        BY <1>3, <3>1 DEF D!Render, D!GoTo, D!Parts, D!TypeOK
      <4>2. rendered[o][s] # D!Absent /\ rendered'[o][s] = rendered[o][s]
        BY <1>3, <3>1, <4>1 DEF D!Render, D!Parts, D!TypeOK, D!OfKind
      <4> QED
        BY <4>2
    <3> QED
      BY <3>1
  <2> QED
    BY <2>1, <2>2 DEF Admitted
<1>4. ASSUME NEW o \in Operators, NEW b \in Bundles, D!Apply(o, b) PROVE Admitted'
  <2>1. live' = [live EXCEPT ![b] = D!Content(o, b)] /\ UNCHANGED <<pc, loaded, rendered>> /\ pc[o] = "apply"
    BY <1>4 DEF D!Apply
  <2>2. ASSUME NEW s \in Takes[b] \cap D!OfKind({"required"}) PROVE D!Content(o, b)[s] # D!Placeholder
    BY <2>1, TakenAreSources DEF Admitted, D!Content, D!OfKind
  <2>3. \A c \in Bundles : live'[c] = IF c = b THEN D!Content(o, b) ELSE live[c]
    BY <2>1 DEF D!TypeOK
  <2> QED
    BY <2>1, <2>2, <2>3 DEF Admitted
<1>5. ASSUME NEW o \in Operators, NEW b \in Bundles, D!NotApplied(o, b) PROVE Admitted'
  BY <1>5 DEF D!NotApplied, Admitted
<1>6. CASE D!World
  BY <1>6 DEF D!World, D!Edit, D!Uncover, D!Cover, Admitted
<1> QED
  BY <1>1, <1>2, <1>3, <1>4, <1>5, <1>6 DEF D!Next, D!Work

\* No apply takes what has to be there.
LEMMA AppliesKeep == ASSUME D!TypeOK, Admitted, Admitted', D!Next PROVE D!KeptByApply
<1> SUFFICES ASSUME NEW b \in Bundles, NEW s \in Takes[b] \cap D!OfKind({"required", "superadmin"})
             PROVE  /\ live[b][s] # D!Absent => live'[b][s] # D!Absent
                    /\ KindOf[s] = "required" => live'[b][s] # D!Placeholder
  BY DEF D!KeptByApply
<1>1. KindOf[s] = "required" => live'[b][s] # D!Placeholder
  BY TakenAreSources DEF Admitted, D!OfKind
<1>2. ASSUME NEW o \in Operators, D!Apply(o, b) PROVE live'[b][s] # D!Absent
  <2>1. live'[b] = D!Content(o, b) /\ pc[o] = "apply" /\ ~D!Incomplete(o, b)
    BY <1>2 DEF D!Apply, D!TypeOK
  <2>2. s \in Sources
    BY TakenAreSources
  <2>3. CASE KindOf[s] = "required"
    <3>1. s \in Takes[b] \cap D!OfKind({"required"})
      BY <2>2, <2>3 DEF D!OfKind
    <3>2. loaded[o][s] # D!Absent
      BY <2>1, <3>1 DEF D!Incomplete
    <3> QED
      BY <2>1, <2>2, <2>3, <3>2 DEF D!Content
  <2>4. CASE KindOf[s] = "superadmin"
    <3>1. rendered[o][s] # D!Absent
      BY <2>1, <2>2, <2>4 DEF Admitted, D!OfKind
    <3> QED
      BY <2>1, <2>2, <2>4, <3>1 DEF D!Content
  <2> QED
    BY <2>3, <2>4 DEF D!OfKind
<1>3. ASSUME NEW o \in Operators, NEW c \in Bundles, D!Apply(o, c), c # b PROVE live'[b] = live[b]
  BY <1>3 DEF D!Apply, D!TypeOK
<1>4. CASE UNCHANGED live
  BY <1>1, <1>4
<1>5. (\E o \in Operators, c \in Bundles : D!Apply(o, c)) \/ UNCHANGED live
  BY DEF D!Next, D!World, D!Work, D!Edit, D!Uncover, D!Cover, D!Load, D!LoadRefuses, D!RenderRefuses, D!Finish,
     D!Render, D!NotApplied, D!Kill
<1> QED
  BY <1>1, <1>2, <1>3, <1>4, <1>5
\* A run in progress is the only one: what the others have is what they had.
LEMMA OneRunStep == ASSUME ~Overlap, D!TypeOK, OneRun, D!Next PROVE OneRun'
<1> USE DEF D!world, D!process, D!vars
<1>1. ASSUME NEW o \in Operators, D!Load(o) PROVE OneRun'
  <2>1. /\ \A p \in Operators : pc[p] = "idle"
        /\ pc' = [pc EXCEPT ![o] = "superadmin"]
        /\ said' = [p \in Operators |-> "nothing"]
    BY <1>1 DEF D!Load, D!GoTo, D!Parts
  <2> QED
    BY <2>1 DEF D!TypeOK, OneRun
<1>2. ASSUME NEW o \in Operators, D!LoadRefuses(o) \/ D!RenderRefuses(o) \/ D!Finish(o) \/ D!Kill(o)
      PROVE  OneRun'
  <2>1. PICK r : D!End(o, r)
    BY <1>2 DEF D!LoadRefuses, D!RenderRefuses, D!Finish, D!Kill
  <2>2. \A p \in Operators : p # o => pc[p] = "idle"
    BY <1>2 DEF D!LoadRefuses, D!RenderRefuses, D!Finish, D!Kill, D!Parts, OneRun
  <2>3. \A p \in Operators : pc'[p] = "idle"
    BY <2>1, <2>2 DEF D!End, D!GoTo, D!TypeOK
  <2> QED
    BY <2>3 DEF OneRun
<1>3. ASSUME NEW o \in Operators, NEW i \in 1..3, D!Render(o, i) PROVE OneRun'
  <2>1. pc[o] # "idle" /\ UNCHANGED <<live, loaded, bad, said>>
    BY <1>3 DEF D!Render, D!Parts
  <2>2. \A p \in Operators : p # o => pc[p] = "idle" /\ pc'[p] = "idle"
    BY <1>3, <2>1 DEF D!Render, D!GoTo, D!TypeOK, OneRun
  <2>3. pc'[o] = "apply" => todo'[o] = Bundles
    BY <1>3 DEF D!Render, D!GoTo, D!Parts, D!TypeOK
  <2> QED
    BY <2>1, <2>2, <2>3 DEF OneRun
<1>4. ASSUME NEW o \in Operators, NEW b \in Bundles, D!Apply(o, b) PROVE OneRun'
  <2>1. /\ live' = [live EXCEPT ![b] = D!Content(o, b)] /\ todo' = [todo EXCEPT ![o] = @ \ {b}]
        /\ UNCHANGED <<pc, loaded, rendered, bad, said>> /\ pc[o] = "apply"
    BY <1>4 DEF D!Apply
  <2>2. \A p \in Operators : p # o => pc[p] = "idle"
    BY <2>1 DEF OneRun
  <2>3. \A c \in Bundles : D!Content(o, c)' = D!Content(o, c)
    BY <2>1 DEF D!Content
  <2>4. ASSUME ~bad[o], NEW c \in Bundles \ todo'[o] PROVE live'[c] = D!Content(o, c)
    BY <2>1, <2>4 DEF D!TypeOK, OneRun
  <2>5. pc'[o] = "apply" /\ ~bad'[o] => \A c \in Bundles \ todo'[o] : live'[c] = D!Content(o, c)'
    BY <2>1, <2>3, <2>4
  <2> QED
    BY <2>1, <2>2, <2>5 DEF OneRun
<1>5. ASSUME NEW o \in Operators, NEW b \in Bundles, D!NotApplied(o, b) PROVE OneRun'
  <2>1. bad'[o] /\ UNCHANGED <<live, pc, loaded, rendered, said>> /\ pc[o] = "apply"
    BY <1>5 DEF D!NotApplied, D!TypeOK
  <2>2. \A p \in Operators : p # o => pc[p] = "idle"
    BY <2>1 DEF OneRun
  <2> QED
    BY <2>1, <2>2 DEF OneRun
<1>6. CASE D!World
  <2>1. UNCHANGED <<live, pc, loaded, rendered, todo, bad, said>>
    BY <1>6 DEF D!World, D!Edit, D!Uncover, D!Cover
  <2>2. \A p \in Operators : \A b \in Bundles : D!Content(p, b)' = D!Content(p, b)
    BY <2>1 DEF D!Content
  <2> QED
    BY <2>1, <2>2 DEF OneRun
<1> QED
  BY <1>1, <1>2, <1>3, <1>4, <1>5, <1>6 DEF D!Next, D!Work

\* The Secrets that a run has filled hold the same of what they share.
LEMMA ContentsAgree ==
  ASSUME NEW o, NEW b \in Bundles, NEW c \in Bundles, NEW s \in Takes[b] \cap Takes[c]
  PROVE  D!Content(o, b)[s] = D!Content(o, c)[s]
BY TakenAreSources DEF D!Content

\* A run reports success when it has applied everything.
LEMMA CopiesAgreeStep == ASSUME ~Overlap, D!TypeOK, OneRun, D!CopiesAgree, D!Next PROVE D!CopiesAgree'
<1> USE DEF D!world, D!process, D!vars
<1>1. ASSUME NEW o \in Operators, D!Load(o) PROVE D!CopiesAgree'
  BY <1>1 DEF D!Load, D!TypeOK, D!CopiesAgree
<1>2. ASSUME NEW o \in Operators, D!LoadRefuses(o) \/ D!RenderRefuses(o) \/ D!Kill(o) PROVE D!CopiesAgree'
  <2>1. PICK r : D!End(o, r) /\ r # "applied"
    BY <1>2 DEF D!LoadRefuses, D!RenderRefuses, D!Kill
  <2>2. UNCHANGED live
    BY <1>2 DEF D!LoadRefuses, D!RenderRefuses, D!Kill
  <2> QED
    BY <2>1, <2>2 DEF D!End, D!TypeOK, D!CopiesAgree
<1>3. ASSUME NEW o \in Operators, D!Finish(o) PROVE D!CopiesAgree'
  <2>1. /\ said' = [said EXCEPT ![o] = IF bad[o] THEN "failed" ELSE "applied"]
        /\ UNCHANGED live /\ pc[o] = "apply" /\ todo[o] = {}
    BY <1>3 DEF D!Finish, D!End
  <2>2. ASSUME ~bad[o], NEW b \in Bundles, NEW c \in Bundles, NEW s \in Takes[b] \cap Takes[c]
        PROVE  live[b][s] = live[c][s]
    <3>1. live[b] = D!Content(o, b) /\ live[c] = D!Content(o, c)
      BY <2>1, <2>2 DEF OneRun
    <3> QED
      BY <3>1, ContentsAgree
  <2> QED
    BY <2>1, <2>2 DEF D!TypeOK, D!CopiesAgree
<1>4. ASSUME NEW o \in Operators, NEW b \in Bundles, D!Apply(o, b) PROVE D!CopiesAgree'
  BY <1>4 DEF D!Apply, OneRun, D!CopiesAgree
<1>5. ASSUME UNCHANGED <<live, said>> PROVE D!CopiesAgree'
  BY <1>5 DEF D!CopiesAgree
<1>6. (\E o \in Operators, i \in 1..3 : D!Render(o, i)) => UNCHANGED <<live, said>>
  BY DEF D!Render
<1>7. (\E o \in Operators, b \in Bundles : D!NotApplied(o, b)) \/ D!World => UNCHANGED <<live, said>>
  BY DEF D!NotApplied, D!World, D!Edit, D!Uncover, D!Cover
<1> QED
  BY <1>1, <1>2, <1>3, <1>4, <1>5, <1>6, <1>7 DEF D!Next, D!Work

-----------------------------------------------------------------------------
\* The copy to the secret manager

\* The numbers of the enabled versions of a secret.
Enabled(i) == {v[1] : v \in versions[i]}

\* What a sync is about to destroy is older than a version that is there, and nothing
\* else removes one.
OnlyOld ==
    \A p \in Syncers :
        doomed[p] # {} =>
            /\ step[p] = "destroy"
            /\ \A n \in doomed[p] : \E m \in Enabled(item[p]) : m > n

\* A set of numbers up to one has a largest.
LEMMA LargestExists ==
  ASSUME NEW n \in Nat, NEW T \in SUBSET (1..n), T # {}
  PROVE  \E x \in T : \A y \in T : x >= y
<1> DEFINE U == {k \in Nat : n - k \in T}
<1>1. U # {}
  <2>1. PICK x \in T : TRUE
    OBVIOUS
  <2>2. n - x \in Nat /\ n - (n - x) = x
    BY <2>1
  <2> QED
    BY <2>1, <2>2
<1>2. PICK k \in U : \A j \in U : ~(<<j, k>> \in OpToRel(<, Nat))
  <2>1. U \subseteq Nat
    OBVIOUS
  <2> HIDE DEF U
  <2> QED
    BY <1>1, <2>1, NatLessThanWellFounded, WFMin
<1>3. ASSUME NEW y \in T PROVE n - k >= y
  <2>1. n - y \in U
    BY <1>3
  <2>2. ~(n - y < k)
    <3>1. <<n - y, k>> \notin OpToRel(<, Nat)
      BY <1>2, <2>1
    <3> QED
      BY <2>1, <3>1 DEF OpToRel
  <2> QED
    BY <2>1, <2>2
<1> QED
  BY <1>2, <1>3

\* Max gives it.
LEMMA MaxIsLargest ==
  ASSUME NEW n \in Nat, NEW T \in SUBSET (1..n), T # {}
  PROVE  S!Max(T) \in T /\ \A y \in T : S!Max(T) >= y
<1>1. \E x \in T : \A y \in T : x >= y
  BY LargestExists
<1> QED
  BY <1>1 DEF S!Max

\* The newest version is one of those that are enabled, and none is newer.
LEMMA NewestIsNewest ==
  ASSUME S!TypeOK, NEW i \in Items, versions[i] # {}
  PROVE  S!Newest(i) \in Enabled(i) /\ \A y \in Enabled(i) : S!Newest(i) >= y
<1>1. Enabled(i) \in SUBSET (1..made) /\ Enabled(i) # {} /\ made \in Nat
  BY DEF S!TypeOK, Enabled
<1>2. S!Newest(i) = S!Max(Enabled(i))
  BY DEF S!Newest, Enabled
<1> QED
  BY <1>1, <1>2, MaxIsLargest

\* A new version is the newest, and the others stay.
LEMMA PutAdds ==
  ASSUME S!TypeOK, NEW p \in Syncers, S!Put(p)
  PROVE  /\ made' = made + 1
         /\ DOMAIN versions' = Items
         /\ \A i \in Items : \A v \in versions'[i] : v[1] \in 1..made' /\ v[2] \in Nat
         /\ \A i \in Items : versions[i] \subseteq versions'[i]
<1> DEFINE new == <<made + 1, wanted[p][item[p]]>>
<1>1. item[p] \in Items /\ wanted[p][item[p]] \in Nat
  BY DEF S!TypeOK
<1>2. new[1] \in 1..made + 1 /\ new[2] \in Nat
  BY <1>1 DEF S!TypeOK
<1>3. /\ DOMAIN versions' = Items /\ made' = made + 1
      /\ \A i \in Items : versions'[i] = IF i = item[p] THEN versions[i] \cup {new} ELSE versions[i]
  BY <1>1 DEF S!Put, S!TypeOK
<1> HIDE DEF new
<1>4. \A i \in Items : \A v \in versions[i] : v[1] \in 1..made + 1 /\ v[2] \in Nat
  BY DEF S!TypeOK
<1> QED
  BY <1>2, <1>3, <1>4

\* Every step of a copy keeps the types.
LEMMA SyncTypeStep == ASSUME S!TypeOK, S!Next PROVE S!TypeOK'
<1> USE DEF S!outside, S!sync
<1>1. ASSUME NEW p \in Syncers, S!Collect(p) PROVE S!TypeOK'
  <2>1. S!Collected \in [Items -> Nat]
    BY DEF S!Collected, S!Absent, S!TypeOK
  <2> QED
    BY <1>1, <2>1 DEF S!Collect, S!GoTo, S!TypeOK
<1>2. ASSUME NEW p \in Syncers, NEW i \in Items, S!Describe(p, i) PROVE S!TypeOK'
  <2>1. PICK l \in {"create", "access"} : step' = [step EXCEPT ![p] = l]
    BY <1>2 DEF S!Describe, S!GoTo
  <2>2. faults' \in Nat
    BY <1>2 DEF S!Describe, S!Fault, S!TypeOK
  <2> QED
    BY <1>2, <2>1, <2>2 DEF S!Describe, S!TypeOK
<1>3. ASSUME NEW p \in Syncers, S!Create(p) \/ S!CreateFails(p) \/ S!AddFails(p) \/ S!Add(p) PROVE S!TypeOK'
  <2>1. S!Put(p) \/ UNCHANGED <<versions, made>>
    BY <1>3 DEF S!Create, S!CreateFails, S!Add, S!AddFails
  <2>2. faults' \in Nat /\ failed' \in [Syncers -> BOOLEAN]
    <3>1. UNCHANGED faults \/ S!Fault
      BY <1>3 DEF S!Create, S!CreateFails, S!Add, S!AddFails
    <3>2. UNCHANGED failed \/ S!Fails(p)
      BY <1>3 DEF S!Create, S!CreateFails, S!Add, S!AddFails
    <3>3. S!Fails(p) => failed' \in [Syncers -> BOOLEAN]
      BY DEF S!Fails, S!TypeOK
    <3> QED
      BY <3>1, <3>2, <3>3 DEF S!Fault, S!TypeOK
  <2>3. PICK l \in {"next", "list"} : step' = [step EXCEPT ![p] = l]
    BY <1>3 DEF S!Create, S!CreateFails, S!Add, S!AddFails, S!Fails, S!GoTo
  <2>4. UNCHANGED <<origin, asleep, changes, wanted, left, item, doomed, report>>
    BY <1>3 DEF S!Create, S!CreateFails, S!Add, S!AddFails
  <2>5. CASE S!Put(p)
    <3>1. doomed' \in [Syncers -> SUBSET (1..made')] /\ made' \in Nat
      BY <2>4, <2>5, PutAdds DEF S!TypeOK
    <3> QED
      BY <2>2, <2>3, <2>4, <2>5, <3>1, PutAdds DEF S!TypeOK
  <2>6. CASE UNCHANGED <<versions, made>>
    BY <2>2, <2>3, <2>4, <2>6 DEF S!TypeOK
  <2> QED
    BY <2>1, <2>5, <2>6
<1>4. ASSUME NEW p \in Syncers, S!Access(p) PROVE S!TypeOK'
  <2>1. PICK l \in {"next", "add"} : step' = [step EXCEPT ![p] = l]
    BY <1>4 DEF S!Access, S!GoTo
  <2>2. faults' \in Nat
    BY <1>4 DEF S!Access, S!Fault, S!TypeOK
  <2> QED
    BY <1>4, <2>1, <2>2 DEF S!Access, S!TypeOK
<1>5. ASSUME NEW p \in Syncers, S!List(p) PROVE S!TypeOK'
  <2>1. item[p] \in Items /\ S!Superseded(item[p]) \in SUBSET (1..made)
    BY DEF S!TypeOK, S!Superseded
  <2>2. PICK l \in {"next", "destroy"} : step' = [step EXCEPT ![p] = l]
    BY <1>5 DEF S!List, S!GoTo
  <2>3. faults' \in Nat /\ doomed' \in [Syncers -> SUBSET (1..made)]
    BY <1>5, <2>1 DEF S!List, S!Fault, S!TypeOK
  <2> QED
    BY <1>5, <2>2, <2>3 DEF S!List, S!TypeOK
<1>6. ASSUME NEW p \in Syncers, NEW n \in 1..made, S!Destroy(p, n) PROVE S!TypeOK'
  <2>1. /\ DOMAIN versions' = Items
        /\ \A i \in Items : versions'[i] \subseteq versions[i]
    BY <1>6 DEF S!Destroy, S!TypeOK
  <2>2. faults' \in Nat /\ doomed' \in [Syncers -> SUBSET (1..made)]
    BY <1>6 DEF S!Destroy, S!Fault, S!TypeOK
  <2> QED
    BY <1>6, <2>1, <2>2 DEF S!Destroy, S!TypeOK
<1>7. ASSUME NEW p \in Syncers, S!Destroyed(p) PROVE S!TypeOK'
  BY <1>7 DEF S!Destroyed, S!GoTo, S!TypeOK
<1>8. ASSUME NEW p \in Syncers, S!Finish(p) PROVE S!TypeOK'
  <2>1. PICK r \in {"failed", "synced"} : report' = [report EXCEPT ![p] = r]
    BY <1>8 DEF S!Finish
  <2>2. [i \in Items |-> S!Absent] \in [Items -> Nat]
    BY DEF S!Absent
  <2> QED
    BY <1>8, <2>1, <2>2 DEF S!Finish, S!GoTo, S!TypeOK
<1>9. CASE S!World
  <2>1. asleep' \in BOOLEAN
    BY <1>9 DEF S!World, S!Switch, S!Rotate, S!TypeOK
  <2>2. origin' \in [Items -> Nat] /\ changes' \in Nat
    <3>1. CASE S!Switch
      BY <3>1 DEF S!Switch, S!TypeOK
    <3>2. ASSUME NEW i \in Items, S!Rotate(i) PROVE origin' \in [Items -> Nat] /\ changes' \in Nat
      BY <3>2 DEF S!Rotate, S!TypeOK
    <3> QED
      BY <1>9, <3>1, <3>2 DEF S!World
  <2>3. UNCHANGED <<versions, made, step, wanted, left, item, doomed, failed, report, faults>>
    BY <1>9 DEF S!World, S!Switch, S!Rotate
  <2> QED
    BY <2>1, <2>2, <2>3 DEF S!TypeOK
<1> QED
  BY <1>1, <1>2, <1>3, <1>4, <1>5, <1>6, <1>7, <1>8, <1>9 DEF S!Next, S!Work

\* A step that is no destruction takes no version, and dooms none but of a sync that lists.
LEMMA OnlyOldStep == ASSUME S!TypeOK, OnlyOld, S!Next PROVE OnlyOld'
<1> USE DEF S!outside, S!sync
<1>1. ASSUME NEW p \in Syncers, UNCHANGED doomed, doomed[p] = {},
             \A q \in Syncers : q # p => step'[q] = step[q] /\ item'[q] = item[q],
             \A i \in Items : versions[i] \subseteq versions'[i]
      PROVE  OnlyOld'
  <2>1. \A i \in Items : Enabled(i) \subseteq Enabled(i)'
    BY <1>1 DEF Enabled
  <2>2. \A q \in Syncers : item[q] \in Items
    BY DEF S!TypeOK
  <2> QED
    BY <1>1, <2>1, <2>2 DEF OnlyOld
<1>2. ASSUME NEW p \in Syncers,
             S!Collect(p) \/ S!Access(p) \/ S!Destroyed(p) \/ S!Finish(p) \/ \E i \in Items : S!Describe(p, i)
      PROVE  OnlyOld'
  <2>1. doomed[p] = {}
    BY <1>2 DEF S!Collect, S!Access, S!Destroyed, S!Finish, S!Describe, OnlyOld
  <2>2. UNCHANGED <<doomed, versions>>
    BY <1>2 DEF S!Collect, S!Access, S!Destroyed, S!Finish, S!Describe
  <2>3. \A q \in Syncers : q # p => step'[q] = step[q] /\ item'[q] = item[q]
    BY <1>2 DEF S!Collect, S!Access, S!Destroyed, S!Finish, S!Describe, S!GoTo, S!TypeOK
  <2> QED
    BY <1>1, <2>1, <2>2, <2>3
<1>3. ASSUME NEW p \in Syncers, S!Create(p) \/ S!CreateFails(p) \/ S!AddFails(p) \/ S!Add(p) PROVE OnlyOld'
  <2>1. S!Put(p) \/ UNCHANGED versions
    BY <1>3 DEF S!Create, S!CreateFails, S!Add, S!AddFails
  <2>2. UNCHANGED <<doomed, item>> /\ doomed[p] = {}
    BY <1>3 DEF S!Create, S!CreateFails, S!Add, S!AddFails, OnlyOld
  <2>3. \A q \in Syncers : q # p => step'[q] = step[q]
    BY <1>3 DEF S!Create, S!CreateFails, S!Add, S!AddFails, S!Fails, S!GoTo, S!TypeOK
  <2>4. \A i \in Items : versions[i] \subseteq versions'[i]
    BY <2>1, PutAdds
  <2> QED
    BY <1>1, <2>2, <2>3, <2>4
<1>4. ASSUME NEW p \in Syncers, S!List(p) PROVE OnlyOld'
  <2>1. \A q \in Syncers : q # p => step'[q] = step[q] /\ doomed'[q] = doomed[q]
    BY <1>4 DEF S!List, S!GoTo, S!TypeOK
  <2>2. UNCHANGED <<item, versions>> /\ doomed[p] = {}
    BY <1>4 DEF S!List, OnlyOld
  <2>3. doomed'[p] # {} => step'[p] = "destroy" /\ doomed'[p] = S!Superseded(item[p])
    BY <1>4, <2>2 DEF S!List, S!GoTo, S!TypeOK
  <2>4. ASSUME NEW n \in S!Superseded(item[p]) PROVE \E m \in Enabled(item[p]) : m > n
    <3>1. item[p] \in Items /\ n \in Enabled(item[p]) /\ n # S!Newest(item[p])
      BY <2>4 DEF S!Superseded, Enabled, S!TypeOK
    <3>2. versions[item[p]] # {} /\ n \in Nat
      BY <3>1 DEF Enabled, S!TypeOK
    <3>3. S!Newest(item[p]) \in Enabled(item[p]) /\ S!Newest(item[p]) >= n
      BY <3>1, <3>2, NewestIsNewest
    <3>4. S!Newest(item[p]) \in Nat
      BY <3>1, <3>3 DEF Enabled, S!TypeOK
    <3> QED
      BY <3>1, <3>2, <3>3, <3>4
  <2>5. \A q \in Syncers : Enabled(item[q])' = Enabled(item[q])
    BY <2>2 DEF Enabled
  <2> QED
    BY <2>1, <2>2, <2>3, <2>4, <2>5 DEF OnlyOld
<1>5. ASSUME NEW p \in Syncers, NEW n \in 1..made, S!Destroy(p, n) PROVE OnlyOld'
  <2>1. n \in doomed[p] /\ item[p] \in Items /\ UNCHANGED <<item, step>>
    BY <1>5 DEF S!Destroy, S!TypeOK
  <2>2. \A q \in Syncers : doomed'[q] \subseteq doomed[q]
    BY <1>5 DEF S!Destroy, S!TypeOK
  <2>3. \A i \in Items : \A m \in Enabled(i) : i # item[p] \/ m # n => m \in {v[1] : v \in versions'[i]}
    BY <1>5 DEF S!Destroy, S!TypeOK, Enabled
  <2>4. ASSUME NEW q \in Syncers, NEW k \in doomed[q] PROVE \E m \in {v[1] : v \in versions'[item[q]]} : m > k
    <3>1. PICK m \in Enabled(item[q]) : m > k
      BY <2>4 DEF OnlyOld
    <3>2. item[q] \in Items /\ m \in Nat /\ k \in Nat
      BY <2>4, <3>1 DEF S!TypeOK, Enabled
    <3>3. CASE item[q] # item[p] \/ m # n
      BY <2>1, <2>3, <3>1, <3>2, <3>3
    <3>4. CASE item[q] = item[p] /\ m = n
      <4>1. PICK l \in Enabled(item[p]) : l > n
        BY <2>1 DEF OnlyOld
      <4>2. l \in Nat
        BY <2>1, <4>1 DEF S!TypeOK, Enabled
      <4> QED
        BY <2>1, <2>3, <3>1, <3>2, <3>4, <4>1, <4>2
    <3> QED
      BY <3>3, <3>4
  <2> QED
    BY <2>1, <2>2, <2>4 DEF OnlyOld, Enabled
<1>6. CASE S!World
  <2>1. UNCHANGED <<doomed, step, item, versions>>
    BY <1>6 DEF S!World, S!Switch, S!Rotate
  <2> QED
    BY <2>1 DEF OnlyOld, Enabled
<1> QED
  BY <1>2, <1>3, <1>4, <1>5, <1>6 DEF S!Next, S!Work
\* No step takes the newest version before a newer one is there.
LEMMA NewestStaysStep == ASSUME S!TypeOK, S!TypeOK', OnlyOld, S!Next PROVE S!NewestStays
<1> USE DEF S!outside, S!sync
<1> SUFFICES ASSUME NEW i \in Items, versions[i] # {}
             PROVE  versions'[i] # {} /\ S!Max({v[1] : v \in versions'[i]}) >= S!Newest(i)
  BY DEF S!NewestStays
<1>1. S!Newest(i) \in Enabled(i) /\ \A y \in Enabled(i) : S!Newest(i) >= y
  BY NewestIsNewest
<1>2. S!Newest(i) \in {v[1] : v \in versions'[i]}
  <2>1. ASSUME NEW p \in Syncers, NEW n \in 1..made, S!Destroy(p, n) PROVE S!Newest(i) \in {v[1] : v \in versions'[i]}
    <3>1. n \in doomed[p] /\ item[p] \in Items
      BY <2>1 DEF S!Destroy, S!TypeOK
    <3>2. item[p] = i => S!Newest(i) # n
      <4>1. PICK m \in Enabled(item[p]) : m > n
        BY <3>1 DEF OnlyOld
      <4>2. n \in Nat /\ m \in Nat
        BY <3>1, <4>1 DEF S!TypeOK, Enabled
      <4> QED
        BY <1>1, <4>1, <4>2
    <3>3. \A m \in Enabled(i) : i # item[p] \/ m # n => m \in {v[1] : v \in versions'[i]}
      BY <2>1 DEF S!Destroy, S!TypeOK, Enabled
    <3> QED
      BY <1>1, <3>2, <3>3
  <2>2. ASSUME versions[i] \subseteq versions'[i] PROVE S!Newest(i) \in {v[1] : v \in versions'[i]}
    BY <1>1, <2>2 DEF Enabled
  <2>3. ASSUME NEW p \in Syncers, S!Create(p) \/ S!CreateFails(p) \/ S!AddFails(p) \/ S!Add(p)
        PROVE  versions[i] \subseteq versions'[i]
    <3>1. S!Put(p) \/ UNCHANGED versions
      BY <2>3 DEF S!Create, S!CreateFails, S!Add, S!AddFails
    <3> QED
      BY <3>1, PutAdds
  <2>4. ASSUME NEW p \in Syncers,
               S!Collect(p) \/ S!Access(p) \/ S!List(p) \/ S!Destroyed(p) \/ S!Finish(p) \/ \E j \in Items : S!Describe(p, j)
        PROVE  UNCHANGED versions
    BY <2>4 DEF S!Collect, S!Access, S!List, S!Destroyed, S!Finish, S!Describe
  <2>5. S!World => UNCHANGED versions
    BY DEF S!World, S!Switch, S!Rotate
  <2> QED
    BY <2>1, <2>2, <2>3, <2>4, <2>5 DEF S!Next, S!Work
<1>3. {v[1] : v \in versions'[i]} \in SUBSET (1..made') /\ made' \in Nat
  BY DEF S!TypeOK
<1> QED
  BY <1>2, <1>3, MaxIsLargest

-----------------------------------------------------------------------------
\* Both

\* What every behaviour keeps.
Kept == TypeOK /\ Admitted /\ OnlyOld

\* The beginning of either.
LEMMA InitKept == ASSUME Init PROVE Kept /\ OneRun /\ CopiesAgree
<1> USE DEF Init, D!Init, S!Init
<1>1. D!TypeOK
  <2>1. D!Nothing \in [Sources -> Int] /\ \A b \in Bundles : [s \in Sources |-> IF s \in Takes[b] THEN 1 ELSE D!Absent] \in [Sources -> Int]
    BY DEF D!Nothing, D!Absent
  <2>2. live \in [Bundles -> [Sources -> Int]]
    BY <2>1
  <2> QED
    BY <2>1, <2>2 DEF D!TypeOK
<1>2. S!TypeOK
  BY SyncAssumption DEF S!TypeOK, S!Absent
<1>3. Admitted
  <2>1. \A b \in Bundles : \A s \in Sources : live[b][s] # D!Placeholder
    <3>1. ASSUME NEW b \in Bundles, NEW s \in Sources PROVE live[b][s] \in {0, 1}
      <4>1. CASE live = [c \in Bundles |-> D!Nothing]
        BY <4>1 DEF D!Nothing, D!Absent
      <4>2. CASE live = [c \in Bundles |-> [t \in Sources |-> IF t \in Takes[c] THEN 1 ELSE D!Absent]]
        BY <4>2 DEF D!Absent
      <4> QED
        BY <4>1, <4>2
    <3> QED
      BY <3>1 DEF D!Placeholder
  <2> QED
    BY <2>1, TakenAreSources DEF Admitted
<1>4. OnlyOld /\ OneRun /\ CopiesAgree
  BY DEF OnlyOld, OneRun, CopiesAgree, D!CopiesAgree
<1> QED
  BY <1>1, <1>2, <1>3, <1>4 DEF Kept, TypeOK

\* What the other part does not touch is as it was.
LEMMA DeliveryRests ==
  ASSUME D!TypeOK, UNCHANGED deliveryVars, faults' \in Nat
  PROVE  D!TypeOK' /\ (Admitted => Admitted') /\ (OneRun => OneRun') /\ (CopiesAgree => CopiesAgree')
<1> USE DEF deliveryVars
<1>1. D!TypeOK'
  BY DEF D!TypeOK, D!SopsFiles
<1>2. Admitted => Admitted'
  BY DEF Admitted
<1>3. OneRun => OneRun'
  BY DEF OneRun, D!Content
<1>4. CopiesAgree => CopiesAgree'
  BY DEF CopiesAgree, D!CopiesAgree
<1> QED
  BY <1>1, <1>2, <1>3, <1>4

\* The same of the copy.
LEMMA SyncRests == ASSUME S!TypeOK, UNCHANGED syncVars, faults' \in Nat PROVE S!TypeOK' /\ (OnlyOld => OnlyOld')
<1> USE DEF syncVars
<1>1. S!TypeOK'
  BY DEF S!TypeOK
<1>2. OnlyOld => OnlyOld'
  BY DEF OnlyOld, Enabled
<1> QED
  BY <1>1, <1>2

\* Every step keeps the invariant.
LEMMA KeptStep == ASSUME Kept, [Next]_vars PROVE Kept'
<1> USE DEF Kept, TypeOK
<1>1. CASE Delivering(D!Next)
  <2>1. D!TypeOK' /\ Admitted'
    BY <1>1, DeliveryTypeStep, AdmittedStep DEF Delivering
  <2>2. S!TypeOK' /\ OnlyOld'
    <3>1. faults' \in Nat
      BY <2>1 DEF D!TypeOK
    <3> QED
      BY <1>1, <3>1, SyncRests DEF Delivering
  <2> QED
    BY <2>1, <2>2
<1>2. CASE Syncing(S!Next)
  <2>1. S!TypeOK' /\ OnlyOld'
    BY <1>2, SyncTypeStep, OnlyOldStep DEF Syncing
  <2>2. D!TypeOK' /\ Admitted'
    <3>1. faults' \in Nat
      BY <2>1 DEF S!TypeOK
    <3> QED
      BY <1>2, <3>1, DeliveryRests DEF Syncing
  <2> QED
    BY <2>1, <2>2
<1>3. CASE UNCHANGED vars
  <2>1. faults' \in Nat
    BY <1>3 DEF vars, D!TypeOK
  <2> QED
    BY <1>3, <2>1, DeliveryRests, SyncRests DEF vars
<1> QED
  BY <1>1, <1>2, <1>3 DEF Next

\* The invariant is one of the specification.
LEMMA SpecKept == Spec => []Kept
<1>1. Init => Kept
  BY InitKept
<1>2. Kept /\ [Next]_vars => Kept'
  BY KeptStep
<1> QED
  BY <1>1, <1>2, PTL DEF Spec

\* Type correctness of the two ways out of the vault (SecretDelivery,
\* SecretManagerSync), with any number of operators and syncers at the same time.
THEOREM TypesHold == Spec => []TypeOK
<1>1. Kept => TypeOK
  BY DEF Kept
<1> QED
  BY <1>1, SpecKept, PTL

\* The property KeptByApply (secrets_manager.py, apply): whatever is unreadable or
\* changes while a run goes on, and even if runs overlap, no apply takes a required value
\* or the superadmin out of a live Secret or puts a placeholder there.  A run that read a
\* placeholder is over, so what it applies of the required values is either there or the
\* Secret is refused; and one that applies at all has resolved the superadmin.
THEOREM AppliesAreWhole == Spec => KeptByApply
<1>1. Kept /\ Kept' /\ [Next]_vars => [D!KeptByApply]_vars
  <2> SUFFICES ASSUME Kept, Kept', Next PROVE D!KeptByApply
    OBVIOUS
  <2>1. CASE Delivering(D!Next)
    BY <2>1, AppliesKeep DEF Delivering, Kept, TypeOK
  <2>2. CASE Syncing(S!Next)
    <3>1. UNCHANGED live /\ Admitted
      BY <2>2 DEF Syncing, deliveryVars, Kept
    <3> QED
      BY <3>1, TakenAreSources DEF D!KeptByApply, D!OfKind, Admitted
  <2> QED
    BY <2>1, <2>2 DEF Next
<1> QED
  BY <1>1, SpecKept, PTL DEF Spec, KeptByApply

\* The property CopiesAgree, when runs do not overlap: a run that reports success leaves
\* the Secrets that share a value with the same of it, for a run takes every value from
\* one reading.
THEOREM CopiesHold == ASSUME ~Overlap PROVE Spec => []CopiesAgree
<1>1. Kept /\ OneRun /\ CopiesAgree /\ [Next]_vars => OneRun' /\ CopiesAgree'
  <2> SUFFICES ASSUME Kept, OneRun, CopiesAgree, [Next]_vars PROVE OneRun' /\ CopiesAgree'
    OBVIOUS
  <2>1. CASE Delivering(D!Next)
    BY <2>1, OneRunStep, CopiesAgreeStep DEF Delivering, Kept, TypeOK, CopiesAgree
  <2>2. CASE Syncing(S!Next) \/ UNCHANGED vars
    <3>1. UNCHANGED deliveryVars
      BY <2>2 DEF Syncing, vars
    <3>2. faults' \in Nat
      BY KeptStep DEF Kept, TypeOK, D!TypeOK
    <3> QED
      BY <3>1, <3>2, DeliveryRests DEF Kept, TypeOK
  <2> QED
    BY <2>1, <2>2 DEF Next
<1>2. Init => OneRun /\ CopiesAgree
  BY InitKept
<1> QED
  BY <1>1, <1>2, SpecKept, PTL DEF Spec

\* The property NewestStays (secrets_manager.py, sync-secret-manager): however many syncs
\* overlap and wherever one fails, no enabled version goes before a newer one is there;
\* every version that a sync is about to destroy is older than one that is enabled.
THEOREM NewestIsKept == Spec => NewestStays
<1>1. Kept /\ Kept' /\ [Next]_vars => [S!NewestStays]_vars
  <2> SUFFICES ASSUME Kept, Kept', Next PROVE S!NewestStays
    OBVIOUS
  <2>1. CASE Syncing(S!Next)
    BY <2>1, NewestStaysStep DEF Syncing, Kept, TypeOK
  <2>2. CASE Delivering(D!Next)
    <3>1. UNCHANGED versions
      BY <2>2 DEF Delivering, syncVars
    <3> SUFFICES ASSUME NEW i \in Items, versions[i] # {} PROVE S!Newest(i) >= S!Newest(i)
      BY <3>1 DEF S!NewestStays, S!Newest
    <3>2. S!Newest(i) \in Enabled(i)
      BY NewestIsNewest DEF Kept, TypeOK
    <3> QED
      BY <3>2 DEF Enabled, Kept, TypeOK, S!TypeOK
  <2> QED
    BY <2>1, <2>2 DEF Next
<1> QED
  BY <1>1, SpecKept, PTL DEF Spec, NewestStays
=============================================================================
