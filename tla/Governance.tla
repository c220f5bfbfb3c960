------------------------------ MODULE Governance ------------------------------
(****************************************************************************)
(* What decides what reaches master and production: an initial state picks  *)
(* one of five parts, and only that one takes steps, since none writes what *)
(* another one reads.  The variables edits, report and faults are those of  *)
(* the part.                                                                *)
(****************************************************************************)
EXTENDS Integers, Sequences, FiniteSets

CONSTANTS
    Retention, Recent, Reuse, MaxBuilds, MaxReleases, MaxPrs,   \* of the delivery of images,
    MaxHeads, MaxTalk, MaxRelabels,                             \* of the attestation of reviews,
    Issues, Required, Waits, Copies, MaxPush,                   \* of the gate of the specs,
    Branches, Contexts, Checks, Others, None,                   \* of the branch protection,
    Labels, Revisions, Outputs, Listing, Directory, Dated,      \* of the generated files,
    Preserving, Midway, Refused, Crashing,
    MaxEdits, MaxFaults                                         \* and of several (see the modules)

\* People merge the pin of a build that a pruning would keep.
ASSUME DeliveryAssumption ==
    /\ Retention \in Nat /\ Recent \in 1..Retention
    /\ MaxBuilds \in Nat /\ MaxReleases \in Nat

ASSUME AttestationAssumption == MaxHeads \in Nat \ {0}

ASSUME SpecsAssumption == MaxPush \in Nat \ {0}

VARIABLES
    part, edits, faults,
    built, tags, releases, master, ran, prs, job, prune, cut,
    pr, agent, runs, queued, status, count,
    state, head, body, tree, run, verdict,
    guard, setter, report,
    source, today, sops, file, generator

Delivery == INSTANCE ImageDelivery

Attestation == INSTANCE ReviewAttestation WITH MaxPush <- MaxHeads, MaxEdits <- MaxRelabels

Specs == INSTANCE SpecGate WITH Specs <- Issues

Protection == INSTANCE BranchProtection WITH Declared <- Checks, live <- guard, job <- setter

Generation == INSTANCE GeneratedFiles WITH Versions <- Revisions, Declared <- Listing, job <- generator

\* Of each branch is declared what GitHub can be told, and a branch without
\* protection is told from every protection.
ASSUME ProtectionAssumption ==
    /\ None \notin Protection!Protections
    /\ Branches \in Seq(Protection!BranchSet)
    /\ \A b \in Protection!BranchSet : Checks[b].strict \in BOOLEAN /\ Checks[b].contexts \in SUBSET Contexts

\* A generator writes in a directory of its own, and only what it is known by when
\* it is known by a list of files; its date is either kept, not compared or not there.
ASSUME GenerationAssumption ==
    /\ Labels \in Seq(Generation!LabelSet)
    /\ Revisions \subseteq Nat \ {0} /\ 1 \in Revisions
    /\ \A l \in Generation!LabelSet :
          /\ Listing[l] \subseteq Directory[l]
          /\ \A v \in Revisions : Outputs[l][v] \subseteq IF Listing[l] # {} THEN Listing[l] ELSE Directory[l]
          /\ \A m \in Generation!LabelSet \ {l} : Directory[l] \cap Directory[m] = {}
    /\ Dated \cap Preserving = {}

deliveryVars    == <<built, tags, releases, master, ran, prs, job, prune, cut>>
attestationVars == <<pr, agent, runs, queued, status, count>>
specVars        == <<state, head, body, tree, run, verdict>>
protectionVars  == <<guard, setter>>
generationVars  == <<source, today, sops, file, generator>>

vars == <<part, edits, faults, deliveryVars, attestationVars, specVars, protectionVars, generationVars, report>>

-----------------------------------------------------------------------------
\* The other parts are at rest in one of their initial states.
Init ==
    /\ part \in {"delivery", "attestation", "specs", "protection", "generation"}
    /\ edits = 0 /\ faults = 0
    /\ Delivery!Init
    /\ Attestation!Init
    /\ Specs!Init /\ (part = "specs" \/ body.closes = {})
    /\ Protection!Init
    /\ part # "protection" => \A b \in DOMAIN guard : ~Protection!Changes(guard[b], b)
    /\ Generation!Init /\ (part = "generation" \/ sops)

\* A step of the part is one of the whole that leaves the other parts alone.
StillBut(p) ==
    /\ UNCHANGED part
    /\ p # "delivery" => UNCHANGED deliveryVars
    /\ p # "attestation" => UNCHANGED attestationVars
    /\ p # "specs" => UNCHANGED specVars
    /\ p # "protection" => UNCHANGED protectionVars
    /\ p # "generation" => UNCHANGED generationVars
    /\ p \in {"delivery", "attestation", "specs"} => UNCHANGED report
    /\ p \in {"delivery", "attestation"} => UNCHANGED edits
    /\ p \in {"attestation", "specs"} => UNCHANGED faults

Step(p, A) == part = p /\ A /\ StillBut(p)

Next ==
    \/ Step("delivery", Delivery!Next)
    \/ Step("attestation", Attestation!Next)
    \/ Step("specs", Specs!Next)
    \/ Step("protection", Protection!Next)
    \/ Step("generation", Generation!Next)

Spec == Init /\ [][Next]_vars

-----------------------------------------------------------------------------
TypeOK ==
    CASE part = "delivery"    -> Delivery!TypeOK
      [] part = "attestation" -> Attestation!TypeOK
      [] part = "specs"       -> Specs!TypeOK
      [] part = "protection"  -> Protection!TypeOK
      [] part = "generation"  -> Generation!TypeOK

\* What production runs: a tag that master pins can be pulled, prod's image ran on
\* staging, and a promotion that reports success generated its overlay
\* (promotion.py, registry.py).
PinsHold == Delivery!PinnedIsPullable /\ Delivery!ProdRanOnStaging /\ Delivery!PromotedIsGenerated

\* What master takes: a published status that is no longer what the gate has to say is
\* about to be replaced, and one that tells of a review rests on a review or on a notice
\* (review-attestation.yml); and a spec whose issue a merge closes is archived and signed
\* (spec_gate.py).
MergesHold == Attestation!StatusIsCurrent /\ Attestation!ReviewOrNotice /\ Specs!ClosedIsSigned

\* No later remark takes a review back (review_attestation.py); no command takes from
\* a branch what it does not declare, or says that GitHub agrees when it does not
\* (branch_protection.py); and a check of the generated files leaves them as it found
\* them and says in sync of what was generated only if it is the same (cli/sync.py).
GuardsStay ==
    [][/\ Attestation!AttestedStays
       /\ part = "protection" => Protection!RestStays /\ Protection!AgreesIsSo
       /\ part = "generation" => Generation!ChecksHold]_vars

\* "A declared unreviewed merge must not read as a reviewed one" (review-attestation.yml).
DeclaredIsNotReviewed == Attestation!DeclaredIsNotReviewed
=============================================================================
