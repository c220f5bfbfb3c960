-------------------------- MODULE BranchProtection --------------------------
(****************************************************************************)
(* `tools branch-protection`: what common.yaml declares of the protection   *)
(* of a branch, reconciled with GitHub's object.  The write replaces the    *)
(* whole object, so the command reads it, overlays what is declared, writes *)
(* it back and reads it again.  Administrators change it in a web page.     *)
(****************************************************************************)
EXTENDS Integers, Sequences

CONSTANTS Branches,   \* those declared, in their order,
          Declared,   \* and of each: whether strict, and the required contexts
          Contexts,   \* the names of checks
          Others,     \* the other fields that the write takes; "admins" is one
          MaxEdits, MaxFaults, None

VARIABLES live,       \* the protection of each branch, or None
          job,        \* the command that runs
          report,     \* what the last one reported
          edits, faults

vars == <<live, job, report, edits, faults>>

BranchSet   == {Branches[i] : i \in DOMAIN Branches}
Protections == [strict : BOOLEAN, contexts : SUBSET Contexts, rest : SUBSET Others]
Idle        == [pc |-> "idle", apply |-> FALSE, at |-> 1, snap |-> None, pending |-> FALSE, since |-> 0]

Init ==
    /\ live \in [BranchSet -> {p \in Protections : p.rest = Others}]
    /\ job = Idle /\ report = "nothing"
    /\ edits = 0 /\ faults = 0

-----------------------------------------------------------------------------
Hand  == edits < MaxEdits /\ edits' = edits + 1
Fault == faults < MaxFaults /\ faults' = faults + 1

Branch == Branches[job.at]

\* The one predicate of the plan, of the write and of what must be true after it.
Changes(p, b) == p.strict # Declared[b].strict \/ p.contexts # Declared[b].contexts

\* A mutant: the body carries the status checks and nothing else.
BareBody(p, b) == [strict |-> Declared[b].strict, contexts |-> Declared[b].contexts, rest |-> {}]

\* The body of the write: the object that was read, with the declaration over it.
PutBody(p, b) == [strict |-> Declared[b].strict, contexts |-> Declared[b].contexts, rest |-> p.rest]

End(r) == job' = Idle /\ report' = r

\* On to the next branch; a check that found differences fails at its end.
NextBranch(pending) ==
    /\ job' = [job EXCEPT !.pc = "get", !.at = @ + 1, !.pending = pending, !.snap = None]
    /\ UNCHANGED report

Start ==
    /\ job.pc = "idle"
    /\ Hand
    /\ \E apply \in BOOLEAN : job' = [Idle EXCEPT !.pc = "get", !.apply = apply, !.since = edits + 1]
    /\ report' = "nothing"
    /\ UNCHANGED <<live, faults>>

Get ==
    /\ job.pc = "get" /\ job.at <= Len(Branches)
    /\ LET p == live[Branch] IN
       \/ /\ p # None /\ Changes(p, Branch) /\ job.apply
          /\ job' = [job EXCEPT !.pc = "put", !.snap = p] /\ UNCHANGED <<report, faults>>
       \/ /\ p # None /\ ~(Changes(p, Branch) /\ job.apply)
          /\ NextBranch(job.pending \/ Changes(p, Branch)) /\ UNCHANGED faults
       \/ p = None /\ End("failed") /\ UNCHANGED faults
       \/ Fault /\ End("failed")
    /\ UNCHANGED <<live, edits>>

\* A 200 says that the request was accepted: the checks may stay as they were.
Put ==
    /\ job.pc = "put"
    /\ LET body == PutBody(job.snap, Branch) IN
       \/ /\ live' = [live EXCEPT ![Branch] = body]
          /\ job' = [job EXCEPT !.pc = "verify"] /\ UNCHANGED <<report, faults>>
       \/ /\ Fault /\ live[Branch] # None
          /\ live' = [live EXCEPT ![Branch] = [@ EXCEPT !.rest = body.rest]]
          /\ job' = [job EXCEPT !.pc = "verify"] /\ UNCHANGED report
       \/ Fault /\ live' \in {live, [live EXCEPT ![Branch] = body]} /\ End("failed")
    /\ UNCHANGED edits

\* A mutant: what was accepted is taken for done.
VerifyNothing ==
    /\ job.pc = "verify"
    /\ NextBranch(job.pending)
    /\ UNCHANGED <<live, edits, faults>>

Verify ==
    /\ job.pc = "verify"
    /\ LET p == live[Branch] IN
       \/ /\ p # None /\ ~Changes(p, Branch) /\ ("admins" \in p.rest <=> "admins" \in job.snap.rest)
          /\ NextBranch(job.pending) /\ UNCHANGED faults
       \/ /\ p = None \/ Changes(p, Branch) \/ ~("admins" \in p.rest <=> "admins" \in job.snap.rest)
          /\ End("failed") /\ UNCHANGED faults
       \/ Fault /\ End("failed")
    /\ UNCHANGED <<live, edits>>

Finish ==
    /\ job.pc = "get" /\ job.at > Len(Branches)
    /\ End(IF job.pending THEN "disagrees" ELSE "agrees")
    /\ UNCHANGED <<live, edits, faults>>

\* An administrator edits the protection in the web page, or removes it.
ByHand ==
    /\ Hand
    /\ \E b \in BranchSet, p \in Protections \cup {None} : p # live[b] /\ live' = [live EXCEPT ![b] = p]
    /\ UNCHANGED <<job, report, faults>>

Next == Start \/ Get \/ Put \/ Verify \/ Finish \/ ByHand

Spec == Init /\ [][Next]_vars

-----------------------------------------------------------------------------
TypeOK ==
    /\ live \in [BranchSet -> Protections \cup {None}]
    /\ job.pc \in {"idle", "get", "put", "verify"}
    /\ job.at \in 1..(Len(Branches) + 1) /\ job.snap \in Protections \cup {None}
    /\ report \in {"nothing", "failed", "agrees", "disagrees"}

\* The command never changes what it does not declare, the enforcement on
\* administrators first of all, of an object that nobody else has in hand.
RestStays ==
    edits' = edits => \A b \in BranchSet :
        live'[b] # live[b] /\ live[b] # None => live'[b].rest = live[b].rest \/ edits # job.since

\* A command that says that GitHub agrees has seen it: all branches do, unless
\* somebody edits them while it runs.
AgreesIsSo ==
    job.pc # "idle" /\ report' = "agrees" /\ edits = job.since
        => \A b \in BranchSet : live'[b] # None /\ ~Changes(live'[b], b)
=============================================================================
