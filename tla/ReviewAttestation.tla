--------------------------- MODULE ReviewAttestation ---------------------------
(****************************************************************************)
(* The gate that asks whether a pull request was reviewed, and publishes    *)
(* the answer as a commit status.  Its runs are started by what happens to  *)
(* the pull request, in two concurrency groups that GitHub serialises       *)
(* separately: a run can be cancelled, or replaced while it waits.          *)
(*                                                                          *)
(* Logins are compared without the [bot] suffix.  A review or a comment is  *)
(* a record of who wrote it and of what it is.                              *)
(****************************************************************************)
EXTENDS Integers

CONSTANTS MaxPush, MaxTalk, MaxEdits, MaxFaults

VARIABLES pr,        \* the pull request
          agent,     \* this repository's own reviewer: idle, running
          runs,      \* the gate's run of each concurrency group
          queued,    \* the groups with a run that waits for the group's other run
          status,    \* the published status of each commit
          count      \* remarks, edits and faults so far

vars == <<pr, agent, runs, queued, status, count>>

Groups == {"pull request", "reviewer"}

-----------------------------------------------------------------------------
\* Who speaks, and how each API spells it.

Names  == {"author", "bot", "own", "member", "stranger"}
Logins == [name : Names, suffixed : BOOLEAN]

\* A mutant: logins are compared as they are spelt.
NormRaw(login) == IF login.suffixed THEN "?" ELSE login.name

Norm(login) == login.name

Declared == {"bot", "own"}
Member   == {"member"}

\* What is said: reviews go through the reviews API, comments carry a marker or none.
Review(name, suffixed)        == [by |-> [name |-> name, suffixed |-> suffixed], kind |-> "review"]
Comment(name, suffixed, kind) == [by |-> [name |-> name, suffixed |-> suffixed], kind |-> kind]

Reviews  == {Review("bot", TRUE), Review("member", FALSE), Review("author", FALSE)}
Comments == {Comment("bot", TRUE, "declined"), Comment("bot", FALSE, "marked"),
             Comment("stranger", FALSE, "marked")}
OwnReview == Comment("own", TRUE, "marked")

-----------------------------------------------------------------------------
\* classify

Attesting(p) == {r \in p.reviews : Norm(r.by) # "author" /\ (Norm(r.by) \in Member \/ Norm(r.by) \in Declared)}

CommentShaped(p) ==
    {c \in p.comments : c.kind = "marked" /\ Norm(c.by) \in Declared /\ Norm(c.by) # "author"}

Declines(p) == {c \in p.comments : c.kind = "declined" /\ Norm(c.by) \in Declared}

\* A mutant: a notice that no review ran is looked for first.
ClassifyDeclinedFirst(p) ==
    IF Declines(p) # {} /\ ~(p.label /\ p.section) THEN "declined"
    ELSE IF Attesting(p) \cup CommentShaped(p) # {} THEN "attested"
    ELSE IF p.files = "exempt" THEN "exempt"
    ELSE IF p.label /\ p.section THEN "disclosed"
    ELSE "pending"

\* A mutant: the label is enough.
ClassifyByLabel(p) ==
    IF Attesting(p) \cup CommentShaped(p) # {} THEN "attested"
    ELSE IF p.files = "exempt" THEN "exempt"
    ELSE IF p.label THEN "disclosed"
    ELSE "pending"

Classify(p) ==
    CASE Attesting(p) # {} \/ CommentShaped(p) # {} -> "attested"
      [] Attesting(p) = {} /\ CommentShaped(p) = {} /\ p.files = "exempt" -> "exempt"
      [] Attesting(p) = {} /\ CommentShaped(p) = {} /\ p.files # "exempt" ->
            IF p.label /\ p.section THEN "disclosed"
            ELSE IF Declines(p) # {} THEN "declined" ELSE "pending"

\* What is printed of it: the detail of a declared merge names who declined.
Printed(p) ==
    IF Classify(p) = "disclosed" /\ Declines(p) # {} THEN "disclosed-declined" ELSE Classify(p)

\* What the workflow publishes: it takes the last of the states that are named in what
\* is printed, and everything that exits 0 and is neither disclosed nor exempt for a review.
Published(printed) ==
    CASE printed \in {"attested", "disclosed-declined"} -> "a review happened"
      [] printed = "exempt"    -> "exempt"
      [] printed = "disclosed" -> "NOT reviewed"
      [] OTHER                 -> "failure"

-----------------------------------------------------------------------------
NoRun == [pc |-> "idle", sha |-> 0, read |-> "nothing"]

Begun == [pc |-> "resolve", sha |-> 0, read |-> "nothing"]

Init ==
    /\ pr = [state |-> "open", head |-> 1, reviews |-> {}, comments |-> {}, label |-> FALSE,
             section |-> FALSE, files |-> "code"]
    /\ agent = "running"
    /\ runs = [g \in Groups |-> IF g = "pull request" THEN Begun ELSE NoRun]
    /\ queued = {}
    /\ status = [c \in 1..MaxPush |-> "none"]
    /\ count = [talk |-> 0, edits |-> 0, faults |-> 0]

Open == pr.state = "open"

\* An event starts a run, cancels the one in progress for its own, or waits behind it.
Starts(g, cancels) ==
    IF runs[g].pc \in {"idle", "failed"} \/ cancels
    THEN runs' = [runs EXCEPT ![g] = Begun] /\ queued' = queued \ {g}
    ELSE queued' = queued \cup {g} /\ UNCHANGED runs

\* A mutant: the run that waits is forgotten.
EndsAlone(g, end) == runs' = [runs EXCEPT ![g] = end] /\ UNCHANGED queued

Ends(g, end) ==
    IF g \in queued THEN runs' = [runs EXCEPT ![g] = Begun] /\ queued' = queued \ {g}
    ELSE runs' = [runs EXCEPT ![g] = end] /\ UNCHANGED queued

-----------------------------------------------------------------------------
\* What happens to the pull request

Push(files) ==
    /\ Open /\ pr.head < MaxPush
    /\ pr' = [pr EXCEPT !.head = @ + 1, !.files = files]
    /\ Starts("pull request", TRUE) /\ agent' = "running"
    /\ UNCHANGED <<status, count>>

Talk == count.talk < MaxTalk /\ count' = [count EXCEPT !.talk = @ + 1]

Reviewed(r) ==
    /\ Open /\ Talk /\ r \notin pr.reviews
    /\ pr' = [pr EXCEPT !.reviews = @ \cup {r}]
    /\ Starts("pull request", TRUE)
    /\ UNCHANGED <<agent, status>>

Commented(c) ==
    /\ Open /\ Talk /\ c \notin pr.comments
    /\ pr' = [pr EXCEPT !.comments = @ \cup {c}]
    /\ Starts("pull request", FALSE)
    /\ UNCHANGED <<agent, status>>

\* A comment of the repository's own reviewer is no event; the end of its run is one.
OwnReviewed ==
    /\ Open /\ agent = "running" /\ OwnReview \notin pr.comments
    /\ pr' = [pr EXCEPT !.comments = @ \cup {OwnReview}]
    /\ UNCHANGED <<agent, runs, queued, status, count>>

AgentEnds ==
    /\ Open /\ agent = "running"
    /\ agent' = "idle"
    /\ Starts("reviewer", TRUE)
    /\ UNCHANGED <<pr, status, count>>

Edit == count.edits < MaxEdits /\ count' = [count EXCEPT !.edits = @ + 1]

\* A mutant: a label that is taken away is no event.
RelabelledOnce ==
    /\ Open /\ Edit
    /\ pr' = [pr EXCEPT !.label = ~@]
    /\ IF pr.label THEN UNCHANGED <<runs, queued>> ELSE Starts("pull request", FALSE)
    /\ UNCHANGED <<agent, status>>

Relabelled ==
    /\ Open /\ Edit
    /\ pr' = [pr EXCEPT !.label = ~@]
    /\ Starts("pull request", FALSE)
    /\ UNCHANGED <<agent, status>>

Rewritten ==
    /\ Open /\ Edit
    /\ pr' = [pr EXCEPT !.section = ~@]
    /\ Starts("pull request", FALSE)
    /\ UNCHANGED <<agent, status>>

\* The status is among the checks that the branch protection requires.
Merge ==
    /\ Open
    /\ status[pr.head] \notin {"none", "failure"}
    /\ pr' = [pr EXCEPT !.state = "merged"]
    /\ UNCHANGED <<agent, runs, queued, status, count>>

-----------------------------------------------------------------------------
\* The runs

\* A run resolves the head's commit first.
Resolve(g) ==
    /\ runs[g].pc = "resolve"
    /\ runs' = [runs EXCEPT ![g].pc = "payload", ![g].sha = pr.head]
    /\ UNCHANGED <<pr, agent, queued, status, count>>

\* Then it reads and classifies the payload.  Of two runs the first to read is
\* taken to publish first.
Read(g) ==
    /\ runs[g].pc = "payload"
    /\ \A h \in Groups : runs[h].pc # "publish"
    /\ runs' = [runs EXCEPT ![g].pc = "publish", ![g].read = Printed(pr)]
    /\ UNCHANGED <<pr, agent, queued, status, count>>

Publish(g) ==
    /\ runs[g].pc = "publish"
    /\ status' = [status EXCEPT ![runs[g].sha] = Published(runs[g].read)]
    /\ Ends(g, NoRun)
    /\ UNCHANGED <<pr, agent, count>>

\* A call that fails ends the run and publishes nothing.
Fail(g) ==
    /\ runs[g].pc \in {"resolve", "payload", "publish"}
    /\ count.faults < MaxFaults /\ count' = [count EXCEPT !.faults = @ + 1]
    /\ Ends(g, [NoRun EXCEPT !.pc = "failed"])
    /\ UNCHANGED <<pr, agent, status>>

Rerun(g) ==
    /\ Open /\ runs[g].pc = "failed"
    /\ runs' = [runs EXCEPT ![g] = Begun]
    /\ UNCHANGED <<pr, agent, queued, status, count>>

-----------------------------------------------------------------------------
Next ==
    \/ \E files \in {"code", "exempt"} : Push(files)
    \/ \E r \in Reviews : Reviewed(r)
    \/ \E c \in Comments : Commented(c)
    \/ OwnReviewed \/ AgentEnds \/ Relabelled \/ Rewritten \/ Merge
    \/ \E g \in Groups : Resolve(g) \/ Read(g) \/ Publish(g) \/ Fail(g) \/ Rerun(g)

Spec == Init /\ [][Next]_vars

-----------------------------------------------------------------------------
\* The types of the pull request, of the runs and of what they publish.
TypeOK ==
    /\ pr.head \in 1..MaxPush
    /\ pr.reviews \subseteq Reviews /\ pr.comments \subseteq Comments \cup {OwnReview}
    /\ queued \subseteq Groups
    /\ \A g \in Groups : runs[g].sha \in 0..MaxPush /\ runs[g].pc \in {"idle", "failed", "resolve", "payload", "publish"}
    /\ \A g \in queued : runs[g].pc \notin {"idle", "failed"}
    /\ \A c \in 1..MaxPush : status[c] \in {"none", "failure", "a review happened", "exempt", "NOT reviewed"}

\* What a reader would call a review: somebody other than the author who belongs
\* here, or a reviewer that is declared, said so.
SomebodyReviewed ==
    \/ \E r \in pr.reviews : r.by.name \in {"member", "bot", "own"}
    \/ \E c \in pr.comments : c.kind = "marked" /\ c.by.name \in {"bot", "own"}

\* A notice of a declared reviewer that no review ran.
Notice == \E c \in pr.comments : c.kind = "declined" /\ c.by.name \in {"bot", "own"}

\* What the gate has to say of the pull request as it is.  Of a merge that is declared
\* over a notice it says that a review happened: DeclaredIsNotReviewed is about that.
StatusDue ==
    IF SomebodyReviewed THEN "a review happened"
    ELSE IF pr.files = "exempt" THEN "exempt"
    ELSE IF ~(pr.label /\ pr.section) THEN "failure"
    ELSE IF Notice THEN "a review happened" ELSE "NOT reviewed"

\* A published status that is no longer what the gate has to say of the pull request has
\* a run to come that reads again, whatever order the events, cancellations and
\* failures come in.
StatusIsCurrent ==
    Open /\ status[pr.head] # StatusDue =>
        \/ \E g \in Groups : runs[g].pc \in {"resolve", "payload", "failed"} \/ g \in queued
        \/ \E g \in Groups : runs[g].pc = "publish" /\ runs[g].sha = pr.head /\ Published(runs[g].read) = StatusDue
        \/ agent = "running"

\* "A declared unreviewed merge must not read as a reviewed one": no commit has a status
\* that says so when nobody has reviewed the pull request.
DeclaredIsNotReviewed ==
    \A c \in 1..MaxPush : status[c] = "a review happened" => SomebodyReviewed

\* A status that says so rests on a review, or on a notice that no review ran.
ReviewOrNotice ==
    \A c \in 1..MaxPush : status[c] = "a review happened" => SomebodyReviewed \/ Notice

\* Nothing that is said later takes a review back.
AttestedStays == Classify(pr) = "attested" => Classify(pr)' = "attested"

=============================================================================
