---------------------------- MODULE ImageDelivery ----------------------------
(****************************************************************************)
(* From a build to production: a build pushes an immutable sha tag;         *)
(* `deployment promote` pins a tag in the values of an environment and      *)
(* generates its overlay, and a pull request brings both to master; a       *)
(* release gives the sha that staging is pinned to a semver tag; `registry  *)
(* prune` deletes the sha tags that are neither recent nor pinned.          *)
(*                                                                          *)
(* A sha tag is the number of its build.  A semver tag is the position of   *)
(* its release.                                                             *)
(****************************************************************************)
EXTENDS Integers, Sequences, FiniteSets

CONSTANTS Retention,  \* how many sha tags a pruning keeps
          Recent,     \* how old a build people still merge the pin of
          Reuse,      \* whether a promotion may begin in the tree of an earlier one
          MaxBuilds, MaxReleases, MaxPrs, MaxFaults

VARIABLES built,      \* the number of builds
          tags,       \* the sha tags in the registry
          releases,   \* the sha that each semver tag was made from
          master,     \* what master says of each environment
          ran,        \* the builds that staging was pinned to
          prs,        \* the open promotions
          job,        \* the promotion of each environment
          prune,      \* the pruning
          cut,        \* the release: the sha it resolved
          faults

registry == <<built, tags, releases>>
vars     == <<registry, master, ran, prs, job, prune, cut, faults>>

Envs == {"staging", "prod"}

\* A pin, the overlay that was generated, and whether the tag was seen to exist.
Unpinned == [values |-> 0, overlay |-> 0, seen |-> FALSE]

Resting == [pc |-> "idle", version |-> 0, tree |-> Unpinned, said |-> "nothing"]

NoPruning == [pc |-> "idle", pins |-> {}, stale |-> {}, since |-> 0]

Init ==
    /\ built = 0 /\ tags = {} /\ releases = <<>>
    /\ master = [e \in Envs |-> Unpinned]
    /\ ran = {}
    /\ prs = {}
    /\ job = [e \in Envs |-> Resting]
    /\ prune = NoPruning
    /\ cut = 0
    /\ faults = 0

-----------------------------------------------------------------------------
Fault == faults < MaxFaults /\ faults' = faults + 1

\* While a pruning runs there are fewer builds than separate what people merge
\* from what a pruning keeps.
Build ==
    /\ built < MaxBuilds
    /\ prune.pc # "idle" => built < prune.since + Retention - Recent
    /\ built' = built + 1
    /\ tags' = tags \cup {built'}
    /\ UNCHANGED <<releases, master, ran, prs, job, prune, cut, faults>>

-----------------------------------------------------------------------------
\* deployment promote

Exists(e, v) == IF e = "staging" THEN v \in tags ELSE v \in DOMAIN releases

Versions(e) == IF e = "staging" THEN 1..built ELSE 1..MaxReleases

\* The promotions of the two environments write files of their own: one runs at a time.
Begin(e, v) ==
    /\ \A f \in Envs : job[f].pc = "idle" /\ (f # e => job[f].said # "promoted")
    /\ \E tree \in {master[e]} \cup IF Reuse THEN {job[e].tree} ELSE {} :
          job' = [job EXCEPT ![e] = [pc |-> "check", version |-> v, tree |-> tree, said |-> "nothing"]]
    /\ UNCHANGED <<registry, master, ran, prs, prune, cut, faults>>

End(e, report) == job' = [job EXCEPT ![e].pc = "idle", ![e].version = 0, ![e].said = report]

\* A registry that cannot be asked is taken for one that has the tag.
Check(e) ==
    /\ job[e].pc = "check"
    /\ \/ /\ Exists(e, job[e].version)
          /\ job' = [job EXCEPT ![e].pc = "write"]
          /\ UNCHANGED faults
       \/ ~Exists(e, job[e].version) /\ End(e, "failed") /\ UNCHANGED faults
       \/ job' = [job EXCEPT ![e].pc = "write unseen"] /\ Fault
    /\ UNCHANGED <<registry, master, ran, prs, prune, cut>>

\* A tag that is pinned already leaves nothing to do.
Write(e) ==
    /\ job[e].pc \in {"write", "write unseen"}
    /\ IF job[e].tree.values = job[e].version THEN End(e, "promoted")
       ELSE job' = [job EXCEPT ![e].pc = "generate",
                               ![e].tree.values = job[e].version,
                               ![e].tree.seen = (job[e].pc = "write")]
    /\ UNCHANGED <<registry, master, ran, prs, prune, cut, faults>>

\* A mutant: what is generated is the overlay of master's values.
GenerateBefore(e) ==
    /\ job[e].pc = "generate"
    /\ job' = [job EXCEPT ![e] = [pc |-> "idle", version |-> 0, said |-> "promoted",
                               tree |-> [@.tree EXCEPT !.overlay = master[e].values]]]
    /\ UNCHANGED <<registry, master, ran, prs, prune, cut, faults>>

\* The generator fails after the values were written.
Generate(e) ==
    /\ job[e].pc = "generate"
    /\ \/ /\ job' = [job EXCEPT ![e] = [pc |-> "idle", version |-> 0, said |-> "promoted",
                                           tree |-> [@.tree EXCEPT !.overlay = job[e].tree.values]]]
          /\ UNCHANGED faults
       \/ End(e, "failed") /\ Fault
    /\ UNCHANGED <<registry, master, ran, prs, prune, cut>>

\* The workflow opens a pull request with what has changed.
OpenPr(e) ==
    /\ job[e].pc = "idle" /\ job[e].said = "promoted"
    /\ job[e].tree # master[e] /\ Cardinality(prs) < MaxPrs
    /\ prs' = prs \cup {[env |-> e, pin |-> job[e].tree]}
    /\ job' = [job EXCEPT ![e] = Resting]
    /\ UNCHANGED <<registry, master, ran, prune, cut, faults>>

\* The drift gate lets a pin through with its own overlay only; people merge it
\* while its build is recent.
Merge(pr) ==
    /\ pr.pin.overlay = pr.pin.values
    /\ pr.env = "staging" => pr.pin.values > built - Recent
    /\ prs' = prs \ {pr}
    /\ master' = [master EXCEPT ![pr.env] = pr.pin]
    /\ ran' = ran \cup IF pr.env = "staging" THEN {pr.pin.values} ELSE {}
    /\ UNCHANGED <<registry, job, prune, cut, faults>>

ClosePr(pr) ==
    /\ prs' = prs \ {pr}
    /\ UNCHANGED <<registry, master, ran, job, prune, cut, faults>>

-----------------------------------------------------------------------------
\* The release

\* A mutant: the newest build is released.
ResolveNewest ==
    /\ cut = 0 /\ tags # {}
    /\ cut' = built
    /\ UNCHANGED <<registry, master, ran, prs, job, prune, faults>>

\* The sha that staging is pinned to when the release begins.
Resolve ==
    /\ cut = 0 /\ master["staging"].values # 0
    /\ cut' = master["staging"].values
    /\ UNCHANGED <<registry, master, ran, prs, job, prune, faults>>

\* A sha that is not there any more fails the release.
Retag ==
    /\ cut # 0
    /\ releases' = IF cut \in tags /\ Len(releases) < MaxReleases THEN Append(releases, cut) ELSE releases
    /\ cut' = 0
    /\ UNCHANGED <<built, tags, master, ran, prs, job, prune, faults>>

-----------------------------------------------------------------------------
\* registry prune

Newer(t, listed) == {u \in listed : u > t}

\* A mutant: what is pinned is not spared.
StaleByAge(listed, pins) == {t \in listed : Cardinality(Newer(t, listed)) >= Retention}

\* The policy of select_stale_tags.
SelectStale(listed, pins) == {t \in listed : Cardinality(Newer(t, listed)) >= Retention} \ pins

\* The janitor has one run at a time.  Its pins are those of its checkout.
ReadPins ==
    /\ prune.pc = "idle"
    /\ prune' = [NoPruning EXCEPT !.pc = "list", !.pins = {master["staging"].values}, !.since = built]
    /\ UNCHANGED <<registry, master, ran, prs, job, cut, faults>>

EndPruning == prune' = NoPruning

ListTags ==
    /\ prune.pc = "list"
    /\ \/ /\ prune' = [prune EXCEPT !.pc = "delete", !.stale = SelectStale(tags, prune.pins)]
          /\ UNCHANGED faults
       \/ EndPruning /\ Fault
    /\ UNCHANGED <<registry, master, ran, prs, job, cut>>

\* The oldest is first.  A tag that cannot be deleted stays, and the next one follows.
DeleteTag ==
    /\ prune.pc = "delete" /\ prune.stale # {}
    /\ LET t == CHOOSE t \in prune.stale : \A u \in prune.stale : t <= u IN
       /\ prune' = [prune EXCEPT !.stale = @ \ {t}]
       /\ \/ tags' = tags \ {t} /\ UNCHANGED faults
          \/ Fault /\ UNCHANGED tags
    /\ UNCHANGED <<built, releases, master, ran, prs, job, cut>>

EndPrune ==
    /\ prune.pc = "delete" /\ prune.stale = {}
    /\ EndPruning
    /\ UNCHANGED <<registry, master, ran, prs, job, cut, faults>>

-----------------------------------------------------------------------------
Next ==
    \/ Build
    \/ \E e \in Envs :
          \/ \E v \in Versions(e) : Begin(e, v)
          \/ Check(e) \/ Write(e) \/ Generate(e) \/ OpenPr(e)
    \/ \E pr \in prs : Merge(pr) \/ ClosePr(pr)
    \/ Resolve \/ Retag
    \/ ReadPins \/ ListTags \/ DeleteTag \/ EndPrune

Spec == Init /\ [][Next]_vars

-----------------------------------------------------------------------------
Pins == [values : 0..MaxBuilds + MaxReleases, overlay : 0..MaxBuilds + MaxReleases, seen : BOOLEAN]

\* The types of the registry, of master and of the jobs.
TypeOK ==
    /\ built \in 0..MaxBuilds
    /\ tags \subseteq 1..built
    /\ Len(releases) <= MaxReleases
    /\ \A i \in DOMAIN releases : releases[i] \in 1..built
    /\ master \in [Envs -> Pins]
    /\ ran \subseteq 1..built
    /\ prs \subseteq [env : Envs, pin : Pins]
    /\ \A e \in Envs : job[e].tree \in Pins
    /\ prune.stale \subseteq 1..built
    /\ cut \in 0..built

\* A tag that master pins, and that its promotion saw, can be pulled: no pruning
\* that began before the pin was merged takes it away.
PinnedIsPullable == \A e \in Envs : master[e].seen => Exists(e, master[e].values)

\* What prod can be pinned to has been what staging was pinned to: no release is
\* made of a build that never ran there.
ProdRanOnStaging == \A i \in DOMAIN releases : releases[i] \in ran

\* A promotion that reports success leaves the overlay of the values it wrote.
PromotedIsGenerated ==
    \A e \in Envs : job[e].said = "promoted" => job[e].tree.overlay = job[e].tree.values

=============================================================================
