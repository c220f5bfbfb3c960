---------------------------- MODULE ClusterDeploy ----------------------------
(****************************************************************************)
(* The two ways to a cluster: `k8s deploy` generates the manifests of a     *)
(* worktree, rehearses them, applies the bootstrap layer and then the       *)
(* manifests, and waits for the pods; Argo CD brings the revision its       *)
(* Application follows.  Besides them `k8s dry-run`, `bootstrap` and        *)
(* `restart`, and `argo set-revision`, `deploy-apps` and `check-drift`.     *)
(*                                                                          *)
(* A configuration is a version: what the values declare, what each         *)
(* generated file was rendered from, what each file of the cluster says.    *)
(****************************************************************************)
EXTENDS Integers, Sequences

CONSTANTS Versions,
          Refused,    \* the files of some that the spoke's identity may not apply,
          Broken,     \* those that one template does not render,
          Crashing,   \* those whose pods never become ready,
          Floating,   \* and those whose tag is mutable (dev, latest, -rc)
          Files,      \* the generated files, in the order of _TEMPLATE_MAP
          Entries,    \* the bootstrap layer, in its order, and the entries whose
          Optional,   \* target may be off
          Preview,    \* the version on the branch of a preview
          MaxEdits, MaxFaults, None

VARIABLES declared,   \* the version of the worktree's values,
          overlay,    \* and the one that each generated file was rendered from
          master,     \* the version on master
          target,     \* the revision that the Application follows,
          synced,     \* the version Argo CD last brought,
          selfHeal,   \* and whether it corrects what others change
          live,       \* the version of each file in the cluster
          forced,     \* the versions that were applied with the operator's rights
          installed,  \* the entries of the bootstrap layer in the cluster
          pods,       \* the version and the image they run, and whether a restart is due
          pushed,     \* the builds pushed under the mutable tag,
          cached,     \* and the one the node has, or 0
          job,        \* the command that runs
          report,     \* what the last one reported
          edits, faults

git     == <<declared, master>>
hub     == <<target, synced, selfHeal>>
cluster == <<live, forced, installed>>
images  == <<pushed, cached>>
vars    == <<git, overlay, hub, cluster, pods, images, job, report, edits, faults>>

FileSet == {Files[i] : i \in DOMAIN Files}
Idle    == [pc |-> "idle", what |-> "none", at |-> 1, from |-> 1, as |-> "spoke", since |-> 0, fresh |-> FALSE]

Whole(v)    == [f \in FileSet |-> v]
Revision(t) == IF t = "master" THEN master ELSE Preview

\* What the pods are to run: the Deployment is in the first file.
Template == live[Files[1]]
Settled  == pods.version = Template /\ ~pods.due

\* A mutant: it keeps the image that it has.
PulledOnce(v) == IF v \notin Floating THEN 0 ELSE IF cached # 0 THEN cached ELSE pushed

\* The node asks the registry again under a mutable tag, and otherwise never.
Pulled(v) == IF v \in Floating THEN pushed ELSE 0

Init ==
    /\ declared = 1 /\ master = 1
    /\ overlay = Whole(1)
    /\ target = "master" /\ synced = 1 /\ selfHeal \in BOOLEAN
    /\ live = Whole(1) /\ forced = {} /\ installed = {}
    /\ pushed = 1 /\ cached = 1
    /\ pods = [version |-> 1, image |-> Pulled(1), due |-> FALSE]
    /\ job = Idle /\ report = "nothing"
    /\ edits = 0 /\ faults = 0

-----------------------------------------------------------------------------
GoTo(label) == job' = [job EXCEPT !.pc = label, !.at = 1]
End(r)      == job' = Idle /\ report' = r
Fault       == faults < MaxFaults /\ faults' = faults + 1
Hand        == edits < MaxEdits /\ edits' = edits + 1

\* What the templates are rendered with: the values, flattened, app by app.
Context == declared

\* Who runs the apply: the spoke's identity, or the operator by the escape hatch.
Start(what, as, label) ==
    /\ job.pc = "idle"
    /\ job' = [pc |-> label, what |-> what, at |-> 1, from |-> Context, as |-> as, since |-> pushed,
               fresh |-> label = "generate"]
    /\ report' = "nothing"
    /\ UNCHANGED <<git, overlay, hub, cluster, pods, images, faults>>

Deploy ==
    /\ \E as \in {"spoke", "operator"}, label \in {"generate", "rehearse"} : Start("deploy", as, label)
    /\ Hand

DryRun    == Start("dry-run", "operator", "generate") /\ Hand
Bootstrap == Start("bootstrap", "operator", "bootstrap") /\ Hand

\* A template that fails writes nothing.
Renders(f, v) == v \in Broken => f = Files[1]

\* A mutant: a template that fails is left out.
GenerateOn ==
    /\ job.pc = "generate"
    /\ \/ /\ job.at > Len(Files)
          /\ GoTo(IF job.what = "deploy" THEN "rehearse" ELSE "bootstrap")
          /\ UNCHANGED overlay
       \/ /\ job.at <= Len(Files)
          /\ IF Renders(Files[job.at], job.from)
             THEN overlay' = [overlay EXCEPT ![Files[job.at]] = job.from]
             ELSE UNCHANGED overlay
          /\ job' = [job EXCEPT !.at = @ + 1]
    /\ UNCHANGED <<git, hub, cluster, pods, images, report, edits, faults>>

\* One file after another, all from the context built first.
Generate ==
    /\ job.pc = "generate"
    /\ \/ /\ job.at > Len(Files)
          /\ GoTo(IF job.what = "deploy" THEN "rehearse" ELSE "bootstrap")
          /\ UNCHANGED <<overlay, report>>
       \/ /\ job.at <= Len(Files)
          /\ Renders(Files[job.at], job.from)
          /\ overlay' = [overlay EXCEPT ![Files[job.at]] = job.from]
          /\ job' = [job EXCEPT !.at = @ + 1]
          /\ UNCHANGED report
       \/ /\ job.at <= Len(Files) /\ ~Renders(Files[job.at], job.from)
          /\ End("failed")
          /\ UNCHANGED overlay
    /\ UNCHANGED <<git, hub, cluster, pods, images, edits, faults>>

\* A mutant: the manifests are applied with the operator's rights.
AdmitsAll(f) == TRUE

\* What the API server lets through under the identity of the command.
Admits(f) == job.as = "operator" \/ <<f, overlay[f]>> \notin Refused

Rehearse ==
    /\ job.pc = "rehearse"
    /\ \/ /\ \A f \in FileSet : Admits(f)
          /\ GoTo("bootstrap")
          /\ UNCHANGED <<report, faults>>
       \/ (\E f \in FileSet : ~Admits(f)) /\ End("failed") /\ UNCHANGED faults
       \/ Fault /\ End("failed")
    /\ UNCHANGED <<git, overlay, hub, cluster, pods, images, edits>>

\* The entries in their order; one whose target is off is skipped if it may be.  A dry run
\* ends with one of the manifests, which kubectl may refuse.
Prepare ==
    /\ job.pc = "bootstrap"
    /\ \/ /\ job.at > Len(Entries)
          /\ \/ job.what = "deploy" /\ GoTo("apply") /\ UNCHANGED report
             \/ job.what = "dry-run" /\ End("valid")
             \/ job.what = "bootstrap" /\ End("bootstrapped")
          /\ UNCHANGED <<installed, faults>>
       \/ /\ job.at > Len(Entries) /\ job.what = "dry-run"
          /\ Fault /\ End("failed")
          /\ UNCHANGED installed
       \/ /\ job.at <= Len(Entries)
          /\ job' = [job EXCEPT !.at = @ + 1]
          /\ \/ /\ installed' = IF job.what = "dry-run" THEN installed ELSE installed \cup {Entries[job.at]}
                /\ UNCHANGED faults
             \/ Entries[job.at] \in Optional /\ Fault /\ UNCHANGED installed
          /\ UNCHANGED report
       \/ /\ job.at <= Len(Entries)
          /\ Fault /\ End("failed")
          /\ UNCHANGED installed
    /\ UNCHANGED <<git, overlay, hub, live, forced, pods, images, edits>>

\* What is refused, or comes too late when the connection breaks, stays as it was.
Apply ==
    /\ job.pc = "apply"
    /\ \E S \in SUBSET {f \in FileSet : Admits(f)} :
        /\ live' = [f \in FileSet |-> IF f \in S THEN overlay[f] ELSE live[f]]
        /\ forced' = IF job.as = "operator" THEN forced \cup {overlay[f] : f \in S} ELSE forced
        /\ IF S = FileSet
           THEN GoTo("rollout") /\ UNCHANGED <<report, faults>>
           ELSE /\ End("failed")
                /\ IF S = {f \in FileSet : Admits(f)} THEN UNCHANGED faults ELSE Fault
    /\ UNCHANGED <<git, overlay, hub, installed, pods, images, edits>>

-----------------------------------------------------------------------------
\* A restart marks the pods' template, so that new ones replace them, and waits.
Restart ==
    /\ job.pc = "idle"
    /\ job' = [Idle EXCEPT !.pc = "rollout", !.what = "restart", !.since = pushed]
    /\ report' = "nothing"
    /\ pods' = [pods EXCEPT !.due = TRUE]
    /\ Hand
    /\ UNCHANGED <<git, overlay, hub, cluster, images, faults>>

\* The deploy, too, waits until the pods run what the cluster declares.
Rollout ==
    /\ job.pc = "rollout"
    /\ \/ Settled /\ End(IF job.what = "deploy" THEN "deployed" ELSE "restarted") /\ UNCHANGED faults
       \/ Template \in Crashing /\ End("failed") /\ UNCHANGED faults
       \/ ~Settled /\ Fault /\ End("failed")
    /\ UNCHANGED <<git, overlay, hub, cluster, pods, images, edits>>

PodsStart ==
    /\ ~Settled
    /\ Template \notin Crashing
    /\ pods' = [version |-> Template, image |-> Pulled(Template), due |-> FALSE]
    /\ cached' = IF Template \in Floating THEN pods'.image ELSE cached
    /\ UNCHANGED <<git, overlay, hub, cluster, pushed, job, report, edits, faults>>

\* Argo CD reapplies the whole revision when it is a new one, and when others
\* changed the cluster if it is to heal; a refused manifest stops it.
Sync ==
    LET rev == Revision(target) IN
    /\ rev # synced \/ (selfHeal /\ live # Whole(rev))
    /\ \A f \in FileSet : <<f, rev>> \notin Refused
    /\ live' = Whole(rev)
    /\ synced' = rev
    /\ UNCHANGED <<git, overlay, target, selfHeal, forced, installed, pods, images, job, report, edits, faults>>

-----------------------------------------------------------------------------
\* set-revision reads the Application and patches the target and nothing else.
Patch(t) == target' = t

SetRevision ==
    /\ \E t \in {"master", "preview"} \ {target} : Patch(t)
    /\ Hand
    /\ UNCHANGED <<git, overlay, synced, selfHeal, cluster, pods, images, job, report, faults>>

\* deploy-apps applies the Applications as git has them and then checks.
DeployApps ==
    /\ Start("deploy-apps", "operator", "applications")
    /\ Hand

ApplyApps ==
    /\ job.pc = "applications"
    /\ \/ target' = "master" /\ GoTo("check") /\ UNCHANGED <<report, faults>>
       \/ Fault /\ End("failed") /\ UNCHANGED target
    /\ UNCHANGED <<git, overlay, synced, selfHeal, cluster, pods, images, edits>>

CheckDrift ==
    /\ job.pc = "check"
    /\ \/ End(IF target = "master" THEN "clean" ELSE "drift") /\ UNCHANGED faults
       \/ Fault /\ End("cannot-check")
    /\ UNCHANGED <<git, overlay, hub, cluster, pods, images, edits>>

\* What people do: they edit the values, merge what CI renders, push an image.
Declare ==
    /\ \E v \in Versions \ {declared} : declared' = v
    /\ Hand
    /\ UNCHANGED <<master, overlay, hub, cluster, pods, images, job, report, faults>>

Merge ==
    /\ \E v \in Versions \ (Broken \cup {master}) : master' = v
    /\ Hand
    /\ UNCHANGED <<declared, overlay, hub, cluster, pods, images, job, report, faults>>

PushImage ==
    /\ pushed' = pushed + 1
    /\ Hand
    /\ UNCHANGED <<git, overlay, hub, cluster, pods, cached, job, report, faults>>

Works == Generate \/ Rehearse \/ Prepare \/ Apply \/ Rollout \/ ApplyApps \/ CheckDrift

Next ==
    \/ Deploy \/ DryRun \/ Bootstrap \/ Restart \/ DeployApps
    \/ Works
    \/ PodsStart \/ Sync
    \/ SetRevision \/ Declare \/ Merge \/ PushImage

Fairness == WF_vars(Works) /\ WF_vars(PodsStart) /\ WF_vars(Sync)

Spec == Init /\ [][Next]_vars /\ Fairness

-----------------------------------------------------------------------------
TypeOK ==
    /\ declared \in Versions /\ master \in Versions /\ synced \in Versions
    /\ overlay \in [FileSet -> Versions] /\ live \in [FileSet -> Versions]
    /\ target \in {"master", "preview"} /\ selfHeal \in BOOLEAN
    /\ forced \subseteq Versions /\ installed \subseteq {Entries[i] : i \in DOMAIN Entries}
    /\ pods.version \in Versions /\ pods.image \in 0..pushed /\ pods.due \in BOOLEAN
    /\ cached \in 0..pushed
    /\ job.pc \in {"idle", "generate", "rehearse", "bootstrap", "apply", "rollout", "applications", "check"}
    /\ report \in {"nothing", "failed", "valid", "bootstrapped", "deployed", "restarted",
                  "clean", "drift", "cannot-check"}

\* The manual path cannot succeed where Argo CD would be refused: what the cluster
\* has that the spoke may not apply was applied through the operator's hatch.
NothingSmuggled == \A f \in FileSet : <<f, live[f]>> \in Refused => live[f] \in forced

\* A deploy that says it is done and that generated its manifests leaves one
\* configuration in the whole cluster, with its pods, and a restart that says so
\* leaves under a mutable tag no image older than the ones there when it began.
\* A check says clean of an Application that follows master, and of no other.
Done(r) == job.pc # "idle" /\ report' = r

ReportHolds ==
    /\ Done("deployed") => pods'.version = live'[Files[1]]
    /\ Done("deployed") /\ job.fresh => \E v \in Versions : live' = Whole(v)
    /\ Done("restarted") /\ pods'.version \in Floating => pods'.image >= job.since
    /\ Done("clean") => target' = "master"

\* Where Argo CD heals, the cluster comes back to what master says.
Heals ==
    selfHeal /\ target = "master" /\ master \notin Crashing /\ (\A f \in FileSet : <<f, master>> \notin Refused)
        => live = Whole(master) /\ pods.version = master
=============================================================================
