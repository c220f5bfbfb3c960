--------------------------- MODULE SecretDelivery ---------------------------
(****************************************************************************)
(* `toolkit secrets apply`: the credentials of the vault delivered to a     *)
(* cluster as Secrets.  The vault is read once for the values that are      *)
(* taken as they are, and once more for each thing that is rendered: the    *)
(* superadmin, the users of Authelia, the routes of Apprise.  Meanwhile     *)
(* other commands change it, and a file they are rewriting reads as empty.  *)
(*                                                                          *)
(* A value is the number of the change that set it.  A Secret is a function *)
(* of the sources, a rendered one having an entry for each user or route.   *)
(****************************************************************************)
EXTENDS Integers

CONSTANTS Operators,
          Bundles,    \* the Secrets,
          Takes,      \* what each takes,
          Sources,
          KindOf,     \* how a source is delivered,
          FileOf,     \* the file it is in,
          Fallback,   \* and what stands in for a route that is not set
          Overlap,    \* whether one run may start while another one goes on
          MaxEdits, MaxFaults

VARIABLES vault,     \* the values of the sources
          clear,     \* the files that were left, or are, in clear text
          live,      \* the Secrets of the cluster
          pc,        \* what a run does next
          loaded,    \* the values it has read
          rendered,  \* what it has rendered
          todo,      \* the Secrets it has still to apply
          bad,       \* whether one of them was not applied
          said,      \* its report, until the next run begins
          edits, faults

world   == <<vault, clear, edits>>
process == <<pc, loaded, rendered, todo, bad, said>>
vars    == <<world, live, process, faults>>

Absent == 0
Placeholder == -1
SopsFiles == {"common", "env"}
Parts == <<"superadmin", "users", "routes">>

Nothing == [s \in Sources |-> Absent]

Readable == [s \in Sources |-> IF FileOf[s] \in clear THEN Absent ELSE vault[s]]

\* What is rendered: a user without a hash is left out, and so is a route with
\* neither a webhook of its own nor the one it falls back to.
Rendered(values) == [s \in Sources |-> IF values[s] # Absent THEN values[s] ELSE values[Fallback[s]]]

OfKind(kinds) == {s \in Sources : KindOf[s] \in kinds}

Init ==
    /\ vault = [s \in Sources |-> 1]
    /\ clear = {}
    /\ live \in {[b \in Bundles |-> Nothing],
                 [b \in Bundles |-> [s \in Sources |-> IF s \in Takes[b] THEN 1 ELSE Absent]]}
    /\ pc = [o \in Operators |-> "idle"]
    /\ loaded = [o \in Operators |-> Nothing]
    /\ rendered = [o \in Operators |-> Nothing]
    /\ todo = [o \in Operators |-> {}]
    /\ bad = [o \in Operators |-> FALSE]
    /\ said = [o \in Operators |-> "nothing"]
    /\ edits = 0 /\ faults = 0

-----------------------------------------------------------------------------
GoTo(o, label) == pc' = [pc EXCEPT ![o] = label]

\* A mutant: a run that is over stays where it was.
EndHere(o, report) ==
    /\ GoTo(o, report)
    /\ said' = [said EXCEPT ![o] = report]
    /\ UNCHANGED <<loaded, rendered, todo, bad>>

End(o, report) ==
    /\ GoTo(o, "idle")
    /\ said' = [said EXCEPT ![o] = report]
    /\ loaded' = [loaded EXCEPT ![o] = Nothing]
    /\ rendered' = [rendered EXCEPT ![o] = Nothing]
    /\ todo' = [todo EXCEPT ![o] = {}]
    /\ bad' = [bad EXCEPT ![o] = FALSE]

Fault == faults < MaxFaults /\ faults' = faults + 1

\* A placeholder among the values that have to be there ends the run.
Refused(values) == \E s \in OfKind({"required"}) : values[s] = Placeholder

Load(o) ==
    /\ pc[o] = "idle"
    /\ Overlap \/ \A p \in Operators : pc[p] = "idle"
    /\ ~Refused(Readable)
    /\ loaded' = [loaded EXCEPT ![o] = Readable]
    /\ said' = [p \in Operators |-> "nothing"]
    /\ GoTo(o, Parts[1])
    /\ UNCHANGED <<world, live, rendered, todo, bad, faults>>

LoadRefuses(o) ==
    /\ pc[o] = "idle"
    /\ Overlap \/ \A p \in Operators : pc[p] = "idle"
    /\ Refused(Readable)
    /\ said[o] # "refused"
    /\ End(o, "refused")
    /\ UNCHANGED <<world, live, faults>>

\* One part is rendered from a new reading of the files.  Whoever cannot be
\* resolved to the superadmin is not an admin: without it the run is over.
Render(o, i) ==
    /\ pc[o] = Parts[i]
    /\ rendered' = [rendered EXCEPT ![o] =
          [s \in Sources |-> IF KindOf[s] = Parts[i] THEN Rendered(Readable)[s] ELSE @[s]]]
    /\ \/ /\ i < 3
          /\ GoTo(o, Parts[i + 1])
          /\ UNCHANGED todo
       \/ /\ i = 3
          /\ \A s \in OfKind({"superadmin"}) : rendered[o][s] # Absent
          /\ GoTo(o, "apply")
          /\ todo' = [todo EXCEPT ![o] = Bundles]
    /\ UNCHANGED <<world, live, loaded, bad, said, faults>>

RenderRefuses(o) ==
    /\ pc[o] = Parts[3]
    /\ \E s \in OfKind({"superadmin"}) : rendered[o][s] = Absent
    /\ End(o, "refused")
    /\ UNCHANGED <<world, live, faults>>

\* A mutant: the value is taken from the vault when the Secret is applied.
ContentAnew(o, b) ==
    [s \in Sources |->
        IF s \notin Takes[b] THEN Absent
        ELSE IF KindOf[s] \in {"required", "optional"}
        THEN (IF loaded[o][s] = Absent THEN Absent ELSE Readable[s])
        ELSE rendered[o][s]]

\* The content of one Secret, from what the run has read.
Content(o, b) ==
    [s \in Sources |->
        IF s \notin Takes[b] THEN Absent
        ELSE IF KindOf[s] \in {"required", "optional"} THEN loaded[o][s]
        ELSE rendered[o][s]]

\* Two mutants: what is missing is left out; an optional value has to be there.
Tolerated(o, b) == Takes[b] = {}

IncompleteOrBare(o, b) ==
    \E s \in Takes[b] \cap OfKind({"required", "optional"}) : loaded[o][s] = Absent

\* "Refusing to apply": a required value is missing.
Incomplete(o, b) == \E s \in Takes[b] \cap OfKind({"required"}) : loaded[o][s] = Absent

\* kubectl apply replaces the whole of a Secret.
Apply(o, b) ==
    /\ pc[o] = "apply"
    /\ b \in todo[o]
    /\ ~Incomplete(o, b)
    /\ live' = [live EXCEPT ![b] = Content(o, b)]
    /\ todo' = [todo EXCEPT ![o] = @ \ {b}]
    /\ UNCHANGED <<world, pc, loaded, rendered, bad, said, faults>>

\* The Secret is refused or kubectl fails; the others are applied all the same.
NotApplied(o, b) ==
    /\ pc[o] = "apply"
    /\ b \in todo[o]
    /\ \/ Incomplete(o, b) /\ UNCHANGED faults
       \/ ~Incomplete(o, b) /\ Fault
    /\ bad' = [bad EXCEPT ![o] = TRUE]
    /\ todo' = [todo EXCEPT ![o] = @ \ {b}]
    /\ UNCHANGED <<world, live, pc, loaded, rendered, said>>

Finish(o) ==
    /\ pc[o] = "apply"
    /\ todo[o] = {}
    /\ End(o, IF bad[o] THEN "failed" ELSE "applied")
    /\ UNCHANGED <<world, live, faults>>

Kill(o) ==
    /\ pc[o] # "idle"
    /\ Fault
    /\ End(o, "nothing")
    /\ UNCHANGED <<world, live>>

-----------------------------------------------------------------------------
\* The other commands of the vault: a value is set or removed, and a file is
\* rewritten, in clear text until it is encrypted.
Edit(s) ==
    /\ edits < MaxEdits /\ edits' = edits + 1
    /\ FileOf[s] \notin clear
    /\ \E v \in {edits + 2, Absent, Placeholder} : vault[s] # v /\ vault' = [vault EXCEPT ![s] = v]
    /\ UNCHANGED <<clear, live, process, faults>>

Uncover(f) ==
    /\ f \notin clear
    /\ edits < MaxEdits /\ edits' = edits + 1
    /\ clear' = clear \cup {f}
    /\ UNCHANGED <<vault, live, process, faults>>

Cover(f) ==
    /\ f \in clear
    /\ clear' = clear \ {f}
    /\ UNCHANGED <<vault, edits, live, process, faults>>

Work(o) ==
    \/ Load(o) \/ LoadRefuses(o) \/ RenderRefuses(o) \/ Finish(o)
    \/ \E i \in 1..3 : Render(o, i)
    \/ \E b \in Bundles : Apply(o, b) \/ NotApplied(o, b)

World == (\E s \in Sources : Edit(s)) \/ \E f \in SopsFiles : Uncover(f) \/ Cover(f)

Next == World \/ \E o \in Operators : Work(o) \/ Kill(o)

\* The operators run the command again, and a file is encrypted in the end.
Fairness ==
    /\ \A o \in Operators : WF_vars(Work(o))
    /\ \A f \in SopsFiles : WF_vars(Cover(f))

-----------------------------------------------------------------------------
TypeOK ==
    /\ vault \in [Sources -> Int]
    /\ clear \subseteq SopsFiles
    /\ live \in [Bundles -> [Sources -> Int]]
    /\ pc \in [Operators -> {"idle", "superadmin", "users", "routes", "apply"}]
    /\ loaded \in [Operators -> [Sources -> Int]]
    /\ rendered \in [Operators -> [Sources -> Int]]
    /\ todo \in [Operators -> SUBSET Bundles]
    /\ bad \in [Operators -> BOOLEAN]
    /\ said \in [Operators -> {"nothing", "refused", "applied", "failed"}]
    /\ edits \in Nat /\ faults \in Nat

\* No apply takes a required value, or the superadmin, out of a live Secret, or
\* puts a placeholder in its place, whatever files are unreadable meanwhile ("a
\* Secret REPLACES the whole Secret ... never apply a partial render").
KeptByApply ==
    \A b \in Bundles : \A s \in Takes[b] \cap OfKind({"required", "superadmin"}) :
        /\ live[b][s] # Absent => live'[b][s] # Absent
        /\ KindOf[s] = "required" => live'[b][s] # Placeholder

\* The Secrets of one value agree after a run that says it has applied them all,
\* even while the vault changes: crowdsec-bouncer is delivered to two namespaces.
CopiesAgree ==
    \A o \in Operators :
        said[o] = "applied" =>
            \A b, c \in Bundles : \A s \in Takes[b] \cap Takes[c] : live[b][s] = live[c][s]

\* What the cluster should hold, and whether the vault has it.
Wanted(b) ==
    [s \in Sources |->
        IF s \notin Takes[b] THEN Absent
        ELSE IF KindOf[s] \in {"required", "optional"} THEN vault[s] ELSE Rendered(vault)[s]]

Deliverable ==
    /\ clear = {}
    /\ \A s \in OfKind({"required"}) : vault[s] \notin {Absent, Placeholder}
    /\ \A s \in OfKind({"superadmin"}) : vault[s] # Absent

\* The cluster ends up with what the vault holds, a value removed from it
\* included, once the vault is whole and nobody changes it any more.
DeliveryConverges == <>[](Deliverable => \A b \in Bundles : live[b] = Wanted(b))

\* "Applying a subset would shrink the live Secret and silently drop the missing
\* keys": a user or a route of a live Secret goes only when it left the vault.
RenderedKept ==
    \A b \in Bundles : \A s \in Takes[b] \cap OfKind({"users", "routes"}) :
        live[b][s] # Absent /\ vault[s] # Absent => live'[b][s] # Absent
=============================================================================
