------------------------------ MODULE N8nImport ------------------------------
(****************************************************************************)
(* `toolkit infra n8n import`: every workflow of the catalogue is brought   *)
(* from git, and its credential from the vault, into the database of a      *)
(* running n8n, published, and made live by a restart.  The pod is          *)
(* restarted by the cluster at any moment, which kills the call in flight.  *)
(****************************************************************************)
EXTENDS Integers, Sequences

CONSTANTS Workflows,   \* the catalogue, a sequence
          MaxEdits, MaxFaults

VARIABLES source,   \* the version of each workflow in git, and that of the secret
          db,       \* what the database holds of each: the versions, and whether it is published
          live,     \* what the process has loaded
          pc, at,   \* the command's next call, and the workflow it works on
          read,     \* the versions it has read for that
          tries, ok,
          brought,  \* the versions it brought in
          said, edits, faults

command == <<pc, at, read, tries, ok, brought>>
vars    == <<source, db, live, command, said, edits, faults>>

Names == {Workflows[i] : i \in DOMAIN Workflows}

Absent == [flow |-> 0, secret |-> 0, published |-> FALSE]

Init ==
    /\ source = [flow |-> [w \in Names |-> 1], secret |-> 1]
    /\ \E had \in {Absent, [flow |-> 1, secret |-> 1, published |-> TRUE]} :
          db = [w \in Names |-> had]
    /\ live = db
    /\ pc = "idle" /\ at = 1 /\ read = Absent /\ tries = 0 /\ ok = TRUE
    /\ brought = [w \in Names |-> Absent]
    /\ said = "nothing"
    /\ edits = 0 /\ faults = 0

-----------------------------------------------------------------------------
Fault == faults < MaxFaults /\ faults' = faults + 1

w == Workflows[at]

\* The next workflow, or the end.
Done(all) ==
    /\ tries' = 0 /\ read' = Absent
    /\ ok' = (IF at = Len(Workflows) THEN TRUE ELSE all)
    /\ IF at = Len(Workflows)
       THEN /\ pc' = "idle" /\ at' = 1
            /\ said' = IF all THEN "imported" ELSE "failed"
       ELSE pc' = "read" /\ at' = at + 1 /\ UNCHANGED said

Begin ==
    /\ pc = "idle"
    /\ pc' = "read" /\ said' = "nothing"
    /\ brought' = [n \in Names |-> Absent]
    /\ UNCHANGED <<source, db, live, at, read, tries, ok, edits, faults>>

\* The workflow and the secret are read; what is missing fails this workflow.
Read ==
    /\ pc = "read"
    /\ \/ /\ read' = [flow |-> source.flow[w], secret |-> source.secret, published |-> TRUE]
          /\ pc' = "credential"
          /\ UNCHANGED <<at, tries, ok, said, faults>>
       \/ Fault /\ Done(FALSE)
    /\ UNCHANGED <<source, db, live, brought, edits>>

Effect(call) ==
    CASE call = "credential" -> [db[w] EXCEPT !.secret = read.secret]
      [] call = "workflow"   -> [db[w] EXCEPT !.flow = read.flow]
      [] call = "publish"    -> [db[w] EXCEPT !.published = TRUE]

After(call) == CASE call = "credential" -> "workflow" [] call = "workflow" -> "publish" [] call = "publish" -> "restart"

Execs == {"credential", "workflow", "publish"}

\* A mutant: a call that failed is taken for done.
ExecOnce ==
    /\ pc \in Execs
    /\ \/ db' = [db EXCEPT ![w] = Effect(pc)] /\ UNCHANGED faults
       \/ UNCHANGED db /\ Fault
    /\ pc' = After(pc) /\ tries' = 0
    /\ UNCHANGED <<source, live, at, read, ok, brought, said, edits>>

\* A call that fails may have been done.  It is tried once more when the pod is
\* ready again, or has not become so in time.
Exec ==
    /\ pc \in Execs
    /\ \/ /\ db' = [db EXCEPT ![w] = Effect(pc)]
          /\ pc' = After(pc) /\ tries' = 0
          /\ UNCHANGED <<at, read, ok, said, faults>>
       \/ /\ db' \in {db, [db EXCEPT ![w] = Effect(pc)]}
          /\ Fault
          /\ IF tries = 0 THEN tries' = 1 /\ UNCHANGED <<pc, at, read, ok, said>> ELSE Done(FALSE)
    /\ UNCHANGED <<source, live, brought, edits>>

\* A mutant: the process is not restarted.
RestartNothing ==
    /\ pc = "restart"
    /\ brought' = [brought EXCEPT ![w] = read]
    /\ Done(ok)
    /\ UNCHANGED <<source, db, live, edits, faults>>

\* The rollout is restarted and waited for.
Restart ==
    /\ pc = "restart"
    /\ \/ /\ live' = db
          /\ brought' = [brought EXCEPT ![w] = read]
          /\ Done(ok)
          /\ UNCHANGED faults
       \/ /\ live' \in {live, db}
          /\ Fault /\ Done(FALSE)
          /\ UNCHANGED brought
    /\ UNCHANGED <<source, db, edits>>

Interrupt ==
    /\ pc # "idle"
    /\ Fault
    /\ pc' = "idle" /\ at' = 1 /\ read' = Absent /\ tries' = 0 /\ ok' = TRUE
    /\ UNCHANGED <<source, db, live, brought, said, edits>>

-----------------------------------------------------------------------------
\* The cluster, and the people who change a workflow, the secret or (between two
\* imports) the volume

PodRestarts ==
    /\ live # db
    /\ live' = db
    /\ UNCHANGED <<source, db, command, said, edits, faults>>

Edit ==
    /\ edits < MaxEdits /\ edits' = edits + 1
    /\ \/ \E n \in Names : source' = [source EXCEPT !.flow[n] = @ + 1] /\ UNCHANGED <<db, live>>
       \/ source' = [source EXCEPT !.secret = @ + 1] /\ UNCHANGED <<db, live>>
       \/ pc = "idle" /\ db' = [n \in Names |-> Absent] /\ live' = db' /\ UNCHANGED source
    /\ UNCHANGED <<command, said, faults>>

Goes == Read \/ Exec \/ Restart

Next == Begin \/ Goes \/ Interrupt \/ PodRestarts \/ Edit

Fairness == WF_vars(Begin \/ Goes)

Spec == Init /\ [][Next]_vars /\ Fairness

-----------------------------------------------------------------------------
TypeOK ==
    /\ source.flow \in [Names -> Nat] /\ source.secret \in Nat
    /\ \A f \in {db, live, brought} : \A n \in Names :
          f[n].flow \in Nat /\ f[n].secret \in Nat /\ f[n].published \in BOOLEAN
    /\ pc \in Execs \cup {"idle", "read", "restart"}
    /\ at \in DOMAIN Workflows /\ tries \in {0, 1} /\ ok \in BOOLEAN
    /\ said \in {"nothing", "imported", "failed"} /\ edits \in Nat /\ faults \in Nat

\* An import that reports success has made every workflow live with the workflow
\* and the secret it read, until the volume is wiped.
ImportedIsLive ==
    said = "imported" => \A n \in Names : live[n] = brought[n] \/ live[n] = Absent

\* A wiped volume and a rotated secret are made good by the next import that gets
\* through.
Served ==
    \A n \in Names :
        live[n] = [flow |-> source.flow[n], secret |-> source.secret, published |-> TRUE]

ImportConverges == <>[]Served
=============================================================================
