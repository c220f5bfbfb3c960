-------------------------- MODULE MCGiteaReconcile --------------------------
(* Instances of GiteaReconcile for TLC. *)
EXTENDS GiteaReconcile

CONSTANTS p1, p2, home, work, shell, moved, stray

VARIABLE found   \* the forge a behaviour begins with

\* `home` is declared with an empty list, as ADR-065 declares `kubelab`; `work`
\* holds a repository to create and one to migrate.
MCOrgOf == [r \in Repos |-> work]

AllCredentials == {Credentials}
SomeCredentials == {Credentials, {"password"}, {"migrationToken", "webhookSecret"}}

\* The forge is found empty.
MCInit ==
    /\ orgs = {}
    /\ team = [o \in Orgs |-> "absent"]
    /\ member = {}
    /\ repos = {} /\ private = {} /\ settings = {} /\ filled = {} /\ importing = {}
    /\ hooks = [r \in Repos |-> {}]
    /\ nextHook = 1
    /\ Init
    /\ found = "empty"

MCFairSpec == MCInit /\ [][Next /\ UNCHANGED found]_<<vars, found>> /\ Fairness

\* The forge of PR1: the declared repositories exist as empty shells, without
\* their settings, and the teams predate the grant.
ShellInit ==
    /\ orgs = Orgs
    /\ team = [o \in Orgs |-> "short"]
    /\ member = Orgs
    /\ repos = Repos /\ private = {} /\ settings = {} /\ filled = {} /\ importing = {}
    /\ hooks = [r \in Repos |-> {}]
    /\ nextHook = 1
    /\ Init
    /\ found = "shells"

\* Both forges in one run: the empty one takes one edit and all the faults, the
\* one full of shells takes one fault and all the edits.
Affordable ==
    /\ found = "empty" => edits' >= MaxEdits - 1
    /\ found = "shells" => faults' >= MaxFaults - 1 /\ creds' \in [Ops -> {{}, Credentials}]

EitherSpec ==
    /\ MCInit \/ ShellInit
    /\ [][Next /\ Affordable /\ UNCHANGED found]_<<vars, found>>
    /\ Fairness
=============================================================================
