------------------------------- MODULE SignOn -------------------------------
(****************************************************************************)
(* Single sign-on, where the same credential lives in several places.       *)
(*                                                                          *)
(* Gitea's client secret: SOPS has it and the hash that Authelia is to      *)
(* check it against; sync_oidc_hashes.py writes the hash into the overlay,  *)
(* a deploy brings that to Authelia; configure_oidc.py writes the secret    *)
(* into Gitea's database, restarts it and tries the secret on Authelia.     *)
(*                                                                          *)
(* Grafana's administrator: `reconcile-grafana-admin` resets the password   *)
(* inside the pod and renames the login through the API.                    *)
(****************************************************************************)
EXTENDS Integers

CONSTANTS Logins,     \* what the superadmin may be declared as; "admin" is the bootstrap's
          MaxEdits, MaxFaults

VARIABLES secret,     \* the version of Gitea's client secret in SOPS,
          hash,       \* the version the hash in SOPS is of, or 0 for a placeholder,
          overlay,    \* the one of the hash in Authelia's configuration in git,
          authelia,   \* and of the one that Authelia runs with
          source,     \* the secret of the source in Gitea's database, or 0 without one,
          web,        \* the one that the running Gitea has read,
          restart,    \* whether a restart is under way,
          warned,     \* and whether the last command said that it did not get there
          superadmin, \* the declared login, and the version of its password
          password,
          admin,      \* the login and the password of Grafana's first user
          job,        \* the command that runs
          report,     \* what the last one reported
          edits, faults

oidc    == <<secret, hash, overlay, authelia, source, web, restart, warned>>
grafana == <<superadmin, password, admin>>
vars    == <<oidc, grafana, job, report, edits, faults>>

Idle == [pc |-> "idle", secret |-> 0, login |-> "none", password |-> 0, known |-> FALSE]

Init ==
    /\ secret = 1 /\ hash \in {0, 1} /\ overlay \in {hash, 1} /\ authelia = overlay
    /\ source \in {0, 1} /\ web = source /\ restart = FALSE /\ warned = FALSE
    /\ superadmin \in Logins /\ password = 1
    /\ admin \in {[login |-> l, password |-> p] : l \in {"admin", superadmin}, p \in {0, 1}}
    /\ job = Idle /\ report = "nothing"
    /\ edits = 0 /\ faults = 0

-----------------------------------------------------------------------------
Hand   == edits < MaxEdits /\ edits' = edits + 1
Fault  == faults < MaxFaults /\ faults' = faults + 1
End(r) == job' = Idle /\ report' = r
Begin(j) ==
    /\ job.pc = "idle"
    /\ Hand
    /\ job' = j
    /\ report' = "nothing"

\* The secret is read once, from the merged configuration.
Configure ==
    /\ Begin([Idle EXCEPT !.pc = "list", !.secret = secret])
    /\ UNCHANGED <<oidc, grafana, faults>>

\* Is there a source already?  A list that fails says no.
ListSources ==
    /\ job.pc = "list"
    /\ \/ job' = [job EXCEPT !.pc = "write", !.known = source # 0] /\ UNCHANGED faults
       \/ Fault /\ job' = [job EXCEPT !.pc = "write"]
    /\ UNCHANGED <<oidc, grafana, report, edits>>

\* One that is there is updated, so that the accounts stay linked; Gitea takes no
\* second one of the name.  A call that failed may have written.
WriteSource ==
    /\ job.pc = "write"
    /\ \/ /\ job.known <=> source # 0
          /\ source' = job.secret
          /\ job' = [job EXCEPT !.pc = "restart"] /\ UNCHANGED <<warned, report, faults>>
       \/ ~(job.known <=> source # 0) /\ End("failed") /\ UNCHANGED <<source, warned, faults>>
       \/ /\ Fault /\ End("failed") /\ warned' = TRUE
          /\ source' \in {source} \cup (IF job.known <=> source # 0 THEN {job.secret} ELSE {})
    /\ UNCHANGED <<secret, hash, overlay, authelia, web, restart, grafana, edits>>

\* The restart is asked for and not waited for; one that fails is warned of.
Restart ==
    /\ job.pc = "restart"
    /\ job' = [job EXCEPT !.pc = "verify"]
    /\ \/ restart' = TRUE /\ warned' = FALSE /\ UNCHANGED faults
       \/ Fault /\ restart' \in {restart, TRUE} /\ warned' = TRUE
    /\ UNCHANGED <<secret, hash, overlay, authelia, source, web, grafana, report, edits>>

\* A mutant: an answer that cannot be told is a pass.
ClassifyAll(v) == CASE authelia = v -> {"pass"} [] authelia # v -> {"drift", "pass"}

\* What Authelia's token endpoint says of a secret: it refuses the client or the grant.
Classify(v) == IF authelia = v THEN {"pass"} ELSE {"drift"}

Verify ==
    /\ job.pc = "verify"
    /\ \/ (\E verdict \in Classify(job.secret) : End(verdict)) /\ UNCHANGED faults
       \/ Fault /\ End("inconclusive")
    /\ UNCHANGED <<oidc, grafana, edits>>

\* The new pods read the database.
PodRestarts ==
    /\ restart
    /\ web' = source /\ restart' = FALSE
    /\ UNCHANGED <<secret, hash, overlay, authelia, source, warned, grafana, job, report, edits, faults>>

-----------------------------------------------------------------------------
\* The hash is derived after the secret was written, by the same command or later.
RotateSecret ==
    /\ Hand
    /\ secret' = secret + 1
    /\ hash' \in {hash, secret'}
    /\ UNCHANGED <<overlay, authelia, source, web, restart, warned, grafana, job, report, faults>>

HashSecret ==
    /\ Hand /\ hash # secret
    /\ hash' = secret
    /\ UNCHANGED <<secret, overlay, authelia, source, web, restart, warned, grafana, job, report, faults>>

\* A mutant: a placeholder is written over what is there.
SyncAny ==
    /\ Hand
    /\ overlay' = hash
    /\ UNCHANGED <<secret, hash, authelia, source, web, restart, warned, grafana, job, report, faults>>

\* A placeholder is skipped, and a client that the file has not stops the run.
SyncHashes ==
    /\ Hand /\ hash # 0
    /\ overlay' = hash
    /\ UNCHANGED <<secret, hash, authelia, source, web, restart, warned, grafana, job, report, faults>>

DeployAuthelia ==
    /\ authelia # overlay
    /\ authelia' = overlay
    /\ UNCHANGED <<secret, hash, overlay, source, web, restart, warned, grafana, job, report, edits, faults>>

-----------------------------------------------------------------------------
\* What Grafana says to a login and a password.
LogsIn(login, pw) == admin = [login |-> login, password |-> pw]

\* Both commands first try the declared identity.
AskGrafana ==
    /\ \E label \in {"check", "probe"} :
        Begin([Idle EXCEPT !.pc = label, !.login = superadmin, !.password = password])
    /\ UNCHANGED <<oidc, grafana, faults>>

\* A Grafana that cannot be asked is another answer than one that says no.
Probe ==
    /\ job.pc \in {"check", "probe"}
    /\ \/ LogsIn(job.login, job.password) /\ End("matches") /\ UNCHANGED faults
       \/ /\ ~LogsIn(job.login, job.password) /\ job.pc = "check"
          /\ End("differs") /\ UNCHANGED faults
       \/ /\ ~LogsIn(job.login, job.password) /\ job.pc = "probe"
          /\ job' = [job EXCEPT !.pc = "reset", !.password = password]
          /\ UNCHANGED <<report, faults>>
       \/ Fault /\ End("unavailable")
    /\ UNCHANGED <<oidc, grafana, edits>>

\* The command line in the pod needs no credential.
Reset ==
    /\ job.pc = "reset"
    /\ \/ /\ admin' = [admin EXCEPT !.password = job.password]
          /\ job' = [job EXCEPT !.pc = "rename"] /\ UNCHANGED <<report, faults>>
       \/ Fault /\ admin' \in {admin, [admin EXCEPT !.password = job.password]} /\ End("unavailable")
    /\ UNCHANGED <<oidc, superadmin, password, edits>>

\* With that password the user logs in as the declared identity or as the bootstrap's,
\* and under no other login.
Rename ==
    /\ job.pc = "rename"
    /\ \/ /\ LogsIn(job.login, job.password) \/ LogsIn("admin", job.password)
          /\ admin' = [admin EXCEPT !.login = job.login]
          /\ job' = [job EXCEPT !.pc = "confirm"] /\ UNCHANGED <<report, faults>>
       \/ /\ ~(LogsIn(job.login, job.password) \/ LogsIn("admin", job.password))
          /\ End("unavailable") /\ UNCHANGED <<admin, faults>>
       \/ /\ Fault /\ End("unavailable")
          /\ admin' \in {admin} \cup {[admin EXCEPT !.login = job.login] : l \in
                             {m \in {job.login, "admin"} : LogsIn(m, job.password)}}
    /\ UNCHANGED <<oidc, superadmin, password, edits>>

\* A mutant: a rename that was accepted is taken for done.
ConfirmNothing ==
    /\ job.pc = "confirm"
    /\ End("reconciled")
    /\ UNCHANGED <<oidc, grafana, edits, faults>>

Confirm ==
    /\ job.pc = "confirm"
    /\ \/ LogsIn(job.login, job.password) /\ End("reconciled") /\ UNCHANGED faults
       \/ ~LogsIn(job.login, job.password) /\ End("unavailable") /\ UNCHANGED faults
       \/ Fault /\ End("unavailable")
    /\ UNCHANGED <<oidc, grafana, edits>>

\* Somebody declares another superadmin, rotates the password or sets one in the page.
Declare ==
    /\ Hand
    /\ \/ \E l \in Logins \ {superadmin} : superadmin' = l /\ UNCHANGED <<password, admin>>
       \/ password' = password + 1 /\ UNCHANGED <<superadmin, admin>>
       \/ admin' = [admin EXCEPT !.password = 0] /\ UNCHANGED <<superadmin, password>>
    /\ UNCHANGED <<oidc, job, report, faults>>

Next ==
    \/ Configure \/ ListSources \/ WriteSource \/ Restart \/ Verify \/ PodRestarts
    \/ RotateSecret \/ HashSecret \/ SyncHashes \/ DeployAuthelia
    \/ AskGrafana \/ Probe \/ Reset \/ Rename \/ Confirm \/ Declare

Spec == Init /\ [][Next]_vars

-----------------------------------------------------------------------------
TypeOK ==
    /\ secret \in 1..(MaxEdits + 1) /\ {hash, overlay, authelia, source, web} \subseteq 0..secret
    /\ restart \in BOOLEAN /\ warned \in BOOLEAN
    /\ superadmin \in Logins /\ password \in 1..(MaxEdits + 1)
    /\ admin \in [login : Logins \cup {"admin"}, password : 0..password]
    /\ job.pc \in {"idle", "list", "write", "restart", "verify", "check", "probe", "reset", "rename", "confirm"}
    /\ report \in {"nothing", "failed", "pass", "drift", "inconclusive", "matches", "differs",
                   "reconciled", "unavailable"}

Done(r) == job.pc # "idle" /\ report' = r

\* A pass means that what Gitea's database has is what Authelia's hash is of, and a
\* drift that it is not.  An administrator said to match logs in with the declared
\* identity and password, those that were read when the command began or reset.
SignOnHolds ==
    /\ Done("pass")  => source' = job.secret /\ authelia' = job.secret
    /\ Done("drift") => source' = job.secret /\ authelia' # job.secret
    /\ Done("matches") \/ Done("reconciled") => admin' = [login |-> job.login, password |-> job.password]

\* A hash that was deployed is never undone by a placeholder.
HashStays == authelia # 0 => authelia' # 0

\* A running Gitea that lacks what its database has is being restarted or about to
\* be, or the last command that wrote or restarted it has said that it failed to.
StaleIsKnown == web = source \/ restart \/ job.pc = "restart" \/ warned
=============================================================================
