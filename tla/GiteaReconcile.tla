--------------------------- MODULE GiteaReconcile ---------------------------
(***************************************************************************)
(* Operators running `gitea reconcile [--apply]` and `gitea drop-empty`    *)
(* against one forge (toolkit/cli/services.py, and plan_reconcile, execute *)
(* and the ensure_* functions of toolkit/features/gitea_repos.py).         *)
(*                                                                         *)
(* A run of reconcile reads the forge with one call per organization and   *)
(* per repository, plans, and carries the plan out in six passes.  Every   *)
(* call is a step of its own, so other operators, people at the web        *)
(* interface and running migrations come between any two.  A write may be  *)
(* applied and its answer lost, may never reach the forge, and may be      *)
(* answered 2xx without being applied as sent.  What a pass does in the    *)
(* order of its sorted list, the model does in any order.                  *)
(***************************************************************************)
EXTENDS GiteaForge

CONSTANTS
    DeclOrgs,       \* organizations the declaration names
    DeclRepos,      \* repositories it names
    Migrated,       \* of those, the ones with a migrate_from
    DeclPrivate,    \* of those, the ones declared private
    Ops,            \* operator sessions, each running one command at a time
    CredentialSets, \* what SOPS may hold when a run reads it
    PartialGrants,  \* what a team write answered 2xx may have left behind
    MaxFaults,      \* calls that fail or are answered untruthfully
    MaxEdits,       \* changes by hand, and drop-empty commands
    None

Credentials == {"password", "migrationToken", "webhookSecret"}

\* A declared repository is an entry of its organization, so the organization
\* is declared; an organization may be declared with no repository.
ASSUME DeclarationAssumption ==
    /\ DeclOrgs \subseteq Orgs
    /\ DeclRepos \subseteq Repos
    /\ \A r \in DeclRepos : OrgOf[r] \in DeclOrgs
    /\ Migrated \subseteq DeclRepos
    /\ DeclPrivate \subseteq DeclRepos

ASSUME RunAssumption ==
    /\ CredentialSets \subseteq SUBSET Credentials
    /\ PartialGrants \subseteq {"short", "usable"}
    /\ MaxFaults \in Nat
    /\ MaxEdits \in Nat
    /\ None \notin Orgs \cup Repos

-----------------------------------------------------------------------------
(* plan_reconcile: compare the declaration with what was read
   of the forge.  Pure: a view goes in, the work of each pass comes out.  A
   view records
     orgs, repos, private   what list_orgs and list_repos returned
     team                   the team of each declared organization
     settings               declared repositories read back as configured
     hook                   the declared hook of each declared repository  *)

View == [orgs     : SUBSET Orgs,
         repos    : SUBSET Repos,
         private  : SUBSET Repos,
         team     : [DeclOrgs -> TeamStates],
         settings : SUBSET DeclRepos,
         hook     : [DeclRepos -> Hook \cup {NoHook}]]

\* Nothing read yet, and what is concluded of things that do not exist.
BlankView == [orgs     |-> {},
              repos    |-> {},
              private  |-> {},
              team     |-> [o \in DeclOrgs |-> "absent"],
              settings |-> {},
              hook     |-> [r \in DeclRepos |-> NoHook]]

OrgsToCreate(v) == DeclOrgs \ v.orgs

Missing(v) == DeclRepos \ v.repos

ReposToCreate(v) == Missing(v) \ Migrated

ReposToMigrate(v) == Missing(v) \cap Migrated

TeamsToConverge(v) == {o \in DeclOrgs : TeamNeedsConvergence(v.team[o])}

SettingsNeedConvergence(v, r) == r \notin v.settings

ReposToConfigure(v) == {r \in DeclRepos : SettingsNeedConvergence(v, r)}

\* No hook at the declared URL, or one with a field that falls short.
WebhookNeedsConvergence(v, r) == ~v.hook[r].right

ReposToHook(v) == {r \in DeclRepos : WebhookNeedsConvergence(v, r)}

\* ReconcilePlan.is_noop
IsNoop(v) ==
    /\ OrgsToCreate(v) = {}
    /\ ReposToCreate(v) = {}
    /\ ReposToMigrate(v) = {}
    /\ TeamsToConverge(v) = {}
    /\ ReposToConfigure(v) = {}
    /\ ReposToHook(v) = {}

\* Reported, and no part of is_noop: nothing acts on it.
VisibilityDrift(v) ==
    {r \in DeclRepos \cap v.repos : (r \in v.private) # (r \in DeclPrivate)}

\* The organizations execute prepares a team in.
Receiving(v) == {OrgOf[r] : r \in Missing(v)}

TeamsToEnsure(v) == Receiving(v) \cup TeamsToConverge(v)

\* gitea_reconcile asks for the superadmin's password only when the plan holds
\* work no token may do.
NeedsPassword(v) ==
    ReposToMigrate(v) \cup ReposToConfigure(v) \cup ReposToHook(v) # {}

(* plan_drop: the command that removes an empty declared repository.       *)

\* A mutant: an undeclared repository is not refused.
MayDropUndeclared(r, exists, empty) == exists /\ empty

MayDrop(r, exists, empty) == exists /\ r \in DeclRepos /\ empty

-----------------------------------------------------------------------------
VARIABLES
    pc,             \* where each operator's command is
    view,           \* what it has read of the forge
    todo,           \* what is left of the current pass
    at,             \* the organization or repository a pass is in the midst of
    creds,          \* the credentials it found in SOPS
    done,           \* ExecutionReport: what it carried out
    failed,         \* ExecutionReport.failures, by target
    calm,           \* history: nobody else has touched the forge meanwhile
    faults,         \* failures left to happen
    edits           \* changes by hand left to happen

ops == <<pc, view, todo, at, creds, done, failed, calm>>
vars == <<forge, ops, faults, edits>>

Over == {"idle", "matched", "drifted", "planned", "aborted", "done",
         "dropped", "refused"}
Reading == {"listOrgs", "listRepos", "readTeams", "readRepos", "readHooks"}
Passes == {"orgs", "teams", "create", "migrate", "configure", "hook"}
TeamMidst == {"teamCreate", "teamReget", "teamEdit", "teamCheck", "teamMember"}
RepoMidst == {"settingsCheck", "hookCheck", "drop"}
Midst == TeamMidst \cup RepoMidst

Targets == ({"org", "team"} \X Orgs) \cup ({"repo", "settings", "hook"} \X Repos)

\* A step in the midst of a pass has an organization or repository to work on.
AtFits ==
    \A p \in Ops :
        /\ pc[p] \in TeamMidst => at[p] \in DeclOrgs
        /\ pc[p] \in RepoMidst => at[p] \in DeclRepos

TypeOK ==
    /\ ForgeTypeOK
    /\ pc \in [Ops -> Over \cup Reading \cup Passes \cup Midst \cup {"decide"}]
    /\ view \in [Ops -> View]
    /\ todo \in [Ops -> SUBSET (Orgs \cup Repos)]
    /\ at \in [Ops -> Orgs \cup Repos \cup {None}]
    /\ AtFits
    /\ creds \in [Ops -> SUBSET Credentials]
    /\ done \in [Ops -> SUBSET Targets]
    /\ failed \in [Ops -> SUBSET Targets]
    /\ calm \in [Ops -> BOOLEAN]
    /\ faults \in 0..MaxFaults
    /\ edits \in 0..MaxEdits

\* Any forge may be found; no command has run.
Init ==
    /\ ForgeTypeOK
    /\ WellFormedForge
    /\ pc = [p \in Ops |-> "idle"]
    /\ view = [p \in Ops |-> BlankView]
    /\ todo = [p \in Ops |-> {}]
    /\ at = [p \in Ops |-> None]
    /\ creds = [p \in Ops |-> {}]
    /\ done = [p \in Ops |-> {}]
    /\ failed = [p \in Ops |-> {}]
    /\ calm = [p \in Ops |-> TRUE]
    /\ faults = MaxFaults
    /\ edits = MaxEdits

----------------------------------------------------------------------------
(* Bookkeeping shared by the actions.                                      *)

\* A call goes wrong, or not.
Fault == faults > 0 /\ faults' = faults - 1
NoFault == UNCHANGED faults

GoTo(p, l) == pc' = [pc EXCEPT ![p] = l]

Drops(p, x) == todo' = [todo EXCEPT ![p] = @ \ {x}]

Succeed(p, t) == done' = [done EXCEPT ![p] = @ \cup {t}] /\ UNCHANGED failed

\* _handle_failure: the failure is recorded and the run goes on
Fail(p, t) == failed' = [failed EXCEPT ![p] = @ \cup {t}] /\ UNCHANGED done

NoReport == UNCHANGED <<done, failed>>

\* What p writes, every other operator's run has not seen.
Disturb(p) == calm' = [q \in Ops |-> q = p /\ calm[q]]

\* The forge answers with an error: the call is not acceptable to it (404, 409,
\* 422), or the call was refused or never arrived.
Rejected(may) ==
    /\ UNCHANGED forge
    /\ \/ ~may /\ NoFault
       \/ Fault

\* A mutant: a team that could not be prepared does not quarantine its org.
FailedOrgsOnly(p) == {o \in Orgs : <<"org", o>> \in failed[p]}

\* execute's sets failed_orgs and failed_repos.  The second is computed once,
\* after the migrations; nothing it depends on changes later.
FailedOrgs(p) == {o \in Orgs : {<<"org", o>>, <<"team", o>>} \cap failed[p] # {}}

\* A mutant: repositories never attempted behind their organization are forgotten.
FailedReposOnly(p) == {r \in Repos : <<"repo", r>> \in failed[p]}

FailedRepos(p) ==
    {r \in Repos : <<"repo", r>> \in failed[p]}
        \cup {r \in Missing(view[p]) : OrgOf[r] \in FailedOrgs(p)}

InPreparedOrg(p, rs) == {r \in rs : OrgOf[r] \notin FailedOrgs(p)}

NextPass == [readTeams |-> "readRepos", readRepos |-> "readHooks",
             readHooks |-> "decide",
             orgs |-> "teams", teams |-> "create", create |-> "migrate",
             migrate |-> "configure", configure |-> "hook", hook |-> "done"]

\* What pass l of p's run has to do when it starts.
Worklist(p, l) ==
    CASE l \in {"readRepos", "readHooks"} -> DeclRepos
      [] l = "teams"     -> TeamsToEnsure(view[p]) \ FailedOrgs(p)
      [] l = "create"    -> InPreparedOrg(p, ReposToCreate(view[p]))
      [] l = "migrate"   -> InPreparedOrg(p, ReposToMigrate(view[p]))
      [] l = "configure" -> ReposToConfigure(view[p]) \ FailedRepos(p)
      [] l = "hook"      -> ReposToHook(view[p]) \ FailedRepos(p)
      [] OTHER           -> {}

EndPass(p) ==
    /\ pc[p] \in DOMAIN NextPass
    /\ todo[p] = {}
    /\ GoTo(p, NextPass[pc[p]])
    /\ todo' = [todo EXCEPT ![p] = Worklist(p, NextPass[pc[p]])]
    /\ UNCHANGED <<forge, view, at, creds, done, failed, calm, faults, edits>>

----------------------------------------------------------------------------
(* gitea_reconcile reads the forge.                                        *)

Start(p) ==
    /\ pc[p] \in Over
    /\ GoTo(p, "listOrgs")
    /\ view' = [view EXCEPT ![p] = BlankView]
    /\ todo' = [todo EXCEPT ![p] = {}]
    /\ creds' = [creds EXCEPT ![p] = {}]
    /\ done' = [done EXCEPT ![p] = {}]
    /\ failed' = [failed EXCEPT ![p] = {}]
    /\ calm' = [calm EXCEPT ![p] = TRUE]
    /\ UNCHANGED <<forge, at, faults, edits>>

\* Every step of the reading leaves everything but the reader's view alone.
Reads == UNCHANGED <<forge, at, creds, done, failed, calm, faults, edits>>

ListOrgs(p) ==
    /\ pc[p] = "listOrgs"
    /\ view' = [view EXCEPT ![p].orgs = orgs]
    /\ GoTo(p, "listRepos")
    /\ UNCHANGED todo
    /\ Reads

ListRepos(p) ==
    /\ pc[p] = "listRepos"
    /\ view' = [view EXCEPT ![p].repos = repos, ![p].private = private]
    /\ GoTo(p, "readTeams")
    /\ todo' = [todo EXCEPT ![p] = DeclOrgs]
    /\ Reads

\* An organization that was not listed is not asked for its team.
ReadTeam(p, o) ==
    /\ pc[p] = "readTeams"
    /\ o \in todo[p]
    /\ view' = [view EXCEPT ![p].team[o] =
                  IF o \in view[p].orgs THEN team[o] ELSE "absent"]
    /\ Drops(p, o)
    /\ UNCHANGED pc
    /\ Reads

\* Nor is a repository that was not listed; get_repo answers None on a 404.
ReadRepo(p, r) ==
    /\ pc[p] = "readRepos"
    /\ r \in todo[p]
    /\ view' = [view EXCEPT ![p].settings =
                  IF r \in view[p].repos \cap settings THEN @ \cup {r} ELSE @]
    /\ Drops(p, r)
    /\ UNCHANGED pc
    /\ Reads

\* list_hooks of a repository deleted since it was listed is a 404, which is
\* an error here: see ReadFails.
ReadHooks(p, r) ==
    /\ pc[p] = "readHooks"
    /\ r \in todo[p]
    /\ r \in view[p].repos => r \in repos
    /\ view' = [view EXCEPT ![p].hook[r] =
                  IF r \in view[p].repos THEN FirstHook(hooks[r]) ELSE NoHook]
    /\ Drops(p, r)
    /\ UNCHANGED pc
    /\ Reads

\* "could not read forge state": the command ends, and nothing was written.
ReadFails(p) ==
    /\ pc[p] \in Reading
    /\ \/ Fault
       \/ /\ pc[p] = "readHooks"
          /\ (todo[p] \cap view[p].repos) \ repos # {}
          /\ NoFault
    /\ GoTo(p, "aborted")
    /\ todo' = [todo EXCEPT ![p] = {}]
    /\ UNCHANGED <<forge, view, at, creds, done, failed, calm, edits>>

----------------------------------------------------------------------------
(* gitea_reconcile decides what to do with the plan.                       *)

Deciding(p) ==
    /\ pc[p] = "decide"
    /\ UNCHANGED <<forge, view, at, done, failed, calm, faults, edits>>

\* Nothing to do; a drift of visibility is reported and ends the command too.
ReportMatch(p) ==
    /\ Deciding(p)
    /\ IsNoop(view[p])
    /\ GoTo(p, IF VisibilityDrift(view[p]) = {} THEN "matched" ELSE "drifted")
    /\ UNCHANGED <<todo, creds>>

\* Without --apply.
PlanOnly(p) ==
    /\ Deciding(p)
    /\ ~IsNoop(view[p])
    /\ GoTo(p, "planned")
    /\ UNCHANGED <<todo, creds>>

\* With --apply; c is what SOPS holds.  Without the password nothing that
\* needs it is begun, and neither is anything else.
Apply(p, c) ==
    /\ Deciding(p)
    /\ ~IsNoop(view[p])
    /\ creds' = [creds EXCEPT ![p] = c]
    /\ \/ /\ NeedsPassword(view[p]) /\ "password" \notin c
          /\ GoTo(p, "aborted")
          /\ UNCHANGED todo
       \/ /\ NeedsPassword(view[p]) => "password" \in c
          /\ GoTo(p, "orgs")
          /\ todo' = [todo EXCEPT ![p] = OrgsToCreate(view[p])]

----------------------------------------------------------------------------
(* execute: one call creates an organization, a repository, a membership.  *)

\* The call `effect`, acceptable to the forge if `may`, decides target t.  An
\* answer that is lost is a failure although the forge has changed.
Call(p, may, effect, t) ==
    /\ \/ may /\ effect /\ NoFault /\ Succeed(p, t)
       \/ may /\ effect /\ Fault /\ Fail(p, t)
       \/ Rejected(may) /\ Fail(p, t)
    /\ Disturb(p)

PostOrg(p, o) ==
    /\ pc[p] = "orgs"
    /\ o \in todo[p]
    /\ Drops(p, o)
    /\ Call(p, MayCreateOrg(o), CreateOrg(o), <<"org", o>>)
    /\ UNCHANGED <<pc, view, at, creds, edits>>

PostRepo(p, r) ==
    /\ pc[p] = "create"
    /\ r \in todo[p]
    /\ Drops(p, r)
    /\ Call(p, MayCreateRepo(r), CreateRepo(r, r \in DeclPrivate), <<"repo", r>>)
    /\ UNCHANGED <<pc, view, at, creds, edits>>

PostMigration(p, r) ==
    /\ pc[p] = "migrate"
    /\ r \in todo[p]
    /\ "migrationToken" \in creds[p]
    /\ Drops(p, r)
    /\ Call(p, MayMigrateRepo(r), MigrateRepo(r, r \in DeclPrivate), <<"repo", r>>)
    /\ UNCHANGED <<pc, view, at, creds, edits>>

\* No credential for the source: a failure of this repository, and no call.
MigrationWithoutToken(p, r) ==
    /\ pc[p] = "migrate"
    /\ r \in todo[p]
    /\ "migrationToken" \notin creds[p]
    /\ Drops(p, r)
    /\ Fail(p, <<"repo", r>>)
    /\ UNCHANGED <<forge, pc, view, at, creds, calm, faults, edits>>

----------------------------------------------------------------------------
(* ensure_team: read, create if absent, read, widen if short, read, assert *)
(* and only then add the bot.                                              *)

\* Two mutants: the organization is lost between two calls; a failure is.
GoOnLosingOrg(p, l) == GoTo(p, l) /\ at' = [at EXCEPT ![p] = None] /\ NoReport
GiveUpSilently(p, pass, t) == GoTo(p, pass) /\ at' = [at EXCEPT ![p] = None] /\ NoReport

\* The step of a pass's function at x: go on at l, or fail and be done with x.
GoOn(p, l) == GoTo(p, l) /\ UNCHANGED at /\ NoReport
GiveUp(p, pass, t) == GoTo(p, pass) /\ at' = [at EXCEPT ![p] = None] /\ Fail(p, t)

InMidst(p, l) ==
    /\ pc[p] = l
    /\ UNCHANGED <<view, todo, creds, edits>>

GetTeam(p, o) ==
    /\ pc[p] = "teams"
    /\ o \in todo[p]
    /\ Drops(p, o)
    /\ \/ /\ NoFault
          /\ GoTo(p, CASE team[o] = "absent"               -> "teamCreate"
                       [] ~TeamNeedsConvergence(team[o])   -> "teamMember"
                       [] OTHER                            -> "teamEdit")
          /\ at' = [at EXCEPT ![p] = o]
          /\ NoReport
       \/ Fault /\ Fail(p, <<"team", o>>) /\ UNCHANGED <<pc, at>>
    /\ UNCHANGED <<forge, view, creds, calm, edits>>

\* Answered, lost, or rejected; a 2xx may stand for less than was sent.
PostTeam(p) ==
    LET o == at[p] IN
    /\ InMidst(p, "teamCreate")
    /\ \/ /\ MayCreateTeam(o)
          /\ \/ WriteTeam(o, "full") /\ NoFault
             \/ \E t \in PartialGrants \cup {"absent"} : WriteTeam(o, t) /\ Fault
          /\ GoOn(p, "teamReget")
       \/ MayCreateTeam(o) /\ WriteTeam(o, "full") /\ Fault /\ GiveUp(p, "teams", <<"team", o>>)
       \/ Rejected(MayCreateTeam(o)) /\ GiveUp(p, "teams", <<"team", o>>)
    /\ Disturb(p)

RegetTeam(p) ==
    LET o == at[p] IN
    /\ InMidst(p, "teamReget")
    /\ \/ team[o] # "absent" /\ TeamNeedsConvergence(team[o]) /\ NoFault /\ GoOn(p, "teamEdit")
       \/ ~TeamNeedsConvergence(team[o]) /\ NoFault /\ GoOn(p, "teamMember")
       \/ team[o] = "absent" /\ NoFault /\ GiveUp(p, "teams", <<"team", o>>)
       \/ Fault /\ GiveUp(p, "teams", <<"team", o>>)
    /\ UNCHANGED <<forge, calm>>

PatchTeam(p) ==
    LET o == at[p] IN
    /\ InMidst(p, "teamEdit")
    /\ \/ /\ MayWriteTeam(o)
          /\ \/ WriteTeam(o, "full") /\ NoFault
             \/ \E t \in PartialGrants : WriteTeam(o, t) /\ Fault
          /\ GoOn(p, "teamCheck")
       \/ MayWriteTeam(o) /\ WriteTeam(o, "full") /\ Fault /\ GiveUp(p, "teams", <<"team", o>>)
       \/ Rejected(MayWriteTeam(o)) /\ GiveUp(p, "teams", <<"team", o>>)
    /\ Disturb(p)

CheckTeam(p) ==
    LET o == at[p] IN
    /\ InMidst(p, "teamCheck")
    /\ \/ TeamAsserts(team[o]) /\ NoFault /\ GoOn(p, "teamMember")
       \/ ~TeamAsserts(team[o]) /\ NoFault /\ GiveUp(p, "teams", <<"team", o>>)
       \/ Fault /\ GiveUp(p, "teams", <<"team", o>>)
    /\ UNCHANGED <<forge, calm>>

PutMember(p) ==
    LET o == at[p] IN
    /\ InMidst(p, "teamMember")
    /\ Call(p, MayWriteTeam(o), AddTeamMember(o), <<"team", o>>)
    /\ GoTo(p, "teams")
    /\ at' = [at EXCEPT ![p] = None]

----------------------------------------------------------------------------
(* ensure_settings and ensure_webhook: write, read back, assert.           *)

PatchRepo(p, r) ==
    /\ pc[p] = "configure"
    /\ r \in todo[p]
    /\ Drops(p, r)
    /\ \/ /\ r \in repos
          /\ \/ EditRepo(r, TRUE) /\ NoFault
             \/ EditRepo(r, FALSE) /\ Fault
          /\ GoTo(p, "settingsCheck")
          /\ at' = [at EXCEPT ![p] = r]
          /\ NoReport
       \/ /\ r \in repos /\ EditRepo(r, TRUE) /\ Fault
          /\ Fail(p, <<"settings", r>>) /\ UNCHANGED <<pc, at>>
       \/ Rejected(r \in repos) /\ Fail(p, <<"settings", r>>) /\ UNCHANGED <<pc, at>>
    /\ Disturb(p)
    /\ UNCHANGED <<view, creds, edits>>

\* A mutant: what is read back is not compared.
VerifiedUnread(p, holds, t, pass) ==
    /\ \/ NoFault /\ Succeed(p, t)
       \/ Fault /\ Fail(p, t)
    /\ GoTo(p, pass)
    /\ at' = [at EXCEPT ![p] = None]
    /\ UNCHANGED <<forge, calm>>

\* Verified(p, holds, t, pass): the read that follows a write decides target t.
Verified(p, holds, t, pass) ==
    /\ \/ holds /\ NoFault /\ Succeed(p, t)
       \/ ~holds /\ NoFault /\ Fail(p, t)
       \/ Fault /\ Fail(p, t)
    /\ GoTo(p, pass)
    /\ at' = [at EXCEPT ![p] = None]
    /\ UNCHANGED <<forge, calm>>

CheckRepo(p) ==
    /\ InMidst(p, "settingsCheck")
    /\ Verified(p, at[p] \in settings, <<"settings", at[p]>>, "configure")

\* POST when the plan saw no hook, PATCH the one it saw otherwise.
MayWriteHook(p, r) ==
    LET seen == view[p].hook[r] IN
    IF seen = NoHook THEN r \in repos ELSE MayEditHook(r, seen.id)

WriteHook(p, r) ==
    LET seen == view[p].hook[r] IN
    IF seen = NoHook THEN CreateHook(r, TRUE) ELSE EditHook(r, seen.id)

\* A 2xx that did not write the hook as sent.
HookWrittenAmiss(p, r) ==
    IF view[p].hook[r] = NoHook THEN CreateHook(r, FALSE) ELSE UNCHANGED forge

SendHook(p, r) ==
    /\ pc[p] = "hook"
    /\ r \in todo[p]
    /\ "webhookSecret" \in creds[p]
    /\ Drops(p, r)
    /\ \/ /\ MayWriteHook(p, r)
          /\ \/ WriteHook(p, r) /\ NoFault
             \/ HookWrittenAmiss(p, r) /\ Fault
          /\ GoTo(p, "hookCheck")
          /\ at' = [at EXCEPT ![p] = r]
          /\ NoReport
       \/ /\ MayWriteHook(p, r) /\ WriteHook(p, r) /\ Fault
          /\ Fail(p, <<"hook", r>>) /\ UNCHANGED <<pc, at>>
       \/ /\ Rejected(MayWriteHook(p, r))
          /\ Fail(p, <<"hook", r>>) /\ UNCHANGED <<pc, at>>
    /\ Disturb(p)
    /\ UNCHANGED <<view, creds, edits>>

HookWithoutSecret(p, r) ==
    /\ pc[p] = "hook"
    /\ r \in todo[p]
    /\ "webhookSecret" \notin creds[p]
    /\ Drops(p, r)
    /\ Fail(p, <<"hook", r>>)
    /\ UNCHANGED <<forge, pc, view, at, creds, calm, faults, edits>>

CheckHook(p) ==
    /\ InMidst(p, "hookCheck")
    /\ Verified(p, FirstHook(hooks[at[p]]).right, <<"hook", at[p]>>, "hook")

----------------------------------------------------------------------------
(* gitea_drop_empty: read one repository, decide, delete it.               *)

\* It may always end here: refused by plan_drop, an unreadable repository, no
\* --apply, no password in SOPS.
ReadShell(p, r) ==
    /\ pc[p] \in Over
    /\ edits > 0
    /\ edits' = edits - 1
    /\ \/ MayDrop(r, r \in repos, r \notin filled) /\ GoTo(p, "drop") /\ at' = [at EXCEPT ![p] = r]
       \/ GoTo(p, "refused") /\ UNCHANGED at
    /\ view' = [view EXCEPT ![p] = BlankView]
    /\ done' = [done EXCEPT ![p] = {}]
    /\ failed' = [failed EXCEPT ![p] = {}]
    /\ calm' = [calm EXCEPT ![p] = TRUE]
    /\ UNCHANGED <<forge, todo, creds, faults>>

\* A repository that is gone by now is not an error; neither changes the end.
DropShell(p) ==
    /\ InMidst(p, "drop")
    /\ \/ at[p] \in repos /\ DeleteRepo(at[p]) /\ (NoFault \/ Fault)
       \/ Rejected(at[p] \in repos)
    /\ GoTo(p, "dropped")
    /\ at' = [at EXCEPT ![p] = None]
    /\ NoReport
    /\ Disturb(p)

----------------------------------------------------------------------------
EditByHand ==
    /\ edits > 0
    /\ edits' = edits - 1
    /\ ByHand
    /\ calm' = [q \in Ops |-> FALSE]
    /\ UNCHANGED <<pc, view, todo, at, creds, done, failed, faults>>

Import ==
    /\ \E r \in Repos : ImportArrives(r)
    /\ UNCHANGED <<ops, faults, edits>>

Read(p) ==
    \/ ListOrgs(p)
    \/ ListRepos(p)
    \/ \E o \in DeclOrgs : ReadTeam(p, o)
    \/ \E r \in DeclRepos : ReadRepo(p, r) \/ ReadHooks(p, r)
    \/ ReadFails(p)

EnsureTeam(p) ==
    \/ \E o \in DeclOrgs : GetTeam(p, o)
    \/ PostTeam(p)
    \/ RegetTeam(p)
    \/ PatchTeam(p)
    \/ CheckTeam(p)
    \/ PutMember(p)

Execute(p) ==
    \/ \E o \in DeclOrgs : PostOrg(p, o)
    \/ EnsureTeam(p)
    \/ \E r \in DeclRepos :
          \/ PostRepo(p, r)
          \/ PostMigration(p, r)
          \/ MigrationWithoutToken(p, r)
          \/ PatchRepo(p, r)
          \/ SendHook(p, r)
          \/ HookWithoutSecret(p, r)
    \/ CheckRepo(p)
    \/ CheckHook(p)

ApplySome(p) == \E c \in CredentialSets : Apply(p, c)

\* Everything a run of reconcile does by itself once it is started.
Run(p) ==
    \/ Read(p)
    \/ EndPass(p)
    \/ ReportMatch(p)
    \/ PlanOnly(p)
    \/ Execute(p)

DropEmpty(p) ==
    \/ \E r \in Repos : ReadShell(p, r)
    \/ DropShell(p)

Next ==
    \/ \E p \in Ops : Start(p) \/ Run(p) \/ ApplySome(p) \/ DropEmpty(p)
    \/ EditByHand
    \/ Import

Spec == Init /\ [][Next]_vars

\* Operators finish what they started and run the command again, and a plan
\* that keeps asking for --apply is applied some day by one who has all the
\* credentials it may need.
Fairness ==
    /\ \A p \in Ops : /\ WF_vars(Start(p))
                      /\ WF_vars(Run(p))
                      /\ SF_vars(Apply(p, Credentials))
                      /\ WF_vars(DropShell(p))
    /\ WF_vars(Import)

FairSpec == Spec /\ Fairness
----------------------------------------------------------------------------
(* Properties.                                                             *)

\* The forge is as declared, in everything the command converges.
ForgeConverged ==
    /\ DeclOrgs \subseteq orgs
    /\ DeclRepos \subseteq repos
    /\ \A o \in DeclOrgs : team[o] = "full"
    /\ DeclRepos \subseteq settings
    /\ \A r \in DeclRepos : FirstHook(hooks[r]).right

\* What a plan asks of each of the six passes of execute, and the kind of target
\* the pass reports on.
PlanFor(v, k) ==
    CASE k = 1 -> OrgsToCreate(v)
      [] k = 2 -> TeamsToEnsure(v)
      [] k = 3 -> ReposToCreate(v)
      [] k = 4 -> ReposToMigrate(v)
      [] k = 5 -> ReposToConfigure(v)
      [] k = 6 -> ReposToHook(v)

KindOf == <<"org", "team", "repo", "repo", "settings", "hook">>

Planned(v) == UNION {{KindOf[k]} \X PlanFor(v, k) : k \in 1..6}

\* What p's run may not attempt, because a failure it has recorded leaves
\* nothing to attempt it on.
Quarantined(p) ==
    LET OrgDown(o)    == <<"org", o>> \in failed[p]
        TeamDown(o)   == OrgDown(o) \/ <<"team", o>> \in failed[p]
        NeverMade(r)  == r \in Missing(view[p]) /\ TeamDown(OrgOf[r])
        RepoDown(r)   == NeverMade(r) \/ <<"repo", r>> \in failed[p]
    IN  ({"team"} \X {o \in Orgs : OrgDown(o)})
            \cup ({"repo"} \X {r \in Repos : NeverMade(r)})
            \cup ({"settings", "hook"} \X {r \in Repos : RepoDown(r)})

\* What the toolkit does to the forge is what ForgeInventory allows.
Inventory == INSTANCE ForgeInventory WITH
    Orgs <- Orgs, Repos <- Repos, OrgOf <- OrgOf, DeclOrgs <- DeclOrgs, DeclRepos <- DeclRepos,
    DeclPrivate <- DeclPrivate, orgs <- orgs, repos <- repos, private <- private, edits <- edits
InventoryKept == Inventory!Spec

\* The pass a command is in, counted from 1; 7 once execute has returned.
PassNumber(l) ==
    CASE l = "orgs"                             -> 1
      [] l \in {"teams"} \cup TeamMidst          -> 2
      [] l = "create"                           -> 3
      [] l = "migrate"                          -> 4
      [] l \in {"configure", "settingsCheck"}   -> 5
      [] l \in {"hook", "hookCheck"}            -> 6
      [] l = "done"                             -> 7
      [] OTHER                                  -> 0

\* What the current pass has not decided yet.
Left(p) == todo[p] \cup (IF pc[p] \in Midst THEN {at[p]} ELSE {})

\* The targets of one kind that p's run has reported on.
Reported(p, kind) == {x \in Orgs \cup Repos : <<kind, x>> \in done[p] \cup failed[p]}

\* How much of the k-th pass's work a run has reported on.
Upto(p, k, work) ==
    LET n == PassNumber(pc[p])
    IN  IF n < k THEN {} ELSE IF n = k THEN work \ Left(p) ELSE work

\* The work of the k-th pass, as the failures of the passes before it leave it.
Work(p, k) == {x \in PlanFor(view[p], k) : <<KindOf[k], x>> \notin Quarantined(p)}

LeftFits(p) ==
    /\ \A k \in 1..6 : PassNumber(pc[p]) = k => Left(p) \subseteq Work(p, k)
    /\ pc[p] \in Midst => at[p] \notin todo[p]
    /\ pc[p] \notin {"readTeams", "readRepos", "readHooks"}
         /\ PassNumber(pc[p]) \in {0, 7} => todo[p] = {}

ReportFits(p) ==
    /\ Reported(p, "org") = Upto(p, 1, Work(p, 1))
    /\ Reported(p, "team") = Upto(p, 2, Work(p, 2))
    /\ Reported(p, "repo") = Upto(p, 3, Work(p, 3)) \cup Upto(p, 4, Work(p, 4))
    /\ Reported(p, "settings") = Upto(p, 5, Work(p, 5))
    /\ Reported(p, "hook") = Upto(p, 6, Work(p, 6))
    /\ done[p] \cap failed[p] = {}

\* At every moment of a run the report holds exactly the targets it should: of
\* each finished pass the planned ones that no failure keeps from being
\* attempted, of the current pass those less what is left, of later passes none.
ExactReport == \A p \in Ops : LeftFits(p) /\ ReportFits(p)

\* A run accounts for everything it planned: once execute returns, each target
\* was carried out, or failed, or was skipped behind a recorded failure.
EveryItemAccounted ==
    \A p \in Ops :
        pc[p] = "done" => Planned(view[p]) \subseteq done[p] \cup failed[p] \cup Quarantined(p)

\* One root cause is one failure: nothing behind a recorded failure is
\* attempted, so it is never reported as carried out or failed itself.
OneCauseOneFailure ==
    \A p \in Ops :
        /\ done[p] \cap failed[p] = {}
        /\ (done[p] \cup failed[p]) \cap Quarantined(p) = {}

\* The quarantine leaves no doomed call: as long as nobody else touches the
\* forge, each call a run still has to make is one the forge accepts, however
\* many of its earlier calls failed or lost their answer.
NoDoomedCall ==
    \A p \in Ops : calm[p] =>
        /\ pc[p] = "orgs" => \A o \in todo[p] : MayCreateOrg(o)
        /\ pc[p] = "teams" => todo[p] \subseteq orgs
        /\ pc[p] \in {"teamEdit", "teamMember"} => MayWriteTeam(at[p])
        /\ pc[p] = "create" => \A r \in todo[p] : MayCreateRepo(r)
        /\ pc[p] = "migrate" => \A r \in todo[p] : MayMigrateRepo(r)
        /\ pc[p] \in {"configure", "hook"} => todo[p] \subseteq repos
        /\ pc[p] = "hook" => \A r \in todo[p] : MayWriteHook(p, r)

\* A run that reports no failure, on a forge nobody else touched, has converged
\* it: the next plan would be empty, and the bot is in every team it prepared.
CleanRunConverges ==
    \A p \in Ops :
        pc[p] = "done" /\ calm[p] /\ failed[p] = {} =>
            ForgeConverged /\ TeamsToEnsure(view[p]) \subseteq member

\* "forge matches the declaration": said only when it does, the visibility of
\* every declared repository included.
MatchIsTrue ==
    \A p \in Ops :
        pc[p] = "matched" /\ calm[p] =>
            ForgeConverged /\ private \cap DeclRepos = DeclPrivate

\* What the command says of the forge is so, after a plan and after a run
\* (cli/services.py, gitea-reconcile).
ReportedIsSo == CleanRunConverges /\ MatchIsTrue

\* A repository never carries two webhooks at the declared URL, or every event
\* is delivered twice: nothing removes a webhook.
OneHookPerRepo == \A r \in Repos : Cardinality(hooks[r]) <= 1

\* No call of a run is one too many: the forge would accept each that is left,
\* and none made a webhook that was there (execute in gitea_repos.py).
NoCallAmiss == NoDoomedCall /\ OneHookPerRepo

\* The forge ends up as declared and stays so, once calls stop failing and
\* people stop editing, if operators keep running the command.
ForgeConverges == <>[]ForgeConverged

=============================================================================
