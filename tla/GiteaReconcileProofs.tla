------------------------ MODULE GiteaReconcileProofs ------------------------
(***************************************************************************)
(* Theorems about GiteaReconcile, for every forge, declaration, number of  *)
(* operators, failures and edits: first its types and what the forge       *)
(* promises whatever its writers do; then, from the second rule on, what a *)
(* run reports of its work, and what report and plan say of the forge.     *)
(***************************************************************************)
EXTENDS GiteaReconcile, FiniteSetTheorems, TLAPS

Phases == Over \cup Reading \cup Passes \cup Midst \cup {"decide"}

\* The hook a view records is one of the repository's, or the mark for none.
LEMMA FirstHookType ==
    ASSUME NEW hs
    PROVE  FirstHook(hs) \in hs \cup {NoHook}
BY DEF FirstHook

LEMMA BlankViewType == BlankView \in View
BY DEF BlankView, View, TeamStates

\* A pass is given organizations and repositories to work on, nothing else.
LEMMA WorklistType ==
    ASSUME NEW p \in Ops, NEW l, TypeOK
    PROVE  Worklist(p, l) \subseteq Orgs \cup Repos
<1>1. view[p] \in View
  BY DEF TypeOK
<1>2. TeamsToEnsure(view[p]) \subseteq Orgs
  BY <1>1, OrgOfAssumption, DeclarationAssumption
     DEF TeamsToEnsure, Receiving, Missing, TeamsToConverge, View
<1>3. /\ ReposToCreate(view[p]) \subseteq Repos
      /\ ReposToMigrate(view[p]) \subseteq Repos
      /\ ReposToConfigure(view[p]) \subseteq Repos
      /\ ReposToHook(view[p]) \subseteq Repos
  BY DeclarationAssumption
     DEF ReposToCreate, ReposToMigrate, Missing, ReposToConfigure, SettingsNeedConvergence, ReposToHook, WebhookNeedsConvergence
<1> QED
  BY <1>2, <1>3, DeclarationAssumption DEF Worklist, InPreparedOrg

LEMMA InitType == Init => TypeOK
BY BlankViewType, RunAssumption DEF Init, TypeOK, AtFits, Over, TeamMidst, RepoMidst

USE DEF Phases

\* The calls that change the forge keep the types of its state.
LEMMA OrgWriteType ==
    ASSUME ForgeTypeOK, NEW o \in Orgs, NEW t \in TeamStates,
           \/ CreateOrg(o)
           \/ WriteTeam(o, t)
           \/ AddTeamMember(o)
           \/ UNCHANGED forge
    PROVE  ForgeTypeOK'
BY DEF ForgeTypeOK, CreateOrg, WriteTeam, AddTeamMember, forge, orgPart, repoPart, hookPart

LEMMA RepoWriteType ==
    ASSUME ForgeTypeOK, NEW r \in Repos, NEW b \in BOOLEAN,
           \/ CreateRepo(r, b)
           \/ MigrateRepo(r, b)
           \/ EditRepo(r, b)
           \/ DeleteRepo(r)
           \/ ImportArrives(r)
    PROVE  ForgeTypeOK'
BY DEF ForgeTypeOK, CreateRepo, MigrateRepo, EditRepo, DeleteRepo, ImportArrives,
       orgPart, repoPart, hookPart

LEMMA HookWriteType ==
    ASSUME ForgeTypeOK, NEW r \in Repos, NEW b \in BOOLEAN, NEW id \in Nat,
           CreateHook(r, b) \/ EditHook(r, id)
    PROVE  ForgeTypeOK'
<1>1. hooks[r] \subseteq Hook
  BY DEF ForgeTypeOK
<1>2. [id |-> nextHook, right |-> b] \in Hook /\ [id |-> id, right |-> TRUE] \in Hook
  BY DEF ForgeTypeOK, Hook
<1>3. CASE CreateHook(r, b)
  <2>1. hooks' \in [Repos -> SUBSET Hook]
    BY <1>1, <1>2, <1>3 DEF CreateHook, ForgeTypeOK
  <2> QED
    BY <2>1, <1>3 DEF CreateHook, ForgeTypeOK, orgPart, repoPart
<1>4. CASE EditHook(r, id)
  <2>1. hooks' \in [Repos -> SUBSET Hook]
    BY <1>1, <1>2, <1>4 DEF EditHook, ForgeTypeOK
  <2> QED
    BY <2>1, <1>4 DEF EditHook, ForgeTypeOK, orgPart, repoPart
<1> QED
  BY <1>3, <1>4

LEMMA ByHandType ==
    ASSUME ForgeTypeOK, ByHand
    PROVE  ForgeTypeOK'
<1>1. ASSUME NEW o \in Orgs, CreateOrgByHand(o) \/ NarrowTeam(o) \/ RemoveMember(o)
      PROVE  ForgeTypeOK'
  <2>1. CASE CreateOrgByHand(o) \/ NarrowTeam(o)
    BY <2>1, OrgWriteType DEF CreateOrgByHand, NarrowTeam, TeamStates
  <2>2. CASE RemoveMember(o)
    BY <2>2 DEF ForgeTypeOK, RemoveMember, orgPart, repoPart, hookPart
  <2> QED
    BY <1>1, <2>1, <2>2
<1>2. ASSUME NEW r \in Repos, CreateRepoByHand(r) \/ DeleteRepoByHand(r)
      PROVE  ForgeTypeOK'
  BY <1>2, RepoWriteType DEF CreateRepoByHand, DeleteRepoByHand
<1>3. ASSUME NEW r \in Repos, Push(r) \/ FlipVisibility(r) \/ ResetSettings(r)
      PROVE  ForgeTypeOK'
  BY <1>3 DEF ForgeTypeOK, Push, FlipVisibility, ResetSettings, orgPart, repoPart, hookPart
<1>4. ASSUME NEW r \in Repos, BreakHook(r) \/ DeleteHook(r)
      PROVE  ForgeTypeOK'
  <2>1. CASE BreakHook(r)
    <3>1. PICK h \in hooks[r] :
             /\ hooks' = [hooks EXCEPT ![r] = (@ \ {h}) \cup {[h EXCEPT !.right = FALSE]}]
             /\ UNCHANGED <<nextHook, orgPart, repoPart>>
      BY <2>1 DEF BreakHook
    <3>2. hooks[r] \subseteq Hook /\ h \in Hook
      BY DEF ForgeTypeOK
    <3>4. [h EXCEPT !.right = FALSE] \in Hook
      BY <3>2 DEF Hook
    <3>3. hooks' \in [Repos -> SUBSET Hook]
      BY <3>1, <3>2, <3>4 DEF ForgeTypeOK
    <3> QED
      BY <3>1, <3>3 DEF ForgeTypeOK, orgPart, repoPart
  <2>2. CASE DeleteHook(r)
    BY <2>2 DEF ForgeTypeOK, DeleteHook, orgPart, repoPart
  <2> QED
    BY <1>4, <2>1, <2>2
<1> QED
  BY <1>1, <1>2, <1>3, <1>4 DEF ByHand

----------------------------------------------------------------------------
(* The rest of TypeOK: what the operators know and what they have reported *)

OpsTypeOK ==
    /\ pc \in [Ops -> Phases]
    /\ view \in [Ops -> View]
    /\ todo \in [Ops -> SUBSET (Orgs \cup Repos)]
    /\ at \in [Ops -> Orgs \cup Repos \cup {None}]
    /\ creds \in [Ops -> SUBSET Credentials]
    /\ done \in [Ops -> SUBSET Targets]
    /\ failed \in [Ops -> SUBSET Targets]
    /\ calm \in [Ops -> BOOLEAN]
    /\ faults \in 0..MaxFaults
    /\ edits \in 0..MaxEdits

TypesOK == ForgeTypeOK /\ OpsTypeOK

LEMMA TypeParts ==
    /\ TypeOK <=> ForgeTypeOK /\ OpsTypeOK /\ AtFits
    /\ TypesOK' <=> ForgeTypeOK' /\ OpsTypeOK'
BY DEF TypeOK, TypesOK, OpsTypeOK

LEMMA ForgeUnchangedType ==
    ASSUME ForgeTypeOK, UNCHANGED forge
    PROVE  ForgeTypeOK'
BY DEF ForgeTypeOK, forge

LEMMA NextPassType ==
    \A l \in DOMAIN NextPass : NextPass[l] \in Phases
BY DEF NextPass, Over, Reading, Passes

\* Starting a command, and the reading of the forge.
LEMMA ReadType ==
    ASSUME TypeOK, NEW p \in Ops, Start(p) \/ Read(p) \/ EndPass(p)
    PROVE  TypesOK'
<1> USE TypeParts
<1>1. ForgeTypeOK'
  BY ForgeUnchangedType
     DEF Start, Read, EndPass, Reads, ListOrgs, ListRepos, ReadTeam, ReadRepo, ReadHooks,
         ReadFails
<1>2. CASE Start(p)
  <2>1. OpsTypeOK'
    BY <1>2, BlankViewType DEF Start, OpsTypeOK, GoTo, Over, Reading
  <2> QED
    BY <1>1, <2>1
<1>3. CASE EndPass(p)
  <2>1. Worklist(p, NextPass[pc[p]]) \subseteq Orgs \cup Repos
    BY WorklistType
  <2>2. OpsTypeOK'
    BY <1>3, <2>1, NextPassType DEF EndPass, OpsTypeOK, GoTo
  <2> QED
    BY <1>1, <2>2
<1>4. CASE ReadFails(p)
  <2>1. faults' \in 0..MaxFaults
    BY <1>4, RunAssumption DEF ReadFails, Fault, NoFault, OpsTypeOK
  <2>2. OpsTypeOK'
    BY <1>4, <2>1 DEF ReadFails, OpsTypeOK, GoTo, Over
  <2> QED
    BY <1>1, <2>2
<1>5. ASSUME pc' \in [Ops -> Phases], todo' \in [Ops -> SUBSET (Orgs \cup Repos)],
             NEW v, view' = [view EXCEPT ![p] = v], v \in View, Reads
      PROVE  TypesOK'
  <2>1. OpsTypeOK'
    BY <1>5 DEF OpsTypeOK, Reads
  <2> QED
    BY <1>1, <2>1
<1>6. view[p] \in View
  BY DEF OpsTypeOK
<1>7. CASE ListOrgs(p)
  <2>1. [view[p] EXCEPT !.orgs = orgs] \in View
    BY <1>6 DEF View, ForgeTypeOK
  <2>2. pc' \in [Ops -> Phases] /\ todo' \in [Ops -> SUBSET (Orgs \cup Repos)]
    BY <1>7 DEF ListOrgs, GoTo, OpsTypeOK, Reading
  <2> QED
    BY <1>5, <1>7, <2>1, <2>2 DEF ListOrgs
<1>8. CASE ListRepos(p)
  <2>1. [view[p] EXCEPT !.repos = repos, !.private = private] \in View
    BY <1>6 DEF View, ForgeTypeOK
  <2>2. pc' \in [Ops -> Phases] /\ todo' \in [Ops -> SUBSET (Orgs \cup Repos)]
    BY <1>8, DeclarationAssumption DEF ListRepos, GoTo, OpsTypeOK, Reading
  <2> QED
    BY <1>5, <1>8, <2>1, <2>2 DEF ListRepos
<1>9. ASSUME NEW o \in DeclOrgs, ReadTeam(p, o)
      PROVE  TypesOK'
  <2> DEFINE t == IF o \in view[p].orgs THEN team[o] ELSE "absent"
  <2>1. t \in TeamStates
    BY DeclarationAssumption DEF ForgeTypeOK, TeamStates
  <2>2. [view[p] EXCEPT !.team[o] = t] \in View
    BY <1>6, <2>1 DEF View
  <2>3. pc' \in [Ops -> Phases] /\ todo' \in [Ops -> SUBSET (Orgs \cup Repos)]
    BY <1>9 DEF ReadTeam, Drops, OpsTypeOK
  <2> QED
    BY <1>5, <1>9, <2>2, <2>3 DEF ReadTeam
<1>10. ASSUME NEW r \in DeclRepos, ReadRepo(p, r)
       PROVE  TypesOK'
  <2> DEFINE s == IF r \in view[p].repos \cap settings THEN view[p].settings \cup {r}
                                                      ELSE view[p].settings
  <2>1. [view[p] EXCEPT !.settings = s] \in View
    BY <1>6 DEF View
  <2>2. pc' \in [Ops -> Phases] /\ todo' \in [Ops -> SUBSET (Orgs \cup Repos)]
    BY <1>10 DEF ReadRepo, Drops, OpsTypeOK
  <2>3. view' = [view EXCEPT ![p] = [view[p] EXCEPT !.settings = s]]
    BY <1>10 DEF ReadRepo
  <2> QED
    BY <1>5, <1>10, <2>1, <2>2, <2>3 DEF ReadRepo
<1>11. ASSUME NEW r \in DeclRepos, ReadHooks(p, r)
       PROVE  TypesOK'
  <2> DEFINE h == IF r \in view[p].repos THEN FirstHook(hooks[r]) ELSE NoHook
  <2>1. h \in Hook \cup {NoHook}
    BY FirstHookType, DeclarationAssumption DEF ForgeTypeOK
  <2>2. [view[p] EXCEPT !.hook[r] = h] \in View
    BY <1>6, <2>1 DEF View
  <2>3. pc' \in [Ops -> Phases] /\ todo' \in [Ops -> SUBSET (Orgs \cup Repos)]
    BY <1>11 DEF ReadHooks, Drops, OpsTypeOK
  <2> QED
    BY <1>5, <1>11, <2>2, <2>3 DEF ReadHooks
<1> QED
  BY <1>2, <1>3, <1>4, <1>7, <1>8, <1>9, <1>10, <1>11 DEF Read

LEMMA FaultType ==
    ASSUME OpsTypeOK, Fault \/ NoFault
    PROVE  faults' \in 0..MaxFaults
BY RunAssumption DEF OpsTypeOK, Fault, NoFault

LEMMA DecideType ==
    ASSUME TypeOK, NEW p \in Ops, ReportMatch(p) \/ PlanOnly(p) \/ ApplySome(p)
    PROVE  TypesOK'
<1> USE TypeParts
<1>1. ForgeTypeOK'
  BY ForgeUnchangedType DEF ReportMatch, PlanOnly, ApplySome, Apply, Deciding
<1>2. CASE ReportMatch(p) \/ PlanOnly(p)
  <2>1. OpsTypeOK'
    BY <1>2 DEF ReportMatch, PlanOnly, Deciding, OpsTypeOK, GoTo, Over
  <2> QED
    BY <1>1, <2>1
<1>3. ASSUME NEW c \in CredentialSets, Apply(p, c)
      PROVE  TypesOK'
  <2>1. OrgsToCreate(view[p]) \subseteq Orgs
    BY DeclarationAssumption DEF OrgsToCreate
  <2>2. OpsTypeOK'
    BY <1>3, <2>1, RunAssumption DEF Apply, Deciding, OpsTypeOK, GoTo, Over, Passes
  <2> QED
    BY <1>1, <2>2
<1> QED
  BY <1>2, <1>3 DEF ApplySome

\* What a step of execute or drop-empty does to the reports and to calm.
LEMMA ReportType ==
    ASSUME OpsTypeOK, NEW p \in Ops, NEW t \in Targets,
           Succeed(p, t) \/ Fail(p, t) \/ NoReport
    PROVE  /\ done' \in [Ops -> SUBSET Targets]
           /\ failed' \in [Ops -> SUBSET Targets]
BY DEF OpsTypeOK, Succeed, Fail, NoReport

LEMMA CalmType ==
    ASSUME OpsTypeOK, NEW p \in Ops, Disturb(p) \/ UNCHANGED calm
    PROVE  calm' \in [Ops -> BOOLEAN]
BY DEF OpsTypeOK, Disturb

LEMMA TargetType ==
    /\ \A o \in Orgs : {<<"org", o>>, <<"team", o>>} \subseteq Targets
    /\ \A r \in Repos : {<<"repo", r>>, <<"settings", r>>, <<"hook", r>>} \subseteq Targets
BY DEF Targets

\* The passes that make one call for each of their targets.
LEMMA CallType ==
    ASSUME TypeOK, NEW p \in Ops,
           \/ \E o \in DeclOrgs : PostOrg(p, o)
           \/ \E r \in DeclRepos : \/ PostRepo(p, r)
                                 \/ PostMigration(p, r)
                                 \/ MigrationWithoutToken(p, r)
                                 \/ HookWithoutSecret(p, r)
    PROVE  TypesOK'
<1> USE TypeParts
<1>1. ASSUME NEW o \in DeclOrgs, PostOrg(p, o)
      PROVE  TypesOK'
  <2>1. ForgeTypeOK'
    BY <1>1, OrgWriteType, ForgeUnchangedType, DeclarationAssumption
       DEF PostOrg, Call, Rejected, TeamStates
  <2>2. faults' \in 0..MaxFaults /\ calm' \in [Ops -> BOOLEAN]
    BY <1>1, FaultType, CalmType DEF PostOrg, Call, Rejected
  <2>3. done' \in [Ops -> SUBSET Targets] /\ failed' \in [Ops -> SUBSET Targets]
    BY <1>1, TargetType, ReportType, DeclarationAssumption DEF PostOrg, Call
  <2>4. OpsTypeOK'
    BY <1>1, <2>2, <2>3 DEF PostOrg, Drops, OpsTypeOK
  <2> QED
    BY <2>1, <2>4
<1>2. ASSUME NEW r \in DeclRepos, PostRepo(p, r) \/ PostMigration(p, r)
      PROVE  TypesOK'
  <2>1. ForgeTypeOK'
    <3>1. \/ CreateRepo(r, r \in DeclPrivate)
          \/ MigrateRepo(r, r \in DeclPrivate)
          \/ UNCHANGED forge
      BY <1>2 DEF PostRepo, PostMigration, Call, Rejected
    <3> QED
      BY <3>1, ForgeUnchangedType, DeclarationAssumption
         DEF ForgeTypeOK, CreateRepo, MigrateRepo, orgPart, hookPart
  <2>2. faults' \in 0..MaxFaults /\ calm' \in [Ops -> BOOLEAN]
    BY <1>2, FaultType, CalmType DEF PostRepo, PostMigration, Call, Rejected
  <2>3. done' \in [Ops -> SUBSET Targets] /\ failed' \in [Ops -> SUBSET Targets]
    BY <1>2, TargetType, ReportType, DeclarationAssumption DEF PostRepo, PostMigration, Call
  <2>4. OpsTypeOK'
    BY <1>2, <2>2, <2>3 DEF PostRepo, PostMigration, Drops, OpsTypeOK
  <2> QED
    BY <2>1, <2>4
<1>3. ASSUME NEW r \in DeclRepos, MigrationWithoutToken(p, r) \/ HookWithoutSecret(p, r)
      PROVE  TypesOK'
  <2>1. ForgeTypeOK'
    BY <1>3, ForgeUnchangedType DEF MigrationWithoutToken, HookWithoutSecret
  <2>2. done' \in [Ops -> SUBSET Targets] /\ failed' \in [Ops -> SUBSET Targets]
    BY <1>3, TargetType, ReportType, DeclarationAssumption
       DEF MigrationWithoutToken, HookWithoutSecret
  <2>3. OpsTypeOK'
    BY <1>3, <2>2 DEF MigrationWithoutToken, HookWithoutSecret, Drops, OpsTypeOK
  <2> QED
    BY <2>1, <2>3
<1> QED
  BY <1>1, <1>2, <1>3

\* ensure_team.
LEMMA EnsureTeamType ==
    ASSUME TypeOK, NEW p \in Ops, EnsureTeam(p)
    PROVE  TypesOK'
<1> USE TypeParts
<1>1. ASSUME NEW o \in DeclOrgs, GetTeam(p, o)
      PROVE  TypesOK'
  <2>1. ForgeTypeOK'
    BY <1>1, ForgeUnchangedType DEF GetTeam
  <2>2. faults' \in 0..MaxFaults
    BY <1>1, FaultType DEF GetTeam
  <2>3. done' \in [Ops -> SUBSET Targets] /\ failed' \in [Ops -> SUBSET Targets]
    BY <1>1, TargetType, ReportType, DeclarationAssumption DEF GetTeam
  <2>4. pc' \in [Ops -> Phases]
    BY <1>1 DEF GetTeam, GoTo, OpsTypeOK, Midst, TeamMidst
  <2>5. at' \in [Ops -> Orgs \cup Repos \cup {None}]
    BY <1>1, DeclarationAssumption DEF GetTeam, OpsTypeOK
  <2>6. OpsTypeOK'
    BY <1>1, <2>2, <2>3, <2>4, <2>5 DEF GetTeam, Drops, OpsTypeOK
  <2> QED
    BY <2>1, <2>6
<1>2. CASE PostTeam(p) \/ RegetTeam(p) \/ PatchTeam(p) \/ CheckTeam(p)
  <2>0. at[p] \in Orgs
    BY <1>2, DeclarationAssumption
       DEF PostTeam, RegetTeam, PatchTeam, CheckTeam, InMidst, AtFits, TeamMidst
  <2>1. ForgeTypeOK'
    BY <1>2, <2>0, OrgWriteType, ForgeUnchangedType, RunAssumption
       DEF PostTeam, RegetTeam, PatchTeam, CheckTeam, Rejected, TeamStates
  <2>2. faults' \in 0..MaxFaults
    BY <1>2, FaultType DEF PostTeam, RegetTeam, PatchTeam, CheckTeam, Rejected
  <2>3. calm' \in [Ops -> BOOLEAN]
    BY <1>2, CalmType DEF PostTeam, RegetTeam, PatchTeam, CheckTeam
  <2>4. done' \in [Ops -> SUBSET Targets] /\ failed' \in [Ops -> SUBSET Targets]
    BY <1>2, <2>0, TargetType, ReportType
       DEF PostTeam, RegetTeam, PatchTeam, CheckTeam, GoOn, GiveUp
  <2>5. /\ pc' \in [Ops -> Phases]
        /\ at' \in [Ops -> Orgs \cup Repos \cup {None}]
    BY <1>2 DEF PostTeam, RegetTeam, PatchTeam, CheckTeam, GoOn, GiveUp, GoTo, OpsTypeOK,
                Passes, Midst, TeamMidst
  <2>6. OpsTypeOK'
    BY <1>2, <2>2, <2>3, <2>4, <2>5
       DEF PostTeam, RegetTeam, PatchTeam, CheckTeam, InMidst, OpsTypeOK
  <2> QED
    BY <2>1, <2>6
<1>3. CASE PutMember(p)
  <2>0. at[p] \in Orgs
    BY <1>3, DeclarationAssumption DEF PutMember, InMidst, AtFits, TeamMidst
  <2>1. ForgeTypeOK'
    BY <1>3, <2>0, OrgWriteType, ForgeUnchangedType DEF PutMember, Call, Rejected, TeamStates
  <2>2. faults' \in 0..MaxFaults /\ calm' \in [Ops -> BOOLEAN]
    BY <1>3, FaultType, CalmType DEF PutMember, Call, Rejected
  <2>3. done' \in [Ops -> SUBSET Targets] /\ failed' \in [Ops -> SUBSET Targets]
    BY <1>3, <2>0, TargetType, ReportType DEF PutMember, Call
  <2>4. OpsTypeOK'
    BY <1>3, <2>2, <2>3 DEF PutMember, InMidst, GoTo, OpsTypeOK, Passes
  <2> QED
    BY <2>1, <2>4
<1> QED
  BY <1>1, <1>2, <1>3 DEF EnsureTeam

\* ensure_settings and ensure_webhook.
LEMMA ViewedHookType ==
    ASSUME TypeOK, NEW p \in Ops, NEW r \in DeclRepos,
           view[p].hook[r] # NoHook
    PROVE  view[p].hook[r].id \in Nat
BY DEF TypeOK, View, Hook

LEMMA EnsureRepoType ==
    ASSUME TypeOK, NEW p \in Ops,
           \/ \E r \in DeclRepos : PatchRepo(p, r) \/ SendHook(p, r)
           \/ CheckRepo(p)
           \/ CheckHook(p)
    PROVE  TypesOK'
<1> USE TypeParts
<1>1. ASSUME NEW r \in DeclRepos, PatchRepo(p, r)
      PROVE  TypesOK'
  <2>1. ForgeTypeOK'
    BY <1>1, RepoWriteType, ForgeUnchangedType, DeclarationAssumption DEF PatchRepo, Rejected
  <2>2. faults' \in 0..MaxFaults /\ calm' \in [Ops -> BOOLEAN]
    BY <1>1, FaultType, CalmType DEF PatchRepo, Rejected
  <2>3. done' \in [Ops -> SUBSET Targets] /\ failed' \in [Ops -> SUBSET Targets]
    BY <1>1, TargetType, ReportType, DeclarationAssumption DEF PatchRepo
  <2>4. pc' \in [Ops -> Phases] /\ at' \in [Ops -> Orgs \cup Repos \cup {None}]
    BY <1>1, DeclarationAssumption DEF PatchRepo, GoTo, OpsTypeOK, Midst, RepoMidst
  <2>5. OpsTypeOK'
    BY <1>1, <2>2, <2>3, <2>4 DEF PatchRepo, Drops, OpsTypeOK
  <2> QED
    BY <2>1, <2>5
<1>2. ASSUME NEW r \in DeclRepos, SendHook(p, r)
      PROVE  TypesOK'
  <2>1. ForgeTypeOK'
    <3>1. CASE UNCHANGED forge
      BY <3>1, ForgeUnchangedType
    <3>2. CASE CreateHook(r, TRUE) \/ CreateHook(r, FALSE)
      BY <3>2, HookWriteType, DeclarationAssumption
    <3>3. CASE view[p].hook[r] # NoHook /\ EditHook(r, view[p].hook[r].id)
      BY <3>3, ViewedHookType, HookWriteType, DeclarationAssumption
    <3> QED
      BY <1>2, <3>1, <3>2, <3>3 DEF SendHook, WriteHook, HookWrittenAmiss, Rejected
  <2>2. faults' \in 0..MaxFaults /\ calm' \in [Ops -> BOOLEAN]
    BY <1>2, FaultType, CalmType DEF SendHook, Rejected
  <2>3. done' \in [Ops -> SUBSET Targets] /\ failed' \in [Ops -> SUBSET Targets]
    BY <1>2, TargetType, ReportType, DeclarationAssumption DEF SendHook
  <2>4. pc' \in [Ops -> Phases] /\ at' \in [Ops -> Orgs \cup Repos \cup {None}]
    BY <1>2, DeclarationAssumption DEF SendHook, GoTo, OpsTypeOK, Midst, RepoMidst
  <2>5. OpsTypeOK'
    BY <1>2, <2>2, <2>3, <2>4 DEF SendHook, Drops, OpsTypeOK
  <2> QED
    BY <2>1, <2>5
<1>3. CASE CheckRepo(p) \/ CheckHook(p)
  <2>0. at[p] \in Repos
    BY <1>3, DeclarationAssumption DEF CheckRepo, CheckHook, InMidst, AtFits, RepoMidst
  <2>1. ForgeTypeOK'
    BY <1>3, ForgeUnchangedType DEF CheckRepo, CheckHook, Verified
  <2>2. faults' \in 0..MaxFaults
    BY <1>3, FaultType DEF CheckRepo, CheckHook, Verified
  <2>3. done' \in [Ops -> SUBSET Targets] /\ failed' \in [Ops -> SUBSET Targets]
    BY <1>3, <2>0, TargetType, ReportType DEF CheckRepo, CheckHook, Verified
  <2>4. OpsTypeOK'
    BY <1>3, <2>2, <2>3 DEF CheckRepo, CheckHook, Verified, InMidst, GoTo, OpsTypeOK, Passes
  <2> QED
    BY <2>1, <2>4
<1> QED
  BY <1>1, <1>2, <1>3

LEMMA DropEmptyType ==
    ASSUME TypeOK, NEW p \in Ops, DropEmpty(p)
    PROVE  TypesOK'
<1> USE TypeParts
<1>1. ASSUME NEW r \in Repos, ReadShell(p, r)
      PROVE  TypesOK'
  <2>1. ForgeTypeOK'
    BY <1>1, ForgeUnchangedType DEF ReadShell
  <2>2. edits' \in 0..MaxEdits
    BY <1>1, RunAssumption DEF ReadShell, OpsTypeOK
  <2>3. OpsTypeOK'
    BY <1>1, <2>2, BlankViewType DEF ReadShell, GoTo, OpsTypeOK, Over, Midst, RepoMidst
  <2> QED
    BY <2>1, <2>3
<1>2. CASE DropShell(p)
  <2>1. ForgeTypeOK'
    BY <1>2, RepoWriteType, ForgeUnchangedType, DeclarationAssumption
       DEF DropShell, Rejected, InMidst, AtFits, RepoMidst
  <2>2. faults' \in 0..MaxFaults /\ calm' \in [Ops -> BOOLEAN]
    BY <1>2, FaultType, CalmType DEF DropShell, Rejected
  <2>3. OpsTypeOK'
    BY <1>2, <2>2 DEF DropShell, InMidst, GoTo, NoReport, OpsTypeOK, Over
  <2> QED
    BY <2>1, <2>3
<1> QED
  BY <1>1, <1>2 DEF DropEmpty

LEMMA EnvironmentType ==
    ASSUME TypeOK, EditByHand \/ Import
    PROVE  TypesOK'
<1> USE TypeParts
<1>1. CASE EditByHand
  <2>1. edits' \in 0..MaxEdits
    BY <1>1, RunAssumption DEF EditByHand, OpsTypeOK
  <2>2. OpsTypeOK'
    BY <1>1, <2>1 DEF EditByHand, OpsTypeOK
  <2> QED
    BY <1>1, <2>2, ByHandType DEF EditByHand
<1>2. CASE Import
  <2>1. OpsTypeOK'
    BY <1>2 DEF Import, ops, OpsTypeOK
  <2>2. ForgeTypeOK'
    BY <1>2, RepoWriteType DEF Import
  <2> QED
    BY <2>1, <2>2
<1> QED
  BY <1>1, <1>2

----------------------------------------------------------------------------
(* AtFits, the part of TypeOK that relates two variables.                  *)

\* A step that leaves operator q where it is.
Still(q) == pc'[q] = pc[q] /\ at'[q] = at[q]

\* A step of operator p that takes it nowhere in the midst of a pass, or leaves
\* it there with what it was at.
LEMMA AtFitsFrame ==
    ASSUME TypeOK, NEW p \in Ops,
           \A q \in Ops \ {p} : Still(q),
           \/ pc'[p] \notin Midst
           \/ pc'[p] \in TeamMidst /\ at'[p] \in DeclOrgs
           \/ pc'[p] \in RepoMidst /\ at'[p] \in DeclRepos
    PROVE  AtFits'
BY DEF TypeOK, AtFits, Still, Midst, TeamMidst, RepoMidst

LEMMA AtFitsStep ==
    ASSUME TypeOK, [Next]_vars
    PROVE  AtFits'
<1> USE DEF TypeOK
<1>1. ASSUME NEW p \in Ops,
             \/ Start(p) \/ Read(p) \/ EndPass(p)
             \/ ReportMatch(p) \/ PlanOnly(p) \/ ApplySome(p)
      PROVE  AtFits'
  <2>1. \A q \in Ops \ {p} : Still(q)
    BY <1>1 DEF Still, Start, Read, EndPass, ReportMatch, PlanOnly, ApplySome, Apply, Deciding,
                Reads, ListOrgs, ListRepos, ReadTeam, ReadRepo, ReadHooks, ReadFails, GoTo
  <2>2. pc'[p] \notin Midst
    <3>1. CASE EndPass(p)
      BY <3>1, NextPassType DEF EndPass, GoTo, NextPass, Midst, TeamMidst, RepoMidst
    <3>2. CASE Start(p) \/ Read(p) \/ ReportMatch(p) \/ PlanOnly(p) \/ ApplySome(p)
      BY <3>2 DEF Start, Read, ReportMatch, PlanOnly, ApplySome, Apply, Deciding,
                  Reads, ListOrgs, ListRepos, ReadTeam, ReadRepo, ReadHooks, ReadFails,
                  GoTo, Midst, TeamMidst, RepoMidst
    <3> QED
      BY <1>1, <3>1, <3>2
  <2> QED
    BY <2>1, <2>2, AtFitsFrame
<1>2. ASSUME NEW p \in Ops, EnsureTeam(p)
      PROVE  AtFits'
  <2>1. \A q \in Ops \ {p} : Still(q)
    BY <1>2 DEF Still, EnsureTeam, GetTeam, PostTeam, RegetTeam, PatchTeam, CheckTeam, PutMember,
                GoOn, GiveUp, GoTo
  <2>2. ASSUME NEW o \in DeclOrgs, GetTeam(p, o)
        PROVE  (pc'[p] \in TeamMidst /\ at'[p] \in DeclOrgs) \/ pc'[p] \notin Midst
    BY <2>2 DEF GetTeam, GoTo, Midst, TeamMidst, RepoMidst
  <2>3. CASE PostTeam(p) \/ RegetTeam(p) \/ PatchTeam(p) \/ CheckTeam(p)
    <3>1. at[p] \in DeclOrgs
      BY <2>3 DEF PostTeam, RegetTeam, PatchTeam, CheckTeam, InMidst, AtFits, TeamMidst
    <3>2. (pc'[p] \in TeamMidst /\ at'[p] = at[p]) \/ pc'[p] \notin Midst
      BY <2>3 DEF PostTeam, RegetTeam, PatchTeam, CheckTeam, GoOn, GiveUp, GoTo,
                  Midst, TeamMidst, RepoMidst
    <3> QED
      BY <2>1, <3>1, <3>2, AtFitsFrame
  <2>4. CASE PutMember(p)
    <3>1. pc'[p] \notin Midst
      BY <2>4 DEF PutMember, GoTo, Midst, TeamMidst, RepoMidst
    <3> QED
      BY <2>1, <3>1, AtFitsFrame
  <2> QED
    BY <1>2, <2>1, <2>2, <2>3, <2>4, AtFitsFrame DEF EnsureTeam
<1>3. ASSUME NEW p \in Ops,
             \/ \E o \in DeclOrgs : PostOrg(p, o)
             \/ \E r \in DeclRepos : \/ PostRepo(p, r)
                                   \/ PostMigration(p, r)
                                   \/ MigrationWithoutToken(p, r)
                                   \/ HookWithoutSecret(p, r)
      PROVE  AtFits'
  <2>1. UNCHANGED <<pc, at>>
    BY <1>3 DEF PostOrg, PostRepo, PostMigration, MigrationWithoutToken, HookWithoutSecret
  <2> QED
    BY <2>1 DEF AtFits
<1>4. ASSUME NEW p \in Ops, NEW r \in DeclRepos, PatchRepo(p, r) \/ SendHook(p, r)
      PROVE  AtFits'
  <2>1. \A q \in Ops \ {p} : Still(q)
    BY <1>4 DEF Still, PatchRepo, SendHook, GoTo
  <2>2. \/ pc'[p] \in RepoMidst /\ at'[p] \in DeclRepos
        \/ pc'[p] \notin Midst
    BY <1>4 DEF PatchRepo, SendHook, GoTo, Midst, TeamMidst, RepoMidst
  <2> QED
    BY <2>1, <2>2, AtFitsFrame
<1>5. ASSUME NEW p \in Ops, CheckRepo(p) \/ CheckHook(p) \/ DropShell(p)
      PROVE  AtFits'
  <2>1. \A q \in Ops \ {p} : Still(q)
    BY <1>5 DEF Still, CheckRepo, CheckHook, DropShell, Verified, GoTo
  <2>2. pc'[p] \notin Midst
    BY <1>5 DEF CheckRepo, CheckHook, DropShell, Verified, GoTo, Midst, TeamMidst, RepoMidst
  <2> QED
    BY <2>1, <2>2, AtFitsFrame
<1>6. ASSUME NEW p \in Ops, NEW r \in Repos, ReadShell(p, r)
      PROVE  AtFits'
  <2>1. \A q \in Ops \ {p} : Still(q)
    BY <1>6 DEF Still, ReadShell, GoTo
  <2>2. \/ pc'[p] \in RepoMidst /\ at'[p] \in DeclRepos
        \/ pc'[p] \notin Midst
    BY <1>6 DEF ReadShell, MayDrop, GoTo, Midst, TeamMidst, RepoMidst
  <2> QED
    BY <2>1, <2>2, AtFitsFrame
<1>7. CASE EditByHand \/ Import \/ UNCHANGED vars
  BY <1>7 DEF EditByHand, Import, vars, ops, AtFits
<1> QED
  BY <1>1, <1>2, <1>3, <1>4, <1>5, <1>6, <1>7 DEF Next, Run, Execute, DropEmpty

\* Every variable keeps its type whatever the operators, the people at the web
\* interface and the running migrations do, and in whatever order.
THEOREM TypeCorrect == Spec => []TypeOK
<1>1. TypeOK /\ [Next]_vars => TypeOK'
  <2> SUFFICES ASSUME TypeOK, [Next]_vars
               PROVE  TypeOK'
    OBVIOUS
  <2>1. TypesOK'
    <3>1. CASE UNCHANGED vars
      BY <3>1, ForgeUnchangedType DEF vars, ops, TypeOK, TypesOK, OpsTypeOK
    <3>2. CASE Next
      BY <3>2, ReadType, DecideType, CallType, EnsureTeamType, EnsureRepoType, DropEmptyType,
         EnvironmentType DEF Next, Run, Execute
    <3> QED
      BY <3>1, <3>2
  <2> QED
    BY <2>1, AtFitsStep DEF TypeOK, TypesOK, OpsTypeOK
<1> QED
  BY <1>1, InitType, PTL DEF Spec

----------------------------------------------------------------------------
(* The integrity of the forge.                                             *)

LEMMA IntegrityUnchanged ==
    ASSUME WellFormedForge, UNCHANGED forge
    PROVE  WellFormedForge'
BY DEF WellFormedForge, forge

\* A team is written only in an organization that exists, and never removed.
LEMMA OrgWriteIntegrity ==
    ASSUME ForgeTypeOK, WellFormedForge, NEW o \in Orgs, NEW t \in TeamStates,
           \/ CreateOrg(o)
           \/ MayCreateTeam(o) /\ WriteTeam(o, t)
           \/ MayWriteTeam(o) /\ t # "absent" /\ WriteTeam(o, t)
           \/ MayWriteTeam(o) /\ AddTeamMember(o)
           \/ RemoveMember(o)
    PROVE  WellFormedForge'
<1>1. CASE CreateOrg(o)
  BY <1>1 DEF WellFormedForge, CreateOrg, repoPart, hookPart
<1>2. CASE \/ MayCreateTeam(o) /\ WriteTeam(o, t)
           \/ MayWriteTeam(o) /\ t # "absent" /\ WriteTeam(o, t)
  BY <1>2 DEF ForgeTypeOK, WellFormedForge, MayCreateTeam, MayWriteTeam, WriteTeam,
              repoPart, hookPart
<1>3. CASE (MayWriteTeam(o) /\ AddTeamMember(o)) \/ RemoveMember(o)
  BY <1>3 DEF WellFormedForge, MayWriteTeam, AddTeamMember, RemoveMember, repoPart, hookPart
<1> QED
  BY <1>1, <1>2, <1>3

\* A repository comes into an organization that exists, and takes everything
\* that belongs to it along when it goes.
LEMMA RepoWriteIntegrity ==
    ASSUME ForgeTypeOK, WellFormedForge, NEW r \in Repos, NEW b,
           \/ /\ OrgOf[r] \in orgs
              /\ r \notin repos
              /\ CreateRepo(r, b) \/ MigrateRepo(r, b)
           \/ r \in repos /\ EditRepo(r, b)
           \/ DeleteRepo(r)
           \/ ImportArrives(r)
           \/ Push(r) \/ FlipVisibility(r) \/ ResetSettings(r)
    PROVE  WellFormedForge'
<1>1. CASE /\ OrgOf[r] \in orgs
           /\ r \notin repos
           /\ CreateRepo(r, b) \/ MigrateRepo(r, b)
  BY <1>1 DEF WellFormedForge, CreateRepo, MigrateRepo, orgPart, hookPart
<1>2. CASE r \in repos /\ EditRepo(r, b)
  BY <1>2 DEF WellFormedForge, EditRepo, orgPart, hookPart
<1>3. CASE DeleteRepo(r)
  BY <1>3 DEF ForgeTypeOK, WellFormedForge, DeleteRepo, orgPart
<1>4. CASE ImportArrives(r) \/ Push(r) \/ FlipVisibility(r) \/ ResetSettings(r)
  BY <1>4 DEF WellFormedForge, ImportArrives, Push, FlipVisibility, ResetSettings,
              orgPart, hookPart
<1> QED
  BY <1>1, <1>2, <1>3, <1>4

\* A webhook is written only on a repository that exists, under an id that was
\* given out.
LEMMA HookWriteIntegrity ==
    ASSUME ForgeTypeOK, WellFormedForge, NEW r \in Repos, NEW b \in BOOLEAN, NEW id,
           \/ r \in repos /\ CreateHook(r, b)
           \/ MayEditHook(r, id) /\ EditHook(r, id)
           \/ BreakHook(r)
           \/ DeleteHook(r)
    PROVE  WellFormedForge'
<1>1. ASSUME NEW hs,
             hooks' = [hooks EXCEPT ![r] = hs],
             UNCHANGED <<orgPart, repoPart>>,
             nextHook <= nextHook',
             nextHook' \in Nat,
             r \notin repos => hs = {},
             \A h \in hs : h.id < nextHook'
      PROVE  WellFormedForge'
  <2>1. \A s \in Repos : \A h \in hooks'[s] : h.id < nextHook'
    <3> SUFFICES ASSUME NEW s \in Repos, NEW h \in hooks'[s]
                 PROVE  h.id < nextHook'
      OBVIOUS
    <3>1. CASE s = r
      BY <1>1, <3>1 DEF ForgeTypeOK
    <3>2. CASE s # r
      <4>1. h \in hooks[s] /\ h \in Hook
        BY <1>1, <3>2 DEF ForgeTypeOK
      <4> QED
        BY <1>1, <4>1 DEF ForgeTypeOK, WellFormedForge, Hook
    <3> QED
      BY <3>1, <3>2
  <2>2. \A s \in Repos \ repos : hooks'[s] = {}
    BY <1>1 DEF ForgeTypeOK, WellFormedForge
  <2> QED
    BY <1>1, <2>1, <2>2 DEF WellFormedForge, orgPart, repoPart
<1>2. hooks[r] \subseteq Hook /\ nextHook \in Nat /\ \A h \in hooks[r] : h.id < nextHook
  BY DEF ForgeTypeOK, WellFormedForge
<1>3. hooks[r] # {} => r \in repos
  BY DEF WellFormedForge
<1>4. CASE r \in repos /\ CreateHook(r, b)
  <2> DEFINE hs == hooks[r] \cup {[id |-> nextHook, right |-> b]}
  <2>1. \A h \in hs : h.id < nextHook + 1
    BY <1>2 DEF Hook
  <2>2. nextHook' = nextHook + 1 /\ hooks' = [hooks EXCEPT ![r] = hs]
    BY <1>4 DEF CreateHook
  <2>3. /\ nextHook <= nextHook' /\ nextHook' \in Nat
        /\ r \notin repos => hs = {}
        /\ UNCHANGED <<orgPart, repoPart>>
    BY <1>2, <1>4, <2>2 DEF CreateHook
  <2> HIDE DEF hs
  <2> QED
    BY <1>1, <2>1, <2>2, <2>3
<1>5. CASE MayEditHook(r, id) /\ EditHook(r, id)
  <2> DEFINE hs == {h \in hooks[r] : h.id # id} \cup {[id |-> id, right |-> TRUE]}
  <2>1. \A h \in hs : h.id < nextHook
    BY <1>2, <1>5 DEF MayEditHook
  <2>2. nextHook' = nextHook /\ hooks' = [hooks EXCEPT ![r] = hs]
    BY <1>5 DEF EditHook
  <2>3. /\ nextHook <= nextHook' /\ nextHook' \in Nat
        /\ r \notin repos => hs = {}
        /\ UNCHANGED <<orgPart, repoPart>>
    BY <1>2, <1>3, <1>5, <2>2 DEF EditHook, MayEditHook
  <2> HIDE DEF hs
  <2> QED
    BY <1>1, <2>1, <2>2, <2>3
<1>6. CASE BreakHook(r)
  <2>1. PICK g \in hooks[r] :
           /\ hooks' = [hooks EXCEPT ![r] = (@ \ {g}) \cup {[g EXCEPT !.right = FALSE]}]
           /\ UNCHANGED <<nextHook, orgPart, repoPart>>
    BY <1>6 DEF BreakHook
  <2> DEFINE hs == (hooks[r] \ {g}) \cup {[g EXCEPT !.right = FALSE]}
  <2>2. [g EXCEPT !.right = FALSE].id = g.id
    BY <1>2 DEF Hook
  <2>3. \A h \in hs : h.id < nextHook
    BY <1>2, <2>2
  <2>4. /\ nextHook <= nextHook' /\ nextHook' \in Nat
        /\ r \notin repos => hs = {}
        /\ UNCHANGED <<orgPart, repoPart>>
    BY <1>2, <1>3, <2>1
  <2>5. hooks' = [hooks EXCEPT ![r] = hs] /\ nextHook' = nextHook
    BY <2>1
  <2> HIDE DEF hs
  <2> QED
    BY <1>1, <2>3, <2>4, <2>5
<1>7. CASE DeleteHook(r)
  <2>1. PICK g \in hooks[r] :
           /\ hooks' = [hooks EXCEPT ![r] = @ \ {g}]
           /\ UNCHANGED <<nextHook, orgPart, repoPart>>
    BY <1>7 DEF DeleteHook
  <2> DEFINE hs == hooks[r] \ {g}
  <2>2. hooks' = [hooks EXCEPT ![r] = hs] /\ nextHook' = nextHook
    BY <2>1
  <2>3. /\ nextHook <= nextHook' /\ nextHook' \in Nat
        /\ r \notin repos => hs = {}
        /\ UNCHANGED <<orgPart, repoPart>>
        /\ \A h \in hs : h.id < nextHook'
    BY <1>2, <1>3, <2>1
  <2> HIDE DEF hs
  <2> QED
    BY <1>1, <2>2, <2>3
<1> QED
  BY <1>4, <1>5, <1>6, <1>7

LEMMA ByHandIntegrity ==
    ASSUME ForgeTypeOK, WellFormedForge, ByHand
    PROVE  WellFormedForge'
<1>1. ASSUME NEW o \in Orgs, CreateOrgByHand(o) \/ NarrowTeam(o) \/ RemoveMember(o)
      PROVE  WellFormedForge'
  BY <1>1, OrgWriteIntegrity DEF CreateOrgByHand, NarrowTeam, TeamStates
<1>2. ASSUME NEW r \in Repos,
             \/ CreateRepoByHand(r) \/ DeleteRepoByHand(r)
             \/ Push(r) \/ FlipVisibility(r) \/ ResetSettings(r)
      PROVE  WellFormedForge'
  BY <1>2, RepoWriteIntegrity DEF CreateRepoByHand, DeleteRepoByHand
<1>3. ASSUME NEW r \in Repos, BreakHook(r) \/ DeleteHook(r)
      PROVE  WellFormedForge'
  BY <1>3, HookWriteIntegrity
<1> QED
  BY <1>1, <1>2, <1>3 DEF ByHand

\* The forge accepts a repository from the bot only in an organization it has.
LEMMA MayCreateRepoInOrg ==
    ASSUME WellFormedForge, NEW r \in Repos, MayCreateRepo(r) \/ MayMigrateRepo(r)
    PROVE  OrgOf[r] \in orgs /\ r \notin repos
BY OrgOfAssumption DEF WellFormedForge, MayCreateRepo, MayMigrateRepo

LEMMA ExecuteIntegrity ==
    ASSUME TypeOK, WellFormedForge, NEW p \in Ops, Execute(p)
    PROVE  WellFormedForge'
<1> USE DEF TypeOK
<1>1. ASSUME NEW o \in DeclOrgs, PostOrg(p, o) \/ GetTeam(p, o)
      PROVE  WellFormedForge'
  BY <1>1, OrgWriteIntegrity, IntegrityUnchanged, DeclarationAssumption
     DEF PostOrg, GetTeam, Call, Rejected, TeamStates
<1>2. CASE PostTeam(p) \/ RegetTeam(p) \/ PatchTeam(p) \/ CheckTeam(p) \/ PutMember(p)
  <2>1. at[p] \in Orgs
    BY <1>2, DeclarationAssumption
       DEF PostTeam, RegetTeam, PatchTeam, CheckTeam, PutMember, InMidst, AtFits, TeamMidst
  <2>2. \/ \E t \in TeamStates :
              \/ MayCreateTeam(at[p]) /\ WriteTeam(at[p], t)
              \/ MayWriteTeam(at[p]) /\ t # "absent" /\ WriteTeam(at[p], t)
        \/ MayWriteTeam(at[p]) /\ AddTeamMember(at[p])
        \/ UNCHANGED forge
    BY <1>2, RunAssumption
       DEF PostTeam, RegetTeam, PatchTeam, CheckTeam, PutMember, Call, Rejected, TeamStates
  <2> QED
    BY <2>1, <2>2, OrgWriteIntegrity, IntegrityUnchanged DEF TeamStates
<1>3. ASSUME NEW r \in DeclRepos,
             \/ PostRepo(p, r)
             \/ PostMigration(p, r)
             \/ PatchRepo(p, r)
      PROVE  WellFormedForge'
  <2>1. \/ (MayCreateRepo(r) \/ MayMigrateRepo(r)) /\ CreateRepo(r, r \in DeclPrivate)
        \/ (MayCreateRepo(r) \/ MayMigrateRepo(r)) /\ MigrateRepo(r, r \in DeclPrivate)
        \/ r \in repos /\ (EditRepo(r, TRUE) \/ EditRepo(r, FALSE))
        \/ UNCHANGED forge
    BY <1>3 DEF PostRepo, PostMigration, PatchRepo, Call, Rejected
  <2> DEFINE b == r \in DeclPrivate
  <2>2. r \in Repos
    BY DeclarationAssumption
  <2>3. CASE \/ (MayCreateRepo(r) \/ MayMigrateRepo(r)) /\ CreateRepo(r, b)
             \/ (MayCreateRepo(r) \/ MayMigrateRepo(r)) /\ MigrateRepo(r, b)
    <3> HIDE DEF b
    <3> QED
      BY <2>2, <2>3, MayCreateRepoInOrg, RepoWriteIntegrity
  <2>4. CASE r \in repos /\ (EditRepo(r, TRUE) \/ EditRepo(r, FALSE))
    BY <2>2, <2>4, RepoWriteIntegrity
  <2> QED
    BY <2>1, <2>3, <2>4, IntegrityUnchanged
<1>4. ASSUME NEW r \in DeclRepos, SendHook(p, r)
      PROVE  WellFormedForge'
  <2>1. \/ r \in repos /\ (CreateHook(r, TRUE) \/ CreateHook(r, FALSE))
        \/ \E id \in {view[p].hook[r].id} : MayEditHook(r, id) /\ EditHook(r, id)
        \/ UNCHANGED forge
    BY <1>4 DEF SendHook, MayWriteHook, WriteHook, HookWrittenAmiss, Rejected
  <2> QED
    BY <2>1, HookWriteIntegrity, IntegrityUnchanged, DeclarationAssumption
<1>5. CASE \/ CheckRepo(p) \/ CheckHook(p)
           \/ \E r \in DeclRepos : MigrationWithoutToken(p, r) \/ HookWithoutSecret(p, r)
  BY <1>5, IntegrityUnchanged
     DEF CheckRepo, CheckHook, Verified, MigrationWithoutToken, HookWithoutSecret
<1> QED
  BY <1>1, <1>2, <1>3, <1>4, <1>5 DEF Execute, EnsureTeam

\* Nothing on the forge outlives what it belongs to: no repository without its
\* organization, no setting, content or webhook without its repository, no team
\* without its organization and no member without its team.
THEOREM IntegrityKept == Spec => []WellFormedForge
<1>1. Init => WellFormedForge
  BY DEF Init
<1>2. TypeOK /\ WellFormedForge /\ [Next]_vars => WellFormedForge'
  <2> SUFFICES ASSUME TypeOK, WellFormedForge, [Next]_vars
               PROVE  WellFormedForge'
    OBVIOUS
  <2>1. ASSUME NEW p \in Ops,
               \/ Start(p) \/ Read(p) \/ EndPass(p)
               \/ ReportMatch(p) \/ PlanOnly(p) \/ ApplySome(p)
               \/ \E r \in Repos : ReadShell(p, r)
        PROVE  WellFormedForge'
    BY <2>1, IntegrityUnchanged
       DEF Start, Read, EndPass, ReportMatch, PlanOnly, ApplySome, Apply, Deciding, Reads,
           ListOrgs, ListRepos, ReadTeam, ReadRepo, ReadHooks, ReadFails, ReadShell
  <2>2. ASSUME NEW p \in Ops, DropShell(p)
        PROVE  WellFormedForge'
    BY <2>2, IntegrityUnchanged, RepoWriteIntegrity, DeclarationAssumption
       DEF DropShell, Rejected, InMidst, TypeOK, AtFits, RepoMidst
  <2>3. CASE EditByHand \/ Import
    BY <2>3, ByHandIntegrity, RepoWriteIntegrity DEF EditByHand, Import, TypeOK
  <2>4. CASE UNCHANGED vars
    BY <2>4, IntegrityUnchanged DEF vars
  <2> QED
    BY <2>1, <2>2, <2>3, <2>4, ExecuteIntegrity DEF Next, Run, DropEmpty
<1> QED
  BY <1>1, <1>2, TypeCorrect, PTL DEF Spec

----------------------------------------------------------------------------
(* The inventory.                                                          *)

inventory == <<orgs, repos, private, edits>>

\* What ForgeInventory allows a step, by the variables it has.
LEMMA InventoryMoves ==
    ASSUME \/ UNCHANGED inventory
           \/ \E o \in DeclOrgs : Inventory!AddOrg(o)
           \/ \E r \in DeclRepos : Inventory!AddRepo(r) \/ Inventory!DropRepo(r)
           \/ Inventory!ByHand
    PROVE  [Inventory!Next]_(Inventory!vars)
BY DEF Inventory!Next, Inventory!vars, inventory

LEMMA ExecuteKeepsInventory ==
    ASSUME TypeOK, WellFormedForge, NEW p \in Ops, Execute(p)
    PROVE  [Inventory!Next]_(Inventory!vars)
<1>1. ASSUME NEW o \in DeclOrgs, PostOrg(p, o)
      PROVE  UNCHANGED inventory \/ Inventory!AddOrg(o)
  BY <1>1 DEF PostOrg, Call, Rejected, MayCreateOrg, CreateOrg, repoPart, forge, inventory,
              Inventory!AddOrg
<1>2. ASSUME NEW r \in DeclRepos, PostRepo(p, r) \/ PostMigration(p, r)
      PROVE  UNCHANGED inventory \/ Inventory!AddRepo(r)
  <2>1. \/ UNCHANGED inventory
        \/ /\ MayCreateRepo(r) \/ MayMigrateRepo(r)
           /\ repos' = repos \cup {r}
           /\ private' = IF r \in DeclPrivate THEN private \cup {r} ELSE private
           /\ UNCHANGED <<orgs, edits>>
    BY <1>2 DEF PostRepo, PostMigration, Call, Rejected, CreateRepo, MigrateRepo,
                orgPart, forge, inventory
  <2>2. r \in Repos
    BY DeclarationAssumption
  <2>3. MayCreateRepo(r) \/ MayMigrateRepo(r) => OrgOf[r] \in orgs /\ r \notin repos
    BY <2>2, MayCreateRepoInOrg
  <2>4. (IF r \in DeclPrivate THEN private \cup {r} ELSE private)
           = private \cup ({r} \cap DeclPrivate)
    OBVIOUS
  <2> QED
    BY <2>1, <2>3, <2>4 DEF Inventory!AddRepo
<1>3. ASSUME NEW r \in DeclRepos, PatchRepo(p, r) \/ SendHook(p, r)
      PROVE  UNCHANGED inventory
  BY <1>3 DEF PatchRepo, SendHook, WriteHook, HookWrittenAmiss, Rejected, EditRepo, CreateHook,
              EditHook, orgPart, repoPart, hookPart, forge, inventory
<1>4. CASE \/ EnsureTeam(p) \/ CheckRepo(p) \/ CheckHook(p)
           \/ \E r \in DeclRepos : MigrationWithoutToken(p, r) \/ HookWithoutSecret(p, r)
  <2>1. UNCHANGED inventory
    BY <1>4 DEF EnsureTeam, GetTeam, PostTeam, RegetTeam, PatchTeam, CheckTeam, PutMember,
                CheckRepo, CheckHook, Verified, MigrationWithoutToken, HookWithoutSecret,
                Call, Rejected, InMidst, WriteTeam, AddTeamMember, repoPart, forge, inventory
  <2> QED
    BY <2>1, InventoryMoves
<1> QED
  BY <1>1, <1>2, <1>3, <1>4, InventoryMoves DEF Execute

\* The reconciler and drop-empty implement ForgeInventory: whatever fails and
\* whoever else is at work, they add only what is declared and missing, with
\* the declared visibility, into an organization that exists; they remove only
\* a declared repository; and what is not declared is left alone.
THEOREM InventoryImplemented == Spec => InventoryKept
<1>1. Init => Inventory!Init
  BY RunAssumption DEF Init, Inventory!Init, ForgeTypeOK, WellFormedForge
<1>2. TypeOK /\ WellFormedForge /\ TypeOK' /\ WellFormedForge' /\ [Next]_vars
         => [Inventory!Next]_(Inventory!vars)
  <2> SUFFICES ASSUME TypeOK, WellFormedForge, TypeOK', WellFormedForge', [Next]_vars
               PROVE  [Inventory!Next]_(Inventory!vars)
    OBVIOUS
  <2>1. ASSUME NEW p \in Ops,
               \/ Start(p) \/ Read(p) \/ EndPass(p)
               \/ ReportMatch(p) \/ PlanOnly(p) \/ ApplySome(p)
        PROVE  UNCHANGED inventory
    BY <2>1 DEF Start, Read, EndPass, ReportMatch, PlanOnly, ApplySome, Apply, Deciding, Reads,
                ListOrgs, ListRepos, ReadTeam, ReadRepo, ReadHooks, ReadFails, forge, inventory
  <2>2. ASSUME NEW p \in Ops, NEW r \in Repos, ReadShell(p, r)
        PROVE  Inventory!ByHand
    BY <2>2 DEF ReadShell, forge, Inventory!ByHand, TypeOK, ForgeTypeOK, WellFormedForge
  <2>3. ASSUME NEW p \in Ops, DropShell(p)
        PROVE  UNCHANGED inventory \/ Inventory!DropRepo(at[p])
    BY <2>3 DEF DropShell, InMidst, Rejected, DeleteRepo, orgPart, forge, inventory,
                TypeOK, AtFits, RepoMidst, Inventory!DropRepo
  <2>4. ASSUME NEW p \in Ops, DropShell(p)
        PROVE  at[p] \in DeclRepos
    BY <2>4 DEF DropShell, InMidst, TypeOK, AtFits, RepoMidst
  <2>5. CASE EditByHand
    <3>1. orgs \subseteq orgs'
      BY <2>5 DEF EditByHand, ByHand, CreateOrgByHand, CreateOrg, NarrowTeam, WriteTeam,
                  RemoveMember, CreateRepoByHand, CreateRepo, DeleteRepoByHand, DeleteRepo, Push,
                  FlipVisibility, ResetSettings, BreakHook, DeleteHook, orgPart
    <3>2. Inventory!ByHand
      BY <2>5, <3>1 DEF EditByHand, Inventory!ByHand, TypeOK, ForgeTypeOK, WellFormedForge
    <3> QED
      BY <3>2, InventoryMoves
  <2>6. CASE Import
    <3>1. UNCHANGED inventory
      BY <2>6 DEF Import, ImportArrives, orgPart, inventory
    <3> QED
      BY <3>1, InventoryMoves
  <2>7. CASE UNCHANGED vars
    <3>1. UNCHANGED inventory
      BY <2>7 DEF vars, forge, inventory
    <3> QED
      BY <3>1, InventoryMoves
  <2> QED
    BY <2>1, <2>2, <2>3, <2>4, <2>5, <2>6, <2>7, ExecuteKeepsInventory, InventoryMoves
       DEF Next, Run, DropEmpty
<1> QED
  BY <1>1, <1>2, TypeCorrect, IntegrityKept, PTL
     DEF Spec, InventoryKept, Inventory!Spec

-----------------------------------------------------------------------------
(***************************************************************************)
(* The ExecutionReport of a run is exact at every moment, for every forge, *)
(* declaration, number of operators, failures and edits; from that follow  *)
(* that a run accounts for everything it planned and reports every root    *)
(* cause once.                                                             *)
(*                                                                         *)
(* That part is about one operator at a time: what another operator does   *)
(* to the forge may make this one's calls fail, never its report inexact.  *)
(*                                                                         *)
(* The second part is about what the report and the plan say of the forge. *)
(* As long as nobody else has touched the forge since a run began, what    *)
(* the run has read and done agrees with it (ViewsAreSure): so no call it  *)
(* has left is doomed, and what it says at the end is so.  The third part  *)
(* counts webhooks.                                                        *)
(***************************************************************************)

Fits(p) == LeftFits(p) /\ ReportFits(p)

\* The state of one operator that Fits speaks of.
Same(p) ==
    /\ pc'[p] = pc[p] /\ view'[p] = view[p] /\ todo'[p] = todo[p] /\ at'[p] = at[p]
    /\ done'[p] = done[p] /\ failed'[p] = failed[p]

\* The work of each pass in the terms execute computes it in.
OrgFailed(p) == {o \in Orgs : <<"org", o>> \in failed[p]}

WorkAs(p) ==
    /\ Work(p, 1) = OrgsToCreate(view[p])
    /\ Work(p, 2) = TeamsToEnsure(view[p]) \ OrgFailed(p)
    /\ Work(p, 3) = InPreparedOrg(p, ReposToCreate(view[p]))
    /\ Work(p, 4) = InPreparedOrg(p, ReposToMigrate(view[p]))
    /\ Work(p, 5) = ReposToConfigure(view[p]) \ FailedRepos(p)
    /\ Work(p, 6) = ReposToHook(view[p]) \ FailedRepos(p)

LEMMA Kinds ==
    /\ KindOf[1] = "org"  /\ KindOf[2] = "team"     /\ KindOf[3] = "repo"
    /\ KindOf[4] = "repo" /\ KindOf[5] = "settings" /\ KindOf[6] = "hook"
BY DEF KindOf

LEMMA PlanForForms ==
    ASSUME NEW v
    PROVE  /\ PlanFor(v, 1) = OrgsToCreate(v)      /\ PlanFor(v, 2) = TeamsToEnsure(v)
           /\ PlanFor(v, 3) = ReposToCreate(v)     /\ PlanFor(v, 4) = ReposToMigrate(v)
           /\ PlanFor(v, 5) = ReposToConfigure(v)  /\ PlanFor(v, 6) = ReposToHook(v)
BY DEF PlanFor

LEMMA QuarantinedOrgs ==
    ASSUME NEW p \in Ops, NEW x
    PROVE  /\ <<"org", x>> \notin Quarantined(p)
           /\ <<"team", x>> \in Quarantined(p) <=> x \in OrgFailed(p)
           /\ <<"org", x>> \notin Quarantined(p)'
           /\ <<"team", x>> \in Quarantined(p)' <=> x \in OrgFailed(p)'
BY DEF Quarantined, OrgFailed

LEMMA QuarantinedRepos ==
    ASSUME NEW p \in Ops, NEW r \in DeclRepos
    PROVE  /\ r \in Missing(view[p]) =>
                (<<"repo", r>> \in Quarantined(p) <=> OrgOf[r] \in FailedOrgs(p))
           /\ <<"settings", r>> \in Quarantined(p) <=> r \in FailedRepos(p)
           /\ <<"hook", r>> \in Quarantined(p) <=> r \in FailedRepos(p)
           /\ r \in Missing(view'[p]) =>
                (<<"repo", r>> \in Quarantined(p)' <=> OrgOf[r] \in FailedOrgs(p)')
           /\ <<"settings", r>> \in Quarantined(p)' <=> r \in FailedRepos(p)'
           /\ <<"hook", r>> \in Quarantined(p)' <=> r \in FailedRepos(p)'
<1>1. r \in Repos /\ OrgOf[r] \in Orgs
  BY DeclarationAssumption, OrgOfAssumption
<1>2. /\ OrgOf[r] \in FailedOrgs(p)
             <=> <<"org", OrgOf[r]>> \in failed[p] \/ <<"team", OrgOf[r]>> \in failed[p]
      /\ OrgOf[r] \in FailedOrgs(p)'
             <=> <<"org", OrgOf[r]>> \in failed'[p] \/ <<"team", OrgOf[r]>> \in failed'[p]
  BY <1>1 DEF FailedOrgs
<1> QED
  BY <1>1, <1>2 DEF Quarantined, FailedRepos

LEMMA WorkForms ==
    ASSUME NEW p \in Ops
    PROVE  WorkAs(p) /\ WorkAs(p)'
<1>1. \A v : /\ ReposToCreate(v) \subseteq Missing(v)
             /\ ReposToMigrate(v) \subseteq Missing(v)
             /\ Missing(v) \cup ReposToConfigure(v) \cup ReposToHook(v) \subseteq DeclRepos
  BY DEF ReposToCreate, ReposToMigrate, Missing, ReposToConfigure, SettingsNeedConvergence, ReposToHook, WebhookNeedsConvergence
<1>2. /\ PlanFor(view[p], 1)' = OrgsToCreate(view'[p])
      /\ PlanFor(view[p], 2)' = TeamsToEnsure(view'[p])
      /\ PlanFor(view[p], 3)' = ReposToCreate(view'[p])
      /\ PlanFor(view[p], 4)' = ReposToMigrate(view'[p])
      /\ PlanFor(view[p], 5)' = ReposToConfigure(view'[p])
      /\ PlanFor(view[p], 6)' = ReposToHook(view'[p])
  BY PlanForForms
<1>3. /\ Work(p, 1) = OrgsToCreate(view[p])
      /\ Work(p, 1)' = OrgsToCreate(view'[p])
  BY <1>2, QuarantinedOrgs, PlanForForms, Kinds DEF Work
<1>4. /\ Work(p, 2) = TeamsToEnsure(view[p]) \ OrgFailed(p)
      /\ Work(p, 2)' = TeamsToEnsure(view'[p]) \ OrgFailed(p)'
  BY <1>2, QuarantinedOrgs, PlanForForms, Kinds DEF Work
<1>5. /\ Work(p, 3) = InPreparedOrg(p, ReposToCreate(view[p]))
      /\ Work(p, 3)' = InPreparedOrg(p, ReposToCreate(view[p]))'
  BY <1>1, <1>2, QuarantinedRepos, PlanForForms, Kinds DEF Work, InPreparedOrg
<1>6. /\ Work(p, 4) = InPreparedOrg(p, ReposToMigrate(view[p]))
      /\ Work(p, 4)' = InPreparedOrg(p, ReposToMigrate(view[p]))'
  BY <1>1, <1>2, QuarantinedRepos, PlanForForms, Kinds DEF Work, InPreparedOrg
<1>7. /\ Work(p, 5) = ReposToConfigure(view[p]) \ FailedRepos(p)
      /\ Work(p, 5)' = ReposToConfigure(view'[p]) \ FailedRepos(p)'
  <2>1. Work(p, 5) = {x \in ReposToConfigure(view[p]) : <<"settings", x>> \notin Quarantined(p)}
    BY PlanForForms, Kinds DEF Work
  <2>2. Work(p, 5)' = {x \in ReposToConfigure(view'[p]) : <<"settings", x>> \notin Quarantined(p)'}
    BY <1>2, Kinds DEF Work
  <2>3. ASSUME NEW x \in ReposToConfigure(view[p])
        PROVE  <<"settings", x>> \in Quarantined(p) <=> x \in FailedRepos(p)
    <3>1. x \in DeclRepos
      BY DEF ReposToConfigure, SettingsNeedConvergence
    <3> QED
      BY <3>1, QuarantinedRepos
  <2>4. ASSUME NEW x \in ReposToConfigure(view'[p])
        PROVE  <<"settings", x>> \in Quarantined(p)' <=> x \in FailedRepos(p)'
    <3>1. x \in DeclRepos
      BY DEF ReposToConfigure, SettingsNeedConvergence
    <3> QED
      BY <3>1, QuarantinedRepos
  <2>5. Work(p, 5) = ReposToConfigure(view[p]) \ FailedRepos(p)
    BY <2>1, <2>3
  <2>6. Work(p, 5)' = ReposToConfigure(view'[p]) \ FailedRepos(p)'
    BY <2>2, <2>4
  <2> QED
    BY <2>5, <2>6
<1>8. /\ Work(p, 6) = ReposToHook(view[p]) \ FailedRepos(p)
      /\ Work(p, 6)' = ReposToHook(view'[p]) \ FailedRepos(p)'
  <2>1. Work(p, 6) = {x \in ReposToHook(view[p]) : <<"hook", x>> \notin Quarantined(p)}
    BY PlanForForms, Kinds DEF Work
  <2>2. Work(p, 6)' = {x \in ReposToHook(view'[p]) : <<"hook", x>> \notin Quarantined(p)'}
    BY <1>2, Kinds DEF Work
  <2>3. ASSUME NEW x \in ReposToHook(view[p])
        PROVE  <<"hook", x>> \in Quarantined(p) <=> x \in FailedRepos(p)
    <3>1. x \in DeclRepos
      BY DEF ReposToHook, WebhookNeedsConvergence
    <3> QED
      BY <3>1, QuarantinedRepos
  <2>4. ASSUME NEW x \in ReposToHook(view'[p])
        PROVE  <<"hook", x>> \in Quarantined(p)' <=> x \in FailedRepos(p)'
    <3>1. x \in DeclRepos
      BY DEF ReposToHook, WebhookNeedsConvergence
    <3> QED
      BY <3>1, QuarantinedRepos
  <2>5. Work(p, 6) = ReposToHook(view[p]) \ FailedRepos(p)
    BY <2>1, <2>3
  <2>6. Work(p, 6)' = ReposToHook(view'[p]) \ FailedRepos(p)'
    BY <2>2, <2>4
  <2> QED
    BY <2>5, <2>6
<1> QED
  BY <1>3, <1>4, <1>5, <1>6, <1>7, <1>8 DEF WorkAs, InPreparedOrg

LEMMA WorkStays ==
    ASSUME NEW p \in Ops, view'[p] = view[p]
    PROVE  /\ Work(p, 1)' = Work(p, 1)
           /\ OrgFailed(p)' = OrgFailed(p) => Work(p, 2)' = Work(p, 2)
           /\ FailedOrgs(p)' = FailedOrgs(p) => Work(p, 3)' = Work(p, 3) /\ Work(p, 4)' = Work(p, 4)
           /\ FailedRepos(p)' = FailedRepos(p) => Work(p, 5)' = Work(p, 5) /\ Work(p, 6)' = Work(p, 6)
<1>1. WorkAs(p) /\ WorkAs(p)'
  BY WorkForms
<1>2. /\ Work(p, 1)' = Work(p, 1)
      /\ OrgFailed(p)' = OrgFailed(p) => Work(p, 2)' = Work(p, 2)
  BY <1>1 DEF WorkAs
<1>3. FailedOrgs(p)' = FailedOrgs(p) => Work(p, 3)' = Work(p, 3) /\ Work(p, 4)' = Work(p, 4)
  BY <1>1 DEF WorkAs, InPreparedOrg
<1>4. FailedRepos(p)' = FailedRepos(p) => Work(p, 5)' = Work(p, 5) /\ Work(p, 6)' = Work(p, 6)
  BY <1>1 DEF WorkAs
<1> QED
  BY <1>2, <1>3, <1>4

LEMMA PassNumberType == \A l : PassNumber(l) \in 0..7
BY DEF PassNumber

LEMMA SameFits ==
    ASSUME NEW p \in Ops, Fits(p), Same(p)
    PROVE  Fits(p)'
<1>1. /\ Left(p)' = Left(p)
      /\ OrgFailed(p)' = OrgFailed(p)
      /\ FailedOrgs(p)' = FailedOrgs(p)
      /\ \A kind : Reported(p, kind)' = Reported(p, kind)
  BY DEF Same, Left, OrgFailed, FailedOrgs, Reported
<1>2. FailedRepos(p)' = FailedRepos(p)
  BY <1>1 DEF Same, FailedRepos
<1>3. \A k \in 1..6 : Work(p, k)' = Work(p, k)
  <2>1. view'[p] = view[p]
    BY DEF Same
  <2> QED
    BY <2>1, <1>1, <1>2, WorkStays
<1>4. \A k \in 1..6 : Upto(p, k, Work(p, k))' = Upto(p, k, Work(p, k))
  BY <1>1, <1>3 DEF Same, Upto
<1>5. LeftFits(p)'
  BY <1>1, <1>3 DEF Fits, Same, LeftFits
<1>6. ReportFits(p)'
  BY <1>1, <1>4 DEF Fits, Same, ReportFits
<1> QED
  BY <1>5, <1>6 DEF Fits

\* Outside the passes nothing is reported and nothing is left.
LEMMA BlankFits ==
    ASSUME NEW p \in Ops,
           PassNumber(pc'[p]) = 0, pc'[p] \in Midst => at'[p] \notin todo'[p],
           pc'[p] \notin {"readTeams", "readRepos", "readHooks"} => todo'[p] = {},
           done'[p] = {}, failed'[p] = {}
    PROVE  Fits(p)'
<1>1. \A kind : Reported(p, kind)' = {}
  BY DEF Reported
<1>2. \A k \in 1..6 : \A work : Upto(p, k, work)' = {}
  BY DEF Upto
<1>3. LeftFits(p)'
  BY DEF LeftFits
<1>4. ReportFits(p)'
  BY <1>1, <1>2 DEF ReportFits
<1> QED
  BY <1>3, <1>4 DEF Fits

LEMMA NothingReported ==
    ASSUME TypeOK, NEW p \in Ops, Fits(p), PassNumber(pc[p]) = 0
    PROVE  done[p] = {} /\ failed[p] = {}
<1>1. \A k \in 1..6 : \A work : Upto(p, k, work) = {}
  BY DEF Upto
<1>2. \A kind \in {"org", "team", "repo", "settings", "hook"} : Reported(p, kind) = {}
  BY <1>1 DEF Fits, ReportFits
<1>3. ASSUME NEW t \in done[p] \cup failed[p]
      PROVE  FALSE
  <2>1. t \in Targets
    BY <1>3 DEF TypeOK
  <2>2. PICK kind \in {"org", "team", "repo", "settings", "hook"}, x \in Orgs \cup Repos :
           t = <<kind, x>>
    BY <2>1 DEF Targets
  <2>3. x \in Reported(p, kind)
    BY <1>3, <2>2 DEF Reported
  <2> QED
    BY <1>2, <2>3
<1> QED
  BY <1>3

\* A step inside a pass that reports nothing and leaves as much as there was.
LEMMA PendingFits ==
    ASSUME NEW p \in Ops, Fits(p), NEW k \in 1..6,
           PassNumber(pc[p]) = k, PassNumber(pc'[p]) = k,
           view'[p] = view[p], done'[p] = done[p], failed'[p] = failed[p],
           Left(p)' = Left(p), pc'[p] \in Midst => at'[p] \notin todo'[p]
    PROVE  Fits(p)'
<1>1. /\ OrgFailed(p)' = OrgFailed(p)
      /\ FailedOrgs(p)' = FailedOrgs(p)
      /\ \A kind : Reported(p, kind)' = Reported(p, kind)
  BY DEF OrgFailed, FailedOrgs, Reported
<1>2. FailedRepos(p)' = FailedRepos(p)
  BY <1>1 DEF FailedRepos
<1>3. \A j \in 1..6 : Work(p, j)' = Work(p, j)
  BY <1>1, <1>2, WorkStays
<1>4. \A j \in 1..6 : Upto(p, j, Work(p, j))' = Upto(p, j, Work(p, j))
  BY <1>1, <1>3 DEF Upto
<1>5. LeftFits(p)'
  BY <1>1, <1>3 DEF Fits, LeftFits
<1>6. ReportFits(p)'
  BY <1>1, <1>4 DEF Fits, ReportFits
<1> QED
  BY <1>5, <1>6 DEF Fits

\* A failure in one pass takes nothing from that pass and those before it.
LEMMA WorkStands ==
    ASSUME NEW p \in Ops, NEW k \in 1..6, NEW x,
           view'[p] = view[p],
           failed'[p] \in {failed[p], failed[p] \cup {<<KindOf[k], x>>}}
    PROVE  \A j \in 1..k : Work(p, j)' = Work(p, j)
<1>1. Work(p, 1)' = Work(p, 1)
  BY WorkStays
<1>2. k >= 2 => OrgFailed(p)' = OrgFailed(p)
  BY DEF OrgFailed, KindOf
<1>3. k >= 3 => FailedOrgs(p)' = FailedOrgs(p)
  BY DEF FailedOrgs, KindOf
<1>4. k >= 5 => FailedRepos(p)' = FailedRepos(p)
  BY <1>3 DEF FailedRepos, KindOf
<1>5. k >= 2 => Work(p, 2)' = Work(p, 2)
  BY <1>2, WorkStays
<1>6. k >= 3 => Work(p, 3)' = Work(p, 3) /\ Work(p, 4)' = Work(p, 4)
  BY <1>3, WorkStays
<1>7. k >= 5 => Work(p, 5)' = Work(p, 5) /\ Work(p, 6)' = Work(p, 6)
  BY <1>4, WorkStays
<1> QED
  BY <1>1, <1>5, <1>6, <1>7

\* A step inside the k-th pass that decides one of the targets left.
LEMMA DecidedFits ==
    ASSUME TypeOK, NEW p \in Ops, Fits(p), NEW k \in 1..6, NEW x \in Left(p),
           PassNumber(pc[p]) = k, PassNumber(pc'[p]) = k, pc'[p] \notin Midst,
           view'[p] = view[p], Left(p)' = Left(p) \ {x},
           Succeed(p, <<KindOf[k], x>>) \/ Fail(p, <<KindOf[k], x>>)
    PROVE  Fits(p)'
<1> DEFINE t == <<KindOf[k], x>>
<1>1. x \in Work(p, k) /\ Left(p) \subseteq Work(p, k)
  BY DEF Fits, LeftFits
<1>2. x \in Orgs \cup Repos
  <2>1. todo[p] \subseteq Orgs \cup Repos
    BY DEF TypeOK
  <2>2. pc[p] \in Midst => at[p] \in Orgs \cup Repos
    BY DeclarationAssumption DEF TypeOK, AtFits, Midst
  <2> QED
    BY <2>1, <2>2 DEF Left
<1>3. /\ done'[p] \cup failed'[p] = done[p] \cup failed[p] \cup {t}
      /\ done'[p] \in {done[p], done[p] \cup {t}}
      /\ failed'[p] \in {failed[p], failed[p] \cup {t}}
      /\ done'[p] = done[p] \/ failed'[p] = failed[p]
  BY DEF TypeOK, Succeed, Fail
<1>4. /\ Reported(p, KindOf[k])' = Reported(p, KindOf[k]) \cup {x}
      /\ \A kind : kind # KindOf[k] => Reported(p, kind)' = Reported(p, kind)
  BY <1>2, <1>3 DEF Reported
<1>5. \A j \in 1..k : Work(p, j)' = Work(p, j)
  BY <1>3, WorkStands
<1>6. Upto(p, k, Work(p, k))' = Upto(p, k, Work(p, k)) \cup {x}
  BY <1>1, <1>5 DEF Upto
<1>7. \A j \in 1..6 : j # k => Upto(p, j, Work(p, j))' = Upto(p, j, Work(p, j))
  BY <1>5 DEF Upto
<1>8. x \notin Upto(p, k, Work(p, k))
  BY DEF Upto
<1>9. t \notin done[p] \cup failed[p]
  <2>1. CASE k \notin {3, 4}
    <3>1. Reported(p, KindOf[k]) = Upto(p, k, Work(p, k))
      BY <2>1 DEF Fits, ReportFits, KindOf
    <3> QED
      BY <1>2, <1>8, <3>1 DEF Reported
  <2>2. CASE k \in {3, 4}
    <3>1. Reported(p, KindOf[k]) = Upto(p, 3, Work(p, 3)) \cup Upto(p, 4, Work(p, 4))
      BY <2>2 DEF Fits, ReportFits, KindOf
    <3>2. Work(p, 3) \cap Work(p, 4) = {}
      BY WorkForms DEF WorkAs, InPreparedOrg, ReposToCreate, ReposToMigrate
    <3>3. x \notin Upto(p, 3, Work(p, 3)) \cup Upto(p, 4, Work(p, 4))
      BY <1>1, <2>2, <3>2 DEF Upto
    <3> QED
      BY <1>2, <3>1, <3>3 DEF Reported
  <2> QED
    BY <2>1, <2>2
<1>10. LeftFits(p)'
  BY <1>1, <1>5 DEF LeftFits
<1>11. ReportFits(p)'
  <2>1. (done[p] \cap failed[p])' = {}
    BY <1>3, <1>9 DEF Fits, ReportFits
  <2>2. CASE k = 1
    <3>1. /\ Reported(p, "org")' = Reported(p, "org") \cup {x}
          /\ Reported(p, "team")' = Reported(p, "team")
          /\ Reported(p, "repo")' = Reported(p, "repo")
          /\ Reported(p, "settings")' = Reported(p, "settings")
          /\ Reported(p, "hook")' = Reported(p, "hook")
      BY <2>2, <1>4 DEF KindOf
    <3>2. /\ Upto(p, 1, Work(p, 1))' = Upto(p, 1, Work(p, 1)) \cup {x}
          /\ Upto(p, 2, Work(p, 2))' = Upto(p, 2, Work(p, 2))
          /\ Upto(p, 3, Work(p, 3))' = Upto(p, 3, Work(p, 3))
          /\ Upto(p, 4, Work(p, 4))' = Upto(p, 4, Work(p, 4))
          /\ Upto(p, 5, Work(p, 5))' = Upto(p, 5, Work(p, 5))
          /\ Upto(p, 6, Work(p, 6))' = Upto(p, 6, Work(p, 6))
      BY <2>2, <1>6, <1>7
    <3>3. ReportFits(p)
      BY DEF Fits
    <3> QED
      BY <2>1, <3>1, <3>2, <3>3 DEF ReportFits
  <2>3. CASE k = 2
    <3>1. /\ Reported(p, "team")' = Reported(p, "team") \cup {x}
          /\ Reported(p, "org")' = Reported(p, "org")
          /\ Reported(p, "repo")' = Reported(p, "repo")
          /\ Reported(p, "settings")' = Reported(p, "settings")
          /\ Reported(p, "hook")' = Reported(p, "hook")
      BY <2>3, <1>4 DEF KindOf
    <3>2. /\ Upto(p, 1, Work(p, 1))' = Upto(p, 1, Work(p, 1))
          /\ Upto(p, 2, Work(p, 2))' = Upto(p, 2, Work(p, 2)) \cup {x}
          /\ Upto(p, 3, Work(p, 3))' = Upto(p, 3, Work(p, 3))
          /\ Upto(p, 4, Work(p, 4))' = Upto(p, 4, Work(p, 4))
          /\ Upto(p, 5, Work(p, 5))' = Upto(p, 5, Work(p, 5))
          /\ Upto(p, 6, Work(p, 6))' = Upto(p, 6, Work(p, 6))
      BY <2>3, <1>6, <1>7
    <3>3. ReportFits(p)
      BY DEF Fits
    <3> QED
      BY <2>1, <3>1, <3>2, <3>3 DEF ReportFits
  <2>4. CASE k \in {3, 4}
    <3>1. (Upto(p, 3, Work(p, 3)) \cup Upto(p, 4, Work(p, 4)))'
             = Upto(p, 3, Work(p, 3)) \cup Upto(p, 4, Work(p, 4)) \cup {x}
      BY <2>4, <1>6, <1>7
    <3>2. KindOf[k] = "repo"
      BY <2>4 DEF KindOf
    <3>3. /\ Reported(p, "repo")' = Reported(p, "repo") \cup {x}
          /\ Reported(p, "org")' = Reported(p, "org")
          /\ Reported(p, "team")' = Reported(p, "team")
          /\ Reported(p, "settings")' = Reported(p, "settings")
          /\ Reported(p, "hook")' = Reported(p, "hook")
      BY <1>4, <3>2
    <3>4. /\ Upto(p, 1, Work(p, 1))' = Upto(p, 1, Work(p, 1))
          /\ Upto(p, 2, Work(p, 2))' = Upto(p, 2, Work(p, 2))
          /\ Upto(p, 5, Work(p, 5))' = Upto(p, 5, Work(p, 5))
          /\ Upto(p, 6, Work(p, 6))' = Upto(p, 6, Work(p, 6))
      BY <2>4, <1>7
    <3>5. ReportFits(p)
      BY DEF Fits
    <3> QED
      BY <2>1, <3>1, <3>3, <3>4, <3>5 DEF ReportFits
  <2>5. CASE k = 5
    <3>1. /\ Reported(p, "settings")' = Reported(p, "settings") \cup {x}
          /\ Reported(p, "org")' = Reported(p, "org")
          /\ Reported(p, "team")' = Reported(p, "team")
          /\ Reported(p, "repo")' = Reported(p, "repo")
          /\ Reported(p, "hook")' = Reported(p, "hook")
      BY <2>5, <1>4 DEF KindOf
    <3>2. /\ Upto(p, 1, Work(p, 1))' = Upto(p, 1, Work(p, 1))
          /\ Upto(p, 2, Work(p, 2))' = Upto(p, 2, Work(p, 2))
          /\ Upto(p, 3, Work(p, 3))' = Upto(p, 3, Work(p, 3))
          /\ Upto(p, 4, Work(p, 4))' = Upto(p, 4, Work(p, 4))
          /\ Upto(p, 5, Work(p, 5))' = Upto(p, 5, Work(p, 5)) \cup {x}
          /\ Upto(p, 6, Work(p, 6))' = Upto(p, 6, Work(p, 6))
      BY <2>5, <1>6, <1>7
    <3>3. ReportFits(p)
      BY DEF Fits
    <3> QED
      BY <2>1, <3>1, <3>2, <3>3 DEF ReportFits
  <2>6. CASE k = 6
    <3>1. /\ Reported(p, "hook")' = Reported(p, "hook") \cup {x}
          /\ Reported(p, "org")' = Reported(p, "org")
          /\ Reported(p, "team")' = Reported(p, "team")
          /\ Reported(p, "repo")' = Reported(p, "repo")
          /\ Reported(p, "settings")' = Reported(p, "settings")
      BY <2>6, <1>4 DEF KindOf
    <3>2. /\ Upto(p, 1, Work(p, 1))' = Upto(p, 1, Work(p, 1))
          /\ Upto(p, 2, Work(p, 2))' = Upto(p, 2, Work(p, 2))
          /\ Upto(p, 3, Work(p, 3))' = Upto(p, 3, Work(p, 3))
          /\ Upto(p, 4, Work(p, 4))' = Upto(p, 4, Work(p, 4))
          /\ Upto(p, 5, Work(p, 5))' = Upto(p, 5, Work(p, 5))
          /\ Upto(p, 6, Work(p, 6))' = Upto(p, 6, Work(p, 6)) \cup {x}
      BY <2>6, <1>6, <1>7
    <3>3. ReportFits(p)
      BY DEF Fits
    <3> QED
      BY <2>1, <3>1, <3>2, <3>3 DEF ReportFits
  <2> QED
    BY <2>2, <2>3, <2>4, <2>5, <2>6
<1> QED
  BY <1>10, <1>11 DEF Fits

\* A pass ends with nothing left, and the next begins with all of its work.
LEMMA EndPassFits ==
    ASSUME TypeOK, NEW p \in Ops, Fits(p), EndPass(p)
    PROVE  Fits(p)'
<1> DEFINE l == NextPass[pc[p]]
<1>1. /\ pc'[p] = l /\ todo'[p] = Worklist(p, l) /\ todo[p] = {}
      /\ view'[p] = view[p] /\ done'[p] = done[p] /\ failed'[p] = failed[p]
  BY DEF EndPass, GoTo, TypeOK
<1>2. CASE pc[p] \in {"readTeams", "readRepos", "readHooks"}
  <2>1. /\ PassNumber(pc[p]) = 0 /\ PassNumber(l) = 0 /\ l \notin Midst
        /\ l \notin {"readTeams", "readRepos", "readHooks"} => Worklist(p, l) = {}
    BY <1>2 DEF NextPass, PassNumber, Midst, TeamMidst, RepoMidst, Worklist
  <2>2. done[p] = {} /\ failed[p] = {}
    BY <2>1, NothingReported
  <2> QED
    BY <1>1, <2>1, <2>2, BlankFits
<1>3. CASE pc[p] \in Passes
  <2> DEFINE k == PassNumber(pc[p])
  <2>1. k \in 1..6 /\ PassNumber(l) = k + 1
    BY <1>3 DEF Passes, PassNumber, NextPass, TeamMidst
  <2>2. pc[p] \notin Midst /\ l \notin Midst
    BY <1>3 DEF Passes, NextPass, Midst, TeamMidst, RepoMidst
  <2>3. Left(p) = {} /\ Left(p)' = Worklist(p, l)
    BY <1>1, <2>2 DEF Left
  <2>4. /\ OrgFailed(p)' = OrgFailed(p)
        /\ FailedOrgs(p)' = FailedOrgs(p)
        /\ \A kind : Reported(p, kind)' = Reported(p, kind)
    BY <1>1 DEF OrgFailed, FailedOrgs, Reported
  <2>5. FailedRepos(p)' = FailedRepos(p)
    BY <1>1, <2>4 DEF FailedRepos
  <2>6. \A j \in 1..6 : Work(p, j)' = Work(p, j)
    BY <1>1, <2>4, <2>5, WorkStays
  <2>7. /\ k < 6 => Worklist(p, l) = Work(p, k + 1)
        /\ k = 6 => Worklist(p, l) = {}
    <3>1. CASE pc[p] = "orgs"
      <4>1. TeamsToEnsure(view[p]) \ FailedOrgs(p) = TeamsToEnsure(view[p]) \ OrgFailed(p)
        <5>1. Reported(p, "team") = {}
          <6>1. PassNumber(pc[p]) = 1
            BY <3>1 DEF PassNumber, TeamMidst
          <6>2. Reported(p, "team") = Upto(p, 2, Work(p, 2))
            BY DEF Fits, ReportFits
          <6> QED
            BY <6>1, <6>2 DEF Upto
        <5>2. \A o \in Orgs : <<"team", o>> \notin failed[p]
          BY <5>1 DEF Reported
        <5> QED
          BY <5>2 DEF FailedOrgs, OrgFailed
      <4> QED
        BY <3>1, <4>1, WorkForms DEF NextPass, Worklist, WorkAs, PassNumber, TeamMidst
    <3>2. CASE pc[p] \in {"teams", "create", "migrate", "configure", "hook"}
      <4>1. CASE pc[p] = "teams"
        BY <4>1, WorkForms DEF NextPass, Worklist, WorkAs, PassNumber, TeamMidst
      <4>2. CASE pc[p] = "create"
        BY <4>2, WorkForms DEF NextPass, Worklist, WorkAs, PassNumber, TeamMidst
      <4>3. CASE pc[p] = "migrate"
        BY <4>3, WorkForms DEF NextPass, Worklist, WorkAs, PassNumber, TeamMidst
      <4>4. CASE pc[p] = "configure"
        BY <4>4, WorkForms DEF NextPass, Worklist, WorkAs, PassNumber, TeamMidst
      <4>5. CASE pc[p] = "hook"
        BY <4>5, WorkForms DEF NextPass, Worklist, WorkAs, PassNumber, TeamMidst
      <4> QED
        BY <3>2, <4>1, <4>2, <4>3, <4>4, <4>5
    <3> QED
      BY <1>3, <3>1, <3>2 DEF Passes
  <2>8. \A j \in 1..6 : Upto(p, j, Work(p, j))' = Upto(p, j, Work(p, j))
    BY <1>1, <2>1, <2>3, <2>6, <2>7 DEF Upto
  <2>9. LeftFits(p)'
    <3>1. l \notin {"readTeams", "readRepos", "readHooks"}
      BY <1>3 DEF Passes, NextPass
    <3> QED
      BY <1>1, <2>1, <2>2, <2>3, <2>6, <2>7, <3>1 DEF LeftFits
  <2>10. ReportFits(p)'
    BY <1>1, <2>4, <2>8 DEF Fits, ReportFits
  <2> QED
    BY <2>9, <2>10 DEF Fits
<1> QED
  BY <1>2, <1>3 DEF EndPass, NextPass, Passes

----------------------------------------------------------------------------
(* The four ways a step of execute treats the targets of its pass.         *)

\* It decides one of them at once.
LEMMA DecideFits ==
    ASSUME TypeOK, NEW p \in Ops, Fits(p), NEW k \in 1..6, NEW x \in todo[p],
           PassNumber(pc[p]) = k, pc[p] \notin Midst,
           UNCHANGED <<pc, view>>, Drops(p, x),
           Succeed(p, <<KindOf[k], x>>) \/ Fail(p, <<KindOf[k], x>>)
    PROVE  Fits(p)'
<1>1. todo'[p] = todo[p] \ {x}
  BY DEF TypeOK, Drops
<1>2. x \in Left(p) /\ Left(p)' = Left(p) \ {x}
  BY <1>1 DEF Left
<1> QED
  BY <1>2, DecidedFits

\* It takes one up.
LEMMA TakeUpFits ==
    ASSUME TypeOK, NEW p \in Ops, Fits(p), NEW k \in 1..6, NEW x \in todo[p],
           PassNumber(pc[p]) = k, pc[p] \notin Midst,
           PassNumber(pc'[p]) = k, pc'[p] \in Midst, at'[p] = x,
           UNCHANGED view, Drops(p, x), NoReport
    PROVE  Fits(p)'
<1>1. todo'[p] = todo[p] \ {x}
  BY DEF TypeOK, Drops
<1>2. Left(p)' = Left(p)
  BY <1>1 DEF Left
<1> QED
  BY <1>1, <1>2, PendingFits DEF NoReport

\* It goes on with the one it took up.
LEMMA GoOnFits ==
    ASSUME TypeOK, NEW p \in Ops, Fits(p), NEW k \in 1..6,
           PassNumber(pc[p]) = k, pc[p] \in Midst,
           PassNumber(pc'[p]) = k, pc'[p] \in Midst,
           UNCHANGED <<view, todo, at>>, NoReport
    PROVE  Fits(p)'
<1>1. Left(p)' = Left(p)
  BY DEF Left
<1>2. at[p] \notin todo[p]
  BY DEF Fits, LeftFits
<1> QED
  BY <1>1, <1>2, PendingFits DEF NoReport

\* It decides the one it took up.
LEMMA PutDownFits ==
    ASSUME TypeOK, NEW p \in Ops, Fits(p), NEW k \in 1..6, NEW x, x = at[p],
           PassNumber(pc[p]) = k, pc[p] \in Midst,
           PassNumber(pc'[p]) = k, pc'[p] \notin Midst,
           UNCHANGED <<view, todo>>,
           Succeed(p, <<KindOf[k], x>>) \/ Fail(p, <<KindOf[k], x>>)
    PROVE  Fits(p)'
<1>1. at[p] \notin todo[p]
  BY DEF Fits, LeftFits
<1>2. x \in Left(p) /\ Left(p)' = Left(p) \ {x}
  BY <1>1 DEF Left
<1> QED
  BY <1>2, DecidedFits

LEMMA PassPlaces ==
    /\ \A l \in Passes : l \notin Midst
    /\ PassNumber("orgs") = 1 /\ PassNumber("teams") = 2 /\ PassNumber("create") = 3
    /\ PassNumber("migrate") = 4 /\ PassNumber("configure") = 5 /\ PassNumber("hook") = 6
    /\ \A l \in TeamMidst : PassNumber(l) = 2 /\ l \in Midst
    /\ PassNumber("settingsCheck") = 5 /\ "settingsCheck" \in Midst
    /\ PassNumber("hookCheck") = 6 /\ "hookCheck" \in Midst
BY DEF Passes, Midst, TeamMidst, RepoMidst, PassNumber

\* One call decides: an organization, a repository, a missing credential.
LEMMA CallFits ==
    ASSUME TypeOK, NEW p \in Ops, Fits(p),
           \/ \E o \in DeclOrgs : PostOrg(p, o)
           \/ \E r \in DeclRepos : \/ PostRepo(p, r)
                                   \/ PostMigration(p, r)
                                   \/ MigrationWithoutToken(p, r)
                                   \/ HookWithoutSecret(p, r)
    PROVE  Fits(p)'
<1> USE PassPlaces, Kinds
<1>1. ASSUME NEW o \in DeclOrgs, PostOrg(p, o)
      PROVE  Fits(p)'
  <2>1. pc[p] = "orgs" /\ o \in todo[p] /\ Drops(p, o) /\ UNCHANGED <<pc, view>>
    BY <1>1 DEF PostOrg
  <2>2. Succeed(p, <<"org", o>>) \/ Fail(p, <<"org", o>>)
    BY <1>1 DEF PostOrg, Call
  <2> QED
    BY <2>1, <2>2, DecideFits DEF Passes
<1>2. ASSUME NEW r \in DeclRepos, PostRepo(p, r)
      PROVE  Fits(p)'
  <2>1. pc[p] = "create" /\ r \in todo[p] /\ Drops(p, r) /\ UNCHANGED <<pc, view>>
    BY <1>2 DEF PostRepo
  <2>2. Succeed(p, <<"repo", r>>) \/ Fail(p, <<"repo", r>>)
    BY <1>2 DEF PostRepo, Call
  <2> QED
    BY <2>1, <2>2, DecideFits DEF Passes
<1>3. ASSUME NEW r \in DeclRepos, PostMigration(p, r) \/ MigrationWithoutToken(p, r)
      PROVE  Fits(p)'
  <2>1. pc[p] = "migrate" /\ r \in todo[p] /\ Drops(p, r) /\ UNCHANGED <<pc, view>>
    BY <1>3 DEF PostMigration, MigrationWithoutToken
  <2>2. Succeed(p, <<"repo", r>>) \/ Fail(p, <<"repo", r>>)
    BY <1>3 DEF PostMigration, MigrationWithoutToken, Call
  <2> QED
    BY <2>1, <2>2, DecideFits DEF Passes
<1>4. ASSUME NEW r \in DeclRepos, HookWithoutSecret(p, r)
      PROVE  Fits(p)'
  <2>1. pc[p] = "hook" /\ r \in todo[p] /\ Drops(p, r) /\ UNCHANGED <<pc, view>>
    BY <1>4 DEF HookWithoutSecret
  <2>2. Fail(p, <<"hook", r>>)
    BY <1>4 DEF HookWithoutSecret
  <2> QED
    BY <2>1, <2>2, DecideFits DEF Passes
<1> QED
  BY <1>1, <1>2, <1>3, <1>4

\* ensure_team.
LEMMA TeamFits ==
    ASSUME TypeOK, NEW p \in Ops, Fits(p), EnsureTeam(p)
    PROVE  Fits(p)'
<1> USE PassPlaces, Kinds
<1>1. ASSUME NEW o \in DeclOrgs, GetTeam(p, o)
      PROVE  Fits(p)'
  <2>1. pc[p] = "teams" /\ o \in todo[p] /\ Drops(p, o) /\ UNCHANGED view
    BY <1>1 DEF GetTeam
  <2>2. CASE Fail(p, <<"team", o>>) /\ UNCHANGED <<pc, at>>
    BY <2>1, <2>2, DecideFits DEF Passes
  <2>3. CASE /\ pc'[p] \in TeamMidst /\ at'[p] = o /\ NoReport
    BY <2>1, <2>3, TakeUpFits DEF Passes
  <2> QED
    BY <1>1, <2>2, <2>3 DEF GetTeam, GoTo, TypeOK, TeamMidst
<1>2. CASE PostTeam(p) \/ RegetTeam(p) \/ PatchTeam(p) \/ CheckTeam(p)
  <2>1. pc[p] \in TeamMidst /\ UNCHANGED <<view, todo>>
    BY <1>2 DEF PostTeam, RegetTeam, PatchTeam, CheckTeam, InMidst, TeamMidst
  <2>2. CASE \E l \in TeamMidst : GoOn(p, l)
    <3>1. pc'[p] \in TeamMidst /\ UNCHANGED at /\ NoReport
      BY <2>2 DEF GoOn, GoTo, TypeOK
    <3> QED
      BY <2>1, <3>1, GoOnFits
  <2>3. CASE GiveUp(p, "teams", <<"team", at[p]>>)
    <3>1. pc'[p] = "teams" /\ Fail(p, <<"team", at[p]>>)
      BY <2>3 DEF GiveUp, GoTo, TypeOK
    <3> QED
      BY <2>1, <3>1, PutDownFits DEF Passes
  <2>4. (\E l \in TeamMidst : GoOn(p, l)) \/ GiveUp(p, "teams", <<"team", at[p]>>)
    BY <1>2 DEF PostTeam, RegetTeam, PatchTeam, CheckTeam, TeamMidst
  <2> QED
    BY <2>2, <2>3, <2>4
<1>3. CASE PutMember(p)
  <2>1. pc[p] \in TeamMidst /\ UNCHANGED <<view, todo>>
    BY <1>3 DEF PutMember, InMidst, TeamMidst
  <2>2. pc'[p] = "teams"
    BY <1>3 DEF PutMember, GoTo, TypeOK
  <2>3. Succeed(p, <<"team", at[p]>>) \/ Fail(p, <<"team", at[p]>>)
    BY <1>3 DEF PutMember, Call
  <2> QED
    BY <2>1, <2>2, <2>3, PutDownFits DEF Passes
<1> QED
  BY <1>1, <1>2, <1>3 DEF EnsureTeam

\* ensure_settings and ensure_webhook.
LEMMA VerifiedFits ==
    ASSUME TypeOK, NEW p \in Ops, Fits(p),
           \/ \E r \in DeclRepos : PatchRepo(p, r) \/ SendHook(p, r)
           \/ CheckRepo(p)
           \/ CheckHook(p)
    PROVE  Fits(p)'
<1> USE PassPlaces, Kinds
<1>1. ASSUME NEW r \in DeclRepos, PatchRepo(p, r)
      PROVE  Fits(p)'
  <2>1. pc[p] = "configure" /\ r \in todo[p] /\ Drops(p, r) /\ UNCHANGED view
    BY <1>1 DEF PatchRepo
  <2>2. CASE Fail(p, <<"settings", r>>) /\ UNCHANGED <<pc, at>>
    BY <2>1, <2>2, DecideFits DEF Passes
  <2>3. CASE pc'[p] = "settingsCheck" /\ at'[p] = r /\ NoReport
    BY <2>1, <2>3, TakeUpFits DEF Passes
  <2> QED
    BY <1>1, <2>2, <2>3 DEF PatchRepo, GoTo, TypeOK
<1>2. ASSUME NEW r \in DeclRepos, SendHook(p, r)
      PROVE  Fits(p)'
  <2>1. pc[p] = "hook" /\ r \in todo[p] /\ Drops(p, r) /\ UNCHANGED view
    BY <1>2 DEF SendHook
  <2>2. CASE Fail(p, <<"hook", r>>) /\ UNCHANGED <<pc, at>>
    BY <2>1, <2>2, DecideFits DEF Passes
  <2>3. CASE pc'[p] = "hookCheck" /\ at'[p] = r /\ NoReport
    BY <2>1, <2>3, TakeUpFits DEF Passes
  <2> QED
    BY <1>2, <2>2, <2>3 DEF SendHook, GoTo, TypeOK
<1>3. CASE CheckRepo(p)
  <2>1. pc[p] = "settingsCheck" /\ pc'[p] = "configure" /\ UNCHANGED <<view, todo>>
    BY <1>3 DEF CheckRepo, InMidst, Verified, GoTo, TypeOK
  <2>2. Succeed(p, <<"settings", at[p]>>) \/ Fail(p, <<"settings", at[p]>>)
    BY <1>3 DEF CheckRepo, Verified
  <2> QED
    BY <2>1, <2>2, PutDownFits DEF Passes
<1>4. CASE CheckHook(p)
  <2>1. pc[p] = "hookCheck" /\ pc'[p] = "hook" /\ UNCHANGED <<view, todo>>
    BY <1>4 DEF CheckHook, InMidst, Verified, GoTo, TypeOK
  <2>2. Succeed(p, <<"hook", at[p]>>) \/ Fail(p, <<"hook", at[p]>>)
    BY <1>4 DEF CheckHook, Verified
  <2> QED
    BY <2>1, <2>2, PutDownFits DEF Passes
<1> QED
  BY <1>1, <1>2, <1>3, <1>4

LEMMA ExecuteFits ==
    ASSUME TypeOK, NEW p \in Ops, Fits(p), Execute(p)
    PROVE  Fits(p)'
BY CallFits, TeamFits, VerifiedFits DEF Execute

\* Reading, deciding and dropping report nothing.
LEMMA ReadFits ==
    ASSUME TypeOK, NEW p \in Ops, Fits(p),
           \/ Start(p) \/ Read(p)
           \/ ReportMatch(p) \/ PlanOnly(p) \/ ApplySome(p)
           \/ DropEmpty(p)
    PROVE  Fits(p)'
<1>1. CASE Start(p)
  <2>1. /\ pc'[p] = "listOrgs" /\ todo'[p] = {}
        /\ done'[p] = {} /\ failed'[p] = {}
    BY <1>1 DEF Start, GoTo, TypeOK
  <2> QED
    BY <2>1, BlankFits DEF PassNumber, Midst, TeamMidst, RepoMidst
<1>2. CASE Read(p)
  <2>1. pc[p] \in Reading /\ done' = done /\ failed' = failed
    BY <1>2 DEF Read, ListOrgs, ListRepos, ReadTeam, ReadRepo, ReadHooks, ReadFails, Reads, Reading
  <2>2. PassNumber(pc[p]) = 0
    BY <2>1 DEF Reading, PassNumber, TeamMidst
  <2>3. done[p] = {} /\ failed[p] = {}
    BY <2>2, NothingReported
  <2>4. pc[p] \in {"listOrgs", "listRepos"} => todo[p] = {}
    BY <2>2 DEF Fits, LeftFits
  <2>5. /\ pc'[p] \in Reading \cup {"aborted"}
        /\ pc'[p] \notin {"readTeams", "readRepos", "readHooks"} => todo'[p] = {}
    <3>1. CASE ListOrgs(p) \/ ListRepos(p)
      BY <3>1, <2>4 DEF ListOrgs, ListRepos, GoTo, TypeOK, Reading
    <3>2. CASE ReadFails(p)
      BY <3>2 DEF ReadFails, GoTo, TypeOK
    <3>3. CASE \/ \E o \in DeclOrgs : ReadTeam(p, o)
               \/ \E r \in DeclRepos : ReadRepo(p, r) \/ ReadHooks(p, r)
      BY <3>3 DEF ReadTeam, ReadRepo, ReadHooks, Reading
    <3> QED
      BY <1>2, <3>1, <3>2, <3>3 DEF Read
  <2>6. PassNumber(pc'[p]) = 0 /\ pc'[p] \notin Midst
    BY <2>5 DEF Reading, PassNumber, Midst, TeamMidst, RepoMidst
  <2> QED
    BY <2>1, <2>3, <2>5, <2>6, BlankFits
<1>3. CASE ReportMatch(p) \/ PlanOnly(p)
  <2>1. pc[p] = "decide" /\ done' = done /\ failed' = failed /\ todo' = todo
    BY <1>3 DEF ReportMatch, PlanOnly, Deciding
  <2>2. pc'[p] \in {"matched", "drifted", "planned"}
    BY <1>3 DEF ReportMatch, PlanOnly, GoTo, TypeOK
  <2>3. PassNumber(pc[p]) = 0 /\ PassNumber(pc'[p]) = 0 /\ pc'[p] \notin Midst
    BY <2>1, <2>2 DEF PassNumber, Midst, TeamMidst, RepoMidst
  <2>4. todo[p] = {} /\ done[p] = {} /\ failed[p] = {}
    BY <2>1, <2>3, NothingReported DEF Fits, LeftFits
  <2> QED
    BY <2>1, <2>3, <2>4, BlankFits
<1>4. ASSUME NEW c \in CredentialSets, Apply(p, c)
      PROVE  Fits(p)'
  <2>1. pc[p] = "decide" /\ done' = done /\ failed' = failed /\ view' = view
    BY <1>4 DEF Apply, Deciding
  <2>2. PassNumber(pc[p]) = 0
    BY <2>1 DEF PassNumber, TeamMidst
  <2>3. todo[p] = {} /\ done[p] = {} /\ failed[p] = {}
    BY <2>1, <2>2, NothingReported DEF Fits, LeftFits
  <2>4. CASE pc'[p] = "aborted" /\ todo' = todo
    BY <2>1, <2>3, <2>4, BlankFits DEF PassNumber, Midst, TeamMidst, RepoMidst
  <2>5. CASE pc'[p] = "orgs" /\ todo'[p] = OrgsToCreate(view[p])
    <3>1. \A kind : Reported(p, kind)' = {}
      BY <2>1, <2>3 DEF Reported
    <3>2. PassNumber(pc'[p]) = 1 /\ pc'[p] \notin Midst
      BY <2>5, PassPlaces DEF Passes
    <3>3. Left(p)' = OrgsToCreate(view[p]) /\ Work(p, 1)' = OrgsToCreate(view[p])
      BY <2>1, <2>5, <3>2, WorkForms DEF Left, WorkAs
    <3>4. \A k \in 1..6 : Upto(p, k, Work(p, k))' = {}
      BY <3>2, <3>3 DEF Upto
    <3>5. LeftFits(p)'
      BY <3>2, <3>3 DEF LeftFits
    <3>6. ReportFits(p)'
      BY <2>1, <2>3, <3>1, <3>4 DEF ReportFits
    <3> QED
      BY <3>5, <3>6 DEF Fits
  <2> QED
    BY <1>4, <2>4, <2>5 DEF Apply, GoTo, TypeOK
<1>5. ASSUME NEW r \in Repos, ReadShell(p, r)
      PROVE  Fits(p)'
  <2>1. PassNumber(pc[p]) \in {0, 7} /\ pc[p] \notin {"readTeams", "readRepos", "readHooks"}
    BY <1>5 DEF ReadShell, Over, PassNumber, TeamMidst
  <2>2. todo[p] = {}
    BY <2>1 DEF Fits, LeftFits
  <2>3. /\ pc'[p] \in {"drop", "refused"} /\ todo' = todo
        /\ done'[p] = {} /\ failed'[p] = {}
    BY <1>5 DEF ReadShell, GoTo, TypeOK
  <2>4. PassNumber(pc'[p]) = 0
    BY <2>3 DEF PassNumber, TeamMidst
  <2> QED
    BY <2>2, <2>3, <2>4, BlankFits
<1>6. CASE DropShell(p)
  <2>1. /\ pc[p] = "drop" /\ pc'[p] = "dropped" /\ todo' = todo
        /\ done' = done /\ failed' = failed
    BY <1>6 DEF DropShell, InMidst, GoTo, NoReport, TypeOK
  <2>2. PassNumber(pc[p]) = 0 /\ PassNumber(pc'[p]) = 0 /\ pc'[p] \notin Midst
    BY <2>1 DEF PassNumber, Midst, TeamMidst, RepoMidst
  <2>3. todo[p] = {} /\ done[p] = {} /\ failed[p] = {}
    BY <2>1, <2>2, NothingReported DEF Fits, LeftFits
  <2> QED
    BY <2>1, <2>2, <2>3, BlankFits
<1> QED
  BY <1>1, <1>2, <1>3, <1>4, <1>5, <1>6 DEF ApplySome, DropEmpty

----------------------------------------------------------------------------
(* The theorems.                                                           *)

LEMMA InitFits ==
    ASSUME Init, NEW p \in Ops
    PROVE  Fits(p)
<1>1. pc[p] = "idle" /\ todo[p] = {} /\ done[p] = {} /\ failed[p] = {}
  BY DEF Init
<1>2. PassNumber(pc[p]) = 0 /\ pc[p] \notin Midst
  BY <1>1 DEF PassNumber, Midst, TeamMidst, RepoMidst
<1>3. \A kind : Reported(p, kind) = {}
  BY <1>1 DEF Reported
<1>4. \A k \in 1..6 : Upto(p, k, Work(p, k)) = {}
  BY <1>2 DEF Upto
<1>5. LeftFits(p)
  BY <1>1, <1>2 DEF LeftFits
<1>6. ReportFits(p)
  <2>1. /\ Reported(p, "org") = {} /\ Reported(p, "team") = {} /\ Reported(p, "repo") = {}
        /\ Reported(p, "settings") = {} /\ Reported(p, "hook") = {}
    BY <1>3
  <2>2. /\ Upto(p, 1, Work(p, 1)) = {} /\ Upto(p, 2, Work(p, 2)) = {}
        /\ Upto(p, 3, Work(p, 3)) = {} /\ Upto(p, 4, Work(p, 4)) = {}
        /\ Upto(p, 5, Work(p, 5)) = {} /\ Upto(p, 6, Work(p, 6)) = {}
    BY <1>4
  <2> QED
    BY <1>1, <2>1, <2>2 DEF ReportFits
<1> QED
  BY <1>5, <1>6 DEF Fits

\* A step of one operator leaves what the others know and have reported.
LEMMA OthersSame ==
    ASSUME TypeOK, NEW p \in Ops, NEW q \in Ops, p # q,
           Start(p) \/ Run(p) \/ ApplySome(p) \/ DropEmpty(p)
    PROVE  Same(q)
<1> USE DEF TypeOK, Same, GoTo
<1>1. CASE \/ Start(p) \/ Read(p) \/ EndPass(p)
           \/ ReportMatch(p) \/ PlanOnly(p) \/ ApplySome(p)
  BY <1>1 DEF Start, Read, EndPass, ReportMatch, PlanOnly, ApplySome, Apply, Deciding, Reads,
              ListOrgs, ListRepos, ReadTeam, ReadRepo, ReadHooks, ReadFails, Drops
<1>2. CASE EnsureTeam(p)
  BY <1>2 DEF EnsureTeam, GetTeam, PostTeam, RegetTeam, PatchTeam, CheckTeam, PutMember, Call,
              GoOn, GiveUp, InMidst, Drops, Succeed, Fail, NoReport
<1>3. CASE \/ \E o \in DeclOrgs : PostOrg(p, o)
           \/ \E r \in DeclRepos : \/ PostRepo(p, r)
                                   \/ PostMigration(p, r)
                                   \/ MigrationWithoutToken(p, r)
                                   \/ HookWithoutSecret(p, r)
  BY <1>3 DEF PostOrg, PostRepo, PostMigration, MigrationWithoutToken, HookWithoutSecret, Call,
              Drops, Succeed, Fail
<1>4. CASE \/ \E r \in DeclRepos : PatchRepo(p, r) \/ SendHook(p, r)
           \/ CheckRepo(p)
           \/ CheckHook(p)
  BY <1>4 DEF PatchRepo, SendHook, CheckRepo, CheckHook, Verified, InMidst, Drops, Succeed, Fail,
              NoReport
<1>5. CASE DropEmpty(p)
  BY <1>5 DEF DropEmpty, ReadShell, DropShell, InMidst, NoReport
<1> QED
  BY <1>1, <1>2, <1>3, <1>4, <1>5 DEF Run, Execute

LEMMA StepFits ==
    ASSUME TypeOK, [Next]_vars, NEW q \in Ops, Fits(q)
    PROVE  Fits(q)'
<1>1. ASSUME NEW p \in Ops, Start(p) \/ Run(p) \/ ApplySome(p) \/ DropEmpty(p)
      PROVE  Fits(q)'
  <2>1. CASE p = q
    <3>1. CASE EndPass(q)
      BY <3>1, EndPassFits
    <3>2. CASE Execute(q)
      BY <3>2, ExecuteFits
    <3>3. CASE \/ Start(q) \/ Read(q)
               \/ ReportMatch(q) \/ PlanOnly(q) \/ ApplySome(q)
               \/ DropEmpty(q)
      BY <3>3, ReadFits
    <3> QED
      BY <1>1, <2>1, <3>1, <3>2, <3>3 DEF Run
  <2>2. CASE p # q
    BY <1>1, <2>2, OthersSame, SameFits
  <2> QED
    BY <2>1, <2>2
<1>2. CASE EditByHand \/ Import \/ UNCHANGED vars
  <2>1. Same(q)
    BY <1>2 DEF EditByHand, Import, vars, ops, Same
  <2> QED
    BY <2>1, SameFits
<1> QED
  BY <1>1, <1>2 DEF Next

\* At every moment of every run the report holds exactly what it should, and
\* nothing is left to do that a recorded failure forbids.
THEOREM ReportIsExact == Spec => []ExactReport
<1>1. Init => ExactReport
  BY InitFits DEF ExactReport, Fits
<1>2. TypeOK /\ ExactReport /\ [Next]_vars => ExactReport'
  BY StepFits DEF ExactReport, Fits
<1> QED
  BY <1>1, <1>2, TypeCorrect, PTL DEF Spec

\* Once execute returns, each planned target was carried out, has failed, or was
\* kept from being attempted by a failure that is recorded.
THEOREM EveryItemIsAccounted == Spec => []EveryItemAccounted
<1>1. ExactReport => EveryItemAccounted
  <2> SUFFICES ASSUME ExactReport, NEW p \in Ops, pc[p] = "done",
                      NEW k \in 1..6, NEW x \in PlanFor(view[p], k),
                      <<KindOf[k], x>> \notin Quarantined(p)
               PROVE  <<KindOf[k], x>> \in done[p] \cup failed[p]
    BY DEF EveryItemAccounted, Planned
  <2>1. PassNumber(pc[p]) = 7
    BY DEF PassNumber, TeamMidst
  <2>2. x \in Upto(p, k, Work(p, k))
    BY <2>1 DEF Upto, Work
  <2>3. ReportFits(p)
    BY DEF ExactReport
  <2>4. Upto(p, k, Work(p, k)) \subseteq Reported(p, KindOf[k])
    BY <2>3 DEF ReportFits, KindOf
  <2> QED
    BY <2>2, <2>4 DEF Reported
<1> QED
  BY <1>1, ReportIsExact, PTL

\* Nothing behind a recorded failure is ever attempted, whatever fails and in
\* whichever order, so a root cause is reported once.
THEOREM OneCauseIsOneFailure == Spec => []OneCauseOneFailure
<1>1. TypeOK /\ ExactReport => OneCauseOneFailure
  <2> SUFFICES ASSUME TypeOK, ExactReport, NEW p \in Ops
               PROVE  /\ done[p] \cap failed[p] = {}
                      /\ \A t \in done[p] \cup failed[p] : t \notin Quarantined(p)
    BY DEF OneCauseOneFailure
  <2>1. ReportFits(p)
    BY DEF ExactReport
  <2>2. \A k \in 1..6 : Upto(p, k, Work(p, k)) \subseteq Work(p, k)
    BY DEF Upto
  <2>3. ASSUME NEW t \in done[p] \cup failed[p]
        PROVE  t \notin Quarantined(p)
    <3>1. t \in Targets
      BY <2>3 DEF TypeOK
    <3>2. PICK kind \in {"org", "team", "repo", "settings", "hook"}, x \in Orgs \cup Repos :
             t = <<kind, x>>
      BY <3>1 DEF Targets
    <3>3. x \in Reported(p, kind)
      BY <2>3, <3>2 DEF Reported
    <3>4. PICK k \in 1..6 : kind = KindOf[k] /\ x \in Work(p, k)
      BY <2>1, <2>2, <3>3 DEF ReportFits, KindOf
    <3> QED
      BY <3>2, <3>4 DEF Work
  <2> QED
    BY <2>1, <2>3 DEF ReportFits
<1> QED
  BY <1>1, TypeCorrect, ReportIsExact, PTL

----------------------------------------------------------------------------
(* What a run knows of the forge, as long as nobody else has touched it.   *)

\* Where a command is once it has planned, until execute returns.
Executing == Passes \cup TeamMidst \cup {"settingsCheck", "hookCheck"}

\* Where it relies on what it has read: of the organizations, of the repositories.
KnowsOrgs  == (Reading \ {"listOrgs"}) \cup {"decide", "matched", "done"} \cup Executing
KnowsRepos == KnowsOrgs \ {"listRepos"}

HasReadTeam(p, o)  == pc[p] \in KnowsRepos /\ (pc[p] = "readTeams" => o \notin todo[p])
HasReadHooks(p, r) == pc[p] \in KnowsRepos \ {"readTeams", "readRepos"} /\ (pc[p] = "readHooks" => r \notin todo[p])

Decided(p, t) == t \in done[p] \cup failed[p]

\* What ensure_team accepts of what its write left behind.
Grants == {"full"} \cup (PartialGrants \cap {"usable"})

\* The forge has the organizations and repositories the plan saw and those the run has
\* reported as made, and of the others only those whose answer was lost.
OrgSure(p, o) ==
    /\ pc[p] \in KnowsOrgs =>
        /\ o \in view[p].orgs => o \in orgs
        /\ o \in orgs => o \in view[p].orgs \/ Decided(p, <<"org", o>>)
    /\ <<"org", o>> \in done[p] => o \in orgs

RepoSure(p, r) ==
    /\ pc[p] \in KnowsRepos =>
        /\ r \in view[p].repos => r \in repos
        /\ r \in repos => r \in view[p].repos \/ Decided(p, <<"repo", r>>)
    /\ <<"repo", r>> \in done[p] => r \in repos

\* A team is as the plan saw it until ensure_team gets to it.
TeamSure(p, o) ==
    /\ HasReadTeam(p, o) /\ ~Decided(p, <<"team", o>>) /\ ~(pc[p] \in TeamMidst /\ at[p] = o) =>
          team[o] = view[p].team[o]
    /\ <<"team", o>> \in done[p] => o \in member /\ team[o] \in Grants
    /\ at[p] = o =>
        /\ pc[p] = "teamEdit" => team[o] # "absent"
        /\ pc[p] = "teamCheck" => team[o] \in {"full"} \cup PartialGrants
        /\ pc[p] = "teamMember" => team[o] \in Grants

SettingsSure(p, r) ==
    /\ r \in view[p].settings => r \in settings
    /\ <<"settings", r>> \in done[p] => r \in settings

\* And a webhook until ensure_webhook has written it.
HookSure(p, r) ==
    /\ HasReadHooks(p, r) /\ ~Decided(p, <<"hook", r>>) /\ ~(pc[p] = "hookCheck" /\ at[p] = r) =>
          FirstHook(hooks[r]) = view[p].hook[r]
    /\ <<"hook", r>> \in done[p] => FirstHook(hooks[r]).right

\* The visibility is reported before the run writes anything.
PlanSure(p) ==
    /\ pc[p] \in (KnowsRepos \cap Reading) \cup {"decide", "matched"} => view[p].private = private
    /\ pc[p] = "matched" => IsNoop(view[p]) /\ VisibilityDrift(view[p]) = {}
    /\ pc[p] = "drop" => view[p].settings = {}

Sure(p) ==
    /\ PlanSure(p)
    /\ \A o \in DeclOrgs : OrgSure(p, o) /\ TeamSure(p, o)
    /\ \A r \in DeclRepos : RepoSure(p, r) /\ SettingsSure(p, r) /\ HookSure(p, r)

ViewsAreSure == \A p \in Ops : calm[p] => Sure(p)

\* The part of the forge that a run's knowledge is about.
core == <<orgs, team, member, repos, private, settings, hooks>>

\* A step that leaves it alone and an operator's run with it leaves what it knows.
LEMMA SameSure ==
    ASSUME NEW p \in Ops, Sure(p), Same(p), UNCHANGED core
    PROVE  Sure(p)'
<1> USE DEF Same, core, Decided
<1>1. PlanSure(p)'
  BY DEF Sure, PlanSure
<1>2. \A o \in DeclOrgs : OrgSure(p, o)' /\ TeamSure(p, o)'
  BY DEF Sure, OrgSure, TeamSure, HasReadTeam
<1>3. \A r \in DeclRepos : RepoSure(p, r)' /\ SettingsSure(p, r)' /\ HookSure(p, r)'
  BY DEF Sure, RepoSure, SettingsSure, HookSure, HasReadHooks
<1> QED
  BY <1>1, <1>2, <1>3 DEF Sure

\* Whoever writes disturbs all the others.
LEMMA OthersDisturbed ==
    ASSUME TypeOK, NEW p \in Ops, NEW q \in Ops, p # q,
           Start(p) \/ Run(p) \/ ApplySome(p) \/ DropEmpty(p), calm'[q]
    PROVE  calm[q] /\ UNCHANGED core
<1> USE DEF TypeOK, core, forge
<1>1. CASE \/ Start(p) \/ Read(p) \/ EndPass(p)
           \/ ReportMatch(p) \/ PlanOnly(p) \/ ApplySome(p)
  BY <1>1 DEF Start, Read, EndPass, ReportMatch, PlanOnly, ApplySome, Apply, Deciding, Reads,
              ListOrgs, ListRepos, ReadTeam, ReadRepo, ReadHooks, ReadFails
<1>2. CASE EnsureTeam(p)
  BY <1>2 DEF EnsureTeam, GetTeam, PostTeam, RegetTeam, PatchTeam, CheckTeam, PutMember, Call, Disturb
<1>3. CASE \/ \E o \in DeclOrgs : PostOrg(p, o)
           \/ \E r \in DeclRepos : \/ PostRepo(p, r)
                                   \/ PostMigration(p, r)
                                   \/ MigrationWithoutToken(p, r)
                                   \/ HookWithoutSecret(p, r)
  BY <1>3 DEF PostOrg, PostRepo, PostMigration, MigrationWithoutToken, HookWithoutSecret, Call, Disturb
<1>4. CASE \/ \E r \in DeclRepos : PatchRepo(p, r) \/ SendHook(p, r)
           \/ CheckRepo(p)
           \/ CheckHook(p)
  BY <1>4 DEF PatchRepo, SendHook, CheckRepo, CheckHook, Verified, Disturb
<1>5. CASE DropEmpty(p)
  BY <1>5 DEF DropEmpty, ReadShell, DropShell, Disturb
<1> QED
  BY <1>1, <1>2, <1>3, <1>4, <1>5 DEF Run, Execute

\* What a step of p leaves of one kind: what the forge has of it and what p reported on it.
LEMMA OrgsLeft ==
    ASSUME NEW p \in Ops, NEW o, OrgSure(p, o), pc[p] \in Executing, view'[p] = view[p], UNCHANGED orgs,
           <<"org", o>> \in done'[p] <=> <<"org", o>> \in done[p],
           <<"org", o>> \in failed'[p] <=> <<"org", o>> \in failed[p]
    PROVE  OrgSure(p, o)'
BY DEF OrgSure, KnowsOrgs, Decided

\* Of the repositories.
LEMMA ReposLeft ==
    ASSUME NEW p \in Ops, NEW r, RepoSure(p, r), pc[p] \in Executing, view'[p] = view[p], UNCHANGED repos,
           <<"repo", r>> \in done'[p] <=> <<"repo", r>> \in done[p],
           <<"repo", r>> \in failed'[p] <=> <<"repo", r>> \in failed[p]
    PROVE  RepoSure(p, r)'
BY DEF RepoSure, KnowsOrgs, KnowsRepos, Decided, Executing, Passes, TeamMidst

\* Of the teams, outside ensure_team.
LEMMA TeamsLeft ==
    ASSUME NEW p \in Ops, NEW o, TeamSure(p, o), pc[p] \in Executing \ TeamMidst, pc'[p] \notin TeamMidst,
           view'[p] = view[p], UNCHANGED <<team, member>>,
           <<"team", o>> \in done'[p] <=> <<"team", o>> \in done[p],
           <<"team", o>> \in failed'[p] <=> <<"team", o>> \in failed[p]
    PROVE  TeamSure(p, o)'
BY DEF TeamSure, HasReadTeam, KnowsOrgs, KnowsRepos, Decided, Executing, Passes, TeamMidst

\* Of the settings.
LEMMA SettingsLeft ==
    ASSUME NEW p \in Ops, NEW r, SettingsSure(p, r), pc[p] \in Executing, view'[p] = view[p], UNCHANGED settings,
           <<"settings", r>> \in done'[p] <=> <<"settings", r>> \in done[p]
    PROVE  SettingsSure(p, r)'
BY DEF SettingsSure

\* Of the webhooks, outside ensure_webhook.
LEMMA HooksLeft ==
    ASSUME NEW p \in Ops, NEW r, HookSure(p, r), pc[p] \in Executing \ {"hookCheck"}, pc'[p] # "hookCheck",
           view'[p] = view[p], UNCHANGED hooks,
           <<"hook", r>> \in done'[p] <=> <<"hook", r>> \in done[p],
           <<"hook", r>> \in failed'[p] <=> <<"hook", r>> \in failed[p]
    PROVE  HookSure(p, r)'
BY DEF HookSure, HasReadHooks, KnowsOrgs, KnowsRepos, Decided, Executing, Passes, TeamMidst

\* Once it executes, a run has nothing more to say of the plan.
LEMMA PlanLeft ==
    ASSUME NEW p \in Ops, pc'[p] \in Executing
    PROVE  PlanSure(p)'
BY DEF PlanSure, Executing, Passes, TeamMidst, Reading

\* A run that knows nothing yet, or no longer relies on it.
LEMMA NothingKnown ==
    ASSUME NEW p \in Ops, pc'[p] \notin KnowsOrgs, done'[p] = {},
           pc'[p] = "drop" => view'[p].settings = {},
           \A r \in DeclRepos : r \in view'[p].settings => r \in settings'
    PROVE  Sure(p)'
<1>1. pc'[p] \notin KnowsRepos /\ pc'[p] \notin TeamMidst /\ pc'[p] \notin {"decide", "matched"}
  BY DEF KnowsRepos, KnowsOrgs, Executing
<1>2. PlanSure(p)'
  BY <1>1 DEF PlanSure
<1>3. \A o \in DeclOrgs : OrgSure(p, o)' /\ TeamSure(p, o)'
  BY <1>1 DEF OrgSure, TeamSure, HasReadTeam, TeamMidst
<1>4. \A r \in DeclRepos : RepoSure(p, r)' /\ SettingsSure(p, r)' /\ HookSure(p, r)'
  BY <1>1 DEF RepoSure, SettingsSure, HookSure, HasReadHooks
<1> QED
  BY <1>2, <1>3, <1>4 DEF Sure

\* The places where a run relies on nothing, and where it has reported nothing.
LEMMA Places ==
    /\ KnowsOrgs \cap {"idle", "listOrgs", "drifted", "planned", "aborted", "dropped", "refused", "drop"} = {}
    /\ Reading \cap Executing = {} /\ Reading \cap TeamMidst = {}
    /\ \A l \in Reading \cup {"decide", "matched"} : PassNumber(l) = 0 /\ l \notin Executing /\ l \notin TeamMidst
BY DEF KnowsOrgs, Reading, Executing, Passes, TeamMidst, PassNumber

\* The first webhook of none.
LEMMA NoFirstHook == FirstHook({}) = NoHook
BY DEF FirstHook

\* Every step of the reading makes it surer.
LEMMA ReadSure ==
    ASSUME TypeOK, WellFormedForge, NEW p \in Ops, Fits(p), calm[p] => Sure(p), Read(p), calm'[p]
    PROVE  Sure(p)'
<1> USE DEF TypeOK, GoTo, Reads, Decided
<1>1. pc[p] \in Reading /\ PassNumber(pc[p]) = 0
  BY Places DEF Read, ListOrgs, ListRepos, ReadTeam, ReadRepo, ReadHooks, ReadFails, Reading
<1>2. done[p] = {} /\ failed[p] = {}
  BY <1>1, NothingReported
<1>3. UNCHANGED <<forge, done, failed, calm>> /\ calm[p]
  BY DEF Read, ListOrgs, ListRepos, ReadTeam, ReadRepo, ReadHooks, ReadFails
<1>4. Sure(p) /\ UNCHANGED core /\ done'[p] = {} /\ failed'[p] = {}
  BY <1>2, <1>3 DEF forge, core
<1>5. CASE ReadFails(p)
  <2>1. pc'[p] = "aborted" /\ UNCHANGED view
    BY <1>5 DEF ReadFails
  <2>2. \A r \in DeclRepos : r \in view'[p].settings => r \in settings'
    BY <1>4, <2>1 DEF Sure, SettingsSure, core
  <2> QED
    BY <1>4, <2>1, <2>2, NothingKnown, Places
<1>6. view[p] \in View
  BY DEF TypeOK
<1>7. CASE ListOrgs(p)
  <2>1. pc'[p] = "listRepos" /\ view'[p].orgs = orgs /\ view'[p].settings = view[p].settings
    BY <1>6, <1>7 DEF ListOrgs, View
  <2>2. PlanSure(p)'
    BY <2>1 DEF PlanSure, KnowsRepos
  <2>3. \A o \in DeclOrgs : OrgSure(p, o)' /\ TeamSure(p, o)'
    BY <1>4, <2>1 DEF OrgSure, TeamSure, HasReadTeam, KnowsRepos, TeamMidst, core
  <2>4. \A r \in DeclRepos : RepoSure(p, r)' /\ SettingsSure(p, r)' /\ HookSure(p, r)'
    BY <1>4, <2>1 DEF Sure, RepoSure, SettingsSure, HookSure, HasReadHooks, KnowsRepos, core
  <2> QED
    BY <2>2, <2>3, <2>4 DEF Sure
<1>8. CASE ListRepos(p)
  <2>1. /\ pc[p] = "listRepos" /\ pc'[p] = "readTeams" /\ todo'[p] = DeclOrgs
        /\ view'[p].repos = repos /\ view'[p].private = private /\ view'[p].orgs = view[p].orgs
        /\ view'[p].settings = view[p].settings
    BY <1>6, <1>8 DEF ListRepos, View
  <2>2. PlanSure(p)'
    BY <1>4, <2>1 DEF PlanSure, core
  <2>3. \A o \in DeclOrgs : OrgSure(p, o)' /\ TeamSure(p, o)'
    BY <1>2, <1>4, <2>1 DEF Sure, OrgSure, TeamSure, HasReadTeam, KnowsOrgs, Reading, TeamMidst, core
  <2>4. \A r \in DeclRepos : RepoSure(p, r)' /\ SettingsSure(p, r)' /\ HookSure(p, r)'
    BY <1>4, <2>1 DEF Sure, RepoSure, SettingsSure, HookSure, HasReadHooks, core
  <2> QED
    BY <2>2, <2>3, <2>4 DEF Sure
<1>9. ASSUME NEW o \in DeclOrgs, ReadTeam(p, o) PROVE Sure(p)'
  <2>1. /\ pc[p] = "readTeams" /\ pc'[p] = "readTeams" /\ todo'[p] = todo[p] \ {o}
        /\ view'[p] = [view[p] EXCEPT !.team[o] = IF o \in view[p].orgs THEN team[o] ELSE "absent"]
    BY <1>9 DEF ReadTeam, Drops
  <2>2. /\ view'[p].orgs = view[p].orgs /\ view'[p].repos = view[p].repos
        /\ view'[p].private = view[p].private /\ view'[p].settings = view[p].settings
        /\ view'[p].hook = view[p].hook
        /\ \A u \in DeclOrgs \ {o} : view'[p].team[u] = view[p].team[u]
        /\ view'[p].team[o] = IF o \in view[p].orgs THEN team[o] ELSE "absent"
    BY <1>6, <2>1 DEF View
  <2>3. o \notin view[p].orgs => team[o] = "absent"
    BY <1>2, <1>4, <2>1, DeclarationAssumption DEF Sure, OrgSure, KnowsOrgs, Reading, WellFormedForge
  <2>4. PlanSure(p)'
    BY <1>4, <2>1, <2>2 DEF Sure, PlanSure, core
  <2>5. \A u \in DeclOrgs : OrgSure(p, u)' /\ TeamSure(p, u)'
    BY <1>2, <1>4, <2>1, <2>2, <2>3 DEF Sure, OrgSure, TeamSure, HasReadTeam, KnowsOrgs, KnowsRepos, TeamMidst, core
  <2>6. \A r \in DeclRepos : RepoSure(p, r)' /\ SettingsSure(p, r)' /\ HookSure(p, r)'
    BY <1>2, <1>4, <2>1, <2>2 DEF Sure, RepoSure, SettingsSure, HookSure, HasReadHooks, core
  <2> QED
    BY <2>4, <2>5, <2>6 DEF Sure
<1>10. ASSUME NEW r \in DeclRepos, ReadRepo(p, r) PROVE Sure(p)'
  <2>1. /\ pc[p] = "readRepos" /\ pc'[p] = "readRepos" /\ todo'[p] = todo[p] \ {r}
        /\ view'[p] = [view[p] EXCEPT !.settings =
               IF r \in view[p].repos \cap settings THEN view[p].settings \cup {r} ELSE view[p].settings]
    BY <1>10 DEF ReadRepo, Drops
  <2>2. /\ view'[p].orgs = view[p].orgs /\ view'[p].repos = view[p].repos
        /\ view'[p].private = view[p].private /\ view'[p].team = view[p].team
        /\ view'[p].hook = view[p].hook
        /\ \A u \in DeclRepos \ {r} : u \in view'[p].settings <=> u \in view[p].settings
    BY <1>6, <2>1 DEF View
  <2>3. PlanSure(p)'
    BY <1>4, <2>1, <2>2 DEF Sure, PlanSure, core
  <2>4. \A u \in DeclOrgs : OrgSure(p, u)' /\ TeamSure(p, u)'
    BY <1>2, <1>4, <2>1, <2>2 DEF Sure, OrgSure, TeamSure, HasReadTeam, TeamMidst, core
  <2>5. \A u \in DeclRepos : RepoSure(p, u)' /\ HookSure(p, u)'
    BY <1>2, <1>4, <2>1, <2>2 DEF Sure, RepoSure, HookSure, HasReadHooks, core
  <2>6. \A u \in DeclRepos : SettingsSure(p, u)'
    BY <1>4, <2>1, <2>2, <1>6 DEF View, Sure, SettingsSure, core
  <2> QED
    BY <2>3, <2>4, <2>5, <2>6 DEF Sure
<1>11. ASSUME NEW r \in DeclRepos, ReadHooks(p, r) PROVE Sure(p)'
  <2>1. /\ pc[p] = "readHooks" /\ pc'[p] = "readHooks" /\ todo'[p] = todo[p] \ {r}
        /\ view'[p] = [view[p] EXCEPT !.hook[r] = IF r \in view[p].repos THEN FirstHook(hooks[r]) ELSE NoHook]
    BY <1>11 DEF ReadHooks, Drops
  <2>2. /\ view'[p].orgs = view[p].orgs /\ view'[p].repos = view[p].repos
        /\ view'[p].private = view[p].private /\ view'[p].team = view[p].team
        /\ view'[p].settings = view[p].settings
        /\ \A u \in DeclRepos \ {r} : view'[p].hook[u] = view[p].hook[u]
        /\ view'[p].hook[r] = IF r \in view[p].repos THEN FirstHook(hooks[r]) ELSE NoHook
    BY <1>6, <2>1 DEF View
  <2>3. r \notin view[p].repos => FirstHook(hooks[r]) = NoHook
    <3>1. r \notin view[p].repos => r \notin repos
      BY <1>2, <1>4, <2>1 DEF Sure, RepoSure, KnowsOrgs, KnowsRepos, Reading
    <3>2. r \notin view[p].repos => hooks[r] = {}
      BY <3>1, DeclarationAssumption DEF WellFormedForge
    <3> QED
      BY <3>2, NoFirstHook
  <2>4. PlanSure(p)'
    BY <1>4, <2>1, <2>2 DEF Sure, PlanSure, core
  <2>5. \A u \in DeclOrgs : OrgSure(p, u)' /\ TeamSure(p, u)'
    BY <1>2, <1>4, <2>1, <2>2 DEF Sure, OrgSure, TeamSure, HasReadTeam, TeamMidst, core
  <2>6. \A u \in DeclRepos : RepoSure(p, u)' /\ SettingsSure(p, u)' /\ HookSure(p, u)'
    BY <1>2, <1>4, <2>1, <2>2, <2>3 DEF Sure, RepoSure, SettingsSure, HookSure, HasReadHooks,
         KnowsRepos, core
  <2> QED
    BY <2>4, <2>5, <2>6 DEF Sure
<1> QED
  BY <1>5, <1>7, <1>8, <1>9, <1>10, <1>11 DEF Read

\* A run is sure of as much when it has decided, and from then on it says it acts on it.
LEMMA DecideSure ==
    ASSUME TypeOK, NEW p \in Ops, Fits(p), calm[p] => Sure(p), calm'[p],
           ReportMatch(p) \/ PlanOnly(p) \/ ApplySome(p)
    PROVE  Sure(p)'
<1> USE DEF TypeOK, GoTo
<1>1. pc[p] = "decide" /\ UNCHANGED <<forge, view, at, done, failed, calm>>
  BY DEF ReportMatch, PlanOnly, ApplySome, Apply, Deciding
<1>2. done[p] = {} /\ failed[p] = {}
  <2>1. PassNumber(pc[p]) = 0
    BY <1>1, Places
  <2> QED
    BY <2>1, NothingReported
<1>3. Sure(p) /\ UNCHANGED core /\ \A r \in DeclRepos : r \in view'[p].settings => r \in settings'
  BY <1>1 DEF Sure, SettingsSure, forge, core
<1>4. CASE pc'[p] \in {"drifted", "planned", "aborted"}
  <2>1. pc'[p] \notin KnowsOrgs /\ done'[p] = {}
    BY <1>1, <1>2, <1>4, Places
  <2> QED
    BY <1>3, <1>4, <2>1, NothingKnown
<1>5. CASE pc'[p] \in {"matched", "orgs"}
  <2>1. /\ pc[p] \in KnowsRepos \ {"readTeams", "readRepos", "readHooks"}
        /\ pc'[p] \in KnowsRepos \ {"readTeams", "readRepos", "readHooks"}
        /\ pc[p] \in KnowsOrgs /\ pc'[p] \in KnowsOrgs /\ pc'[p] \notin TeamMidst \cup {"hookCheck"}
        /\ pc[p] \notin TeamMidst \cup {"hookCheck"}
    BY <1>1, <1>5 DEF KnowsRepos, KnowsOrgs, Executing, Passes, TeamMidst
  <2>2. \A o \in DeclOrgs : OrgSure(p, o)' /\ TeamSure(p, o)'
    BY <1>1, <1>3, <2>1 DEF Sure, OrgSure, TeamSure, HasReadTeam, TeamMidst, core, Decided
  <2>3. \A r \in DeclRepos : RepoSure(p, r)' /\ SettingsSure(p, r)' /\ HookSure(p, r)'
    BY <1>1, <1>3, <2>1 DEF Sure, RepoSure, SettingsSure, HookSure, HasReadHooks, core, Decided
  <2>4. PlanSure(p)'
    <3>1. CASE pc'[p] = "orgs"
      BY <3>1 DEF PlanSure, Reading
    <3>2. CASE pc'[p] = "matched"
      <4>1. IsNoop(view[p]) /\ VisibilityDrift(view[p]) = {}
        BY <1>1, <3>2 DEF ReportMatch, PlanOnly, ApplySome, Apply
      <4>2. view'[p].private = private'
        BY <1>1, <1>3 DEF Sure, PlanSure, core
      <4> QED
        BY <1>1, <3>2, <4>1, <4>2 DEF PlanSure
    <3> QED
      BY <1>5, <3>1, <3>2
  <2> QED
    BY <2>2, <2>3, <2>4 DEF Sure
<1>6. pc'[p] \in {"drifted", "planned", "aborted", "matched", "orgs"}
  BY <1>1 DEF ReportMatch, PlanOnly, ApplySome, Apply
<1> QED
  BY <1>4, <1>5, <1>6

\* A command that begins knows nothing, and drop-empty relies on nothing it knew.
LEMMA BeginSure ==
    ASSUME TypeOK, NEW p \in Ops, Fits(p), calm[p] => Sure(p), calm'[p], Start(p) \/ DropEmpty(p)
    PROVE  Sure(p)'
<1> USE DEF TypeOK, GoTo
<1>1. BlankView.settings = {}
  BY DEF BlankView
<1>2. CASE Start(p)
  <2>1. pc'[p] = "listOrgs" /\ done'[p] = {} /\ view'[p] = BlankView
    BY <1>2 DEF Start
  <2> QED
    BY <1>1, <2>1, NothingKnown, Places
<1>3. ASSUME NEW r \in Repos, ReadShell(p, r) PROVE Sure(p)'
  <2>1. pc'[p] \in {"drop", "refused"} /\ done'[p] = {} /\ view'[p] = BlankView
    BY <1>3 DEF ReadShell
  <2> QED
    BY <1>1, <2>1, NothingKnown, Places
<1>4. CASE DropShell(p)
  <2>1. pc[p] = "drop" /\ pc'[p] = "dropped" /\ UNCHANGED <<view, done>> /\ calm[p]
    BY <1>4 DEF DropShell, InMidst, NoReport, Disturb
  <2>2. done'[p] = {} /\ view'[p].settings = {}
    <3>1. PassNumber(pc[p]) = 0
      BY <2>1 DEF PassNumber, TeamMidst
    <3> QED
      BY <2>1, <3>1, NothingReported DEF Sure, PlanSure
  <2> QED
    BY <2>1, <2>2, NothingKnown, Places
<1> QED
  BY <1>2, <1>3, <1>4 DEF DropEmpty

\* From one pass to the next nothing is learnt and nothing is lost.
LEMMA EndPassSure ==
    ASSUME TypeOK, NEW p \in Ops, calm[p] => Sure(p), calm'[p], EndPass(p)
    PROVE  Sure(p)'
<1> USE DEF TypeOK, GoTo
<1>1. /\ UNCHANGED <<view, at, done, failed>> /\ UNCHANGED core /\ Sure(p)
      /\ todo[p] = {} /\ todo'[p] = Worklist(p, pc'[p])
      /\ pc[p] \in DOMAIN NextPass /\ pc'[p] = NextPass[pc[p]]
  BY DEF EndPass, forge, core
<1>2. /\ pc[p] \in KnowsRepos /\ pc'[p] \in KnowsRepos \ {"readTeams"}
      /\ pc[p] \in KnowsOrgs /\ pc'[p] \in KnowsOrgs
      /\ pc'[p] # "readHooks" => pc'[p] \in KnowsRepos \ {"readTeams", "readRepos"} \/ pc'[p] = "readRepos"
      /\ pc'[p] \in (KnowsRepos \cap Reading) \cup {"decide", "matched"} => pc[p] \in KnowsRepos \cap Reading
      /\ pc'[p] \notin {"matched", "drop"}
      /\ {pc[p], pc'[p]} \cap (TeamMidst \cup {"hookCheck"}) = {}
      /\ pc[p] \in {"readTeams", "readRepos"} => pc'[p] \in {"readRepos", "readHooks"}
  BY <1>1 DEF NextPass, KnowsRepos, KnowsOrgs, Reading, Executing, Passes, TeamMidst
<1>3. PlanSure(p)'
  BY <1>1, <1>2 DEF Sure, PlanSure, core
<1>4. \A o \in DeclOrgs : OrgSure(p, o)' /\ TeamSure(p, o)'
  BY <1>1, <1>2 DEF Sure, OrgSure, TeamSure, HasReadTeam, TeamMidst, Decided, core
<1>5. \A r \in DeclRepos : RepoSure(p, r)' /\ SettingsSure(p, r)'
  BY <1>1, <1>2 DEF Sure, RepoSure, SettingsSure, Decided, core
<1>6. pc'[p] = "readHooks" => todo'[p] = DeclRepos
  BY <1>1 DEF Worklist
<1>7. \A r \in DeclRepos : HookSure(p, r)'
  <2>1. ASSUME NEW r \in DeclRepos, HasReadHooks(p, r)' PROVE HasReadHooks(p, r)
    BY <1>1, <1>2, <1>6, <2>1 DEF HasReadHooks
  <2> QED
    BY <1>1, <1>2, <2>1 DEF Sure, HookSure, Decided, core
<1> QED
  BY <1>3, <1>4, <1>5, <1>7 DEF Sure

\* What is left of a pass has not been reported on.
LEMMA LeftIsUndecided ==
    ASSUME TypeOK, NEW p \in Ops, Fits(p), NEW k \in 1..6, PassNumber(pc[p]) = k, NEW x \in Left(p)
    PROVE  ~Decided(p, <<KindOf[k], x>>) /\ x \in Work(p, k)
<1>1. x \in Work(p, k)
  BY DEF Fits, LeftFits
<1>2. x \notin Upto(p, k, Work(p, k))
  BY DEF Upto
<1>3. x \in Orgs \cup Repos
  <2>1. todo[p] \subseteq Orgs \cup Repos
    BY DEF TypeOK
  <2>2. pc[p] \in Midst => at[p] \in Orgs \cup Repos
    BY DeclarationAssumption DEF TypeOK, AtFits, Midst
  <2> QED
    BY <2>1, <2>2 DEF Left
<1>4. CASE k \notin {3, 4}
  <2>1. Reported(p, KindOf[k]) = Upto(p, k, Work(p, k))
    BY <1>4 DEF Fits, ReportFits, KindOf
  <2> QED
    BY <1>1, <1>2, <1>3, <2>1 DEF Reported, Decided
<1>5. CASE k \in {3, 4}
  <2>1. Reported(p, KindOf[k]) = Upto(p, 3, Work(p, 3)) \cup Upto(p, 4, Work(p, 4))
    BY <1>5 DEF Fits, ReportFits, KindOf
  <2>2. Work(p, 3) \cap Work(p, 4) = {}
    BY WorkForms DEF WorkAs, InPreparedOrg, ReposToCreate, ReposToMigrate
  <2>3. x \notin Upto(p, 3, Work(p, 3)) \cup Upto(p, 4, Work(p, 4))
    BY <1>1, <1>5, <2>2 DEF Upto
  <2> QED
    BY <1>1, <1>3, <2>1, <2>3 DEF Reported, Decided
<1> QED
  BY <1>4, <1>5

\* One target's report is another's no business.
LEMMA ReportOfOne ==
    ASSUME TypeOK, NEW p \in Ops, NEW t, Succeed(p, t) \/ Fail(p, t) \/ NoReport
    PROVE  /\ \A u : u # t => /\ u \in done'[p] <=> u \in done[p]
                              /\ u \in failed'[p] <=> u \in failed[p]
           /\ Succeed(p, t) \/ Fail(p, t) => Decided(p, t)'
           /\ ~Succeed(p, t) => done'[p] = done[p]
BY DEF TypeOK, Succeed, Fail, NoReport, Decided

\* Creating an organization.
LEMMA PostOrgSure ==
    ASSUME TypeOK, NEW p \in Ops, Sure(p), NEW o \in DeclOrgs, PostOrg(p, o)
    PROVE  Sure(p)'
<1>1. /\ pc[p] = "orgs" /\ pc'[p] = "orgs" /\ UNCHANGED view
      /\ Succeed(p, <<"org", o>>) \/ Fail(p, <<"org", o>>)
      /\ UNCHANGED <<team, member, repos, private, settings, hooks>>
      /\ \A u \in orgs : u \in orgs'
      /\ \A u \in orgs' : u \in orgs \/ u = o
      /\ Succeed(p, <<"org", o>>) => o \in orgs' \/ Fail(p, <<"org", o>>)
  BY DEF PostOrg, Call, CreateOrg, Rejected, forge, orgPart, repoPart, hookPart, Succeed, Fail
<1>2. pc[p] \in Executing \ (TeamMidst \cup {"hookCheck"})
  BY <1>1 DEF Executing, Passes, TeamMidst
<1>3. /\ \A u : u # <<"org", o>> => /\ u \in done'[p] <=> u \in done[p]
                                    /\ u \in failed'[p] <=> u \in failed[p]
      /\ Decided(p, <<"org", o>>)'
      /\ ~Succeed(p, <<"org", o>>) => done'[p] = done[p]
  BY <1>1, ReportOfOne
<1>4. ASSUME NEW u \in DeclOrgs PROVE OrgSure(p, u)'
  BY <1>1, <1>2, <1>3 DEF Sure, OrgSure, KnowsOrgs, Decided, Fail
<1>5. \A u \in DeclOrgs : TeamSure(p, u)'
  BY <1>1, <1>2, <1>3, TeamsLeft DEF Sure
<1>6. \A r \in DeclRepos : RepoSure(p, r)' /\ SettingsSure(p, r)' /\ HookSure(p, r)'
  BY <1>1, <1>2, <1>3, ReposLeft, SettingsLeft, HooksLeft DEF Sure
<1> QED
  BY <1>1, <1>2, <1>4, <1>5, <1>6, PlanLeft DEF Sure

\* Creating or migrating a repository.
LEMMA PostRepoSure ==
    ASSUME TypeOK, NEW p \in Ops, Sure(p), NEW r \in DeclRepos,
           PostRepo(p, r) \/ PostMigration(p, r) \/ MigrationWithoutToken(p, r)
    PROVE  Sure(p)'
<1>1. /\ pc[p] \in {"create", "migrate"} /\ pc'[p] = pc[p] /\ UNCHANGED view
      /\ Succeed(p, <<"repo", r>>) \/ Fail(p, <<"repo", r>>)
      /\ UNCHANGED <<orgs, team, member, settings, hooks>>
      /\ \A u \in repos : u \in repos'
      /\ \A u \in repos' : u \in repos \/ u = r
      /\ Succeed(p, <<"repo", r>>) => r \in repos' \/ Fail(p, <<"repo", r>>)
  BY DEF PostRepo, PostMigration, MigrationWithoutToken, Call, CreateRepo, MigrateRepo, Rejected,
         forge, orgPart, repoPart, hookPart, Succeed, Fail
<1>2. pc[p] \in Executing \ (TeamMidst \cup {"hookCheck"})
  BY <1>1 DEF Executing, Passes, TeamMidst
<1>3. /\ \A u : u # <<"repo", r>> => /\ u \in done'[p] <=> u \in done[p]
                                     /\ u \in failed'[p] <=> u \in failed[p]
      /\ Decided(p, <<"repo", r>>)'
      /\ ~Succeed(p, <<"repo", r>>) => done'[p] = done[p]
  BY <1>1, ReportOfOne
<1>4. Fail(p, <<"repo", r>>) => done'[p] = done[p]
  BY DEF Fail
<1>5. ASSUME NEW u \in DeclRepos PROVE RepoSure(p, u)'
  BY <1>1, <1>2, <1>3, <1>4 DEF Sure, RepoSure, KnowsRepos, KnowsOrgs, Decided, Executing
<1>6. \A u \in DeclOrgs : OrgSure(p, u)' /\ TeamSure(p, u)'
  BY <1>1, <1>2, <1>3, TeamsLeft, OrgsLeft DEF Sure
<1>7. \A u \in DeclRepos : SettingsSure(p, u)' /\ HookSure(p, u)'
  BY <1>1, <1>2, <1>3, SettingsLeft, HooksLeft DEF Sure
<1> QED
  BY <1>1, <1>2, <1>5, <1>6, <1>7, PlanLeft DEF Sure

\* ensure_settings: what is asserted is what has been read back
LEMMA SettingsStepSure ==
    ASSUME TypeOK, NEW p \in Ops, Sure(p),
           (\E r \in DeclRepos : PatchRepo(p, r)) \/ CheckRepo(p)
    PROVE  Sure(p)'
<1>1. PICK r \in DeclRepos :
        /\ Succeed(p, <<"settings", r>>) \/ Fail(p, <<"settings", r>>) \/ NoReport
        /\ Succeed(p, <<"settings", r>>) => r \in settings \/ done'[p] = done[p]
  <2>1. CASE \E r \in DeclRepos : PatchRepo(p, r)
    <3>1. PICK r \in DeclRepos : PatchRepo(p, r)
      BY <2>1
    <3>2. (NoReport \/ Fail(p, <<"settings", r>>)) /\ done'[p] = done[p]
      BY <3>1 DEF PatchRepo, NoReport, Fail
    <3> QED
      BY <3>2
  <2>2. CASE CheckRepo(p)
    <3>1. at[p] \in DeclRepos
      BY <2>2 DEF CheckRepo, InMidst, TypeOK, AtFits, RepoMidst
    <3> QED
      BY <2>2, <3>1 DEF CheckRepo, Verified, Succeed, Fail
  <2> QED
    BY <2>1, <2>2
<1>2. /\ pc[p] \in {"configure", "settingsCheck"} /\ pc'[p] \in {"configure", "settingsCheck"}
      /\ UNCHANGED <<view, orgs, team, member, repos, hooks>>
      /\ \A u \in settings : u \in settings'
  BY DEF PatchRepo, CheckRepo, InMidst, Verified, EditRepo, Rejected, GoTo, TypeOK,
         forge, orgPart, repoPart, hookPart
<1>3. /\ pc[p] \in Executing \ (TeamMidst \cup {"hookCheck"})
      /\ pc'[p] \in Executing \ (TeamMidst \cup {"hookCheck"})
  BY <1>2 DEF Executing, Passes, TeamMidst
<1>4. /\ \A u : u # <<"settings", r>> => /\ u \in done'[p] <=> u \in done[p]
                                         /\ u \in failed'[p] <=> u \in failed[p]
      /\ ~Succeed(p, <<"settings", r>>) => done'[p] = done[p]
  BY <1>1, ReportOfOne
<1>5. \A u \in DeclOrgs : OrgSure(p, u)' /\ TeamSure(p, u)'
  BY <1>2, <1>3, <1>4, TeamsLeft, OrgsLeft DEF Sure
<1>6. \A u \in DeclRepos : RepoSure(p, u)' /\ HookSure(p, u)'
  BY <1>2, <1>3, <1>4, ReposLeft, HooksLeft DEF Sure
<1>7. \A u \in DeclRepos : SettingsSure(p, u)'
  BY <1>1, <1>2, <1>4 DEF Sure, SettingsSure
<1> QED
  BY <1>3, <1>5, <1>6, <1>7, PlanLeft DEF Sure

\* ensure_webhook: what is asserted is what has been read back, here too.
LEMMA HookStepSure ==
    ASSUME TypeOK, NEW p \in Ops, Sure(p), Fits(p),
           \/ \E r \in DeclRepos : SendHook(p, r) \/ HookWithoutSecret(p, r)
           \/ CheckHook(p)
    PROVE  Sure(p)'
<1>1. PICK r \in DeclRepos :
        /\ r \in Left(p)
        /\ \A u \in Repos : u # r => hooks'[u] = hooks[u]
        /\ \/ Fail(p, <<"hook", r>>)
           \/ Succeed(p, <<"hook", r>>) /\ FirstHook(hooks[r]).right /\ UNCHANGED hooks
           \/ NoReport /\ pc'[p] = "hookCheck" /\ at'[p] = r
        /\ pc[p] = "hookCheck" => at[p] = r /\ pc'[p] = "hook"
        /\ pc'[p] = "hookCheck" => at'[p] = r
  <2>1. CASE \E r \in DeclRepos : SendHook(p, r) \/ HookWithoutSecret(p, r)
    <3>1. PICK r \in DeclRepos : SendHook(p, r) \/ HookWithoutSecret(p, r)
      BY <2>1
    <3>2. pc[p] = "hook" /\ r \in Left(p)
      BY <3>1 DEF SendHook, HookWithoutSecret, Left
    <3>3. \A u \in Repos : u # r => hooks'[u] = hooks[u]
      BY <3>1 DEF SendHook, HookWithoutSecret, MayWriteHook, WriteHook, HookWrittenAmiss, CreateHook, EditHook, Rejected,
                  TypeOK, ForgeTypeOK, forge
    <3>4. \/ Fail(p, <<"hook", r>>) /\ pc'[p] = "hook"
          \/ NoReport /\ pc'[p] = "hookCheck" /\ at'[p] = r
      BY <3>1, <3>2 DEF SendHook, HookWithoutSecret, GoTo, TypeOK
    <3> QED
      BY <3>2, <3>3, <3>4
  <2>2. CASE CheckHook(p)
    <3>1. /\ at[p] \in DeclRepos /\ pc[p] = "hookCheck" /\ pc'[p] = "hook"
          /\ at[p] \in Left(p)
      BY <2>2 DEF CheckHook, InMidst, Verified, GoTo, TypeOK, AtFits, RepoMidst, Left, Midst
    <3>2. UNCHANGED hooks
      BY <2>2 DEF CheckHook, Verified, forge
    <3> QED
      BY <2>2, <3>1, <3>2 DEF CheckHook, Verified
  <2> QED
    BY <2>1, <2>2
<1>2. /\ pc[p] \in {"hook", "hookCheck"} /\ pc'[p] \in {"hook", "hookCheck"}
      /\ UNCHANGED <<view, orgs, team, member, repos, settings>>
  BY DEF SendHook, HookWithoutSecret, CheckHook, InMidst, Verified, WriteHook, HookWrittenAmiss,
         CreateHook, EditHook, Rejected, GoTo, TypeOK, forge, orgPart, repoPart, hookPart
<1>3. /\ pc[p] \in Executing \ TeamMidst /\ pc'[p] \in Executing \ TeamMidst
      /\ PassNumber(pc[p]) = 6
      /\ pc[p] \in KnowsRepos \ {"readTeams", "readRepos", "readHooks"}
  BY <1>2 DEF Executing, Passes, TeamMidst, PassNumber, KnowsRepos, KnowsOrgs
<1>4. /\ \A u : u # <<"hook", r>> => /\ u \in done'[p] <=> u \in done[p]
                                     /\ u \in failed'[p] <=> u \in failed[p]
      /\ ~Succeed(p, <<"hook", r>>) => done'[p] = done[p]
      /\ Succeed(p, <<"hook", r>>) \/ Fail(p, <<"hook", r>>) => Decided(p, <<"hook", r>>)'
  BY <1>1, ReportOfOne
<1>5. \A u \in DeclOrgs : OrgSure(p, u)' /\ TeamSure(p, u)'
  BY <1>2, <1>3, <1>4, TeamsLeft, OrgsLeft DEF Sure
<1>6. \A u \in DeclRepos : RepoSure(p, u)' /\ SettingsSure(p, u)'
  BY <1>2, <1>3, <1>4, ReposLeft, SettingsLeft DEF Sure
<1>7. <<"hook", r>> \notin done[p]
  BY <1>1, <1>3, LeftIsUndecided, Kinds DEF Decided
<1>8. HookSure(p, r)'
  <2>1. CASE Fail(p, <<"hook", r>>)
    BY <1>4, <1>7, <2>1 DEF HookSure, Fail
  <2>2. CASE Succeed(p, <<"hook", r>>) /\ FirstHook(hooks[r]).right /\ UNCHANGED hooks
    BY <1>4, <2>2 DEF HookSure
  <2>3. CASE NoReport /\ pc'[p] = "hookCheck" /\ at'[p] = r
    BY <1>7, <2>3 DEF HookSure, NoReport
  <2> QED
    BY <1>1, <2>1, <2>2, <2>3
<1>9. ASSUME NEW u \in DeclRepos, u # r PROVE HookSure(p, u)'
  <2>1. HookSure(p, u) /\ hooks'[u] = hooks[u] /\ HasReadHooks(p, u)
    BY <1>1, <1>3, <1>9, DeclarationAssumption DEF Sure, HasReadHooks
  <2>2. Decided(p, <<"hook", u>>)' <=> Decided(p, <<"hook", u>>)
    BY <1>4, <1>9 DEF Decided
  <2>3. <<"hook", u>> \in done'[p] <=> <<"hook", u>> \in done[p]
    BY <1>4, <1>9
  <2> QED
    BY <1>1, <1>2, <1>9, <2>1, <2>2, <2>3 DEF HookSure
<1> QED
  BY <1>3, <1>5, <1>6, <1>8, <1>9, PlanLeft DEF Sure

\* Where ensure_team is, and what is left of its knowledge of the other organizations.
InTeams == {"teams"} \cup TeamMidst

\* The organizations a step is not about.
LEMMA OtherTeamsLeft ==
    ASSUME NEW p \in Ops, NEW u, TeamSure(p, u), pc[p] \in InTeams, pc'[p] \in InTeams, view'[p] = view[p],
           team'[u] = team[u], u \in member => u \in member',
           pc[p] \in TeamMidst => at[p] # u, pc'[p] \in TeamMidst => at'[p] # u,
           <<"team", u>> \in done'[p] <=> <<"team", u>> \in done[p],
           <<"team", u>> \in failed'[p] <=> <<"team", u>> \in failed[p]
    PROVE  TeamSure(p, u)'
BY DEF TeamSure, HasReadTeam, KnowsRepos, KnowsOrgs, Executing, Passes, InTeams, TeamMidst, Decided

\* The organization it goes on with.
LEMMA TeamGoesOn ==
    ASSUME NEW p \in Ops, NEW o, pc'[p] \in TeamMidst, at'[p] = o, <<"team", o>> \notin done'[p],
           pc'[p] = "teamEdit" => team'[o] # "absent",
           pc'[p] = "teamCheck" => team'[o] \in {"full"} \cup PartialGrants,
           pc'[p] = "teamMember" => team'[o] \in Grants
    PROVE  TeamSure(p, o)'
BY DEF TeamSure

\* The organization it is done with.
LEMMA TeamIsDecided ==
    ASSUME NEW p \in Ops, NEW o, pc'[p] = "teams", Decided(p, <<"team", o>>)',
           <<"team", o>> \in done'[p] => o \in member' /\ team'[o] \in Grants
    PROVE  TeamSure(p, o)'
BY DEF TeamSure, HasReadTeam, TeamMidst

\* What a step of ensure_team does with the organization it is about.
TeamStep(p, o) ==
    /\ pc[p] \in InTeams /\ pc'[p] \in InTeams /\ o \in Left(p)
    /\ UNCHANGED <<view, orgs, repos, settings, hooks>>
    /\ \A u \in Orgs : u # o => team'[u] = team[u] /\ (u \in member => u \in member')
    /\ pc[p] \in TeamMidst => at[p] = o
    /\ pc'[p] \in TeamMidst => at'[p] = o
    /\ \/ /\ NoReport
          /\ pc'[p] \in TeamMidst
          /\ pc'[p] = "teamEdit" => team'[o] # "absent"
          /\ pc'[p] = "teamCheck" => team'[o] \in {"full"} \cup PartialGrants
          /\ pc'[p] = "teamMember" => team'[o] \in Grants
       \/ Fail(p, <<"team", o>>) /\ pc'[p] = "teams"
       \/ Succeed(p, <<"team", o>>) /\ pc'[p] = "teams" /\ o \in member' /\ team'[o] \in Grants

\* Every step of ensure_team is such a step.
LEMMA TeamStepForm ==
    ASSUME TypeOK, NEW p \in Ops, Sure(p), EnsureTeam(p)
    PROVE  \E o \in DeclOrgs : TeamStep(p, o)
<1> USE DEF TypeOK, ForgeTypeOK, GoTo, TeamMidst, InTeams
<1>1. ASSUME NEW o \in DeclOrgs, GetTeam(p, o) PROVE TeamStep(p, o)
  <2>1. /\ pc[p] = "teams" /\ o \in Left(p)
        /\ UNCHANGED <<view, orgs, repos, settings, hooks, team, member>>
        /\ \/ /\ NoReport /\ at'[p] = o /\ pc'[p] \in {"teamCreate", "teamMember", "teamEdit"}
              /\ pc'[p] = "teamMember" => team[o] = "full"
              /\ pc'[p] = "teamEdit" => team[o] # "absent"
           \/ Fail(p, <<"team", o>>) /\ pc'[p] = "teams"
    BY <1>1 DEF GetTeam, Left, forge, TeamNeedsConvergence
  <2> QED
    BY <2>1 DEF TeamStep, Grants
<1>2. ASSUME pc[p] \in TeamMidst
      PROVE  at[p] \in DeclOrgs /\ at[p] \in Orgs /\ at[p] \in Left(p)
  BY <1>2, DeclarationAssumption DEF AtFits, Left, Midst
<1>3. CASE PostTeam(p)
  <2>1. pc[p] = "teamCreate" /\ UNCHANGED <<view, orgs, member, repos, settings, hooks>>
    BY <1>3 DEF PostTeam, InMidst, WriteTeam, Rejected, repoPart, hookPart, forge
  <2>2. \A u \in Orgs : u # at[p] => team'[u] = team[u]
    BY <1>3, <1>2, <2>1 DEF PostTeam, InMidst, WriteTeam, Rejected, forge
  <2>3. \/ pc'[p] = "teamReget" /\ at'[p] = at[p] /\ NoReport
        \/ pc'[p] = "teams" /\ Fail(p, <<"team", at[p]>>)
    BY <1>3 DEF PostTeam, InMidst, GoOn, GiveUp
  <2>4. TeamStep(p, at[p])
    BY <1>2, <2>1, <2>2, <2>3 DEF TeamStep
  <2> QED
    BY <1>2, <2>1, <2>4
<1>4. CASE RegetTeam(p)
  <2>1. pc[p] = "teamReget" /\ UNCHANGED <<view, orgs, team, member, repos, settings, hooks>>
    BY <1>4 DEF RegetTeam, InMidst, forge
  <2>2. \/ pc'[p] = "teamEdit" /\ at'[p] = at[p] /\ NoReport /\ team[at[p]] # "absent"
        \/ pc'[p] = "teamMember" /\ at'[p] = at[p] /\ NoReport /\ team[at[p]] = "full"
        \/ pc'[p] = "teams" /\ Fail(p, <<"team", at[p]>>)
    BY <1>4 DEF RegetTeam, InMidst, GoOn, GiveUp, TeamNeedsConvergence
  <2>3. TeamStep(p, at[p])
    BY <1>2, <2>1, <2>2 DEF TeamStep, Grants
  <2> QED
    BY <1>2, <2>1, <2>3
<1>5. CASE PatchTeam(p)
  <2>1. pc[p] = "teamEdit" /\ UNCHANGED <<view, orgs, member, repos, settings, hooks>>
    BY <1>5 DEF PatchTeam, InMidst, WriteTeam, Rejected, repoPart, hookPart, forge
  <2>2. \A u \in Orgs : u # at[p] => team'[u] = team[u]
    BY <1>5, <1>2, <2>1 DEF PatchTeam, InMidst, WriteTeam, Rejected, forge
  <2>3. \/ pc'[p] = "teamCheck" /\ at'[p] = at[p] /\ NoReport /\ team'[at[p]] \in {"full"} \cup PartialGrants
        \/ pc'[p] = "teams" /\ Fail(p, <<"team", at[p]>>)
    <3>1. \A t : WriteTeam(at[p], t) => team'[at[p]] = t
      BY <1>2, <2>1 DEF WriteTeam
    <3> QED
      BY <1>5, <3>1 DEF PatchTeam, InMidst, GoOn, GiveUp
  <2>4. TeamStep(p, at[p])
    BY <1>2, <2>1, <2>2, <2>3 DEF TeamStep
  <2> QED
    BY <1>2, <2>1, <2>4
<1>6. CASE CheckTeam(p)
  <2>1. pc[p] = "teamCheck" /\ UNCHANGED <<view, orgs, team, member, repos, settings, hooks>>
    BY <1>6 DEF CheckTeam, InMidst, forge
  <2>2. \/ pc'[p] = "teamMember" /\ at'[p] = at[p] /\ NoReport /\ TeamAsserts(team[at[p]])
        \/ pc'[p] = "teams" /\ Fail(p, <<"team", at[p]>>)
    BY <1>6 DEF CheckTeam, InMidst, GoOn, GiveUp
  <2>3. TeamAsserts(team[at[p]]) => team[at[p]] \in Grants
    BY <1>2, <2>1 DEF Sure, TeamSure, TeamAsserts, Grants
  <2>4. TeamStep(p, at[p])
    BY <1>2, <2>1, <2>2, <2>3 DEF TeamStep
  <2> QED
    BY <1>2, <2>1, <2>4
<1>7. CASE PutMember(p)
  <2>1. pc[p] = "teamMember" /\ pc'[p] = "teams" /\ UNCHANGED <<view, orgs, team, repos, settings, hooks>>
    BY <1>7 DEF PutMember, InMidst, Call, AddTeamMember, Rejected, repoPart, hookPart, forge
  <2>2. \A u \in Orgs : u \in member => u \in member'
    BY <1>7 DEF PutMember, Call, AddTeamMember, Rejected, forge
  <2>3. \/ Fail(p, <<"team", at[p]>>)
        \/ Succeed(p, <<"team", at[p]>>) /\ at[p] \in member'
    BY <1>7 DEF PutMember, Call, AddTeamMember
  <2>4. team[at[p]] \in Grants
    BY <1>2, <2>1 DEF Sure, TeamSure
  <2>5. TeamStep(p, at[p])
    BY <1>2, <2>1, <2>2, <2>3, <2>4 DEF TeamStep
  <2> QED
    BY <1>2, <2>1, <2>5
<1> QED
  BY <1>1, <1>3, <1>4, <1>5, <1>6, <1>7 DEF EnsureTeam

\* ensure_team.
LEMMA TeamStepSure ==
    ASSUME TypeOK, NEW p \in Ops, Sure(p), Fits(p), EnsureTeam(p)
    PROVE  Sure(p)'
<1>1. PICK o \in DeclOrgs : TeamStep(p, o)
  BY TeamStepForm
<1>2. /\ pc[p] \in Executing \ {"hookCheck"} /\ pc'[p] \in Executing \ {"hookCheck"}
      /\ PassNumber(pc[p]) = 2
  BY <1>1 DEF TeamStep, InTeams, Executing, Passes, TeamMidst, PassNumber
<1>3. /\ \A u : u # <<"team", o>> => /\ u \in done'[p] <=> u \in done[p]
                                     /\ u \in failed'[p] <=> u \in failed[p]
      /\ ~Succeed(p, <<"team", o>>) => done'[p] = done[p]
      /\ Succeed(p, <<"team", o>>) \/ Fail(p, <<"team", o>>) => Decided(p, <<"team", o>>)'
  BY <1>1, ReportOfOne DEF TeamStep
<1>4. \A r \in DeclRepos : RepoSure(p, r)' /\ SettingsSure(p, r)' /\ HookSure(p, r)'
  BY <1>1, <1>2, <1>3, ReposLeft, SettingsLeft, HooksLeft DEF Sure, TeamStep
<1>5. \A u \in DeclOrgs : OrgSure(p, u)'
  BY <1>1, <1>2, <1>3, OrgsLeft DEF Sure, TeamStep
<1>6. <<"team", o>> \notin done[p]
  BY <1>1, <1>2, LeftIsUndecided, Kinds DEF Decided, TeamStep
<1>7. TeamSure(p, o)'
  <2>1. CASE NoReport
    <3>1. <<"team", o>> \notin done'[p]
      BY <1>6, <2>1 DEF NoReport
    <3>2. CASE pc'[p] \in TeamMidst
      BY <1>1, <2>1, <3>1, <3>2, TeamGoesOn DEF TeamStep
    <3> QED
      BY <1>1, <1>3, <3>1, <3>2, TeamIsDecided DEF TeamStep
  <2>2. CASE Fail(p, <<"team", o>>) /\ pc'[p] = "teams"
    <3>1. <<"team", o>> \notin done'[p]
      BY <1>6, <2>2 DEF Fail
    <3> QED
      BY <1>3, <2>2, <3>1, TeamIsDecided
  <2>3. CASE Succeed(p, <<"team", o>>) /\ pc'[p] = "teams" /\ o \in member' /\ team'[o] \in Grants
    BY <1>3, <2>3, TeamIsDecided
  <2> QED
    BY <1>1, <2>1, <2>2, <2>3 DEF TeamStep
<1>8. ASSUME NEW u \in DeclOrgs, u # o PROVE TeamSure(p, u)'
  <2>1. u \in Orgs /\ TeamSure(p, u) /\ <<"team", u>> # <<"team", o>>
    BY <1>8, DeclarationAssumption DEF Sure
  <2> QED
    BY <1>1, <1>3, <1>8, <2>1, OtherTeamsLeft DEF TeamStep
<1> QED
  BY <1>2, <1>4, <1>5, <1>7, <1>8, PlanLeft DEF Sure

\* What a run writes leaves it as calm as it was.
LEMMA ExecuteCalm ==
    ASSUME TypeOK, NEW p \in Ops, Execute(p), calm'[p]
    PROVE  calm[p]
<1> USE DEF TypeOK
<1>1. CASE EnsureTeam(p)
  BY <1>1 DEF EnsureTeam, GetTeam, PostTeam, RegetTeam, PatchTeam, CheckTeam, PutMember, Call, Disturb
<1>2. CASE \/ \E o \in DeclOrgs : PostOrg(p, o)
           \/ \E r \in DeclRepos : \/ PostRepo(p, r)
                                   \/ PostMigration(p, r)
                                   \/ MigrationWithoutToken(p, r)
                                   \/ HookWithoutSecret(p, r)
  BY <1>2 DEF PostOrg, PostRepo, PostMigration, MigrationWithoutToken, HookWithoutSecret, Call, Disturb
<1>3. CASE \/ \E r \in DeclRepos : PatchRepo(p, r) \/ SendHook(p, r)
           \/ CheckRepo(p)
           \/ CheckHook(p)
  BY <1>3 DEF PatchRepo, SendHook, CheckRepo, CheckHook, Verified, Disturb
<1> QED
  BY <1>1, <1>2, <1>3 DEF Execute

\* Every step of execute.
LEMMA ExecuteSure ==
    ASSUME TypeOK, NEW p \in Ops, Sure(p), Fits(p), Execute(p)
    PROVE  Sure(p)'
BY PostOrgSure, PostRepoSure, SettingsStepSure, HookStepSure, TeamStepSure DEF Execute

\* Every step, whoever takes it.
LEMMA StepSure ==
    ASSUME TypeOK, WellFormedForge, [Next]_vars, NEW q \in Ops, Fits(q), calm[q] => Sure(q), calm'[q]
    PROVE  Sure(q)'
<1>1. ASSUME NEW p \in Ops, Start(p) \/ Run(p) \/ ApplySome(p) \/ DropEmpty(p)
      PROVE  Sure(q)'
  <2>1. CASE p = q
    <3>1. CASE EndPass(q)
      BY <3>1, EndPassSure
    <3>2. CASE Execute(q)
      BY <3>2, ExecuteSure, ExecuteCalm
    <3>3. CASE Read(q)
      BY <3>3, ReadSure
    <3>4. CASE ReportMatch(q) \/ PlanOnly(q) \/ ApplySome(q)
      BY <3>4, DecideSure
    <3>5. CASE Start(q) \/ DropEmpty(q)
      BY <3>5, BeginSure
    <3> QED
      BY <1>1, <2>1, <3>1, <3>2, <3>3, <3>4, <3>5 DEF Run
  <2>2. CASE p # q
    BY <1>1, <2>2, OthersSame, OthersDisturbed, SameSure
  <2> QED
    BY <2>1, <2>2
<1>2. CASE EditByHand
  BY <1>2 DEF EditByHand
<1>3. CASE Import \/ UNCHANGED vars
  <2>1. Same(q) /\ UNCHANGED core /\ calm[q]
    BY <1>3 DEF Import, ImportArrives, vars, ops, forge, orgPart, hookPart, Same, core
  <2> QED
    BY <2>1, SameSure
<1> QED
  BY <1>1, <1>2, <1>3 DEF Next

\* Before any command nothing is known.
LEMMA InitSure == Init => ViewsAreSure
<1> SUFFICES ASSUME Init, NEW p \in Ops PROVE Sure(p)
  BY DEF ViewsAreSure
<1>1. /\ pc[p] = "idle" /\ done[p] = {} /\ failed[p] = {} /\ view[p].settings = {}
  BY DEF Init, BlankView
<1>2. pc[p] \notin KnowsOrgs /\ pc[p] \notin KnowsRepos /\ pc[p] \notin TeamMidst
  BY <1>1, Places DEF KnowsRepos, TeamMidst
<1> QED
  BY <1>1, <1>2 DEF Sure, PlanSure, OrgSure, TeamSure, RepoSure, SettingsSure, HookSure, HasReadTeam,
                    HasReadHooks, TeamMidst

\* What a run has read and done agrees with the forge at every moment, for as long as
\* nobody else has touched it since the run began, whatever fails or is lost.
THEOREM ViewsAgree == Spec => []ViewsAreSure
<1>1. TypeOK /\ WellFormedForge /\ ExactReport /\ ViewsAreSure /\ [Next]_vars => ViewsAreSure'
  BY StepSure DEF ExactReport, Fits, ViewsAreSure
<1> QED
  BY <1>1, InitSure, TypeCorrect, IntegrityKept, ReportIsExact, PTL DEF Spec

----------------------------------------------------------------------------
(* What follows for the calls a run has left, and for what it says.        *)

\* Of a finished pass, what was not failed was done.
LEMMA PassIsOver ==
    ASSUME NEW p \in Ops, Fits(p), NEW k \in 1..6, PassNumber(pc[p]) > k, NEW x \in Orgs \cup Repos
    PROVE  /\ x \in Work(p, k) => Decided(p, <<KindOf[k], x>>)
           /\ k \notin {3, 4} /\ Decided(p, <<KindOf[k], x>>) => x \in Work(p, k)
<1>1. Upto(p, k, Work(p, k)) = Work(p, k)
  BY PassNumberType DEF Upto
<1>2. Upto(p, k, Work(p, k)) \subseteq Reported(p, KindOf[k])
  BY DEF Fits, ReportFits, KindOf
<1>3. k \notin {3, 4} => Reported(p, KindOf[k]) = Upto(p, k, Work(p, k))
  BY DEF Fits, ReportFits, KindOf
<1> QED
  BY <1>1, <1>2, <1>3 DEF Reported, Decided

\* An organization not failed is there once the first pass is over.
LEMMA OrgIsThere ==
    ASSUME TypeOK, NEW p \in Ops, Fits(p), Sure(p), pc[p] \in KnowsOrgs, PassNumber(pc[p]) > 1,
           NEW o \in DeclOrgs, o \notin OrgFailed(p)
    PROVE  o \in orgs
<1>1. o \in Orgs /\ OrgSure(p, o)
  BY DeclarationAssumption DEF Sure
<1>2. CASE o \in view[p].orgs
  BY <1>1, <1>2 DEF OrgSure
<1>3. CASE o \notin view[p].orgs
  <2>1. o \in Work(p, 1)
    BY <1>3, WorkForms DEF WorkAs, OrgsToCreate
  <2>2. Decided(p, <<"org", o>>)
    BY <1>1, <2>1, PassIsOver, Kinds
  <2>3. <<"org", o>> \in done[p]
    BY <1>1, <2>2 DEF Decided, OrgFailed
  <2> QED
    BY <1>1, <2>3 DEF OrgSure
<1> QED
  BY <1>2, <1>3

\* Nor was a team of the second.
LEMMA TeamIsReady ==
    ASSUME TypeOK, NEW p \in Ops, Fits(p), Sure(p), PassNumber(pc[p]) > 2,
           NEW o, o \in TeamsToEnsure(view[p]), o \notin FailedOrgs(p)
    PROVE  <<"team", o>> \in done[p] /\ o \in DeclOrgs /\ o \in member /\ team[o] \in Grants
<1>1. o \in DeclOrgs /\ o \in Orgs
  BY DeclarationAssumption DEF TeamsToEnsure, Receiving, Missing, TeamsToConverge
<1>2. <<"org", o>> \notin failed[p] /\ <<"team", o>> \notin failed[p]
  BY <1>1 DEF FailedOrgs
<1>3. o \in Work(p, 2)
  BY <1>2, WorkForms DEF WorkAs, OrgFailed
<1>4. <<"team", o>> \in done[p]
  BY <1>1, <1>2, <1>3, PassIsOver, Kinds DEF Decided
<1> QED
  BY <1>1, <1>4 DEF Sure, TeamSure

\* A repository that was listed, or created, or migrated.
LEMMA RepoIsThere ==
    ASSUME TypeOK, NEW p \in Ops, Fits(p), Sure(p), pc[p] \in KnowsRepos, PassNumber(pc[p]) > 4,
           NEW r \in DeclRepos, r \notin FailedRepos(p)
    PROVE  r \in repos
<1>1. r \in Repos /\ RepoSure(p, r)
  BY DeclarationAssumption DEF Sure
<1>2. CASE r \in view[p].repos
  BY <1>1, <1>2 DEF RepoSure
<1>3. CASE r \notin view[p].repos
  <2>1. r \in Missing(view[p]) /\ OrgOf[r] \notin FailedOrgs(p) /\ <<"repo", r>> \notin failed[p]
    BY <1>1, <1>3 DEF Missing, FailedRepos
  <2>2. r \in Work(p, 3) \/ r \in Work(p, 4)
    BY <2>1, WorkForms DEF WorkAs, InPreparedOrg, ReposToCreate, ReposToMigrate
  <2>3. PassNumber(pc[p]) > 3
    BY PassNumberType
  <2>4. Decided(p, <<"repo", r>>)
    BY <1>1, <2>2, <2>3, PassIsOver, Kinds
  <2> QED
    BY <1>1, <2>1, <2>4 DEF Decided, RepoSure
<1> QED
  BY <1>2, <1>3

\* The first webhook of some is one of them.
LEMMA FirstHookIsOne ==
    ASSUME NEW hs, FirstHook(hs) # NoHook
    PROVE  FirstHook(hs) \in hs
BY DEF FirstHook

\* What is left to do at each pass can be done.
LEMMA NothingDoomed ==
    ASSUME TypeOK, WellFormedForge, NEW p \in Ops, Fits(p), Sure(p)
    PROVE  /\ pc[p] = "orgs" => \A o \in todo[p] : MayCreateOrg(o)
           /\ pc[p] = "teams" => todo[p] \subseteq orgs
           /\ pc[p] \in {"teamEdit", "teamMember"} => MayWriteTeam(at[p])
           /\ pc[p] = "create" => \A r \in todo[p] : MayCreateRepo(r)
           /\ pc[p] = "migrate" => \A r \in todo[p] : MayMigrateRepo(r)
           /\ pc[p] \in {"configure", "hook"} => todo[p] \subseteq repos
           /\ pc[p] = "hook" => \A r \in todo[p] : MayWriteHook(p, r)
<1>1. ASSUME NEW k \in 1..6, PassNumber(pc[p]) = k, NEW x \in todo[p]
      PROVE  ~Decided(p, <<KindOf[k], x>>) /\ x \in Work(p, k)
  BY <1>1, LeftIsUndecided DEF Left
<1>0. PassNumber(pc[p]) \in 1..6 => \A x \in todo[p] : x \in Work(p, PassNumber(pc[p]))
  BY <1>1
<1>2. \A l \in Passes : l \in KnowsRepos /\ l \in KnowsOrgs
  BY DEF KnowsRepos, KnowsOrgs, Executing, Passes
<1>3. ASSUME pc[p] = "orgs", NEW o \in todo[p] PROVE MayCreateOrg(o)
  <2>1. ~Decided(p, <<"org", o>>) /\ o \in Work(p, 1)
    BY <1>1, <1>3, PassPlaces, Kinds
  <2>2. o \in DeclOrgs /\ o \notin view[p].orgs
    BY <2>1, WorkForms DEF WorkAs, OrgsToCreate
  <2> QED
    BY <1>2, <1>3, <2>1, <2>2 DEF Sure, OrgSure, MayCreateOrg, Passes
<1>4. ASSUME pc[p] = "teams", NEW o \in todo[p] PROVE o \in orgs
  <2>1. o \in Work(p, 2)
    <3>1. PassNumber(pc[p]) = 2
      BY <1>4, PassPlaces
    <3> QED
      BY <1>0, <1>4, <3>1
  <2>2. o \in DeclOrgs /\ o \notin OrgFailed(p)
    BY <2>1, WorkForms, DeclarationAssumption DEF WorkAs, TeamsToEnsure, Receiving, Missing, TeamsToConverge
  <2> QED
    BY <1>2, <1>4, <2>2, OrgIsThere, PassPlaces DEF Passes
<1>5. ASSUME pc[p] \in {"teamEdit", "teamMember"} PROVE MayWriteTeam(at[p])
  <2>1. at[p] \in DeclOrgs
    BY <1>5 DEF TypeOK, AtFits, TeamMidst
  <2> QED
    BY <1>5, <2>1 DEF Sure, TeamSure, Grants, MayWriteTeam
<1>6. ASSUME pc[p] \in {"create", "migrate"}, NEW r \in todo[p]
      PROVE  /\ r \notin repos /\ OrgOf[r] \in member /\ OrgOf[r] \in orgs
             /\ TeamAsserts(team[OrgOf[r]])
  <2>1. ~Decided(p, <<"repo", r>>) /\ (r \in Work(p, 3) \/ r \in Work(p, 4)) /\ PassNumber(pc[p]) \in {3, 4}
    BY <1>1, <1>6, PassPlaces, Kinds
  <2>2. r \in Missing(view[p]) /\ OrgOf[r] \notin FailedOrgs(p)
    BY <2>1, WorkForms DEF WorkAs, InPreparedOrg, ReposToCreate, ReposToMigrate
  <2>3. r \in DeclRepos /\ r \notin view[p].repos /\ OrgOf[r] \in Orgs
    BY <2>2, DeclarationAssumption, OrgOfAssumption DEF Missing
  <2>4. OrgOf[r] \in TeamsToEnsure(view[p])
    BY <2>2 DEF TeamsToEnsure, Receiving
  <2>5. OrgOf[r] \in member /\ team[OrgOf[r]] \in Grants
    <3>1. PassNumber(pc[p]) > 2
      BY <2>1
    <3> QED
      BY <2>2, <2>4, <3>1, TeamIsReady
  <2>6. team[OrgOf[r]] # "absent" /\ TeamAsserts(team[OrgOf[r]])
    BY <2>5 DEF Grants, TeamAsserts
  <2>7. OrgOf[r] \in orgs
    BY <2>3, <2>6 DEF WellFormedForge
  <2>8. r \notin repos
    BY <1>2, <1>6, <2>1, <2>3 DEF Sure, RepoSure, Passes
  <2> QED
    BY <2>5, <2>6, <2>7, <2>8
<1>7. ASSUME pc[p] \in {"configure", "hook"}, NEW r \in todo[p] PROVE r \in repos /\ r \in DeclRepos
  <2>1. (r \in Work(p, 5) \/ r \in Work(p, 6)) /\ PassNumber(pc[p]) > 4
    <3>1. PassNumber(pc[p]) \in {5, 6}
      BY <1>7, PassPlaces
    <3> QED
      BY <1>0, <1>7, <3>1
  <2>2. r \in DeclRepos /\ r \notin FailedRepos(p)
    BY <2>1, WorkForms DEF WorkAs, ReposToConfigure, ReposToHook, SettingsNeedConvergence, WebhookNeedsConvergence
  <2> QED
    BY <1>2, <1>7, <2>1, <2>2, RepoIsThere DEF Passes
<1>8. ASSUME pc[p] = "hook", NEW r \in todo[p] PROVE MayWriteHook(p, r)
  <2>1. ~Decided(p, <<"hook", r>>)
    BY <1>1, <1>8, PassPlaces, Kinds
  <2>2. r \in repos /\ r \in DeclRepos
    BY <1>7, <1>8
  <2>3. HasReadHooks(p, r)
    BY <1>8 DEF HasReadHooks, KnowsRepos, KnowsOrgs, Executing, Passes
  <2>4. FirstHook(hooks[r]) = view[p].hook[r]
    BY <1>8, <2>1, <2>2, <2>3 DEF Sure, HookSure
  <2> QED
    BY <2>2, <2>4, FirstHookIsOne DEF MayWriteHook, MayEditHook
<1> QED
  BY <1>3, <1>4, <1>5, <1>6, <1>7, <1>8 DEF MayCreateRepo, MayMigrateRepo

\* The quarantine leaves no doomed call, however many operators there are and whatever
\* fails: each call a run has left is one the forge accepts, as long as nobody else
\* has touched the forge.
THEOREM NoCallIsDoomed == Spec => []NoDoomedCall
<1>1. TypeOK /\ WellFormedForge /\ ExactReport /\ ViewsAreSure => NoDoomedCall
  BY NothingDoomed DEF ExactReport, Fits, ViewsAreSure, NoDoomedCall
<1> QED
  BY <1>1, TypeCorrect, IntegrityKept, ReportIsExact, ViewsAgree, PTL

\* A report of no failure.
LEMMA CleanIsConverged ==
    ASSUME "usable" \notin PartialGrants,
           TypeOK, NEW p \in Ops, Fits(p), Sure(p), pc[p] = "done", failed[p] = {}
    PROVE  ForgeConverged /\ TeamsToEnsure(view[p]) \subseteq member
<1> USE DEF Sure
<1>1. PassNumber(pc[p]) = 7 /\ pc[p] \in KnowsOrgs /\ pc[p] \in KnowsRepos /\ pc[p] \notin TeamMidst
  BY DEF PassNumber, TeamMidst, KnowsRepos, KnowsOrgs
<1>2. OrgFailed(p) = {} /\ FailedOrgs(p) = {} /\ FailedRepos(p) = {}
  BY DEF OrgFailed, FailedOrgs, FailedRepos
<1>3. Grants = {"full"}
  BY DEF Grants
<1>4. DeclOrgs \subseteq orgs
  BY <1>1, <1>2, OrgIsThere
<1>5. DeclRepos \subseteq repos
  BY <1>1, <1>2, RepoIsThere
<1>6. \A o \in TeamsToEnsure(view[p]) : o \in member /\ team[o] = "full"
  <2>1. ASSUME NEW o, o \in TeamsToEnsure(view[p]) PROVE o \in member /\ team[o] \in Grants
    <3>1. PassNumber(pc[p]) > 2 /\ o \notin FailedOrgs(p)
      BY <1>1, <1>2
    <3> QED
      BY <2>1, <3>1, TeamIsReady
  <2> QED
    BY <1>3, <2>1
<1>7. ASSUME NEW o \in DeclOrgs, o \notin TeamsToEnsure(view[p]) PROVE team[o] = "full"
  <2>1. view[p].team[o] = "full" /\ o \in Orgs
    BY <1>7, DeclarationAssumption DEF TeamsToEnsure, TeamsToConverge, TeamNeedsConvergence
  <2>2. o \notin Work(p, 2)
    BY <1>7, WorkForms DEF WorkAs
  <2>3. ~Decided(p, <<"team", o>>)
    BY <1>1, <2>1, <2>2, PassIsOver, Kinds
  <2> QED
    BY <1>1, <2>1, <2>3 DEF TeamSure, HasReadTeam
<1>8. ASSUME NEW r \in DeclRepos PROVE r \in settings
  <2>1. CASE r \in view[p].settings
    BY <2>1 DEF SettingsSure
  <2>2. CASE r \notin view[p].settings
    <3>1. r \in Work(p, 5)
      BY <1>2, <2>2, WorkForms DEF WorkAs, ReposToConfigure, SettingsNeedConvergence
    <3>2. <<"settings", r>> \in done[p]
      BY <1>1, <3>1, PassIsOver, Kinds, DeclarationAssumption DEF Decided
    <3> QED
      BY <3>2 DEF SettingsSure
  <2> QED
    BY <2>1, <2>2
<1>9. ASSUME NEW r \in DeclRepos PROVE FirstHook(hooks[r]).right
  <2>1. CASE r \in ReposToHook(view[p])
    <3>1. r \in Work(p, 6)
      BY <1>2, <2>1, WorkForms DEF WorkAs
    <3>2. <<"hook", r>> \in done[p]
      BY <1>1, <3>1, PassIsOver, Kinds, DeclarationAssumption DEF Decided
    <3> QED
      BY <3>2 DEF HookSure
  <2>2. CASE r \notin ReposToHook(view[p])
    <3>1. view[p].hook[r].right
      BY <2>2 DEF ReposToHook, WebhookNeedsConvergence
    <3>2. r \notin Work(p, 6)
      BY <2>2, WorkForms DEF WorkAs
    <3>3. ~Decided(p, <<"hook", r>>)
      BY <1>1, <3>2, PassIsOver, Kinds, DeclarationAssumption
    <3>4. FirstHook(hooks[r]) = view[p].hook[r]
      BY <1>1, <3>3 DEF HookSure, HasReadHooks
    <3> QED
      BY <3>1, <3>4
  <2> QED
    BY <2>1, <2>2
<1> QED
  BY <1>4, <1>5, <1>6, <1>7, <1>8, <1>9 DEF ForgeConverged

\* "forge matches the declaration".
LEMMA MatchIsSo ==
    ASSUME TypeOK, NEW p \in Ops, Fits(p), Sure(p), pc[p] = "matched"
    PROVE  ForgeConverged /\ private \cap DeclRepos = DeclPrivate
<1> USE DEF Sure
<1>1. /\ pc[p] \in KnowsOrgs /\ pc[p] \in KnowsRepos /\ pc[p] \notin TeamMidst
      /\ done[p] = {} /\ failed[p] = {}
  BY Places, NothingReported DEF KnowsRepos, KnowsOrgs
<1>2. IsNoop(view[p]) /\ VisibilityDrift(view[p]) = {} /\ view[p].private = private
  BY DEF PlanSure
<1>3. DeclOrgs \subseteq orgs
  BY <1>1, <1>2 DEF OrgSure, IsNoop, OrgsToCreate
<1>4. DeclRepos \subseteq view[p].repos
  BY <1>2 DEF IsNoop, ReposToCreate, ReposToMigrate, Missing
<1>5. DeclRepos \subseteq repos
  BY <1>1, <1>4 DEF RepoSure
<1>6. \A o \in DeclOrgs : team[o] = "full"
  BY <1>1, <1>2 DEF TeamSure, HasReadTeam, Decided, IsNoop, TeamsToConverge, TeamNeedsConvergence
<1>7. DeclRepos \subseteq settings
  BY <1>2 DEF SettingsSure, IsNoop, ReposToConfigure, SettingsNeedConvergence
<1>8. \A r \in DeclRepos : FirstHook(hooks[r]).right
  BY <1>1, <1>2 DEF HookSure, HasReadHooks, Decided, IsNoop, ReposToHook, WebhookNeedsConvergence
<1>9. private \cap DeclRepos = DeclPrivate
  BY <1>2, <1>4, DeclarationAssumption DEF VisibilityDrift
<1> QED
  BY <1>3, <1>5, <1>6, <1>7, <1>8, <1>9 DEF ForgeConverged

\* What the command says of the forge is so, provided the forge does not take a team's
\* write for done while a unit that ensure_team does not assert is missing.
THEOREM WhatIsReportedIsSo ==
    ASSUME "usable" \notin PartialGrants
    PROVE  Spec => []ReportedIsSo
<1>1. TypeOK /\ ExactReport /\ ViewsAreSure => ReportedIsSo
  BY CleanIsConverged, MatchIsSo DEF ExactReport, Fits, ViewsAreSure, ReportedIsSo, CleanRunConverges, MatchIsTrue
<1> QED
  BY <1>1, TypeCorrect, ReportIsExact, ViewsAgree, PTL

----------------------------------------------------------------------------
(* One webhook per repository, when one operator runs the command.         *)

\* No repository carries two webhooks at the declared URL.
AtMostOneHook == \A r \in Repos : \A g, h \in hooks[r] : g = h

\* Before it sends one, the run's plan has seen no webhook, or no repository.
SawNoHook(p, r) ==
    \/ r \notin view[p].repos
    \/ HasReadHooks(p, r) /\ view[p].hook[r] = NoHook

\* It stays so: whatever people do by hand, nobody but the run adds one.
HookCare(p, r) ==
    /\ pc[p] \in KnowsRepos
    /\ SawNoHook(p, r)
    /\ ~Decided(p, <<"hook", r>>)
    /\ ~(pc[p] = "hookCheck" /\ at[p] = r)
    => hooks[r] = {}

HooksAreSure == AtMostOneHook /\ \A p \in Ops : \A r \in DeclRepos : HookCare(p, r)

\* A webhook's id is a number, so the one of several equal ones is the first.
LEMMA OnlyHookIsFirst ==
    ASSUME NEW hs \in SUBSET Hook, hs # {}, \A g, h \in hs : g = h
    PROVE  FirstHook(hs) # NoHook
<1>1. PICK h \in hs : TRUE
  OBVIOUS
<1>2. h.id \in Nat
  BY DEF Hook
<1>3. h \in {x \in hs : \A g \in hs : x.id <= g.id}
  BY <1>2
<1>4. FirstHook(hs) \in hs
  BY <1>3 DEF FirstHook
<1>5. FirstHook(hs).id \in Nat
  BY <1>4 DEF Hook
<1> QED
  BY <1>5 DEF NoHook

\* What happens by hand adds no webhook.
LEMMA NoHookByHand ==
    ASSUME ForgeTypeOK, ByHand \/ (\E r \in Repos : ImportArrives(r))
    PROVE  \A u \in Repos : /\ hooks[u] = {} => hooks'[u] = {}
                            /\ (\A g, h \in hooks[u] : g = h) => \A g, h \in hooks'[u] : g = h
<1> USE DEF ForgeTypeOK, orgPart, repoPart, hookPart
<1>1. CASE \E r \in Repos : BreakHook(r) \/ DeleteHook(r)
  <2>1. PICK r \in Repos : BreakHook(r) \/ DeleteHook(r)
    BY <1>1
  <2>2. PICK h \in hooks[r] : \/ hooks' = [hooks EXCEPT ![r] = (hooks[r] \ {h}) \cup {[h EXCEPT !.right = FALSE]}]
                              \/ hooks' = [hooks EXCEPT ![r] = hooks[r] \ {h}]
    BY <2>1 DEF BreakHook, DeleteHook
  <2>3. \A u \in Repos : u # r => hooks'[u] = hooks[u]
    BY <2>2
  <2>4. \/ hooks'[r] = (hooks[r] \ {h}) \cup {[h EXCEPT !.right = FALSE]}
        \/ hooks'[r] = hooks[r] \ {h}
    BY <2>2
  <2>5. /\ hooks[r] # {}
        /\ (\A g, f \in hooks[r] : g = f) => \A g, f \in hooks'[r] : g = f
    BY <2>4
  <2> QED
    BY <2>3, <2>5
<1>2. CASE \E r \in Repos : DeleteRepoByHand(r)
  BY <1>2 DEF DeleteRepoByHand, DeleteRepo
<1>3. CASE UNCHANGED hooks
  BY <1>3
<1>4. \/ UNCHANGED hooks
      \/ \E r \in Repos : BreakHook(r) \/ DeleteHook(r)
      \/ \E r \in Repos : DeleteRepoByHand(r)
  BY DEF ByHand, ImportArrives, CreateOrgByHand, CreateOrg, NarrowTeam, WriteTeam, RemoveMember, CreateRepoByHand,
         CreateRepo, Push, FlipVisibility, ResetSettings
<1> QED
  BY <1>1, <1>2, <1>3, <1>4

\* A run that knows as much as before, and a forge with no more webhooks.
LEMMA SameCare ==
    ASSUME TypeOK, NEW p \in Ops, NEW r \in DeclRepos, HookCare(p, r), Same(p), hooks[r] = {} => hooks'[r] = {}
    PROVE  HookCare(p, r)'
BY DEF HookCare, SawNoHook, HasReadHooks, Same, Decided

\* The reading: no webhook is there if none was answered, or the repository was not.
LEMMA ReadCare ==
    ASSUME TypeOK, WellFormedForge, AtMostOneHook, NEW p \in Ops, Fits(p), Read(p),
           NEW r \in DeclRepos, HookCare(p, r)
    PROVE  HookCare(p, r)'
<1> USE DEF TypeOK, GoTo, Reads
<1>1. r \in Repos /\ hooks[r] \subseteq Hook
  BY DeclarationAssumption DEF ForgeTypeOK
<1>2. pc[p] \in Reading /\ PassNumber(pc[p]) = 0
  BY Places DEF Read, ListOrgs, ListRepos, ReadTeam, ReadRepo, ReadHooks, ReadFails, Reading
<1>3. UNCHANGED <<hooks, done, failed>> /\ ~Decided(p, <<"hook", r>>) /\ pc[p] # "hookCheck"
  BY <1>2, NothingReported DEF Read, ListOrgs, ListRepos, ReadTeam, ReadRepo, ReadHooks, ReadFails, Decided, Reading,
                               forge
<1>4. view[p] \in View
  OBVIOUS
<1>5. CASE ListOrgs(p) \/ ReadFails(p)
  <2>1. pc'[p] \notin KnowsRepos
    BY <1>5, Places DEF ListOrgs, ReadFails, KnowsRepos
  <2> QED
    BY <2>1 DEF HookCare
<1>6. CASE ListRepos(p)
  <2>1. pc'[p] = "readTeams" /\ view'[p].repos = repos
    BY <1>4, <1>6 DEF ListRepos, View
  <2>2. SawNoHook(p, r)' => r \notin repos
    BY <2>1 DEF SawNoHook, HasReadHooks
  <2>3. r \notin repos => hooks[r] = {}
    BY <1>1 DEF WellFormedForge
  <2> QED
    BY <1>3, <2>2, <2>3 DEF HookCare
<1>7. ASSUME NEW u, ReadTeam(p, u) \/ ReadRepo(p, u) PROVE HookCare(p, r)'
  <2>1. /\ pc'[p] = pc[p] /\ pc[p] \in {"readTeams", "readRepos"}
        /\ view'[p].repos = view[p].repos /\ view'[p].hook = view[p].hook
    BY <1>4, <1>7 DEF ReadTeam, ReadRepo, View
  <2> QED
    BY <1>3, <2>1 DEF HookCare, SawNoHook, HasReadHooks, Decided
<1>8. ASSUME NEW u \in DeclRepos, ReadHooks(p, u) PROVE HookCare(p, r)'
  <2>1. /\ pc[p] = "readHooks" /\ pc'[p] = "readHooks" /\ todo'[p] = todo[p] \ {u}
        /\ view'[p] = [view[p] EXCEPT !.hook[u] = IF u \in view[p].repos THEN FirstHook(hooks[u]) ELSE NoHook]
    BY <1>8 DEF ReadHooks, Drops
  <2>2. /\ view'[p].repos = view[p].repos
        /\ r # u => view'[p].hook[r] = view[p].hook[r]
        /\ view'[p].hook[u] = IF u \in view[p].repos THEN FirstHook(hooks[u]) ELSE NoHook
    BY <1>4, <2>1 DEF View
  <2>3. pc[p] \in KnowsRepos
    BY <2>1 DEF KnowsRepos, KnowsOrgs, Reading
  <2>4. CASE r # u
    BY <1>3, <2>1, <2>2, <2>4 DEF HookCare, SawNoHook, HasReadHooks, Decided
  <2>5. CASE r = u /\ r \notin view[p].repos
    BY <1>3, <2>3, <2>5 DEF HookCare, SawNoHook
  <2>6. CASE r = u /\ r \in view[p].repos
    <3>1. SawNoHook(p, r)' => FirstHook(hooks[r]) = NoHook
      BY <2>2, <2>6 DEF SawNoHook
    <3>2. hooks[r] # {} => FirstHook(hooks[r]) # NoHook
      BY <1>1, OnlyHookIsFirst DEF AtMostOneHook
    <3> QED
      BY <1>3, <3>1, <3>2 DEF HookCare
  <2> QED
    BY <2>4, <2>5, <2>6
<1> QED
  BY <1>5, <1>6, <1>7, <1>8 DEF Read

\* From pass to pass, and when it decides.
LEMMA PassCare ==
    ASSUME TypeOK, NEW p \in Ops, EndPass(p) \/ ReportMatch(p) \/ PlanOnly(p) \/ ApplySome(p),
           NEW r \in DeclRepos, HookCare(p, r)
    PROVE  HookCare(p, r)' /\ UNCHANGED hooks
<1> USE DEF TypeOK, GoTo
<1>1. UNCHANGED <<view, at, done, failed, hooks>>
  BY DEF EndPass, ReportMatch, PlanOnly, ApplySome, Apply, Deciding, forge
<1>2. /\ pc[p] \in KnowsRepos /\ pc[p] # "hookCheck"
      /\ HasReadHooks(p, r)' => HasReadHooks(p, r)
  <2>1. CASE EndPass(p)
    <3>1. /\ pc[p] \in DOMAIN NextPass /\ pc'[p] = NextPass[pc[p]]
          /\ pc'[p] = "readHooks" => todo'[p] = DeclRepos
      BY <2>1 DEF EndPass, Worklist
    <3>2. /\ pc[p] \in KnowsRepos /\ pc[p] # "hookCheck"
          /\ pc[p] \in {"readTeams", "readRepos"} => pc'[p] \in {"readRepos", "readHooks"}
          /\ pc[p] = "readHooks" => todo[p] = {}
      BY <2>1, <3>1 DEF EndPass, NextPass, KnowsRepos, KnowsOrgs, Reading, Executing, Passes
    <3> QED
      BY <3>1, <3>2 DEF HasReadHooks
  <2>2. CASE ReportMatch(p) \/ PlanOnly(p) \/ ApplySome(p)
    <3>1. pc[p] = "decide"
      BY <2>2 DEF ReportMatch, PlanOnly, ApplySome, Apply, Deciding
    <3> QED
      BY <3>1 DEF HasReadHooks, KnowsRepos, KnowsOrgs
  <2> QED
    BY <2>1, <2>2
<1> QED
  BY <1>1, <1>2 DEF HookCare, SawNoHook, Decided

\* Before the webhooks nothing that a run writes is one.
LEMMA WritesNoHook ==
    ASSUME TypeOK, NEW p \in Ops, Execute(p),
           ~(\E r \in DeclRepos : SendHook(p, r) \/ HookWithoutSecret(p, r)), ~CheckHook(p)
    PROVE  /\ pc[p] \in Executing \ {"hookCheck"} /\ pc'[p] \in Executing \ {"hookCheck"}
           /\ UNCHANGED <<view, hooks>>
<1> USE DEF TypeOK, Executing, Passes, TeamMidst, GoTo
<1>1. CASE EnsureTeam(p)
  BY <1>1 DEF EnsureTeam, GetTeam, PostTeam, RegetTeam, PatchTeam, CheckTeam, PutMember, Call, InMidst, GoOn, GiveUp,
              WriteTeam, AddTeamMember, Rejected, hookPart, forge
<1>2. CASE \/ \E o \in DeclOrgs : PostOrg(p, o)
           \/ \E u \in DeclRepos : PostRepo(p, u) \/ PostMigration(p, u) \/ MigrationWithoutToken(p, u)
  BY <1>2 DEF PostOrg, PostRepo, PostMigration, MigrationWithoutToken, Call, CreateOrg, CreateRepo, MigrateRepo,
              Rejected, hookPart, forge
<1>3. CASE (\E u \in DeclRepos : PatchRepo(p, u)) \/ CheckRepo(p)
  BY <1>3 DEF PatchRepo, CheckRepo, InMidst, Verified, EditRepo, Rejected, hookPart, forge
<1> QED
  BY <1>1, <1>2, <1>3 DEF Execute

\* So what a run knows of the webhooks stays so.
LEMMA WriteCare ==
    ASSUME TypeOK, NEW p \in Ops, Execute(p),
           ~(\E r \in DeclRepos : SendHook(p, r) \/ HookWithoutSecret(p, r)), ~CheckHook(p),
           NEW r \in DeclRepos, HookCare(p, r)
    PROVE  HookCare(p, r)'
<1>1. /\ pc[p] \in Executing \ {"hookCheck"} /\ pc'[p] \in Executing \ {"hookCheck"}
      /\ UNCHANGED <<view, hooks>>
  BY WritesNoHook
<1>2. \E t : /\ \A u \in DeclRepos : t # <<"hook", u>>
             /\ Succeed(p, t) \/ Fail(p, t) \/ NoReport
  <2>1. CASE EnsureTeam(p)
    <3>1. \E o : Succeed(p, <<"team", o>>) \/ Fail(p, <<"team", o>>) \/ NoReport
      BY <2>1 DEF EnsureTeam, GetTeam, PostTeam, RegetTeam, PatchTeam, CheckTeam, PutMember, Call, GoOn, GiveUp
    <3> QED
      BY <3>1
  <2>2. CASE \E o \in DeclOrgs : PostOrg(p, o)
    <3>1. \E o : Succeed(p, <<"org", o>>) \/ Fail(p, <<"org", o>>)
      BY <2>2 DEF PostOrg, Call
    <3> QED
      BY <3>1
  <2>3. CASE \E u \in DeclRepos : PostRepo(p, u) \/ PostMigration(p, u) \/ MigrationWithoutToken(p, u)
    <3>1. \E o : Succeed(p, <<"repo", o>>) \/ Fail(p, <<"repo", o>>)
      BY <2>3 DEF PostRepo, PostMigration, MigrationWithoutToken, Call
    <3> QED
      BY <3>1
  <2>4. CASE (\E u \in DeclRepos : PatchRepo(p, u)) \/ CheckRepo(p)
    <3>1. \E o : Succeed(p, <<"settings", o>>) \/ Fail(p, <<"settings", o>>) \/ NoReport
      BY <2>4 DEF PatchRepo, CheckRepo, Verified
    <3> QED
      BY <3>1
  <2> QED
    BY <2>1, <2>2, <2>3, <2>4 DEF Execute
<1>3. Decided(p, <<"hook", r>>)' <=> Decided(p, <<"hook", r>>)
  BY <1>2, ReportOfOne DEF Decided
<1>4. HasReadHooks(p, r)
  BY <1>1 DEF HasReadHooks, KnowsRepos, KnowsOrgs, Executing, Passes, TeamMidst
<1>5. SawNoHook(p, r)' => SawNoHook(p, r)
  BY <1>1, <1>4 DEF SawNoHook
<1>6. pc[p] \in KnowsRepos
  BY <1>4 DEF HasReadHooks
<1> QED
  BY <1>1, <1>3, <1>5, <1>6 DEF HookCare

\* The webhooks: one is made where there was none, and one edited is the one.
LEMMA SendCare ==
    ASSUME TypeOK, AtMostOneHook, NEW p \in Ops, Fits(p), \A u \in DeclRepos : HookCare(p, u),
           \/ \E r \in DeclRepos : SendHook(p, r) \/ HookWithoutSecret(p, r)
           \/ CheckHook(p)
    PROVE  AtMostOneHook' /\ \A u \in DeclRepos : HookCare(p, u)'
<1>1. PICK r \in DeclRepos :
        /\ r \in Left(p)
        /\ \/ Fail(p, <<"hook", r>>)
           \/ Succeed(p, <<"hook", r>>)
           \/ NoReport /\ pc'[p] = "hookCheck" /\ at'[p] = r
        /\ pc[p] = "hookCheck" => at[p] = r /\ pc'[p] = "hook" /\ UNCHANGED hooks
        /\ pc'[p] = "hookCheck" => at'[p] = r
        /\ \/ UNCHANGED hooks
           \/ MayWriteHook(p, r) /\ WriteHook(p, r)
           \/ HookWrittenAmiss(p, r)
        /\ UNCHANGED view
        /\ pc[p] \in {"hook", "hookCheck"}
  <2>1. CASE \E r \in DeclRepos : SendHook(p, r) \/ HookWithoutSecret(p, r)
    <3>1. PICK r \in DeclRepos : SendHook(p, r) \/ HookWithoutSecret(p, r)
      BY <2>1
    <3>2. pc[p] = "hook" /\ r \in Left(p) /\ UNCHANGED view
      BY <3>1 DEF SendHook, HookWithoutSecret, Left
    <3>3. \/ UNCHANGED hooks
          \/ MayWriteHook(p, r) /\ WriteHook(p, r)
          \/ HookWrittenAmiss(p, r)
      BY <3>1 DEF SendHook, HookWithoutSecret, Rejected, forge
    <3>4. \/ Fail(p, <<"hook", r>>) /\ pc'[p] = "hook"
          \/ NoReport /\ pc'[p] = "hookCheck" /\ at'[p] = r
      BY <3>1, <3>2 DEF SendHook, HookWithoutSecret, GoTo, TypeOK
    <3> QED
      BY <3>2, <3>3, <3>4
  <2>2. CASE CheckHook(p)
    <3>1. /\ at[p] \in DeclRepos /\ pc[p] = "hookCheck" /\ pc'[p] = "hook"
          /\ at[p] \in Left(p) /\ UNCHANGED <<view, hooks>>
      BY <2>2 DEF CheckHook, InMidst, Verified, GoTo, TypeOK, AtFits, RepoMidst, Left, Midst, forge
    <3> QED
      BY <2>2, <3>1 DEF CheckHook, Verified
  <2> QED
    BY <2>1, <2>2
<1>2. /\ r \in Repos
      /\ \A u \in Repos : u # r => hooks'[u] = hooks[u]
  BY <1>1, DeclarationAssumption DEF WriteHook, HookWrittenAmiss, CreateHook, EditHook, TypeOK, ForgeTypeOK, forge
<1>3. PassNumber(pc[p]) = 6 /\ HasReadHooks(p, r) /\ pc[p] \in KnowsRepos
  BY <1>1, PassPlaces DEF HasReadHooks, KnowsRepos, KnowsOrgs, Executing, Passes
<1>4. pc[p] = "hook" /\ view[p].hook[r] = NoHook => hooks[r] = {}
  <2>1. ~Decided(p, <<"hook", r>>)
    BY <1>1, <1>3, LeftIsUndecided, Kinds
  <2> QED
    BY <1>3, <2>1 DEF HookCare, SawNoHook
<1>5. \A g, h \in hooks'[r] : g = h
  <2>1. CASE UNCHANGED hooks
    BY <1>2, <2>1 DEF AtMostOneHook
  <2>2. CASE pc[p] = "hook" /\ view[p].hook[r] = NoHook /\ (WriteHook(p, r) \/ HookWrittenAmiss(p, r))
    <3>1. \E right : hooks'[r] = hooks[r] \cup {[id |-> nextHook, right |-> right]}
      BY <1>2, <2>2 DEF WriteHook, HookWrittenAmiss, CreateHook, TypeOK, ForgeTypeOK
    <3> QED
      BY <1>4, <2>2, <3>1
  <2>3. CASE pc[p] = "hook" /\ view[p].hook[r] # NoHook /\ EditHook(r, view[p].hook[r].id) /\ MayEditHook(r, view[p].hook[r].id)
    <3>1. hooks'[r] = {h \in hooks[r] : h.id # view[p].hook[r].id} \cup {[id |-> view[p].hook[r].id, right |-> TRUE]}
      BY <1>2, <2>3 DEF EditHook, TypeOK, ForgeTypeOK
    <3>2. {h \in hooks[r] : h.id # view[p].hook[r].id} = {}
      BY <1>2, <2>3 DEF MayEditHook, AtMostOneHook
    <3> QED
      BY <3>1, <3>2
  <2> QED
    <3>1. CASE pc[p] = "hookCheck"
      BY <1>1, <2>1, <3>1
    <3>2. CASE pc[p] = "hook" /\ view[p].hook[r] = NoHook
      BY <1>1, <2>1, <2>2, <3>2
    <3>3. CASE pc[p] = "hook" /\ view[p].hook[r] # NoHook
      BY <1>1, <2>1, <2>3, <3>3 DEF WriteHook, MayWriteHook, HookWrittenAmiss, forge
    <3> QED
      BY <1>1, <3>1, <3>2, <3>3
<1>6. \A t : t # <<"hook", r>> => (Decided(p, t)' <=> Decided(p, t))
  BY <1>1, ReportOfOne DEF Decided
<1>7. Decided(p, <<"hook", r>>)' \/ (pc'[p] = "hookCheck" /\ at'[p] = r)
  BY <1>1, ReportOfOne
<1>8. ASSUME NEW u \in DeclRepos, u # r PROVE HookCare(p, u)'
  <2>1. HookCare(p, u) /\ hooks'[u] = hooks[u] /\ HasReadHooks(p, u) /\ u \in Repos
    <3>1. HookCare(p, u) /\ u \in Repos
      BY DeclarationAssumption
    <3>2. HasReadHooks(p, u)
      BY <1>1, <1>3 DEF HasReadHooks
    <3> QED
      BY <1>2, <1>8, <3>1, <3>2
  <2>2. Decided(p, <<"hook", u>>)' <=> Decided(p, <<"hook", u>>)
    BY <1>6, <1>8
  <2>3. SawNoHook(p, u)' => SawNoHook(p, u)
    BY <1>1, <2>1 DEF SawNoHook
  <2> QED
    BY <1>1, <1>3, <1>8, <2>1, <2>2, <2>3 DEF HookCare
<1> QED
  BY <1>2, <1>5, <1>7, <1>8 DEF AtMostOneHook, HookCare

\* Every step of the only operator, and every step that is nobody's.
LEMMA StepCare ==
    ASSUME \A p, q \in Ops : p = q,
           TypeOK, WellFormedForge, ExactReport, HooksAreSure, [Next]_vars
    PROVE  HooksAreSure'
<1> USE DEF TypeOK
<1>1. ASSUME NEW p \in Ops, Start(p) \/ Run(p) \/ ApplySome(p) \/ DropEmpty(p)
      PROVE  HooksAreSure'
  <2>1. \A q \in Ops : q = p
    OBVIOUS
  <2>2. Fits(p) /\ AtMostOneHook /\ \A r \in DeclRepos : HookCare(p, r)
    BY DEF ExactReport, Fits, HooksAreSure
  <2>3. SUFFICES AtMostOneHook' /\ \A r \in DeclRepos : HookCare(p, r)'
    BY <2>1 DEF HooksAreSure
  <2>4. CASE Start(p) \/ DropEmpty(p)
    <3>1. pc'[p] \notin KnowsRepos
      BY <2>4, Places DEF Start, DropEmpty, ReadShell, DropShell, GoTo, KnowsRepos
    <3>2. \A u \in Repos : hooks'[u] = hooks[u] \/ hooks'[u] = {}
      BY <2>4 DEF Start, DropEmpty, ReadShell, DropShell, DeleteRepo, Rejected, forge, ForgeTypeOK
    <3> QED
      BY <2>2, <3>1, <3>2 DEF AtMostOneHook, HookCare
  <2>5. CASE Read(p)
    <3>1. UNCHANGED hooks
      BY <2>5 DEF Read, ListOrgs, ListRepos, ReadTeam, ReadRepo, ReadHooks, ReadFails, Reads, forge
    <3> QED
      BY <2>2, <2>5, <3>1, ReadCare DEF AtMostOneHook
  <2>6. CASE EndPass(p) \/ ReportMatch(p) \/ PlanOnly(p) \/ ApplySome(p)
    <3>1. UNCHANGED hooks
      BY <2>6 DEF EndPass, ReportMatch, PlanOnly, ApplySome, Apply, Deciding, forge
    <3> QED
      BY <2>2, <2>6, <3>1, PassCare DEF AtMostOneHook
  <2>7. CASE (\E r \in DeclRepos : SendHook(p, r) \/ HookWithoutSecret(p, r)) \/ CheckHook(p)
    BY <2>2, <2>7, SendCare
  <2>8. CASE /\ Execute(p)
             /\ ~(\E r \in DeclRepos : SendHook(p, r) \/ HookWithoutSecret(p, r))
             /\ ~CheckHook(p)
    <3>1. UNCHANGED hooks
      BY <2>8, WritesNoHook
    <3> QED
      BY <2>2, <2>8, <3>1, WriteCare DEF AtMostOneHook
  <2> QED
    BY <1>1, <2>4, <2>5, <2>6, <2>7, <2>8 DEF Run
<1>2. CASE EditByHand \/ Import
  <2>1. \A u \in Repos : /\ hooks[u] = {} => hooks'[u] = {}
                         /\ (\A g, h \in hooks[u] : g = h) => \A g, h \in hooks'[u] : g = h
    BY <1>2, NoHookByHand DEF EditByHand, Import
  <2>2. \A p \in Ops : Same(p)
    BY <1>2 DEF EditByHand, Import, ops, Same
  <2>3. \A p \in Ops : \A r \in DeclRepos : HookCare(p, r)'
    BY <2>1, <2>2, SameCare, DeclarationAssumption DEF HooksAreSure
  <2> QED
    BY <2>1, <2>3 DEF HooksAreSure, AtMostOneHook
<1>3. CASE UNCHANGED vars
  <2>1. \A p \in Ops : Same(p)
    BY <1>3 DEF vars, ops, Same
  <2>2. UNCHANGED hooks
    BY <1>3 DEF vars, forge
  <2> QED
    BY <2>1, <2>2, SameCare DEF HooksAreSure, AtMostOneHook
<1> QED
  BY <1>1, <1>2, <1>3 DEF Next

\* Nothing but one operator's run adds a webhook, and it adds one only where there is none:
\* on a forge found without two webhooks at the declared URL in one repository there are
\* never two, whatever fails, is lost or is edited by hand.  With it, no call of a run is
\* one too many.
THEOREM NoCallIsAmiss ==
    ASSUME \A p, q \in Ops : p = q
    PROVE  Spec /\ AtMostOneHook => []NoCallAmiss
<1>1. Init /\ AtMostOneHook => HooksAreSure
  <2>1. Init => \A p \in Ops : pc[p] = "idle"
    BY DEF Init
  <2>2. "idle" \notin KnowsRepos
    BY Places DEF KnowsRepos
  <2> QED
    BY <2>1, <2>2 DEF HooksAreSure, HookCare
<1>2. TypeOK /\ WellFormedForge /\ ExactReport /\ HooksAreSure /\ [Next]_vars => HooksAreSure'
  BY StepCare
<1>3. HooksAreSure => OneHookPerRepo
  <2> SUFFICES ASSUME HooksAreSure, NEW r \in Repos PROVE Cardinality(hooks[r]) <= 1
    BY DEF OneHookPerRepo
  <2>1. CASE hooks[r] = {}
    BY <2>1, FS_EmptySet
  <2>2. CASE hooks[r] # {}
    <3>1. PICK h \in hooks[r] : TRUE
      BY <2>2
    <3>2. hooks[r] = {h}
      BY <3>1 DEF HooksAreSure, AtMostOneHook
    <3>3. Cardinality({h}) = 1
      BY FS_Singleton
    <3> QED
      BY <3>2, <3>3
  <2> QED
    BY <2>1, <2>2
<1>4. NoDoomedCall /\ OneHookPerRepo => NoCallAmiss
  BY DEF NoCallAmiss
<1> QED
  BY <1>1, <1>2, <1>3, <1>4, TypeCorrect, IntegrityKept, ReportIsExact, NoCallIsDoomed, PTL DEF Spec
=============================================================================
