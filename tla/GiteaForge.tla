----------------------------- MODULE GiteaForge -----------------------------
(***************************************************************************)
(* The Gitea forge as the toolkit sees it, and the calls GiteaClient and   *)
(* GiteaBasicAuthClient make on it (toolkit/features/gitea_client.py).     *)
(*                                                                         *)
(* The forge is an external service: a call's effect is what the client    *)
(* and its callers rely on.  Each write is given as the condition under    *)
(* which the forge accepts it and the change it makes.  What a caller      *)
(* learns of that change (an answer, an error, nothing) is up to the       *)
(* module that makes the call.                                             *)
(***************************************************************************)
EXTENDS Integers, FiniteSets

CONSTANTS
    Orgs,           \* every organization name that matters, declared or not
    Repos,          \* every repository `org/name` that matters, declared or not
    OrgOf           \* the organization a repository's full name begins with

ASSUME OrgOfAssumption == OrgOf \in [Repos -> Orgs]

(***************************************************************************)
(* The `reconcilers` team of an organization, by what its grant lacks:     *)
(*   absent   no such team                                                 *)
(*   short    includes_all_repositories, can_create_org_repo or the        *)
(*            repo.code unit is not as declared                            *)
(*   usable   those three are, and another unit of TEAM_UNITS is not       *)
(*   full     everything edit_team sends is in place                       *)
(***************************************************************************)
TeamStates == {"absent", "short", "usable", "full"}

\* A webhook that points at the declared URL: its id, and whether every other
\* compared field is as declared.
Hook == [id : Nat, right : BOOLEAN]

VARIABLES
    orgs,           \* organizations that exist
    team,           \* the state of each organization's `reconcilers` team
    member,         \* organizations whose `reconcilers` team holds the bot
    repos,          \* repositories that exist
    private,        \* of those, the private ones
    settings,       \* of those, the ones whose settings are as declared
    filled,         \* of those, the ones that hold content
    importing,      \* of those, the ones whose migration is still running
    hooks,          \* webhooks at the declared URL, by repository
    nextHook        \* the id the forge gives to the next webhook

forge == <<orgs, team, member, repos, private, settings, filled, importing,
           hooks, nextHook>>

orgPart == <<orgs, team, member>>
repoPart == <<repos, private, settings, filled, importing>>
hookPart == <<hooks, nextHook>>

ForgeTypeOK ==
    /\ orgs \subseteq Orgs
    /\ team \in [Orgs -> TeamStates]
    /\ member \subseteq Orgs
    /\ repos \subseteq Repos
    /\ private \subseteq Repos
    /\ settings \subseteq Repos
    /\ filled \subseteq Repos
    /\ importing \subseteq Repos
    /\ hooks \in [Repos -> SUBSET Hook]
    /\ nextHook \in Nat

\* What belongs to something the forge does not hold does not exist either.
WellFormedForge ==
    /\ \A o \in Orgs \ orgs : team[o] = "absent"
    /\ \A o \in member : team[o] # "absent"
    /\ \A r \in repos : OrgOf[r] \in orgs
    /\ private \cup settings \cup filled \cup importing \subseteq repos
    /\ \A r \in Repos \ repos : hooks[r] = {}
    /\ \A r \in Repos : \A h \in hooks[r] : h.id < nextHook

----------------------------------------------------------------------------
(* Reads.                                                                  *)

\* find_declared_hook: the first of the repository's hooks at the declared URL
NoHook == [id |-> -1, right |-> FALSE]

FirstHook(hs) ==
    LET first == {h \in hs : \A g \in hs : h.id <= g.id}
    IN  IF first = {} THEN NoHook ELSE CHOOSE h \in first : TRUE

\* A mutant: a team that exists is taken to be as declared.
TeamIsMissing(t) == t = "absent"

\* team_needs_convergence
TeamNeedsConvergence(t) == t # "full"

\* The three assertions ensure_team ends with: can_create_org_repo, repo.code
\* and includes_all_repositories, and none of the other units.
TeamAsserts(t) == t \in {"usable", "full"}

----------------------------------------------------------------------------
(* Writes: when the forge accepts the call, and what changes if it does.   *)

MayCreateOrg(o) == o \notin orgs

CreateOrg(o) ==
    /\ orgs' = orgs \cup {o}
    /\ UNCHANGED <<team, member, repoPart, hookPart>>

MayCreateTeam(o) == o \in orgs /\ team[o] = "absent"

MayWriteTeam(o) == team[o] # "absent"

\* create_team and edit_team send the same grant; t is what the forge made of it
WriteTeam(o, t) ==
    /\ team' = [team EXCEPT ![o] = t]
    /\ UNCHANGED <<orgs, member, repoPart, hookPart>>

AddTeamMember(o) ==
    /\ member' = member \cup {o}
    /\ UNCHANGED <<orgs, team, repoPart, hookPart>>

\* The bot may create a repository only through the write team of its org.
MayCreateRepo(r) ==
    /\ OrgOf[r] \in member
    /\ TeamAsserts(team[OrgOf[r]])
    /\ r \notin repos

\* A repository arrives with Gitea's defaults: no declared settings, no hook.
CreateRepo(r, isPrivate) ==
    /\ repos' = repos \cup {r}
    /\ private' = IF isPrivate THEN private \cup {r} ELSE private
    /\ UNCHANGED <<settings, filled, importing, orgPart, hookPart>>

\* POST /repos/migrate creates the target, and answers 409 when it exists.
MayMigrateRepo(r) == OrgOf[r] \in orgs /\ r \notin repos

\* The call is answered before the content has arrived.
MigrateRepo(r, isPrivate) ==
    /\ repos' = repos \cup {r}
    /\ private' = IF isPrivate THEN private \cup {r} ELSE private
    /\ importing' = importing \cup {r}
    /\ UNCHANGED <<settings, filled, orgPart, hookPart>>

EditRepo(r, converges) ==
    /\ settings' = IF converges THEN settings \cup {r} ELSE settings
    /\ UNCHANGED <<repos, private, filled, importing, orgPart, hookPart>>

CreateHook(r, right) ==
    /\ hooks' = [hooks EXCEPT ![r] = @ \cup {[id |-> nextHook, right |-> right]}]
    /\ nextHook' = nextHook + 1
    /\ UNCHANGED <<orgPart, repoPart>>

MayEditHook(r, id) == \E h \in hooks[r] : h.id = id

EditHook(r, id) ==
    /\ hooks' = [hooks EXCEPT ![r] = {h \in @ : h.id # id}
                                       \cup {[id |-> id, right |-> TRUE]}]
    /\ UNCHANGED <<nextHook, orgPart, repoPart>>

DeleteRepo(r) ==
    /\ repos' = repos \ {r}
    /\ private' = private \ {r}
    /\ settings' = settings \ {r}
    /\ filled' = filled \ {r}
    /\ importing' = importing \ {r}
    /\ hooks' = [hooks EXCEPT ![r] = {}]
    /\ UNCHANGED <<nextHook, orgPart>>

----------------------------------------------------------------------------
(* What happens on the forge without the toolkit.                          *)

\* The content of a migration arrives after the call that asked for it.
ImportArrives(r) ==
    /\ r \in importing
    /\ importing' = importing \ {r}
    /\ filled' = filled \cup {r}
    /\ UNCHANGED <<repos, private, settings, orgPart, hookPart>>

\* Someone uses the web interface, or pushes.
CreateOrgByHand(o) == MayCreateOrg(o) /\ CreateOrg(o)

CreateRepoByHand(r) ==
    /\ OrgOf[r] \in orgs
    /\ r \notin repos
    /\ \E isPrivate \in BOOLEAN : CreateRepo(r, isPrivate)

DeleteRepoByHand(r) == r \in repos /\ DeleteRepo(r)

Push(r) ==
    /\ r \in repos \ filled
    /\ filled' = filled \cup {r}
    /\ UNCHANGED <<repos, private, settings, importing, orgPart, hookPart>>

FlipVisibility(r) ==
    /\ r \in repos
    /\ private' = IF r \in private THEN private \ {r} ELSE private \cup {r}
    /\ UNCHANGED <<repos, settings, filled, importing, orgPart, hookPart>>

ResetSettings(r) ==
    /\ r \in settings
    /\ settings' = settings \ {r}
    /\ UNCHANGED <<repos, private, filled, importing, orgPart, hookPart>>

NarrowTeam(o) ==
    /\ MayWriteTeam(o)
    /\ WriteTeam(o, "short")

RemoveMember(o) ==
    /\ o \in member
    /\ member' = member \ {o}
    /\ UNCHANGED <<orgs, team, repoPart, hookPart>>

BreakHook(r) ==
    \E h \in hooks[r] :
        /\ h.right
        /\ hooks' = [hooks EXCEPT ![r] = (@ \ {h}) \cup {[h EXCEPT !.right = FALSE]}]
        /\ UNCHANGED <<nextHook, orgPart, repoPart>>

DeleteHook(r) ==
    \E h \in hooks[r] :
        /\ hooks' = [hooks EXCEPT ![r] = @ \ {h}]
        /\ UNCHANGED <<nextHook, orgPart, repoPart>>

ByHand ==
    \/ \E o \in Orgs : CreateOrgByHand(o) \/ NarrowTeam(o) \/ RemoveMember(o)
    \/ \E r \in Repos :
          \/ CreateRepoByHand(r) \/ DeleteRepoByHand(r) \/ Push(r)
          \/ FlipVisibility(r)   \/ ResetSettings(r)
          \/ BreakHook(r)        \/ DeleteHook(r)
=============================================================================
