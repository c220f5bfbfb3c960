--------------------------- MODULE ForgeInventory ---------------------------
(***************************************************************************)
(* What the toolkit promises of a forge's inventory, without how: it adds  *)
(* what is declared and missing, with the declared visibility, and removes *)
(* nothing but a declared repository that an operator names.  It never     *)
(* changes the visibility of what exists and never touches what is not     *)
(* declared.  People may do anything, one edit at a time.                  *)
(***************************************************************************)
EXTENDS Integers

CONSTANTS Orgs, Repos, OrgOf, DeclOrgs, DeclRepos, DeclPrivate

VARIABLES orgs, repos, private, edits

vars == <<orgs, repos, private, edits>>

Init ==
    /\ orgs \subseteq Orgs
    /\ repos \subseteq Repos
    /\ private \subseteq repos
    /\ edits \in Nat

AddOrg(o) ==
    /\ o \in DeclOrgs \ orgs
    /\ orgs' = orgs \cup {o}
    /\ UNCHANGED <<repos, private, edits>>

AddRepo(r) ==
    /\ r \in DeclRepos \ repos
    /\ OrgOf[r] \in orgs
    /\ repos' = repos \cup {r}
    /\ private' = private \cup ({r} \cap DeclPrivate)
    /\ UNCHANGED <<orgs, edits>>

DropRepo(r) ==
    /\ r \in DeclRepos \cap repos
    /\ repos' = repos \ {r}
    /\ private' = private \ {r}
    /\ UNCHANGED <<orgs, edits>>

ByHand ==
    /\ edits' = edits - 1
    /\ orgs \subseteq orgs'
    /\ orgs' \subseteq Orgs
    /\ repos' \subseteq Repos
    /\ private' \subseteq repos'

Next ==
    \/ \E o \in DeclOrgs : AddOrg(o)
    \/ \E r \in DeclRepos : AddRepo(r) \/ DropRepo(r)
    \/ ByHand

Spec == Init /\ [][Next]_vars
=============================================================================
