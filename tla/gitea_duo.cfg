SPECIFICATION MCFairSpec
CONSTANTS
  p1 = p1
  p2 = p2
  home = home
  work = work
  shell = shell
  moved = moved
  stray = stray
  None = None
  Ops = {p1, p2}
  Orgs = {work}
  Repos = {moved}
  OrgOf <- MCOrgOf
  DeclOrgs = {work}
  DeclRepos = {moved}
  Migrated = {moved}
  DeclPrivate = {moved}
  CredentialSets <- AllCredentials
  PartialGrants = {"short"}
  MaxFaults = 1
  MaxEdits = 0
INVARIANTS
  EveryItemAccounted
  OneCauseOneFailure
