\* One operator; two faults and one edit of an empty forge, one fault and two edits
\* (or drops) of one that is full of shells.
SPECIFICATION EitherSpec
CONSTANTS
  p1 = p1
  p2 = p2
  home = home
  work = work
  shell = shell
  moved = moved
  stray = stray
  None = None
  Ops = {p1}
  Orgs = {home, work}
  Repos = {shell, moved, stray}
  OrgOf <- MCOrgOf
  DeclOrgs = {home, work}
  DeclRepos = {shell, moved}
  Migrated = {moved}
  DeclPrivate = {moved}
  CredentialSets <- SomeCredentials
  PartialGrants = {"short"}
  MaxFaults = 2
  MaxEdits = 2
INVARIANTS TypeOK ExactReport NoCallAmiss ReportedIsSo
PROPERTIES InventoryKept ForgeConverges
