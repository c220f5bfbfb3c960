\* One command at a time; any call of them may fail, and any of them be interrupted.
SPECIFICATION Spec
CONSTANTS
  alice = alice
  bob = bob
  Operators = {alice}
  Keys <- MCKeys
  KindOf <- MCKindOf
  SourceOf <- MCSourceOf
  Immutable = {"storage"}
  Shared = {"n8n"}
  Seeded <- MCSeeded
  Password = "password"
  Commands = {"generate", "init", "force", "hash", "rotate", "set", "edit", "extract"}
  Overlap = FALSE
  MaxRuns = 3
  MaxFaults = 1
CHECK_DEADLOCK FALSE
INVARIANTS TypeOK DigestsFollow
PROPERTIES ImmutableKept PromiseKept
