\* A file is being rewritten while its values are rendered.
SPECIFICATION Spec
CONSTANTS
  alice = alice
  bob = bob
  Sources <- MCSources
  Bundles = {"crowdsec", "traefik", "rendered"}
  KindOf <- MCKindOf
  FileOf <- MCFileOf
  Takes <- MCTakes
  Fallback <- MCFallback
  Items = {"password", "token"}
  Spoken = {"token"}
  Operators = {alice}
  Syncers = {alice, bob}
  Overlap = FALSE
  MaxEdits = 2
  MaxChanges = 1
  MaxFaults = 0
CHECK_DEADLOCK FALSE
PROPERTY RenderedKept
