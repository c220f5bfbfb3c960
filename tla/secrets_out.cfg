\* One person applies while the vault changes, two sync; calls fail.
SPECIFICATION Spec
CONSTANTS
  alice = alice
  bob = bob
  Sources <- MCSources
  Bundles = {"crowdsec", "traefik", "rendered"}
  KindOf <- MCKindOf
  FileOf <- MCFileOf
  Takes <- MCTakes
  Fallback <- MCFallback
  Items = {"password", "token"}
  Spoken = {"token"}
  Operators = {alice}
  Syncers = {alice, bob}
  Overlap = FALSE
  MaxEdits = 2
  MaxChanges = 1
  MaxFaults = 1
CHECK_DEADLOCK FALSE
INVARIANTS TypeOK CopiesAgree
PROPERTIES KeptByApply NewestStays DeliveryConverges SyncConverges
