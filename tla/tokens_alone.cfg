\* Commands run one at a time, as the runbook has them; any of them may fail.
SPECIFICATION FairSpec
CONSTANTS
  Rotators = {alice}
  Plays = {play}
  Overlap = FALSE
  MaxRotations = 2
  MaxFaults = 2
  MaxChanges = 1
INVARIANTS TypeOK NoSecondCredential DeadTokenIsAnnounced
PROPERTIES BothHalves TokensReturn
