\* One command at a time; any of them may fail, or be interrupted.
SPECIFICATION FairSpec
CONSTANTS
  Hubs = {aws, gcp}
  Spokes = {staging}
  Operators = {alice}
  Contexts = {staging}
  Overlap = FALSE
  MaxFaults = 1
INVARIANTS TypeOK PauseHolds SingleWriter
PROPERTIES WorkloadsStay DetachedIsDetached DetachCompletes ResumeTakes
