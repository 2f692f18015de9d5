SPECIFICATION Spec
CONSTANTS
  Runs = {r1, r2, r3}
  MaxCommits = 3
  MaxDate = 3
  MaxFaults = 0
  MaxActive = 1
  Cadence = "auto_pause"
  PushesToTrigger = 1
  Requests = {"automation", "command"}
  PrLevelRules = FALSE
  ApprovalActive = FALSE
  RequestChangesActive = FALSE
SYMMETRY RunSymmetry
INVARIANTS
  NoRepeatedComments
  OneVisibleSummary
  ReviewsWithinWindow
PROPERTIES
  WatermarkAdvances
CHECK_DEADLOCK FALSE
