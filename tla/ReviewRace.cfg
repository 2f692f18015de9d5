SPECIFICATION Spec
CONSTANTS
  Runs = {r1, r2}
  MaxCommits = 2
  MaxDate = 2
  MaxFaults = 1
  MaxActive = 2
  Cadence = "automatic"
  PushesToTrigger = 1
  Requests = {"automation"}
  PrLevelRules = FALSE
  ApprovalActive = FALSE
  RequestChangesActive = FALSE
SYMMETRY RunSymmetry
INVARIANTS
  WatermarkCovered
PROPERTIES
  LedgerSpec
  SkipMeansAccounted
CHECK_DEADLOCK FALSE
