SPECIFICATION FairSpec
CONSTANTS
  Runs = {r1, r2}
  MaxCommits = 2
  MaxDate = 2
  MaxFaults = 1
  MaxActive = 1
  Cadence = "manual"
  PushesToTrigger = 1
  Requests = {"automation", "command"}
  PrLevelRules = TRUE
  ApprovalActive = TRUE
  RequestChangesActive = TRUE
INVARIANTS
  
  TimelineFollowsRow
  OneManualReview
PROPERTIES
  ApprovalExplained
  EveryRowCloses
CHECK_DEADLOCK FALSE
