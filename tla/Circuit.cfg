SPECIFICATION CircuitSpec
CONSTANTS
  c1 = c1  c2 = c2  c3 = c3  c4 = c4  c5 = c5  c6 = c6
  Calls = {c1, c2, c3, c4, c5, c6}
  FailureThreshold = 2
  SuccessThreshold = 2
  MaxForced = 2
SYMMETRY AnyCall
INVARIANTS
  MetricsAddUp
PROPERTIES
  RecoveryEarned
CHECK_DEADLOCK FALSE
