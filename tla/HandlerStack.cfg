SPECIFICATION FairStack
CONSTANTS
  s1 = s1  s2 = s2  m1 = m1  m2 = m2
  Calls = {s1, s2, m1, m2}
  Limit <- MixedLimits
  Patient = {s1, s2, m1}
  RetryInside = {s1, s2}
  MaxRetries = 1
INVARIANTS
  SlotsAddUp
  NoIdleSlot
  FirstCome
  OverlapExplained
PROPERTIES
  LateStartExplained
  EveryCallEnds
CHECK_DEADLOCK FALSE
