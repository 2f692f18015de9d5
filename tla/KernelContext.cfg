SPECIFICATION ContextSpec
CONSTANTS
  k1 = k1  k2 = k2  a = a  b = b
  Keys = {k1, k2}
  Callers = {a, b}
  MaxWrites = 2
  MaxFaults = 1
INVARIANTS
  StaleReadExplained
  QueueHasTimer
PROPERTIES
  ResumeExplained
SYMMETRY Alike
CHECK_DEADLOCK FALSE
