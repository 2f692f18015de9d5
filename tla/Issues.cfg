SPECIFICATION IssuesSpec
CONSTANTS
  k1 = k1  k2 = k2  s1 = s1  s2 = s2  s3 = s3  p = p  q = q  u = u  r = r
  Closings = {k1, k2}
  Suggestions = {s1, s2, s3}
  Of <- TwoPrs
  Users = {u}
  Readers = {r}
  MaxEdits = 1
  MaxFaults = 1
SYMMETRY AnyClosing
INVARIANTS
  SyncedMeansFiled
  StaleListExplained
PROPERTIES
  ClosedStaysClosed
CHECK_DEADLOCK FALSE
