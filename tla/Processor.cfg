SPECIFICATION ProcessorSpec
CONSTANTS
  e1 = e1  e2 = e2
  t1 = t1
  h1 = h1  h2 = h2
  Wild = wild
  Events = {e1, e2}
  Types = {t1}
  Handlers = {h1, h2}
  Kind <- OneKind
  MaxDepth = 1
  BatchSize = 2
  MaxChanges = 4
SYMMETRY Alike
INVARIANTS
  DepthCounts
  HandledExplained
CHECK_DEADLOCK FALSE
