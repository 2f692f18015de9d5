SPECIFICATION Spec
CONSTANTS
  c1 = c1  c2 = c2  c3 = c3
  big = big  urgent = urgent  small = small  tiny = tiny  mini = mini  giant = giant
  Calls = {c1, c2, c3}
  Events = {big, urgent, small, tiny, mini, giant}
  Priorities = {0, 1}
  Large = {big, urgent}
  Huge = {giant}
  Critical = {urgent}
  MaxQueueDepth = 2
  BatchSize = 2
  ChunkLimit = 2
  MaxConcurrent = 1
  MaxProcessedEvents = 1
SYMMETRY CallSymmetry
INVARIANTS
  Conserved
  PermitsAddUp
  DuplicatesExplained
  NoOvertaking
  OvershootOnlyByAwaits
CHECK_DEADLOCK FALSE
