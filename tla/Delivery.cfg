SPECIFICATION FairDelivery
CONSTANTS
  c1 = c1  c2 = c2  c3 = c3
  Calls = {c1, c2, c3}
  Events = {c1, c2, c3}
  Priorities = {0}
  Large = {}
  Huge = {}
  Critical = {c1}
  MaxQueueDepth = 1
  BatchSize = 2
  ChunkLimit = 2
  MaxConcurrent = 1
  MaxProcessedEvents = 5
  BufferSize = 2
  CacheSize = 2
  MaxFaults = 1
INVARIANTS
  DeliveryOK
  OnlyHandledHidden
  
PROPERTIES
  EmittedIsOffered
  DrainCompletes
CHECK_DEADLOCK FALSE
