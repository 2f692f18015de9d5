SPECIFICATION StoreSpec
CONSTANTS
  f = f  g = g
  FilesAt <- OtherFile
  MaxHooks = 3
  MaxFaults = 1
INVARIANTS
  
  SavedIsFound
CHECK_DEADLOCK FALSE
