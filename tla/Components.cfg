SPECIFICATION MCSpec
CONSTANTS
  Nil = Nil
  Thread = {h1, h2, h3}
  HasToken = {h3}
  Value = {v1, v2}
  Capacity = 0
  max_channel_queue_size = 2
  Client = {c1, c2}
  Key = {k1, k2}
  Val = {w1}
  NoVal = NoVal
  MaxEntries = 1
  MaxFileSize = 1
  MaxCalls = 4
  MaxFaults = 1
  MaxBlocks = 4
  ScopeExits = FALSE
  FinallyExits = FALSE
SYMMETRY Symmetry
CHECK_DEADLOCK FALSE
INVARIANTS DirectorySound VmMatchesProgram
PROPERTIES UnboundedImplementsSpec ImplementsStoreSpec CleanupRuns
