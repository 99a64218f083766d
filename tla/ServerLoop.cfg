SPECIFICATION FairSpec
CONSTANTS
  Id = {1, 2}
  Kinds = {"oversize", "invalid_json", "no_length", "no_length_nl",
           "long_header_first", "long_header_last"}
  MaxMessage = 1
  MaxResync = 4
  MaxErrors = 3
  MaxCancelled = 1
  MaxFrames = 4
  MaxPending = 6
CHECK_DEADLOCK FALSE
INVARIANT RequestsServedOnce
PROPERTIES NoFrameLost LoopServes
