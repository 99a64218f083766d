SPECIFICATION UnwindingSpec
CONSTANTS
  MaxBlocks = 4
  ScopeExits = TRUE
  FinallyExits = FALSE
INVARIANT ScopesMatch
CHECK_DEADLOCK FALSE
