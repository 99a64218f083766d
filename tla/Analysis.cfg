SPECIFICATION Spec
CONSTANTS
  a = a
  b = b
  c1 = c1
  c2 = c2
  Uri = {a, b}
  Content = {c1, c2}
  None = None
  Error = Error
  Includes <- OneInclude
  Faulty = {c2}
  Workspace = {b}
  OnSave = TRUE
  MaxCache = 1
  MaxMessages = 3
INVARIANTS SkippedIsCached EditsAccounted
CHECK_DEADLOCK FALSE
