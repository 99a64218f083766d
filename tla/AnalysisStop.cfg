SPECIFICATION FairSpec
CONSTANTS
  a = a
  b = b
  c1 = c1
  c2 = c2
  Uri = {a}
  Content = {c1, c2}
  None = None
  Error = Error
  Includes <- NoInclude
  Faulty = {c2}
  Workspace = {}
  OnSave = FALSE
  MaxCache = 1
  MaxMessages = 1
PROPERTY StopReturns
CHECK_DEADLOCK FALSE
