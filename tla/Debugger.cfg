SPECIFICATION MCSpec
CONSTANTS
  main = main
  t1 = t1
  Main = main
  Task = {t1}
  StepModes = {"Over"}
  EntryStops = {TRUE, FALSE}
  Throwing = {main}
  Filters = {"uncaught"}
  MaxRequests = 2
  Path = {"a", "b"}
  Known = {"a"}
  Line = {1, 2}
  Executable = {2}
  Kinds = {"conditional", "log", "hit2"}
  Debuggee = {main}
  MaxBreakpoints = 2
  MaxSets = 3
  MaxHits = 2
CHECK_DEADLOCK FALSE
INVARIANTS StopsCounted ClientInformed BreakpointsArmed NoLostResume
INVARIANTS EditorKnowsBreakpoints FlagIsTrue
PROPERTY HitsFollowBreakpoints
