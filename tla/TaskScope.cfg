SPECIFICATION FairSpec
CONSTANTS
  Main = main
  Task = {t1, t2}
  Scope = {s1, s2}
  Workers = 1
  Racing = {}
  Awaiting = {t1}
  Returning = {t1}
  Cancelling = {main}
  Throwing = {t1}
INVARIANTS ChildrenAccounted SignalNotMissed ResolvedOnce OutcomesJustified
PROPERTY TeardownReturns
CHECK_DEADLOCK FALSE
