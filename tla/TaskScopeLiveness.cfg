SPECIFICATION TerminatingSpec
CONSTANTS
  Main = main
  Task = {t1, t2}
  Scope = {s1, s2}
  Workers = 1
  Racing = {t1}
  Awaiting = {}
  Returning = {}
  Cancelling = {}
  Throwing = {}
PROPERTY WaitReturns
CHECK_DEADLOCK FALSE
