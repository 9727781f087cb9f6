SPECIFICATION Spec
CONSTANTS
  Tasks = {t1}
  Calls = {c1, c2, c3}
  Modes = {ask, craft}
  MaxSessions = 2
  None = None
INVARIANTS Single
CHECK_DEADLOCK FALSE
