SPECIFICATION FairSpec
CONSTANTS
  Tasks = {t1, t2}
  Calls = {c1, c2, c3, c4}
  Modes = {ask, craft}
  MaxSessions = 1
  None = None
INVARIANTS TypeOK PoolIsAlive OnePerTask TurnIsReachable
PROPERTIES SweepSparesTurns EvictedInTheEnd
CHECK_DEADLOCK FALSE
