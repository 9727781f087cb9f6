SPECIFICATION FairSpec
CONSTANTS
  q1 = q1
  q2 = q2
  q3 = q3
  Setups <- AllSetups
  Descriptions = {short, long}
  Original = short
  Long = {long}
  RunsPerQuery = 1
  NumWorkers = 2
  ThresholdPct = 50
  MaxIterations = 2
  None = None
INVARIANTS TypeOK CommandFilesAreTemporary HeldOut BestIsMeasured ReportAgrees
PROPERTIES NoFalseTrigger Terminates
CHECK_DEADLOCK FALSE
