SPECIFICATION FairSpec
CONSTANTS
  runtime = runtime
  handler = handler
  Producers = {runtime, handler}
  Scenarios <- AllScenarios
  MaxSeq = 4
  BufCap = 2
  Limit = 3
INVARIANTS TypeOK OneNumberEach SentInOrder NoGap
PROPERTIES TailArrives
CHECK_DEADLOCK FALSE
