SPECIFICATION Spec
CONSTANTS
  runtime = runtime
  handler = handler
  Producers = {runtime, handler}
  Scenarios <- OneConnection
  MaxSeq = 3
  BufCap = 3
  Limit = 3
INVARIANTS ExactTail
CHECK_DEADLOCK FALSE
