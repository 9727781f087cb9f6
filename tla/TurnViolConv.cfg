SPECIFICATION Spec
CONSTANTS
  Runtimes = {r1, r2}
  Prompts = {p1}
  Steers = {}
  Aborts = {}
  FirstPrompt = p1
  Watchdog = watchdog
  Deleter = deleter
  None = None
  Scenarios = {{}}
INVARIANTS StreamConverges
CHECK_DEADLOCK FALSE
