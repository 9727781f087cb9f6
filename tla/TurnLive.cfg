SPECIFICATION FairSpec
CONSTANTS
  Runtimes = {r1}
  Prompts = {p1, p2}
  Steers = {}
  Aborts = {}
  FirstPrompt = p1
  Watchdog = watchdog
  Deleter = deleter
  None = None
  Scenarios = {{"prompt", "watchdog", "lose", "crash", "hang", "cancel"}, {"prompt", "lapse"}}
PROPERTIES StuckTurnRecovers LockIsReleased
CHECK_DEADLOCK FALSE
