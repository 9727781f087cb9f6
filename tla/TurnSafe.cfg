SPECIFICATION Spec
CONSTANTS
  Runtimes = {r1, r2}
  Prompts = {p1, p2}
  Steers = {s1}
  Aborts = {a1}
  FirstPrompt = p1
  Watchdog = watchdog
  Deleter = deleter
  None = None
  Scenarios = {{"prompt", "lapse", "crash", "lose", "cancel"}, {"prompt", "abort", "expire", "lostreply"}, {"steer", "abort", "expire", "lapse", "evict", "lostreply"}, {"steer", "watchdog", "archive", "delete", "cancel"}}
SYMMETRY RuntimeSymm
INVARIANTS TypeOK SerialTurns LockCoversTurn LockIsAccountedFor DeliveredAtMostOnce
PROPERTIES ArchivedIsFinal ServesOneByOne
CHECK_DEADLOCK FALSE
