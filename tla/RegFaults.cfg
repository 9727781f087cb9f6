SPECIFICATION FairSpec
CONSTANTS
  r1 = r1
  r2 = r2
  Runtimes = {r1, r2}
  Size <- Small
  MaxActive = 1
  Scanners = {s1}
  None = None
  Faults <- OneBad
INVARIANTS PickIsLeastLoaded
PROPERTIES GoneIsForgotten LoadBecomesKnown
