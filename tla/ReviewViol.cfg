SPECIFICATION WorkspaceSpec
CONSTANTS
  t1 = t1
  Runs <- AllRuns
  Rates = {1, 2}
  Trees <- AllTrees
  Tabs = {t1}
  Texts = {good}
  Scenarios <- CalmReview
  MaxTyped = 2
  MaxLoads = 2
  MaxPosts = 2
  Ungraded = Ungraded
  Garbled = Garbled
  None = None
INVARIANTS SubmittedIsComplete
CHECK_DEADLOCK FALSE
