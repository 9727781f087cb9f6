SPECIFICATION WorkspaceSpec
CONSTANTS
  t1 = t1
  Runs <- AllRuns
  Rates = {1, 2}
  Trees <- AllTrees
  Tabs = {t1}
  Texts = {good}
  Scenarios <- AllScenarios
  MaxTyped = 2
  MaxLoads = 2
  MaxPosts = 2
  Ungraded = Ungraded
  Garbled = Garbled
  None = None
INVARIANTS FeedbackIsForItsRun DialogIsRight
PROPERTIES SavedStaysSaved TypedIsSaved EveryGradedRunCounts DeltaIsSkillMinusBaseline
CHECK_DEADLOCK FALSE
