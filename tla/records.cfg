SPECIFICATION Spec
CONSTANTS
  site = site
  exception = exception
  HistoryLimit = 4
  Id <- MCId
  MaxEmits = 9
  Place = {site}
  Said <- MCSaid
  MaxKept = 2
  PerResult = 1
  MaxBusEvents = 2
  MaxNoted = 1
  MaxActivity = 3
  Step = {"b", "v"}
  Call = {"x"}
  MaxNodes = 2
  MaxTracked = 5
  MaxAttempt = 2
  MaxLog = 6
  Prompt <- MCPrompt
  Ruled = {2}
  MaxTyped = 2
  Command = {"r1", "r2"}
  Decider = {"d1", "d2"}
  Source = {"s1", "s2"}
  Evaluations <- MCEvaluations
INVARIANTS
  ReplayWhole
  NewsPending
  TreeHolds
  PromptsKept
  IdeasKept
CHECK_DEADLOCK FALSE
