SPECIFICATION BrowserSpec
CONSTANTS
  c1 = c1
  c2 = c2
  o1 = o1
  o2 = o2
  Opens = {o1, o2}
  Call <- MCCall
  Tool = {"inspect", "text", "act", "press", "switch", "closeTab", "open", "screenshot", "point", "resize"}
  MaxOpen = 2
  MaxEver = 2
  MaxShots = 1
  MaxNav = 1
INVARIANTS
  ActsOnWhatIsThere
  ActsOnce
  ExitTellsTruth
  SessionsClosed
PROPERTIES
  EveryCallAnswered
  FaultEnds
CHECK_DEADLOCK FALSE
