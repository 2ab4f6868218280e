SPECIFICATION InputsSpec
CONSTANTS
  click = click
  key = key
  drag = drag
  look = look
  npm = npm
  build = build
  ls = ls
  t1 = t1
  t2 = t2
  RNpm = RNpm
  RGit = RGit
  RLook = RLook
  Call = {click, key, drag, npm}
  Tab = {}
  Kind <- MCKind
  Rules <- MCRules
  MaxDenials = 2
  RequireApproval = TRUE
  Strict = FALSE
INVARIANT
  InputsLimited
PROPERTIES
  EveryCallAnswered
  ConsentSpec
  StopRefusesWaiting
CHECK_DEADLOCK FALSE
