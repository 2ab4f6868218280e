SPECIFICATION Spec
CONSTANTS
  click = click
  key = key
  drag = drag
  look = look
  npm = npm
  build = build
  ls = ls
  RNpm = RNpm
  RGit = RGit
  RLook = RLook
  t1 = t1
  t2 = t2
  Call = {npm, build}
  Tab = {t1, t2}
  Kind <- MCKind
  Rules <- MCRules
  MaxDenials = 1
  RequireApproval = TRUE
  Strict = FALSE
SYMMETRY Symmetry
VIEW WithoutSaid
INVARIANTS
  PromptNotLost
  QuietViewsAgree
