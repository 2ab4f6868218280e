SPECIFICATION Limits
CONSTANTS
  Worlds = {"gate", "sites", "tools", "files"}
  h1 = h1
  t1 = t1
  t2 = t2
  good = good
  bad = bad
  a1 = a1
  a2 = a2
  private = private
  Request <- MCRequest
  Tunnel = {t1, t2}
  Host = {good, bad}
  AllowedHost = {good}
  Addr = {a1, a2, private}
  AllowedAddr = {a1, a2}
  SiteHost <- MCSiteHost
  SharedSuffixes = {}
  Tab <- MCTab
  AllowanceFiles <- MCFiles
  MaxOpeners = 2
  MaxMoves = 4
  Team = {"builder", "mine", "Verifier", "desktop-tester"}
  Definitions <- MCDefinitions
  Tried = {"Read", "Write", "Bash", "input"}
  Commands <- MCCommands
  MaxSessions = 2
  MaxCalls = 2
  Trees <- MCTrees
  Paths <- MCPaths
  Touched <- MCTouched
  LinkTargets <- MCLinkTargets
  Roles <- MCRoles
  WorkDir <- MCWorkDir
  ReservedNames = {"pkg"}
  ReservedDirs = {}
  NeverDirs = {".git"}
  Derived = {"dist"}
  TestDirs = {"tests"}
  TestFiles = {}
  DocDirs = {"web"}
  DocFiles = {}
  Home <- MCHome
  Secret = {"env"}
  SecretDirs = {".git"}
  ReportPath <- MCReportPath
  Globs <- MCGlobs
  MaxHops = 3
  MaxFiles = 8
  MaxTools = 1
  MaxShells = 2
INVARIANTS
  UpstreamsAccounted
  
  StepKeepsToRole
  StaysInScope
PROPERTIES
  EveryRequestSettles
CHECK_DEADLOCK FALSE
