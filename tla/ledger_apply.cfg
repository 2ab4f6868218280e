SPECIFICATION LedgerSpec
CONSTANTS
  first = first
  repost = repost
  board = board
  other = other
  far = far
  boardB = boardB
  Worlds = {"caps", "clock", "boards", "form"}
  p1 = p1
  p2 = p2
  Proc = {p1, p2}
  Job = {first, repost, other, far}
  Site = {board, boardB}
  SiteOf <- MCSiteOf
  Alike <- MCAlike
  PerDay = 3
  PerHour = 2
  PerSiteDay = 2
  MinGap = 1
  Hour = 2
  Day = 4
  Month = 1
  MaxLead = 1
  TimerPages = {other}
  ClockMoves = {"back"}
  MaxTime = 6
  MaxRows = 4
  MaxSteps = 2
  Files <- MCFiles
  Resumes <- MCResumes
  Disks <- MCDisks
  Home = {"profiles"}
  MaxSize = 1
  Pages <- MCPages
  Extras <- MCExtras
  MaxChanges = 2
SYMMETRY Symmetry
VIEW View
INVARIANTS
  SentIsRecorded
  NoDoubleApply
  CapsHold
  FormIsMeant
CHECK_DEADLOCK FALSE
