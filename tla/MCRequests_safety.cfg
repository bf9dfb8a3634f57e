SPECIFICATION Spec
CONSTANTS
  Operators = {o1, o2, o3}
  Amounts <- MCAmounts
  LargeFrom = 2
  StartBalance = 1
  MaxDownloads = 1
  MaxItems = 2
  MaxDialogs = 4
  MaxLost = 1
  Members = {a, b}
  Reviewers = {r1, r2}
  MaxFills = 3
  MaxLostReports = 2
  MaxDecisions = 3
  Ops <- MCOps
  Others = {x, y}
  PullLimit = 1
  MaxRows = 3
  MaxFloor = 1
  MaxFaults = 1
  Author = author
  Stranger = stranger
  Texts = {0, 1}
  Blank = 0
  MaxKeys = 3
  MaxTroubles = 3
SYMMETRY Sym
INVARIANTS
  ControlsHold
  
  FeedbackCountsOnce
CHECK_DEADLOCK FALSE
