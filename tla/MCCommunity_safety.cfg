SPECIFICATION Spec
CONSTANTS
  Users = {u1, u2}
  InitialCapacity = 1
  Step = 1
  MaxCapacity = 2
  Modes = {"approval", "invite_only"}
  MaxTransfers = 2
  Writers = {host, guest}
  Host = host
  Requests = {q1}
  MaxComments = 2
  MaxVersion = 4
  MaxNotices = 3
  MaxOtherVersion = 2
  HourlyLimit = 1
  Regs = {a, b}
  DailyCap = 1
  WeeklyCap = 1
  MaxDay = 1
  MaxCorrections = 2
  Versions = {1, 2}
  Gate <- MCGate
  MaxMetric = 1
  Evaluators = {e1, e2}
INVARIANTS
  OwnershipIsSettled
  RewardsStayBounded
PROPERTIES
  EditsReplaceWhatWasRead
  EvaluationSettles
CHECK_DEADLOCK FALSE
