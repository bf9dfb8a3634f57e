SPECIFICATION DeliverySpec
CONSTANTS
  Workers = {w1, w2}
  Announcements = {a1, a2}
  Cancellations = {c1}
  Changes = {k1}
  Reminders = {r1}
  Scenarios = {{a1, a2}, {c1}, {k1}, {r1}}
  DayLength = 2
  MaxTime = 2
  QuietStart = 1
  QuietEnd = 0
  Cap = 1
  DueFrom = 1
  DueTo = 2
  MaxAttempts = 2
  MaxFaults = 1
  MaxChoices = 1
PROPERTIES
  PushesAreSparing
  EveryNoticeArrives
CHECK_DEADLOCK FALSE
