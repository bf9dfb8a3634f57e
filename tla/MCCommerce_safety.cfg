SPECIFICATION Spec
CONSTANTS
  k1 = k1
  o1 = o1
  j1 = j1
  f1 = f1
  f2 = f2
  f3 = f3
  ann = ann
  ben = ben
  kim = kim
  t1 = t1
  t2 = t2
  Rewards = {k1}
  RewardOf <- SmallRewards
  Orders = {o1}
  PointsOf <- SmallPoints
  BonusOf <- SmallBonus
  Adjustments = {j1}
  AdjustmentOf <- SmallAdjustment
  Fees = {f1, f2, f3}
  FeeOf <- OneOfEachFee
  PriceOf <- SmallPrices
  MaxPostings = 7
  CreditLife = 1
  ReversalLife = 1
  MaxClock = 1
  People = {ann, ben, kim}
  Newcomers = {kim}
  Window = 1
  MonthLength = 2
  Cap = 1
  MaxTrail = 3
  MaxLinks = 2
  MaxVisits = 2
  MaxGone = 1
  Taps = {t1, t2}
  Short = 2
  Long = 3
  MaxDay = 2
  MaxCivilDay = 7
INVARIANTS
  
  FeesSettleOnce
  RewardsAreEarned
PROPERTIES
  HoldsStayCovered
CHECK_DEADLOCK FALSE
