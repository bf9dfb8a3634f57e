SPECIFICATION Spec
CONSTANTS
  r1 = r1
  r2 = r2
  r3 = r3
  u1 = u1
  u2 = u2
  u3 = u3
  t1 = t1
  Regs = {r1, r2, r3}
  Users = {u1, u2, u3}
  UserOf <- DistinctUserOf
  Tiers = {t1}
  NoTier = NoTier
  MaxParty = 2
  MaxCapacity = 3
  MaxQuota = 3
  Deadline = 2
  MaxEdits = 0
SYMMETRY DistinctSymmetry
INVARIANTS
  TypeOK
  
  TierNeverOversold
  SeatsAreBacked
  FeesFollowSeats
  CancellationIsFinal
PROPERTIES
  NeverOverfill
  OffersInOrder
  AllocatesSeats
CHECK_DEADLOCK FALSE
