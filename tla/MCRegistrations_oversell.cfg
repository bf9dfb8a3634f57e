SPECIFICATION Spec
CONSTANTS
  r1 = r1
  r2 = r2
  r3 = r3
  u1 = u1
  u2 = u2
  u3 = u3
  t1 = t1
  Regs = {r1, r2, r3}
  Users = {u1, u2, u3}
  UserOf <- DistinctUserOf
  Tiers = {t1}
  NoTier = NoTier
  MaxParty = 2
  MaxCapacity = 2
  MaxQuota = 2
  Deadline = 2
  MaxEdits = 1
SYMMETRY DistinctSymmetry
INVARIANT
  NoOversell
CHECK_DEADLOCK FALSE
