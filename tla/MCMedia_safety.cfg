SPECIFICATION Spec
CONSTANTS
  User = {u1, u2}
  Asset = {a1, a2}
  Slot = {s1}
  Group = {r1}
  Worker = {w1}
  Nothing = Nothing
  MaxGeneration = 1
  MaxRenewed = 1
  Retries = 2
  MaxClaims = 2
  MaxUploads = 1
SYMMETRY Alike
INVARIANTS
  AssetsAreAccountedFor
PROPERTIES
  EndedStaysEnded
CHECK_DEADLOCK FALSE
