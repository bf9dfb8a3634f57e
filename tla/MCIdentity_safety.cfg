SPECIFICATION Spec
CONSTANTS
  Owner = {u1}
  Device = {web}
  Session = {s1, s2}
  Attempt = {a1, a2}
  Kid = {k1, k2}
  Tab = {t1, t2}
  Browser = web
  None = None
  MaxGeneration = 2
  MaxEvents = 5
  User = {1, 2, 3}
  Subject = {e1, t1, t2}
  Email = {e1}
  Phone = {a1, a2}
  Host = {1}
  Challenge = {c1}
  Job = {j1}
  Nobody = Nobody
  MaxAttempts = 1
SYMMETRY Sym
INVARIANTS
  RotationsAreRecorded
  
  
PROPERTIES
  SessionsMoveForward
CHECK_DEADLOCK FALSE
