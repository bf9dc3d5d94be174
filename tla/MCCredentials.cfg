SPECIFICATION Spec
CONSTANTS
  Requests = {r1, r2}
  r1 = r1
  r2 = r2
  Clients = {a}
  a = a
  CodesPerClient = 1
  MaxPassword = 1
  MaxSession = 3
  MaxEnrollment = 1
  MaxRecovery = 2
  MaxRotation = 3
  MaxStep = 1
SYMMETRY RequestSymmetry
CHECK_DEADLOCK FALSE
INVARIANTS
  TypeOK
  ResetEndsAll
  SecondFactorIsExclusive
  ProofsCountOnce
  OneLiveGrant
PROPERTY
  AccessKept
