SPECIFICATION Spec
CONSTANTS
  k1 = k1
  c1 = c1
  u1 = u1
  r1 = r1
  k2 = k2
  c2 = c2
  u2 = u2
  None = None
  Keys = {k1}
  Contents = {c1}
  Users = {u1}
  Crons = {r1}
  Kinds = {"resend"}
  Events = {"failed"}
  Lease = 0
  Window = 1
  KeyTTL = 2
  Retention = 0
  FirstDelay = 1
  MaxDelay = 1
  MaxAttempts = 2
  DueLimit = 1
  InvocationLimit = 1
  PrepareLimit = 0
  CrashAt <- CrashPoints
  Prompt = {"expire", "rearm"}
  MaxFaults = 0
  MaxAcks = 0
PROPERTIES
  ReportedFailureStays
