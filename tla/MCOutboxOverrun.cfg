SPECIFICATION Spec
CONSTANTS
  k1 = k1
  c1 = c1
  u1 = u1
  r1 = r1
  k2 = k2
  c2 = c2
  u2 = u2
  None = None
  Keys = {k1}
  Contents = {c1}
  Users = {u1, u2}
  Crons = {}
  Kinds = {"cloudflare"}
  Events = {}
  Lease = 0
  Window = 0
  KeyTTL = 0
  Retention = 9
  FirstDelay = 1
  MaxDelay = 1
  MaxAttempts = 2
  DueLimit = 1
  InvocationLimit = 1
  PrepareLimit = 1
  CrashAt = {}
  Prompt = {}
  MaxFaults = 0
  MaxAcks = 0
INVARIANTS
  NoUnacknowledgedDuplicate
