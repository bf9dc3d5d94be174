SPECIFICATION Spec
CONSTANTS
  k1 = k1
  c1 = c1
  u1 = u1
  r1 = r1
  k2 = k2
  c2 = c2
  u2 = u2
  None = None
  Keys = {k1}
  Contents = {c1, c2}
  Users = {u1, u2}
  Crons = {u1, u2}
  Kinds = {"cloudflare"}
  Events = {}
  Lease = 0
  Window = 0
  KeyTTL = 0
  Retention = 9
  FirstDelay = 1
  MaxDelay = 1
  MaxAttempts = 2
  DueLimit = 1
  InvocationLimit = 1
  PrepareLimit = 0
  CrashAt <- CrashPoints
  Prompt = {"expire", "sweep"}
  MaxFaults = 1
  MaxAcks = 1
INVARIANTS
  TypeOK
  NoUnacknowledgedDuplicate
  SentFolderTellsTheTruth
  PayloadKept
  SilentRetryIsSafe
PROPERTY PromiseKept
SYMMETRY Symmetry
