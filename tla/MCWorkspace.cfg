SPECIFICATION WorkspaceSpec
CONSTANTS
  h1 = h1
  h2 = h2
  t1 = t1
  t2 = t2
  u1 = u1
  u2 = u2
  u3 = u3
  m1 = m1
  m2 = m2
  o1 = o1
  Tabs = {t1, t2}
  Creator = t1
  Calls = {h1, h2}
  MaxSaves = 2
  Editors = {h1, h2}
  Crons = {h1, h2}
  MaxEdits = 3
  MaxArms = 2
  MaxAttempts = 2
  Fetchers = {h1, h2}
  MaxPublished = 2
  MaxClaims = 4
  Letters = {m1, m2}
  Repliers = {h1, h2}
  MaxVersion = 1
  MaxWindow = 1
  MaxTries = 2
  Visitors = {m1, m2}
  Closers = {h1, h2}
  Users = {u1, u2, u3}
  Workers = {h1, h2}
  Objects = {o1}
  FollowUps = {m1}
  Savers = {h1, h2}
  MaxTaskVersion = 3
  Loads = {h1, h2}
  Page = 1
  MaxMessages = 3
SYMMETRY WorkspaceSymmetry
CHECK_DEADLOCK FALSE
INVARIANTS
  WorkspaceTypeOK
  RevisionNamesContent
  DanglingNeedsDiscard
  NoticesMatchEdits
  ReminderOnce
  OneReplyPerWindow
  NoTokenAfterEnd
  OpenRoomOnRecord
  LastAdminKept
  PurgeIsExact
  WaitingHasNoReply
  ShownWithoutHoles
PROPERTIES
  NothingOverwrittenUnseen
  DismissedStaysQuiet
  FeedNeverGoesBack
