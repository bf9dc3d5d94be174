SPECIFICATION MailSpec
CONSTANTS
  Mails = {m1, m2}
  m1 = m1
  m2 = m2
  Actions = {a1}
  a1 = a1
  Hands = {h1, h2}
  h1 = h1
  h2 = h2
  MaxRequests = 2
SYMMETRY MailSymmetry
CHECK_DEADLOCK FALSE
INVARIANTS
  MailTypeOK
  SplitNeedsOverlap
PROPERTIES
  UndoTakesBackOnlyItsOwn
  ChoiceLostOnlyInFlight
