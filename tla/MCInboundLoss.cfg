SPECIFICATION Spec
CONSTANTS
  m1 = m1
  m2 = m2
  e1 = e1
  e2 = e2
  h1 = h1
  h2 = h2
  Mails = {m1}
  Envelopes = {e1}
  Handlers = {h1, h2}
  Kinds = {"resend"}
  MaxFaults = 2
  Deaths = TRUE
  Impatience = TRUE
INVARIANT AcceptedIsKept
