SPECIFICATION Spec
CONSTANTS
  m1 = m1
  m2 = m2
  e1 = e1
  e2 = e2
  h1 = h1
  h2 = h2
  Mails = {m1}
  Envelopes = {e1, e2}
  Handlers = {h1, h2}
  Kinds = {"cloudflare"}
  MaxFaults = 0
  Deaths = FALSE
  Impatience = FALSE
INVARIANT StoredOnce
