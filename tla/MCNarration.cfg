SPECIFICATION FairSpec
CONSTANTS
  h1 = h1
  h2 = h2
  k1 = k1
  k2 = k2
  k3 = k3
  r1 = r1
  b1 = b1
  b2 = b2
  None = None
  Opening = Opening
  Handlers = {h1, h2}
  Keys = {k1, k2, k3}
  Headers = {r1}
  Bodies = {Opening, b1, b2}
  Messages <- MCMessages
  MaxClaims = 3
  MaxRestarts = 1
  Overlap = TRUE
  Seeding = TRUE
CHECK_DEADLOCK FALSE
INVARIANTS
  AnswersDurable
  IInv
PROPERTIES
  Fenced
  ImplementsLog
  ImplementsAuthoring
  EveryCallAnswered
  NarrationSettles
