\* Two corrections, two decision threads, two decision keys, three turns.
SPECIFICATION Spec
CONSTANTS
  Corrections = {c1, c2}
  Deciders = {d1, d2}
  Keys = {k1, k2}
  None = None
  Oversize = {c2}
  MaxVersion = 3
SYMMETRY MCSymmetry
INVARIANTS
  TypeOK
  OverlaysUnique
  UsedInItsTurn
  RepliesAgree
PROPERTIES
  AcceptFresh
