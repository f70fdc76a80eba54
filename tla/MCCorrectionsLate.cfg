\* A correction accepted while the provider already writes the next turn.
SPECIFICATION Spec
CONSTANTS
  Corrections = {c1}
  Deciders = {d1}
  Keys = {k1}
  None = None
  Oversize = {}
  MaxVersion = 2
INVARIANT AcceptedIsUsed
