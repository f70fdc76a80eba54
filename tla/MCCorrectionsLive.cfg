\* One correction, one decision thread, three turns, fair narration.
SPECIFICATION FairSpec
CONSTANTS
  Corrections = {c1}
  Deciders = {d1}
  Keys = {k1}
  None = None
  Oversize = {}
  MaxVersion = 3
PROPERTIES
  PartyProceeds
  AcceptedIsProjected
