\* An accepted correction that does not fit the prompt, a player who goes on.
SPECIFICATION FairSpec
CONSTANTS
  Corrections = {c1}
  Deciders = {d1}
  Keys = {k1}
  None = None
  Oversize = {c1}
  MaxVersion = 2
PROPERTY AcceptedIsProjected
