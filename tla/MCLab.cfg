SPECIFICATION Spec
CONSTANTS
  Slots = {s1, s2}
  Installed = {"legacy", "ngfw"}
  Width = 2
  Configs = {c1, c2}
  Ladder <- MCLadder
  MaxWork = 4
  MaxCrashes = 1
SYMMETRY MCSymmetry
INVARIANTS
  NoSilentLeftover
  PathTruth
PROPERTIES
  ReceiptsSound
CHECK_DEADLOCK FALSE
