SPECIFICATION FairSpec
CONSTANTS
  Slots = {s1}
  Installed = {"legacy", "ngfw"}
  Width = 1
  Configs = {c1}
  Ladder <- MCLadder
  MaxWork = 3
  MaxCrashes = 1
PROPERTIES
  LabSettles
  ImplementsLoadControl
CHECK_DEADLOCK FALSE
