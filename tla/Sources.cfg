SPECIFICATION Spec
CONSTANTS
  None = None
  NL = NL
  Absent = Absent
  MaxTexts = 3
  MaxFiles = 3
  MaxEvents = 1
  c1 = c1
  Containers = {c1}
  Selected = {c1}
  Kinds = {"plain", "panic"}
  Times = {0, 2}
  Overlap = 1
  MaxJoin = 2
  ChanCap = 2
  Handles = {1, 2}
  MaxLines = 2
  MaxTurns = 3
  MaxFaults = 1
CHECK_DEADLOCK FALSE
INVARIANTS NothingSkipped TailedWhenQuiet RotationKeepsLines
