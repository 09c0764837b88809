SPECIFICATION SpecRead
CONSTANTS
  None = None
  p1 = p1
  Projects = {p1}
  Inputs <- Events
  Hours = {0, 1}
  HoursPerDay = 2
  Cutoffs = {1}
  Clocks = {2}
  FlushRows = 1
  ShardRows = 3
  EventCap = 1
  BatchMax = 1
  MaxBodies = 2
  MaxFaults = 0
  MaxMid = 3
  Faults = {}
  Sinces = {0, 1}
  Limit = 1
  Arounds = {0, 1}
  MaxSegmentSetRestarts = 2
INVARIANTS ReadExact SearchNewest LookupFinds NoFalseCorruption
