SPECIFICATION Spec
CONSTANTS
  None = None
  p1 = p1
  p2 = p2
  Projects = {p1}
  Inputs <- OneProject
  Hours = {0, 1}
  HoursPerDay = 2
  Cutoffs = {1}
  Clocks = {}
  FlushRows = 1
  ShardRows = 3
  EventCap = 1
  BatchMax = 1
  MaxBodies = 2
  MaxFaults = 2
  MaxMid = 3
  Faults = {"crash", "midflush"}
INVARIANT NoResurrection
