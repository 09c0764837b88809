SPECIFICATION Spec
CONSTANTS
  None = None
  p1 = p1
  p2 = p2
  Projects = {p1}
  Inputs <- OneProject
  Hours = {0, 1}
  HoursPerDay = 2
  Cutoffs = {1}
  Clocks = {2}
  FlushRows = 1
  ShardRows = 2
  EventCap = 1
  BatchMax = 1
  MaxBodies = 3
  MaxFaults = 1
  MaxMid = 3
  Faults <- SegmentFaults
INVARIANTS LockHeld ManifestBacked PruneComplete FewerSegments ShardsOrdered
PROPERTY Ledger
