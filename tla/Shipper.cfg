SPECIFICATION ShipperSpec
CONSTANTS
  NL = NL
  Garbage = Garbage
  MaxRecs = 4
  RollBytes = 4
  MaxBytes = 4
  Faults = {"kill", "power", "roll", "short"}
  MaxFaults = 2
  MaxBatchRecords = 3
  ServerMax = 2
  Big = {2}
CHECK_DEADLOCK FALSE
INVARIANTS NothingLost DroppedExact ArrivesInOrder
PROPERTY CatchesUp
