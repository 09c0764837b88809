SPECIFICATION Spec
CONSTANTS
  None = None
  Wild = Wild
  SP = SP
  a = a
  b = b
  c = c
  s1 = s1
  s2 = s2
  Inputs <- SomeInputs
  Unfit <- SomeUnfit
  Filters <- SomeFilters
  Windows <- SomeWindows
  HourLen = 2
  Digits = {a, c}
  Cap = 3
  Limit = 2
  ChunkRows = 2
  MaxRows = 3
  MaxFaults = 1
CHECK_DEADLOCK FALSE
INVARIANTS BodiesExact SearchExact AggregateExact
