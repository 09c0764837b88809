SPECIFICATION AppSpec
CONSTANTS
  None = None
  c1 = c1
  c2 = c2
  l1 = l1
  l2 = l2
  l3 = l3
  Clients = {c1, c2}
  Logs = {l1, l2, l3}
  Batch <- Requests
  Events = {l1, l3}
  BufferSize = 2
  MaxBatch = 2
  QueueCap = 1
CHECK_DEADLOCK FALSE
INVARIANT FinalCount
