SPECIFICATION MCSpec
CONSTANTS
  None = None
  Admin = Admin
  c1 = c1
  c2 = c2
  p = p
  l1 = l1
  Clients = {c1, c2}
  Projects = {p}
  Logs = {l1}
  Owner <- OwnerOf
  Level <- LevelOf
  Info <- AtInfo
  NoiseParams <- NoiseOf
  SevParams <- SevOfAll
  Enabling = {"omit", "off"}
  NoiseTables <- OneSample
  SevTables <- SomeLifts
  MaxId = 3
  Cap = 1
  MaxOps = 2
  MaxLogs = 2
CHECK_DEADLOCK FALSE
INVARIANTS SnapshotCurrent CountsExact SampleExact CapHeld
SYMMETRY TwoClients
