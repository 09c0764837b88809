SPECIFICATION Spec
CONSTANTS
  None = None
  c1 = c1
  c2 = c2
  f1 = f1
  Clients = {c1, c2}
  Fingerprints = {f1}
  EventTimes = {0, 2, 3}
  Kept = 1
  MaxEvents = 3
  Kinds <- KindsOf
  Cooldowns <- CooldownsOf
  DefaultCooldown = 2
  Enabling <- EnablingOf
  FirstRules <- FirstRulesOf
  MaxId = 1
  QueueCap = 1
  MaxOps = 2
  MaxRestarts = 1
CHECK_DEADLOCK FALSE
INVARIANTS ThresholdExact InheritsNothing
PROPERTIES CooldownKept KeepsNewest
SYMMETRY TwoClients
