\* Three processes start on one database and register tenants side by side.
CONSTANTS
  p1 = p1
  p2 = p2
  p3 = p3
  w1 = w1
  w2 = w2
  Processes = {p1, p2, p3}
  Workers = {w1, w2}
  ProcessOf <- TwoProcesses
  TenantIds = {t1, t2}
  NoTenant = NoTenant
  ProfileCount = 3
  SeededBefore = {2}
  AutoCreate = TRUE
  MaxKeys = 2
  MaxCrashes = 1
SPECIFICATION Spec
INVARIANTS
  IssuedKeysAreStored
  OneKeyPerTenant
  ServingIsSeeded
  RaceIsLostOnce
PROPERTIES
  DeactivationTakesHold
CHECK_DEADLOCK FALSE
