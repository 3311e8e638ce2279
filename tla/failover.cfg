\* Two regions with one thread each, promoted and demoted.
CONSTANTS
  None = None
  Admin = Admin
  t1 = t1
  t2 = t2
  east = east
  west = west
  k1 = k1
  k2 = k2
  w1 = w1
  w2 = w2
  Tenants = {t1, t2}
  ActiveTenants = {t1, t2}
  HomeRegion <- EastHome
  Keys = {k1, k2}
  Bodies <- MCBodies
  Regions = {east, west}
  FailoverRegion <- TwoRegionFailover
  WorkerRegion <- OnePerRegion
  InitialRole <- EastPrimary
  Workers = {w1, w2}
  Requests <- FailoverRequests
  MaxAttempts <- FailoverAttempts
  MaxInvoices = 2
  MaxRestarts = 2
  SigningConfigured = TRUE
  RestartRoles = {"primary", "standby"}
SPECIFICATION Spec
INVARIANTS
  WrittenInAllowedRegion
  EvidenceKept
  TrailMatchesSubmissions
PROPERTIES
  StandbyNeverWrites
\* The clients stop when each request was made as often as the bound allows.
CHECK_DEADLOCK FALSE
