\* Two threads of one process: what holds however handlers interleave.
CONSTANTS
  None = None
  Admin = Admin
  t1 = t1
  t2 = t2
  east = east
  west = west
  k1 = k1
  k2 = k2
  w1 = w1
  w2 = w2
  Tenants = {t1, t2}
  ActiveTenants = {t1, t2}
  HomeRegion <- EastHome
  Keys = {k1, k2}
  Bodies <- MCBodies
  Regions = {east}
  FailoverRegion <- NoFailover
  WorkerRegion <- AllEast
  InitialRole <- AllPrimary
  Workers = {w1, w2}
  Requests <- ConcurrentRequests
  MaxAttempts <- Once
  MaxInvoices = 2
  MaxRestarts = 1
  SigningConfigured = FALSE
  RestartRoles = {"primary"}
SPECIFICATION Spec
SYMMETRY Threads
INVARIANTS
  KeyBindsOneTransform
  KeysAreUnique
  TenantsSeeTheirOwn
  OfficialResultsAreTraceable
PROPERTIES
  RedactionIsFinal
  ImplementsLedger
\* The clients stop when each request was made as often as the bound allows.
CHECK_DEADLOCK FALSE
