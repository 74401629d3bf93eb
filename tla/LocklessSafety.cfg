SPECIFICATION Spec
CONSTANTS
  c1 = c1
  c2 = c2
  r1 = r1
  r2 = r2
  r3 = r3
  Clients = {c1, c2}
  Requests = {r1, r2}
  Owner <- TwoOwners
  Priority <- DistinctPriorities
  Stages <- RamStages
  Lockless = TRUE
  SortMethod = "partial"
  SleepTime = "forever"
  NoRequest = NoRequest
  Service = Service
  Nobody = Nobody
  Calls = {"request", "defer_cancel", "drain", "set_sleep_time", "destroy"}
  Reuse = TRUE
  ZeroInit = FALSE
  SpuriousWakes = TRUE
INVARIANTS
  TypeOK
  HeldOnce
  HeldUntilEnded
PROPERTIES
  Lifecycle
  UrgentFirst
CHECK_DEADLOCK FALSE
