SPECIFICATION Spec
CONSTANTS
  c1 = c1
  c2 = c2
  r1 = r1
  r2 = r2
  r3 = r3
  Clients = {c1, c2}
  Requests = {r1, r2}
  Owner <- OneOwner
  Priority <- SamePriority
  Stages <- RamStages
  Lockless = FALSE
  SortMethod = "stable"
  SleepTime = "finite"
  NoRequest = NoRequest
  Service = Service
  Nobody = Nobody
  Calls = {"request", "try_cancel", "defer_cancel", "stop", "stop_drain", "run"}
  Reuse = TRUE
  ZeroInit = FALSE
  SpuriousWakes = TRUE
INVARIANTS
  HeldUntilEnded
  NoSpuriousCancel
PROPERTIES
  Lifecycle
  NoOvertaking
