SPECIFICATION FairSpec
CONSTANTS
  c1 = c1
  c2 = c2
  r1 = r1
  r2 = r2
  r3 = r3
  Clients = {c1, c2}
  Requests = {r1, r2}
  Owner <- TwoOwners
  Priority <- SamePriority
  Stages <- RamStages
  Lockless = TRUE
  SortMethod = "never"
  SleepTime = "finite"
  NoRequest = NoRequest
  Service = Service
  Nobody = Nobody
  Calls = {"request", "defer_cancel", "drain"}
  Reuse = FALSE
  ZeroInit = FALSE
  SpuriousWakes = TRUE
PROPERTIES
  Served
  DrainReturns
CHECK_DEADLOCK FALSE
