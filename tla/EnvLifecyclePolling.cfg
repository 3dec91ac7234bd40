SPECIFICATION PollSpec
CONSTANTS
  Clients = {c1, c2}
  Sessions = {}
  Backend = "Overlay"
  Ops = {"start", "stop", "status", "exec", "diff"}
  HasTimeout = FALSE
  MaxCrashes = 0
  MaxSubvols = 1
  NoMeta = NoMeta
PROPERTIES
  StaleRunningHeals
CHECK_DEADLOCK FALSE
