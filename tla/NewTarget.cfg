SPECIFICATION RetrySpec
CONSTANTS
  Clients = {c1}
  Sessions = {}
  Backend = "Btrfs"
  Ops = {"create", "start", "stop", "destroy", "status", "exec"}
  NewOps = {"new", "studio"}
  Sources = {s1}
  NoSource = NoSource
  HasTimeout = TRUE
  MaxCrashes = 1
  MaxSubvols = 2
  NoMeta = NoMeta
INVARIANTS
  TypeOK
  MachineHasRecord
  
  
  
  NewCanBeRepeated
PROPERTIES
  TerminalStatesSticky
  
  NewSparesRunning
  
CHECK_DEADLOCK FALSE
