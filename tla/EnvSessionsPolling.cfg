SPECIFICATION SessionPollSpec
CONSTANTS
  Clients = {c1, c2}
  Sessions = {s1}
  ShellSession = s1
  NoSession = NoSession
  Backend = "Overlay"
  Ops = {"session_create", "session_list", "kill"}
  HasTimeout = FALSE
  MaxCrashes = 0
  MaxSubvols = 1
  NoMeta = NoMeta
PROPERTIES
  IndexRepaired
  SessionStateHeals
CHECK_DEADLOCK FALSE
