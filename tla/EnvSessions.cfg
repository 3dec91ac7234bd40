SPECIFICATION SessionSpec
CONSTANTS
  Clients = {c1, c2}
  Sessions = {s1}
  ShellSession = s1
  NoSession = NoSession
  Backend = "Overlay"
  Ops = {"start", "status", "session_create", "shell", "attach", "detach", "kill", "logs", "session_list"}
  HasTimeout = FALSE
  MaxCrashes = 1
  MaxSubvols = 1
  NoMeta = NoMeta
INVARIANTS
  IndexedSessionsHaveFiles
  SessionTypeOK
CHECK_DEADLOCK FALSE
