SPECIFICATION Spec
CONSTANTS
  Clients = {c1}
  Bases = {b}
  Envs = {e}
  Sources <- MCSources
  Dirs <- HostDirs
  Links <- HostLinks
  Home <- HomeDir
  Store <- StoreDir
  BroadRoots <- System
  Parts = {root, part}
  Root = root
  Sessions = {s1}
  Pids = {p1, p2}
  MaxCrashes = 1
  None = None
INVARIANTS
  WholeTrees
  IndexHasFiles
  
PROPERTIES
  BaseStaysFrozen
  KnownSessionsStayTracked
SYMMETRY Symmetry
CHECK_DEADLOCK FALSE
