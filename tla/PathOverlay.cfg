SPECIFICATION Spec
CONSTANTS
  a = a
  b = b
  x = x
  Paths <- MCPaths
  Contents = {new}
  Original = original
  Handles = {h1}
  Closed = Closed
  Gone = Gone
  RenameDirs = FALSE
  MaxCuts = 1
INVARIANTS
  OverlayTypeOK
  NoHiddenUpper
  SafeSaveAtomic
  NoneFailsHalfway
PROPERTIES
  ImplementsTree
SYMMETRY Symmetry
CHECK_DEADLOCK FALSE
