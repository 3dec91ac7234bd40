SPECIFICATION Spec
CONSTANTS
  a = a
  b = b
  x = x
  Paths <- MCPaths
  Contents = {new}
  Original = original
  Handles = {h1}
  Closed = Closed
  Gone = Gone
  RenameDirs = TRUE
  MaxCuts = 0
PROPERTIES
  RenameMovesTree
SYMMETRY Symmetry
CHECK_DEADLOCK FALSE
