SPECIFICATION ApplySpec
CONSTANTS
  a = a
  x = x
  o = o
  Paths <- MCPaths
  Inside <- MCInside
  Source <- MCSource
  Contents = {}
  Original = original
  Theirs = theirs
  Handles = {}
  Closed = Closed
  Gone = Gone
  RenameDirs = TRUE
  MaxCuts = 2
  MaxEdits = 1
INVARIANTS
  Delivered
  RefusedWithReason
PROPERTIES
  ApplyUnseen
  HostEditsSurvive
CHECK_DEADLOCK FALSE
