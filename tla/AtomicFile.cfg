SPECIFICATION Spec
CONSTANTS
  Writers = {w1, w2}
  Readers = {r1}
  Values = {v1, v2}
  Nothing = Nothing
  Path = Path
  Pids = {1}
  SyncsDir = TRUE
  MaxCounter = 2
  MaxInodes = 2
INVARIANTS
  ReadersSeeWholeFiles
PROPERTIES
  ImplementsRegister
SYMMETRY Symmetry
