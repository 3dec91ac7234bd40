SPECIFICATION Spec
CONSTANTS
  Paths <- AllPaths
  Rank <- Numbered
  LowerTrees <- Snapshots
  Hosts <- HostsWithRoots
  LinkTarget <- Target
  LinkNames <- Links
  Scanned <- Listed
  Handles = {h1}
  Closed = Closed
  Gone = Gone
INVARIANTS
  FilesTypeOK
  ListingIsLookup
  RemovedStaysAway
  OpenFilesAreSeen
  ScanMissesNothing

  
CHECK_DEADLOCK FALSE
