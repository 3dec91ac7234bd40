SPECIFICATION FairSpec
CONSTANTS
  AwayPlatform = "linux"
  Clients = {c1}
  Daemons = {d1, d2}
  Supervised = {d1}
  Lines <- MCLines
  NoOne = NoOne
  MaxCrashes = 2
INVARIANTS
  RemoteIsLocal
  AttachHasTty
PROPERTIES
  DaemonComesBack
