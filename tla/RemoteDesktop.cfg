SPECIFICATION Spec
CONSTANTS
  AwayPlatform = "desktop"
  Clients = {c1}
  Daemons = {d1}
  Supervised = {d1}
  Lines <- MCRemoteLines
  NoOne = NoOne
  MaxCrashes = 0
PROPERTIES
  RemoteReachesDaemon
