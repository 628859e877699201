SPECIFICATION Spec
CONSTANTS
  Ports = {80, 8080}
  DefaultPort = 80
  Names = {"koda"}
  Hosts = {"koda"}
  NoHost = "none"
  Matches <- Paths
  Uris <- Asked
  MaxServers = 2
  MaxLocations = 3
  MaxListens = 2
  Files <- OnDisk
  Takes <- Taken
  Rest <- Behind
  Written <- Samples
INVARIANTS TypeOK PortMapAgrees HostIsServed LocationFits
INVARIANTS FileIsRead MissingIsRefused SettingsAreWritten
