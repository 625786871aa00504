\* One client, two uThings on two ports; one of them comes or goes, one restart.
SPECIFICATION BridgeSpec
CONSTANTS
  p1 = p1
  p2 = p2
  d1 = d1
  d2 = d2
  ch1 = ch1
  ch2 = ch2
  PortSeq <- MCPortSeq
  Device = {d1, d2}
  UThing = {d1, d2}
  NoDevice = NoDevice
  NoPort = NoPort
  ChannelOf <- MCChannelOf
  PortBase <- MCPortBase
  PortNumber <- MCPortNumber
  Configs <- MCConfigs
  LoadedConfig <- MCLoaded
  Malformed <- MCMalformed
  NoChannel = NoChannel
  Client = {c1}
  Asks <- MCAsks
  MaxResends = 0
  MaxCrashes = 1
  MaxPlugs = 1
INVARIANT WritersApart
PROPERTY ImplementsParts
