\* A client lists the devices while the first one is registered.
SPECIFICATION Spec
CONSTANTS
  c1 = c1
  c2 = c2
  p1 = p1
  p2 = p2
  d1 = d1
  d2 = d2
  ch1 = ch1
  ch2 = ch2
  PortSeq <- MCPortSeq
  Device = {d1, d2}
  NoDevice = NoDevice
  NoPort = NoPort
  ChannelOf <- MCChannelOf
  NoChannel = NoChannel
  Client = {c1}
  Asks <- MCListOnly
  MaxResends = 0
  MaxCrashes = 0
INVARIANT ListNeverNull
