\* Two ports, a uThing and a modem, three plugs; setConfig changes the base.
SPECIFICATION Spec
CONSTANTS
  acm0 = acm0
  acm1 = acm1
  usb0 = usb0
  voc = voc
  modem = modem
  Port = {acm0, usb0}
  Device = {voc, modem}
  UThing <- MCUThing
  NoDevice = NoDevice
  NoPort = NoPort
  PortBase <- MCPortBase
  PortNumber <- MCPortNumber
  ChannelOf <- MCChannelOf
  LoadedConfig <- MCLoaded
  Malformed <- MCMalformed
  Configs <- MCConfigs
  MaxPlugs = 3
INVARIANTS
  TypeOK
  ProbeLeavesRelaysAlone
  OneRelayPerEntry
PROPERTIES
  EntriesStay
  ImplementsRegistry
  AttachedUThingRegistered
  LostRelayEnds
  MonitorReturns
