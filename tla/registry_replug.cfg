\* One uThing, pulled out and plugged in again.
SPECIFICATION Spec
CONSTANTS
  acm0 = acm0
  acm1 = acm1
  usb0 = usb0
  voc = voc
  modem = modem
  Port = {acm0}
  Device = {voc}
  UThing <- MCUThing
  NoDevice = NoDevice
  NoPort = NoPort
  PortBase <- MCPortBase
  PortNumber <- MCPortNumber
  ChannelOf <- MCChannelOf
  LoadedConfig <- MCLoaded
  Malformed <- MCMalformed
  Configs <- MCOnlyLoaded
  MaxPlugs = 2
PROPERTY ConnectedDeviceServed
