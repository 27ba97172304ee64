CONSTANTS
  d1 = d1
  d2 = d2
  d3 = d3
  h1 = h1
  h2 = h2
  h3 = h3
  Boot = Boot
  NoDevice = NoDevice
  Devices <- MCDevices
  Policy <- MCPolicy
  Entry <- MCEntry
  Named <- MCNamed
  HostList <- MCHostList
  DevicesOf <- MCDevicesOf
  InitPreload <- MCInitPreload
  Clients = {}
  PowerEvents <- MCInvalidPowerEvents
  Serialized = TRUE
  MaxNodes = 2
  MaxCrashes = 1

SPECIFICATION Spec


INVARIANT AtMostOneNode
