CONSTANTS
  d1 = d1
  d2 = d2
  d3 = d3
  d4 = d4
  Devices <- MCDevices
  Policy <- MCPolicy
  Entry <- MCEntry
  Named <- MCNamed

SPECIFICATION Spec

INVARIANT TypeOK
INVARIANT RegistryMatchesNodes
INVARIANT DriverStateReleased
