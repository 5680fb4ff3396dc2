SPECIFICATION Spec
CONSTANTS
  vlan10 = vlan10
  vlan20 = vlan20
  name = name
  routing = routing
  Items <- MCItems
  Requests <- MCRequests
  Families <- MCFamilies
  InitialConfigs <- MCInitialConfigs
  MaxChanges = 1
  MaxFaults = 1
INVARIANT
  RolledBackIsConfirmed
