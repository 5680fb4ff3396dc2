SPECIFICATION Spec
CONSTANTS
  Devices <- MCDevices
  Seed = 2
  Endpoints <- MCEndpoints
  Neighbours <- MCNeighbours
  Advertised <- MCAdvertised
  Hosts <- MCHosts
  Plans <- MCPlans
  Calls <- MCCalls
  MaxCrawls = 2
  MaxFaults = 2
INVARIANT
  EventsInOrder
CHECK_DEADLOCK FALSE
