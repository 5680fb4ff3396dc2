SPECIFICATION FairSpec
CONSTANTS
  Devices <- MCDevices
  Seed = 2
  Endpoints <- MCEndpoints
  Neighbours <- MCNeighbours
  Advertised <- MCAdvertised
  Hosts <- MCHosts
  Plans <- MCPlans
  Calls <- MCCalls
  MaxCrawls = 2
  MaxFaults = 2
INVARIANTS
  TypeOK
  NamedIsReported
  LimitsAreKept
PROPERTIES
  RecordsLikeSerial
  CrawlEnds
CHECK_DEADLOCK FALSE
