SPECIFICATION FairSpec
CONSTANTS
  vlan = vlan
  acl = acl
  NodeIds = {vlan, acl}
  Devices <- MCDevices
  Seed = 2
  Crawls <- MCCrawls
  Renderings <- MCRenderings
  Repairs <- MCRepairs
  Applied <- MCApplied
  MaxRounds = 2
INVARIANTS
  TypeOK
  CompleteIsEarned
  BrokenIsLoud
  EveryRenderAccounted
  UnconfirmedStopsTheRun
  OnlyGatedDevicesTouched
  RepairIsReverified
PROPERTIES
  RunEnds
CHECK_DEADLOCK FALSE
