SPECIFICATION Spec
CONSTANTS
  vlan = vlan
  acl = acl
  NodeIds = {vlan, acl}
  Devices <- MCDevices
  Seed = 2
  Crawls <- MCCrawls
  Renderings <- MCRenderings
  Repairs <- MCRepairs
  Applied <- MCApplied
  MaxRounds = 2
INVARIANT
  SentIsApproved
CHECK_DEADLOCK FALSE
