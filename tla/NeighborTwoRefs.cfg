SPECIFICATION Spec
CONSTANTS
  Boxes <- MCBoxes
  SeedBox = 1
  Names <- MCNames
  SeedName = 1
  Chassis <- MCChassis
  Ports <- MCPorts
  Families <- MCFamilies
  Unstated <- MCUnstated
  SeedFamily = "cisco"
  Canonical <- MCCanonical
  Networks <- MCNetworks
  Budgets = {3, 7}
  MaxCrawls = 2
  MaxSilent = 3
INVARIANT
  CorroborationIsOneDevice
CHECK_DEADLOCK FALSE
