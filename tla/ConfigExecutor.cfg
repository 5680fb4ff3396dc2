SPECIFICATION FairSpec
CONSTANTS
  vlan10 = vlan10
  vlan20 = vlan20
  name = name
  routing = routing
  Items <- MCItems
  Requests <- MCRequests
  Families <- MCFamilies
  InitialConfigs <- MCInitialConfigs
  MaxChanges = 2
  MaxFaults = 2
INVARIANTS
  TypeOK
  TypedInItsMode
  RolledBackIsClean
  ReapplyIsIdempotent
  LedgerAgrees
  AppliedIsInPlace
PROPERTIES
  SavedIsVerified
  EveryCallReturns
  KeepsProtocol
