SPECIFICATION FleetSpec
CONSTANTS
  id1 = id1
  id2 = id2
  d1 = d1
  r1 = r1
  r2 = r2
  NoFunc = NoFunc
  NoUplink = NoUplink
  Deployments <- MCDeployments
  Requests <- MCRequests
  Devices <- MCDevices
  GroupIDs <- MCGroupIDs
  Indexes <- MCIndexes
INVARIANTS FleetTypeOK RegistryStable NoCrossTalk
PROPERTIES SoleAnswerCounts
CHECK_DEADLOCK FALSE
