SPECIFICATION Spec
CONSTANTS
  id1 = id1
  id2 = id2
  r1 = r1
  r2 = r2
  NoFunc = NoFunc
  Deployments <- MCDeployments
  Requests <- MCRequests
PROPERTIES EveryFunctionIsCalled
CHECK_DEADLOCK FALSE
