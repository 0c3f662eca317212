SPECIFICATION Spec
CONSTANTS
  d1 = d1
  d2 = d2
  Devices <- MCDevices
  UnicastTimeout = 2
  UnicastAttemptCount = 2
  SessionTimeout = 3
  ClassBOverrun = 3
  Horizon = 12
SYMMETRY Symmetry
INVARIANTS TypeOK DeletedAfterSessions EnqueuedAfterStart StatusAfterSessions
           EnqueuedBeforeEnd
CHECK_DEADLOCK FALSE
