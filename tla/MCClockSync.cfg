SPECIFICATION Spec
CONSTANTS
  Modulus = 8
  LeapSeconds = 1
  MaxSkew = 1
  InvalidErrors <- MCInvalidErrors
  MaxGateways = 2
  Absent = Absent
  Invalid = Invalid
  StartTime = 6
  Horizon = 8
  MaxRequests = 3
  Tokens = 2
INVARIANTS TypeOK ClockAgrees AnswersMatchClock
CHECK_DEADLOCK FALSE
