SPECIFICATION Spec
CONSTANTS
  Files <- MCFiles
  Firmwares = {f1}
  MaxStarts = 1
INVARIANTS
  ConfigIsServers
CHECK_DEADLOCK FALSE
