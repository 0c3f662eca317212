SPECIFICATION ServerSpec
CONSTANTS
  Files <- MCFiles
  Firmwares = {f1}
  Clients = {c1}
  Devices = {d1, d2}
  Ids = {i1, i2, i3}
  NoId = NoId
  MaxStarts = 2
INVARIANTS
  ServerTypeOK
  SetUpBeforeUse
  EverythingKnownIsStored
  StatusListsAllDevices
PROPERTIES
  UpdatesAnswered
  ImplementsService
CHECK_DEADLOCK FALSE
