SPECIFICATION Spec
CONSTANTS
  Workers = {w1, w2}
  MainThread = main_thread
  MaxConns = 3
  NClients = 4
  Size = 3
  Null = null
CHECK_DEADLOCK FALSE
INVARIANTS TypeOK ClaimsHold UsedObjectsExist LastPipeIsInUse
PROPERTIES NoLostWakeup StopEndsThread TestsEnd
