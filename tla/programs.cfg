SPECIFICATION Spec
CONSTANTS
  Clients = {c1, c2}
  Base = 2
  OddBodies <- MCOddBodies
  Start <- MCStart
  MaxTicks = 1
  MaxCopies = 2
  MsgSizes = {0, 5}
  MaxCount = 3
  Cap = 2
  BodySizes = {0, 1, 2}
  Limit = 1
  Headers <- MCHeaders
  Text = text
  IntMax = 3
  MaxBody = 3
  Null = null
CHECK_DEADLOCK FALSE
INVARIANTS TypeOK FreshDatesOnRequest MessagesInStep StartIsSafe ObjectsOutliveOperations PrintsWhatCame
PROPERTIES EveryDateRequestAnswered ProgramsEnd ServesUntilExit
