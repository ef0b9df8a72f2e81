SPECIFICATION Spec
CONSTANTS
  PARALLEL = 2
  Clients = {c1, c2, c3}
  Base = 2
  Delays <- MCDelays
  Null = null
INVARIANTS TypeOK MessageHasOneOwner OwnReply SleepsAsAsked
PROPERTY EveryRequestServed
