SPECIFICATION FairSpec
CONSTANTS
  p = p
  q = q
  Threads = {p, q}
  Primary = p
  Kinds <- MCKinds
  Batch = 2
  MaxEvents = 5
  MaxCalls = 2
  LineUnits = 2
  MaxLine = 2
  Budget = 7
  Envelope = 1
INVARIANTS StreamTrue PagesWhole
PROPERTIES ImplementsRecordLog ListedIsFinal HookReturns
CHECK_DEADLOCK FALSE
