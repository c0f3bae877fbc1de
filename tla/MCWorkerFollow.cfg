SPECIFICATION Spec
CONSTANTS
  resident1 = resident1
  spawned1 = spawned1
  spawned2 = spawned2
  Tids <- MCTids
  Residents <- MCResidents
  MaxWorkers = 2
  MaxCalls = 2
SYMMETRY Alike
INVARIANTS PlacesTrue WorkersOfCall
CHECK_DEADLOCK FALSE
