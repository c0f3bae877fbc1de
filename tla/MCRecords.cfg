SPECIFICATION Spec
CONSTANTS
  CellBits = 2
  Cells = {0, 1}
  Pcs = {0, 1, 2, 3, 4}
  Outside = {9}
  Fetchable <- MCFetchable
  Shared = {0}
  Snapshots <- MCSnapshots
  NoInsn = NoInsn
  MaxRecords = 4
  MaxHoles = 1
  MaxReplay = 3
  DirectScan = 2
  MaxPage = 2
  MaxLookback = 2
  Context = 4
  Lookback = 4
  MaxWrites = 1
  Depth = 4
  MaxNodes = 8
  Small = 4
  Delta = 6
  Pointer = 8
INVARIANTS ReplayTrue QueriesTrue 
CHECK_DEADLOCK FALSE
