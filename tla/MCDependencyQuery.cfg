SPECIFICATION Spec
CONSTANTS
  Regs = {"x", "y"}
  Bytes = {"b1", "b2"}
  MaxRecords = 4
  Records <- MCRecords
  Queries <- MCQueries
  EdgeCap = 3
INVARIANTS RowsExact TablesTrue WalkExact SliceTrue
CHECK_DEADLOCK FALSE
