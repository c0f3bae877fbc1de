SPECIFICATION Spec
CONSTANTS
  Programs <- MCPrograms
  Outside <- MCOutside
  Known = {1}
  MaxRecords = 9
  MaxDepth = 2
  PageSize = 2
  Layouts <- MCLayouts
  Workers = {1, 2, 3, 4}
  MaxListed = 2
INVARIANTS GraphTrue CallsTrue AnswersTrue
CHECK_DEADLOCK FALSE
