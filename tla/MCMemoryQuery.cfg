SPECIFICATION Spec
CONSTANTS
  Addr = {0, 1, 2}
  Byte = {0, 1}
  Insns <- MCInsns
  Calls <- MCCalls
  Snapshots <- MCSnapshots
  Windows <- MCWindows
  Patterns <- MCPatterns
  Printable <- MCPrintable
  MaxThreads = 2
  MaxCopy = 2
  SynthBudget = 2
  MaxRecords = 3
  Shared = {1}
  MaxStray = 1
  MaxWorker = 2
  MaxCalls = 2
INVARIANTS MemoryTrue BuiltOnce MemoryAnswers
CHECK_DEADLOCK FALSE
