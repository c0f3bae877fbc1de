CONSTANTS
  Regs <- mcRegs
  NoReg = "none"
  Bytes <- mcBytes
  Insns <- mcInsnsCbz
  Starts <- mcStarts
  MaxRecords = 5
  Frame <- mcFrame
  Asked = {"a", "b"}
  Workers = {2}
  Caps = {0, 2}
  ScanLimits = {0, 1}
  NodeLimit = 3
  EdgeLimit = 2
  Alphabet <- mcAlphabet
SPECIFICATION Spec
INVARIANTS
  MissesNoReader
CHECK_DEADLOCK FALSE
