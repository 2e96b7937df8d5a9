SPECIFICATION Spec
CONSTANTS
  Byte = {"FE"}
  Zero = "FE"
  IdMark = "FE"
  DataMarks = {}
  NibbleBase = 2
  DecimalBase = 2
  Ticks = {0, 1}
  PpiWords <- MCPpiWords
  Intes = {2, 6}
  WriteBytes = {"FE"}
  Clocks = {FALSE}
  Registers <- MCRegisters
  Modes1 = {1}
  Modes2 = {0}
  Counts1 = {1}
  Counts2 = {1}
INVARIANTS Settled LatchesAgree SecondIndexWritesNothing
PROPERTY LastByteIsAnnounced
