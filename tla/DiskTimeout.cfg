SPECIFICATION Spec
CONSTANTS
  Byte = {"FE", "FB"}
  Zero = "FB"
  IdMark = "FE"
  DataMarks = {"FB"}
  NibbleBase = 2
  DecimalBase = 2
  Ticks = {0}
  PpiWords <- MCPpiWords
  Intes = {2}
  WriteBytes = {}
  Clocks = {FALSE}
  Registers <- MCReadRegisters
  Modes1 = {0, 1}
  Modes2 = {0}
  Counts1 = {1}
  Counts2 = {1, 2}
PROPERTY TimeoutMeansNoMark
