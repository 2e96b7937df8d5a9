SPECIFICATION FairTransferSpec
CONSTANTS
  Byte = {"FE", "FB"}
  Zero = "FB"
  IdMark = "FE"
  DataMarks = {"FB"}
  NibbleBase = 4
  DecimalBase = 2
  Ticks = {0, 1, 2, 3, 4}
  PpiWords = {}
  Intes = {}
  WriteBytes = {"FE", "FB"}
  Clocks = {}
  Registers = {}
  Modes1 = {}
  Modes2 = {}
  Counts1 = {}
  Counts2 = {}
  IdLength = 4
  DataLength = 5
INVARIANTS ReadIsTheField WriteIsThePut
PROPERTY EndIsComplete
PROPERTY FieldsEnd
