SPECIFICATION ChannelSpec
CONSTANTS
  NibbleBase = 2
  DecimalBase = 2
  Modes = {0, 1, 4, 5, 6, 7}
  Accesses = {"lsb", "msb", "lsb_msb"}
  Codes = {FALSE}
  Counts = {0, 1, 3}
PROPERTY CountIsExact
PROPERTY LatchedReadIsTrue
