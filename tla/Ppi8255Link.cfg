SPECIFICATION LinkSpec
CONSTANTS
  Byte = {0, 1}
  Zero = 0
  Values = {0}
  Words <- MCWords
  CBits = {2, 4, 6}
  MaxBytes = 3
INVARIANT StatusIsTrue
PROPERTY RequestsHaveCause
PROPERTY PortsAreBuffers
PROPERTY EveryByteArrives
CHECK_DEADLOCK FALSE
