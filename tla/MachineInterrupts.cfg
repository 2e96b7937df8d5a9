SPECIFICATION Spec
CONSTANTS
  d0 = d0
  DataWire <- MCDataWire
  Byte <- MCByte
  Zero <- MCZero
  Key = {k1, k2}
  Code <- MCByte
  NoPress = NoPress
  RepeatDelay = 2
  RepeatInterval = 1
  OtherInput = {5}
  MaskByte = {0, 4, 7, 9}
  MaxQueued = 1
INVARIANTS LineIsCurrent LatestKeyIsRead PrinterAnswers
