SPECIFICATION Spec
CONSTANTS
  LinkCapacity = 1
  UartCapacity = 2
  WireCapacity = 1
  FrameBytes = 2
  MaxIn = 4
  MaxOut = 5
INVARIANTS BridgeIsFaithful
PROPERTY BytesGetThrough
