SPECIFICATION Spec
CONSTANTS
  ShortestCharacter = 2
  Factor16 = 2
  Factor64 = 4
  UartCapacity = 1
  Modes <- TimesOne
  Syncs <- MCSyncs
  Commands <- MCCommands
  Data <- MCData
PROPERTY ReceivedWhole
