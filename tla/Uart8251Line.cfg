SPECIFICATION Spec
CONSTANTS
  ShortestCharacter = 2
  Factor16 = 2
  Factor64 = 4
  UartCapacity = 1
  Modes <- MCModes
  Syncs <- MCSyncs
  Commands <- MCCommands
  Data <- MCData
INVARIANTS WorstCaseReset HuntIsExact WrittenIsSent
PROPERTIES ReceivedWhole IsSerialPort
