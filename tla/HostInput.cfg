SPECIFICATION HostSpec
CONSTANTS
  EdgeInterval = 2
  Limit = 2
  Deltas <- MCDeltas
  TestSignals <- MCTestSignals
  Steps = {1}
  Pressable = {"T1"}
  Opens = {TRUE, FALSE}
  Key <- MCKey
  Code <- Byte
  NoPress = NoPress
  RepeatDelay = 3
  RepeatInterval = 2
  CyclesPerFrame = 2
  TicksPerCycle = 1
  TicksPerClock = 2
  TicksPerFrame = 3
  Instructions = {1, 3}
  Scan <- MCScan
  Extended <- MCExtended
  Table <- MCTable
  Accent <- MCAccent
  Navigation <- MCNavigation
  Pressed <- MCPressed
  Uses <- MCUses
INVARIANTS RepeatsOnTime BytesAreTyped ButtonsAreHeld CyclesAreKept
INVARIANTS MotionIsConserved EdgesAreSpaced ChangesAreAnnounced
