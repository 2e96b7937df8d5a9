SPECIFICATION Spec
CONSTANTS
  Byte = {0}
  Zero = 0
  RevolutionTicks = 5
  ByteTicks = 2
  LastTrack = 1
  Media <- MCMedia
  DataWords <- MCDataWords
  ControlWords <- MCControlWords
  Widths = {1}
INVARIANT TracksSpaced
INVARIANT ProtectedIsUnchanged
INVARIANT StatusIsCurrent
PROPERTY CellsPassInTurn
