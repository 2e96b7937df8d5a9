SPECIFICATION FilesSpec
CONSTANTS
  f1 = f1
  f2 = f2
  log = log
  NoPath = NoPath
  Path <- MCPath
  Protected <- MCProtected
  InitialFiles <- MCInitialFiles
  CommandLines <- MCCommandLines
  Sectors = 4
  DataBytes = 1
  Skew = 2
  Gap <- MCGap
  MaxWrites = 1
  Written = {4}
  Lateness = {0, 1}
  Formats <- MCFormats
INVARIANTS MountsAreSound NoWriteIsLost SavedIsRead PauseIsTheUsers
PROPERTY FilesAreSaved
