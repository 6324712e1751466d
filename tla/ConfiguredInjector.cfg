SPECIFICATION Spec
CONSTANTS
  NaN = NaN
  None = None
  f1 = f1
  f2 = f2
  Faults = {f1, f2}
  Files <- MCFiles
  Entries <- MCEntries
  Readings <- MCReadings
  RangeMin = 2
  RangeMax <- MCRangeMax
  MaxEntries = 3
SYMMETRY Symmetric
CHECK_DEADLOCK FALSE
INVARIANTS
  TypeOK
  StopsOnlyOnExtremeNumbers
  UpdatesStayLoadable
  
  OutputsKeepBounds
  SectorIsArc
