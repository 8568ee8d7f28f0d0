SPECIFICATION Spec
CONSTANTS
  Airport = {1, 2, 3, 4}
  Time = {10, 11, 12, 13}
  Flight <- MCFlight
  record <- MCRecord
  Files <- MCFiles
  NoFile = NoFile
  Blank = Blank
  Garbled = Garbled
  NoRange = NoRange
  MaxRecords = 4
INVARIANTS
  TypeOK
  RecordsAreLines
  LookupsMatchGraph
PROPERTIES
  LoadsIfWellFormed
CHECK_DEADLOCK FALSE
