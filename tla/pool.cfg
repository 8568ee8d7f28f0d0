SPECIFICATION Spec
CONSTANTS
  Airport = {1, 2, 3}
  Time = {10, 11, 12}
  Flight <- MCFlight
  record <- MCRecord
  Databases <- MCDatabases
  Wanted <- MCWanted
  IntMax = 100
  NotLoaded = NotLoaded
  NoObject = NoObject
INVARIANTS
  GetNodeSucceeds
  ChildrenAreArrivals
PROPERTIES
  ObjectsAreStable
