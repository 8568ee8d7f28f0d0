SPECIFICATION Spec
CONSTANTS
  Airport = {1, 2, 3, 4, 5}
  Time = {10, 11, 12, 13}
  Flight <- MCFlight
  record <- MCRecord
  Databases <- MCDatabases
  Queries <- MCConnectivityQueries
  IntMax = 100
  NoNode = NoNode
  NoQuery = NoQuery
INVARIANTS
  AllListed
