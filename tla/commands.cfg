SPECIFICATION Spec
CONSTANTS
  Number <- MCNumber
  Word <- MCWord
  Requests <- MCRequests
  Inputs <- MCInputs
INVARIANTS
  RunsWhatWasTyped
PROPERTIES
  EveryLineAnswered
CHECK_DEADLOCK FALSE
