SPECIFICATION Spec
CONSTANTS
  Requests <- MCRequests
  Stakes <- MCStakes
  Steps <- MCSteps
  MaxSteps = 3
INVARIANTS TypeOK 
CHECK_DEADLOCK FALSE
