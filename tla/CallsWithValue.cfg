\* The first operation that is accepted although an entity sent value refutes it.
SPECIFICATION Spec
CONSTANTS
  Requests <- MCRequests
  Stakes <- MCStakes
  Steps <- MCSteps
  MaxSteps = 3
INVARIANT CallsWithValueAreRefused
CHECK_DEADLOCK FALSE
