SPECIFICATION Spec
CONSTANTS
  Selectors = {execute, other}
  MaxNonce = 3
INVARIANTS TypeOK UndisturbedIsValid EstimatedAsSigned
CHECK_DEADLOCK FALSE
