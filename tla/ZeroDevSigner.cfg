\* A call may send three operations, one more than it may without a fallback.
SPECIFICATION Spec
CONSTANTS
  c1 = c1
  c2 = c2
  Calls = {c1, c2}
  Configs <- MCConfigs
  MarketFees <- FallingFees
  PaymasterFees = {36}
  MaxTxRetries = 1
  MaxSends = 3
INVARIANTS TypeOK AttemptsBounded OnlyFallBackRepeats ResendsCanReplace AnnouncedWereAccepted FallbackIsScoped
CHECK_DEADLOCK FALSE
