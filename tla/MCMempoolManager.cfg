\* MaxOps bounds how often one sender is counted: one more than it can have
\* waiting, so that removals and additions of a key are interleaved.
SPECIFICATION Spec
CONSTANTS
  Ops <- MCOps
  pm = pm
  fa = fa
  Addrs = {pm, fa}
  NoAddr = NoAddr
  NoEntry = NoEntry
  whitelist = {}
  blackList = {}
  MinInclusionDenominator = 10
  ThrottlingSlack = 10
  BanSlack = 10
  CrashSeen = 100
  MaxOps = 4
INVARIANTS TypeOK CounterNeverUnderReports
PROPERTY ImplementsPool
