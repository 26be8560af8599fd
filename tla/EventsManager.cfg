\* Every order of mining, in one transaction or several, of three operations.
SPECIFICATION EventsSpec
CONSTANTS
  Ops <- MCOps
  acc1 = acc1
  acc2 = acc2
  pm = pm
  fa = fa
  faChecksummed = faChecksummed
  Addrs = {acc1, acc2, pm, fa, faChecksummed}
  Checksummed <- CheckedAddress
  NoAddr = NoAddr
  NoEntry = NoEntry
  NoTx = NoTx
  whitelist = {}
  blackList = {}
  MinInclusionDenominator = 1
  ThrottlingSlack = 1
  BanSlack = 1
  CrashSeen = 1
  MaxOps = 2
  MaxBundle = 3
INVARIANTS EventsTypeOK AnswersAreItsOwn
