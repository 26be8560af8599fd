\* No forced attempt: the execution mutex serialises everything.
SPECIFICATION Spec
CONSTANTS
  Requests = {r1, r2, r3}
  Ticks = {}
  Ops <- AllOps
  Modes <- BothModes
  InitMode <- Immediate
  NoOp = NoOp
  pm = pm
  pmChecksummed = pmChecksummed
  badPm = badPm
  fa = fa
  Addrs = {pm, pmChecksummed, badPm, fa}
  Paymasters = {pm, badPm}
  Checksummed <- CheckedAddress
  NoAddr = NoAddr
  NoEntry = NoEntry
  Unread = Unread
  whitelist = {}
  blackList = {badPm}
  Deposits = {0, 1, 2}
  MaxBundleGas = 2
  MinInclusionDenominator = 1
  ThrottlingSlack = 1
  BanSlack = 2
  CrashSeen = 3
  MaxOps = 4
SYMMETRY Symmetry
INVARIANTS NoBannedInBundle NoReplacedOpInBundle
PROPERTY RemovalsAreJudged
