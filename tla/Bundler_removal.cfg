\* A request replaces an operation while a tick has it in hand.
SPECIFICATION Spec
CONSTANTS
  Requests = {r1, r2}
  Ticks = {t1}
  Ops <- FewOps
  Modes <- ImmediateOnly
  InitMode <- Immediate
  NoOp = NoOp
  pm = pm
  pmChecksummed = pmChecksummed
  badPm = badPm
  fa = fa
  Addrs = {pm, pmChecksummed, badPm, fa}
  Paymasters = {pm, badPm}
  Checksummed <- CheckedAddress
  NoAddr = NoAddr
  NoEntry = NoEntry
  Unread = Unread
  whitelist = {}
  blackList = {badPm}
  Deposits = {0, 1, 2}
  MaxBundleGas = 2
  MinInclusionDenominator = 1
  ThrottlingSlack = 1
  BanSlack = 1
  CrashSeen = 1
  MaxOps = 4
PROPERTY RemovalsAreJudged
