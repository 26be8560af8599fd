\* Two requests and a forced attempt under fairness; every operation but the
\* deploying and the oversized one, which Bundler_serial has.
SPECIFICATION FairSpec
CONSTANTS
  Requests = {r1, r2}
  Ticks = {t1}
  Ops <- MostOps
  Modes <- ImmediateOnly
  InitMode <- Immediate
  NoOp = NoOp
  pm = pm
  pmChecksummed = pmChecksummed
  badPm = badPm
  fa = fa
  Addrs = {pm, pmChecksummed, badPm, fa}
  Paymasters = {pm, badPm}
  Checksummed <- CheckedAddress
  NoAddr = NoAddr
  NoEntry = NoEntry
  Unread = Unread
  whitelist = {}
  blackList = {badPm}
  Deposits = {0, 1, 2}
  MaxBundleGas = 2
  MinInclusionDenominator = 1
  ThrottlingSlack = 1
  BanSlack = 1
  CrashSeen = 1
  MaxOps = 4
INVARIANTS TypeOK MutexDiscipline BundleOneOpPerSender BundleFits NoPaymasterOvercommitted NoBlacklistedInBundle
PROPERTY EveryTaskEnds
