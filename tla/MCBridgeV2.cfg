SPECIFICATION MCSpec
CONSTANTS
  A = A
  B = B
  t1 = t1
  t2 = t2
  u1 = u1
  Zero = Zero
  Bridge = Bridge
  Chains <- MCChains
  Links <- MCLinks
  Users = {u1}
  Tokens = {t1, t2}
  TokenPairs <- MCTokenPairs
  PayloadSizes = {}
  FeeRates = {0, 1}
  Values = {0}
  Discounts = {0, 10000, 10001}
  RateConfigs <- MCRateConfigs
  InitialRate <- MCInitialRate
  Amounts = {1, 2}
  Supply = 2
  MaxNonce = 2
  MaxEpoch = 1
  MaxUint = 100
  MaxAdminOps = 2
INVARIANTS
  TypeOK
  TokenTablesInverse
  SpentIffHandled
  Conservation
PROPERTIES
  ExactlyOnce
CHECK_DEADLOCK FALSE
