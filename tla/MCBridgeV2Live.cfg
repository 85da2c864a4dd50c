SPECIFICATION LiveSpec
CONSTANTS
  A = A
  B = B
  t1 = t1
  t2 = t2
  u1 = u1
  Zero = Zero
  Bridge = Bridge
  Chains <- MCChains
  Links <- MCLinks
  Users = {u1}
  Tokens = {t1}
  TokenPairs <- LiveTokenPairs
  PayloadSizes = {}
  FeeRates = {}
  Values = {0}
  Discounts = {}
  RateConfigs <- LiveRateConfigs
  InitialRate <- LiveInitialRate
  Amounts = {2}
  Supply = 4
  MaxNonce = 2
  MaxEpoch = 2
  MaxUint = 3
  MaxAdminOps = 2
PROPERTIES
  DeliveredIsPaid
  SignedIsPaid
CHECK_DEADLOCK FALSE
