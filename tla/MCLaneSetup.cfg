SPECIFICATION MCSpec
CONSTANTS
  A = A
  B = B
  pA = pA
  pB = pB
  qB = qB
  bob = bob
  nA = nA
  nB = nB
  aB = aB
  sB = sB
  Zero = Zero
  Bridge = Bridge
  Chains <- MCChains
  Links <- MCLinks
  Users <- MCUsers
  Pools <- MCPools
  Tokens <- MCTokens
  Home <- MCHome
  PoolToken <- MCPoolToken
  PoolBridgeToken <- MCPoolBridgeToken
  AddressBook <- MCAddressBook
  PoolSetups <- MCPoolSetups
  TokenPairs <- MCTokenPairs
  BridgeSizes = {1}
  ScriptFees <- MCScriptFees
  PayloadSizes = {1}
  FeeRates = {0, 1}
  Values = {0}
  Discounts = {10000}
  RateConfigs <- MCRateConfigs
  Amounts = {1}
  Supply = 1
  MaxNonce = 2
  MaxEpoch = 1
  MaxUint = 100
INVARIANTS
  LaneTypeOK
  ReleasedIffSpent
  AnnouncedIsMinted
  CheckedLaneCarries
CHECK_DEADLOCK FALSE
