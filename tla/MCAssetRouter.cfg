SPECIFICATION MCSpec
CONSTANTS
  n = n
  s = s
  u1 = u1
  Zero = Zero
  Here = Here
  Ledger = Ledger
  Bitcoin = Bitcoin
  Users = {u1}
  Treasury = Treasury
  Relayer = Relayer
  Router = Router
  BtcStaking = BtcStaking
  AssetsModule = AssetsModule
  Admin = Admin
  Tokens = {n, s}
  NativeTokens = {n}
  BitcoinCoin = BitcoinCoin
  Version = 2
  Thresholds = {0, 4}
  MaxGrants = 2
  PayloadSizes = {}
  FeeRates = {1}
  MaxNonce = 2
  MaxEpoch = 1
  MaxBatch = 2
  Amounts = {2, 4}
  ReleaseAmounts = {1, 3}
  Approvals = {3}
  TokenConfigs <- MCTokenConfigs
  Paths <- MCPaths
  Initial <- MCInitial
  Supply = 4
  MaxAdminOps = 1
  MaxMessages = 2
INVARIANTS
  TypeOK
  UsedIffHandled
  BasculeAgrees
PROPERTIES
  IssuedOnce
  RedeemFeeOnce
  RedemptionsAboveMinimum
  MintNeverCosts
CHECK_DEADLOCK FALSE
