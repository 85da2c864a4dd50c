SPECIFICATION MCSpec
CONSTANTS
  lockbox = lockbox
  homeMinter = homeMinter
  awayMinter = awayMinter
  d1 = d1
  Lockbox = lockbox
  HomeMinter = homeMinter
  AwayMinter = awayMinter
  Zero = Zero
  Amounts = {3, 4}
  ConversionRate = 2
  RateConfigs <- MCRateConfigs
  Confirmations = {1}
  Dvns <- MCDvns
  Supply = 6
  MaxUint = 8
  MaxMessages = 3
  MaxElapsed = 2
  MaxAdminOps = 1
INVARIANTS
  OftTypeOK
  LockboxCovers
  NetFlowBound
PROPERTIES
  ExactlyOnce
  SentArrives
CHECK_DEADLOCK FALSE
