\* Two messages from A to B, two validator sets, two calls by the admins.
SPECIFICATION MCSpec
CONSTANTS
  A = A
  B = B
  User = User
  Handler = Handler
  Body = Body
  Zero = Zero
  Chains <- MCChains
  Links <- MCLinks
  Addresses <- MCAddresses
  Handlers = {Handler}
  Bodies = {Body}
  PayloadSize <- MCPayloadSize
  GlobalMaxPayloadSize = 1
  PayloadSizes = {0, 1}
  FeeRates = {0, 1}
  Values = {0, 1}
  MaxNonce = 2
  MaxEpoch = 2
  MaxAdminOps = 2
INVARIANTS
  TypeOK
  NonceIdentifies
  ChainOfCustody
CHECK_DEADLOCK FALSE
