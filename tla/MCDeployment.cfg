SPECIFICATION MCSpec
CONSTANTS
  deployer = deployer
  colleague = colleague
  multisig = multisig
  timelock = timelock
  Accounts <- MCAccounts
  Operators <- MCOperators
  Deployer = deployer
  Multisig = multisig
  Timelock = timelock
  Adapter = Adapter
  Self = Self
  None = None
  Proposers <- MCProposers
  Executors <- MCExecutors
  MinDelay = 1
  LogRange = 0
  MaxImpl = 2
  MaxBlock = 1
INVARIANTS
  DeployTypeOK
  AdminNeverLost
PROPERTIES
  AddressKeepsItsContract
  CheckedIsTimelocked
CHECK_DEADLOCK FALSE
