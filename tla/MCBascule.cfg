\* The third version; grants of the guardian role and reports in any order.
SPECIFICATION Spec
CONSTANTS
  Version = 3
  small = small
  large = large
  Deposits = {small, large}
  AmountOf <- MCAmountOf
  Thresholds = {0, 2, 3}
  Admin = admin
  Accounts = {admin, guardian}
  Signers = {signer, other}
  Nobody = Nobody
  BatchSizes = {1, 2}
  MaxGrants = 3
INVARIANTS
  TypeOK
  WithdrawnOnce
  RaisesWereGranted
  LargeDepositsAreVouchedFor
