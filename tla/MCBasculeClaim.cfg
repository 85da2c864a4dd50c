\* The first version, where a small deposit is paid out before it is reported.
SPECIFICATION Spec
CONSTANTS
  Version = 1
  small = small
  large = large
  Deposits = {small, large}
  AmountOf <- MCAmountOf
  Thresholds = {0, 2, 3}
  Admin = admin
  Accounts = {admin, guardian}
  Signers = {signer, other}
  Nobody = Nobody
  BatchSizes = {1, 2}
  MaxGrants = 3
INVARIANT WithdrawnOnce
