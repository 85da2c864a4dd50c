\* Limits that divide the window and that do not, a zero limit and a zero
\* window, and one limit whose product with an age of 3 overflows.
SPECIFICATION BucketSpec
CONSTANTS
  MaxUint = 13
  Limits = {0, 2, 3, 5}
  Windows = {0, 2, 4}
  Withdrawals = {1, 2}
  MaxWatch = 6
INVARIANTS
  LinearBound
PROPERTIES
  NoRetroactiveDecay
  LockIsTemporary
