\* The owner may store a set for epoch 0.
SPECIFICATION MCSpec
CONSTANTS
  k1 = k1
  k2 = k2
  k3 = k3
  Keys = {k1, k2, k3}
  Proposals <- AllProposals
  NoSet = NoSet
  Nobody = Nobody
  MinSize = 1
  MaxSize = 3
  MaxUint = 4
INVARIANT InitialSetIsUsable
CHECK_DEADLOCK FALSE
