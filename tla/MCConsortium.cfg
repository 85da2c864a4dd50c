\* Proposals for the epochs 2 and 3 get signed in any order, at any time.
SPECIFICATION MCSpec
CONSTANTS
  k1 = k1
  k2 = k2
  k3 = k3
  Keys = {k1, k2, k3}
  Proposals <- AllProposals
  NoSet = NoSet
  Nobody = Nobody
  MinSize = 1
  MaxSize = 3
  MaxUint = 4
INVARIANTS
  TypeOK
  ChainOfTrust
  SignaturesOnlyHelp
CHECK_DEADLOCK FALSE
