----------------------------- MODULE RateLimits -----------------------------
(***************************************************************************)
(* When the operations of contracts/libs/RateLimits.sol on a bucket        *)
(* revert.  BridgeV2 keeps one bucket per (source chain, local token), an  *)
(* OFT adapter one per peer and direction.                                 *)
(***************************************************************************)
EXTENDS Bucket

CONSTANT MaxUint    \* the largest uint256

ASSUME MaxUintAssumption == MaxUint \in Nat

\* Slip: the product is computed before the test that the window is over.
OverflowsWhenExpired(rl) == rl.limit * rl.age > MaxUint

(***************************************************************************)
(* The product limit * age is computed in uint256 with overflow checks     *)
(* and only while the window is open: every operation on the bucket        *)
(* reverts while Overflows holds.                                          *)
(***************************************************************************)
Overflows(rl) == ~Expired(rl) /\ rl.limit * rl.age > MaxUint

CanUpdate(rl, amount) == ~Overflows(rl) /\ amount <= AmountCanBeSent(rl)

=============================================================================
