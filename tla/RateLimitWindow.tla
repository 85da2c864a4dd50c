-------------------------- MODULE RateLimitWindow ---------------------------
(***************************************************************************)
(* One bucket of RateLimits.sol with everything that happens to it: the    *)
(* bridge takes amounts out of it, the owner reconfigures it, time passes. *)
(*                                                                         *)
(* An observer (a history variable, no code) starts to add up at a moment  *)
(* of its choice, so that what holds of its sum holds of every interval.   *)
(* It stops when the owner changes the configuration.                      *)
(***************************************************************************)
EXTENDS RateLimits

CONSTANTS
  Limits,       \* limits the owner may set
  Windows,      \* windows the owner may set
  Withdrawals,  \* amounts withdrawn; BridgeV2 never asks for zero
  MaxWatch      \* bound: how long the observer counts

ASSUME WindowAssumptions ==
  /\ Limits \subseteq Nat
  /\ Windows \subseteq Nat
  /\ Withdrawals \subseteq Nat \ {0}
  /\ MaxWatch \in Nat

VARIABLES
  rl,           \* the bucket
  watching,     \* history: the observer is counting
  watched,      \* history: amount let through since it started
  watchedFor    \* history: time since it started

bucketVars == <<rl, watching, watched, watchedFor>>

BucketInit ==
  /\ rl = EmptyBucket
  /\ watching = FALSE
  /\ watched = 0
  /\ watchedFor = 0

Withdraw(amount) ==
  /\ CanUpdate(rl, amount)
  /\ rl' = UpdateLimit(rl, amount)
  /\ watched' = IF watching THEN watched + amount ELSE 0
  /\ UNCHANGED <<watching, watchedFor>>

SetLimit(limit, window) ==
  /\ CanUpdate(rl, 0)
  /\ rl' = SetRateLimit(rl, limit, window)
  /\ watching' = FALSE
  /\ watched' = 0
  /\ watchedFor' = 0

(***************************************************************************)
(* Time passes; the observer gives up once MaxWatch is over.               *)
(***************************************************************************)
TimePasses ==
  LET goesOn == watching /\ watchedFor < MaxWatch IN
  /\ rl' = Elapse(rl)
  /\ watching' = goesOn
  /\ watchedFor' = IF goesOn THEN watchedFor + 1 ELSE 0
  /\ watched' = IF goesOn THEN watched ELSE 0

WatchBucket ==
  /\ ~watching
  /\ rl.window > 0
  /\ watching' = TRUE
  /\ UNCHANGED <<rl, watched, watchedFor>>

BucketNext ==
  \/ \E amount \in Withdrawals : Withdraw(amount)
  \/ \E limit \in Limits, window \in Windows : SetLimit(limit, window)
  \/ TimePasses
  \/ WatchBucket

\* Time never stops; nobody is obliged to withdraw or to reconfigure.
BucketSpec == BucketInit /\ [][BucketNext]_bucketVars /\ WF_bucketVars(TimePasses)

-----------------------------------------------------------------------------
BucketTypeOK ==
  /\ rl \in Buckets
  /\ watching \in BOOLEAN
  /\ watched \in Nat
  /\ watchedFor \in Nat

(***************************************************************************)
(* Whatever the sequence of withdrawals, in any interval under one         *)
(* configuration no more than the limit plus what drains in that time      *)
(* gets through: rounding the decay down and restarting the clock at       *)
(* every update (updateLimit) never let a withdrawer gain.                 *)
(***************************************************************************)
LinearBound ==
  watching =>
    watched * rl.window <= rl.limit * rl.window + rl.limit * watchedFor

(***************************************************************************)
(* "Ensure we checkpoint the existing rate limit as to not retroactively   *)
(* apply the new decay rate" (setRateLimit): whatever limit and window the *)
(* owner sets, the amount in flight at that moment is what it was under    *)
(* the old ones, unless the new window is zero.                            *)
(***************************************************************************)
NoRetroactiveDecay ==
  [][ (rl'.limit # rl.limit \/ rl'.window # rl.window) /\ rl'.window > 0
      => CurrentAmountInFlight(rl') = CurrentAmountInFlight(rl) ]_bucketVars

(***************************************************************************)
(* A limit so large that limit * age overflows locks the bucket, for       *)
(* withdrawals and for the owner who would lower it (availableAmountToSend *)
(* under updateLimit and setRateLimit), but never for good: again and      *)
(* again the owner can set another limit.                                  *)
(***************************************************************************)
LockIsTemporary == []<>CanUpdate(rl, 0)

=============================================================================
