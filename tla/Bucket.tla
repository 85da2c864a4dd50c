------------------------------- MODULE Bucket -------------------------------
(***************************************************************************)
(* The library contracts/libs/RateLimits.sol: a bucket that fills with     *)
(* every amount let through and drains linearly, the whole limit once per  *)
(* window.  Here is what a bucket holds and how it changes; RateLimits     *)
(* adds when an operation reverts.                                         *)
(*                                                                         *)
(* The library reads block.timestamp - lastUpdated and compares it with    *)
(* the window; nothing else depends on absolute time.  A bucket therefore  *)
(* keeps age, the time since the last update, and stops counting once the  *)
(* window is over, where every larger age gives the same answers.          *)
(*                                                                         *)
(* A definition introduced by "Slip:" is not part of the model: it is the  *)
(* next definition with a plausible mistake in it, and the properties are  *)
(* checked to notice the difference.  Every module here has such slips.    *)
(***************************************************************************)
EXTENDS Integers

Buckets == [amountInFlight : Nat, age : Nat, limit : Nat, window : Nat]

\* A bucket nobody configured: all four words of storage are zero.
EmptyBucket == [amountInFlight |-> 0, age |-> 0, limit |-> 0, window |-> 0]

Expired(rl) == rl.age >= rl.window

Decay(rl) == (rl.limit * rl.age) \div rl.window

CurrentAmountInFlight(rl) ==
  IF Expired(rl) \/ rl.amountInFlight <= Decay(rl)
  THEN 0
  ELSE rl.amountInFlight - Decay(rl)

AmountCanBeSent(rl) ==
  IF rl.limit <= CurrentAmountInFlight(rl)
  THEN 0
  ELSE rl.limit - CurrentAmountInFlight(rl)

\* Slip: lastUpdated is not written.
UpdateLimitKeepsAge(rl, amount) ==
  [rl EXCEPT !.amountInFlight = CurrentAmountInFlight(rl) + amount]

UpdateLimit(rl, amount) ==
  [rl EXCEPT !.amountInFlight = CurrentAmountInFlight(rl) + amount,
             !.age = 0]

\* Slip: the new limit and window apply to the time already passed.
SetRateLimitNoCheckpoint(rl, limit, window) ==
  [rl EXCEPT !.limit = limit, !.window = window]

SetRateLimit(rl, limit, window) ==
  [UpdateLimit(rl, 0) EXCEPT !.limit = limit, !.window = window]

\* One unit of time passes.
Elapse(rl) == IF Expired(rl) THEN rl ELSE [rl EXCEPT !.age = @ + 1]

=============================================================================
