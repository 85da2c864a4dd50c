---------------------------- MODULE OftLaneProofs ----------------------------
(***************************************************************************)
(* Proofs about the rate limits and the lane of OFT adapters that they     *)
(* guard: first about one bucket, RateLimitWindow, for any limits,         *)
(* windows, amounts, word size and length of observation; then about       *)
(* OftLane, for any amounts, rounding, limits, windows, supply and bounds: *)
(* types, the limit on the net flow, that no token is lost on the way, and *)
(* that the lockbox can pay for all that is on its way to it.              *)
(***************************************************************************)
EXTENDS RateLimitWindow, OftLane, Lemmas

LEMMA BucketInitTypeOK == BucketInit => BucketTypeOK
<1>1. EmptyBucket \in Buckets
  BY DEF EmptyBucket, Buckets
<1>2. BucketInit => watching \in BOOLEAN
  BY DEF BucketInit
<1>3. BucketInit => rl \in Buckets /\ watched \in Nat /\ watchedFor \in Nat
  BY <1>1 DEF BucketInit
<1> QED
  BY <1>2, <1>3 DEF BucketTypeOK

LEMMA BucketNextTypeOK == BucketTypeOK /\ [BucketNext]_bucketVars => BucketTypeOK'
<1> SUFFICES ASSUME BucketTypeOK, [BucketNext]_bucketVars PROVE BucketTypeOK'
  OBVIOUS
<1> USE WindowAssumptions
<1>1. ASSUME NEW amount \in Withdrawals, Withdraw(amount) PROVE BucketTypeOK'
  BY <1>1, UpdateType DEF Withdraw, BucketTypeOK
<1>2. ASSUME NEW limit \in Limits, NEW window \in Windows,
             SetLimit(limit, window)
      PROVE  BucketTypeOK'
  BY <1>2, SetRateLimitType DEF SetLimit, BucketTypeOK
<1>3. CASE TimePasses
  BY <1>3, ElapseType DEF TimePasses, BucketTypeOK
<1>4. CASE WatchBucket
  BY <1>4 DEF WatchBucket, BucketTypeOK
<1>5. CASE UNCHANGED bucketVars
  BY <1>5 DEF bucketVars, BucketTypeOK
<1> QED
  BY <1>1, <1>2, <1>3, <1>4, <1>5 DEF BucketNext

(***************************************************************************)
(* The bucket and the observer keep their types; in particular the amount  *)
(* in flight never becomes negative.                                       *)
(***************************************************************************)
THEOREM BucketTypeCorrect == BucketSpec => []BucketTypeOK
<1>1. BucketInit => BucketTypeOK
  BY BucketInitTypeOK
<1>2. BucketTypeOK /\ [BucketNext]_bucketVars => BucketTypeOK'
  BY BucketNextTypeOK
<1> QED
  BY <1>1, <1>2, PTL DEF BucketSpec

-----------------------------------------------------------------------------
(***************************************************************************)
(* LinearBound is not inductive: it forgets how much of what was watched   *)
(* is still in flight.  From the first withdrawal that is counted on, the  *)
(* bucket was last written during the watch, holds no more than its limit, *)
(* and what was watched is in it, or has drained before that last write.   *)
(***************************************************************************)
Accounted ==
  /\ rl.amountInFlight <= rl.limit
  /\ rl.age <= watchedFor
  /\ watched * rl.window
       <= rl.amountInFlight * rl.window + rl.limit * (watchedFor - rl.age)

BucketInv ==
  /\ ~watching => watched = 0 /\ watchedFor = 0
  /\ watched # 0 => Accounted

LEMMA InitBucketInv == BucketInit => BucketInv
  BY DEF BucketInit, BucketInv

LEMMA WithdrawBucketInv ==
  ASSUME BucketTypeOK, BucketInv, NEW amount \in Nat \ {0}, Withdraw(amount)
  PROVE  BucketInv'
<1> DEFINE i == rl.amountInFlight
           w == rl.window
           l == rl.limit
           a == rl.age
           cur == CurrentAmountInFlight(rl)
<1>1. /\ rl \in Buckets
      /\ i \in Nat /\ w \in Nat /\ l \in Nat /\ a \in Nat
      /\ watched \in Nat /\ watchedFor \in Nat /\ watching \in BOOLEAN
  BY DEF BucketTypeOK, Buckets
<1>2. cur \in Nat
  BY <1>1, InFlightType
<1>3. cur + amount <= l
  BY <1>1, <1>2 DEF Withdraw, CanUpdate, AmountCanBeSent
<1>4. /\ rl'.amountInFlight = cur + amount
      /\ rl'.age = 0 /\ rl'.limit = l /\ rl'.window = w
      /\ watchedFor' = watchedFor /\ watching' = watching
      /\ watched' = IF watching THEN watched + amount ELSE 0
  BY <1>1 DEF Withdraw, UpdateLimit, Buckets
<1>5. watched * w <= cur * w + l * watchedFor
  <2>1. cur * w \in Nat /\ l * watchedFor \in Nat
    BY <1>1, <1>2, ProductOfNaturals
  <2>2. CASE watched = 0
    BY <1>1, <2>1, <2>2
  <2>3. CASE watched # 0
    <3>1. Accounted
      BY <2>3 DEF BucketInv
    <3>2. i * w <= cur * w + l * a
      BY <1>1, <3>1, InFlightDrainsSlowly DEF Accounted
    <3>3. watched * w <= i * w + l * (watchedFor - a)
      BY <3>1 DEF Accounted
    <3>4. l * (watchedFor - a) = l * watchedFor - l * a
      BY <1>1
    <3>5. i * w \in Nat /\ l * a \in Nat /\ watched * w \in Nat
      BY <1>1, ProductOfNaturals
    <3> HIDE DEF i, w, l, a, cur
    <3> QED
      BY <2>1, <3>2, <3>3, <3>4, <3>5
  <2> QED
    BY <2>2, <2>3
<1>6. ASSUME watching PROVE Accounted'
  <2>1. rl'.amountInFlight <= rl'.limit
    BY <1>3, <1>4
  <2>2. rl'.age <= watchedFor'
    BY <1>1, <1>4
  <2>3. (watched + amount) * w <= (cur + amount) * w + l * (watchedFor - 0)
    <3>1. (watched + amount) * w = watched * w + amount * w
      BY <1>1
    <3>2. (cur + amount) * w = cur * w + amount * w
      BY <1>1, <1>2
    <3>3. /\ watched * w \in Nat /\ cur * w \in Nat
          /\ amount * w \in Nat /\ l * watchedFor \in Nat
      BY <1>1, <1>2, ProductOfNaturals
    <3>4. l * (watchedFor - 0) = l * watchedFor
      BY <1>1
    <3> HIDE DEF w, l, cur
    <3> QED
      BY <1>5, <3>1, <3>2, <3>3, <3>4
  <2>4. watched' * rl'.window
          <= rl'.amountInFlight * rl'.window + rl'.limit * (watchedFor' - rl'.age)
    BY <1>4, <1>6, <2>3
  <2> QED
    BY <2>1, <2>2, <2>4 DEF Accounted
<1> QED
  BY <1>1, <1>4, <1>6 DEF BucketInv

LEMMA TimeBucketInv ==
  ASSUME BucketTypeOK, BucketInv, TimePasses
  PROVE  BucketInv'
<1>1. /\ rl \in Buckets
      /\ watched \in Nat /\ watchedFor \in Nat /\ watching \in BOOLEAN
  BY DEF BucketTypeOK
<1>2. CASE ~(watching /\ watchedFor < MaxWatch)
  BY <1>2 DEF TimePasses, BucketInv
<1>3. CASE watching /\ watchedFor < MaxWatch
  <2>1. watched' = watched /\ watching' /\ watchedFor' = watchedFor + 1
    BY <1>3 DEF TimePasses
  <2>2. CASE watched = 0
    BY <2>1, <2>2 DEF BucketInv
  <2>3. CASE watched # 0
    <3>1. Accounted
      BY <2>3 DEF BucketInv
    <3>2. /\ rl'.amountInFlight = rl.amountInFlight
          /\ rl'.limit = rl.limit /\ rl'.window = rl.window
          /\ rl'.age = rl.age \/ rl'.age = rl.age + 1
      BY <1>1 DEF TimePasses, Elapse, Buckets
    <3>3. rl.age \in Nat /\ rl.limit \in Nat
      BY <1>1 DEF Buckets
    <3>4. rl'.age <= watchedFor'
      BY <1>1, <2>1, <3>1, <3>2, <3>3 DEF Accounted
    <3>5. rl.limit * (watchedFor - rl.age) <= rl.limit * (watchedFor' - rl'.age)
      <4>1. /\ watchedFor - rl.age \in Nat /\ watchedFor' - rl'.age \in Nat
            /\ watchedFor - rl.age <= watchedFor' - rl'.age
        BY <1>1, <2>1, <3>1, <3>2, <3>3 DEF Accounted
      <4>2. (watchedFor - rl.age) * rl.limit <= (watchedFor' - rl'.age) * rl.limit
        BY <3>3, <4>1, ProductMonotone
      <4> QED
        BY <3>3, <4>1, <4>2
    <3>6. /\ watched * rl.window \in Nat
          /\ rl.amountInFlight * rl.window \in Nat
          /\ rl.limit * (watchedFor - rl.age) \in Int
          /\ rl.limit * (watchedFor' - rl'.age) \in Int
      BY <1>1, <2>1, <3>2, <3>3, ProductOfNaturals DEF Buckets
    <3>7. Accounted'
      BY <2>1, <3>1, <3>2, <3>4, <3>5, <3>6 DEF Accounted
    <3> QED
      BY <2>1, <3>7 DEF BucketInv
  <2> QED
    BY <2>2, <2>3
<1> QED
  BY <1>2, <1>3

LEMMA NextBucketInv ==
  ASSUME BucketTypeOK, BucketInv, [BucketNext]_bucketVars
  PROVE  BucketInv'
<1>1. ASSUME NEW amount \in Withdrawals, Withdraw(amount) PROVE BucketInv'
  BY <1>1, WithdrawBucketInv, WindowAssumptions
<1>2. ASSUME NEW limit \in Limits, NEW window \in Windows,
             SetLimit(limit, window)
      PROVE  BucketInv'
  BY <1>2 DEF SetLimit, BucketInv
<1>3. CASE TimePasses
  BY <1>3, TimeBucketInv
<1>4. CASE WatchBucket
  BY <1>4 DEF WatchBucket, BucketInv
<1>5. CASE UNCHANGED bucketVars
  BY <1>5 DEF bucketVars, BucketInv, Accounted
<1> QED
  BY <1>1, <1>2, <1>3, <1>4, <1>5 DEF BucketNext

LEMMA BucketInvBounds == BucketTypeOK /\ BucketInv => LinearBound
<1> SUFFICES ASSUME BucketTypeOK, BucketInv
             PROVE  watched * rl.window <= rl.limit * rl.window + rl.limit * watchedFor
  BY DEF LinearBound
<1>1. /\ rl.amountInFlight \in Nat /\ rl.window \in Nat
      /\ rl.limit \in Nat /\ rl.age \in Nat
      /\ watched \in Nat /\ watchedFor \in Nat
  BY DEF BucketTypeOK, Buckets
<1>2. /\ rl.limit * rl.window \in Nat /\ rl.limit * watchedFor \in Nat
      /\ rl.limit * rl.age \in Nat /\ rl.amountInFlight * rl.window \in Nat
      /\ watched * rl.window \in Nat
  BY <1>1, ProductOfNaturals
<1>3. CASE watched = 0
  BY <1>1, <1>2, <1>3
<1>4. CASE watched # 0
  <2>1. Accounted
    BY <1>4 DEF BucketInv
  <2>2. rl.amountInFlight * rl.window <= rl.limit * rl.window
    BY <1>1, <2>1, ProductMonotone DEF Accounted
  <2>3. rl.limit * (watchedFor - rl.age) = rl.limit * watchedFor - rl.limit * rl.age
    BY <1>1
  <2> QED
    BY <1>2, <2>1, <2>2, <2>3 DEF Accounted
<1> QED
  BY <1>3, <1>4

(***************************************************************************)
(* In any interval without reconfiguration the bucket lets through at most *)
(* its limit and what drains in that time.                                 *)
(***************************************************************************)
THEOREM BoundHolds == BucketSpec => []LinearBound
<1>1. BucketInit => BucketInv
  BY InitBucketInv
<1>2. BucketTypeOK /\ BucketInv /\ [BucketNext]_bucketVars => BucketInv'
  BY NextBucketInv
<1>3. BucketTypeOK /\ BucketInv => LinearBound
  BY BucketInvBounds
<1> QED
  BY <1>1, <1>2, <1>3, BucketTypeCorrect, PTL DEF BucketSpec

-----------------------------------------------------------------------------
LEMMA FreshBucketHoldsAll ==
  ASSUME NEW b \in Buckets, b.age = 0, b.window > 0
  PROVE  CurrentAmountInFlight(b) = b.amountInFlight
<1>1. b.window \in Nat \ {0} /\ b.limit \in Nat /\ b.amountInFlight \in Nat
  BY DEF Buckets
<1>2. ~Expired(b)
  BY <1>1 DEF Expired
<1>3. Decay(b) = 0
  <2>1. b.limit * b.age = 0
    BY <1>1
  <2> QED
    BY <1>1, <2>1 DEF Decay
<1> QED
  BY <1>1, <1>2, <1>3 DEF CurrentAmountInFlight

(***************************************************************************)
(* Reconfiguring a bucket does not touch what is in flight.                *)
(***************************************************************************)
THEOREM DecayIsNotRetroactive == BucketSpec => NoRetroactiveDecay
<1>1. ASSUME BucketTypeOK, [BucketNext]_bucketVars,
             rl'.limit # rl.limit \/ rl'.window # rl.window, rl'.window > 0
      PROVE  CurrentAmountInFlight(rl') = CurrentAmountInFlight(rl)
  <2>1. rl \in Buckets
    BY <1>1 DEF BucketTypeOK
  <2>2. ASSUME NEW limit \in Limits, NEW window \in Windows,
               SetLimit(limit, window)
        PROVE  CurrentAmountInFlight(rl') = CurrentAmountInFlight(rl)
    <3>1. rl' \in Buckets
      BY <2>1, <2>2, SetRateLimitType, WindowAssumptions DEF SetLimit
    <3>2. rl'.age = 0 /\ rl'.amountInFlight = CurrentAmountInFlight(rl)
      BY <2>1, <2>2, InFlightType DEF SetLimit, SetRateLimit, UpdateLimit, Buckets
    <3> QED
      BY <1>1, <3>1, <3>2, FreshBucketHoldsAll
  <2>3. ASSUME NEW amount \in Withdrawals, Withdraw(amount) PROVE FALSE
    BY <1>1, <2>1, <2>3 DEF Withdraw, UpdateLimit, Buckets
  <2>4. ~TimePasses
    BY <1>1, <2>1 DEF TimePasses, Elapse, Buckets
  <2>5. ~WatchBucket /\ ~UNCHANGED bucketVars
    BY <1>1 DEF WatchBucket, bucketVars
  <2> QED
    BY <1>1, <2>2, <2>3, <2>4, <2>5 DEF BucketNext
<1>2. BucketTypeOK /\ [BucketNext]_bucketVars
        => ((rl'.limit # rl.limit \/ rl'.window # rl.window) /\ rl'.window > 0
             => CurrentAmountInFlight(rl') = CurrentAmountInFlight(rl))
  BY <1>1
<1> QED
  BY <1>2, BucketTypeCorrect, PTL DEF BucketSpec, NoRetroactiveDecay

-----------------------------------------------------------------------------
(***************************************************************************)
(* The lane.                                                               *)
(***************************************************************************)
LEMMA OppositeType ==
  ASSUME NEW d \in Directions
  PROVE  Opposite(d) \in Directions /\ Opposite(d) # d /\ Opposite(Opposite(d)) = d
  BY DEF Opposite, Directions

LEMMA GiveBackType ==
  ASSUME NEW b \in Buckets, NEW amount \in Nat
  PROVE  GiveBack(b, amount) \in Buckets
<1> DEFINE cur == CurrentAmountInFlight(b)
<1>1. cur \in Nat
  BY InFlightType
<1>2. (IF cur > amount THEN cur - amount ELSE 0) \in Nat
  BY <1>1
<1> HIDE DEF cur
<1>3. [b EXCEPT !.amountInFlight = IF cur > amount THEN cur - amount ELSE 0,
                !.age = 0] \in Buckets
  BY <1>2 DEF Buckets
<1> QED
  BY <1>3 DEF GiveBack, cur

LEMMA UpdatedType ==
  ASSUME OftTypeOK, NEW a \in Adapters, NEW amount \in Nat, NEW d \in Directions
  PROVE  Updated(a, amount, d) \in [Directions -> Buckets]
<1>1. \A k \in Directions : rateLimits[a][k] \in Buckets
  BY DEF OftTypeOK
<1> QED
  BY <1>1, UpdateType, GiveBackType DEF Updated

LEMMA CheckType ==
  ASSUME OftTypeOK, NEW a \in Adapters, NEW amount \in Nat, NEW d \in Directions,
         CheckAndUpdateRateLimit(a, amount, d)
  PROVE  /\ rateLimits' \in [Adapters -> [Directions -> Buckets]]
         /\ net' \in Int
         /\ UNCHANGED <<watch, elapsed>>
<1>1. rateLimits' \in [Adapters -> [Directions -> Buckets]]
  BY UpdatedType DEF CheckAndUpdateRateLimit, OftTypeOK
<1>2. net' \in Int
  BY DEF CheckAndUpdateRateLimit, OftTypeOK
<1> QED
  BY <1>1, <1>2 DEF CheckAndUpdateRateLimit

LEMMA SetRateLimitsBuckets ==
  ASSUME OftTypeOK, NEW a \in Adapters, NEW d \in Directions,
         NEW limit \in Nat, NEW window \in Nat, SetRateLimits(a, d, limit, window)
  PROVE  rateLimits' \in [Adapters -> [Directions -> Buckets]]
<1>1. Updated(a, 0, d) \in [Directions -> Buckets]
  BY UpdatedType
<1>2. [Updated(a, 0, d) EXCEPT ![d].limit = limit, ![d].window = window]
        \in [Directions -> Buckets]
  BY <1>1 DEF Buckets
<1> QED
  BY <1>2 DEF SetRateLimits, OftTypeOK

LEMMA RoundedType ==
  ASSUME NEW amount \in Nat
  PROVE  RemoveDust(amount) \in Nat /\ RemoveDust(amount) <= amount
<1>1. amount \div ConversionRate \in Nat
      /\ (amount \div ConversionRate) * ConversionRate <= amount
  BY OftAssumptions, RoundingLoses
<1>2. (amount \div ConversionRate) * ConversionRate \in Nat
  BY <1>1, OftAssumptions, ProductOfNaturals
<1> QED
  BY <1>1, <1>2 DEF RemoveDust

LEMMA BoundsType ==
  MaxMessages \in Nat /\ Supply \in Nat /\ MaxElapsed \in Nat
  BY OftAssumptions

-----------------------------------------------------------------------------
\* There are finitely many messages, so that their nonces are numbers.
TypeInv == OftTypeOK /\ IsFiniteSet(messages)

LEMMA InitTypeInv == Init => TypeInv
<1> SUFFICES ASSUME Init PROVE TypeInv
  OBVIOUS
<1>1. EmptyBucket \in Buckets
  BY DEF EmptyBucket, Buckets
<1>2. rateLimits \in [Adapters -> [Directions -> Buckets]]
  BY <1>1 DEF Init
<1>3. /\ peers \in [Adapters -> Adapters \cup {Zero}]
      /\ sendUln \in [Adapters -> UlnConfigs]
      /\ receiveUln \in [Adapters -> UlnConfigs]
  BY DEF Init
<1>4. circulating \in [Chains -> Nat]
  BY BoundsType DEF Init, InitialCirculation
<1>5. /\ messages \subseteq Messages /\ verified \subseteq messages
      /\ received \subseteq verified
      /\ locked \in Nat /\ net \in Int /\ elapsed \in Nat
  BY DEF Init
<1>6. emptied \in BOOLEAN
  BY DEF Init
<1>7. watch \in (Adapters \X Directions) \cup {None}
  BY DEF Init
<1>8. IsFiniteSet(messages)
  BY FS_EmptySet DEF Init
<1> QED
  BY <1>2, <1>3, <1>4, <1>5, <1>6, <1>7, <1>8 DEF TypeInv, OftTypeOK

LEMMA NonceType ==
  ASSUME TypeInv, Cardinality(messages) < MaxMessages, NEW a, NEW b
  PROVE  NonceOf(a, b) \in 1..MaxMessages
<1> DEFINE path == {x \in messages : x.sender = a /\ x.receiver = b}
<1>1. path \subseteq messages
  OBVIOUS
<1>2. /\ IsFiniteSet(path)
      /\ Cardinality(path) <= Cardinality(messages)
  BY <1>1, FS_Subset DEF TypeInv
<1>3. Cardinality(path) \in Nat /\ Cardinality(messages) \in Nat
  BY <1>2, FS_CardinalityType DEF TypeInv
<1>4. Cardinality(path) + 1 \in 1..MaxMessages
  BY <1>2, <1>3, BoundsType
<1> QED
  BY <1>4 DEF NonceOf

LEMMA SendTypeInv ==
  ASSUME TypeInv, NEW a \in Adapters, NEW amount \in Amounts, NEW minAmount,
         Send(a, amount, minAmount)
  PROVE  TypeInv'
<1> DEFINE m == [nonce |-> NonceOf(a, peers[a]), sender |-> a,
                 receiver |-> peers[a], amount |-> RemoveDust(amount),
                 uln |-> sendUln[a]]
           c == ChainOf(a)
           sent == Debited(amount)
<1>1. amount \in Nat /\ sent \in Nat /\ sent = RemoveDust(amount)
  BY RoundedType, OftAssumptions DEF Debited
<1>2. c \in Chains
  BY DEF ChainOf, Chains
<1>3. m \in Messages
  <2>1. NonceOf(a, peers[a]) \in 1..MaxMessages
    BY NonceType DEF Send
  <2>2. peers[a] \in Adapters /\ sendUln[a] \in UlnConfigs
    BY DEF Send, TypeInv, OftTypeOK
  <2> QED
    BY <1>1, <2>1, <2>2 DEF Messages
<1>4. messages' = messages \cup {m}
  BY DEF Send
<1>5. messages' \subseteq Messages /\ IsFiniteSet(messages')
  BY <1>3, <1>4, FS_AddElement DEF TypeInv, OftTypeOK
<1>6. circulating' \in [Chains -> Nat]
  <2>1. circulating[c] \in Nat /\ circulating[c] >= sent
    BY <1>2 DEF Send, TypeInv, OftTypeOK
  <2>2. circulating[c] - sent \in Nat
    BY <1>1, <2>1
  <2>3. circulating' = [circulating EXCEPT ![c] = circulating[c] - sent]
    BY DEF Send
  <2> HIDE DEF sent, c
  <2> QED
    BY <2>2, <2>3 DEF TypeInv, OftTypeOK
<1>7. locked' \in Nat
  BY <1>1 DEF Send, TypeInv, OftTypeOK
<1>8. /\ rateLimits' \in [Adapters -> [Directions -> Buckets]]
      /\ net' \in Int
      /\ UNCHANGED <<watch, elapsed>>
  BY <1>1, CheckType DEF Send, TypeInv, Directions
<1>9. UNCHANGED <<peers, sendUln, receiveUln, verified, received, emptied>>
  BY DEF Send, configVars
<1> QED
  BY <1>4, <1>5, <1>6, <1>7, <1>8, <1>9 DEF TypeInv, OftTypeOK

LEMMA ReceiveTypeInv ==
  ASSUME TypeInv, NEW m \in messages, Receive(m)
  PROVE  TypeInv'
<1> DEFINE a == m.receiver
           c == ChainOf(a)
<1>1. m.receiver \in Adapters /\ m.amount \in Nat
  BY DEF TypeInv, OftTypeOK, Messages
<1>2. c \in Chains
  BY DEF ChainOf, Chains
<1>3. circulating' \in [Chains -> Nat]
  BY <1>1, <1>2 DEF Receive, TypeInv, OftTypeOK
<1>4. locked' \in Nat
  BY <1>1 DEF Receive, TypeInv, OftTypeOK
<1>5. /\ rateLimits' \in [Adapters -> [Directions -> Buckets]]
      /\ net' \in Int
      /\ UNCHANGED <<watch, elapsed>>
  BY <1>1, CheckType DEF Receive, TypeInv, Directions
<1>6. received' \subseteq verified
  BY DEF Receive, TypeInv, OftTypeOK
<1>7. UNCHANGED <<peers, sendUln, receiveUln, messages, verified, emptied>>
  BY DEF Receive, configVars
<1> QED
  BY <1>3, <1>4, <1>5, <1>6, <1>7 DEF TypeInv, OftTypeOK

LEMMA OwnerTypeInv ==
  ASSUME TypeInv, OwnerStep
  PROVE  TypeInv'
<1> USE DEF TypeInv, OftTypeOK, configVars, tokenVars, observer
<1>1. ASSUME NEW a \in Adapters, NEW d \in Directions, NEW r \in RateConfigs,
             SetRateLimits(a, d, r[1], r[2])
      PROVE  TypeInv'
  <2>1. r[1] \in Nat /\ r[2] \in Nat
    BY OftAssumptions
  <2>2. rateLimits' \in [Adapters -> [Directions -> Buckets]]
    BY <1>1, <2>1, SetRateLimitsBuckets
  <2> QED
    BY <1>1, <2>2 DEF SetRateLimits
<1>2. ASSUME NEW a \in Adapters, NEW b \in Adapters \cup {Zero}, PeerStep(a, b)
      PROVE  TypeInv'
  BY <1>2 DEF PeerStep, SetPeer
<1>3. ASSUME NEW a \in Adapters, NEW uln \in UlnConfigs, NEW b \in BOOLEAN,
             SetupEndpointConfig(a, uln, b)
      PROVE  TypeInv'
  <2>1. CASE b
    BY <1>3, <2>1 DEF SetupEndpointConfig
  <2>2. CASE ~b
    BY <1>3, <2>2 DEF SetupEndpointConfig
  <2> QED
    BY <2>1, <2>2
<1>4. CASE Empty
  BY <1>4 DEF Empty
<1> QED
  BY <1>1, <1>2, <1>3, <1>4 DEF OwnerStep

LEMMA NextTypeInv == TypeInv /\ [Next]_vars => TypeInv'
<1> SUFFICES ASSUME TypeInv, [Next]_vars PROVE TypeInv'
  OBVIOUS
<1>1. CASE OwnerStep
  BY <1>1, OwnerTypeInv
<1>2. ASSUME NEW a \in Adapters, NEW amount \in Amounts, NEW minAmount,
             Send(a, amount, minAmount)
      PROVE  TypeInv'
  BY <1>2, SendTypeInv
<1>3. ASSUME NEW m \in messages, Verify(m) PROVE TypeInv'
  BY <1>3 DEF Verify, TypeInv, OftTypeOK, configVars, tokenVars, observer
<1>4. ASSUME NEW m \in messages, Receive(m) PROVE TypeInv'
  BY <1>4, ReceiveTypeInv
<1>5. CASE Tick
  <2>1. rateLimits' \in [Adapters -> [Directions -> Buckets]]
    BY <1>5, ElapseType DEF Tick, TypeInv, OftTypeOK
  <2> QED
    BY <1>5, <2>1 DEF Tick, TypeInv, OftTypeOK, configVars, tokenVars
<1>6. ASSUME NEW a \in Adapters, NEW d \in Directions, StartWatch(a, d)
      PROVE  TypeInv'
  BY <1>6 DEF StartWatch, TypeInv, OftTypeOK, configVars, tokenVars
<1>7. CASE UNCHANGED vars
  BY <1>7 DEF vars, TypeInv, OftTypeOK, configVars, tokenVars, observer
<1> QED
  BY <1>1, <1>2, <1>3, <1>4, <1>5, <1>6, <1>7 DEF Next, TransferStep, ObserverStep

(***************************************************************************)
(* The variables keep their types: no balance and no amount in flight goes *)
(* below zero, although capacity is given back by subtraction, and what is *)
(* executed was verified and sent.                                         *)
(***************************************************************************)
THEOREM TypeCorrect == Spec => []OftTypeOK
<1>1. Init => TypeInv
  BY InitTypeInv
<1>2. TypeInv /\ [Next]_vars => TypeInv'
  BY NextTypeInv
<1>3. TypeInv => OftTypeOK
  BY DEF TypeInv
<1> QED
  BY <1>1, <1>2, <1>3, PTL DEF Spec

-----------------------------------------------------------------------------
(***************************************************************************)
(* NetFlowBound is not inductive: it forgets how much of the net flow is   *)
(* still in flight.  As long as more went the observed way than came back, *)
(* the bucket holds no more than its limit, was last written during the    *)
(* observation, and what is in it covers the net flow but for what has     *)
(* drained before that.                                                    *)
(***************************************************************************)
Covers(b, n, e) ==
  /\ b.amountInFlight <= b.limit
  /\ b.age <= e
  /\ n * b.window <= b.amountInFlight * b.window + b.limit * (e - b.age)

WatchInv ==
  /\ watch = None => net = 0 /\ elapsed = 0
  /\ watch # None /\ net > 0 => Covers(rateLimits[watch[1]][watch[2]], net, elapsed)

\* With what has drained by now taken out of the bucket.
LEMMA CoversCurrent ==
  ASSUME NEW b \in Buckets, NEW n \in Int, NEW e \in Nat, Covers(b, n, e)
  PROVE  /\ CurrentAmountInFlight(b) <= b.limit
         /\ n * b.window <= CurrentAmountInFlight(b) * b.window + b.limit * e
<1> DEFINE i == b.amountInFlight
           w == b.window
           l == b.limit
           a == b.age
           cur == CurrentAmountInFlight(b)
<1>1. i \in Nat /\ w \in Nat /\ l \in Nat /\ a \in Nat
  BY DEF Buckets
<1>2. cur \in Nat
  BY InFlightType
<1>3. cur <= l
  <2>1. CASE Expired(b) \/ i <= Decay(b)
    BY <1>1, <2>1 DEF CurrentAmountInFlight
  <2>2. CASE ~(Expired(b) \/ i <= Decay(b))
    <3>1. Decay(b) \in Nat /\ cur = i - Decay(b)
      BY <2>2, DecayType DEF CurrentAmountInFlight
    <3>2. i <= l
      BY DEF Covers
    <3> HIDE DEF cur, i, l
    <3> QED
      BY <1>1, <3>1, <3>2
  <2> QED
    BY <2>1, <2>2
<1>4. n * w <= cur * w + l * e
  <2>1. i * w <= cur * w + l * a
    BY InFlightDrainsSlowly DEF Covers
  <2>2. n * w <= i * w + l * (e - a)
    BY DEF Covers
  <2>3. l * (e - a) = l * e - l * a
    BY <1>1
  <2>4. /\ i * w \in Nat /\ cur * w \in Nat /\ l * a \in Nat /\ l * e \in Nat
        /\ n * w \in Int
    BY <1>1, <1>2, ProductOfNaturals
  <2> HIDE DEF i, w, l, a, cur
  <2> QED
    BY <2>1, <2>2, <2>3, <2>4
<1> QED
  BY <1>3, <1>4

\* A bucket written now, whose content covers the net flow.
LEMMA CoversWritten ==
  ASSUME NEW b \in Buckets, NEW i \in Nat, NEW n \in Int, NEW e \in Nat,
         i <= b.limit, n * b.window <= i * b.window + b.limit * e
  PROVE  Covers([b EXCEPT !.amountInFlight = i, !.age = 0], n, e)
<1> DEFINE c == [b EXCEPT !.amountInFlight = i, !.age = 0]
<1>1. /\ c.amountInFlight = i /\ c.age = 0
      /\ c.limit = b.limit /\ c.window = b.window
  BY DEF Buckets
<1>2. e - 0 = e /\ 0 <= e
  OBVIOUS
<1> HIDE DEF c
<1>3. Covers(c, n, e)
  BY <1>1, <1>2 DEF Covers
<1> QED
  BY <1>3 DEF c

LEMMA CoversUpdate ==
  ASSUME NEW b \in Buckets, NEW n \in Int, NEW e \in Nat, NEW amount \in Nat,
         n > 0 => Covers(b, n, e), CanUpdate(b, amount), n + amount > 0
  PROVE  Covers(UpdateLimit(b, amount), n + amount, e)
<1> DEFINE w == b.window
           l == b.limit
           cur == CurrentAmountInFlight(b)
<1>1. w \in Nat /\ l \in Nat /\ cur \in Nat /\ cur + amount \in Nat
  BY InFlightType DEF Buckets
<1>2. cur + amount <= l
  <2>1. CASE amount = 0
    <3>1. cur <= l
      BY <2>1, CoversCurrent
    <3> HIDE DEF cur, l
    <3> QED
      BY <1>1, <2>1, <3>1
  <2>2. CASE amount # 0
    <3>1. amount <= (IF l <= cur THEN 0 ELSE l - cur)
      BY DEF CanUpdate, AmountCanBeSent
    <3> HIDE DEF cur, l
    <3> QED
      BY <1>1, <2>2, <3>1
  <2> QED
    BY <2>1, <2>2
<1>3. n * w <= cur * w + l * e
  <2>1. CASE n > 0
    BY <2>1, CoversCurrent
  <2>2. CASE ~(n > 0)
    <3>1. cur * w \in Nat /\ l * e \in Nat
      BY <1>1, ProductOfNaturals
    <3>2. -n \in Nat
      BY <2>2
    <3>3. (-n) * w \in Nat
      BY <1>1, <3>2, ProductOfNaturals
    <3>4. n * w = -((-n) * w)
      BY <1>1
    <3> HIDE DEF cur, l, w
    <3> QED
      BY <3>1, <3>3, <3>4
  <2> QED
    BY <2>1, <2>2
<1>4. (n + amount) * w <= (cur + amount) * w + l * e
  <2>1. (n + amount) * w = n * w + amount * w
    BY <1>1
  <2>2. (cur + amount) * w = cur * w + amount * w
    BY <1>1
  <2>3. /\ cur * w \in Nat /\ amount * w \in Nat /\ l * e \in Nat
        /\ n * w \in Int
    BY <1>1, ProductOfNaturals
  <2> HIDE DEF w, l, cur
  <2> QED
    BY <1>3, <2>1, <2>2, <2>3
<1>5. n + amount \in Int
  OBVIOUS
<1>6. Covers([b EXCEPT !.amountInFlight = cur + amount, !.age = 0], n + amount, e)
  <2> HIDE DEF cur
  <2> QED
    BY <1>1, <1>2, <1>4, <1>5, CoversWritten
<1> QED
  BY <1>6 DEF UpdateLimit

LEMMA CoversGiveBack ==
  ASSUME NEW b \in Buckets, NEW n \in Int, NEW e \in Nat, NEW amount \in Nat,
         n > 0 => Covers(b, n, e), n - amount > 0
  PROVE  Covers(GiveBack(b, amount), n - amount, e)
<1> DEFINE w == b.window
           l == b.limit
           cur == CurrentAmountInFlight(b)
           left == IF cur > amount THEN cur - amount ELSE 0
<1>1. w \in Nat /\ l \in Nat /\ cur \in Nat
  BY InFlightType DEF Buckets
<1>2. n > 0
  OBVIOUS
<1>3. cur <= l /\ n * w <= cur * w + l * e
  BY <1>2, CoversCurrent
<1>4. left \in Nat /\ left <= l /\ cur <= left + amount
  <2> HIDE DEF cur, l
  <2> QED
    BY <1>1, <1>3
<1>5. (n - amount) * w <= left * w + l * e
  <2>1. (n - amount) * w = n * w - amount * w
    BY <1>1
  <2>2. cur * w <= (left + amount) * w
    BY <1>1, <1>4, ProductMonotone
  <2>3. (left + amount) * w = left * w + amount * w
    BY <1>1, <1>4
  <2>4. /\ cur * w \in Nat /\ amount * w \in Nat /\ l * e \in Nat /\ left * w \in Nat
        /\ n * w \in Int
    BY <1>1, <1>4, ProductOfNaturals
  <2> HIDE DEF w, l, cur, left
  <2> QED
    BY <1>3, <2>1, <2>2, <2>3, <2>4
<1>6. n - amount \in Int
  OBVIOUS
<1>7. Covers([b EXCEPT !.amountInFlight = left, !.age = 0], n - amount, e)
  <2> HIDE DEF left
  <2> QED
    BY <1>4, <1>5, <1>6, CoversWritten
<1> QED
  BY <1>7 DEF GiveBack

LEMMA CoversElapse ==
  ASSUME NEW b \in Buckets, NEW n \in Int, NEW e \in Nat, Covers(b, n, e)
  PROVE  Covers(Elapse(b), n, e + 1)
<1> DEFINE i == b.amountInFlight
           w == b.window
           l == b.limit
           a == b.age
<1>1. i \in Nat /\ w \in Nat /\ l \in Nat /\ a \in Nat
  BY DEF Buckets
<1>2. CASE Expired(b)
  <2>1. n * w <= i * w + l * (e - a) /\ a <= e /\ i <= l
    BY DEF Covers
  <2>2. l * ((e + 1) - a) = l * (e - a) + l
    BY <1>1
  <2>3. l * (e - a) \in Int /\ i * w \in Nat /\ n * w \in Int
    BY <1>1, ProductOfNaturals
  <2>4. n * w <= i * w + l * ((e + 1) - a) /\ a <= e + 1
    <3> HIDE DEF i, w, l, a
    <3>1. n * w <= i * w + (l * (e - a) + l)
      <4> DEFINE x == n * w
                 y == i * w
                 z == l * (e - a)
      <4>1. x <= y + z /\ x \in Int /\ y \in Nat /\ z \in Int
        BY <2>1, <2>3
      <4> HIDE DEF x, y, z
      <4>2. x <= y + (z + l)
        BY <1>1, <4>1
      <4> QED
        BY <4>2 DEF x, y, z
    <3> QED
      BY <1>1, <2>1, <2>2, <3>1
  <2> QED
    BY <1>2, <2>1, <2>4 DEF Covers, Elapse
<1>3. CASE ~Expired(b)
  <2> DEFINE c == Elapse(b)
  <2>1. /\ c.amountInFlight = b.amountInFlight /\ c.age = b.age + 1
        /\ c.limit = b.limit /\ c.window = b.window
    BY <1>3 DEF Elapse, Buckets
  <2>2. (e + 1) - (b.age + 1) = e - b.age /\ b.age + 1 <= e + 1
    BY <1>1 DEF Covers
  <2> HIDE DEF c
  <2>3. Covers(c, n, e + 1)
    BY <2>1, <2>2 DEF Covers
  <2> QED
    BY <2>3 DEF c
<1> QED
  BY <1>2, <1>3

LEMMA CoversBounds ==
  ASSUME NEW b \in Buckets, NEW n \in Int, NEW e \in Nat,
         n > 0 => Covers(b, n, e)
  PROVE  n * b.window <= b.limit * b.window + b.limit * e
<1> DEFINE w == b.window
           l == b.limit
           cur == CurrentAmountInFlight(b)
<1>1. w \in Nat /\ l \in Nat /\ cur \in Nat
  BY InFlightType DEF Buckets
<1>2. cur * w \in Nat /\ l * w \in Nat /\ l * e \in Nat
  BY <1>1, ProductOfNaturals
<1>3. ASSUME n > 0 PROVE n * w <= l * w + l * e
  <2>1. cur <= l /\ n * w <= cur * w + l * e
    BY <1>3, CoversCurrent
  <2>2. cur * w <= l * w
    BY <1>1, <2>1, ProductMonotone
  <2>3. n * w \in Int
    BY <1>1
  <2> HIDE DEF w, l, cur
  <2> QED
    BY <1>2, <2>1, <2>2, <2>3
<1>4. ASSUME ~(n > 0) PROVE n * w <= l * w + l * e
  <2>1. (-n) \in Nat
    BY <1>4
  <2>2. (-n) * w \in Nat
    BY <1>1, <2>1, ProductOfNaturals
  <2>3. n * w = -((-n) * w)
    BY <1>1
  <2> HIDE DEF w, l, cur
  <2> QED
    BY <1>2, <2>2, <2>3
<1> QED
  BY <1>3, <1>4

-----------------------------------------------------------------------------
LEMMA InitWatchInv == Init => WatchInv
  BY DEF Init, WatchInv

LEMMA CheckWatchInv ==
  ASSUME TypeInv, WatchInv, NEW a \in Adapters, NEW amount \in Nat,
         NEW d \in Directions, CheckAndUpdateRateLimit(a, amount, d)
  PROVE  WatchInv'
<1> DEFINE o == Opposite(d)
<1>1. o \in Directions /\ o # d
  BY OppositeType
<1>2. /\ rateLimits[a][d] \in Buckets /\ rateLimits[a][o] \in Buckets
      /\ net \in Int /\ elapsed \in Nat
      /\ watch \in (Adapters \X Directions) \cup {None}
      /\ rateLimits \in [Adapters -> [Directions -> Buckets]]
  BY <1>1 DEF TypeInv, OftTypeOK
<1>3. /\ rateLimits' = [rateLimits EXCEPT ![a] = Updated(a, amount, d)]
      /\ watch' = watch /\ elapsed' = elapsed
      /\ CanUpdate(rateLimits[a][d], amount)
  BY DEF CheckAndUpdateRateLimit, RateLimitAllows
<1>4. CASE watch = None
  <2>1. watch # <<a, d>> /\ watch # <<a, o>>
    BY <1>4 DEF None
  <2>2. net' = net
    BY <2>1 DEF CheckAndUpdateRateLimit
  <2> QED
    BY <1>3, <1>4, <2>2 DEF WatchInv
<1>5. CASE watch = <<a, d>>
  <2>1. net' = net + amount
    BY <1>1, <1>5 DEF CheckAndUpdateRateLimit
  <2>2. rateLimits'[a][d] = UpdateLimit(rateLimits[a][d], amount)
    BY <1>2, <1>3 DEF Updated
  <2>3. net > 0 => Covers(rateLimits[a][d], net, elapsed)
    BY <1>5 DEF WatchInv, None
  <2>4. net' > 0 => Covers(rateLimits'[a][d], net', elapsed)
    BY <1>2, <1>3, <2>1, <2>2, <2>3, CoversUpdate
  <2>5. watch # None /\ watch[1] = a /\ watch[2] = d
    BY <1>5 DEF None
  <2> QED
    BY <1>3, <2>4, <2>5 DEF WatchInv
<1>6. CASE watch = <<a, o>>
  <2>1. net' = net - amount
    BY <1>1, <1>6 DEF CheckAndUpdateRateLimit
  <2>2. rateLimits'[a][o] = GiveBack(rateLimits[a][o], amount)
    BY <1>1, <1>2, <1>3 DEF Updated
  <2>3. net > 0 => Covers(rateLimits[a][o], net, elapsed)
    BY <1>6 DEF WatchInv, None
  <2>4. net' > 0 => Covers(rateLimits'[a][o], net', elapsed)
    BY <1>2, <2>1, <2>2, <2>3, CoversGiveBack
  <2>5. watch # None /\ watch[1] = a /\ watch[2] = o
    BY <1>6 DEF None
  <2> QED
    BY <1>3, <2>4, <2>5 DEF WatchInv
<1>7. CASE watch # None /\ watch # <<a, d>> /\ watch # <<a, o>>
  <2>1. net' = net
    BY <1>7 DEF CheckAndUpdateRateLimit
  <2>2. watch[1] # a /\ watch[1] \in Adapters
    BY <1>2, <1>7 DEF Directions, Opposite
  <2>3. rateLimits'[watch[1]] = rateLimits[watch[1]]
    BY <1>2, <1>3, <2>2
  <2> QED
    BY <1>3, <2>1, <2>3 DEF WatchInv
<1> QED
  BY <1>4, <1>5, <1>6, <1>7

LEMMA SetRateLimitsWatchInv ==
  ASSUME TypeInv, WatchInv, NEW a \in Adapters, NEW d \in Directions,
         NEW limit \in Nat, NEW window \in Nat, SetRateLimits(a, d, limit, window)
  PROVE  WatchInv'
<1> DEFINE o == Opposite(d)
           new == [Updated(a, 0, d) EXCEPT ![d].limit = limit, ![d].window = window]
<1>1. o \in Directions /\ o # d
  BY OppositeType
<1>2. /\ rateLimits[a][o] \in Buckets
      /\ net \in Int /\ elapsed \in Nat
      /\ watch \in (Adapters \X Directions) \cup {None}
      /\ rateLimits \in [Adapters -> [Directions -> Buckets]]
  BY <1>1 DEF TypeInv, OftTypeOK
<1>3. /\ rateLimits' = [rateLimits EXCEPT ![a] = new]
      /\ watch = <<a, d>> => watch' = None /\ net' = 0 /\ elapsed' = 0
      /\ watch # <<a, d>> => watch' = watch /\ net' = net /\ elapsed' = elapsed
  BY DEF SetRateLimits
<1>4. new[o] = GiveBack(rateLimits[a][o], 0)
  BY <1>1 DEF Updated
<1> HIDE DEF new
<1>5. CASE watch = <<a, d>>
  BY <1>3, <1>5 DEF WatchInv
<1>6. CASE watch = None
  BY <1>3, <1>6 DEF WatchInv, None
<1>7. CASE watch = <<a, o>>
  <2>1. watch # <<a, d>>
    BY <1>1, <1>7
  <2>2. rateLimits'[a][o] = GiveBack(rateLimits[a][o], 0)
    BY <1>2, <1>3, <1>4
  <2>3. net > 0 => Covers(rateLimits[a][o], net, elapsed)
    BY <1>7 DEF WatchInv, None
  <2>4. net - 0 = net
    BY <1>2
  <2>5. net > 0 => Covers(rateLimits'[a][o], net, elapsed)
    BY <1>2, <2>2, <2>3, <2>4, CoversGiveBack
  <2>6. watch' = watch /\ net' = net /\ elapsed' = elapsed
    BY <1>3, <2>1
  <2>7. watch # None /\ watch[1] = a /\ watch[2] = o
    BY <1>7 DEF None
  <2> QED
    BY <2>5, <2>6, <2>7 DEF WatchInv
<1>8. CASE watch # None /\ watch # <<a, d>> /\ watch # <<a, o>>
  <2>1. watch[1] # a /\ watch[1] \in Adapters
    BY <1>2, <1>8 DEF Directions, Opposite
  <2>2. rateLimits'[watch[1]] = rateLimits[watch[1]]
    BY <1>2, <1>3, <2>1
  <2> QED
    BY <1>3, <1>8, <2>2 DEF WatchInv
<1> QED
  BY <1>5, <1>6, <1>7, <1>8

LEMMA TickWatchInv ==
  ASSUME TypeInv, WatchInv, Tick
  PROVE  WatchInv'
<1>1. CASE ~(watch # None /\ elapsed < MaxElapsed)
  BY <1>1 DEF Tick, WatchInv
<1>2. CASE watch # None /\ elapsed < MaxElapsed
  <2> DEFINE b == rateLimits[watch[1]][watch[2]]
  <2>1. b \in Buckets /\ net \in Int /\ elapsed \in Nat
    BY <1>2 DEF TypeInv, OftTypeOK
  <2>2. /\ rateLimits'[watch[1]][watch[2]] = Elapse(b)
        /\ watch' = watch /\ net' = net /\ elapsed' = elapsed + 1
    BY <1>2 DEF Tick, TypeInv, OftTypeOK
  <2>3. net > 0 => Covers(b, net, elapsed)
    BY <1>2 DEF WatchInv
  <2>4. net > 0 => Covers(Elapse(b), net, elapsed + 1)
    BY <2>1, <2>3, CoversElapse
  <2> QED
    BY <1>2, <2>2, <2>4 DEF WatchInv
<1> QED
  BY <1>1, <1>2

LEMMA NextWatchInv == TypeInv /\ WatchInv /\ [Next]_vars => WatchInv'
<1> SUFFICES ASSUME TypeInv, WatchInv, [Next]_vars PROVE WatchInv'
  OBVIOUS
<1>1. ASSUME NEW a \in Adapters, NEW d \in Directions, NEW r \in RateConfigs,
             SetRateLimits(a, d, r[1], r[2])
      PROVE  WatchInv'
  <2>1. r[1] \in Nat /\ r[2] \in Nat
    BY OftAssumptions
  <2> QED
    BY <1>1, <2>1, SetRateLimitsWatchInv
<1>2. CASE UNCHANGED <<rateLimits, observer>>
  BY <1>2 DEF observer, WatchInv
<1>3. ASSUME NEW a \in Adapters, NEW b \in Adapters \cup {Zero}, PeerStep(a, b)
      PROVE  WatchInv'
  BY <1>2, <1>3 DEF PeerStep, SetPeer
<1>4. ASSUME NEW a \in Adapters, NEW uln \in UlnConfigs, NEW b \in BOOLEAN,
             SetupEndpointConfig(a, uln, b)
      PROVE  WatchInv'
  BY <1>2, <1>4 DEF SetupEndpointConfig
<1>5. CASE Empty
  BY <1>2, <1>5 DEF Empty
<1>6. ASSUME NEW a \in Adapters, NEW amount \in Amounts, NEW minAmount,
             Send(a, amount, minAmount)
      PROVE  WatchInv'
  <2>1. Debited(amount) \in Nat
    BY RoundedType, OftAssumptions DEF Debited
  <2>2. CheckAndUpdateRateLimit(a, Debited(amount), "Outbound")
    BY <1>6 DEF Send
  <2> QED
    BY <2>1, <2>2, CheckWatchInv DEF Directions
<1>7. ASSUME NEW m \in messages, Verify(m) PROVE WatchInv'
  BY <1>2, <1>7 DEF Verify
<1>8. ASSUME NEW m \in messages, Receive(m) PROVE WatchInv'
  <2>1. m.receiver \in Adapters /\ m.amount \in Nat
    BY DEF TypeInv, OftTypeOK, Messages
  <2>2. CheckAndUpdateRateLimit(m.receiver, m.amount, "Inbound")
    BY <1>8 DEF Receive
  <2> QED
    BY <2>1, <2>2, CheckWatchInv DEF Directions
<1>9. CASE Tick
  BY <1>9, TickWatchInv
<1>10. ASSUME NEW a \in Adapters, NEW d \in Directions, StartWatch(a, d)
       PROVE  WatchInv'
  BY <1>10 DEF StartWatch, WatchInv, None
<1>11. CASE UNCHANGED vars
  BY <1>2, <1>11 DEF vars
<1> QED
  BY <1>1, <1>3, <1>4, <1>5, <1>6, <1>7, <1>8, <1>9, <1>10, <1>11
     DEF Next, OwnerStep, TransferStep, ObserverStep

(***************************************************************************)
(* However transfers in the two directions interleave, what leaves or      *)
(* enters in balance stays within the limit and what drains in the time    *)
(* (EfficientRateLimiter), for every limit, window, amount and word size.  *)
(***************************************************************************)
THEOREM NetFlowIsLimited == Spec => []NetFlowBound
<1>1. Init => TypeInv /\ WatchInv
  BY InitTypeInv, InitWatchInv
<1>2. TypeInv /\ WatchInv /\ [Next]_vars => (TypeInv /\ WatchInv)'
  BY NextTypeInv, NextWatchInv
<1>3. TypeInv /\ WatchInv => NetFlowBound
  <2> SUFFICES ASSUME TypeInv, WatchInv, watch # None
               PROVE  LET b == rateLimits[watch[1]][watch[2]] IN
                      net * b.window <= b.limit * b.window + b.limit * elapsed
    BY DEF NetFlowBound
  <2> DEFINE b == rateLimits[watch[1]][watch[2]]
  <2>1. b \in Buckets /\ net \in Int /\ elapsed \in Nat
    BY DEF TypeInv, OftTypeOK
  <2>2. net > 0 => Covers(b, net, elapsed)
    BY DEF WatchInv
  <2> QED
    BY <2>1, <2>2, CoversBounds
<1> QED
  BY <1>1, <1>2, <1>3, PTL DEF Spec

-----------------------------------------------------------------------------
(***************************************************************************)
(* Where the tokens are.  Messages are told apart by their nonces and go   *)
(* from one chain to the other, so that each adds its amount to what is in *)
(* flight when it is sent and takes it out when it is received.            *)
(***************************************************************************)
OnRoutes ==
  /\ \A a \in Adapters : peers[a] # Zero => <<a, peers[a]>> \in Routes
  /\ \A m \in messages : <<m.sender, m.receiver>> \in Routes

Numbered == \A m \in messages : m.nonce < NonceOf(m.sender, m.receiver)

Ordered == TypeInv /\ OnRoutes /\ Numbered

LEMMA AdaptersDiffer ==
  Lockbox # HomeMinter /\ Lockbox # AwayMinter /\ HomeMinter # AwayMinter
<1>1. ASSUME NEW x, NEW y PROVE Cardinality({x, y}) \in Nat /\ Cardinality({x, y}) <= 2
  <2>1. IsFiniteSet({x}) /\ Cardinality({x}) = 1
    BY FS_Singleton
  <2>2. {x, y} = {x} \cup {y}
    OBVIOUS
  <2> QED
    BY <2>1, <2>2, FS_AddElement
<1>2. Cardinality(Adapters) = 3
  BY OftAssumptions
<1>3. ASSUME NEW x, NEW y, Adapters = {x, y} PROVE FALSE
  <2>1. Cardinality(Adapters) \in Nat /\ Cardinality(Adapters) <= 2
    BY <1>1, <1>3
  <2> QED
    BY <1>2, <2>1
<1> QED
  BY <1>3 DEF Adapters

\* Every route leads from the other chain to one at home, or back.
LEMMA RouteEnds ==
  ASSUME NEW a, NEW b, <<a, b>> \in Routes
  PROVE  /\ a \in Adapters /\ b \in Adapters
         /\ a = AwayMinter <=> b # AwayMinter
  BY DEF Routes, ChainOf

Departs(m) ==
  /\ m \in Messages /\ m \notin messages
  /\ messages' = messages \cup {m}
  /\ <<m.sender, m.receiver>> \in Routes /\ m.receiver = peers[m.sender]
  /\ m.nonce = NonceOf(m.sender, m.receiver)
  /\ circulating[ChainOf(m.sender)] >= m.amount
  /\ circulating' = [circulating EXCEPT ![ChainOf(m.sender)] = @ - m.amount]
  /\ locked' = IF m.sender = Lockbox THEN locked + m.amount ELSE locked
  /\ UNCHANGED <<peers, received, emptied>>

Arrives(m) ==
  /\ m \in messages \ received
  /\ m.sender = peers[m.receiver]
  /\ circulating' = [circulating EXCEPT ![ChainOf(m.receiver)] = @ + m.amount]
  /\ m.receiver = Lockbox => locked >= m.amount
  /\ locked' = IF m.receiver = Lockbox THEN locked - m.amount ELSE locked
  /\ received' = received \cup {m}
  /\ UNCHANGED <<peers, messages, emptied>>

LEMMA SendDeparts ==
  ASSUME Ordered, NEW a \in Adapters, NEW amount \in Amounts, NEW minAmount,
         Send(a, amount, minAmount)
  PROVE  \E m : Departs(m)
<1> DEFINE m == [nonce |-> NonceOf(a, peers[a]), sender |-> a,
                 receiver |-> peers[a], amount |-> RemoveDust(amount),
                 uln |-> sendUln[a]]
<1>1. <<a, peers[a]>> \in Routes /\ peers[a] \in Adapters
  BY RouteEnds DEF Send, Ordered, OnRoutes
<1>2. m \in Messages
  <2>1. NonceOf(a, peers[a]) \in 1..MaxMessages
    BY NonceType DEF Send, Ordered
  <2>2. RemoveDust(amount) \in Nat
    BY RoundedType, OftAssumptions
  <2>3. sendUln[a] \in UlnConfigs
    BY DEF Ordered, TypeInv, OftTypeOK
  <2> QED
    BY <1>1, <2>1, <2>2, <2>3 DEF Messages
<1>3. /\ m.sender = a /\ m.receiver = peers[a] /\ m.amount = RemoveDust(amount)
      /\ m.nonce = NonceOf(a, peers[a])
  OBVIOUS
<1>4. messages' = messages \cup {m}
  BY DEF Send
<1> HIDE DEF m
<1>5. m \notin messages
  <2>1. m.nonce \in Int
    BY <1>2 DEF Messages
  <2> QED
    BY <1>3, <2>1 DEF Ordered, Numbered
<1>6. /\ circulating[ChainOf(a)] >= m.amount
      /\ circulating' = [circulating EXCEPT ![ChainOf(a)] = @ - m.amount]
      /\ locked' = IF a = Lockbox THEN locked + m.amount ELSE locked
      /\ UNCHANGED <<peers, received, emptied>>
  BY <1>3 DEF Send, Debited, configVars
<1>7. Departs(m)
  BY <1>1, <1>2, <1>3, <1>4, <1>5, <1>6 DEF Departs
<1> QED
  BY <1>7

LEMMA ReceiveArrives ==
  ASSUME TypeInv, NEW m \in messages, Receive(m)
  PROVE  Arrives(m)
  BY DEF Receive, FromPeer, configVars, Arrives, TypeInv, OftTypeOK

\* The steps by what they do with tokens.
LEMMA TokenSteps ==
  ASSUME Ordered, [Next]_vars
  PROVE  \/ \E m : Departs(m)
         \/ \E m : Arrives(m)
         \/ /\ UNCHANGED <<messages, received, circulating>>
            /\ \/ UNCHANGED <<peers, locked, emptied>>
               \/ emptied' = TRUE /\ UNCHANGED peers
               \/ \E a \in Adapters, b \in Adapters \cup {Zero} : PeerStep(a, b)
<1> DEFINE Other ==
      /\ UNCHANGED <<messages, received, circulating>>
      /\ \/ UNCHANGED <<peers, locked, emptied>>
         \/ emptied' = TRUE /\ UNCHANGED peers
         \/ \E a \in Adapters, b \in Adapters \cup {Zero} : PeerStep(a, b)
<1>1. ASSUME NEW a, NEW d, NEW r, SetRateLimits(a, d, r[1], r[2]) PROVE Other
  BY <1>1 DEF SetRateLimits, configVars, tokenVars
<1>2. ASSUME NEW a \in Adapters, NEW b \in Adapters \cup {Zero}, PeerStep(a, b)
      PROVE  Other
  BY <1>2 DEF PeerStep, SetPeer, tokenVars
<1>3. ASSUME NEW a, NEW uln, NEW b, SetupEndpointConfig(a, uln, b) PROVE Other
  BY <1>3 DEF SetupEndpointConfig, tokenVars
<1>4. Empty => Other
  BY DEF Empty, configVars
<1>5. ASSUME NEW m, Verify(m) PROVE Other
  BY <1>5 DEF Verify, configVars, tokenVars
<1>6. Tick \/ ObserverStep => Other
  BY DEF Tick, ObserverStep, StartWatch, configVars, tokenVars
<1>7. UNCHANGED vars => Other
  BY DEF vars, configVars, tokenVars
<1>8. ASSUME NEW a \in Adapters, NEW amount \in Amounts, NEW minAmount,
             Send(a, amount, minAmount)
      PROVE  \E m : Departs(m)
  BY <1>8, SendDeparts
<1>9. ASSUME NEW m \in messages, Receive(m) PROVE Arrives(m)
  BY <1>9, ReceiveArrives DEF Ordered
<1> HIDE DEF Other
<1>10. Other \/ (\E m : Departs(m)) \/ (\E m : Arrives(m))
  BY <1>1, <1>2, <1>3, <1>4, <1>5, <1>6, <1>7, <1>8, <1>9
     DEF Next, OwnerStep, TransferStep
<1> QED
  BY <1>10 DEF Other

LEMMA DepartNumbered ==
  ASSUME Ordered, NEW m, Departs(m)
  PROVE  Numbered'
<1> SUFFICES ASSUME NEW n \in messages' PROVE n.nonce < NonceOf(n.sender, n.receiver)'
  BY DEF Numbered
<1> DEFINE path == {x \in messages : x.sender = n.sender /\ x.receiver = n.receiver}
           next == {x \in messages' : x.sender = n.sender /\ x.receiver = n.receiver}
<1>1. IsFiniteSet(path) /\ m \notin path
  BY FS_Subset DEF Departs, Ordered, TypeInv
<1>2. next = IF m.sender = n.sender /\ m.receiver = n.receiver
             THEN path \cup {m} ELSE path
  BY DEF Departs
<1>3. /\ NonceOf(n.sender, n.receiver) = Cardinality(path) + 1
      /\ NonceOf(n.sender, n.receiver)' = Cardinality(next) + 1
  BY DEF NonceOf
<1>4. n \in Messages /\ n.nonce \in Int
  BY DEF Departs, Ordered, TypeInv, OftTypeOK, Messages
<1> HIDE DEF path, next
<1>5. Cardinality(path) \in Nat
  BY <1>1, FS_CardinalityType
<1>6. Cardinality(path \cup {m}) = Cardinality(path) + 1
  BY <1>1, FS_AddElement
<1>7. CASE n = m
  BY <1>2, <1>3, <1>5, <1>6, <1>7 DEF Departs
<1>8. CASE n # m
  <2>1. n.nonce < NonceOf(n.sender, n.receiver)
    BY <1>8 DEF Departs, Ordered, Numbered
  <2> QED
    BY <1>2, <1>3, <1>4, <1>5, <1>6, <2>1
<1> QED
  BY <1>7, <1>8

LEMMA NextOrdered == Ordered /\ [Next]_vars => Ordered'
<1> SUFFICES ASSUME Ordered, [Next]_vars PROVE Ordered'
  OBVIOUS
<1>1. TypeInv'
  BY NextTypeInv DEF Ordered
<1>2. OnRoutes'
  <2>1. ASSUME NEW m, Departs(m) PROVE OnRoutes'
    BY <2>1 DEF Departs, Ordered, OnRoutes
  <2>2. ASSUME NEW m, Arrives(m) PROVE OnRoutes'
    BY <2>2 DEF Arrives, Ordered, OnRoutes
  <2>3. ASSUME UNCHANGED messages, NEW a \in Adapters, NEW b \in Adapters \cup {Zero},
               PeerStep(a, b)
        PROVE  OnRoutes'
    BY <2>3 DEF PeerStep, SetPeer, Ordered, OnRoutes, TypeInv, OftTypeOK
  <2>4. UNCHANGED <<messages, peers>> => OnRoutes'
    BY DEF Ordered, OnRoutes
  <2> QED
    BY <2>1, <2>2, <2>3, <2>4, TokenSteps
<1>3. Numbered'
  <2>1. UNCHANGED messages => Numbered'
    BY DEF Ordered, Numbered, NonceOf
  <2> QED
    BY <2>1, TokenSteps, DepartNumbered DEF Arrives
<1> QED
  BY <1>1, <1>2, <1>3 DEF Ordered

LEMMA AlwaysOrdered == Spec => []Ordered
<1>1. Init => Ordered
  BY InitTypeInv DEF Init, Ordered, OnRoutes, Numbered
<1> QED
  BY <1>1, NextOrdered, PTL DEF Spec

-----------------------------------------------------------------------------
\* What messages carry.
amountOf == [m \in Messages |-> m.amount]

LEMMA CarriedSum ==
  ASSUME NEW ms \in SUBSET Messages, IsFiniteSet(ms)
  PROVE  /\ Carried(ms) = SumFunctionOnSet(amountOf, ms)
         /\ Carried(ms) \in Nat
<1> DEFINE f == [m \in ms |-> m.amount]
<1>1. \A m \in ms : f[m] = amountOf[m] /\ f[m] \in Nat
  BY DEF amountOf, Messages
<1>2. Carried(ms) = SumFunctionOnSet(f, ms)
  BY DEF Carried, SumFunction
<1> HIDE DEF f
<1> QED
  BY <1>1, <1>2, SumSame, SumNat

LEMMA CarriedMore ==
  ASSUME NEW ms \in SUBSET Messages, IsFiniteSet(ms),
         NEW m \in Messages, m \notin ms
  PROVE  /\ Carried(ms) \in Nat
         /\ Carried(ms \cup {m}) = Carried(ms) + m.amount
<1>1. \A n \in ms \cup {m} : amountOf[n] = n.amount /\ amountOf[n] \in Int
  BY DEF amountOf, Messages
<1>2. IsFiniteSet(ms \cup {m})
  BY FS_AddElement
<1>3. SumFunctionOnSet(amountOf, ms \cup {m}) = SumFunctionOnSet(amountOf, ms) + amountOf[m]
  BY <1>1, SumAdd
<1> QED
  BY <1>1, <1>2, <1>3, CarriedSum

\* The messages in flight on some of the paths, given by a set of routes.
On(routes) == {m \in InFlight : <<m.sender, m.receiver>> \in routes}

LEMMA DepartCarried ==
  ASSUME Ordered, NEW m, Departs(m), NEW routes
  PROVE  /\ Carried(On(routes)) \in Nat
         /\ Carried(On(routes))' =
              IF <<m.sender, m.receiver>> \in routes
              THEN Carried(On(routes)) + m.amount ELSE Carried(On(routes))
<1>1. On(routes) \in SUBSET Messages /\ IsFiniteSet(On(routes)) /\ m \notin On(routes)
  BY FS_Subset DEF On, InFlight, Departs, Ordered, TypeInv, OftTypeOK
<1>2. On(routes)' = IF <<m.sender, m.receiver>> \in routes
                    THEN On(routes) \cup {m} ELSE On(routes)
  BY DEF On, InFlight, Departs, Ordered, TypeInv, OftTypeOK
<1>3. Carried(On(routes))' = Carried(On(routes)')
  BY DEF Carried
<1>4. m \in Messages
  BY DEF Departs
<1> HIDE DEF On
<1> QED
  BY <1>1, <1>2, <1>3, <1>4, CarriedMore

LEMMA ArriveCarried ==
  ASSUME Ordered, NEW m, Arrives(m), NEW routes
  PROVE  /\ Carried(On(routes)) \in Nat
         /\ Carried(On(routes))' \in Nat
         /\ Carried(On(routes)) =
              IF <<m.sender, m.receiver>> \in routes
              THEN Carried(On(routes))' + m.amount ELSE Carried(On(routes))'
<1> DEFINE after == On(routes)'
<1>1. m \in Messages
  BY DEF Arrives, Ordered, TypeInv, OftTypeOK
<1>2. On(routes) = IF <<m.sender, m.receiver>> \in routes
                   THEN after \cup {m} ELSE after
  BY DEF On, InFlight, Arrives
<1>3. On(routes) \in SUBSET Messages /\ IsFiniteSet(On(routes))
  BY FS_Subset DEF On, InFlight, Ordered, TypeInv, OftTypeOK
<1>4. after \subseteq On(routes) /\ m \notin after
  BY DEF On, InFlight, Arrives
<1>5. Carried(On(routes))' = Carried(after)
  BY DEF Carried
<1> HIDE DEF On, after
<1>6. after \in SUBSET Messages /\ IsFiniteSet(after)
  BY <1>3, <1>4, FS_Subset
<1> QED
  BY <1>1, <1>2, <1>3, <1>4, <1>5, <1>6, CarriedMore, CarriedSum

\* A user's token is in circulation on its chain or in flight.
LEMMA NextNothingLost ==
  ASSUME Ordered, NothingLost, [Next]_vars
  PROVE  NothingLost'
<1>1. /\ circulating["home"] \in Nat /\ circulating["away"] \in Nat
      /\ Supply \in Nat
  BY BoundsType DEF Ordered, TypeInv, OftTypeOK, Chains
<1>2. InFlight = On(Routes) /\ InFlight' = On(Routes)'
  <2>1. OnRoutes /\ OnRoutes'
    BY NextOrdered DEF Ordered
  <2> QED
    BY <2>1 DEF OnRoutes, InFlight, On
<1>3. Carried(InFlight) = Carried(On(Routes)) /\ Carried(InFlight)' = Carried(On(Routes))'
  BY <1>2 DEF Carried
<1>4. ASSUME NEW m, Departs(m) PROVE NothingLost'
  <2>1. /\ Carried(On(Routes)) \in Nat
        /\ Carried(On(Routes))' = Carried(On(Routes)) + m.amount
    BY <1>4, DepartCarried DEF Departs
  <2>2. m.amount \in Nat /\ ChainOf(m.sender) \in {"home", "away"}
    BY <1>4 DEF Departs, Messages, ChainOf
  <2>3. /\ circulating'["home"] = IF ChainOf(m.sender) = "home"
              THEN circulating["home"] - m.amount ELSE circulating["home"]
        /\ circulating'["away"] = IF ChainOf(m.sender) = "away"
              THEN circulating["away"] - m.amount ELSE circulating["away"]
    BY <1>4 DEF Departs, Ordered, TypeInv, OftTypeOK, Chains
  <2>4. circulating'["home"] + circulating'["away"]
          = circulating["home"] + circulating["away"] - m.amount
    BY <1>1, <2>2, <2>3
  <2> QED
    BY <1>1, <1>3, <2>1, <2>2, <2>4 DEF NothingLost
<1>5. ASSUME NEW m, Arrives(m) PROVE NothingLost'
  <2>1. m \in Messages /\ <<m.sender, m.receiver>> \in Routes
    BY <1>5 DEF Arrives, Ordered, OnRoutes, TypeInv, OftTypeOK
  <2>2. /\ Carried(On(Routes))' \in Nat
        /\ Carried(On(Routes)) = Carried(On(Routes))' + m.amount
    BY <1>5, <2>1, ArriveCarried
  <2>3. m.amount \in Nat /\ ChainOf(m.receiver) \in {"home", "away"}
    BY <2>1 DEF Messages, ChainOf
  <2>4. /\ circulating'["home"] = IF ChainOf(m.receiver) = "home"
              THEN circulating["home"] + m.amount ELSE circulating["home"]
        /\ circulating'["away"] = IF ChainOf(m.receiver) = "away"
              THEN circulating["away"] + m.amount ELSE circulating["away"]
    BY <1>5 DEF Arrives, Ordered, TypeInv, OftTypeOK, Chains
  <2>5. circulating'["home"] + circulating'["away"]
          = circulating["home"] + circulating["away"] + m.amount
    BY <1>1, <2>3, <2>4
  <2> QED
    BY <1>1, <1>3, <2>2, <2>3, <2>5 DEF NothingLost
<1>6. UNCHANGED <<messages, received, circulating>> => NothingLost'
  BY DEF NothingLost, InFlight, Carried
<1> QED
  BY <1>4, <1>5, <1>6, TokenSteps

(***************************************************************************)
(* Tokens are neither lost nor made: what users hold on the two chains and *)
(* what is in flight is the supply, for every amount and rounding, and     *)
(* whatever the owner does with limits, peers and the lockbox.             *)
(***************************************************************************)
THEOREM TokensAreNotLost == Spec => []NothingLost
<1>1. Init => NothingLost
  <2> SUFFICES ASSUME Init PROVE NothingLost
    OBVIOUS
  <2>1. InFlight = {}
    BY DEF Init, InFlight
  <2>2. Carried({}) = 0
    BY FS_EmptySet, CarriedSum, SumEmpty
  <2>3. circulating["home"] = Supply /\ circulating["away"] = 0
    BY DEF Init, InitialCirculation, Chains
  <2> QED
    BY <2>1, <2>2, <2>3, BoundsType DEF NothingLost
<1>2. Ordered /\ NothingLost /\ [Next]_vars => NothingLost'
  BY NextNothingLost
<1> QED
  BY <1>1, <1>2, AlwaysOrdered, PTL DEF Spec

-----------------------------------------------------------------------------
(***************************************************************************)
(* LockboxCovers is not inductive: what the lockbox sent and the other     *)
(* chain has not received yet will circulate there.  It is locked, too.    *)
(***************************************************************************)
Incoming == Adapters \X {Lockbox}
Outgoing == {Lockbox} \X Adapters

Owes ==
  IF peers[AwayMinter] = HomeMinter
  THEN Carried(On(Incoming))
  ELSE Carried(On(Incoming)) + circulating["away"] + Carried(On(Outgoing))

LockboxInv == ~emptied => locked >= Owes

LEMMA DepartLockbox ==
  ASSUME Ordered, LockboxInv, NEW m, Departs(m)
  PROVE  LockboxInv'
<1> DEFINE i == Carried(On(Incoming))
           o == Carried(On(Outgoing))
           c == circulating["away"]
<1>1. /\ m.sender \in Adapters /\ m.receiver \in Adapters /\ m.amount \in Nat
      /\ m.sender = AwayMinter <=> m.receiver # AwayMinter
      /\ m.receiver = peers[m.sender]
  BY RouteEnds DEF Departs, Messages
<1>2. /\ i \in Nat /\ o \in Nat
      /\ i' = IF m.receiver = Lockbox THEN i + m.amount ELSE i
      /\ o' = IF m.sender = Lockbox THEN o + m.amount ELSE o
  BY <1>1, DepartCarried DEF Incoming, Outgoing
<1>3. c \in Nat /\ c' = IF m.sender = AwayMinter THEN c - m.amount ELSE c
  BY <1>1 DEF Departs, Ordered, TypeInv, OftTypeOK, Chains, ChainOf
<1>4. locked' = IF m.sender = Lockbox THEN locked + m.amount ELSE locked
  BY DEF Departs
<1>5. locked \in Nat
  BY DEF Ordered, TypeInv, OftTypeOK
<1>6. UNCHANGED <<peers, emptied>>
  BY DEF Departs
<1>7. /\ Owes = IF peers[AwayMinter] = HomeMinter THEN i ELSE i + c + o
      /\ Owes' = IF peers[AwayMinter] = HomeMinter THEN i' ELSE i' + c' + o'
  BY <1>6 DEF Owes
<1>8. m.receiver \in {Lockbox, HomeMinter, AwayMinter}
      /\ m.sender \in {Lockbox, HomeMinter, AwayMinter}
  BY <1>1 DEF Adapters
<1> HIDE DEF i, o, c
<1>9. ~emptied => locked' >= Owes'
  BY <1>1, <1>2, <1>3, <1>4, <1>5, <1>7, <1>8, AdaptersDiffer DEF LockboxInv
<1> QED
  BY <1>6, <1>9 DEF LockboxInv

LEMMA ArriveLockbox ==
  ASSUME Ordered, LockboxInv, NEW m, Arrives(m)
  PROVE  LockboxInv'
<1> DEFINE i == Carried(On(Incoming))
           o == Carried(On(Outgoing))
           c == circulating["away"]
<1>1. /\ m.sender \in Adapters /\ m.receiver \in Adapters /\ m.amount \in Nat
      /\ m.sender = AwayMinter <=> m.receiver # AwayMinter
      /\ m.sender = peers[m.receiver]
  BY RouteEnds DEF Arrives, Ordered, OnRoutes, TypeInv, OftTypeOK, Messages
<1>2. /\ i' \in Nat /\ o' \in Nat
      /\ i = IF m.receiver = Lockbox THEN i' + m.amount ELSE i'
      /\ o = IF m.sender = Lockbox THEN o' + m.amount ELSE o'
  BY <1>1, ArriveCarried DEF Incoming, Outgoing
<1>3. c \in Nat /\ c' = IF m.receiver = AwayMinter THEN c + m.amount ELSE c
  BY <1>1 DEF Arrives, Ordered, TypeInv, OftTypeOK, Chains, ChainOf
<1>4. locked' = IF m.receiver = Lockbox THEN locked - m.amount ELSE locked
  BY DEF Arrives
<1>5. locked \in Nat
  BY DEF Ordered, TypeInv, OftTypeOK
<1>6. UNCHANGED <<peers, emptied>>
  BY DEF Arrives
<1>7. /\ Owes = IF peers[AwayMinter] = HomeMinter THEN i ELSE i + c + o
      /\ Owes' = IF peers[AwayMinter] = HomeMinter THEN i' ELSE i' + c' + o'
  BY <1>6 DEF Owes
<1>8. m.receiver \in {Lockbox, HomeMinter, AwayMinter}
      /\ m.sender \in {Lockbox, HomeMinter, AwayMinter}
  BY <1>1 DEF Adapters
<1> HIDE DEF i, o, c
<1>9. ~emptied => locked' >= Owes'
  BY <1>1, <1>2, <1>3, <1>4, <1>5, <1>7, <1>8, AdaptersDiffer DEF LockboxInv
<1> QED
  BY <1>6, <1>9 DEF LockboxInv

LEMMA CarriedType ==
  ASSUME Ordered, NEW routes
  PROVE  Carried(On(routes)) \in Nat
<1>1. On(routes) \in SUBSET Messages /\ IsFiniteSet(On(routes))
  BY FS_Subset DEF On, InFlight, Ordered, TypeInv, OftTypeOK
<1> QED
  BY <1>1, CarriedSum

\* The owner may hand the other chain over to the second adapter, not back.
LEMMA PeerStepLockbox ==
  ASSUME Ordered, LockboxInv, NEW a \in Adapters, NEW b \in Adapters \cup {Zero},
         PeerStep(a, b), UNCHANGED <<messages, received, circulating>>
  PROVE  LockboxInv'
<1>1. UNCHANGED <<locked, emptied>>
  BY DEF PeerStep, SetPeer, tokenVars
<1>2. peers[AwayMinter] = HomeMinter => peers'[AwayMinter] = HomeMinter
  BY DEF PeerStep, SetPeer, Ordered, TypeInv, OftTypeOK, Adapters
<1>3. /\ Carried(On(Incoming))' = Carried(On(Incoming))
      /\ Carried(On(Outgoing))' = Carried(On(Outgoing))
  BY DEF On, InFlight, Carried
<1>4. /\ Carried(On(Incoming)) \in Nat /\ Carried(On(Outgoing)) \in Nat
      /\ circulating["away"] \in Nat /\ locked \in Nat
  BY CarriedType DEF Ordered, TypeInv, OftTypeOK, Chains
<1>5. Owes' <= Owes
  BY <1>2, <1>3, <1>4 DEF Owes
<1>6. Owes \in Nat /\ Owes' \in Nat
  BY <1>3, <1>4 DEF Owes
<1> QED
  BY <1>1, <1>4, <1>5, <1>6 DEF LockboxInv

LEMMA NextLockboxInv ==
  ASSUME Ordered, LockboxInv, [Next]_vars
  PROVE  LockboxInv'
<1>1. UNCHANGED <<messages, received, circulating, peers, locked, emptied>>
        => LockboxInv'
  BY DEF LockboxInv, Owes, On, InFlight, Carried
<1>2. emptied' = TRUE => LockboxInv'
  BY DEF LockboxInv
<1> QED
  BY <1>1, <1>2, TokenSteps, DepartLockbox, ArriveLockbox, PeerStepLockbox

(***************************************************************************)
(* The lockbox can pay whoever comes back to it, until it is emptied, for  *)
(* every amount and in every interleaving of transfers and migration.      *)
(***************************************************************************)
THEOREM LockboxCanPay == Spec => []LockboxCovers
<1>1. Init => LockboxInv
  <2> SUFFICES ASSUME Init PROVE LockboxInv
    OBVIOUS
  <2>1. \A routes : On(routes) = {}
    BY DEF Init, On, InFlight
  <2>2. Carried({}) = 0
    BY FS_EmptySet, CarriedSum, SumEmpty
  <2>3. circulating["away"] = 0 /\ locked = 0
    BY DEF Init, InitialCirculation, Chains
  <2> QED
    BY <2>1, <2>2, <2>3 DEF LockboxInv, Owes
<1>2. Ordered /\ LockboxInv /\ [Next]_vars => LockboxInv'
  BY NextLockboxInv
<1>3. Ordered /\ LockboxInv => LockboxCovers
  <2> SUFFICES ASSUME Ordered, LockboxInv, ~emptied
               PROVE  locked >= InFlightTo(Lockbox)
                        + (IF peers[AwayMinter] = HomeMinter THEN 0
                                                            ELSE circulating["away"])
    BY DEF LockboxCovers
  <2>1. InFlightTo(Lockbox) = Carried(On(Incoming))
    <3>1. {m \in InFlight : m.receiver = Lockbox} = On(Incoming)
      BY RouteEnds DEF On, InFlight, Incoming, Ordered, OnRoutes
    <3> QED
      BY <3>1 DEF InFlightTo
  <2>2. /\ Carried(On(Incoming)) \in Nat /\ Carried(On(Outgoing)) \in Nat
        /\ circulating["away"] \in Nat /\ locked \in Nat
    BY CarriedType DEF Ordered, TypeInv, OftTypeOK, Chains
  <2> QED
    BY <2>1, <2>2 DEF LockboxInv, Owes
<1> QED
  BY <1>1, <1>2, <1>3, AlwaysOrdered, PTL DEF Spec

-----------------------------------------------------------------------------
(***************************************************************************)
(* The refinement.  A transfer is a message, so that it is told apart from *)
(* the others as the message is, and the account of a chain changes as     *)
(* circulating does.                                                       *)
(***************************************************************************)
LEMMA TransfersDiffer ==
  ASSUME NEW m, NEW n
  PROVE  AsTransfer(m) = AsTransfer(n) <=> m = n
<1>1. AsTransfer(m).message = m /\ AsTransfer(n).message = n
  BY DEF AsTransfer
<1> QED
  BY <1>1

LEMMA PerAccountValue ==
  ASSUME NEW f, NEW c \in Chains
  PROVE  PerAccount(f)[c]["LBTC"]["users"] = f[c]
  BY DEF PerAccount

LEMMA PerAccountUpdate ==
  ASSUME DOMAIN circulating = Chains, NEW c \in Chains, NEW v,
         circulating' = [circulating EXCEPT ![c] = v]
  PROVE  PerAccount(circulating)'
           = [PerAccount(circulating) EXCEPT ![c]["LBTC"]["users"] = v]
<1> DEFINE F == PerAccount(circulating)
           G == [F EXCEPT ![c]["LBTC"]["users"] = v]
           H == PerAccount(circulating)'
<1>1. ASSUME NEW d \in Chains PROVE H[d] = G[d]
  <2>1. H[d] = [t \in {"LBTC"} |-> [u \in {"users"} |->
                  IF d = c THEN v ELSE circulating[d]]]
    BY DEF PerAccount
  <2>2. F[d] = [t \in {"LBTC"} |-> [u \in {"users"} |-> circulating[d]]]
    BY DEF PerAccount
  <2>3. G[d] = IF d = c THEN [F[c] EXCEPT !["LBTC"]["users"] = v] ELSE F[d]
    BY DEF PerAccount
  <2>4. [[t \in {"LBTC"} |-> [u \in {"users"} |-> circulating[c]]]
            EXCEPT !["LBTC"]["users"] = v]
          = [t \in {"LBTC"} |-> [u \in {"users"} |-> v]]
    OBVIOUS
  <2> QED
    BY <2>1, <2>2, <2>3, <2>4
<1>2. H = [d \in Chains |-> H[d]] /\ G = [d \in Chains |-> G[d]]
  BY DEF PerAccount
<1> QED
  BY <1>1, <1>2

\* What is on its way and what has arrived, after either step.
LEMMA DepartTransfers ==
  ASSUME Ordered, NEW m, Departs(m)
  PROVE  /\ InFlight' = InFlight \cup {m}
         /\ m \notin InFlight \cup received
  BY DEF Departs, Ordered, TypeInv, OftTypeOK, InFlight

LEMMA ArriveTransfers ==
  ASSUME NEW m, Arrives(m)
  PROVE  m \in InFlight /\ InFlight' = InFlight \ {m}
  BY DEF Arrives, InFlight

(***************************************************************************)
(* Every step of the lane is a departure, an arrival or no step of the     *)
(* transfers: what a message took from one chain the other gets once, in   *)
(* the same amount, with any amounts, limits, configuration and migration. *)
(***************************************************************************)
THEOREM OftTransfersAreExactlyOnce == Spec => ExactlyOnce
<1>1. Init => T!Init
  BY DEF Init, T!Init, InFlight
<1>2. ASSUME Ordered, NEW m, Departs(m) PROVE T!Next
  <2> DEFINE x == AsTransfer(m)
             c == ChainOf(m.sender)
  <2>1. c \in Chains /\ DOMAIN circulating = Chains
    BY <1>2 DEF ChainOf, Chains, Ordered, TypeInv, OftTypeOK
  <2>2. x.src = c /\ x.body.amount = m.amount
    BY DEF AsTransfer
  <2>3. circulating' = [circulating EXCEPT ![c] = circulating[c] - m.amount]
    BY <1>2 DEF Departs
  <2>4. PerAccount(circulating)' =
          [PerAccount(circulating) EXCEPT ![c]["LBTC"]["users"] =
             circulating[c] - m.amount]
    <3>1. PICK v : v = circulating[c] - m.amount
      OBVIOUS
    <3> QED
      BY <2>1, <2>3, <3>1, PerAccountUpdate
  <2>5. PerAccount(circulating)[c]["LBTC"]["users"] = circulating[c]
    BY <2>1, PerAccountValue
  <2>6. InFlight' = InFlight \cup {m} /\ m \notin InFlight \cup received
    BY <1>2, DepartTransfers
  <2>7. UNCHANGED received /\ circulating[c] >= m.amount
    BY <1>2 DEF Departs
  <2>8. x \notin {AsTransfer(n) : n \in InFlight} \cup {AsTransfer(n) : n \in received}
    BY <2>6, TransfersDiffer
  <2>9. {AsTransfer(n) : n \in InFlight}' = {AsTransfer(n) : n \in InFlight} \cup {x}
    BY <2>6 DEF AsTransfer
  <2> HIDE DEF x, c
  <2>10. {AsTransfer(n) : n \in received}' = {AsTransfer(n) : n \in received}
    BY <2>7 DEF AsTransfer
  <2>11. T!Depart(x, "LBTC", "users")
    BY <2>2, <2>4, <2>5, <2>7, <2>8, <2>9, <2>10 DEF T!Depart
  <2> QED
    BY <2>9, <2>11 DEF T!Next
<1>3. ASSUME Ordered, NEW m, Arrives(m) PROVE T!Next
  <2> DEFINE x == AsTransfer(m)
             c == ChainOf(m.receiver)
  <2>1. c \in Chains /\ DOMAIN circulating = Chains
    BY <1>3 DEF ChainOf, Chains, Ordered, TypeInv, OftTypeOK
  <2>2. /\ x.dst = c /\ x.body.amount = m.amount
        /\ x.body.token = "LBTC" /\ x.body.recipient = "users"
    BY DEF AsTransfer
  <2>3. circulating' = [circulating EXCEPT ![c] = circulating[c] + m.amount]
    BY <1>3 DEF Arrives
  <2>4. PerAccount(circulating)' =
          [PerAccount(circulating) EXCEPT ![c]["LBTC"]["users"] =
             circulating[c] + m.amount]
    <3>1. PICK v : v = circulating[c] + m.amount
      OBVIOUS
    <3> QED
      BY <2>1, <2>3, <3>1, PerAccountUpdate
  <2>5. PerAccount(circulating)[c]["LBTC"]["users"] = circulating[c]
    BY <2>1, PerAccountValue
  <2>6. m \in InFlight /\ InFlight' = InFlight \ {m}
    BY <1>3, ArriveTransfers
  <2>7. received' = received \cup {m}
    BY <1>3 DEF Arrives
  <2>8. x \in {AsTransfer(n) : n \in InFlight}
    BY <2>6
  <2>9. {AsTransfer(n) : n \in InFlight}' = {AsTransfer(n) : n \in InFlight} \ {x}
    <3>1. {AsTransfer(n) : n \in InFlight}' = {AsTransfer(n) : n \in InFlight \ {m}}
      BY <2>6 DEF AsTransfer
    <3> QED
      BY <3>1, TransfersDiffer
  <2>10. {AsTransfer(n) : n \in received}' = {AsTransfer(n) : n \in received} \cup {x}
    BY <2>7 DEF AsTransfer
  <2> HIDE DEF x, c
  <2>11. T!Arrive(x)
    BY <2>2, <2>4, <2>5, <2>8, <2>9, <2>10 DEF T!Arrive
  <2> QED
    BY <2>8, <2>11 DEF T!Next
<1>4. UNCHANGED <<messages, received, circulating>> => UNCHANGED T!vars
  BY DEF T!vars, InFlight, PerAccount, AsTransfer
<1>5. Ordered /\ [Next]_vars => [T!Next]_T!vars
  BY <1>2, <1>3, <1>4, TokenSteps
<1> QED
  BY <1>1, <1>5, AlwaysOrdered, PTL DEF Spec, ExactlyOnce, T!Spec

=============================================================================
