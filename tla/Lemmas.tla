------------------------------- MODULE Lemmas -------------------------------
(***************************************************************************)
(* What the proofs of several components need: what the operators of       *)
(* Bucket return, for any bucket, and how the sum  of a function over a    *)
(* finite set (SumFunctionOnSet of the community modules) changes when the *)
(* set or the function does.                                               *)
(***************************************************************************)
EXTENDS Bucket, Functions, FiniteSetTheorems, TLAPS

\* Rounding down, undone, never gives back more than there was.
LEMMA RoundingLoses ==
  ASSUME NEW x \in Nat, NEW w \in Nat \ {0}
  PROVE  x \div w \in Nat /\ (x \div w) * w <= x
  OBVIOUS

LEMMA ProductMonotone ==
  ASSUME NEW x \in Nat, NEW y \in Nat, NEW w \in Nat, x <= y
  PROVE  x * w <= y * w
  OBVIOUS

LEMMA ProductOfNaturals ==
  ASSUME NEW x \in Nat, NEW y \in Nat
  PROVE  x * y \in Nat
  OBVIOUS

LEMMA DecayType ==
  ASSUME NEW b \in Buckets, ~Expired(b)
  PROVE  /\ b.window \in Nat \ {0}
         /\ Decay(b) \in Nat
         /\ Decay(b) * b.window <= b.limit * b.age
<1>1. b.window \in Nat \ {0} /\ b.limit \in Nat /\ b.age \in Nat
  BY DEF Buckets, Expired
<1>2. b.limit * b.age \in Nat
  BY <1>1, ProductOfNaturals
<1> QED
  BY <1>1, <1>2, RoundingLoses DEF Decay

LEMMA InFlightType ==
  ASSUME NEW b \in Buckets
  PROVE  CurrentAmountInFlight(b) \in Nat
<1>1. CASE Expired(b)
  BY <1>1 DEF CurrentAmountInFlight
<1>2. CASE ~Expired(b)
  BY <1>2, DecayType DEF CurrentAmountInFlight, Buckets
<1> QED
  BY <1>1, <1>2

(***************************************************************************)
(* What has drained out of a bucket by now is at most limit * age / window *)
(* of what was put in, without any rounding in favour of the withdrawer.   *)
(***************************************************************************)
LEMMA InFlightDrainsSlowly ==
  ASSUME NEW b \in Buckets, b.amountInFlight <= b.limit
  PROVE  b.amountInFlight * b.window
           <= CurrentAmountInFlight(b) * b.window + b.limit * b.age
<1> DEFINE i == b.amountInFlight
           w == b.window
           l == b.limit
           a == b.age
<1>1. i \in Nat /\ w \in Nat /\ l \in Nat /\ a \in Nat
  BY DEF Buckets
<1>2. i * w \in Nat /\ l * a \in Nat /\ l * w \in Nat
  BY <1>1, ProductOfNaturals
<1>3. CASE Expired(b)
  <2>1. i * w <= l * w
    BY <1>1, ProductMonotone
  <2>2. l * w <= l * a
    <3>1. w <= a
      BY <1>1, <1>3 DEF Expired
    <3>2. w * l <= a * l
      BY <1>1, <3>1, ProductMonotone
    <3> QED
      BY <1>1, <3>2
  <2>3. CurrentAmountInFlight(b) = 0
    BY <1>3 DEF CurrentAmountInFlight
  <2> QED
    BY <1>1, <1>2, <2>1, <2>2, <2>3
<1>4. CASE ~Expired(b)
  <2> DEFINE y == Decay(b)
  <2>1. y \in Nat /\ y * w <= l * a
    BY <1>4, DecayType
  <2>2. CASE i <= y
    <3>1. CurrentAmountInFlight(b) = 0
      BY <2>2 DEF CurrentAmountInFlight
    <3>2. i * w <= y * w
      BY <1>1, <2>1, <2>2, ProductMonotone
    <3>3. y * w \in Nat
      BY <1>1, <2>1, ProductOfNaturals
    <3> QED
      BY <1>1, <1>2, <2>1, <3>1, <3>2, <3>3
  <2>3. CASE ~(i <= y)
    <3>1. CurrentAmountInFlight(b) = i - y
      BY <1>4, <2>3 DEF CurrentAmountInFlight
    <3>2. (i - y) * w = i * w - y * w
      BY <1>1, <2>1
    <3>3. y * w \in Nat
      BY <1>1, <2>1, ProductOfNaturals
    <3> HIDE DEF y
    <3> QED
      BY <1>1, <1>2, <2>1, <3>1, <3>2, <3>3
  <2> QED
    BY <2>2, <2>3
<1> QED
  BY <1>3, <1>4

-----------------------------------------------------------------------------
LEMMA UpdateType ==
  ASSUME NEW b \in Buckets, NEW amount \in Nat
  PROVE  UpdateLimit(b, amount) \in Buckets
<1>1. CurrentAmountInFlight(b) + amount \in Nat
  BY InFlightType
<1> QED
  BY <1>1 DEF UpdateLimit, Buckets

LEMMA SetRateLimitType ==
  ASSUME NEW b \in Buckets, NEW limit \in Nat, NEW window \in Nat
  PROVE  SetRateLimit(b, limit, window) \in Buckets
  BY UpdateType DEF SetRateLimit, Buckets

LEMMA ElapseType ==
  ASSUME NEW b \in Buckets
  PROVE  Elapse(b) \in Buckets
  BY DEF Elapse, Buckets

-----------------------------------------------------------------------------
\* Induction over a finite set.  The property proved is a set of sets.
LEMMA SetInduction ==
  ASSUME NEW S, IsFiniteSet(S), NEW P, {} \in P,
         \A T \in SUBSET S : T # {} /\ (\A x \in T : T \ {x} \in P) => T \in P
  PROVE  S \in P
<1> DEFINE Bad == {T \in SUBSET S : T \notin P}
<1>1. SUFFICES ASSUME Bad # {} PROVE FALSE
  OBVIOUS
<1>2. IsWellFoundedOn(StrictSubsetOrdering(S), FiniteSubsetsOf(S))
  BY FS_StrictSubsetOrderingWellFounded
<1>3. FiniteSubsetsOf(S) = SUBSET S
  BY FS_FiniteSubsetsOfFinite
<1>4. Bad \subseteq FiniteSubsetsOf(S)
  BY <1>3
<1>5. PICK T \in Bad : \A U \in Bad : <<U, T>> \notin StrictSubsetOrdering(S)
  <2> HIDE DEF Bad
  <2> QED
    BY <1>1, <1>2, <1>4, WFMin
<1>6. \A x \in T : <<T \ {x}, T>> \in StrictSubsetOrdering(S)
  BY DEF StrictSubsetOrdering
<1> QED
  BY <1>5, <1>6

-----------------------------------------------------------------------------
\* SumFunctionOnSet takes one element after the other out of the set: the
\* table of the sums of all subsets, from which it reads the last entry.
Pick(s) == CHOOSE x \in s : TRUE

IsTable(g, f, S) ==
  g = [s \in SUBSET S |-> IF s = {} THEN 0 ELSE f[Pick(s)] + g[s \ {Pick(s)}]]

Table(f, S) == CHOOSE g : IsTable(g, f, S)

LEMMA SumFromTable ==
  ASSUME NEW f, NEW S
  PROVE  SumFunctionOnSet(f, S) = Table(f, S)[S]
  BY DEF SumFunctionOnSet, FoldFunctionOnSet, MapThenFoldSet, Table, IsTable, Pick

LEMMA PickIn ==
  ASSUME NEW S, S # {}
  PROVE  Pick(S) \in S
  BY DEF Pick

LEMMA TableEntry ==
  ASSUME NEW f, NEW S, NEW g, IsTable(g, f, S), NEW s \in SUBSET S
  PROVE  g[s] = IF s = {} THEN 0 ELSE f[Pick(s)] + g[s \ {Pick(s)}]
<1> DEFINE e(t) == IF t = {} THEN 0 ELSE f[Pick(t)] + g[t \ {Pick(t)}]
<1>1. g = [t \in SUBSET S |-> e(t)]
  BY DEF IsTable
<1> HIDE DEF e
<1>2. g[s] = e(s)
  BY <1>1
<1> QED
  BY <1>2 DEF e

\* The table of a set and that of a subset agree, and every finite set has one.
LEMMA TablesAgree ==
  ASSUME NEW f, NEW S, IsFiniteSet(S), NEW T \in SUBSET S,
         NEW g, IsTable(g, f, S), NEW h, IsTable(h, f, T)
  PROVE  g[T] = h[T]
<1> DEFINE P == {s \in SUBSET T : g[s] = h[s]}
<1>1. IsFiniteSet(T)
  BY FS_Subset
<1>2. {} \in P
  BY TableEntry
<1>3. ASSUME NEW s \in SUBSET T, s # {}, \A x \in s : s \ {x} \in P
      PROVE  s \in P
  <2>1. Pick(s) \in s
    BY <1>3, PickIn
  <2>2. g[s \ {Pick(s)}] = h[s \ {Pick(s)}]
    BY <1>3, <2>1
  <2>3. g[s] = f[Pick(s)] + g[s \ {Pick(s)}]
    BY <1>3, TableEntry
  <2>4. h[s] = f[Pick(s)] + h[s \ {Pick(s)}]
    BY <1>3, TableEntry
  <2> QED
    BY <2>2, <2>3, <2>4
<1> HIDE DEF P
<1>4. T \in P
  BY <1>1, <1>2, <1>3, SetInduction
<1> QED
  BY <1>4 DEF P

LEMMA TableExists ==
  ASSUME NEW f, NEW S, IsFiniteSet(S)
  PROVE  IsTable(Table(f, S), f, S)
<1> DEFINE P == {T \in SUBSET S : \A U \in SUBSET T : IsTable(Table(f, U), f, U)}
<1>1. {} \in P
  <2> DEFINE h == [s \in SUBSET {} |-> 0]
  <2>1. \A s \in SUBSET {} : s = {}
    OBVIOUS
  <2>2. IsTable(h, f, {})
    BY <2>1 DEF IsTable
  <2> HIDE DEF h
  <2>3. IsTable(Table(f, {}), f, {})
    BY <2>2 DEF Table
  <2> QED
    BY <2>1, <2>3
<1>2. ASSUME NEW T \in SUBSET S, T # {}, \A x \in T : T \ {x} \in P
      PROVE  T \in P
  <2>1. \A U \in SUBSET T : U # T => IsTable(Table(f, U), f, U)
    <3> SUFFICES ASSUME NEW U \in SUBSET T, U # T PROVE IsTable(Table(f, U), f, U)
      OBVIOUS
    <3>1. PICK x \in T : x \notin U
      OBVIOUS
    <3> QED
      BY <1>2, <3>1
  <2> DEFINE e(s) == IF s = {} THEN 0
                     ELSE f[Pick(s)] + Table(f, s \ {Pick(s)})[s \ {Pick(s)}]
             h == [s \in SUBSET T |-> e(s)]
  <2>2. ASSUME NEW U \in SUBSET T, U # T PROVE h[U] = Table(f, U)[U]
    <3>1. IsTable(Table(f, U), f, U) /\ IsFiniteSet(U)
      BY <2>1, <2>2, FS_Subset
    <3>2. CASE U = {}
      BY <3>1, <3>2, TableEntry
    <3>3. CASE U # {}
      <4> DEFINE V == U \ {Pick(U)}
      <4>1. V \in SUBSET U /\ V # T /\ V \in SUBSET T
        BY <2>2, <3>3, PickIn
      <4>2. IsTable(Table(f, V), f, V)
        BY <2>1, <4>1
      <4>3. Table(f, U)[V] = Table(f, V)[V]
        BY <3>1, <4>1, <4>2, TablesAgree
      <4>4. Table(f, U)[U] = f[Pick(U)] + Table(f, U)[V]
        BY <3>1, <3>3, TableEntry
      <4> QED
        BY <3>3, <4>3, <4>4
    <3> QED
      BY <3>2, <3>3
  <2>3. IsTable(h, f, T)
    <3>1. ASSUME NEW s \in SUBSET T
          PROVE  e(s) = IF s = {} THEN 0 ELSE f[Pick(s)] + h[s \ {Pick(s)}]
      <4>1. CASE s = {}
        BY <4>1
      <4>2. CASE s # {}
        <5>1. s \ {Pick(s)} \in SUBSET T /\ s \ {Pick(s)} # T
          BY <4>2, PickIn
        <5>2. h[s \ {Pick(s)}] = Table(f, s \ {Pick(s)})[s \ {Pick(s)}]
          BY <5>1, <2>2
        <5> HIDE DEF h
        <5> QED
          BY <4>2, <5>2
      <4> QED
        BY <4>1, <4>2
    <3>2. h = [s \in SUBSET T |-> IF s = {} THEN 0 ELSE f[Pick(s)] + h[s \ {Pick(s)}]]
      BY <3>1
    <3> HIDE DEF h
    <3> QED
      BY <3>2 DEF IsTable
  <2> HIDE DEF h
  <2>4. IsTable(Table(f, T), f, T)
    BY <2>3 DEF Table
  <2> QED
    BY <2>1, <2>4
<1> HIDE DEF P
<1>3. S \in P
  BY <1>1, <1>2, SetInduction
<1> QED
  BY <1>3 DEF P
-----------------------------------------------------------------------------
\* The two equations that define a sum.
LEMMA SumEmpty ==
  ASSUME NEW f
  PROVE  SumFunctionOnSet(f, {}) = 0
<1>1. IsFiniteSet({})
  BY FS_EmptySet
<1> QED
  BY <1>1, TableExists, TableEntry, SumFromTable

LEMMA SumUnfold ==
  ASSUME NEW f, NEW S, IsFiniteSet(S), S # {}
  PROVE  SumFunctionOnSet(f, S) = f[Pick(S)] + SumFunctionOnSet(f, S \ {Pick(S)})
<1> DEFINE U == S \ {Pick(S)}
<1>1. IsFiniteSet(U) /\ U \in SUBSET S
  BY FS_RemoveElement
<1>2. IsTable(Table(f, S), f, S) /\ IsTable(Table(f, U), f, U)
  BY <1>1, TableExists
<1>3. Table(f, S)[U] = Table(f, U)[U]
  BY <1>1, <1>2, TablesAgree
<1>4. Table(f, S)[S] = f[Pick(S)] + Table(f, S)[U]
  BY <1>2, TableEntry
<1> QED
  BY <1>3, <1>4, SumFromTable

\* Sums of integers are integers, of naturals naturals.
LEMMA SumInt ==
  ASSUME NEW f, NEW S, IsFiniteSet(S), \A x \in S : f[x] \in Int
  PROVE  SumFunctionOnSet(f, S) \in Int
<1> DEFINE P == {T \in SUBSET S : SumFunctionOnSet(f, T) \in Int}
<1>1. {} \in P
  BY SumEmpty
<1>2. ASSUME NEW T \in SUBSET S, T # {}, \A x \in T : T \ {x} \in P
      PROVE  T \in P
  <2>1. Pick(T) \in T /\ IsFiniteSet(T)
    BY <1>2, PickIn, FS_Subset
  <2>2. SumFunctionOnSet(f, T) = f[Pick(T)] + SumFunctionOnSet(f, T \ {Pick(T)})
    BY <1>2, <2>1, SumUnfold
  <2> QED
    BY <1>2, <2>1, <2>2
<1> HIDE DEF P
<1>3. S \in P
  BY <1>1, <1>2, SetInduction
<1> QED
  BY <1>3 DEF P

LEMMA SumNat ==
  ASSUME NEW f, NEW S, IsFiniteSet(S), \A x \in S : f[x] \in Nat
  PROVE  SumFunctionOnSet(f, S) \in Nat
<1> DEFINE P == {T \in SUBSET S : SumFunctionOnSet(f, T) \in Nat}
<1>1. {} \in P
  BY SumEmpty
<1>2. ASSUME NEW T \in SUBSET S, T # {}, \A x \in T : T \ {x} \in P
      PROVE  T \in P
  <2>1. Pick(T) \in T /\ IsFiniteSet(T)
    BY <1>2, PickIn, FS_Subset
  <2>2. SumFunctionOnSet(f, T) = f[Pick(T)] + SumFunctionOnSet(f, T \ {Pick(T)})
    BY <1>2, <2>1, SumUnfold
  <2> QED
    BY <1>2, <2>1, <2>2
<1> HIDE DEF P
<1>3. S \in P
  BY <1>1, <1>2, SetInduction
<1> QED
  BY <1>3 DEF P

\* One element more or less, whichever it is.
LEMMA SumRemove ==
  ASSUME NEW f, NEW S, IsFiniteSet(S), \A x \in S : f[x] \in Int, NEW x \in S
  PROVE  SumFunctionOnSet(f, S) = SumFunctionOnSet(f, S \ {x}) + f[x]
<1> DEFINE Sum(T) == SumFunctionOnSet(f, T)
           P == {T \in SUBSET S : \A y \in T : Sum(T) = Sum(T \ {y}) + f[y]}
<1>1. {} \in P
  OBVIOUS
<1>2. ASSUME NEW T \in SUBSET S, T # {}, \A y \in T : T \ {y} \in P
      PROVE  T \in P
  <2> SUFFICES ASSUME NEW y \in T PROVE Sum(T) = Sum(T \ {y}) + f[y]
    OBVIOUS
  <2> DEFINE p == Pick(T)
  <2>1. p \in T /\ IsFiniteSet(T) /\ f[p] \in Int /\ f[y] \in Int
    BY PickIn, FS_Subset
  <2>2. Sum(T) = f[p] + Sum(T \ {p})
    BY <2>1, <1>2, SumUnfold
  <2>3. \A U \in SUBSET T : Sum(U) \in Int
    BY <2>1, SumInt, FS_Subset
  <2> HIDE DEF p
  <2>4. CASE p = y
    BY <2>1, <2>2, <2>3, <2>4
  <2>5. CASE p # y
    <3>1. Sum(T \ {p}) = Sum((T \ {p}) \ {y}) + f[y]
      BY <1>2, <2>1, <2>5
    <3>2. Sum(T \ {y}) = Sum((T \ {y}) \ {p}) + f[p]
      BY <1>2, <2>1, <2>5
    <3>3. (T \ {y}) \ {p} = (T \ {p}) \ {y}
      OBVIOUS
    <3>4. Sum((T \ {p}) \ {y}) \in Int
      BY <2>3
    <3>5. Sum(T \ {y}) = Sum((T \ {p}) \ {y}) + f[p]
      BY <3>2, <3>3
    <3>6. Sum(T) = f[p] + (Sum((T \ {p}) \ {y}) + f[y])
      BY <2>2, <3>1
    <3> HIDE DEF Sum
    <3> QED
      BY <2>1, <3>4, <3>5, <3>6
  <2> QED
    BY <2>4, <2>5
<1> HIDE DEF P
<1>3. S \in P
  BY <1>1, <1>2, SetInduction
<1> QED
  BY <1>3 DEF P

LEMMA SumAdd ==
  ASSUME NEW f, NEW S, IsFiniteSet(S), \A x \in S : f[x] \in Int,
         NEW y, y \notin S, f[y] \in Int
  PROVE  SumFunctionOnSet(f, S \cup {y}) = SumFunctionOnSet(f, S) + f[y]
<1>1. IsFiniteSet(S \cup {y})
  BY FS_AddElement
<1>2. (S \cup {y}) \ {y} = S
  OBVIOUS
<1>3. \A x \in S \cup {y} : f[x] \in Int
  OBVIOUS
<1> QED
  BY <1>1, <1>2, <1>3, SumRemove

\* Sums of functions that agree, that differ at one place, that add up.
LEMMA SumSame ==
  ASSUME NEW f, NEW g, NEW S, IsFiniteSet(S), \A x \in S : f[x] = g[x]
  PROVE  SumFunctionOnSet(f, S) = SumFunctionOnSet(g, S)
<1> DEFINE P == {T \in SUBSET S : SumFunctionOnSet(f, T) = SumFunctionOnSet(g, T)}
<1>1. {} \in P
  BY SumEmpty
<1>2. ASSUME NEW T \in SUBSET S, T # {}, \A x \in T : T \ {x} \in P
      PROVE  T \in P
  <2>1. Pick(T) \in T /\ IsFiniteSet(T)
    BY <1>2, PickIn, FS_Subset
  <2>2. /\ SumFunctionOnSet(f, T) = f[Pick(T)] + SumFunctionOnSet(f, T \ {Pick(T)})
        /\ SumFunctionOnSet(g, T) = g[Pick(T)] + SumFunctionOnSet(g, T \ {Pick(T)})
    BY <1>2, <2>1, SumUnfold
  <2> QED
    BY <1>2, <2>1, <2>2
<1> HIDE DEF P
<1>3. S \in P
  BY <1>1, <1>2, SetInduction
<1> QED
  BY <1>3 DEF P

LEMMA SumChange ==
  ASSUME NEW f, NEW g, NEW S, IsFiniteSet(S),
         \A x \in S : f[x] \in Int /\ g[x] \in Int,
         NEW y \in S, \A x \in S \ {y} : f[x] = g[x]
  PROVE  SumFunctionOnSet(g, S) = SumFunctionOnSet(f, S) + g[y] - f[y]
<1>1. /\ SumFunctionOnSet(f, S) = SumFunctionOnSet(f, S \ {y}) + f[y]
      /\ SumFunctionOnSet(g, S) = SumFunctionOnSet(g, S \ {y}) + g[y]
  BY SumRemove
<1>2. IsFiniteSet(S \ {y})
  BY FS_RemoveElement
<1>3. SumFunctionOnSet(f, S \ {y}) = SumFunctionOnSet(g, S \ {y})
  BY <1>2, SumSame
<1>4. SumFunctionOnSet(f, S \ {y}) \in Int
  BY <1>2, SumInt
<1> QED
  BY <1>1, <1>3, <1>4

LEMMA SumPlus ==
  ASSUME NEW f, NEW g, NEW h, NEW S, IsFiniteSet(S),
         \A x \in S : f[x] \in Int /\ g[x] \in Int /\ h[x] = f[x] + g[x]
  PROVE  SumFunctionOnSet(h, S) = SumFunctionOnSet(f, S) + SumFunctionOnSet(g, S)
<1> DEFINE P == {T \in SUBSET S :
                  SumFunctionOnSet(h, T) = SumFunctionOnSet(f, T) + SumFunctionOnSet(g, T)}
<1>1. {} \in P
  BY SumEmpty
<1>2. ASSUME NEW T \in SUBSET S, T # {}, \A x \in T : T \ {x} \in P
      PROVE  T \in P
  <2> DEFINE p == Pick(T)
  <2>1. p \in T /\ IsFiniteSet(T) /\ IsFiniteSet(T \ {p})
    BY <1>2, PickIn, FS_Subset
  <2>2. /\ SumFunctionOnSet(f, T) = f[p] + SumFunctionOnSet(f, T \ {p})
        /\ SumFunctionOnSet(g, T) = g[p] + SumFunctionOnSet(g, T \ {p})
        /\ SumFunctionOnSet(h, T) = h[p] + SumFunctionOnSet(h, T \ {p})
    BY <1>2, <2>1, SumUnfold
  <2> HIDE DEF p
  <2>3. /\ SumFunctionOnSet(f, T \ {p}) \in Int
        /\ SumFunctionOnSet(g, T \ {p}) \in Int
    BY <2>1, SumInt
  <2> QED
    BY <1>2, <2>1, <2>2, <2>3
<1> HIDE DEF P
<1>3. S \in P
  BY <1>1, <1>2, SetInduction
<1> QED
  BY <1>3 DEF P

\* A sum of equal numbers is a product.
LEMMA SumConstant ==
  ASSUME NEW f, NEW S, IsFiniteSet(S), NEW c \in Nat, \A x \in S : f[x] = c
  PROVE  SumFunctionOnSet(f, S) = c * Cardinality(S)
<1> DEFINE P == {T \in SUBSET S : SumFunctionOnSet(f, T) = c * Cardinality(T)}
<1>1. {} \in P
  BY SumEmpty, FS_EmptySet
<1>2. ASSUME NEW T \in SUBSET S, T # {}, \A x \in T : T \ {x} \in P
      PROVE  T \in P
  <2> DEFINE p == Pick(T)
  <2>1. p \in T /\ IsFiniteSet(T)
    BY <1>2, PickIn, FS_Subset
  <2>2. SumFunctionOnSet(f, T) = f[p] + SumFunctionOnSet(f, T \ {p})
    BY <1>2, <2>1, SumUnfold
  <2> HIDE DEF p
  <2>3. /\ Cardinality(T \ {p}) \in Nat
        /\ Cardinality(T) = Cardinality(T \ {p}) + 1
    <3>1. /\ IsFiniteSet(T \ {p})
          /\ Cardinality(T \ {p}) = Cardinality(T) - 1
      BY <2>1, FS_RemoveElement
    <3>2. Cardinality(T) \in Nat /\ Cardinality(T \ {p}) \in Nat
      BY <2>1, <3>1, FS_CardinalityType
    <3> QED
      BY <3>1, <3>2
  <2>4. SumFunctionOnSet(f, T \ {p}) = c * Cardinality(T \ {p})
    BY <1>2, <2>1
  <2>5. c * (Cardinality(T \ {p}) + 1) = c + c * Cardinality(T \ {p})
    BY <2>3
  <2> QED
    BY <2>1, <2>2, <2>3, <2>4, <2>5
<1> HIDE DEF P
<1>3. S \in P
  BY <1>1, <1>2, SetInduction
<1> QED
  BY <1>3 DEF P

\* More naturals have a larger sum.
LEMMA SumMonotone ==
  ASSUME NEW f, NEW T, IsFiniteSet(T), \A x \in T : f[x] \in Nat,
         NEW S \in SUBSET T
  PROVE  SumFunctionOnSet(f, S) <= SumFunctionOnSet(f, T)
<1> DEFINE P == {U \in SUBSET T : SumFunctionOnSet(f, S \cap U) <= SumFunctionOnSet(f, U)}
<1>1. {} \in P
  BY SumEmpty
<1>2. ASSUME NEW U \in SUBSET T, U # {}, \A x \in U : U \ {x} \in P
      PROVE  U \in P
  <2> DEFINE p == Pick(U)
  <2>1. p \in U /\ IsFiniteSet(U) /\ f[p] \in Nat
    BY <1>2, PickIn, FS_Subset
  <2>2. SumFunctionOnSet(f, U) = f[p] + SumFunctionOnSet(f, U \ {p})
    BY <1>2, <2>1, SumUnfold
  <2> HIDE DEF p
  <2>3. SumFunctionOnSet(f, S \cap (U \ {p})) <= SumFunctionOnSet(f, U \ {p})
    BY <1>2, <2>1
  <2>4. /\ SumFunctionOnSet(f, U \ {p}) \in Nat
        /\ SumFunctionOnSet(f, S \cap (U \ {p})) \in Nat
    <3>1. IsFiniteSet(U \ {p}) /\ IsFiniteSet(S \cap (U \ {p}))
      BY <2>1, FS_Subset
    <3> QED
      BY <3>1, SumNat
  <2>5. CASE p \in S
    <3>1. IsFiniteSet(S \cap U) /\ p \in S \cap U
      BY <2>1, <2>5, FS_Subset
    <3>2. (S \cap U) \ {p} = S \cap (U \ {p})
      OBVIOUS
    <3>3. SumFunctionOnSet(f, S \cap U) = SumFunctionOnSet(f, S \cap (U \ {p})) + f[p]
      BY <3>1, <3>2, SumRemove
    <3> QED
      BY <2>1, <2>2, <2>3, <2>4, <3>3
  <2>6. CASE p \notin S
    <3>1. S \cap U = S \cap (U \ {p})
      BY <2>6
    <3>2. SumFunctionOnSet(f, S \cap U) = SumFunctionOnSet(f, S \cap (U \ {p}))
      BY <3>1
    <3>3. SumFunctionOnSet(f, S \cap (U \ {p})) <= f[p] + SumFunctionOnSet(f, U \ {p})
      BY <2>1, <2>3, <2>4
    <3>4. SumFunctionOnSet(f, S \cap U) <= SumFunctionOnSet(f, U)
      BY <2>2, <3>2, <3>3
    <3> QED
      BY <3>4
  <2> QED
    BY <2>5, <2>6
<1> HIDE DEF P
<1>3. T \in P
  BY <1>1, <1>2, SetInduction
<1>4. S \cap T = S
  OBVIOUS
<1> QED
  BY <1>3, <1>4 DEF P

\* Sums of functions that differ at two places, which may be the same.
LEMMA SumTwoChanges ==
  ASSUME NEW f, NEW g, NEW S, IsFiniteSet(S), \A x \in S : f[x] \in Int,
         NEW y \in S, NEW z \in S, NEW p \in Int, NEW q \in Int,
         \A x \in S : g[x] = f[x] + (IF x = y THEN p ELSE 0) + (IF x = z THEN q ELSE 0)
  PROVE  SumFunctionOnSet(g, S) = SumFunctionOnSet(f, S) + p + q
<1> DEFINE h == [x \in S |-> f[x] + (IF x = y THEN p ELSE 0)]
<1>1. \A x \in S : h[x] = IF x = y THEN f[x] + p ELSE f[x]
  OBVIOUS
<1> HIDE DEF h
<1>2. \A x \in S : h[x] \in Int
  BY <1>1
<1>3. \A x \in S : g[x] = IF x = z THEN h[x] + q ELSE h[x]
  BY <1>1
<1>4. \A x \in S : g[x] \in Int
  BY <1>2, <1>3
<1>5. /\ SumFunctionOnSet(h, S) = SumFunctionOnSet(f, S) + h[y] - f[y]
      /\ SumFunctionOnSet(f, S) \in Int
  BY <1>1, <1>2, SumChange, SumInt
<1>6. SumFunctionOnSet(g, S) = SumFunctionOnSet(h, S) + g[z] - h[z]
  BY <1>2, <1>3, <1>4, SumChange
<1> QED
  BY <1>1, <1>2, <1>3, <1>5, <1>6

\* Sums of functions one of which is nowhere above the other.
LEMMA SumOrder ==
  ASSUME NEW f, NEW g, NEW S, IsFiniteSet(S),
         \A x \in S : f[x] \in Int /\ g[x] \in Int /\ f[x] <= g[x]
  PROVE  SumFunctionOnSet(f, S) <= SumFunctionOnSet(g, S)
<1> DEFINE h == [x \in S |-> g[x] - f[x]]
<1>1. \A x \in S : h[x] \in Nat /\ g[x] = f[x] + h[x]
  OBVIOUS
<1> HIDE DEF h
<1>2. SumFunctionOnSet(h, S) \in Nat /\ SumFunctionOnSet(f, S) \in Int
  BY <1>1, SumNat, SumInt
<1>3. SumFunctionOnSet(g, S) = SumFunctionOnSet(f, S) + SumFunctionOnSet(h, S)
  BY <1>1, SumPlus
<1> QED
  BY <1>2, <1>3

\* A function that is zero outside a part adds up to its sum over that part.
LEMMA SumOverPart ==
  ASSUME NEW f, NEW S, IsFiniteSet(S), \A x \in S : f[x] \in Int,
         NEW T \in SUBSET S, \A x \in S \ T : f[x] = 0
  PROVE  SumFunctionOnSet(f, S) = SumFunctionOnSet(f, T)
<1> DEFINE Sum(U) == SumFunctionOnSet(f, U)
           P == {U \in SUBSET S : Sum(U) = Sum(U \cap T)}
<1>1. {} \in P
  OBVIOUS
<1>2. ASSUME NEW U \in SUBSET S, U # {}, \A x \in U : U \ {x} \in P
      PROVE  U \in P
  <2> PICK x \in U : TRUE
    BY <1>2
  <2>1. /\ IsFiniteSet(U) /\ IsFiniteSet(U \cap T)
        /\ IsFiniteSet(U \ {x})
    BY FS_Subset
  <2>2. \A y \in U : f[y] \in Int
    OBVIOUS
  <2>3. Sum(U) = Sum(U \ {x}) + f[x]
    BY <2>1, <2>2, SumRemove
  <2>4. Sum(U \ {x}) = Sum((U \ {x}) \cap T)
    BY <1>2
  <2>5. Sum(U \ {x}) \in Int
    BY <2>1, <2>2, SumInt
  <2>6. CASE x \in T
    <3>1. (U \ {x}) \cap T = (U \cap T) \ {x} /\ x \in U \cap T
      BY <2>6
    <3>2. Sum(U \cap T) = Sum((U \cap T) \ {x}) + f[x]
      BY <2>1, <2>2, <3>1, SumRemove
    <3>3. Sum((U \ {x}) \cap T) = Sum((U \cap T) \ {x})
      BY <3>1
    <3> QED
      BY <2>3, <2>4, <3>2, <3>3
  <2>7. CASE x \notin T
    <3>1. (U \ {x}) \cap T = U \cap T /\ f[x] = 0
      BY <2>7
    <3>2. Sum((U \ {x}) \cap T) = Sum(U \cap T)
      BY <3>1
    <3>3. Sum(U) = Sum(U \cap T)
      BY <2>3, <2>4, <2>5, <3>1, <3>2
    <3> QED
      BY <3>3
  <2> QED
    BY <2>6, <2>7
<1> HIDE DEF P
<1>3. S \in P
  BY <1>1, <1>2, SetInduction
<1>4. S \cap T = T
  OBVIOUS
<1> QED
  BY <1>3, <1>4 DEF P

\* The sum over two sets that have nothing in common.
LEMMA SumDisjoint ==
  ASSUME NEW f, NEW S, NEW T, IsFiniteSet(S), IsFiniteSet(T), S \cap T = {},
         \A x \in S \cup T : f[x] \in Int
  PROVE  SumFunctionOnSet(f, S \cup T) = SumFunctionOnSet(f, S) + SumFunctionOnSet(f, T)
<1> DEFINE g == [x \in S \cup T |-> IF x \in S THEN f[x] ELSE 0]
           h == [x \in S \cup T |-> IF x \in T THEN f[x] ELSE 0]
<1>1. \A x \in S \cup T :
        /\ g[x] \in Int /\ h[x] \in Int /\ f[x] = g[x] + h[x]
        /\ x \in S => g[x] = f[x]
        /\ x \notin S => g[x] = 0
        /\ x \in T => h[x] = f[x]
        /\ x \notin T => h[x] = 0
  OBVIOUS
<1> HIDE DEF g, h
<1>2. IsFiniteSet(S \cup T) /\ S \in SUBSET (S \cup T) /\ T \in SUBSET (S \cup T)
  BY FS_Union
<1>3. SumFunctionOnSet(f, S \cup T)
        = SumFunctionOnSet(g, S \cup T) + SumFunctionOnSet(h, S \cup T)
  BY <1>1, <1>2, SumPlus
<1>4. /\ SumFunctionOnSet(g, S \cup T) = SumFunctionOnSet(g, S)
      /\ SumFunctionOnSet(h, S \cup T) = SumFunctionOnSet(h, T)
  BY <1>1, <1>2, SumOverPart
<1>5. /\ SumFunctionOnSet(g, S) = SumFunctionOnSet(f, S)
      /\ SumFunctionOnSet(h, T) = SumFunctionOnSet(f, T)
  BY <1>1, SumSame
<1> QED
  BY <1>3, <1>4, <1>5

\* Products of three sets are not nested products of two.
LEMMA FiniteTriples ==
  ASSUME NEW S, NEW T, NEW U, IsFiniteSet(S), IsFiniteSet(T), IsFiniteSet(U)
  PROVE  IsFiniteSet(S \X T \X U)
<1> DEFINE f == [k \in S \X T \X U |-> <<k[1], <<k[2], k[3]>>>>]
<1>1. IsFiniteSet(S \X (T \X U))
  BY FS_Product
<1>2. f \in [S \X T \X U -> S \X (T \X U)]
  OBVIOUS
<1>3. \A j, k \in S \X T \X U : f[j] = f[k] => j = k
  OBVIOUS
<1> HIDE DEF f
<1>4. f \in Injection(S \X T \X U, S \X (T \X U))
  BY <1>2, <1>3 DEF Injection, IsInjective
<1> QED
  BY <1>1, <1>4, FS_Injection

=============================================================================
