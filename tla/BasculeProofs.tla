---------------------------- MODULE BasculeProofs ---------------------------
(***************************************************************************)
(* Proofs about Bascule, for any deposits, amounts, thresholds, accounts,  *)
(* signers, batch sizes and number of grants.                              *)
(***************************************************************************)
EXTENDS Bascule, FiniteSetTheorems, TLAPS

LEMMA InitTypeOK == Init => TypeOK
<1> SUFFICES ASSUME Init PROVE TypeOK
  OBVIOUS
<1>1. trustedSigner \in Signers \cup {Nobody}
  <2>1. CASE Version = 3
    BY <2>1 DEF Init
  <2>2. CASE Version # 3
    BY <2>2 DEF Init
  <2> QED
    BY <2>1, <2>2
<1>2. signerless \in BOOLEAN
  BY DEF Init, AsksForProofs
<1>3. /\ validateThreshold = 0 /\ highest = 0 /\ grants = 0 /\ raises = 0
      /\ maxDeposits \in BatchSizes
      /\ depositHistory \in [Deposits -> DepositStates]
      /\ withdrawals \in [Deposits -> Nat]
      /\ guardians = {} /\ signed = {}
  BY DEF Init, DepositStates
<1>4. paused \in BOOLEAN
  BY DEF Init
<1> QED
  BY <1>1, <1>2, <1>3, <1>4 DEF TypeOK

LEMMA NextTypeOK == TypeOK /\ [Next]_vars => TypeOK'
<1> SUFFICES ASSUME TypeOK, [Next]_vars PROVE TypeOK'
  OBVIOUS
<1> USE BasculeAssumptions DEF TypeOK, DepositStates
<1>1. ASSUME NEW a \in Accounts, NEW t \in Thresholds, LowerThreshold(a, t)
      PROVE  TypeOK'
  BY <1>1 DEF LowerThreshold, Lowers, observerVars
<1>2. ASSUME NEW a \in Accounts, NEW t \in Thresholds, RaiseThreshold(a, t)
      PROVE  TypeOK'
  <2>1. t \in Nat /\ validateThreshold' = t /\ t > validateThreshold
    BY <1>2 DEF RaiseThreshold
  <2>2. highest' \in Nat /\ t <= highest' /\ raises' \in Nat
    BY <1>2, <2>1 DEF RaiseThreshold
  <2> QED
    BY <1>2, <2>1, <2>2 DEF RaiseThreshold, RenounceRole
<1>3. ASSUME NEW a \in Accounts, GrantGuardian(a) PROVE TypeOK'
  BY <1>3 DEF GrantGuardian
<1>4. ASSUME NEW a \in Accounts, LoseGuardian(a) PROVE TypeOK'
  BY <1>4 DEF LoseGuardian, observerVars
<1>5. ASSUME NEW n \in BatchSizes, SetMaxDeposits(n) PROVE TypeOK'
  BY <1>5 DEF SetMaxDeposits, observerVars
<1>6. ASSUME NEW s \in Signers \cup {Nobody}, SetTrustedSigner(s) PROVE TypeOK'
  BY <1>6 DEF SetTrustedSigner
<1>7. ASSUME NEW b \in BOOLEAN, SetPaused(b) PROVE TypeOK'
  BY <1>7 DEF SetPaused, observerVars
<1>8. ASSUME NEW s \in Signers, NEW d \in Deposits, Sign(s, d) PROVE TypeOK'
  BY <1>8 DEF Sign, configVars, observerVars
<1>9. ASSUME NEW batch, ReportDeposits(batch) PROVE TypeOK'
  BY <1>9 DEF ReportDeposits, configVars, observerVars
<1>10. ASSUME NEW d \in Deposits, ValidateWithdrawal(d) PROVE TypeOK'
  BY <1>10 DEF ValidateWithdrawal, Withdrawable, configVars
<1>11. UNCHANGED vars => TypeOK'
  BY DEF vars, configVars, observerVars
<1> QED
  BY <1>1, <1>2, <1>3, <1>4, <1>5, <1>6, <1>7, <1>8, <1>9, <1>10, <1>11 DEF Next

(***************************************************************************)
(* The threshold is never above what a guardian once raised it to.         *)
(***************************************************************************)
THEOREM TypeCorrect == Spec => []TypeOK
<1>1. Init => TypeOK
  BY InitTypeOK
<1>2. TypeOK /\ [Next]_vars => TypeOK'
  BY NextTypeOK
<1> QED
  BY <1>1, <1>2, PTL DEF Spec

-----------------------------------------------------------------------------
\* Three kinds of step: a report, a withdrawal, and all those that leave
\* history and withdrawals alone.
LEMMA HistorySteps ==
  ASSUME [Next]_vars
  PROVE  \/ \E batch \in Batches : ReportDeposits(batch)
         \/ \E d \in Deposits : ValidateWithdrawal(d)
         \/ UNCHANGED <<depositHistory, withdrawals>>
  BY DEF Next, vars, observerVars, configVars, LowerThreshold, RaiseThreshold,
         GrantGuardian, LoseGuardian, SetMaxDeposits, SetTrustedSigner,
         SetPaused, Sign

\* What was withdrawn is marked so, and was withdrawn once.
Marked ==
  \A d \in Deposits :
    /\ withdrawals[d] <= 1
    /\ withdrawals[d] = 1 => depositHistory[d] = "WITHDRAWN"

LEMMA NextMarked ==
  ASSUME Version >= 2, TypeOK, Marked, [Next]_vars
  PROVE  Marked'
<1>1. ASSUME NEW batch, ReportDeposits(batch) PROVE Marked'
  <2>1. withdrawals' = withdrawals
    BY <1>1 DEF ReportDeposits, observerVars
  <2>2. \A d \in Deposits :
          depositHistory[d] = "WITHDRAWN" => depositHistory'[d] = "WITHDRAWN"
    BY <1>1 DEF ReportDeposits, NewEntries
  <2> QED
    BY <2>1, <2>2 DEF Marked
<1>2. ASSUME NEW d \in Deposits, ValidateWithdrawal(d) PROVE Marked'
  <2>1. depositHistory[d] # "WITHDRAWN"
    BY <1>2 DEF ValidateWithdrawal, Withdrawable
  <2>2. \A x \in Deposits :
          /\ withdrawals'[x] = IF x = d THEN withdrawals[x] + 1 ELSE withdrawals[x]
          /\ depositHistory'[x] = IF x = d THEN "WITHDRAWN" ELSE depositHistory[x]
    BY <1>2 DEF ValidateWithdrawal, Withdrawable, Recorded, TypeOK
  <2>3. withdrawals[d] = 0
    BY <2>1 DEF Marked, TypeOK
  <2> QED
    BY <2>2, <2>3 DEF Marked
<1>3. UNCHANGED <<depositHistory, withdrawals>> => Marked'
  BY DEF Marked
<1> QED
  BY <1>1, <1>2, <1>3, HistorySteps

(***************************************************************************)
(* Since the second version a deposit is withdrawn at most once, reported  *)
(* before or after its withdrawal or not at all.                           *)
(***************************************************************************)
THEOREM NoDoubleWithdrawal ==
  ASSUME Version >= 2
  PROVE  Spec => []WithdrawnOnce
<1>1. Init => Marked
  BY DEF Init, Marked
<1>2. TypeOK /\ Marked /\ [Next]_vars => Marked'
  BY NextMarked
<1>3. Marked => WithdrawnOnce
  BY DEF Marked, WithdrawnOnce
<1> QED
  BY <1>1, <1>2, <1>3, TypeCorrect, PTL DEF Spec

(***************************************************************************)
(* In every version the history of a deposit only goes forward.            *)
(***************************************************************************)
THEOREM HistoryStays == Spec => HistoryOnlyAdvances
<1> DEFINE Advances ==
      \A d \in Deposits :
        /\ depositHistory[d] # "UNREPORTED" => depositHistory'[d] # "UNREPORTED"
        /\ depositHistory[d] = "WITHDRAWN" => depositHistory'[d] = "WITHDRAWN"
<1>1. TypeOK /\ [Next]_vars => Advances
  <2> SUFFICES ASSUME TypeOK, [Next]_vars PROVE Advances
    OBVIOUS
  <2>1. ASSUME NEW batch, ReportDeposits(batch) PROVE Advances
    BY <2>1 DEF ReportDeposits, NewEntries
  <2>2. ASSUME NEW d \in Deposits, ValidateWithdrawal(d) PROVE Advances
    BY <2>2 DEF ValidateWithdrawal, Withdrawable, Recorded, TypeOK
  <2> QED
    BY <2>1, <2>2, HistorySteps
<1>2. TypeOK /\ [Next]_vars => [Advances]_vars
  BY <1>1
<1> QED
  BY <1>2, TypeCorrect, PTL DEF Spec, HistoryOnlyAdvances

-----------------------------------------------------------------------------
(***************************************************************************)
(* As long as proofs were asked for at all times, whoever is reported, or  *)
(* was paid out above all thresholds, was vouched for.                     *)
(***************************************************************************)
VouchedFor(d) == \E s \in Signers : <<s, d>> \in signed

Vouching ==
  ~signerless =>
    /\ AsksForProofs(trustedSigner)
    /\ \A d \in Deposits :
         \/ depositHistory[d] = "REPORTED"
         \/ withdrawals[d] > 0 /\ AmountOf[d] >= highest
         => VouchedFor(d)

\* What every step preserves of the conditions of Vouching.
LEMMA Growth ==
  ASSUME TypeOK, [Next]_vars
  PROVE  /\ signed \subseteq signed'
         /\ highest <= highest'
         /\ ~signerless' => ~signerless
         /\ ~signerless' /\ AsksForProofs(trustedSigner)
              => AsksForProofs(trustedSigner')
<1>1. signed \subseteq signed'
  BY DEF Next, vars, observerVars, configVars, LowerThreshold, RaiseThreshold,
         GrantGuardian, LoseGuardian, SetMaxDeposits, SetTrustedSigner,
         SetPaused, Sign, ReportDeposits, ValidateWithdrawal
<1>2. \/ highest' = highest
      \/ \E a \in Accounts, t \in Thresholds : RaiseThreshold(a, t)
  BY DEF Next, vars, observerVars, configVars, LowerThreshold,
         GrantGuardian, LoseGuardian, SetMaxDeposits, SetTrustedSigner,
         SetPaused, Sign, ReportDeposits, ValidateWithdrawal
<1>3. highest <= highest'
  BY <1>2, BasculeAssumptions DEF RaiseThreshold, TypeOK
<1>4. \/ signerless' = signerless /\ trustedSigner' = trustedSigner
      \/ \E s \in Signers \cup {Nobody} : SetTrustedSigner(s)
  BY DEF Next, vars, observerVars, configVars, LowerThreshold, RaiseThreshold,
         GrantGuardian, LoseGuardian, SetMaxDeposits,
         SetPaused, Sign, ReportDeposits, ValidateWithdrawal
<1>5. ASSUME NEW s \in Signers \cup {Nobody}, SetTrustedSigner(s), ~signerless'
      PROVE  ~signerless /\ AsksForProofs(trustedSigner')
  <2>1. /\ Version = 3 /\ trustedSigner' = s
        /\ signerless' = (signerless \/ s = Nobody)
    BY <1>5 DEF SetTrustedSigner
  <2>2. ~signerless /\ s # Nobody
    BY <1>5, <2>1, Zenon
  <2> QED
    BY <2>1, <2>2 DEF AsksForProofs
<1>6. ~signerless' => ~signerless
  BY <1>4, <1>5, Zenon
<1>7. ~signerless' /\ AsksForProofs(trustedSigner) => AsksForProofs(trustedSigner')
  <2>1. CASE trustedSigner' = trustedSigner
    BY <2>1
  <2>2. CASE \E s \in Signers \cup {Nobody} : SetTrustedSigner(s)
    BY <2>2, <1>5, Zenon
  <2> QED
    BY <1>4, <2>1, <2>2, Zenon
<1> QED
  BY <1>1, <1>3, <1>6, <1>7

LEMMA NextVouching ==
  ASSUME TypeOK, Vouching, [Next]_vars
  PROVE  Vouching'
<1> SUFFICES ASSUME ~signerless', NEW d \in Deposits,
                    \/ depositHistory'[d] = "REPORTED"
                    \/ withdrawals'[d] > 0 /\ AmountOf[d] >= highest'
             PROVE  VouchedFor(d)'
  BY Growth DEF Vouching
<1>1. VouchedFor(d) => VouchedFor(d)'
  BY Growth DEF VouchedFor
<1>2. AmountOf[d] >= highest' => AmountOf[d] >= highest
  <2>1. highest' \in Nat
    BY NextTypeOK DEF TypeOK
  <2> QED
    BY <2>1, Growth, BasculeAssumptions DEF TypeOK
<1>3. ASSUME NEW batch \in Batches, ReportDeposits(batch) PROVE VouchedFor(d)'
  <2>1. CASE \E i \in NewEntries(batch) : batch[i][1] = d
    <3>1. PICK i \in NewEntries(batch) : batch[i][1] = d
      BY <2>1
    <3>2. batch[i] \in Entries
      BY DEF Batches, NewEntries
    <3>3. PICK x \in Deposits : \E s \in ProofsOf(x) : batch[i] = <<x, s>>
      BY <3>2 DEF Entries
    <3> PICK s \in ProofsOf(x) : batch[i] = <<x, s>>
      BY <3>3
    <3>4. s = trustedSigner /\ s # Nobody
      BY <1>3, Growth DEF ReportDeposits, ProofsHold, Vouching, AsksForProofs
    <3>5. VouchedFor(d)
      BY <3>1, <3>4 DEF ProofsOf, VouchedFor
    <3> QED
      BY <3>5, <1>1
  <2>2. CASE ~ \E i \in NewEntries(batch) : batch[i][1] = d
    <3>1. depositHistory'[d] = depositHistory[d] /\ withdrawals' = withdrawals
      BY <1>3, <2>2 DEF ReportDeposits, observerVars
    <3> QED
      BY <3>1, <1>1, <1>2, Growth DEF Vouching
  <2> QED
    BY <2>1, <2>2
<1>4. ASSUME NEW x \in Deposits, ValidateWithdrawal(x) PROVE VouchedFor(d)'
  <2>1. CASE x = d
    <3>1. CASE depositHistory[d] = "REPORTED"
      BY <3>1, <1>1, Growth DEF Vouching
    <3>2. CASE depositHistory[d] = "UNREPORTED" /\ AmountOf[d] < validateThreshold
      <4>1. depositHistory'[d] # "REPORTED"
        BY <1>4, <2>1, <3>2 DEF ValidateWithdrawal, Withdrawable, TypeOK
      <4>2. ~(AmountOf[d] >= highest)
        BY <3>2, BasculeAssumptions DEF TypeOK
      <4> QED
        BY <4>1, <4>2, <1>2
    <3> QED
      BY <1>4, <2>1, <3>1, <3>2 DEF ValidateWithdrawal, Withdrawable
  <2>2. CASE x # d
    <3>1. depositHistory'[d] = depositHistory[d] /\ withdrawals'[d] = withdrawals[d]
      BY <1>4, <2>2 DEF ValidateWithdrawal, Withdrawable, TypeOK
    <3> QED
      BY <3>1, <1>1, <1>2, Growth DEF Vouching
  <2> QED
    BY <2>1, <2>2
<1>5. CASE UNCHANGED <<depositHistory, withdrawals>>
  BY <1>5, <1>1, <1>2, Growth DEF Vouching
<1> QED
  BY <1>3, <1>4, <1>5, HistorySteps

(***************************************************************************)
(* With a trusted signer at all times no deposit above every threshold     *)
(* there was is paid out unless a signer vouched for it.                   *)
(***************************************************************************)
THEOREM LargeDepositsAreSafe == Spec => []LargeDepositsAreVouchedFor
<1>1. Init => Vouching
  <2> SUFFICES ASSUME Init PROVE Vouching
    OBVIOUS
  <2>1. ~signerless => AsksForProofs(trustedSigner)
    <3>1. signerless = ~AsksForProofs(trustedSigner)
      BY DEF Init
    <3> QED
      BY <3>1, Zenon
  <2>2. \A d \in Deposits :
          depositHistory[d] # "REPORTED" /\ ~(withdrawals[d] > 0)
    BY DEF Init
  <2> QED
    BY <2>1, <2>2 DEF Vouching
<1>2. TypeOK /\ Vouching /\ [Next]_vars => Vouching'
  BY NextVouching
<1>3. Vouching => LargeDepositsAreVouchedFor
  BY DEF Vouching, VouchedFor, LargeDepositsAreVouchedFor
<1> QED
  BY <1>1, <1>2, <1>3, TypeCorrect, PTL DEF Spec

-----------------------------------------------------------------------------
\* The grants not yet used up by a raise bound the guardians there are.
Granted == IsFiniteSet(guardians) /\ RaisesWereGranted

LEMMA NextGranted ==
  ASSUME TypeOK, Granted, [Next]_vars
  PROVE  Granted'
<1>0. IsFiniteSet(guardians) /\ Cardinality(guardians) \in Nat
  BY FS_CardinalityType DEF Granted
<1>1. ASSUME NEW a \in Accounts, NEW t \in Thresholds, RaiseThreshold(a, t)
      PROVE  Granted'
  <2>1. /\ guardians' = guardians \ {a} /\ a \in guardians
        /\ raises' = raises + 1 /\ grants' = grants
    BY <1>1 DEF RaiseThreshold, RenounceRole
  <2>2. /\ IsFiniteSet(guardians')
        /\ Cardinality(guardians') = Cardinality(guardians) - 1
    BY <2>1, <1>0, FS_RemoveElement
  <2> QED
    BY <2>1, <2>2, <1>0 DEF Granted, RaisesWereGranted, TypeOK
<1>2. ASSUME NEW a \in Accounts, GrantGuardian(a) PROVE Granted'
  <2>1. /\ guardians' = guardians \cup {a} /\ a \notin guardians
        /\ raises' = raises /\ grants' = grants + 1
    BY <1>2 DEF GrantGuardian
  <2>2. /\ IsFiniteSet(guardians')
        /\ Cardinality(guardians') = Cardinality(guardians) + 1
    BY <2>1, <1>0, FS_AddElement
  <2> QED
    BY <2>1, <2>2, <1>0 DEF Granted, RaisesWereGranted, TypeOK
<1>3. ASSUME NEW a \in Accounts, LoseGuardian(a) PROVE Granted'
  <2>1. /\ guardians' = guardians \ {a} /\ a \in guardians
        /\ raises' = raises /\ grants' = grants
    BY <1>3 DEF LoseGuardian, observerVars
  <2>2. /\ IsFiniteSet(guardians')
        /\ Cardinality(guardians') = Cardinality(guardians) - 1
    BY <2>1, <1>0, FS_RemoveElement
  <2> QED
    BY <2>1, <2>2, <1>0 DEF Granted, RaisesWereGranted, TypeOK
<1>4. CASE UNCHANGED <<guardians, raises, grants>>
  BY <1>4 DEF Granted, RaisesWereGranted
<1>5. \/ \E a \in Accounts, t \in Thresholds : RaiseThreshold(a, t)
      \/ \E a \in Accounts : GrantGuardian(a)
      \/ \E a \in Accounts : LoseGuardian(a)
      \/ UNCHANGED <<guardians, raises, grants>>
  BY DEF Next, vars, observerVars, configVars, LowerThreshold, SetMaxDeposits,
         SetTrustedSigner, SetPaused, Sign, ReportDeposits, ValidateWithdrawal
<1> QED
  BY <1>1, <1>2, <1>3, <1>4, <1>5

(***************************************************************************)
(* Every raise of the threshold used up a grant of its own, in all three   *)
(* versions: granting the role and raising are two steps each time.        *)
(***************************************************************************)
THEOREM TwoStepsPerRaise == Spec => []RaisesWereGranted
<1>1. Init => Granted
  BY FS_EmptySet DEF Init, Granted, RaisesWereGranted
<1>2. TypeOK /\ Granted /\ [Next]_vars => Granted'
  BY NextGranted
<1>3. Granted => RaisesWereGranted
  BY DEF Granted
<1> QED
  BY <1>1, <1>2, <1>3, TypeCorrect, PTL DEF Spec

=============================================================================
