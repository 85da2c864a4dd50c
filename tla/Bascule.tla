------------------------------- MODULE Bascule ------------------------------
(***************************************************************************)
(* contracts/bascule: the drawbridge that the minting contracts ask before *)
(* they pay out a Bitcoin deposit.  Off-chain watchers report the deposits *)
(* they saw; a withdrawal of a reported deposit is let through, as is one  *)
(* of an unreported deposit below a threshold.                             *)
(*                                                                         *)
(* Version tells the three contracts apart: Bascule, BasculeV2, BasculeV3. *)
(* The reporter, the validator and the pauser do what they may do whenever *)
(* they like.  The id of a deposit is a hash of its fields, its amount     *)
(* among them, and the minting contracts pass that amount.                 *)
(***************************************************************************)
EXTENDS Integers, Sequences, FiniteSets

CONSTANTS
  Version,
  Deposits,        \* deposit ids
  AmountOf,        \* amount of each deposit
  Thresholds,      \* thresholds asked for
  Accounts,        \* callers of updateValidateThreshold
  Admin,           \* the one with the default admin role
  Signers,         \* who may be appointed as trusted signer
  Nobody,          \* address(0), and the signer of a malformed proof
  BatchSizes,      \* values of maxDeposits
  MaxGrants        \* bound: how often the guardian role is granted

ASSUME BasculeAssumptions ==
  /\ Version \in 1..3
  /\ AmountOf \in [Deposits -> Nat]
  /\ Thresholds \subseteq Nat
  /\ Nobody \notin Signers
  /\ BatchSizes \subseteq Nat
  /\ MaxGrants \in Nat

VARIABLES
  validateThreshold,
  maxDeposits,
  depositHistory,
  trustedSigner,   \* of V3; Nobody when proofs are not asked for
  guardians,       \* accounts with the validation guardian role
  paused,
  signed,          \* <<signer, deposit>>: signatures that exist
  withdrawals,     \* history: how often each deposit was let through
  grants,          \* history: how often the guardian role was given
  raises,          \* history: how often the threshold was raised
  highest,         \* history: the highest threshold so far
  signerless       \* history: deposits could be reported without proof

configVars == <<validateThreshold, maxDeposits, trustedSigner, guardians, paused>>
observerVars == <<withdrawals, grants, raises, highest, signerless>>
vars == <<configVars, depositHistory, signed, observerVars>>

DepositStates == {"UNREPORTED", "REPORTED", "WITHDRAWN"}

AsksForProofs(signer) == Version = 3 /\ signer # Nobody

Init ==
  /\ validateThreshold = 0
  /\ maxDeposits \in BatchSizes
  /\ depositHistory = [d \in Deposits |-> "UNREPORTED"]
  /\ trustedSigner \in IF Version = 3 THEN Signers \cup {Nobody} ELSE {Nobody}
  /\ guardians = {}
  /\ paused = FALSE
  /\ signed = {}
  /\ withdrawals = [d \in Deposits |-> 0]
  /\ grants = 0
  /\ raises = 0
  /\ highest = 0
  /\ signerless = ~AsksForProofs(trustedSigner)

-----------------------------------------------------------------------------
\* The threshold.

\* Slip: the admin may raise the threshold alone.
Changes(threshold) == threshold # validateThreshold

Lowers(threshold) == threshold < validateThreshold

LowerThreshold(caller, threshold) ==
  /\ ~paused
  /\ Lowers(threshold)
  /\ caller = Admin
  /\ validateThreshold' = threshold
  /\ UNCHANGED <<maxDeposits, trustedSigner, guardians, paused, depositHistory,
                 signed, observerVars>>

\* Slip: the role stays with the caller.
KeepRole(caller) == guardians' = guardians

RenounceRole(caller) == guardians' = guardians \ {caller}

RaiseThreshold(caller, threshold) ==
  /\ ~paused
  /\ threshold > validateThreshold
  /\ caller \in guardians
  /\ RenounceRole(caller)
  /\ validateThreshold' = threshold
  /\ raises' = raises + 1
  /\ highest' = IF threshold > highest THEN threshold ELSE highest
  /\ UNCHANGED <<maxDeposits, trustedSigner, paused, depositHistory, signed,
                 withdrawals, grants, signerless>>

\* AccessControl.grantRole by the admin, pause or not; nothing happens if the
\* account has the role.
GrantGuardian(a) ==
  /\ a \notin guardians
  /\ grants < MaxGrants
  /\ guardians' = guardians \cup {a}
  /\ grants' = grants + 1
  /\ UNCHANGED <<validateThreshold, maxDeposits, trustedSigner, paused,
                 depositHistory, signed, withdrawals, raises, highest, signerless>>

\* AccessControl.revokeRole by the admin, or renounceRole.
LoseGuardian(a) ==
  /\ a \in guardians
  /\ guardians' = guardians \ {a}
  /\ UNCHANGED <<validateThreshold, maxDeposits, trustedSigner, paused,
                 depositHistory, signed, observerVars>>

-----------------------------------------------------------------------------
SetMaxDeposits(n) ==
  /\ ~paused
  /\ maxDeposits' = n
  /\ UNCHANGED <<validateThreshold, trustedSigner, guardians, paused,
                 depositHistory, signed, observerVars>>

SetTrustedSigner(s) ==
  /\ Version = 3
  /\ ~paused
  /\ trustedSigner' = s
  /\ signerless' = (signerless \/ s = Nobody)
  /\ UNCHANGED <<validateThreshold, maxDeposits, guardians, paused,
                 depositHistory, signed, withdrawals, grants, raises, highest>>

\* pause and unpause.
SetPaused(b) ==
  /\ paused = ~b
  /\ paused' = b
  /\ UNCHANGED <<validateThreshold, maxDeposits, trustedSigner, guardians,
                 depositHistory, signed, observerVars>>

\* A signer vouches for a deposit; such signatures are not taken back.
Sign(s, d) ==
  /\ signed' = signed \cup {<<s, d>>}
  /\ UNCHANGED <<configVars, depositHistory, observerVars>>

-----------------------------------------------------------------------------
\* Reports.  An entry of a batch is a deposit and the signer of its proof.

ProofsOf(d) == {s \in Signers : <<s, d>> \in signed} \cup {Nobody}

Entries == UNION {{<<d, s>> : s \in ProofsOf(d)} : d \in Deposits}

Batches == UNION {[1..n -> Entries] : n \in 0..maxDeposits}

\* Positions of the entries that find their deposit unreported.
NewEntries(batch) ==
  {i \in DOMAIN batch :
     /\ depositHistory[batch[i][1]] = "UNREPORTED"
     /\ \A j \in DOMAIN batch : j < i => batch[j][1] # batch[i][1]}

\* Slip: only the first proof of a batch is looked at.
FirstProofHolds(batch) ==
  AsksForProofs(trustedSigner) /\ 1 \in NewEntries(batch)
    => batch[1][2] = trustedSigner

ProofsHold(batch) ==
  AsksForProofs(trustedSigner)
    => \A i \in NewEntries(batch) : batch[i][2] = trustedSigner

\* The first version reverts where the later ones warn.
ReportDeposits(batch) ==
  /\ ~paused
  /\ Version = 1 => NewEntries(batch) = DOMAIN batch
  /\ ProofsHold(batch)
  /\ depositHistory' =
       [d \in Deposits |->
          IF \E i \in NewEntries(batch) : batch[i][1] = d
          THEN "REPORTED" ELSE depositHistory[d]]
  /\ UNCHANGED <<configVars, signed, observerVars>>

-----------------------------------------------------------------------------
\* Withdrawals.

\* Slip: withdrawals below the threshold are recorded by no version.
RecordedReported(d) == depositHistory[d] = "REPORTED"

\* Since the second version a withdrawal below the threshold is recorded, too.
Recorded(d) == depositHistory[d] = "REPORTED" \/ Version >= 2

Withdrawable(d) ==
  /\ ~paused
  /\ \/ depositHistory[d] = "REPORTED"
     \/ /\ depositHistory[d] = "UNREPORTED"
        /\ AmountOf[d] < validateThreshold

ValidateWithdrawal(d) ==
  /\ Withdrawable(d)
  /\ depositHistory' = IF Recorded(d)
                       THEN [depositHistory EXCEPT ![d] = "WITHDRAWN"]
                       ELSE depositHistory
  /\ withdrawals' = [withdrawals EXCEPT ![d] = @ + 1]
  /\ UNCHANGED <<configVars, signed, grants, raises, highest, signerless>>

Next ==
  \/ \E a \in Accounts, t \in Thresholds : LowerThreshold(a, t) \/ RaiseThreshold(a, t)
  \/ \E a \in Accounts : GrantGuardian(a) \/ LoseGuardian(a)
  \/ \E n \in BatchSizes : SetMaxDeposits(n)
  \/ \E s \in Signers \cup {Nobody} : SetTrustedSigner(s)
  \/ \E b \in BOOLEAN : SetPaused(b)
  \/ \E s \in Signers, d \in Deposits : Sign(s, d)
  \/ \E batch \in Batches : ReportDeposits(batch)
  \/ \E d \in Deposits : ValidateWithdrawal(d)

Spec == Init /\ [][Next]_vars

-----------------------------------------------------------------------------
TypeOK ==
  /\ validateThreshold \in 0..highest
  /\ maxDeposits \in BatchSizes
  /\ depositHistory \in [Deposits -> DepositStates]
  /\ trustedSigner \in Signers \cup {Nobody}
  /\ guardians \subseteq Accounts
  /\ paused \in BOOLEAN
  /\ signed \subseteq Signers \X Deposits
  /\ withdrawals \in [Deposits -> Nat]
  /\ grants \in Nat
  /\ raises \in Nat
  /\ highest \in Nat
  /\ signerless \in BOOLEAN

(***************************************************************************)
(* "A deposit can only be withdrawn once" (validateWithdrawal), however    *)
(* withdrawals, reports of the same deposit and changes of the threshold   *)
(* alternate.                                                              *)
(***************************************************************************)
WithdrawnOnce == \A d \in Deposits : withdrawals[d] <= 1

(***************************************************************************)
(* "Increasing the threshold requires two steps: (1) grant role and (2)    *)
(* change threshold": no grant of the guardian role serves for two raises. *)
(***************************************************************************)
RaisesWereGranted == raises + Cardinality(guardians) <= grants

(***************************************************************************)
(* In V3 with a trusted signer at all times, a deposit too large for every *)
(* threshold there was is only paid out if a signer vouched for it: not    *)
(* the reporter alone, nor one good proof in a batch, gets it through.     *)
(***************************************************************************)
LargeDepositsAreVouchedFor ==
  \A d \in Deposits :
    withdrawals[d] > 0 /\ AmountOf[d] >= highest /\ ~signerless
      => \E s \in Signers : <<s, d>> \in signed

(***************************************************************************)
(* No report makes a deposit that was withdrawn withdrawable again, and no *)
(* deposit is ever unreported.                                             *)
(***************************************************************************)
HistoryOnlyAdvances ==
  [][ \A d \in Deposits :
        /\ depositHistory[d] # "UNREPORTED" => depositHistory'[d] # "UNREPORTED"
        /\ depositHistory[d] = "WITHDRAWN" => depositHistory'[d] = "WITHDRAWN" ]_vars

=============================================================================
