--------------------------- MODULE ConsortiumProofs --------------------------
(***************************************************************************)
(* Proofs about Consortium, for any keys, proposals, sizes and word size.  *)
(***************************************************************************)
EXTENDS Consortium, Lemmas, SequenceTheorems

\* Both ways to install a set write one slot that was empty with a valid set.
Installs(p) ==
  /\ ValidSet(p.set)
  /\ \/ epoch = 0
     \/ /\ p.epoch = epoch + 1
        /\ \E proof \in Proofs(p, validatorSet[epoch]) : CheckProof(p, proof)
  /\ validatorSet[p.epoch] = NoSet
  /\ epoch' = p.epoch
  /\ validatorSet' = [validatorSet EXCEPT ![p.epoch] = p.set]
  /\ signed' = signed

LEMMA StepCases ==
  ASSUME [Next]_vars
  PROVE  \/ \E p \in Proposals : Installs(p)
         \/ \E k \in Keys, p \in Proposals : Sign(k, p)
         \/ UNCHANGED vars
<1>1. ASSUME NEW p \in Proposals, SetInitialValidatorSet(p) PROVE Installs(p)
  BY <1>1 DEF SetInitialValidatorSet, NoValidatorSet, SetValidatorSet,
              NeverWritten, Installs
<1>2. ASSUME NEW p \in Proposals, NEW proof \in Proofs(p, validatorSet[epoch]),
             SetNextValidatorSet(p, proof)
      PROVE  Installs(p)
  BY <1>2 DEF SetNextValidatorSet, SetValidatorSet, NeverWritten, Installs
<1> QED
  BY <1>1, <1>2 DEF Next

LEMMA ProposalTypes ==
  ASSUME NEW p \in Proposals
  PROVE  p.epoch \in Nat /\ p.epoch \in Epochs /\ p.set \in Sets /\ p.set # NoSet
  BY ConsortiumAssumptions DEF Epochs, Sets

LEMMA InitTypeOK == Init => TypeOK
  BY DEF Init, TypeOK

LEMMA InstallTypeOK ==
  ASSUME TypeOK, NEW p \in Proposals, Installs(p)
  PROVE  TypeOK'
  BY ProposalTypes DEF TypeOK, Installs, ValidSet, ThresholdReachable

LEMMA NextTypeOK == TypeOK /\ [Next]_vars => TypeOK'
<1> SUFFICES ASSUME TypeOK, [Next]_vars PROVE TypeOK'
  OBVIOUS
<1>1. ASSUME NEW k \in Keys, NEW p \in Proposals, Sign(k, p) PROVE TypeOK'
  BY <1>1 DEF Sign, TypeOK
<1>2. UNCHANGED vars => TypeOK'
  BY DEF vars, TypeOK
<1> QED
  BY <1>1, <1>2, StepCases, InstallTypeOK

(***************************************************************************)
(* Every stored set has a threshold, and the current epoch has its set.    *)
(***************************************************************************)
THEOREM TypeCorrect == Spec => []TypeOK
<1>1. Init => TypeOK
  BY InitTypeOK
<1>2. TypeOK /\ [Next]_vars => TypeOK'
  BY NextTypeOK
<1> QED
  BY <1>1, <1>2, PTL DEF Spec

-----------------------------------------------------------------------------
LEMMA InstallKeepsEpochs ==
  ASSUME TypeOK, EpochsAreConsecutive, NEW p \in Proposals, Installs(p)
  PROVE  EpochsAreConsecutive'
<1>1. /\ epoch' = p.epoch /\ p.epoch \in Nat /\ p.epoch \in Epochs
      /\ \A e \in Epochs :
           validatorSet'[e] = IF e = p.epoch THEN p.set ELSE validatorSet[e]
      /\ p.set # NoSet
  BY ProposalTypes DEF Installs, TypeOK
<1>2. Epochs \subseteq Nat
  BY ConsortiumAssumptions DEF Epochs
<1> SUFFICES ASSUME NEW e \in Epochs \ {0}, validatorSet'[e] # NoSet
             PROVE  /\ e <= epoch'
                    /\ \A f \in Epochs :
                         e <= f /\ f <= epoch' => validatorSet'[f] # NoSet
  BY DEF EpochsAreConsecutive
<1>3. CASE e = p.epoch
  BY <1>1, <1>2, <1>3
<1>4. CASE e # p.epoch
  <2>1. validatorSet[e] # NoSet
    BY <1>1, <1>4
  <2>2. e <= epoch /\ \A f \in Epochs : e <= f /\ f <= epoch => validatorSet[f] # NoSet
    BY <2>1 DEF EpochsAreConsecutive
  <2>3. epoch # 0 /\ p.epoch = epoch + 1
    <3>1. epoch # 0
      BY <1>2, <2>2 DEF TypeOK
    <3> QED
      BY <3>1 DEF Installs
  <2> QED
    BY <1>1, <1>2, <2>2, <2>3 DEF TypeOK
<1> QED
  BY <1>3, <1>4

(***************************************************************************)
(* Validator sets follow each other without gaps.                          *)
(***************************************************************************)
THEOREM NoEpochIsSkipped == Spec => []EpochsAreConsecutive
<1>1. Init => EpochsAreConsecutive
  BY DEF Init, EpochsAreConsecutive
<1>2. TypeOK /\ EpochsAreConsecutive /\ [Next]_vars => EpochsAreConsecutive'
  <2>1. ASSUME NEW k \in Keys, NEW p \in Proposals, Sign(k, p)
        PROVE  UNCHANGED <<epoch, validatorSet>>
    BY <2>1 DEF Sign
  <2>2. EpochsAreConsecutive /\ UNCHANGED <<epoch, validatorSet>>
          => EpochsAreConsecutive'
    BY DEF EpochsAreConsecutive
  <2>3. UNCHANGED vars => UNCHANGED <<epoch, validatorSet>>
    BY DEF vars
  <2> QED
    BY <2>1, <2>2, <2>3, StepCases, InstallKeepsEpochs
<1> QED
  BY <1>1, <1>2, TypeCorrect, PTL DEF Spec

(***************************************************************************)
(* A stored validator set is never replaced and epochs never go back.      *)
(***************************************************************************)
THEOREM HistoryStays == Spec => HistoryIsFinal
<1>1. ASSUME TypeOK, [Next]_vars
      PROVE  /\ epoch' >= epoch
             /\ \A e \in Epochs :
                  validatorSet[e] # NoSet => validatorSet'[e] = validatorSet[e]
  <2>1. ASSUME NEW p \in Proposals, Installs(p)
        PROVE  /\ epoch' >= epoch
               /\ \A e \in Epochs :
                    validatorSet[e] # NoSet => validatorSet'[e] = validatorSet[e]
    BY <1>1, <2>1, ProposalTypes DEF Installs, TypeOK
  <2>2. ASSUME UNCHANGED <<epoch, validatorSet>>
        PROVE  /\ epoch' >= epoch
               /\ \A e \in Epochs :
                    validatorSet[e] # NoSet => validatorSet'[e] = validatorSet[e]
    BY <1>1, <2>2 DEF TypeOK
  <2> QED
    BY <1>1, <2>1, <2>2, StepCases DEF Sign, vars
<1>2. TypeOK /\ [Next]_vars
        => /\ epoch' >= epoch
           /\ \A e \in Epochs :
                validatorSet[e] # NoSet => validatorSet'[e] = validatorSet[e]
  BY <1>1
<1> QED
  BY <1>2, TypeCorrect, PTL DEF Spec, HistoryIsFinal

-----------------------------------------------------------------------------
(***************************************************************************)
(* Weights.  What validateValSet let through has one weight per validator, *)
(* and no selection of positions weighs more than a word can hold.         *)
(***************************************************************************)
StoredIsValid ==
  \A e \in Epochs : validatorSet[e] # NoSet => ValidSet(validatorSet[e])

LEMMA SetTypes ==
  ASSUME NEW s \in Sets
  PROVE  /\ s.validators \in Seq(Keys)
         /\ s.weights \in Seq(0..MaxUint)
         /\ s.weightThreshold \in Nat
  BY ConsortiumAssumptions DEF Sets

LEMMA ValidSetWeights ==
  ASSUME NEW s \in Sets, ValidSet(s)
  PROVE  /\ DOMAIN s.weights = DOMAIN s.validators
         /\ IsFiniteSet(DOMAIN s.validators)
         /\ \A i \in DOMAIN s.validators : s.weights[i] \in Nat
<1>1. DOMAIN s.validators = 1..Len(s.validators) /\ Len(s.validators) \in Nat
  BY SetTypes
<1>2. DOMAIN s.weights = 1..Len(s.weights)
  BY SetTypes
<1>3. DOMAIN s.weights = DOMAIN s.validators
  BY <1>1, <1>2 DEF ValidSet
<1>4. \A i \in DOMAIN s.weights : s.weights[i] \in 0..MaxUint
  BY <1>2, SetTypes, ElementOfSeq
<1>5. IsFiniteSet(1..Len(s.validators))
  BY <1>1, FS_Interval
<1> QED
  BY <1>1, <1>3, <1>4, <1>5

LEMMA WeightGrows ==
  ASSUME NEW s \in Sets, ValidSet(s),
         NEW more \in SUBSET (DOMAIN s.validators), NEW fewer \in SUBSET more
  PROVE  /\ WeightOf(s, fewer) \in Nat
         /\ WeightOf(s, more) \in Nat
         /\ WeightOf(s, fewer) <= WeightOf(s, more)
<1>1. IsFiniteSet(more) /\ IsFiniteSet(fewer)
  BY ValidSetWeights, FS_Subset
<1>2. \A i \in more : s.weights[i] \in Nat
  BY ValidSetWeights
<1>3. SumFunctionOnSet(s.weights, fewer) <= SumFunctionOnSet(s.weights, more)
  BY <1>1, <1>2, SumMonotone
<1> QED
  BY <1>1, <1>2, <1>3, SumNat DEF WeightOf

\* The addition in _checkProof is unchecked, and does not wrap around.
LEMMA WeighsExactly ==
  ASSUME NEW s \in Sets, ValidSet(s), NEW positions \in SUBSET (DOMAIN s.validators)
  PROVE  /\ WeightOf(s, positions) \in Nat
         /\ Weighs(s, positions) = WeightOf(s, positions)
<1>1. /\ WeightOf(s, positions) \in Nat
      /\ WeightOf(s, DOMAIN s.validators) \in Nat
      /\ WeightOf(s, positions) <= WeightOf(s, DOMAIN s.validators)
  BY WeightGrows
<1>2. WeightOf(s, DOMAIN s.validators) <= MaxUint
  BY ValidSetWeights DEF ValidSet, SumFits, TotalWeight
<1>3. MaxUint \in Nat
  BY ConsortiumAssumptions
<1>4. ASSUME NEW x \in Nat, x <= MaxUint PROVE x % (MaxUint + 1) = x
  BY <1>3, <1>4
<1> QED
  BY <1>1, <1>2, <1>3, <1>4 DEF Weighs

LEMMA NextStoredIsValid ==
  TypeOK /\ StoredIsValid /\ [Next]_vars => StoredIsValid'
<1> SUFFICES ASSUME TypeOK, StoredIsValid, [Next]_vars PROVE StoredIsValid'
  OBVIOUS
<1>1. ASSUME NEW p \in Proposals, Installs(p) PROVE StoredIsValid'
  BY <1>1 DEF Installs, StoredIsValid, TypeOK
<1>2. ASSUME UNCHANGED validatorSet PROVE StoredIsValid'
  BY <1>2 DEF StoredIsValid
<1> QED
  BY <1>1, <1>2, StepCases DEF Sign, vars

LEMMA StoredAlwaysValid == Spec => [](TypeOK /\ StoredIsValid)
<1>1. Init => TypeOK /\ StoredIsValid
  BY InitTypeOK DEF Init, StoredIsValid
<1>2. TypeOK /\ StoredIsValid /\ [Next]_vars => (TypeOK /\ StoredIsValid)'
  BY NextTypeOK, NextStoredIsValid
<1> QED
  BY <1>1, <1>2, PTL DEF Spec

LEMMA StoredSet ==
  ASSUME TypeOK, StoredIsValid, NEW e \in Epochs, validatorSet[e] # NoSet
  PROVE  /\ validatorSet[e] \in Sets
         /\ ValidSet(validatorSet[e])
  BY DEF TypeOK, StoredIsValid

(***************************************************************************)
(* Under any stored set, more signatures never hurt and all of them are    *)
(* enough: the check of the sum when a set is stored makes the unchecked   *)
(* addition exact.                                                         *)
(***************************************************************************)
THEOREM NoSignatureHurts == Spec => []SignaturesOnlyHelp
<1>1. ASSUME TypeOK, StoredIsValid PROVE SignaturesOnlyHelp
  <2> DEFINE s == validatorSet[epoch]
             All == DOMAIN s.validators
  <2> SUFFICES ASSUME epoch # 0
      PROVE  /\ Weighs(s, All) >= s.weightThreshold
             /\ \A fewer, more \in SUBSET All :
                  fewer \subseteq more /\ Weighs(s, fewer) >= s.weightThreshold
                    => Weighs(s, more) >= s.weightThreshold
    BY DEF SignaturesOnlyHelp
  <2>1. s \in Sets /\ ValidSet(s)
    BY <1>1, StoredSet DEF TypeOK
  <2> HIDE DEF s
  <2>2. s.weightThreshold \in Nat
    BY <2>1, SetTypes
  <2>3. Weighs(s, All) >= s.weightThreshold
    <3>1. Weighs(s, All) = TotalWeight(s)
      BY <2>1, WeighsExactly, ValidSetWeights DEF TotalWeight
    <3>2. WeightOf(s, All) \in Nat /\ Weighs(s, All) = WeightOf(s, All)
      BY <2>1, WeighsExactly
    <3> QED
      BY <2>1, <2>2, <3>1, <3>2 DEF ValidSet, ThresholdReachable
  <2>4. ASSUME NEW fewer \in SUBSET All, NEW more \in SUBSET All,
               fewer \subseteq more, Weighs(s, fewer) >= s.weightThreshold
        PROVE  Weighs(s, more) >= s.weightThreshold
    <3>1. /\ WeightOf(s, fewer) \in Nat /\ WeightOf(s, more) \in Nat
          /\ WeightOf(s, fewer) <= WeightOf(s, more)
      BY <2>1, <2>4, WeightGrows
    <3>2. /\ Weighs(s, fewer) = WeightOf(s, fewer)
          /\ Weighs(s, more) = WeightOf(s, more)
      BY <2>1, WeighsExactly
    <3> QED
      BY <2>2, <2>4, <3>1, <3>2
  <2> QED
    BY <2>3, <2>4
<1>2. TypeOK /\ StoredIsValid => SignaturesOnlyHelp
  BY <1>1
<1> QED
  BY <1>2, StoredAlwaysValid, PTL

-----------------------------------------------------------------------------
(***************************************************************************)
(* The chain of trust.  An accepted proof of p names only keys that have   *)
(* signed p, each at its own position, and what it weighs is not less in   *)
(* full integers than in words.                                            *)
(***************************************************************************)
HasSigned(s, p) == {i \in DOMAIN s.validators : s.validators[i] \in Signers(p)}

LEMMA AcceptedHaveSigned ==
  ASSUME NEW s \in Sets, NEW p, NEW proof \in Proofs(p, s)
  PROVE  Accepted(s, proof) \subseteq HasSigned(s, p)
<1>1. DOMAIN s.validators = 1..Len(s.validators)
      /\ \A i \in DOMAIN s.validators : s.validators[i] \in Keys
  BY SetTypes
<1>2. /\ DOMAIN proof = DOMAIN s.validators
      /\ \A i \in DOMAIN proof : proof[i] \in Signers(p) \cup {Nobody}
  BY <1>1 DEF Proofs
<1> QED
  BY <1>1, <1>2, ConsortiumAssumptions DEF Accepted, HasSigned

LEMMA ProvedIsSigned ==
  ASSUME TypeOK, StoredIsValid, NEW p \in Proposals,
         NEW proof \in Proofs(p, validatorSet[epoch]), CheckProof(p, proof)
  PROVE  LET s == validatorSet[epoch]
         IN  WeightOf(s, HasSigned(s, p)) >= s.weightThreshold
<1> DEFINE s == validatorSet[epoch]
<1>1. s \in Sets /\ ValidSet(s)
  BY StoredSet DEF CheckProof, TypeOK
<1>2. Weighs(s, Accepted(s, proof)) >= s.weightThreshold
  BY DEF CheckProof
<1>3. proof \in Proofs(p, s)
  OBVIOUS
<1> HIDE DEF s
<1>4. Accepted(s, proof) \subseteq HasSigned(s, p)
  BY <1>1, <1>3, AcceptedHaveSigned
<1>5. HasSigned(s, p) \in SUBSET (DOMAIN s.validators)
  BY DEF HasSigned
<1>6. Weighs(s, Accepted(s, proof)) = WeightOf(s, Accepted(s, proof))
  BY <1>1, <1>4, <1>5, WeighsExactly
<1>7. /\ WeightOf(s, HasSigned(s, p)) \in Nat
      /\ WeightOf(s, Accepted(s, proof)) \in Nat
      /\ WeightOf(s, Accepted(s, proof)) <= WeightOf(s, HasSigned(s, p))
  BY <1>1, <1>4, <1>5, WeightGrows
<1>8. WeightOf(s, HasSigned(s, p)) >= s.weightThreshold
  BY <1>1, <1>2, <1>6, <1>7, SetTypes
<1> QED
  BY <1>8 DEF s

\* ChainOfTrust in the words of this module.
Trusted(p) ==
  LET s == validatorSet[p.epoch - 1]
  IN  WeightOf(s, HasSigned(s, p)) >= s.weightThreshold

Succeeds(p) ==
  /\ p.epoch > 1 /\ p.epoch - 1 \in Epochs
  /\ validatorSet[p.epoch] = p.set
  /\ validatorSet[p.epoch - 1] # NoSet

LEMMA ChainIsTrusted ==
  ChainOfTrust <=> \A p \in Proposals : Succeeds(p) => Trusted(p)
  BY DEF ChainOfTrust, Succeeds, Trusted, HasSigned

\* A set installed now is trusted; those that were there before stay so.
LEMMA InstallKeepsTrust ==
  ASSUME TypeOK, StoredIsValid, EpochsAreConsecutive, ChainOfTrust,
         NEW q \in Proposals, Installs(q)
  PROVE  ChainOfTrust'
<1> SUFFICES ASSUME NEW p \in Proposals, Succeeds(p)' PROVE Trusted(p)'
  BY DEF ChainOfTrust, Succeeds, Trusted, HasSigned
<1>1. /\ p.epoch \in Nat /\ q.epoch \in Nat
      /\ p.epoch \in Epochs /\ q.epoch \in Epochs
      /\ p.set # NoSet /\ q.set # NoSet
  BY ProposalTypes
<1>2. /\ \A e \in Epochs :
           validatorSet'[e] = IF e = q.epoch THEN q.set ELSE validatorSet[e]
      /\ validatorSet[q.epoch] = NoSet
      /\ signed' = signed
  BY <1>1 DEF Installs, TypeOK
<1>3. /\ p.epoch > 1 /\ p.epoch - 1 \in Epochs
      /\ validatorSet'[p.epoch] = p.set
      /\ validatorSet'[p.epoch - 1] # NoSet
  BY DEF Succeeds
<1>4. ASSUME NEW e \in Epochs, e # 0, validatorSet[e] # NoSet
      PROVE  /\ e <= epoch
             /\ q.epoch = epoch + 1
             /\ \E proof \in Proofs(q, validatorSet[epoch]) : CheckProof(q, proof)
  <2>1. e \in Nat /\ epoch \in Nat
    BY ConsortiumAssumptions DEF Epochs, TypeOK
  <2>2. e <= epoch
    BY <1>4 DEF EpochsAreConsecutive
  <2> QED
    BY <1>4, <2>1, <2>2 DEF Installs
<1>5. CASE p.epoch = q.epoch
  <2>1. p = q
    BY <1>2, <1>3, <1>5, ConsortiumAssumptions, ProposalTypes
  <2>2. /\ p.epoch - 1 # q.epoch /\ p.epoch - 1 # 0
        /\ validatorSet'[p.epoch - 1] = validatorSet[p.epoch - 1]
    BY <1>1, <1>2, <1>3, <1>5
  <2>3. /\ q.epoch = epoch + 1
        /\ \E proof \in Proofs(q, validatorSet[epoch]) : CheckProof(q, proof)
    BY <1>3, <1>4, <2>2
  <2>4. p.epoch - 1 = epoch
    BY <1>1, <2>1, <2>3 DEF TypeOK
  <2>5. LET s == validatorSet[epoch]
        IN  WeightOf(s, HasSigned(s, p)) >= s.weightThreshold
    BY <2>1, <2>3, ProvedIsSigned
  <2> QED
    BY <1>2, <2>2, <2>4, <2>5 DEF Trusted, HasSigned, Signers
<1>6. CASE p.epoch # q.epoch
  <2>1. validatorSet[p.epoch] = p.set
    BY <1>1, <1>2, <1>3, <1>6
  <2>2. /\ p.epoch <= epoch /\ q.epoch = epoch + 1
    BY <1>1, <1>3, <1>4, <2>1
  <2>3. p.epoch - 1 # q.epoch
    BY <1>1, <2>2 DEF TypeOK
  <2>4. validatorSet'[p.epoch - 1] = validatorSet[p.epoch - 1]
    BY <1>2, <1>3, <2>3
  <2>5. Succeeds(p)
    BY <1>3, <2>1, <2>4 DEF Succeeds
  <2>6. Trusted(p)
    BY <2>5, ChainIsTrusted
  <2> QED
    BY <1>2, <2>4, <2>6 DEF Trusted, HasSigned, Signers
<1> QED
  BY <1>5, <1>6

\* A signature more does not take trust away.
LEMMA SignKeepsTrust ==
  ASSUME TypeOK, StoredIsValid, ChainOfTrust, NEW k \in Keys,
         NEW q \in Proposals, Sign(k, q)
  PROVE  ChainOfTrust'
<1> SUFFICES ASSUME NEW p \in Proposals, Succeeds(p)' PROVE Trusted(p)'
  BY DEF ChainOfTrust, Succeeds, Trusted, HasSigned
<1> DEFINE s == validatorSet[p.epoch - 1]
<1>1. validatorSet' = validatorSet /\ Signers(p) \subseteq Signers(p)'
  BY DEF Sign, Signers
<1>2. Succeeds(p) /\ Trusted(p)
  BY <1>1, ChainIsTrusted DEF Succeeds
<1>3. s \in Sets /\ ValidSet(s)
  BY <1>2, StoredSet DEF Succeeds
<1>4. s' = s
  BY <1>1
<1>5. WeightOf(s, HasSigned(s, p)) >= s.weightThreshold
  BY <1>2 DEF Trusted
<1> HIDE DEF s
<1> DEFINE now == {i \in DOMAIN s.validators : s.validators[i] \in Signers(p)'}
<1>6. HasSigned(s, p) \subseteq now /\ now \in SUBSET (DOMAIN s.validators)
  BY <1>1 DEF HasSigned
<1> HIDE DEF now
<1>7. /\ WeightOf(s, now) \in Nat /\ WeightOf(s, HasSigned(s, p)) \in Nat
      /\ WeightOf(s, HasSigned(s, p)) <= WeightOf(s, now)
  BY <1>3, <1>6, WeightGrows
<1>8. WeightOf(s, now) >= s.weightThreshold
  BY <1>3, <1>5, <1>7, SetTypes
<1> QED
  BY <1>1, <1>8 DEF s, now, Trusted, HasSigned

(***************************************************************************)
(* Every set after the first was signed by enough of the set before it.    *)
(* Not inductive alone: that nothing is stored after the current epoch,    *)
(* and that what is stored is valid, is needed for the step.               *)
(***************************************************************************)
THEOREM TrustIsChained == Spec => []ChainOfTrust
<1>1. Init => ChainOfTrust
  BY ConsortiumAssumptions DEF Init, ChainOfTrust
<1>2. TypeOK /\ StoredIsValid /\ EpochsAreConsecutive /\ ChainOfTrust /\ [Next]_vars
        => ChainOfTrust'
  <2>1. ChainOfTrust /\ UNCHANGED vars => ChainOfTrust'
    BY DEF ChainOfTrust, vars, Signers
  <2> QED
    BY <2>1, StepCases, InstallKeepsTrust, SignKeepsTrust
<1> QED
  BY <1>1, <1>2, StoredAlwaysValid, NoEpochIsSkipped, PTL DEF Spec

=============================================================================
