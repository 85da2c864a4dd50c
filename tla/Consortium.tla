----------------------------- MODULE Consortium -----------------------------
(***************************************************************************)
(* contracts/consortium/Consortium.sol: the validator sets of the notaries *)
(* on one chain, epoch by epoch.  Anybody may submit the next set, with    *)
(* the signatures of the current one; the owner sets the first.            *)
(*                                                                         *)
(* A key signs what it likes, whenever it likes, and a signature once made *)
(* can be submitted for ever.  A proof is what the contract decodes: one   *)
(* entry per validator, in the order of the set, each a signature or not.  *)
(* An entry of the wrong length, and one that recovers to another address, *)
(* both count for nothing.                                                 *)
(*                                                                         *)
(* Mailbox sees of all this that a payload can be proved under the current *)
(* epoch or not (CheckProof there).                                        *)
(***************************************************************************)
EXTENDS Integers, Sequences, FiniteSets, Functions

CONSTANTS
  Keys,           \* public keys of validators
  Proposals,      \* [epoch, set]: payloads of the action NEW_VALSET
  NoSet,          \* a slot of validatorSet that was never written
  Nobody,         \* signer of an empty or malformed entry of a proof
  MinSize, MaxSize,
  MaxUint         \* the largest uint256

Sets == {p.set : p \in Proposals}
Epochs == {p.epoch : p \in Proposals}

ASSUME ConsortiumAssumptions ==
  /\ \A p \in Proposals :
       /\ p = [epoch |-> p.epoch, set |-> p.set]
       /\ p.epoch \in Nat
       /\ p.set.validators \in Seq(Keys)
       /\ p.set.weights \in Seq(0..MaxUint)
       /\ p.set.weightThreshold \in 0..MaxUint
  /\ NoSet \notin Sets
  /\ Nobody \notin Keys
  /\ MaxUint \in Nat

VARIABLES
  epoch,          \* 0 as long as there is no validator set
  validatorSet,   \* of each epoch
  signed          \* <<key, proposal>>: signatures that exist

vars == <<epoch, validatorSet, signed>>

Init ==
  /\ epoch = 0
  /\ validatorSet = [e \in Epochs |-> NoSet]
  /\ signed = {}

-----------------------------------------------------------------------------
\* Actions.validateValSet.

WeightOf(s, positions) == SumFunctionOnSet(s.weights, positions)

TotalWeight(s) == WeightOf(s, DOMAIN s.weights)

\* Slip: the sum is given up as soon as it reaches the threshold.
SumFitsUpToThreshold(s) == TRUE

\* The sum of the weights is computed with overflow checks.
SumFits(s) == TotalWeight(s) <= MaxUint

\* Slip: a threshold of zero is let through.
ThresholdNotTooHigh(s) == s.weightThreshold <= TotalWeight(s)

ThresholdReachable(s) ==
  /\ s.weightThreshold # 0
  /\ s.weightThreshold <= TotalWeight(s)

ValidSet(s) ==
  /\ Len(s.validators) \in MinSize..MaxSize
  /\ Len(s.weights) = Len(s.validators)
  /\ \A i \in DOMAIN s.weights : s.weights[i] # 0
  /\ SumFits(s)
  /\ ThresholdReachable(s)

-----------------------------------------------------------------------------
\* _checkProof.  A proof names, per position, the key whose signature of p is
\* there, or Nobody.

Signers(p) == {k \in Keys : <<k, p>> \in signed}

Proofs(p, s) == [1..Len(s.validators) -> Signers(p) \cup {Nobody}]

\* Slip: a signature counts wherever it stands in the proof.
AcceptedAnywhere(s, proof) ==
  {i \in DOMAIN proof : \E j \in DOMAIN s.validators : proof[i] = s.validators[j]}

Accepted(s, proof) == {i \in DOMAIN proof : proof[i] = s.validators[i]}

\* The contract adds in an unchecked block.
Weighs(s, positions) == WeightOf(s, positions) % (MaxUint + 1)

CheckProof(p, proof) ==
  /\ epoch # 0
  /\ Weighs(validatorSet[epoch], Accepted(validatorSet[epoch], proof))
       >= validatorSet[epoch].weightThreshold

-----------------------------------------------------------------------------
\* _setValidatorSet: a threshold of zero marks an unwritten slot.
NeverWritten(e) == validatorSet[e] = NoSet

SetValidatorSet(p) ==
  /\ NeverWritten(p.epoch)
  /\ epoch' = p.epoch
  /\ validatorSet' = [validatorSet EXCEPT ![p.epoch] = p.set]
  /\ UNCHANGED signed

NoValidatorSet == epoch = 0

\* The owner's call; the guard does not see a set stored for epoch 0.
SetInitialValidatorSet(p) ==
  /\ ValidSet(p.set)
  /\ NoValidatorSet
  /\ SetValidatorSet(p)

SetNextValidatorSet(p, proof) ==
  /\ ValidSet(p.set)
  /\ CheckProof(p, proof)
  /\ p.epoch = epoch + 1
  /\ SetValidatorSet(p)

Sign(k, p) ==
  /\ signed' = signed \cup {<<k, p>>}
  /\ UNCHANGED <<epoch, validatorSet>>

Next ==
  \E p \in Proposals :
    \/ SetInitialValidatorSet(p)
    \/ /\ epoch # 0
       /\ \E proof \in Proofs(p, validatorSet[epoch]) : SetNextValidatorSet(p, proof)
    \/ \E k \in Keys : Sign(k, p)

Spec == Init /\ [][Next]_vars

-----------------------------------------------------------------------------
\* Whatever is stored passed validateValSet.
TypeOK ==
  /\ epoch \in Nat
  /\ epoch # 0 => epoch \in Epochs /\ validatorSet[epoch] # NoSet
  /\ validatorSet \in [Epochs -> {s \in Sets : s.weightThreshold # 0} \cup {NoSet}]
  /\ signed \subseteq Keys \X Proposals

(***************************************************************************)
(* No set takes office without the one before it: the validators of epoch  *)
(* e - 1 whose signatures of the proposal exist reach the threshold of     *)
(* their set, each position counted once and in full integers.  Nobody     *)
(* gets a set in by reordering, repeating or mixing signatures, by         *)
(* replaying an old proposal, or by overflowing the unchecked sum.         *)
(***************************************************************************)
ChainOfTrust ==
  \A p \in Proposals :
    /\ p.epoch > 1 /\ p.epoch - 1 \in Epochs
    /\ validatorSet[p.epoch] = p.set
    /\ validatorSet[p.epoch - 1] # NoSet
    => LET s == validatorSet[p.epoch - 1] IN
       WeightOf(s, {i \in DOMAIN s.validators : s.validators[i] \in Signers(p)})
         >= s.weightThreshold

(***************************************************************************)
(* Epochs have no gaps: from the initial set on, every epoch up to the     *)
(* current one has its set, and no later one has.                          *)
(***************************************************************************)
EpochsAreConsecutive ==
  \A e \in Epochs \ {0} :
    validatorSet[e] # NoSet =>
      /\ e <= epoch
      /\ \A f \in Epochs : e <= f /\ f <= epoch => validatorSet[f] # NoSet

(***************************************************************************)
(* More signatures never turn a good proof into a bad one, and all of them *)
(* together are always enough, although the weights of a proof are added   *)
(* without overflow checks: the sum checked by validateValSet bounds them. *)
(***************************************************************************)
SignaturesOnlyHelp ==
  epoch # 0 =>
    LET s == validatorSet[epoch]
        Enough(positions) == Weighs(s, positions) >= s.weightThreshold
    IN  /\ Enough(DOMAIN s.validators)
        /\ \A fewer, more \in SUBSET (DOMAIN s.validators) :
             fewer \subseteq more /\ Enough(fewer) => Enough(more)

(***************************************************************************)
(* A set once stored is never replaced ("do not allow to rewrite existing  *)
(* valset"), and the epoch never goes back.                                *)
(***************************************************************************)
HistoryIsFinal ==
  [][ /\ epoch' >= epoch
      /\ \A e \in Epochs :
           validatorSet[e] # NoSet => validatorSet'[e] = validatorSet[e] ]_vars

(***************************************************************************)
(* What the comment of setInitialValidatorSet says: "Sets the initial      *)
(* validator set from any epoch".  Once a set is stored, then, a proof     *)
(* signed by all its members is accepted.                                  *)
(***************************************************************************)
InitialSetIsUsable ==
  \A p \in Proposals :
    validatorSet[p.epoch] = p.set =>
      /\ epoch # 0
      /\ CheckProof(p, validatorSet[epoch].validators)

=============================================================================
