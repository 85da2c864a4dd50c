---------------------------- MODULE MCConsortium ----------------------------
(***************************************************************************)
(* TLC instance of Consortium: three keys, words of at most 4, and sets    *)
(* that are fine, overflow, repeat a key, ask for too much or for nothing. *)
(***************************************************************************)
EXTENDS Consortium

CONSTANTS k1, k2, k3

ValSet(validators, weights, threshold) ==
  [validators |-> validators, weights |-> weights, weightThreshold |-> threshold]

TwoOfTwo == ValSet(<<k1, k2>>, <<1, 1>>, 2)
Weighted == ValSet(<<k1, k2, k3>>, <<2, 1, 1>>, 3)
Repeated == ValSet(<<k1, k1>>, <<1, 2>>, 3)
Overflowing == ValSet(<<k1, k2>>, <<3, 2>>, 3)
TooHigh == ValSet(<<k3>>, <<1>>, 2)
NoThreshold == ValSet(<<k3>>, <<1>>, 0)
Weightless == ValSet(<<k1, k3>>, <<1, 0>>, 1)
Uneven == ValSet(<<k1, k3>>, <<1>>, 1)

Proposal(e, s) == [epoch |-> e, set |-> s]

MCProposals ==
  {Proposal(0, TwoOfTwo), Proposal(0, Weighted), Proposal(1, TwoOfTwo),
   Proposal(1, Weighted), Proposal(1, Overflowing), Proposal(2, Weighted),
   Proposal(2, Repeated), Proposal(3, TwoOfTwo)}

\* What every validation refuses; nobody needs to sign these.
Refused ==
  {Proposal(1, TooHigh), Proposal(1, NoThreshold), Proposal(1, Weightless),
   Proposal(1, Uneven)}

AllProposals == MCProposals \cup Refused

MCNext ==
  \E p \in Proposals :
    \/ SetInitialValidatorSet(p)
    \/ /\ epoch # 0
       /\ \E proof \in Proofs(p, validatorSet[epoch]) : SetNextValidatorSet(p, proof)
    \/ p.epoch > 1 /\ \E k \in Keys : Sign(k, p)

MCSpec == Init /\ [][MCNext]_vars

=============================================================================
