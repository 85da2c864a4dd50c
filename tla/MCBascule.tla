------------------------------ MODULE MCBascule -----------------------------
(***************************************************************************)
(* TLC instance of Bascule: a small and a large deposit, a threshold       *)
(* between them and one above both.                                        *)
(***************************************************************************)
EXTENDS Bascule

CONSTANTS small, large

MCAmountOf == [d \in Deposits |-> IF d = small THEN 1 ELSE 2]

=============================================================================
