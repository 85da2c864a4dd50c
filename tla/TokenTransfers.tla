--------------------------- MODULE TokenTransfers ---------------------------
(***************************************************************************)
(* What a bridge promises, without mailboxes, notaries, paths or limits:   *)
(* a transfer takes its amount out of one account, is pending for as long  *)
(* as it takes, and pays exactly that amount, once, to its recipient.      *)
(***************************************************************************)
EXTENDS Integers

CONSTANTS
  Chains, Tokens, Users,
  InitialBalance      \* [chain][token][user]

(***************************************************************************)
(* A transfer is a record of at least src, dst and body, and a body one of *)
(* token, recipient and amount.                                            *)
(***************************************************************************)
VARIABLES
  balance,    \* [chain][token][user]
  pending,    \* transfers whose amount is in nobody's account
  complete    \* transfers that have been paid

vars == <<balance, pending, complete>>

Init ==
  /\ balance = InitialBalance
  /\ pending = {}
  /\ complete = {}

\* The source token is not part of the transfer.
Depart(x, t, u) ==
  /\ x \notin pending \cup complete
  /\ balance[x.src][t][u] >= x.body.amount
  /\ balance' = [balance EXCEPT ![x.src][t][u] = @ - x.body.amount]
  /\ pending' = pending \cup {x}
  /\ UNCHANGED complete

Arrive(x) ==
  /\ x \in pending
  /\ balance' = [balance EXCEPT ![x.dst][x.body.token][x.body.recipient] =
                   @ + x.body.amount]
  /\ pending' = pending \ {x}
  /\ complete' = complete \cup {x}

Next ==
  \/ \E x \in pending', t \in Tokens, u \in Users : Depart(x, t, u)
  \/ \E x \in pending : Arrive(x)

Spec == Init /\ [][Next]_vars

=============================================================================
