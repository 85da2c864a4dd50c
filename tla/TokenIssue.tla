----------------------------- MODULE TokenIssue -----------------------------
(***************************************************************************)
(* What the router of assets promises, without routes, configuration,      *)
(* mailbox, notaries, drawbridge and approvals.  Who requests something    *)
(* from the ledger pays for it at once, from the account of his own.  What *)
(* the ledger releases is issued at most once, to its recipient, less a    *)
(* fee that it covers.  Several releases may be issued in one step.        *)
(***************************************************************************)
EXTENDS Integers, Functions

CONSTANTS
  Tokens, Accounts, Treasury,
  InitialBalance      \* [token][account]

(***************************************************************************)
(* Requests and releases are records with a body, that of a request with a *)
(* sender and an amount, that of a release with token, recipient, amount.  *)
(***************************************************************************)
VARIABLES
  balance,    \* [token][account]
  requested,
  released,
  issued

vars == <<balance, requested, released, issued>>

Init ==
  /\ balance = InitialBalance
  /\ requested = {}
  /\ released = {}
  /\ issued = {}

\* Requests of some kinds do not tell the token that pays for them.
Request(x, t, fee) ==
  LET cost == x.body.amount + fee IN
  /\ x \notin requested
  /\ cost <= balance[t][x.body.sender]
  /\ balance' = [balance EXCEPT ![t] = [a \in Accounts |->
       @[a] + (IF a = Treasury THEN fee ELSE 0)
            - (IF a = x.body.sender THEN cost ELSE 0)]]
  /\ requested' = requested \cup {x}
  /\ UNCHANGED <<released, issued>>

Release(x) ==
  /\ x \notin released
  /\ released' = released \cup {x}
  /\ UNCHANGED <<balance, requested, issued>>

\* What release x brings account a in token t.
Brings(x, t, a, fee) ==
  IF x.body.token # t THEN 0
  ELSE (IF a = x.body.recipient THEN x.body.amount - fee ELSE 0)
         + (IF a = Treasury THEN fee ELSE 0)

Fees(S) == {fee \in [S -> UNION {0..x.body.amount : x \in S}] :
              \A x \in S : fee[x] <= x.body.amount}

Issue(S, fee) ==
  /\ S \subseteq released \ issued
  /\ fee \in Fees(S)
  /\ balance' = [t \in Tokens |-> [a \in Accounts |->
       balance[t][a] + SumFunction([x \in S |-> Brings(x, t, a, fee[x])])]]
  /\ issued' = issued \cup S
  /\ UNCHANGED <<requested, released>>

Next ==
  \/ \E x \in requested', t \in Tokens : \E fee \in 0..balance[t][x.body.sender] :
       Request(x, t, fee)
  \/ \E x \in released' : Release(x)
  \/ \E S \in SUBSET (released \ issued) : \E fee \in Fees(S) : Issue(S, fee)

Spec == Init /\ [][Next]_vars

=============================================================================
