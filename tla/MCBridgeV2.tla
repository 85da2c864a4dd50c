----------------------------- MODULE MCBridgeV2 -----------------------------
(***************************************************************************)
(* TLC instances of BridgeV2: users bridge tokens from chain A to chain B. *)
(* The runs start from configured contracts (the state after the calls of  *)
(* scripts/setup), and the admins of both chains together act at most      *)
(* MaxAdminOps times, at any moment.                                       *)
(***************************************************************************)
EXTENDS BridgeV2

CONSTANTS A, B, t1, t2, u1, MaxAdminOps, InitialRate

VARIABLE adminOps

MCChains == {A, B}
MCLinks == {<<A, B>>, <<B, A>>}
MCTokenPairs == {<<t1, t1>>, <<t1, t2>>, <<t2, t1>>}
MCRateConfigs == {<<1, 2>>, <<2, 2>>}
MCInitialRate == <<2, 2>>
LiveTokenPairs == {<<t1, t1>>}
LiveRateConfigs == {<<1, 2>>}
LiveInitialRate == <<2, 3>>

Peer(c) == IF c = A THEN B ELSE A

Configured ==
  /\ globalNonce = [c \in Chains |-> 1]
  /\ outbound = [c \in Chains |-> IF c = A THEN {B} ELSE {}]
  /\ inbound = [c \in Chains |-> IF c = B THEN {A} ELSE {}]
  /\ delivered = [c \in Chains |-> {}]
  /\ handled = [c \in Chains |-> {}]
  /\ defaultMaxPayloadSize = [c \in Chains |-> 1]
  /\ mailboxSender = [c \in Chains |-> [a \in M!Senders |->
                        [maxPayloadSize |-> 0, feeDisabled |-> a = Bridge]]]
  /\ feePerByte = [c \in Chains |-> 0]
  /\ fees = [c \in Chains |-> 0]
  /\ paused = [c \in Chains |-> FALSE]
  /\ sent = {}
  /\ epoch = [c \in Chains |-> 1]
  /\ proofs = {}
  /\ bridgeContract = [c \in Chains |-> [d \in Chains |->
                         IF d = Peer(c) THEN Bridge ELSE Zero]]
  /\ destinationToken = [c \in Chains |-> [d \in Chains |-> [t \in Tokens |->
                           IF d = Peer(c) /\ t = t1 THEN t1 ELSE Zero]]]
  /\ sourceToken = destinationToken
  /\ spent = [c \in Chains |-> {}]
  /\ bridgeSender = [c \in Chains |-> [u \in Users |->
                       [whitelisted |-> TRUE, feeDiscount |-> 0]]]
  /\ rateLimit = [c \in Chains |-> [d \in Chains |-> [t \in Tokens |->
                    IF c = B /\ d = A
                    THEN R!SetRateLimit(R!EmptyBucket, InitialRate[1], InitialRate[2])
                    ELSE R!EmptyBucket]]]
  /\ balance = [c \in Chains |-> [t \in Tokens |-> [u \in Users |-> Supply]]]
  /\ tokenPaused = [c \in Chains |-> {}]
  /\ adminOps = 0

AdminStep(c) ==
  /\ adminOps < MaxAdminOps
  /\ Admin(c)
  /\ adminOps' = adminOps + 1

\* Users of A deposit, others use the mailbox of A to address the bridge of B.
UserStep ==
  \/ DepositAny(A)
  \/ \E u \in Users : SendDirectly(A, u, B, Bridge,
                        [token |-> t1, recipient |-> u, amount |-> 1], 0)

MCNext ==
  \/ \E c \in Chains : AdminStep(c)
  \/ /\ \/ UserStep
        \/ RelayAny(B)
        \/ NextValidatorSet(B)
        \/ Tick(B)
        \/ \E m \in sent : Notarize(m)
     /\ UNCHANGED adminOps

mcVars == <<vars, adminOps>>

MCSpec == Configured /\ [][MCNext]_mcVars

(***************************************************************************)
(* For liveness: deposits that use up the whole limit of B one by one, and *)
(* admin calls on B, where messages can get stuck.                         *)
(***************************************************************************)
LiveNext ==
  \/ AdminStep(B)
  \/ /\ \/ \E u \in Users, amount \in Amounts :
             Deposit(A, u, B, t1, u, amount, Zero, 0)
        \/ RelayAny(B)
        \/ NextValidatorSet(B)
        \/ Tick(B)
        \/ \E m \in sent : Notarize(m)
     /\ UNCHANGED adminOps

LiveSpec == Configured /\ [][LiveNext]_mcVars /\ Fairness

=============================================================================
