--------------------------- MODULE BridgeV2Proofs ---------------------------
(***************************************************************************)
(* Proofs about BridgeV2 and, at the end, about the CCIP lane over it, for *)
(* any chains, users, tokens, amounts, limits, pools, arguments of scripts *)
(* and bounds.                                                             *)
(***************************************************************************)
EXTENDS LaneSetup, Lemmas

(***************************************************************************)
(* The mailboxes under the bridges, with what has been proved about them.  *)
(***************************************************************************)
MP == INSTANCE MailboxProofs WITH
        Handlers <- {Bridge}, PayloadSize <- [b \in Bodies |-> 1],
        GlobalMaxPayloadSize <- 1

LEMMA MailboxAssumed == MP!MailboxAssumptions
  BY BridgeAssumptions DEF MP!MailboxAssumptions, Addresses

LEMMA SameState ==
  /\ M!TypeOK <=> MP!TypeOK
  /\ M!Init <=> MP!Init
  /\ UNCHANGED mailboxVars <=> UNCHANGED MP!mailboxVars
<1>1. M!TypeOK <=> MP!TypeOK
  BY DEF M!TypeOK, MP!TypeOK, M!Messages, MP!Messages, M!SenderConfigs, M!Senders,
         MP!SenderConfigs, MP!Senders
<1>2. M!Init <=> MP!Init
  BY DEF M!Init, MP!Init, M!Senders, MP!Senders
<1>3. UNCHANGED mailboxVars <=> UNCHANGED MP!mailboxVars
  BY DEF mailboxVars, MP!mailboxVars, MP!configVars, MP!deliveryVars,
         MP!notaryVars, MP!sendVars
<1> QED
  BY <1>1, <1>2, <1>3

LEMMA SameSend ==
  ASSUME NEW c, NEW a, NEW d, NEW r, NEW dc, NEW b, NEW v
  PROVE  M!Send(c, a, d, r, dc, b, v) <=> MP!Send(c, a, d, r, dc, b, v)
  BY DEF M!Send, MP!Send, M!CanSend, MP!CanSend, M!WhenNotPaused, MP!WhenNotPaused,
         M!ValidRecipient, MP!ValidRecipient, M!MaxSizeOf, MP!MaxSizeOf,
         M!Fee, MP!Fee, M!UseNonce, MP!UseNonce, M!Payload, MP!Payload,
         M!configVars, MP!configVars, M!deliveryVars, MP!deliveryVars,
         M!notaryVars, MP!notaryVars

LEMMA SameDelivery ==
  ASSUME NEW c, NEW m, NEW e, NEW caller, NEW success
  PROVE  M!DeliverAndHandle(c, m, e, caller, success)
           <=> MP!DeliverAndHandle(c, m, e, caller, success)
  BY DEF M!DeliverAndHandle, MP!DeliverAndHandle, M!Deliverable, MP!Deliverable,
         M!WhenNotPaused, MP!WhenNotPaused, M!AcceptsPath, MP!AcceptsPath,
         M!Verified, MP!Verified, M!CheckProof, MP!CheckProof,
         M!RecordDelivery, MP!RecordDelivery, M!RecordHandling, MP!RecordHandling,
         M!configVars, MP!configVars, M!notaryVars, MP!notaryVars,
         M!sendVars, MP!sendVars

LEMMA SameConsortium ==
  ASSUME NEW c, NEW m
  PROVE  /\ M!NextValidatorSet(c) <=> MP!NextValidatorSet(c)
         /\ M!Notarize(m) <=> MP!Notarize(m)
  BY DEF M!NextValidatorSet, MP!NextValidatorSet, M!Notarize, MP!Notarize,
         M!configVars, MP!configVars, M!deliveryVars, MP!deliveryVars,
         M!sendVars, MP!sendVars

LEMMA SameAdmin ==
  ASSUME NEW c
  PROVE  M!AdminOfMailbox(c) <=> MP!AdminOfMailbox(c)
<1> USE DEF M!deliveryVars, MP!deliveryVars, M!notaryVars, MP!notaryVars,
            M!sendVars, MP!sendVars, M!configVars, MP!configVars
<1>1. ASSUME NEW d, NEW direction
      PROVE  /\ M!EnableMessagePath(c, d, direction)
                  <=> MP!EnableMessagePath(c, d, direction)
             /\ M!DisableMessagePath(c, d, direction)
                  <=> MP!DisableMessagePath(c, d, direction)
  BY DEF M!EnableMessagePath, MP!EnableMessagePath,
         M!DisableMessagePath, MP!DisableMessagePath
<1>2. ASSUME NEW size, NEW a, NEW b
      PROVE  /\ M!SetDefaultMaxPayloadSize(c, size)
                  <=> MP!SetDefaultMaxPayloadSize(c, size)
             /\ M!SetSenderConfig(c, a, size, b)
                  <=> MP!SetSenderConfig(c, a, size, b)
             /\ M!SetFee(c, size) <=> MP!SetFee(c, size)
  BY DEF M!SetDefaultMaxPayloadSize, MP!SetDefaultMaxPayloadSize,
         M!SetSenderConfig, MP!SetSenderConfig, M!SetFee, MP!SetFee
<1>3. /\ M!Pause(c) <=> MP!Pause(c)
      /\ M!Unpause(c) <=> MP!Unpause(c)
      /\ M!WithdrawFee(c) <=> MP!WithdrawFee(c)
  BY DEF M!Pause, MP!Pause, M!Unpause, MP!Unpause, M!WithdrawFee, MP!WithdrawFee,
         M!WhenNotPaused, MP!WhenNotPaused
<1>4. M!Directions = MP!Directions /\ M!Senders = MP!Senders
  BY DEF M!Directions, MP!Directions, M!Senders, MP!Senders
<1> QED
  BY <1>1, <1>2, <1>3, <1>4 DEF M!AdminOfMailbox, MP!AdminOfMailbox

-----------------------------------------------------------------------------
(***************************************************************************)
(* The steps by what they change: the tables of the owners and the time,   *)
(* the mailboxes only, a deposit, a withdrawal.                            *)
(***************************************************************************)
OwnerStep ==
  \/ \E c \in Chains : (AdminOfBridge(c) \/ Tick(c))
  \/ UNCHANGED vars

MailboxStep ==
  \/ \E c \in Chains :
       \/ AdminOfMailbox(c) \/ NextValidatorSet(c) \/ SendAny(c)
       \/ \E m \in sent, e \in 1..epoch[c], caller \in Users :
            FailToWithdraw(c, m, e, caller)
  \/ \E m \in sent : Notarize(m)

WithdrawStep ==
  \E c \in Chains : \E m \in sent, e \in 1..epoch[c], caller \in Users :
    Withdraw(c, m, e, caller)

LEMMA StepCases ==
  ASSUME [Next]_vars
  PROVE  \/ OwnerStep
         \/ MailboxStep
         \/ \E c \in Chains : DepositAny(c)
         \/ WithdrawStep
  BY DEF Next, Admin, RelayAny, OwnerStep, MailboxStep, WithdrawStep

LEMMA OwnerStepLeaves ==
  ASSUME OwnerStep
  PROVE  UNCHANGED <<mailboxVars, spent, balance>>
<1> DEFINE Same == UNCHANGED <<mailboxVars, spent, balance>>
<1>1. ASSUME NEW c, NEW d, NEW b, SetDestinationBridge(c, d, b) PROVE Same
  BY <1>1 DEF SetDestinationBridge
<1>2. ASSUME NEW c, NEW d, NEW local, NEW remote,
             AddDestinationToken(c, d, local, remote)
      PROVE  Same
  BY <1>2 DEF AddDestinationToken
<1>3. ASSUME NEW c, NEW d, NEW t, RemoveDestinationToken(c, d, t) PROVE Same
  BY <1>3 DEF RemoveDestinationToken
<1>4. ASSUME NEW c, NEW d, NEW t, NEW limit, NEW window,
             SetTokenRateLimits(c, d, t, limit, window)
      PROVE  Same
  BY <1>4 DEF SetTokenRateLimits
<1>5. ASSUME NEW c, NEW u, NEW discount, NEW b,
             SetSenderConfig(c, u, discount, b)
      PROVE  Same
  BY <1>5 DEF SetSenderConfig
<1>6. ASSUME NEW c, NEW t, PauseToken(c, t) PROVE Same
  BY <1>6 DEF PauseToken
<1>7. ASSUME NEW c, Tick(c) PROVE Same
  BY <1>7 DEF Tick
<1>8. UNCHANGED vars => Same
  BY DEF vars, bridgeVars
<1> HIDE DEF Same
<1>9. ASSUME NEW c, AdminOfBridge(c) PROVE Same
  BY <1>1, <1>2, <1>3, <1>4, <1>5, <1>6, <1>9 DEF AdminOfBridge
<1>10. Same
  BY <1>7, <1>8, <1>9 DEF OwnerStep
<1> QED
  BY <1>10 DEF Same

LEMMA MailboxStepLeaves ==
  ASSUME MailboxStep
  PROVE  UNCHANGED bridgeVars
  BY DEF MailboxStep, AdminOfMailbox, NextValidatorSet, SendAny, SendDirectly,
         FailToWithdraw, Notarize

LEMMA DepositLeaves ==
  ASSUME NEW c \in Chains, DepositAny(c)
  PROVE  UNCHANGED <<routeVars, spent, bridgeSender, rateLimit, tokenPaused>>
  BY DEF DepositAny, Deposit

-----------------------------------------------------------------------------
\* What a deposit hands to the mailbox is a message the mailbox knows.
LEMMA DepositSends ==
  ASSUME BridgeTypeOK,
         NEW c \in Chains, NEW u \in Users, NEW d \in Chains, NEW t \in Tokens,
         NEW recipient \in Users, NEW amount \in Amounts,
         NEW destinationCaller \in Users \cup {Zero}, NEW value \in Values,
         Deposit(c, u, d, t, recipient, amount, destinationCaller, value)
  PROVE  LET body == [token |-> destinationToken[c][d][t],
                      recipient |-> recipient, amount |-> amount]
         IN  /\ body \in Bodies
             /\ bridgeContract[c][d] = Bridge
             /\ MP!Send(c, Bridge, d, Bridge, destinationCaller, body, value)
<1> DEFINE body == [token |-> destinationToken[c][d][t],
                    recipient |-> recipient, amount |-> amount]
<1>1. destinationToken[c][d][t] \in Tokens /\ bridgeContract[c][d] = Bridge
  BY DEF Deposit, CanDeposit, BridgeTypeOK
<1>2. body \in Bodies
  BY <1>1, BridgeAssumptions DEF Bodies
<1>3. M!Send(c, Bridge, d, bridgeContract[c][d], destinationCaller, body, value)
  BY DEF Deposit, DepositBody
<1> QED
  BY <1>1, <1>2, <1>3, SameSend

LEMMA NextIsMailboxNext ==
  ASSUME BridgeTypeOK, [Next]_vars
  PROVE  [MP!Next]_MP!mailboxVars
<1>1. CASE OwnerStep
  BY <1>1, OwnerStepLeaves, SameState
<1>2. CASE MailboxStep
  <2>1. ASSUME NEW c \in Chains, AdminOfMailbox(c) PROVE MP!Next
    BY <2>1, SameAdmin DEF AdminOfMailbox, MP!Next
  <2>2. ASSUME NEW c \in Chains, NextValidatorSet(c) PROVE MP!Next
    BY <2>2, SameConsortium DEF NextValidatorSet, MP!Next
  <2>3. ASSUME NEW m \in sent, Notarize(m) PROVE MP!Next
    BY <2>3, SameConsortium DEF Notarize, MP!Next
  <2>4. ASSUME NEW c \in Chains, SendAny(c) PROVE MP!Next
    <3> PICK u \in Users, to \in Users, d \in Chains, recipient \in Addresses,
             t \in Tokens, amount \in Amounts \cup {0}, value \in Values :
               SendDirectly(c, u, d, recipient,
                 [token |-> t, recipient |-> to, amount |-> amount], value)
      BY <2>4 DEF SendAny
    <3> DEFINE body == [token |-> t, recipient |-> to, amount |-> amount]
    <3>1. body \in Bodies
      BY BridgeAssumptions DEF Bodies
    <3>2. MP!Send(c, u, d, recipient, Zero, body, value)
      BY SameSend DEF SendDirectly
    <3> HIDE DEF body
    <3>3. MP!SendAny(c)
      BY <3>1, <3>2 DEF MP!SendAny, Addresses
    <3> QED
      BY <3>3 DEF MP!Next
  <2>5. ASSUME NEW c \in Chains, NEW m \in sent, NEW e \in 1..epoch[c],
               NEW caller \in Users, FailToWithdraw(c, m, e, caller)
        PROVE  MP!Next
    <3>1. MP!DeliverAndHandle(c, m, e, caller, FALSE)
      BY <2>5, SameDelivery DEF FailToWithdraw
    <3>2. MP!DeliverAny(c)
      BY <3>1 DEF MP!DeliverAny, Addresses
    <3> QED
      BY <3>2 DEF MP!Next
  <2> QED
    BY <1>2, <2>1, <2>2, <2>3, <2>4, <2>5 DEF MailboxStep
<1>3. ASSUME NEW c \in Chains, DepositAny(c) PROVE MP!Next
  <2> PICK u \in Users, recipient \in Users, d \in Chains, t \in Tokens,
           amount \in Amounts, destinationCaller \in Users \cup {Zero},
           value \in Values :
             Deposit(c, u, d, t, recipient, amount, destinationCaller, value)
    BY <1>3 DEF DepositAny
  <2> DEFINE body == [token |-> destinationToken[c][d][t],
                      recipient |-> recipient, amount |-> amount]
  <2>1. body \in Bodies /\ MP!Send(c, Bridge, d, Bridge, destinationCaller, body, value)
    BY DepositSends
  <2> HIDE DEF body
  <2>2. MP!SendAny(c)
    BY <2>1 DEF MP!SendAny, Addresses
  <2> QED
    BY <2>2 DEF MP!Next
<1>4. CASE WithdrawStep
  <2> PICK c \in Chains :
             \E m \in sent, e \in 1..epoch[c], caller \in Users :
               Withdraw(c, m, e, caller)
    BY <1>4 DEF WithdrawStep
  <2> PICK m \in sent, e \in 1..epoch[c], caller \in Users :
             Withdraw(c, m, e, caller)
    OBVIOUS
  <2>1. MP!DeliverAndHandle(c, m, e, caller, TRUE)
    BY SameDelivery DEF Withdraw
  <2>2. MP!DeliverAny(c)
    BY <2>1 DEF MP!DeliverAny, Addresses
  <2> QED
    BY <2>2 DEF MP!Next
<1> QED
  BY <1>1, <1>2, <1>3, <1>4, StepCases

-----------------------------------------------------------------------------
LEMMA BucketTypes ==
  ASSUME NEW b \in R!Buckets
  PROVE  /\ \A amount \in Nat : R!UpdateLimit(b, amount) \in R!Buckets
         /\ \A limit, window \in Nat :
              R!SetRateLimit(b, limit, window) \in R!Buckets
         /\ R!Elapse(b) \in R!Buckets
<1>1. b \in Buckets
  BY DEF R!Buckets, Buckets
<1>2. /\ \A amount \in Nat : UpdateLimit(b, amount) \in Buckets
      /\ \A limit, window \in Nat : SetRateLimit(b, limit, window) \in Buckets
      /\ Elapse(b) \in Buckets
  BY <1>1, UpdateType, SetRateLimitType, ElapseType
<1> QED
  BY <1>2 DEF R!Buckets, Buckets, R!UpdateLimit, UpdateLimit,
     R!SetRateLimit, SetRateLimit, R!Elapse, Elapse,
     R!CurrentAmountInFlight, CurrentAmountInFlight, R!Expired, Expired,
     R!Decay, Decay

LEMMA InitBridgeTypeOK == Init => BridgeTypeOK
<1> SUFFICES ASSUME Init PROVE BridgeTypeOK
  OBVIOUS
<1>1. [whitelisted |-> FALSE, feeDiscount |-> 0] \in BridgeSenders
  BY DEF BridgeSenders, FeeDiscountBase
<1>2. bridgeSender \in [Chains -> [Users -> BridgeSenders]]
  BY <1>1 DEF Init
<1>3. R!EmptyBucket \in R!Buckets
  BY DEF R!EmptyBucket, R!Buckets
<1>4. rateLimit \in [Chains -> [Chains -> [Tokens -> R!Buckets]]]
  BY <1>3 DEF Init, PerToken
<1>5. balance \in [Chains -> [Tokens -> [Users -> Nat]]]
  BY BridgeAssumptions DEF Init, InitialBalance
<1> QED
  BY <1>2, <1>4, <1>5 DEF Init, PerToken, BridgeTypeOK

LEMMA OwnerBridgeTypeOK ==
  ASSUME BridgeTypeOK, OwnerStep
  PROVE  BridgeTypeOK'
<1> USE BridgeAssumptions DEF BridgeTypeOK
<1>1. ASSUME NEW c \in Chains, NEW d \in Chains, NEW b \in {Bridge, Zero},
             SetDestinationBridge(c, d, b)
      PROVE  BridgeTypeOK'
  BY <1>1 DEF SetDestinationBridge
<1>2. ASSUME NEW c \in Chains, NEW d \in Chains, NEW p \in TokenPairs,
             AddDestinationToken(c, d, p[1], p[2])
      PROVE  BridgeTypeOK'
  <2>1. p[1] \in Tokens /\ p[2] \in Tokens
    OBVIOUS
  <2> QED
    BY <1>2, <2>1 DEF AddDestinationToken
<1>3. ASSUME NEW c \in Chains, NEW d \in Chains, NEW t \in Tokens,
             RemoveDestinationToken(c, d, t)
      PROVE  BridgeTypeOK'
  BY <1>3 DEF RemoveDestinationToken
<1>4. ASSUME NEW c \in Chains, NEW d \in Chains, NEW t \in Tokens,
             NEW r \in RateConfigs, SetTokenRateLimits(c, d, t, r[1], r[2])
      PROVE  BridgeTypeOK'
  <2>1. rateLimit[c][d][t] \in R!Buckets /\ r[1] \in Nat /\ r[2] \in Nat
    OBVIOUS
  <2>2. R!SetRateLimit(rateLimit[c][d][t], r[1], r[2]) \in R!Buckets
    BY <2>1, BucketTypes
  <2>3. rateLimit' \in [Chains -> [Chains -> [Tokens -> R!Buckets]]]
    BY <1>4, <2>2 DEF SetTokenRateLimits
  <2> QED
    BY <1>4, <2>3 DEF SetTokenRateLimits, routeVars
<1>5. ASSUME NEW c \in Chains, NEW u \in Users, NEW discount \in Discounts,
             NEW b \in BOOLEAN, SetSenderConfig(c, u, discount, b)
      PROVE  BridgeTypeOK'
  <2>0. discount \in 0..FeeDiscountBase
    <3>1. discount <= FeeDiscountBase
      BY <1>5 DEF SetSenderConfig, ValidDiscount
    <3>2. discount \in Nat /\ FeeDiscountBase \in Nat
      BY BridgeAssumptions DEF FeeDiscountBase
    <3> QED
      BY <3>1, <3>2
  <2>1. [whitelisted |-> b, feeDiscount |-> discount] \in BridgeSenders
    BY <2>0 DEF BridgeSenders
  <2>2. bridgeSender' \in [Chains -> [Users -> BridgeSenders]]
    BY <1>5, <2>1 DEF SetSenderConfig
  <2> QED
    BY <1>5, <2>2 DEF SetSenderConfig, routeVars
<1>6. ASSUME NEW c \in Chains, NEW t \in Tokens, PauseToken(c, t)
      PROVE  BridgeTypeOK'
  BY <1>6 DEF PauseToken, routeVars
<1>7. ASSUME NEW c \in Chains, Tick(c) PROVE BridgeTypeOK'
  <2>1. \A d \in Chains, t \in Tokens :
          R!Elapse(rateLimit[c][d][t]) \in R!Buckets
    BY BucketTypes
  <2>2. rateLimit' \in [Chains -> [Chains -> [Tokens -> R!Buckets]]]
    BY <1>7, <2>1 DEF Tick
  <2> QED
    BY <1>7, <2>2 DEF Tick, routeVars
<1>8. UNCHANGED vars => BridgeTypeOK'
  BY DEF vars, bridgeVars, routeVars
<1> HIDE DEF BridgeTypeOK
<1> QED
  BY <1>1, <1>2, <1>3, <1>4, <1>5, <1>6, <1>7, <1>8 DEF OwnerStep, AdminOfBridge

LEMMA DepositBridgeTypeOK ==
  ASSUME BridgeTypeOK, NEW c \in Chains, DepositAny(c)
  PROVE  BridgeTypeOK'
<1> PICK u \in Users, recipient \in Users, d \in Chains, t \in Tokens,
         amount \in Amounts, destinationCaller \in Users \cup {Zero},
         value \in Values :
           Deposit(c, u, d, t, recipient, amount, destinationCaller, value)
  BY DEF DepositAny
<1>1. amount \in Nat /\ balance[c][t][u] \in Nat /\ balance[c][t][u] >= amount
  BY BridgeAssumptions DEF Deposit, CanDeposit, BridgeTypeOK
<1>2. balance[c][t][u] - amount \in Nat
  BY <1>1
<1>3. balance' \in [Chains -> [Tokens -> [Users -> Nat]]]
  BY <1>2 DEF Deposit, Burn, BridgeTypeOK
<1> QED
  BY <1>3, DepositLeaves DEF BridgeTypeOK, routeVars

LEMMA WithdrawBridgeTypeOK ==
  ASSUME TypeOK, WithdrawStep
  PROVE  BridgeTypeOK'
<1> PICK c \in Chains :
           \E m \in sent, e \in 1..epoch[c], caller \in Users :
             Withdraw(c, m, e, caller)
  BY DEF WithdrawStep
<1> PICK m \in sent, e \in 1..epoch[c], caller \in Users :
           Withdraw(c, m, e, caller)
  OBVIOUS
<1>1. m \in M!Messages
  BY DEF TypeOK, M!TypeOK
<1>2. /\ m.src \in Chains /\ m.body.token \in Tokens
      /\ m.body.recipient \in Users /\ m.body.amount \in Nat
  BY <1>1 DEF M!Messages, Bodies
<1>3. R!UpdateLimit(rateLimit[c][m.src][m.body.token], m.body.amount) \in R!Buckets
  <2>1. rateLimit[c][m.src][m.body.token] \in R!Buckets
    BY <1>2 DEF TypeOK, BridgeTypeOK
  <2> QED
    BY <1>2, <2>1, BucketTypes
<1>4. rateLimit' \in [Chains -> [Chains -> [Tokens -> R!Buckets]]]
  <2>1. rateLimit' = [rateLimit EXCEPT ![c][m.src][m.body.token] =
                        R!UpdateLimit(@, m.body.amount)]
    BY DEF Withdraw
  <2> QED
    BY <1>2, <1>3, <2>1 DEF TypeOK, BridgeTypeOK
<1>5. balance' \in [Chains -> [Tokens -> [Users -> Nat]]]
  <2>1. balance' = [balance EXCEPT ![c][m.body.token][m.body.recipient] =
                      @ + m.body.amount]
    BY DEF Withdraw, Mint
  <2>2. balance[c][m.body.token][m.body.recipient] + m.body.amount \in Nat
    BY <1>2 DEF TypeOK, BridgeTypeOK
  <2> QED
    BY <1>2, <2>1, <2>2 DEF TypeOK, BridgeTypeOK
<1>6. spent' \in [Chains -> SUBSET M!Messages]
  <2>1. spent' = [spent EXCEPT ![c] = @ \cup {m}]
    BY DEF Withdraw
  <2> QED
    BY <1>1, <2>1 DEF TypeOK, BridgeTypeOK
<1> QED
  BY <1>4, <1>5, <1>6 DEF Withdraw, routeVars, TypeOK, BridgeTypeOK

LEMMA NextTypeOK == TypeOK /\ [Next]_vars => TypeOK'
<1> SUFFICES ASSUME TypeOK, [Next]_vars PROVE TypeOK'
  OBVIOUS
<1>1. MP!TypeOK'
  <2>1. MP!TypeOK /\ [MP!Next]_MP!mailboxVars
    BY NextIsMailboxNext, SameState DEF TypeOK
  <2> QED
    BY <2>1, MailboxAssumed, MP!NextTypeOK
<1>2. M!TypeOK'
  BY <1>1 DEF M!TypeOK, MP!TypeOK, M!Messages, MP!Messages, M!SenderConfigs, M!Senders,
              MP!SenderConfigs, MP!Senders
<1>3. BridgeTypeOK'
  <2>1. CASE MailboxStep
    BY <2>1, MailboxStepLeaves DEF bridgeVars, routeVars, TypeOK, BridgeTypeOK
  <2> QED
    BY <2>1, OwnerBridgeTypeOK, DepositBridgeTypeOK, WithdrawBridgeTypeOK,
       StepCases DEF TypeOK
<1> QED
  BY <1>2, <1>3 DEF TypeOK

(***************************************************************************)
(* Type correctness of bridges and mailboxes together; in particular no    *)
(* balance becomes negative and no fee discount exceeds the fee.           *)
(***************************************************************************)
THEOREM TypeCorrect == Spec => []TypeOK
<1>1. Init => TypeOK
  <2>1. Init => MP!TypeOK
    BY MailboxAssumed, MP!InitTypeOK, SameState DEF Init
  <2> QED
    BY <2>1, InitBridgeTypeOK, SameState DEF TypeOK
<1>2. TypeOK /\ [Next]_vars => TypeOK'
  BY NextTypeOK
<1> QED
  BY <1>1, <1>2, PTL DEF Spec

-----------------------------------------------------------------------------
(***************************************************************************)
(* The mailboxes under the bridges are mailboxes, so all that has been     *)
(* proved of Mailbox holds here.                                           *)
(***************************************************************************)
LEMMA BridgesUseMailboxes == Spec => MP!Spec
<1>1. Init => MP!Init
  BY SameState DEF Init
<1>2. TypeOK /\ [Next]_vars => [MP!Next]_MP!mailboxVars
  BY NextIsMailboxNext DEF TypeOK
<1> QED
  BY <1>1, <1>2, TypeCorrect, PTL DEF Spec, MP!Spec

LEMMA MailboxFacts == Spec => [](MP!NonceIdentifies /\ MP!ChainOfCustody)
<1>1. MP!Spec => []MP!NonceIdentifies
  BY MailboxAssumed, MP!NoncesAreUnique
<1>2. MP!Spec => []MP!ChainOfCustody
  BY MailboxAssumed, MP!CustodyHolds
<1> QED
  BY <1>1, <1>2, BridgesUseMailboxes, PTL

-----------------------------------------------------------------------------
LEMMA NextTokenTablesInverse ==
  ASSUME BridgeTypeOK, TokenTablesInverse, [Next]_vars
  PROVE  TokenTablesInverse'
<1>1. CASE UNCHANGED <<destinationToken, sourceToken>>
  BY <1>1 DEF TokenTablesInverse
<1>2. ASSUME NEW c \in Chains, NEW d \in Chains, NEW local \in Tokens,
             NEW remote \in Tokens, AddDestinationToken(c, d, local, remote)
      PROVE  TokenTablesInverse'
  <2>1. /\ destinationToken[c][d][local] = Zero
        /\ sourceToken[c][d][remote] = Zero
        /\ destinationToken' = [destinationToken EXCEPT ![c][d][local] = remote]
        /\ sourceToken' = [sourceToken EXCEPT ![c][d][remote] = local]
    BY <1>2 DEF AddDestinationToken, PairIsFree
  <2> QED
    BY <2>1, BridgeAssumptions DEF BridgeTypeOK, TokenTablesInverse
<1>3. ASSUME NEW c \in Chains, NEW d \in Chains, NEW local \in Tokens,
             RemoveDestinationToken(c, d, local)
      PROVE  TokenTablesInverse'
  <2> DEFINE remote == destinationToken[c][d][local]
  <2>1. /\ remote \in Tokens
        /\ sourceToken[c][d][remote] = local
        /\ destinationToken' = [destinationToken EXCEPT ![c][d][local] = Zero]
        /\ sourceToken' = [sourceToken EXCEPT ![c][d][remote] = Zero]
    BY <1>3 DEF RemoveDestinationToken, BridgeTypeOK
  <2> QED
    BY <2>1, BridgeAssumptions DEF BridgeTypeOK, TokenTablesInverse
<1>4. CASE OwnerStep
  <2>1. ASSUME NEW c \in Chains, AdminOfBridge(c)
        PROVE  \/ UNCHANGED <<destinationToken, sourceToken>>
               \/ \E d \in Chains, p \in TokenPairs :
                    AddDestinationToken(c, d, p[1], p[2])
               \/ \E d \in Chains, t \in Tokens : RemoveDestinationToken(c, d, t)
    BY <2>1 DEF AdminOfBridge, SetDestinationBridge, SetTokenRateLimits,
                SetSenderConfig, PauseToken, routeVars
  <2>2. \A p \in TokenPairs : p[1] \in Tokens /\ p[2] \in Tokens
    BY BridgeAssumptions
  <2>3. ASSUME NEW c \in Chains, Tick(c)
        PROVE  UNCHANGED <<destinationToken, sourceToken>>
    BY <2>3 DEF Tick, routeVars
  <2>4. UNCHANGED vars => UNCHANGED <<destinationToken, sourceToken>>
    BY DEF vars, bridgeVars, routeVars
  <2> QED
    BY <1>1, <1>2, <1>3, <1>4, <2>1, <2>2, <2>3, <2>4 DEF OwnerStep
<1>5. CASE MailboxStep
  BY <1>1, <1>5, MailboxStepLeaves DEF bridgeVars, routeVars
<1>6. ASSUME NEW c \in Chains, DepositAny(c) PROVE TokenTablesInverse'
  BY <1>1, <1>6, DepositLeaves DEF routeVars
<1>7. CASE WithdrawStep
  BY <1>1, <1>7 DEF WithdrawStep, Withdraw, routeVars
<1> QED
  BY <1>4, <1>5, <1>6, <1>7, StepCases

(***************************************************************************)
(* The token tables of every bridge stay inverse to each other.            *)
(***************************************************************************)
THEOREM TablesStayInverse == Spec => []TokenTablesInverse
<1>1. Init => TokenTablesInverse
  BY BridgeAssumptions DEF Init, PerToken, TokenTablesInverse
<1>2. TypeOK /\ TokenTablesInverse /\ [Next]_vars => TokenTablesInverse'
  BY NextTokenTablesInverse DEF TypeOK
<1> QED
  BY <1>1, <1>2, TypeCorrect, PTL DEF Spec

-----------------------------------------------------------------------------
\* What others send through a mailbox is recorded as theirs.
LEMMA SendAnyFacts ==
  ASSUME NEW c \in Chains, SendAny(c)
  PROVE  /\ UNCHANGED handled
         /\ \E m : m.sender \in Users /\ sent' = sent \cup {m}
<1> PICK u \in Users, to \in Users, d \in Chains, recipient \in Addresses,
         t \in Tokens, amount \in Amounts \cup {0}, value \in Values :
           SendDirectly(c, u, d, recipient,
             [token |-> t, recipient |-> to, amount |-> amount], value)
  BY DEF SendAny
<1> DEFINE body == [token |-> t, recipient |-> to, amount |-> amount]
           m == M!Payload(c, u, d, recipient, Zero, body)
<1>1. M!Send(c, u, d, recipient, Zero, body, value)
  BY DEF SendDirectly
<1> HIDE DEF body
<1>2. sent' = sent \cup {m} /\ UNCHANGED handled
  BY <1>1 DEF M!Send, M!deliveryVars
<1>3. m.sender = u
  BY DEF M!Payload
<1> QED
  BY <1>2, <1>3

LEMMA NextSpentIffHandled ==
  ASSUME TypeOK, SpentIffHandled, [Next]_vars
  PROVE  SpentIffHandled'
<1>1. CASE UNCHANGED <<spent, handled>>
  BY <1>1 DEF SpentIffHandled
<1>2. CASE OwnerStep
  BY <1>1, <1>2, OwnerStepLeaves DEF mailboxVars
<1>3. CASE MailboxStep
  <2>1. ASSUME NEW c \in Chains, AdminOfMailbox(c) PROVE UNCHANGED handled
    BY <2>1 DEF AdminOfMailbox, M!AdminOfMailbox, M!EnableMessagePath,
       M!DisableMessagePath, M!SetDefaultMaxPayloadSize, M!SetSenderConfig,
       M!SetFee, M!Pause, M!Unpause, M!WithdrawFee, M!deliveryVars
  <2>2. ASSUME NEW c \in Chains, NextValidatorSet(c) \/ SendAny(c)
        PROVE  UNCHANGED handled
    BY <2>2, SendAnyFacts DEF NextValidatorSet, M!NextValidatorSet,
       M!deliveryVars
  <2>3. ASSUME NEW m \in sent, Notarize(m) PROVE UNCHANGED handled
    BY <2>3 DEF Notarize, M!Notarize, M!deliveryVars
  <2>4. ASSUME NEW c \in Chains, NEW m \in sent, NEW e, NEW caller,
               FailToWithdraw(c, m, e, caller)
        PROVE  UNCHANGED handled
    <3>1. handled' = [handled EXCEPT ![c] = handled[c]]
      BY <2>4 DEF FailToWithdraw, M!DeliverAndHandle, M!RecordHandling
    <3>2. handled \in [Chains -> SUBSET M!Messages]
      BY DEF TypeOK, M!TypeOK
    <3> QED
      BY <3>1, <3>2
  <2>5. UNCHANGED handled
    BY <1>3, <2>1, <2>2, <2>3, <2>4 DEF MailboxStep
  <2> QED
    BY <1>1, <1>3, <2>5, MailboxStepLeaves DEF bridgeVars
<1>4. ASSUME NEW c \in Chains, DepositAny(c) PROVE SpentIffHandled'
  <2>1. UNCHANGED handled
    BY <1>4 DEF DepositAny, Deposit, M!Send, M!deliveryVars
  <2> QED
    BY <1>1, <1>4, <2>1, DepositLeaves
<1>5. ASSUME NEW c \in Chains, NEW m \in sent, NEW e, NEW caller,
             Withdraw(c, m, e, caller)
      PROVE  SpentIffHandled'
  <2>1. /\ handled' = [handled EXCEPT ![c] = @ \cup {m}]
        /\ spent' = [spent EXCEPT ![c] = @ \cup {m}]
    BY <1>5 DEF Withdraw, M!DeliverAndHandle, M!RecordHandling
  <2> QED
    BY <2>1 DEF SpentIffHandled, TypeOK, M!TypeOK, BridgeTypeOK
<1> QED
  BY <1>2, <1>3, <1>4, <1>5, StepCases DEF WithdrawStep

(***************************************************************************)
(* Bridge and mailbox never disagree on whether a payload has been paid.   *)
(***************************************************************************)
THEOREM SpentIsHandled == Spec => []SpentIffHandled
<1>1. Init => SpentIffHandled
  BY DEF Init, M!Init, SpentIffHandled
<1>2. TypeOK /\ SpentIffHandled /\ [Next]_vars => SpentIffHandled'
  BY NextSpentIffHandled
<1> QED
  BY <1>1, <1>2, TypeCorrect, PTL DEF Spec

-----------------------------------------------------------------------------
(***************************************************************************)
(* Messages are older than the nonces, and what is spent was sent.         *)
(***************************************************************************)
MessagesFit ==
  /\ \A m \in sent : m.nonce < globalNonce[m.src]
  /\ \A c \in Chains : spent[c] \subseteq sent

\* The mailbox invariants in the words of BridgeV2.
LEMMA MailboxFits ==
  ASSUME SpentIffHandled, MP!NonceIdentifies, MP!ChainOfCustody
  PROVE  MessagesFit
<1>1. \A m \in sent : m.nonce < globalNonce[m.src]
  BY DEF MP!NonceIdentifies
<1>2. \A c \in Chains : spent[c] \subseteq sent
  BY DEF SpentIffHandled, MP!ChainOfCustody
<1> QED
  BY <1>1, <1>2 DEF MessagesFit

\* A step that leaves accounts, bridge messages and spent payloads alone.
LEMMA StutterOfTransfers ==
  ASSUME UNCHANGED <<balance, spent>>, BridgeMessages' = BridgeMessages
  PROVE  UNCHANGED <<balance, Pending, Complete>>
  BY DEF Pending, Complete

\* Only deposits add to the messages of the bridges.
LEMMA OtherMessages ==
  ASSUME OwnerStep \/ MailboxStep \/ WithdrawStep
  PROVE  BridgeMessages' = BridgeMessages
<1>1. UNCHANGED sent => BridgeMessages' = BridgeMessages
  BY DEF BridgeMessages
<1>2. CASE OwnerStep
  BY <1>1, <1>2, OwnerStepLeaves DEF mailboxVars
<1>3. CASE WithdrawStep
  BY <1>1, <1>3 DEF WithdrawStep, Withdraw, M!DeliverAndHandle, M!sendVars
<1>4. CASE MailboxStep
  <2>1. ASSUME NEW c \in Chains, AdminOfMailbox(c) PROVE UNCHANGED sent
    BY <2>1 DEF AdminOfMailbox, M!AdminOfMailbox, M!EnableMessagePath,
       M!DisableMessagePath, M!SetDefaultMaxPayloadSize, M!SetSenderConfig,
       M!SetFee, M!Pause, M!Unpause, M!WithdrawFee, M!sendVars
  <2>2. ASSUME NEW c \in Chains, NextValidatorSet(c) PROVE UNCHANGED sent
    BY <2>2 DEF NextValidatorSet, M!NextValidatorSet, M!sendVars
  <2>3. ASSUME NEW m \in sent, Notarize(m) PROVE UNCHANGED sent
    BY <2>3 DEF Notarize, M!Notarize, M!sendVars
  <2>4. ASSUME NEW c, NEW m, NEW e, NEW caller, FailToWithdraw(c, m, e, caller)
        PROVE  UNCHANGED sent
    BY <2>4 DEF FailToWithdraw, M!DeliverAndHandle, M!sendVars
  <2>5. ASSUME NEW c \in Chains, SendAny(c)
        PROVE  BridgeMessages' = BridgeMessages
    <3> PICK m : m.sender \in Users /\ sent' = sent \cup {m}
      BY <2>5, SendAnyFacts
    <3>1. m.sender # Bridge
      BY BridgeAssumptions
    <3> QED
      BY <3>1 DEF BridgeMessages
  <2> QED
    BY <1>1, <1>4, <2>1, <2>2, <2>3, <2>4, <2>5 DEF MailboxStep
<1> QED
  BY <1>2, <1>3, <1>4

LEMMA DepositDeparts ==
  ASSUME TypeOK, MessagesFit, NEW c \in Chains, DepositAny(c)
  PROVE  \E x \in Pending', t \in Tokens, u \in Users : T!Depart(x, t, u)
<1> PICK u \in Users, recipient \in Users, d \in Chains, t \in Tokens,
         amount \in Amounts, destinationCaller \in Users \cup {Zero},
         value \in Values :
           Deposit(c, u, d, t, recipient, amount, destinationCaller, value)
  BY DEF DepositAny
<1> DEFINE body == [token |-> destinationToken[c][d][t],
                    recipient |-> recipient, amount |-> amount]
           x == M!Payload(c, Bridge, d, bridgeContract[c][d],
                          destinationCaller, body)
<1>1. /\ x.src = c /\ x.dst = d /\ x.sender = Bridge
      /\ x.nonce = globalNonce[c] /\ x.body.amount = amount
  BY DEF M!Payload
<1>2. /\ sent' = sent \cup {x}
      /\ balance[c][t][u] >= amount
      /\ balance' = [balance EXCEPT ![c][t][u] = @ - amount]
      /\ spent' = spent
  BY DEF Deposit, CanDeposit, DepositBody, Burn, M!Send
<1> HIDE DEF x, body
<1>3. x \notin sent
  <2>1. globalNonce[c] \in Nat
    BY DEF TypeOK, M!TypeOK
  <2> QED
    BY <1>1, <2>1 DEF MessagesFit
<1>4. x \notin spent[d]
  BY <1>3 DEF MessagesFit
<1>5. Pending' = Pending \cup {x}
  BY <1>1, <1>2, <1>4 DEF Pending, BridgeMessages
<1>6. Complete' = Complete
  BY <1>1, <1>2, <1>4 DEF Complete, BridgeMessages
<1>7. x \notin Pending \cup Complete
  BY <1>3 DEF Pending, Complete, BridgeMessages
<1>8. T!Depart(x, t, u)
  BY <1>1, <1>2, <1>5, <1>6, <1>7 DEF T!Depart
<1> QED
  BY <1>5, <1>8

LEMMA WithdrawArrives ==
  ASSUME TypeOK, WithdrawStep
  PROVE  \E x \in Pending : T!Arrive(x)
<1> PICK c \in Chains :
           \E m \in sent, e \in 1..epoch[c], caller \in Users :
             Withdraw(c, m, e, caller)
  BY DEF WithdrawStep
<1> PICK m \in sent, e \in 1..epoch[c], caller \in Users :
           Withdraw(c, m, e, caller)
  OBVIOUS
<1>1. m.dst = c /\ m.src \in Chains
  BY DEF Withdraw, M!DeliverAndHandle, M!Deliverable, M!AcceptsPath, TypeOK,
         M!TypeOK, M!Messages
<1>2. m.sender = Bridge
  <2>1. m.sender = bridgeContract[c][m.src] /\ m.sender # Zero
    BY <1>1 DEF Withdraw, HandlePayloadSucceeds, FromRegisteredBridge
  <2>2. bridgeContract[c][m.src] \in {Bridge, Zero}
    BY <1>1 DEF TypeOK, BridgeTypeOK
  <2> QED
    BY <2>1, <2>2
<1>3. m \notin spent[c]
  BY DEF Withdraw, HandlePayloadSucceeds, NotSpent
<1>4. spent' = [spent EXCEPT ![c] = @ \cup {m}]
  BY DEF Withdraw
<1>5. balance' = [balance EXCEPT ![c][m.body.token][m.body.recipient] =
                    @ + m.body.amount]
  BY DEF Withdraw, Mint
<1>6. BridgeMessages' = BridgeMessages
  BY OtherMessages
<1>7. \A n \in BridgeMessages :
        n.dst \in Chains /\ (n \in spent'[n.dst] <=> n \in spent[n.dst] \/ n = m)
  BY <1>1, <1>4 DEF TypeOK, M!TypeOK, M!Messages, BridgeTypeOK, BridgeMessages
<1>8. m \in Pending
  BY <1>1, <1>2, <1>3 DEF Pending, BridgeMessages
<1>9. Pending' = Pending \ {m} /\ Complete' = Complete \cup {m}
  BY <1>6, <1>7, <1>8 DEF Pending, Complete
<1> QED
  BY <1>1, <1>5, <1>8, <1>9 DEF T!Arrive

LEMMA StepIsTransfer ==
  ASSUME TypeOK, MessagesFit, [Next]_vars
  PROVE  [T!Next]_T!vars
<1>1. CASE OwnerStep
  BY <1>1, OwnerStepLeaves, OtherMessages, StutterOfTransfers DEF T!vars
<1>2. CASE MailboxStep
  BY <1>2, MailboxStepLeaves, OtherMessages, StutterOfTransfers
     DEF T!vars, bridgeVars
<1>3. ASSUME NEW c \in Chains, DepositAny(c) PROVE T!Next
  BY <1>3, DepositDeparts DEF T!Next
<1>4. CASE WithdrawStep
  BY <1>4, WithdrawArrives DEF T!Next
<1> QED
  BY <1>1, <1>2, <1>3, <1>4, StepCases

(***************************************************************************)
(* The bridges implement exactly-once transfer: whatever is burned on one  *)
(* chain is paid at most once, to its recipient, in the same amount, and   *)
(* nothing is paid that was not burned.                                    *)
(***************************************************************************)
THEOREM TransfersAreExactlyOnce == Spec => ExactlyOnce
<1>1. Init => T!Init
  <2> SUFFICES ASSUME Init PROVE T!Init
    OBVIOUS
  <2>1. sent = {} /\ balance = InitialBalance
    BY DEF Init, M!Init
  <2> QED
    BY <2>1 DEF T!Init, Pending, Complete, BridgeMessages
<1>2. /\ TypeOK /\ SpentIffHandled
      /\ MP!NonceIdentifies /\ MP!ChainOfCustody
      /\ [Next]_vars
      => [T!Next]_T!vars
  BY MailboxFits, StepIsTransfer
<1> QED
  BY <1>1, <1>2, TypeCorrect, SpentIsHandled, MailboxFacts, PTL
     DEF Spec, ExactlyOnce, T!Spec

-----------------------------------------------------------------------------
(***************************************************************************)
(* Conservation.  The sum over the accounts changes by what one account    *)
(* does, the sum over the transfers by the amount of one transfer.         *)
(***************************************************************************)
LEMMA AccountChange ==
  ASSUME BridgeTypeOK, NEW c \in Chains, NEW t \in Tokens, NEW u \in Users,
         NEW v \in Nat, balance' = [balance EXCEPT ![c][t][u] = v]
  PROVE  /\ InAccounts \in Nat
         /\ InAccounts' = InAccounts + v - balance[c][t][u]
<1> DEFINE f == [k \in Accounts |-> balance[k[1]][k[2]][k[3]]]
           g == [k \in Accounts |-> balance'[k[1]][k[2]][k[3]]]
           y == <<c, t, u>>
<1>1. IsFiniteSet(Accounts)
  BY BridgeAssumptions, FiniteTriples DEF Accounts
<1>2. y \in Accounts
  BY DEF Accounts
<1>3. \A k \in Accounts : f[k] \in Nat
  BY DEF Accounts, BridgeTypeOK
<1>4. \A k \in Accounts : g[k] = IF k = y THEN v ELSE f[k]
  BY DEF Accounts, BridgeTypeOK
<1>5. f[y] = balance[c][t][u]
  BY <1>2
<1>6. /\ InAccounts = SumFunctionOnSet(f, Accounts)
      /\ InAccounts' = SumFunctionOnSet(g, Accounts)
  BY DEF InAccounts, SumFunction, Accounts
<1> HIDE DEF f, g, y
<1>7. SumFunctionOnSet(f, Accounts) \in Nat
  BY <1>1, <1>3, SumNat
<1>8. SumFunctionOnSet(g, Accounts) = SumFunctionOnSet(f, Accounts) + g[y] - f[y]
  BY <1>1, <1>2, <1>3, <1>4, SumChange
<1> QED
  BY <1>2, <1>4, <1>5, <1>6, <1>7, <1>8

amountOf == [m \in M!Messages |-> m.body.amount]

LEMMA AmountType == \A m \in M!Messages : amountOf[m] = m.body.amount /\ amountOf[m] \in Nat
  BY DEF amountOf, M!Messages, Bodies

LEMMA TransferSum ==
  ASSUME NEW P \in SUBSET M!Messages, IsFiniteSet(P)
  PROVE  SumFunction([m \in P |-> m.body.amount]) = SumFunctionOnSet(amountOf, P)
<1> DEFINE f == [m \in P |-> m.body.amount]
<1>1. \A m \in P : f[m] = amountOf[m]
  BY AmountType
<1>2. SumFunction(f) = SumFunctionOnSet(f, P)
  BY DEF SumFunction
<1> HIDE DEF f
<1>3. SumFunctionOnSet(f, P) = SumFunctionOnSet(amountOf, P)
  BY <1>1, SumSame
<1> QED
  BY <1>2, <1>3 DEF f

LEMMA OneTransferMore ==
  ASSUME NEW P \in SUBSET M!Messages, IsFiniteSet(P),
         NEW m \in M!Messages, m \notin P
  PROVE  /\ IsFiniteSet(P \cup {m})
         /\ SumFunctionOnSet(amountOf, P) \in Nat
         /\ SumFunctionOnSet(amountOf, P \cup {m})
              = SumFunctionOnSet(amountOf, P) + m.body.amount
<1>1. \A n \in P \cup {m} : amountOf[n] \in Nat
  BY AmountType
<1> QED
  BY <1>1, AmountType, FS_AddElement, SumAdd, SumNat

\* Conservation needs to know that only finitely much is on its way.
Conserved == IsFiniteSet(Pending) /\ Conservation

LEMMA DepartConserves ==
  ASSUME TypeOK, TypeOK', Conserved, NEW x \in Pending', NEW t \in Tokens,
         NEW u \in Users, T!Depart(x, t, u)
  PROVE  Conserved'
<1>1. /\ x \in M!Messages /\ x.src \in Chains /\ x.body.amount \in Nat
      /\ Pending \subseteq M!Messages
  BY DEF TypeOK, M!TypeOK, Pending, BridgeMessages, M!Messages, Bodies
<1>2. /\ x \notin Pending /\ Pending' = Pending \cup {x}
      /\ balance[x.src][t][u] >= x.body.amount
      /\ balance' = [balance EXCEPT ![x.src][t][u] = balance[x.src][t][u] - x.body.amount]
  BY DEF T!Depart
<1>3. balance[x.src][t][u] \in Nat
  BY <1>1 DEF TypeOK, BridgeTypeOK
<1>4. balance[x.src][t][u] - x.body.amount \in Nat
  BY <1>1, <1>2, <1>3
<1>5. /\ InAccounts \in Nat
      /\ InAccounts' = InAccounts + (balance[x.src][t][u] - x.body.amount)
                         - balance[x.src][t][u]
  BY <1>1, <1>2, <1>4, AccountChange DEF TypeOK
<1>6. /\ IsFiniteSet(Pending')
      /\ SumFunctionOnSet(amountOf, Pending) \in Nat
      /\ SumFunctionOnSet(amountOf, Pending')
           = SumFunctionOnSet(amountOf, Pending) + x.body.amount
  BY <1>1, <1>2, OneTransferMore DEF Conserved
<1>7. Pending' \subseteq M!Messages
  BY <1>1, <1>2
<1>8. /\ OnTheirWay = SumFunctionOnSet(amountOf, Pending)
      /\ OnTheirWay' = SumFunctionOnSet(amountOf, Pending')
  BY <1>1, <1>6, <1>7, TransferSum DEF OnTheirWay, Conserved
<1>9. InAccounts' + OnTheirWay' = InAccounts + OnTheirWay
  BY <1>1, <1>3, <1>5, <1>6, <1>8
<1> QED
  BY <1>6, <1>9 DEF Conserved, Conservation, Accounts

LEMMA ArriveConserves ==
  ASSUME TypeOK, Conserved, NEW x \in Pending, T!Arrive(x)
  PROVE  Conserved'
<1>1. /\ x \in M!Messages /\ x.dst \in Chains /\ x.body.token \in Tokens
      /\ x.body.recipient \in Users /\ x.body.amount \in Nat
      /\ Pending \subseteq M!Messages
  BY DEF TypeOK, M!TypeOK, Pending, BridgeMessages, M!Messages, Bodies
<1> DEFINE b == balance[x.dst][x.body.token][x.body.recipient]
<1>2. /\ Pending' = Pending \ {x}
      /\ balance' = [balance EXCEPT ![x.dst][x.body.token][x.body.recipient] =
                       b + x.body.amount]
  BY DEF T!Arrive
<1>3. b \in Nat
  BY <1>1 DEF TypeOK, BridgeTypeOK
<1> HIDE DEF b
<1>4. b + x.body.amount \in Nat
  BY <1>1, <1>3
<1>5. InAccounts \in Nat /\ InAccounts' = InAccounts + (b + x.body.amount) - b
  BY <1>1, <1>2, <1>4, AccountChange DEF TypeOK, b
<1>6. /\ IsFiniteSet(Pending') /\ Pending' \subseteq M!Messages
      /\ x \notin Pending' /\ Pending = Pending' \cup {x}
  BY <1>1, <1>2, FS_RemoveElement DEF Conserved
<1>7. /\ SumFunctionOnSet(amountOf, Pending') \in Nat
      /\ SumFunctionOnSet(amountOf, Pending)
           = SumFunctionOnSet(amountOf, Pending') + x.body.amount
  BY <1>1, <1>6, OneTransferMore
<1>8. /\ OnTheirWay = SumFunctionOnSet(amountOf, Pending)
      /\ OnTheirWay' = SumFunctionOnSet(amountOf, Pending')
  BY <1>1, <1>6, TransferSum DEF OnTheirWay, Conserved
<1>9. InAccounts' + OnTheirWay' = InAccounts + OnTheirWay
  BY <1>1, <1>3, <1>5, <1>7, <1>8
<1> QED
  BY <1>6, <1>9 DEF Conserved, Conservation, Accounts

LEMMA InitConserved == Init => Conserved
<1> SUFFICES ASSUME Init PROVE Conserved
  OBVIOUS
<1>1. Pending = {}
  BY DEF Init, M!Init, Pending, BridgeMessages
<1>2. IsFiniteSet({}) /\ IsFiniteSet(Accounts)
  BY FS_EmptySet, BridgeAssumptions, FiniteTriples DEF Accounts
<1>3. OnTheirWay = 0
  <2>1. OnTheirWay = SumFunctionOnSet(amountOf, {})
    BY <1>1, <1>2, TransferSum DEF OnTheirWay
  <2> QED
    BY <2>1, SumEmpty
<1>4. InAccounts = Supply * Cardinality(Accounts)
  <2> DEFINE f == [k \in Accounts |-> balance[k[1]][k[2]][k[3]]]
  <2>1. \A k \in Accounts : f[k] = Supply
    BY DEF Init, InitialBalance, Accounts
  <2>2. InAccounts = SumFunctionOnSet(f, Accounts)
    BY DEF InAccounts, SumFunction
  <2>3. Supply \in Nat
    BY BridgeAssumptions
  <2> HIDE DEF f
  <2> QED
    BY <1>2, <2>1, <2>2, <2>3, SumConstant
<1>5. Supply * Cardinality(Accounts) \in Nat
  BY <1>2, FS_CardinalityType, BridgeAssumptions, ProductOfNaturals
<1> QED
  BY <1>1, <1>2, <1>3, <1>4, <1>5 DEF Conserved, Conservation

(***************************************************************************)
(* Nothing is minted that was not burned: the accounts of all chains and   *)
(* what is on its way add up to the initial supply.  It follows from the   *)
(* refinement: departures and arrivals move one amount each.               *)
(***************************************************************************)
THEOREM SupplyIsConserved == Spec => []Conservation
<1>1. ASSUME TypeOK, TypeOK', Conserved, [T!Next]_T!vars PROVE Conserved'
  <2>1. ASSUME NEW x \in Pending', NEW t \in Tokens, NEW u \in Users,
               T!Depart(x, t, u)
        PROVE  Conserved'
    BY <1>1, <2>1, DepartConserves
  <2>2. ASSUME NEW x \in Pending, T!Arrive(x) PROVE Conserved'
    BY <1>1, <2>2, ArriveConserves
  <2>3. UNCHANGED T!vars => Conserved'
    BY <1>1 DEF T!vars, Conserved, Conservation, InAccounts, OnTheirWay, Accounts
  <2> QED
    BY <1>1, <2>1, <2>2, <2>3 DEF T!Next
<1>2. TypeOK /\ TypeOK' /\ Conserved /\ [T!Next]_T!vars => Conserved'
  BY <1>1
<1>3. Conserved => Conservation
  BY DEF Conserved
<1> QED
  BY <1>2, <1>3, InitConserved, TypeCorrect, TransfersAreExactlyOnce, PTL
     DEF Spec, ExactlyOnce, T!Spec

(***************************************************************************)
(* Pausing the mailbox of a chain stops the bridge there: nothing is       *)
(* burned, minted or marked as spent.                                      *)
(***************************************************************************)
THEOREM PauseStopsBridge == Spec => PausedMailboxStopsBridge
<1>1. ASSUME TypeOK, [Next]_vars, NEW c \in Chains, paused[c]
      PROVE  balance'[c] = balance[c] /\ spent'[c] = spent[c]
  <2>1. CASE OwnerStep
    BY <2>1, OwnerStepLeaves
  <2>2. CASE MailboxStep
    BY <2>2, MailboxStepLeaves DEF bridgeVars
  <2>3. ASSUME NEW d \in Chains, DepositAny(d)
        PROVE  balance'[c] = balance[c] /\ spent'[c] = spent[c]
    <3> PICK u \in Users, recipient \in Users, e \in Chains, t \in Tokens,
             amount \in Amounts, destinationCaller \in Users \cup {Zero},
             value \in Values :
               Deposit(d, u, e, t, recipient, amount, destinationCaller, value)
      BY <2>3 DEF DepositAny
    <3>1. /\ ~paused[d] /\ spent' = spent
          /\ balance' = [balance EXCEPT ![d][t][u] = @ - amount]
      BY DEF Deposit, Burn, M!Send, M!CanSend, M!WhenNotPaused
    <3>2. d # c
      BY <1>1, <3>1
    <3> QED
      BY <1>1, <3>1, <3>2 DEF TypeOK, BridgeTypeOK
  <2>4. ASSUME NEW d \in Chains, NEW m, NEW e, NEW caller,
               Withdraw(d, m, e, caller)
        PROVE  balance'[c] = balance[c] /\ spent'[c] = spent[c]
    <3>1. ~paused[d]
      BY <2>4 DEF Withdraw, M!DeliverAndHandle, M!Deliverable, M!WhenNotPaused
    <3>2. d # c
      BY <1>1, <3>1
    <3>3. spent' = [spent EXCEPT ![d] = @ \cup {m}]
      BY <2>4 DEF Withdraw
    <3>4. balance' = [balance EXCEPT ![d][m.body.token][m.body.recipient] =
                        @ + m.body.amount]
      BY <2>4 DEF Withdraw, Mint
    <3> QED
      BY <1>1, <3>2, <3>3, <3>4 DEF TypeOK, BridgeTypeOK
  <2> QED
    BY <1>1, <2>1, <2>2, <2>3, <2>4, StepCases DEF WithdrawStep
<1>2. TypeOK /\ [Next]_vars
        => \A c \in Chains : paused[c] => /\ balance'[c] = balance[c]
                                         /\ spent'[c] = spent[c]
  BY <1>1
<1> QED
  BY <1>2, TypeCorrect, PTL DEF Spec, PausedMailboxStopsBridge

-----------------------------------------------------------------------------
(***************************************************************************)
(* The lane over the bridges.  Whatever the scripts and the pools do to a  *)
(* bridge is a step of BridgeV2.                                           *)
(***************************************************************************)
QuietStep ==
  \/ \E c \in Chains :
       MailboxSetup(c) \/ BridgeSetup(c) \/ LimitSetup(c) \/ TimePasses(c)
  \/ NotarizeAny
  \/ UNCHANGED allVars

LaneDeposit ==
  \/ \E p \in Pools, d \in Chains, u \in People, amount \in Amounts :
       LockOrBurn(p, d, u, amount)
  \/ \E c \in Chains, u \in People, d \in Chains, t \in Tokens, amount \in Amounts :
       DepositDirectly(c, u, d, t, amount)

LaneDelivery ==
  \/ \E c \in Chains, q \in Pools, x \in ccip : \E m \in sent, e \in 1..epoch[c] :
       Home[q] = c /\ ReleaseOrMint(q, x, m, e)
  \/ \E c \in Chains, u \in People : \E m \in sent, e \in 1..epoch[c] :
       RelayDirectly(c, m, e, u)

LEMMA LaneStepCases ==
  ASSUME [LaneNext]_allVars
  PROVE  \/ QuietStep \/ LaneDeposit \/ LaneDelivery
         \/ \E c \in Chains : PoolSetup(c)
<1>1. ASSUME NEW c \in Chains, TransferStep(c)
      PROVE  QuietStep \/ LaneDeposit \/ LaneDelivery
  BY <1>1 DEF TransferStep, QuietStep, LaneDeposit, LaneDelivery
<1>2. CASE LaneNext
  BY <1>1, <1>2 DEF LaneNext, QuietStep
<1> QED
  BY <1>2 DEF QuietStep

LEMMA PoolSetupLeaves ==
  ASSUME NEW c \in Chains, PoolSetup(c)
  PROVE  UNCHANGED <<vars, ccip, released>>
  BY DEF PoolSetup, ApplyChainUpdates, FinishPoolSetup, SetPath, StopPoolSetup,
         RemoveChain, RemovePath

LEMMA QuietLeaves ==
  ASSUME QuietStep
  PROVE  UNCHANGED <<laneVars, sent, globalNonce, spent>>
<1> USE DEF M!sendVars, bridgeVars
<1>1. ASSUME NEW c, MailboxSetup(c)
      PROVE  UNCHANGED <<laneVars, sent, globalNonce, spent>>
  BY <1>1 DEF MailboxSetup, MailboxEnablePath, MailboxSetConfig,
     M!EnableMessagePath, M!SetSenderConfig
<1>2. ASSUME NEW c, BridgeSetup(c) \/ LimitSetup(c) \/ TimePasses(c)
      PROVE  UNCHANGED <<laneVars, sent, globalNonce, spent>>
  BY <1>2 DEF BridgeSetup, LimitSetup, TimePasses, SetupDestinationBridge,
     SetupDestinationToken, WhitelistPool, SetupTokenRateLimits,
     SetDestinationBridge, AddDestinationToken, SetSenderConfig,
     SetTokenRateLimits, Tick, mailboxVars
<1>3. NotarizeAny => UNCHANGED <<laneVars, sent, globalNonce, spent>>
  BY DEF NotarizeAny, Notarize, M!Notarize
<1>4. UNCHANGED allVars => UNCHANGED <<laneVars, sent, globalNonce, spent>>
  BY DEF allVars, vars, mailboxVars
<1> QED
  BY <1>1, <1>2, <1>3, <1>4 DEF QuietStep

\* The path a pool sends along.
LEMMA PathType ==
  ASSUME LaneTypeOK, NEW p \in Pools, NEW d \in Chains, path[p][d] # NoPath
  PROVE  /\ path[p][d].chain \in Chains /\ path[p][d].caller \in Pools
         /\ p \in Users /\ Home[p] \in Chains /\ PoolBridgeToken[p] \in Tokens
<1>1. path[p][d] \in [chain : Chains, caller : Pools, adapter : Tokens \cup {Zero}]
  BY DEF LaneTypeOK, PathTypes
<1> QED
  BY <1>1, LaneAssumptions

LEMMA LaneIsBridge ==
  ASSUME LaneTypeOK, [LaneNext]_allVars
  PROVE  [Next]_vars
<1>1. ASSUME NEW c \in Chains, MailboxSetup(c) PROVE Next
  <2>1. ASSUME NEW d \in Chains, NEW direction \in M!Directions, <<c, d>> \in Links,
               MailboxEnablePath(c, d, direction)
        PROVE  AdminOfMailbox(c)
    BY <2>1 DEF MailboxEnablePath, AdminOfMailbox, M!AdminOfMailbox
  <2>2. ASSUME NEW size \in BridgeSizes, NEW b \in BOOLEAN,
               MailboxSetConfig(c, Bridge, size, b)
        PROVE  AdminOfMailbox(c)
    <3>1. size \in PayloadSizes /\ Bridge \in M!Senders
      BY LaneAssumptions DEF M!Senders, Addresses
    <3> QED
      BY <2>2, <3>1 DEF MailboxSetConfig, AdminOfMailbox, M!AdminOfMailbox
  <2>3. AdminOfMailbox(c)
    BY <1>1, <2>1, <2>2 DEF MailboxSetup
  <2> QED
    BY <2>3 DEF Next, Admin
<1>2. ASSUME NEW c \in Chains, BridgeSetup(c) PROVE Next
  <2>1. Home \in [Pools -> Chains] /\ Pools \subseteq Users /\ Bridge \in {Bridge, Zero}
    BY LaneAssumptions
  <2>2. AdminOfBridge(c)
    BY <1>2, <2>1 DEF BridgeSetup, SetupDestinationBridge, SetupDestinationToken,
       WhitelistPool, AdminOfBridge
  <2> QED
    BY <2>2 DEF Next, Admin
<1>3. ASSUME NEW c \in Chains, LimitSetup(c) PROVE Next
  <2>1. AdminOfBridge(c)
    BY <1>3 DEF LimitSetup, SetupTokenRateLimits, AdminOfBridge
  <2> QED
    BY <2>1 DEF Next, Admin
<1>4. ASSUME NEW c \in Chains, TimePasses(c) PROVE Next
  BY <1>4 DEF TimePasses, Next
<1>5. CASE NotarizeAny
  BY <1>5 DEF NotarizeAny, Next
<1>6. ASSUME NEW p \in Pools, NEW d \in Chains, NEW u \in People,
             NEW amount \in Amounts, LockOrBurn(p, d, u, amount)
      PROVE  Next
  <2>1. path[p][d] # NoPath
    BY <1>6 DEF LockOrBurn, CanLockOrBurn
  <2>2. u \in Users /\ 0 \in Values /\ path[p][d].caller \in Users \cup {Zero}
    BY <2>1, PathType, LaneAssumptions DEF People
  <2>3. Deposit(Home[p], p, path[p][d].chain, PoolBridgeToken[p], u, amount,
                path[p][d].caller, 0)
    BY <1>6 DEF LockOrBurn, CallerAhead
  <2>4. DepositAny(Home[p])
    BY <2>1, <2>2, <2>3, PathType DEF DepositAny
  <2>5. Home[p] \in Chains
    BY LaneAssumptions
  <2> QED
    BY <2>4, <2>5 DEF Next
<1>7. ASSUME NEW c \in Chains, NEW u \in People, NEW d \in Chains, NEW t \in Tokens,
             NEW amount \in Amounts, DepositDirectly(c, u, d, t, amount)
      PROVE  Next
  <2>1. u \in Users /\ 0 \in Values
    BY LaneAssumptions DEF People
  <2>2. DepositAny(c)
    BY <1>7, <2>1 DEF DepositDirectly, DepositAny
  <2> QED
    BY <2>2 DEF Next
<1>8. CASE LaneDelivery
  <2>1. ASSUME NEW c \in Chains, NEW q \in Pools, NEW x \in ccip, NEW m \in sent,
               NEW e \in 1..epoch[c], Home[q] = c, ReleaseOrMint(q, x, m, e)
        PROVE  Next
    <3>1. x.selector = c /\ Withdraw(c, m, e, q) /\ q \in Users
      BY <2>1, LaneAssumptions DEF ReleaseOrMint, CanReleaseOrMint, PoolsOf
    <3>2. RelayAny(c)
      BY <3>1 DEF RelayAny
    <3> QED
      BY <3>2 DEF Next
  <2>2. ASSUME NEW c \in Chains, NEW u \in People, NEW m \in sent,
               NEW e \in 1..epoch[c], RelayDirectly(c, m, e, u)
        PROVE  Next
    <3>1. RelayAny(c)
      BY <2>2 DEF RelayDirectly, RelayAny, People
    <3> QED
      BY <3>1 DEF Next
  <2> QED
    BY <1>8, <2>1, <2>2 DEF LaneDelivery
<1>9. CASE QuietStep
  BY <1>1, <1>2, <1>3, <1>4, <1>5, <1>9 DEF QuietStep, allVars
<1>10. CASE LaneDeposit
  BY <1>6, <1>7, <1>10 DEF LaneDeposit
<1>11. ASSUME NEW c \in Chains, PoolSetup(c) PROVE UNCHANGED vars
  BY <1>11, PoolSetupLeaves
<1> QED
  BY <1>8, <1>9, <1>10, <1>11, LaneStepCases

-----------------------------------------------------------------------------
\* What a pool sends, and what it tells CCIP.
LEMMA LockOrBurnSends ==
  ASSUME LaneTypeOK, NEW p \in Pools, NEW d \in Chains, NEW u \in People,
         NEW amount \in Amounts, LockOrBurn(p, d, u, amount)
  PROVE  \E x :
           /\ x = [payload |-> x.payload, selector |-> d,
                   token |-> remoteToken[p][d], pool |-> p]
           /\ x.payload.src = Home[p] /\ x.payload.nonce = globalNonce[Home[p]]
           /\ x.payload.sender = Bridge /\ x.payload.recipient = Bridge
           /\ x.payload.body.amount # 0
           /\ x.payload.destinationCaller \in Pools
           /\ x.payload.body.token \in Tokens
           /\ x.payload.body.token \in {remoteToken[p][d], path[p][d].adapter}
           /\ remoteToken[p][d] \in Tokens
           /\ ccip' = ccip \cup {x}
           /\ sent' = sent \cup {x.payload}
           /\ globalNonce' = [globalNonce EXCEPT ![Home[p]] = @ + 1]
           /\ UNCHANGED <<poolVars, released, spent>>
<1> DEFINE c == Home[p]
           way == path[p][d]
           body == [token |-> BridgeTokenAhead(p, way), recipient |-> u,
                    amount |-> amount]
           m == M!Payload(c, Bridge, way.chain, bridgeContract[c][way.chain],
                          way.caller, body)
           x == [payload |-> m, selector |-> d, token |-> remoteToken[p][d],
                 pool |-> p]
<1>1. way # NoPath /\ remoteToken[p][d] # Zero
  BY DEF LockOrBurn, CanLockOrBurn, Supports
<1>2. /\ way.chain \in Chains /\ way.caller \in Pools /\ c \in Chains
      /\ PoolBridgeToken[p] \in Tokens
  BY <1>1, PathType
<1>3. remoteToken[p][d] \in Tokens
  BY <1>1 DEF LaneTypeOK
<1>4. /\ BridgeTokenAhead(p, way) \in Tokens
      /\ BridgeTokenAhead(p, way) \in {remoteToken[p][d], way.adapter}
  <2>1. BridgeTokenAhead(p, way) # Zero
    BY DEF LockOrBurn, CanLockOrBurn, CanDeposit, BridgeTokenAhead
  <2>2. BridgeTokenAhead(p, way) \in Tokens \cup {Zero}
    BY <1>2 DEF BridgeTokenAhead, LaneTypeOK, TypeOK, BridgeTypeOK
  <2> QED
    BY <2>1, <2>2 DEF LockOrBurn, CanLockOrBurn, TokensAgree
<1>5. /\ ccip' = ccip \cup {x} /\ UNCHANGED <<poolVars, released>>
  BY DEF LockOrBurn, CallerAhead, DepositBody, BridgeTokenAhead
<1>6. /\ M!Send(c, Bridge, way.chain, bridgeContract[c][way.chain], way.caller, body, 0)
      /\ spent' = spent
  BY DEF LockOrBurn, CallerAhead, Deposit, DepositBody, BridgeTokenAhead
<1>7. sent' = sent \cup {m} /\ globalNonce' = [globalNonce EXCEPT ![c] = @ + 1]
  BY <1>6 DEF M!Send, M!UseNonce
<1>8. /\ m.src = c /\ m.nonce = globalNonce[c] /\ m.destinationCaller = way.caller
      /\ m.sender = Bridge /\ m.recipient = bridgeContract[c][way.chain]
      /\ m.body.token = BridgeTokenAhead(p, way) /\ m.body.amount = amount
  BY DEF M!Payload
<1>9. x = [payload |-> x.payload, selector |-> d, token |-> remoteToken[p][d],
           pool |-> p] /\ x.payload = m
  OBVIOUS
<1>10. amount # 0 /\ bridgeContract[c][way.chain] = Bridge
  <2>1. amount # 0 /\ bridgeContract[c][way.chain] # Zero
    BY DEF LockOrBurn, CanLockOrBurn, CanDeposit
  <2>2. bridgeContract[c][way.chain] \in {Bridge, Zero}
    BY <1>2 DEF LaneTypeOK, TypeOK, BridgeTypeOK
  <2> QED
    BY <2>1, <2>2
<1> HIDE DEF x, m, body
<1> QED
  BY <1>2, <1>3, <1>4, <1>5, <1>6, <1>7, <1>8, <1>9, <1>10

LEMMA DirectDepositSends ==
  ASSUME NEW c \in Chains, NEW u, NEW d, NEW t, NEW amount,
         DepositDirectly(c, u, d, t, amount)
  PROVE  \E m : /\ m.src = c /\ m.nonce = globalNonce[c]
                /\ sent' = sent \cup {m}
                /\ globalNonce' = [globalNonce EXCEPT ![c] = @ + 1]
                /\ UNCHANGED <<laneVars, spent>>
<1> DEFINE body == [token |-> destinationToken[c][d][t], recipient |-> u,
                    amount |-> amount]
           m == M!Payload(c, Bridge, d, bridgeContract[c][d], Zero, body)
<1>1. /\ M!Send(c, Bridge, d, bridgeContract[c][d], Zero, body, 0)
      /\ UNCHANGED <<laneVars, spent>>
  BY DEF DepositDirectly, Deposit, DepositBody
<1>2. sent' = sent \cup {m} /\ globalNonce' = [globalNonce EXCEPT ![c] = @ + 1]
  BY <1>1 DEF M!Send, M!UseNonce
<1>3. m.src = c /\ m.nonce = globalNonce[c]
  BY DEF M!Payload
<1> QED
  BY <1>1, <1>2, <1>3

\* What a delivery changes: a pool pays a message of CCIP, or somebody else a
\* payload that is not reserved for a pool.
Pays(c, m) == spent' = [spent EXCEPT ![c] = @ \cup {m}]

LEMMA DeliveryPays ==
  ASSUME LaneDelivery
  PROVE  /\ UNCHANGED <<poolVars, sent, globalNonce, ccip>>
         /\ \/ UNCHANGED <<spent, released>>
            \/ \E c \in Chains, x \in ccip :
                 /\ x.payload.dst = c /\ x.payload \in sent
                 /\ Pays(c, x.payload) /\ released' = released \cup {x}
            \/ \E c \in Chains, m \in sent :
                 /\ m.destinationCaller \notin Pools
                 /\ Pays(c, m) /\ UNCHANGED released
<1>1. ASSUME NEW c, NEW m, NEW e, NEW caller, NEW success,
             M!DeliverAndHandle(c, m, e, caller, success)
      PROVE  /\ UNCHANGED <<sent, globalNonce>>
             /\ m.dst = c /\ m.destinationCaller \in {Zero, caller}
  BY <1>1 DEF M!DeliverAndHandle, M!Deliverable, M!AcceptsPath, M!sendVars
<1>2. ASSUME NEW c \in Chains, NEW q \in Pools, NEW x \in ccip, NEW m \in sent,
             NEW e, Home[q] = c, ReleaseOrMint(q, x, m, e)
      PROVE  /\ UNCHANGED <<poolVars, sent, globalNonce, ccip>>
             /\ x.payload.dst = c /\ x.payload \in sent
             /\ Pays(c, x.payload) /\ released' = released \cup {x}
  <2>1. x.selector = c /\ m = x.payload
    BY <1>2 DEF ReleaseOrMint, CanReleaseOrMint, PoolsOf, SamePayload
  <2>2. Withdraw(c, m, e, q)
    BY <1>2, <2>1 DEF ReleaseOrMint
  <2>3. M!DeliverAndHandle(c, m, e, q, TRUE) /\ Pays(c, m)
    BY <2>2 DEF Withdraw, Pays
  <2>4. UNCHANGED <<poolVars, ccip>> /\ released' = released \cup {x}
    BY <1>2 DEF ReleaseOrMint
  <2> QED
    BY <1>1, <2>1, <2>3, <2>4
<1>3. ASSUME NEW c \in Chains, NEW u \in People, NEW m \in sent, NEW e,
             RelayDirectly(c, m, e, u)
      PROVE  /\ UNCHANGED <<poolVars, sent, globalNonce, ccip, released>>
             /\ m.destinationCaller \notin Pools
             /\ Pays(c, m) \/ UNCHANGED spent
  <2>1. u \notin Pools /\ Zero \notin Pools
    BY LaneAssumptions, BridgeAssumptions DEF People, Addresses
  <2>2. \E success \in BOOLEAN : M!DeliverAndHandle(c, m, e, u, success)
    BY <1>3 DEF RelayDirectly, Withdraw, FailToWithdraw
  <2>3. Pays(c, m) \/ UNCHANGED spent
    BY <1>3 DEF RelayDirectly, Withdraw, FailToWithdraw, Pays, bridgeVars
  <2>4. UNCHANGED laneVars
    BY <1>3 DEF RelayDirectly
  <2> QED
    BY <1>1, <2>1, <2>2, <2>3, <2>4 DEF laneVars
<1>4. ASSUME NEW c \in Chains, NEW q \in Pools, NEW x \in ccip, NEW m \in sent,
             NEW e, Home[q] = c, ReleaseOrMint(q, x, m, e)
      PROVE  \E b \in Chains, y \in ccip :
               /\ y.payload.dst = b /\ y.payload \in sent
               /\ Pays(b, y.payload) /\ released' = released \cup {y}
  BY <1>2, <1>4
<1> QED
  BY <1>2, <1>3, <1>4 DEF LaneDelivery

-----------------------------------------------------------------------------
LEMMA PoolSetupTypes ==
  ASSUME LaneTypeOK, NEW c \in Chains, PoolSetup(c)
  PROVE  /\ remoteToken' \in [Pools -> [Chains -> Tokens \cup {Zero}]]
         /\ remotePools' \in [Pools -> [Chains -> SUBSET Pools]]
         /\ path' \in [Pools -> [Chains -> PathTypes]]
         /\ running' \in [Pools -> SetupArgs \cup {Idle}]
<1> DEFINE Goal ==
      /\ remoteToken' \in [Pools -> [Chains -> Tokens \cup {Zero}]]
      /\ remotePools' \in [Pools -> [Chains -> SUBSET Pools]]
      /\ path' \in [Pools -> [Chains -> PathTypes]]
      /\ running' \in [Pools -> SetupArgs \cup {Idle}]
<1> USE DEF LaneTypeOK
<1>1. ASSUME NEW p \in Pools, NEW a \in PoolSetups[p]
      PROVE  /\ a \in SetupArgs /\ a.selector \in Chains
             /\ a.token \in Tokens \cup {Zero} /\ a.pool \in Pools
             /\ [chain |-> a.chain, caller |-> a.pool, adapter |-> a.adapter]
                  \in PathTypes
  BY LaneAssumptions DEF SetupArgs, PathTypes
<1>2. ASSUME NEW p \in Pools, NEW a \in PoolSetups[p], ApplyChainUpdates(p, a)
      PROVE  Goal
  BY <1>1, <1>2 DEF ApplyChainUpdates
<1>3. ASSUME NEW p \in Pools, NEW a \in PoolSetups[p], FinishPoolSetup(p, a)
      PROVE  Goal
  BY <1>1, <1>3 DEF FinishPoolSetup, SetPath
<1>4. ASSUME NEW p \in Pools, StopPoolSetup(p) PROVE Goal
  BY <1>4 DEF StopPoolSetup
<1>5. ASSUME NEW p \in Pools, NEW d \in Chains, RemoveChain(p, d) PROVE Goal
  BY <1>5 DEF RemoveChain
<1>6. ASSUME NEW p \in Pools, NEW d \in Chains, RemovePath(p, d) PROVE Goal
  BY <1>6 DEF RemovePath, PathTypes
<1> HIDE DEF Goal
<1>7. Goal
  BY <1>2, <1>3, <1>4, <1>5, <1>6 DEF PoolSetup
<1> QED
  BY <1>7 DEF Goal

LEMMA NextLaneTypeOK ==
  ASSUME LaneTypeOK, [LaneNext]_allVars
  PROVE  LaneTypeOK'
<1>1. TypeOK'
  BY LaneIsBridge, NextTypeOK DEF LaneTypeOK
<1>2. ASSUME UNCHANGED laneVars PROVE LaneTypeOK'
  BY <1>1, <1>2 DEF LaneTypeOK, laneVars, poolVars
<1>3. ASSUME UNCHANGED poolVars, ccip' \subseteq CcipMessages, released' \subseteq ccip'
      PROVE  LaneTypeOK'
  BY <1>1, <1>3 DEF LaneTypeOK, poolVars
<1>4. ASSUME NEW c \in Chains, PoolSetup(c) PROVE LaneTypeOK'
  <2>1. UNCHANGED <<ccip, released>>
    BY <1>4, PoolSetupLeaves
  <2> QED
    BY <1>1, <1>4, <2>1, PoolSetupTypes DEF LaneTypeOK
<1>5. ASSUME NEW p \in Pools, NEW d \in Chains, NEW u \in People,
             NEW amount \in Amounts, LockOrBurn(p, d, u, amount)
      PROVE  LaneTypeOK'
  <2> PICK x :
        /\ x = [payload |-> x.payload, selector |-> d,
                token |-> remoteToken[p][d], pool |-> p]
        /\ remoteToken[p][d] \in Tokens
        /\ ccip' = ccip \cup {x}
        /\ sent' = sent \cup {x.payload}
        /\ UNCHANGED <<poolVars, released>>
    BY <1>5, LockOrBurnSends
  <2>1. x.payload \in M!Messages
    BY <1>1 DEF TypeOK, M!TypeOK
  <2>2. x \in CcipMessages
    BY <2>1 DEF CcipMessages
  <2> QED
    BY <1>3, <2>2 DEF LaneTypeOK
<1>6. ASSUME NEW c \in Chains, NEW u \in People, NEW d \in Chains, NEW t \in Tokens,
             NEW amount \in Amounts, DepositDirectly(c, u, d, t, amount)
      PROVE  LaneTypeOK'
  BY <1>2, <1>6 DEF DepositDirectly
<1>7. CASE LaneDelivery
  <2>1. UNCHANGED <<poolVars, ccip>> /\ released' \subseteq ccip
    BY <1>7, DeliveryPays DEF LaneTypeOK
  <2> QED
    BY <1>3, <2>1 DEF LaneTypeOK
<1> QED
  BY <1>2, <1>4, <1>5, <1>6, <1>7, LaneStepCases, QuietLeaves DEF LaneDeposit

(***************************************************************************)
(* Types of pools, paths, scripts and CCIP messages over typed bridges, at *)
(* whatever point of the setup the first transfer is made.                 *)
(***************************************************************************)
THEOREM LaneTypeCorrect == LaneSpec => []LaneTypeOK
<1>1. NothingSent => LaneTypeOK
  BY DEF NothingSent
<1>2. LaneTypeOK /\ [LaneNext]_allVars => LaneTypeOK'
  BY NextLaneTypeOK
<1> QED
  BY <1>1, <1>2, PTL DEF LaneSpec

(***************************************************************************)
(* Whatever a script, a pool or CCIP does (setup tasks, lockOrBurn,        *)
(* releaseOrMint) is to the bridges and mailboxes under it something that  *)
(* an owner, a user or a relayer could have done.                          *)
(***************************************************************************)
THEOREM LaneUsesBridges == LaneSpec => [][Next]_vars
<1>1. LaneTypeOK /\ [LaneNext]_allVars => [Next]_vars
  BY LaneIsBridge
<1> QED
  BY <1>1, LaneTypeCorrect, PTL DEF LaneSpec

-----------------------------------------------------------------------------
(***************************************************************************)
(* A payload of a CCIP message is its own only, and reserved for pools.    *)
(***************************************************************************)
CcipFits ==
  \A x \in ccip :
    /\ x.payload \in sent
    /\ x.payload.destinationCaller \in Pools
    /\ \A y \in ccip : y.payload = x.payload => y = x

LaneInv == LaneTypeOK /\ MessagesFit /\ CcipFits /\ ReleasedIffSpent

LEMMA NewMessageFits ==
  ASSUME LaneInv, NEW m, NEW c \in Chains, m.src = c, m.nonce = globalNonce[c],
         sent' = sent \cup {m}, globalNonce' = [globalNonce EXCEPT ![c] = @ + 1],
         UNCHANGED spent
  PROVE  MessagesFit' /\ m \notin sent /\ \A d \in Chains : m \notin spent[d]
<1>1. /\ globalNonce \in [Chains -> Nat]
      /\ \A n \in sent : n.src \in Chains /\ n.nonce \in Nat
  BY DEF LaneInv, LaneTypeOK, TypeOK, M!TypeOK, M!Messages
<1>2. \A n \in sent : n.nonce < globalNonce[n.src]
  BY DEF LaneInv, MessagesFit
<1>3. m \notin sent
  BY <1>1, <1>2
<1>4. \A n \in sent' : n.nonce < globalNonce'[n.src]
  <2>1. \A d \in Chains : globalNonce'[d] \in Nat /\ globalNonce[d] <= globalNonce'[d]
    BY <1>1
  <2>2. m.nonce < globalNonce'[m.src]
    BY <1>1
  <2>3. ASSUME NEW n \in sent PROVE n.nonce < globalNonce'[n.src]
    BY <1>1, <1>2, <2>1
  <2> QED
    BY <2>2, <2>3
<1> QED
  BY <1>3, <1>4 DEF LaneInv, MessagesFit

LEMMA LockOrBurnFits ==
  ASSUME LaneInv, NEW p \in Pools, NEW d \in Chains, NEW u \in People,
         NEW amount \in Amounts, LockOrBurn(p, d, u, amount), LaneTypeOK'
  PROVE  MessagesFit' /\ CcipFits' /\ ReleasedIffSpent'
<1> PICK x :
      /\ x.payload.src = Home[p] /\ x.payload.nonce = globalNonce[Home[p]]
      /\ x.payload.destinationCaller \in Pools
      /\ ccip' = ccip \cup {x}
      /\ sent' = sent \cup {x.payload}
      /\ globalNonce' = [globalNonce EXCEPT ![Home[p]] = @ + 1]
      /\ UNCHANGED <<released, spent>>
  BY LockOrBurnSends DEF LaneInv
<1>1. Home[p] \in Chains
  BY LaneAssumptions
<1>2. /\ MessagesFit' /\ x.payload \notin sent
      /\ \A c \in Chains : x.payload \notin spent[c]
  BY <1>1, NewMessageFits
<1>3. \A y \in ccip : y.payload \in sent /\ y.payload # x.payload
  BY <1>2 DEF LaneInv, CcipFits
<1>4. CcipFits'
  BY <1>3 DEF LaneInv, CcipFits
<1>5. x \notin released /\ x.payload.dst \in Chains
  <2>1. x.payload \in M!Messages
    BY DEF LaneTypeOK, TypeOK, M!TypeOK
  <2> QED
    BY <1>3, <2>1 DEF LaneInv, LaneTypeOK, M!Messages
<1>6. ReleasedIffSpent'
  BY <1>2, <1>3, <1>5 DEF LaneInv, ReleasedIffSpent
<1> QED
  BY <1>2, <1>4, <1>6

LEMMA DeliveryFits ==
  ASSUME LaneInv, LaneDelivery
  PROVE  MessagesFit' /\ CcipFits' /\ ReleasedIffSpent'
<1>1. UNCHANGED <<sent, globalNonce, ccip>>
  BY DeliveryPays
<1>2. CcipFits'
  BY <1>1 DEF LaneInv, CcipFits
<1>3. /\ spent \in [Chains -> SUBSET M!Messages]
      /\ \A x \in ccip : x.payload.dst \in Chains
  BY DEF LaneInv, LaneTypeOK, TypeOK, BridgeTypeOK, CcipMessages, M!Messages
<1>4. CASE UNCHANGED <<spent, released>>
  BY <1>1, <1>2, <1>4 DEF LaneInv, MessagesFit, ReleasedIffSpent
<1>5. ASSUME NEW c \in Chains, NEW x \in ccip, x.payload.dst = c,
             x.payload \in sent, Pays(c, x.payload), released' = released \cup {x}
      PROVE  MessagesFit' /\ ReleasedIffSpent'
  <2>1. \A d \in Chains :
          spent'[d] = IF d = c THEN spent[d] \cup {x.payload} ELSE spent[d]
    BY <1>3, <1>5 DEF Pays
  <2>2. MessagesFit'
    BY <1>1, <1>5, <2>1 DEF LaneInv, MessagesFit
  <2>3. ASSUME NEW y \in ccip
        PROVE  y \in released' <=> y.payload \in spent'[y.payload.dst]
    <3>1. y = x <=> y.payload = x.payload
      BY DEF LaneInv, CcipFits
    <3>2. y \in released <=> y.payload \in spent[y.payload.dst]
      BY DEF LaneInv, ReleasedIffSpent
    <3> QED
      BY <1>3, <1>5, <2>1, <3>1, <3>2
  <2> QED
    BY <1>1, <2>2, <2>3 DEF ReleasedIffSpent
<1>6. ASSUME NEW c \in Chains, NEW m \in sent, m.destinationCaller \notin Pools,
             Pays(c, m), UNCHANGED released
      PROVE  MessagesFit' /\ ReleasedIffSpent'
  <2>1. \A d \in Chains : spent'[d] = IF d = c THEN spent[d] \cup {m} ELSE spent[d]
    BY <1>3, <1>6 DEF Pays
  <2>2. MessagesFit'
    BY <1>1, <2>1 DEF LaneInv, MessagesFit
  <2>3. \A y \in ccip : y.payload # m
    BY <1>6 DEF LaneInv, CcipFits
  <2>4. ReleasedIffSpent'
    BY <1>1, <1>3, <1>6, <2>1, <2>3 DEF LaneInv, ReleasedIffSpent
  <2> QED
    BY <2>2, <2>4
<1> QED
  BY <1>2, <1>4, <1>5, <1>6, DeliveryPays

LEMMA NextLaneInv ==
  ASSUME LaneInv, [LaneNext]_allVars
  PROVE  LaneInv'
<1>1. LaneTypeOK'
  BY NextLaneTypeOK DEF LaneInv
<1>2. ASSUME UNCHANGED <<sent, globalNonce, spent, ccip, released>>
      PROVE  MessagesFit' /\ CcipFits' /\ ReleasedIffSpent'
  BY <1>2 DEF LaneInv, MessagesFit, CcipFits, ReleasedIffSpent
<1>3. ASSUME QuietStep
      PROVE  MessagesFit' /\ CcipFits' /\ ReleasedIffSpent'
  BY <1>2, <1>3, QuietLeaves DEF laneVars
<1>4. ASSUME NEW c \in Chains, PoolSetup(c)
      PROVE  MessagesFit' /\ CcipFits' /\ ReleasedIffSpent'
  BY <1>2, <1>4, PoolSetupLeaves DEF vars, mailboxVars, bridgeVars
<1>5. ASSUME NEW c \in Chains, NEW u \in People, NEW d \in Chains, NEW t \in Tokens,
             NEW amount \in Amounts, DepositDirectly(c, u, d, t, amount)
      PROVE  MessagesFit' /\ CcipFits' /\ ReleasedIffSpent'
  <2> PICK m : /\ m.src = c /\ m.nonce = globalNonce[c]
               /\ sent' = sent \cup {m}
               /\ globalNonce' = [globalNonce EXCEPT ![c] = @ + 1]
               /\ UNCHANGED <<laneVars, spent>>
    BY <1>5, DirectDepositSends
  <2>1. MessagesFit'
    BY NewMessageFits
  <2>2. CcipFits' /\ ReleasedIffSpent'
    BY DEF laneVars, LaneInv, CcipFits, ReleasedIffSpent
  <2> QED
    BY <2>1, <2>2
<1>6. ASSUME LaneDeposit
      PROVE  MessagesFit' /\ CcipFits' /\ ReleasedIffSpent'
  BY <1>1, <1>5, <1>6, LockOrBurnFits DEF LaneDeposit
<1>7. MessagesFit' /\ CcipFits' /\ ReleasedIffSpent'
  BY <1>3, <1>4, <1>6, DeliveryFits, LaneStepCases
<1> QED
  BY <1>1, <1>7 DEF LaneInv

(***************************************************************************)
(* CCIP and the bridge agree on what has been paid, whatever is configured *)
(* in between, and whoever else uses the bridge.                           *)
(***************************************************************************)
THEOREM CcipAndBridgeAgree == LaneSpec => []ReleasedIffSpent
<1>1. NothingSent => LaneInv
  BY DEF NothingSent, LaneInv, MessagesFit, CcipFits, ReleasedIffSpent, LaneTypeOK
<1>2. LaneInv /\ [LaneNext]_allVars => LaneInv'
  BY NextLaneInv
<1>3. LaneInv => ReleasedIffSpent
  BY DEF LaneInv
<1> QED
  BY <1>1, <1>2, <1>3, PTL DEF LaneSpec

(***************************************************************************)
(* What CCIP carries is transferred exactly once too: whatever the scripts *)
(* have configured so far, and whatever is in the accounts when the lanes  *)
(* open, every step of a pool, of CCIP and of those who use the bridge     *)
(* past them (lockOrBurn, releaseOrMint, deposit, deliverAndHandle) is the *)
(* departure of a new transfer, the one arrival of a pending one, or no    *)
(* transfer at all.                                                        *)
(***************************************************************************)
THEOREM LaneTransfersAreExactlyOnce ==
  LaneSpec => Pending = {} /\ Complete = {} /\ [][T!Next]_T!vars
<1>1. NothingSent => LaneInv /\ Pending = {} /\ Complete = {}
  BY DEF NothingSent, LaneInv, MessagesFit, CcipFits, ReleasedIffSpent, LaneTypeOK,
         Pending, Complete, BridgeMessages
<1>2. LaneInv /\ [LaneNext]_allVars => LaneInv'
  BY NextLaneInv
<1>3. LaneInv /\ [Next]_vars => [T!Next]_T!vars
  BY StepIsTransfer DEF LaneInv, LaneTypeOK
<1> QED
  BY <1>1, <1>2, <1>3, LaneUsesBridges, PTL DEF LaneSpec


-----------------------------------------------------------------------------
\* No step brings in a token or an adapter that was not known.
LEMMA NextAdaptersFit ==
  ASSUME LaneTypeOK, AdaptersFit, [LaneNext]_allVars
  PROVE  AdaptersFit'
<1> DEFINE Given(p, d) == {b \in PoolSetups[p] : b.selector = d}
<1>1. ASSUME \A p \in Pools, d \in Chains :
               /\ path'[p][d].adapter \in {path[p][d].adapter, Zero}
                                            \cup {a.adapter : a \in Given(p, d)}
               /\ remoteToken'[p][d] \in {remoteToken[p][d], Zero}
                                            \cup {a.token : a \in Given(p, d)}
      PROVE  AdaptersFit'
  <2>1. \A p \in Pools, d \in Chains : /\ KnownAdapters(p, d)' \subseteq KnownAdapters(p, d)
                                      /\ KnownTokens(p, d)' \subseteq KnownTokens(p, d)
    BY <1>1 DEF KnownAdapters, KnownTokens
  <2> QED
    BY <2>1 DEF AdaptersFit
<1>2. ASSUME UNCHANGED <<path, remoteToken>> PROVE AdaptersFit'
  BY <1>1, <1>2
<1> USE DEF LaneTypeOK
<1>3. ASSUME NEW p \in Pools, NEW a \in PoolSetups[p], ApplyChainUpdates(p, a)
      PROVE  AdaptersFit'
  BY <1>1, <1>3 DEF ApplyChainUpdates
<1>4. ASSUME NEW p \in Pools, NEW a \in PoolSetups[p], FinishPoolSetup(p, a)
      PROVE  AdaptersFit'
  BY <1>1, <1>4 DEF FinishPoolSetup, SetPath
<1>5. ASSUME NEW p \in Pools, NEW d \in Chains, RemoveChain(p, d) PROVE AdaptersFit'
  BY <1>1, <1>5 DEF RemoveChain
<1>6. ASSUME NEW p \in Pools, NEW d \in Chains, RemovePath(p, d) PROVE AdaptersFit'
  BY <1>1, <1>6 DEF RemovePath, NoPath
<1>7. ASSUME NEW p \in Pools, StopPoolSetup(p) PROVE AdaptersFit'
  BY <1>2, <1>7 DEF StopPoolSetup
<1>8. ASSUME NEW c \in Chains, PoolSetup(c) PROVE AdaptersFit'
  BY <1>3, <1>4, <1>5, <1>6, <1>7, <1>8 DEF PoolSetup
<1>9. CASE QuietStep
  BY <1>2, <1>9, QuietLeaves DEF laneVars, poolVars
<1>10. CASE LaneDeposit
  <2>1. ASSUME NEW p, NEW d, NEW u, NEW amount, LockOrBurn(p, d, u, amount)
        PROVE  UNCHANGED poolVars
    BY <2>1 DEF LockOrBurn
  <2>2. ASSUME NEW c, NEW u, NEW d, NEW t, NEW amount,
               DepositDirectly(c, u, d, t, amount)
        PROVE  UNCHANGED poolVars
    BY <2>2 DEF DepositDirectly, laneVars
  <2>3. UNCHANGED poolVars
    BY <1>10, <2>1, <2>2 DEF LaneDeposit
  <2> QED
    BY <1>2, <2>3 DEF poolVars
<1>11. CASE LaneDelivery
  BY <1>2, <1>11, DeliveryPays DEF poolVars
<1> QED
  BY <1>8, <1>9, <1>10, <1>11, LaneStepCases

LEMMA NextAnnounced ==
  ASSUME LaneTypeOK, AdaptersFit, AnnouncedIsMinted, [LaneNext]_allVars
  PROVE  AnnouncedIsMinted'
<1>1. ASSUME UNCHANGED ccip PROVE AnnouncedIsMinted'
  BY <1>1 DEF AnnouncedIsMinted
<1>2. ASSUME NEW p \in Pools, NEW d \in Chains, NEW u \in People,
             NEW amount \in Amounts, LockOrBurn(p, d, u, amount)
      PROVE  AnnouncedIsMinted'
  <2> PICK x :
        /\ x = [payload |-> x.payload, selector |-> d,
                token |-> remoteToken[p][d], pool |-> p]
        /\ x.payload.body.token \in Tokens
        /\ x.payload.body.token \in {remoteToken[p][d], path[p][d].adapter}
        /\ remoteToken[p][d] \in Tokens
        /\ ccip' = ccip \cup {x}
    BY <1>2, LockOrBurnSends
  <2>1. x.selector = d /\ x.token = remoteToken[p][d]
    OBVIOUS
  <2>2. Zero \notin Tokens
    BY BridgeAssumptions
  <2>3. x.payload.body.token = path[p][d].adapter
          => \E q \in PoolsOf(d, x.token) : PoolBridgeToken[q] = x.payload.body.token
    BY <2>1, <2>2 DEF AdaptersFit, KnownTokens, KnownAdapters
  <2>4. x.payload.body.token \in
          {x.token} \cup {PoolBridgeToken[q] : q \in PoolsOf(x.selector, x.token)}
    BY <2>1, <2>3
  <2> QED
    BY <2>4 DEF AnnouncedIsMinted, PoolsOf
<1>3. ASSUME NEW c \in Chains, PoolSetup(c) PROVE UNCHANGED ccip
  BY <1>3, PoolSetupLeaves
<1>4. ASSUME NEW c, NEW u, NEW d, NEW t, NEW amount,
             DepositDirectly(c, u, d, t, amount)
      PROVE  UNCHANGED ccip
  BY <1>4 DEF DepositDirectly, laneVars
<1> QED
  BY <1>1, <1>2, <1>3, <1>4, LaneStepCases, QuietLeaves, DeliveryPays
     DEF LaneDeposit, laneVars

(***************************************************************************)
(* If the adapters that the scripts are given are in front of the tokens   *)
(* they are given, what is minted is what CCIP announced or its adapter,   *)
(* whatever the tables of the bridges say, and in whatever order they and  *)
(* the pools are set up.                                                   *)
(***************************************************************************)
THEOREM WhatWasAnnouncedIsMinted == LaneSpec /\ AdaptersFit => []AnnouncedIsMinted
<1>1. NothingSent => AnnouncedIsMinted
  BY DEF NothingSent, AnnouncedIsMinted
<1>2. LaneTypeOK /\ AdaptersFit /\ [LaneNext]_allVars => AdaptersFit'
  BY NextAdaptersFit
<1>3. LaneTypeOK /\ AdaptersFit /\ AnnouncedIsMinted /\ [LaneNext]_allVars
        => AnnouncedIsMinted'
  BY NextAnnounced
<1> QED
  BY <1>1, <1>2, <1>3, LaneTypeCorrect, PTL DEF LaneSpec

-----------------------------------------------------------------------------
(***************************************************************************)
(* What CCIP carries is a payload of the bridge of the sender's chain for  *)
(* a bridge, and of an amount.                                             *)
(***************************************************************************)
PoolsSendTransfers ==
  \A x \in ccip :
    /\ x.payload.src = Home[x.pool]
    /\ x.payload.sender = Bridge /\ x.payload.recipient = Bridge
    /\ x.payload.body.amount # 0

LEMMA NextPoolsSendTransfers ==
  ASSUME LaneTypeOK, PoolsSendTransfers, [LaneNext]_allVars
  PROVE  PoolsSendTransfers'
<1>1. ASSUME UNCHANGED ccip PROVE PoolsSendTransfers'
  BY <1>1 DEF PoolsSendTransfers
<1>2. ASSUME NEW p \in Pools, NEW d \in Chains, NEW u \in People,
             NEW amount \in Amounts, LockOrBurn(p, d, u, amount)
      PROVE  PoolsSendTransfers'
  <2> PICK x :
        /\ x = [payload |-> x.payload, selector |-> d,
                token |-> remoteToken[p][d], pool |-> p]
        /\ x.payload.src = Home[p]
        /\ x.payload.sender = Bridge /\ x.payload.recipient = Bridge
        /\ x.payload.body.amount # 0
        /\ ccip' = ccip \cup {x}
    BY <1>2, LockOrBurnSends
  <2>1. x.pool = p
    OBVIOUS
  <2> QED
    BY <2>1 DEF PoolsSendTransfers
<1>3. ASSUME NEW c \in Chains, PoolSetup(c) PROVE UNCHANGED ccip
  BY <1>3, PoolSetupLeaves
<1>4. ASSUME NEW c, NEW u, NEW d, NEW t, NEW amount,
             DepositDirectly(c, u, d, t, amount)
      PROVE  UNCHANGED ccip
  BY <1>4 DEF DepositDirectly, laneVars
<1> QED
  BY <1>1, <1>2, <1>3, <1>4, LaneStepCases, QuietLeaves, DeliveryPays
     DEF LaneDeposit, laneVars

\* What the task finds out about two pools that are counterparts: each knows
\* the other chain, p the token of q, and the bridges know each other.
LEMMA CheckedPair ==
  ASSUME NEW p \in Pools, NEW q \in Pools, Counterparts(p, q),
         Check(Home[p]), Check(Home[q])
  PROVE  /\ Supports(p, Home[q]) /\ remoteToken[p][Home[q]] = PoolToken[q]
         /\ Supports(q, Home[p])
         /\ ListedPools(Home[p]) = {p} => p \in remotePools[q][Home[p]]
         /\ bridgeContract[Home[p]][Home[q]] = Bridge
         /\ bridgeContract[Home[q]][Home[p]] = Bridge
<1> DEFINE c == Home[p]
           d == Home[q]
<1>1. /\ c \in Chains /\ d \in Chains /\ c # d
      /\ c \in ListedChains /\ d \in ListedChains
      /\ PoolToken[p] # Zero /\ PoolToken[q] # Zero
  BY LaneAssumptions, BridgeAssumptions DEF Counterparts, Check
<1>2. d \in Others(c) /\ c \in Others(d)
  BY <1>1 DEF Others
<1>3. AddressBook[c].bridge = Bridge /\ AddressBook[d].bridge = Bridge
  BY <1>1, LaneAssumptions DEF ListedChains, AddressLists
<1>4. bridgeContract[c][d] = Bridge /\ bridgeContract[d][c] = Bridge
  BY <1>2, <1>3 DEF Check, CheckBridge
<1>5. p \in ListedPools(c) /\ q \in ListedPools(d)
  BY DEF Counterparts
<1>6. TokenPresent(p, d) /\ TokenPresent(q, c)
  <2>1. IsStaked(p) \/ IsNative(p)
    BY <1>5 DEF Check, CheckTokenPool
  <2>2. CASE IsNative(p)
    <3>1. AddressBook[d].native = PoolToken[q]
      BY <2>2 DEF Counterparts, ExpectedToken
    <3> QED
      BY <1>1, <2>2, <3>1 DEF TokenPresent, IsNative, HasNative
  <2>3. CASE ~IsNative(p)
    <3>1. StakedToken(d) = PoolToken[q] /\ StakedToken(c) = PoolToken[p]
      BY <2>1, <2>3 DEF Counterparts, ExpectedToken, IsStaked
    <3> QED
      BY <1>1, <3>1 DEF TokenPresent, IsStaked
  <2> QED
    BY <2>2, <2>3
<1>7. Supports(p, d) /\ remoteToken[p][d] = PoolToken[q]
  <2>1. Supports(p, d) /\ remoteToken[p][d] = ExpectedToken(p, d)
    BY <1>2, <1>5, <1>6 DEF Check, CheckTokenPool
  <2> QED
    BY <2>1 DEF Counterparts
<1>8. /\ Supports(q, c) /\ Cardinality(remotePools[q][c]) = 1
      /\ ListedPools(c) # {} => remotePools[q][c] \subseteq ListedPools(c)
  BY <1>2, <1>5, <1>6 DEF Check, CheckTokenPool
<1>9. ASSUME ListedPools(c) = {p} PROVE p \in remotePools[q][c]
  <2>1. remotePools[q][c] # {}
    BY <1>8, FS_EmptySet
  <2> QED
    BY <1>8, <1>9, <2>1
<1> QED
  BY <1>4, <1>7, <1>8, <1>9

\* A pool on a whitelist with the full discount sends for nothing.
LEMMA SendingIsFree ==
  ASSUME LaneTypeOK, NEW c \in Chains, NEW p \in Pools, NEW d \in Chains,
         NEW t \in Tokens, NEW u \in Users, CheckMailbox(c),
         destinationToken[c][d][t] \in Tokens,
         bridgeSender[c][p] = [whitelisted |-> TRUE, feeDiscount |-> FeeDiscountBase]
  PROVE  LET body == DepositBody(c, d, t, u, 1)
         IN  /\ BridgeFee(c, p, body) = 0
             /\ M!Fee(c, Bridge, body) = 0
             /\ 1 <= M!MaxSizeOf(c, Bridge)
             /\ body \in Bodies
<1> DEFINE body == DepositBody(c, d, t, u, 1)
           fee == M!Fee(c, Zero, body)
<1>1. body \in Bodies
  BY DEF DepositBody, Bodies
<1>2. fee \in Nat
  <2>1. feePerByte[c] \in Nat
    BY DEF LaneTypeOK, TypeOK, M!TypeOK
  <2> QED
    BY <1>1, <2>1 DEF M!Fee
<1>3. bridgeSender[c][p].feeDiscount = FeeDiscountBase
  OBVIOUS
<1> HIDE DEF fee
<1>4. (fee * FeeDiscountBase) \div FeeDiscountBase = fee
  BY <1>2 DEF FeeDiscountBase
<1>5. BridgeFee(c, p, body) = fee - (fee * FeeDiscountBase) \div FeeDiscountBase
  BY <1>3 DEF BridgeFee, fee
<1>6. BridgeFee(c, p, body) = 0
  BY <1>2, <1>4, <1>5
<1>7. M!Fee(c, Bridge, body) = 0 /\ 1 <= M!MaxSizeOf(c, Bridge)
  <2>1. M!MaxSizeOf(c, Bridge) \in Nat
    <3>1. Bridge \in M!Senders
      BY DEF M!Senders, Addresses
    <3> QED
      BY <3>1 DEF LaneTypeOK, TypeOK, M!TypeOK, M!MaxSizeOf, M!SenderConfigs
  <2> QED
    BY <2>1 DEF CheckMailbox, M!Fee
<1> QED
  BY <1>1, <1>6, <1>7

LEMMA CheckedSends ==
  ASSUME LaneTypeOK, NEW p \in Pools, NEW q \in Pools, NEW u \in People,
         Counterparts(p, q), Check(Home[p]), Check(Home[q]),
         SendingSideIsRight(p, q),
         balance[Home[p]][PoolBridgeToken[p]][p] >= 1,
         globalNonce[Home[p]] <= MaxNonce
  PROVE  CanLockOrBurn(p, Home[q], u, 1)
<1> DEFINE c == Home[p]
           d == Home[q]
           t == PoolBridgeToken[p]
           body == DepositBody(c, d, t, u, 1)
<1>1. /\ c \in Chains /\ d \in Chains /\ u \in Users /\ t \in Tokens
      /\ PoolBridgeToken[q] \in Tokens
      /\ Zero \notin Chains /\ Zero \notin Tokens /\ Bridge # Zero
  BY LaneAssumptions, BridgeAssumptions DEF People, Addresses
<1>2. /\ Supports(p, d) /\ remoteToken[p][d] = PoolToken[q]
      /\ bridgeContract[c][d] = Bridge
  BY CheckedPair
<1>3. /\ path[p][d].chain = d /\ destinationToken[c][d][t] = PoolBridgeToken[q]
      /\ path[p][d].adapter = PoolBridgeToken[q] \/ PoolToken[q] = PoolBridgeToken[q]
      /\ ~paused[c] /\ t \notin tokenPaused[c] /\ d \in outbound[c]
  BY DEF SendingSideIsRight
<1>4. path[p][d] # NoPath
  BY <1>1, <1>3 DEF NoPath
<1>5. TokensAgree(p, d)
  BY <1>2, <1>3 DEF TokensAgree, BridgeTokenAhead
<1>6. bridgeSender[c][p] = [whitelisted |-> TRUE, feeDiscount |-> FeeDiscountBase]
  BY DEF Counterparts, Check, CheckBridge
<1>7. /\ BridgeFee(c, p, body) = 0 /\ M!Fee(c, Bridge, body) = 0
      /\ 1 <= M!MaxSizeOf(c, Bridge) /\ body \in Bodies
  BY <1>1, <1>3, <1>6, SendingIsFree DEF Check
<1>8. M!CanSend(c, Bridge, d, bridgeContract[c][d], body, 0)
  BY <1>1, <1>2, <1>3, <1>7 DEF M!CanSend, M!WhenNotPaused, M!ValidRecipient
<1>9. CanDeposit(c, p, d, t, u, 1, 0)
  BY <1>1, <1>2, <1>3, <1>6, <1>7, <1>8 DEF CanDeposit
<1> QED
  BY <1>2, <1>3, <1>4, <1>5, <1>9 DEF CanLockOrBurn

LEMMA CheckedArrives ==
  ASSUME LaneInv, PoolsSendTransfers, NEW p \in Pools, NEW q \in Pools,
         Counterparts(p, q), Check(Home[p]), Check(Home[q]),
         NEW x \in ccip, x \notin released, x.pool = p, x.token = PoolToken[q],
         ReceivingSideIsRight(q, x), <<x.payload, epoch[Home[q]]>> \in proofs
  PROVE  CanReleaseOrMint(q, x, x.payload, epoch[Home[q]])
<1> DEFINE c == Home[p]
           d == Home[q]
           m == x.payload
           e == epoch[d]
<1>1. /\ ~paused[d] /\ m.body.token \notin tokenPaused[d] /\ c \in inbound[d]
      /\ destinationToken[d][c][m.body.token] # Zero
      /\ R!CanUpdate(rateLimit[d][c][m.body.token], m.body.amount)
      /\ p \in remotePools[q][c] \/ ListedPools(c) = {p}
      /\ x.selector = d /\ m.dst = d /\ m.destinationCaller = q
  BY DEF ReceivingSideIsRight
<1>2. m.src = c /\ m.sender = Bridge /\ m.recipient = Bridge /\ m.body.amount # 0
  BY DEF PoolsSendTransfers
<1>3. AcceptsFrom(q, p) /\ bridgeContract[d][c] = Bridge
  BY <1>1, CheckedPair DEF AcceptsFrom
<1>4. m \notin spent[d]
  BY <1>1 DEF LaneInv, ReleasedIffSpent
<1>5. HandlePayloadSucceeds(d, m)
  <2>1. Bridge # Zero
    BY BridgeAssumptions DEF Addresses
  <2> QED
    BY <1>1, <1>2, <1>3, <1>4, <2>1
       DEF HandlePayloadSucceeds, NotSpent, FromRegisteredBridge
<1>6. M!Deliverable(d, m, e, q)
  BY <1>1, <1>2 DEF M!Deliverable, M!WhenNotPaused, M!AcceptsPath, M!Verified,
     M!CheckProof
<1>7. q \in PoolsOf(x.selector, x.token)
  BY <1>1 DEF PoolsOf
<1> QED
  BY <1>1, <1>3, <1>5, <1>6, <1>7 DEF CanReleaseOrMint, SamePayload

(***************************************************************************)
(* The CCIP check tells the truth after any setup and any transfers: where *)
(* it reports nothing for the two chains and what it does not look at is   *)
(* right, a pool accepts a transfer free of charge, and what it has        *)
(* accepted the other pool can pay out once it is notarized.               *)
(***************************************************************************)
THEOREM CheckTellsTheTruth == LaneSpec => []CheckedLaneCarries
<1>1. NothingSent => LaneInv /\ PoolsSendTransfers
  BY DEF NothingSent, LaneInv, MessagesFit, CcipFits, ReleasedIffSpent, LaneTypeOK,
     PoolsSendTransfers
<1>2. LaneInv /\ PoolsSendTransfers /\ [LaneNext]_allVars
        => (LaneInv /\ PoolsSendTransfers)'
  BY NextLaneInv, NextPoolsSendTransfers DEF LaneInv
<1>3. LaneInv /\ PoolsSendTransfers => CheckedLaneCarries
  BY CheckedSends, CheckedArrives DEF LaneInv, CheckedLaneCarries
<1> QED
  BY <1>1, <1>2, <1>3, PTL DEF LaneSpec

\* The state after a step of a pool, as a function of the state before it.
AfterLockOrBurn(p, d, u, amount) ==
  LET c == Home[p]
      far == path[p][d].chain
      t == PoolBridgeToken[p]
      m == M!Payload(c, Bridge, far, bridgeContract[c][far], CallerAhead(p, d),
                     DepositBody(c, far, t, u, amount))
      x == [payload |-> m, selector |-> d, token |-> remoteToken[p][d], pool |-> p]
  IN
  << << <<[globalNonce EXCEPT ![c] = @ + 1], outbound, inbound, delivered, handled,
          defaultMaxPayloadSize, mailboxSender, feePerByte,
          [fees EXCEPT ![c] = @ + 0], paused, sent \cup {m}, epoch, proofs>>,
        <<routeVars, spent, bridgeSender, rateLimit,
          [balance EXCEPT ![c][t][p] = @ - amount], tokenPaused>> >>,
     <<poolVars, ccip \cup {x}, released>> >>

AfterReleaseOrMint(q, x, m) ==
  LET c == x.selector IN
  << << <<globalNonce, outbound, inbound,
          [delivered EXCEPT ![c] = @ \cup {m}], [handled EXCEPT ![c] = @ \cup {m}],
          defaultMaxPayloadSize, mailboxSender, feePerByte, fees, paused, sent,
          epoch, proofs>>,
        <<routeVars, [spent EXCEPT ![c] = @ \cup {m}], bridgeSender,
          [rateLimit EXCEPT ![c][m.src][m.body.token] =
             R!UpdateLimit(@, m.body.amount)],
          [balance EXCEPT ![c][m.body.token][m.body.recipient] = @ + m.body.amount],
          tokenPaused>> >>,
     <<poolVars, ccip, released \cup {x}>> >>

(***************************************************************************)
(* The conditions named in CheckTellsTheTruth are all there is: a pool     *)
(* makes its step exactly if they hold, and then there is one state that   *)
(* the step leads to.  CanLockOrBurn and CanReleaseOrMint therefore say    *)
(* when the two actions are enabled (lockOrBurn and releaseOrMint, with    *)
(* what they call in bridge and mailbox).                                  *)
(***************************************************************************)
THEOREM PoolStepsAreDecided ==
  ASSUME NEW p, NEW d, NEW u, NEW amount, NEW x, NEW m, NEW e
  PROVE  /\ LockOrBurn(p, d, u, amount) <=>
              /\ CanLockOrBurn(p, d, u, amount)
              /\ allVars' = AfterLockOrBurn(p, d, u, amount)
         /\ ReleaseOrMint(p, x, m, e) <=>
              /\ CanReleaseOrMint(p, x, m, e)
              /\ allVars' = AfterReleaseOrMint(p, x, m)
<1> USE DEF allVars, vars, mailboxVars, bridgeVars, laneVars, routeVars, poolVars,
        M!configVars, M!deliveryVars, M!notaryVars, M!sendVars
<1>1. CanLockOrBurn(p, d, u, amount) =>
        /\ CanDeposit(Home[p], p, path[p][d].chain, PoolBridgeToken[p], u, amount, 0)
        /\ M!CanSend(Home[p], Bridge, path[p][d].chain,
                     bridgeContract[Home[p]][path[p][d].chain],
                     DepositBody(Home[p], path[p][d].chain, PoolBridgeToken[p], u,
                                 amount), 0)
  BY DEF CanLockOrBurn, CanDeposit
<1>2. LockOrBurn(p, d, u, amount) <=>
        /\ CanLockOrBurn(p, d, u, amount)
        /\ allVars' = AfterLockOrBurn(p, d, u, amount)
  BY <1>1, Zenon
     DEF LockOrBurn, Deposit, Burn, M!Send, M!UseNonce, AfterLockOrBurn
<1>3. CanReleaseOrMint(p, x, m, e) =>
        /\ HandlePayloadSucceeds(x.selector, m)
        /\ M!Deliverable(x.selector, m, e, p)
  BY DEF CanReleaseOrMint
<1>4. ReleaseOrMint(p, x, m, e) <=>
        /\ CanReleaseOrMint(p, x, m, e)
        /\ allVars' = AfterReleaseOrMint(p, x, m)
  BY <1>3
     DEF ReleaseOrMint, Withdraw, Mint, M!DeliverAndHandle, M!RecordDelivery,
         M!RecordHandling, AfterReleaseOrMint
<1> QED
  BY <1>2, <1>4

=============================================================================
