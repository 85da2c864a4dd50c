------------------------------ MODULE BridgeV2 ------------------------------
(***************************************************************************)
(* contracts/bridge/BridgeV2.sol, one instance on each chain, on top of    *)
(* the mailboxes: tokens are burned on one chain, the mailboxes carry a    *)
(* message, and the same amount of the paired token is minted on the other *)
(* chain, subject to the rate limit of that token and source chain.        *)
(*                                                                         *)
(* The bridge is a recipient of the mailbox.  Where Mailbox leaves the     *)
(* outcome of handlePayload open, here it can only succeed if the bridge's *)
(* own conditions hold; when it fails the call reverts as a whole,         *)
(* payloadSpent and the rate limit included, and the mailbox catches it.   *)
(***************************************************************************)
EXTENDS Integers, FiniteSets, Functions

CONSTANTS
  Chains, Links, Zero, PayloadSizes, FeeRates, Values, MaxNonce, MaxEpoch,
  MaxUint,            \* see Mailbox and RateLimits
  Users,              \* accounts, the same names on every chain
  Bridge,             \* address of the bridge contract on every chain
  Tokens,             \* token addresses, the same names on every chain
  TokenPairs,         \* <<local, remote>>: pairs the owner may connect
  Amounts,            \* amounts deposited
  Supply,             \* what each user holds of each token at first
  Discounts,          \* fee discounts the owner asks for, in hundredths of a percent
  RateConfigs         \* <<limit, window>> the owner may set

Addresses == Users \cup {Bridge}

FeeDiscountBase == 10000

\* _encodeMsg and decodeMsgBody; the sender in the body is only reported.
Bodies == [token : Tokens, recipient : Users, amount : Nat]

ASSUME BridgeAssumptions ==
  /\ IsFiniteSet(Chains) /\ IsFiniteSet(Tokens) /\ IsFiniteSet(Users)
  /\ Links \subseteq Chains \X Chains
  /\ PayloadSizes \subseteq Nat
  /\ FeeRates \subseteq Nat
  /\ Values \subseteq Nat
  /\ MaxNonce \in Nat
  /\ MaxEpoch \in Nat
  /\ MaxUint \in Nat
  /\ Bridge \notin Users
  /\ Zero \notin Addresses
  /\ Zero \notin Tokens
  /\ TokenPairs \subseteq Tokens \X Tokens
  /\ Amounts \subseteq Nat \ {0}
  /\ Supply \in Nat
  /\ Discounts \subseteq Nat
  /\ RateConfigs \subseteq Nat \X Nat

VARIABLES
  globalNonce, outbound, inbound, delivered, handled, defaultMaxPayloadSize,
  mailboxSender, feePerByte, fees, paused, sent, epoch, proofs,  \* see Mailbox
  bridgeContract,     \* [c][d]: the bridge on d that the bridge on c talks to
  destinationToken,   \* allowedDestinationToken: [c][d][local] = remote
  sourceToken,        \* allowedSourceToken: [c][d][remote] = local
  spent,              \* payloadSpent
  bridgeSender,       \* senderConfig of each user
  rateLimit,          \* [c][d][local]: bucket of withdrawals coming from d
  balance,            \* [c][token][user]
  tokenPaused         \* tokens of each chain whose transfers are paused

\* The mailboxes.  Every message of the bridge has the same length.
M == INSTANCE Mailbox WITH
       Handlers <- {Bridge}, PayloadSize <- [b \in Bodies |-> 1],
       GlobalMaxPayloadSize <- 1

R == INSTANCE RateLimits

mailboxVars == <<globalNonce, outbound, inbound, delivered, handled,
                 defaultMaxPayloadSize, mailboxSender, feePerByte, fees, paused,
                 sent, epoch, proofs>>
routeVars == <<bridgeContract, destinationToken, sourceToken>>
bridgeVars == <<routeVars, spent, bridgeSender, rateLimit, balance, tokenPaused>>
vars == <<mailboxVars, bridgeVars>>

PerToken(x) == [c \in Chains |-> [d \in Chains |-> [t \in Tokens |-> x]]]

InitialBalance == [c \in Chains |-> [t \in Tokens |-> [u \in Users |-> Supply]]]

Init ==
  /\ M!Init
  /\ bridgeContract = [c \in Chains |-> [d \in Chains |-> Zero]]
  /\ destinationToken = PerToken(Zero)
  /\ sourceToken = PerToken(Zero)
  /\ spent = [c \in Chains |-> {}]
  /\ bridgeSender = [c \in Chains |-> [u \in Users |->
                       [whitelisted |-> FALSE, feeDiscount |-> 0]]]
  /\ rateLimit = PerToken(R!EmptyBucket)
  /\ balance = InitialBalance
  /\ tokenPaused = [c \in Chains |-> {}]

-----------------------------------------------------------------------------
\* The owner of the bridge of chain c.

\* b is Zero to close the path.
SetDestinationBridge(c, d, b) ==
  /\ bridgeContract' = [bridgeContract EXCEPT ![c][d] = b]
  /\ UNCHANGED <<destinationToken, sourceToken, spent, bridgeSender, rateLimit,
                 balance, tokenPaused, mailboxVars>>

\* Slip: only the local token is looked up.
PairIsFreeOnOneSide(c, d, local, remote) == destinationToken[c][d][local] = Zero

PairIsFree(c, d, local, remote) ==
  /\ destinationToken[c][d][local] = Zero
  /\ sourceToken[c][d][remote] = Zero

AddDestinationToken(c, d, local, remote) ==
  /\ bridgeContract[c][d] # Zero
  /\ PairIsFree(c, d, local, remote)
  /\ destinationToken' = [destinationToken EXCEPT ![c][d][local] = remote]
  /\ sourceToken' = [sourceToken EXCEPT ![c][d][remote] = local]
  /\ UNCHANGED <<bridgeContract, spent, bridgeSender, rateLimit, balance,
                 tokenPaused, mailboxVars>>

RemoveDestinationToken(c, d, local) ==
  LET remote == destinationToken[c][d][local] IN
  /\ bridgeContract[c][d] # Zero
  /\ remote # Zero
  /\ sourceToken[c][d][remote] = local
  /\ destinationToken' = [destinationToken EXCEPT ![c][d][local] = Zero]
  /\ sourceToken' = [sourceToken EXCEPT ![c][d][remote] = Zero]
  /\ UNCHANGED <<bridgeContract, spent, bridgeSender, rateLimit, balance,
                 tokenPaused, mailboxVars>>

SetTokenRateLimits(c, d, t, limit, window) ==
  /\ R!CanUpdate(rateLimit[c][d][t], 0)
  /\ rateLimit' = [rateLimit EXCEPT ![c][d][t] = R!SetRateLimit(@, limit, window)]
  /\ UNCHANGED <<routeVars, spent, bridgeSender, balance, tokenPaused,
                 mailboxVars>>

\* Slip: a discount of more than the fee itself.
AnyDiscount(discount) == TRUE

ValidDiscount(discount) == discount <= FeeDiscountBase

SetSenderConfig(c, u, discount, whitelisted) ==
  /\ ValidDiscount(discount)
  /\ bridgeSender' = [bridgeSender EXCEPT ![c][u] =
                        [whitelisted |-> whitelisted, feeDiscount |-> discount]]
  /\ UNCHANGED <<routeVars, spent, rateLimit, balance, tokenPaused,
                 mailboxVars>>

\* The token contract is paused or unpaused by its own pauser.
PauseToken(c, t) ==
  /\ tokenPaused' = [tokenPaused EXCEPT ![c] =
                       IF t \in @ THEN @ \ {t} ELSE @ \cup {t}]
  /\ UNCHANGED <<routeVars, spent, bridgeSender, rateLimit, balance,
                 mailboxVars>>

-----------------------------------------------------------------------------
\* Deposits.

\* _getFee: the fee of the zero address, less the discount of the caller.
BridgeFee(c, u, body) ==
  LET fee == M!Fee(c, Zero, body) IN
  fee - (fee * bridgeSender[c][u].feeDiscount) \div FeeDiscountBase

Burn(c, t, u, amount) == balance' = [balance EXCEPT ![c][t][u] = @ - amount]

DepositBody(c, d, t, recipient, amount) ==
  [token |-> destinationToken[c][d][t], recipient |-> recipient, amount |-> amount]

\* The conditions under which deposit, burn and send do not revert.
CanDeposit(c, u, d, t, recipient, amount, value) ==
  LET body == DepositBody(c, d, t, recipient, amount) IN
  /\ amount # 0
  /\ bridgeSender[c][u].whitelisted
  /\ bridgeContract[c][d] # Zero
  /\ destinationToken[c][d][t] # Zero
  /\ t \notin tokenPaused[c]
  /\ balance[c][t][u] >= amount
  /\ value >= BridgeFee(c, u, body)
  /\ M!CanSend(c, Bridge, d, bridgeContract[c][d], body, value)

Deposit(c, u, d, t, recipient, amount, destinationCaller, value) ==
  /\ CanDeposit(c, u, d, t, recipient, amount, value)
  /\ Burn(c, t, u, amount)
  /\ M!Send(c, Bridge, d, bridgeContract[c][d], destinationCaller,
            DepositBody(c, d, t, recipient, amount), value)
  /\ UNCHANGED <<routeVars, spent, bridgeSender, rateLimit, tokenPaused>>

\* Any other account may use the mailbox, with any recipient and body.
SendDirectly(c, u, d, recipient, body, value) ==
  /\ M!Send(c, u, d, recipient, Zero, body, value)
  /\ UNCHANGED bridgeVars

-----------------------------------------------------------------------------
\* Withdrawals.

\* Slip: the source of the message is not compared with the registered bridge.
AnySender(c, m) == bridgeContract[c][m.src] # Zero

FromRegisteredBridge(c, m) ==
  /\ bridgeContract[c][m.src] # Zero
  /\ m.sender = bridgeContract[c][m.src]

\* Slip: payloads are not remembered.
NeverSpent(c, m) == TRUE

NotSpent(c, m) == m \notin spent[c]

\* The conditions under which handlePayload and _withdraw do not revert.
HandlePayloadSucceeds(c, m) ==
  /\ NotSpent(c, m)
  /\ FromRegisteredBridge(c, m)
  /\ m.body.amount # 0
  /\ destinationToken[c][m.src][m.body.token] # Zero
  /\ R!CanUpdate(rateLimit[c][m.src][m.body.token], m.body.amount)
  /\ m.body.token \notin tokenPaused[c]

Mint(c, t, u, amount) == balance' = [balance EXCEPT ![c][t][u] = @ + amount]

Withdraw(c, m, e, caller) ==
  /\ HandlePayloadSucceeds(c, m)
  /\ M!DeliverAndHandle(c, m, e, caller, TRUE)
  /\ spent' = [spent EXCEPT ![c] = @ \cup {m}]
  /\ rateLimit' = [rateLimit EXCEPT ![c][m.src][m.body.token] =
                     R!UpdateLimit(@, m.body.amount)]
  /\ Mint(c, m.body.token, m.body.recipient, m.body.amount)
  /\ UNCHANGED <<routeVars, bridgeSender, tokenPaused>>

\* Whatever the bridge would say, a caller may leave it too little gas to say
\* it, while the mailbox keeps enough to catch the failure.
FailToWithdraw(c, m, e, caller) ==
  /\ M!DeliverAndHandle(c, m, e, caller, FALSE)
  /\ UNCHANGED bridgeVars

\* A unit of time passes on chain c.
Tick(c) ==
  /\ rateLimit' = [rateLimit EXCEPT ![c] =
                     [d \in Chains |-> [t \in Tokens |-> R!Elapse(@[d][t])]]]
  /\ UNCHANGED <<routeVars, spent, bridgeSender, balance, tokenPaused,
                 mailboxVars>>

-----------------------------------------------------------------------------
AdminOfBridge(c) ==
  \/ \E d \in Chains :
       /\ <<c, d>> \in Links
       /\ \/ \E b \in {Bridge, Zero} : SetDestinationBridge(c, d, b)
          \/ \E p \in TokenPairs : AddDestinationToken(c, d, p[1], p[2])
          \/ \E t \in Tokens : RemoveDestinationToken(c, d, t)
          \/ \E t \in Tokens, r \in RateConfigs :
               SetTokenRateLimits(c, d, t, r[1], r[2])
  \/ \E u \in Users, discount \in Discounts, b \in BOOLEAN :
       SetSenderConfig(c, u, discount, b)
  \/ \E t \in Tokens : PauseToken(c, t)

AdminOfMailbox(c) == M!AdminOfMailbox(c) /\ UNCHANGED bridgeVars

NextValidatorSet(c) == M!NextValidatorSet(c) /\ UNCHANGED bridgeVars

Notarize(m) == M!Notarize(m) /\ UNCHANGED bridgeVars

DepositAny(c) ==
  \E u, recipient \in Users, d \in Chains, t \in Tokens, amount \in Amounts,
     destinationCaller \in Users \cup {Zero}, value \in Values :
    Deposit(c, u, d, t, recipient, amount, destinationCaller, value)

SendAny(c) ==
  \E u, to \in Users, d \in Chains, recipient \in Addresses, t \in Tokens,
     amount \in Amounts \cup {0}, value \in Values :
    SendDirectly(c, u, d, recipient,
                 [token |-> t, recipient |-> to, amount |-> amount], value)

RelayAny(c) ==
  \E m \in sent, e \in 1..epoch[c], caller \in Users :
    Withdraw(c, m, e, caller) \/ FailToWithdraw(c, m, e, caller)

Admin(c) == AdminOfMailbox(c) \/ AdminOfBridge(c)

Next ==
  \/ \E c \in Chains :
       \/ Admin(c) \/ NextValidatorSet(c) \/ Tick(c)
       \/ DepositAny(c) \/ SendAny(c) \/ RelayAny(c)
  \/ \E m \in sent : Notarize(m)

Spec == Init /\ [][Next]_vars

(***************************************************************************)
(* Time passes, and relayers resubmit a payload until it has been paid:    *)
(* whoever is entitled to relay it does not give up.  Nobody is obliged to *)
(* sign, to deposit or to administrate.                                    *)
(***************************************************************************)
RelayNonce(c, d, n) ==
  \E m \in sent, e \in 1..epoch[c], caller \in Users :
    m.src = d /\ m.nonce = n /\ Withdraw(c, m, e, caller)

Fairness ==
  /\ \A c \in Chains : WF_vars(Tick(c))
  /\ \A c, d \in Chains, n \in 1..MaxNonce : WF_vars(RelayNonce(c, d, n))

-----------------------------------------------------------------------------
BridgeSenders == [whitelisted : BOOLEAN, feeDiscount : 0..FeeDiscountBase]

BridgeTypeOK ==
  /\ bridgeContract \in [Chains -> [Chains -> {Bridge, Zero}]]
  /\ destinationToken \in [Chains -> [Chains -> [Tokens -> Tokens \cup {Zero}]]]
  /\ sourceToken \in [Chains -> [Chains -> [Tokens -> Tokens \cup {Zero}]]]
  /\ spent \in [Chains -> SUBSET M!Messages]
  /\ bridgeSender \in [Chains -> [Users -> BridgeSenders]]
  /\ rateLimit \in [Chains -> [Chains -> [Tokens -> R!Buckets]]]
  /\ balance \in [Chains -> [Tokens -> [Users -> Nat]]]
  /\ tokenPaused \in [Chains -> SUBSET Tokens]

TypeOK == M!TypeOK /\ BridgeTypeOK

(***************************************************************************)
(* The two token tables of a bridge are inverse to each other after any    *)
(* sequence of additions and removals, so a local token has one remote     *)
(* token, a remote token one local token, and removal never gets stuck on  *)
(* a half of a pair (addDestinationToken, removeDestinationToken).         *)
(***************************************************************************)
TokenTablesInverse ==
  \A c, d \in Chains, local, remote \in Tokens :
    destinationToken[c][d][local] = remote <=> sourceToken[c][d][remote] = local

(***************************************************************************)
(* Bridge and mailbox agree on what has been done with a payload: it is    *)
(* spent exactly when the mailbox has it as handled.  A revert anywhere in *)
(* the handler undoes payloadSpent, and a success is never lost.           *)
(***************************************************************************)
SpentIffHandled == \A c \in Chains : spent[c] = handled[c]

(***************************************************************************)
(* The transfers of the bridge: its messages, on their way until they are  *)
(* spent on the chain they are for.                                        *)
(***************************************************************************)
BridgeMessages == {m \in sent : m.sender = Bridge}
Pending == {m \in BridgeMessages : m \notin spent[m.dst]}
Complete == {m \in BridgeMessages : m \in spent[m.dst]}

Accounts == Chains \X Tokens \X Users

InAccounts == SumFunction([k \in Accounts |-> balance[k[1]][k[2]][k[3]]])

OnTheirWay == SumFunction([m \in Pending |-> m.body.amount])

(***************************************************************************)
(* What is in the accounts of all chains and what is on its way add up to  *)
(* the initial supply: nothing is minted that was not burned, minted twice *)
(* or minted in another amount, whatever is retried, paused, remapped or   *)
(* sent past the bridge.                                                   *)
(***************************************************************************)
Conservation == InAccounts + OnTheirWay = Supply * Cardinality(Accounts)

(***************************************************************************)
(* The bridges implement exactly-once transfer.                            *)
(***************************************************************************)
T == INSTANCE TokenTransfers WITH
       pending <- Pending, complete <- Complete

ExactlyOnce == T!Spec

(***************************************************************************)
(* The bridge itself has no pause: pausing the mailbox of a chain stops    *)
(* all burning and minting there.                                          *)
(***************************************************************************)
PausedMailboxStopsBridge ==
  [][ \A c \in Chains : paused[c] => /\ balance'[c] = balance[c]
                                    /\ spent'[c] = spent[c] ]_vars

-----------------------------------------------------------------------------
\* The message with nonce n that the bridge of chain d sent.
SentAs(d, n, m) == m.src = d /\ m.nonce = n /\ m.sender = Bridge

\* Nothing in the configuration of its destination stops m for good.
Open(m) ==
  /\ ~paused[m.dst]
  /\ m.src \in inbound[m.dst]
  /\ bridgeContract[m.dst][m.src] = Bridge
  /\ destinationToken[m.dst][m.src][m.body.token] # Zero
  /\ m.body.token \notin tokenPaused[m.dst]
  /\ m.body.amount <= rateLimit[m.dst][m.src][m.body.token].limit

Paid(d, n) == \E m \in sent : SentAs(d, n, m) /\ m \in spent[m.dst]

(***************************************************************************)
(* A payload that was delivered but could not be handled (token not        *)
(* listed, limit used up, token paused, ...) is paid in the end once what  *)
(* stood in its way is gone, even if the validator set that signed it has  *)
(* been replaced and nobody signs again: _verifyPayload lets a delivered   *)
(* payload through without proof.                                          *)
(***************************************************************************)
DeliveredIsPaid ==
  \A d \in Chains, n \in 1..MaxNonce :
    <>[](\E m \in sent : SentAs(d, n, m) /\ Open(m) /\ m \in delivered[m.dst])
      => <>Paid(d, n)

(***************************************************************************)
(* A deposit signed by the current validator set of its destination, with  *)
(* the route open, is paid in the end: the rate limit recovers, whatever   *)
(* the other withdrawals took of it.                                       *)
(***************************************************************************)
SignedIsPaid ==
  \A d \in Chains, n \in 1..MaxNonce :
    <>[](\E m \in sent : /\ SentAs(d, n, m) /\ Open(m)
                         /\ <<m, epoch[m.dst]>> \in proofs)
      => <>Paid(d, n)

=============================================================================
