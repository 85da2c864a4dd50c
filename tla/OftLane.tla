------------------------------- MODULE OftLane -------------------------------
(***************************************************************************)
(* LBTC over LayerZero (contracts/bridge/oft): at home an adapter that     *)
(* locks the tokens it sends, on the other chain one that burns and mints, *)
(* and at home a second one of that kind, to which the owner may migrate   *)
(* (test/OFTAdapter.ts).  The adapters keep a bucket per direction; what   *)
(* goes one way gives capacity back to the other.                          *)
(*                                                                         *)
(* The owner configures adapters and endpoints with the tasks of           *)
(* scripts/setup/layerzero.ts while messages are under way.  LayerZero     *)
(* itself is external: DVNs verify a message, and anybody may execute one  *)
(* that is verified and try again if it reverts.                           *)
(*                                                                         *)
(* There are two chains, hence one remote eid per adapter.  Their clocks   *)
(* run together; nothing compares them.                                    *)
(***************************************************************************)
EXTENDS RateLimits, FiniteSets, Functions

CONSTANTS
  Lockbox,            \* LBTCOFTAdapter at home
  HomeMinter,         \* LBTCBurnMintOFTAdapter at home
  AwayMinter,         \* LBTCBurnMintOFTAdapter on the other chain
  Zero,
  Amounts,            \* amounts asked for, in local decimals
  ConversionRate,     \* local decimals per shared one
  RateConfigs,        \* <<limit, window>> given to setup-oft-rate-limits
  Confirmations,      \* given to setup-endpoint-config
  Dvns,               \* verifiers that may be required
  Supply,             \* tokens at home in the beginning
  MaxMessages, MaxElapsed   \* bounds

Adapters == {Lockbox, HomeMinter, AwayMinter}

ASSUME OftAssumptions ==
  /\ Cardinality(Adapters) = 3 /\ Zero \notin Adapters
  /\ Amounts \subseteq Nat
  /\ ConversionRate \in Nat \ {0}
  /\ RateConfigs \subseteq Nat \X Nat
  /\ Confirmations \subseteq Nat
  /\ {Supply, MaxMessages, MaxElapsed} \subseteq Nat

VARIABLES
  rateLimits,         \* [adapter][direction]: the bucket for its remote eid
  peers,              \* [adapter]
  sendUln, receiveUln,  \* [adapter]: what its endpoint asks for
  messages,           \* sent
  verified,           \* by the DVNs
  received,           \* executed
  circulating,        \* [chain]: tokens of users
  locked,             \* tokens of the lockbox
  emptied,            \* history: it was emptied
  watch,              \* history: adapter and direction observed, or None
  net,                \* history: what went that way, less what went the other
  elapsed             \* history: time since

configVars == <<peers, sendUln, receiveUln>>
tokenVars == <<circulating, locked, emptied>>
observer == <<watch, net, elapsed>>
vars == <<rateLimits, configVars, messages, verified, received, tokenVars, observer>>

Directions == {"Inbound", "Outbound"}
Opposite(direction) == IF direction = "Inbound" THEN "Outbound" ELSE "Inbound"

Chains == {"home", "away"}
ChainOf(a) == IF a = AwayMinter THEN "away" ELSE "home"

UlnConfigs == [confirmations : Confirmations, dvns : SUBSET Dvns]

Messages ==
  [nonce : 1..MaxMessages, sender : Adapters, receiver : Adapters, amount : Nat,
   uln : UlnConfigs]

None == <<>>

InitialCirculation == [c \in Chains |-> IF c = "home" THEN Supply ELSE 0]

\* Deployed, with tokens at home only.
Init ==
  /\ rateLimits = [a \in Adapters |-> [d \in Directions |-> EmptyBucket]]
  /\ peers = [a \in Adapters |-> Zero]
  /\ sendUln \in [Adapters -> UlnConfigs]
  /\ receiveUln = sendUln
  /\ messages = {}
  /\ verified = {}
  /\ received = {}
  /\ circulating = InitialCirculation
  /\ locked = 0
  /\ emptied = FALSE
  /\ watch = None
  /\ net = 0
  /\ elapsed = 0

-----------------------------------------------------------------------------
\* EfficientRateLimiter

\* Slip: the difference is taken unchecked, without the comparison.
GiveBackUnfloored(rl, amount) ==
  [rl EXCEPT !.amountInFlight = CurrentAmountInFlight(rl) - amount, !.age = 0]

\* Slip: the other direction starts afresh.
GiveBackAll(rl, amount) == [rl EXCEPT !.amountInFlight = 0, !.age = 0]

GiveBack(rl, amount) ==
  LET inFlight == CurrentAmountInFlight(rl) IN
  [rl EXCEPT !.amountInFlight = IF inFlight > amount THEN inFlight - amount ELSE 0,
             !.age = 0]

\* Slip: the last unit of the capacity is not for use.
RateLimitAllowsLess(a, amount, direction) ==
  /\ ~Overflows(rateLimits[a][direction])
  /\ amount = 0 \/ amount < AmountCanBeSent(rateLimits[a][direction])
  /\ ~Overflows(rateLimits[a][Opposite(direction)])

\* The bucket of the other direction is read too, and can overflow as well.
RateLimitAllows(a, amount, direction) ==
  /\ CanUpdate(rateLimits[a][direction], amount)
  /\ ~Overflows(rateLimits[a][Opposite(direction)])

Updated(a, amount, direction) ==
  [d \in Directions |-> IF d = direction THEN UpdateLimit(rateLimits[a][d], amount)
                                         ELSE GiveBack(rateLimits[a][d], amount)]

\* _checkAndUpdateRateLimit; the observer sees what passes its adapter.
CheckAndUpdateRateLimit(a, amount, direction) ==
  /\ RateLimitAllows(a, amount, direction)
  /\ rateLimits' = [rateLimits EXCEPT ![a] = Updated(a, amount, direction)]
  /\ net' = CASE watch = <<a, direction>> -> net + amount
              [] watch = <<a, Opposite(direction)>> -> net - amount
              [] OTHER -> net
  /\ UNCHANGED <<watch, elapsed>>

-----------------------------------------------------------------------------
\* The owner: scripts/setup/layerzero.ts

\* A checkpoint of both directions, then the new limit for one.
SetRateLimits(a, direction, limit, window) ==
  /\ RateLimitAllows(a, 0, direction)
  /\ limit # 0
  /\ rateLimits' =
       [rateLimits EXCEPT ![a] =
          [Updated(a, 0, direction) EXCEPT ![direction].limit = limit,
                                           ![direction].window = window]]
  /\ watch' = IF watch = <<a, direction>> THEN None ELSE watch
  /\ net' = IF watch = <<a, direction>> THEN 0 ELSE net
  /\ elapsed' = IF watch = <<a, direction>> THEN 0 ELSE elapsed
  /\ UNCHANGED <<configVars, messages, verified, received, tokenVars>>

SetPeer(a, b) ==
  /\ peers' = [peers EXCEPT ![a] = b]
  /\ UNCHANGED <<rateLimits, sendUln, receiveUln, messages, verified, received,
                 tokenVars, observer>>

\* Once for either library: with ulnReceive for the receiving one.
SetupEndpointConfig(a, uln, ulnReceive) ==
  /\ IF ulnReceive
     THEN receiveUln' = [receiveUln EXCEPT ![a] = uln] /\ UNCHANGED sendUln
     ELSE sendUln' = [sendUln EXCEPT ![a] = uln] /\ UNCHANGED receiveUln
  /\ UNCHANGED <<rateLimits, peers, messages, verified, received, tokenVars, observer>>

\* LBTCOFTAdapter.empty burns what is locked.  Its users have it on the other
\* chain, and get it back through the second adapter at home.
Empty ==
  /\ locked' = 0
  /\ emptied' = TRUE
  /\ UNCHANGED <<rateLimits, configVars, messages, verified, received, circulating,
                 observer>>

-----------------------------------------------------------------------------
\* Transfers

RemoveDust(amount) == (amount \div ConversionRate) * ConversionRate

\* Slip: the dust is taken, too.
DebitedWithDust(amount) == amount

Debited(amount) == RemoveDust(amount)

OnPath(m) == {x \in messages : x.sender = m.sender /\ x.receiver = m.receiver}

NonceOf(a, b) ==
  Cardinality({x \in messages : x.sender = a /\ x.receiver = b}) + 1

\* OFT.send with _debit of either adapter.
Send(a, amount, minAmount) ==
  LET c == ChainOf(a) sent == Debited(amount) IN
  /\ Cardinality(messages) < MaxMessages
  /\ peers[a] # Zero
  /\ RemoveDust(amount) >= minAmount
  /\ circulating[c] >= sent
  /\ CheckAndUpdateRateLimit(a, sent, "Outbound")
  /\ circulating' = [circulating EXCEPT ![c] = @ - sent]
  /\ locked' = IF a = Lockbox THEN locked + sent ELSE locked
  /\ messages' = messages \cup
       {[nonce |-> NonceOf(a, peers[a]), sender |-> a, receiver |-> peers[a],
         amount |-> RemoveDust(amount), uln |-> sendUln[a]]}
  /\ UNCHANGED <<configVars, verified, received, emptied>>

\* The DVNs paid for by the sender are those the receiver requires.
MeetsConfig(m) ==
  /\ receiveUln[m.receiver].dvns \subseteq m.uln.dvns
  /\ receiveUln[m.receiver].confirmations <= m.uln.confirmations

\* Slip: any adapter may send.
AnyPeer(m) == TRUE

FromPeer(m) == peers[m.receiver] = m.sender

\* EndpointV2.verify: a path is opened by its peer.
Verify(m) ==
  /\ m \in messages \ verified
  /\ MeetsConfig(m)
  /\ FromPeer(m) \/ OnPath(m) \cap received # {}
  /\ verified' = verified \cup {m}
  /\ UNCHANGED <<rateLimits, configVars, messages, received, tokenVars, observer>>

\* Execution in any order, of what is verified without a gap.
EarlierAreVerified(m) == \A x \in OnPath(m) : x.nonce < m.nonce => x \in verified

\* EndpointV2.lzReceive, OFT._lzReceive, _credit of either adapter.  With a
\* revert the message stays, for another attempt.
Receive(m) ==
  LET a == m.receiver c == ChainOf(a) IN
  /\ m \in verified \ received
  /\ EarlierAreVerified(m)
  /\ FromPeer(m)
  /\ CheckAndUpdateRateLimit(a, m.amount, "Inbound")
  /\ a = Lockbox => locked >= m.amount
  /\ locked' = IF a = Lockbox THEN locked - m.amount ELSE locked
  /\ circulating' = [circulating EXCEPT ![c] = @ + m.amount]
  /\ received' = received \cup {m}
  /\ UNCHANGED <<configVars, messages, verified, emptied>>

-----------------------------------------------------------------------------
Tick ==
  LET goesOn == watch # None /\ elapsed < MaxElapsed IN
  /\ rateLimits' = [a \in Adapters |-> [d \in Directions |-> Elapse(rateLimits[a][d])]]
  /\ watch' = IF goesOn THEN watch ELSE None
  /\ net' = IF goesOn THEN net ELSE 0
  /\ elapsed' = IF goesOn THEN elapsed + 1 ELSE 0
  /\ UNCHANGED <<configVars, messages, verified, received, tokenVars>>

StartWatch(a, direction) ==
  /\ watch = None
  /\ rateLimits[a][direction].window > 0
  /\ watch' = <<a, direction>>
  /\ UNCHANGED <<rateLimits, configVars, messages, verified, received, tokenVars,
                 net, elapsed>>

\* Peers are on different chains, as PeerStep has it.
Routes == {r \in Adapters \X Adapters : ChainOf(r[1]) # ChainOf(r[2])}

\* The migration goes forward: once the other chain has the second adapter for
\* a peer it keeps it.
PeerStep(a, b) ==
  /\ b = Zero \/ <<a, b>> \in Routes
  /\ peers[AwayMinter] = HomeMinter => a # AwayMinter
  /\ SetPeer(a, b)

OwnerStep ==
  \/ \E a \in Adapters, d \in Directions, r \in RateConfigs :
       SetRateLimits(a, d, r[1], r[2])
  \/ \E a \in Adapters, b \in Adapters \cup {Zero} : PeerStep(a, b)
  \/ \E a \in Adapters, uln \in UlnConfigs, ulnReceive \in BOOLEAN :
       SetupEndpointConfig(a, uln, ulnReceive)
  \/ Empty

TransferStep ==
  \/ \E a \in Adapters, amount \in Amounts :
       \E minAmount \in {0, amount} : Send(a, amount, minAmount)
  \/ \E m \in messages : Verify(m) \/ Receive(m)

ObserverStep == \E a \in Adapters, d \in Directions : StartWatch(a, d)

Next == OwnerStep \/ TransferStep \/ Tick \/ ObserverStep

(***************************************************************************)
(* Time passes, the DVNs verify what they can and somebody executes what   *)
(* can be executed.  That is enough for every message, as they are finitely *)
(* many.                                                                   *)
(***************************************************************************)
Fairness ==
  /\ WF_vars(Tick)
  /\ WF_vars(\E m \in messages : Verify(m))
  /\ WF_vars(\E m \in messages : Receive(m))

Spec == Init /\ [][Next]_vars

-----------------------------------------------------------------------------
OftTypeOK ==
  /\ rateLimits \in [Adapters -> [Directions -> Buckets]]
  /\ peers \in [Adapters -> Adapters \cup {Zero}]
  /\ sendUln \in [Adapters -> UlnConfigs]
  /\ receiveUln \in [Adapters -> UlnConfigs]
  /\ messages \subseteq Messages
  /\ verified \subseteq messages
  /\ received \subseteq verified
  /\ circulating \in [Chains -> Nat]
  /\ locked \in Nat
  /\ emptied \in BOOLEAN
  /\ watch \in (Adapters \X Directions) \cup {None}
  /\ net \in Int
  /\ elapsed \in Nat

InFlight == messages \ received

\* What the messages of a set carry.
Carried(ms) == SumFunction([m \in ms |-> m.amount])

InFlightTo(a) == Carried({m \in InFlight : m.receiver = a})

(***************************************************************************)
(* What users had they have, on either chain or under way, whatever is     *)
(* rounded off, retried, or locked and burned in a migration.              *)
(***************************************************************************)
NothingLost ==
  circulating["home"] + circulating["away"] + Carried(InFlight) = Supply

(***************************************************************************)
(* Until it is emptied the lockbox can pay: it holds what is on its way    *)
(* back to it and, as long as it is the peer of the other chain or may     *)
(* become it, what circulates there, although a second adapter at home     *)
(* mints and burns.                                                        *)
(***************************************************************************)
LockboxCovers ==
  ~emptied =>
    locked >= InFlightTo(Lockbox)
              + (IF peers[AwayMinter] = HomeMinter THEN 0 ELSE circulating["away"])

(***************************************************************************)
(* In any interval without reconfiguration no more than the limit and what *)
(* drains in that time leaves or enters in balance, although every         *)
(* transfer the other way takes from the amount in flight, and stops its   *)
(* clock (_checkAndUpdateRateLimit).                                       *)
(***************************************************************************)
NetFlowBound ==
  watch # None =>
    LET rl == rateLimits[watch[1]][watch[2]] IN
    net * rl.window <= rl.limit * rl.window + rl.limit * elapsed

-----------------------------------------------------------------------------
\* The lane as a bridge: the users of a chain have one account together.

AsTransfer(m) ==
  [src |-> ChainOf(m.sender), dst |-> ChainOf(m.receiver), message |-> m,
   body |-> [token |-> "LBTC", recipient |-> "users", amount |-> m.amount]]

PerAccount(f) ==
  [c \in Chains |-> [t \in {"LBTC"} |-> [u \in {"users"} |-> f[c]]]]

T == INSTANCE TokenTransfers WITH
       Tokens <- {"LBTC"}, Users <- {"users"},
       InitialBalance <- PerAccount(InitialCirculation),
       balance <- PerAccount(circulating),
       pending <- {AsTransfer(m) : m \in InFlight},
       complete <- {AsTransfer(m) : m \in received}

(***************************************************************************)
(* The lane implements exactly-once transfer, like the bridges of BridgeV2 *)
(* and without their mailboxes: what a message took from the users of one  *)
(* chain the users of the other get once, in the same amount, in any order *)
(* of verification and execution and with peers and adapters exchanged     *)
(* meanwhile.                                                              *)
(***************************************************************************)
ExactlyOnce == T!Spec

-----------------------------------------------------------------------------
SentAs(m, r, n) == <<m.sender, m.receiver>> = r /\ m.nonce = n

\* What a message needs to arrive, but for the room left in the limit.
Open(m) ==
  /\ FromPeer(m)
  /\ \A x \in OnPath(m) : x.nonce <= m.nonce => MeetsConfig(x) \/ x \in verified
  /\ m.amount <= rateLimits[m.receiver]["Inbound"].limit
  /\ m.receiver = Lockbox => locked >= m.amount

(***************************************************************************)
(* A transfer arrives in the end once nothing stands in its way for good:  *)
(* the limit recovers, also from a configuration in either direction whose *)
(* product with the time overflows, and an earlier message that exceeds    *)
(* the limit does not hold up a later one.                                 *)
(***************************************************************************)
SentArrives ==
  \A r \in Routes, n \in 1..MaxMessages :
    <>[](\E m \in messages : SentAs(m, r, n) /\ Open(m))
      => <>(\E m \in received : SentAs(m, r, n))

=============================================================================
