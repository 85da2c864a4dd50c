----------------------------- MODULE AssetRouter ----------------------------
(***************************************************************************)
(* contracts/LBTC/AssetRouter.sol with the mailbox that carries its        *)
(* messages, the drawbridge (Bascule) it asks before it mints, and the     *)
(* tokens it mints and burns (NativeLBTC, StakedLBTC).                     *)
(*                                                                         *)
(* Users deposit the native token or redeem a token: the router sends a    *)
(* request to the Lombard ledger and burns.  The ledger sends releases:    *)
(* the router mints.  A release reaches the router through the mailbox     *)
(* only, but anybody may submit it there: past the router, through mint or *)
(* batchMint, or, for claimers, with a fee that its recipient approved.    *)
(*                                                                         *)
(* The ledger is outside the contracts; it releases whatever it likes to.  *)
(* The wrappers of the token contracts (deposit, redeem, redeemForBtc,     *)
(* mint, ...) pass their caller on, so that a user acts for himself        *)
(* whichever contract he calls.                                            *)
(***************************************************************************)
EXTENDS Integers, FiniteSets, Functions

CONSTANTS
  PayloadSizes, FeeRates, MaxNonce, MaxEpoch,          \* see Mailbox
  Version, Thresholds, Admin, MaxGrants,               \* see Bascule
  Zero,
  Here, Ledger, Bitcoin,       \* chain ids; LChainId.get() is Here
  Users, Treasury, Relayer,    \* accounts
  Router,                      \* address of the router
  BtcStaking, AssetsModule,    \* modules of the ledger
  Tokens, NativeTokens,        \* token contracts, and those with isNative()
  BitcoinCoin,                 \* BITCOIN_NATIVE_COIN
  Amounts,                     \* amounts that users ask for
  ReleaseAmounts,              \* amounts of the releases
  Approvals,                   \* fees that a user may approve
  TokenConfigs,                \* configurations the admin may set
  Paths,                       \* routes the admin may set, see RouteKeys
  Supply,                      \* what each account holds of each token at first
  MaxBatch                     \* bound: payloads in a batch

Accounts == Users \cup {Treasury}

Chains == {Here, Ledger}

Coins == Tokens \cup {BitcoinCoin}

\* The keys of routes: from a token on a chain to a token on a chain.
RouteKeys == Coins \X {Here, Bitcoin} \X Coins \X {Here, Bitcoin}

RouteTypes == {"UNKNOWN", "DEPOSIT", "REDEEM"}

\* encodeDepositRequest, encodeRedeemRequest, encodeRedeemNativeRequest and
\* decodeRelease.  A field that an encoding does not have is Zero.
Bodies ==
  [kind : {"DEPOSIT", "REDEEM", "REDEEM_NATIVE", "MINT"},
   toChain : {Here, Bitcoin, Zero}, token : Coins \cup {Zero},
   sender : Accounts \cup {Zero}, recipient : Accounts \cup {Zero}, amount : Nat]

Releases ==
  [kind : {"MINT"}, toChain : {Zero}, token : Tokens, sender : {Zero},
   recipient : Users, amount : ReleaseAmounts]

\* Releases of the ledger, as payloads of the mailbox, have ids that Bascule
\* takes for those of deposits.
LedgerPayloads ==
  [src : {Ledger}, dst : {Here}, nonce : 1..MaxNonce, sender : {BtcStaking},
   recipient : {Router}, destinationCaller : {Zero, Router}, body : Releases]

ASSUME AssetRouterAssumptions ==
  /\ {Amounts, ReleaseAmounts, Approvals, PayloadSizes, FeeRates, Thresholds}
       \subseteq SUBSET Nat
  /\ 0 \notin Approvals
  /\ {MaxNonce, MaxEpoch, MaxGrants, Supply, MaxBatch} \subseteq Nat
  /\ Version \in {2, 3}
  /\ Here \notin {Ledger, Bitcoin, Zero} /\ Ledger \notin {Bitcoin, Zero}
  /\ Bitcoin # Zero
  /\ IsFiniteSet(Tokens) /\ IsFiniteSet(Users)
  /\ NativeTokens \subseteq Tokens
  /\ {BitcoinCoin, Zero} \cap Tokens = {}
  /\ BitcoinCoin # Zero
  /\ Treasury \notin Users
  /\ Zero \notin Accounts \cup {Relayer, Router, BtcStaking, AssetsModule}
  /\ Router \notin {BtcStaking, AssetsModule} /\ BtcStaking # AssetsModule
  /\ Router \notin Accounts \cup {Relayer}
  /\ TokenConfigs \subseteq
       [redeemFee : Nat, redeemForBtcMinAmount : Nat,
        maximumMintCommission : Nat, toNativeCommission : Nat]
  /\ Paths \subseteq RouteKeys

VARIABLES
  globalNonce, outbound, inbound, delivered, handled, defaultMaxPayloadSize,
  mailboxSender, feePerByte, fees, paused, sent, epoch, proofs,  \* see Mailbox
  validateThreshold, maxDeposits, depositHistory, trustedSigner, guardians,
  basculePaused, signed, withdrawals, grants, raises, highest,
  signerless,         \* see Bascule
  routes,             \* type of each route
  nativeToken,
  callers,            \* tokens with CALLER_ROLE
  tokenConfig,
  bascule,            \* whether a Bascule is set
  usedPayloads,
  balance,            \* [token][account]
  tokenPaused,        \* tokens whose transfers are paused
  approved,           \* <<user, token, fee>>: approvals signed and not expired
  basculeSkipped      \* history: a payload was handled without Bascule

M == INSTANCE Mailbox WITH
       Links <- {<<Here, Ledger>>},
       Addresses <- Accounts \cup {Relayer, Router, BtcStaking, AssetsModule},
       Handlers <- {Router}, PayloadSize <- [b \in Bodies |-> 1],
       GlobalMaxPayloadSize <- 1, Values <- {0}

B == INSTANCE Bascule WITH
       Deposits <- LedgerPayloads,
       AmountOf <- [d \in LedgerPayloads |-> d.body.amount],
       Accounts <- {Admin}, Signers <- {}, Nobody <- Zero,
       BatchSizes <- {1}, paused <- basculePaused

mailboxVars == <<globalNonce, outbound, inbound, delivered, handled,
                 defaultMaxPayloadSize, mailboxSender, feePerByte, fees, paused,
                 sent, epoch, proofs>>
basculeConfig == <<validateThreshold, maxDeposits, trustedSigner, guardians,
                   basculePaused, signed, grants, raises, highest, signerless>>
basculeVars == <<basculeConfig, depositHistory, withdrawals>>
configVars == <<routes, nativeToken, callers, tokenConfig, bascule>>
mintVars == <<usedPayloads, basculeSkipped>>
tokenVars == <<balance, tokenPaused, approved>>
routerVars == <<configVars, mintVars, tokenVars>>
vars == <<mailboxVars, basculeVars, routerVars>>

ZeroConfig == [redeemFee |-> 0, redeemForBtcMinAmount |-> 0,
               maximumMintCommission |-> 0, toNativeCommission |-> 0]

InitialBalance == [t \in Tokens |-> [a \in Accounts |-> Supply]]

Init ==
  /\ M!Init
  /\ B!Init
  /\ routes = [k \in RouteKeys |-> "UNKNOWN"]
  /\ nativeToken = Zero
  /\ callers = {}
  /\ tokenConfig = [t \in Tokens |-> ZeroConfig]
  /\ bascule \in BOOLEAN
  /\ usedPayloads = {}
  /\ balance = InitialBalance
  /\ tokenPaused = {}
  /\ approved = {}
  /\ basculeSkipped = FALSE

-----------------------------------------------------------------------------
\* The admin of the router.

RouteType(from, to, toChain) ==
  LET k == <<from, Here, to, toChain>> IN
  IF k \in RouteKeys THEN routes[k] ELSE "UNKNOWN"

\* The tokens of this chain that a route starts from or leads to.
LocalTokens(k) == {k[i] : i \in {j \in {1, 3} : k[j + 1] = Here}}

\* _checkAndSetNativeToken, for both ends of the route.
SetRoute(k, type) ==
  LET natives == LocalTokens(k) \cap NativeTokens IN
  /\ LocalTokens(k) \subseteq Tokens
  /\ \A n \in natives : ({nativeToken} \cup natives) \subseteq {Zero, n}
  /\ routes' = [routes EXCEPT ![k] = type]
  /\ callers' = callers \cup LocalTokens(k)
  /\ nativeToken' \in IF natives = {} THEN {nativeToken} ELSE natives
  /\ UNCHANGED <<tokenConfig, bascule, mintVars, tokenVars, mailboxVars,
                 basculeVars>>

RemoveRoute(k) ==
  /\ routes' = [routes EXCEPT ![k] = "UNKNOWN"]
  /\ UNCHANGED <<nativeToken, callers, tokenConfig, bascule, mintVars, tokenVars,
                 mailboxVars, basculeVars>>

\* changeNativeToken; delete of a struct that holds only a mapping clears none
\* of the routes.
ChangeNativeToken(t) ==
  /\ nativeToken' = t
  /\ UNCHANGED <<routes, callers, tokenConfig, bascule, mintVars, tokenVars,
                 mailboxVars, basculeVars>>

\* changeTokenConfigExt, and the setters of single fields.
ChangeTokenConfigExt(t, config) ==
  /\ tokenConfig' = [tokenConfig EXCEPT ![t] = config]
  /\ UNCHANGED <<routes, nativeToken, callers, bascule, mintVars, tokenVars,
                 mailboxVars, basculeVars>>

BtcRoute(t) == <<t, Here, BitcoinCoin, Bitcoin>>

ChangeTokenConfig(t, fee, minAmount, redeemEnabled) ==
  /\ tokenConfig' = [tokenConfig EXCEPT ![t].redeemFee = fee,
                                        ![t].redeemForBtcMinAmount = minAmount]
  /\ routes' = [routes EXCEPT ![BtcRoute(t)] =
                  IF redeemEnabled THEN "REDEEM" ELSE "UNKNOWN"]
  /\ UNCHANGED <<nativeToken, callers, bascule, mintVars, tokenVars, mailboxVars,
                 basculeVars>>

\* toggleRedeem, which the owner of token t calls through the token.
ToggleRedeem(t) ==
  /\ t \in callers
  /\ routes[BtcRoute(t)] # "DEPOSIT"
  /\ routes' = [routes EXCEPT ![BtcRoute(t)] =
                  IF @ = "UNKNOWN" THEN "REDEEM" ELSE "UNKNOWN"]
  /\ UNCHANGED <<nativeToken, callers, tokenConfig, bascule, mintVars, tokenVars,
                 mailboxVars, basculeVars>>

ChangeBascule(set) ==
  /\ bascule' = set
  /\ UNCHANGED <<routes, nativeToken, callers, tokenConfig, mintVars, tokenVars,
                 mailboxVars, basculeVars>>

\* AccessControl.revokeRole by the admin.
RevokeCaller(t) ==
  /\ callers' = callers \ {t}
  /\ UNCHANGED <<routes, nativeToken, tokenConfig, bascule, mintVars, tokenVars,
                 mailboxVars, basculeVars>>

\* A token is paused or unpaused by those who may.
PauseToken(t) ==
  /\ tokenPaused' = IF t \in tokenPaused THEN tokenPaused \ {t}
                                         ELSE tokenPaused \cup {t}
  /\ UNCHANGED <<configVars, mintVars, balance, approved, mailboxVars, basculeVars>>

-----------------------------------------------------------------------------
\* Requests to the ledger.

Request(kind, toChain, token, sender, recipient, amount) ==
  [kind |-> kind, toChain |-> toChain, token |-> token, sender |-> sender,
   recipient |-> recipient, amount |-> amount]

\* The router attaches no wei to a message.
SendRequest(module, body) ==
  body.amount # 0 /\ M!Send(Here, Router, Ledger, module, Zero, body, 0)

\* Balances of token t after fee was minted to the treasury and then amount
\* was burned from account a.
MintAndBurn(t, fee, a, amount) ==
  [balance EXCEPT ![t] = [x \in Accounts |->
     @[x] + (IF x = Treasury THEN fee ELSE 0) - (IF x = a THEN amount ELSE 0)]]

\* Slip: the balance has to cover what is sent, but not the fee.
ChargeLate(t, fee, u, amount) ==
  /\ t \notin tokenPaused
  /\ balance' = MintAndBurn(t, fee, u, amount)
  /\ balance[t][u] >= amount - fee

Charge(t, fee, u, amount) ==
  /\ t \notin tokenPaused
  /\ balance' = MintAndBurn(t, fee, u, amount)
  /\ balance'[t][u] >= 0

Deposit(u, toChain, toToken, recipient, amount) ==
  /\ RouteType(nativeToken, toToken, toChain) = "DEPOSIT"
  /\ recipient # Zero
  /\ SendRequest(BtcStaking,
                 Request("DEPOSIT", toChain, toToken, u, recipient, amount))
  /\ Charge(nativeToken, 0, u, amount)
  /\ UNCHANGED <<configVars, mintVars, tokenPaused, approved, basculeVars>>

CoversFee(amount, fee) == amount > fee

\* Slip: the fee of the token is added to that of redeemForBtc.
FeeDueTwice(t, fee) == fee + tokenConfig[t].redeemFee

\* A fee of zero stands for a fee that is still to be taken from the amount.
FeeDue(t, fee) == IF fee = 0 THEN tokenConfig[t].redeemFee ELSE fee

\* _redeem
RedeemAs(kind, u, toChain, t, toToken, recipient, amount, fee) ==
  LET due == FeeDue(t, fee)
      net == amount - (due - fee)
  IN /\ t \in callers
     /\ RouteType(t, toToken, toChain) = "REDEEM"
     /\ fee = 0 => CoversFee(amount, due)
     /\ recipient # Zero
     /\ IF kind = "REDEEM_NATIVE"
        THEN SendRequest(AssetsModule,
                         Request(kind, Zero, Zero, u, recipient, net))
        ELSE SendRequest(BtcStaking,
                         Request(kind, toChain, t, u, recipient, net))
     /\ Charge(t, due, u, net + due)
     /\ UNCHANGED <<configVars, mintVars, tokenPaused, approved, basculeVars>>

\* Slip: the generic redemption goes to Bitcoin, too.
AnyDestination(toChain) == TRUE

NotToBitcoin(toChain) == toChain # Bitcoin

Redeem(u, toChain, t, toToken, recipient, amount) ==
  /\ NotToBitcoin(toChain)
  /\ RedeemAs("REDEEM", u, toChain, t, toToken, recipient, amount, 0)

\* The script of a redemption to Bitcoin is one of a supported kind; it is
\* represented by the account that will own the output.
RedeemForBtc(u, t, recipient, amount) ==
  LET config == tokenConfig[t]
      afterFee == amount - config.redeemFee
      net == afterFee - config.toNativeCommission
  IN /\ amount > config.redeemFee
     /\ afterFee > config.toNativeCommission
     /\ net >= config.redeemForBtcMinAmount
     /\ RedeemAs(IF t \in NativeTokens THEN "REDEEM_NATIVE" ELSE "REDEEM",
                 u, Bitcoin, t, BitcoinCoin, recipient, net, amount - net)

-----------------------------------------------------------------------------
\* Releases.  A batch of payloads is submitted in one call; a payload that is
\* listed twice fails the second time and changes nothing.

\* The ledger sends a message to this chain.  Its modules other than the one
\* for staking do so, too.
LedgerSend(sender, destinationCaller, body) ==
  /\ globalNonce[Ledger] <= MaxNonce
  /\ M!UseNonce(Ledger)
  /\ sent' = sent \cup {M!Payload(Ledger, sender, Here, Router,
                                  destinationCaller, body)}
  /\ UNCHANGED <<outbound, inbound, delivered, handled, defaultMaxPayloadSize,
                 mailboxSender, feePerByte, fees, paused, epoch, proofs,
                 basculeVars, routerVars>>

\* Slip: payloads are not remembered.
NeverUsed(m) == TRUE

Unused(m) == m \notin usedPayloads

\* The conditions under which handlePayload does not revert.
HandlePayloadSucceeds(m) ==
  /\ m.sender = BtcStaking
  /\ Unused(m)
  /\ m.body \in Releases
  /\ m.body.amount # 0
  /\ bascule => B!Withdrawable(m)
  /\ m.body.token \notin tokenPaused

Deliverable(caller, m) == \E e \in 1..epoch[Here] : M!Deliverable(Here, m, e, caller)

\* Slip: what the drawbridge recorded outlives the revert of the handler.
ConfirmAll(batch, done) == {m \in batch : bascule /\ B!Withdrawable(m)}

\* Deposits that the drawbridge records as withdrawn.
Confirm(batch, done) == {m \in done : bascule}

ConfirmDeposits(batch, done) ==
  LET confirmed == Confirm(batch, done) IN
  /\ depositHistory' = [d \in LedgerPayloads |->
                          IF d \in confirmed THEN "WITHDRAWN" ELSE depositHistory[d]]
  /\ withdrawals' = [d \in LedgerPayloads |->
                       withdrawals[d] + (IF d \in confirmed THEN 1 ELSE 0)]
  /\ basculeSkipped' = (basculeSkipped \/ (done # {} /\ ~bascule))
  /\ UNCHANGED basculeConfig

\* What account a gets of token t when the payloads in done are minted and the
\* fees moved to the treasury.
Gain(t, a, done, fee) ==
  SumFunction([m \in {x \in done : x.body.token = t} |->
                 (IF m.body.recipient = a THEN m.body.amount - fee[m] ELSE 0)
                 + (IF a = Treasury THEN fee[m] ELSE 0)])

\* Slip: the mark on a payload outlives the revert of its handler.
MarkedAll(batch, done) == batch

Marked(batch, done) == done

\* caller submits the payloads of batch; those in done are handled, and fee is
\* taken from what they mint.  Even a payload that could be handled may fail,
\* for want of gas.
Submit(caller, batch, done, fee) ==
  /\ \A m \in batch : Deliverable(caller, m)
  /\ \A m \in done : HandlePayloadSucceeds(m)
  /\ delivered' = [delivered EXCEPT ![Here] = @ \cup batch]
  /\ handled' = [handled EXCEPT ![Here] = @ \cup done]
  /\ usedPayloads' = usedPayloads \cup Marked(batch, done)
  /\ ConfirmDeposits(batch, done)
  /\ balance' = [t \in Tokens |-> [a \in Accounts |->
                   balance[t][a] + Gain(t, a, done, fee)]]
  /\ UNCHANGED <<globalNonce, outbound, inbound, defaultMaxPayloadSize,
                 mailboxSender, feePerByte, fees, paused, sent, epoch, proofs,
                 configVars, tokenPaused, approved>>

NoFee(done) == [m \in done |-> 0]

\* Mailbox.deliverAndHandle, called by anybody.
Relay(caller, m, done) == done \subseteq {m} /\ Submit(caller, {m}, done, NoFee(done))

\* mint reverts as a whole when the handler fails.
Mint(m) == Submit(Router, {m}, {m}, NoFee({m}))

\* batchMint only reports that a handler failed.
BatchMint(batch, done) == Submit(Router, batch, done, NoFee(done))

\* The lesser of what is approved and what the admin set for the token.
CappedFee(m, fee) ==
  LET cap == tokenConfig[m.body.token].maximumMintCommission IN
  IF cap < fee THEN cap ELSE fee

\* Slip: a fee above the amount is taken from what the recipient had before.
CoversMintFeeAlways(m, fee) == TRUE

CoversMintFee(m, fee) == m.body.amount >= CappedFee(m, fee)

\* _mintWithFee for each entry; approval[m] is the fee of the approval in it.
\* An approval that does not fit reverts the whole batch.
SubmitWithFee(batch, done, approval) ==
  /\ \A m \in done : /\ <<m.body.recipient, m.body.token, approval[m]>> \in approved
                     /\ CoversMintFee(m, approval[m])
  /\ Submit(Router, batch, done, [m \in done |-> CappedFee(m, approval[m])])

MintWithFee(m, fee) == SubmitWithFee({m}, {m}, [x \in {m} |-> fee])

BatchMintWithFee(batch, done, approval) == SubmitWithFee(batch, done, approval)

\* A user signs that he will pay fee for mints of t, and the approval expires.
Approve(u, t, fee) ==
  /\ approved' = approved \cup {<<u, t, fee>>}
  /\ UNCHANGED <<configVars, mintVars, balance, tokenPaused, mailboxVars, basculeVars>>

Expire(u, t, fee) ==
  /\ approved' = approved \ {<<u, t, fee>>}
  /\ UNCHANGED <<configVars, mintVars, balance, tokenPaused, mailboxVars, basculeVars>>

-----------------------------------------------------------------------------
AdminOfRouter ==
  \/ \E k \in Paths : RemoveRoute(k) \/ \E type \in RouteTypes : SetRoute(k, type)
  \/ \E t \in Tokens \cup {Zero} : ChangeNativeToken(t)
  \/ \E t \in Tokens, config \in TokenConfigs :
       \/ ChangeTokenConfigExt(t, config)
       \/ \E b \in BOOLEAN :
            ChangeTokenConfig(t, config.redeemFee, config.redeemForBtcMinAmount, b)
  \/ \E t \in Tokens : ToggleRedeem(t) \/ RevokeCaller(t) \/ PauseToken(t)
  \/ \E b \in BOOLEAN : ChangeBascule(b)

AdminOfBascule ==
  /\ \/ \E t \in Thresholds : B!LowerThreshold(Admin, t) \/ B!RaiseThreshold(Admin, t)
     \/ B!GrantGuardian(Admin) \/ B!LoseGuardian(Admin)
     \/ \E b \in BOOLEAN : B!SetPaused(b)
  /\ UNCHANGED <<mailboxVars, routerVars>>

AdminOfMailbox ==
  M!AdminOfMailbox(Here) /\ UNCHANGED <<basculeVars, routerVars>>

AdminStep == AdminOfRouter \/ AdminOfBascule \/ AdminOfMailbox

\* Watchers report what the ledger is about to release.
Report(m) ==
  /\ m \in LedgerPayloads
  /\ B!ReportDeposits(<< <<m, Zero>> >>)
  /\ UNCHANGED <<mailboxVars, routerVars>>

Notarize(m) == M!Notarize(m) /\ UNCHANGED <<basculeVars, routerVars>>

NextValidatorSet == M!NextValidatorSet(Here) /\ UNCHANGED <<basculeVars, routerVars>>

LedgerStep ==
  \E sender \in {BtcStaking, AssetsModule}, destinationCaller \in {Zero, Router},
     body \in Releases :
    LedgerSend(sender, destinationCaller, body)

DepositAny ==
  \E u, recipient \in Accounts, k \in RouteKeys, amount \in Amounts :
    Deposit(u, k[4], k[3], recipient, amount)

RedeemAny ==
  \E u, recipient \in Accounts, t \in Tokens, amount \in Amounts :
    \/ RedeemForBtc(u, t, recipient, amount)
    \/ \E toChain \in {Here, Bitcoin}, toToken \in Coins :
         Redeem(u, toChain, t, toToken, recipient, amount)

UserStep ==
  \/ DepositAny
  \/ RedeemAny
  \/ \E u \in Users, t \in Tokens, fee \in Approvals :
       Approve(u, t, fee) \/ Expire(u, t, fee)

Inbox == {m \in sent : m.dst = Here}

MintStep ==
  \/ \E m \in Inbox :
       \/ Mint(m)
       \/ \E done \in SUBSET {m} : Relay(Relayer, m, done)
       \/ \E fee \in Approvals : MintWithFee(m, fee)
  \/ \E batch \in SUBSET Inbox : \E done \in SUBSET batch :
       /\ batch # {} /\ Cardinality(batch) <= MaxBatch
       /\ \/ BatchMint(batch, done)
          \/ \E approval \in [done -> Approvals] :
               BatchMintWithFee(batch, done, approval)

Next ==
  \/ AdminStep
  \/ NextValidatorSet
  \/ \E m \in Inbox : Notarize(m) \/ Report(m)
  \/ LedgerStep
  \/ UserStep
  \/ MintStep

Spec == Init /\ [][Next]_vars

-----------------------------------------------------------------------------
RouterTypeOK ==
  /\ routes \in [RouteKeys -> RouteTypes]
  /\ nativeToken \in Tokens \cup {Zero}
  /\ callers \subseteq Tokens
  /\ tokenConfig \in [Tokens -> [redeemFee : Nat, redeemForBtcMinAmount : Nat,
                        maximumMintCommission : Nat, toNativeCommission : Nat]]
  /\ bascule \in BOOLEAN
  /\ usedPayloads \subseteq LedgerPayloads
  /\ balance \in [Tokens -> [Accounts -> Nat]]
  /\ tokenPaused \subseteq Tokens
  /\ approved \subseteq Users \X Tokens \X Approvals
  /\ basculeSkipped \in BOOLEAN

TypeOK == M!TypeOK /\ B!TypeOK /\ RouterTypeOK

(***************************************************************************)
(* Router and mailbox agree on what has been done with a release: it is    *)
(* used exactly when the mailbox has it as handled, through failed single  *)
(* mints, half-failed batches and deliveries past the router.              *)
(***************************************************************************)
UsedIffHandled == usedPayloads = handled[Here]

(***************************************************************************)
(* The drawbridge and the router agree, too: a deposit recorded as         *)
(* withdrawn has been minted, since a mint that fails after                *)
(* validateWithdrawal undoes it; and unless the admin took the drawbridge  *)
(* away for a while, what has been minted is recorded as withdrawn.        *)
(***************************************************************************)
BasculeAgrees ==
  LET withdrawn == {d \in LedgerPayloads : depositHistory[d] = "WITHDRAWN"} IN
  /\ withdrawn \subseteq usedPayloads
  /\ ~basculeSkipped => usedPayloads \subseteq withdrawn

Requests == {m \in sent : m.src = Here /\ m.sender = Router}

Held == SumFunction([k \in Tokens \X Accounts |-> balance[k[1]][k[2]]])

Worth(messages) == SumFunction([m \in messages |-> m.body.amount])

(***************************************************************************)
(* Nothing is created or lost in between: what all accounts hold and what  *)
(* the router asked the ledger to take over add up to the initial supply   *)
(* and the releases handled, each counted once.  All fees are moved, none  *)
(* is minted on top.                                                       *)
(***************************************************************************)
Accounting ==
  Held + Worth(Requests)
    = Supply * Cardinality(Tokens \X Accounts) + Worth(usedPayloads)

I == INSTANCE TokenIssue WITH
       requested <- Requests, released <- sent \cap LedgerPayloads,
       issued <- usedPayloads

(***************************************************************************)
(* The router implements TokenIssue: a request costs its sender its amount *)
(* and a fee, and nobody else anything; a release that the ledger has sent *)
(* is issued at most once, to its recipient, for a fee that it covers.     *)
(* Batches, failed handlers, repeated deliveries and changes of the        *)
(* configuration in between make no difference.                            *)
(***************************************************************************)
IssuedOnce == I!Spec

ToBitcoin(m) == m.body.kind = "REDEEM_NATIVE" \/ m.body.toChain = Bitcoin

(***************************************************************************)
(* A redemption costs the redeem fee once, and the commission of the       *)
(* Bitcoin network if it goes there and only then, although _redeem takes  *)
(* a fee of zero for a fee that redeemForBtc has not taken yet.            *)
(***************************************************************************)
RedeemFeeOnce ==
  [][ \A m \in Requests' \ Requests, t \in Tokens :
        m.body.kind # "DEPOSIT" /\ m.body.sender # Treasury /\ balance'[t] # balance[t]
          => balance'[t][Treasury] - balance[t][Treasury] =
               tokenConfig[t].redeemFee
                 + (IF ToBitcoin(m) THEN tokenConfig[t].toNativeCommission ELSE 0)
    ]_vars

(***************************************************************************)
(* No redemption to Bitcoin is below the minimum of its token at the time, *)
(* whichever of redeem and redeemForBtc, route and order of configuration  *)
(* leads there.  Redemptions only: a deposit has no minimum, and where the *)
(* admin opened a route of type DEPOSIT to Bitcoin, _deposit sends any     *)
(* amount there.                                                           *)
(***************************************************************************)
RedemptionsAboveMinimum ==
  [][ \A m \in Requests' \ Requests, t \in Tokens :
        m.body.kind # "DEPOSIT" /\ ToBitcoin(m) /\ balance'[t] # balance[t]
          => m.body.amount >= tokenConfig[t].redeemForBtcMinAmount ]_vars

(***************************************************************************)
(* A mint with fee never costs its recipient more than the release brings, *)
(* nor more per release than the commission the admin allows: claimers and *)
(* batches cannot reach what he had before.                                *)
(***************************************************************************)
MintNeverCosts ==
  [][ \A t \in Tokens, u \in Users :
        LET minted == {m \in usedPayloads' \ usedPayloads :
                         m.body.token = t /\ m.body.recipient = u}
            cap == tokenConfig[t].maximumMintCommission
        IN minted # {} =>
             balance'[t][u] >= balance[t][u]
               + SumFunction([m \in minted |->
                   IF m.body.amount > cap THEN m.body.amount - cap ELSE 0]) ]_vars

=============================================================================
