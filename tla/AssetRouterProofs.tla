-------------------------- MODULE AssetRouterProofs -------------------------
(***************************************************************************)
(* Proofs about AssetRouter, for any tokens, users, amounts, fees, routes, *)
(* thresholds, batches and bounds.                                         *)
(***************************************************************************)
EXTENDS AssetRouter, Lemmas

(***************************************************************************)
(* The mailbox under the router, with what has been proved about it.  The  *)
(* ledger is not one of its senders, and a batch delivers several messages *)
(* at once; all other steps are steps of Mailbox.                          *)
(***************************************************************************)
MP == INSTANCE MailboxProofs WITH
        Links <- {<<Here, Ledger>>},
        Addresses <- Accounts \cup {Relayer, Router, BtcStaking, AssetsModule},
        Handlers <- {Router}, PayloadSize <- [b \in Bodies |-> 1],
        GlobalMaxPayloadSize <- 1, Values <- {0}

LEMMA MailboxAssumed == MP!MailboxAssumptions
<1>1. {<<Here, Ledger>>} \subseteq Chains \X Chains
  BY DEF Chains
<1>2. Zero \notin Accounts \cup {Relayer, Router, BtcStaking, AssetsModule}
  BY AssetRouterAssumptions
<1>3. /\ PayloadSizes \subseteq Nat /\ FeeRates \subseteq Nat
      /\ MaxNonce \in Nat /\ MaxEpoch \in Nat
  BY AssetRouterAssumptions
<1> QED
  BY <1>1, <1>2, <1>3 DEF MP!MailboxAssumptions

LEMMA SameMailbox ==
  /\ M!TypeOK <=> MP!TypeOK
  /\ M!TypeOK' <=> MP!TypeOK'
  /\ M!Init <=> MP!Init
  /\ M!Messages = MP!Messages
  /\ UNCHANGED mailboxVars <=> UNCHANGED MP!mailboxVars
<1>1. (M!TypeOK <=> MP!TypeOK) /\ (M!TypeOK' <=> MP!TypeOK')
  BY DEF M!TypeOK, MP!TypeOK, M!Messages, MP!Messages, M!SenderConfigs, M!Senders,
         MP!SenderConfigs, MP!Senders
<1>2. M!Init <=> MP!Init
  BY DEF M!Init, MP!Init, M!Senders, MP!Senders
<1>3. UNCHANGED mailboxVars <=> UNCHANGED MP!mailboxVars
  BY DEF mailboxVars, MP!mailboxVars, MP!configVars, MP!deliveryVars,
         MP!notaryVars, MP!sendVars
<1>4. M!Messages = MP!Messages
  BY DEF M!Messages, MP!Messages
<1> QED
  BY <1>1, <1>2, <1>3, <1>4

LEMMA SameSend ==
  ASSUME NEW c, NEW a, NEW d, NEW r, NEW dc, NEW b, NEW v
  PROVE  M!Send(c, a, d, r, dc, b, v) <=> MP!Send(c, a, d, r, dc, b, v)
  BY DEF M!Send, MP!Send, M!CanSend, MP!CanSend, M!WhenNotPaused, MP!WhenNotPaused,
         M!ValidRecipient, MP!ValidRecipient, M!MaxSizeOf, MP!MaxSizeOf,
         M!Fee, MP!Fee, M!UseNonce, MP!UseNonce, M!Payload, MP!Payload,
         M!configVars, MP!configVars, M!deliveryVars, MP!deliveryVars,
         M!notaryVars, MP!notaryVars

LEMMA SameConsortium ==
  ASSUME NEW c, NEW m
  PROVE  /\ M!NextValidatorSet(c) <=> MP!NextValidatorSet(c)
         /\ M!Notarize(m) <=> MP!Notarize(m)
  BY DEF M!NextValidatorSet, MP!NextValidatorSet, M!Notarize, MP!Notarize,
         M!configVars, MP!configVars, M!deliveryVars, MP!deliveryVars,
         M!sendVars, MP!sendVars

LEMMA SameAdmin ==
  ASSUME NEW c
  PROVE  M!AdminOfMailbox(c) <=> MP!AdminOfMailbox(c)
<1> USE DEF M!deliveryVars, MP!deliveryVars, M!notaryVars, MP!notaryVars,
            M!sendVars, MP!sendVars, M!configVars, MP!configVars
<1>1. ASSUME NEW d, NEW direction
      PROVE  /\ M!EnableMessagePath(c, d, direction)
                  <=> MP!EnableMessagePath(c, d, direction)
             /\ M!DisableMessagePath(c, d, direction)
                  <=> MP!DisableMessagePath(c, d, direction)
  BY DEF M!EnableMessagePath, MP!EnableMessagePath,
         M!DisableMessagePath, MP!DisableMessagePath
<1>2. ASSUME NEW size, NEW a, NEW b
      PROVE  /\ M!SetDefaultMaxPayloadSize(c, size)
                  <=> MP!SetDefaultMaxPayloadSize(c, size)
             /\ M!SetSenderConfig(c, a, size, b)
                  <=> MP!SetSenderConfig(c, a, size, b)
             /\ M!SetFee(c, size) <=> MP!SetFee(c, size)
  BY DEF M!SetDefaultMaxPayloadSize, MP!SetDefaultMaxPayloadSize,
         M!SetSenderConfig, MP!SetSenderConfig, M!SetFee, MP!SetFee
<1>3. /\ M!Pause(c) <=> MP!Pause(c)
      /\ M!Unpause(c) <=> MP!Unpause(c)
      /\ M!WithdrawFee(c) <=> MP!WithdrawFee(c)
  BY DEF M!Pause, MP!Pause, M!Unpause, MP!Unpause, M!WithdrawFee, MP!WithdrawFee,
         M!WhenNotPaused, MP!WhenNotPaused
<1>4. M!Directions = MP!Directions /\ M!Senders = MP!Senders
  BY DEF M!Directions, MP!Directions, M!Senders, MP!Senders
<1> QED
  BY <1>1, <1>2, <1>3, <1>4 DEF M!AdminOfMailbox, MP!AdminOfMailbox

-----------------------------------------------------------------------------
(***************************************************************************)
(* The steps by what they change.  Four kinds leave money and messages     *)
(* alone; a request burns, a release is sent, a submission mints.          *)
(***************************************************************************)
RouterSetup ==
  /\ UNCHANGED <<mailboxVars, basculeVars, mintVars, balance>>
  /\ \/ AdminOfRouter
     \/ \E u \in Users, t \in Tokens, fee \in Approvals :
          Approve(u, t, fee) \/ Expire(u, t, fee)

BasculeStep ==
  /\ UNCHANGED <<mailboxVars, routerVars>>
  /\ \/ AdminOfBascule
     \/ \E m \in LedgerPayloads : B!ReportDeposits(<< <<m, Zero>> >>)

MailboxStep ==
  /\ UNCHANGED <<basculeVars, routerVars>>
  /\ \/ M!AdminOfMailbox(Here)
     \/ M!NextValidatorSet(Here)
     \/ \E m \in sent : M!Notarize(m)

\* The account u pays for a request for body; fee goes to the treasury.
Pays(u, t, fee, module, body) ==
  /\ SendRequest(module, body)
  /\ Charge(t, fee, u, body.amount + fee)
  /\ UNCHANGED <<configVars, mintVars, tokenPaused, approved, basculeVars>>

\* Who pays, what a redemption costs, and how small it may be.
AsConfigured(u, t, fee, body) ==
  LET toBitcoin == body.kind = "REDEEM_NATIVE" \/ body.toChain = Bitcoin IN
  /\ body.sender = u
  /\ body.kind # "DEPOSIT" =>
       /\ fee = tokenConfig[t].redeemFee
                  + (IF toBitcoin THEN tokenConfig[t].toNativeCommission ELSE 0)
       /\ toBitcoin => body.amount >= tokenConfig[t].redeemForBtcMinAmount

RequestStep ==
  \E u \in Accounts, t \in Tokens, fee \in Nat,
     module \in {BtcStaking, AssetsModule}, body \in Bodies :
    Pays(u, t, fee, module, body) /\ AsConfigured(u, t, fee, body)

\* No fee exceeds the amount, or what the admin allows for the token.
Fair(done, fee) ==
  \A m \in done : /\ fee[m] <= m.body.amount
                  /\ fee[m] <= tokenConfig[m.body.token].maximumMintCommission

SubmitStep ==
  \E batch \in SUBSET Inbox : \E done \in SUBSET batch : \E fee \in [done -> Nat] :
    \E caller : Fair(done, fee) /\ Submit(caller, batch, done, fee)

LEMMA AdminOfRouterLeaves ==
  ASSUME AdminOfRouter
  PROVE  UNCHANGED <<mailboxVars, basculeVars, mintVars, balance>>
<1> DEFINE Same == UNCHANGED <<mailboxVars, basculeVars, mintVars, balance>>
<1> USE DEF tokenVars
<1>1. ASSUME NEW k, NEW type, SetRoute(k, type) PROVE Same
  BY <1>1 DEF SetRoute
<1>2. ASSUME NEW k, RemoveRoute(k) PROVE Same
  BY <1>2 DEF RemoveRoute
<1>3. ASSUME NEW t, ChangeNativeToken(t) PROVE Same
  BY <1>3 DEF ChangeNativeToken
<1>4. ASSUME NEW t, NEW config, ChangeTokenConfigExt(t, config) PROVE Same
  BY <1>4 DEF ChangeTokenConfigExt
<1>5. ASSUME NEW t, NEW fee, NEW minAmount, NEW b,
             ChangeTokenConfig(t, fee, minAmount, b)
      PROVE  Same
  BY <1>5 DEF ChangeTokenConfig
<1>6. ASSUME NEW t, ToggleRedeem(t) \/ RevokeCaller(t) \/ PauseToken(t) PROVE Same
  BY <1>6 DEF ToggleRedeem, RevokeCaller, PauseToken
<1>7. ASSUME NEW b, ChangeBascule(b) PROVE Same
  BY <1>7 DEF ChangeBascule
<1> HIDE DEF Same
<1>8. Same
  BY <1>1, <1>2, <1>3, <1>4, <1>5, <1>6, <1>7 DEF AdminOfRouter
<1> QED
  BY <1>8 DEF Same

TokenConfigTypes ==
  [redeemFee : Nat, redeemForBtcMinAmount : Nat,
   maximumMintCommission : Nat, toNativeCommission : Nat]

LEMMA ConfigType ==
  ASSUME RouterTypeOK, NEW t \in Tokens
  PROVE  tokenConfig[t] \in TokenConfigTypes
  BY DEF RouterTypeOK, TokenConfigTypes

LEMMA DepositPays ==
  ASSUME RouterTypeOK, NEW u \in Accounts, NEW k \in RouteKeys,
         NEW recipient \in Accounts, NEW amount \in Amounts,
         Deposit(u, k[4], k[3], recipient, amount)
  PROVE  RequestStep
<1> DEFINE body == Request("DEPOSIT", k[4], k[3], u, recipient, amount)
<1>1. amount \in Nat
  BY AssetRouterAssumptions
<1>2. nativeToken \in Tokens
  <2>1. <<nativeToken, Here, k[3], k[4]>> \in RouteKeys
    BY DEF Deposit, RouteType
  <2>2. nativeToken \in Coins
    BY <2>1 DEF RouteKeys
  <2>3. nativeToken \in Tokens \cup {Zero} /\ BitcoinCoin # Zero
    BY AssetRouterAssumptions DEF RouterTypeOK
  <2> QED
    BY <2>2, <2>3 DEF Coins
<1>3. /\ body \in Bodies
      /\ body.kind = "DEPOSIT" /\ body.sender = u /\ body.amount = amount
  <2>1. k[4] \in {Here, Bitcoin} /\ k[3] \in Coins
    BY DEF RouteKeys
  <2> QED
    BY <1>1, <2>1 DEF Request, Bodies
<1>4. Pays(u, nativeToken, 0, BtcStaking, body)
  <2>1. amount + 0 = amount
    BY <1>1
  <2> QED
    BY <1>3, <2>1 DEF Deposit, Pays
<1> HIDE DEF body
<1>5. AsConfigured(u, nativeToken, 0, body)
  BY <1>3 DEF AsConfigured
<1> QED
  BY <1>2, <1>3, <1>4, <1>5 DEF RequestStep

\* What _redeem charges and sends, whichever entry point it is called from.
LEMMA RedeemAsPays ==
  ASSUME RouterTypeOK, NEW kind \in {"REDEEM", "REDEEM_NATIVE"},
         NEW u \in Accounts, NEW toChain \in {Here, Bitcoin}, NEW t \in Tokens,
         NEW toToken, NEW recipient \in Accounts, NEW amount \in Nat,
         NEW fee \in Nat,
         RedeemAs(kind, u, toChain, t, toToken, recipient, amount, fee)
  PROVE  \E module \in {BtcStaking, AssetsModule}, body \in Bodies :
           /\ FeeDue(t, fee) \in Nat
           /\ Pays(u, t, FeeDue(t, fee), module, body)
           /\ body.kind = kind /\ body.sender = u
           /\ body.amount = amount - (FeeDue(t, fee) - fee)
           /\ kind = "REDEEM" => body.toChain = toChain
<1> DEFINE due == FeeDue(t, fee)
           net == amount - (due - fee)
           body == IF kind = "REDEEM_NATIVE"
                   THEN Request(kind, Zero, Zero, u, recipient, net)
                   ELSE Request(kind, toChain, t, u, recipient, net)
           module == IF kind = "REDEEM_NATIVE" THEN AssetsModule ELSE BtcStaking
<1>1. due \in Nat
  BY ConfigType DEF FeeDue, TokenConfigTypes
<1>2. net \in Nat
  <2>1. CASE fee = 0
    BY <1>1, <2>1 DEF RedeemAs, CoversFee
  <2>2. CASE fee # 0
    BY <1>1, <2>2 DEF FeeDue
  <2> QED
    BY <2>1, <2>2
<1>3. SendRequest(module, body) /\ Charge(t, due, u, net + due)
  BY DEF RedeemAs
<1>4. UNCHANGED <<configVars, mintVars, tokenPaused, approved, basculeVars>>
  BY DEF RedeemAs
<1> HIDE DEF net, due
<1>5. /\ body \in Bodies
      /\ body.kind = kind /\ body.sender = u /\ body.amount = net
      /\ kind = "REDEEM" => body.toChain = toChain
  BY <1>2 DEF Request, Bodies, Coins
<1>6. module \in {BtcStaking, AssetsModule}
  OBVIOUS
<1> HIDE DEF body, module
<1>7. Pays(u, t, due, module, body)
  BY <1>3, <1>4, <1>5 DEF Pays
<1> QED
  BY <1>1, <1>5, <1>6, <1>7 DEF net, due

LEMMA RedeemPays ==
  ASSUME RouterTypeOK, NEW u \in Accounts, NEW toChain \in {Here, Bitcoin},
         NEW t \in Tokens, NEW toToken, NEW recipient \in Accounts,
         NEW amount \in Amounts, Redeem(u, toChain, t, toToken, recipient, amount)
  PROVE  RequestStep
<1>1. amount \in Nat /\ 0 \in Nat /\ "REDEEM" \in {"REDEEM", "REDEEM_NATIVE"}
  BY AssetRouterAssumptions
<1>2. /\ toChain # Bitcoin
      /\ RedeemAs("REDEEM", u, toChain, t, toToken, recipient, amount, 0)
  BY DEF Redeem, NotToBitcoin
<1>3. FeeDue(t, 0) = tokenConfig[t].redeemFee /\ tokenConfig[t].redeemFee \in Nat
  BY ConfigType DEF FeeDue, TokenConfigTypes
<1> PICK module \in {BtcStaking, AssetsModule}, body \in Bodies :
      /\ FeeDue(t, 0) \in Nat
      /\ Pays(u, t, FeeDue(t, 0), module, body)
      /\ body.kind = "REDEEM" /\ body.sender = u
      /\ body.amount = amount - (FeeDue(t, 0) - 0)
      /\ body.toChain = toChain
  BY <1>1, <1>2, RedeemAsPays
<1>4. AsConfigured(u, t, FeeDue(t, 0), body)
  BY <1>2, <1>3 DEF AsConfigured
<1> QED
  BY <1>4 DEF RequestStep

LEMMA RedeemForBtcPays ==
  ASSUME RouterTypeOK, NEW u \in Accounts, NEW t \in Tokens,
         NEW recipient \in Accounts, NEW amount \in Amounts,
         RedeemForBtc(u, t, recipient, amount)
  PROVE  RequestStep
<1> DEFINE config == tokenConfig[t]
           net == (amount - config.redeemFee) - config.toNativeCommission
           fee == amount - net
           kind == IF t \in NativeTokens THEN "REDEEM_NATIVE" ELSE "REDEEM"
<1>1. amount \in Nat /\ kind \in {"REDEEM", "REDEEM_NATIVE"}
  BY AssetRouterAssumptions
<1>2. config \in TokenConfigTypes
  BY ConfigType
<1>3. /\ net \in Nat /\ net >= config.redeemForBtcMinAmount
      /\ fee \in Nat /\ fee = config.redeemFee + config.toNativeCommission
  BY <1>1, <1>2 DEF RedeemForBtc, TokenConfigTypes
<1>4. RedeemAs(kind, u, Bitcoin, t, BitcoinCoin, recipient, net, fee)
  BY DEF RedeemForBtc
<1>5. FeeDue(t, fee) = fee
  BY <1>2, <1>3 DEF FeeDue, TokenConfigTypes
<1> HIDE DEF net, fee, kind
<1> PICK module \in {BtcStaking, AssetsModule}, body \in Bodies :
      /\ FeeDue(t, fee) \in Nat
      /\ Pays(u, t, FeeDue(t, fee), module, body)
      /\ body.kind = kind /\ body.sender = u
      /\ body.amount = net - (FeeDue(t, fee) - fee)
      /\ kind = "REDEEM" => body.toChain = Bitcoin
  BY <1>1, <1>3, <1>4, RedeemAsPays
<1>6. body.amount = net
  BY <1>3, <1>5
<1>7. AsConfigured(u, t, FeeDue(t, fee), body)
  BY <1>1, <1>3, <1>5, <1>6 DEF AsConfigured
<1> QED
  BY <1>7 DEF RequestStep

\* What is handled is a release.
LEMMA HandledIsRelease ==
  ASSUME NEW m, HandlePayloadSucceeds(m)
  PROVE  /\ m.body \in Releases /\ m.body \in Bodies
         /\ m.body.token \in Tokens /\ m.body.recipient \in Users
         /\ m.body.amount \in Nat
<1>1. m.body \in Releases
  BY DEF HandlePayloadSucceeds
<1> QED
  BY <1>1, AssetRouterAssumptions DEF Releases, Bodies, Coins, Accounts

LEMMA FreeSubmit ==
  ASSUME RouterTypeOK, NEW caller, NEW batch \in SUBSET Inbox,
         NEW done \in SUBSET batch, Submit(caller, batch, done, NoFee(done))
  PROVE  SubmitStep
<1>1. NoFee(done) \in [done -> Nat]
  BY DEF NoFee
<1>2. ASSUME NEW m \in done
      PROVE  /\ NoFee(done)[m] <= m.body.amount
             /\ NoFee(done)[m] <= tokenConfig[m.body.token].maximumMintCommission
  <2>1. HandlePayloadSucceeds(m) /\ NoFee(done)[m] = 0
    BY DEF Submit, NoFee
  <2>2. m.body.amount \in Nat /\ tokenConfig[m.body.token] \in TokenConfigTypes
    BY <2>1, HandledIsRelease, ConfigType
  <2> QED
    BY <2>1, <2>2 DEF TokenConfigTypes
<1> QED
  BY <1>1, <1>2 DEF SubmitStep, Fair

LEMMA SubmitWithFeeFits ==
  ASSUME RouterTypeOK, NEW batch \in SUBSET Inbox, NEW done \in SUBSET batch,
         NEW approval \in [done -> Approvals], SubmitWithFee(batch, done, approval)
  PROVE  SubmitStep
<1> DEFINE fee == [m \in done |-> CappedFee(m, approval[m])]
<1>1. Submit(Router, batch, done, fee)
  BY DEF SubmitWithFee
<1>2. ASSUME NEW m \in done
      PROVE  /\ CappedFee(m, approval[m]) \in Nat
             /\ CappedFee(m, approval[m]) <= m.body.amount
             /\ CappedFee(m, approval[m])
                  <= tokenConfig[m.body.token].maximumMintCommission
  <2>1. HandlePayloadSucceeds(m) /\ CoversMintFee(m, approval[m])
    BY <1>1 DEF Submit, SubmitWithFee
  <2>2. m.body.amount \in Nat /\ tokenConfig[m.body.token] \in TokenConfigTypes
    BY <2>1, HandledIsRelease, ConfigType
  <2>3. approval[m] \in Nat
    BY AssetRouterAssumptions
  <2> QED
    BY <2>1, <2>2, <2>3 DEF CappedFee, CoversMintFee, TokenConfigTypes
<1>3. fee \in [done -> Nat] /\ Fair(done, fee)
  BY <1>2 DEF Fair
<1> HIDE DEF fee
<1> QED
  BY <1>1, <1>3 DEF SubmitStep

LEMMA MintStepSubmits ==
  ASSUME RouterTypeOK, MintStep
  PROVE  SubmitStep
<1>1. ASSUME NEW m \in Inbox, Mint(m) PROVE SubmitStep
  <2>1. {m} \in SUBSET Inbox /\ {m} \in SUBSET {m}
    OBVIOUS
  <2> QED
    BY <1>1, <2>1, FreeSubmit DEF Mint
<1>2. ASSUME NEW m \in Inbox, NEW done \in SUBSET {m}, Relay(Relayer, m, done)
      PROVE  SubmitStep
  <2>1. {m} \in SUBSET Inbox
    OBVIOUS
  <2> QED
    BY <1>2, <2>1, FreeSubmit DEF Relay
<1>3. ASSUME NEW m \in Inbox, NEW fee \in Approvals, MintWithFee(m, fee)
      PROVE  SubmitStep
  <2>1. /\ {m} \in SUBSET Inbox /\ {m} \in SUBSET {m}
        /\ [x \in {m} |-> fee] \in [{m} -> Approvals]
    OBVIOUS
  <2> QED
    BY <1>3, <2>1, SubmitWithFeeFits DEF MintWithFee
<1>4. ASSUME NEW batch \in SUBSET Inbox, NEW done \in SUBSET batch,
             BatchMint(batch, done)
      PROVE  SubmitStep
  BY <1>4, FreeSubmit DEF BatchMint
<1>5. ASSUME NEW batch \in SUBSET Inbox, NEW done \in SUBSET batch,
             NEW approval \in [done -> Approvals],
             BatchMintWithFee(batch, done, approval)
      PROVE  SubmitStep
  BY <1>5, SubmitWithFeeFits DEF BatchMintWithFee
<1> QED
  BY <1>1, <1>2, <1>3, <1>4, <1>5 DEF MintStep

LEMMA StepCases ==
  ASSUME RouterTypeOK, [Next]_vars
  PROVE  \/ RouterSetup \/ BasculeStep \/ MailboxStep \/ UNCHANGED vars
         \/ RequestStep \/ LedgerStep \/ SubmitStep
<1>1. CASE AdminOfRouter
  BY <1>1, AdminOfRouterLeaves DEF RouterSetup
<1>2. CASE AdminOfBascule
  BY <1>2 DEF BasculeStep, AdminOfBascule
<1>3. CASE AdminOfMailbox \/ NextValidatorSet
  BY <1>3 DEF MailboxStep, AdminOfMailbox, NextValidatorSet
<1>4. ASSUME NEW m \in Inbox, Notarize(m) PROVE MailboxStep
  BY <1>4 DEF MailboxStep, Notarize, Inbox
<1>5. ASSUME NEW m \in Inbox, Report(m) PROVE BasculeStep
  BY <1>5 DEF BasculeStep, Report
<1>6. CASE DepositAny
  BY <1>6, DepositPays DEF DepositAny
<1>7. CASE RedeemAny
  BY <1>7, RedeemPays, RedeemForBtcPays DEF RedeemAny
<1>8. ASSUME NEW u \in Users, NEW t \in Tokens, NEW fee \in Approvals,
             Approve(u, t, fee) \/ Expire(u, t, fee)
      PROVE  RouterSetup
  BY <1>8 DEF RouterSetup, Approve, Expire
<1> QED
  BY <1>1, <1>2, <1>3, <1>4, <1>5, <1>6, <1>7, <1>8, MintStepSubmits
     DEF Next, AdminStep, UserStep

-----------------------------------------------------------------------------
(***************************************************************************)
(* Where messages come from.  A message for this chain is one of the       *)
(* ledger for the router, all messages are older than the nonce of their   *)
(* chain, and only what was sent has been used.                            *)
(***************************************************************************)
LedgerMessages ==
  [src : {Ledger}, dst : {Here}, nonce : 1..MaxNonce,
   sender : {BtcStaking, AssetsModule}, recipient : {Router},
   destinationCaller : {Zero, Router}, body : Releases]

Origins ==
  /\ IsFiniteSet(sent)
  /\ usedPayloads \subseteq sent
  /\ \A m \in sent : /\ m.nonce < globalNonce[m.src]
                     /\ m.dst = Here => m \in LedgerMessages
  /\ globalNonce[Ledger] >= 1

TypeInv == TypeOK /\ Origins

\* What the three other kinds of step do to the mailbox.
LEMMA RequestSends ==
  ASSUME M!TypeOK, NEW u, NEW t, NEW fee,
         NEW module \in {BtcStaking, AssetsModule}, NEW body \in Bodies,
         Pays(u, t, fee, module, body)
  PROVE  LET m == M!Payload(Here, Router, Ledger, module, Zero, body)
         IN  /\ MP!Send(Here, Router, Ledger, module, Zero, body, 0)
             /\ sent' = sent \cup {m}
             /\ m.src = Here /\ m.dst = Ledger /\ m.sender = Router
             /\ m.nonce = globalNonce[Here] /\ m.body = body
             /\ globalNonce' = [globalNonce EXCEPT ![Here] = @ + 1]
             /\ UNCHANGED <<delivered, handled>>
<1>1. M!Send(Here, Router, Ledger, module, Zero, body, 0)
  BY DEF Pays, SendRequest
<1> QED
  BY <1>1, SameSend DEF M!Payload, M!Send, M!UseNonce, M!deliveryVars

LEMMA LedgerSends ==
  ASSUME M!TypeOK, globalNonce[Ledger] >= 1, LedgerStep
  PROVE  \E m \in LedgerMessages :
           /\ m.nonce = globalNonce[Ledger]
           /\ m \in M!Messages
           /\ sent' = sent \cup {m}
           /\ globalNonce' = [globalNonce EXCEPT ![Ledger] = @ + 1]
           /\ UNCHANGED <<outbound, inbound, delivered, handled,
                          defaultMaxPayloadSize, mailboxSender, feePerByte, fees,
                          paused, epoch, proofs, basculeVars, routerVars>>
<1> PICK sender \in {BtcStaking, AssetsModule}, destinationCaller \in {Zero, Router},
         body \in Releases : LedgerSend(sender, destinationCaller, body)
  BY DEF LedgerStep
<1> DEFINE m == M!Payload(Ledger, sender, Here, Router, destinationCaller, body)
<1>1. globalNonce[Ledger] \in 1..MaxNonce
  <2>1. globalNonce[Ledger] \in Nat /\ MaxNonce \in Nat
    BY AssetRouterAssumptions DEF M!TypeOK, Chains
  <2> QED
    BY <2>1 DEF LedgerSend
<1>2. m \in LedgerMessages /\ m.nonce = globalNonce[Ledger]
  BY <1>1 DEF M!Payload, LedgerMessages
<1>3. body \in Bodies
  BY AssetRouterAssumptions DEF Releases, Bodies, Coins, Accounts
<1>4. m \in M!Messages
  BY <1>1, <1>3 DEF M!Payload, M!Messages, Chains
<1>5. /\ sent' = sent \cup {m}
      /\ globalNonce' = [globalNonce EXCEPT ![Ledger] = @ + 1]
      /\ UNCHANGED <<outbound, inbound, delivered, handled,
                     defaultMaxPayloadSize, mailboxSender, feePerByte, fees,
                     paused, epoch, proofs, basculeVars, routerVars>>
  BY DEF LedgerSend, M!UseNonce
<1> QED
  BY <1>2, <1>4, <1>5

LEMMA MailboxTypeOK ==
  ASSUME TypeInv, [Next]_vars
  PROVE  M!TypeOK'
<1>0. M!TypeOK /\ RouterTypeOK
  BY DEF TypeInv, TypeOK
<1>1. ASSUME UNCHANGED mailboxVars PROVE M!TypeOK'
  BY <1>0, <1>1 DEF mailboxVars, M!TypeOK
<1>2. CASE MailboxStep
  <2>1. MP!Next
    BY <1>2, SameAdmin, SameConsortium DEF MailboxStep, MP!Next, Chains
  <2> QED
    BY <1>0, <2>1, MailboxAssumed, MP!NextTypeOK, SameMailbox
<1>3. CASE RequestStep
  <2> PICK u \in Accounts, t \in Tokens, fee \in Nat,
           module \in {BtcStaking, AssetsModule}, body \in Bodies :
             Pays(u, t, fee, module, body)
    BY <1>3 DEF RequestStep
  <2>1. MP!Send(Here, Router, Ledger, module, Zero, body, 0)
    BY <1>0, RequestSends
  <2>2. MP!TypeOK'
    BY <1>0, <2>1, MailboxAssumed, MP!SendTypeOK, SameMailbox DEF Chains
  <2> QED
    BY <2>2, SameMailbox
<1>4. CASE LedgerStep
  BY <1>0, <1>4, LedgerSends DEF TypeInv, Origins, M!TypeOK, Chains
<1>5. CASE SubmitStep
  <2> PICK batch \in SUBSET Inbox :
           \E done \in SUBSET batch : \E fee, caller : Submit(caller, batch, done, fee)
    BY <1>5 DEF SubmitStep
  <2> PICK done \in SUBSET batch : \E fee, caller : Submit(caller, batch, done, fee)
    OBVIOUS
  <2>1. batch \subseteq M!Messages /\ done \subseteq M!Messages
    BY <1>0 DEF Inbox, M!TypeOK
  <2> QED
    BY <1>0, <2>1 DEF Submit, M!TypeOK, Chains
<1> QED
  BY <1>0, <1>1, <1>2, <1>3, <1>4, <1>5, StepCases
     DEF RouterSetup, BasculeStep, vars

LEMMA BasculeStepTypeOK ==
  ASSUME B!TypeOK, BasculeStep
  PROVE  B!TypeOK'
<1> USE DEF B!TypeOK, B!DepositStates
<1>1. ASSUME NEW t \in Thresholds, B!LowerThreshold(Admin, t) PROVE B!TypeOK'
  <2>1. t \in Nat
    BY AssetRouterAssumptions
  <2> QED
    BY <1>1, <2>1 DEF B!LowerThreshold, B!Lowers, B!observerVars
<1>2. ASSUME NEW t \in Thresholds, B!RaiseThreshold(Admin, t) PROVE B!TypeOK'
  <2>1. t \in Nat
    BY AssetRouterAssumptions
  <2>2. validateThreshold' = t /\ highest' \in Nat /\ t <= highest' /\ raises' \in Nat
    BY <1>2, <2>1 DEF B!RaiseThreshold
  <2> QED
    BY <1>2, <2>1, <2>2 DEF B!RaiseThreshold, B!RenounceRole
<1>3. CASE B!GrantGuardian(Admin)
  BY <1>3 DEF B!GrantGuardian
<1>4. CASE B!LoseGuardian(Admin)
  BY <1>4 DEF B!LoseGuardian, B!observerVars
<1>5. ASSUME NEW b \in BOOLEAN, B!SetPaused(b) PROVE B!TypeOK'
  BY <1>5 DEF B!SetPaused, B!observerVars
<1>6. ASSUME NEW batch, B!ReportDeposits(batch) PROVE B!TypeOK'
  BY <1>6 DEF B!ReportDeposits, B!configVars, B!observerVars
<1> QED
  BY <1>1, <1>2, <1>3, <1>4, <1>5, <1>6 DEF BasculeStep, AdminOfBascule

LEMMA BasculeTypeOK ==
  ASSUME TypeInv, [Next]_vars
  PROVE  B!TypeOK'
<1>0. B!TypeOK /\ RouterTypeOK /\ M!TypeOK
  BY DEF TypeInv, TypeOK
<1>1. ASSUME UNCHANGED basculeVars PROVE B!TypeOK'
  BY <1>0, <1>1 DEF basculeVars, basculeConfig, B!TypeOK
<1>2. CASE BasculeStep
  BY <1>0, <1>2, BasculeStepTypeOK
<1>3. CASE RequestStep
  BY <1>1, <1>3 DEF RequestStep, Pays
<1>4. CASE LedgerStep
  BY <1>0, <1>1, <1>4, LedgerSends DEF TypeInv, Origins
<1>5. ASSUME NEW batch, NEW done, ConfirmDeposits(batch, done) PROVE B!TypeOK'
  BY <1>0, <1>5 DEF ConfirmDeposits, basculeConfig, B!TypeOK, B!DepositStates
<1>6. CASE SubmitStep
  BY <1>5, <1>6 DEF SubmitStep, Submit
<1> QED
  BY <1>0, <1>1, <1>2, <1>3, <1>4, <1>6, StepCases
     DEF RouterSetup, MailboxStep, vars

-----------------------------------------------------------------------------
LEMMA AdminTypeOK ==
  ASSUME RouterTypeOK, AdminOfRouter
  PROVE  RouterTypeOK'
<1> USE DEF RouterTypeOK, mintVars, tokenVars
<1>1. ASSUME NEW k \in Paths, NEW type \in RouteTypes, SetRoute(k, type)
      PROVE  RouterTypeOK'
  <2>1. LocalTokens(k) \subseteq Tokens /\ NativeTokens \subseteq Tokens
    BY <1>1, AssetRouterAssumptions DEF SetRoute
  <2>2. nativeToken' \in Tokens \cup {Zero}
    BY <1>1, <2>1 DEF SetRoute
  <2>3. callers' \subseteq Tokens
    BY <1>1, <2>1 DEF SetRoute
  <2>4. routes' \in [RouteKeys -> RouteTypes]
    BY <1>1 DEF SetRoute
  <2> QED
    BY <1>1, <2>2, <2>3, <2>4 DEF SetRoute
<1>2. ASSUME NEW k \in Paths, RemoveRoute(k) PROVE RouterTypeOK'
  BY <1>2 DEF RemoveRoute, RouteTypes
<1>3. ASSUME NEW t \in Tokens \cup {Zero}, ChangeNativeToken(t) PROVE RouterTypeOK'
  BY <1>3 DEF ChangeNativeToken
<1>4. ASSUME NEW t \in Tokens, NEW config \in TokenConfigs,
             ChangeTokenConfigExt(t, config)
      PROVE  RouterTypeOK'
  BY <1>4, AssetRouterAssumptions DEF ChangeTokenConfigExt
<1>5. ASSUME NEW t \in Tokens, NEW config \in TokenConfigs, NEW b \in BOOLEAN,
             ChangeTokenConfig(t, config.redeemFee, config.redeemForBtcMinAmount, b)
      PROVE  RouterTypeOK'
  <2>1. config \in TokenConfigTypes /\ tokenConfig[t] \in TokenConfigTypes
    BY AssetRouterAssumptions, ConfigType DEF TokenConfigTypes
  <2>2. [tokenConfig[t] EXCEPT !.redeemFee = config.redeemFee,
                               !.redeemForBtcMinAmount = config.redeemForBtcMinAmount]
          \in TokenConfigTypes
    BY <2>1 DEF TokenConfigTypes
  <2>3. tokenConfig' \in [Tokens -> TokenConfigTypes]
    BY <1>5, <2>2 DEF ChangeTokenConfig, TokenConfigTypes
  <2>4. routes' \in [RouteKeys -> RouteTypes]
    BY <1>5 DEF ChangeTokenConfig, RouteTypes
  <2> QED
    BY <1>5, <2>3, <2>4 DEF ChangeTokenConfig, TokenConfigTypes
<1>6. ASSUME NEW t \in Tokens, ToggleRedeem(t) PROVE RouterTypeOK'
  BY <1>6 DEF ToggleRedeem, RouteTypes
<1>7. ASSUME NEW t \in Tokens, RevokeCaller(t) PROVE RouterTypeOK'
  BY <1>7 DEF RevokeCaller
<1>8. ASSUME NEW t \in Tokens, PauseToken(t) PROVE RouterTypeOK'
  BY <1>8 DEF PauseToken, configVars
<1>9. ASSUME NEW b \in BOOLEAN, ChangeBascule(b) PROVE RouterTypeOK'
  BY <1>9 DEF ChangeBascule
<1> QED
  BY <1>1, <1>2, <1>3, <1>4, <1>5, <1>6, <1>7, <1>8, <1>9 DEF AdminOfRouter

LEMMA ChargeType ==
  ASSUME RouterTypeOK, NEW u \in Accounts, NEW t \in Tokens, NEW fee \in Nat,
         NEW amount \in Nat, Charge(t, fee, u, amount)
  PROVE  balance' \in [Tokens -> [Accounts -> Nat]]
<1>1. /\ balance' = MintAndBurn(t, fee, u, amount)
      /\ balance'[t][u] >= 0
  BY DEF Charge
<1> DEFINE row == [x \in Accounts |-> balance[t][x]
                     + (IF x = Treasury THEN fee ELSE 0) - (IF x = u THEN amount ELSE 0)]
<1>2. balance' = [balance EXCEPT ![t] = row]
  BY <1>1 DEF MintAndBurn
<1>3. balance'[t] = row /\ row[u] >= 0
  BY <1>1, <1>2 DEF RouterTypeOK
<1>4. row \in [Accounts -> Nat]
  <2>1. \A x \in Accounts : balance[t][x] \in Nat
    BY DEF RouterTypeOK
  <2> QED
    BY <1>3, <2>1
<1> HIDE DEF row
<1> QED
  BY <1>2, <1>4 DEF RouterTypeOK

-----------------------------------------------------------------------------
(***************************************************************************)
(* What a submission brings: account a gets of token t the sum of its      *)
(* shares in the releases handled.                                         *)
(***************************************************************************)
Share(t, a, done, fee) ==
  [m \in done |->
     IF m.body.token = t
     THEN (IF m.body.recipient = a THEN m.body.amount - fee[m] ELSE 0)
          + (IF a = Treasury THEN fee[m] ELSE 0)
     ELSE 0]

\* Releases, with fees that they can pay.
Payable(done, fee) ==
  /\ IsFiniteSet(done)
  /\ \A m \in done :
       /\ m.body.token \in Tokens /\ m.body.recipient \in Users
       /\ m.body.amount \in Nat /\ fee[m] \in Nat /\ fee[m] <= m.body.amount

LEMMA ShareType ==
  ASSUME NEW done, NEW fee, Payable(done, fee), NEW t, NEW a, NEW m \in done
  PROVE  Share(t, a, done, fee)[m] \in Nat
<1>1. m.body.amount - fee[m] \in Nat /\ fee[m] \in Nat
  BY DEF Payable
<1> QED
  BY <1>1 DEF Share

LEMMA GainIsSumOfShares ==
  ASSUME NEW done, NEW fee, Payable(done, fee), NEW t, NEW a
  PROVE  /\ Gain(t, a, done, fee) = SumFunctionOnSet(Share(t, a, done, fee), done)
         /\ Gain(t, a, done, fee) \in Nat
<1> DEFINE T == {x \in done : x.body.token = t}
           f == [m \in T |->
                   (IF m.body.recipient = a THEN m.body.amount - fee[m] ELSE 0)
                   + (IF a = Treasury THEN fee[m] ELSE 0)]
           g == Share(t, a, done, fee)
<1>1. Gain(t, a, done, fee) = SumFunctionOnSet(f, T)
  BY DEF Gain, SumFunction
<1>2. /\ IsFiniteSet(done) /\ IsFiniteSet(T) /\ T \in SUBSET done
  BY FS_Subset DEF Payable
<1>3. \A m \in done : g[m] \in Nat
  BY ShareType
<1>4. (\A m \in T : f[m] = g[m]) /\ (\A m \in done \ T : g[m] = 0)
  BY DEF Share
<1> HIDE DEF f, g, T
<1>5. SumFunctionOnSet(f, T) = SumFunctionOnSet(g, T)
  BY <1>2, <1>4, SumSame
<1>6. SumFunctionOnSet(g, done) = SumFunctionOnSet(g, T)
  BY <1>2, <1>3, <1>4, SumOverPart
<1>7. SumFunctionOnSet(g, done) \in Nat
  BY <1>2, <1>3, SumNat
<1> QED
  BY <1>1, <1>5, <1>6, <1>7 DEF g

LEMMA SubmittedIsPayable ==
  ASSUME IsFiniteSet(sent), NEW batch \in SUBSET Inbox, NEW done \in SUBSET batch,
         NEW fee \in [done -> Nat], Fair(done, fee),
         \A m \in done : HandlePayloadSucceeds(m)
  PROVE  Payable(done, fee)
<1>1. IsFiniteSet(done)
  BY FS_Subset DEF Inbox
<1> QED
  BY <1>1, HandledIsRelease DEF Payable, Fair

\* Only releases are handled.
LEMMA HandledComesFromLedger ==
  ASSUME Origins, NEW m \in Inbox, HandlePayloadSucceeds(m)
  PROVE  m \in LedgerPayloads
<1>1. m \in LedgerMessages /\ m.sender = BtcStaking
  BY DEF Origins, Inbox, HandlePayloadSucceeds
<1> QED
  BY <1>1 DEF LedgerMessages, LedgerPayloads

\* What a submission changes.
Mints(done, fee) ==
  /\ done \subseteq LedgerPayloads /\ done \subseteq sent
  /\ done \cap usedPayloads = {}
  /\ \A m \in done : HandlePayloadSucceeds(m)
  /\ Fair(done, fee) /\ Payable(done, fee)
  /\ usedPayloads' = usedPayloads \cup done
  /\ handled' = [handled EXCEPT ![Here] = @ \cup done]
  /\ balance' = [t \in Tokens |-> [a \in Accounts |->
                   balance[t][a] + Gain(t, a, done, fee)]]
  /\ depositHistory' =
       [d \in LedgerPayloads |->
          IF d \in done /\ bascule THEN "WITHDRAWN" ELSE depositHistory[d]]
  /\ basculeSkipped' = (basculeSkipped \/ (done # {} /\ ~bascule))
  /\ UNCHANGED <<sent, globalNonce, configVars, tokenPaused, approved>>

LEMMA SubmitMints ==
  ASSUME TypeInv, SubmitStep
  PROVE  \E done, fee : Mints(done, fee)
<1> PICK batch \in SUBSET Inbox :
      \E done \in SUBSET batch : \E fee \in [done -> Nat] :
        \E caller : Fair(done, fee) /\ Submit(caller, batch, done, fee)
  BY DEF SubmitStep
<1> PICK done \in SUBSET batch : \E fee \in [done -> Nat] :
        \E caller : Fair(done, fee) /\ Submit(caller, batch, done, fee)
  OBVIOUS
<1> PICK fee \in [done -> Nat] :
        \E caller : Fair(done, fee) /\ Submit(caller, batch, done, fee)
  OBVIOUS
<1>1. \A m \in done : HandlePayloadSucceeds(m)
  BY DEF Submit
<1>2. Origins
  BY DEF TypeInv
<1>3. done \subseteq LedgerPayloads
  BY <1>1, <1>2, HandledComesFromLedger
<1>4. done \subseteq sent /\ Fair(done, fee)
  BY DEF Inbox
<1>5. done \cap usedPayloads = {}
  BY <1>1 DEF HandlePayloadSucceeds, Unused
<1>6. Payable(done, fee)
  BY <1>1, <1>2, <1>4, SubmittedIsPayable DEF Origins
<1>7. /\ usedPayloads' = usedPayloads \cup done
      /\ handled' = [handled EXCEPT ![Here] = @ \cup done]
      /\ balance' = [t \in Tokens |-> [a \in Accounts |->
                       balance[t][a] + Gain(t, a, done, fee)]]
      /\ UNCHANGED <<sent, globalNonce, configVars, tokenPaused, approved>>
  BY DEF Submit, Marked
<1>8. ConfirmDeposits(batch, done)
  BY DEF Submit
<1>9. /\ depositHistory' =
           [d \in LedgerPayloads |->
              IF d \in done /\ bascule THEN "WITHDRAWN" ELSE depositHistory[d]]
      /\ basculeSkipped' = (basculeSkipped \/ (done # {} /\ ~bascule))
  BY <1>8 DEF ConfirmDeposits, Confirm
<1> QED
  BY <1>1, <1>3, <1>4, <1>5, <1>6, <1>7, <1>9 DEF Mints

LEMMA MintsTypeOK ==
  ASSUME RouterTypeOK, NEW done, NEW fee, Mints(done, fee)
  PROVE  RouterTypeOK'
<1>1. \A t \in Tokens, a \in Accounts :
        balance[t][a] \in Nat /\ Gain(t, a, done, fee) \in Nat
  BY GainIsSumOfShares DEF Mints, RouterTypeOK
<1>2. balance' \in [Tokens -> [Accounts -> Nat]]
  BY <1>1 DEF Mints
<1>3. usedPayloads' \subseteq LedgerPayloads
  BY DEF Mints, RouterTypeOK
<1>4. basculeSkipped' \in BOOLEAN
  <2>1. basculeSkipped' = (basculeSkipped \/ (done # {} /\ ~bascule))
    BY DEF Mints
  <2> QED
    BY <2>1, Zenon
<1>5. UNCHANGED <<configVars, tokenPaused, approved>>
  BY DEF Mints
<1> QED
  BY <1>2, <1>3, <1>4, <1>5 DEF RouterTypeOK, configVars

LEMMA NextRouterTypeOK ==
  ASSUME TypeInv, [Next]_vars
  PROVE  RouterTypeOK'
<1>0. RouterTypeOK
  BY DEF TypeInv, TypeOK
<1> DEFINE Others == <<configVars, mintVars, tokenPaused, approved>>
<1>1. ASSUME UNCHANGED Others, balance' \in [Tokens -> [Accounts -> Nat]]
      PROVE  RouterTypeOK'
  BY <1>0, <1>1 DEF configVars, mintVars, RouterTypeOK
<1>2. ASSUME UNCHANGED routerVars PROVE RouterTypeOK'
  BY <1>0, <1>2 DEF routerVars, configVars, mintVars, tokenVars, RouterTypeOK
<1> HIDE DEF Others
<1>3. CASE RouterSetup
  <2>1. ASSUME NEW u \in Users, NEW t \in Tokens, NEW fee \in Approvals,
               Approve(u, t, fee) \/ Expire(u, t, fee)
        PROVE  RouterTypeOK'
    BY <1>0, <2>1 DEF Approve, Expire, RouterTypeOK, configVars, mintVars
  <2> QED
    BY <1>0, <1>3, <2>1, AdminTypeOK DEF RouterSetup
<1>4. CASE RequestStep
  <2> PICK u \in Accounts, t \in Tokens, fee \in Nat,
           module \in {BtcStaking, AssetsModule}, body \in Bodies :
             Pays(u, t, fee, module, body)
    BY <1>4 DEF RequestStep
  <2>1. body.amount + fee \in Nat
    BY DEF Bodies
  <2>2. balance' \in [Tokens -> [Accounts -> Nat]]
    BY <1>0, <2>1, ChargeType DEF Pays
  <2>3. UNCHANGED Others
    BY DEF Pays, Others
  <2> QED
    BY <1>1, <2>2, <2>3
<1>5. CASE LedgerStep
  <2>1. UNCHANGED routerVars
    BY <1>5, LedgerSends DEF TypeInv, Origins, TypeOK
  <2> QED
    BY <1>2, <2>1
<1>6. CASE SubmitStep
  BY <1>0, <1>6, SubmitMints, MintsTypeOK
<1> QED
  BY <1>0, <1>2, <1>3, <1>4, <1>5, <1>6, StepCases DEF BasculeStep, MailboxStep, vars

\* The nonces move on, and what is new fits.
LEMMA MessageAdded ==
  ASSUME TypeInv, NEW m, NEW c \in Chains, m.src = c, m.nonce = globalNonce[c],
         sent' = sent \cup {m}, globalNonce' = [globalNonce EXCEPT ![c] = @ + 1],
         usedPayloads' = usedPayloads, m.dst = Here => m \in LedgerMessages
  PROVE  Origins'
<1>1. /\ globalNonce \in [Chains -> Nat] /\ Ledger \in Chains
      /\ \A n \in sent : n.src \in Chains /\ n.nonce \in Nat
  BY DEF TypeInv, TypeOK, M!TypeOK, M!Messages, Chains
<1>2. IsFiniteSet(sent')
  BY FS_AddElement DEF TypeInv, Origins
<1>3. globalNonce'[Ledger] >= 1 /\ \A d \in Chains : globalNonce[d] <= globalNonce'[d]
  BY <1>1 DEF TypeInv, Origins
<1>4. m.nonce < globalNonce'[m.src]
  BY <1>1
<1>5. \A n \in sent : n.nonce < globalNonce'[n.src]
  <2>1. \A d \in Chains : globalNonce'[d] \in Nat
    BY <1>1
  <2> QED
    BY <1>1, <1>3, <2>1 DEF TypeInv, Origins
<1> QED
  BY <1>2, <1>3, <1>4, <1>5 DEF TypeInv, Origins

LEMMA MailboxStepSends ==
  ASSUME MailboxStep
  PROVE  UNCHANGED <<sent, globalNonce, delivered, handled>>
  BY DEF MailboxStep, M!AdminOfMailbox, M!EnableMessagePath,
     M!DisableMessagePath, M!SetDefaultMaxPayloadSize, M!SetSenderConfig,
     M!SetFee, M!Pause, M!Unpause, M!WithdrawFee, M!NextValidatorSet,
     M!Notarize, M!sendVars, M!deliveryVars

LEMMA NextOrigins ==
  ASSUME TypeInv, [Next]_vars
  PROVE  Origins'
<1>0. RouterTypeOK /\ M!TypeOK /\ globalNonce[Ledger] >= 1 /\ Ledger # Here
      /\ Here \in Chains /\ Ledger \in Chains
  BY AssetRouterAssumptions DEF TypeInv, TypeOK, Origins, Chains
<1>1. ASSUME UNCHANGED <<sent, globalNonce, usedPayloads>> PROVE Origins'
  BY <1>1 DEF TypeInv, Origins
<1>2. CASE MailboxStep
  BY <1>1, <1>2, MailboxStepSends DEF MailboxStep, routerVars, mintVars
<1>3. CASE RequestStep
  <2> PICK u \in Accounts, t \in Tokens, fee \in Nat,
           module \in {BtcStaking, AssetsModule}, body \in Bodies :
             Pays(u, t, fee, module, body)
    BY <1>3 DEF RequestStep
  <2> DEFINE m == M!Payload(Here, Router, Ledger, module, Zero, body)
  <2>1. /\ sent' = sent \cup {m} /\ m.src = Here /\ m.dst = Ledger
        /\ m.nonce = globalNonce[Here]
        /\ globalNonce' = [globalNonce EXCEPT ![Here] = @ + 1]
    BY <1>0, RequestSends
  <2>2. usedPayloads' = usedPayloads
    BY DEF Pays, mintVars
  <2> HIDE DEF m
  <2> QED
    BY <1>0, <2>1, <2>2, MessageAdded
<1>4. CASE LedgerStep
  <2> PICK m \in LedgerMessages :
           /\ m.nonce = globalNonce[Ledger]
           /\ sent' = sent \cup {m}
           /\ globalNonce' = [globalNonce EXCEPT ![Ledger] = @ + 1]
           /\ UNCHANGED routerVars
    BY <1>0, <1>4, LedgerSends
  <2>1. m.src = Ledger /\ usedPayloads' = usedPayloads
    BY DEF LedgerMessages, routerVars, mintVars
  <2> QED
    BY <1>0, <2>1, MessageAdded
<1>5. CASE SubmitStep
  <2> PICK done, fee : Mints(done, fee)
    BY <1>5, SubmitMints
  <2> QED
    BY DEF Mints, TypeInv, Origins
<1> QED
  BY <1>0, <1>1, <1>2, <1>3, <1>4, <1>5, StepCases
     DEF RouterSetup, BasculeStep, vars, mailboxVars, routerVars, mintVars

LEMMA InitTypeInv == Init => TypeInv
<1> SUFFICES ASSUME Init PROVE TypeInv
  OBVIOUS
<1>1. M!TypeOK
  BY MailboxAssumed, MP!InitTypeOK, SameMailbox DEF Init
<1>2. B!TypeOK
  <2>1. B!Init
    BY DEF Init
  <2>2. trustedSigner = Zero /\ signerless \in BOOLEAN
    BY <2>1 DEF B!Init, B!AsksForProofs
  <2>3. 0 \in 0..0
    OBVIOUS
  <2> QED
    BY <2>1, <2>2, <2>3 DEF B!Init, B!TypeOK, B!DepositStates
<1>3. RouterTypeOK
  <2>1. ZeroConfig \in TokenConfigTypes
    BY DEF ZeroConfig, TokenConfigTypes
  <2>2. tokenConfig \in [Tokens -> TokenConfigTypes]
    BY <2>1 DEF Init
  <2>3. balance \in [Tokens -> [Accounts -> Nat]]
    BY AssetRouterAssumptions DEF Init, InitialBalance
  <2> QED
    BY <2>2, <2>3 DEF Init, RouterTypeOK, RouteTypes, TokenConfigTypes
<1>4. Origins
  <2>1. IsFiniteSet({})
    BY FS_EmptySet
  <2> QED
    BY <2>1 DEF Init, M!Init, Origins, Chains
<1> QED
  BY <1>1, <1>2, <1>3, <1>4 DEF TypeInv, TypeOK

(***************************************************************************)
(* Types of router, drawbridge and mailbox together, and where messages    *)
(* come from; in particular no account is ever charged more than it has.   *)
(***************************************************************************)
THEOREM AlwaysTypeInv == Spec => []TypeInv
<1>1. TypeInv /\ [Next]_vars => TypeInv'
  BY MailboxTypeOK, BasculeTypeOK, NextRouterTypeOK, NextOrigins DEF TypeInv, TypeOK
<1> QED
  BY <1>1, InitTypeInv, PTL DEF Spec

(***************************************************************************)
(* The variables of router, tokens, mailbox and drawbridge keep their      *)
(* types: no redemption, fee or batch takes a balance below zero.          *)
(***************************************************************************)
THEOREM TypeCorrect == Spec => []TypeOK
<1>1. TypeInv => TypeOK
  BY DEF TypeInv
<1> QED
  BY <1>1, AlwaysTypeInv, PTL

-----------------------------------------------------------------------------
(***************************************************************************)
(* What of the history of a deposit matters to the router is whether it is *)
(* withdrawn.  Only a submission handles, and so withdraws, anything.      *)
(***************************************************************************)
Withdrawn == {d \in LedgerPayloads : depositHistory[d] = "WITHDRAWN"}

LEMMA ReportsWithdrawNothing ==
  ASSUME BasculeStep
  PROVE  Withdrawn' = Withdrawn
<1>1. CASE AdminOfBascule
  BY <1>1 DEF AdminOfBascule, B!LowerThreshold, B!RaiseThreshold,
     B!GrantGuardian, B!LoseGuardian, B!SetPaused, Withdrawn
<1>2. ASSUME NEW x \in LedgerPayloads, B!ReportDeposits(<< <<x, Zero>> >>)
      PROVE  Withdrawn' = Withdrawn
  <2> DEFINE batch == << <<x, Zero>> >>
  <2>1. \A i \in B!NewEntries(batch) : depositHistory[batch[i][1]] = "UNREPORTED"
    BY DEF B!NewEntries
  <2>2. \A d \in LedgerPayloads :
          depositHistory'[d] = "WITHDRAWN" <=> depositHistory[d] = "WITHDRAWN"
    BY <1>2, <2>1 DEF B!ReportDeposits
  <2> QED
    BY <2>2 DEF Withdrawn
<1> QED
  BY <1>1, <1>2 DEF BasculeStep

\* All that a step that is not a submission leaves alone.
LEMMA OnlySubmissionsMint ==
  ASSUME TypeInv, [Next]_vars
  PROVE  \/ \E done, fee : Mints(done, fee)
         \/ /\ UNCHANGED <<handled, usedPayloads, basculeSkipped>>
            /\ Withdrawn' = Withdrawn
<1>0. RouterTypeOK /\ M!TypeOK /\ globalNonce[Ledger] >= 1
  BY DEF TypeInv, TypeOK, Origins
<1> USE DEF mintVars, routerVars, basculeVars, mailboxVars
<1>1. UNCHANGED depositHistory => Withdrawn' = Withdrawn
  BY DEF Withdrawn
<1>2. CASE MailboxStep
  BY <1>1, <1>2, MailboxStepSends DEF MailboxStep
<1>3. CASE BasculeStep
  BY <1>3, ReportsWithdrawNothing DEF BasculeStep
<1>4. CASE RequestStep
  BY <1>0, <1>1, <1>4, RequestSends DEF RequestStep, Pays
<1>5. CASE LedgerStep
  BY <1>0, <1>1, <1>5, LedgerSends
<1>6. CASE RouterSetup \/ UNCHANGED vars
  BY <1>1, <1>6 DEF RouterSetup, vars
<1> QED
  BY <1>0, <1>2, <1>3, <1>4, <1>5, <1>6, StepCases, SubmitMints

(***************************************************************************)
(* The router has a release as used exactly when the mailbox has it as     *)
(* handled.                                                                *)
(***************************************************************************)
THEOREM RouterAndMailboxAgree == Spec => []UsedIffHandled
<1>1. Init => UsedIffHandled
  BY DEF Init, M!Init, UsedIffHandled, Chains
<1>2. ASSUME TypeInv, UsedIffHandled, [Next]_vars PROVE UsedIffHandled'
  <2>1. handled \in [Chains -> SUBSET M!Messages] /\ Here \in Chains
    BY <1>2 DEF TypeInv, TypeOK, M!TypeOK, Chains
  <2>2. ASSUME NEW done, NEW fee, Mints(done, fee) PROVE UsedIffHandled'
    BY <1>2, <2>1, <2>2 DEF Mints, UsedIffHandled
  <2> QED
    BY <1>2, <2>2, OnlySubmissionsMint DEF UsedIffHandled
<1>3. TypeInv /\ UsedIffHandled /\ [Next]_vars => UsedIffHandled'
  BY <1>2
<1> QED
  BY <1>1, <1>3, AlwaysTypeInv, PTL DEF Spec

(***************************************************************************)
(* What the drawbridge has as withdrawn has been minted, and, unless it    *)
(* was away, the other way round.                                          *)
(***************************************************************************)
THEOREM RouterAndBasculeAgree == Spec => []BasculeAgrees
<1>1. Init => BasculeAgrees
  BY DEF Init, B!Init, BasculeAgrees
<1>2. ASSUME TypeInv, BasculeAgrees, [Next]_vars PROVE BasculeAgrees'
  <2>1. /\ Withdrawn \subseteq usedPayloads
        /\ ~basculeSkipped => usedPayloads \subseteq Withdrawn
    BY <1>2 DEF BasculeAgrees, Withdrawn
  <2>2. ASSUME NEW done, NEW fee, Mints(done, fee) PROVE BasculeAgrees'
    <3>1. /\ usedPayloads' = usedPayloads \cup done
          /\ done \subseteq LedgerPayloads
          /\ Withdrawn' = IF bascule THEN Withdrawn \cup done ELSE Withdrawn
      BY <2>2 DEF Mints, Withdrawn
    <3>2. ~basculeSkipped' => ~basculeSkipped /\ (done = {} \/ bascule)
      <4>1. basculeSkipped' = (basculeSkipped \/ (done # {} /\ ~bascule))
        BY <2>2 DEF Mints
      <4> QED
        BY <4>1, Zenon
    <3>3. /\ Withdrawn' \subseteq usedPayloads'
          /\ ~basculeSkipped' => usedPayloads' \subseteq Withdrawn'
      BY <2>1, <3>1, <3>2
    <3> QED
      BY <3>3 DEF BasculeAgrees, Withdrawn
  <2>3. CASE /\ UNCHANGED <<handled, usedPayloads, basculeSkipped>>
             /\ Withdrawn' = Withdrawn
    BY <2>1, <2>3 DEF BasculeAgrees, Withdrawn
  <2> QED
    BY <1>2, <2>2, <2>3, OnlySubmissionsMint
<1>3. TypeInv /\ BasculeAgrees /\ [Next]_vars => BasculeAgrees'
  BY <1>2
<1> QED
  BY <1>1, <1>3, AlwaysTypeInv, PTL DEF Spec

-----------------------------------------------------------------------------
(***************************************************************************)
(* The mailbox under the router keeps custody as any other one does, also  *)
(* when a batch delivers several releases at once and handles only some.   *)
(***************************************************************************)
LEMMA SubmitCustody ==
  ASSUME TypeInv, MP!Custody, SubmitStep
  PROVE  MP!Custody'
<1> PICK batch \in SUBSET Inbox :
         \E done \in SUBSET batch : \E fee, caller : Submit(caller, batch, done, fee)
  BY DEF SubmitStep
<1> PICK done \in SUBSET batch : \E fee, caller : Submit(caller, batch, done, fee)
  OBVIOUS
<1> PICK fee, caller : Submit(caller, batch, done, fee)
  OBVIOUS
<1>1. /\ UNCHANGED <<sent, epoch, proofs>>
      /\ delivered' = [delivered EXCEPT ![Here] = @ \cup batch]
      /\ handled' = [handled EXCEPT ![Here] = @ \cup done]
  BY DEF Submit
<1>2. ASSUME NEW m \in batch
      PROVE  /\ m \in sent /\ m.dst = Here
             /\ \E x \in 1..epoch[Here] : <<m, x>> \in proofs
  <2> PICK e \in 1..epoch[Here] : M!Deliverable(Here, m, e, caller)
    BY DEF Submit, Deliverable
  <2>1. m \in sent /\ m.dst = Here
    BY DEF Inbox, M!Deliverable, M!AcceptsPath
  <2>2. CASE m \in delivered[Here]
    BY <2>1, <2>2 DEF MP!Custody, MP!ChainOfCustody, Chains
  <2>3. CASE M!CheckProof(Here, m, e)
    BY <2>1, <2>3 DEF M!CheckProof
  <2> QED
    BY <2>1, <2>2, <2>3 DEF M!Deliverable, M!Verified
<1>3. \A c \in Chains :
        /\ delivered'[c] = IF c = Here THEN delivered[c] \cup batch ELSE delivered[c]
        /\ handled'[c] = IF c = Here THEN handled[c] \cup done ELSE handled[c]
  BY <1>1 DEF TypeInv, TypeOK, M!TypeOK
<1>4. ASSUME NEW c \in Chains
      PROVE  /\ handled'[c] \subseteq delivered'[c]
             /\ \A m \in delivered'[c] :
                  /\ m \in sent /\ m.dst = c
                  /\ \E x \in 1..epoch[c] : <<m, x>> \in proofs
  <2>1. CASE c = Here
    <3>1. handled'[c] = handled[c] \cup done /\ delivered'[c] = delivered[c] \cup batch
      BY <1>3, <2>1
    <3> QED
      BY <1>2, <2>1, <3>1 DEF MP!Custody, MP!ChainOfCustody
  <2>2. CASE c # Here
    BY <1>3, <2>2 DEF MP!Custody, MP!ChainOfCustody
  <2> QED
    BY <2>1, <2>2
<1>5. MP!ChainOfCustody'
  BY <1>1, <1>4 DEF MP!ChainOfCustody
<1> QED
  BY <1>1, <1>5 DEF MP!Custody, MP!ProofsAreGenuine, MP!EpochsStarted

LEMMA NextCustody ==
  ASSUME TypeInv, MP!Custody, [Next]_vars
  PROVE  MP!Custody'
<1>0. /\ M!TypeOK /\ MP!TypeOK /\ globalNonce[Ledger] >= 1
      /\ epoch \in [Chains -> Nat]
  BY SameMailbox DEF TypeInv, TypeOK, Origins, M!TypeOK
<1>1. ASSUME sent \subseteq sent', UNCHANGED <<epoch, proofs, delivered, handled>>
      PROVE  MP!Custody'
  BY <1>0, <1>1, MailboxAssumed, MP!GrowthKeepsCustody DEF MP!deliveryVars
<1>2. CASE MailboxStep
  <2>1. MP!Next
    BY <1>2, SameAdmin, SameConsortium DEF MailboxStep, MP!Next, Chains
  <2> QED
    BY <1>0, <2>1, MailboxAssumed, MP!NextCustody
<1>3. CASE RequestStep
  <2> PICK u \in Accounts, t \in Tokens, fee \in Nat,
           module \in {BtcStaking, AssetsModule}, body \in Bodies :
             Pays(u, t, fee, module, body)
    BY <1>3 DEF RequestStep
  <2>1. sent \subseteq sent' /\ UNCHANGED <<delivered, handled>>
    BY DEF Pays, SendRequest, M!Send, M!deliveryVars
  <2>2. UNCHANGED <<epoch, proofs>>
    BY DEF Pays, SendRequest, M!Send, M!notaryVars
  <2> QED
    BY <1>1, <2>1, <2>2
<1>4. CASE LedgerStep
  BY <1>0, <1>1, <1>4, LedgerSends
<1>5. CASE RouterSetup \/ BasculeStep \/ UNCHANGED vars
  BY <1>1, <1>5 DEF RouterSetup, BasculeStep, vars, mailboxVars
<1> QED
  BY <1>0, <1>2, <1>3, <1>4, <1>5, SubmitCustody, StepCases DEF TypeInv, TypeOK

(***************************************************************************)
(* Nothing is minted on anybody's word: every release the router has used  *)
(* (handlePayload) was sent by the staking module of the ledger to the     *)
(* router of this chain, and signed by one of the validator sets this      *)
(* chain has had, through whichever entry point it came in.                *)
(***************************************************************************)
MintsWereSigned ==
  \A m \in usedPayloads :
    /\ m \in sent /\ m \in LedgerPayloads
    /\ \E e \in 1..epoch[Here] : <<m, e>> \in proofs

THEOREM OnlySignedReleasesMint == Spec => []MintsWereSigned
<1>1. Init => MP!Custody
  BY SameMailbox, MP!InitCustody, MailboxAssumed DEF Init
<1>2. TypeInv /\ MP!Custody /\ [Next]_vars => MP!Custody'
  BY NextCustody
<1>3. TypeInv /\ MP!Custody /\ UsedIffHandled => MintsWereSigned
  BY DEF TypeInv, TypeOK, RouterTypeOK, Origins, MP!Custody, MP!ChainOfCustody,
         UsedIffHandled, MintsWereSigned, Chains
<1> QED
  BY <1>1, <1>2, <1>3, AlwaysTypeInv, RouterAndMailboxAgree, PTL DEF Spec

-----------------------------------------------------------------------------
(***************************************************************************)
(* Accounting.  A charge changes the sum of all balances at two accounts;  *)
(* each release handled adds its amount, at two accounts, too.             *)
(***************************************************************************)
Keys == Tokens \X Accounts

LEMMA FiniteKeys == IsFiniteSet(Keys)
<1>1. IsFiniteSet(Accounts) /\ IsFiniteSet(Tokens)
  BY AssetRouterAssumptions, FS_AddElement DEF Accounts
<1> QED
  BY <1>1, FS_Product DEF Keys

BalanceAt == [k \in Keys |-> balance[k[1]][k[2]]]

LEMMA HeldIsSum ==
  ASSUME RouterTypeOK
  PROVE  /\ Held = SumFunctionOnSet(BalanceAt, Keys)
         /\ \A k \in Keys : BalanceAt[k] = balance[k[1]][k[2]] /\ BalanceAt[k] \in Nat
         /\ Held \in Nat
<1>1. Held = SumFunctionOnSet(BalanceAt, Keys)
  BY DEF Held, SumFunction, BalanceAt, Keys
<1>2. \A k \in Keys : BalanceAt[k] = balance[k[1]][k[2]] /\ BalanceAt[k] \in Nat
  BY DEF BalanceAt, Keys, RouterTypeOK
<1> QED
  BY <1>1, <1>2, FiniteKeys, SumNat

LEMMA ChargeHeld ==
  ASSUME RouterTypeOK, RouterTypeOK', NEW u \in Accounts, NEW t \in Tokens,
         NEW fee \in Nat, NEW amount \in Nat, Charge(t, fee, u, amount)
  PROVE  Held' = Held + fee - amount
<1> DEFINE y == <<t, Treasury>>
           z == <<t, u>>
<1>1. y \in Keys /\ z \in Keys
  BY DEF Keys, Accounts
<1>2. \A x \in Tokens, a \in Accounts :
        balance'[x][a] = balance[x][a] + (IF x = t /\ a = Treasury THEN fee ELSE 0)
                           + (IF x = t /\ a = u THEN -amount ELSE 0)
  <2> TAKE x \in Tokens, a \in Accounts
  <2>1. balance[x][a] \in Nat
    BY DEF RouterTypeOK
  <2>2. CASE x = t
    <3>1. balance'[x][a] = balance[x][a] + (IF a = Treasury THEN fee ELSE 0)
                             - (IF a = u THEN amount ELSE 0)
      BY <2>2 DEF Charge, MintAndBurn, RouterTypeOK
    <3> QED
      BY <2>1, <2>2, <3>1
  <2>3. CASE x # t
    <3>1. balance'[x][a] = balance[x][a]
      BY <2>3 DEF Charge, MintAndBurn, RouterTypeOK
    <3> QED
      BY <2>1, <2>3, <3>1
  <2> QED
    BY <2>2, <2>3
<1>3. \A k \in Keys :
        /\ k = y <=> k[1] = t /\ k[2] = Treasury
        /\ k = z <=> k[1] = t /\ k[2] = u
        /\ k[1] \in Tokens /\ k[2] \in Accounts
  BY DEF Keys
<1> HIDE DEF y, z
<1>4. (\A k \in Keys : BalanceAt[k] = balance[k[1]][k[2]] /\ BalanceAt[k] \in Int)
  BY HeldIsSum
<1>5. \A k \in Keys : BalanceAt'[k] = balance'[k[1]][k[2]]
  BY DEF BalanceAt
<1>6. \A k \in Keys : BalanceAt'[k] = BalanceAt[k] + (IF k = y THEN fee ELSE 0)
                                         + (IF k = z THEN -amount ELSE 0)
  BY <1>2, <1>3, <1>4, <1>5
<1>7. fee \in Int /\ -amount \in Int
  OBVIOUS
<1>8. SumFunctionOnSet(BalanceAt', Keys)
        = SumFunctionOnSet(BalanceAt, Keys) + fee + (-amount)
  BY <1>1, <1>4, <1>6, <1>7, FiniteKeys, SumTwoChanges
<1>9. Held' = SumFunctionOnSet(BalanceAt', Keys)
  BY DEF Held, SumFunction, BalanceAt, Keys
<1> QED
  BY <1>8, <1>9, HeldIsSum

\* The sum of the shares of all accounts in some of the releases.
Shares(done, fee, D) ==
  [k \in Keys |-> SumFunctionOnSet(Share(k[1], k[2], done, fee), D)]

LEMMA SharesAddUp ==
  ASSUME NEW done, NEW fee, Payable(done, fee)
  PROVE  SumFunctionOnSet(Shares(done, fee, done), Keys)
           = SumFunctionOnSet([m \in done |-> m.body.amount], done)
<1> DEFINE amount == [m \in done |-> m.body.amount]
           Sum(D) == SumFunctionOnSet(Shares(done, fee, D), Keys)
           P == {D \in SUBSET done : Sum(D) = SumFunctionOnSet(amount, D)}
<1>1. ASSUME NEW D \in SUBSET done
      PROVE  /\ IsFiniteSet(D)
             /\ \A k \in Keys : Shares(done, fee, D)[k] \in Nat
  <2>1. IsFiniteSet(D)
    BY FS_Subset DEF Payable
  <2>2. ASSUME NEW k \in Keys PROVE Shares(done, fee, D)[k] \in Nat
    <3>1. \A m \in D : Share(k[1], k[2], done, fee)[m] \in Nat
      BY ShareType
    <3>2. SumFunctionOnSet(Share(k[1], k[2], done, fee), D) \in Nat
      BY <2>1, <3>1, SumNat
    <3> QED
      BY <3>2 DEF Shares
  <2> QED
    BY <2>1, <2>2
<1>2. {} \in P
  <2>1. \A k \in Keys : Shares(done, fee, {})[k] = 0
    BY SumEmpty DEF Shares
  <2>2. Sum({}) = 0 * Cardinality(Keys)
    BY <2>1, FiniteKeys, SumConstant
  <2>3. Cardinality(Keys) \in Nat
    BY FiniteKeys, FS_CardinalityType
  <2> QED
    BY <2>2, <2>3, SumEmpty
<1>3. ASSUME NEW D \in SUBSET done, D # {}, \A m \in D : D \ {m} \in P
      PROVE  D \in P
  <2> PICK m \in D : TRUE
    BY <1>3
  <2> DEFINE E == D \ {m}
             y == <<m.body.token, m.body.recipient>>
             z == <<m.body.token, Treasury>>
             net == m.body.amount - fee[m]
  <2>1. /\ m.body.token \in Tokens /\ m.body.recipient \in Users
        /\ m.body.amount \in Nat /\ fee[m] \in Nat /\ net \in Nat
    BY DEF Payable
  <2>2. y \in Keys /\ z \in Keys
    BY <2>1 DEF Keys, Accounts
  <2>3. E \in SUBSET done
    OBVIOUS
  <2>4. ASSUME NEW k \in Keys
        PROVE  Shares(done, fee, D)[k] = Shares(done, fee, E)[k]
                 + (IF k = y THEN net ELSE 0) + (IF k = z THEN fee[m] ELSE 0)
    <3> DEFINE s == Share(k[1], k[2], done, fee)
    <3>1. s[m] = (IF k = y THEN net ELSE 0) + (IF k = z THEN fee[m] ELSE 0)
      <4>1. /\ k = y <=> k[1] = m.body.token /\ k[2] = m.body.recipient
            /\ k = z <=> k[1] = m.body.token /\ k[2] = Treasury
        BY DEF Keys
      <4> HIDE DEF y, z
      <4> QED
        BY <4>1, <2>1 DEF Share
    <3>2. \A n \in D : s[n] \in Int
      BY ShareType
    <3> HIDE DEF s
    <3>3. SumFunctionOnSet(s, D) = SumFunctionOnSet(s, E) + s[m]
      BY <1>1, <3>2, SumRemove
    <3>4. /\ Shares(done, fee, D)[k] = SumFunctionOnSet(s, D)
          /\ Shares(done, fee, E)[k] = SumFunctionOnSet(s, E)
      BY DEF Shares, s
    <3>5. SumFunctionOnSet(s, E) \in Nat
      BY <1>1, <2>3, <3>4
    <3> HIDE DEF net, y, z, E
    <3> QED
      BY <2>1, <3>1, <3>3, <3>4, <3>5
  <2>5. \A k \in Keys : Shares(done, fee, E)[k] \in Int
    BY <1>1, <2>3
  <2>6. net \in Int /\ fee[m] \in Int
    BY <2>1
  <2> HIDE DEF E, y, z, net
  <2>7. Sum(D) = Sum(E) + net + fee[m]
    BY <2>2, <2>4, <2>5, <2>6, FiniteKeys, SumTwoChanges
  <2>8. Sum(E) = SumFunctionOnSet(amount, E)
    BY <1>3 DEF E
  <2>9. SumFunctionOnSet(amount, D) = SumFunctionOnSet(amount, E) + amount[m]
    <3>1. \A n \in D : amount[n] \in Int
      BY DEF Payable
    <3> HIDE DEF amount
    <3> QED
      BY <1>1, <3>1, SumRemove DEF E
  <2>10. Sum(E) \in Int
    BY <2>5, FiniteKeys, SumInt
  <2>11. amount[m] = net + fee[m]
    BY <2>1 DEF net
  <2> HIDE DEF amount, Sum
  <2>12. Sum(D) = SumFunctionOnSet(amount, D)
    BY <2>1, <2>6, <2>7, <2>8, <2>9, <2>10, <2>11
  <2> QED
    BY <2>12
<1> HIDE DEF P
<1>4. done \in P
  BY <1>2, <1>3, SetInduction DEF Payable
<1> QED
  BY <1>4 DEF P

AmountOf == [m \in M!Messages |-> m.body.amount]

LEMMA WorthIsSum ==
  /\ \A m \in M!Messages : AmountOf[m] = m.body.amount /\ AmountOf[m] \in Nat
  /\ \A P \in SUBSET M!Messages :
       IsFiniteSet(P) => /\ Worth(P) = SumFunctionOnSet(AmountOf, P)
                         /\ Worth(P) \in Nat
<1>1. \A m \in M!Messages : AmountOf[m] = m.body.amount /\ AmountOf[m] \in Nat
  BY DEF AmountOf, M!Messages, Bodies
<1>2. ASSUME NEW P \in SUBSET M!Messages, IsFiniteSet(P)
      PROVE  Worth(P) = SumFunctionOnSet(AmountOf, P) /\ Worth(P) \in Nat
  <2> DEFINE f == [m \in P |-> m.body.amount]
  <2>1. Worth(P) = SumFunctionOnSet(f, P)
    BY DEF Worth, SumFunction
  <2>2. \A m \in P : f[m] = AmountOf[m]
    BY <1>1
  <2> HIDE DEF f
  <2>3. SumFunctionOnSet(f, P) = SumFunctionOnSet(AmountOf, P)
    BY <1>2, <2>2, SumSame
  <2>4. SumFunctionOnSet(AmountOf, P) \in Nat
    BY <1>1, <1>2, SumNat
  <2> QED
    BY <2>1, <2>3, <2>4
<1> QED
  BY <1>1, <1>2

LEMMA BooksAreFinite ==
  ASSUME TypeInv
  PROVE  /\ Requests \in SUBSET M!Messages /\ IsFiniteSet(Requests)
         /\ usedPayloads \in SUBSET M!Messages /\ IsFiniteSet(usedPayloads)
         /\ Held \in Nat /\ Worth(Requests) \in Nat /\ Worth(usedPayloads) \in Nat
<1>1. sent \in SUBSET M!Messages /\ IsFiniteSet(sent) /\ usedPayloads \in SUBSET sent
  BY DEF TypeInv, TypeOK, M!TypeOK, Origins
<1>2. Requests \in SUBSET sent
  BY DEF Requests
<1>3. IsFiniteSet(Requests) /\ IsFiniteSet(usedPayloads)
  BY <1>1, <1>2, FS_Subset
<1>4. Held \in Nat
  BY HeldIsSum DEF TypeInv, TypeOK
<1> QED
  BY <1>1, <1>2, <1>3, <1>4, WorthIsSum

\* What a request takes from the accounts, the ledger takes over.
LEMMA RequestBooks ==
  ASSUME TypeInv, RouterTypeOK', RequestStep
  PROVE  /\ Held' + Worth(Requests') = Held + Worth(Requests)
         /\ usedPayloads' = usedPayloads
<1> PICK u \in Accounts, t \in Tokens, fee \in Nat,
         module \in {BtcStaking, AssetsModule}, body \in Bodies :
           Pays(u, t, fee, module, body)
  BY DEF RequestStep
<1> DEFINE m == M!Payload(Here, Router, Ledger, module, Zero, body)
<1>1. M!TypeOK /\ RouterTypeOK
  BY DEF TypeInv, TypeOK
<1>2. /\ sent' = sent \cup {m} /\ m.src = Here /\ m.sender = Router
      /\ m.nonce = globalNonce[Here] /\ m.body = body
  <2>1. sent' = sent \cup {m}
    BY DEF Pays, SendRequest, M!Send
  <2>2. /\ m.src = Here /\ m.sender = Router
        /\ m.nonce = globalNonce[Here] /\ m.body = body
    BY DEF M!Payload
  <2> QED
    BY <2>1, <2>2
<1>3. m \in M!Messages
  <2>1. MP!Send(Here, Router, Ledger, module, Zero, body, 0)
    BY <1>1, RequestSends
  <2>2. MP!TypeOK'
    BY <1>1, <2>1, MailboxAssumed, MP!SendTypeOK, SameMailbox DEF Chains
  <2>3. sent' \subseteq M!Messages
    BY <2>2, SameMailbox DEF M!TypeOK
  <2> HIDE DEF m
  <2> QED
    BY <1>2, <2>3
<1>4. m \notin sent
  <2>1. \A n \in sent : n.nonce < globalNonce[n.src]
    BY DEF TypeInv, Origins
  <2>2. globalNonce[Here] \in Nat
    BY <1>1 DEF M!TypeOK, Chains
  <2> HIDE DEF m
  <2> QED
    BY <1>2, <2>1, <2>2
<1> HIDE DEF m
<1>5. Requests' = Requests \cup {m} /\ m \notin Requests
  BY <1>2, <1>4 DEF Requests
<1>6. IsFiniteSet(Requests \cup {m}) /\ Requests \cup {m} \in SUBSET M!Messages
  BY <1>3, BooksAreFinite, FS_AddElement
<1>7. /\ \A n \in Requests : AmountOf[n] \in Int
      /\ AmountOf[m] = body.amount /\ body.amount \in Nat
  BY <1>2, <1>3, BooksAreFinite, WorthIsSum
<1>8. SumFunctionOnSet(AmountOf, Requests \cup {m})
        = SumFunctionOnSet(AmountOf, Requests) + body.amount
  BY <1>5, <1>7, BooksAreFinite, SumAdd
<1>9. Worth(Requests') = Worth(Requests) + body.amount
  <2>1. Worth(Requests \cup {m}) = SumFunctionOnSet(AmountOf, Requests \cup {m})
    BY <1>6, WorthIsSum
  <2>2. Worth(Requests) = SumFunctionOnSet(AmountOf, Requests)
    BY BooksAreFinite, WorthIsSum
  <2> QED
    BY <1>5, <1>8, <2>1, <2>2
<1>10. Held' = Held + fee - (body.amount + fee)
  <2>1. Charge(t, fee, u, body.amount + fee) /\ body.amount + fee \in Nat
    BY <1>7 DEF Pays
  <2> QED
    BY <1>1, <2>1, ChargeHeld
<1>11. usedPayloads' = usedPayloads
  BY DEF Pays, mintVars
<1> QED
  BY <1>7, <1>9, <1>10, <1>11, BooksAreFinite

\* What a submission brings to the accounts, it counts as used.
LEMMA MintBooks ==
  ASSUME TypeInv, NEW done, NEW fee, Mints(done, fee)
  PROVE  /\ Held' = Held + Worth(done) /\ Worth(done) \in Nat
         /\ Worth(usedPayloads') = Worth(usedPayloads) + Worth(done)
         /\ Requests' = Requests
<1>1. /\ Payable(done, fee) /\ done \subseteq sent /\ done \cap usedPayloads = {}
      /\ usedPayloads' = usedPayloads \cup done
      /\ sent' = sent
  BY DEF Mints
<1>2. done \in SUBSET M!Messages /\ IsFiniteSet(done) /\ RouterTypeOK
  BY <1>1 DEF TypeInv, TypeOK, M!TypeOK, Payable
<1>3. Worth(done) = SumFunctionOnSet(AmountOf, done) /\ Worth(done) \in Nat
  BY <1>2, WorthIsSum
<1>4. Worth(usedPayloads') = Worth(usedPayloads) + Worth(done)
  <2>1. /\ IsFiniteSet(usedPayloads \cup done)
        /\ usedPayloads \cup done \in SUBSET M!Messages
    BY <1>2, BooksAreFinite, FS_Union
  <2>2. \A m \in usedPayloads \cup done : AmountOf[m] \in Int
    BY <2>1, WorthIsSum
  <2>3. SumFunctionOnSet(AmountOf, usedPayloads \cup done)
          = SumFunctionOnSet(AmountOf, usedPayloads) + SumFunctionOnSet(AmountOf, done)
    BY <1>1, <1>2, <2>2, BooksAreFinite, SumDisjoint
  <2>4. /\ Worth(usedPayloads \cup done)
             = SumFunctionOnSet(AmountOf, usedPayloads \cup done)
        /\ Worth(usedPayloads) = SumFunctionOnSet(AmountOf, usedPayloads)
    BY <2>1, BooksAreFinite, WorthIsSum
  <2> QED
    BY <1>1, <1>3, <2>3, <2>4
<1> DEFINE shares == Shares(done, fee, done)
<1>5. SumFunctionOnSet(shares, Keys) = Worth(done)
  BY <1>1, SharesAddUp DEF Worth, SumFunction
<1>6. ASSUME NEW k \in Keys
      PROVE  /\ BalanceAt[k] \in Int /\ shares[k] \in Int
             /\ BalanceAt'[k] = BalanceAt[k] + shares[k]
  <2>1. k[1] \in Tokens /\ k[2] \in Accounts
    BY DEF Keys
  <2>2. balance'[k[1]][k[2]] = balance[k[1]][k[2]] + Gain(k[1], k[2], done, fee)
    BY <2>1 DEF Mints
  <2>3. BalanceAt[k] = balance[k[1]][k[2]] /\ BalanceAt[k] \in Nat
    BY <1>2, HeldIsSum
  <2>4. BalanceAt'[k] = balance'[k[1]][k[2]]
    BY DEF BalanceAt
  <2>5. shares[k] = Gain(k[1], k[2], done, fee) /\ shares[k] \in Nat
    BY <1>1, GainIsSumOfShares DEF Shares
  <2> HIDE DEF shares
  <2> QED
    BY <2>2, <2>3, <2>4, <2>5
<1> HIDE DEF shares
<1>7. SumFunctionOnSet(BalanceAt', Keys)
        = SumFunctionOnSet(BalanceAt, Keys) + SumFunctionOnSet(shares, Keys)
  BY <1>6, FiniteKeys, SumPlus
<1>8. Held' = SumFunctionOnSet(BalanceAt', Keys)
  BY DEF Held, SumFunction, BalanceAt, Keys
<1>9. Held' = Held + Worth(done)
  BY <1>2, <1>5, <1>7, <1>8, HeldIsSum
<1> QED
  BY <1>1, <1>3, <1>4, <1>9 DEF Requests

LEMMA NextBooks ==
  ASSUME TypeInv, TypeInv', Accounting, [Next]_vars
  PROVE  Accounting'
<1> DEFINE supply == Supply * Cardinality(Tokens \X Accounts)
<1>0. RouterTypeOK /\ RouterTypeOK' /\ M!TypeOK /\ globalNonce[Ledger] >= 1
  BY DEF TypeInv, TypeOK, Origins
<1>1. supply \in Nat
  BY AssetRouterAssumptions, FiniteKeys, FS_CardinalityType, ProductOfNaturals DEF Keys
<1>2. Held + Worth(Requests) = supply + Worth(usedPayloads)
  BY DEF Accounting
<1>3. SUFFICES Held' + Worth(Requests') = supply + Worth(usedPayloads')
  BY DEF Accounting
<1> HIDE DEF supply
<1>4. ASSUME UNCHANGED balance, Requests' = Requests, UNCHANGED usedPayloads
      PROVE  Held' + Worth(Requests') = supply + Worth(usedPayloads')
  BY <1>2, <1>4 DEF Held
<1>5. UNCHANGED sent => Requests' = Requests
  BY DEF Requests
<1>6. CASE MailboxStep
  BY <1>4, <1>5, <1>6, MailboxStepSends DEF MailboxStep, routerVars, mintVars, tokenVars
<1>7. CASE RouterSetup \/ BasculeStep \/ UNCHANGED vars
  BY <1>4, <1>5, <1>7
     DEF RouterSetup, BasculeStep, vars, mailboxVars, routerVars, mintVars, tokenVars
<1>8. CASE RequestStep
  BY <1>0, <1>2, <1>8, RequestBooks
<1>9. CASE LedgerStep
  <2> PICK m \in LedgerMessages : sent' = sent \cup {m} /\ UNCHANGED routerVars
    BY <1>0, <1>9, LedgerSends
  <2>1. m.src # Here
    BY AssetRouterAssumptions DEF LedgerMessages
  <2>2. Requests' = Requests
    BY <2>1 DEF Requests
  <2> QED
    BY <1>4, <2>2 DEF routerVars, mintVars, tokenVars
<1>10. CASE SubmitStep
  <2> PICK done, fee : Mints(done, fee)
    BY <1>10, SubmitMints
  <2>1. /\ Held' = Held + Worth(done) /\ Worth(done) \in Nat
        /\ Worth(usedPayloads') = Worth(usedPayloads) + Worth(done)
        /\ Worth(Requests') = Worth(Requests)
    BY MintBooks
  <2> QED
    BY <1>1, <1>2, <2>1, BooksAreFinite
<1> QED
  BY <1>0, <1>6, <1>7, <1>8, <1>9, <1>10, StepCases

LEMMA InitBooks ==
  ASSUME Init
  PROVE  Accounting
<1>1. RouterTypeOK
  BY InitTypeInv DEF TypeInv, TypeOK
<1>2. \A k \in Keys : BalanceAt[k] = Supply
  BY DEF Init, InitialBalance, BalanceAt, Keys
<1>3. Held = Supply * Cardinality(Tokens \X Accounts)
  BY <1>1, <1>2, AssetRouterAssumptions, FiniteKeys, HeldIsSum, SumConstant DEF Keys
<1>4. Requests = {} /\ usedPayloads = {}
  BY DEF Init, M!Init, Requests
<1>5. Worth({}) = 0
  <2>1. IsFiniteSet({}) /\ {} \in SUBSET M!Messages
    BY FS_EmptySet
  <2> QED
    BY <2>1, WorthIsSum, SumEmpty
<1>6. Worth(Requests) = 0 /\ Worth(usedPayloads) = 0
  BY <1>4, <1>5
<1>7. Held \in Nat
  BY <1>1, HeldIsSum
<1> QED
  BY <1>3, <1>6, <1>7 DEF Accounting

(***************************************************************************)
(* Nothing is created or lost between users, treasury and ledger: what all *)
(* accounts hold and what was handed over to the ledger is the initial     *)
(* supply and every release handled, once.                                 *)
(***************************************************************************)
THEOREM NothingIsCreated == Spec => []Accounting
<1>1. TypeInv /\ TypeInv' /\ Accounting /\ [Next]_vars => Accounting'
  BY NextBooks
<1>2. Init => Accounting
  BY InitBooks
<1> QED
  BY <1>1, <1>2, AlwaysTypeInv, PTL DEF Spec

-----------------------------------------------------------------------------
\* What a redemption changes that was not there before.
LEMMA RedemptionsAsConfigured ==
  ASSUME TypeInv, [Next]_vars, NEW m \in Requests' \ Requests, NEW t \in Tokens,
         balance'[t] # balance[t], m.body.kind # "DEPOSIT"
  PROVE  /\ m.body.sender # Treasury =>
              balance'[t][Treasury] - balance[t][Treasury] =
                tokenConfig[t].redeemFee
                  + (IF ToBitcoin(m) THEN tokenConfig[t].toNativeCommission ELSE 0)
         /\ ToBitcoin(m) => m.body.amount >= tokenConfig[t].redeemForBtcMinAmount
<1>0. RouterTypeOK /\ M!TypeOK /\ globalNonce[Ledger] >= 1
  BY DEF TypeInv, TypeOK, Origins
<1>1. sent' # sent /\ balance' # balance /\ m \in sent' \ sent
  BY DEF Requests
<1>2. ~MailboxStep
  BY <1>1, MailboxStepSends
<1>3. ~RouterSetup /\ ~BasculeStep /\ ~UNCHANGED vars
  BY <1>1 DEF RouterSetup, BasculeStep, mailboxVars, vars
<1>4. ~LedgerStep
  BY <1>0, <1>1, LedgerSends DEF routerVars, tokenVars
<1>5. ~SubmitStep
  BY <1>1, SubmitMints DEF Mints
<1>6. RequestStep
  BY <1>0, <1>2, <1>3, <1>4, <1>5, StepCases
<1> PICK u \in Accounts, s \in Tokens, fee \in Nat,
         module \in {BtcStaking, AssetsModule}, body \in Bodies :
           Pays(u, s, fee, module, body) /\ AsConfigured(u, s, fee, body)
  BY <1>6 DEF RequestStep
<1>7. m.body = body
  <2> DEFINE n == M!Payload(Here, Router, Ledger, module, Zero, body)
  <2>1. sent' = sent \cup {n}
    BY <1>0, RequestSends
  <2>2. n.body = body
    BY DEF M!Payload
  <2> HIDE DEF n
  <2> QED
    BY <1>1, <2>1, <2>2
<1>8. balance' = MintAndBurn(s, fee, u, body.amount + fee)
  BY DEF Pays, Charge
<1>9. t = s
  BY <1>0, <1>8 DEF MintAndBurn, RouterTypeOK
<1>10. ToBitcoin(m) <=> body.kind = "REDEEM_NATIVE" \/ body.toChain = Bitcoin
  BY <1>7 DEF ToBitcoin
<1>11. /\ body.sender = u
       /\ fee = tokenConfig[t].redeemFee
                  + (IF ToBitcoin(m) THEN tokenConfig[t].toNativeCommission ELSE 0)
       /\ ToBitcoin(m) => body.amount >= tokenConfig[t].redeemForBtcMinAmount
  BY <1>7, <1>9, <1>10 DEF AsConfigured
<1>12. ASSUME u # Treasury
       PROVE  balance'[t][Treasury] - balance[t][Treasury] = fee
  <2>1. Treasury \in Accounts /\ balance[t][Treasury] \in Nat
    BY <1>0 DEF RouterTypeOK, Accounts
  <2>2. balance'[t][Treasury] = balance[t][Treasury] + fee - 0
    BY <1>0, <1>8, <1>9, <1>12, <2>1 DEF MintAndBurn, RouterTypeOK
  <2> QED
    BY <2>1, <2>2
<1> QED
  BY <1>7, <1>11, <1>12

(***************************************************************************)
(* A redemption costs the redeem fee once, and the commission only on the  *)
(* way to Bitcoin, from whichever entry point _redeem is reached.          *)
(***************************************************************************)
THEOREM FeeIsTakenOnce == Spec => RedeemFeeOnce
<1>1. TypeInv /\ [Next]_vars =>
        \A m \in Requests' \ Requests, t \in Tokens :
          m.body.kind # "DEPOSIT" /\ m.body.sender # Treasury /\ balance'[t] # balance[t]
            => balance'[t][Treasury] - balance[t][Treasury] =
                 tokenConfig[t].redeemFee
                   + (IF ToBitcoin(m) THEN tokenConfig[t].toNativeCommission ELSE 0)
  BY RedemptionsAsConfigured
<1> QED
  BY <1>1, AlwaysTypeInv, PTL DEF Spec, RedeemFeeOnce

(***************************************************************************)
(* No redemption asks for fewer bitcoins than the minimum of its token;    *)
(* of deposits, which have none, this says nothing.                        *)
(***************************************************************************)
THEOREM RedemptionMinimumIsKept == Spec => RedemptionsAboveMinimum
<1>1. TypeInv /\ [Next]_vars =>
        \A m \in Requests' \ Requests, t \in Tokens :
          m.body.kind # "DEPOSIT" /\ ToBitcoin(m) /\ balance'[t] # balance[t]
            => m.body.amount >= tokenConfig[t].redeemForBtcMinAmount
  BY RedemptionsAsConfigured
<1> QED
  BY <1>1, AlwaysTypeInv, PTL DEF Spec, RedemptionsAboveMinimum

\* A recipient gets what the releases for him bring, less a fee within the cap.
LEMMA RecipientGets ==
  ASSUME RouterTypeOK, NEW done, NEW fee, Mints(done, fee),
         NEW t \in Tokens, NEW u \in Users, NEW minted,
         minted = {m \in usedPayloads' \ usedPayloads :
                     m.body.token = t /\ m.body.recipient = u}
  PROVE  balance'[t][u] >= balance[t][u]
           + SumFunction([m \in minted |->
               IF m.body.amount > tokenConfig[t].maximumMintCommission
               THEN m.body.amount - tokenConfig[t].maximumMintCommission ELSE 0])
<1> DEFINE cap == tokenConfig[t].maximumMintCommission
           least == [m \in minted |->
                       IF m.body.amount > cap THEN m.body.amount - cap ELSE 0]
           share == Share(t, u, done, fee)
<1>1. cap \in Nat
  BY ConfigType DEF TokenConfigTypes
<1>2. u # Treasury /\ u \in Accounts
  BY AssetRouterAssumptions DEF Accounts
<1>3. /\ minted = {m \in done : m.body.token = t /\ m.body.recipient = u}
      /\ minted \in SUBSET done
  BY DEF Mints
<1>4. Payable(done, fee) /\ Fair(done, fee)
  BY DEF Mints
<1>5. IsFiniteSet(done) /\ IsFiniteSet(minted)
  BY <1>3, <1>4, FS_Subset DEF Payable
<1>6. \A m \in done : share[m] \in Nat
  BY <1>4, ShareType
<1>7. \A m \in done \ minted : share[m] = 0
  BY <1>2, <1>3 DEF Share
<1>8. ASSUME NEW m \in minted
      PROVE  least[m] \in Nat /\ least[m] <= share[m]
  <2>1. /\ m \in done /\ m.body.token = t /\ m.body.recipient = u
        /\ m.body.amount \in Nat /\ fee[m] \in Nat
        /\ fee[m] <= m.body.amount /\ fee[m] <= cap
    BY <1>3, <1>4 DEF Payable, Fair
  <2>2. share[m] = m.body.amount - fee[m] + 0
    BY <1>2, <2>1 DEF Share
  <2>3. least[m] = IF m.body.amount > cap THEN m.body.amount - cap ELSE 0
    OBVIOUS
  <2> HIDE DEF least, share, cap
  <2> QED
    BY <1>1, <2>1, <2>2, <2>3
<1>9. balance'[t][u] = balance[t][u] + SumFunctionOnSet(share, done)
  <2>1. balance'[t][u] = balance[t][u] + Gain(t, u, done, fee)
    BY <1>2 DEF Mints
  <2> QED
    BY <1>4, <2>1, GainIsSumOfShares
<1>10. SumFunction(least) = SumFunctionOnSet(least, minted)
  BY DEF SumFunction
<1> HIDE DEF least, share
<1>11. SumFunctionOnSet(share, done) = SumFunctionOnSet(share, minted)
  BY <1>3, <1>5, <1>6, <1>7, SumOverPart
<1>12. SumFunctionOnSet(least, minted) <= SumFunctionOnSet(share, minted)
  <2>1. \A m \in minted : /\ least[m] \in Int /\ share[m] \in Int
                          /\ least[m] <= share[m]
    BY <1>3, <1>6, <1>8
  <2> QED
    BY <1>5, <2>1, SumOrder
<1>13. SumFunctionOnSet(least, minted) \in Int /\ SumFunctionOnSet(share, minted) \in Int
  BY <1>3, <1>5, <1>6, <1>8, SumInt
<1>14. balance[t][u] \in Nat
  BY <1>2 DEF RouterTypeOK
<1>15. balance'[t][u] >= balance[t][u] + SumFunction(least)
  BY <1>9, <1>10, <1>11, <1>12, <1>13, <1>14
<1> QED
  BY <1>15 DEF least

(***************************************************************************)
(* No claimer and no batch takes more from a recipient than the releases   *)
(* minted for him bring, or than the commission that the admin allows.     *)
(***************************************************************************)
THEOREM ClaimersTakeOnlyTheFee == Spec => MintNeverCosts
<1>1. ASSUME TypeInv, [Next]_vars, NEW t \in Tokens, NEW u \in Users, NEW minted,
             minted = {m \in usedPayloads' \ usedPayloads :
                         m.body.token = t /\ m.body.recipient = u},
             minted # {}
      PROVE  balance'[t][u] >= balance[t][u]
               + SumFunction([m \in minted |->
                   IF m.body.amount > tokenConfig[t].maximumMintCommission
                   THEN m.body.amount - tokenConfig[t].maximumMintCommission ELSE 0])
  <2>1. PICK done, fee : Mints(done, fee)
    BY <1>1, OnlySubmissionsMint
  <2>2. RouterTypeOK
    BY <1>1 DEF TypeInv, TypeOK
  <2> QED
    BY <1>1, <2>1, <2>2, RecipientGets
<1>2. TypeInv /\ [Next]_vars =>
        \A t \in Tokens, u \in Users :
          LET minted == {m \in usedPayloads' \ usedPayloads :
                           m.body.token = t /\ m.body.recipient = u}
              cap == tokenConfig[t].maximumMintCommission
          IN minted # {} =>
               balance'[t][u] >= balance[t][u]
                 + SumFunction([m \in minted |->
                     IF m.body.amount > cap THEN m.body.amount - cap ELSE 0])
  BY <1>1
<1> QED
  BY <1>2, AlwaysTypeInv, PTL DEF Spec, MintNeverCosts

-----------------------------------------------------------------------------
(***************************************************************************)
(* The refinement.  A request is new, since its nonce is; the fee that the *)
(* treasury pays is paid to itself, so that it might as well be none.      *)
(***************************************************************************)
LEMMA PaysRequests ==
  ASSUME TypeInv, RouterTypeOK', NEW u \in Accounts, NEW t \in Tokens,
         NEW fee \in Nat, NEW module \in {BtcStaking, AssetsModule},
         NEW body \in Bodies, Pays(u, t, fee, module, body), body.sender = u
  PROVE  I!Next
<1> DEFINE m == M!Payload(Here, Router, Ledger, module, Zero, body)
           w == IF u = Treasury THEN 0 ELSE fee
           amount == body.amount
<1>0. /\ RouterTypeOK /\ M!TypeOK /\ Here # Ledger
      /\ Here \in Chains /\ Treasury \in Accounts /\ amount \in Nat /\ w \in Nat
  BY AssetRouterAssumptions DEF TypeInv, TypeOK, Chains, Accounts, Bodies
<1>1. /\ sent' = sent \cup {m} /\ m.src = Here /\ m.sender = Router
      /\ m.nonce = globalNonce[Here] /\ m.body = body
  BY <1>0, RequestSends
<1> HIDE DEF m
<1>2. m \notin sent
  <2>1. globalNonce[Here] \in Nat
    BY <1>0 DEF M!TypeOK
  <2> QED
    BY <1>1, <2>1 DEF TypeInv, Origins
<1>3. sent' \cap LedgerPayloads = sent \cap LedgerPayloads
  BY <1>0, <1>1 DEF LedgerPayloads
<1>4. Requests' = Requests \cup {m} /\ m \notin Requests
  BY <1>1, <1>2 DEF Requests
<1>5. usedPayloads' = usedPayloads
  BY DEF Pays, mintVars
<1>6. balance' = MintAndBurn(t, fee, u, amount + fee) /\ balance'[t][u] >= 0
  BY DEF Pays, Charge
<1>7. \A a \in Accounts : balance[t][a] \in Nat
  BY <1>0 DEF RouterTypeOK
<1> DEFINE row == [a \in Accounts |-> balance[t][a]
                     + (IF a = Treasury THEN w ELSE 0)
                     - (IF a = u THEN amount + w ELSE 0)]
<1>8. row = [a \in Accounts |-> balance[t][a]
               + (IF a = Treasury THEN fee ELSE 0)
               - (IF a = u THEN amount + fee ELSE 0)]
  <2>1. ASSUME NEW a \in Accounts
        PROVE  balance[t][a] + (IF a = Treasury THEN w ELSE 0)
                 - (IF a = u THEN amount + w ELSE 0)
               = balance[t][a] + (IF a = Treasury THEN fee ELSE 0)
                   - (IF a = u THEN amount + fee ELSE 0)
    <3> HIDE DEF amount
    <3>1. CASE u = Treasury
      BY <1>0, <1>7, <3>1
    <3>2. CASE u # Treasury
      BY <1>0, <1>7, <3>2
    <3> QED
      BY <3>1, <3>2
  <2> QED
    BY <2>1
<1>9. balance' = [balance EXCEPT ![t] = row]
  BY <1>6, <1>8 DEF MintAndBurn
<1>10. amount + w <= balance[t][u]
  <2>1. balance'[t][u] = row[u]
    BY <1>0, <1>9 DEF RouterTypeOK
  <2>2. row[u] = balance[t][u] + (IF u = Treasury THEN w ELSE 0) - (amount + w)
    OBVIOUS
  <2> HIDE DEF row, amount
  <2> QED
    BY <1>0, <1>6, <1>7, <2>1, <2>2
<1> HIDE DEF w, row
<1>11. I!Request(m, t, w)
  BY <1>1, <1>3, <1>4, <1>5, <1>9, <1>10 DEF I!Request, row
<1>12. w \in 0..balance[t][u]
  <2> HIDE DEF amount
  <2> QED
    BY <1>0, <1>7, <1>10
<1> QED
  BY <1>1, <1>4, <1>11, <1>12 DEF I!Next

LEMMA LedgerReleases ==
  ASSUME TypeInv, LedgerStep
  PROVE  I!Next \/ UNCHANGED I!vars
<1>0. M!TypeOK /\ globalNonce[Ledger] >= 1 /\ Ledger # Here
  BY AssetRouterAssumptions DEF TypeInv, TypeOK, Origins
<1> PICK m \in LedgerMessages : /\ m.nonce = globalNonce[Ledger]
                                /\ sent' = sent \cup {m} /\ UNCHANGED routerVars
  BY <1>0, LedgerSends
<1>1. m.src = Ledger /\ UNCHANGED <<balance, usedPayloads>>
  BY DEF LedgerMessages, routerVars, mintVars, tokenVars
<1>2. m \notin sent
  <2>1. globalNonce[Ledger] \in Nat
    BY DEF TypeInv, TypeOK, M!TypeOK, Chains
  <2> QED
    BY <1>1, <2>1 DEF TypeInv, Origins
<1>3. Requests' = Requests
  BY <1>0, <1>1 DEF Requests
<1>4. CASE m \in LedgerPayloads
  <2>1. sent' \cap LedgerPayloads = (sent \cap LedgerPayloads) \cup {m}
    BY <1>4
  <2>2. I!Release(m)
    BY <1>1, <1>2, <1>3, <2>1 DEF I!Release
  <2> QED
    BY <2>1, <2>2 DEF I!Next
<1>5. CASE m \notin LedgerPayloads
  <2>1. sent' \cap LedgerPayloads = sent \cap LedgerPayloads
    BY <1>5
  <2> QED
    BY <1>1, <1>3, <2>1 DEF I!vars
<1> QED
  BY <1>4, <1>5

LEMMA SameSum ==
  ASSUME NEW f
  PROVE  I!SumFunction(f) = SumFunctionOnSet(f, DOMAIN f)
  BY DEF I!SumFunction, I!SumFunctionOnSet, SumFunctionOnSet,
         I!FoldFunctionOnSet, FoldFunctionOnSet, I!MapThenFoldSet, MapThenFoldSet

\* A submission issues what it handles, all at once.
LEMMA MintsIssue ==
  ASSUME TypeInv, NEW done, NEW fee, Mints(done, fee)
  PROVE  I!Next
<1> DEFINE f == [m \in done |-> fee[m]]
           brings(t, a) == [m \in done |-> I!Brings(m, t, a, f[m])]
<1>1. /\ done \subseteq (sent \cap LedgerPayloads) \ usedPayloads
      /\ usedPayloads' = usedPayloads \cup done /\ UNCHANGED sent
      /\ Payable(done, fee)
  BY DEF Mints
<1>2. f \in I!Fees(done)
  <2>1. \A m \in done : /\ m.body.amount \in Nat /\ fee[m] \in Nat
                        /\ fee[m] <= m.body.amount
    BY <1>1 DEF Payable
  <2>2. \A m \in done : fee[m] \in 0..m.body.amount
    BY <2>1
  <2>3. f \in [done -> UNION {0..m.body.amount : m \in done}]
    BY <2>2
  <2> QED
    BY <2>1, <2>3 DEF I!Fees
<1>3. ASSUME NEW t \in Tokens, NEW a \in Accounts
      PROVE  Gain(t, a, done, fee) = I!SumFunction(brings(t, a))
  <2>1. \A m \in done : brings(t, a)[m] = Share(t, a, done, fee)[m]
    BY DEF I!Brings, Share
  <2>2. brings(t, a) = Share(t, a, done, fee)
    BY <2>1 DEF Share
  <2>3. DOMAIN brings(t, a) = done
    OBVIOUS
  <2>4. I!SumFunction(brings(t, a)) = SumFunctionOnSet(brings(t, a), DOMAIN brings(t, a))
    BY SameSum
  <2> HIDE DEF brings
  <2> QED
    BY <1>1, <2>2, <2>3, <2>4, GainIsSumOfShares
<1>4. balance' = [t \in Tokens |-> [a \in Accounts |->
                    balance[t][a] + I!SumFunction(brings(t, a))]]
  <2>1. balance' = [t \in Tokens |-> [a \in Accounts |->
                      balance[t][a] + Gain(t, a, done, fee)]]
    BY DEF Mints
  <2> HIDE DEF brings
  <2> QED
    BY <1>3, <2>1
<1>5. Requests' = Requests
  BY <1>1 DEF Requests
<1>6. I!Issue(done, f)
  BY <1>1, <1>2, <1>4, <1>5 DEF I!Issue
<1> HIDE DEF f
<1> QED
  BY <1>1, <1>2, <1>6 DEF I!Next

(***************************************************************************)
(* The router with its mailbox, drawbridge and tokens implements           *)
(* TokenIssue: every step is a paid request, a release of the ledger, an   *)
(* issue of releases not issued before, or none of these.                  *)
(***************************************************************************)
THEOREM ReleasesAreIssuedOnce == Spec => IssuedOnce
<1>1. Init => I!Init
  <2> SUFFICES ASSUME Init PROVE I!Init
    OBVIOUS
  <2>1. sent = {} /\ usedPayloads = {} /\ balance = InitialBalance
    BY DEF Init, M!Init
  <2> QED
    BY <2>1 DEF I!Init, Requests
<1>2. ASSUME TypeInv, TypeInv', [Next]_vars PROVE I!Next \/ UNCHANGED I!vars
  <2>0. RouterTypeOK /\ RouterTypeOK'
    BY <1>2 DEF TypeInv, TypeOK
  <2>1. UNCHANGED <<balance, sent, usedPayloads>> => UNCHANGED I!vars
    BY DEF I!vars, Requests
  <2>2. CASE MailboxStep
    BY <2>1, <2>2, MailboxStepSends DEF MailboxStep, routerVars, mintVars, tokenVars
  <2>3. CASE RouterSetup \/ BasculeStep \/ UNCHANGED vars
    BY <2>1, <2>3
       DEF RouterSetup, BasculeStep, vars, mailboxVars, routerVars, mintVars, tokenVars
  <2>4. CASE RequestStep
    BY <1>2, <2>0, <2>4, PaysRequests DEF RequestStep, AsConfigured
  <2>5. CASE LedgerStep
    BY <1>2, <2>5, LedgerReleases
  <2>6. CASE SubmitStep
    BY <1>2, <2>6, SubmitMints, MintsIssue
  <2> QED
    BY <1>2, <2>0, <2>2, <2>3, <2>4, <2>5, <2>6, StepCases
<1>3. TypeInv /\ TypeInv' /\ [Next]_vars => [I!Next]_I!vars
  BY <1>2
<1> QED
  BY <1>1, <1>3, AlwaysTypeInv, PTL DEF Spec, IssuedOnce, I!Spec

-----------------------------------------------------------------------------
\* Withdrawals are counted, and what was withdrawn is marked so.
Counted ==
  \A d \in LedgerPayloads :
    /\ withdrawals[d] <= 1
    /\ withdrawals[d] = 1 => depositHistory[d] = "WITHDRAWN"

LEMMA SubmitCounts ==
  ASSUME TypeInv, Counted, SubmitStep
  PROVE  Counted'
<1>1. /\ Origins /\ B!TypeOK
      /\ withdrawals \in [LedgerPayloads -> Nat]
  BY DEF TypeInv, TypeOK, B!TypeOK
<1> PICK batch \in SUBSET Inbox :
         \E done \in SUBSET batch : \E fee, caller : Submit(caller, batch, done, fee)
  BY DEF SubmitStep
<1> PICK done \in SUBSET batch : \E fee, caller : Submit(caller, batch, done, fee)
  OBVIOUS
<1>2. (\A m \in done : HandlePayloadSucceeds(m)) /\ ConfirmDeposits(batch, done)
  BY DEF Submit
<1> DEFINE confirmed == Confirm(batch, done)
<1>3. ASSUME NEW d \in confirmed PROVE depositHistory[d] # "WITHDRAWN"
  BY <1>2 DEF Confirm, HandlePayloadSucceeds, B!Withdrawable
<1>4. ASSUME NEW d \in LedgerPayloads
      PROVE  /\ depositHistory'[d] =
                  IF d \in confirmed THEN "WITHDRAWN" ELSE depositHistory[d]
             /\ withdrawals'[d] = withdrawals[d] + (IF d \in confirmed THEN 1 ELSE 0)
  BY <1>2 DEF ConfirmDeposits
<1> HIDE DEF confirmed
<1>5. ASSUME NEW d \in LedgerPayloads
      PROVE  /\ withdrawals'[d] <= 1
             /\ withdrawals'[d] = 1 => depositHistory'[d] = "WITHDRAWN"
  <2>1. withdrawals[d] \in Nat
    BY <1>1
  <2>2. CASE d \in confirmed
    BY <1>3, <1>4, <2>1, <2>2 DEF Counted
  <2>3. CASE d \notin confirmed
    BY <1>4, <2>1, <2>3 DEF Counted
  <2> QED
    BY <2>2, <2>3
<1> QED
  BY <1>5 DEF Counted

(***************************************************************************)
(* Through the drawbridge no release is withdrawn twice, although a batch  *)
(* validates several withdrawals at once, a handler may fail after it has  *)
(* validated, and watchers report deposits at any time.                    *)
(***************************************************************************)
THEOREM DrawbridgePaysOnce == Spec => []B!WithdrawnOnce
<1>1. Init => Counted
  BY DEF Init, B!Init, Counted
<1>2. ASSUME TypeInv, Counted, [Next]_vars PROVE Counted'
  <2>0. RouterTypeOK /\ M!TypeOK /\ globalNonce[Ledger] >= 1
    BY <1>2 DEF TypeInv, TypeOK, Origins
  <2>1. ASSUME UNCHANGED basculeVars PROVE Counted'
    BY <1>2, <2>1 DEF basculeVars, Counted
  <2>2. CASE BasculeStep
    <3>1. Withdrawn' = Withdrawn
      BY <2>2, ReportsWithdrawNothing
    <3>2. withdrawals' = withdrawals
      BY <2>2 DEF BasculeStep, AdminOfBascule, B!LowerThreshold, B!RaiseThreshold,
         B!GrantGuardian, B!LoseGuardian, B!SetPaused, B!ReportDeposits,
         B!observerVars
    <3>3. \A d \in LedgerPayloads :
            depositHistory'[d] = "WITHDRAWN" <=> depositHistory[d] = "WITHDRAWN"
      BY <3>1 DEF Withdrawn
    <3> QED
      BY <1>2, <3>2, <3>3 DEF Counted
  <2>3. CASE RequestStep
    BY <2>1, <2>3 DEF RequestStep, Pays
  <2>4. CASE LedgerStep
    BY <2>0, <2>1, <2>4, LedgerSends
  <2>5. CASE RouterSetup \/ MailboxStep \/ UNCHANGED vars
    BY <2>1, <2>5 DEF RouterSetup, MailboxStep, vars
  <2> QED
    BY <1>2, <2>0, <2>2, <2>3, <2>4, <2>5, SubmitCounts, StepCases
<1>3. TypeInv /\ Counted /\ [Next]_vars => Counted'
  BY <1>2
<1>4. Counted => B!WithdrawnOnce
  BY DEF Counted, B!WithdrawnOnce
<1> QED
  BY <1>1, <1>3, <1>4, AlwaysTypeInv, PTL DEF Spec

-----------------------------------------------------------------------------
(***************************************************************************)
(* The router has no pause of its own.  While the mailbox of its chain is  *)
(* paused, nothing is requested, minted or charged through the router,     *)
(* whether by single calls, batches or past it (whenNotPaused in send and  *)
(* deliverAndHandle).                                                      *)
(***************************************************************************)
PausedMailboxStopsRouter ==
  [][ paused[Here] => UNCHANGED <<balance, Requests, usedPayloads>> ]_vars

LEMMA NoGain ==
  ASSUME NEW fee, NEW t, NEW a
  PROVE  Gain(t, a, {}, fee) = 0
<1>1. Payable({}, fee)
  BY FS_EmptySet DEF Payable
<1> QED
  BY <1>1, GainIsSumOfShares, SumEmpty

LEMMA EmptySubmit ==
  ASSUME RouterTypeOK, NEW caller, NEW batch \in SUBSET Inbox,
         NEW done \in SUBSET batch, NEW fee, Submit(caller, batch, done, fee),
         paused[Here]
  PROVE  UNCHANGED <<balance, sent, usedPayloads>>
<1>1. batch = {} /\ done = {}
  BY DEF Submit, Deliverable, M!Deliverable, M!WhenNotPaused
<1>2. UNCHANGED <<sent, usedPayloads>>
  BY <1>1 DEF Submit, Marked
<1>3. balance' = [t \in Tokens |-> [a \in Accounts |->
                    balance[t][a] + Gain(t, a, {}, fee)]]
  BY <1>1 DEF Submit
<1>4. \A t \in Tokens, a \in Accounts :
        balance[t][a] + Gain(t, a, {}, fee) = balance[t][a]
  BY NoGain DEF RouterTypeOK
<1>5. balance' = balance
  BY <1>3, <1>4 DEF RouterTypeOK
<1> QED
  BY <1>2, <1>5

(***************************************************************************)
(* Pausing the mailbox of its chain stops the router.                      *)
(***************************************************************************)
THEOREM PauseStopsRouter == Spec => PausedMailboxStopsRouter
<1>1. ASSUME TypeInv, [Next]_vars, paused[Here]
      PROVE  UNCHANGED <<balance, Requests, usedPayloads>>
  <2>0. RouterTypeOK /\ M!TypeOK /\ globalNonce[Ledger] >= 1
    BY <1>1 DEF TypeInv, TypeOK, Origins
  <2>1. UNCHANGED sent => UNCHANGED Requests
    BY DEF Requests
  <2>2. CASE MailboxStep
    BY <2>1, <2>2, MailboxStepSends DEF MailboxStep, routerVars, mintVars, tokenVars
  <2>3. CASE RouterSetup \/ BasculeStep \/ UNCHANGED vars
    BY <2>1, <2>3
       DEF RouterSetup, BasculeStep, vars, mailboxVars, routerVars, mintVars, tokenVars
  <2>4. ~RequestStep
    BY <1>1 DEF RequestStep, Pays, SendRequest, M!Send, M!CanSend, M!WhenNotPaused
  <2>5. CASE LedgerStep
    <3> PICK m \in LedgerMessages :
          sent' = sent \cup {m} /\ UNCHANGED <<basculeVars, routerVars>>
      BY <2>0, <2>5, LedgerSends
    <3>1. m.src # Here
      BY AssetRouterAssumptions DEF LedgerMessages
    <3> QED
      BY <3>1 DEF Requests, routerVars, mintVars, tokenVars
  <2>6. CASE SubmitStep
    BY <1>1, <2>0, <2>1, <2>6, EmptySubmit DEF SubmitStep
  <2> QED
    BY <1>1, <2>0, <2>2, <2>3, <2>4, <2>5, <2>6, StepCases
<1>2. TypeInv /\ [Next]_vars
        => [paused[Here] => UNCHANGED <<balance, Requests, usedPayloads>>]_vars
  BY <1>1
<1> QED
  BY <1>2, AlwaysTypeInv, PTL DEF Spec, PausedMailboxStopsRouter

=============================================================================
