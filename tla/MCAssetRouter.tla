---------------------------- MODULE MCAssetRouter ---------------------------
(***************************************************************************)
(* A TLC instance of AssetRouter: a native and a staked token, one user    *)
(* and the treasury.  The run starts from configured contracts, and the    *)
(* admins, or the user on his approvals, act at most MaxAdminOps times, at *)
(* any moment.                                                             *)
(***************************************************************************)
EXTENDS AssetRouter

CONSTANTS n, s, u1, MaxAdminOps, MaxMessages, Initial

VARIABLE adminOps

Config(fee, minAmount, cap, commission) ==
  [redeemFee |-> fee, redeemForBtcMinAmount |-> minAmount,
   maximumMintCommission |-> cap, toNativeCommission |-> commission]

MCInitial == Config(1, 2, 2, 1)
MCTokenConfigs == {Config(0, 2, 2, 1), Config(0, 0, 0, 0), Config(3, 0, 2, 0)}

MCPaths == {<<n, Here, s, Here>>, <<s, Here, BitcoinCoin, Bitcoin>>,
            <<BitcoinCoin, Bitcoin, n, Here>>}

Open == {<<s, Here, n, Here>>, <<s, Here, BitcoinCoin, Bitcoin>>,
         <<n, Here, BitcoinCoin, Bitcoin>>}

Configured ==
  /\ globalNonce = [c \in Chains |-> 1]
  /\ outbound = [c \in Chains |-> IF c = Here THEN {Ledger} ELSE {}]
  /\ inbound = outbound
  /\ delivered = [c \in Chains |-> {}]
  /\ handled = [c \in Chains |-> {}]
  /\ defaultMaxPayloadSize = [c \in Chains |-> 1]
  /\ mailboxSender = [c \in Chains |-> [a \in M!Senders |->
                        [maxPayloadSize |-> 0, feeDisabled |-> FALSE]]]
  /\ feePerByte = [c \in Chains |-> 0]
  /\ fees = [c \in Chains |-> 0]
  /\ paused = [c \in Chains |-> FALSE]
  /\ sent = {}
  /\ epoch = [c \in Chains |-> 1]
  /\ proofs = {}
  /\ validateThreshold = 2 /\ highest = 2 /\ raises = 1
  /\ guardians = {Admin} /\ grants = 2
  /\ maxDeposits = 1
  /\ depositHistory = [d \in LedgerPayloads |-> "UNREPORTED"]
  /\ withdrawals = [d \in LedgerPayloads |-> 0]
  /\ trustedSigner = Zero /\ signed = {} /\ signerless = TRUE
  /\ basculePaused = FALSE
  /\ routes = [k \in RouteKeys |->
                 IF k = <<n, Here, s, Here>> THEN "DEPOSIT"
                 ELSE IF k \in Open THEN "REDEEM" ELSE "UNKNOWN"]
  /\ nativeToken = n
  /\ callers = Tokens
  /\ tokenConfig = [t \in Tokens |-> Initial]
  /\ bascule = TRUE
  /\ usedPayloads = {}
  /\ balance = [t \in Tokens |-> [a \in Accounts |-> Supply]]
  /\ tokenPaused = {}
  /\ approved = {<<u1, s, 3>>}
  /\ basculeSkipped = FALSE
  /\ adminOps = 0

\* Whatever is bought or redeemed goes to the user, and the
\* treasury redeems s, too.
MCUserStep ==
  \/ \E k \in RouteKeys, amount \in Amounts : Deposit(u1, k[4], k[3], u1, amount)
  \/ \E amount \in Amounts :
       \/ \E t \in Tokens :
            \/ RedeemForBtc(u1, t, u1, amount)
            \/ \E toChain \in {Here, Bitcoin}, toToken \in Coins :
                 Redeem(u1, toChain, t, toToken, u1, amount)
       \/ Redeem(Treasury, Here, s, n, u1, amount)

\* Two of the releases come from elsewhere or are for the router to deliver.
MCLedgerStep ==
  \E body \in Releases :
    \/ (body.token = s \/ body.amount = 3) /\ LedgerSend(BtcStaking, Zero, body)
    \/ /\ body.token = s /\ body.amount = 3
       /\ LedgerSend(BtcStaking, Router, body) \/ LedgerSend(AssetsModule, Zero, body)

MCNext ==
  \/ /\ \/ AdminStep
        \/ \E fee \in Approvals : Approve(u1, s, fee) \/ Expire(u1, s, fee)
     /\ adminOps < MaxAdminOps
     /\ adminOps' = adminOps + 1
  \/ /\ \/ \E m \in Inbox : Notarize(m) \/ Report(m)
        \/ MCLedgerStep
        \/ MCUserStep
        \/ MintStep
     /\ globalNonce'[Here] + globalNonce'[Ledger] <= MaxMessages + 2
     /\ UNCHANGED adminOps

MCSpec == Configured /\ [][MCNext]_<<vars, adminOps>>

=============================================================================
