------------------------------ MODULE LaneSetup ------------------------------
(***************************************************************************)
(* A CCIP lane over BridgeV2 and the way it is brought up: the token pools *)
(* of contracts/bridge/providers on both chains, the scripts that          *)
(* configure mailbox, bridge and pools one transaction at a time           *)
(* (scripts/setup/mailbox.ts, bridge-v2.ts, chainlink.ts), and the task    *)
(* that is run afterwards to see whether everything is in place            *)
(* (tasks/ccip/check.ts).  Users send tokens at any moment.                *)
(*                                                                         *)
(* A pool is one of the users of the bridge.  The scripts are run by the   *)
(* owners in any order, with the right arguments or with plausible wrong   *)
(* ones, and may stop between two transactions.  With the flag populate a  *)
(* script prints the transactions instead, for the owner to send later:    *)
(* the same steps, at another time.                                        *)
(***************************************************************************)
EXTENDS BridgeV2, Sequences

CONSTANTS
  Pools,              \* token pools of all chains
  Home,               \* [pool]: its chain
  PoolToken,          \* [pool]: the token that CCIP users see (i_token)
  PoolBridgeToken,    \* [pool]: the token it hands to the bridge; differs from
                      \*   PoolToken in a BridgeTokenPool (getTokenAdapter)
  AddressBook,        \* [chain]: what the JSON file of addresses says
  PoolSetups,         \* [pool]: arguments given to setup-token-pool-v2
  BridgeSizes,        \* payload sizes given to mailbox-set-config
  ScriptFees          \* [chain]: feePerByte of its mailbox

\* AddressList: the staked tokens in the order of the file, where they may be
\* called StakedLBTC or LBTC; Zero stands for an empty or missing entry.
AddressLists ==
  [bridge : {Bridge, Zero}, staked : Seq(Tokens), native : Tokens \cup {Zero},
   adapter : Tokens \cup {Zero}, pools : SUBSET Pools]

SetupArgs ==
  [selector : Chains, chain : Chains, pool : Pools,
   token : Tokens \cup {Zero}, adapter : Tokens \cup {Zero}]

ASSUME LaneAssumptions ==
  /\ Pools \subseteq Users
  /\ Zero \notin Chains     \* setPath and the mailbox refuse it as a chain id
  /\ Home \in [Pools -> Chains]
  /\ PoolToken \in [Pools -> Tokens]
  /\ PoolBridgeToken \in [Pools -> Tokens]
  /\ \A c \in Chains : AddressBook[c] \in AddressLists
  /\ \A p \in Pools : PoolSetups[p] \subseteq SetupArgs
  /\ BridgeSizes \subseteq PayloadSizes
  /\ 0 \in Values
  /\ ScriptFees \in [Chains -> Nat]

VARIABLES
  remoteToken,        \* [pool][chain]: Zero if the pool does not support it
  remotePools,        \* [pool][chain]
  path,               \* chainSelectorToPath
  running,            \* [pool]: arguments of a setup script between its two steps
  ccip,               \* CCIP messages
  released            \* CCIP messages executed on their destination

poolVars == <<remoteToken, remotePools, path, running>>
laneVars == <<poolVars, ccip, released>>
allVars == <<vars, laneVars>>

NoPath == [chain |-> Zero, caller |-> Zero, adapter |-> Zero]
PathTypes ==
  {NoPath} \cup [chain : Chains, caller : Pools, adapter : Tokens \cup {Zero}]
Idle == Zero

CcipMessages ==
  [payload : M!Messages, selector : Chains, token : Tokens, pool : Pools]

-----------------------------------------------------------------------------
\* scripts/setup/mailbox.ts and bridge-v2.ts: one call each.

MailboxEnablePath(c, d, direction) ==
  /\ M!EnableMessagePath(c, d, direction)
  /\ UNCHANGED <<bridgeVars, laneVars>>

MailboxSetConfig(c, a, size, feeDisabled) ==
  /\ M!SetSenderConfig(c, a, size, feeDisabled)
  /\ UNCHANGED <<bridgeVars, laneVars>>

SetupDestinationBridge(c, d, b) ==
  /\ SetDestinationBridge(c, d, b)
  /\ UNCHANGED laneVars

\* With a destination token already there the script calls
\* removeDestinationToken with one argument too many, which ethers refuses
\* before it sends or prints anything: the pair is neither removed nor added.
SetupDestinationToken(c, d, local, remote) ==
  /\ destinationToken[c][d][local] = Zero
  /\ AddDestinationToken(c, d, local, remote)
  /\ UNCHANGED laneVars

SetupTokenRateLimits(c, d, t, limit, window) ==
  /\ SetTokenRateLimits(c, d, t, limit, window)
  /\ UNCHANGED laneVars

\* No script calls BridgeV2.setSenderConfig: the owner does so himself.
WhitelistPool(p, discount) ==
  /\ SetSenderConfig(Home[p], p, discount, TRUE)
  /\ UNCHANGED laneVars

-----------------------------------------------------------------------------
\* scripts/setup/chainlink.ts, setup-token-pool-v2: applyChainUpdates, if the
\* remote token is given, then setPath.

Supports(p, d) == remoteToken[p][d] # Zero

\* TokenPool.applyChainUpdates([], args) reverts for a chain already there.
ApplyChainUpdates(p, a) ==
  /\ running[p] = Idle
  /\ a.token # Zero
  /\ ~Supports(p, a.selector)
  /\ remoteToken' = [remoteToken EXCEPT ![p][a.selector] = a.token]
  /\ remotePools' = [remotePools EXCEPT ![p][a.selector] = {a.pool}]
  /\ running' = [running EXCEPT ![p] = a]
  /\ UNCHANGED <<path, ccip, released, vars>>

SetPath(p, a) ==
  /\ Supports(p, a.selector)
  /\ a.pool \in remotePools[p][a.selector]
  /\ path' = [path EXCEPT ![p][a.selector] =
                [chain |-> a.chain, caller |-> a.pool, adapter |-> a.adapter]]
  /\ UNCHANGED <<remoteToken, remotePools, ccip, released, vars>>

\* The script goes on, or is run again without the remote token: with it the
\* first transaction would revert.
FinishPoolSetup(p, a) ==
  /\ running[p] \in {a, Idle}
  /\ SetPath(p, a)
  /\ running' = [running EXCEPT ![p] = Idle]

\* It stops: the second transaction fails, or the chain id was not given.
StopPoolSetup(p) ==
  /\ running[p] # Idle
  /\ running' = [running EXCEPT ![p] = Idle]
  /\ UNCHANGED <<remoteToken, remotePools, path, ccip, released, vars>>

\* The owner gives up a chain: applyChainUpdates([selector], []).  The path of
\* the chain stays, until removePath.
RemoveChain(p, d) ==
  /\ Supports(p, d)
  /\ remoteToken' = [remoteToken EXCEPT ![p][d] = Zero]
  /\ remotePools' = [remotePools EXCEPT ![p][d] = {}]
  /\ UNCHANGED <<path, running, ccip, released, vars>>

RemovePath(p, d) ==
  /\ path[p][d] # NoPath
  /\ path' = [path EXCEPT ![p][d] = NoPath]
  /\ UNCHANGED <<remoteToken, remotePools, running, ccip, released, vars>>

-----------------------------------------------------------------------------
\* Transfers: the CCIP router hands the tokens of a user to the pool.

\* The pool that CCIP knows for a token: its admin registry has one per token.
PoolsOf(d, t) == {q \in Pools : Home[q] = d /\ PoolToken[q] = t}

BridgeTokenAhead(p, way) ==
  destinationToken[Home[p]][way.chain][PoolBridgeToken[p]]

\* Slip: the pool leaves it to the bridge to know the token.
AnyTokenAhead(p, d) == TRUE

\* The pair of the bridge is the one that CCIP was told of, or its adapter.
TokensAgree(p, d) ==
  BridgeTokenAhead(p, path[p][d]) \in {remoteToken[p][d], path[p][d].adapter}

\* Slip: two fields of the path are swapped.
AdapterAsCaller(p, d) == path[p][d].adapter

CallerAhead(p, d) == path[p][d].caller

\* The conditions under which lockOrBurn of pool p for CCIP chain d, and what
\* it calls, do not revert.
CanLockOrBurn(p, d, recipient, amount) ==
  /\ Supports(p, d)
  /\ path[p][d] # NoPath
  /\ TokensAgree(p, d)
  /\ CanDeposit(Home[p], p, path[p][d].chain, PoolBridgeToken[p], recipient,
                amount, 0)

LockOrBurn(p, d, recipient, amount) ==
  LET c == Home[p]
      far == path[p][d].chain
      body == DepositBody(c, far, PoolBridgeToken[p], recipient, amount)
  IN
  /\ CanLockOrBurn(p, d, recipient, amount)
  /\ Deposit(c, p, far, PoolBridgeToken[p], recipient, amount, CallerAhead(p, d), 0)
  /\ ccip' = ccip \cup
       {[payload |-> M!Payload(c, Bridge, far, bridgeContract[c][far],
                               CallerAhead(p, d), body),
         selector |-> d, token |-> remoteToken[p][d], pool |-> p]}
  /\ UNCHANGED <<poolVars, released>>

\* Slip: any payload of the bridge does.
AnyPayload(x, m) == TRUE

SamePayload(x, m) == m = x.payload

AcceptsFrom(q, p) ==
  Supports(q, Home[p]) /\ p \in remotePools[q][Home[p]]

\* The conditions under which releaseOrMint of pool q for CCIP message x, with
\* the payload m and its proof as offchain data, does not revert.  CCIP executes
\* a message once; a revert, also one of the bridge that the mailbox has caught,
\* leaves it for another attempt.
CanReleaseOrMint(q, x, m, e) ==
  /\ x \notin released
  /\ q \in PoolsOf(x.selector, x.token)
  /\ AcceptsFrom(q, x.pool)
  /\ HandlePayloadSucceeds(x.selector, m)
  /\ M!Deliverable(x.selector, m, e, q)
  /\ SamePayload(x, m)

ReleaseOrMint(q, x, m, e) ==
  /\ CanReleaseOrMint(q, x, m, e)
  /\ Withdraw(x.selector, m, e, q)
  /\ released' = released \cup {x}
  /\ UNCHANGED <<poolVars, ccip>>

\* Others use the bridge without CCIP, with any relayer.
DepositDirectly(c, u, d, t, amount) ==
  /\ Deposit(c, u, d, t, u, amount, Zero, 0)
  /\ UNCHANGED laneVars

RelayDirectly(c, m, e, caller) ==
  /\ Withdraw(c, m, e, caller) \/ FailToWithdraw(c, m, e, caller)
  /\ UNCHANGED laneVars

NotarizeAny == \E m \in sent : Notarize(m) /\ UNCHANGED laneVars

TimePasses(c) == Tick(c) /\ UNCHANGED laneVars

-----------------------------------------------------------------------------
\* tasks/ccip/check.ts.  A rule holds when it prints neither error nor warning.

\* What the task takes from the address list of chain c.
ListedChains == {c \in Chains : AddressBook[c].bridge # Zero}

StakedToken(c) ==
  LET entries == AddressBook[c].staked IN
  IF entries = <<>> THEN Zero ELSE entries[Len(entries)]

HasNative(c) == AddressBook[c].native # Zero \/ AddressBook[c].adapter # Zero

NativeTarget(c) ==
  IF AddressBook[c].adapter # Zero THEN AddressBook[c].adapter
                                   ELSE AddressBook[c].native

ListedPools(c) == IF c \in ListedChains THEN AddressBook[c].pools ELSE {}

Others(c) == ListedChains \ {c}

\* Slip: only the length is looked at.
CheckMailboxSize(c) == M!MaxSizeOf(c, Bridge) >= 1

CheckMailbox(c) ==
  /\ M!MaxSizeOf(c, Bridge) >= 1
  /\ mailboxSender[c][Bridge].feeDisabled

\* A limit that is used up looks like one that was never set.
HasLimit(c, d, t) == R!AmountCanBeSent(rateLimit[c][d][t]) # 0

CheckBridge(c) ==
  /\ \A p \in ListedPools(c) :
       bridgeSender[c][p] = [whitelisted |-> TRUE, feeDiscount |-> FeeDiscountBase]
  /\ \A d \in Others(c) :
       /\ bridgeContract[c][d] = AddressBook[d].bridge
       /\ HasNative(c) /\ HasNative(d) => HasLimit(c, d, NativeTarget(c))
       /\ StakedToken(c) # Zero /\ StakedToken(d) # Zero =>
            HasLimit(c, d, StakedToken(c))

IsStaked(p) == StakedToken(Home[p]) = PoolToken[p]
IsNative(p) == HasNative(Home[p]) /\ AddressBook[Home[p]].native = PoolToken[p]

ExpectedToken(p, d) ==
  IF IsNative(p) THEN AddressBook[d].native ELSE StakedToken(d)

TokenPresent(p, d) ==
  (IsStaked(p) /\ StakedToken(d) # Zero) \/ (IsNative(p) /\ HasNative(d))

\* The remote pool may be any pool of the other chain.
CheckTokenPool(c) ==
  /\ ListedPools(c) # {}
  /\ \A p \in ListedPools(c) :
       /\ IsStaked(p) \/ IsNative(p)
       /\ \A d \in Chains \ Others(c) : ~Supports(p, d)
       /\ \A d \in Others(c) :
            IF Supports(p, d)
            THEN /\ remoteToken[p][d] = ExpectedToken(p, d)
                 /\ Cardinality(remotePools[p][d]) = 1
                 /\ ListedPools(d) # {} => remotePools[p][d] \subseteq ListedPools(d)
            ELSE ~TokenPresent(p, d)

Check(c) ==
  c \in ListedChains /\ CheckMailbox(c) /\ CheckBridge(c) /\ CheckTokenPool(c)

-----------------------------------------------------------------------------
People == Users \ Pools

\* The owners of chain c run the scripts, with a link to d.
MailboxSetup(c) ==
  \/ \E d \in Chains, direction \in M!Directions :
       <<c, d>> \in Links /\ MailboxEnablePath(c, d, direction)
  \/ \E size \in BridgeSizes, b \in BOOLEAN : MailboxSetConfig(c, Bridge, size, b)

BridgeSetup(c) ==
  \/ \E d \in Chains :
       /\ <<c, d>> \in Links
       /\ \/ SetupDestinationBridge(c, d, Bridge)
          \/ \E p \in TokenPairs : SetupDestinationToken(c, d, p[1], p[2])
  \/ \E p \in Pools, discount \in Discounts :
       Home[p] = c /\ WhitelistPool(p, discount)

LimitSetup(c) ==
  \E d \in Chains, t \in Tokens, r \in RateConfigs :
    <<c, d>> \in Links /\ SetupTokenRateLimits(c, d, t, r[1], r[2])

PoolSetup(c) ==
  \E p \in Pools :
    /\ Home[p] = c
    /\ \/ \E a \in PoolSetups[p] : ApplyChainUpdates(p, a) \/ FinishPoolSetup(p, a)
       \/ StopPoolSetup(p)
       \/ \E d \in Chains : RemoveChain(p, d) \/ RemovePath(p, d)

TransferStep(c) ==
  \/ \E p \in Pools, d \in Chains, u \in People, amount \in Amounts :
       Home[p] = c /\ LockOrBurn(p, d, u, amount)
  \/ \E u \in People, d \in Chains, t \in Tokens, amount \in Amounts :
       DepositDirectly(c, u, d, t, amount)
  \/ \E q \in Pools, x \in ccip, m \in sent, e \in 1..epoch[c] :
       Home[q] = c /\ ReleaseOrMint(q, x, m, e)
  \/ \E m \in sent, e \in 1..epoch[c], u \in People : RelayDirectly(c, m, e, u)
  \/ TimePasses(c)

LaneNext ==
  \/ \E c \in Chains :
       MailboxSetup(c) \/ BridgeSetup(c) \/ LimitSetup(c) \/ PoolSetup(c)
         \/ TransferStep(c)
  \/ NotarizeAny

-----------------------------------------------------------------------------
LaneTypeOK ==
  /\ TypeOK
  /\ remoteToken \in [Pools -> [Chains -> Tokens \cup {Zero}]]
  /\ remotePools \in [Pools -> [Chains -> SUBSET Pools]]
  /\ path \in [Pools -> [Chains -> PathTypes]]
  /\ running \in [Pools -> SetupArgs \cup {Idle}]
  /\ ccip \subseteq CcipMessages
  /\ released \subseteq ccip

\* The scripts may find any configuration, but nothing has been sent yet.
NothingSent ==
  /\ LaneTypeOK
  /\ sent = {} /\ ccip = {}
  /\ spent = [c \in Chains |-> {}]

LaneSpec == NothingSent /\ [][LaneNext]_allVars

(***************************************************************************)
(* CCIP and the bridge agree on what has been paid: a CCIP message is      *)
(* executed exactly when its own payload is spent.  Nobody can pay it past *)
(* CCIP, and no other payload of the same pools or of people who use the   *)
(* bridge directly can be executed in its place (allowedCaller in          *)
(* lockOrBurn, HashMismatch in releaseOrMint).                             *)
(***************************************************************************)
ReleasedIffSpent ==
  \A x \in ccip : x \in released <=> x.payload \in spent[x.payload.dst]

\* The adapters that a script may give pool p for chain d, or has given it,
\* and the tokens that the pool may announce for that chain.
KnownAdapters(p, d) ==
  ({a.adapter : a \in {b \in PoolSetups[p] : b.selector = d}}
     \cup {path[p][d].adapter}) \ {Zero}

KnownTokens(p, d) ==
  ({a.token : a \in {b \in PoolSetups[p] : b.selector = d}}
     \cup {remoteToken[p][d]}) \ {Zero}

\* An adapter given to setPath is one in front of the token announced.  The
\* pool cannot tell: it knows neither the tokens nor the pools of that chain.
AdaptersFit ==
  \A p \in Pools, d \in Chains :
    \A t \in KnownTokens(p, d), a \in KnownAdapters(p, d) :
      \E q \in PoolsOf(d, t) : PoolBridgeToken[q] = a

(***************************************************************************)
(* The token that will be minted is the one CCIP announced to the receiver *)
(* or the adapter in front of it, although the bridge's table and the      *)
(* pool's are filled by different scripts, with arguments that need not    *)
(* fit together (RemoteTokenMismatch in lockOrBurn), as long as the        *)
(* adapters do (AdaptersFit).                                              *)
(***************************************************************************)
AnnouncedIsMinted ==
  \A x \in ccip :
    x.payload.body.token \in
      {x.token} \cup {PoolBridgeToken[q] : q \in PoolsOf(x.selector, x.token)}

\* What the task does not look at, on the side of pool p: the pauses, the
\* mailbox path, the pool's path and the bridge's pair.
SendingSideIsRight(p, q) ==
  LET c == Home[p]  d == Home[q] IN
  /\ ~paused[c] /\ PoolBridgeToken[p] \notin tokenPaused[c]
  /\ d \in outbound[c]
  /\ path[p][d].chain = d
  /\ destinationToken[c][d][PoolBridgeToken[p]] = PoolBridgeToken[q]
  /\ path[p][d].adapter = PoolBridgeToken[q] \/ PoolToken[q] = PoolBridgeToken[q]

\* The same where x, sent along the right path, arrives at pool q: the pauses,
\* the mailbox path, the token of the body, the room left in the limit, and
\* which of the listed pools is meant.
ReceivingSideIsRight(q, x) ==
  LET c == Home[x.pool]  d == Home[q]  t == x.payload.body.token IN
  /\ ~paused[d] /\ t \notin tokenPaused[d]
  /\ c \in inbound[d]
  /\ destinationToken[d][c][t] # Zero
  /\ R!CanUpdate(rateLimit[d][c][t], x.payload.body.amount)
  /\ x.pool \in remotePools[q][c] \/ ListedPools(c) = {x.pool}
  /\ x.selector = d /\ x.payload.dst = d /\ x.payload.destinationCaller = q

Counterparts(p, q) ==
  /\ p \in ListedPools(Home[p]) /\ q \in ListedPools(Home[q])
  /\ Home[p] # Home[q]
  /\ PoolToken[q] = ExpectedToken(p, Home[q])

(***************************************************************************)
(* The task tells the truth: where it reports nothing on either chain, and *)
(* what it leaves out is right, the lane carries.  Pool p accepts a        *)
(* transfer without a fee, and a notarized transfer that was accepted can  *)
(* be executed at pool q.  A pool sends no value to the bridge, so that    *)
(* the rules about fees matter as much as those about tokens and pools.    *)
(***************************************************************************)
CheckedLaneCarries ==
  \A p, q \in Pools :
    Counterparts(p, q) /\ Check(Home[p]) /\ Check(Home[q]) =>
      /\ \A u \in People :
           /\ SendingSideIsRight(p, q)
           /\ balance[Home[p]][PoolBridgeToken[p]][p] >= 1
           /\ globalNonce[Home[p]] <= MaxNonce
           => CanLockOrBurn(p, Home[q], u, 1)
      /\ \A x \in ccip \ released :
           /\ x.pool = p /\ x.token = PoolToken[q] /\ ReceivingSideIsRight(q, x)
           /\ <<x.payload, epoch[Home[q]]>> \in proofs
           => CanReleaseOrMint(q, x, x.payload, epoch[Home[q]])

=============================================================================
