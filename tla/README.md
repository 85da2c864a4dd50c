# Lombard EVM contracts in TLA+

A verification project for this repository: TLA+ modules translated from the
contracts (`src/contracts`) and from the scripts and tasks that deploy,
configure and check them (`src/scripts`, `src/tasks`), TLC runs on small
instances, and proofs that TLAPS checks for every value of the constants.
`PROJECT.json` maps each definition to the lines it stands for.

## The system

LBTC is a token backed by Bitcoin. A consortium of notaries signs what happened
on Bitcoin and on other chains, and the contracts act on what it signed.

| Component | State | Operations | What makes it correct |
|---|---|---|---|
| `consortium/Consortium` | epoch, validator set of each epoch | set the initial set, set the next one with signatures of the current one, check a proof | every set was put in office by the one before; sets are final; more signatures never hurt |
| `gmp/Mailbox` | nonce, inbound and outbound paths, delivered and handled payloads, fee and size configuration, pause | send, deliver and handle, administrate | payloads unique; nothing handled that was not sent and signed; retries keep what was done |
| `bridge/BridgeV2` | bridges of other chains, two token tables, spent payloads, rate limits, senders | deposit, handlePayload, administrate | every transfer is paid once, in its amount; token tables inverse; nobody waits for ever |
| `libs/RateLimits` | amount in flight, last update, limit, window | update, reconfigure | bounded throughput in every interval, reconfiguration without retroactive effect |
| `bascule/Bascule`, `V2`, `V3` | state of each deposit, threshold, guardians, trusted signer, pause | report, validate a withdrawal, change the threshold | one withdrawal per deposit; raising the threshold takes two steps; large deposits need a report, in V3 a signed one |
| `LBTC/AssetRouter`, `NativeLBTC`, `BridgeTokenAdapter` | routes, used payloads, fees, token supply | deposit, redeem, mint, with fee, in batches | supply backed by deposits; a payload mints once, whichever path it takes |
| `LBTC/StakedLBTC`, `StakedLBTCOracle` | ratio, previous ratio, switch time | publish a ratio, stake, redeem | the rate moves by at most the threshold and only at the switch time |
| `bridge/Bridge`, `bridge/adapters` | destinations, state of each deposit, hand-off to CCIP | deposit, receive, notarize, withdraw | a withdrawal needs all confirmations asked for, and happens once |
| `bridge/providers` (CCIP pools) | supported chains, paths, transfers of CCIP | lockOrBurn, releaseOrMint | CCIP and the bridge agree on what was paid and in which token |
| `bridge/oft` (LayerZero) | limits of both directions, locked tokens, peers | send, receive, empty, migrate | the net flow stays within the limits; nothing is lost; the lockbox can pay |
| `ibc/IBCVoucher` | supply, credit of the current epoch | wrap, spend, set the limit | spending per epoch bounded by its share of the supply |
| `fbtc/PartnerVault`, `pmm` | stake, pending withdrawals | mint, burn in two phases, swap | stake equals what is locked; a request is finalized once |
| `stakeAndBake` | depositor, fee, gas limit | batches of mint, permit and deposit | a failing entry leaves no trace |
| `PoR` | addresses, index, root keys | add, delete | index and data inverse, counts right |
| `scripts/setup`, `tasks/ccip` | what has been sent so far | mailbox, bridge, pool and endpoint setup, the check of a lane | a lane found complete carries |
| `scripts/deployments`, `tasks/ownership`, `tasks/role` | admins, pending admins, proxy owner, scheduled calls, salts | deploy, hand over, upgrade, report | the last admin is lost only where hand-overs cross; an address keeps its contract; a green report means the timelock |
| blacklist, signature and script utilities | | | thin wrappers |

How they interact. The minting contracts, the bridges and the mailbox call
`Consortium.checkProof`; the minting contracts call Bascule; BridgeV2 and
AssetRouter send through the mailbox and are called back by it in
`handlePayload`; the bridges mint and burn the tokens and consult RateLimits.
Between chains there are only payloads and signatures, carried by relayers
anyone can be.

What is hard here. Nothing orders the calls of relayers, notaries, owners and
users on several chains: a payload can arrive late, twice, or after its path,
token, limit or validator set has changed. The mailbox catches a failing
recipient, so a payload can be delivered and not handled. Arithmetic is partly
unchecked, rounded or checked at the wrong moment. Configuration of a lane or a
contract is a sequence of transactions of several owners on several chains that
may stop anywhere or be repeated with other arguments, and users do not wait
for it. `PROJECT.json` lists these
places under `hazards`, each with the properties that watch it, or with the
module of the plan that will.

## Modules

    TokenTransfers        what a bridge promises
         ^ refine: BridgeV2, OftLane
    BridgeV2  ---uses--->  Mailbox      Bucket <-- RateLimits <-- RateLimitWindow,
                                                                  OftLane, BridgeV2
         ^                    |        \
      LaneSetup (who signed?) |         AssetRouter ---uses---> Bascule
                          Consortium         v refines          Deployment
                                        TokenIssue

* **Mailbox** is one mailbox per chain with the notaries and relayers around
  it. A payload is a record of its fields and is its own hash. The path id, a
  hash of source mailbox and both chains, is the pair of chains. `sent` collects
  the `MessageSent` events; `proofs` the signatures that exist, each with the
  epoch of the set that made them. Actions carry the names of the functions;
  `DeliverAndHandle` is `deliverAndHandle` with all it calls, its last parameter
  the outcome of the recipient's handler. A call that reverts is an action that
  is not enabled. Wei is a number per mailbox; sizes are those of the payload.
* **BridgeV2** instantiates Mailbox and RateLimits. Its `Withdraw` is
  `handlePayload` succeeding inside `deliverAndHandle`; `FailToWithdraw` is
  `handlePayload` reverting, with everything it wrote undone. A caller may give
  the handler too little gas, so failing is always possible. Anybody may send
  through the mailbox himself (`SendDirectly`). A token is burned and minted by
  changing a balance; its own pause is `PauseToken`.
* **TokenTransfers** is the abstract specification: a transfer departs, is
  pending, and arrives once. BridgeV2 refines it with the unspent and the spent
  messages of the bridge as pending and complete, OftLane with the messages not
  received and received, and one account for the users of a chain.
* **Bucket** and **RateLimits** hold the library as operators: what a bucket
  keeps and how it changes, and when an operation reverts. Absolute time does
  not matter, so a bucket keeps its age and stops counting when its window is
  over.
  **RateLimitWindow** is one bucket with withdrawals, reconfiguration, time and
  an observer that measures an interval of its choice.
* **Consortium** has the weights, the unchecked sum (modulo the word size) and
  proofs position by position. The mailbox only sees whether a payload can be
  proved under the current epoch.
* **Bascule** has all three versions: the first reverts on a report of a known
  deposit and forgets small withdrawals, the third may ask for proofs.

* **TokenIssue** is what the router promises: a request is paid from the account
  of its sender, a release is issued once, to its recipient, less a fee it
  covers. AssetRouter refines it with its messages to the ledger as requests,
  the ledger's as releases and the used payloads as issued.
* **AssetRouter** is `AssetRouter.sol` over one Mailbox (its only path leads to
  the ledger) and Bascule. `Deposit`, `Redeem`, `RedeemForBtc` send a request and
  burn; `RedeemAs` is `_redeem`. The two forms of `redeem` and of `deposit`
  differ in defaults only. `LedgerSend` stands for the Lombard ledger, outside
  the repository: it may release anything, from the right module or another
  one. `Submit` is what minting comes to: payloads delivered, those in `done`
  handled, fees moved; `Relay`, `Mint`, `BatchMint`, `MintWithFee` and
  `BatchMintWithFee` call it with their own conditions. A batch is a set of
  payloads: an entry repeated in it fails, and no entry looks at another's
  result. Failing is always possible, for want of gas; `mint` then reverts, a
  batch goes on. The wrappers of the token contracts (`NativeLBTC.redeem`,
  `StakedLBTC.mint`, ...) pass their caller on and are the same actions. A fee
  approval is an element of `approved` until it expires; it may be used more
  than once, as its digest has no nonce. An id of a release is taken for the
  deposit id of Bascule. `Withdrawable` of Bascule is the guard of
  `validateWithdrawal`.

* **LaneSetup** extends BridgeV2 by the CCIP pools, which are users of the
  bridge, and by the scripts that bring a lane up: `mailbox-enable-path`,
  `mailbox-set-config`, the setup of bridge and tokens, and
  `setup-token-pool-v2` with its two transactions. `lockOrBurn` deposits to the
  counterpart with the pool as the only one who may relay; `releaseOrMint`
  relays. CCIP itself is external: it hands a message to a pool of its
  destination once. `Check` is `tasks/ccip/check.ts`, part by part.
* **OftLane** is one lane over LayerZero: the lockbox at home, the minting
  adapter on the other chain, and the second adapter at home to which
  `test/OFTAdapter.ts` migrates. The two buckets of an adapter are those of
  RateLimits, and `GiveBack` couples them. DVNs verify, anybody executes; peers
  and endpoint configuration change meanwhile, as in `scripts/setup/layerzero.ts`.
* **Deployment** follows one contract. A deployment script is a record of what
  it leads to (helper, owner, owner of the ProxyAdmin, further transactions);
  `Scripts` lists those that deploy something with an admin, with the arguments
  they may be given. Hand-over, roles, the two transactions of
  `transfer-access`, the timelock and upgrades act on the contract. Control may go
  to any account, operators and the signer included; `crossed` remembers whether a
  `transfer-access` went to its own signer or to an account with one under way.
  `CheckOwnership` is `tasks/ownership/check.ts`, which sees admins by past
  events only.

History variables (`watch`, `watched` and their companions, `emptied`, `withdrawals`, `grants`,
`raises`, `highest`, `signerless`, `basculeSkipped`, `crossed`) observe and are read by no guard, except that
`MaxGrants` bounds `grants`.

A definition introduced by "Slip:" is no part of a model: it is the next
definition with a plausible mistake. For each property of a passing run
`PROJECT.json` names a slip under which TLC finds that property violated.

## Runs

| Run | Question | Instance |
|---|---|---|
| `mailbox` | custody, uniqueness | 2 chains, messages A to B, 2 nonces, 2 validator sets, 2 calls of the admins at any time |
| `bridge_v2` | conservation, refinement, token tables | 2 chains, 2 tokens that can be paired across, amounts 1 and 2, limit 2 in 2 units of time, a stranger's messages, 2 calls of the admins |
| `bridge_v2_live` | is every transfer paid in the end | 2 transfers that each need the whole limit, 2 validator sets, an overflowing limit (`MaxUint` 3), 2 calls of the admins on the destination |
| `rate_limit_window` | throughput, reconfiguration, lock | limits 0, 2, 3, 5, windows 0, 2, 4, intervals up to 6 |
| `consortium` | chain of trust, more signatures never hurt | 3 keys, words of at most 4, 11 proposals for epochs 0 to 3: sound, overflowing, repeated key, unreachable, uneven |
| `bascule` | one withdrawal, two steps, vouching | V3, a deposit on either side of the threshold, 2 signers, batches of up to 2, 3 grants |
| `asset_router` | agreement of router, mailbox and drawbridge; refinement; fees | a native and a staked token, one user and the treasury, 2 messages in either direction, amounts 1 to 4, batches of 2, 1 call of an admin or of the user on his approvals |
| `lane_setup` | do CCIP and bridge agree; does a checked lane carry | a lane set up from nothing on one side, the other behind a token adapter and with a second pool; right and plausible wrong arguments in any order; 2 transfers, of a pool or of a user of the bridge, 1 token in all |
| `oft_lane` | refinement, net flow, cover, does every message arrive | 3 messages of 3 or 4 with shared decimals in steps of 2, limit 4 in 3 units of time, one that overflows (`MaxUint` 8), 1 call of the owner at any time, intervals up to 2 |
| `deployment` | admins, addresses, what a green report means | every script with every argument, control handed to any account, 2 operators of whom the address file knows one, a proposer and an executor, 1 upgrade, delay and log range of 1 and 0 blocks |
| `consortium_claim`, `bascule_v1_claim` | comments that the code refutes | see Findings |

Why these bounds. The mailbox relates a message only to itself, its nonce and
the sets of its destination: two messages show collisions and reordering, two
sets a stale proof, and an admin call is undone by a second. Two transfers
compete for one limit. The windows include one that divides the limit and one
that does not, zero, and a product that overflows. In `consortium` a word of 4
makes three weights overflow. In `asset_router` two releases make the smallest
batch that can fail in half, the amounts lie on either side of each fee, minimum
and threshold, and two of the ledger's messages are malformed for the router:
from the wrong module, or with the router as the only caller. Its validator set
stays the same; the mailbox runs have that question. In `lane_setup` the wrong arguments are
those with the adapter forgotten and with the pool or token of another lane, the
mistakes the two tables of pool and bridge can disagree by; a single token and a
limit of one make the sender's balance and the limit run out. In `oft_lane` an
amount of 3 leaves dust, two amounts exceed the limit together, the third
message shows a gap in the nonces, and the interval of 2 falls into a window
of 3. One call of the owner is enough to move a peer, to empty the lockbox, or
to configure one side while messages are under way. In `deployment` a block more or less than the delay and than the
range of logs is one block; there are 63 initial states, one per script and
argument. `MCNext` of its MC module bounds the mix: operators are handed control,
and hand-overs cross, before the timelock is in use; while it has a call, after
an upgrade or some time, control passes to the others, and the deployer, once out,
gets it back only if the second operator takes part. What the bound leaves out is
the product of two things the run has one by one; the proofs have it all. The other MC modules start from configured contracts,
the state after the deployment calls, to spend the admin calls on what happens
in flight; they restrict messages to one direction, since the two directions of
a pair of mailboxes share nothing but the admin. The proofs need none of these
bounds.

Counters are capped in guards: `MaxNonce`, `MaxEpoch`, `MaxGrants`,
`MaxMessages` and `MaxElapsed` of OftLane, `MaxImpl` and `MaxBlock` of
Deployment. A pair of mailboxes that ran out of nonces, a router or lane that
ran out of messages, a consortium that ran out of proposals and a contract with
its last implementation, stop: those runs do not check deadlock.
`MaxBatch` caps the batches of AssetRouter, and the MC modules count the calls
of admins (`MaxAdminOps`) and messages (`MaxMessages`).

**Fairness.** In RateLimitWindow, time passes (`WF(TimePasses)`). In BridgeV2, time
passes on every chain, and a payload that could be paid at all times from some
point on is eventually submitted by someone entitled to it, with enough gas
(`WF(RelayNonce)`): relaying is open to everyone unless the sender named a
caller, and the recipient gains by it. Nobody is assumed to sign, to deposit or
to administrate. Liveness is stated for messages whose route is open in the end
(`Open`): token listed, not paused, amount within the limit. In OftLane time
passes, DVNs verify what they were paid for (`WF` of verifying some message) and
somebody executes what can be executed (`WF` of receiving some message; an
executor is paid by the sender, and execution is open to all). Weak fairness of
"some message" is enough because there are finitely many and none is verified or
executed twice. A message arrives (`SentArrives`) if, from some time on, its
receiver's peer is its sender, its configuration and that of the messages before
it suffices, and its amount is within the limit.
The configuration of senders (`mailboxSender`), fees and discounts do not matter for delivery.

## Findings

1. `consortium_claim`: the initial set can be "from any epoch", but a set for
   epoch 0 is stored and never used: epoch 0 stands for "no set".
2. `bascule_v1_claim`: "a deposit can only be withdrawn once" fails in the first
   Bascule below the threshold; the later versions record such withdrawals.

What follows contradicts no document of the repository but is worth knowing; the
modules do as the code does.

* `RateLimits` calls its limit the maximum amount within a window. Nearly twice
  as much can pass in one, since the bucket drains while it fills;
  `LinearBound` is what holds, and `NetFlowBound` for the coupled buckets.
* `scripts/setup/bridge-v2.ts:31` calls `removeDestinationToken` with three
  arguments, so replacing a pair of tokens by the script fails; the first
  pair has to be right. The ABI knows two.
* `scripts/deployments/upgrade.ts:48` gives the timelock's delay where the
  predecessor is expected. Without it there is no predecessor: scheduled
  upgrades can be executed in any order, and each only once.
* `scripts/deployments/lbtc.ts:49` calls `reinitialize`, which is for the owner,
  as the deployer: with another admin the script stops there.
  `native-lbtc.ts:37` hands `self` on unresolved, so that its default fails.
* `tasks/ccip/check.ts:263` takes a limit used up at the moment for one that was
  never set, and `:408` accepts any pool of the other chain. It looks neither at
  the paths of mailbox and pool, nor at the bridge's own pair of tokens, nor at
  what is paused; those are premises of `CheckedLaneCarries`.
* `tasks/ownership/check.ts` sees neither a pending default admin nor a pending
  owner of a pool, and no admin whose event the node did not return: premises of
  `CheckedIsTimelocked`.
* `tasks/ownership/transfer-access.ts:6` takes any new owner, and its two
  transactions look at nobody else. Given its own signer, it leaves the contract
  without an admin for ever. So do two admins who hand over to each other at the
  same time (or more, in a circle): all grant, then all revoke themselves. TLC
  finds both if `AdminNeverLost` is stated without its exception; with it, the
  property says that there is no third way.
* A redemption to Bitcoin has a minimum (`RedemptionsAboveMinimum`), a deposit has
  none: `_deposit` (`AssetRouter.sol:396`) checks its route only, so that a route of
  type DEPOSIT to Bitcoin, if the admin opens one, takes any amount.
* A stand-in (`proxy-mock.ts`) uses up the initializer of its proxy: whatever
  takes its place has no owner.
* `test/OFTAdapter.ts:326` says "reset outbound limits to pause bridging" and sets
  an inbound limit with a window of zero. In such a bucket nothing is ever in
  flight: it opens the direction.

## Proofs

Each `*Proofs` module proves theorems of the specification of its component for
any constants that satisfy the named assumptions (`...Assumptions`), which say
little more than that numbers are naturals and the zero address is nobody's.
Chains, tokens and users are finite sets: only finite sets of accounts have a
total. Proofs with several steps in common stand in one module: that of BridgeV2
has the lane over it, that of OftLane the bucket it is built from. **Lemmas**
has what several of them need: a bucket's types and bounds (the rounded quotient
is bounded by multiplication), sums over finite sets, and `SetInduction`.

How sums are proved. An induction theorem over an operator is out of the
prover's reach, one over a set is not: `SetInduction` says that a set of subsets
that has the empty one and grows by single elements has them all. From it
follow the laws of `SumFunction` that are used: one value changes, a part is
split off, sums of equal functions are equal, sums of naturals are naturals, and
a sum of sums. A property about totals is then proved in two parts: what a step
does to each account, and that the differences cancel.

* **MailboxProofs**: types, `NonceIdentifies`, `ChainOfCustody`, and, stated
  here only, that delivery is permanent (`DeliveryIsPermanent`), that a paused
  mailbox is idle and that a zero default is a whitelist.
  Nonces need that messages carry nonces below the counter. Custody needs that
  signatures are only made of messages sent, by sets up to the current epoch of
  their destination; `delivered` alone is not inductive.
* **ConsortiumProofs**: types, consecutive epochs, final history. The two ways
  to install a set are one step `Installs`. `SignaturesOnlyHelp` holds because the
  checked sum at installation bounds the sum of every part: none wraps around.
  For `ChainOfTrust` a proof position by position is matched with the positions
  whose keys signed, each counted once, and signatures only become more.
* **BasculeProofs**: the properties of the run, and that the state of a deposit
  only advances. `Marked` ties the count of withdrawals
  to the stored state, `Vouching` carries the signature from the report to the
  withdrawal, `Granted` adds that the guardians are finitely many.
* **BridgeV2Proofs**, the bridges: every step of the bridges is a step or a stutter of the
  mailboxes (`NextIsMailboxNext`, hence `BridgesUseMailboxes`), so theorems about
  mailboxes are facts about bridges. With `SpentIffHandled`, and the fact that a
  pending message of the bridge came from a deposit of nonzero amount, it follows
  that the bridges implement `TokenTransfers` (`TransfersAreExactlyOnce`).
  `Conservation` adds up what that says of each transfer.
* **BridgeV2Proofs**, the lane: every step of scripts, pools and CCIP is a step
  of the bridges or leaves them alone (`LaneUsesBridges`). `LaneSpec` starts from
  any typed configuration in which nothing was sent, which includes a lane not
  set up at all and the half of one the run starts from. For `ReleasedIffSpent`
  the invariant says that a CCIP message and its payload determine each other,
  since nonces do not repeat, and that only a pool may relay it. The same invariant
  makes every step of the lane one of `TokenTransfers` (`LaneTransfersAreExactlyOnce`),
  whatever is in the accounts when it opens. `AnnouncedIsMinted`
  has a hypothesis, `AdaptersFit`: the adapters named to `setPath` are in front
  of the tokens announced with them. See below.
* **BridgeV2Proofs**, the check: `CheckTellsTheTruth` proves `CheckedLaneCarries`
  without a hypothesis. At the sending pool, what the check reports makes the
  fees zero and the message small enough (`SendingIsFree`), and
  `SendingSideIsRight` supplies the rest. At the receiving pool it needs to know
  what the message says: its sender, recipient, size and amount come from the
  pool that sent it (`PoolsSendTransfers`), and that it is not spent from
  `ReleasedIffSpent`. The property speaks of the guards `CanLockOrBurn` and
  `CanReleaseOrMint`. That these are all that can fail is `PoolStepsAreDecided`:
  each of the two steps is its guard and one next state.
* **AssetRouterProofs**: all seven properties of the run. A step is one of
  seven kinds (`StepCases`): configuration, of the router, the drawbridge or
  the mailbox; a request with its fee; a message of the ledger; a submission;
  nothing. All five ways to mint come down to a submission (`Mints`), with its
  part handled and a fee none of which exceeds amount or cap, and
  the rest is proved of that. `Origins` is needed for types already: a message to the router
  is one of the ledger's, so that what it mints is a release. The router implements
  `TokenIssue` (`ReleasesAreIssuedOnce`): a submission is one issue, however many
  of its batch fail, and a request is new because its nonce is. Stated here only:
  what all accounts hold and have asked for adds up (`Accounting`), and what was minted was sent by the ledger's staking module and signed by a
  set of this chain (`MintsWereSigned`), from the custody of the mailbox below,
  extended to batches; a release passes the drawbridge once (`DrawbridgePaysOnce`:
  `WithdrawnOnce` of **Bascule**, where a batch takes several of its steps at
  once); and a paused mailbox stops the router (`PausedMailboxStopsRouter`).
* **OftLaneProofs**, the bucket: `LinearBound` from
  an invariant with the present state of the bucket: what was observed,
  plus what could still be let through, stays under the line of slope limit
  per window; and `NoRetroactiveDecay`.
* **OftLaneProofs**, the lane: types and `NetFlowBound`. Its invariant is about the bucket
  observed: as long as more went the observed way than came back, the bucket was
  last written during the observation and what is in it covers the net flow, but
  for what has drained (`Covers`). A transfer the observed way (`CoversUpdate`),
  one the other way (`CoversGiveBack`), time (`CoversElapse`) and a checkpoint
  keep it. Where the net flow is negative it says nothing, and need not.
  The lane implements `TokenTransfers`, too (`OftTransfersAreExactlyOnce`): nonces
  tell messages apart, and migration, retries and configuration are stutters.
  `NothingLost`, stated here only, adds that up. `LockboxCovers` alone is not inductive: what the lockbox has sent
  and the other chain has not received yet will circulate there (`Owes`).
* **DeploymentProofs**: all four properties of the run. `ScriptsAre` collects what
  is true of every script in the list, for any accounts. `DInv` adds to the types
  that a deployed contract has its salt taken, that only kinds with a pending
  owner have one, and that some admin is `Settled`, with no hand-over of his own to
  end, unless hand-overs crossed: who is handed the role is settled by then,
  and only who is not revokes himself. Every step but
  the deployment only does to the contract what `Keeps` allows. A green report
  puts the contract `InTimelock`, where no other step can change it
  (`OnlyTimelockActs`).

What the attempts at these proofs taught:

* `AnnouncedIsMinted` is not a property of the code alone. The pool compares the
  bridge's token with the remote token or the adapter of its own path
  (`LombardTokenPoolV2.sol:137`), and knows nothing of what is behind the adapter on the other
  chain. With an adapter of another token in the arguments, TLC finds a transfer
  announced in one token and minted in the other. The arguments of the run
  satisfy `AdaptersFit`, and no step can break it.
* A request may name the coin of another chain where the admin opened a route to
  it. The type of request bodies (`Bodies`) knew only the tokens of this chain, which is all
  the run's routes ask for; no proof of `TypeOK` could be found until it had both.
* `CheckedLaneCarries` said nothing of pauses, nor of a path that leads to
  another chain than its selector's. No step of the run makes either, but
  `LaneSpec` may start in both; the proof stopped there, and the premises
  `SendingSideIsRight` and `ReceivingSideIsRight` now name them. It was stated
  with ENABLED, which cannot be proved about; the guards can.
* Most invariants of the runs are not inductive; what each one needs besides is
  said above and at its proof.

Only model-checked: liveness (`DeliveredIsPaid`, `SignedIsPaid`,
`LockIsTemporary`, `SentArrives`), since fairness is out of the prover's reach.
Everything else a passing run checks is proved.

## Not modelled

* `rescueERC20`, `setAllowance`, and what the modules of the contracts need no
  part of: their initialisation, roles and upgrades (Deployment has these).
* Encoding, hashing (taken as injective) and signature recovery.
* Reentrancy: `handlePayload` of BridgeV2 is guarded and calls only the token.
* A bridge of another chain is registered or removed, never replaced by another.
* The mailbox and the oracle of the router stay the same, and its ratio and
  estimates are views. The roles of minters, claimers and operators are given.
* The heights in validator set payloads, and chains that are not EVM chains.
* The allow list, router, RMN and rate limits of Chainlink's token pools, and
  LayerZero's composed messages, enforced options and delegates.
* `hardhat.config.ts` (networks), verification of sources, the scripts of the
  legacy bridge, of the ratio and of the validator set, printing and conversion:
  configuration and single calls without state of their own.
* Staked LBTC and its oracle, the legacy bridge and its adapters, the IBC
  voucher, the partner vault, stake and bake, PMM swaps, proof of reserve and the
  blacklist. Their hazards are listed with the module that would have them.

## Plan

What is left, in this order:

1. **DepositsV1** next to the asset router: the older protocol of NativeLBTC
   (`mintV1`, `batchMintV1`, with fee) and BridgeTokenAdapter; theorem: a deposit
   is minted at most once under each record, and once in all under Bascule.
2. **StakedOracle**: ratio, threshold and switch time under repeated
   publication; theorem: the rate in force only changes at a switch time.
3. **LegacyBridge** with the CLAdapter hand-off: confirmations in any order,
   stale hand-offs, adapter changes; theorem: one withdrawal per payload.
4. **IBCVoucher**, **PartnerVault**, **ProofOfReserve**, with index and sum
   invariants; **StakeAndBake** on the asset router.
