------------------------------ MODULE Deployment -----------------------------
(***************************************************************************)
(* Who controls a contract, from the script that deploys it                *)
(* (scripts/deployments) through the hand-over to a multisig or to the     *)
(* timelock (tasks/ownership, tasks/role) to its upgrades                  *)
(* (scripts/deployments/upgrade.ts), and the task that reports who does    *)
(* (tasks/ownership/check.ts).                                             *)
(*                                                                         *)
(* One contract is followed: the one deployed by the script chosen at the  *)
(* start, which may be run again with other arguments after it stopped.    *)
(* Scripts send one transaction after the other and may stop between any   *)
(* two.  A transaction that reverts ends the script and leaves no trace.   *)
(***************************************************************************)
EXTENDS Integers, Sequences

CONSTANTS
  Accounts,           \* all that may control something
  Operators,          \* accounts whose keys the scripts and tasks run with
  Deployer,           \* the operator that deploys, with DEPLOYER_ROLE
  Multisig, Timelock, \* Owner and TimeLock of the address file
  Adapter,            \* a CLAdapter, the first owner of its token pool
  Self,               \* what an admin argument is if it is left out
  None,
  Proposers, Executors, \* accounts with these roles of the timelock
  MinDelay,           \* of the timelock, in blocks
  LogRange,           \* blocks of logs a limited node returns
  MaxImpl, MaxBlock   \* bounds

Holders == Accounts \cup {Adapter}

ASSUME DeploymentAssumptions ==
  /\ Operators \subseteq Accounts
  /\ Deployer \in Operators
  /\ {Multisig, Timelock} \subseteq Accounts \ Operators
  /\ Multisig # Timelock
  /\ Adapter \notin Accounts
  /\ Self \notin Holders /\ None \notin Holders /\ Self # None
  /\ Proposers \subseteq Accounts /\ Executors \subseteq Accounts
  /\ MinDelay \in Nat /\ LogRange \in Nat
  /\ MaxImpl \in Nat \ {0} /\ MaxBlock \in Nat

VARIABLES
  script,             \* the deployment script that runs or ran last
  todo,               \* the transactions it has still to send
  salts,              \* CREATE3: names that have an address
  contract,           \* the contract, or None
  handing,            \* [operator]: whom transfer-access has granted, or None
  crossed,            \* has transfer-access met itself or another one?
  granted,            \* [holder]: block of the last RoleGranted event for it
  impls,              \* implementations deployed
  readyAt,            \* timelock: block from which a call may be executed
  block

lockVars == <<impls, readyAt, block>>
accessVars == <<handing, crossed>>
vars == <<script, todo, salts, contract, accessVars, granted, lockVars>>

\* How a contract keeps its admins: owner, owner with a pending one (which the
\* pools of Chainlink do not show), admins of AccessControl, the one admin of
\* AccessControlDefaultAdminRules, or not at all (ProxyMock).
Kinds == {"Ownable", "Ownable2Step", "TokenPool", "AccessControl",
          "DefaultAdminRules", "Mock"}
TwoStep == {"Ownable2Step", "TokenPool"}
HasOwner == {"Ownable", "DefaultAdminRules"} \cup TwoStep
HasRoles == {"AccessControl", "DefaultAdminRules"}

\* Calls the timelock may be asked to make: an upgrade, the acceptance of the
\* contract, and the hand-over of the contract or of its ProxyAdmin to the
\* multisig.
OtherCalls == {"accept", "transfer", "release"}
Calls == {<<"upgrade", n>> : n \in 2..MaxImpl} \cup {<<name, 0>> : name \in OtherCalls}

Never == -1
Done == -2

-----------------------------------------------------------------------------
\* The deployment scripts.  via: the helper; owner, proxyOwner: what ends up in
\* initialize or the constructor, and as owner of the ProxyAdmin (None without
\* a proxy); steps: the transactions after the deployment; target: whom the
\* last of them hands the contract to.

Resolve(arg) == IF arg = Self THEN Deployer ELSE arg

Script(name, via, kind, owner, proxyOwner, steps, target) ==
  [name |-> name, via |-> via, kind |-> kind, owner |-> owner,
   proxyOwner |-> proxyOwner, steps |-> steps, target |-> target]

Create3(name, kind, owner) ==
  Script(name, "create3", kind, owner, owner, <<>>, None)

Plain(name, kind, owner, steps, target) ==
  Script(name, "deploy", kind, owner, None, steps, target)

DeployConsortium(arg) == Create3("Consortium", "Ownable2Step", Resolve(arg))
DeployBridge(arg) == Create3("Bridge", "Ownable2Step", Resolve(arg))
DeployBridgeV2(arg) == Create3("BridgeV2", "Ownable2Step", Resolve(arg))
DeployOracle(arg) == Create3("StakedLBTCOracle", "Ownable2Step", Resolve(arg))
DeployMailbox(arg) == Create3("Mailbox", "DefaultAdminRules", Resolve(arg))
DeployAssetRouter(arg) == Create3("AssetRouter", "DefaultAdminRules", Resolve(arg))

\* StakedLBTC under the name LBTC.  Only its owner may reinitialize it, which
\* the script tries as the deployer.
DeployLbtc(arg) ==
  [Create3("LBTC", "Ownable2Step", Resolve(arg)) EXCEPT !.steps = <<"reinitialize">>]

\* initialize gets the argument as it came, so that a missing one cannot be
\* encoded.
DeployNativeLbtc(arg) ==
  [Create3("NativeLBTC", "DefaultAdminRules", arg) EXCEPT !.proxyOwner = Resolve(arg)]

\* Here the admin is a required argument.
DeployPmm(arg) == Create3("BTCBPMM", "AccessControl", arg)
DeployPartnerVault(arg) == Create3("FBTCPartnerVault", "AccessControl", arg)
DeployPoR(arg) == Create3("PoR", "AccessControl", arg)
DeployVoucher(arg) == Create3("IBCVoucher", "AccessControl", arg)
DeployStakeAndBake(arg) == Create3("StakeAndBake", "AccessControl", arg)

\* proxyDeployment: a proxy without a salt.
DeployBlacklist(arg, proxyOwner) ==
  Script("DepositNotarizationBlacklist", "proxy", "AccessControl", arg,
         proxyOwner, <<>>, None)

\* Slip: the argument becomes the proxy's admin as it came.
DeployAdapterUnresolved(arg) ==
  Script("BridgeTokenAdapter", "proxy", "DefaultAdminRules", Resolve(arg), arg,
         <<>>, None)

DeployBridgeTokenAdapter(arg) ==
  Script("BridgeTokenAdapter", "proxy", "DefaultAdminRules", Resolve(arg),
         Resolve(arg), <<>>, None)

\* Contracts without a proxy.
DeployBasculeV3(arg) ==
  Plain("BasculeV3", "DefaultAdminRules", Resolve(arg), <<>>, None)

DeployOftAdapter(arg) ==
  Plain("LBTCOFTAdapter", "Ownable", Resolve(arg), <<>>, None)

DeployCLAdapter(arg) ==
  Plain("CLAdapter", "Ownable", Deployer, <<"transfer">>, Resolve(arg))

\* The pool that the constructor of CLAdapter creates.
DeployTokenPool(arg) ==
  Plain("LombardTokenPool", "TokenPool", Adapter, <<"accept", "transfer">>,
        Resolve(arg))

DeployTokenPoolV2(arg) ==
  Plain("LombardTokenPoolV2", "TokenPool", Deployer,
        IF arg = Self THEN <<>> ELSE <<"transfer">>, Resolve(arg))

DeployProxyFactory(arg) == Plain("ProxyFactory", "AccessControl", arg, <<>>, None)

\* A stand-in that takes the address of the contract called name.
DeployProxyMock(name, arg) ==
  Script(name, "create3", "Mock", None, arg, <<>>, None)

Scripts ==
  (UNION {{DeployConsortium(arg), DeployBridge(arg), DeployBridgeV2(arg),
           DeployOracle(arg), DeployMailbox(arg), DeployAssetRouter(arg),
           DeployLbtc(arg), DeployNativeLbtc(arg), DeployBridgeTokenAdapter(arg),
           DeployBasculeV3(arg), DeployOftAdapter(arg), DeployCLAdapter(arg),
           DeployTokenPool(arg), DeployTokenPoolV2(arg)}
          : arg \in {Self, Multisig, Timelock}})
  \cup
  (UNION {{DeployPmm(arg), DeployPartnerVault(arg), DeployPoR(arg),
           DeployVoucher(arg), DeployStakeAndBake(arg), DeployProxyFactory(arg),
           DeployBlacklist(arg, Timelock)}
          : arg \in {Deployer, Multisig, Timelock}})

Init ==
  /\ script \in Scripts
  /\ todo = <<>>
  /\ salts = {}
  /\ contract = None
  /\ handing = [a \in Operators |-> None]
  /\ crossed = FALSE
  /\ granted = [h \in Holders |-> Never]
  /\ impls = 1
  /\ readyAt = [call \in Calls |-> Never]
  /\ block = 0

-----------------------------------------------------------------------------
\* Deploying.

\* Slip: an address can be deployed to again.
SaltAlwaysFree(s) == TRUE

\* CREATE3 deploys once for a salt; other contracts get a new address each
\* time, and only the first is followed.
AddressFree(s) == IF s.via = "create3" THEN s.name \notin salts ELSE contract = None

\* initialize runs in the transaction that creates the proxy.
NewContract(s) ==
  [name |-> s.name, kind |-> s.kind, proxyOwner |-> s.proxyOwner,
   admins |-> IF s.kind = "Mock" THEN {} ELSE {s.owner},
   pending |-> IF s.owner = Adapter THEN Deployer ELSE None,
   impl |-> 1, version |-> 1]

Event(to) == [granted EXCEPT ![to] = block]

RunScript(s) ==
  /\ todo = <<>>
  /\ s.name = script.name
  /\ s.owner # Self
  /\ AddressFree(s)
  /\ script' = s
  /\ todo' = s.steps
  /\ contract' = NewContract(s)
  /\ salts' = IF s.via = "create3" THEN salts \cup {s.name} ELSE salts
  /\ granted' = IF s.kind \in HasRoles THEN Event(s.owner) ELSE granted
  /\ UNCHANGED <<accessVars, lockVars>>

\* Changes of the contract alone.
Becomes(new) ==
  /\ contract' = new
  /\ UNCHANGED <<script, salts, accessVars, granted, lockVars>>

Is(kinds) == contract # None /\ contract.kind \in kinds

\* transferOwnership by a.
AfterTransfer(to) ==
  IF contract.kind = "Ownable" THEN [contract EXCEPT !.admins = {to}]
                               ELSE [contract EXCEPT !.pending = to]

AfterAccept == [contract EXCEPT !.admins = {contract.pending}, !.pending = None]

Next1(step) == todo # <<>> /\ Head(todo) = step /\ todo' = Tail(todo)

\* StakedLBTC.reinitialize is for the owner.
ScriptReinitializes ==
  /\ Next1("reinitialize")
  /\ Deployer \in contract.admins /\ contract.version = 1
  /\ Becomes([contract EXCEPT !.version = 2])

ScriptAccepts ==
  /\ Next1("accept")
  /\ contract.pending = Deployer
  /\ Becomes(AfterAccept)

\* Skipped if the deployer is meant to stay the owner.
ScriptTransfers ==
  /\ Next1("transfer")
  /\ contract.admins = {Deployer}
  /\ Becomes(IF script.target = Deployer THEN contract
                                         ELSE AfterTransfer(script.target))

ScriptStops == /\ todo # <<>>
               /\ todo' = <<>>
               /\ UNCHANGED <<script, salts, contract, accessVars, granted, lockVars>>

-----------------------------------------------------------------------------
\* Handing over.

\* tasks/ownership/transfer.ts
Transfer(a, to) ==
  /\ Is({"Ownable"} \cup TwoStep)
  /\ a \in contract.admins
  /\ Becomes(AfterTransfer(to))
  /\ UNCHANGED todo

\* The new owner accepts, from his own wallet.
Accept(a) ==
  /\ Is(TwoStep)
  /\ contract.pending = a
  /\ Becomes(AfterAccept)
  /\ UNCHANGED todo

\* The two steps of AccessControlDefaultAdminRules, which refuses to have its
\* admin role granted; no task makes these calls.
BeginAdminTransfer(a, to) ==
  /\ Is({"DefaultAdminRules"})
  /\ a \in contract.admins
  /\ Becomes([contract EXCEPT !.pending = to])
  /\ UNCHANGED todo

AcceptAdminTransfer(a) ==
  /\ Is({"DefaultAdminRules"})
  /\ contract.pending = a
  /\ contract' = AfterAccept
  /\ granted' = Event(a)
  /\ UNCHANGED <<script, todo, salts, accessVars, lockVars>>

\* grantRole(DEFAULT_ADMIN_ROLE): an event is emitted for a new holder only.
GrantAdmin(to) ==
  /\ contract' = [contract EXCEPT !.admins = @ \cup {to}]
  /\ granted' = IF to \in contract.admins THEN granted ELSE Event(to)

\* tasks/role/grant.ts with DEFAULT_ADMIN_ROLE.
GrantRole(a, to) ==
  /\ Is({"AccessControl"})
  /\ a \in contract.admins
  /\ GrantAdmin(to)
  /\ UNCHANGED <<script, todo, salts, accessVars, lockVars>>

\* With any other role: the event tells the accounts, and the check does not
\* look at the role in it.
GrantOtherRole(a, to) ==
  /\ Is(HasRoles)
  /\ a \in contract.admins
  /\ granted' = Event(to)
  /\ UNCHANGED <<script, todo, salts, contract, accessVars, lockVars>>

RevokeAdmin(a) == [contract EXCEPT !.admins = @ \ {a}]

\* To hand over to oneself, or to an account that is handing over itself: the
\* task compares the owner it is given neither with its signer nor with others.
\* To an operator that is not handing over it is harmless.
Crosses(a, to) == to = a \/ (to \in Operators /\ handing[to] # None)

BeginsHandover(a, to) ==
  /\ handing' = [handing EXCEPT ![a] = to]
  /\ crossed' = (crossed \/ Crosses(a, to))

\* Slip: the signer revokes himself first and grants in the second step.
TransferAccessRevokes(a, to) ==
  /\ Is({"AccessControl"})
  /\ handing[a] = None
  /\ a \in contract.admins
  /\ contract' = RevokeAdmin(a)
  /\ granted' = granted
  /\ BeginsHandover(a, to)
  /\ UNCHANGED <<script, todo, salts, lockVars>>

\* tasks/ownership/transfer-access.ts
TransferAccessGrants(a, to) ==
  /\ Is({"AccessControl"})
  /\ handing[a] = None
  /\ a \in contract.admins
  /\ GrantAdmin(to)
  /\ BeginsHandover(a, to)
  /\ UNCHANGED <<script, todo, salts, lockVars>>

TransferAccessEnds(a) ==
  /\ handing[a] # None
  /\ a \in contract.admins
  /\ contract' = RevokeAdmin(a)
  /\ handing' = [handing EXCEPT ![a] = None]
  /\ UNCHANGED <<script, todo, salts, crossed, granted, lockVars>>

TransferAccessStops(a) ==
  /\ handing[a] # None
  /\ handing' = [handing EXCEPT ![a] = None]
  /\ UNCHANGED <<script, todo, salts, contract, crossed, granted, lockVars>>

-----------------------------------------------------------------------------
\* Upgrading.  The new implementation has the storage of the former one; a
\* stand-in stays without an owner, since its initializer is used up.

HasProxy == contract # None /\ contract.proxyOwner # None

NewImpl == impls < MaxImpl /\ impls' = impls + 1

\* scripts/deployments/upgrade.ts without a timelock, or by hand with populate.
UpgradeProxy(a) ==
  /\ HasProxy /\ contract.proxyOwner = a
  /\ NewImpl
  /\ contract' = [contract EXCEPT !.impl = impls']
  /\ UNCHANGED <<script, todo, salts, accessVars, granted, readyAt, block>>

TransferProxyAdmin(a, to) ==
  /\ HasProxy /\ contract.proxyOwner = a
  /\ Becomes([contract EXCEPT !.proxyOwner = to])
  /\ UNCHANGED todo

\* TimelockController.schedule: the same call cannot be scheduled twice, as
\* salt and predecessor are always zero.
Schedule(a, call) ==
  /\ a \in Proposers
  /\ readyAt[call] = Never
  /\ readyAt' = [readyAt EXCEPT ![call] = block + MinDelay]
  /\ UNCHANGED <<script, todo, salts, contract, accessVars, granted, block>>

\* The script for a timelock.  Given timelockDelay it passes it on as the
\* predecessor, which is refused before anything is sent.
ScheduleUpgrade(a) ==
  /\ HasProxy
  /\ NewImpl
  /\ Schedule(a, <<"upgrade", impls'>>)

ScheduleOther(a, name) ==
  /\ contract # None
  /\ Schedule(a, <<name, 0>>)
  /\ UNCHANGED impls

\* What the timelock does when a call is executed.
ExecuteUpgrade(n) ==
  /\ HasProxy /\ contract.proxyOwner = Timelock
  /\ contract' = [contract EXCEPT !.impl = n]
  /\ UNCHANGED granted

ExecuteAccept ==
  /\ Is({"DefaultAdminRules"} \cup TwoStep)
  /\ contract.pending = Timelock
  /\ contract' = AfterAccept
  /\ granted' = IF Is(HasRoles) THEN Event(Timelock) ELSE granted

ExecuteTransfer ==
  /\ Is(HasOwner)
  /\ Timelock \in contract.admins
  /\ contract' = AfterTransfer(Multisig)
  /\ UNCHANGED granted

ExecuteRelease ==
  /\ HasProxy /\ contract.proxyOwner = Timelock
  /\ contract' = [contract EXCEPT !.proxyOwner = Multisig]
  /\ UNCHANGED granted

Execute(x, call) ==
  /\ x \in Executors
  /\ readyAt[call] \in 0..block
  /\ \/ call[1] = "upgrade" /\ ExecuteUpgrade(call[2])
     \/ call[1] = "accept" /\ ExecuteAccept
     \/ call[1] = "transfer" /\ ExecuteTransfer
     \/ call[1] = "release" /\ ExecuteRelease
  /\ readyAt' = [readyAt EXCEPT ![call] = Done]
  /\ UNCHANGED <<script, todo, salts, accessVars, impls, block>>

NextBlock == /\ block < MaxBlock
             /\ block' = block + 1
             /\ UNCHANGED <<script, todo, salts, contract, accessVars, granted,
                            impls, readyAt>>

-----------------------------------------------------------------------------
\* tasks/ownership/check.ts.  A rule is green when it prints nothing but lines
\* with a check mark.

\* AdminBucket
Class(a) ==
  CASE a = Timelock -> "timelock"
    [] a = Multisig -> "multisig"
    [] a = Deployer -> "deployer"
    [] OTHER -> "unknown"

Green(a) == Class(a) = "timelock"

CheckOwnable == Is(HasOwner) => \A a \in contract.admins : Green(a)

\* Slip: the rule is left out of the rule set.
NoPendingRule == TRUE

\* Only an interface with pendingOwner is asked: a pending default admin or
\* pending owner of a pool is not seen.
CheckOwnable2Step == Is({"Ownable2Step"}) => contract.pending = None

CheckProxyAdminOwnership == HasProxy => Green(contract.proxyOwner)

\* queryEventsSafe: all events, those of the last blocks if the node limits
\* the range, none on any other error.
Queries == {"all", "recent", "none"}

QueryEventsSafe(query) ==
  {h \in Holders :
     /\ granted[h] # Never
     /\ CASE query = "all" -> TRUE
          [] query = "recent" -> granted[h] >= block - LogRange
          [] query = "none" -> FALSE}

CheckAccessControlAdmin(query) ==
  Is(HasRoles) =>
    \A h \in QueryEventsSafe(query) \cap contract.admins : Green(h)

\* A stand-in has not the functions its name promises: the task throws.
CheckOwnership(query) ==
  /\ contract # None /\ contract.kind # "Mock"
  /\ CheckOwnable
  /\ CheckOwnable2Step
  /\ CheckProxyAdminOwnership
  /\ CheckAccessControlAdmin(query)

-----------------------------------------------------------------------------
\* A stand-in gets the same address only where that comes from the factory.
Reruns ==
  {s \in Scripts : s.name = script.name} \cup
  {s \in {DeployProxyMock(script.name, arg) : arg \in {Multisig, Timelock}} :
     script.via = s.via}

ScriptStep ==
  \/ \E s \in Reruns : RunScript(s)
  \/ ScriptReinitializes \/ ScriptAccepts \/ ScriptTransfers \/ ScriptStops

\* The timelock makes no call but those it executes.
OwnerStep ==
  \/ \E a \in Accounts \ {Timelock} :
       \/ Accept(a) \/ AcceptAdminTransfer(a)
       \/ \E to \in Accounts :
            \/ Transfer(a, to) \/ BeginAdminTransfer(a, to) \/ GrantRole(a, to)
            \/ GrantOtherRole(a, to) \/ TransferProxyAdmin(a, to)
  \/ \E a \in Operators :
       \/ \E to \in Accounts : TransferAccessGrants(a, to)
       \/ TransferAccessEnds(a) \/ TransferAccessStops(a)

UpgradeStep ==
  \/ \E a \in Accounts \ {Timelock} :
       \/ UpgradeProxy(a) \/ ScheduleUpgrade(a)
       \/ \E name \in OtherCalls : ScheduleOther(a, name)
       \/ \E call \in Calls : Execute(a, call)
  \/ NextBlock

Next == ScriptStep \/ OwnerStep \/ UpgradeStep

Spec == Init /\ [][Next]_vars

-----------------------------------------------------------------------------
Contracts ==
  [name : {s.name : s \in Scripts}, kind : Kinds, admins : SUBSET Holders,
   pending : Accounts \cup {None}, proxyOwner : Accounts \cup {None},
   impl : 1..MaxImpl, version : 1..2]

ASSUME NoContractAssumption == None \notin Contracts

DeployTypeOK ==
  /\ script \in Scripts \/ script.kind = "Mock"
  /\ contract \in Contracts \cup {None}
  /\ handing \in [Operators -> Accounts \cup {None}]
  /\ crossed \in BOOLEAN
  /\ granted \in [Holders -> -1..MaxBlock]
  /\ impls \in 1..MaxImpl
  /\ readyAt \in [Calls -> -2..(MaxBlock + MinDelay)]
  /\ block \in 0..MaxBlock

(***************************************************************************)
(* A contract that was deployed with an admin loses the last one only      *)
(* after transfer-access was given its own signer as the new owner, or an  *)
(* account whose own transfer-access was under way, so that both revoke    *)
(* themselves after both have granted.  Nothing else does it:              *)
(* wherever scripts and the two transactions of a hand-over stop, whoever  *)
(* of all accounts it goes to, one after the other or at the same time,    *)
(* and whoever else grants, transfers and accepts meanwhile.               *)
(***************************************************************************)
AdminNeverLost ==
  contract # None /\ contract.kind # "Mock" /\ contract.admins = {} => crossed

(***************************************************************************)
(* The address of a contract stays what it became first: a script that is  *)
(* run again, with other arguments or for a stand-in, neither replaces the *)
(* contract nor initializes it anew (salts of ProxyFactory).               *)
(***************************************************************************)
AddressKeepsItsContract ==
  [][contract # None =>
       /\ contract' # None
       /\ contract'.kind = contract.kind
       /\ contract'.version >= contract.version]_vars

(***************************************************************************)
(* Once the check is green all over, nobody but the timelock can change    *)
(* the contract, whatever transactions are still under way: each change is *)
(* a call that was scheduled and has waited.  It takes that the node       *)
(* returned the events of all admins, and that no new default admin and no *)
(* new owner of a pool is pending, which the task does not look at.        *)
(***************************************************************************)
CheckedIsTimelocked ==
  [][\A query \in Queries :
       /\ CheckOwnership(query)
       /\ Is(HasRoles) => contract.admins \subseteq QueryEventsSafe(query)
       /\ Is({"DefaultAdminRules", "TokenPool"}) => contract.pending = None
       /\ contract' # contract
       => \E call \in Calls :
            readyAt[call] \in 0..block /\ readyAt'[call] = Done]_vars

=============================================================================
