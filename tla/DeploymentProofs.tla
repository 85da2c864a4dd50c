-------------------------- MODULE DeploymentProofs --------------------------
(***************************************************************************)
(* Proofs about Deployment, for any accounts, roles, delay and range of    *)
(* logs: what is deployed at an address stays there, only hand-overs that  *)
(* cross leave it without an admin, and a green check means that the       *)
(* timelock alone is in control.                                           *)
(***************************************************************************)
EXTENDS Deployment, TLAPS

\* Scripts of the same name deploy the same way.
ViaOf(name) ==
  CASE name \in {"BridgeTokenAdapter", "DepositNotarizationBlacklist"} -> "proxy"
    [] name \in {"BasculeV3", "LBTCOFTAdapter", "CLAdapter", "LombardTokenPool",
                 "LombardTokenPoolV2", "ProxyFactory"} -> "deploy"
    [] OTHER -> "create3"

StepLists == {<<>>, <<"reinitialize">>, <<"transfer">>, <<"accept", "transfer">>}

\* What the proofs need to know of a script.
IsScript(s) ==
  /\ s.via = ViaOf(s.name)
  /\ s.kind \in Kinds \ {"Mock"}
  /\ s.owner \in Holders \cup {Self}
  /\ s.owner = Adapter => s.kind = "TokenPool"
  /\ s.proxyOwner \in Accounts \cup {None}
  /\ s.steps \in StepLists
  /\ s.steps \notin {<<>>, <<"reinitialize">>} =>
       s.kind \in {"Ownable", "TokenPool"} /\ s.target \in Accounts

\* The two groups of scripts.
WithOptionalAdmin(arg) ==
  {DeployConsortium(arg), DeployBridge(arg), DeployBridgeV2(arg),
   DeployOracle(arg), DeployMailbox(arg), DeployAssetRouter(arg),
   DeployLbtc(arg), DeployNativeLbtc(arg), DeployBridgeTokenAdapter(arg),
   DeployBasculeV3(arg), DeployOftAdapter(arg), DeployCLAdapter(arg),
   DeployTokenPool(arg), DeployTokenPoolV2(arg)}

WithAdmin(arg) ==
  {DeployPmm(arg), DeployPartnerVault(arg), DeployPoR(arg),
   DeployVoucher(arg), DeployStakeAndBake(arg), DeployProxyFactory(arg),
   DeployBlacklist(arg, Timelock)}

LEMMA AccountFacts ==
  /\ Deployer \in Accounts /\ Multisig \in Accounts /\ Timelock \in Accounts
  /\ Deployer # Timelock /\ Multisig # Timelock /\ Deployer # Multisig
  /\ Timelock \notin Operators
  /\ Adapter \notin Accounts /\ Accounts \subseteq Holders /\ Adapter \in Holders
  /\ None \notin Holders /\ Self \notin Holders /\ Self # None
  BY DeploymentAssumptions DEF Holders

LEMMA ResolveType ==
  ASSUME NEW arg \in {Self, Multisig, Timelock}
  PROVE  Resolve(arg) \in Accounts
  BY AccountFacts DEF Resolve

LEMMA FirstScripts ==
  ASSUME NEW arg \in {Self, Multisig, Timelock},
         NEW s \in WithOptionalAdmin(arg)
  PROVE  IsScript(s)
<1> DEFINE owner == Resolve(arg)
<1>1. owner \in Accounts /\ arg \in Accounts \cup {Self}
  BY AccountFacts, ResolveType
<1> HIDE DEF owner
<1> USE AccountFacts, <1>1 DEF IsScript, StepLists, Kinds, ViaOf, Script
<1>2. CASE s = DeployConsortium(arg)
  BY <1>2 DEF DeployConsortium, Create3, owner
<1>3. CASE s = DeployBridge(arg)
  BY <1>3 DEF DeployBridge, Create3, owner
<1>4. CASE s = DeployBridgeV2(arg)
  BY <1>4 DEF DeployBridgeV2, Create3, owner
<1>5. CASE s = DeployOracle(arg)
  BY <1>5 DEF DeployOracle, Create3, owner
<1>6. CASE s = DeployMailbox(arg)
  BY <1>6 DEF DeployMailbox, Create3, owner
<1>7. CASE s = DeployAssetRouter(arg)
  BY <1>7 DEF DeployAssetRouter, Create3, owner
<1>8. CASE s = DeployLbtc(arg)
  BY <1>8 DEF DeployLbtc, Create3, owner
<1>9. CASE s = DeployNativeLbtc(arg)
  BY <1>9 DEF DeployNativeLbtc, Create3, owner
<1>10. CASE s = DeployBridgeTokenAdapter(arg)
  BY <1>10 DEF DeployBridgeTokenAdapter, owner
<1>11. CASE s = DeployBasculeV3(arg)
  BY <1>11 DEF DeployBasculeV3, Plain, owner
<1>12. CASE s = DeployOftAdapter(arg)
  BY <1>12 DEF DeployOftAdapter, Plain, owner
<1>13. CASE s = DeployCLAdapter(arg)
  BY <1>13 DEF DeployCLAdapter, Plain, owner
<1>14. CASE s = DeployTokenPool(arg)
  BY <1>14 DEF DeployTokenPool, Plain, owner
<1>15. CASE s = DeployTokenPoolV2(arg)
  <2>1. CASE arg = Self
    BY <1>15, <2>1 DEF DeployTokenPoolV2, Plain, owner
  <2>2. CASE arg # Self
    BY <1>15, <2>2 DEF DeployTokenPoolV2, Plain, owner
  <2> QED
    BY <2>1, <2>2
<1> QED
  BY <1>2, <1>3, <1>4, <1>5, <1>6, <1>7, <1>8, <1>9, <1>10, <1>11, <1>12, <1>13,
     <1>14, <1>15 DEF WithOptionalAdmin

LEMMA SecondScripts ==
  ASSUME NEW arg \in {Deployer, Multisig, Timelock},
         NEW s \in WithAdmin(arg)
  PROVE  IsScript(s)
<1>1. arg \in Accounts
  BY AccountFacts
<1> USE AccountFacts, <1>1 DEF IsScript, StepLists, Kinds, ViaOf, Script
<1>2. CASE s = DeployPmm(arg)
  BY <1>2 DEF DeployPmm, Create3
<1>3. CASE s = DeployPartnerVault(arg)
  BY <1>3 DEF DeployPartnerVault, Create3
<1>4. CASE s = DeployPoR(arg)
  BY <1>4 DEF DeployPoR, Create3
<1>5. CASE s = DeployVoucher(arg)
  BY <1>5 DEF DeployVoucher, Create3
<1>6. CASE s = DeployStakeAndBake(arg)
  BY <1>6 DEF DeployStakeAndBake, Create3
<1>7. CASE s = DeployProxyFactory(arg)
  BY <1>7 DEF DeployProxyFactory, Plain
<1>8. CASE s = DeployBlacklist(arg, Timelock)
  BY <1>8 DEF DeployBlacklist
<1> QED
  BY <1>2, <1>3, <1>4, <1>5, <1>6, <1>7, <1>8 DEF WithAdmin

LEMMA ScriptsAre == \A s \in Scripts : IsScript(s)
<1> DEFINE optional == {WithOptionalAdmin(arg) : arg \in {Self, Multisig, Timelock}}
           required == {WithAdmin(arg) : arg \in {Deployer, Multisig, Timelock}}
<1>1. Scripts = (UNION optional) \cup (UNION required)
  BY DEF Scripts, WithOptionalAdmin, WithAdmin
<1>2. ASSUME NEW group \in optional, NEW s \in group PROVE IsScript(s)
  <2>1. PICK arg \in {Self, Multisig, Timelock} : group = WithOptionalAdmin(arg)
    OBVIOUS
  <2> QED
    BY <2>1, FirstScripts
<1>3. ASSUME NEW group \in required, NEW s \in group PROVE IsScript(s)
  <2>1. PICK arg \in {Deployer, Multisig, Timelock} : group = WithAdmin(arg)
    OBVIOUS
  <2> QED
    BY <2>1, SecondScripts
<1> HIDE DEF optional, required
<1>4. ASSUME NEW s \in (UNION optional) \cup (UNION required) PROVE IsScript(s)
  BY <1>2, <1>3
<1> QED
  BY <1>1, <1>4

-----------------------------------------------------------------------------
Names == {s.name : s \in Scripts}

\* The script that runs or ran last, and what it has still to send.
ScriptInv ==
  /\ script \in Scripts \/ script.kind = "Mock"
  /\ script.name \in Names
  /\ script.via = ViaOf(script.name)
  /\ todo \in StepLists
  /\ todo # <<>> => contract # None
  /\ todo \notin {<<>>, <<"reinitialize">>} =>
       script.kind \in {"Ownable", "TokenPool"} /\ script.target \in Accounts

ContractInv ==
  contract # None =>
    /\ contract.kind = script.kind
    /\ script.via = "create3" => script.name \in salts
    /\ contract.kind \in {"Ownable", "AccessControl", "Mock"} => contract.pending = None
    /\ contract.kind \notin {"AccessControl", "Mock"} => contract.admins # {}

\* An admin who will not revoke himself.
Settled(a) == a \in Operators => handing[a] = None

\* Some admin is settled, as long as nobody handed over to one who is not.
AccessInv ==
  /\ \A a \in Operators : handing[a] # None =>
       contract # None /\ contract.kind = "AccessControl"
  /\ contract # None /\ contract.kind = "AccessControl" =>
       crossed \/ \E h \in contract.admins : Settled(h)

DInv == DeployTypeOK /\ ScriptInv /\ ContractInv /\ AccessInv

LEMMA InitDInv == Init => DInv
<1> SUFFICES ASSUME Init PROVE DInv
  OBVIOUS
<1>1. IsScript(script)
  BY ScriptsAre DEF Init
<1>2. /\ handing \in [Operators -> Accounts \cup {None}]
      /\ crossed \in BOOLEAN
      /\ \A a \in Operators : handing[a] = None
  BY DEF Init
<1>3. granted \in [Holders -> -1..MaxBlock]
  BY DeploymentAssumptions DEF Init, Never
<1>4. readyAt \in [Calls -> -2..(MaxBlock + MinDelay)]
  BY DeploymentAssumptions DEF Init, Never
<1>5. impls \in 1..MaxImpl /\ block \in 0..MaxBlock
  BY DeploymentAssumptions DEF Init
<1>6. contract = None /\ todo = <<>> /\ script \in Scripts
  BY DEF Init
<1>7. DeployTypeOK
  BY <1>2, <1>3, <1>4, <1>5, <1>6 DEF DeployTypeOK
<1>8. ScriptInv
  BY <1>1, <1>6 DEF ScriptInv, IsScript, StepLists, Names
<1> QED
  BY <1>2, <1>6, <1>7, <1>8 DEF DInv, ContractInv, AccessInv

-----------------------------------------------------------------------------
\* What may become of a contract in one step, and in one that revokes nothing.
Keeps(new) ==
  /\ contract # None
  /\ new \in Contracts
  /\ new.kind = contract.kind
  /\ new.version >= contract.version
  /\ new.kind \in {"Ownable", "AccessControl", "Mock"} => new.pending = None
  /\ new.kind \notin {"AccessControl", "Mock"} => new.admins # {}

Adds(new) ==
  /\ Keeps(new)
  /\ contract.kind = "AccessControl" => contract.admins \subseteq new.admins

LEMMA ContractType ==
  ASSUME DInv, contract # None
  PROVE  /\ contract \in Contracts
         /\ contract.kind \notin {"AccessControl", "Mock"} => contract.admins # {}
         /\ contract.kind \in {"Ownable", "AccessControl", "Mock"} =>
              contract.pending = None
  BY DEF DInv, DeployTypeOK, ContractInv

\* transferOwnership and acceptOwnership, for any new owner.
LEMMA TransferAdds ==
  ASSUME DInv, NEW to \in Accounts, Is({"Ownable", "DefaultAdminRules"} \cup TwoStep)
  PROVE  Adds(AfterTransfer(to))
<1>1. /\ contract # None /\ contract \in Contracts
      /\ contract.kind \in {"Ownable", "DefaultAdminRules", "Ownable2Step", "TokenPool"}
  BY ContractType DEF Is, TwoStep
<1>2. to \in Holders
  BY AccountFacts
<1>3. CASE contract.kind = "Ownable"
  <2>1. AfterTransfer(to) = [contract EXCEPT !.admins = {to}]
    BY <1>3 DEF AfterTransfer
  <2> QED
    BY <1>1, <1>2, <1>3, <2>1, ContractType DEF Adds, Keeps, Contracts
<1>4. CASE contract.kind # "Ownable"
  <2>1. AfterTransfer(to) = [contract EXCEPT !.pending = to]
    BY <1>4 DEF AfterTransfer
  <2> QED
    BY <1>1, <1>4, <2>1, ContractType DEF Adds, Keeps, Contracts
<1> QED
  BY <1>3, <1>4

LEMMA AcceptAdds ==
  ASSUME DInv, Is({"DefaultAdminRules"} \cup TwoStep), contract.pending \in Accounts
  PROVE  Adds(AfterAccept)
<1>1. /\ contract # None /\ contract \in Contracts
      /\ contract.kind \in {"DefaultAdminRules", "Ownable2Step", "TokenPool"}
  BY ContractType DEF Is, TwoStep
<1>2. contract.pending \in Holders
  BY AccountFacts
<1>3. Accounts \cup {None} # {} /\ None \in Accounts \cup {None}
  OBVIOUS
<1>4. AfterAccept \in Contracts
  BY <1>1, <1>2 DEF AfterAccept, Contracts
<1> QED
  BY <1>1, <1>4 DEF AfterAccept, Adds, Keeps, Contracts

LEMMA GrantAdds ==
  ASSUME DInv, NEW to \in Accounts, contract # None
  PROVE  Adds([contract EXCEPT !.admins = @ \cup {to}])
<1>1. contract \in Contracts /\ to \in Holders
  BY AccountFacts, ContractType
<1> QED
  BY <1>1, ContractType DEF Adds, Keeps, Contracts

LEMMA RevokeKeeps ==
  ASSUME DInv, NEW a \in Operators, handing[a] # None
  PROVE  Keeps(RevokeAdmin(a))
<1>1. /\ contract # None /\ contract \in Contracts
      /\ contract.kind = "AccessControl"
  BY ContractType DEF DInv, AccessInv
<1> QED
  BY <1>1, ContractType DEF RevokeAdmin, Keeps, Contracts

LEMMA SameAdds ==
  ASSUME DInv, contract # None
  PROVE  Adds(contract)
<1>1. contract \in Contracts
  BY ContractType
<1> QED
  BY <1>1, ContractType DEF Adds, Keeps, Contracts

LEMMA UpgradeAdds ==
  ASSUME DInv, contract # None, NEW n \in 1..MaxImpl
  PROVE  Adds([contract EXCEPT !.impl = n])
<1>1. contract \in Contracts
  BY ContractType
<1> QED
  BY <1>1, ContractType DEF Adds, Keeps, Contracts

LEMMA ReleaseAdds ==
  ASSUME DInv, contract # None, NEW a \in Accounts
  PROVE  Adds([contract EXCEPT !.proxyOwner = a])
<1>1. contract \in Contracts
  BY ContractType
<1> QED
  BY <1>1, ContractType DEF Adds, Keeps, Contracts

-----------------------------------------------------------------------------
HandingType ==
  /\ handing \in [Operators -> Accounts \cup {None}]
  /\ crossed \in BOOLEAN

LockType ==
  /\ granted \in [Holders -> -1..MaxBlock]
  /\ impls \in 1..MaxImpl
  /\ readyAt \in [Calls -> -2..(MaxBlock + MinDelay)]
  /\ block \in 0..MaxBlock

\* What every step does but the one that deploys.
Frame ==
  /\ contract' = contract \/ Keeps(contract')
  /\ UNCHANGED <<script, salts>>
  /\ todo' = todo \/ (todo # <<>> /\ todo' \in {Tail(todo), <<>>})
  /\ AccessInv'
  /\ HandingType'
  /\ LockType'

LEMMA TypesOf ==
  ASSUME DInv
  PROVE  HandingType /\ LockType
  BY DEF DInv, DeployTypeOK, HandingType, LockType

\* Steps that are not of transfer-access leave some admin settled.
LEMMA AddsAccess ==
  ASSUME DInv, contract' = contract \/ Adds(contract'), UNCHANGED accessVars
  PROVE  HandingType' /\ AccessInv'
<1>1. handing' = handing /\ crossed' = crossed
  BY DEF accessVars
<1>2. HandingType'
  BY <1>1, TypesOf DEF HandingType
<1>3. AccessInv
  BY DEF DInv
<1>4. CASE contract' = contract
  BY <1>1, <1>2, <1>3, <1>4 DEF AccessInv, Settled
<1>5. CASE Adds(contract')
  <2>1. contract # None /\ contract' # None /\ contract'.kind = contract.kind
    BY <1>5, NoContractAssumption DEF Adds, Keeps
  <2>2. contract.kind = "AccessControl" => contract.admins \subseteq contract'.admins
    BY <1>5 DEF Adds
  <2> QED
    BY <1>1, <1>2, <1>3, <2>1, <2>2 DEF AccessInv, Settled
<1> QED
  BY <1>4, <1>5

LEMMA EventType ==
  ASSUME DInv, NEW to \in Holders
  PROVE  Event(to) \in [Holders -> -1..MaxBlock]
<1>1. granted \in [Holders -> -1..MaxBlock] /\ block \in 0..MaxBlock
  BY DEF DInv, DeployTypeOK
<1>2. block \in -1..MaxBlock
  BY <1>1, DeploymentAssumptions
<1> QED
  BY <1>1, <1>2 DEF Event

LEMMA StepsGoOn ==
  ASSUME NEW steps \in StepLists,
         NEW rest, rest = steps \/ (steps # <<>> /\ rest \in {Tail(steps), <<>>})
  PROVE  /\ rest \in StepLists
         /\ rest \notin {<<>>, <<"reinitialize">>} =>
              steps \notin {<<>>, <<"reinitialize">>}
<1>1. CASE rest = steps \/ rest = <<>>
  BY <1>1 DEF StepLists
<1>2. CASE steps = <<"reinitialize">> /\ rest = Tail(steps)
  <2>1. rest = <<>>
    BY <1>2
  <2> QED
    BY <2>1 DEF StepLists
<1>3. CASE steps = <<"transfer">> /\ rest = Tail(steps)
  <2>1. rest = <<>>
    BY <1>3
  <2> QED
    BY <2>1 DEF StepLists
<1>4. CASE steps = <<"accept", "transfer">> /\ rest = Tail(steps)
  <2>1. rest = <<"transfer">>
    BY <1>4
  <2> QED
    BY <1>4, <2>1 DEF StepLists
<1> QED
  BY <1>1, <1>2, <1>3, <1>4 DEF StepLists

LEMMA FrameDInv ==
  ASSUME DInv, Frame
  PROVE  DInv'
<1>1. AccessInv'
  BY DEF Frame
<1>2. CASE contract = None
  <2>1. contract' = None
    BY <1>2 DEF Frame, Keeps
  <2>2. todo = <<>> /\ todo' = <<>>
    BY <1>2 DEF DInv, ScriptInv, Frame
  <2>3. DeployTypeOK'
    BY <2>1 DEF DInv, DeployTypeOK, Frame, HandingType, LockType
  <2>4. ScriptInv'
    BY <2>2 DEF DInv, ScriptInv, Frame, StepLists
  <2> QED
    BY <1>1, <2>1, <2>3, <2>4 DEF DInv, ContractInv
<1>3. CASE contract # None
  <2>1. Keeps(contract')
    BY <1>3, SameAdds DEF Frame, Adds
  <2>2. contract' # None
    BY <2>1, NoContractAssumption DEF Keeps
  <2>3. script' = script /\ salts' = salts
    BY DEF Frame
  <2>4. DeployTypeOK'
    BY <2>1, <2>3 DEF DInv, DeployTypeOK, Frame, Keeps, HandingType, LockType
  <2>5. ScriptInv'
    <3>1. todo' \in StepLists
          /\ (todo' \notin {<<>>, <<"reinitialize">>} =>
                todo \notin {<<>>, <<"reinitialize">>})
      BY StepsGoOn DEF DInv, ScriptInv, Frame
    <3> QED
      BY <2>2, <2>3, <3>1 DEF DInv, ScriptInv
  <2>6. ContractInv'
    BY <1>3, <2>1, <2>2, <2>3 DEF DInv, ContractInv, Keeps
  <2> QED
    BY <1>1, <2>4, <2>5, <2>6 DEF DInv
<1> QED
  BY <1>2, <1>3

\* The only contract that is deployed is the first at its address.
LEMMA RunIsFirst ==
  ASSUME DInv, NEW s \in Reruns, RunScript(s)
  PROVE  contract = None
<1> SUFFICES ASSUME contract # None PROVE FALSE
  OBVIOUS
<1>1. s.via = "create3" /\ s.name \notin salts /\ s.name = script.name
  BY DEF RunScript, AddressFree
<1>2. script.via = s.via
  <2>1. CASE s \in Scripts
    BY <1>1, <2>1, ScriptsAre DEF IsScript, DInv, ScriptInv
  <2>2. CASE s \notin Scripts
    BY <2>2 DEF Reruns
  <2> QED
    BY <2>1, <2>2
<1> QED
  BY <1>1, <1>2 DEF DInv, ContractInv

LEMMA RunDInv ==
  ASSUME DInv, NEW s \in Reruns, RunScript(s)
  PROVE  DInv'
<1>1. contract = None
  BY RunIsFirst
<1>2. /\ \A a \in Operators : handing'[a] = None
      /\ UNCHANGED <<handing, crossed>>
  BY <1>1 DEF DInv, AccessInv, RunScript, accessVars
<1>3. /\ script' = s /\ todo' = s.steps /\ contract' = NewContract(s)
      /\ s.via = "create3" => s.name \in salts'
      /\ s.name = script.name /\ s.owner # Self
  BY DEF RunScript
<1>4. CASE s \in Scripts
  <2>1. IsScript(s) /\ s.name \in Names
    BY <1>4, ScriptsAre DEF Names
  <2>2. s.owner \in Holders
    BY <1>3, <2>1 DEF IsScript
  <2>3. /\ contract' \in Contracts
        /\ contract'.kind = s.kind
        /\ contract'.admins # {}
        /\ contract'.kind \in {"Ownable", "AccessControl", "Mock"} =>
             contract'.pending = None
    BY <1>3, <2>1, <2>2, AccountFacts, DeploymentAssumptions
       DEF NewContract, Contracts, IsScript, Names
  <2>4. granted' \in [Holders -> -1..MaxBlock]
    BY <2>2, EventType DEF RunScript, DInv, DeployTypeOK
  <2>5. contract' # None
    BY <2>3, NoContractAssumption
  <2>6. DeployTypeOK'
    BY <1>2, <1>3, <1>4, <2>3, <2>4 DEF DInv, DeployTypeOK, RunScript, lockVars
  <2>7. ScriptInv'
    BY <1>3, <1>4, <2>1, <2>5 DEF ScriptInv, IsScript
  <2>8. ContractInv' /\ AccessInv'
    BY <1>2, <1>3, <2>3 DEF ContractInv, AccessInv, Settled
  <2> QED
    BY <2>6, <2>7, <2>8 DEF DInv
<1>5. CASE s \notin Scripts
  <2>1. PICK arg \in {Multisig, Timelock} : s = DeployProxyMock(script.name, arg)
    BY <1>5 DEF Reruns
  <2>2. arg \in Accounts
    BY AccountFacts
  <2>3. /\ s.kind = "Mock" /\ s.name = script.name /\ s.via = script.via
        /\ s.steps = <<>> /\ s.owner = None /\ s.proxyOwner \in Accounts
    BY <1>5, <2>1, <2>2 DEF DeployProxyMock, Script, Reruns
  <2>4. /\ contract' \in Contracts
        /\ contract'.kind = "Mock"
        /\ contract'.pending = None
    BY <1>3, <2>3, AccountFacts, DeploymentAssumptions
       DEF NewContract, Contracts, Kinds, DInv, ScriptInv, Names
  <2>5. granted' = granted
    BY <2>3 DEF RunScript, HasRoles
  <2>6. DeployTypeOK'
    BY <1>2, <1>3, <2>3, <2>4, <2>5 DEF DInv, DeployTypeOK, RunScript, lockVars
  <2>7. ScriptInv'
    BY <1>3, <2>3 DEF DInv, ScriptInv, StepLists
  <2>8. ContractInv' /\ AccessInv'
    BY <1>2, <1>3, <2>3, <2>4 DEF ContractInv, AccessInv
  <2> QED
    BY <2>6, <2>7, <2>8 DEF DInv
<1> QED
  BY <1>4, <1>5

-----------------------------------------------------------------------------
LEMMA ScriptFrame ==
  ASSUME DInv,
         ScriptReinitializes \/ ScriptAccepts \/ ScriptTransfers \/ ScriptStops
  PROVE  Frame
<1>1. HandingType /\ LockType
  BY TypesOf
<1>2. CASE ScriptStops
  <2>1. UNCHANGED accessVars /\ contract' = contract
    BY <1>2 DEF ScriptStops
  <2>2. HandingType' /\ AccessInv'
    BY <2>1, AddsAccess
  <2> QED
    BY <1>1, <1>2, <2>2 DEF ScriptStops, Frame, lockVars, LockType
<1>3. ASSUME ScriptReinitializes \/ ScriptAccepts \/ ScriptTransfers,
             Adds(contract')
      PROVE  Frame
  <2>1. /\ todo # <<>> /\ todo' = Tail(todo)
        /\ UNCHANGED <<script, salts, accessVars, granted, lockVars>>
    BY <1>3 DEF ScriptReinitializes, ScriptAccepts, ScriptTransfers, Next1, Becomes
  <2>2. HandingType' /\ AccessInv'
    BY <1>3, <2>1, AddsAccess
  <2> QED
    BY <1>1, <1>3, <2>1, <2>2 DEF Frame, Adds, lockVars, LockType
<1>4. todo # <<>> => contract # None /\ contract \in Contracts
  BY ContractType DEF DInv, ScriptInv
<1>5. ASSUME todo # <<>>, Head(todo) # "reinitialize"
      PROVE  /\ contract.kind \in {"Ownable", "TokenPool"}
             /\ script.target \in Accounts
  <2>1. todo \notin {<<>>, <<"reinitialize">>}
    BY <1>5
  <2> QED
    BY <1>4, <1>5, <2>1 DEF DInv, ScriptInv, ContractInv
<1>6. CASE ScriptReinitializes
  <2>1. contract' = [contract EXCEPT !.version = 2] /\ todo # <<>>
    BY <1>6 DEF ScriptReinitializes, Becomes, Next1
  <2>2. Adds(contract')
    BY <1>4, <2>1, ContractType DEF Adds, Keeps, Contracts
  <2> QED
    BY <1>3, <1>6, <2>2
<1>7. CASE ScriptAccepts
  <2>1. /\ todo # <<>> /\ Head(todo) # "reinitialize"
        /\ contract.pending = Deployer /\ contract' = AfterAccept
    BY <1>7 DEF ScriptAccepts, Becomes, Next1
  <2>2. contract.pending \in Accounts /\ contract.pending # None
    BY <2>1, AccountFacts
  <2>3. Is({"DefaultAdminRules"} \cup TwoStep)
    BY <1>4, <1>5, <2>1, <2>2, ContractType DEF Is, TwoStep
  <2>4. Adds(contract')
    BY <2>1, <2>2, <2>3, AcceptAdds
  <2> QED
    BY <1>3, <1>7, <2>4
<1>8. CASE ScriptTransfers
  <2>1. /\ todo # <<>> /\ Head(todo) # "reinitialize"
        /\ contract' = contract \/ contract' = AfterTransfer(script.target)
    BY <1>8 DEF ScriptTransfers, Becomes, Next1
  <2>2. Is({"Ownable", "DefaultAdminRules"} \cup TwoStep)
    BY <1>4, <1>5, <2>1 DEF Is, TwoStep
  <2>3. Adds(contract')
    BY <1>4, <1>5, <2>1, <2>2, SameAdds, TransferAdds
  <2> QED
    BY <1>3, <1>8, <2>3
<1> QED
  BY <1>2, <1>6, <1>7, <1>8

\* Steps that change the contract only, or record an event besides.
LEMMA OneContractFrame ==
  ASSUME DInv, Adds(contract'),
         UNCHANGED <<script, todo, salts, accessVars, lockVars>>,
         granted' = granted \/ \E to \in Holders : granted' = Event(to)
  PROVE  Frame
<1>1. HandingType /\ LockType
  BY TypesOf
<1>2. granted' \in [Holders -> -1..MaxBlock]
  BY <1>1, EventType DEF LockType
<1>3. HandingType' /\ AccessInv'
  BY AddsAccess
<1> QED
  BY <1>1, <1>2, <1>3 DEF Frame, Adds, lockVars, LockType

LEMMA TransferFrame ==
  ASSUME DInv, NEW a \in Accounts, NEW to \in Accounts,
         \/ Accept(a) \/ AcceptAdminTransfer(a)
         \/ Transfer(a, to) \/ BeginAdminTransfer(a, to)
         \/ GrantRole(a, to) \/ GrantOtherRole(a, to) \/ TransferProxyAdmin(a, to)
  PROVE  Frame
<1>1. to \in Holders /\ a \in Holders
  BY AccountFacts
<1>2. CASE Accept(a)
  <2>1. contract.pending \in Accounts /\ Is({"DefaultAdminRules"} \cup TwoStep)
    BY <1>2 DEF Accept, Is, TwoStep
  <2> QED
    BY <1>2, <2>1, AcceptAdds, OneContractFrame DEF Accept, Becomes
<1>3. CASE AcceptAdminTransfer(a)
  <2>1. contract.pending \in Accounts /\ Is({"DefaultAdminRules"} \cup TwoStep)
    BY <1>3 DEF AcceptAdminTransfer, Is, TwoStep
  <2> QED
    BY <1>1, <1>3, <2>1, AcceptAdds, OneContractFrame DEF AcceptAdminTransfer
<1>4. CASE Transfer(a, to)
  <2>1. Is({"Ownable", "DefaultAdminRules"} \cup TwoStep)
    BY <1>4 DEF Transfer, Is, TwoStep
  <2> QED
    BY <1>1, <1>4, <2>1, TransferAdds, OneContractFrame DEF Transfer, Becomes
<1>5. CASE BeginAdminTransfer(a, to)
  <2>1. /\ Is({"Ownable", "DefaultAdminRules"} \cup TwoStep)
        /\ contract.kind # "Ownable"
    BY <1>5 DEF BeginAdminTransfer, Is, TwoStep
  <2>2. contract' = AfterTransfer(to)
    BY <1>5, <2>1 DEF BeginAdminTransfer, Becomes, AfterTransfer
  <2> QED
    BY <1>1, <1>5, <2>1, <2>2, TransferAdds, OneContractFrame
       DEF BeginAdminTransfer, Becomes
<1>6. CASE GrantRole(a, to)
  <2>1. contract # None
    BY <1>6 DEF GrantRole, Is
  <2>2. granted' = granted \/ granted' = Event(to)
    BY <1>6 DEF GrantRole, GrantAdmin
  <2>3. contract' = [contract EXCEPT !.admins = @ \cup {to}]
    BY <1>6 DEF GrantRole, GrantAdmin
  <2> QED
    BY <1>1, <1>6, <2>1, <2>2, <2>3, GrantAdds, OneContractFrame DEF GrantRole
<1>7. CASE GrantOtherRole(a, to)
  <2>1. contract # None /\ contract' = contract
    BY <1>7 DEF GrantOtherRole, Is
  <2>2. Adds(contract')
    BY <2>1, SameAdds
  <2> QED
    BY <1>1, <1>7, <2>2, OneContractFrame DEF GrantOtherRole
<1>8. CASE TransferProxyAdmin(a, to)
  BY <1>1, <1>8, ReleaseAdds, OneContractFrame
     DEF TransferProxyAdmin, HasProxy, Becomes
<1> QED
  BY <1>2, <1>3, <1>4, <1>5, <1>6, <1>7, <1>8

\* The new admin is settled, or the hand-over crosses.
LEMMA GrantsFrame ==
  ASSUME DInv, NEW a \in Operators, NEW to \in Accounts, TransferAccessGrants(a, to)
  PROVE  Frame
<1>1. HandingType /\ LockType
  BY TypesOf
<1>2. /\ contract # None /\ contract.kind = "AccessControl"
      /\ contract' = [contract EXCEPT !.admins = @ \cup {to}]
  BY DEF TransferAccessGrants, Is, GrantAdmin
<1>3. Keeps(contract')
  BY <1>2, GrantAdds DEF Adds
<1>4. /\ contract' # None /\ contract'.kind = "AccessControl"
      /\ to \in contract'.admins
  <2>1. contract \in Contracts
    BY <1>2, ContractType
  <2>2. to \in contract'.admins
    BY <1>2, <2>1 DEF Contracts
  <2> QED
    BY <1>2, <1>3, <2>2, NoContractAssumption DEF Keeps
<1>5. granted' \in [Holders -> -1..MaxBlock]
  BY <1>1, AccountFacts, EventType DEF TransferAccessGrants, GrantAdmin, LockType
<1>6. /\ handing' = [handing EXCEPT ![a] = to]
      /\ crossed' = (crossed \/ Crosses(a, to))
  BY DEF TransferAccessGrants, BeginsHandover
<1>7. HandingType'
  BY <1>1, <1>6 DEF HandingType
<1>8. crossed' \/ Settled(to)'
  <2>1. SUFFICES ASSUME ~crossed', to \in Operators PROVE handing'[to] = None
    BY DEF Settled
  <2>2. to # a /\ handing[to] = None
    BY <1>6, <2>1 DEF Crosses
  <2> QED
    BY <1>1, <1>6, <2>1, <2>2 DEF HandingType
<1>9. AccessInv'
  BY <1>4, <1>8 DEF AccessInv
<1> QED
  BY <1>1, <1>3, <1>5, <1>7, <1>9 DEF TransferAccessGrants, Frame, lockVars, LockType

\* Who revokes himself was not the settled one.
LEMMA EndsFrame ==
  ASSUME DInv, NEW a \in Operators, TransferAccessEnds(a) \/ TransferAccessStops(a)
  PROVE  Frame
<1>1. HandingType /\ LockType
  BY TypesOf
<1>2. /\ handing[a] # None
      /\ handing' = [handing EXCEPT ![a] = None] /\ crossed' = crossed
  BY DEF TransferAccessEnds, TransferAccessStops
<1>3. /\ contract # None /\ contract.kind = "AccessControl"
      /\ crossed \/ \E h \in contract.admins : Settled(h)
  BY <1>2 DEF DInv, AccessInv
<1>4. HandingType' /\ \A b \in Operators : handing[b] = None => handing'[b] = None
  BY <1>1, <1>2 DEF HandingType
<1>5. ASSUME Keeps(contract'), contract.admins \ {a} \subseteq contract'.admins
      PROVE  AccessInv'
  <2>1. contract' # None /\ contract'.kind = "AccessControl"
    BY <1>3, <1>5, NoContractAssumption DEF Keeps
  <2>2. ASSUME NEW h \in contract.admins, Settled(h)
        PROVE  h \in contract'.admins /\ Settled(h)'
    BY <1>2, <1>4, <1>5, <2>2 DEF Settled
  <2> QED
    BY <1>2, <1>3, <2>1, <2>2 DEF AccessInv
<1>6. CASE TransferAccessEnds(a)
  <2>1. contract' = RevokeAdmin(a)
    BY <1>6 DEF TransferAccessEnds
  <2>2. Keeps(contract')
    BY <1>2, <2>1, RevokeKeeps
  <2>3. contract.admins \ {a} \subseteq contract'.admins
    BY <1>3, <2>1, ContractType DEF RevokeAdmin, Contracts
  <2> QED
    BY <1>1, <1>4, <1>5, <1>6, <2>2, <2>3
       DEF TransferAccessEnds, Frame, lockVars, LockType
<1>7. CASE TransferAccessStops(a)
  <2>1. contract' = contract
    BY <1>7 DEF TransferAccessStops
  <2>2. Keeps(contract')
    BY <1>3, <2>1, SameAdds DEF Adds
  <2> QED
    BY <1>1, <1>4, <1>5, <1>7, <2>1, <2>2
       DEF TransferAccessStops, Frame, lockVars, LockType
<1> QED
  BY <1>6, <1>7

LEMMA ExecuteFrame ==
  ASSUME DInv, NEW x \in Accounts, NEW call \in Calls, Execute(x, call)
  PROVE  Frame
<1>1. HandingType /\ LockType
  BY TypesOf
<1>2. /\ UNCHANGED <<script, todo, salts, accessVars, impls, block>>
      /\ readyAt' = [readyAt EXCEPT ![call] = Done]
  BY DEF Execute
<1>3. readyAt' \in [Calls -> -2..(MaxBlock + MinDelay)]
  BY <1>1, <1>2, DeploymentAssumptions DEF LockType, Done
<1>4. ASSUME Adds(contract'), granted' \in [Holders -> -1..MaxBlock]
      PROVE  Frame
  <2>1. HandingType' /\ AccessInv'
    BY <1>2, <1>4, AddsAccess
  <2> QED
    BY <1>1, <1>2, <1>3, <1>4, <2>1 DEF Frame, Adds, LockType
<1>5. CASE call[1] = "upgrade" /\ ExecuteUpgrade(call[2])
  <2>1. call[2] \in 1..MaxImpl
    BY <1>5, DeploymentAssumptions DEF Calls, OtherCalls
  <2> QED
    BY <1>1, <1>4, <1>5, <2>1, UpgradeAdds DEF ExecuteUpgrade, HasProxy, LockType
<1>6. CASE ExecuteAccept
  <2>1. Adds(contract')
    BY <1>6, AccountFacts, AcceptAdds DEF ExecuteAccept
  <2>2. granted' \in [Holders -> -1..MaxBlock]
    BY <1>1, <1>6, AccountFacts, EventType DEF ExecuteAccept, LockType
  <2> QED
    BY <1>4, <2>1, <2>2
<1>7. CASE ExecuteTransfer
  <2>1. Is({"Ownable", "DefaultAdminRules"} \cup TwoStep)
    BY <1>7 DEF ExecuteTransfer, Is, HasOwner
  <2>2. Adds(contract')
    BY <1>7, <2>1, AccountFacts, TransferAdds DEF ExecuteTransfer
  <2> QED
    BY <1>1, <1>4, <1>7, <2>2 DEF ExecuteTransfer, LockType
<1>8. CASE ExecuteRelease
  <2>1. Adds(contract')
    BY <1>8, AccountFacts, ReleaseAdds DEF ExecuteRelease, HasProxy
  <2> QED
    BY <1>1, <1>4, <1>8, <2>1 DEF ExecuteRelease, LockType
<1> QED
  BY <1>5, <1>6, <1>7, <1>8 DEF Execute

LEMMA LockFrame ==
  ASSUME DInv, NEW a \in Accounts, NEW name \in OtherCalls,
         UpgradeProxy(a) \/ ScheduleUpgrade(a) \/ ScheduleOther(a, name) \/ NextBlock
  PROVE  Frame
<1>1. HandingType /\ LockType
  BY TypesOf
<1>2. ASSUME NewImpl PROVE impls' \in 1..MaxImpl /\ impls' \in 2..MaxImpl
  BY <1>1, <1>2, DeploymentAssumptions DEF LockType, NewImpl
<1>3. ASSUME NEW call \in Calls, Schedule(a, call), impls' \in 1..MaxImpl
      PROVE  Frame
  <2>1. block + MinDelay \in -2..(MaxBlock + MinDelay)
    BY <1>1, DeploymentAssumptions DEF LockType
  <2>2. readyAt' \in [Calls -> -2..(MaxBlock + MinDelay)]
    BY <1>1, <1>3, <2>1 DEF LockType, Schedule
  <2>3. HandingType' /\ AccessInv'
    BY <1>3, AddsAccess DEF Schedule
  <2> QED
    BY <1>1, <1>3, <2>2, <2>3 DEF Schedule, Frame, LockType
<1>4. CASE UpgradeProxy(a)
  <2>1. impls' \in 1..MaxImpl
    BY <1>2, <1>4 DEF UpgradeProxy
  <2>2. contract # None /\ contract' = [contract EXCEPT !.impl = impls']
    BY <1>4 DEF UpgradeProxy, HasProxy
  <2>3. Adds(contract')
    BY <2>1, <2>2, UpgradeAdds
  <2>4. HandingType' /\ AccessInv'
    BY <1>4, <2>3, AddsAccess DEF UpgradeProxy
  <2> QED
    BY <1>1, <1>4, <2>1, <2>3, <2>4 DEF UpgradeProxy, Frame, Adds, LockType
<1>5. CASE ScheduleUpgrade(a)
  <2>1. impls' \in 1..MaxImpl /\ <<"upgrade", impls'>> \in Calls
    BY <1>2, <1>5 DEF ScheduleUpgrade, Calls
  <2> QED
    BY <1>3, <1>5, <2>1 DEF ScheduleUpgrade
<1>6. CASE ScheduleOther(a, name)
  <2>1. impls' \in 1..MaxImpl /\ <<name, 0>> \in Calls
    BY <1>1, <1>6 DEF ScheduleOther, Calls, LockType
  <2> QED
    BY <1>3, <1>6, <2>1 DEF ScheduleOther
<1>7. CASE NextBlock
  <2>1. block' \in 0..MaxBlock
    BY <1>1, <1>7, DeploymentAssumptions DEF NextBlock, LockType
  <2>2. HandingType' /\ AccessInv'
    BY <1>7, AddsAccess DEF NextBlock
  <2> QED
    BY <1>1, <1>7, <2>1, <2>2 DEF NextBlock, Frame, LockType
<1> QED
  BY <1>4, <1>5, <1>6, <1>7

LEMMA NextFrame ==
  ASSUME DInv, [Next]_vars
  PROVE  Frame \/ \E s \in Reruns : RunScript(s)
<1>1. CASE UNCHANGED vars
  <2>1. UNCHANGED accessVars /\ contract' = contract
    BY <1>1 DEF vars
  <2>2. HandingType' /\ AccessInv'
    BY <2>1, AddsAccess
  <2> QED
    BY <1>1, <2>2, TypesOf DEF vars, lockVars, Frame, LockType
<1>2. CASE ScriptStep
  BY <1>2, ScriptFrame DEF ScriptStep
<1>3. CASE OwnerStep
  <2>1. Multisig \in Accounts
    BY AccountFacts
  <2>2. \A a \in Operators : a \in Accounts
    BY DeploymentAssumptions
  <2>3. CASE \E a \in Accounts \ {Timelock} :
               \/ Accept(a) \/ AcceptAdminTransfer(a)
               \/ \E to \in Accounts :
                    \/ Transfer(a, to) \/ BeginAdminTransfer(a, to) \/ GrantRole(a, to)
                    \/ GrantOtherRole(a, to) \/ TransferProxyAdmin(a, to)
    BY <2>1, <2>3, TransferFrame
  <2>4. CASE \E a \in Operators :
               \/ \E to \in Accounts : TransferAccessGrants(a, to)
               \/ TransferAccessEnds(a) \/ TransferAccessStops(a)
    BY <2>4, GrantsFrame, EndsFrame
  <2> QED
    BY <1>3, <2>3, <2>4 DEF OwnerStep
<1>4. CASE UpgradeStep
  <2>1. "accept" \in OtherCalls /\ Timelock \in Accounts
    BY AccountFacts DEF OtherCalls
  <2>2. CASE \E a \in Accounts \ {Timelock} :
               \/ UpgradeProxy(a) \/ ScheduleUpgrade(a)
               \/ \E name \in OtherCalls : ScheduleOther(a, name)
               \/ \E call \in Calls : Execute(a, call)
    BY <2>1, <2>2, LockFrame, ExecuteFrame
  <2>3. CASE NextBlock
    BY <2>1, <2>3, LockFrame
  <2> QED
    BY <1>4, <2>2, <2>3 DEF UpgradeStep
<1> QED
  BY <1>1, <1>2, <1>3, <1>4 DEF Next

LEMMA NextDInv == DInv /\ [Next]_vars => DInv'
  BY NextFrame, FrameDInv, RunDInv

-----------------------------------------------------------------------------
LEMMA DInvHolds == Spec => []DInv
  BY InitDInv, NextDInv, PTL DEF Spec

(***************************************************************************)
(* The variables keep their types: whatever script is run with whatever    *)
(* argument, no contract gets a placeholder for an admin.                  *)
(***************************************************************************)
THEOREM TypeCorrect == Spec => []DeployTypeOK
<1>1. DInv => DeployTypeOK
  BY DEF DInv
<1> QED
  BY <1>1, DInvHolds, PTL

(***************************************************************************)
(* For any accounts and operators, a contract is left without an admin     *)
(* only after transfer-access handed it to its own signer or to an account *)
(* handing over itself; hand-overs that stop, follow one another or run    *)
(* beside each other to anybody else, grants and acceptances never do it.  *)
(***************************************************************************)
THEOREM AnAdminStays == Spec => []AdminNeverLost
<1>1. DInv => AdminNeverLost
  <2> SUFFICES ASSUME DInv, contract # None, contract.kind # "Mock",
                      contract.admins = {}
               PROVE  crossed
    BY DEF AdminNeverLost
  <2>1. contract.kind = "AccessControl"
    BY DEF DInv, ContractInv
  <2> QED
    BY <2>1 DEF DInv, AccessInv
<1> QED
  BY <1>1, DInvHolds, PTL

(***************************************************************************)
(* A script that is run again never replaces what has been deployed.       *)
(***************************************************************************)
THEOREM AddressesAreFinal == Spec => AddressKeepsItsContract
<1>1. ASSUME DInv, [Next]_vars, contract # None
      PROVE  /\ contract' # None
             /\ contract'.kind = contract.kind
             /\ contract'.version >= contract.version
  <2>1. Frame
    BY <1>1, NextFrame, RunIsFirst
  <2>2. Keeps(contract')
    BY <1>1, <2>1, SameAdds DEF Frame, Adds
  <2> QED
    BY <2>2, NoContractAssumption DEF Keeps
<1> QED
  BY <1>1, DInvHolds, PTL DEF Spec, AddressKeepsItsContract

-----------------------------------------------------------------------------
LEMMA GreenIsTimelock ==
  ASSUME NEW a, Green(a)
  PROVE  a = Timelock
  BY DEF Green, Class

\* What the premises of CheckedIsTimelocked say of the contract.
InTimelock ==
  /\ contract # None
  /\ contract.kind # "Mock"
  /\ contract.admins \subseteq {Timelock}
  /\ contract.pending = None
  /\ HasProxy => contract.proxyOwner = Timelock

LEMMA CheckedIsInTimelock ==
  ASSUME DInv, NEW query \in Queries, CheckOwnership(query),
         Is(HasRoles) => contract.admins \subseteq QueryEventsSafe(query),
         Is({"DefaultAdminRules", "TokenPool"}) => contract.pending = None
  PROVE  InTimelock
<1>1. contract # None /\ contract.kind # "Mock" /\ contract \in Contracts
  BY ContractType DEF CheckOwnership
<1>2. contract.kind \in Kinds \ {"Mock"}
  BY <1>1 DEF Contracts
<1>3. \A a \in contract.admins : a = Timelock
  <2>1. CASE contract.kind \in HasOwner
    BY <1>1, <2>1, GreenIsTimelock DEF CheckOwnership, CheckOwnable, Is
  <2>2. CASE contract.kind \in HasRoles
    BY <1>1, <2>2, GreenIsTimelock DEF CheckOwnership, CheckAccessControlAdmin, Is
  <2> QED
    BY <1>2, <2>1, <2>2 DEF Kinds, HasOwner, HasRoles, TwoStep
<1>4. contract.admins \subseteq {Timelock}
  BY <1>3
<1>5. contract.pending = None
  BY <1>1, <1>2, ContractType DEF Kinds, CheckOwnership, CheckOwnable2Step, Is
<1>6. HasProxy => contract.proxyOwner = Timelock
  BY GreenIsTimelock DEF CheckOwnership, CheckProxyAdminOwnership
<1> QED
  BY <1>1, <1>4, <1>5, <1>6 DEF InTimelock

LEMMA OnlyTimelockActs ==
  ASSUME DInv, InTimelock, [Next]_vars, contract' # contract
  PROVE  \E call \in Calls : readyAt[call] \in 0..block /\ readyAt'[call] = Done
<1>1. /\ Deployer # Timelock /\ None \notin Accounts /\ Deployer # None
      /\ \A a \in Operators : a # Timelock
  BY AccountFacts DEF Holders
<1>2. CASE UNCHANGED vars
  BY <1>2 DEF vars
<1>3. CASE ScriptStep
  <2>1. ~ \E s \in Reruns : RunScript(s)
    BY RunIsFirst DEF InTimelock
  <2>2. ~ScriptReinitializes
    BY <1>1 DEF ScriptReinitializes, InTimelock
  <2>3. ~ScriptAccepts
    BY <1>1 DEF ScriptAccepts, InTimelock
  <2>4. ~ScriptTransfers
    BY <1>1 DEF ScriptTransfers, InTimelock
  <2> QED
    BY <1>3, <2>1, <2>2, <2>3, <2>4 DEF ScriptStep, ScriptStops
<1>4. CASE OwnerStep
  <2>1. ASSUME NEW a \in Accounts \ {Timelock}, Accept(a) \/ AcceptAdminTransfer(a)
        PROVE  FALSE
    BY <1>1, <2>1 DEF Accept, AcceptAdminTransfer, InTimelock
  <2>2. ASSUME NEW a \in Accounts \ {Timelock}, NEW to \in Accounts,
               \/ Transfer(a, to) \/ BeginAdminTransfer(a, to) \/ GrantRole(a, to)
               \/ GrantOtherRole(a, to)
        PROVE  FALSE
    BY <2>2 DEF Transfer, BeginAdminTransfer, GrantRole, GrantOtherRole, InTimelock
  <2>3. ASSUME NEW a \in Accounts \ {Timelock}, NEW to \in Accounts,
               TransferProxyAdmin(a, to)
        PROVE  FALSE
    BY <2>3 DEF TransferProxyAdmin, InTimelock
  <2>4. ASSUME NEW a \in Operators, NEW to \in Accounts, TransferAccessGrants(a, to)
        PROVE  FALSE
    BY <1>1, <2>4 DEF TransferAccessGrants, InTimelock
  <2>5. ASSUME NEW a \in Operators, TransferAccessEnds(a)
        PROVE  FALSE
    BY <1>1, <2>5 DEF TransferAccessEnds, InTimelock
  <2>6. ASSUME NEW a \in Operators, TransferAccessStops(a)
        PROVE  FALSE
    BY <2>6 DEF TransferAccessStops
  <2> QED
    BY <1>4, <2>1, <2>2, <2>3, <2>4, <2>5, <2>6 DEF OwnerStep
<1>5. CASE UpgradeStep
  <2>1. ASSUME NEW a \in Accounts \ {Timelock}, UpgradeProxy(a)
        PROVE  FALSE
    BY <2>1 DEF UpgradeProxy, InTimelock
  <2>2. ASSUME NEW a \in Accounts,
               ScheduleUpgrade(a) \/ \E name \in OtherCalls : ScheduleOther(a, name)
        PROVE  FALSE
    BY <2>2 DEF ScheduleUpgrade, ScheduleOther, Schedule
  <2>3. ASSUME NEW a \in Accounts, NEW call \in Calls, Execute(a, call)
        PROVE  readyAt[call] \in 0..block /\ readyAt'[call] = Done
    <3>1. readyAt' = [readyAt EXCEPT ![call] = Done] /\ readyAt[call] \in 0..block
      BY <2>3 DEF Execute
    <3>2. DOMAIN readyAt = Calls
      BY DEF DInv, DeployTypeOK
    <3> QED
      BY <3>1, <3>2
  <2>4. ~NextBlock
    BY DEF NextBlock
  <2> QED
    BY <1>5, <2>1, <2>2, <2>3, <2>4 DEF UpgradeStep
<1> QED
  BY <1>2, <1>3, <1>4, <1>5 DEF Next

(***************************************************************************)
(* A contract for which the task is green, with all events seen and no     *)
(* other pending owner, only changes by calls that have waited in the      *)
(* timelock, for any accounts, operators and delay.                        *)
(***************************************************************************)
THEOREM GreenMeansTimelocked == Spec => CheckedIsTimelocked
<1>1. ASSUME DInv, [Next]_vars
      PROVE  \A query \in Queries :
               /\ CheckOwnership(query)
               /\ Is(HasRoles) => contract.admins \subseteq QueryEventsSafe(query)
               /\ Is({"DefaultAdminRules", "TokenPool"}) => contract.pending = None
               /\ contract' # contract
               => \E call \in Calls :
                    readyAt[call] \in 0..block /\ readyAt'[call] = Done
  BY <1>1, CheckedIsInTimelock, OnlyTimelockActs
<1> QED
  BY <1>1, DInvHolds, PTL DEF Spec, CheckedIsTimelocked

=============================================================================
