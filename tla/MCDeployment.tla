---------------------------- MODULE MCDeployment ----------------------------
\* Two operators, of whom the address file knows one, a multisig that proposes
\* to the timelock, and everything that can be deployed.
EXTENDS Deployment

CONSTANTS deployer, colleague, multisig, timelock

MCAccounts == {deployer, colleague, multisig, timelock}
MCOperators == {deployer, colleague}
MCProposers == {multisig}
MCExecutors == {colleague}

\* A bound.  Control passes to operators, and hand-overs cross, before the
\* timelock is in use; while it has a call, or after some time, it passes to the
\* others only.  The deployer is given it again only if the colleague takes part.
Owns(a) == contract # None /\ (a \in contract.admins \/ a = contract.pending)
OwnsProxy(a) == contract # None /\ a = contract.proxyOwner

OperatorsTakePart ==
  \/ Owns(colleague) \/ OwnsProxy(colleague) \/ granted[colleague] # Never
  \/ crossed \/ \E a \in Operators : handing[a] \in Operators

DeployerGains ==
  /\ contract # None
  /\ \/ ~Owns(deployer) /\ Owns(deployer)'
     \/ ~OwnsProxy(deployer) /\ OwnsProxy(deployer)'
     \/ granted[deployer] # granted'[deployer]

TimelockInUse ==
  block > 0 \/ impls > 1 \/ \E call \in Calls : readyAt[call] # Never

MCNext ==
  /\ Next
  /\ ~(OperatorsTakePart /\ TimelockInUse)'
  /\ DeployerGains => OperatorsTakePart

MCSpec == Init /\ [][MCNext]_vars

=============================================================================
