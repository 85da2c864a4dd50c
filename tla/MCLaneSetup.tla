---------------------------- MODULE MCLaneSetup -----------------------------
(***************************************************************************)
(* The lane of a native token from A, where nothing is set up yet, to B,   *)
(* where the token sits behind an adapter (BridgeTokenPool) and another    *)
(* token has a pool, too.  B is ready for A but for the path of its        *)
(* mailbox and the limit; the limit can be used up.                        *)
(***************************************************************************)
EXTENDS LaneSetup

CONSTANTS A, B, pA, pB, qB, bob, nA, nB, aB, sB

MCChains == {A, B}
MCLinks == {<<A, B>>, <<B, A>>}
MCPools == {pA, pB, qB}
MCUsers == MCPools \cup {bob}
MCTokens == {nA, nB, aB, sB}
MCHome == [p \in MCPools |-> IF p = pA THEN A ELSE B]
MCPoolToken == [p \in MCPools |-> CASE p = pA -> nA [] p = pB -> nB [] p = qB -> sB]
MCPoolBridgeToken ==
  [p \in MCPools |-> CASE p = pA -> nA [] p = pB -> aB [] p = qB -> sB]

\* The right pair, one that misses the adapter, and one to another token.
MCTokenPairs == {<<nA, aB>>, <<nA, nB>>, <<nA, sB>>}
MCRateConfigs == {<<1, 2>>}
MCScriptFees == [c \in MCChains |-> IF c = A THEN 1 ELSE 0]

MCAddressBook ==
  [c \in MCChains |->
     IF c = A
     THEN [bridge |-> Bridge, staked |-> <<>>, native |-> nA, adapter |-> Zero,
           pools |-> {pA}]
     ELSE [bridge |-> Bridge, staked |-> <<sB>>, native |-> nB, adapter |-> aB,
           pools |-> {pB, qB}]]

\* The right arguments, the adapter forgotten, and the pool of another token.
MCPoolSetups ==
  [p \in MCPools |->
     IF p = pA
     THEN {[selector |-> B, chain |-> B, pool |-> pB, token |-> nB, adapter |-> aB],
           [selector |-> B, chain |-> B, pool |-> pB, token |-> nB, adapter |-> Zero],
           [selector |-> B, chain |-> B, pool |-> qB, token |-> nB, adapter |-> aB]}
     ELSE {}]

Only(c, d, x, y) == [k \in Chains |-> [l \in Chains |-> IF k = c /\ l = d THEN x ELSE y]]

ReadyAtB ==
  /\ globalNonce = [c \in Chains |-> 1]
  /\ outbound = [c \in Chains |-> IF c = B THEN {A} ELSE {}]
  /\ inbound = [c \in Chains |-> IF c = A THEN {B} ELSE {}]
  /\ delivered = [c \in Chains |-> {}]
  /\ handled = [c \in Chains |-> {}]
  /\ defaultMaxPayloadSize = [c \in Chains |-> 0]
  /\ mailboxSender = [c \in Chains |-> [a \in M!Senders |->
       IF c = B /\ a = Bridge THEN [maxPayloadSize |-> 1, feeDisabled |-> TRUE]
       ELSE [maxPayloadSize |-> IF a = Zero THEN 1 ELSE 0, feeDisabled |-> FALSE]]]
  /\ feePerByte = ScriptFees
  /\ fees = [c \in Chains |-> 0]
  /\ paused = [c \in Chains |-> FALSE]
  /\ sent = {}
  /\ epoch = [c \in Chains |-> 1]
  /\ proofs = {}
  /\ bridgeContract = Only(B, A, Bridge, Zero)
  /\ destinationToken = [c \in Chains |-> [d \in Chains |-> [t \in Tokens |->
       IF c = B /\ d = A /\ t = aB THEN nA ELSE Zero]]]
  /\ sourceToken = [c \in Chains |-> [d \in Chains |-> [t \in Tokens |->
       IF c = B /\ d = A /\ t = nA THEN aB ELSE Zero]]]
  /\ spent = [c \in Chains |-> {}]
  /\ bridgeSender = [c \in Chains |-> [u \in Users |->
       [whitelisted |-> TRUE, feeDiscount |-> IF c = B \/ u = bob THEN 10000 ELSE 0]]]
  /\ rateLimit = [c \in Chains |-> [d \in Chains |-> [t \in Tokens |->
       IF c = A /\ d = B /\ t = nA THEN R!SetRateLimit(R!EmptyBucket, 1, 1)
       ELSE R!EmptyBucket]]]
  /\ balance = [c \in Chains |-> [t \in Tokens |-> [u \in Users |->
       IF c = A /\ t = nA /\ u # pB /\ u # qB THEN Supply ELSE 0]]]
  /\ tokenPaused = [c \in Chains |-> {}]
  /\ remoteToken = [p \in Pools |-> [d \in Chains |->
       IF p = pB /\ d = A THEN nA ELSE Zero]]
  /\ remotePools = [p \in Pools |-> [d \in Chains |->
       IF p = pB /\ d = A THEN {pA} ELSE {}]]
  /\ path = [p \in Pools |-> [d \in Chains |->
       IF p = pB /\ d = A THEN [chain |-> A, caller |-> pA, adapter |-> Zero]
       ELSE NoPath]]
  /\ running = [p \in Pools |-> Idle]
  /\ ccip = {}
  /\ released = {}

\* The owners of B only open the mailbox and set the limit of the token.
MCNext ==
  \/ MailboxSetup(A) \/ BridgeSetup(A) \/ PoolSetup(A)
  \/ \E direction \in M!Directions : MailboxEnablePath(B, A, direction)
  \/ \E r \in MCRateConfigs : SetupTokenRateLimits(B, A, aB, r[1], r[2])
  \/ TransferStep(A) \/ TransferStep(B)
  \/ NotarizeAny

MCSpec == ReadyAtB /\ [][MCNext]_allVars

=============================================================================
