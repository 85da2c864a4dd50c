------------------------------- MODULE Mailbox ------------------------------
(***************************************************************************)
(* contracts/gmp/Mailbox.sol, one instance on each chain, with the two     *)
(* parties outside the contracts that connect them: the notaries of the    *)
(* consortium, who sign what a mailbox emitted, and the relayers, who      *)
(* submit payload and proof on the destination chain, as often, as late    *)
(* and in whatever order they like.                                        *)
(*                                                                         *)
(* A call that reverts leaves no trace, so it is an action that is not     *)
(* enabled.  The one revert that does leave a trace is the recipient's:    *)
(* _handle catches it, and the payload stays delivered but not handled.    *)
(* What a recipient does with a payload is its own business; here it       *)
(* succeeds or reverts at will, as often as it is called.                  *)
(***************************************************************************)
EXTENDS Integers, FiniteSets

CONSTANTS
  Chains,             \* Lombard chain ids
  Links,              \* <<c, d>>: the admin of c may open and close paths with d
  Addresses,          \* nonzero addresses, the same names on every chain
  Handlers,           \* addresses whose contract supports IHandler
  Zero,               \* bytes32(0)
  Bodies,             \* message bodies
  PayloadSize,        \* length of the payload around a body, header included
  GlobalMaxPayloadSize,
  PayloadSizes,       \* sizes the admin may set
  FeeRates,           \* values of feePerByte the admin may set
  Values,             \* wei attached to a call
  MaxNonce,           \* bound: messages sent per chain
  MaxEpoch            \* bound: validator sets per chain

ASSUME MailboxAssumptions ==
  /\ Links \subseteq Chains \X Chains
  /\ Handlers \subseteq Addresses
  /\ Zero \notin Addresses
  /\ PayloadSize \in [Bodies -> Nat \ {0}]
  /\ GlobalMaxPayloadSize \in Nat
  /\ PayloadSizes \subseteq Nat
  /\ FeeRates \subseteq Nat
  /\ Values \subseteq Nat
  /\ MaxNonce \in Nat
  /\ MaxEpoch \in Nat

VARIABLES
  globalNonce,        \* next nonce of each chain
  outbound,           \* outboundMessagePath: chains each mailbox may send to
  inbound,            \* inboundMessagePath: chains each mailbox accepts from
  delivered,          \* deliveredPayload
  handled,            \* handledPayload
  defaultMaxPayloadSize,
  mailboxSender,      \* senderConfig of each address
  feePerByte,
  fees,               \* wei held by the mailbox
  paused,
  sent,               \* payloads of the MessageSent events of all chains
  epoch,              \* epoch of the validator set each chain's consortium holds
  proofs              \* <<payload, e>>: signatures by the validator set e exist

configVars == <<outbound, inbound, defaultMaxPayloadSize, mailboxSender,
                feePerByte, paused>>
deliveryVars == <<delivered, handled>>
notaryVars == <<epoch, proofs>>
sendVars == <<globalNonce, sent>>
mailboxVars == <<configVars, deliveryVars, notaryVars, sendVars, fees>>

(***************************************************************************)
(* The path id is a hash of the source mailbox and of both chain ids, and  *)
(* the payload's id is a hash of all its fields: with one mailbox per      *)
(* chain a payload is the record of its fields, and is its own id.         *)
(***************************************************************************)
Messages ==
  [src : Chains, dst : Chains, nonce : Nat, sender : Addresses,
   recipient : Addresses, destinationCaller : Addresses \cup {Zero},
   body : Bodies]

\* The zero address may have a configuration, too: see BridgeFee in BridgeV2.
Senders == Addresses \cup {Zero}

SenderConfigs == [maxPayloadSize : Nat, feeDisabled : BOOLEAN]

Directions == {"OUTBOUND", "INBOUND", "BOTH"}

Init ==
  /\ globalNonce = [c \in Chains |-> 1]
  /\ outbound = [c \in Chains |-> {}]
  /\ inbound = [c \in Chains |-> {}]
  /\ delivered = [c \in Chains |-> {}]
  /\ handled = [c \in Chains |-> {}]
  /\ defaultMaxPayloadSize = [c \in Chains |-> 0]
  /\ mailboxSender = [c \in Chains |-> [a \in Senders |->
                        [maxPayloadSize |-> 0, feeDisabled |-> FALSE]]]
  /\ feePerByte \in [Chains -> FeeRates]
  /\ fees = [c \in Chains |-> 0]
  /\ paused = [c \in Chains |-> FALSE]
  /\ sent = {}
  /\ epoch = [c \in Chains |-> 1]
  /\ proofs = {}

WhenNotPaused(c) == ~paused[c]

-----------------------------------------------------------------------------
\* The administration of the mailbox of chain c.

EnableMessagePath(c, d, direction) ==
  /\ direction \in {"OUTBOUND", "BOTH"} => d \notin outbound[c]
  /\ direction \in {"INBOUND", "BOTH"} => d \notin inbound[c]
  /\ outbound' = [outbound EXCEPT ![c] =
                    IF direction = "INBOUND" THEN @ ELSE @ \cup {d}]
  /\ inbound' = [inbound EXCEPT ![c] =
                    IF direction = "OUTBOUND" THEN @ ELSE @ \cup {d}]
  /\ UNCHANGED <<defaultMaxPayloadSize, mailboxSender, feePerByte, paused,
                 deliveryVars, notaryVars, sendVars, fees>>

DisableMessagePath(c, d, direction) ==
  /\ outbound' = [outbound EXCEPT ![c] =
                    IF direction = "INBOUND" THEN @ ELSE @ \ {d}]
  /\ inbound' = [inbound EXCEPT ![c] =
                    IF direction = "OUTBOUND" THEN @ ELSE @ \ {d}]
  /\ UNCHANGED <<defaultMaxPayloadSize, mailboxSender, feePerByte, paused,
                 deliveryVars, notaryVars, sendVars, fees>>

SetDefaultMaxPayloadSize(c, size) ==
  /\ size <= GlobalMaxPayloadSize
  /\ defaultMaxPayloadSize' = [defaultMaxPayloadSize EXCEPT ![c] = size]
  /\ UNCHANGED <<outbound, inbound, mailboxSender, feePerByte, paused,
                 deliveryVars, notaryVars, sendVars, fees>>

SetSenderConfig(c, a, size, feeDisabled) ==
  /\ size <= GlobalMaxPayloadSize
  /\ mailboxSender' = [mailboxSender EXCEPT ![c][a] =
                         [maxPayloadSize |-> size, feeDisabled |-> feeDisabled]]
  /\ UNCHANGED <<outbound, inbound, defaultMaxPayloadSize, feePerByte, paused,
                 deliveryVars, notaryVars, sendVars, fees>>

SetFee(c, rate) ==
  /\ feePerByte' = [feePerByte EXCEPT ![c] = rate]
  /\ UNCHANGED <<outbound, inbound, defaultMaxPayloadSize, mailboxSender, paused,
                 deliveryVars, notaryVars, sendVars, fees>>

Pause(c) ==
  /\ ~paused[c]
  /\ paused' = [paused EXCEPT ![c] = TRUE]
  /\ UNCHANGED <<outbound, inbound, defaultMaxPayloadSize, mailboxSender,
                 feePerByte, deliveryVars, notaryVars, sendVars, fees>>

Unpause(c) ==
  /\ paused[c]
  /\ paused' = [paused EXCEPT ![c] = FALSE]
  /\ UNCHANGED <<outbound, inbound, defaultMaxPayloadSize, mailboxSender,
                 feePerByte, deliveryVars, notaryVars, sendVars, fees>>

WithdrawFee(c) ==
  /\ WhenNotPaused(c)
  /\ fees[c] > 0
  /\ fees' = [fees EXCEPT ![c] = 0]
  /\ UNCHANGED <<configVars, deliveryVars, notaryVars, sendVars>>

-----------------------------------------------------------------------------
\* Sending.

\* A size of zero in senderConfig stands for the default.
MaxSizeOf(c, a) ==
  IF mailboxSender[c][a].maxPayloadSize = 0
  THEN defaultMaxPayloadSize[c]
  ELSE mailboxSender[c][a].maxPayloadSize

Fee(c, a, body) ==
  IF mailboxSender[c][a].feeDisabled THEN 0 ELSE PayloadSize[body] * feePerByte[c]

Payload(c, a, d, recipient, destinationCaller, body) ==
  [src |-> c, dst |-> d, nonce |-> globalNonce[c], sender |-> a,
   recipient |-> recipient, destinationCaller |-> destinationCaller,
   body |-> body]

\* Slip: the counter is not incremented.
KeepNonce(c) == globalNonce' = globalNonce

UseNonce(c) == globalNonce' = [globalNonce EXCEPT ![c] = @ + 1]

\* Slip: a message to nobody is let out.
ValidRecipientUnchecked(recipient) == TRUE

ValidRecipient(recipient) == recipient # Zero

\* The conditions under which send does not revert, and the bound.
CanSend(c, a, d, recipient, body, value) ==
  /\ WhenNotPaused(c)
  /\ ValidRecipient(recipient)
  /\ d \in outbound[c]
  /\ globalNonce[c] <= MaxNonce
  /\ PayloadSize[body] <= MaxSizeOf(c, a)
  /\ value >= Fee(c, a, body)

Send(c, a, d, recipient, destinationCaller, body, value) ==
  /\ CanSend(c, a, d, recipient, body, value)
  /\ UseNonce(c)
  /\ sent' = sent \cup {Payload(c, a, d, recipient, destinationCaller, body)}
  /\ fees' = [fees EXCEPT ![c] = @ + value]
  /\ UNCHANGED <<configVars, deliveryVars, notaryVars>>

-----------------------------------------------------------------------------
\* The consortium.

\* The notaries sign a payload they have seen in a MessageSent event.
Notarize(m) ==
  /\ proofs' = proofs \cup {<<m, epoch[m.dst]>>}
  /\ UNCHANGED <<epoch, configVars, deliveryVars, sendVars, fees>>

\* Consortium.setNextValidatorSet on chain c: proofs by older sets are void.
NextValidatorSet(c) ==
  /\ epoch[c] < MaxEpoch
  /\ epoch' = [epoch EXCEPT ![c] = @ + 1]
  /\ UNCHANGED <<proofs, configVars, deliveryVars, sendVars, fees>>

\* Consortium.checkProof accepts the signatures made by the validator set e.
CheckProof(c, m, e) == e = epoch[c] /\ <<m, e>> \in proofs

-----------------------------------------------------------------------------
\* Delivery on chain c of payload m by caller, with the signatures of set e.

\* Slip: the proof is not asked for.
VerifiedUnproved(c, m, e) == TRUE

\* Slip: the proof is asked for again on every retry.
VerifiedEveryTime(c, m, e) == CheckProof(c, m, e)

\* _verifyPayload: a payload delivered before needs no proof.
Verified(c, m, e) == m \in delivered[c] \/ CheckProof(c, m, e)

\* _deliver: the path id of the payload names both chains.
AcceptsPath(c, m) == m.dst = c /\ m.src \in inbound[c]

Deliverable(c, m, e, caller) ==
  /\ WhenNotPaused(c)
  /\ AcceptsPath(c, m)
  /\ Verified(c, m, e)
  /\ m.destinationCaller \in {Zero, caller}
  /\ m.recipient \in Handlers

RecordDelivery(c, m) ==
  delivered' = [delivered EXCEPT ![c] = @ \cup {m}]

\* Slip: a payload whose handler reverted is recorded as handled.
RecordHandlingAlways(c, m, success) ==
  handled' = [handled EXCEPT ![c] = @ \cup {m}]

RecordHandling(c, m, success) ==
  handled' = [handled EXCEPT ![c] = IF success THEN @ \cup {m} ELSE @]

\* success tells whether the recipient's handlePayload returned.
DeliverAndHandle(c, m, e, caller, success) ==
  /\ Deliverable(c, m, e, caller)
  /\ RecordDelivery(c, m)
  /\ RecordHandling(c, m, success)
  /\ UNCHANGED <<configVars, notaryVars, sendVars, fees>>

-----------------------------------------------------------------------------
AdminOfMailbox(c) ==
  \/ \E d \in Chains, direction \in Directions :
       /\ <<c, d>> \in Links
       /\ \/ EnableMessagePath(c, d, direction)
          \/ DisableMessagePath(c, d, direction)
  \/ \E size \in PayloadSizes :
       \/ SetDefaultMaxPayloadSize(c, size)
       \/ \E a \in Senders, b \in BOOLEAN : SetSenderConfig(c, a, size, b)
  \/ \E rate \in FeeRates : SetFee(c, rate)
  \/ Pause(c)
  \/ Unpause(c)
  \/ WithdrawFee(c)

SendAny(c) ==
  \E a \in Addresses, d \in Chains, recipient \in Addresses \cup {Zero},
     destinationCaller \in Addresses \cup {Zero}, body \in Bodies,
     value \in Values :
    Send(c, a, d, recipient, destinationCaller, body, value)

DeliverAny(c) ==
  \E m \in sent, e \in 1..epoch[c], caller \in Addresses, success \in BOOLEAN :
    DeliverAndHandle(c, m, e, caller, success)

Next ==
  \/ \E c \in Chains :
       AdminOfMailbox(c) \/ SendAny(c) \/ NextValidatorSet(c) \/ DeliverAny(c)
  \/ \E m \in sent : Notarize(m)

Spec == Init /\ [][Next]_mailboxVars

-----------------------------------------------------------------------------
TypeOK ==
  /\ globalNonce \in [Chains -> Nat]
  /\ outbound \in [Chains -> SUBSET Chains]
  /\ inbound \in [Chains -> SUBSET Chains]
  /\ delivered \in [Chains -> SUBSET Messages]
  /\ handled \in [Chains -> SUBSET Messages]
  /\ defaultMaxPayloadSize \in [Chains -> Nat]
  /\ mailboxSender \in [Chains -> [Senders -> SenderConfigs]]
  /\ feePerByte \in [Chains -> Nat]
  /\ fees \in [Chains -> Nat]
  /\ paused \in [Chains -> BOOLEAN]
  /\ sent \in SUBSET Messages
  /\ epoch \in [Chains -> Nat]
  /\ proofs \in SUBSET (Messages \X Nat)

(***************************************************************************)
(* The counter tells the messages of a chain apart: two messages with the  *)
(* same source and nonce are the same message, so two identical calls of   *)
(* send never collapse into one payload hash ("makes each payload unique").*)
(***************************************************************************)
NonceIdentifies ==
  \A m, n \in sent :
    m.src = n.src =>
      /\ m.nonce < globalNonce[m.src]
      /\ m.nonce = n.nonce => m = n

(***************************************************************************)
(* What a mailbox handled it had delivered, and what it delivered was      *)
(* signed for it by the consortium and sent by another mailbox to this     *)
(* chain, through all retries and changes of paths and validator sets.     *)
(***************************************************************************)
ChainOfCustody ==
  \A c \in Chains :
    /\ handled[c] \subseteq delivered[c]
    /\ \A m \in delivered[c] :
         /\ m \in sent /\ m.dst = c
         /\ \E e \in 1..epoch[c] : <<m, e>> \in proofs

(***************************************************************************)
(* A paused mailbox neither sends, delivers nor handles anything, and its  *)
(* fees stay where they are, in every interleaving with the operations     *)
(* that remain open to the admin.                                          *)
(***************************************************************************)
PausedMailboxIsIdle ==
  [][ \A c \in Chains :
        paused[c] => /\ globalNonce'[c] = globalNonce[c]
                     /\ delivered'[c] = delivered[c]
                     /\ handled'[c] = handled[c]
                     /\ fees'[c] = fees[c] ]_mailboxVars

(***************************************************************************)
(* "When defaultMaxPayloadSize equals 0, there whitelisting of allowed     *)
(* senders" (_validatePayloadSize): with a zero default only addresses the *)
(* admin gave a size of their own get a message out.                       *)
(***************************************************************************)
ZeroDefaultMeansWhitelist ==
  [][ \A m \in sent' \ sent :
        defaultMaxPayloadSize[m.src] = 0
          => mailboxSender[m.src][m.sender].maxPayloadSize > 0 ]_mailboxVars

(***************************************************************************)
(* Delivery and handling are never taken back: no retry, pause, path       *)
(* change or validator set makes the mailbox forget a payload.             *)
(***************************************************************************)
DeliveryIsPermanent ==
  [][ \A c \in Chains : /\ delivered[c] \subseteq delivered'[c]
                        /\ handled[c] \subseteq handled'[c] ]_mailboxVars

=============================================================================
