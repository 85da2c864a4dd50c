---------------------------- MODULE MailboxProofs ---------------------------
(***************************************************************************)
(* Proofs about Mailbox, for any chains, links, addresses, bodies and any  *)
(* bounds.                                                                 *)
(***************************************************************************)
EXTENDS Mailbox, TLAPS

(***************************************************************************)
(* The steps, one disjunct per operation, so that every proof that splits  *)
(* on the next-state relation splits in the same way.                      *)
(***************************************************************************)
AdminStep ==
  \E c \in Chains :
    \/ \E d \in Chains, direction \in Directions :
         \/ EnableMessagePath(c, d, direction)
         \/ DisableMessagePath(c, d, direction)
    \/ \E size \in PayloadSizes : SetDefaultMaxPayloadSize(c, size)
    \/ \E size \in PayloadSizes, a \in Senders, b \in BOOLEAN :
         SetSenderConfig(c, a, size, b)
    \/ \E rate \in FeeRates : SetFee(c, rate)
    \/ Pause(c)
    \/ Unpause(c)
    \/ WithdrawFee(c)

LEMMA NextCases ==
  ASSUME Next
  PROVE  \/ AdminStep
         \/ \E c \in Chains : SendAny(c)
         \/ \E c \in Chains : NextValidatorSet(c)
         \/ \E c \in Chains : DeliverAny(c)
         \/ \E m \in sent : Notarize(m)
  BY DEF Next, AdminStep, AdminOfMailbox

\* An admin touches neither messages nor signatures.
LEMMA AdminLeavesMessages ==
  ASSUME AdminStep
  PROVE  UNCHANGED <<deliveryVars, notaryVars, sendVars>>
  BY DEF AdminStep, EnableMessagePath, DisableMessagePath,
         SetDefaultMaxPayloadSize, SetSenderConfig, SetFee, Pause, Unpause,
         WithdrawFee, deliveryVars, notaryVars, sendVars, configVars

-----------------------------------------------------------------------------
LEMMA InitTypeOK == Init => TypeOK
<1> SUFFICES ASSUME Init PROVE TypeOK
  OBVIOUS
<1>1. [maxPayloadSize |-> 0, feeDisabled |-> FALSE] \in SenderConfigs
  BY DEF SenderConfigs
<1>2. mailboxSender \in [Chains -> [Senders -> SenderConfigs]]
  BY <1>1 DEF Init
<1>3. feePerByte \in [Chains -> Nat]
  BY MailboxAssumptions DEF Init
<1> QED
  BY <1>2, <1>3 DEF Init, TypeOK

LEMMA AdminTypeOK ==
  ASSUME TypeOK, AdminStep
  PROVE  TypeOK'
<1> USE MailboxAssumptions DEF TypeOK, configVars, deliveryVars, notaryVars,
        sendVars
<1>1. ASSUME NEW c \in Chains, NEW d \in Chains, NEW direction \in Directions,
             EnableMessagePath(c, d, direction)
      PROVE  TypeOK'
  BY <1>1 DEF EnableMessagePath
<1>2. ASSUME NEW c \in Chains, NEW d \in Chains, NEW direction \in Directions,
             DisableMessagePath(c, d, direction)
      PROVE  TypeOK'
  BY <1>2 DEF DisableMessagePath
<1>3. ASSUME NEW c \in Chains, NEW size \in PayloadSizes,
             SetDefaultMaxPayloadSize(c, size)
      PROVE  TypeOK'
  BY <1>3 DEF SetDefaultMaxPayloadSize
<1>4. ASSUME NEW c \in Chains, NEW size \in PayloadSizes,
             NEW a \in Senders, NEW b \in BOOLEAN,
             SetSenderConfig(c, a, size, b)
      PROVE  TypeOK'
  <2>1. [maxPayloadSize |-> size, feeDisabled |-> b] \in SenderConfigs
    BY DEF SenderConfigs
  <2>2. mailboxSender' \in [Chains -> [Senders -> SenderConfigs]]
    BY <1>4, <2>1 DEF SetSenderConfig
  <2> QED
    BY <1>4, <2>2 DEF SetSenderConfig
<1>5. ASSUME NEW c \in Chains, NEW rate \in FeeRates, SetFee(c, rate)
      PROVE  TypeOK'
  BY <1>5 DEF SetFee
<1>6. ASSUME NEW c \in Chains, Pause(c) \/ Unpause(c)
      PROVE  TypeOK'
  BY <1>6 DEF Pause, Unpause
<1>7. ASSUME NEW c \in Chains, WithdrawFee(c)
      PROVE  TypeOK'
  BY <1>7 DEF WithdrawFee
<1> HIDE DEF TypeOK, configVars, deliveryVars, notaryVars, sendVars
<1> QED
  BY <1>1, <1>2, <1>3, <1>4, <1>5, <1>6, <1>7 DEF AdminStep

LEMMA SendTypeOK ==
  ASSUME TypeOK,
         NEW c \in Chains, NEW a \in Addresses, NEW d \in Chains,
         NEW recipient \in Addresses \cup {Zero},
         NEW destinationCaller \in Addresses \cup {Zero},
         NEW body \in Bodies, NEW value \in Nat,
         Send(c, a, d, recipient, destinationCaller, body, value)
  PROVE  TypeOK'
<1>1. Payload(c, a, d, recipient, destinationCaller, body) \in Messages
  BY DEF Payload, Messages, TypeOK, Send, CanSend, ValidRecipient
<1>2. /\ globalNonce' \in [Chains -> Nat]
      /\ fees' \in [Chains -> Nat]
      /\ sent' \in SUBSET Messages
  BY <1>1 DEF Send, UseNonce, TypeOK
<1> QED
  BY <1>2 DEF Send, TypeOK, configVars, deliveryVars, notaryVars

LEMMA NextTypeOK == TypeOK /\ [Next]_mailboxVars => TypeOK'
<1> SUFFICES ASSUME TypeOK, [Next]_mailboxVars PROVE TypeOK'
  OBVIOUS
<1>1. CASE AdminStep
  BY <1>1, AdminTypeOK
<1>2. ASSUME NEW c \in Chains, SendAny(c) PROVE TypeOK'
  BY <1>2, SendTypeOK, MailboxAssumptions DEF SendAny
<1>3. ASSUME NEW c \in Chains, NextValidatorSet(c) PROVE TypeOK'
  BY <1>3 DEF NextValidatorSet, TypeOK, configVars, deliveryVars, sendVars
<1>4. ASSUME NEW c \in Chains, DeliverAny(c) PROVE TypeOK'
  BY <1>4 DEF DeliverAny, DeliverAndHandle, RecordDelivery, RecordHandling,
              TypeOK, configVars, notaryVars, sendVars
<1>5. ASSUME NEW m \in sent, Notarize(m) PROVE TypeOK'
  <2>1. <<m, epoch[m.dst]>> \in Messages \X Nat
    BY DEF TypeOK, Messages
  <2> QED
    BY <1>5, <2>1 DEF Notarize, TypeOK, configVars, deliveryVars, sendVars
<1>6. CASE UNCHANGED mailboxVars
  BY <1>6 DEF mailboxVars, TypeOK, configVars, deliveryVars, notaryVars, sendVars
<1> QED
  BY <1>1, <1>2, <1>3, <1>4, <1>5, <1>6, NextCases

(***************************************************************************)
(* Type correctness: what every other proof rests on.                      *)
(***************************************************************************)
THEOREM TypeCorrect == Spec => []TypeOK
<1>1. Init => TypeOK
  BY InitTypeOK
<1>2. TypeOK /\ [Next]_mailboxVars => TypeOK'
  BY NextTypeOK
<1> QED
  BY <1>1, <1>2, PTL DEF Spec

-----------------------------------------------------------------------------
LEMMA InitNonceIdentifies == Init => NonceIdentifies
  BY DEF Init, NonceIdentifies

LEMMA SendNonceIdentifies ==
  ASSUME TypeOK, NonceIdentifies,
         NEW c \in Chains, NEW a \in Addresses, NEW d \in Chains,
         NEW recipient \in Addresses \cup {Zero},
         NEW destinationCaller \in Addresses \cup {Zero},
         NEW body \in Bodies, NEW value \in Nat,
         Send(c, a, d, recipient, destinationCaller, body, value)
  PROVE  NonceIdentifies'
<1> DEFINE p == Payload(c, a, d, recipient, destinationCaller, body)
<1>1. p.src = c /\ p.nonce = globalNonce[c]
  BY DEF Payload
<1>2. sent' = sent \cup {p}
  BY DEF Send
<1>3. /\ globalNonce \in [Chains -> Nat]
      /\ globalNonce' = [globalNonce EXCEPT ![c] = @ + 1]
      /\ \A m \in sent : m.src \in Chains /\ m.nonce \in Nat
  BY DEF Send, UseNonce, TypeOK, Messages
<1> HIDE DEF p
<1> SUFFICES ASSUME NEW m \in sent', NEW n \in sent', m.src = n.src
             PROVE  /\ m.nonce < globalNonce'[m.src]
                    /\ m.nonce = n.nonce => m = n
  BY DEF NonceIdentifies
<1>4. CASE m = p
  <2>1. \A x \in sent : x.src = c => x.nonce < globalNonce[c]
    BY DEF NonceIdentifies
  <2> QED
    BY <1>1, <1>2, <1>3, <1>4, <2>1
<1>5. CASE m \in sent
  <2>1. m.nonce < globalNonce[m.src]
    BY <1>5 DEF NonceIdentifies
  <2>2. CASE n = p
    BY <1>1, <1>2, <1>3, <1>5, <2>1, <2>2
  <2>3. CASE n \in sent
    BY <1>3, <1>5, <2>1, <2>3 DEF NonceIdentifies
  <2> QED
    BY <1>2, <2>2, <2>3
<1> QED
  BY <1>2, <1>4, <1>5

LEMMA NextNonceIdentifies ==
  ASSUME TypeOK, NonceIdentifies, [Next]_mailboxVars
  PROVE  NonceIdentifies'
<1>1. ASSUME NEW c \in Chains, SendAny(c) PROVE NonceIdentifies'
  BY <1>1, SendNonceIdentifies, MailboxAssumptions DEF SendAny
<1>2. CASE UNCHANGED sendVars
  BY <1>2 DEF sendVars, NonceIdentifies
<1>3. ASSUME NEW c \in Chains, NextValidatorSet(c) \/ DeliverAny(c)
      PROVE  UNCHANGED sendVars
  BY <1>3 DEF NextValidatorSet, DeliverAny, DeliverAndHandle
<1>4. ASSUME NEW m \in sent, Notarize(m)
      PROVE  UNCHANGED sendVars
  BY <1>4 DEF Notarize
<1>5. UNCHANGED mailboxVars => UNCHANGED sendVars
  BY DEF mailboxVars
<1> QED
  BY <1>1, <1>2, <1>3, <1>4, <1>5, NextCases, AdminLeavesMessages

(***************************************************************************)
(* No two messages of a chain share a nonce, so none share a payload hash. *)
(***************************************************************************)
THEOREM NoncesAreUnique == Spec => []NonceIdentifies
<1>1. Init => NonceIdentifies
  BY InitNonceIdentifies
<1>2. TypeOK /\ NonceIdentifies /\ [Next]_mailboxVars => NonceIdentifies'
  BY NextNonceIdentifies
<1> QED
  BY <1>1, <1>2, TypeCorrect, PTL DEF Spec

-----------------------------------------------------------------------------
(***************************************************************************)
(* ChainOfCustody alone is not inductive: the proof a relayer presents     *)
(* must itself be about a sent message and a past validator set.           *)
(***************************************************************************)
ProofsAreGenuine ==
  \A p \in proofs : p[1] \in sent /\ p[2] \in 1..epoch[p[1].dst]

EpochsStarted == \A c \in Chains : epoch[c] >= 1

Custody == ProofsAreGenuine /\ EpochsStarted /\ ChainOfCustody

LEMMA InitCustody == Init => Custody
  BY DEF Init, Custody, ProofsAreGenuine, EpochsStarted, ChainOfCustody

\* Messages, signatures and epochs only grow, so what is about them stays.
LEMMA GrowthKeepsCustody ==
  ASSUME TypeOK, Custody,
         sent \subseteq sent', proofs' = proofs, UNCHANGED deliveryVars,
         \A c \in Chains : epoch'[c] \in Nat /\ epoch[c] <= epoch'[c]
  PROVE  Custody'
<1>1. \A m \in sent : m.dst \in Chains
  BY DEF TypeOK, Messages
<1>2. epoch \in [Chains -> Nat]
  BY DEF TypeOK
<1>3. \A c \in Chains : 1..epoch[c] \subseteq 1..epoch'[c]
  BY <1>2
<1>4. ProofsAreGenuine'
  BY <1>1, <1>3 DEF Custody, ProofsAreGenuine
<1>5. EpochsStarted'
  BY <1>2 DEF Custody, EpochsStarted
<1>6. ChainOfCustody'
  BY <1>3 DEF Custody, ChainOfCustody, deliveryVars
<1> QED
  BY <1>4, <1>5, <1>6 DEF Custody

LEMMA DeliverCustody ==
  ASSUME TypeOK, Custody,
         NEW c \in Chains, NEW m \in sent, NEW e, NEW caller,
         NEW success \in BOOLEAN,
         DeliverAndHandle(c, m, e, caller, success)
  PROVE  Custody'
<1>1. UNCHANGED <<sent, epoch, proofs>>
  BY DEF DeliverAndHandle, sendVars, notaryVars
<1>2. /\ delivered' = [delivered EXCEPT ![c] = @ \cup {m}]
      /\ handled' = [handled EXCEPT ![c] = IF success THEN @ \cup {m} ELSE @]
  BY DEF DeliverAndHandle, RecordDelivery, RecordHandling
<1>3. m.dst = c
  BY DEF DeliverAndHandle, Deliverable, AcceptsPath
<1>4. \E x \in 1..epoch[c] : <<m, x>> \in proofs
  <2>1. CASE m \in delivered[c]
    BY <2>1 DEF Custody, ChainOfCustody
  <2>2. CASE CheckProof(c, m, e)
    BY <1>3, <2>2 DEF CheckProof, Custody, ProofsAreGenuine
  <2> QED
    BY <2>1, <2>2 DEF DeliverAndHandle, Deliverable, Verified
<1>5. ChainOfCustody'
  <2> SUFFICES ASSUME NEW b \in Chains
               PROVE  /\ handled'[b] \subseteq delivered'[b]
                      /\ \A n \in delivered'[b] :
                           /\ n \in sent /\ n.dst = b
                           /\ \E x \in 1..epoch[b] : <<n, x>> \in proofs
    BY <1>1 DEF ChainOfCustody
  <2>1. /\ delivered'[b] = IF b = c THEN delivered[c] \cup {m} ELSE delivered[b]
        /\ handled'[b] \subseteq IF b = c THEN handled[c] \cup {m} ELSE handled[b]
    BY <1>2 DEF TypeOK
  <2> QED
    BY <1>3, <1>4, <2>1 DEF Custody, ChainOfCustody
<1> QED
  BY <1>1, <1>5 DEF Custody, ProofsAreGenuine, EpochsStarted

LEMMA NotarizeCustody ==
  ASSUME TypeOK, Custody, NEW m \in sent, Notarize(m)
  PROVE  Custody'
<1>1. /\ proofs' = proofs \cup {<<m, epoch[m.dst]>>}
      /\ UNCHANGED <<sent, epoch, delivered, handled>>
  BY DEF Notarize, sendVars, deliveryVars
<1>2. m.dst \in Chains /\ epoch[m.dst] \in 1..epoch[m.dst]
  BY DEF TypeOK, Messages, Custody, EpochsStarted
<1>3. ProofsAreGenuine'
  BY <1>1, <1>2 DEF Custody, ProofsAreGenuine
<1> QED
  BY <1>1, <1>3 DEF Custody, EpochsStarted, ChainOfCustody

LEMMA NextCustody ==
  ASSUME TypeOK, Custody, [Next]_mailboxVars
  PROVE  Custody'
<1> USE DEF TypeOK
<1>1. CASE AdminStep \/ UNCHANGED mailboxVars
  BY <1>1, AdminLeavesMessages, GrowthKeepsCustody
     DEF mailboxVars, sendVars, notaryVars
<1>2. ASSUME NEW c \in Chains, SendAny(c) PROVE Custody'
  BY <1>2, GrowthKeepsCustody DEF SendAny, Send, notaryVars
<1>3. ASSUME NEW c \in Chains, NextValidatorSet(c) PROVE Custody'
  BY <1>3, GrowthKeepsCustody DEF NextValidatorSet, sendVars
<1>4. ASSUME NEW c \in Chains, DeliverAny(c) PROVE Custody'
  BY <1>4, DeliverCustody DEF DeliverAny
<1>5. ASSUME NEW m \in sent, Notarize(m) PROVE Custody'
  BY <1>5, NotarizeCustody
<1> QED
  BY <1>1, <1>2, <1>3, <1>4, <1>5, NextCases

(***************************************************************************)
(* Whatever a mailbox has handled it has delivered, and whatever it has    *)
(* delivered was sent to its chain and signed by a validator set of it.    *)
(***************************************************************************)
THEOREM CustodyHolds == Spec => []ChainOfCustody
<1>1. Init => Custody
  BY InitCustody
<1>2. TypeOK /\ Custody /\ [Next]_mailboxVars => Custody'
  BY NextCustody
<1>3. Custody => ChainOfCustody
  BY DEF Custody
<1> QED
  BY <1>1, <1>2, <1>3, TypeCorrect, PTL DEF Spec

-----------------------------------------------------------------------------
\* What a step changes: each variable only in the operations that write it.
LEMMA StepOfDelivery ==
  ASSUME TypeOK, [Next]_mailboxVars
  PROVE  \/ UNCHANGED deliveryVars
         \/ \E c \in Chains, m \in sent, success \in BOOLEAN :
              /\ WhenNotPaused(c)
              /\ RecordDelivery(c, m)
              /\ RecordHandling(c, m, success)
              /\ UNCHANGED <<sendVars, fees>>
<1>1. ASSUME NEW c \in Chains, DeliverAny(c)
      PROVE  \E m \in sent, success \in BOOLEAN :
               /\ WhenNotPaused(c)
               /\ RecordDelivery(c, m)
               /\ RecordHandling(c, m, success)
               /\ UNCHANGED <<sendVars, fees>>
  BY <1>1 DEF DeliverAny, DeliverAndHandle, Deliverable
<1>2. ASSUME NEW c \in Chains, SendAny(c) \/ NextValidatorSet(c)
      PROVE  UNCHANGED deliveryVars
  BY <1>2 DEF SendAny, Send, NextValidatorSet
<1>3. ASSUME NEW m \in sent, Notarize(m)
      PROVE  UNCHANGED deliveryVars
  BY <1>3 DEF Notarize
<1>4. UNCHANGED mailboxVars => UNCHANGED deliveryVars
  BY DEF mailboxVars
<1> QED
  BY <1>1, <1>2, <1>3, <1>4, NextCases, AdminLeavesMessages

(***************************************************************************)
(* No step takes back a delivery or a handling.                            *)
(***************************************************************************)
THEOREM DeliveriesArePermanent == Spec => DeliveryIsPermanent
<1>1. ASSUME TypeOK, [Next]_mailboxVars
      PROVE  \A c \in Chains : /\ delivered[c] \subseteq delivered'[c]
                               /\ handled[c] \subseteq handled'[c]
  <2>1. CASE UNCHANGED deliveryVars
    BY <2>1 DEF deliveryVars
  <2>2. ASSUME NEW c \in Chains, NEW m \in sent, NEW success \in BOOLEAN,
               RecordDelivery(c, m), RecordHandling(c, m, success)
        PROVE  \A d \in Chains : /\ delivered[d] \subseteq delivered'[d]
                                 /\ handled[d] \subseteq handled'[d]
    BY <1>1, <2>2 DEF RecordDelivery, RecordHandling, TypeOK
  <2> QED
    BY <1>1, <2>1, <2>2, StepOfDelivery
<1> QED
  BY <1>1, TypeCorrect, PTL DEF Spec, DeliveryIsPermanent

LEMMA StepOfSending ==
  ASSUME [Next]_mailboxVars
  PROVE  \/ UNCHANGED <<globalNonce, fees>>
         \/ \E c \in Chains : \E n, x :
              /\ WhenNotPaused(c)
              /\ globalNonce' = [globalNonce EXCEPT ![c] = n]
              /\ fees' = [fees EXCEPT ![c] = x]
         \/ \E c \in Chains : \E x :
              /\ WhenNotPaused(c)
              /\ globalNonce' = globalNonce
              /\ fees' = [fees EXCEPT ![c] = x]
<1>1. CASE AdminStep
  BY <1>1 DEF AdminStep, EnableMessagePath, DisableMessagePath,
              SetDefaultMaxPayloadSize, SetSenderConfig, SetFee, Pause, Unpause,
              WithdrawFee, sendVars
<1>2. ASSUME NEW c \in Chains, SendAny(c)
      PROVE  \E n, x : /\ WhenNotPaused(c)
                       /\ globalNonce' = [globalNonce EXCEPT ![c] = n]
                       /\ fees' = [fees EXCEPT ![c] = x]
  BY <1>2 DEF SendAny, Send, CanSend, UseNonce
<1>3. ASSUME NEW c \in Chains, NextValidatorSet(c) \/ DeliverAny(c)
      PROVE  UNCHANGED <<globalNonce, fees>>
  BY <1>3 DEF NextValidatorSet, DeliverAny, DeliverAndHandle, sendVars
<1>4. ASSUME NEW m \in sent, Notarize(m)
      PROVE  UNCHANGED <<globalNonce, fees>>
  BY <1>4 DEF Notarize, sendVars
<1>5. UNCHANGED mailboxVars => UNCHANGED <<globalNonce, fees>>
  BY DEF mailboxVars, sendVars
<1> QED
  BY <1>1, <1>2, <1>3, <1>4, <1>5, NextCases

(***************************************************************************)
(* While a mailbox is paused nothing is sent from it, delivered to it or   *)
(* taken out of it.                                                        *)
(***************************************************************************)
THEOREM PauseHolds == Spec => PausedMailboxIsIdle
<1>1. ASSUME TypeOK, [Next]_mailboxVars, NEW c \in Chains, paused[c]
      PROVE  /\ globalNonce'[c] = globalNonce[c]
             /\ delivered'[c] = delivered[c]
             /\ handled'[c] = handled[c]
             /\ fees'[c] = fees[c]
  <2>1. delivered'[c] = delivered[c] /\ handled'[c] = handled[c]
    <3>1. ASSUME NEW d \in Chains, NEW m \in sent, NEW success \in BOOLEAN,
                 WhenNotPaused(d),
                 RecordDelivery(d, m), RecordHandling(d, m, success)
          PROVE  delivered'[c] = delivered[c] /\ handled'[c] = handled[c]
      BY <1>1, <3>1 DEF WhenNotPaused, RecordDelivery, RecordHandling, TypeOK
    <3> QED
      BY <1>1, <3>1, StepOfDelivery DEF deliveryVars
  <2>2. globalNonce'[c] = globalNonce[c] /\ fees'[c] = fees[c]
    BY <1>1, StepOfSending DEF WhenNotPaused, TypeOK
  <2> QED
    BY <2>1, <2>2
<1>2. TypeOK /\ [Next]_mailboxVars
        => \A c \in Chains : paused[c] => /\ globalNonce'[c] = globalNonce[c]
                                          /\ delivered'[c] = delivered[c]
                                          /\ handled'[c] = handled[c]
                                          /\ fees'[c] = fees[c]
  BY <1>1
<1> QED
  BY <1>2, TypeCorrect, PTL DEF Spec, PausedMailboxIsIdle

(***************************************************************************)
(* With a zero default size only senders with a size of their own send: no *)
(* payload is empty, since its header has a length of its own.             *)
(***************************************************************************)
THEOREM ZeroDefaultHolds == Spec => ZeroDefaultMeansWhitelist
<1>1. ASSUME TypeOK, [Next]_mailboxVars, NEW m \in sent' \ sent,
             defaultMaxPayloadSize[m.src] = 0
      PROVE  mailboxSender[m.src][m.sender].maxPayloadSize > 0
  <2>1. ASSUME NEW c \in Chains, NEW a \in Addresses, NEW d \in Chains,
               NEW recipient \in Addresses \cup {Zero},
               NEW destinationCaller \in Addresses \cup {Zero},
               NEW body \in Bodies, NEW value \in Values,
               Send(c, a, d, recipient, destinationCaller, body, value)
        PROVE  mailboxSender[m.src][m.sender].maxPayloadSize > 0
    <3>1. m.src = c /\ m.sender = a
      BY <1>1, <2>1 DEF Send, Payload
    <3>2. PayloadSize[body] \in Nat /\ PayloadSize[body] > 0
      BY MailboxAssumptions
    <3>3. mailboxSender[c][a].maxPayloadSize \in Nat
      BY <1>1 DEF TypeOK, SenderConfigs, Senders
    <3> QED
      BY <1>1, <2>1, <3>1, <3>2, <3>3 DEF Send, CanSend, MaxSizeOf
  <2>2. \E c \in Chains : SendAny(c)
    <3>1. sent' # sent
      BY <1>1
    <3>2. ~AdminStep
      BY <3>1, AdminLeavesMessages DEF sendVars
    <3>3. \A c \in Chains : ~NextValidatorSet(c) /\ ~DeliverAny(c)
      BY <3>1 DEF NextValidatorSet, DeliverAny, DeliverAndHandle, sendVars
    <3>4. \A x \in sent : ~Notarize(x)
      BY <3>1 DEF Notarize, sendVars
    <3> QED
      BY <1>1, <3>1, <3>2, <3>3, <3>4, NextCases DEF mailboxVars, sendVars
  <2> QED
    BY <2>1, <2>2 DEF SendAny
<1>2. TypeOK /\ [Next]_mailboxVars
        => \A m \in sent' \ sent :
             defaultMaxPayloadSize[m.src] = 0
               => mailboxSender[m.src][m.sender].maxPayloadSize > 0
  BY <1>1
<1> QED
  BY <1>2, TypeCorrect, PTL DEF Spec, ZeroDefaultMeansWhitelist

=============================================================================
