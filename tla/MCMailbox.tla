------------------------------ MODULE MCMailbox -----------------------------
(***************************************************************************)
(* TLC instance of Mailbox: chain A sends to chain B.  A run starts from a *)
(* configured pair of mailboxes, and the admins of both together act at    *)
(* most MaxAdminOps times, at any moment.                                  *)
(***************************************************************************)
EXTENDS Mailbox

CONSTANTS A, B, User, Handler, Body, MaxAdminOps

VARIABLE adminOps

MCChains == {A, B}
MCLinks == {<<A, B>>, <<B, A>>}
MCAddresses == {User, Handler}
MCPayloadSize == [b \in {Body} |-> 1]

\* The calls that configure an empty pair of mailboxes.
Configured ==
  /\ globalNonce = [c \in Chains |-> 1]
  /\ outbound = [c \in Chains |-> IF c = A THEN {B} ELSE {}]
  /\ inbound = [c \in Chains |-> IF c = B THEN {A} ELSE {}]
  /\ delivered = [c \in Chains |-> {}]
  /\ handled = [c \in Chains |-> {}]
  /\ defaultMaxPayloadSize = [c \in Chains |-> 1]
  /\ mailboxSender = [c \in Chains |-> [a \in Senders |->
                        [maxPayloadSize |-> 0, feeDisabled |-> FALSE]]]
  /\ feePerByte = [c \in Chains |-> 1]
  /\ fees = [c \in Chains |-> 0]
  /\ paused = [c \in Chains |-> FALSE]
  /\ sent = {}
  /\ epoch = [c \in Chains |-> 1]
  /\ proofs = {}
  /\ adminOps = 0

AdminStep(c) ==
  /\ adminOps < MaxAdminOps
  /\ AdminOfMailbox(c)
  /\ adminOps' = adminOps + 1

\* User sends from A to B, to a contract or not, to be relayed by anyone or
\* by the handler itself.
SendFromA ==
  \E recipient \in Addresses \cup {Zero}, destinationCaller \in {Zero, Handler},
     value \in Values :
    Send(A, User, B, recipient, destinationCaller, Body, value)

MCNext ==
  \/ \E c \in Chains : AdminStep(c)
  \/ /\ \/ SendFromA
        \/ NextValidatorSet(B)
        \/ DeliverAny(B)
        \/ \E m \in sent : Notarize(m)
     /\ UNCHANGED adminOps

MCSpec == Configured /\ [][MCNext]_<<mailboxVars, adminOps>>

=============================================================================
