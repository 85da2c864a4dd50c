------------------------------ MODULE MCOftLane ------------------------------
(***************************************************************************)
(* The lane in use, with the second adapter at home deployed and known to  *)
(* nobody but its owner, who makes up to MaxAdminOps calls at any time.    *)
(***************************************************************************)
EXTENDS OftLane

CONSTANTS lockbox, homeMinter, awayMinter, d1, MaxAdminOps

VARIABLE adminOps

MCDvns == {d1}
MCRateConfigs == {<<2, 2>>, <<9, 2>>}

Usual == [amountInFlight |-> 0, age |-> 3, limit |-> 4, window |-> 3]

MCInit ==
  /\ rateLimits = [a \in Adapters |-> [d \in Directions |->
       IF a = AwayMinter THEN Usual ELSE [EmptyBucket EXCEPT !.limit = 4]]]
  /\ peers = [a \in Adapters |-> IF a = AwayMinter THEN Lockbox ELSE AwayMinter]
  /\ sendUln = [a \in Adapters |-> [confirmations |-> 1, dvns |-> {}]]
  /\ receiveUln = sendUln
  /\ messages = {} /\ verified = {} /\ received = {}
  /\ circulating = [c \in Chains |-> IF c = "home" THEN Supply ELSE 0]
  /\ locked = 0
  /\ emptied = FALSE
  /\ watch = None /\ net = 0 /\ elapsed = 0
  /\ adminOps = 0

Stricter == [confirmations |-> 1, dvns |-> {d1}]

\* What the owner may do to each adapter differs, to have all of it once.
MCOwnerStep ==
  \/ SetRateLimits(AwayMinter, "Inbound", 2, 2)
  \/ SetRateLimits(AwayMinter, "Outbound", 9, 2)
  \/ \E b \in {HomeMinter, Zero} : PeerStep(AwayMinter, b)
  \/ PeerStep(Lockbox, Zero)
  \/ SetupEndpointConfig(AwayMinter, Stricter, TRUE)
  \/ SetupEndpointConfig(Lockbox, Stricter, FALSE)
  \/ Empty

MCNext ==
  \/ MCOwnerStep /\ adminOps < MaxAdminOps /\ adminOps' = adminOps + 1
  \/ /\ TransferStep \/ Tick \/ StartWatch(AwayMinter, "Inbound")
     /\ UNCHANGED adminOps

MCSpec == MCInit /\ [][MCNext]_<<vars, adminOps>> /\ Fairness

=============================================================================
