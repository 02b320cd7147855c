------------------------------ MODULE MCLeases ------------------------------
(***************************************************************************)
(* Small instances of Leases for TLC.  One tick is one second, and a gap    *)
(* of more than one tick is not paid.                                      *)
(***************************************************************************)
EXTENDS Leases, TLC

CONSTANTS
  l1, l2, alice, bruno, carla, gpu, root, stage, cell, rack,
  Restarted    \* nodes that have used up their restarts at the start

MCMaxAmount == 1000

\* The laboratory as it is when contracts are offered: every node has registered
\* and serves, every route is published, accepted and qualified.
MCInit ==
  /\ balance = [a \in Account |->
       IF \E u \in User : a = Available(u) THEN Funds[a[2]]
       ELSE IF a = LabIssuer THEN 0 - SumFunction(Funds) ELSE 0]
  /\ journal = {}
  /\ epoch = [n \in Node |-> IF n \in Restarted THEN MaxEpoch ELSE 1]
  /\ phase = [n \in Node |-> "READY"]
  /\ desired = [n \in Node |-> "READY"]
  /\ fresh = [n \in Node |-> TRUE]
  /\ preview = TRUE
  /\ routeState = [r \in Route |-> "LOCAL_PREVIEW"]
  /\ consent = [r \in Route |-> [u \in User |->
       IF u \in Providers(r) THEN "GIVEN" ELSE "NONE"]]
  /\ now = 0 /\ recent = Node /\ due = {}
  /\ lease = [l \in Lease |-> NewLease]
  /\ claimant = [d \in Domain |-> None]

MCSpec == MCInit /\ [][Next]_vars
MCFairSpec == MCSpec /\ Fairness

-----------------------------------------------------------------------------
\* One node, and two contracts for it: one of a customer, and one that the node's
\* owner can fund only from what the first has paid.
NodeSponsor == l1 :> alice @@ l2 :> bruno
NodeBacked == l1 :> 1 @@ l2 :> 1
NodeDuration == l1 :> 2 @@ l2 :> 1
NodeRate == l1 :> 3 @@ l2 :> 2
NodeFunds == alice :> 6 @@ bruno :> 0
NodeOwner == gpu :> bruno
NodeHost == gpu :> rack
NodeMembers == << <<gpu>> >>
NodeShares == << <<10000>> >>

-----------------------------------------------------------------------------
\* A route of two providers, for a window whose shares do not divide evenly.
RouteSponsor == l1 :> alice
RouteBacked == l1 :> 1
RouteDuration == l1 :> 2
RouteRate == l1 :> 3
RouteFunds == alice :> 9 @@ bruno :> 0 @@ carla :> 0
RouteOwner == root :> bruno @@ stage :> carla
RouteHost == root :> rack @@ stage :> cell
RouteMembers == << <<root, stage>> >>
RouteShares == << <<3000, 7000>> >>

-----------------------------------------------------------------------------
\* A node lease and a route lease that share the machine of the stage.
SharedSponsor == l1 :> alice @@ l2 :> alice
SharedBacked == l1 :> 1 @@ l2 :> 2
SharedDuration == l1 :> 1 @@ l2 :> 2
SharedRate == l1 :> 2 @@ l2 :> 2
SharedFunds == alice :> 6 @@ bruno :> 0
SharedOwner == gpu :> bruno @@ root :> bruno @@ stage :> bruno
SharedHost == gpu :> cell @@ root :> rack @@ stage :> cell
SharedMembers == << <<gpu>>, <<root, stage>> >>
SharedShares == << <<10000>>, <<3000, 7000>> >>

=============================================================================
