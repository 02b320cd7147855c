----------------------------- MODULE MCSessions -----------------------------
(***************************************************************************)
(* Small instances of Sessions for TLC.                                    *)
(***************************************************************************)
EXTENDS Sessions

CONSTANTS s1, s2, s3, alice, bruno, carla, gpu, twin, root, stage, cell, rack

\* Amounts of the instances are small; the largest line is far from the bound.
MCMaxAmount == 1000

-----------------------------------------------------------------------------
\* Two nodes of bruno on a machine with one slot; alice is a
\* consumer with two requests, and bruno can only consume what his node earned.
PlainRequester == s1 :> alice @@ s2 :> alice @@ s3 :> bruno
PlainHold == s1 :> 5 @@ s2 :> 5 @@ s3 :> 5
PlainOpening == alice :> 10 @@ bruno :> 3
PlainIssued == 13
PlainSlots == rack :> 1
PlainOwner == gpu :> bruno @@ twin :> bruno
PlainHost == gpu :> rack @@ twin :> rack
PlainMembers == << <<gpu>>, <<twin>> >>
PlainShares == << <<10000>>, <<10000>> >>

-----------------------------------------------------------------------------
\* A complete route: the root on one machine, one stage on another.
RouteRequester == s1 :> alice
RouteHold == s1 :> 7
RouteOpening == alice :> 7 @@ bruno :> 0 @@ carla :> 0
RouteIssued == 7
RouteSlots == rack :> 1 @@ cell :> 1
RouteOwner == root :> bruno @@ stage :> carla
RouteHost == root :> rack @@ stage :> cell
RouteMembers == << <<root, stage>> >>
RouteShares == << <<3000, 7000>> >>

=============================================================================
