----------------------------- MODULE MCDelivery -----------------------------
(***************************************************************************)
(* Small instances of Delivery for TLC: one node, one or two requests.     *)
(***************************************************************************)
EXTENDS Delivery

CONSTANTS s1, s2, alice, bruno, gpu, rack

MCMaxAmount == 1000

OneRequester == s1 :> alice
OneHold == s1 :> 5
OneDirectory == <<s1>>

TwoRequester == s1 :> alice @@ s2 :> alice
TwoHold == s1 :> 5 @@ s2 :> 5
TwoDirectory == <<s1, s2>>

MCOpening == alice :> 10 @@ bruno :> 0
MCIssued == 10
MCSlots == rack :> 1
TwoSlots == rack :> 2
MCOwner == gpu :> bruno
MCHost == gpu :> rack
MCMembers == << <<gpu>> >>
MCShares == << <<10000>> >>
-----------------------------------------------------------------------------
(* Where two requests on one node leave off.                               *)

\* Two slots, one permit: both requests have been claimed, the process has
\* stopped with the receipts of both on its disk, and the coordinator has not
\* noticed yet.
Stopped ==
  /\ balance = [a \in Account |-> IF a = Held(alice) THEN 10
                                 ELSE IF a = LabIssuer THEN -10 ELSE 0]
  /\ journal = {HoldKey(s1), HoldKey(s2)}
  /\ row = [s \in Session |-> [NewRow EXCEPT !.state = "RUNNING", !.offer = 1,
                                !.epochs = gpu :> 1, !.claimed = {gpu}]]
  /\ created = s1 :> 1 @@ s2 :> 2
  /\ served = alice :> 2 @@ bruno :> 0
  /\ gate = [s \in Session |-> "OVER"]
  /\ told = [s \in Session |-> "DONE"]
  /\ agent = gpu :> Down
  /\ epoch = gpu :> 1
  /\ outbox = [s \in Session |-> [report |-> "COMPLETED", cost |-> 3]]

\* The second request failed before it was admitted; the first is to come, and
\* the process, which has been restarted, keeps running.
Alone ==
  /\ balance = [a \in Account |-> IF a = Available(alice) THEN 10
                                 ELSE IF a = LabIssuer THEN -10 ELSE 0]
  /\ journal = {HoldKey(s2), SettleKey(s2)}
  /\ row = [s \in Session |-> IF s = s2
       THEN [NewRow EXCEPT !.state = "FAILED", !.billing = "REFUNDED"] ELSE NewRow]
  /\ created = s1 :> 0 @@ s2 :> 1
  /\ served = alice :> 0 @@ bruno :> 0
  /\ gate = s1 :> "IDLE" @@ s2 :> "OVER"
  /\ told = [s \in Session |-> "NOTHING"]
  /\ agent = gpu :> [Down EXCEPT !.up = TRUE, !.epoch = 2]
  /\ epoch = gpu :> 2
  /\ outbox = [s \in Session |-> NoReceipt]

LaterInit ==
  /\ Stopped \/ Alone
  /\ phase = gpu :> "READY"
  /\ desired = gpu :> "READY" /\ fresh = gpu :> TRUE
  /\ listed = Offer
  /\ overdue = {}
  /\ local = [s \in Session |-> "NONE"]
  /\ token = {}
  /\ loop = gpu :> Rest

LaterSpec ==
  LaterInit /\ [][AllNext]_allVars /\ DeliveryFairness /\ DeliverySucceeds
=============================================================================
