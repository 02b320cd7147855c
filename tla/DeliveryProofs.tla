--------------------------- MODULE DeliveryProofs ---------------------------
(***************************************************************************)
(* Theorems about Delivery: every step of the processes is a step of the   *)
(* coordinator or leaves it alone, so that all that is proved of Sessions  *)
(* holds here too, and what the node and the gateway promise on top of it. *)
(***************************************************************************)
EXTENDS Delivery, SessionsProofs

(* What the processes know of a session, and what follows for its row.     *)

\* The gateway has not yet asked the node for anything.
Early == {"IDLE", "ADMIT", "PREPARE"}

\* Whatever a process holds of s was made for an admitted session.
Admitted(s) ==
  local[s] # "NONE" \/ outbox[s] # NoReceipt \/ gate[s] = "PREPARE" => row[s].offer \in Offer
Bound(s) == local[s] # "NONE" => Alive(s)
Confirmed(s) == local[s] \in InRunning => At(s) \in row[s].claimed
Untouched(s) == gate[s] \in Early => local[s] = "NONE" /\ outbox[s] = NoReceipt
Unwritten(s) ==
  local[s] \in {"PREPARED", "STALE", "CLAIMING", "RUNNING"} => outbox[s] = NoReceipt
Written(s) ==
  \/ outbox[s] = NoReceipt
  \/ outbox[s].report = "COMPLETED" /\ outbox[s].cost \in Charge
  \/ outbox[s].report \in Reports /\ outbox[s].cost = 0
\* A plain session that has not ended has no report,
Unreported(s) == row[s].state \in Live => \A n \in Node : row[s].report[n] = Pending
\* and the report it has is the one that the node wrote.
Evident(s) ==
  row[s].offer \in Offer /\ row[s].report[At(s)] # Pending =>
    /\ gate[s] \notin Early /\ local[s] \in {"NONE", "REPORTING"}
    /\ outbox[s] = NoReceipt \/ outbox[s].report = row[s].report[At(s)]
\* The loop removes a receipt before the execution does only at the end.
Kept(s) == local[s] = "REPORTING" /\ outbox[s] = NoReceipt => row[s].state \in Terminal
\* A consumer is told of a failure when nothing can be charged any more.
Freed(s) ==
  told[s] = "FAILED" =>
    /\ gate[s] = "OVER" /\ local[s] = "NONE" /\ row[s].charged = 0
    /\ row[s].state \in Terminal \/ outbox[s].report # "COMPLETED"

Keeping(s) ==
  /\ Admitted(s) /\ Bound(s) /\ Confirmed(s) /\ Untouched(s) /\ Unwritten(s)
  /\ Written(s) /\ Unreported(s) /\ Evident(s) /\ Kept(s) /\ Freed(s)

DeliveryInv == SessionsInv /\ DeliveryTypeOK /\ \A s \in Session : Keeping(s)

-----------------------------------------------------------------------------
(* What a step of the coordinator may do to a row.                         *)

Frozen(t) ==
  row[t].offer \in Offer =>
    /\ row'[t].offer = row[t].offer /\ row'[t].epochs = row[t].epochs
    /\ row[t].claimed \subseteq row'[t].claimed
Final(t) == row[t].state \in Terminal => row'[t] = row[t]

\* A step that brings no evidence for t.
Quiet(t) ==
  /\ Frozen(t) /\ Final(t)
  /\ row'[t].report = row[t].report
  /\ row'[t].charged \in {0, row[t].charged}

\* A row that is written on, or ended, without a report.
LEMMA QuietRow ==
  ASSUME SessionsInv, NEW s \in Session, NEW r,
         row' = [row EXCEPT ![s] = r],
         row[s].state \notin Terminal,
         row[s].offer \in Offer =>
           /\ r.offer = row[s].offer /\ r.epochs = row[s].epochs
           /\ row[s].claimed \subseteq r.claimed,
         r.report = row[s].report,
         r.charged \in {0, row[s].charged}
  PROVE  \A t \in Session : Quiet(t)
<1>1. row'[s] = r /\ \A t \in Session \ {s} : row'[t] = row[t]
  BY DEF SessionsInv, SessionsTypeOK
<1> QED BY <1>1 DEF Quiet, Frozen, Final

\* Ending s without a charge brings no evidence.
LEMMA QuietEnd ==
  ASSUME SessionsInv, NEW s \in Session, NEW state, NEW billing,
         row[s].state \in Live, finalize(s, row[s], state, 0, billing)
  PROVE  \A t \in Session : Quiet(t)
<1> DEFINE last == [row[s] EXCEPT !.state = state, !.billing = billing, !.charged = 0]
<1>1. row[s] \in Row
  BY DEF SessionsInv, SessionsTypeOK
<1>2. /\ last.offer = row[s].offer /\ last.epochs = row[s].epochs
      /\ last.claimed = row[s].claimed /\ last.report = row[s].report /\ last.charged = 0
  BY <1>1 DEF Row
<1>3. row' = [row EXCEPT ![s] = last]
  BY DEF finalize
<1> HIDE DEF last
<1> QED BY <1>2, <1>3, QuietRow DEF Live, Active, Terminal

\* No request of the gateway, claim, cancellation or deadline brings evidence.
LEMMA QuietSteps ==
  ASSUME SessionsInv, NEW s \in Session,
         \/ create(s) \/ Expire(s) \/ admitLate(s) \/ authorize(s) \/ claim(s)
         \/ cancel(s) \/ fail(s) \/ reap(s)
         \/ \E o \in Offer : admit(s, o)
         \/ \E n \in Node : lateReceipt(s, n)
  PROVE  \A t \in Session : Quiet(t)
<1> USE DEF Live, Active, Terminal
<1>0. row[s] \in Row /\ row \in [Session -> Row]
  BY DEF SessionsInv, SessionsTypeOK
<1>1. CASE create(s)
  <2>1. row' = [row EXCEPT ![s] = [row[s] EXCEPT !.state = "QUEUED"]] /\ row[s].state = "NEW"
    BY <1>0, <1>1 DEF create
  <2> QED BY <1>0, <2>1, QuietRow DEF Row
<1>2. CASE Expire(s)
  BY <1>2 DEF Expire, Quiet, Frozen, Final
<1>3. CASE admitLate(s) \/ fail(s) \/ reap(s) \/ \E n \in Node : lateReceipt(s, n)
  BY <1>3, QuietEnd DEF admitLate, fail, reap, lateReceipt, Unclaimed
<1>4. CASE authorize(s)
  <2>1. row' = [row EXCEPT ![s] = [row[s] EXCEPT !.state = "AUTHORIZED"]]
        /\ row[s].state = "PREPARING"
    BY <1>0, <1>4 DEF authorize
  <2> QED BY <1>0, <2>1, QuietRow DEF Row
<1>5. CASE claim(s)
  <2>1. row' = [row EXCEPT ![s] = [row[s] EXCEPT !.state = "RUNNING",
                                    !.claimed = @ \cup {Root(row[s].offer)}]]
        /\ row[s].state = "AUTHORIZED"
    BY <1>0, <1>5 DEF claim
  <2> QED BY <1>0, <2>1, QuietRow DEF Row
<1>6. CASE cancel(s)
  <2>1. CASE row[s].state \in Unclaimed /\ finalize(s, row[s], "CANCELLED", 0, "REFUNDED")
    BY <2>1, QuietEnd DEF Unclaimed
  <2>2. CASE row[s].state = "RUNNING" /\ row' = [row EXCEPT ![s].state = "CANCELLING"]
    <3>1. row' = [row EXCEPT ![s] = [row[s] EXCEPT !.state = "CANCELLING"]]
      BY <1>0, <2>2
    <3> QED BY <1>0, <2>2, <3>1, QuietRow DEF Row
  <2> QED BY <1>6, <2>1, <2>2 DEF cancel
<1>7. ASSUME NEW o \in Offer, admit(s, o) PROVE \A t \in Session : Quiet(t)
  <2> DEFINE now == [n \in Node |-> IF n \in Nodes(o) THEN epoch[n] ELSE 0]
  <2>1. row' = [row EXCEPT ![s] = [row[s] EXCEPT !.state = "PREPARING", !.offer = o,
                                    !.epochs = now]]
    BY <1>0, <1>7 DEF admit
  <2>2. row[s].state = "QUEUED"
    BY <1>7 DEF admit, Foremost, Executable, Queued
  <2>3. row[s].offer \notin Offer
    BY <2>2, OffersAssumption DEF SessionsInv, RowsConsistent, Consistent, NoOffer, Offer
  <2> HIDE DEF now
  <2> QED BY <1>0, <2>1, <2>2, <2>3, QuietRow DEF Row
<1> QED BY <1>1, <1>2, <1>3, <1>4, <1>5, <1>6, <1>7

-----------------------------------------------------------------------------
(* What the coordinator's answer to a receipt does to the rows.            *)

\* The offers here have one node.
LEMMA Plain ==
  ASSUME NEW s, row[s].offer \in Offer
  PROVE  ~Routed(s) /\ At(s) \in Node /\ Nodes(row[s].offer) = {At(s)}
BY DeliveryAssumption, OfferNodes DEF Routed, IsRoute, At

\* A receipt that is taken is of a session that has ended, or ends it: for
\* nothing, or by the report on the disk.
Ends(s) ==
  /\ \A t \in Session \ {s} : row'[t] = row[t]
  /\ row'[s].offer = row[s].offer /\ row'[s].epochs = row[s].epochs
  /\ row'[s].claimed = row[s].claimed
  /\ row'[s].state \in Terminal
  /\ \/ row'[s] = row[s]
     \/ row'[s].report = row[s].report /\ row'[s].charged = 0
     \/ /\ outbox[s] # NoReceipt /\ row[s].state \notin Terminal
        /\ row'[s].report[At(s)] = outbox[s].report
        /\ row'[s].charged > 0 => outbox[s].report = "COMPLETED"

\* After an answer the session has ended, by this receipt or without it.
LEMMA TakesEnds ==
  ASSUME SessionsInv, NEW s \in Session, Keeping(s), Takes(s),
         local[s] = "REPORTING" \/ outbox[s] # NoReceipt
  PROVE  Ends(s)
<1>0. row[s] \in Row /\ row \in [Session -> Row]
  BY DEF SessionsInv, SessionsTypeOK
<1>1. row[s].offer \in Offer
  BY DEF Keeping, Admitted
<1>2. ~Routed(s) /\ At(s) \in Node
  BY <1>1, Plain
<1>3. CASE UNCHANGED vars /\ (row[s].report[At(s)] # Pending \/ row[s].state \in Terminal)
  <2>1. row[s].state \in Terminal
    <3>1. row[s].state \notin Live
      BY <1>2, <1>3 DEF Keeping, Unreported, Live, Active, Terminal
    <3>2. row[s].state # "NEW"
      BY <1>1, OffersAssumption DEF SessionsInv, RowsConsistent, Consistent, NoOffer, Offer
    <3> QED BY <1>0, <3>1, <3>2 DEF Row
  <2> QED BY <1>3, <2>1 DEF Ends, vars
<1>4. ASSUME NEW r \in Row, NEW state \in Terminal, NEW bill, NEW billing,
             finalize(s, r, state, bill, billing)
      PROVE  /\ \A t \in Session \ {s} : row'[t] = row[t]
             /\ row'[s].offer = r.offer /\ row'[s].epochs = r.epochs
             /\ row'[s].claimed = r.claimed /\ row'[s].report = r.report
             /\ row'[s].state = state /\ row'[s].charged = bill
  BY <1>0, <1>4 DEF finalize, Row
<1>5. CASE lateReceipt(s, At(s))
  <2>1. finalize(s, row[s], "INTERRUPTED", 0, "REFUNDED")
    BY <1>5 DEF lateReceipt
  <2>2. "INTERRUPTED" \in Terminal
    BY DEF Terminal
  <2> HIDE DEF Terminal
  <2> QED BY <1>0, <1>4, <2>1, <2>2 DEF Ends
<1>6. CASE receipt(s, outbox[s].report, outbox[s].cost)
  <2> DEFINE report == outbox[s].report
             cost   == outbox[s].cost
             bill == IF Payable(s, report) THEN cost ELSE 0
             state  == IF row[s].state = "CANCELLING" THEN "CANCELLED"
                       ELSE IF report = "INVALID" THEN "FAILED" ELSE report
             r == [row[s] EXCEPT !.report[At(s)] = report, !.cost = cost]
  <2>1. finalize(s, r, state, bill,
                 IF report = "INVALID" THEN "DISPUTED" ELSE Billed(bill))
    BY <1>2, <1>6 DEF receipt, At
  <2>2. outbox[s] # NoReceipt
    <3>1. row[s].state \notin Terminal
      BY <1>6 DEF receipt, Terminal
    <3> QED BY <3>1 DEF Keeping, Kept
  <2>3. report \in Reports \cup {"COMPLETED"} /\ cost \in Nat
    <3>1. Charge \subseteq Nat
      BY SessionsAssumption
    <3>2. Written(s)
      BY DEF Keeping
    <3>3. CASE report = "COMPLETED" /\ cost \in Charge
      BY <3>1, <3>3
    <3>4. CASE report \in Reports /\ cost = 0
      <4> HIDE DEF report, cost
      <4> QED BY <3>4
    <3> QED BY <2>2, <3>2, <3>3, <3>4 DEF Written
  <2>4. report \in Report /\ state \in Terminal
    BY <2>3, SessionsAssumption DEF Report, Terminal
  <2>5. r \in Row /\ r.offer = row[s].offer /\ r.epochs = row[s].epochs
        /\ r.claimed = row[s].claimed /\ r.report[At(s)] = report
    <3>1. [row[s].report EXCEPT ![At(s)] = report] \in [Node -> Report \cup {Pending}]
          /\ [row[s].report EXCEPT ![At(s)] = report][At(s)] = report
      BY <1>0, <1>2, <2>4 DEF Row
    <3>2. r = [row[s] EXCEPT !.report = [row[s].report EXCEPT ![At(s)] = report],
                             !.cost = cost]
      BY <1>0 DEF Row
    <3> HIDE DEF r, report, cost
    <3> QED BY <1>0, <2>3, <3>1, <3>2 DEF Row
  <2>6. bill > 0 => report = "COMPLETED"
    BY DEF Payable
  <2> HIDE DEF report, cost, bill, state, r
  <2>8. row[s].state \notin Terminal
    BY <1>6 DEF receipt, Terminal
  <2>7. /\ \A t \in Session \ {s} : row'[t] = row[t]
        /\ row'[s].offer = r.offer /\ row'[s].epochs = r.epochs
        /\ row'[s].claimed = r.claimed /\ row'[s].report = r.report
        /\ row'[s].state = state /\ row'[s].charged = bill
    BY <1>4, <2>1, <2>4, <2>5
  <2> QED BY <2>2, <2>4, <2>5, <2>6, <2>7, <2>8 DEF Ends, report
<1> QED BY <1>3, <1>5, <1>6 DEF Takes

\* It is a step of the coordinator, which leaves the world as it is.
LEMMA TakesNext ==
  ASSUME SessionsInv, NEW s \in Session, Keeping(s), Takes(s),
         local[s] = "REPORTING" \/ outbox[s] # NoReceipt
  PROVE  [Next]_vars /\ UNCHANGED worldVars
<1>1. CASE UNCHANGED vars
  BY <1>1 DEF vars, worldVars, fleetVars
<1>2. At(s) \in Node
  BY Plain DEF Keeping, Admitted
<1>3. CASE lateReceipt(s, At(s))
  BY <1>2, <1>3 DEF Next, lateReceipt
<1>4. CASE receipt(s, outbox[s].report, outbox[s].cost)
  <2>1. outbox[s] # NoReceipt
    <3>1. row[s].state \notin Terminal
      BY <1>4 DEF receipt, Terminal
    <3> QED BY <3>1 DEF Keeping, Kept
  <2>2. CASE outbox[s].report = "COMPLETED" /\ outbox[s].cost \in Charge
    BY <1>4, <2>2 DEF Next, receipt
  <2>3. CASE outbox[s].report \in Reports /\ outbox[s].cost = 0
    BY <1>4, <2>3 DEF Next, receipt
  <2> QED BY <2>1, <2>2, <2>3 DEF Keeping, Written
<1> QED BY <1>1, <1>3, <1>4 DEF Takes
-----------------------------------------------------------------------------
(* What a step must keep to of a session's processes.                      *)

\* The process that holds s is still the same one.
SameProcess(s) ==
  agent'[At(s)].up = agent[At(s)].up /\ agent'[At(s)].epoch = agent[At(s)].epoch

\* The execution moves on without a receipt, or is dropped.
Goes(s) ==
  \/ local'[s] \in {local[s], "NONE"}
  \/ local[s] = "PREPARED" /\ local'[s] \in {"STALE", "CLAIMING"}
  \/ gate[s] = "PREPARE" /\ gate'[s] \notin Early /\ Alive(s) /\ local'[s] = "PREPARED"
  \/ local[s] = "CLAIMING" /\ local'[s] = "RUNNING" /\ At(s) \in row'[s].claimed

Steps(s) ==
  /\ outbox'[s] = outbox[s]
  /\ gate'[s] \in Early => gate[s] \in Early
  /\ gate'[s] = "PREPARE" => gate[s] = "PREPARE" \/ row'[s].offer \in Offer
  /\ gate[s] = "OVER" => gate'[s] = "OVER"
  /\ told'[s] = told[s] \/ Freed(s)'
  /\ Goes(s)
  /\ local'[s] # "NONE" => SameProcess(s)

\* A quiet step of the rows and of the processes keeps what they know.
LEMMA StepsKeep ==
  ASSUME SessionsInv, NEW s \in Session, Keeping(s), Quiet(s), Steps(s)
  PROVE  Keeping(s)'
<1>1. row[s].offer \in Offer =>
        /\ row'[s].offer \in Offer /\ At(s)' = At(s)
        /\ row'[s].epochs = row[s].epochs /\ row[s].claimed \subseteq row'[s].claimed
  BY DEF Quiet, Frozen, At
<1>2. local'[s] # "NONE" \/ outbox'[s] # NoReceipt => row[s].offer \in Offer
  BY DEF Keeping, Admitted, Steps, Goes
<1>3. Admitted(s)'
  BY <1>1, <1>2 DEF Keeping, Admitted, Steps
<1>4. Bound(s)'
  BY <1>1, <1>2 DEF Keeping, Bound, Steps, Goes, SameProcess, Alive
<1>5. Confirmed(s)'
  BY <1>1, <1>2 DEF Keeping, Confirmed, Steps, Goes, InRunning
<1>6. Untouched(s)' /\ Unwritten(s)' /\ Written(s)'
  BY DEF Keeping, Untouched, Unwritten, Written, Steps, Goes, Early
<1>7. Unreported(s)'
  <2> SUFFICES ASSUME row'[s].state \in Live PROVE \A n \in Node : row'[s].report[n] = Pending
    BY DEF Unreported
  <2>1. row[s].state \in {"NEW"} \cup Live
    BY DEF Quiet, Final, SessionsInv, SessionsTypeOK, Row, Live, Active, Terminal
  <2> QED BY <2>1 DEF Quiet, Keeping, Unreported, SessionsInv, RowsConsistent, Consistent
<1>8. Evident(s)'
  <2> SUFFICES ASSUME row'[s].offer \in Offer, row'[s].report[At(s)'] # Pending
               PROVE  /\ gate'[s] \notin Early /\ local'[s] \in {"NONE", "REPORTING"}
                      /\ outbox'[s] = NoReceipt \/ outbox'[s].report = row'[s].report[At(s)']
    BY DEF Evident
  <2>1. CASE row[s].offer \in Offer
    BY <1>1, <2>1 DEF Quiet, Keeping, Evident, Steps, Goes, Early
  <2>2. CASE row[s].offer \notin Offer
    <3>1. row[s].state \in {"NEW", "QUEUED"}
      BY <2>2 DEF Quiet, Final, SessionsInv, SessionsTypeOK, Row, Live, RowsConsistent, Consistent
    <3>2. At(s)' \in Node
      BY OfferNodes DEF At
    <3> QED BY <3>1, <3>2 DEF Quiet, SessionsInv, RowsConsistent, Consistent
  <2> QED BY <2>1, <2>2
<1>9. Kept(s)'
  BY DEF Quiet, Final, Keeping, Kept, Steps, Goes
<1>10. Freed(s)'
  BY DEF Quiet, Final, Keeping, Freed, Steps, Goes
<1> QED BY <1>3, <1>4, <1>5, <1>6, <1>7, <1>8, <1>9, <1>10 DEF Keeping

\* A step that does not concern s.
Apart(s) ==
  /\ outbox'[s] = outbox[s] /\ told'[s] = told[s] /\ gate'[s] = gate[s]
  /\ local'[s] \in {local[s], "NONE"}
  /\ local'[s] # "NONE" => SameProcess(s)

\* What does not concern s leaves what is known of it.
LEMMA ApartKeep ==
  ASSUME SessionsInv, NEW s \in Session, Keeping(s), Quiet(s), Apart(s)
  PROVE  Keeping(s)'
BY StepsKeep DEF Apart, Steps, Goes

\* Rows that stay are quiet.
LEMMA UnchangedQuiet ==
  ASSUME SessionsInv, row' = row
  PROVE  \A s \in Session : Quiet(s)
BY DEF Quiet, Frozen, Final

\* A receipt that is taken keeps what the processes know of its session.
LEMMA EndsKeep ==
  ASSUME SessionsInv, NEW s \in Session, Keeping(s), Ends(s),
         row[s].offer \in Offer,
         gate[s] \notin Early, local[s] \in {"NONE", "REPORTING"},
         outbox'[s] \in {outbox[s], NoReceipt},
         gate'[s] \in {gate[s], "OVER"},
         local'[s] \in {local[s], "NONE"},
         local'[s] # "NONE" => SameProcess(s),
         told'[s] = "FAILED" =>
           gate'[s] = "OVER" /\ local'[s] = "NONE" /\ row'[s].charged = 0
  PROVE  Keeping(s)'
<1>1. At(s)' = At(s) /\ row'[s].offer \in Offer
  BY DEF Ends, At
<1>2. Admitted(s)'
  BY <1>1 DEF Admitted
<1>3. Bound(s)'
  BY <1>1 DEF Keeping, Bound, Ends, SameProcess, Alive
<1>4. Confirmed(s)'
  BY <1>1 DEF Keeping, Confirmed, Ends, InRunning
<1>5. Untouched(s)' /\ Unwritten(s)' /\ Written(s)'
  BY DEF Keeping, Untouched, Unwritten, Written, Early
<1>6. Unreported(s)' /\ Kept(s)'
  BY DEF Ends, Unreported, Kept, Live, Active, Terminal
<1>7. Evident(s)'
  BY <1>1 DEF Keeping, Evident, Ends, Early
<1>8. Freed(s)'
  BY DEF Freed, Ends
<1> QED BY <1>2, <1>3, <1>4, <1>5, <1>6, <1>7, <1>8 DEF Keeping

-----------------------------------------------------------------------------
(* Every step of the processes is a step of the coordinator or none, and   *)
(* keeps the invariant.                                                    *)

\* The coordinator never takes an epoch back.
LEMMA EpochsGrow ==
  ASSUME SessionsInv, [Next]_vars, NEW n \in Node
  PROVE  epoch[n] \in Nat /\ epoch'[n] \in Nat /\ epoch[n] <= epoch'[n]
<1>1. epoch \in [Node -> Nat]
  BY DEF SessionsInv, SessionsTypeOK, FleetTypeOK
<1>2. CASE FleetStep
  BY <1>1, <1>2 DEF FleetStep, FleetNext, Resume, Heartbeat, GoSilent, NodeState
<1>3. CASE UNCHANGED epoch
  BY <1>1, <1>3
<1>4. FleetStep \/ UNCHANGED epoch
  BY DEF Next, vars, Relist, create, Expire, admitLate, authorize, claim, cancel, fail, reap,
         admit, stageClaim, lateReceipt, receipt, stageReceipt, worldVars, fleetVars
<1> QED BY <1>2, <1>3, <1>4

\* What has the right shape keeps it as the coordinator moves on.
LEMMA TypesKeep ==
  ASSUME DeliveryInv, [Next]_vars,
         gate' \in [Session -> Gate],
         told' \in [Session -> {"NOTHING", "DONE", "FAILED"}],
         agent' \in [Node -> [up : BOOLEAN, epoch : Nat, ready : BOOLEAN, healthy : BOOLEAN]],
         \A n \in Node : agent'[n].up =>
           \/ agent[n].up /\ agent'[n].epoch = agent[n].epoch
           \/ agent'[n].epoch \in 1..epoch'[n],
         local' \in [Session -> Local],
         token' \subseteq Session,
         outbox' \in [Session -> Receipt],
         loop' \in [Node -> [at : {"REST", "ASKED", "SERVED", "ANSWERED", "FLUSH"},
                            able : BOOLEAN, ids : SUBSET Session]]
  PROVE  DeliveryTypeOK'
<1>1. ASSUME NEW n \in Node, agent'[n].up PROVE agent'[n].epoch \in 1..epoch'[n]
  <2>1. epoch[n] \in Nat /\ epoch'[n] \in Nat /\ epoch[n] <= epoch'[n]
    BY EpochsGrow DEF DeliveryInv
  <2> QED BY <1>1, <2>1 DEF DeliveryInv, DeliveryTypeOK
<1> QED BY <1>1 DEF DeliveryTypeOK

\* Deadlines, reaper, owners and cancellations.
LEMMA CoordinatorKeeps ==
  ASSUME DeliveryInv, CoordinatorStep
  PROVE  [Next]_vars /\ DeliveryTypeOK' /\ \A s \in Session : Keeping(s)'
<1>1. UNCHANGED deliveryVars
  BY DEF CoordinatorStep
<1>2. [Next]_vars
  <2>1. CASE \E s \in Session : Expire(s) \/ reap(s) \/ cancel(s)
    BY <2>1 DEF Next
  <2>2. CASE /\ \E n \in Node : GoSilent(n) \/ \E order \in Orders : NodeState(n, order)
             /\ UNCHANGED <<ledgerVars, listed, sessionVars>>
    BY <2>2 DEF Next, FleetStep, FleetNext
  <2> QED BY <2>1, <2>2 DEF CoordinatorStep
<1>3. \A s \in Session : Quiet(s)
  <2>1. CASE \E s \in Session : Expire(s) \/ reap(s) \/ cancel(s)
    BY <2>1, QuietSteps DEF DeliveryInv
  <2>2. CASE UNCHANGED sessionVars
    BY <2>2, UnchangedQuiet DEF DeliveryInv, sessionVars
  <2> QED BY <2>1, <2>2 DEF CoordinatorStep
<1>4. ASSUME NEW s \in Session PROVE Keeping(s)'
  <2>1. Apart(s)
    BY <1>1 DEF Apart, SameProcess, deliveryVars
  <2> QED BY <1>3, <2>1, ApartKeep DEF DeliveryInv
<1>5. DeliveryTypeOK'
  BY <1>1, <1>2, TypesKeep DEF DeliveryInv, DeliveryTypeOK, deliveryVars
<1> QED BY <1>2, <1>4, <1>5

\* An admitted session has its offer.
LEMMA Admits ==
  ASSUME SessionsInv, NEW s \in Session, NEW o \in Offer, admit(s, o)
  PROVE  row'[s].offer = o
<1> DEFINE now == [n \in Node |-> IF n \in Nodes(o) THEN epoch[n] ELSE 0]
<1>0. row[s] \in Row /\ row \in [Session -> Row]
  BY DEF SessionsInv, SessionsTypeOK
<1>1. row' = [row EXCEPT ![s] = [row[s] EXCEPT !.state = "PREPARING", !.offer = o,
                                  !.epochs = now]]
  BY <1>0 DEF admit
<1> HIDE DEF now
<1> QED BY <1>0, <1>1 DEF Row

\* The gateway's calls, heard or not, and consumers who leave.
LEMMA GatewayKeeps ==
  ASSUME DeliveryInv, NEW s \in Session, GatewayStep(s)
  PROVE  [Next]_vars /\ DeliveryTypeOK' /\ \A t \in Session : Keeping(t)'
<1>0. SessionsInv /\ DeliveryTypeOK /\ \A t \in Session : Keeping(t)
  BY DEF DeliveryInv
<1>1. \/ create(s) \/ admitLate(s) \/ authorize(s) \/ cancel(s) \/ fail(s)
      \/ \E o \in Offer : admit(s, o)
      \/ UNCHANGED vars
  BY DEF GatewayStep, open, pollAdmit, prepare, callAuthorize, callExecute, streamBreaks,
         callRelease, callCancel, callFail, leave
<1>2. [Next]_vars
  BY <1>1 DEF Next
<1>3. \A t \in Session : Quiet(t)
  BY <1>0, <1>1, QuietSteps, UnchangedQuiet DEF vars
<1>4. UNCHANGED <<told, outbox, agent, token, loop>>
  BY DEF GatewayStep, open, pollAdmit, prepare, callAuthorize, callExecute, streamBreaks,
         callRelease, callCancel, callFail, leave, processVars
<1>5. \E c \in Gate : gate' = [gate EXCEPT ![s] = c]
  BY DEF GatewayStep, open, pollAdmit, prepare, callAuthorize, callExecute, streamBreaks,
         callRelease, callCancel, callFail, leave, Goto, Fails, Gate
<1>6. local' \in [Session -> Local] /\ \A t \in Session \ {s} : local'[t] \in {local[t], "NONE"}
  <2>1. CASE prepare(s)
    BY <1>0, <2>1 DEF prepare, Purged, DeliveryTypeOK, Local
  <2>2. CASE callExecute(s) \/ callRelease(s)
    BY <1>0, <2>2 DEF callExecute, callRelease, DeliveryTypeOK, Local
  <2>3. CASE UNCHANGED local
    BY <1>0, <2>3 DEF DeliveryTypeOK
  <2> QED BY <2>1, <2>2, <2>3 DEF GatewayStep, open, pollAdmit, callAuthorize, streamBreaks,
                                  callCancel, callFail, leave
<1>7. /\ gate'[s] \in Early => gate[s] \in Early
      /\ gate'[s] = "PREPARE" => row'[s].offer \in Offer
      /\ gate[s] # "OVER"
  <2>1. gate'[s] = "PREPARE" => row'[s].offer \in Offer
    <3>1. SUFFICES ASSUME gate'[s] = "PREPARE" PROVE \E o \in Offer : admit(s, o)
      BY <1>0, Admits
    <3> QED BY <1>0, <3>1 DEF GatewayStep, open, pollAdmit, prepare, callAuthorize, callExecute,
         streamBreaks, callRelease, callCancel, callFail, leave, Goto, Fails, DeliveryTypeOK
  <2> QED BY <1>0, <2>1 DEF GatewayStep, open, pollAdmit, prepare, callAuthorize, callExecute,
         streamBreaks, callRelease, callCancel, callFail, leave, Goto, Fails, DeliveryTypeOK,
         Early, Droppable
<1>8. Goes(s)
  <2>1. CASE prepare(s)
    BY <1>0, <2>1 DEF prepare, Purged, Goes, Goto, Fails, Early, DeliveryTypeOK
  <2>2. CASE callExecute(s) \/ callRelease(s)
    BY <1>0, <2>2 DEF callExecute, callRelease, Goes, DeliveryTypeOK
  <2>3. CASE UNCHANGED local
    BY <2>3 DEF Goes
  <2> QED BY <2>1, <2>2, <2>3 DEF GatewayStep, open, pollAdmit, callAuthorize, streamBreaks,
                                  callCancel, callFail, leave
<1>9. ASSUME NEW t \in Session PROVE Keeping(t)'
  <2>1. SameProcess(t)
    BY <1>4 DEF SameProcess
  <2>2. CASE t = s
    BY <1>0, <1>3, <1>4, <1>7, <1>8, <2>1, <2>2, StepsKeep DEF Steps
  <2>3. CASE t # s
    BY <1>0, <1>3, <1>4, <1>5, <1>6, <2>1, <2>3, ApartKeep DEF Apart, DeliveryTypeOK
  <2> QED BY <2>2, <2>3
<1>10. DeliveryTypeOK'
  <2>1. gate' \in [Session -> Gate]
    BY <1>0, <1>5 DEF DeliveryTypeOK
  <2> QED BY <1>0, <1>2, <1>4, <1>6, <2>1, TypesKeep DEF DeliveryTypeOK
<1> QED BY <1>2, <1>9, <1>10

\* A claim that is served is on record.
LEMMA Claims ==
  ASSUME SessionsInv, NEW s \in Session, claim(s)
  PROVE  At(s) \in row'[s].claimed
<1>0. row[s] \in Row /\ row \in [Session -> Row]
  BY DEF SessionsInv, SessionsTypeOK
<1>1. row' = [row EXCEPT ![s] = [row[s] EXCEPT !.state = "RUNNING",
                                  !.claimed = @ \cup {At(s)}]]
  BY <1>0 DEF claim, At
<1> QED BY <1>0, <1>1 DEF Row

\* A charge has a report behind it.
LEMMA ChargeReported ==
  ASSUME NEW r \in Row, Consistent(r), r.charged # 0
  PROVE  r.state = "COMPLETED" /\ r.report[Root(r.offer)] = "COMPLETED"
<1>1. r.state = "COMPLETED"
  BY DEF Row, Consistent
<1>2. r.offer \in Offer
  BY <1>1 DEF Consistent
<1> QED BY <1>1, <1>2, OfferNodes DEF Consistent

\* The node works on, claims, or loses the claim's answer.
LEMMA ClaimKeeps ==
  ASSUME DeliveryInv, NEW s \in Session, prepareExpires(s) \/ callClaim(s)
  PROVE  [Next]_vars /\ DeliveryTypeOK' /\ \A t \in Session : Keeping(t)'
<1>0. SessionsInv /\ DeliveryTypeOK /\ \A t \in Session : Keeping(t)
  BY DEF DeliveryInv
<1>1. claim(s) \/ UNCHANGED vars
  BY DEF prepareExpires, callClaim, Claimed
<1>2. [Next]_vars
  BY <1>1 DEF Next
<1>3. \A t \in Session : Quiet(t)
  BY <1>0, <1>1, QuietSteps, UnchangedQuiet DEF vars
<1>4. UNCHANGED <<told, outbox, agent, token, loop>>
  BY DEF prepareExpires, callClaim, processVars
<1>5. \E l \in Local : local' = [local EXCEPT ![s] = l]
  BY DEF prepareExpires, callClaim, Local
<1>6. \/ gate' = gate
      \/ gate[s] = "STREAM" /\ gate' = [gate EXCEPT ![s] = "RELEASE"]
  BY DEF prepareExpires, callClaim, Fails, Goto
<1>7. Goes(s)
  BY <1>0, Claims DEF prepareExpires, callClaim, Claimed, Goes, DeliveryTypeOK
<1>8. ASSUME NEW t \in Session PROVE Keeping(t)'
  <2>1. SameProcess(t)
    BY <1>4 DEF SameProcess
  <2>2. CASE t = s
    <3>1. Steps(s)
      BY <1>0, <1>4, <1>6, <1>7, <2>1, <2>2 DEF Steps, Early, DeliveryTypeOK
    <3> QED BY <1>0, <1>3, <2>2, <3>1, StepsKeep
  <2>3. CASE t # s
    BY <1>0, <1>3, <1>4, <1>5, <1>6, <2>1, <2>3, ApartKeep DEF Apart, DeliveryTypeOK
  <2> QED BY <2>2, <2>3
<1>9. DeliveryTypeOK'
  <2>1. gate' \in [Session -> Gate] /\ local' \in [Session -> Local]
    BY <1>0, <1>5, <1>6 DEF DeliveryTypeOK, Gate
  <2> QED BY <1>0, <1>2, <1>4, <2>1, TypesKeep DEF DeliveryTypeOK
<1> QED BY <1>2, <1>8, <1>9

\* The execution ends, and its receipt is written or cannot be.
LEMMA RunKeeps ==
  ASSUME DeliveryInv, NEW s \in Session, runEnds(s)
  PROVE  [Next]_vars /\ DeliveryTypeOK' /\ \A t \in Session : Keeping(t)'
<1>0. SessionsInv /\ DeliveryTypeOK /\ \A t \in Session : Keeping(t)
  BY DEF DeliveryInv
<1>1. UNCHANGED vars /\ local[s] = "RUNNING"
  BY DEF runEnds
<1>2. row' = row /\ \A t \in Session : Quiet(t)
  BY <1>0, <1>1, UnchangedQuiet DEF vars
<1>3. row[s].offer \in Offer /\ outbox[s] = NoReceipt /\ gate[s] \notin Early
  BY <1>0, <1>1 DEF Keeping, Admitted, Unwritten, Untouched
<1>4. At(s) \in Node
  BY <1>3, Plain
<1>5. row[s].report[At(s)] = Pending /\ told[s] # "FAILED"
  BY <1>0, <1>1, <1>3 DEF Keeping, Evident, Freed
<1>6. CASE /\ \E r \in Outcome(s) : outbox' = [outbox EXCEPT ![s] = r]
           /\ local' = [local EXCEPT ![s] = "REPORTING"]
           /\ UNCHANGED <<gate, told, processVars>>
  <2>1. PICK r \in Outcome(s) : outbox' = [outbox EXCEPT ![s] = r]
    BY <1>6
  <2>2. \/ r.report = "COMPLETED" /\ r.cost \in Charge
        \/ r.report \in Reports /\ r.cost = 0
    BY DEF Outcome
  <2>3. r \in Receipt /\ r # NoReceipt
    <3>1. Charge \subseteq Nat /\ Reports \subseteq Report
      BY SessionsAssumption DEF Report
    <3>2. \/ \E c \in Charge : r = [report |-> "COMPLETED", cost |-> c]
          \/ \E q \in Reports : r = [report |-> q, cost |-> 0]
      BY DEF Outcome
    <3>3. r \in Receipt
      BY <3>1, <3>2 DEF Receipt, Report
    <3>4. r.report # Pending
      BY <2>2, <3>1 DEF Report, Pending
    <3> QED BY <3>3, <3>4 DEF NoReceipt
  <2>4. outbox'[s] = r /\ local'[s] = "REPORTING"
    BY <1>0, <1>6, <2>1 DEF DeliveryTypeOK
  <2>5. ASSUME NEW t \in Session PROVE Keeping(t)'
    <3>1. CASE t # s
      <4>1. Apart(t)
        BY <1>0, <1>6, <2>1, <3>1 DEF Apart, SameProcess, processVars, DeliveryTypeOK
      <4> QED BY <1>0, <1>2, <4>1, ApartKeep
    <3>2. CASE t = s
      <4>1. Alive(s)' /\ At(s)' = At(s)
        BY <1>0, <1>1, <1>2, <1>6 DEF Keeping, Bound, Alive, At, processVars
      <4>2. Admitted(s)' /\ Bound(s)' /\ Confirmed(s)' /\ Unreported(s)'
        BY <1>0, <1>1, <1>2, <1>3, <2>4, <4>1
           DEF Keeping, Admitted, Bound, Confirmed, Unreported, InRunning
      <4>3. Untouched(s)' /\ Unwritten(s)' /\ Written(s)' /\ Kept(s)'
        BY <1>3, <1>6, <2>2, <2>3, <2>4 DEF Untouched, Unwritten, Written, Kept, Early
      <4>4. Evident(s)' /\ Freed(s)'
        BY <1>2, <1>5, <1>6, <4>1 DEF Evident, Freed
      <4> QED BY <3>2, <4>2, <4>3, <4>4 DEF Keeping
    <3> QED BY <3>1, <3>2
  <2>6. DeliveryTypeOK'
    <3>1. outbox' \in [Session -> Receipt] /\ local' \in [Session -> Local]
      BY <1>0, <1>6, <2>1, <2>3 DEF DeliveryTypeOK, Local
    <3> QED BY <1>0, <1>1, <1>6, <3>1, TypesKeep DEF DeliveryTypeOK, processVars
  <2> QED BY <1>1, <2>5, <2>6
<1>7. CASE /\ agent' = [agent EXCEPT ![At(s)].healthy = FALSE, ![At(s)].ready = FALSE]
           /\ Close(s, "FAILED")
           /\ UNCHANGED <<outbox, loop>>
  <2>1. \A n \in Node : agent'[n].up = agent[n].up /\ agent'[n].epoch = agent[n].epoch
    BY <1>0, <1>4, <1>7 DEF DeliveryTypeOK
  <2>2. agent' \in [Node -> [up : BOOLEAN, epoch : Nat, ready : BOOLEAN, healthy : BOOLEAN]]
    BY <1>0, <1>4, <1>7 DEF DeliveryTypeOK
  <2>3. local' = [local EXCEPT ![s] = "NONE"] /\ token' = token \ {s}
    BY <1>7 DEF Close
  <2>4. \/ told' = [told EXCEPT ![s] = "FAILED"] /\ gate' = [gate EXCEPT ![s] = "OVER"]
        \/ UNCHANGED <<told, gate>>
    BY <1>7 DEF Close, Goto
  <2>5. row[s].charged = 0
    BY <1>0, <1>5, ChargeReported DEF SessionsInv, SessionsTypeOK, RowsConsistent, At, Pending
  <2>6. ASSUME NEW t \in Session PROVE Keeping(t)'
    <3>1. local'[t] # "NONE" => SameProcess(t)
      <4>1. SUFFICES ASSUME local'[t] # "NONE" PROVE At(t) \in Node
        BY <2>1 DEF SameProcess
      <4>2. local[t] # "NONE"
        BY <1>0, <2>3, <4>1 DEF DeliveryTypeOK
      <4> QED BY <1>0, <4>2, Plain DEF Keeping, Admitted
    <3>2. CASE t # s
      <4>1. Apart(t)
        BY <1>0, <1>7, <2>3, <2>4, <3>1, <3>2 DEF Apart, DeliveryTypeOK
      <4> QED BY <1>0, <1>2, <4>1, ApartKeep
    <3>3. CASE t = s
      <4>1. told'[s] = told[s] \/ Freed(s)'
        BY <1>0, <1>2, <1>3, <1>7, <2>3, <2>4, <2>5
           DEF Freed, DeliveryTypeOK, NoReceipt, Pending
      <4>2. Steps(s)
        BY <1>0, <1>3, <1>7, <2>3, <2>4, <3>1, <3>3, <4>1 DEF Steps, Goes, Early, DeliveryTypeOK
      <4> QED BY <1>0, <1>2, <3>3, <4>2, StepsKeep
    <3> QED BY <3>2, <3>3
  <2>7. DeliveryTypeOK'
    <3>1. /\ gate' \in [Session -> Gate] /\ told' \in [Session -> {"NOTHING", "DONE", "FAILED"}]
          /\ local' \in [Session -> Local] /\ token' \subseteq Session
      BY <1>0, <2>3, <2>4 DEF DeliveryTypeOK, Gate, Local
    <3> QED BY <1>0, <1>1, <1>7, <2>1, <2>2, <3>1, TypesKeep DEF DeliveryTypeOK
  <2> QED BY <1>1, <2>6, <2>7
<1> QED BY <1>6, <1>7 DEF runEnds

-----------------------------------------------------------------------------
(* The delivery of receipts.                                               *)

\* Who is told of a failure when a receipt is answered, or is not, is free.
LEMMA UntoldFree ==
  ASSUME SessionsInv, SessionsInv', NEW s \in Session, Keeping(s), row[s].offer \in Offer,
         row'[s].charged # 0,
         Ends(s) \/ row' = row
  PROVE  /\ Completed(s) /\ row'[s].state = "COMPLETED"
         /\ PendingEvent(s) = "DONE" /\ AnsweredEvent(s) = "DONE"
<1>1. row'[s].state = "COMPLETED" /\ row'[s].report[Root(row'[s].offer)] = "COMPLETED"
  BY ChargeReported DEF SessionsInv, SessionsTypeOK, RowsConsistent
<1>2. row'[s].offer = row[s].offer /\ row'[s].report[At(s)] = "COMPLETED"
  BY <1>1 DEF Ends, At
<1>3. Completed(s)
  <2>1. CASE row'[s].report = row[s].report
    <3>1. outbox[s] = NoReceipt \/ outbox[s].report = "COMPLETED"
      BY <1>2, <2>1 DEF Keeping, Evident, Pending
    <3> QED BY <1>2, <2>1, <3>1 DEF Completed
  <2>2. CASE outbox[s] # NoReceipt /\ row'[s].report[At(s)] = outbox[s].report
    BY <1>2, <2>2 DEF Completed
  <2> QED BY <2>1, <2>2 DEF Ends
<1> QED BY <1>1, <1>3 DEF PendingEvent, AnsweredEvent

\* The execution sends its receipt, and is answered or not.
LEMMA ReceiptKeeps ==
  ASSUME DeliveryInv, NEW s \in Session, sendReceipt(s)
  PROVE  [Next]_vars /\ DeliveryTypeOK' /\ \A t \in Session : Keeping(t)'
<1>0. SessionsInv /\ DeliveryTypeOK /\ \A t \in Session : Keeping(t)
  BY DEF DeliveryInv
<1>1. local[s] = "REPORTING" /\ row[s].offer \in Offer /\ gate[s] \notin Early
      /\ told[s] # "FAILED"
  BY <1>0 DEF sendReceipt, Keeping, Admitted, Untouched, Freed
<1>2. \/ Takes(s)
      \/ UNCHANGED vars
  BY DEF sendReceipt
<1>3. [Next]_vars
  BY <1>0, <1>1, <1>2, TakesNext
<1>4. SessionsInv'
  BY <1>0, <1>3, NextInv
<1>5. \/ Ends(s)
      \/ row' = row
  BY <1>0, <1>1, <1>2, TakesEnds DEF vars
<1>6. UNCHANGED <<agent, loop>>
  BY DEF sendReceipt
<1>7. PICK event \in {"DONE", "FAILED"} :
        /\ Close(s, event)
        /\ \/ Takes(s) /\ Drop(s) /\ event = AnsweredEvent(s)
           \/ UNCHANGED outbox /\ event = PendingEvent(s)
  BY DEF sendReceipt, AnsweredEvent, PendingEvent
<1>8. /\ local' = [local EXCEPT ![s] = "NONE"] /\ token' = token \ {s}
      /\ \/ told' = [told EXCEPT ![s] = event] /\ gate' = [gate EXCEPT ![s] = "OVER"]
         \/ UNCHANGED <<told, gate>>
  BY <1>7 DEF Close, Goto
<1>9. outbox' \in {outbox, [outbox EXCEPT ![s] = NoReceipt]}
  BY <1>7 DEF Drop
<1>10. told'[s] = "FAILED" => gate'[s] = "OVER" /\ row'[s].charged = 0
  BY <1>0, <1>1, <1>4, <1>5, <1>7, <1>8, UntoldFree DEF DeliveryTypeOK
<1>11. ASSUME NEW t \in Session \ {s} PROVE Keeping(t)'
  <2>1. Apart(t)
    BY <1>0, <1>6, <1>8, <1>9 DEF Apart, SameProcess, DeliveryTypeOK
  <2>2. Quiet(t)
    BY <1>5 DEF Ends, Quiet, Frozen, Final
  <2> QED BY <1>0, <2>1, <2>2, ApartKeep
<1>12. Keeping(s)'
  <2>1. local'[s] = "NONE" /\ gate'[s] \in {gate[s], "OVER"}
        /\ outbox'[s] \in {outbox[s], NoReceipt}
    BY <1>0, <1>8, <1>9 DEF DeliveryTypeOK
  <2>2. CASE Ends(s)
    BY <1>0, <1>1, <1>10, <2>1, <2>2, EndsKeep
  <2>3. CASE row' = row /\ UNCHANGED outbox /\ event = PendingEvent(s)
    <3>1. told'[s] = "FAILED" => outbox'[s].report # "COMPLETED"
      BY <1>0, <1>1, <1>8, <2>3 DEF PendingEvent, Completed, NoReceipt, Pending, DeliveryTypeOK
    <3>2. told'[s] = told[s] \/ Freed(s)'
      BY <1>0, <1>8, <1>10, <2>1, <3>1 DEF Freed, DeliveryTypeOK
    <3>3. Steps(s)
      BY <1>0, <1>1, <2>1, <2>3, <3>2 DEF Steps, Goes, Early
    <3>4. Quiet(s)
      BY <1>0, <2>3, UnchangedQuiet
    <3> QED BY <1>0, <3>3, <3>4, StepsKeep
  <2>4. CASE Takes(s)
    BY <1>0, <1>1, <2>2, <2>4, TakesEnds
  <2> QED BY <1>2, <1>5, <1>7, <2>2, <2>3, <2>4
<1>13. DeliveryTypeOK'
  <2>1. /\ gate' \in [Session -> Gate] /\ told' \in [Session -> {"NOTHING", "DONE", "FAILED"}]
        /\ local' \in [Session -> Local] /\ token' \subseteq Session
    BY <1>0, <1>8 DEF DeliveryTypeOK, Gate, Local
  <2>2. outbox' \in [Session -> Receipt]
    BY <1>0, <1>9 DEF DeliveryTypeOK, Receipt, NoReceipt
  <2> QED BY <1>0, <1>3, <1>6, <2>1, <2>2, TypesKeep DEF DeliveryTypeOK
<1> QED BY <1>3, <1>11, <1>12, <1>13

\* The loop of n goes on within its type.
LEMMA LoopTypes ==
  ASSUME DeliveryTypeOK, NEW n \in Node,
         NEW at \in {"REST", "ASKED", "SERVED", "ANSWERED", "FLUSH"},
         NEW able \in BOOLEAN, NEW ids \in SUBSET Session,
         loop' = [loop EXCEPT ![n] = [at |-> at, able |-> able, ids |-> ids]]
  PROVE  loop' \in [Node -> [at : {"REST", "ASKED", "SERVED", "ANSWERED", "FLUSH"},
                            able : BOOLEAN, ids : SUBSET Session]]
BY DEF DeliveryTypeOK

\* A pass over the outbox settles the receipt it comes to, or stops.
LEMMA FlushKeeps ==
  ASSUME DeliveryInv, NEW n \in Node,
         (\E s \in Session : flushOne(n, s)) \/ flushStops(n)
  PROVE  [Next]_vars /\ DeliveryTypeOK' /\ \A t \in Session : Keeping(t)'
<1>0. SessionsInv /\ DeliveryTypeOK /\ \A t \in Session : Keeping(t)
  BY DEF DeliveryInv
<1>1. UNCHANGED <<gate, told, agent, local, token>>
  BY DEF flushOne, flushStops
<1>2. \A t \in Session : SameProcess(t)
  BY <1>1 DEF SameProcess
<1>3. loop' \in [Node -> [at : {"REST", "ASKED", "SERVED", "ANSWERED", "FLUSH"},
                         able : BOOLEAN, ids : SUBSET Session]]
  <2>1. loop[n].ids \subseteq Session
    BY <1>0 DEF DeliveryTypeOK
  <2>2. CASE \E s \in Session : flushOne(n, s)
    <3>1. PICK s \in Session : Loop(n, "FLUSH", FALSE, loop[n].ids \ {s})
      BY <2>2 DEF flushOne
    <3>2. loop[n].ids \ {s} \in SUBSET Session
      BY <2>1
    <3> QED BY <1>0, <3>1, <3>2, LoopTypes DEF Loop
  <2>3. CASE flushStops(n)
    <3>1. Loop(n, "REST", FALSE, {}) /\ {} \in SUBSET Session
      BY <2>3 DEF flushStops
    <3> QED BY <1>0, <3>1, LoopTypes DEF Loop
  <2> QED BY <2>2, <2>3
<1>4. CASE UNCHANGED vars /\ UNCHANGED outbox
  <2>1. \A t \in Session : Quiet(t) /\ Apart(t)
    BY <1>0, <1>1, <1>2, <1>4, UnchangedQuiet DEF Apart, vars
  <2>2. DeliveryTypeOK'
    BY <1>0, <1>1, <1>3, <1>4, TypesKeep DEF DeliveryTypeOK
  <2> QED BY <1>0, <1>4, <2>1, <2>2, ApartKeep
<1>5. ASSUME NEW s \in Session, outbox[s] # NoReceipt, Takes(s),
             outbox' \in {outbox, [outbox EXCEPT ![s] = NoReceipt]}
      PROVE  [Next]_vars /\ DeliveryTypeOK' /\ \A t \in Session : Keeping(t)'
  <2>1. [Next]_vars /\ Ends(s)
    BY <1>0, <1>5, TakesNext, TakesEnds
  <2>2. SessionsInv'
    BY <1>0, <2>1, NextInv
  <2>3. /\ row[s].offer \in Offer /\ gate[s] \notin Early
        /\ local[s] \in {"NONE", "REPORTING"}
    BY <1>0, <1>5 DEF Keeping, Admitted, Untouched, Unwritten, DeliveryTypeOK, Local
  <2>4. told[s] = "FAILED" =>
          gate[s] = "OVER" /\ local[s] = "NONE" /\ row'[s].charged = 0
    <3>1. row'[s].charged \in Nat
      BY <2>2 DEF SessionsInv, SessionsTypeOK, Row
    <3> QED BY <1>0, <1>5, <2>1, <3>1 DEF Keeping, Freed, Ends
  <2>5. Keeping(s)'
    <3>1. outbox'[s] \in {outbox[s], NoReceipt}
      BY <1>0, <1>5 DEF DeliveryTypeOK
    <3> QED BY <1>0, <1>1, <1>2, <2>1, <2>3, <2>4, <3>1, EndsKeep
  <2>6. ASSUME NEW t \in Session \ {s} PROVE Keeping(t)'
    <3>1. Apart(t)
      BY <1>0, <1>1, <1>2, <1>5 DEF Apart, DeliveryTypeOK
    <3>2. Quiet(t)
      BY <2>1 DEF Ends, Quiet, Frozen, Final
    <3> QED BY <1>0, <3>1, <3>2, ApartKeep
  <2>7. DeliveryTypeOK'
    <3>1. outbox' \in [Session -> Receipt]
      BY <1>0, <1>5 DEF DeliveryTypeOK, Receipt, NoReceipt
    <3> QED BY <1>0, <1>1, <1>3, <2>1, <3>1, TypesKeep DEF DeliveryTypeOK
  <2> QED BY <2>1, <2>5, <2>6, <2>7
<1>6. CASE \E s \in Session : flushOne(n, s)
  BY <1>5, <1>6 DEF flushOne, Settled, Drop
<1>7. CASE flushStops(n)
  BY <1>4, <1>5, <1>7 DEF flushStops
<1> QED BY <1>6, <1>7

\* The end of a heartbeat changes only what the node takes itself for.
LEMMA Readies ==
  ASSUME DeliveryTypeOK, NEW n \in Node, beatHeard(n) \/ beatLost(n)
  PROVE  \E able \in BOOLEAN : agent' = [agent EXCEPT ![n] = [agent[n] EXCEPT !.ready = able]]
<1>1. loop[n].able \in BOOLEAN /\ agent[n] \in
        [up : BOOLEAN, epoch : Nat, ready : BOOLEAN, healthy : BOOLEAN]
  BY DEF DeliveryTypeOK
<1>2. CASE beatHeard(n)
  BY <1>1, <1>2 DEF beatHeard
<1>3. CASE beatLost(n)
  BY <1>1, <1>3 DEF beatLost
<1> QED BY <1>2, <1>3

\* The loop's heartbeat, and the process's stops and starts.
LEMMA LoopKeeps ==
  ASSUME DeliveryInv, NEW n \in Node,
         \/ beat(n) \/ beatServed(n) \/ beatListed(n) \/ beatHeard(n) \/ beatLost(n)
         \/ crash(n) \/ start(n)
  PROVE  [Next]_vars /\ DeliveryTypeOK' /\ \A t \in Session : Keeping(t)'
<1>0. SessionsInv /\ DeliveryTypeOK /\ \A t \in Session : Keeping(t)
  BY DEF DeliveryInv
<1>1. UNCHANGED <<row, gate, told, outbox>>
  BY DEF beat, beatServed, beatListed, beatHeard, beatLost, crash, start, vars, sessionVars
<1>2. [Next]_vars
  <2>1. CASE UNCHANGED vars
    BY <2>1
  <2>2. CASE beatServed(n)
    <3>1. loop[n].able \in BOOLEAN
      BY <1>0 DEF DeliveryTypeOK
    <3> QED BY <2>2, <3>1 DEF beatServed, Next, FleetStep, FleetNext
  <2>3. CASE start(n)
    BY <2>3 DEF start, Next, FleetStep, FleetNext
  <2> QED BY <2>1, <2>2, <2>3 DEF beat, beatListed, beatHeard, beatLost, crash
<1>3. local' \in [Session -> Local] /\ \A t \in Session : local'[t] \in {local[t], "NONE"}
  BY <1>0 DEF beat, beatServed, beatListed, beatHeard, beatLost, crash, start,
              Purged, DeliveryTypeOK, Local
<1>4. token' \subseteq Session
  BY <1>0 DEF beat, beatServed, beatListed, beatHeard, beatLost, crash, start,
              Running, Of, DeliveryTypeOK
<1>5. loop' \in [Node -> [at : {"REST", "ASKED", "SERVED", "ANSWERED", "FLUSH"},
                         able : BOOLEAN, ids : SUBSET Session]]
  <2>1. /\ loop[n].ids \subseteq Session /\ loop[n].able \in BOOLEAN
        /\ Running(n) \subseteq Session /\ Files(n) \subseteq Session
    BY <1>0 DEF DeliveryTypeOK, Running, Files, Of
  <2>2. CASE beat(n)
    <3>1. agent[n].healthy \in BOOLEAN
      BY <1>0 DEF DeliveryTypeOK
    <3>2. PICK loaded \in BOOLEAN : Loop(n, "ASKED", loaded /\ agent[n].healthy, Running(n))
      BY <2>2 DEF beat
    <3> DEFINE able == loaded /\ agent[n].healthy
    <3>3. able \in BOOLEAN
      BY <3>1, <3>2
    <3>4. Loop(n, "ASKED", able, Running(n))
      BY <3>2
    <3> HIDE DEF able
    <3> QED BY <1>0, <2>1, <3>3, <3>4, LoopTypes DEF Loop
  <2>3. CASE beatServed(n)
    <3> DEFINE able == loop[n].able /\ desired[n] = "READY"
    <3>1. able \in BOOLEAN /\ Loop(n, "SERVED", able, loop[n].ids)
      BY <2>1, <2>3 DEF beatServed
    <3> HIDE DEF able
    <3> QED BY <1>0, <2>1, <3>1, LoopTypes DEF Loop
  <2>4. CASE beatListed(n)
    <3> DEFINE ids == {s \in loop[n].ids : row[s].state \in {"CANCELLING"} \cup Terminal}
    <3>1. ids \in SUBSET Session /\ Loop(n, "ANSWERED", loop[n].able, ids)
      BY <2>1, <2>4 DEF beatListed
    <3> HIDE DEF ids
    <3> QED BY <1>0, <2>1, <3>1, LoopTypes DEF Loop
  <2>5. CASE beatHeard(n) \/ beatLost(n)
    <3>1. Loop(n, "FLUSH", FALSE, Files(n))
      BY <2>5 DEF beatHeard, beatLost
    <3> QED BY <1>0, <2>1, <3>1, LoopTypes DEF Loop
  <2>6. CASE crash(n)
    <3>1. /\ loop' = [loop EXCEPT ![n] = [at |-> "REST", able |-> FALSE, ids |-> {}]]
          /\ {} \in SUBSET Session
      BY <2>6 DEF crash, Rest
    <3> QED BY <1>0, <3>1, LoopTypes
  <2>7. CASE start(n)
    BY <1>0, <2>7 DEF start, DeliveryTypeOK
  <2> QED BY <2>2, <2>3, <2>4, <2>5, <2>6, <2>7
<1>6. agent' \in [Node -> [up : BOOLEAN, epoch : Nat, ready : BOOLEAN, healthy : BOOLEAN]]
  <2>1. CASE UNCHANGED agent
    BY <1>0, <2>1 DEF DeliveryTypeOK
  <2>2. CASE beatHeard(n) \/ beatLost(n)
    <3>1. PICK able \in BOOLEAN : agent' = [agent EXCEPT ![n] = [agent[n] EXCEPT !.ready = able]]
      BY <1>0, <2>2, Readies
    <3>2. [agent[n] EXCEPT !.ready = able] \in
            [up : BOOLEAN, epoch : Nat, ready : BOOLEAN, healthy : BOOLEAN]
      BY <1>0 DEF DeliveryTypeOK
    <3> QED BY <1>0, <3>1, <3>2 DEF DeliveryTypeOK
  <2>3. CASE crash(n)
    BY <1>0, <2>3 DEF crash, Down, DeliveryTypeOK
  <2>4. CASE agent' = [agent EXCEPT ![n] = [up |-> TRUE, epoch |-> Heard(n),
                                            ready |-> FALSE, healthy |-> TRUE]]
    <3>1. epoch'[n] \in Nat
      BY <1>0, <1>2, EpochsGrow
    <3> QED BY <1>0, <2>4, <3>1 DEF Heard, DeliveryTypeOK
  <2> QED BY <2>1, <2>2, <2>3, <2>4 DEF beat, beatServed, beatListed, start
<1>7. ASSUME NEW m \in Node
      PROVE  \/ agent'[m].up = agent[m].up /\ agent'[m].epoch = agent[m].epoch
             \/ m = n /\ crash(n) /\ ~agent'[m].up
             \/ m = n /\ ~agent[n].up /\ agent'[m].epoch \in 1..epoch'[m]
  <2>1. CASE crash(n)
    BY <1>0, <2>1 DEF crash, Down, DeliveryTypeOK
  <2>2. CASE start(n)
    <3>1. epoch[n] \in Nat /\ epoch'[n] = epoch[n] + 1
      BY <1>0, <2>2 DEF start, Resume, SessionsInv, SessionsTypeOK, FleetTypeOK
    <3> QED BY <1>0, <2>2, <3>1 DEF start, Heard, DeliveryTypeOK
  <2>3. CASE beatHeard(n) \/ beatLost(n)
    <3>1. PICK able \in BOOLEAN : agent' = [agent EXCEPT ![n] = [agent[n] EXCEPT !.ready = able]]
      BY <1>0, <2>3, Readies
    <3> QED BY <1>0, <3>1 DEF DeliveryTypeOK
  <2> QED BY <2>1, <2>2, <2>3 DEF beat, beatServed, beatListed
<1>8. ASSUME NEW t \in Session PROVE Keeping(t)'
  <2>1. ASSUME local'[t] # "NONE" PROVE SameProcess(t)
    <3>1. local[t] # "NONE"
      BY <1>3, <2>1
    <3>2. row[t].offer \in Offer /\ Alive(t)
      BY <1>0, <3>1 DEF Keeping, Admitted, Bound
    <3>3. At(t) \in Node /\ agent[At(t)].up
      BY <3>2, Plain DEF Alive
    <3>4. ~(crash(n) /\ At(t) = n)
      <4>1. SUFFICES ASSUME crash(n), At(t) = n PROVE FALSE
        OBVIOUS
      <4>2. t \in Of(n)
        BY <3>2, <4>1, OffersAssumption DEF Of, NoOffer, Offer
      <4> QED BY <2>1, <4>1, <4>2 DEF crash
    <3> QED BY <1>7, <3>3, <3>4 DEF SameProcess
  <2>2. Apart(t)
    BY <1>1, <1>3, <2>1 DEF Apart
  <2>3. Quiet(t)
    BY <1>0, <1>1, UnchangedQuiet
  <2> QED BY <1>0, <2>2, <2>3, ApartKeep
<1>9. DeliveryTypeOK'
  BY <1>0, <1>1, <1>2, <1>3, <1>4, <1>5, <1>6, <1>7, TypesKeep DEF DeliveryTypeOK
<1> QED BY <1>2, <1>8, <1>9

-----------------------------------------------------------------------------
(* The theorems.                                                           *)

\* At first nobody holds anything.
LEMMA InitKeeps == AllInit => DeliveryInv
<1> SUFFICES ASSUME AllInit PROVE DeliveryInv
  OBVIOUS
<1>1. SessionsInv
  BY InitInv DEF AllInit
<1>2. DeliveryTypeOK
  BY DEF AllInit, DeliveryInit, DeliveryTypeOK, Gate, Down, Local, Receipt, NoReceipt, Rest
<1>3. ASSUME NEW s \in Session PROVE Keeping(s)
  <2>1. /\ gate[s] = "IDLE" /\ told[s] = "NOTHING" /\ local[s] = "NONE"
        /\ outbox[s] = NoReceipt /\ row[s] = NewRow
    BY DEF AllInit, Init, DeliveryInit
  <2>2. NewRow.offer \notin Offer /\ NewRow.state = "NEW"
    BY OffersAssumption DEF NewRow, NoOffer, Offer
  <2> QED BY <2>1, <2>2 DEF Keeping, Admitted, Bound, Confirmed, Untouched, Unwritten,
            Written, Unreported, Evident, Kept, Freed, InRunning, Live, Active
<1> QED BY <1>1, <1>2, <1>3 DEF DeliveryInv

\* Every step, of whichever process, keeps the invariant.
LEMMA StepKeeps ==
  ASSUME DeliveryInv, [AllNext]_allVars
  PROVE  [Next]_vars /\ DeliveryInv'
<1>1. [Next]_vars /\ DeliveryTypeOK' /\ \A s \in Session : Keeping(s)'
  <2>1. CASE UNCHANGED allVars
    <3>1. UNCHANGED vars /\ UNCHANGED <<gate, told, agent, local, token, outbox, loop>>
      BY <2>1 DEF allVars, deliveryVars
    <3>2. DeliveryTypeOK'
      BY <3>1, TypesKeep DEF DeliveryInv, DeliveryTypeOK
    <3>3. ASSUME NEW s \in Session PROVE Keeping(s)'
      <4>1. Apart(s) /\ Quiet(s)
        BY <3>1, UnchangedQuiet DEF Apart, SameProcess, vars, DeliveryInv
      <4> QED BY <4>1, ApartKeep DEF DeliveryInv
    <3> QED BY <3>1, <3>2, <3>3
  <2>2. CASE CoordinatorStep
    BY <2>2, CoordinatorKeeps
  <2>3. CASE \E s \in Session : GatewayStep(s) \/ ExecutionStep(s)
    BY <2>3, GatewayKeeps, ClaimKeeps, RunKeeps, ReceiptKeeps DEF ExecutionStep
  <2>4. CASE \E n \in Node : NodeStep(n)
    BY <2>4, FlushKeeps, LoopKeeps DEF NodeStep
  <2> QED BY <2>1, <2>2, <2>3, <2>4 DEF AllNext
<1>2. SessionsInv'
  BY <1>1, NextInv DEF DeliveryInv
<1> QED BY <1>1, <1>2 DEF DeliveryInv

\* What the processes know is kept by every step of every process.
THEOREM DeliveryInvariance == DeliverySpec => []DeliveryInv
<1>1. DeliveryInv /\ [AllNext]_allVars => DeliveryInv'
  BY StepKeeps
<1> QED BY <1>1, InitKeeps, PTL DEF DeliverySpec

\* The processes around it use the coordinator only as it may be used: with
\* lost calls, late answers, crashes and restarts every behaviour is one of
\* Sessions, so that what is proved of Sessions holds here.
THEOREM DeliveryIsSessions == DeliverySpec => Spec
<1>1. DeliveryInv /\ [AllNext]_allVars => [Next]_vars
  BY StepKeeps
<1>2. AllInit => Init
  BY DEF AllInit
<1> QED BY <1>1, <1>2, DeliveryInvariance, PTL DEF DeliverySpec, Spec

\* The processes' variables stay within their types; a process that is up has
\* an epoch that the coordinator has given out.
THEOREM DeliveryTypes == DeliverySpec => []DeliveryTypeOK
<1>1. DeliveryInv => DeliveryTypeOK
  BY DEF DeliveryInv
<1> QED BY <1>1, DeliveryInvariance, PTL

\* A node runs only what this very process has claimed (execute in node.rs).
THEOREM OnlyClaimed == DeliverySpec => []OnlyClaimedRuns
<1>1. DeliveryInv => OnlyClaimedRuns
  BY DEF DeliveryInv, Keeping, Bound, Confirmed, OnlyClaimedRuns, InRunning
<1> QED BY <1>1, DeliveryInvariance, PTL

\* A consumer who is told that nothing was charged is never charged.
THEOREM ToldFree == DeliverySpec => []ToldFailureIsFree
<1>1. DeliveryInv => ToldFailureIsFree
  BY DEF DeliveryInv, Keeping, Freed, ToldFailureIsFree
<1> QED BY <1>1, DeliveryInvariance, PTL

\* What a node and a consumer believe of a session is so.
THEOREM Believed == DeliverySpec => []BeliefsAreTrue
  BY DeliveryTypes, OnlyClaimed, ToldFree, PTL DEF BeliefsAreTrue

\* No receipt leaves the disk before its session has ended for good.
THEOREM ReceiptKept == DeliverySpec => ReceiptKeptUntilSettled
<1> DEFINE A == \A s \in Session :
                  outbox[s] # NoReceipt /\ outbox'[s] = NoReceipt => row'[s].state \in Terminal
<1>1. ASSUME DeliveryInv, [AllNext]_allVars PROVE [A]_allVars
  <2> SUFFICES ASSUME NEW s \in Session, outbox[s] # NoReceipt, outbox'[s] = NoReceipt
               PROVE  row'[s].state \in Terminal
    OBVIOUS
  <2>1. outbox \in [Session -> Receipt] /\ SessionsInv /\ \A t \in Session : Keeping(t)
    BY <1>1 DEF DeliveryInv, DeliveryTypeOK
  <2>2. ASSUME NEW t \in Session, Takes(t), outbox' = [outbox EXCEPT ![t] = NoReceipt]
        PROVE  row'[s].state \in Terminal
    <3>1. t = s
      BY <2>1, <2>2
    <3>2. Ends(s)
      BY <2>1, <2>2, <3>1, TakesEnds
    <3> QED BY <3>2 DEF Ends
  <2>3. ASSUME NEW t \in Session, runEnds(t) PROVE FALSE
    <3>1. PICK r \in Outcome(t) : outbox' = [outbox EXCEPT ![t] = r]
      BY <2>3 DEF runEnds
    <3>2. t = s
      BY <2>1, <3>1
    <3> QED BY <2>1, <2>3, <3>2 DEF runEnds, Keeping, Unwritten
  <2>4. \/ UNCHANGED outbox
        \/ \E t \in Session : Takes(t) /\ outbox' = [outbox EXCEPT ![t] = NoReceipt]
        \/ \E t \in Session : runEnds(t)
    <3>1. CASE UNCHANGED allVars \/ CoordinatorStep
      BY <3>1 DEF allVars, deliveryVars, CoordinatorStep
    <3>2. CASE \E t \in Session : GatewayStep(t)
      BY <3>2 DEF GatewayStep, open, pollAdmit, prepare, callAuthorize, callExecute, streamBreaks,
                  callRelease, callCancel, callFail, leave
    <3>3. CASE \E t \in Session : ExecutionStep(t)
      BY <3>3 DEF ExecutionStep, prepareExpires, callClaim, sendReceipt, Drop
    <3>4. CASE \E n \in Node : NodeStep(n)
      BY <3>4 DEF NodeStep, beat, beatServed, beatListed, beatHeard, beatLost, flushOne,
                  flushStops, crash, start, Settled, Drop
    <3> QED BY <1>1, <3>1, <3>2, <3>3, <3>4 DEF AllNext
  <2> QED BY <2>2, <2>3, <2>4
<1> QED BY <1>1, DeliveryInvariance, PTL DEF DeliverySpec, ReceiptKeptUntilSettled
=============================================================================
