------------------------------ MODULE Sessions ------------------------------
(***************************************************************************)
(* Inference sessions on the coordinator (sessions.ts), from the funded    *)
(* request to its settlement, over the node records (Fleet) and the book   *)
(* (Ledger).  Every handler runs in one SERIALIZABLE transaction, so every *)
(* action is atomic; what interleaves is whole handlers, called by the     *)
(* gateway, the consumer, the nodes and the periodic reaper in any order.  *)
(*                                                                         *)
(* A handler that throws or answers without writing is a stuttering step   *)
(* and has no action.  A session is named by its account and idempotency   *)
(* key: a repeated create finds the row and changes nothing.  Deadlines    *)
(* (120 s queued, 180 s from admission) are the set of overdue sessions.   *)
(***************************************************************************)
EXTENDS Offers, Payout, SequencesExt, FiniteSetsExt

CONSTANTS
  Session,     \* sessions, by account and idempotency key
  Requester,   \* the consumer's account of each session
  Hold,        \* quoted maximum of each session, reserved at creation
  Charge,      \* what chargeFor may return for the usage of a receipt
  Slots,       \* concurrent sessions each domain can serve
  Opening,     \* the opening available balance of each account
  Issued,      \* what the issuer has granted in all
  MaxLive,     \* unfinished sessions per account (4 in the code)
  Movable,     \* bound of the model: the offers whose listing may change
  Reports      \* bound of the model: which unsuccessful reports nodes send

ASSUME SessionsAssumption ==
  /\ Requester \in [Session -> User]
  /\ Hold \in [Session -> 0..MaxAmount]
  /\ Charge \subseteq Nat
  /\ Slots \in [Domain -> Nat \ {0}]
  /\ IsFiniteSet(Session)
  /\ Opening \in [User -> Nat]
  /\ Issued \in Int /\ Issued = SumFunction(Opening)
  /\ MaxLive \in Nat \ {0}
  /\ Movable \subseteq Offer
  /\ Reports \subseteq {"INVALID", "FAILED", "CANCELLED", "INTERRUPTED"}

VARIABLES
  listed,      \* offers of a qualified model, all of whose providers consent
  row,         \* the sessions table with participants, domains and receipts
  overdue,     \* sessions whose current deadline has passed
  created,     \* created_at, as the ordinal of the creation
  served       \* last_admitted_at of each account, as the ordinal of the admission

worldVars == <<fleetVars, listed>>
sessionVars == <<row, overdue, created, served>>
vars == <<balance, journal, epoch, phase, desired, fresh,
          listed, row, overdue, created, served>>

-----------------------------------------------------------------------------
(* The rows.  A definition whose name has an underscore states a plausible   *)
(* bug of the definition after it; no action of the specification uses it.   *)

Active == {"PREPARING", "AUTHORIZED", "RUNNING", "CANCELLING"}
Live == {"QUEUED"} \cup Active
\* A bug: the gateway may end a session that a node has claimed.
Unclaimed_Any == Live
Unclaimed == {"QUEUED", "PREPARING", "AUTHORIZED"}
Terminal == {"COMPLETED", "FAILED", "CANCELLED", "INTERRUPTED"}
Billing == {"HELD", "SETTLED", "REFUNDED", "DISPUTED"}

\* A report is COMPLETED with evidence the code accepts, COMPLETED without it
\* (INVALID), or another outcome of the node.
Report == {"COMPLETED", "INVALID", "FAILED", "CANCELLED", "INTERRUPTED"}
Pending == "PENDING"

NoOffer == 0

Row == [state : {"NEW"} \cup Live \cup Terminal,
        billing : Billing,
        charged : Nat,
        offer : Offer \cup {NoOffer},
        epochs : [Node -> Nat],
        claimed : SUBSET Node,
        report : [Node -> Report \cup {Pending}],
        cost : Nat]

NewRow == [state |-> "NEW", billing |-> "HELD", charged |-> 0,
           offer |-> NoOffer, epochs |-> [n \in Node |-> 0], claimed |-> {},
           report |-> [n \in Node |-> Pending], cost |-> 0]

HoldKey(s) == <<"hold", s>>
\* A bug: the settlement takes the key of the reservation.
SettleKey_Reused(s) == HoldKey(s)
SettleKey(s) == <<"settle", s>>

SessionsTypeOK ==
  /\ LedgerTypeOK
  /\ FleetTypeOK
  /\ listed \subseteq Offer
  /\ journal \subseteq {HoldKey(s) : s \in Session} \cup {SettleKey(s) : s \in Session}
  /\ row \in [Session -> Row]
  /\ overdue \subseteq Session
  /\ created \in [Session -> Nat]
  /\ served \in [User -> Nat]

Init ==
  /\ balance = [a \in Account |-> IF \E u \in User : a = Available(u)
                                  THEN Opening[a[2]]
                                  ELSE IF a = LabIssuer THEN 0 - Issued
                                  ELSE 0]
  /\ journal = {}
  /\ FleetInit
  /\ listed = Offer
  /\ row = [s \in Session |-> NewRow]
  /\ overdue = {}
  /\ created = [s \in Session |-> 0]
  /\ served = [u \in User |-> 0]

-----------------------------------------------------------------------------
(* Capacity and the admission order.                                       *)

LiveOf(u) == {s \in Session : Requester[s] = u /\ row[s].state \in Live}

\* active_session_domains: the sessions that occupy a slot of domain d.
Occupants(d) ==
  {s \in Session : row[s].state \in Active /\ d \in Domains(row[s].offer)}

\* ready_execution_offers: the offer is listed and all its nodes are serving.
Ready(o) == o \in listed /\ \A n \in Nodes(o) : Serving(n)

HasRoom_OneMore(o) == \A d \in Domains(o) : Cardinality(Occupants(d)) <= Slots[d]
HasRoom(o) == \A d \in Domains(o) : Cardinality(Occupants(d)) < Slots[d]

Queued(s) == row[s].state = "QUEUED" /\ s \notin overdue

Executable(s) == Queued(s) /\ \E o \in Offer : Ready(o) /\ HasRoom(o)

\* Greedy packing of the ready offers, in offer_key order, into free slots.
Pack(free) ==
  LET Fit(left, o) == Min({left[d] : d \in Domains(o)})
      Take(acc, o) ==
        [count |-> acc.count + Fit(acc.left, o),
         left  |-> [d \in Domain |-> acc.left[d]
                      - (IF d \in Domains(o) THEN Fit(acc.left, o) ELSE 0)]]
      offers == SelectSeq([o \in Offer |-> o], Ready)
  IN  FoldLeft(Take, [count |-> 0, left |-> free], offers).count

\* The elastic quota of account u (capacity.ts): one session while others
\* wait or nothing is ready, two while every slot is busy, else the hard limit.
Quota(u) ==
  LET free == [d \in Domain |-> Max({0, Slots[d] - Cardinality(Occupants(d))})]
  IN  IF (\E s \in Session : Requester[s] # u /\ Queued(s)) \/ Pack(Slots) = 0
      THEN 1
      ELSE IF Pack(free) = 0 THEN 2 ELSE MaxLive

\* Both limits of a new session: the account's own and the elastic quota.
MayOpen(u) ==
  Cardinality(LiveOf(u)) < MaxLive /\ Cardinality(LiveOf(u)) < Quota(u)

\* The least recently served account goes first, then the oldest session.
Earlier_NewestFirst(s, t) ==
  \/ served[Requester[s]] < served[Requester[t]]
  \/ served[Requester[s]] = served[Requester[t]] /\ created[s] > created[t]
Earlier(s, t) ==
  \/ served[Requester[s]] < served[Requester[t]]
  \/ served[Requester[s]] = served[Requester[t]] /\ created[s] < created[t]
Foremost(s) ==
  Executable(s) /\ \A t \in Session \ {s} : Executable(t) => Earlier(s, t)

-----------------------------------------------------------------------------
(* The consumer's request, and the end of every session.                   *)

Routed(s) == IsRoute(row[s].offer)

\* A bug: participants are compared by identity and not by epoch.
Current_AnyEpoch(s, preparing) ==
  \A n \in Nodes(row[s].offer) :
    desired[n] # "REVOKED" /\ (preparing => Serving(n))

\* The participants of s are still the processes that were admitted; when
\* preparing they must also be serving (currentParticipants).
Current(s, preparing) ==
  \A n \in Nodes(row[s].offer) :
    /\ epoch[n] = row[s].epochs[n]
    /\ desired[n] # "REVOKED"
    /\ preparing => Serving(n)

\* The provider account v's part of what is left of the charge after the fee.
Earned(s, charge, v) ==
  LET o == row[s].offer
  IN  IF charge = 0 THEN 0
      ELSE SumFunctionOnSet(splitByBps(charge - feeOf(charge), Shares[o]),
                            {i \in DOMAIN Members[o] : Owner[Members[o][i]] = v})

\* A bug: the fee is returned to the consumer.
SettlementLines_FeeBack(s, charge) ==
  [a \in Account |->
     IF a = Held(Requester[s]) THEN 0 - Hold[s]
     ELSE IF \E v \in User : a = Available(v)
     THEN Earned(s, charge, a[2])
            + (IF a[2] = Requester[s] THEN Hold[s] - charge + feeOf(charge) ELSE 0)
     ELSE 0]

\* The hold is closed: the charge goes to providers and fee, the rest returns.
SettlementLines(s, charge) ==
  [a \in Account |->
     IF a = Held(Requester[s]) THEN 0 - Hold[s]
     ELSE IF a = LabWorking THEN feeOf(charge)
     ELSE IF \E v \in User : a = Available(v)
     THEN Earned(s, charge, a[2])
            + (IF a[2] = Requester[s] THEN Hold[s] - charge ELSE 0)
     ELSE 0]

Billed(charge) == IF charge > 0 THEN "SETTLED" ELSE "REFUNDED"

\* r is the row of s as the handler has changed it so far.
finalize(s, r, state, charge, billing) ==
  /\ charge <= Hold[s]
  /\ IF Hold[s] > 0 THEN Post(SettleKey(s), SettlementLines(s, charge))
     ELSE UNCHANGED ledgerVars
  /\ row' = [row EXCEPT ![s] = [r EXCEPT !.state = state,
                                         !.billing = billing,
                                         !.charged = charge]]

create(s) ==
  LET u == Requester[s] IN
  /\ row[s].state = "NEW"
  /\ MayOpen(u)
  /\ IF Hold[s] > 0
     THEN Post(HoldKey(s), [NoLines EXCEPT ![Available(u)] = 0 - Hold[s],
                                           ![Held(u)] = Hold[s]])
     ELSE UNCHANGED ledgerVars
  /\ row' = [row EXCEPT ![s].state = "QUEUED"]
  /\ created' = [created EXCEPT ![s] = 1 + Cardinality({t \in Session : row[t].state # "NEW"})]
  /\ UNCHANGED <<worldVars, overdue, served>>

\* The queue or execution deadline of s goes by.
Expire(s) ==
  /\ row[s].state \in Live
  /\ s \notin overdue
  /\ overdue' = overdue \cup {s}
  /\ UNCHANGED <<ledgerVars, worldVars, row, created, served>>

-----------------------------------------------------------------------------
(* Admission, preparation and the single-use claims.                       *)

\* The session whose turn it is takes an open offer and freezes its epochs.
admit(s, o) ==
  /\ Foremost(s)
  /\ Ready(o) /\ HasRoom(o)
  /\ row' = [row EXCEPT ![s].state = "PREPARING",
                        ![s].offer = o,
                        ![s].epochs = [n \in Node |-> IF n \in Nodes(o)
                                                      THEN epoch[n] ELSE 0]]
  /\ served' = [served EXCEPT ![Requester[s]] =
                   1 + Cardinality({t \in Session : row[t].offer # NoOffer})]
  /\ UNCHANGED <<ledgerVars, worldVars, overdue, created>>

\* The gateway asks for admission after the queue deadline.
admitLate(s) ==
  /\ row[s].state = "QUEUED"
  /\ s \in overdue
  /\ finalize(s, row[s], "INTERRUPTED", 0, "REFUNDED")
  /\ UNCHANGED <<worldVars, overdue, created, served>>

\* All participants have confirmed their preparation.
authorize(s) ==
  /\ row[s].state = "PREPARING"
  /\ s \notin overdue
  /\ LET n == Root(row[s].offer)
     IN  epoch[n] = row[s].epochs[n] /\ desired[n] = "READY" /\ fresh[n]
  /\ Routed(s) => Current(s, TRUE)
  /\ row' = [row EXCEPT ![s].state = "AUTHORIZED"]
  /\ UNCHANGED <<ledgerVars, worldVars, overdue, created, served>>

stageClaim(s, n) ==
  /\ row[s].state = "AUTHORIZED"
  /\ s \notin overdue
  /\ Routed(s) /\ Current(s, TRUE)
  /\ n \in Stages(row[s].offer) \ row[s].claimed
  /\ row' = [row EXCEPT ![s].claimed = @ \cup {n}]
  /\ UNCHANGED <<ledgerVars, worldVars, overdue, created, served>>

\* The root may start only after every stage has claimed.
StagesClaimed(s) == Stages(row[s].offer) \subseteq row[s].claimed

claim(s) ==
  LET n == Root(row[s].offer) IN
  /\ row[s].state = "AUTHORIZED"
  /\ s \notin overdue
  /\ Routed(s) => Current(s, TRUE) /\ StagesClaimed(s)
  /\ epoch[n] = row[s].epochs[n] /\ desired[n] = "READY"
  /\ row' = [row EXCEPT ![s].state = "RUNNING", ![s].claimed = @ \cup {n}]
  /\ UNCHANGED <<ledgerVars, worldVars, overdue, created, served>>

-----------------------------------------------------------------------------
(* Receipts.                                                               *)

\* Every participant of r has reported.
Complete_RootOnly(r) == r.report[Root(r.offer)] # Pending
Complete(r) == \A n \in Nodes(r.offer) : r.report[n] # Pending

\* With r as the row of s: a refusal of any stage ends the route, a full set
\* of accepted reports pays it, and otherwise the report is only recorded.
settleRoute(s, r) ==
  LET failed == \E n \in Stages(r.offer) : r.report[n] \notin {Pending, "COMPLETED"}
  IN  \/ /\ r.state = "CANCELLING" \/ failed
         /\ finalize(s, r, IF r.state = "CANCELLING" THEN "CANCELLED" ELSE "FAILED",
                     0, "REFUNDED")
      \/ /\ r.state # "CANCELLING" /\ ~failed
         /\ ~Complete(r)
         /\ row' = [row EXCEPT ![s] = r]
         /\ UNCHANGED ledgerVars
      \/ /\ r.state # "CANCELLING" /\ ~failed
         /\ Complete(r)
         /\ Current(s, FALSE)
         /\ finalize(s, r, "COMPLETED", r.cost, Billed(r.cost))

\* A report by node n, after the deadline of an attempt it takes part in.
lateReceipt(s, n) ==
  /\ row[s].state \in Active
  /\ s \in overdue
  /\ n \in Nodes(row[s].offer) /\ row[s].report[n] = Pending
  /\ finalize(s, row[s], "INTERRUPTED", 0, "REFUNDED")
  /\ UNCHANGED <<worldVars, overdue, created, served>>

\* A report is paid for if it is complete and the consumer still wants it.
Payable(s, report) == report = "COMPLETED" /\ row[s].state # "CANCELLING"

\* The root's signed receipt, with the charge its usage comes to.
receipt(s, report, cost) ==
  LET n == Root(row[s].offer)
      r == [row[s] EXCEPT !.report[n] = report, !.cost = cost]
      charge == IF Payable(s, report) THEN cost ELSE 0
  IN
  /\ row[s].state \in {"RUNNING", "CANCELLING"}
  /\ s \notin overdue
  /\ row[s].report[n] = Pending
  /\ epoch[n] = row[s].epochs[n] /\ desired[n] # "REVOKED"
  /\ IF Routed(s) /\ Payable(s, report)
     THEN settleRoute(s, r)
     ELSE finalize(s, r,
                   IF row[s].state = "CANCELLING" THEN "CANCELLED"
                   ELSE IF report = "INVALID" THEN "FAILED" ELSE report,
                   charge,
                   IF report = "INVALID" THEN "DISPUTED" ELSE Billed(charge))
  /\ UNCHANGED <<worldVars, overdue, created, served>>

\* The signed receipt of a stage; a completed one needs the root to have started.
stageReceipt(s, n, report) ==
  /\ row[s].state \in {"AUTHORIZED", "RUNNING", "CANCELLING"}
  /\ s \notin overdue
  /\ Routed(s)
  /\ n \in Stages(row[s].offer) \cap row[s].claimed
  /\ row[s].report[n] = Pending
  /\ report \in {"COMPLETED", "INVALID"} => Root(row[s].offer) \in row[s].claimed
  /\ Current(s, FALSE)
  /\ settleRoute(s, [row[s] EXCEPT !.report[n] = report])
  /\ UNCHANGED <<worldVars, overdue, created, served>>

-----------------------------------------------------------------------------
(* Cancellation, failure and the reaper.                                   *)

\* A running session is only marked: its receipt or its deadline ends it.
cancel(s) ==
  /\ \/ /\ row[s].state = "RUNNING"
        /\ row' = [row EXCEPT ![s].state = "CANCELLING"]
        /\ UNCHANGED ledgerVars
     \/ /\ row[s].state \in Unclaimed
        /\ finalize(s, row[s], "CANCELLED", 0, "REFUNDED")
  /\ UNCHANGED <<worldVars, overdue, created, served>>

\* The gateway gives up on a session that no node has claimed.
fail(s) ==
  /\ row[s].state \in Unclaimed
  /\ finalize(s, row[s], "FAILED", 0, "REFUNDED")
  /\ UNCHANGED <<worldVars, overdue, created, served>>

\* A participant restarted under another epoch, or was revoked.
Fenced(s) == row[s].offer # NoOffer /\ ~Current(s, FALSE)

Reapable_FencedOnly(s) == Fenced(s)
Reapable(s) == s \in overdue \/ Fenced(s)

\* One row of a reaper run.  A run ends every such row it can lock (SKIP
\* LOCKED), so each row by itself is also a run.
reap(s) ==
  /\ row[s].state \in Live
  /\ Reapable(s)
  /\ finalize(s, row[s],
              IF row[s].state = "CANCELLING" THEN "CANCELLED" ELSE "INTERRUPTED",
              0, "REFUNDED")
  /\ UNCHANGED <<worldVars, overdue, created, served>>

FleetStep == FleetNext /\ UNCHANGED <<ledgerVars, listed, sessionVars>>

\* An offer is taken off or put back: its model or route is qualified or revoked,
\* or a provider withdraws from the route (Routes has the handlers).
Relist(o) ==
  /\ listed' = IF o \in listed THEN listed \ {o} ELSE listed \cup {o}
  /\ UNCHANGED <<ledgerVars, fleetVars, sessionVars>>

Next ==
  \/ FleetStep
  \/ \E o \in Movable : Relist(o)
  \/ \E s \in Session :
       \/ create(s) \/ Expire(s) \/ admitLate(s) \/ authorize(s) \/ claim(s)
       \/ cancel(s) \/ fail(s) \/ reap(s)
       \/ \E o \in Offer : admit(s, o)
       \/ \E n \in Node : stageClaim(s, n) \/ lateReceipt(s, n)
       \/ \E cost \in Charge : receipt(s, "COMPLETED", cost)
       \/ \E report \in Reports : receipt(s, report, 0)
       \/ \E n \in Node, report \in Reports \cup {"COMPLETED"} :
            stageReceipt(s, n, report)

Spec == Init /\ [][Next]_vars

\* Deadlines go by and the reaper comes round every two seconds.
Fairness == \A s \in Session : WF_vars(Expire(s)) /\ WF_vars(reap(s))

FairSpec == Spec /\ Fairness

-----------------------------------------------------------------------------
(* What must hold.                                                         *)

Sum(S, f(_)) == SumFunctionOnSet([x \in S |-> f(x)], S)

\* The book and the sessions tell one story: an account's held balance is
\* exactly the holds of its unfinished sessions, and its available balance is
\* what it opened with, less holds and charges, plus what its nodes earned.
\* Broken by any path that ends a session without its posting, posts twice, or
\* pays by other shares than those that were admitted.
BooksMatchSessions ==
  \A u \in User :
    LET mine == {s \in Session : Requester[s] = u /\ row[s].state # "NEW"}
        unfinished(s) == IF row[s].state \in Live THEN Hold[s] ELSE 0
    IN  /\ balance[Held(u)] = Sum(mine, unfinished)
        /\ balance[Available(u)] =
             Opening[u] - Sum(mine, LAMBDA s : unfinished(s) + row[s].charged)
               + Sum({s \in Session : row[s].charged > 0},
                     LAMBDA s : Earned(s, row[s].charged, u))

\* No request is charged until the root's completed receipt and every stage's
\* have been accepted, each from a process that had claimed the attempt.
ChargedOnlyOnFullEvidence ==
  \A s \in Session : row[s].charged > 0 =>
    /\ row[s].state = "COMPLETED" /\ row[s].billing = "SETTLED"
    /\ \A n \in Nodes(row[s].offer) :
         row[s].report[n] = "COMPLETED" /\ n \in row[s].claimed

\* The shape of a row r in each state: what has been frozen, claimed, reported
\* and charged by then.  Strong enough to be kept by every handler.
Consistent(r) ==
  /\ r.state \in {"NEW", "QUEUED"} => r.offer = NoOffer
  /\ r.state \in Active \cup {"COMPLETED"} => r.offer \in Offer
  /\ r.state \in {"NEW", "QUEUED", "PREPARING"} => r.claimed = {}
  /\ r.state = "AUTHORIZED" => r.claimed \subseteq Stages(r.offer)
  /\ r.state \in {"RUNNING", "CANCELLING", "COMPLETED"} => r.claimed = Nodes(r.offer)
  /\ r.state \in {"NEW", "QUEUED", "PREPARING", "AUTHORIZED"} =>
       \A n \in Node : r.report[n] = Pending
  /\ r.state \in {"RUNNING", "CANCELLING"} =>
       \A n \in Node : r.report[n] \in {Pending, "COMPLETED"}
  /\ r.state = "COMPLETED" => \A n \in Nodes(r.offer) : r.report[n] = "COMPLETED"
  /\ r.state \in {"NEW"} \cup Live => r.charged = 0 /\ r.billing = "HELD"
  /\ r.charged > 0 => r.state = "COMPLETED" /\ r.billing = "SETTLED"

\* Every session's row has the shape of its state: a route is not authorized
\* with claims of a former attempt, nor charged outside a full settlement.
RowsConsistent == \A s \in Session : Consistent(row[s])

\* The reservation and the settlement of a session are posted once each, the
\* settlement exactly when the session ends.
PostedExactlyOnce ==
  \A s \in Session : Hold[s] > 0 =>
    /\ HoldKey(s) \in journal <=> row[s].state # "NEW"
    /\ SettleKey(s) \in journal <=> row[s].state \in Terminal

\* What every handler keeps, whichever of the seven ends a session: no balance but the
\* issuer's goes below zero, nothing is posted twice or forgotten, and every row has the
\* shape of its state.  (sessions.ts, ledger.ts post)
SessionsInv == SessionsTypeOK /\ PostedExactlyOnce /\ RowsConsistent

\* The sessions admitted to a domain never outnumber its slots, through every
\* mix of single-node offers and routes that share the domain.
SlotsRespected == \A d \in Domain : Cardinality(Occupants(d)) <= Slots[d]

\* A started route has the claims of all its stages and of its root.
StartedMeansAllClaimed ==
  \A s \in Session :
    row[s].state \in {"RUNNING", "CANCELLING", "COMPLETED"} =>
      row[s].claimed = Nodes(row[s].offer)

\* "Requests within an account retain FIFO order": a step admits no session
\* while an older one of the same account still waits within its deadline.
FifoWithinAccount ==
  [][\A s, t \in Session :
       /\ Requester[s] = Requester[t]
       /\ Queued(s) /\ Queued(t) /\ created[t] < created[s]
       => row'[s].state # "PREPARING"]_vars

\* The account admitted last gets no further slot while another account waits.
AccountsTakeTurns ==
  [][\A s, t \in Session :
       /\ Queued(s) /\ Queued(t) /\ Requester[s] # Requester[t]
       /\ \A u \in User \ {Requester[s]} : served[u] < served[Requester[s]]
       => row'[s].state # "PREPARING"]_vars

\* Admission is in turn, between the accounts and within each.  (sessions.ts 233-398)
AdmissionInTurn == FifoWithinAccount /\ AccountsTakeTurns

\* A step completes a session only while every participant is the process that
\* was admitted and none is revoked: a restarted node is never paid for the
\* attempt of the process before it.
CompletedUnderOneEpoch ==
  [][\A s \in Session :
       row[s].state # "COMPLETED" /\ row'[s].state = "COMPLETED" =>
         \A n \in Nodes(row[s].offer) :
           epoch[n] = row[s].epochs[n] /\ desired[n] # "REVOKED"]_vars

\* The end of a session is final: no later receipt, cancellation, failure or
\* reaper run changes its outcome, its charge or its evidence.
EndIsFinal ==
  [][\A s \in Session : row[s].state \in Terminal => row'[s] = row[s]]_vars

\* "A claimed job is resolved by its signed receipt or the deadline, not by an
\* unconfirmed gateway observation" (sessions.ts fail): a step that ends a
\* claimed session records a report, follows its deadline, or finds a
\* participant restarted or revoked.
ClaimedEndsByEvidence ==
  [][\A s \in Session :
       row[s].state \in {"RUNNING", "CANCELLING"} /\ row'[s].state \in Terminal =>
         row'[s].report # row[s].report \/ s \in overdue \/ Fenced(s)]_vars

\* A cancelled request is not charged, whatever reports come after it.
CancelledIsFree ==
  [][\A s \in Session :
       row[s].state = "CANCELLING" => row'[s].charged = 0]_vars

\* A session ends once and for all, by evidence, and for nothing when it was cancelled,
\* in whatever order receipts, cancellations, failures and the reaper come.
EndsByEvidence == EndIsFinal /\ ClaimedEndsByEvidence /\ CancelledIsFree

\* Every created session ends, and with it its hold is released.
EveryoneIsReleased ==
  \A s \in Session : row[s].state \in Live ~> row[s].state \in Terminal

\* docs/implementation/ACCOUNTING.md: "Inconsistent usage creates DISPUTED
\* billing, zero charge and a failed terminal outcome."
DisputedMeansFailed ==
  \A s \in Session : row[s].billing = "DISPUTED" =>
    row[s].state = "FAILED" /\ row[s].charged = 0
=============================================================================
