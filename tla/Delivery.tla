------------------------------ MODULE Delivery ------------------------------
(***************************************************************************)
(* The processes around the coordinator, for offers of a single node: the  *)
(* gateway's task per request (crates/gateway) and the node process with   *)
(* its one permit, its heartbeat and its durable outbox (crates/node).     *)
(* The coordinator's handlers are those of Sessions, and every step here   *)
(* is a step of Sessions or leaves it unchanged.                           *)
(*                                                                         *)
(* A remote call may be lost or refused, be served and heard, or be served *)
(* without its answer being heard (a timeout, a broken connection, a caller *)
(* that has gone).  Node processes stop and start again at any point; what *)
(* outlives them is the outbox.  Consumers leave at any point, and a stop  *)
(* of the gateway is a consumer who leaves and a cancellation that is lost. *)
(***************************************************************************)
EXTENDS Sessions

CONSTANTS
  Directory,   \* the order in which a node lists the files of its outbox
  DiskFails    \* bound of the model: a receipt may fail to be written

ASSUME DeliveryAssumption ==
  /\ \A o \in Offer : ~IsRoute(o)
  /\ Directory \in Seq(Session) /\ DiskFails \in BOOLEAN
  /\ \A s \in Session : \E i \in DOMAIN Directory : Directory[i] = s

VARIABLES
  gate,        \* the gateway's task of each session: the call it makes next
  told,        \* the closing event the node has sent to the consumer
  agent,       \* the node processes
  local,       \* what the node process holds for each session
  token,       \* running sessions whose cancellation token is set
  outbox,      \* the receipt on the node's disk for each session
  loop         \* the background loop of each node process

deliveryVars == <<gate, told, agent, local, token, outbox, loop>>
processVars == <<agent, token, loop>>
allVars == <<vars, deliveryVars>>

-----------------------------------------------------------------------------
Gate == {"IDLE", "ADMIT", "PREPARE", "AUTHORIZE", "EXECUTE", "STREAM",
         "RELEASE", "CANCEL", "FAIL", "LEFT", "OVER"}
\* The task can still be dropped by its consumer's disconnection.
Droppable == Gate \ {"IDLE", "FAIL", "LEFT", "OVER"}

\* PREPARED is the permit for 15 seconds, STALE a reservation whose time is up.
Local == {"NONE", "PREPARED", "STALE", "CLAIMING", "RUNNING", "REPORTING"}
InRunning == {"RUNNING", "REPORTING"}

NoReceipt == [report |-> Pending, cost |-> 0]
Receipt == [report : Report \cup {Pending}, cost : Nat]
Down == [up |-> FALSE, epoch |-> 0, ready |-> FALSE, healthy |-> TRUE]
\* able: what a heartbeat says, then what its answer says; ids: its sessions,
\* then those to cancel, then the files left in this pass over the outbox.
Rest == [at |-> "REST", able |-> FALSE, ids |-> {}]

DeliveryTypeOK ==
  /\ gate \in [Session -> Gate]
  /\ told \in [Session -> {"NOTHING", "DONE", "FAILED"}]
  /\ agent \in [Node -> [up : BOOLEAN, epoch : Nat, ready : BOOLEAN, healthy : BOOLEAN]]
  /\ \A n \in Node : agent[n].up => agent[n].epoch \in 1..epoch[n]
  /\ local \in [Session -> Local]
  /\ token \subseteq Session
  /\ outbox \in [Session -> Receipt]
  /\ loop \in [Node -> [at : {"REST", "ASKED", "SERVED", "ANSWERED", "FLUSH"},
                        able : BOOLEAN, ids : SUBSET Session]]

DeliveryInit ==
  /\ gate = [s \in Session |-> "IDLE"]
  /\ told = [s \in Session |-> "NOTHING"]
  /\ agent = [n \in Node |-> Down]
  /\ local = [s \in Session |-> "NONE"]
  /\ token = {}
  /\ outbox = [s \in Session |-> NoReceipt]
  /\ loop = [n \in Node |-> Rest]

AllInit == Init /\ DeliveryInit

-----------------------------------------------------------------------------
\* The node that a session was admitted to, and the sessions of a node.
At(s) == Root(row[s].offer)
Of(n) == {s \in Session : row[s].offer # NoOffer /\ At(s) = n}

\* The process that was admitted is up: it accepts the session's capability.
Alive(s) == agent[At(s)].up /\ agent[At(s)].epoch = row[s].epochs[At(s)]

\* The gateway's task of s goes on to the call c.
Goto(s, c) == gate' = [gate EXCEPT ![s] = c]
\* An unsuccessful dispatch cleans up: release, cancel, fail.
Fails(s) == Goto(s, "RELEASE")

-----------------------------------------------------------------------------
(* The gateway (chat, dispatch).                                           *)

\* The session is created; if the answer is lost no task will serve it.
open(s) ==
  /\ gate[s] = "IDLE"
  /\ create(s)
  /\ Goto(s, "ADMIT") \/ Goto(s, "OVER")
  /\ UNCHANGED <<told, local, outbox, processVars>>

\* The admission is polled; an answer QUEUED is a stuttering step.
pollAdmit(s) ==
  /\ gate[s] = "ADMIT"
  /\ \/ (\E o \in Offer : admit(s, o)) /\ (Goto(s, "PREPARE") \/ Goto(s, "FAIL"))
     \/ admitLate(s) /\ Goto(s, "FAIL")
     \/ UNCHANGED vars /\ Goto(s, "FAIL")
  /\ UNCHANGED <<told, local, outbox, processVars>>

\* A bug: a reservation lasts until it is released.
Purged_Nothing(n) == local
\* Reservations whose time is up are dropped before a new one is made.
Purged(n) == [s \in Session |-> IF s \in Of(n) /\ local[s] = "STALE"
                                THEN "NONE" ELSE local[s]]
PermitFree(n) == \A s \in Of(n) : local[s] \in {"NONE", "STALE"}

prepare(s) ==
  LET n == At(s) IN
  /\ gate[s] = "PREPARE"
  /\ UNCHANGED vars
  /\ \/ /\ Alive(s) /\ agent[n].ready /\ PermitFree(n)
        /\ local' = [Purged(n) EXCEPT ![s] = "PREPARED"]
        /\ Goto(s, "AUTHORIZE") \/ Fails(s)
     \/ Fails(s) /\ UNCHANGED local
  /\ UNCHANGED <<told, outbox, processVars>>

callAuthorize(s) ==
  /\ gate[s] = "AUTHORIZE"
  /\ \/ authorize(s) /\ (Goto(s, "EXECUTE") \/ Fails(s))
     \/ UNCHANGED vars /\ Fails(s)
  /\ UNCHANGED <<told, local, outbox, processVars>>

\* The node takes the reservation out and goes on to claim (execute).
callExecute(s) ==
  /\ gate[s] = "EXECUTE"
  /\ UNCHANGED vars
  /\ \/ /\ Alive(s) /\ local[s] = "PREPARED"
        /\ local' = [local EXCEPT ![s] = "CLAIMING"]
        /\ Goto(s, "STREAM") \/ Fails(s)
     \/ Fails(s) /\ UNCHANGED local
  /\ UNCHANGED <<told, outbox, processVars>>

\* The stream breaks, or takes too long or too much.
streamBreaks(s) ==
  /\ gate[s] = "STREAM"
  /\ Fails(s)
  /\ UNCHANGED <<vars, told, local, outbox, processVars>>

\* An execution that has been claimed keeps its permit.
callRelease(s) ==
  /\ gate[s] = "RELEASE"
  /\ Goto(s, "CANCEL")
  /\ \/ /\ Alive(s) /\ local[s] \in {"PREPARED", "STALE"}
        /\ local' = [local EXCEPT ![s] = "NONE"]
     \/ UNCHANGED local
  /\ UNCHANGED <<vars, told, outbox, processVars>>

callCancel(s) ==
  /\ gate[s] \in {"CANCEL", "LEFT"}
  /\ Goto(s, IF gate[s] = "LEFT" THEN "OVER" ELSE "FAIL")
  /\ cancel(s) \/ UNCHANGED vars
  /\ UNCHANGED <<told, local, outbox, processVars>>

callFail(s) ==
  /\ gate[s] = "FAIL"
  /\ Goto(s, "OVER")
  /\ fail(s) \/ UNCHANGED vars
  /\ UNCHANGED <<told, local, outbox, processVars>>

\* The consumer goes away: the task is dropped in whatever call it is.
leave(s) ==
  /\ gate[s] \in Droppable
  /\ Goto(s, "LEFT")
  /\ UNCHANGED <<vars, told, local, outbox, processVars>>

GatewayStep(s) ==
  \/ open(s) \/ pollAdmit(s) \/ prepare(s) \/ callAuthorize(s) \/ callExecute(s)
  \/ streamBreaks(s) \/ callRelease(s) \/ callCancel(s) \/ callFail(s) \/ leave(s)

-----------------------------------------------------------------------------
(* The node: executions.                                                   *)

prepareExpires(s) ==
  /\ local[s] = "PREPARED"
  /\ local' = [local EXCEPT ![s] = "STALE"]
  /\ UNCHANGED <<vars, gate, told, outbox, processVars>>

Claimed(s) == claim(s)

\* The claim's answer starts the execution; without one the reservation is
\* dropped, whether or not the coordinator has served the claim.  The handler
\* of a caller who has gone may also be dropped.
callClaim(s) ==
  /\ local[s] = "CLAIMING"
  /\ \/ /\ Claimed(s)
        /\ local' = [local EXCEPT ![s] = "RUNNING"]
        /\ UNCHANGED gate
     \/ /\ claim(s) \/ UNCHANGED vars
        /\ local' = [local EXCEPT ![s] = "NONE"]
        /\ IF gate[s] = "STREAM" THEN Fails(s) ELSE UNCHANGED gate
  /\ UNCHANGED <<told, outbox, processVars>>

\* The execution is over for the node: the permit returns, and the closing
\* event and the end of the stream go out if the caller is still there.
Close(s, event) ==
  /\ local' = [local EXCEPT ![s] = "NONE"]
  /\ IF gate[s] = "STREAM"
     THEN told' = [told EXCEPT ![s] = event] /\ Goto(s, "OVER")
     ELSE UNCHANGED <<told, gate>>
  /\ token' = token \ {s}

\* How an execution may end.  The engine checks that its stream is complete
\* but not that the usage fits the quote (INVALID); the cancellation is the
\* coordinator's or the caller's disconnection; the time limit may be up.
Outcome(s) ==
  {[report |-> "COMPLETED", cost |-> c] : c \in Charge}
  \cup {[report |-> r, cost |-> 0] :
          r \in {q \in Reports : q = "CANCELLED" => s \in token \/ gate[s] # "STREAM"}}

\* The receipt is written before it is sent; if it cannot be written the node
\* stops taking work.
runEnds(s) ==
  LET n == At(s) IN
  /\ local[s] = "RUNNING"
  /\ UNCHANGED vars
  /\ \/ /\ \E r \in Outcome(s) : outbox' = [outbox EXCEPT ![s] = r]
        /\ local' = [local EXCEPT ![s] = "REPORTING"]
        /\ UNCHANGED <<gate, told, processVars>>
     \/ /\ DiskFails
        /\ agent' = [agent EXCEPT ![n].healthy = FALSE, ![n].ready = FALSE]
        /\ Close(s, "FAILED")
        /\ UNCHANGED <<outbox, loop>>

-----------------------------------------------------------------------------
(* The delivery of receipts.                                               *)

\* A bug: a refusal counts as an answer.
Takes_AnyAnswer(s) == UNCHANGED vars
\* The coordinator takes the receipt of s: it has it already, the session has
\* ended or ends with it.  It refuses it from a revoked or restarted node as
\* long as the session has not ended.
Takes(s) ==
  /\ desired[At(s)] # "REVOKED"
  /\ \/ /\ row[s].report[At(s)] # Pending \/ row[s].state \in Terminal
        /\ UNCHANGED vars
     \/ lateReceipt(s, At(s))
     \/ receipt(s, outbox[s].report, outbox[s].cost)

\* The stream was complete: the report the node has written, or has delivered.
Completed(s) ==
  (IF outbox[s] # NoReceipt THEN outbox[s].report ELSE row[s].report[At(s)])
    \in {"COMPLETED", "INVALID"}

Drop(s) == outbox' = [outbox EXCEPT ![s] = NoReceipt]

\* A bug: without an answer the consumer is told that the execution failed.
PendingEvent_Failed(s) == "FAILED"
\* Without an answer a complete stream ends with a receipt pending.
PendingEvent(s) == IF Completed(s) THEN "DONE" ELSE "FAILED"

\* The answer of a duplicate names no state; any other must be COMPLETED.
AnsweredEvent(s) ==
  IF Completed(s) /\ (row[s].report[At(s)] # Pending \/ row'[s].state = "COMPLETED")
  THEN "DONE" ELSE "FAILED"

\* The execution sends its own receipt, once.
sendReceipt(s) ==
  /\ local[s] = "REPORTING"
  /\ \/ Takes(s) /\ Drop(s) /\ Close(s, AnsweredEvent(s))
     \/ /\ Takes(s) \/ UNCHANGED vars
        /\ UNCHANGED outbox /\ Close(s, PendingEvent(s))
  /\ UNCHANGED <<agent, loop>>

-----------------------------------------------------------------------------
(* The node: its background loop, and its stops and starts.                *)

Loop(n, at, able, ids) ==
  loop' = [loop EXCEPT ![n] = [at |-> at, able |-> able, ids |-> ids]]

Running(n) == {s \in Of(n) : local[s] \in InRunning}
Files(n) == {s \in Of(n) : outbox[s] # NoReceipt}

\* The start of a round.  Able is what the engine and the disk allow now; the
\* round that precedes the serving of requests is taken for one of these.
beat(n) ==
  /\ agent[n].up /\ loop[n].at = "REST"
  /\ local' = Purged(n)
  /\ \E loaded \in BOOLEAN : Loop(n, "ASKED", loaded /\ agent[n].healthy, Running(n))
  /\ UNCHANGED <<vars, gate, told, agent, token, outbox>>

\* The coordinator serves the heartbeat in two statements: it records the node
\* and notes what it may be,
beatServed(n) ==
  /\ loop[n].at = "ASKED"
  /\ epoch[n] = agent[n].epoch
  /\ Heartbeat(n, loop[n].able)
  /\ Loop(n, "SERVED", loop[n].able /\ desired[n] = "READY", loop[n].ids)
  /\ UNCHANGED <<ledgerVars, listed, sessionVars, gate, told, agent, local, token, outbox>>

\* and then lists which of its sessions are being cancelled or have ended.
beatListed(n) ==
  /\ loop[n].at = "SERVED"
  /\ Loop(n, "ANSWERED", loop[n].able,
          {s \in loop[n].ids : row[s].state \in {"CANCELLING"} \cup Terminal})
  /\ UNCHANGED <<vars, gate, told, agent, local, token, outbox>>

\* The answer is heard, and the pass over the outbox begins.
beatHeard(n) ==
  /\ loop[n].at = "ANSWERED"
  /\ agent' = [agent EXCEPT ![n].ready = loop[n].able]
  /\ token' = token \cup (loop[n].ids \cap Running(n))
  /\ Loop(n, "FLUSH", FALSE, Files(n))
  /\ UNCHANGED <<vars, gate, told, local, outbox>>

\* The heartbeat is refused, or lost on its way or back.
beatLost(n) ==
  /\ loop[n].at \in {"ASKED", "SERVED", "ANSWERED"}
  /\ agent' = [agent EXCEPT ![n].ready = FALSE]
  /\ Loop(n, "FLUSH", FALSE, Files(n))
  /\ UNCHANGED <<vars, gate, told, local, token, outbox>>

\* The pass of n comes to the file of s next.
Place(s) == CHOOSE i \in DOMAIN Directory : Directory[i] = s
IsNext(n, s) ==
  /\ loop[n].at = "FLUSH"
  /\ s \in loop[n].ids /\ \A t \in loop[n].ids : Place(s) <= Place(t)

Settled(s) == TRUE

\* The next receipt is delivered and taken.
flushOne(n, s) ==
  /\ IsNext(n, s)
  /\ outbox[s] # NoReceipt
  /\ Takes(s)
  /\ IF Settled(s) THEN Drop(s) ELSE UNCHANGED outbox
  /\ Loop(n, "FLUSH", FALSE, loop[n].ids \ {s})
  /\ UNCHANGED <<gate, told, agent, local, token>>

\* The pass ends: nothing is left, a file has gone, or a delivery has failed,
\* whether or not the coordinator has taken the receipt.
flushStops(n) ==
  /\ loop[n].at = "FLUSH"
  /\ Loop(n, "REST", FALSE, {})
  /\ \/ UNCHANGED vars
     \/ \E s \in Session : IsNext(n, s) /\ outbox[s] # NoReceipt /\ Takes(s)
  /\ UNCHANGED <<gate, told, agent, local, token, outbox>>

\* The process stops; only the outbox stays.  The bound on epochs leaves it
\* one more start.
crash(n) ==
  /\ agent[n].up /\ agent[n].epoch < MaxEpoch
  /\ agent' = [agent EXCEPT ![n] = Down]
  /\ loop' = [loop EXCEPT ![n] = Rest]
  /\ local' = [s \in Session |-> IF s \in Of(n) THEN "NONE" ELSE local[s]]
  /\ token' = token \ Of(n)
  /\ UNCHANGED <<vars, gate, told, outbox>>

Heard(n) == epoch'[n]

\* A new process has a new boot identity.  It stops again if it does not hear
\* its epoch.
start(n) ==
  /\ ~agent[n].up
  /\ Resume(n, TRUE)
  /\ \/ agent' = [agent EXCEPT ![n] = [up |-> TRUE, epoch |-> Heard(n),
                                       ready |-> FALSE, healthy |-> TRUE]]
     \/ epoch[n] + 1 < MaxEpoch /\ UNCHANGED agent
  /\ UNCHANGED <<ledgerVars, listed, sessionVars,
                 gate, told, local, token, outbox, loop>>

NodeStep(n) ==
  \/ beat(n) \/ beatServed(n) \/ beatListed(n) \/ beatHeard(n) \/ beatLost(n)
  \/ (\E s \in Session : flushOne(n, s)) \/ flushStops(n) \/ crash(n) \/ start(n)

ExecutionStep(s) ==
  prepareExpires(s) \/ callClaim(s) \/ runEnds(s) \/ sendReceipt(s)

-----------------------------------------------------------------------------
\* What the coordinator does by itself, and what owners and consumers ask of it.
CoordinatorStep ==
  /\ \/ \E s \in Session :
          Expire(s) \/ reap(s) \/ (gate[s] # "IDLE" /\ cancel(s))
     \/ /\ \E n \in Node : GoSilent(n) \/ \E order \in Orders : NodeState(n, order)
        /\ UNCHANGED <<ledgerVars, listed, sessionVars>>
  /\ UNCHANGED deliveryVars

AllNext ==
  \/ CoordinatorStep
  \/ \E s \in Session : GatewayStep(s) \/ ExecutionStep(s)
  \/ \E n \in Node : NodeStep(n)

DeliverySpec == AllInit /\ [][AllNext]_allVars

\* Deadlines pass and the reaper comes round (Sessions); a node's calls time
\* out after five seconds, its executions at their limit, its reservations
\* after fifteen seconds, and its loop sleeps for two seconds.
DeliveryFairness ==
  /\ \A s \in Session :
       /\ WF_allVars(Expire(s) /\ UNCHANGED deliveryVars)
       /\ WF_allVars(reap(s) /\ UNCHANGED deliveryVars)
       /\ WF_allVars(ExecutionStep(s))
  /\ \A n \in Node :
       /\ WF_allVars(beat(n))
       /\ WF_allVars(beatServed(n) \/ beatListed(n) \/ beatHeard(n) \/ beatLost(n))
       /\ WF_allVars((\E s \in Session : flushOne(n, s)) \/ flushStops(n))

\* A delivery that is tried on every round succeeds in the end.
DeliverySucceeds ==
  \A n \in Node, s \in Session :
    SF_allVars(flushOne(n, s))

FairDeliverySpec == DeliverySpec /\ DeliveryFairness /\ DeliverySucceeds

-----------------------------------------------------------------------------
(* What must hold.                                                         *)

\* A node runs, or has run, only an attempt that the coordinator has recorded
\* as claimed by this very process: neither a lost answer to a claim, nor a
\* restart, nor a cancellation in between makes it work for nobody.
OnlyClaimedRuns ==
  \A s \in Session : local[s] \in InRunning =>
    Alive(s) /\ At(s) \in row[s].claimed

\* A receipt leaves the disk only once its session has ended for good: no
\* refusal, lost answer, crash or race between the execution and the loop
\* loses evidence that could still be paid for.
ReceiptKeptUntilSettled ==
  [][\A s \in Session :
       outbox[s] # NoReceipt /\ outbox'[s] = NoReceipt => row'[s].state \in Terminal]_allVars

\* "Execution ended without a confirmed charge": a consumer whom the node has
\* told so is not charged later either, by any delivery of the receipt.
ToldFailureIsFree ==
  \A s \in Session : told[s] = "FAILED" => row[s].charged = 0

\* The node's only permit is at last returned by every session that takes it.
PermitReturns == \A s \in Session : local[s] # "NONE" ~> local[s] = "NONE"

\* Every receipt leaves the disk of a node that keeps running: one that is
\* refused for a time holds back those behind it, but not for ever.
OutboxDrains ==
  \A s \in Session : outbox[s] # NoReceipt ~> outbox[s] = NoReceipt \/ ~agent[At(s)].up

\* What a node and a consumer believe of a session is so: the node that executes has
\* claimed it, and who was told of a failure is not charged.
BeliefsAreTrue == DeliveryTypeOK /\ OnlyClaimedRuns /\ ToldFailureIsFree

\* Without help from gateway or consumer the permit comes back and the disk empties.
NothingStaysBehind == PermitReturns /\ OutboxDrains

\* docs/implementation/OPERATIONS.md: "A write failure blocks new admissions in
\* that process until correction and restart."
WriteFailureBlocksAdmission ==
  [][\A s \in Session :
       local[s] # "PREPARED" /\ local'[s] = "PREPARED" => agent[At(s)].healthy]_allVars
=============================================================================
