-------------------------------- MODULE Stage --------------------------------
(***************************************************************************)
(* The paid work of a stage agent (stage.mjs createStageAgent).            *)
(*                                                                         *)
(* The root of a route prepares the stage, has itself authorized, starts   *)
(* the stage (which claims the job at the coordinator), sends compute      *)
(* commands over the guarded connection, and finishes it.  A finished job  *)
(* leaves a receipt on disk, which is delivered until the coordinator has  *)
(* taken it.  Commands, and the end of a job, go through one queue.        *)
(*                                                                         *)
(* Of a job's receipt only its outcome, its command count and its epoch    *)
(* are kept.  Deadlines are flags that time sets.  Coordinator replies may *)
(* be lost; a request that was never handled is one that will be retried.  *)
(***************************************************************************)
EXTENDS Readiness

CONSTANTS
  Job,             \* sessions that take the route
  MaxCommands,     \* commands a job may run (1,000,000 in the code)
  StartupCommands, \* commands the operator gives for free before readiness
  MaxPrepares      \* bound of the model: prepare identifiers handed out

Free == "free"
Receipt == [report : {"COMPLETED", "STOPPED"}, commands : Nat, epoch : Nat]

\* Nothing is neither a job nor a receipt, and no job is called as the free commands.
ASSUME NamesAssumption == Free \notin Job /\ None \notin Job \cup {Free} \cup Receipt

ASSUME StageAssumption == {MaxCommands, StartupCommands, MaxPrepares} \subseteq Nat

VARIABLES
  prepared,    \* the one preparation: job, identifier, connection; None
  prepares,    \* identifiers so far
  handed,      \* the identifier each root was given; 0: none
  active,      \* the job whose lease is held; None
  work,        \* what became of the lease of each job, and its commands
  claiming,    \* the stage-claim request in flight, of each job
  command,     \* the compute command in the queue: a job's, FREE or None
  free,        \* startup commands run
  ending,      \* the job that the failed connection will finish
  finishing,   \* receipts not yet on disk; None
  outbox,      \* receipts on disk; None
  late,        \* jobs past their execution deadline, and FREE
  authorized,  \* coordinator: the identifier of the authorization; 0: none
  granted,     \* coordinator: claimed_at is set
  filed,       \* coordinator: stage_receipts; None
  over,        \* coordinator: terminal sessions
  lost         \* history: jobs whose receipt went with the process or the disk

agentVars == <<prepared, prepares, active, work, claiming, command, free, ending,
               finishing, outbox, lost>>
deskVars == <<handed, late, authorized, granted, filed, over>>
workVars == <<agentVars, deskVars>>
stageVars == <<routesSide, readyVars, workVars>>

StageTypeOK ==
  /\ ReadinessTypeOK
  /\ prepared # None => prepared.job \in Job /\ prepared.id \in 1..prepares
  /\ prepares \in 0..MaxPrepares
  /\ active \in Job \cup {None} /\ command \in Job \cup {Free, None}
  /\ work \in [Job -> [state : {"NEW", "CLAIMING", "CLAIMED", "ENDED", "DROPPED", "LOST"},
                       commands : 0..MaxCommands]]
  /\ claiming \in [Job -> {"NO", "ASKED", "GRANTED"}]
  /\ free \in 0..StartupCommands /\ ending \in Job \cup {None}
  /\ \A j \in Job : \A r \in {finishing[j], outbox[j], filed[j]} :
       r # None => r \in Receipt /\ r.commands <= MaxCommands
  /\ {late, granted, over, lost} \subseteq SUBSET (Job \cup {Free})
  /\ {handed[j] : j \in Job} \cup {authorized[j] : j \in Job} \subseteq 0..prepares

-----------------------------------------------------------------------------
(* Requests of the root, under capabilities of the coordinator.            *)

\* A capability is for one job of the stage, and runs out with its time.
Capable(j) == j \notin late

\* A repeated request gets the preparation that is already there.
prepare(j) ==
  /\ readyNow /\ healthy /\ active = None
  /\ Capable(j) /\ j \notin over /\ authorized[j] = 0
  /\ \/ /\ prepared = None /\ prepares < MaxPrepares
        /\ prepares' = prepares + 1
        /\ prepared' = [job |-> j, id |-> prepares + 1, link |-> link.id]
     \/ /\ prepared # None /\ prepared.job = j
        /\ UNCHANGED <<prepares, prepared>>
  /\ handed' = [handed EXCEPT ![j] = prepared'.id]
  /\ UNCHANGED <<routesSide, readyVars, active, work, claiming, command, free, ending,
                 finishing, outbox, lost, late, authorized, granted, filed, over>>

\* The root releases the preparation, or fifteen seconds pass.
release ==
  /\ prepared # None
  /\ prepared' = None
  /\ UNCHANGED <<routesSide, readyVars, prepares, active, work, claiming, command, free,
                 ending, finishing, outbox, lost, deskVars>>

\* sessions.authorize records the identifier that the root reports.
authorize(j) ==
  /\ authorized[j] = 0 /\ handed[j] # 0
  /\ j \notin late \cup over
  /\ authorized' = [authorized EXCEPT ![j] = handed[j]]
  /\ UNCHANGED <<routesSide, readyVars, agentVars, handed, late, granted, filed, over>>

UsedUp == None

\* The lease is reserved before the claim is awaited.
start(j) ==
  /\ readyNow /\ active = None
  /\ prepared # None /\ prepared.job = j
  /\ authorized[j] = prepared.id
  /\ Capable(j)
  /\ active' = j
  /\ prepared' = UsedUp
  /\ work' = [work EXCEPT ![j].state = "CLAIMING"]
  /\ claiming' = [claiming EXCEPT ![j] = "ASKED"]
  /\ UNCHANGED <<routesSide, readyVars, prepares, command, free, ending, finishing,
                 outbox, lost, deskVars>>

\* sessions.stageClaim: once, for the process the job was given to.
stageClaimed(j) ==
  /\ claiming[j] = "ASKED" /\ incarnation = epoch[Guarded]
  /\ j \notin granted \cup over \cup late
  /\ granted' = granted \cup {j}
  /\ claiming' = [claiming EXCEPT ![j] = "GRANTED"]
  /\ UNCHANGED <<routesSide, readyVars, prepared, prepares, active, work, command, free,
                 ending, finishing, outbox, lost, handed, late, authorized, filed, over>>

claimAnswered(j) ==
  /\ claiming[j] = "GRANTED"
  /\ claiming' = [claiming EXCEPT ![j] = "NO"]
  /\ work' = [work EXCEPT ![j].state = IF @ = "CLAIMING" THEN "CLAIMED" ELSE @]
  /\ UNCHANGED <<routesSide, readyVars, prepared, prepares, active, command, free, ending,
                 finishing, outbox, lost, deskVars>>

\* Only the lease that asked.
Dropped(j) == IF active = j THEN None ELSE active

\* The claim is refused, or its answer is lost.
claimFails(j) ==
  /\ claiming[j] # "NO"
  /\ claiming' = [claiming EXCEPT ![j] = "NO"]
  /\ active' = Dropped(j)
  /\ work' = [work EXCEPT ![j].state = IF @ = "CLAIMING" THEN "DROPPED" ELSE @]
  /\ UNCHANGED <<routesSide, readyVars, prepared, prepares, command, free, ending,
                 finishing, outbox, lost, deskVars>>

-----------------------------------------------------------------------------
(* Compute commands (observeRpc).                                          *)

Payable(j) == work[j].state = "CLAIMED"

WithinLimit(j) == work[j].commands < MaxCommands

\* Whom the next command is charged to; nobody: it is refused.
beginCommand(who) ==
  /\ up = "UP" /\ link.shaken /\ ~link.failed /\ command = None
  /\ who \notin late
  /\ \/ who = active /\ who # None /\ Payable(who) /\ WithinLimit(who)
     \/ who = Free /\ active = None /\ opened /\ free < StartupCommands
  /\ command' = who
  /\ UNCHANGED <<routesSide, readyVars, prepared, prepares, active, work, claiming, free,
                 ending, finishing, outbox, lost, deskVars>>

\* The connection fails: the preparation goes, the job that is active will be
\* finished, a command in the queue is abandoned.
breaks ==
  /\ linkFails(active # None)
  /\ prepared' = None /\ ending' = active /\ command' = None

\* A command that the barrier acknowledged, too late or not: the connection is
\* closed if its time was over meanwhile.
endCommand ==
  /\ command # None
  /\ IF command = Free
     THEN free' = free + 1 /\ UNCHANGED work
     ELSE work' = [work EXCEPT ![command].commands = @ + 1] /\ UNCHANGED free
  /\ IF command \in late \/ (command # Free /\ work[command].state = "ENDED")
     THEN breaks
     ELSE command' = None /\ UNCHANGED <<routesSide, readyVars, prepared, ending>>
  /\ UNCHANGED <<prepares, active, claiming, finishing, outbox, lost, deskVars>>

linkBreaks ==
  /\ breaks
  /\ UNCHANGED <<prepares, active, work, claiming, free, finishing, outbox, lost, deskVars>>

\* Once the job that was active is finished, the connection is forgotten.
linkGone ==
  /\ linkForgotten
  /\ active # ending /\ finishing[ending] = None
  /\ ending' = None
  /\ UNCHANGED <<prepared, prepares, active, work, claiming, command, free, finishing,
                 outbox, lost, deskVars>>

-----------------------------------------------------------------------------
(* The end of a job (finish).                                              *)

MyTurn == command = None

\* The root reports the outcome in time; every other end (the root gives up, the
\* coordinator cancels, the deadline passes, the connection fails, the agent
\* stops) has the same effect.  Nothing computed is not a success.
cut(j, report) ==
  /\ active = j /\ MyTurn
  /\ report = "COMPLETED" => up = "UP" /\ j \notin late
  /\ active' = None
  /\ work' = [work EXCEPT ![j].state = "ENDED"]
  /\ finishing' = [finishing EXCEPT ![j] =
       [report |-> IF work[j].commands = 0 THEN "STOPPED" ELSE report,
        commands |-> work[j].commands, epoch |-> incarnation]]
  /\ UNCHANGED <<routesSide, readyVars, prepared, prepares, claiming, command, free, ending,
                 outbox, lost, deskVars>>

writeReceipt(j) ==
  /\ finishing[j] # None
  /\ outbox' = [outbox EXCEPT ![j] = finishing[j]]
  /\ finishing' = [finishing EXCEPT ![j] = None]
  /\ UNCHANGED <<routesSide, readyVars, prepared, prepares, active, work, claiming, command,
                 free, ending, lost, deskVars>>

\* The disk refuses: nothing is admitted until the agent is restarted.
writeFails(j) ==
  /\ finishing[j] # None
  /\ finishing' = [finishing EXCEPT ![j] = None]
  /\ lost' = lost \cup {j}
  /\ healthy' = FALSE /\ ready' = FALSE
  /\ UNCHANGED <<routesSide, clock, behind, seen, up, incarnation, link, links, declared,
                 opened, call, prepared, prepares, active, work, claiming, command, free,
                 ending, outbox, deskVars>>

\* sessions.stageReceipt: the same receipt again, a session that is over, or a
\* claimed job of the process that is still the node's.
Taken(j) ==
  \/ filed[j] = outbox[j]
  \/ filed[j] = None /\ j \in over
  \/ filed[j] = None /\ j \in granted /\ outbox[j].epoch = epoch[Guarded]

\* A bug: a receipt is deleted once it has been sent.
Unlinks_Sent(j, heard) == TRUE
\* The receipt is deleted on an answer that it was accepted or comes too late.
Unlinks(j, heard) == heard /\ Taken(j)

deliver(j, heard) ==
  /\ up # "DOWN" /\ outbox[j] # None
  /\ filed' = IF Taken(j) /\ j \notin over
              THEN [filed EXCEPT ![j] = outbox[j]] ELSE filed
  /\ outbox' = IF Unlinks(j, heard) THEN [outbox EXCEPT ![j] = None] ELSE outbox
  /\ UNCHANGED <<routesSide, readyVars, prepared, prepares, active, work, claiming, command,
                 free, ending, finishing, lost, handed, late, authorized, granted, over>>

-----------------------------------------------------------------------------
(* Time, the coordinator's own decisions, stops and crashes.               *)

\* Deadlines and ends matter once a root was given the stage.
expire(who) ==
  /\ who \notin late
  /\ who # Free => handed[who] # 0
  /\ late' = late \cup {who}
  /\ UNCHANGED <<routesSide, readyVars, agentVars, handed, authorized, granted, filed, over>>

endSession(j) ==
  /\ j \notin over /\ handed[j] # 0
  /\ over' = over \cup {j}
  /\ UNCHANGED <<routesSide, readyVars, agentVars, handed, late, authorized, granted, filed>>

stop ==
  /\ up = "UP"
  /\ up' = "STOPPING" /\ ready' = FALSE
  /\ UNCHANGED <<routesSide, clock, behind, seen, incarnation, link, links, declared,
                 healthy, opened, call, workVars>>

\* What a process takes with it; the files stay.
Forgets ==
  /\ prepared' = None /\ active' = None /\ command' = None /\ ending' = None /\ free' = 0
  /\ claiming' = [j \in Job |-> "NO"]
  /\ finishing' = [j \in Job |-> None]
  /\ lost' = lost \cup {j \in Job : finishing[j] # None}
  /\ work' = [j \in Job |-> IF work[j].state \in {"CLAIMING", "CLAIMED"}
                            THEN [work[j] EXCEPT !.state = "LOST"] ELSE work[j]]
  /\ UNCHANGED <<prepares, outbox, deskVars>>

exit ==
  /\ up = "STOPPING" /\ link = NoLink /\ active = None
  /\ \A j \in Job : finishing[j] = None
  /\ ceases /\ Forgets

dies == crash /\ Forgets

\* The readiness side by itself.
ReadySteps ==
  \/ signDeclaration \/ takeReport \/ connect \/ handshake \/ beat \/ readDeclaration
  \/ noDeclaration \/ readReport \/ noReport \/ restart

JobSteps ==
  \/ \E j \in Job :
       \/ prepare(j) \/ authorize(j) \/ start(j)
       \/ stageClaimed(j) \/ claimAnswered(j) \/ claimFails(j)
       \/ \E report \in {"COMPLETED", "STOPPED"} : cut(j, report)
       \/ writeReceipt(j) \/ writeFails(j)
  \/ \E who \in Job \cup {Free} : beginCommand(who) \/ expire(who)
  \/ release \/ endCommand \/ linkBreaks \/ linkGone

Deliveries ==
  \E j \in Job : endSession(j) \/ \E heard \in BOOLEAN : deliver(j, heard)

-----------------------------------------------------------------------------
(* What must hold.                                                         *)

\* Every command that a job's receipt may claim was run under a claim that the
\* coordinator had recorded.
CommandsAreClaimed == \A j \in Job : work[j].commands > 0 => j \in granted

\* A receipt counts every command the worker acknowledged, wherever the receipt is
\* and however the job's end fell among its commands.
ReceiptsAddUp ==
  \A j \in Job : \A r \in {finishing[j], outbox[j], filed[j]} :
    r # None => r.commands = work[j].commands

\* A job that ended leaves a receipt until the coordinator has it or the session is
\* over, unless the process died or the disk failed while it was being written.
ReceiptNotForgotten ==
  \A j \in Job : work[j].state = "ENDED" =>
    \/ j \in over \cup lost
    \/ \E r \in {finishing[j], outbox[j], filed[j]} : r # None

\* A claimed job ends with a receipt or with the process: the late refusal of an
\* older claim never takes a newer lease with it.
ClaimedEndsWithReceipt ==
  [][\A j \in Job : active = j /\ work[j].state = "CLAIMED" /\ active' # j =>
       finishing'[j] # None \/ up' = "DOWN"]_stageVars

\* A job is started at most once in the life of a stage, through lapsed and repeated
\* preparations, lost claims and restarts.
StartedOnce ==
  [][\A j \in Job : active # j /\ active' = j => work[j].state = "NEW"]_stageVars

\* The operator's free commands are closed before the coordinator can have seen
\* this process ready: nothing runs for free beside work that is sold.
FreeOnlyBeforeReady ==
  [][command # Free /\ command' = Free =>
       ~(phase[Guarded] = "READY" /\ epoch[Guarded] = incarnation)]_stageVars

\* After a receipt could not be written nothing is started before a restart, even
\* if a heartbeat was under way.
StorageFailureStopsStarts ==
  [][active' \notin {active, None} => healthy]_stageVars

\* PORTABLE_CONTRIBUTORS.md: "RPC disconnect clears prepared work and readiness";
\* a job is started on the connection on which it was prepared.
StartedWherePrepared ==
  [][\A j \in Job : active # j /\ active' = j => prepared.link = link.id]_stageVars
=============================================================================
