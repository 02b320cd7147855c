------------------------------- MODULE Worker -------------------------------
(***************************************************************************)
(* The contributor's worker (supervisor.mjs, state.mjs, guardian.mjs and   *)
(* the guardian's main.rs): each start of it is a process, a boot, that    *)
(* takes the lock, has itself contained by a guardian, starts its children *)
(* one by one, serves, and drains when one of them ends, when a status     *)
(* cannot be written, or when a stop is asked for.                         *)
(*                                                                         *)
(* What interleaves within a process is what awaits: the start, the stop,  *)
(* the periodic observation and the queue of status writes.  Processes,    *)
(* guardians and children also die at any point.                           *)
(***************************************************************************)
EXTENDS Integers, Sequences, FiniteSets

CONSTANT MaxBoots   \* bound of the model: starts of the worker

ASSUME WorkerAssumption == MaxBoots \in Nat \ {0}

Child == {"worker", "control_link", "rpc_link"}
Boot == 1..MaxBoots
NoBoot == 0

VARIABLES
  wk,        \* the process of each boot, with its guardian
  lock,      \* worker.lock: the boot it names
  asker,     \* the boot that a stop command has read from the lock
  request,   \* stop.request: the boot it names
  asked,     \* boots that somebody has asked to stop
  disk,      \* worker-status.json
  writes     \* statusQueue of each boot: whose turn it is, and what is written

workerVars == <<wk, lock, asker, request, asked, disk, writes>>

-----------------------------------------------------------------------------
\* The start: what it has come to.  A name with _UP says that the probe of a
\* wait has been answered, before its caller has resumed.
Starting == {"STALE", "RETAKE", "CLEAR", "PORTS", "ACK", "TELL", "CONFIGS", "ENGINE",
             "ENGINE_UP", "LINK", "LINK_UP", "AGENT", "AGENT_UP", "RPC", "RPC_UP", "TELL_ROOT"}
\* THREW: the start has failed and waits for the end of the stop.  LATE: it has
\* set its timer after a stop had cleared it.
At == {"IDLE", "SERVING", "LATE", "THREW", "OVER"} \cup Starting
Stopping == {"NO", "SAY", "AGENT", "CHILDREN", "LAST", "ENDED"}
JobState == {"NONE", "FENCED", "HELD", "TOLD", "GONE"}
WorkerPhase == {"STARTING", "WAITING_ROOT", "READY", "STOPPING", "STOPPED", "FAILED"}
Final == {"STOPPED", "FAILED"}
Unwritten == "UNWRITTEN"

WorkerTypeOK ==
  /\ wk \in [Boot -> [alive : BOOLEAN, at : At, stop : Stopping, failed : BOOLEAN,
                      poll : {"NO", "STOP", "FAIL", "SAY", "TOLD"}, children : SUBSET Child,
                      agent : {"NONE", "UP", "DOWN"}, job : JobState, phase : WorkerPhase]]
  /\ {lock, asker, request} \subseteq Boot \cup {NoBoot}
  /\ asked \subseteq Boot
  /\ disk \in [boot : Boot \cup {NoBoot}, phase : WorkerPhase]
  /\ \A b \in Boot : \A i \in DOMAIN writes[b] :
       writes[b][i] \in [by : {"start", "stop", "poll"}, text : WorkerPhase \cup {Unwritten}]

New == [alive |-> FALSE, at |-> "IDLE", stop |-> "NO", failed |-> FALSE, poll |-> "NO",
        children |-> {}, agent |-> "NONE", job |-> "NONE", phase |-> "STARTING"]
\* What is left of a process p that has ended: its children and its guardian.
Over(p) == [New EXCEPT !.at = "OVER", !.children = p.children, !.job = p.job]

WorkerInit ==
  /\ wk = [b \in Boot |-> New]
  /\ lock = NoBoot /\ asker = NoBoot /\ request = NoBoot /\ asked = {}
  /\ disk = [boot |-> NoBoot, phase |-> "STARTING"]
  /\ writes = [b \in Boot |-> <<>>]

stopping(b) == wk[b].stop # "NO"
\* A file that was never written, or that has been removed, names no boot.
Living(b) == b # NoBoot /\ wk[b].alive

-----------------------------------------------------------------------------
(* The stop and the status writes.                                         *)

QueuesWrite(b, by) == writes' = [writes EXCEPT ![b] = Append(@, [by |-> by, text |-> Unwritten])]

\* What stop(reason) does at once, in the process as it is by now, p.  A second
\* call only waits for the first.
StopFrom(b, p, failed) ==
  IF stopping(b) THEN wk' = [wk EXCEPT ![b] = p] /\ UNCHANGED writes
  ELSE /\ wk' = [wk EXCEPT ![b] = [p EXCEPT !.stop = "SAY", !.failed = failed,
                                            !.phase = "STOPPING"]]
       /\ QueuesWrite(b, "stop")

Turn(b) == DOMAIN writes[b] \cap {1}

\* The text is taken when the turn comes, not when the write was queued.
writeBegins(b) ==
  /\ Living(b)
  /\ \E i \in Turn(b) :
       /\ writes[b][i].text = Unwritten
       /\ writes' = [writes EXCEPT ![b][i].text = wk[b].phase]
  /\ UNCHANGED <<wk, lock, asker, request, asked, disk>>

Without(q, i) == SubSeq(q, 1, i - 1) \o SubSeq(q, i + 1, Len(q))

\* It ignores the failure.
StopGoesOn(ok) == TRUE

\* Whoever waits for the write goes on.
Resumed(p, by, ok) ==
  CASE by = "start" -> [p EXCEPT !.at = IF ~ok THEN "THREW"
                                        ELSE IF @ = "TELL" THEN "CONFIGS"
                                        ELSE IF p.stop = "NO" THEN "SERVING" ELSE "LATE"]
    [] by = "stop" -> [p EXCEPT !.stop = CASE ~StopGoesOn(ok) -> @
                                             [] @ = "SAY" -> "AGENT"
                                             [] OTHER -> "ENDED"]
    [] by = "poll" -> [p EXCEPT !.poll = IF ok THEN "NO" ELSE "FAIL"]

Whole(e) == e.text # Unwritten

\* A status is written; or left as it was because somebody is reading it, which
\* is the same to its caller; or it cannot be written.  The last step of a stop
\* removes the lock, whosever it is.
writeEnds(b) ==
  /\ Living(b)
  /\ \E i \in Turn(b), ok \in BOOLEAN :
       LET e == writes[b][i] IN
       /\ Whole(e)
       /\ writes' = [writes EXCEPT ![b] = Without(@, i)]
       /\ wk' = [wk EXCEPT ![b] = Resumed(@, e.by, ok)]
       /\ lock' = IF e.by = "stop" /\ wk[b].stop = "LAST" THEN NoBoot ELSE lock
       /\ \/ ok /\ disk' = [boot |-> b, phase |-> e.text]
          \/ UNCHANGED disk
  /\ UNCHANGED <<asker, request, asked>>

\* The agent is closed, if the start has got it by now, and the children are told.
stopAgent(b) ==
  /\ Living(b) /\ wk[b].stop = "AGENT"
  /\ wk' = [wk EXCEPT ![b].stop = "CHILDREN",
                      ![b].agent = IF @ = "UP" /\ wk[b].at # "AGENT_UP" THEN "DOWN" ELSE @]
  /\ UNCHANGED <<lock, asker, request, asked, disk, writes>>

\* Every child has ended: the final status is published.
stopLast(b) ==
  /\ Living(b) /\ wk[b].stop = "CHILDREN" /\ wk[b].children = {}
  /\ wk' = [wk EXCEPT ![b].stop = "LAST",
                      ![b].phase = IF wk[b].failed THEN "FAILED" ELSE "STOPPED"]
  /\ QueuesWrite(b, "stop")
  /\ UNCHANGED <<lock, asker, request, asked, disk>>

-----------------------------------------------------------------------------
(* The start: the lock, the ports and the guardian.                        *)

Goes(b, to) == wk' = [wk EXCEPT ![b].at = to]
OnlyWk == UNCHANGED <<lock, asker, request, asked, disk, writes>>
OnlyLock == UNCHANGED <<asker, request, asked, disk, writes>>

\* Starts are made in order.  The lock of a living process is respected; one of
\* a dead process is read here and removed in a later step.
startWorker(b) ==
  /\ wk[b].at = "IDLE" /\ \A a \in 1..(b - 1) : wk[a].at # "IDLE"
  /\ wk' = [wk EXCEPT ![b].alive = ~Living(lock),
                      ![b].at = IF lock = NoBoot THEN "CLEAR"
                                ELSE IF Living(lock) THEN "OVER" ELSE "STALE"]
  /\ lock' = IF lock = NoBoot THEN b ELSE lock
  /\ OnlyLock

Refused(b) == wk' = [wk EXCEPT ![b] = Over(@)]

\* The stale lock is removed.  By now it may be gone, or the lock of another.
takeOver(b) ==
  /\ Living(b) /\ wk[b].at = "STALE"
  /\ IF lock = NoBoot THEN Refused(b) ELSE Goes(b, "RETAKE")
  /\ lock' = NoBoot
  /\ OnlyLock

retake(b) ==
  /\ Living(b) /\ wk[b].at = "RETAKE"
  /\ IF lock = NoBoot THEN Goes(b, "CLEAR") /\ lock' = b
     ELSE Refused(b) /\ UNCHANGED lock
  /\ OnlyLock

\* A bug: a request that is left from before stays.
Cleared_Not == request
Cleared == NoBoot

\* stop.request is removed.
clears(b) ==
  /\ Living(b) /\ wk[b].at = "CLEAR"
  /\ request' = Cleared
  /\ Goes(b, "PORTS")
  /\ UNCHANGED <<lock, asker, asked, disk, writes>>

\* The ports are free if no child of any boot has them.  The guardian is started.
checksPorts(b) ==
  /\ Living(b) /\ wk[b].at = "PORTS"
  /\ \/ /\ \A a \in Boot : wk[a].children = {}
        /\ wk' = [wk EXCEPT ![b].at = "ACK", ![b].job = "FENCED"]
     \/ Goes(b, "THREW")
  /\ OnlyWk

\* The guardian has found that its parent is the process it was told of and is
\* alive, and puts it, not itself, into a job that ends with its handle.
assigns(b) ==
  /\ wk[b].job = "FENCED" /\ wk[b].alive
  /\ wk' = [wk EXCEPT ![b].job = "HELD"]
  /\ OnlyWk

\* It has verified the job and acknowledges.
acknowledges(b) ==
  /\ wk[b].job = "HELD"
  /\ wk' = [wk EXCEPT ![b].job = "TOLD"]
  /\ OnlyWk

\* A bug: the job does not end its processes with its handle.
InJob_Not(b) == {}
InJob(b) == wk[b].children

\* The guardian ends: it is refused, it fails, it is killed, or the supervisor
\* has given it up after five seconds.  The job's only handle is closed, and what
\* is in the job ends at once.
guardianEnds(b) ==
  /\ wk[b].job \in {"FENCED", "HELD", "TOLD"}
  /\ LET p == [wk[b] EXCEPT !.job = "GONE"]
         all == wk[b].job # "FENCED"
     IN  /\ wk' = [wk EXCEPT ![b] = IF all THEN Over([p EXCEPT !.children = @ \ InJob(b)]) ELSE p]
         /\ writes' = [writes EXCEPT ![b] = IF all THEN <<>> ELSE @]
  /\ UNCHANGED <<lock, asker, request, asked, disk>>

\* The supervisor's process has ended, and so does its guardian.
guardianSees(b) == ~wk[b].alive /\ guardianEnds(b)

Contained(b) == wk[b].job = "TOLD"

contained(b) ==
  /\ Living(b) /\ wk[b].at = "ACK" /\ Contained(b)
  /\ Goes(b, "TELL") /\ QueuesWrite(b, "start")
  /\ UNCHANGED <<lock, asker, request, asked, disk>>

guardianLost(b) ==
  /\ Living(b) /\ wk[b].at = "ACK" /\ wk[b].job = "GONE"
  /\ Goes(b, "THREW")
  /\ OnlyWk

-----------------------------------------------------------------------------
(* The start: the children and the agent, one after the other.             *)

MayLaunch(b) == ~stopping(b)

\* launch: the child of p that the start has come to.
Launch(b, p, c, to) ==
  wk' = [wk EXCEPT ![b] = IF MayLaunch(b)
                          THEN [p EXCEPT !.children = @ \cup {c}, !.at = to]
                          ELSE [p EXCEPT !.at = "THREW"]]

launches(b) ==
  /\ Living(b)
  /\ \/ wk[b].at = "CONFIGS" /\ Launch(b, wk[b], "worker", "ENGINE")
     \/ wk[b].at = "ENGINE_UP" /\ Launch(b, wk[b], "control_link", "LINK")
  /\ OnlyWk

Awaits == [ENGINE |-> "worker", LINK |-> "control_link", RPC |-> "rpc_link"]
Answered == [ENGINE |-> "ENGINE_UP", LINK |-> "LINK_UP", RPC |-> "RPC_UP"]

\* waitFor: a probe sent before the stop is answered, perhaps after it; or the
\* stop or the 15 seconds end the wait.
probes(b) ==
  /\ Living(b) /\ wk[b].at \in DOMAIN Awaits
  /\ \/ ~stopping(b) /\ Awaits[wk[b].at] \in wk[b].children /\ Goes(b, Answered[wk[b].at])
     \/ Goes(b, "THREW")
  /\ OnlyWk

\* createStageAgent opens the agent's ports before its caller has the agent.
createsAgent(b) ==
  /\ Living(b)
  /\ \/ wk[b].at = "LINK_UP" /\ Goes(b, "AGENT")
     \/ wk[b].at = "AGENT" /\ wk' = [wk EXCEPT ![b].at = "AGENT_UP", ![b].agent = "UP"]
     \/ wk[b].at = "AGENT" /\ Goes(b, "THREW")
  /\ OnlyWk

\* A bug: an agent that comes when the stop has gone past it stays.
Late_Stays(b) == wk[b]
Late(b) == [wk[b] EXCEPT !.agent = IF stopping(b) THEN "DOWN" ELSE @]

agentCreated(b) ==
  /\ Living(b) /\ wk[b].at = "AGENT_UP"
  /\ Launch(b, Late(b), "rpc_link", "RPC")
  /\ OnlyWk

\* The start is done, as far as it can see: nothing here asks whether a stop has
\* begun since the last probe was sent.
tellsRoot(b) ==
  /\ Living(b) /\ wk[b].at = "RPC_UP"
  /\ wk' = [wk EXCEPT ![b].at = "TELL_ROOT", ![b].phase = "WAITING_ROOT"]
  /\ QueuesWrite(b, "start")
  /\ UNCHANGED <<lock, asker, request, asked, disk>>

catches(b) ==
  /\ Living(b) /\ wk[b].at = "THREW" /\ ~stopping(b)
  /\ StopFrom(b, wk[b], TRUE)
  /\ UNCHANGED <<lock, asker, request, asked, disk>>

Dies(b) ==
  /\ wk' = [wk EXCEPT ![b] = Over(@)]
  /\ writes' = [writes EXCEPT ![b] = <<>>]
  /\ UNCHANGED <<lock, asker, request, asked, disk>>

\* The process of a stop that has ended leaves.  A timer that has been set late
\* keeps it.
leaves(b) ==
  /\ Living(b) /\ wk[b].stop = "ENDED" /\ wk[b].at \in {"SERVING", "THREW"}
  /\ Dies(b)

-----------------------------------------------------------------------------
(* Serving: the periodic observation, and the end of a child.              *)

ForMe(b) == request = b

pollReads(b) ==
  /\ Living(b) /\ wk[b].at = "SERVING" /\ wk[b].poll = "NO" /\ ~stopping(b)
  /\ wk' = [wk EXCEPT ![b].poll = IF ForMe(b) THEN "STOP" ELSE "SAY"]
  /\ OnlyWk

pollSays(b) ==
  /\ Living(b) /\ wk[b].poll = "SAY"
  /\ IF stopping(b) THEN wk' = [wk EXCEPT ![b].poll = "NO"] /\ UNCHANGED writes
     ELSE /\ \E phase \in {"READY", "WAITING_ROOT"} :
               wk' = [wk EXCEPT ![b].poll = "TOLD", ![b].phase = phase]
          /\ QueuesWrite(b, "poll")
  /\ UNCHANGED <<lock, asker, request, asked, disk>>

pollStops(b) ==
  /\ Living(b) /\ wk[b].poll \in {"STOP", "FAIL"}
  /\ StopFrom(b, [wk[b] EXCEPT !.poll = "NO"], wk[b].poll = "FAIL")
  /\ UNCHANGED <<lock, asker, request, asked, disk>>

\* A child ends by itself, or because it was told to; the supervisor hears it.
childEnds(b, c) ==
  /\ Living(b) /\ c \in wk[b].children
  /\ StopFrom(b, [wk[b] EXCEPT !.children = @ \ {c}], TRUE)
  /\ UNCHANGED <<lock, asker, request, asked, disk>>

\* A signal, or a line of its standard input.
interrupted(b) ==
  /\ Living(b) /\ wk[b].at = "SERVING" /\ ~stopping(b)
  /\ StopFrom(b, wk[b], FALSE)
  /\ asked' = asked \cup {b}
  /\ UNCHANGED <<lock, asker, request, disk>>

\* The supervisor is killed; its guardian and its children are not, yet.
killed(b) == Living(b) /\ Dies(b)

-----------------------------------------------------------------------------
(* The stop command (requestStop) reads the lock and writes the request.   *)

readsLock ==
  /\ asker = NoBoot /\ Living(lock)
  /\ asker' = lock
  /\ UNCHANGED <<wk, lock, request, asked, disk, writes>>

requestStop ==
  /\ asker # NoBoot
  /\ request' = asker /\ asker' = NoBoot
  /\ asked' = asked \cup {asker}
  /\ UNCHANGED <<wk, lock, disk, writes>>

StartStep(b) ==
  \/ takeOver(b) \/ retake(b) \/ clears(b) \/ checksPorts(b) \/ contained(b)
  \/ guardianLost(b) \/ launches(b) \/ probes(b) \/ createsAgent(b) \/ agentCreated(b)
  \/ tellsRoot(b) \/ catches(b) \/ leaves(b)
StopStep(b) == stopAgent(b) \/ stopLast(b)
WriteStep(b) == writeBegins(b) \/ writeEnds(b)
PollStep(b) == pollReads(b) \/ pollSays(b) \/ pollStops(b)
GuardianStep(b) == assigns(b) \/ acknowledges(b) \/ guardianEnds(b)

WorkerNext ==
  \/ readsLock \/ requestStop
  \/ \E b \in Boot :
       \/ startWorker(b) \/ StartStep(b) \/ StopStep(b) \/ WriteStep(b) \/ PollStep(b)
       \/ GuardianStep(b) \/ interrupted(b) \/ killed(b)
       \/ \E c \in Child : childEnds(b, c)

-----------------------------------------------------------------------------
(* What must hold.                                                         *)

\* What a supervisor awaits comes; a child that has been told to end does; and a
\* guardian that waits for its parent's end sees it.
WorkerSteps(b) == StartStep(b) \/ StopStep(b) \/ WriteStep(b) \/ PollStep(b)
ChildLeaves(b) == wk[b].stop = "CHILDREN" /\ \E c \in Child : childEnds(b, c)
WorkerFairness ==
  \A b \in Boot :
    WF_workerVars(WorkerSteps(b)) /\ WF_workerVars(ChildLeaves(b)) /\ WF_workerVars(guardianSees(b))

\* A worker whose stop has ended has no child left and, once its start has
\* noticed, no agent: whatever the start was doing when a child ended under it.
\* The lock is free by then, so anything left would meet the next worker.
EndedHoldsNothing ==
  \A b \in Boot : wk[b].stop = "ENDED" =>
    /\ wk[b].children = {}
    /\ wk[b].at \notin Starting => wk[b].agent # "UP"

\* "No inference or transport child starts before confirmation": a child runs
\* only inside a job whose guardian holds it, through the supervisor's death
\* and until the guardian's.
ChildrenContained ==
  \A b \in Boot : wk[b].children # {} => wk[b].job \in {"HELD", "TOLD"}

\* A worker stops without a failure only if it, and not a boot before it, was
\* asked to: a request that was read from an older lock and arrives late is
\* not for the worker that runs now.
StopIsBound ==
  \A b \in Boot : stopping(b) /\ ~wk[b].failed => b \in asked

\* "A slow periodic observation cannot overwrite STOPPED": the final status of a
\* worker that had got to serve is replaced by no later write of its own.
FinalStatusStays ==
  [][\A b \in Boot :
       /\ disk.boot = b /\ disk.phase \in Final
       /\ wk[b].at = "SERVING" /\ disk'.boot = b
       => disk' = disk]_workerVars

\* A serving worker that is asked to stop ends, unless the request is replaced.
RequestedStopEnds ==
  \A b \in Boot :
    wk[b].at = "SERVING" /\ request = b ~>
      wk[b].stop = "ENDED" \/ ~wk[b].alive \/ request # b

\* The children of a supervisor that was killed do not outlive it for good.
NoOrphans == \A b \in Boot : (wk[b].children # {} ~> wk[b].children = {} \/ wk[b].alive)
=============================================================================
