----------------------------- MODULE Contributor -----------------------------
(***************************************************************************)
(* The processes on a contributor's machine and in the laboratory, and the *)
(* links between machines, each by itself: a stage's agent, the memory it  *)
(* lends, the worker that supervises it, the services, the private link    *)
(* and the tunnel.  They share no state; what must hold of each is         *)
(* gathered here.                                                          *)
(***************************************************************************)
EXTENDS Stage, RpcMemory, Worker, Services, PrivateLink, RpcTunnel

\* A stage's agent from its first start, whatever becomes of the market around it: its
\* node's heartbeats and restarts are its own, everything else may happen at any time.
StageInit ==
  /\ StartOfMarket
  /\ clock = 0 /\ behind = 0 /\ seen = 0 /\ eligibleAt = 0
  /\ up = "DOWN" /\ incarnation = 0 /\ link = NoLink /\ links = 0
  /\ declared = None /\ ready = FALSE /\ healthy = TRUE /\ opened = TRUE /\ call = Idle
  /\ prepared = None /\ prepares = 0 /\ active = None /\ command = None /\ free = 0
  /\ work = [j \in Job |-> [state |-> "NEW", commands |-> 0]]
  /\ claiming = [j \in Job |-> "NO"]
  /\ ending = None /\ finishing = [j \in Job |-> None] /\ outbox = [j \in Job |-> None]
  /\ handed = [j \in Job |-> 0] /\ authorized = [j \in Job |-> 0]
  /\ filed = [j \in Job |-> None]
  /\ late = {} /\ granted = {} /\ over = {} /\ lost = {}

\* A process of the root that registers or reports has been seen.
Elsewhere ==
  /\ \/ RoutesStep /\ UNCHANGED seen
     \/ /\ \E n \in Node : GoSilent(n) \/ \E order \in Orders : NodeState(n, order)
        /\ UNCHANGED <<routesVars, seen>>
     \/ \E n \in Node \ {Guarded} :
          /\ \E b \in BOOLEAN : Resume(n, b) \/ Heartbeat(n, b)
          /\ seen' = IF n = Root(Bound) THEN clock ELSE seen
          /\ UNCHANGED routesVars
  /\ UNCHANGED <<ledgerVars, clock, behind, up, incarnation, link, links, declared, ready,
                 healthy, opened, call, workVars>>

StageNext ==
  /\ \/ JobSteps \/ Deliveries \/ stop \/ exit \/ dies \/ Elsewhere
     \/ (ReadySteps \/ tick \/ stepBack) /\ UNCHANGED workVars
  /\ Watch

StageSpec == StageInit /\ [][StageNext]_stageVars
MemorySpec == MemoryInit /\ [][MemoryNext]_memoryVars
WorkerSpec == WorkerInit /\ [][WorkerNext]_workerVars
ServicesSpec == ServicesInit /\ [][ServicesNext]_servicesVars
LinkSpec == LinkInit /\ [][LinkNext]_linkVars
TunnelSpec == TunnelInit /\ [][TunnelNext]_tunnelVars

-----------------------------------------------------------------------------
(* What must hold.                                                         *)

\* What the stage's agent has started, filed and sent agrees with what the coordinator
\* authorized, through lost answers, crashes and full disks (stage.mjs, sessions.ts).
EvidenceHolds == StageTypeOK /\ CommandsAreClaimed /\ ReceiptsAddUp /\ ReceiptNotForgotten

\* A job is started at most once, only while its permission stands and the disk takes its
\* receipt, and once claimed ends with one (stage.mjs, sessions.ts).
StartsAreLawful ==
  StartedOnce /\ FreeOnlyBeforeReady /\ StorageFailureStopsStarts /\ ClaimedEndsWithReceipt

\* The guard of the lent memory counts what the connection holds, lends no more than
\* the contributor's budget and grants what it told (rpc-memory.mjs).
LendsWithinTerms == BudgetHolds /\ ToldIsGranted

\* A process that supervises others, a contributor's worker or a host of the laboratory,
\* is alone, is found by the command that stops it and leaves none of its children
\* (supervisor.mjs, guardian.mjs, service-process.mjs).
ProcessesHold ==
  /\ WorkerTypeOK /\ EndedHoldsNothing /\ ChildrenContained /\ StopIsBound
  /\ OneSupervised /\ ServiceIsRegistered

\* Between machines: no call is taken as whole that was cut, one tunnel serves at a time,
\* both ends agree on how many are open and a freed address is free (link, tunnel).
LinksHold ==
  /\ LinkTypeOK /\ EndIsWholeIfTaken
  /\ TunnelTypeOK /\ OneTunnel /\ CountersAgree /\ FreedIsFree

\* What is final stays so: a route somebody left, the last status of a worker, a stop of
\* a service that succeeded; and no allocation takes the reserve a contributor keeps.
FinalStays == WithdrawnNeverReopens /\ FinalStatusStays /\ StopIsFinal /\ ReserveKept
=============================================================================
