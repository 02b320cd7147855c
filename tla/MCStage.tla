------------------------------ MODULE MCStage ------------------------------
(***************************************************************************)
(* A small instance of Stage: a root with two routes, the stage of one of  *)
(* them guarded, and situations that take turns as the initial state; and  *)
(* the processes around it: its contributor's worker, the services of the  *)
(* laboratory and the links between machines.                              *)
(***************************************************************************)
EXTENDS Contributor, TLC

CONSTANTS bruno, carla, root, stage, spare, cell, rack, j1, j2, p1, p2, p3,
          l1, l2, c1, c2, t1, t2

VARIABLE scene   \* the situation this behaviour is about

TwoOwner == root :> bruno @@ stage :> carla @@ spare :> bruno
TwoHost == root :> rack @@ stage :> cell @@ spare :> rack
TwoMembers == << <<root, stage>>, <<root, spare>> >>
TwoShares == << <<3000, 7000>>, <<5000, 5000>> >>

\* routes: two routes of one root are published, accepted, qualified and left.
\* fading: declarations are asked for while consents and the root come and go.
\* claims: two jobs on one connection that stays declared; the agent may die.
\* links: one job while connections and heartbeats come and go.
\* disk: one job ends, on a connection that may fail, while the next is prepared.
\* memory: the buffers of one connection.
\* worker: one start of a contributor's worker; restart: the next, beside a worker
\* that serves.  service: commands that start and stop a service.
\* link, tunnel: the two ways between machines.
Scene == {"routes", "fading", "claims", "links", "disk", "memory",
          "worker", "restart", "service", "link", "tunnel"}
Begun == scene # "routes"
Sold == scene \in {"claims", "links", "disk"}
Running == scene = "disk"

\* A worker that serves, with all its children.
Serves ==
  /\ wk = [b \in Boot |-> IF b = 1
       THEN [New EXCEPT !.alive = TRUE, !.at = "SERVING", !.children = Child,
                        !.agent = "UP", !.job = "TOLD", !.phase = "READY"] ELSE New]
  /\ lock = 1 /\ asker = NoBoot /\ request = NoBoot /\ asked = {}
  /\ disk = [boot |-> 1, phase |-> "READY"]
  /\ writes = [b \in Boot |-> <<>>]

MCInit ==
  /\ scene \in Scene
  /\ MemoryInit /\ ServicesInit /\ LinkInit /\ TunnelInit
  /\ IF scene = "restart" THEN Serves ELSE WorkerInit
  /\ balance = NoLines /\ journal = {}
  /\ epoch = [n \in Node |-> IF Begun THEN 1 ELSE 0]
  /\ phase = [n \in Node |-> IF Begun THEN (IF n = stage /\ ~Sold THEN "VALIDATING" ELSE "READY")
                             ELSE "OFFLINE"]
  /\ desired = [n \in Node |-> "READY"]
  /\ fresh = [n \in Node |-> Begun]
  /\ preview = TRUE
  /\ routeState = [r \in Route |-> IF Begun /\ r = Bound THEN "LOCAL_PREVIEW" ELSE "NONE"]
  /\ consent = [r \in Route |-> [u \in User |-> IF Begun /\ r = Bound THEN "GIVEN" ELSE "NONE"]]
  /\ clock = 0 /\ behind = 0 /\ seen = 0 /\ eligibleAt = 0
  /\ up = "UP" /\ incarnation = 1
  /\ link = IF Sold THEN [NoLink EXCEPT !.id = 1, !.shaken = TRUE] ELSE NoLink
  /\ links = IF Sold THEN 1 ELSE 0
  /\ declared = IF Sold THEN [id |-> 1, expires |-> LeaseSpan, until |-> LeaseSpan] ELSE None
  /\ ready = Sold /\ opened = ~Sold
  /\ healthy = TRUE
  /\ call = Idle
  /\ prepared = None /\ prepares = IF Running THEN 1 ELSE 0
  /\ command = None /\ free = 0
  /\ active = IF Running THEN j1 ELSE None
  /\ work = [j \in Job |-> IF Running /\ j = j1 THEN [state |-> "CLAIMED", commands |-> 1]
                           ELSE [state |-> "NEW", commands |-> 0]]
  /\ claiming = [j \in Job |-> "NO"]
  /\ ending = None /\ finishing = [j \in Job |-> None] /\ outbox = [j \in Job |-> None]
  /\ handed = [j \in Job |-> IF Running /\ j = j1 THEN 1 ELSE 0] /\ authorized = handed
  /\ filed = [j \in Job |-> None]
  /\ late = {} /\ lost = {}
  /\ granted = IF Running THEN {j1} ELSE {}
  /\ over = IF scene = "links" THEN Job \ {j1} ELSE {}

\* An administrator, an owner or a provider takes the route out of service.
Withdrawn ==
  \/ withdraw(Bound, carla)
  \/ NodeState(stage, "REVOKED") /\ UNCHANGED routesVars

Apart == UNCHANGED <<readyVars, workVars>>
ByItself == UNCHANGED workVars

\* No process is restarted here.
RoutesScene ==
  /\ scene = "routes"
  /\ RoutesNext
  /\ \A n \in Node : epoch'[n] <= 1
  /\ UNCHANGED ledgerVars /\ Apart

\* A second connection is made only while the clocks agree.
FadingScene ==
  /\ scene = "fading"
  /\ \/ ReadySteps \/ tick \/ stepBack \/ linkForgotten
     \/ \E busy \in BOOLEAN : linkFails(busy)
     \/ \E holds \in BOOLEAN : rootBeats(holds)
     \/ /\ Withdrawn
        /\ UNCHANGED <<ledgerVars, clock, behind, seen, up, incarnation, link, links,
                       declared, ready, healthy, opened, call>>
  /\ links' <= 1 \/ behind' = 0
  /\ ByItself /\ Watch

ClaimsScene ==
  /\ scene = "claims"
  /\ JobSteps \/ stop \/ exit
  /\ Watch

\* After a restart there is no second preparation.
LinksScene ==
  /\ scene = "links"
  /\ JobSteps \/ Deliveries \/ dies \/ (ReadySteps /\ ByItself)
  /\ prepares' <= 1 \/ incarnation' = 1
  /\ Watch

DiskScene ==
  /\ scene = "disk"
  /\ \/ cut(j1, "STOPPED") \/ writeReceipt(j1) \/ writeFails(j1)
     \/ prepare(j2) \/ authorize(j2) \/ start(j2) \/ claimFails(j2)
     \/ linkBreaks \/ linkGone
     \/ ReadySteps /\ ByItself
  /\ Watch

MemoryScene == scene = "memory" /\ MemoryNext

\* The first start, without a second; and the second, when only one of the two
\* fails and the first, while it stops, is not observed.
WorkerScene == scene = "worker" /\ WorkerNext /\ wk'[2].at = "IDLE"
RestartScene ==
  /\ scene = "restart"
  /\ WorkerNext
  /\ \A b \in Boot : wk'[b].failed => ~wk'[b].alive \/ wk[b].failed
  /\ wk'[2].at # "THREW"
  /\ wk'[1].phase # "WAITING_ROOT"
  /\ wk'[2].at \in {"IDLE", "OVER"} \/ ~wk'[1].alive

\* Model connections come in order, and one side at a time is closed.
TunnelScene ==
  /\ scene = "tunnel"
  /\ TunnelNext
  /\ tcp'[t2] = "NONE" \/ tcp[t1] # "NONE"
  /\ rpc'["root"] = "UP" \/ rpc'["stage"] = "UP"

partVars == <<memoryVars, workerVars, servicesVars, linkVars, tunnelVars>>

Next ==
  /\ UNCHANGED scene
  /\ \/ /\ RoutesScene \/ FadingScene \/ ClaimsScene \/ LinksScene \/ DiskScene
        /\ UNCHANGED partVars
     \/ /\ UNCHANGED stageVars
        /\ \/ /\ MemoryScene
              /\ UNCHANGED <<workerVars, servicesVars, linkVars, tunnelVars>>
           \/ /\ WorkerScene \/ RestartScene
              /\ UNCHANGED <<memoryVars, servicesVars, linkVars, tunnelVars>>
           \/ /\ scene = "service" /\ ServicesNext
              /\ UNCHANGED <<memoryVars, workerVars, linkVars, tunnelVars>>
           \/ /\ scene = "link" /\ LinkNext
              /\ UNCHANGED <<memoryVars, workerVars, servicesVars, tunnelVars>>
           \/ /\ TunnelScene
              /\ UNCHANGED <<memoryVars, workerVars, servicesVars, linkVars>>

MCSpec == MCInit /\ [][Next]_<<stageVars, partVars, scene>>

=============================================================================
