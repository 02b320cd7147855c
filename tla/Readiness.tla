------------------------------ MODULE Readiness ------------------------------
(***************************************************************************)
(* How the agent of a route's stage comes to say that it is ready.         *)
(*                                                                         *)
(* The root's engine reaches the stage over one guarded RPC connection.    *)
(* With every heartbeat the agent (stage.mjs heartbeat) asks the           *)
(* coordinator (readiness.ts stage) for a signed declaration about that    *)
(* connection; it is ready for as long as the declaration lasts, by its    *)
(* wall clock and by its monotonic one, and the connection is the same.    *)
(* Requests are answered late or never.                                    *)
(*                                                                         *)
(* One tick is two seconds.  A declaration is bound to a nonce, a boot and *)
(* hashes that the agent compares with its own; those are always right     *)
(* here, and what may go wrong is time and the connection.                 *)
(***************************************************************************)
EXTENDS Routes

CONSTANTS
  None,        \* nothing (null)
  Guarded,     \* the stage
  Bound,       \* the route it is bound to
  LeaseSpan,   \* how long a declaration lasts (4 seconds)
  RootSpan,    \* how long after the root was seen it may last (6 seconds)
  Wait,        \* how long a request to the coordinator may take (5 seconds)
  MaxTick,     \* bound of the model: how far the clock runs
  MaxLinks,    \* bound of the model: RPC connections
  MaxBehind    \* bound of the model: how far the agent's wall clock is set back

ASSUME ReadinessAssumption ==
  /\ {LeaseSpan, RootSpan, Wait, MaxTick, MaxLinks, MaxBehind} \subseteq Nat
  /\ Bound \in Route
  /\ Guarded \in Nodes(Bound) \ {Root(Bound)}

VARIABLES
  clock,       \* the coordinator's clock, and the agent's monotonic one
  behind,      \* how far the agent's wall clock is behind
  seen,        \* nodes.last_seen of the root
  up,          \* the agent process: UP, STOPPING or DOWN
  incarnation, \* its epoch
  link,        \* liveRpc: its number (0: none), handshake, and whether it failed
  links,       \* connections so far
  declared,    \* readinessLease; None
  ready,       \* the agent's flag of the same name
  healthy,     \* storageHealthy
  opened,      \* the startup budget has not been closed
  call,        \* the heartbeat in progress
  eligibleAt   \* history: when the coordinator would last have signed

readyVars == <<clock, behind, seen, up, incarnation, link, links, declared, ready,
               healthy, opened, call, eligibleAt>>
routesSide == <<fleetVars, routesVars, ledgerVars>>

NoLink == [id |-> 0, shaken |-> FALSE, failed |-> FALSE]
Idle == [at |-> "IDLE"]
wall == clock - behind
Earlier(a, b) == IF a < b THEN a ELSE b

ReadinessTypeOK ==
  /\ clock \in 0..MaxTick /\ behind \in 0..MaxBehind /\ seen \in 0..clock
  /\ up \in {"UP", "STOPPING", "DOWN"} /\ incarnation \in Nat
  /\ link \in [id : 0..MaxLinks, shaken : BOOLEAN, failed : BOOLEAN]
  /\ links \in 0..MaxLinks
  /\ declared # None => declared.until \in Nat /\ declared.expires \in Nat
  /\ {ready, healthy, opened} \subseteq BOOLEAN
  /\ call.at \in {"IDLE", "ASKED", "SIGNED", "LOADED", "REPORTED"}
  /\ eligibleAt \in 0..clock

-----------------------------------------------------------------------------
(* The coordinator.                                                        *)

\* The query of Readiness.stage; other stages need not be ready.
Eligible ==
  /\ Listed(Bound)
  /\ epoch[Root(Bound)] > 0 /\ phase[Root(Bound)] = "READY"
  /\ \A n \in Nodes(Bound) : desired[n] = "READY"

\* A bug: the declaration of a root that has gone silent is renewed.
expires_Forever == clock + LeaseSpan
expires == Earlier(clock + LeaseSpan, seen + RootSpan)

\* The same process, and the owner has not revoked the node.
Fenced == epoch[Guarded] # incarnation \/ desired[Guarded] = "REVOKED"

signDeclaration ==
  /\ call.at = "ASKED"
  /\ ~Fenced
  /\ call' = [call EXCEPT !.at = "SIGNED",
       !.reply = IF Eligible /\ expires > clock
                 THEN [issued |-> clock, expires |-> expires] ELSE None]
  /\ UNCHANGED <<routesSide, clock, behind, seen, up, incarnation, link, links,
                 declared, ready, healthy, opened>>

\* A heartbeat of the root; it holds the model or not.
rootBeats(holds) ==
  /\ Heartbeat(Root(Bound), holds)
  /\ seen' = clock
  /\ UNCHANGED <<routesVars, ledgerVars, clock, behind, up, incarnation, link, links,
                 declared, ready, healthy, opened, call>>

\* The stage's own heartbeat; the reply carries its state and its owner's order.
takeReport ==
  /\ call.at = "LOADED"
  /\ ~Fenced
  /\ Heartbeat(Guarded, call.loaded /\ healthy)
  /\ call' = [call EXCEPT !.at = "REPORTED", !.reply = phase'[Guarded]]
  /\ UNCHANGED <<routesVars, ledgerVars, clock, behind, seen, up, incarnation, link,
                 links, declared, ready, healthy, opened>>

-----------------------------------------------------------------------------
(* The agent.                                                              *)

\* A bug: only the wall clock ends a declaration.
Current_Wall == declared.expires > wall
Current == declared.expires > wall /\ declared.until > clock

readyNow ==
  /\ up = "UP" /\ ready
  /\ link.id # 0 /\ link.shaken
  /\ declared # None
  /\ declared.id = link.id
  /\ Current

\* One connection at a time; a new one starts without a declaration.
connect ==
  /\ up = "UP" /\ link = NoLink /\ links < MaxLinks
  /\ links' = links + 1
  /\ link' = [NoLink EXCEPT !.id = links + 1]
  /\ declared' = None
  /\ UNCHANGED <<routesSide, clock, behind, seen, up, incarnation, ready, healthy,
                 opened, call>>

handshake ==
  /\ link.id # 0 /\ ~link.shaken /\ ~link.failed
  /\ link' = [link EXCEPT !.shaken = TRUE]
  /\ UNCHANGED <<routesSide, clock, behind, seen, up, incarnation, links, declared,
                 ready, healthy, opened, call>>

\* The guard closes the connection.  With a job on it, the connection is forgotten
\* only when the job has been finished.
linkFails(busy) ==
  /\ link.id # 0 /\ ~link.failed
  /\ link' = IF busy THEN [link EXCEPT !.failed = TRUE] ELSE NoLink
  /\ ready' = FALSE /\ declared' = None
  /\ UNCHANGED <<routesSide, clock, behind, seen, up, incarnation, links, healthy,
                 opened, call>>

linkForgotten ==
  /\ link.failed
  /\ link' = NoLink
  /\ UNCHANGED <<routesSide, clock, behind, seen, up, incarnation, links, declared,
                 ready, healthy, opened, call>>

\* A heartbeat begins with the question about the connection, if there is one.
beat ==
  /\ up = "UP" /\ call = Idle
  /\ IF link.shaken
     THEN /\ call' = [at |-> "ASKED", id |-> link.id, since |-> clock, reply |-> None]
          /\ UNCHANGED declared
     ELSE /\ call' = [at |-> "LOADED", since |-> clock, loaded |-> FALSE, reply |-> None]
          /\ declared' = None
  /\ UNCHANGED <<routesSide, clock, behind, seen, up, incarnation, link, links, ready,
                 healthy, opened>>

\* verifyReadiness, on the agent's wall clock.
Verified(r) ==
  /\ r # None
  /\ r.issued <= wall /\ wall <= r.issued + LeaseSpan
  /\ r.expires > wall

\* A bug: the declaration is kept although the connection it names is gone.
SameLink_Unchecked == TRUE
SameLink == link.id = call.id /\ link.shaken

\* A bug: a failed renewal leaves the former declaration in place.
Undeclared_Kept == declared
Undeclared == None

StillOpen(loaded) == opened /\ ~loaded

loads(loaded, lease) ==
  /\ declared' = lease
  /\ call' = [at |-> "LOADED", since |-> clock, loaded |-> loaded, reply |-> None]
  /\ opened' = StillOpen(loaded)
  /\ UNCHANGED <<routesSide, clock, behind, seen, up, incarnation, link, links, ready,
                 healthy>>

readDeclaration ==
  /\ call.at = "SIGNED" /\ Verified(call.reply) /\ SameLink
  /\ loads(TRUE, [id |-> call.id, expires |-> call.reply.expires,
                  until |-> clock + Earlier(LeaseSpan, call.reply.expires - wall)])

\* No declaration, an unacceptable one, another connection, or no answer.
noDeclaration ==
  /\ call.at \in {"ASKED", "SIGNED"}
  /\ loads(FALSE, Undeclared)

\* A bug: the disk was in order when the heartbeat was sent.
Confirmed_Before == call.loaded /\ call.reply = "READY"
Confirmed == call.loaded /\ healthy /\ call.reply = "READY"

readReport ==
  /\ call.at = "REPORTED"
  /\ ready' = Confirmed
  /\ call' = Idle
  /\ UNCHANGED <<routesSide, clock, behind, seen, up, incarnation, link, links, declared,
                 healthy, opened>>

\* No answer to the heartbeat: the tick fails.
noReport ==
  /\ call.at \in {"LOADED", "REPORTED"}
  /\ ready' = FALSE
  /\ call' = Idle
  /\ UNCHANGED <<routesSide, clock, behind, seen, up, incarnation, link, links, declared,
                 healthy, opened>>

-----------------------------------------------------------------------------
(* Time, and crashes.                                                      *)

\* A request that takes too long is given up first.
tick ==
  /\ clock < MaxTick
  /\ call # Idle => clock < call.since + Wait
  /\ clock' = clock + 1
  /\ UNCHANGED <<routesSide, behind, seen, up, incarnation, link, links, declared, ready,
                 healthy, opened, call>>

\* The agent's wall clock is corrected.
stepBack ==
  /\ behind < MaxBehind /\ behind < clock
  /\ behind' = behind + 1
  /\ UNCHANGED <<routesSide, clock, seen, up, incarnation, link, links, declared, ready,
                 healthy, opened, call>>

ceases ==
  /\ up' = "DOWN" /\ link' = NoLink /\ declared' = None /\ call' = Idle
  /\ ready' = FALSE
  /\ UNCHANGED <<routesSide, clock, behind, seen, incarnation, links, healthy, opened>>

crash == up # "DOWN" /\ ceases

\* A new process resumes the node under a new epoch, with a new startup budget.
restart ==
  /\ up = "DOWN"
  /\ Resume(Guarded, TRUE)
  /\ up' = "UP" /\ incarnation' = epoch'[Guarded]
  /\ healthy' = TRUE /\ opened' = TRUE
  /\ UNCHANGED <<routesVars, ledgerVars, clock, behind, seen, link, links, declared,
                 ready, call>>

\* History: when the coordinator would last have signed.
Watch == eligibleAt' = IF Eligible' THEN clock' ELSE eligibleAt

-----------------------------------------------------------------------------
(* What must hold.                                                         *)

\* A stage that admits work does so on the word of a coordinator that would have
\* given it within the span of a declaration, about a root seen within the span
\* of one: neither a withdrawn consent nor a silent root is served for longer,
\* whatever is lost or late.  If the agent's wall clock was set back, the
\* monotonic deadline bounds what is added by the time a request may take.
ReadinessFades ==
  LET late == IF behind = 0 THEN 0 ELSE Wait IN
  readyNow => /\ clock < eligibleAt + LeaseSpan + late
              /\ clock < seen + RootSpan + late
=============================================================================
