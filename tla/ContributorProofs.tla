-------------------------- MODULE ContributorProofs --------------------------
(***************************************************************************)
(* Of a contributor's machine, for every route, every set of jobs and      *)
(* every number of commands, boots, calls, tunnels and buffers: what the   *)
(* agent of a stage has started, filed and sent agrees with what the       *)
(* coordinator authorized, a job is started once, and readiness does not   *)
(* outlast the word of the coordinator by more than a declaration and a    *)
(* request; a service has one host, which the registry names or a stop is  *)
(* waiting for; a worker's children live in its job and are gone when its  *)
(* stop has ended; a link takes no call as whole that was cut; a side of a *)
(* tunnel counts what it serves; and the lent memory stays within its      *)
(* terms.                                                                  *)
(*                                                                         *)
(* The processes share no variable, and each has an invariant of its own.  *)
(* The agent's has two halves that hardly need each other: its word that   *)
(* it is ready (ReadyInv), where each declaration is bounded by when the   *)
(* coordinator would have signed and when it had seen the root; and its    *)
(* work (WorkInv), where the state of a job's lease says what else there   *)
(* can be of the job: claims, commands, receipts.                          *)
(***************************************************************************)
EXTENDS Contributor, RoutesProofs, PayoutProofs

-----------------------------------------------------------------------------
(* Readiness.                                                              *)

\* The heartbeat in progress, as it may be.
Asked == [at : {"ASKED"}, id : Nat, since : Nat, reply : {None}]
Signed == [at : {"SIGNED"}, id : Nat, since : Nat,
           reply : {None} \cup [issued : Nat, expires : Nat]]
Loaded == [at : {"LOADED"}, since : Nat, loaded : BOOLEAN, reply : {None}]
Reported == [at : {"REPORTED"}, since : Nat, loaded : BOOLEAN, reply : Phase]

Connection == [id : 0..MaxLinks, shaken : BOOLEAN, failed : BOOLEAN]

Times ==
  /\ clock \in 0..MaxTick /\ behind \in 0..MaxBehind /\ seen \in 0..clock
  /\ eligibleAt \in 0..clock /\ links \in 0..MaxLinks

Flags ==
  /\ up \in {"UP", "STOPPING", "DOWN"} /\ incarnation \in Nat
  /\ ready \in BOOLEAN /\ healthy \in BOOLEAN /\ opened \in BOOLEAN
  /\ link \in Connection
  /\ ready => healthy

Declared == declared # None => declared.until \in Nat /\ declared.expires \in Nat

\* A request began in the past, and is given up in time; a process that is down has none.
CallInTime ==
  /\ call \in {Idle} \cup Asked \cup Signed \cup Loaded \cup Reported
  /\ call # Idle => call.since <= clock /\ clock <= call.since + Wait
  /\ up = "DOWN" => call = Idle

\* What the coordinator has signed: when it would, of a root it had seen.
SignedInTime ==
  call.at = "SIGNED" /\ call.reply # None =>
    /\ call.since <= call.reply.issued /\ call.reply.issued <= eligibleAt
    /\ call.reply.expires <= call.reply.issued + LeaseSpan
    /\ call.reply.expires <= seen + RootSpan

\* What the agent has kept of it.
DeclaredInTime ==
  declared # None =>
    /\ declared.expires <= eligibleAt + LeaseSpan
    /\ declared.expires <= seen + RootSpan
    /\ declared.until <= eligibleAt + LeaseSpan + Wait
    /\ declared.until <= seen + RootSpan + Wait

\* While the startup budget is open the coordinator cannot have seen this process ready.
OpenBeforeReady ==
  /\ opened /\ epoch[Guarded] = incarnation => phase[Guarded] # "READY"
  /\ call.at = "LOADED" /\ call.loaded => ~opened

ReadyInv ==
  /\ FleetTypeOK /\ Times /\ Flags /\ Declared
  /\ CallInTime /\ SignedInTime /\ DeclaredInTime /\ OpenBeforeReady

LEMMA Setting ==
  /\ Guarded \in Node /\ Root(Bound) \in Node
  /\ LeaseSpan \in Nat /\ RootSpan \in Nat /\ Wait \in Nat
  /\ MaxTick \in Nat /\ MaxLinks \in Nat /\ MaxBehind \in Nat
<1>1. Bound \in Offer /\ Guarded \in Nodes(Bound)
  BY ReadinessAssumption DEF Route
<1>2. Members[Bound] \in Seq(Node) /\ Len(Members[Bound]) > 0
  BY <1>1, OffersAssumption DEF Offer
<1> QED BY <1>1, <1>2, ReadinessAssumption DEF Nodes, Root

LEMMA NoLinkIsOne == NoLink \in Connection
<1>1. 0 \in 0..MaxLinks
  BY Setting
<1> QED BY <1>1 DEF NoLink, Connection

LEMMA ReadyStarts == StageInit => ReadyInv
<1> SUFFICES ASSUME StageInit PROVE ReadyInv
  OBVIOUS
<1>1. FleetTypeOK
  BY DEF StageInit, StartOfMarket, FleetInit, FleetTypeOK, Phase, Desired
<1>2. /\ clock = 0 /\ behind = 0 /\ seen = 0 /\ eligibleAt = 0 /\ links = 0
      /\ up = "DOWN" /\ incarnation = 0 /\ link = NoLink
      /\ declared = None /\ ready = FALSE /\ healthy = TRUE /\ opened = TRUE /\ call = Idle
      /\ phase[Guarded] = "OFFLINE"
  BY Setting DEF StageInit, StartOfMarket, FleetInit
<1>3. Times
  BY <1>2, Setting DEF Times
<1>4. Flags /\ Declared
  <2>1. link \in Connection
    BY <1>2, NoLinkIsOne
  <2>2. (ready \in BOOLEAN /\ healthy \in BOOLEAN /\ opened \in BOOLEAN) /\ (ready => healthy)
    BY <1>2
  <2> QED BY <1>2, <2>1, <2>2 DEF Flags, Declared
<1>5. CallInTime /\ SignedInTime /\ DeclaredInTime /\ OpenBeforeReady
  BY <1>2 DEF CallInTime, SignedInTime, DeclaredInTime, OpenBeforeReady, Idle
<1> QED BY <1>1, <1>3, <1>4, <1>5 DEF ReadyInv

\* The history only moves forward.
LEMMA WatchForward ==
  ASSUME Times, Watch, clock' \in clock..MaxTick
  PROVE  eligibleAt' \in eligibleAt..clock'
BY DEF Times, Watch

\* What is kept of a declaration stays in time as time goes by.
LEMMA StaysDeclared ==
  ASSUME ReadyInv, Watch, clock' \in clock..MaxTick, seen' \in seen..clock',
         declared' \in {declared, None}
  PROVE  Declared' /\ DeclaredInTime'
<1>1. eligibleAt' \in Nat /\ eligibleAt \in Nat /\ eligibleAt <= eligibleAt'
  BY WatchForward DEF ReadyInv, Times
<1>2. seen \in Nat /\ seen' \in Nat /\ seen <= seen'
  BY DEF ReadyInv, Times
<1> QED BY <1>1, <1>2, Setting DEF ReadyInv, Declared, DeclaredInTime

\* So does what has been signed.
LEMMA StaysSigned ==
  ASSUME ReadyInv, Watch, clock' \in clock..MaxTick, seen' \in seen..clock',
         call' = call
  PROVE  SignedInTime'
<1>1. eligibleAt' \in Nat /\ eligibleAt \in Nat /\ eligibleAt <= eligibleAt'
  BY WatchForward DEF ReadyInv, Times
<1>2. seen \in Nat /\ seen' \in Nat /\ seen <= seen'
  BY DEF ReadyInv, Times
<1>3. call.at = "SIGNED" /\ call.reply # None =>
        /\ call.reply.issued \in Nat /\ call.reply.expires \in Nat /\ call.since \in Nat
  BY DEF ReadyInv, CallInTime, Idle, Asked, Signed, Loaded, Reported
<1> QED BY <1>1, <1>2, <1>3, Setting DEF ReadyInv, SignedInTime

\* Steps of the agent that begin no request and read no answer.
LEMMA AgentStep ==
  ASSUME ReadyInv, Watch, UNCHANGED <<routesSide, clock, behind, seen, incarnation, opened>>,
         links' \in 0..MaxLinks, Flags', declared' \in {declared, None},
         \/ call' = Idle
         \/ call' = call /\ (up' = "DOWN" => up = "DOWN")
  PROVE  ReadyInv'
<1> USE DEF ReadyInv
<1>1. FleetTypeOK' /\ epoch' = epoch /\ phase' = phase
  BY DEF routesSide, fleetVars, FleetTypeOK
<1>2. Times'
  BY WatchForward DEF Times
<1>3. Declared' /\ DeclaredInTime'
  BY StaysDeclared DEF Times
<1>4. CallInTime'
  BY DEF CallInTime
<1>5. SignedInTime'
  <2>1. CASE call' = call
    BY <2>1, StaysSigned DEF Times
  <2>2. CASE call' = Idle
    BY <2>2 DEF SignedInTime, Idle
  <2> QED BY <2>1, <2>2
<1>6. OpenBeforeReady'
  BY <1>1 DEF OpenBeforeReady, Idle
<1> QED BY <1>1, <1>2, <1>3, <1>4, <1>5, <1>6

LEMMA ConnectionInv ==
  ASSUME ReadyInv, Watch,
         connect \/ handshake \/ linkForgotten \/ \E busy \in BOOLEAN : linkFails(busy)
  PROVE  ReadyInv'
<1>1. /\ UNCHANGED <<routesSide, clock, behind, seen, incarnation, opened, call, up, healthy>>
      /\ declared' \in {declared, None}
  BY DEF connect, handshake, linkForgotten, linkFails
<1>2. links' \in 0..MaxLinks
  BY Setting DEF connect, handshake, linkForgotten, linkFails, ReadyInv, Times
<1>3. link' \in Connection
  <2>1. link \in Connection
    BY DEF ReadyInv, Flags
  <2>2. CASE connect
    <3>1. links' = links + 1 /\ link' = [NoLink EXCEPT !.id = links']
      BY <2>2 DEF connect
    <3> QED BY <1>2, <3>1, NoLinkIsOne DEF Connection
  <2>3. CASE handshake
    BY <2>1, <2>3 DEF handshake, Connection
  <2>4. CASE linkForgotten
    BY <2>4, NoLinkIsOne DEF linkForgotten
  <2>5. ASSUME NEW busy \in BOOLEAN, linkFails(busy)
        PROVE  link' \in Connection
    <3>1. link' = NoLink \/ link' = [link EXCEPT !.failed = TRUE]
      BY <2>5 DEF linkFails
    <3> QED BY <2>1, <3>1, NoLinkIsOne DEF Connection
  <2> QED BY <2>2, <2>3, <2>4, <2>5
<1>4. ready' \in BOOLEAN /\ (ready' => healthy')
  <2>1. ready \in BOOLEAN /\ (ready => healthy) /\ healthy' = healthy
    BY <1>1 DEF Flags, ReadyInv
  <2>2. ready' = ready \/ ready' = FALSE
    BY DEF connect, handshake, linkForgotten, linkFails
  <2>3. CASE ready' = ready
    BY <2>1, <2>3
  <2>4. CASE ready' = FALSE
    BY <2>4
  <2> QED BY <2>2, <2>3, <2>4
<1>5. Flags'
  BY <1>1, <1>3, <1>4 DEF Flags, ReadyInv
<1> QED BY <1>1, <1>2, <1>5, AgentStep

\* The end of a process, its stop, a receipt that could not be written, and an answer
\* to the heartbeat: it makes the agent ready only while the disk is in order.
LEMMA ProcessInv ==
  ASSUME ReadyInv, Watch, ceases \/ stop \/ readReport \/ noReport \/ \E j \in Job : writeFails(j)
  PROVE  ReadyInv'
<1>1. /\ UNCHANGED <<routesSide, clock, behind, seen, incarnation, opened, links>>
      /\ declared' \in {declared, None} /\ link' \in {link, NoLink}
      /\ \/ call' = Idle
         \/ call' = call /\ (up' = "DOWN" => up = "DOWN")
  BY DEF ceases, stop, readReport, noReport, writeFails
<1>2. /\ up' \in {up, "STOPPING", "DOWN"}
      /\ healthy' \in BOOLEAN /\ ready' \in BOOLEAN /\ (ready' => healthy')
  BY DEF ceases, stop, readReport, noReport, writeFails, Confirmed, ReadyInv, Flags
<1>3. link' \in Connection
  BY <1>1, NoLinkIsOne DEF ReadyInv, Flags
<1>4. Flags' /\ links' \in 0..MaxLinks
  BY <1>1, <1>2, <1>3 DEF Flags, ReadyInv, Times
<1> QED BY <1>1, <1>4, AgentStep

-----------------------------------------------------------------------------
(* The heartbeat, time and the market around the agent.                    *)

\* The coordinator signs for no longer than it may, and says when.
LEMMA SignInv ==
  ASSUME ReadyInv, Watch, signDeclaration
  PROVE  ReadyInv'
<1> USE DEF ReadyInv
<1> DEFINE signed == IF Eligible /\ expires > clock
                     THEN [issued |-> clock, expires |-> expires] ELSE None
<1>1. /\ call.at = "ASKED" /\ call' = [call EXCEPT !.at = "SIGNED", !.reply = signed]
      /\ UNCHANGED <<routesSide, clock, behind, seen, up, incarnation, link, links,
                     declared, ready, healthy, opened>>
  BY DEF signDeclaration
<1>2. call \in Asked /\ call # Idle /\ clock \in Nat /\ seen \in Nat
  BY <1>1 DEF CallInTime, Idle, Signed, Loaded, Reported, Times
<1>3. expires \in Nat /\ expires <= clock + LeaseSpan /\ expires <= seen + RootSpan
  BY <1>2, Setting DEF expires, Earlier
<1>4. signed \in {None} \cup [issued : Nat, expires : Nat]
  BY <1>2, <1>3
<1>5. signed # None => /\ signed.issued = clock /\ signed.expires = expires
                       /\ eligibleAt' = clock
  <2>1. Eligible => Eligible'
    BY <1>1 DEF routesSide, fleetVars, routesVars, Eligible, Listed, AllConsent
  <2> QED BY <1>1, <2>1 DEF Watch
<1> HIDE DEF signed
<1>6. /\ call' \in Signed /\ call'.since = call.since /\ call'.at = "SIGNED"
      /\ call'.reply = signed
  BY <1>1, <1>2, <1>4 DEF Asked, Signed
<1>7. FleetTypeOK' /\ Times' /\ Flags'
  BY <1>1, WatchForward DEF routesSide, fleetVars, FleetTypeOK, Times, Flags
<1>8. Declared' /\ DeclaredInTime'
  BY <1>1, StaysDeclared DEF Times
<1>9. CallInTime'
  BY <1>1, <1>2, <1>6 DEF CallInTime, Idle
<1>10. SignedInTime'
  <2>1. call.since <= clock
    BY <1>2 DEF CallInTime
  <2> QED BY <1>1, <1>2, <1>3, <1>5, <1>6, <2>1 DEF SignedInTime
<1>11. OpenBeforeReady'
  BY <1>1, <1>6 DEF OpenBeforeReady, routesSide, fleetVars
<1> QED BY <1>7, <1>8, <1>9, <1>10, <1>11

\* A heartbeat begins.
LEMMA BeatInv ==
  ASSUME ReadyInv, Watch, beat
  PROVE  ReadyInv'
<1> USE DEF ReadyInv
<1>1. /\ up = "UP"
      /\ UNCHANGED <<routesSide, clock, behind, seen, up, incarnation, link, links,
                     ready, healthy, opened>>
      /\ declared' \in {declared, None}
      /\ \/ call' = [at |-> "ASKED", id |-> link.id, since |-> clock, reply |-> None]
         \/ call' = [at |-> "LOADED", since |-> clock, loaded |-> FALSE, reply |-> None]
  BY DEF beat
<1>2. clock \in Nat /\ link.id \in Nat
  BY Setting DEF Times, Flags, Connection
<1>3. call' \in Asked \cup Loaded /\ call'.since = clock /\ call'.at \in {"ASKED", "LOADED"}
  <2>1. CASE call' = [at |-> "ASKED", id |-> link.id, since |-> clock, reply |-> None]
    BY <1>2, <2>1 DEF Asked
  <2>2. CASE call' = [at |-> "LOADED", since |-> clock, loaded |-> FALSE, reply |-> None]
    BY <1>2, <2>2 DEF Loaded
  <2> QED BY <1>1, <2>1, <2>2
<1>4. FleetTypeOK' /\ Times' /\ Flags'
  BY <1>1, WatchForward DEF routesSide, fleetVars, FleetTypeOK, Times, Flags
<1>5. Declared' /\ DeclaredInTime'
  BY <1>1, StaysDeclared DEF Times
<1>6. CallInTime'
  BY <1>1, <1>2, <1>3, Setting DEF CallInTime
<1>7. SignedInTime'
  BY <1>3 DEF SignedInTime
<1>8. OpenBeforeReady'
  <2>1. ~(call'.at = "LOADED" /\ call'.loaded)
    BY <1>1
  <2> QED BY <1>1, <2>1 DEF OpenBeforeReady, routesSide, fleetVars
<1> QED BY <1>4, <1>5, <1>6, <1>7, <1>8

\* The answer about the connection, or none: what is declared of it is within what was
\* signed, and the startup budget is closed with the first declaration.
LEMMA LoadsInv ==
  ASSUME ReadyInv, Watch, NEW loaded \in BOOLEAN, NEW lease, loads(loaded, lease),
         call.at \in {"ASKED", "SIGNED"},
         lease # None =>
           /\ lease.until \in Nat /\ lease.expires \in Nat
           /\ lease.expires <= eligibleAt + LeaseSpan
           /\ lease.expires <= seen + RootSpan
           /\ lease.until <= eligibleAt + LeaseSpan + Wait
           /\ lease.until <= seen + RootSpan + Wait
  PROVE  ReadyInv'
<1> USE DEF ReadyInv
<1>1. /\ UNCHANGED <<routesSide, clock, behind, seen, up, incarnation, link, links,
                     ready, healthy>>
      /\ declared' = lease
      /\ call' = [at |-> "LOADED", since |-> clock, loaded |-> loaded, reply |-> None]
      /\ opened' = StillOpen(loaded)
  BY DEF loads
<1>2. clock \in Nat /\ seen \in Nat /\ eligibleAt \in Nat /\ up # "DOWN"
  BY DEF Times, CallInTime, Idle
<1>3. /\ call' \in Loaded /\ call'.since = clock /\ call'.at = "LOADED"
      /\ call'.loaded = loaded
  BY <1>1, <1>2 DEF Loaded
<1>4. eligibleAt' \in Nat /\ eligibleAt <= eligibleAt'
  BY <1>1, WatchForward DEF Times
<1>5. FleetTypeOK' /\ Times'
  BY <1>1, WatchForward DEF routesSide, fleetVars, FleetTypeOK, Times
<1>6. opened' \in BOOLEAN /\ (opened' => opened) /\ (loaded => ~opened')
  BY <1>1 DEF StillOpen, Flags
<1>7. Flags'
  BY <1>1, <1>6 DEF Flags
<1>8. Declared'
  BY <1>1 DEF Declared
<1>9. DeclaredInTime'
  BY <1>1, <1>2, <1>4, Setting DEF DeclaredInTime
<1>10. CallInTime'
  BY <1>1, <1>2, <1>3, Setting DEF CallInTime
<1>11. SignedInTime' /\ OpenBeforeReady'
  BY <1>1, <1>3, <1>6 DEF SignedInTime, OpenBeforeReady, routesSide, fleetVars
<1> QED BY <1>5, <1>7, <1>8, <1>9, <1>10, <1>11

LEMMA DeclarationInv ==
  ASSUME ReadyInv, Watch, readDeclaration \/ noDeclaration
  PROVE  ReadyInv'
<1>1. CASE noDeclaration
  BY <1>1, LoadsInv DEF noDeclaration, Undeclared
<1>2. CASE readDeclaration
  <2> DEFINE r == call.reply
             rest == Earlier(LeaseSpan, r.expires - wall)
             lease == [id |-> call.id, expires |-> r.expires, until |-> clock + rest]
  <2>1. call.at = "SIGNED" /\ Verified(r) /\ loads(TRUE, lease)
    BY <1>2 DEF readDeclaration
  <2>2. /\ r # None /\ r.issued \in Nat /\ r.expires \in Nat /\ call.since \in Nat
        /\ call # Idle
    BY <2>1 DEF ReadyInv, CallInTime, Idle, Asked, Signed, Loaded, Reported, Verified
  <2>3. /\ clock \in Nat /\ wall \in Int /\ seen \in Nat /\ eligibleAt \in Nat
    BY Setting DEF wall, ReadyInv, Times
  <2>4. r.issued <= wall /\ r.expires > wall
    BY <2>1 DEF Verified
  <2>5. /\ rest \in Nat /\ rest <= LeaseSpan /\ rest <= r.expires - r.issued
    BY <2>2, <2>3, <2>4, Setting DEF Earlier
  <2> HIDE DEF rest
  <2>6. /\ call.since <= r.issued /\ r.issued <= eligibleAt
        /\ r.expires <= r.issued + LeaseSpan
        /\ r.expires <= seen + RootSpan
    BY <2>1, <2>2 DEF ReadyInv, SignedInTime
  <2>7. clock <= call.since + Wait
    BY <2>2 DEF ReadyInv, CallInTime
  <2>8. lease.until = clock + rest /\ lease.expires = r.expires
    OBVIOUS
  <2> HIDE DEF lease, r
  <2>9. /\ lease.until \in Nat /\ lease.expires \in Nat
        /\ lease.expires <= eligibleAt + LeaseSpan
        /\ lease.expires <= seen + RootSpan
        /\ lease.until <= eligibleAt + LeaseSpan + Wait
        /\ lease.until <= seen + RootSpan + Wait
    BY <2>2, <2>3, <2>5, <2>6, <2>7, <2>8, Setting
  <2> QED BY <2>1, <2>9, LoadsInv
<1> QED BY <1>1, <1>2

LEMMA HeartbeatKeepsTypes ==
  ASSUME FleetTypeOK, NEW n \in Node, NEW b \in BOOLEAN, Heartbeat(n, b)
  PROVE  FleetTypeOK'
BY DEF FleetTypeOK, Heartbeat, Phase

LEMMA ResumeKeepsTypes ==
  ASSUME FleetTypeOK, NEW n \in Node, NEW b \in BOOLEAN, Resume(n, b)
  PROVE  FleetTypeOK'
BY DEF FleetTypeOK, Resume, Phase

LEMMA OwnerKeepsTypes ==
  ASSUME FleetTypeOK, NEW n \in Node,
         GoSilent(n) \/ \E order \in Orders : NodeState(n, order)
  PROVE  FleetTypeOK'
BY FleetAssumption DEF FleetTypeOK, GoSilent, NodeState, Phase, Desired

\* The stage's own heartbeat calls it ready only once the budget has been closed.
LEMMA ReportInv ==
  ASSUME ReadyInv, Watch, takeReport
  PROVE  ReadyInv'
<1> USE DEF ReadyInv
<1>1. /\ call.at = "LOADED"
      /\ Heartbeat(Guarded, call.loaded /\ healthy)
      /\ call' = [call EXCEPT !.at = "REPORTED", !.reply = phase'[Guarded]]
      /\ UNCHANGED <<clock, behind, seen, up, incarnation, link, links, declared,
                     ready, healthy, opened>>
  BY DEF takeReport
<1>2. call \in Loaded /\ call # Idle
  BY <1>1 DEF CallInTime, Idle, Asked, Signed, Reported
<1>3. FleetTypeOK'
  <2>1. (call.loaded /\ healthy) \in BOOLEAN
    BY <1>2 DEF Loaded, Flags
  <2> QED BY <1>1, <2>1, HeartbeatKeepsTypes, Setting
<1>4. phase'[Guarded] \in Phase
  BY <1>3, Setting DEF FleetTypeOK
<1>5. call' \in Reported /\ call'.since = call.since /\ call'.at = "REPORTED"
  BY <1>1, <1>2, <1>4 DEF Loaded, Reported
<1>6. Times' /\ Flags'
  BY <1>1, WatchForward DEF Times, Flags
<1>7. Declared' /\ DeclaredInTime'
  BY <1>1, StaysDeclared DEF Times
<1>8. CallInTime'
  BY <1>1, <1>2, <1>5 DEF CallInTime, Idle
<1>9. SignedInTime'
  BY <1>5 DEF SignedInTime
<1>10. OpenBeforeReady'
  <2>1. epoch' = epoch
    BY <1>1 DEF Heartbeat
  <2>2. phase'[Guarded] = "READY" => call.loaded
    BY <1>1, <1>3, Setting DEF Heartbeat, FleetTypeOK
  <2> QED BY <1>1, <1>5, <2>1, <2>2 DEF OpenBeforeReady
<1> QED BY <1>3, <1>6, <1>7, <1>8, <1>9, <1>10

\* A request that takes too long is given up before the clock goes on.
LEMMA TimeInv ==
  ASSUME ReadyInv, Watch, tick \/ stepBack
  PROVE  ReadyInv'
<1> USE DEF ReadyInv
<1>1. /\ UNCHANGED <<routesSide, seen, up, incarnation, link, links, declared,
                     ready, healthy, opened, call>>
      /\ clock' \in clock..MaxTick /\ behind' \in 0..MaxBehind
      /\ call # Idle => clock' <= call.since + Wait
  BY Setting DEF tick, stepBack, Times, CallInTime, Idle, Asked, Signed, Loaded, Reported
<1>2. FleetTypeOK' /\ Flags'
  BY <1>1 DEF routesSide, fleetVars, FleetTypeOK, Flags
<1>3. seen' \in seen..clock'
  BY <1>1 DEF Times
<1>4. Times'
  BY <1>1, <1>3, WatchForward DEF Times
<1>5. Declared' /\ DeclaredInTime'
  BY <1>1, <1>3, StaysDeclared
<1>6. SignedInTime'
  BY <1>1, <1>3, StaysSigned
<1>7. CallInTime'
  <2>1. clock \in Nat /\ clock' \in Nat /\ clock <= clock'
    BY <1>1 DEF Times
  <2>2. call # Idle => call.since \in Nat
    BY DEF CallInTime, Idle, Asked, Signed, Loaded, Reported
  <2> QED BY <1>1, <2>1, <2>2 DEF CallInTime
<1>8. OpenBeforeReady'
  BY <1>1 DEF OpenBeforeReady, routesSide, fleetVars
<1> QED BY <1>2, <1>4, <1>5, <1>6, <1>7, <1>8

\* A new process has an epoch of its own, and its node is not ready.
LEMMA RestartInv ==
  ASSUME ReadyInv, Watch, restart
  PROVE  ReadyInv'
<1> USE DEF ReadyInv
<1>1. /\ up = "DOWN" /\ Resume(Guarded, TRUE)
      /\ up' = "UP" /\ incarnation' = epoch'[Guarded]
      /\ healthy' = TRUE /\ opened' = TRUE
      /\ UNCHANGED <<clock, behind, seen, link, links, declared, ready, call>>
  BY DEF restart
<1>2. call = Idle
  BY <1>1 DEF CallInTime
<1>3. FleetTypeOK'
  BY <1>1, ResumeKeepsTypes, Setting
<1>4. incarnation' \in Nat /\ phase'[Guarded] = "VALIDATING"
  BY <1>1, <1>3, Setting DEF Resume, FleetTypeOK
<1>5. healthy' \in BOOLEAN /\ opened' \in BOOLEAN /\ ready' \in BOOLEAN /\ (ready' => healthy')
  BY <1>1 DEF Flags
<1>6. Times' /\ Flags'
  BY <1>1, <1>4, <1>5, WatchForward DEF Times, Flags
<1>7. Declared' /\ DeclaredInTime'
  BY <1>1, StaysDeclared DEF Times
<1>8. CallInTime' /\ SignedInTime' /\ OpenBeforeReady'
  BY <1>1, <1>2, <1>4 DEF CallInTime, SignedInTime, OpenBeforeReady, Idle
<1> QED BY <1>3, <1>6, <1>7, <1>8

\* Owners, other nodes and routes: the stage's epoch is its own, and nobody else says
\* that it is ready.
LEMMA ElsewhereInv ==
  ASSUME ReadyInv, Watch, Elsewhere
  PROVE  ReadyInv'
<1> USE DEF ReadyInv
<1>1. UNCHANGED <<clock, behind, up, incarnation, link, links, declared, ready, healthy,
                  opened, call>>
  BY DEF Elsewhere
<1>2. seen' \in seen..clock
  BY DEF Elsewhere, Times
<1> DEFINE Keeps == /\ FleetTypeOK'
                    /\ epoch'[Guarded] = epoch[Guarded]
                    /\ phase'[Guarded] = "READY" => phase[Guarded] = "READY"
<1>3. Keeps
  <2>1. CASE RoutesStep
    <3>1. UNCHANGED fleetVars
      BY <2>1 DEF RoutesStep, publish, acceptTerms, withdraw, qualifyRoute, qualifyModel
    <3> QED BY <3>1 DEF fleetVars, FleetTypeOK
  <2>2. ASSUME NEW n \in Node, GoSilent(n) \/ \E order \in Orders : NodeState(n, order)
        PROVE  Keeps
    <3>1. FleetTypeOK'
      BY <2>2, OwnerKeepsTypes
    <3>2. epoch' = epoch /\ \/ phase' = phase
                            \/ \E order \in Orders : phase' = [phase EXCEPT ![n] =
                                 IF order = "REVOKED" THEN "REVOKED" ELSE @]
      BY <2>2 DEF GoSilent, NodeState
    <3> QED BY <3>1, <3>2, Setting DEF FleetTypeOK
  <2>3. ASSUME NEW n \in Node \ {Guarded}, NEW b \in BOOLEAN, Resume(n, b) \/ Heartbeat(n, b)
        PROVE  Keeps
    <3>1. FleetTypeOK'
      BY <2>3, ResumeKeepsTypes, HeartbeatKeepsTypes
    <3> QED BY <2>3, <3>1, Setting DEF FleetTypeOK, Resume, Heartbeat
  <2>4. \/ RoutesStep
        \/ \E n \in Node : GoSilent(n) \/ \E order \in Orders : NodeState(n, order)
        \/ \E n \in Node \ {Guarded} : \E b \in BOOLEAN : Resume(n, b) \/ Heartbeat(n, b)
    BY DEF Elsewhere
  <2> HIDE DEF Keeps
  <2> QED BY <2>1, <2>2, <2>3, <2>4
<1>4. Times' /\ Flags'
  BY <1>1, <1>2, WatchForward DEF Times, Flags
<1>5. Declared' /\ DeclaredInTime' /\ SignedInTime'
  BY <1>1, <1>2, StaysDeclared, StaysSigned DEF Times
<1>6. CallInTime' /\ OpenBeforeReady'
  BY <1>1, <1>3 DEF CallInTime, OpenBeforeReady
<1> QED BY <1>3, <1>4, <1>5, <1>6

-----------------------------------------------------------------------------
(* Every step, and what readiness promises.                                *)

\* What the steps of the stage do to readiness.
LEMMA ReadySide ==
  ASSUME StageNext
  PROVE  \/ connect \/ handshake \/ linkForgotten \/ \E busy \in BOOLEAN : linkFails(busy)
         \/ ceases \/ stop \/ readReport \/ noReport \/ \E j \in Job : writeFails(j)
         \/ signDeclaration \/ beat \/ readDeclaration \/ noDeclaration \/ takeReport
         \/ tick \/ stepBack \/ restart \/ Elsewhere
         \/ UNCHANGED <<routesSide, clock, behind, seen, up, incarnation, link, links,
                        declared, ready, healthy, opened, call>>
<1>1. ASSUME NEW j \in Job, NEW report,
             \/ prepare(j) \/ authorize(j) \/ start(j) \/ stageClaimed(j) \/ claimAnswered(j)
             \/ claimFails(j) \/ cut(j, report) \/ writeReceipt(j) \/ endSession(j)
      PROVE  UNCHANGED <<routesSide, readyVars>>
  BY <1>1 DEF prepare, authorize, start, stageClaimed, claimAnswered, claimFails, cut,
              writeReceipt, endSession
<1>2. ASSUME NEW who, beginCommand(who) \/ expire(who)
      PROVE  UNCHANGED <<routesSide, readyVars>>
  BY <1>2 DEF beginCommand, expire
<1>3. ASSUME NEW j \in Job, NEW heard, deliver(j, heard)
      PROVE  UNCHANGED <<routesSide, readyVars>>
  BY <1>3 DEF deliver
<1>4. release => UNCHANGED <<routesSide, readyVars>>
  BY DEF release
<1>5. breaks => \E busy \in BOOLEAN : linkFails(busy)
  BY DEF breaks
<1>6. endCommand => breaks \/ UNCHANGED <<routesSide, readyVars>>
  BY DEF endCommand
<1>7. (linkBreaks \/ linkGone => breaks \/ linkForgotten) /\ (exit \/ dies => ceases)
  BY DEF linkBreaks, linkGone, exit, dies, crash
<1>8. ReadySteps => \/ connect \/ handshake \/ readReport \/ noReport \/ signDeclaration
                    \/ beat \/ readDeclaration \/ noDeclaration \/ takeReport \/ restart
  BY DEF ReadySteps
<1>9. JobSteps \/ Deliveries
      => \/ UNCHANGED <<routesSide, readyVars>> \/ breaks \/ linkForgotten
         \/ \E j \in Job : writeFails(j)
  <2>1. ASSUME Deliveries PROVE UNCHANGED <<routesSide, readyVars>>
    BY <1>1, <1>3, <2>1 DEF Deliveries
  <2>2. ASSUME NEW j \in Job,
               \/ prepare(j) \/ authorize(j) \/ start(j)
               \/ stageClaimed(j) \/ claimAnswered(j) \/ claimFails(j)
               \/ \E report \in {"COMPLETED", "STOPPED"} : cut(j, report)
               \/ writeReceipt(j) \/ writeFails(j)
        PROVE  UNCHANGED <<routesSide, readyVars>> \/ writeFails(j)
    BY <1>1, <2>2
  <2>3. ASSUME JobSteps
        PROVE  \/ UNCHANGED <<routesSide, readyVars>> \/ breaks \/ linkForgotten
               \/ \E j \in Job : writeFails(j)
    <3>1. \/ \E j \in Job :
               \/ prepare(j) \/ authorize(j) \/ start(j)
               \/ stageClaimed(j) \/ claimAnswered(j) \/ claimFails(j)
               \/ \E report \in {"COMPLETED", "STOPPED"} : cut(j, report)
               \/ writeReceipt(j) \/ writeFails(j)
          \/ \E who \in Job \cup {Free} : beginCommand(who) \/ expire(who)
          \/ release \/ endCommand \/ linkBreaks \/ linkGone
      BY <2>3 DEF JobSteps
    <3>2. CASE release \/ endCommand \/ linkBreaks \/ linkGone
      BY <3>2, <1>4, <1>6, <1>7
    <3>3. CASE \E who \in Job \cup {Free} : beginCommand(who) \/ expire(who)
      BY <3>3, <1>2
    <3> QED BY <3>1, <3>2, <3>3, <2>2
  <2> QED BY <2>1, <2>3
<1> QED BY <1>5, <1>7, <1>8, <1>9 DEF StageNext, readyVars

LEMMA ReadyStep == ReadyInv /\ [StageNext]_stageVars => ReadyInv'
<1>1. ASSUME ReadyInv, StageNext
      PROVE  ReadyInv'
  <2>1. Watch
    BY <1>1 DEF StageNext
  <2>2. CASE UNCHANGED <<routesSide, clock, behind, seen, up, incarnation, link, links,
                         declared, ready, healthy, opened, call>>
    <3>1. links' \in 0..MaxLinks /\ Flags'
      BY <1>1, <2>2 DEF ReadyInv, Times, Flags
    <3> QED BY <1>1, <2>1, <2>2, <3>1, AgentStep
  <2> QED BY <1>1, <2>1, <2>2, ReadySide, ConnectionInv, ProcessInv, SignInv, BeatInv,
             DeclarationInv, ReportInv, TimeInv, RestartInv, ElsewhereInv
<1>2. ASSUME ReadyInv, UNCHANGED stageVars
      PROVE  ReadyInv'
  BY <1>2 DEF stageVars, readyVars, routesSide, fleetVars, ReadyInv, FleetTypeOK, Times, Flags,
              Declared, CallInTime, SignedInTime, DeclaredInTime, OpenBeforeReady
<1> QED BY <1>1, <1>2

LEMMA ReadyInvHolds == StageSpec => []ReadyInv
BY ReadyStarts, ReadyStep, PTL DEF StageSpec

\* A stage that admits work does so on the word of a coordinator that would still have
\* given it within the span of a declaration, about a root it had seen: whatever becomes
\* of the clock, the connection, the process and the market (stage.mjs, readiness.ts).
THEOREM ReadinessIsBorrowed == StageSpec => []ReadinessFades
<1>1. ReadyInv => ReadinessFades
  <2> SUFFICES ASSUME ReadyInv, readyNow
               PROVE  LET more == IF behind = 0 THEN 0 ELSE Wait IN
                      /\ clock < eligibleAt + LeaseSpan + more
                      /\ clock < seen + RootSpan + more
    BY DEF ReadinessFades
  <2>1. /\ declared # None /\ declared.expires > wall /\ declared.until > clock
    BY DEF readyNow, Current
  <2>2. /\ clock \in Nat /\ behind \in Nat /\ seen \in Nat /\ eligibleAt \in Nat
        /\ declared.until \in Nat /\ declared.expires \in Nat
    BY <2>1, Setting DEF ReadyInv, Times, Declared
  <2> QED BY <2>1, <2>2, Setting DEF ReadyInv, DeclaredInTime, wall
<1> QED BY <1>1, ReadyInvHolds, PTL

-----------------------------------------------------------------------------
(* The work of the agent.                                                  *)

Lease == [state : {"NEW", "CLAIMING", "CLAIMED", "ENDED", "DROPPED", "LOST"},
          commands : 0..MaxCommands]

Prepared ==
  /\ prepares \in 0..MaxPrepares
  /\ prepared # None => prepared.job \in Job /\ prepared.id \in 1..prepares
  /\ handed \in [Job -> 0..prepares] /\ authorized \in [Job -> 0..prepares]

WorkShape ==
  /\ active \in Job \cup {None} /\ command \in Job \cup {Free, None}
  /\ ending \in Job \cup {None}
  /\ work \in [Job -> Lease]
  /\ claiming \in [Job -> {"NO", "ASKED", "GRANTED"}]
  /\ free \in 0..StartupCommands
  /\ finishing \in [Job -> Receipt \cup {None}]
  /\ outbox \in [Job -> Receipt \cup {None}] /\ filed \in [Job -> Receipt \cup {None}]
  /\ late \subseteq Job \cup {Free} /\ granted \subseteq Job
  /\ over \subseteq Job /\ lost \subseteq Job

\* A job that was started has been authorized, and is prepared no more.
UsedOnce ==
  \A j \in Job :
    work[j].state # "NEW" => authorized[j] # 0 /\ (prepared # None => prepared.job # j)

\* The state of a job's lease, its claim and its place in the agent.
Leased ==
  \A j \in Job :
    /\ active = j => work[j].state \in {"CLAIMING", "CLAIMED"}
    /\ work[j].state \in {"NEW", "CLAIMED"} => claiming[j] = "NO"
    /\ work[j].state = "CLAIMED" \/ claiming[j] = "GRANTED" => j \in granted
    /\ work[j].commands > 0 => j \in granted

\* A command in the queue is that of the active job, or a free one, within its limit.
JobsQueued ==
  /\ command \in Job => /\ active = command /\ work[command].state = "CLAIMED"
                        /\ work[command].commands < MaxCommands
  /\ command = Free => free < StartupCommands

\* Receipts are those of jobs that have ended, and count their commands.
Receipted ==
  \A j \in Job : \A r \in {finishing[j], outbox[j], filed[j]} :
    r # None => work[j].state = "ENDED" /\ r.commands = work[j].commands

WorkInv ==
  Prepared /\ WorkShape /\ UsedOnce /\ Leased /\ JobsQueued /\ Receipted /\ ReceiptNotForgotten

LEMMA Limits ==
  /\ MaxCommands \in Nat /\ StartupCommands \in Nat /\ MaxPrepares \in Nat
  /\ None \notin Job /\ None # Free /\ Free \notin Job /\ None \notin Receipt
BY StageAssumption, NamesAssumption

LEMMA WorkStarts == StageInit => WorkInv
<1> SUFFICES ASSUME StageInit PROVE WorkInv
  OBVIOUS
<1>1. /\ prepared = None /\ prepares = 0 /\ active = None /\ command = None /\ free = 0
      /\ work = [j \in Job |-> [state |-> "NEW", commands |-> 0]]
      /\ claiming = [j \in Job |-> "NO"]
      /\ ending = None /\ finishing = [j \in Job |-> None] /\ outbox = [j \in Job |-> None]
      /\ handed = [j \in Job |-> 0] /\ authorized = [j \in Job |-> 0]
      /\ filed = [j \in Job |-> None]
      /\ late = {} /\ granted = {} /\ over = {} /\ lost = {}
  BY DEF StageInit
<1>2. Prepared
  BY <1>1, Limits DEF Prepared
<1>3. work \in [Job -> Lease]
  <2>1. [state |-> "NEW", commands |-> 0] \in Lease
    BY Limits DEF Lease
  <2> QED BY <1>1, <2>1
<1>4. WorkShape
  BY <1>1, <1>3, Limits DEF WorkShape
<1>5. UsedOnce /\ Leased /\ JobsQueued /\ Receipted /\ ReceiptNotForgotten
  BY <1>1, Limits DEF UsedOnce, Leased, JobsQueued, Receipted, ReceiptNotForgotten
<1> QED BY <1>2, <1>4, <1>5 DEF WorkInv

\* Preparing and releasing, and authorizing: only a job that was not authorized, and so
\* never started, is prepared.
LEMMA PrepareInv ==
  ASSUME WorkInv, NEW j \in Job, prepare(j)
  PROVE  WorkInv'
<1> USE DEF WorkInv
<1>1. /\ authorized[j] = 0
      /\ prepares' \in prepares..MaxPrepares
      /\ handed' = [handed EXCEPT ![j] = prepared'.id]
      /\ UNCHANGED <<active, work, claiming, command, free, ending, finishing, outbox, lost,
                     late, authorized, granted, filed, over>>
  BY Limits DEF prepare, Prepared
<1>2. prepared'.job = j /\ prepared'.id \in 1..prepares'
  <2>1. CASE prepared # None
    BY <2>1, Limits DEF prepare, Prepared
  <2>2. CASE prepared = None
    BY <2>2, Limits DEF prepare, Prepared
  <2> QED BY <2>1, <2>2
<1>3. Prepared'
  <2>1. 0..prepares \subseteq 0..prepares'
    BY <1>1 DEF Prepared
  <2> QED BY <1>1, <1>2, <2>1 DEF Prepared
<1>4. UsedOnce'
  BY <1>1, <1>2 DEF UsedOnce
<1>5. WorkShape' /\ Leased' /\ JobsQueued' /\ Receipted' /\ ReceiptNotForgotten'
  BY <1>1 DEF WorkShape, Leased, JobsQueued, Receipted, ReceiptNotForgotten
<1> QED BY <1>3, <1>4, <1>5

LEMMA AuthorizeInv ==
  ASSUME WorkInv, \/ release
                  \/ \E j \in Job : authorize(j)
                  \/ linkGone
  PROVE  WorkInv'
<1> USE DEF WorkInv
<1>1. /\ UNCHANGED <<prepares, active, work, claiming, command, free, finishing, outbox, lost,
                     handed, late, granted, filed, over>>
      /\ ending' \in {ending, None} /\ prepared' \in {prepared, None}
      /\ \/ authorized' = authorized
         \/ \E j \in Job : handed[j] # 0 /\ authorized' = [authorized EXCEPT ![j] = handed[j]]
  BY DEF release, authorize, linkGone, agentVars, deskVars
<1>2. Prepared' /\ \A j \in Job : authorized[j] # 0 => authorized'[j] # 0
  BY <1>1 DEF Prepared
<1>3. UsedOnce'
  BY <1>1, <1>2 DEF UsedOnce
<1>4. WorkShape' /\ Leased' /\ JobsQueued' /\ Receipted' /\ ReceiptNotForgotten'
  BY <1>1 DEF WorkShape, Leased, JobsQueued, Receipted, ReceiptNotForgotten
<1> QED BY <1>2, <1>3, <1>4

\* A job is started by the preparation it was authorized for, and so never before.
LEMMA StartedInv ==
  ASSUME WorkInv, NEW j \in Job, start(j)
  PROVE  WorkInv' /\ work[j].state = "NEW"
<1> USE DEF WorkInv
<1>1. /\ active = None /\ prepared # None /\ prepared.job = j /\ authorized[j] = prepared.id
      /\ active' = j /\ prepared' = None
      /\ work' = [work EXCEPT ![j].state = "CLAIMING"]
      /\ claiming' = [claiming EXCEPT ![j] = "ASKED"]
      /\ UNCHANGED <<prepares, command, free, ending, finishing, outbox, lost, handed, late,
                     authorized, granted, filed, over>>
  BY DEF start, UsedUp, deskVars
<1>2. work[j].state = "NEW" /\ authorized[j] # 0
  BY <1>1 DEF UsedOnce, Prepared
<1>3. /\ work' \in [Job -> Lease]
      /\ \A k \in Job : /\ work'[k].state = IF k = j THEN "CLAIMING" ELSE work[k].state
                        /\ work'[k].commands = work[k].commands
  BY <1>1 DEF WorkShape, Lease
<1>4. \A k \in Job : claiming'[k] = IF k = j THEN "ASKED" ELSE claiming[k]
  BY <1>1 DEF WorkShape
<1>5. Prepared' /\ UsedOnce'
  BY <1>1, <1>2, <1>3 DEF Prepared, UsedOnce
<1>6. WorkShape'
  BY <1>1, <1>3 DEF WorkShape
<1>7. Leased'
  BY <1>1, <1>3, <1>4, Limits DEF Leased
<1>8. JobsQueued'
  BY <1>1, Limits DEF JobsQueued
<1>9. Receipted'
  BY <1>1, <1>2, <1>3 DEF Receipted
<1>10. ReceiptNotForgotten'
  BY <1>1, <1>3 DEF ReceiptNotForgotten
<1> QED BY <1>2, <1>5, <1>6, <1>7, <1>8, <1>9, <1>10

\* The coordinator records the claim before the agent can hear of it.
LEMMA ClaimedInv ==
  ASSUME WorkInv, NEW j \in Job, stageClaimed(j)
  PROVE  WorkInv'
<1> USE DEF WorkInv
<1>1. /\ claiming[j] = "ASKED" /\ granted' = granted \cup {j}
      /\ claiming' = [claiming EXCEPT ![j] = "GRANTED"]
      /\ UNCHANGED <<prepared, prepares, active, work, command, free, ending, finishing,
                     outbox, lost, handed, late, authorized, filed, over>>
  BY DEF stageClaimed
<1>2. \A k \in Job : claiming'[k] = IF k = j THEN "GRANTED" ELSE claiming[k]
  BY <1>1 DEF WorkShape
<1>3. WorkShape'
  BY <1>1 DEF WorkShape
<1>4. Leased'
  BY <1>1, <1>2 DEF Leased
<1>5. Prepared' /\ UsedOnce' /\ JobsQueued' /\ Receipted' /\ ReceiptNotForgotten'
  BY <1>1 DEF Prepared, UsedOnce, JobsQueued, Receipted, ReceiptNotForgotten
<1> QED BY <1>3, <1>4, <1>5

\* The answer to a claim, or none, touches only the lease that asked for it, and only
\* while that waits.
LEMMA AnsweredInv ==
  ASSUME WorkInv, NEW j \in Job, claimAnswered(j) \/ claimFails(j)
  PROVE  WorkInv'
<1> USE DEF WorkInv
<1>1. PICK next \in {"CLAIMED", "DROPPED"} :
        /\ work' = [work EXCEPT ![j].state = IF @ = "CLAIMING" THEN next ELSE @]
        /\ claiming' = [claiming EXCEPT ![j] = "NO"] /\ claiming[j] # "NO"
        /\ \/ next = "CLAIMED" /\ claiming[j] = "GRANTED" /\ active' = active
           \/ next = "DROPPED" /\ active' = Dropped(j)
        /\ UNCHANGED <<prepared, prepares, command, free, ending, finishing, outbox, lost,
                       handed, late, authorized, granted, filed, over>>
  BY DEF claimAnswered, claimFails, deskVars
<1>2. /\ work' \in [Job -> Lease]
      /\ \A k \in Job : /\ work'[k].state = IF k = j /\ work[j].state = "CLAIMING"
                                            THEN next ELSE work[k].state
                        /\ work'[k].commands = work[k].commands
  BY <1>1 DEF WorkShape, Lease
<1>3. \A k \in Job : claiming'[k] = IF k = j THEN "NO" ELSE claiming[k]
  BY <1>1 DEF WorkShape
<1>4. active' = active \/ (active = j /\ active' = None /\ work[j].state = "CLAIMING")
  BY <1>1 DEF Dropped, Leased
<1>5. work[j].state # "CLAIMED" /\ work[j].state # "NEW"
  BY <1>1 DEF Leased
<1>6. Prepared' /\ UsedOnce'
  BY <1>1, <1>2, <1>5 DEF Prepared, UsedOnce
<1>7. WorkShape'
  BY <1>1, <1>2, <1>4 DEF WorkShape
<1>8. Leased'
  <2> SUFFICES ASSUME NEW k \in Job
               PROVE  /\ active' = k => work'[k].state \in {"CLAIMING", "CLAIMED"}
                      /\ work'[k].state \in {"NEW", "CLAIMED"} => claiming'[k] = "NO"
                      /\ work'[k].state = "CLAIMED" \/ claiming'[k] = "GRANTED" => k \in granted'
                      /\ work'[k].commands > 0 => k \in granted'
    BY DEF Leased
  <2>1. CASE k # j
    BY <1>1, <1>2, <1>3, <1>4, <2>1, Limits DEF Leased
  <2>2. CASE k = j
    <3>1. active' = j => next = "CLAIMED" \/ work[j].state # "CLAIMING"
      BY <1>1, Limits DEF Dropped
    <3>2. active' = j => active = j
      BY <1>4, Limits
    <3>3. work'[j].state = "CLAIMED" => j \in granted
      BY <1>1, <1>2, <1>5 DEF Leased
    <3> QED BY <1>1, <1>2, <1>3, <2>2, <3>1, <3>2, <3>3 DEF Leased
  <2> QED BY <2>1, <2>2
<1>9. JobsQueued'
  BY <1>1, <1>2, <1>4, <1>5, Limits DEF JobsQueued
<1>10. Receipted'
  BY <1>1, <1>2 DEF Receipted
<1>11. ReceiptNotForgotten'
  BY <1>1, <1>2 DEF ReceiptNotForgotten
<1> QED BY <1>6, <1>7, <1>8, <1>9, <1>10, <1>11

\* A command in the queue is one of a claimed job, within its limit, or a free one.
LEMMA BeginInv ==
  ASSUME WorkInv, NEW who \in Job \cup {Free}, beginCommand(who)
  PROVE  WorkInv'
<1> USE DEF WorkInv
<1>1. /\ command' = who
      /\ \/ who = active /\ who # None /\ work[who].state = "CLAIMED"
            /\ work[who].commands < MaxCommands
         \/ who = Free /\ free < StartupCommands
      /\ UNCHANGED <<prepared, prepares, active, work, claiming, free, ending, finishing,
                     outbox, lost, deskVars>>
  BY DEF beginCommand, Payable, WithinLimit
<1>2. JobsQueued'
  BY <1>1, Limits DEF JobsQueued, WorkShape
<1>3. WorkShape'
  BY <1>1 DEF WorkShape, deskVars
<1>4. Prepared' /\ UsedOnce' /\ Leased' /\ Receipted' /\ ReceiptNotForgotten'
  BY <1>1 DEF deskVars, Prepared, UsedOnce, Leased, Receipted, ReceiptNotForgotten
<1> QED BY <1>2, <1>3, <1>4

\* What is done for a job while it is active is counted before it can end.
LEMMA CommandInv ==
  ASSUME WorkInv, endCommand \/ linkBreaks
  PROVE  WorkInv'
<1> USE DEF WorkInv
<1>1. /\ command' = None /\ prepared' \in {prepared, None} /\ ending' \in {ending, active}
      /\ UNCHANGED <<prepares, active, claiming, finishing, outbox, lost, deskVars>>
      /\ \/ /\ command \in Job /\ free' = free
            /\ work' = [work EXCEPT ![command].commands = @ + 1]
         \/ command = Free /\ free' = free + 1 /\ work' = work
         \/ UNCHANGED <<work, free>>
  <2>1. CASE linkBreaks
    BY <2>1 DEF linkBreaks, breaks
  <2>2. CASE endCommand
    <3>1. command # None
          /\ command' = None /\ prepared' \in {prepared, None} /\ ending' \in {ending, active}
      BY <2>2 DEF endCommand, breaks
    <3>2. command \in Job \cup {Free}
      BY <3>1 DEF WorkShape
    <3> QED BY <2>2, <3>1, <3>2 DEF endCommand
  <2> QED BY <2>1, <2>2
<1>2. /\ work' \in [Job -> Lease] /\ free' \in 0..StartupCommands
      /\ \A k \in Job :
           /\ work'[k].state = work[k].state
           /\ \/ work'[k].commands = work[k].commands
              \/ command = k
  <2>1. CASE command \in Job /\ free' = free
             /\ work' = [work EXCEPT ![command].commands = @ + 1]
    <3>1. work[command] \in Lease /\ work[command].commands + 1 \in 0..MaxCommands
      BY <2>1, Limits DEF WorkShape, JobsQueued, Lease
    <3>2. [work[command] EXCEPT !.commands = @ + 1] \in Lease
      BY <3>1 DEF Lease
    <3> QED BY <2>1, <3>1, <3>2 DEF WorkShape, Lease
  <2>2. CASE command = Free /\ free' = free + 1 /\ work' = work
    BY <2>2, Limits DEF WorkShape, JobsQueued
  <2>3. CASE UNCHANGED <<work, free>>
    BY <2>3 DEF WorkShape
  <2> QED BY <1>1, <2>1, <2>2, <2>3
<1>3. \A k \in Job : command = k => active = k /\ work[k].state = "CLAIMED"
  BY DEF JobsQueued
<1>4. Prepared' /\ UsedOnce'
  BY <1>1, <1>2 DEF Prepared, UsedOnce, deskVars
<1>5. WorkShape'
  BY <1>1, <1>2 DEF WorkShape, deskVars
<1>6. Leased'
  BY <1>1, <1>2, <1>3 DEF Leased, deskVars
<1>7. JobsQueued'
  BY <1>1, Limits DEF JobsQueued
<1>8. Receipted'
  BY <1>1, <1>2, <1>3 DEF Receipted, deskVars
<1>9. ReceiptNotForgotten'
  BY <1>1, <1>2 DEF ReceiptNotForgotten, deskVars
<1> QED BY <1>4, <1>5, <1>6, <1>7, <1>8, <1>9

\* The end of the active job waits for the command in the queue.
LEMMA CutInv ==
  ASSUME WorkInv, incarnation \in Nat, NEW j \in Job, NEW report \in {"COMPLETED", "STOPPED"},
         cut(j, report)
  PROVE  WorkInv' /\ finishing'[j] # None
<1> USE DEF WorkInv
<1> DEFINE receipt == [report |-> IF work[j].commands = 0 THEN "STOPPED" ELSE report,
                       commands |-> work[j].commands, epoch |-> incarnation]
<1>1. /\ active = j /\ command = None
      /\ active' = None
      /\ work' = [work EXCEPT ![j].state = "ENDED"]
      /\ finishing' = [finishing EXCEPT ![j] = receipt]
      /\ UNCHANGED <<prepared, prepares, claiming, command, free, ending, outbox, lost,
                     deskVars>>
  BY DEF cut, MyTurn
<1>2. receipt \in Receipt /\ receipt.commands = work[j].commands
  BY DEF WorkShape, Lease, Receipt
<1> HIDE DEF receipt
<1>3. /\ work' \in [Job -> Lease]
      /\ \A k \in Job : /\ work'[k].state = IF k = j THEN "ENDED" ELSE work[k].state
                        /\ work'[k].commands = work[k].commands
  BY <1>1 DEF WorkShape, Lease
<1>4. \A k \in Job : finishing'[k] = IF k = j THEN receipt ELSE finishing[k]
  BY <1>1 DEF WorkShape
<1>5. work[j].state \in {"CLAIMING", "CLAIMED"}
  BY <1>1 DEF Leased
<1>6. Prepared' /\ UsedOnce'
  BY <1>1, <1>3, <1>5 DEF Prepared, UsedOnce, deskVars
<1>7. WorkShape'
  BY <1>1, <1>2, <1>3 DEF WorkShape, deskVars
<1>8. Leased'
  BY <1>1, <1>3, Limits DEF Leased, deskVars
<1>9. JobsQueued'
  BY <1>1, Limits DEF JobsQueued
<1>10. Receipted'
  BY <1>1, <1>2, <1>3, <1>4, <1>5 DEF Receipted, deskVars
<1>11. finishing'[j] # None
  BY <1>2, <1>4, Limits
<1>12. ReceiptNotForgotten'
  BY <1>1, <1>3, <1>4, <1>11 DEF ReceiptNotForgotten, deskVars
<1> QED BY <1>6, <1>7, <1>8, <1>9, <1>10, <1>11, <1>12

\* A receipt goes from the agent to the disk, or is lost.
LEMMA WriteInv ==
  ASSUME WorkInv, NEW j \in Job, writeReceipt(j) \/ writeFails(j)
  PROVE  WorkInv'
<1> USE DEF WorkInv
<1>1. /\ finishing[j] # None
      /\ finishing' = [finishing EXCEPT ![j] = None]
      /\ \/ outbox' = [outbox EXCEPT ![j] = finishing[j]] /\ lost' = lost
         \/ outbox' = outbox /\ lost' = lost \cup {j}
      /\ UNCHANGED <<prepared, prepares, active, work, claiming, command, free, ending,
                     deskVars>>
  BY DEF writeReceipt, writeFails
<1>2. \A k \in Job : /\ finishing'[k] = IF k = j THEN None ELSE finishing[k]
                     /\ k # j => outbox'[k] = outbox[k]
                     /\ outbox'[j] \in {outbox[j], finishing[j]}
                     /\ outbox'[j] = finishing[j] \/ j \in lost'
                     /\ k \in lost => k \in lost'
  BY <1>1 DEF WorkShape
<1>3. WorkShape'
  BY <1>1 DEF WorkShape, deskVars
<1>4. Prepared' /\ UsedOnce' /\ Leased' /\ JobsQueued'
  BY <1>1 DEF Prepared, UsedOnce, Leased, JobsQueued, deskVars
<1>5. Receipted'
  BY <1>1, <1>2 DEF Receipted, deskVars
<1>6. ReceiptNotForgotten'
  <2> SUFFICES ASSUME NEW k \in Job, work'[k].state = "ENDED"
               PROVE  \/ k \in over' \cup lost'
                      \/ \E r \in {finishing'[k], outbox'[k], filed'[k]} : r # None
    BY DEF ReceiptNotForgotten
  <2>1. \/ k \in over \cup lost
        \/ finishing[k] # None \/ outbox[k] # None \/ filed[k] # None
    BY <1>1 DEF ReceiptNotForgotten
  <2> QED BY <1>1, <1>2, <2>1 DEF deskVars
<1> QED BY <1>3, <1>4, <1>5, <1>6

\* A receipt leaves the disk when the coordinator has it, or needs it no more.
LEMMA DeliverInv ==
  ASSUME WorkInv, NEW j \in Job, NEW heard \in BOOLEAN, deliver(j, heard)
  PROVE  WorkInv'
<1> USE DEF WorkInv
<1>1. /\ outbox[j] # None
      /\ UNCHANGED <<prepared, prepares, active, work, claiming, command, free, ending,
                     finishing, lost, handed, late, authorized, granted, over>>
      /\ filed' = [filed EXCEPT ![j] = outbox[j]] \/ filed' = filed
      /\ outbox' = [outbox EXCEPT ![j] = None] \/ outbox' = outbox
  BY DEF deliver
<1>2. \A k \in Job : k # j => filed'[k] = filed[k] /\ outbox'[k] = outbox[k]
  BY <1>1 DEF WorkShape
<1>3. filed'[j] \in {filed[j], outbox[j]} /\ outbox'[j] \in {outbox[j], None}
  BY <1>1 DEF WorkShape
<1>4. j \in over \/ filed'[j] # None \/ outbox'[j] # None
  BY <1>1 DEF deliver, Unlinks, Taken, WorkShape
<1>5. filed[j] # None => filed'[j] # None
  BY <1>1, <1>3
<1>6. WorkShape'
  BY <1>1 DEF WorkShape
<1>7. Prepared' /\ UsedOnce' /\ Leased' /\ JobsQueued'
  BY <1>1 DEF Prepared, UsedOnce, Leased, JobsQueued
<1>8. Receipted'
  BY <1>1, <1>2, <1>3 DEF Receipted
<1>9. ReceiptNotForgotten'
  <2> SUFFICES ASSUME NEW k \in Job, work'[k].state = "ENDED"
               PROVE  \/ k \in over' \cup lost'
                      \/ \E r \in {finishing'[k], outbox'[k], filed'[k]} : r # None
    BY DEF ReceiptNotForgotten
  <2>1. CASE k = j
    BY <1>1, <1>4, <2>1
  <2>2. CASE k # j
    BY <1>1, <1>2, <2>2 DEF ReceiptNotForgotten
  <2> QED BY <2>1, <2>2
<1> QED BY <1>6, <1>7, <1>8, <1>9

\* Time and the coordinator's own decisions.
LEMMA PassesInv ==
  ASSUME WorkInv,
         \/ \E who \in Job \cup {Free} : expire(who)
         \/ \E j \in Job : endSession(j)
  PROVE  WorkInv'
<1> USE DEF WorkInv
<1>1. /\ UNCHANGED <<agentVars, handed, authorized, granted, filed>>
      /\ late' \subseteq Job \cup {Free} /\ over' \subseteq Job /\ over \subseteq over'
  BY DEF expire, endSession, WorkShape
<1> QED BY <1>1 DEF agentVars, Prepared, WorkShape, UsedOnce, Leased, JobsQueued, Receipted,
                    ReceiptNotForgotten

\* A process takes with it what was not on disk; what it had ended is remembered as lost.
LEMMA ForgetsInv ==
  ASSUME WorkInv, Forgets
  PROVE  WorkInv'
<1> USE DEF WorkInv
<1>1. /\ prepared' = None /\ active' = None /\ command' = None /\ ending' = None /\ free' = 0
      /\ claiming' = [j \in Job |-> "NO"]
      /\ finishing' = [j \in Job |-> None]
      /\ lost' = lost \cup {j \in Job : finishing[j] # None}
      /\ UNCHANGED <<prepares, outbox, handed, late, authorized, granted, filed, over>>
      /\ work' = [j \in Job |-> IF work[j].state \in {"CLAIMING", "CLAIMED"}
                                THEN [work[j] EXCEPT !.state = "LOST"] ELSE work[j]]
  BY DEF Forgets, deskVars
<1>2. /\ work' \in [Job -> Lease]
      /\ \A k \in Job :
           /\ work'[k].state = IF work[k].state \in {"CLAIMING", "CLAIMED"}
                               THEN "LOST" ELSE work[k].state
           /\ work'[k].commands = work[k].commands
  BY <1>1 DEF WorkShape, Lease
<1>3. Prepared' /\ UsedOnce'
  BY <1>1, <1>2 DEF Prepared, UsedOnce
<1>4. WorkShape'
  BY <1>1, <1>2, Limits DEF WorkShape
<1>5. Leased'
  BY <1>1, <1>2, Limits DEF Leased
<1>6. JobsQueued'
  BY <1>1, Limits DEF JobsQueued
<1>7. Receipted'
  BY <1>1, <1>2 DEF Receipted
<1>8. ReceiptNotForgotten'
  BY <1>1, <1>2 DEF ReceiptNotForgotten
<1> QED BY <1>3, <1>4, <1>5, <1>6, <1>7, <1>8

-----------------------------------------------------------------------------
(* Every step, and what the work promises.                                 *)

\* What the steps of the stage do to its work.
LEMMA WorkSide ==
  ASSUME StageNext
  PROVE  \/ \E j \in Job :
              \/ prepare(j) \/ authorize(j) \/ start(j)
              \/ stageClaimed(j) \/ claimAnswered(j) \/ claimFails(j)
              \/ \E report \in {"COMPLETED", "STOPPED"} : cut(j, report)
              \/ writeReceipt(j) \/ writeFails(j)
              \/ endSession(j) \/ \E heard \in BOOLEAN : deliver(j, heard)
         \/ \E who \in Job \cup {Free} : beginCommand(who) \/ expire(who)
         \/ release \/ endCommand \/ linkBreaks \/ linkGone
         \/ up' = "DOWN" /\ Forgets
         \/ UNCHANGED workVars
<1>1. stop \/ Elsewhere => UNCHANGED workVars
  BY DEF stop, Elsewhere
<1>2. exit \/ dies => up' = "DOWN" /\ Forgets
  BY DEF exit, dies, crash, ceases
<1> QED BY <1>1, <1>2 DEF StageNext, JobSteps, Deliveries

LEMMA WorkStep == ReadyInv /\ WorkInv /\ [StageNext]_stageVars => WorkInv'
<1> SUFFICES ASSUME ReadyInv, WorkInv, [StageNext]_stageVars
             PROVE  WorkInv'
  OBVIOUS
<1>1. CASE UNCHANGED workVars
  BY <1>1 DEF workVars, agentVars, deskVars, WorkInv, Prepared, WorkShape, UsedOnce, Leased,
              JobsQueued, Receipted, ReceiptNotForgotten
<1>2. CASE StageNext
  <2>1. incarnation \in Nat
    BY DEF ReadyInv, Flags
  <2> QED BY <1>1, <1>2, <2>1, WorkSide, PrepareInv, AuthorizeInv, StartedInv, ClaimedInv,
             AnsweredInv, BeginInv, CommandInv, CutInv, WriteInv, DeliverInv, PassesInv,
             ForgetsInv
<1> QED BY <1>1, <1>2 DEF stageVars

LEMMA StageInvHolds == StageSpec => [](ReadyInv /\ WorkInv)
<1>1. StageInit => ReadyInv /\ WorkInv
  BY ReadyStarts, WorkStarts
<1>2. (ReadyInv /\ WorkInv) /\ [StageNext]_stageVars => (ReadyInv /\ WorkInv)'
  BY ReadyStep, WorkStep
<1> QED BY <1>1, <1>2, PTL DEF StageSpec

\* Whatever answers are lost, and whenever the agent dies or its disk is full: it files
\* no command that was not claimed and none that was not run, and an end of a job is not
\* forgotten before the coordinator has it (stage.mjs, sessions.ts).
THEOREM EvidenceIsKept == StageSpec => []EvidenceHolds
<1>1. ReadyInv /\ WorkInv => EvidenceHolds
  <2> SUFFICES ASSUME ReadyInv, WorkInv PROVE EvidenceHolds
    OBVIOUS
  <2>1. ReadinessTypeOK
    BY DEF ReadinessTypeOK, ReadyInv, Times, Flags, Declared, Connection, CallInTime, Idle,
           Asked, Signed, Loaded, Reported
  <2>2. \A j \in Job : \A r \in {finishing[j], outbox[j], filed[j]} :
          r # None => r \in Receipt /\ r.commands <= MaxCommands
    <3> SUFFICES ASSUME NEW j \in Job, NEW r \in {finishing[j], outbox[j], filed[j]}, r # None
                 PROVE  r \in Receipt /\ r.commands <= MaxCommands
      OBVIOUS
    <3>1. r \in Receipt /\ r.commands = work[j].commands /\ work[j] \in Lease
      BY DEF WorkInv, WorkShape, Receipted
    <3> QED BY <3>1, Limits DEF Lease
  <2>3. /\ {late, granted, over, lost} \subseteq SUBSET (Job \cup {Free})
        /\ {handed[j] : j \in Job} \cup {authorized[j] : j \in Job} \subseteq 0..prepares
    BY DEF WorkInv, WorkShape, Prepared
  <2>4. StageTypeOK
    BY <2>1, <2>2, <2>3 DEF StageTypeOK, WorkInv, WorkShape, Prepared, Lease
  <2>5. CommandsAreClaimed /\ ReceiptsAddUp /\ ReceiptNotForgotten
    BY DEF WorkInv, Leased, Receipted, CommandsAreClaimed, ReceiptsAddUp
  <2> QED BY <2>4, <2>5 DEF EvidenceHolds
<1> QED BY <1>1, StageInvHolds, PTL

\* Whose lease is held changes only by a start, a failed claim, an end or a death.
LEMMA LeaseChanges ==
  ASSUME StageNext, active' # active
  PROVE  \/ \E j \in Job : start(j) \/ claimFails(j)
                           \/ \E report \in {"COMPLETED", "STOPPED"} : cut(j, report)
         \/ active' = None /\ up' = "DOWN"
<1>1. ASSUME NEW j \in Job, NEW heard,
             \/ prepare(j) \/ authorize(j) \/ stageClaimed(j) \/ claimAnswered(j)
             \/ writeReceipt(j) \/ writeFails(j) \/ endSession(j) \/ deliver(j, heard)
      PROVE  active' = active
  BY <1>1 DEF prepare, authorize, stageClaimed, claimAnswered, writeReceipt, writeFails,
              endSession, deliver, agentVars
<1>2. ASSUME NEW who, beginCommand(who) \/ expire(who)
      PROVE  active' = active
  BY <1>2 DEF beginCommand, expire, agentVars
<1>3. release \/ endCommand \/ linkBreaks \/ linkGone => active' = active
  BY DEF release, endCommand, linkBreaks, linkGone
<1>4. Forgets => active' = None
  BY DEF Forgets
<1>5. UNCHANGED workVars => active' = active
  BY DEF workVars, agentVars
<1>6. (\E j \in Job :
         \/ start(j) \/ claimFails(j)
         \/ \E report \in {"COMPLETED", "STOPPED"} : cut(j, report)) \/ (up' = "DOWN" /\ Forgets)
  BY <1>1, <1>2, <1>3, <1>5, WorkSide
<1> QED BY <1>4, <1>6

\* A free command begins only while the startup budget is open.
LEMMA FreeBegins ==
  ASSUME WorkShape, StageNext, command # Free, command' = Free
  PROVE  opened
<1>1. ASSUME NEW j \in Job, NEW heard, NEW report,
             \/ prepare(j) \/ authorize(j) \/ start(j) \/ claimFails(j) \/ cut(j, report)
             \/ stageClaimed(j) \/ claimAnswered(j)
             \/ writeReceipt(j) \/ writeFails(j) \/ endSession(j) \/ deliver(j, heard)
      PROVE  command' = command
  BY <1>1 DEF prepare, authorize, start, claimFails, cut, stageClaimed, claimAnswered,
              writeReceipt, writeFails, endSession, deliver, agentVars
<1>2. \A who : expire(who) => command' = command
  BY DEF expire, agentVars
<1>3. release \/ endCommand \/ linkBreaks \/ linkGone \/ Forgets => command' \in {command, None}
  BY DEF release, endCommand, linkBreaks, linkGone, breaks, Forgets
<1>4. UNCHANGED workVars => command' = command
  BY DEF workVars, agentVars
<1>5. PICK who \in Job \cup {Free} : beginCommand(who)
  BY <1>1, <1>2, <1>3, <1>4, WorkSide, Limits
<1>6. who = Free
  BY <1>5 DEF beginCommand
<1> QED BY <1>5, <1>6, Limits DEF beginCommand, WorkShape

\* No job is started twice, none on a disk that refused a receipt; nothing runs for free
\* beside work that is sold; and a claimed job ends with a receipt or with the process,
\* so that the late failure of one claim never drops the lease of another (stage.mjs).
THEOREM StartsAreOnce == StageSpec => StartsAreLawful
<1>1. ASSUME ReadyInv, WorkInv, [StageNext]_stageVars
      PROVE  [\A j \in Job : active # j /\ active' = j => work[j].state = "NEW"]_stageVars
  <2> SUFFICES ASSUME StageNext, NEW j \in Job, active # j, active' = j
               PROVE  work[j].state = "NEW"
    BY <1>1
  <2>1. \E k \in Job : start(k)
    BY LeaseChanges, Limits DEF claimFails, Dropped, cut
  <2>2. start(j)
    BY <2>1 DEF start
  <2> QED BY <1>1, <2>2, StartedInv
<1>2. ASSUME ReadyInv, WorkInv, [StageNext]_stageVars
      PROVE  [command # Free /\ command' = Free =>
                ~(phase[Guarded] = "READY" /\ epoch[Guarded] = incarnation)]_stageVars
  <2> SUFFICES ASSUME StageNext, command # Free, command' = Free
               PROVE  ~(phase[Guarded] = "READY" /\ epoch[Guarded] = incarnation)
    BY <1>2
  <2> QED BY <1>2, FreeBegins DEF ReadyInv, OpenBeforeReady, WorkInv
<1>3. ASSUME ReadyInv, WorkInv, [StageNext]_stageVars
      PROVE  [active' \notin {active, None} => healthy]_stageVars
  <2> SUFFICES ASSUME StageNext, active' \notin {active, None} PROVE healthy
    BY <1>3
  <2>1. \E k \in Job : start(k)
    BY LeaseChanges DEF claimFails, Dropped, cut
  <2> QED BY <1>3, <2>1 DEF start, readyNow, ReadyInv, Flags
<1>4. ASSUME ReadyInv, WorkInv, [StageNext]_stageVars
      PROVE  [\A j \in Job : active = j /\ work[j].state = "CLAIMED" /\ active' # j =>
                finishing'[j] # None \/ up' = "DOWN"]_stageVars
  <2> SUFFICES ASSUME StageNext, NEW j \in Job, active = j, work[j].state = "CLAIMED",
                      active' # j, up' # "DOWN"
               PROVE  finishing'[j] # None
    BY <1>4
  <2>1. ~\E k \in Job : start(k)
    BY Limits DEF start
  <2>2. ~\E k \in Job : claimFails(k)
    <3>1. claiming[j] = "NO"
      BY <1>4 DEF WorkInv, Leased
    <3> QED BY <3>1 DEF claimFails, Dropped
  <2>3. PICK k \in Job : \E report \in {"COMPLETED", "STOPPED"} : cut(k, report)
    BY <2>1, <2>2, LeaseChanges
  <2>4. k = j
    BY <2>3 DEF cut
  <2> QED BY <1>4, <2>3, <2>4, CutInv DEF ReadyInv, Flags
<1> QED BY <1>1, <1>2, <1>3, <1>4, StageInvHolds, PTL
        DEF StageSpec, StartsAreLawful, StartedOnce, FreeOnlyBeforeReady,
            StorageFailureStopsStarts, ClaimedEndsWithReceipt

-----------------------------------------------------------------------------
(***************************************************************************)
(* Services.  A boot that the registry does not name is out of play: it    *)
(* has no process and nobody will spawn one, or its process has ended, or  *)
(* it will still look for the stop that has been requested.                *)
(***************************************************************************)
HasMutex(l) ==
  \/ launcher[l].at \in {"OWNED", "PARENT", "DISCOVER"}
  \/ launcher[l].at = "RESERVED" /\ launcher[l].boot = Unowned
WillSpawn(l) == launcher[l].at \in {"RESERVED", "GO"}

OutOfPlay(b) ==
  \/ host[b] = "OVER"
  \/ host[b] = "NONE" /\ \A l \in Launcher : launcher[l].boot = b => ~WillSpawn(l)
  \/ Requested(b) /\ host[b] \in {"NONE", "CLAIM", "CHECK", "CONTAIN", "IDENTIFY", "RECORD",
                                  "CHECK_AGAIN"}

\* One launcher at a time has the mutex, and a boot is one launcher's.
LaunchersHold ==
  /\ \A l \in Launcher :
       /\ mutex = l <=> HasMutex(l)
       /\ launcher[l].boot # Unowned =>
            /\ launcher[l].at \in {"RESERVED", "GO", "SPAWNED", "DONE", "GONE"}
            /\ launcher[l].at \in {"RESERVED", "GO"} => host[launcher[l].boot] = "NONE"
       /\ launcher[l].at \in {"GO", "SPAWNED"} => launcher[l].boot # Unowned
       /\ launcher[l].at = "SPAWNED" => host[launcher[l].boot] # "NONE"
  /\ \A l, m \in Launcher :
       launcher[l].boot = launcher[m].boot /\ l # m => launcher[l].boot = Unowned
  /\ \A b \in Intent : host[b] # "NONE" => \E l \in Launcher : launcher[l].boot = b

\* What the registry says of a boot, and what a launcher with the mutex knows of it.
EntryHolds ==
  /\ entry.boot # Unowned =>
       /\ entry.by # Nobody /\ launcher[entry.by].boot = entry.boot
       /\ entry.pid => host[entry.boot] # "NONE"
  /\ \A l \in Launcher :
       /\ launcher[l].at \in {"PARENT", "DISCOVER"} => entry.boot # Unowned /\ ~entry.pid
       /\ launcher[l].at = "DISCOVER" => launcher[entry.by].at = "GONE"
       /\ launcher[l].at = "RESERVED" /\ launcher[l].boot = Unowned /\ entry.boot # Unowned =>
            OutOfPlay(entry.boot)
  /\ \A b \in Intent \ {entry.boot} : OutOfPlay(b)

HostsHold ==
  \A b \in Intent :
    /\ host[b] \in {"CHECK_AGAIN", "SPAWN", "RUN", "STOPPING"} => identity[b] = "RUNNER"
    /\ service[b] = "UP" => host[b] \in {"RUN", "STOPPING", "OVER"}

StopsHold ==
  /\ stopper.at \in {"ASKS", "WAITS", "DELETES"} =>
       /\ stopper.boot # Unowned
       /\ \E l \in Launcher : launcher[l].boot = stopper.boot
       /\ stopper.pid => host[stopper.boot] # "NONE"
  /\ stopper.at \in {"WAITS", "DELETES"} => Requested(stopper.boot)
  /\ stopper.at = "DELETES" => OutOfPlay(stopper.boot)
  /\ \A b \in stopped : OutOfPlay(b) /\ \E l \in Launcher : launcher[l].boot = b

ServicesInv == ServicesTypeOK /\ LaunchersHold /\ EntryHolds /\ HostsHold /\ StopsHold

-----------------------------------------------------------------------------
(* Services: types.                                                        *)

Launchers == [Launcher -> [at : {"IDLE", "OWNED", "PARENT", "DISCOVER", "RESERVED", "GO",
                                 "SPAWNED", "DONE", "GONE"},
                           boot : Intent \cup {Unowned}]]

LEMMA LauncherMoves ==
  ASSUME launcher \in Launchers, NEW l \in Launcher,
         NEW at \in {"OWNED", "PARENT", "DISCOVER", "RESERVED", "GO", "SPAWNED", "DONE", "GONE"},
         Comes(l, at)
  PROVE  /\ launcher' \in Launchers
         /\ launcher'[l].at = at /\ launcher'[l].boot = launcher[l].boot
         /\ \A m \in Launcher \ {l} : launcher'[m] = launcher[m]
BY DEF Launchers, Comes

LEMMA EntryReused ==
  ASSUME ServicesTypeOK, NEW l \in Launcher, NEW known \in BOOLEAN, Reuses(l, known)
  PROVE  /\ entry' \in [boot : Intent \cup {Unowned}, pid : BOOLEAN, by : Launcher \cup {Nobody}]
         /\ entry'.boot = entry.boot /\ entry'.by = entry.by
         /\ entry'.pid = (entry.pid \/ known)
BY DEF ServicesTypeOK, Reuses

-----------------------------------------------------------------------------
(* Services: the steps of a command that starts the service.               *)

\* A command that goes on makes nothing come back into play, unless it begins to
\* spawn for its boot.
LEMMA GoesOn ==
  ASSUME ServicesInv, NEW l \in Launcher,
         NEW at \in {"OWNED", "PARENT", "DISCOVER", "RESERVED", "GO", "SPAWNED", "DONE", "GONE"},
         Comes(l, at), HostVars, StopVars,
         launcher[l].boot # Unowned /\ at \in {"RESERVED", "GO"} => WillSpawn(l)
  PROVE  /\ \A b \in Intent : OutOfPlay(b) => OutOfPlay(b)'
         /\ launcher' \in Launchers
         /\ launcher'[l].at = at /\ launcher'[l].boot = launcher[l].boot
         /\ \A m \in Launcher \ {l} : launcher'[m] = launcher[m]
<1>1. launcher \in Launchers
  BY DEF ServicesInv, ServicesTypeOK, Launchers
<1>2. /\ launcher' \in Launchers
      /\ launcher'[l].at = at /\ launcher'[l].boot = launcher[l].boot
      /\ \A m \in Launcher \ {l} : launcher'[m] = launcher[m]
  BY <1>1, LauncherMoves
<1>3. ASSUME NEW b \in Intent, OutOfPlay(b) PROVE OutOfPlay(b)'
  BY <1>2, <1>3 DEF OutOfPlay, WillSpawn, Requested, HostVars, StopVars, Intent, Unowned
<1> QED BY <1>2, <1>3

\* What a step of a command that leaves hosts and stops alone must keep.
LEMMA CommandKeeps ==
  ASSUME ServicesInv, NEW l \in Launcher,
         NEW at \in {"OWNED", "PARENT", "DISCOVER", "RESERVED", "GO", "SPAWNED", "DONE", "GONE"},
         Comes(l, at), HostVars, StopVars, launcher[l].at # "GONE",
         launcher[l].boot # Unowned =>
           /\ at \in {"RESERVED", "GO", "SPAWNED", "DONE", "GONE"}
           /\ at \in {"RESERVED", "GO"} => WillSpawn(l),
         at \in {"GO", "SPAWNED"} => launcher[l].boot # Unowned,
         at = "SPAWNED" => launcher[l].at = "SPAWNED",
         mutex' \in Launcher \cup {Nobody},
         mutex' = l <=> \/ at \in {"OWNED", "PARENT", "DISCOVER"}
                        \/ at = "RESERVED" /\ launcher[l].boot = Unowned,
         \A m \in Launcher \ {l} : mutex' = m <=> mutex = m,
         entry' \in [boot : Intent \cup {Unowned}, pid : BOOLEAN, by : Launcher \cup {Nobody}],
         entry'.boot = entry.boot,
         entry.boot # Unowned => entry'.by = entry.by,
         entry'.pid => entry.pid \/ (entry.boot # Unowned /\ host[entry.boot] # "NONE"),
         entry' # entry => \A m \in Launcher \ {l} : mutex # m,
         at \in {"PARENT", "DISCOVER"} => entry.boot # Unowned /\ ~entry'.pid,
         at = "DISCOVER" => launcher[entry.by].at = "GONE",
         at = "RESERVED" /\ launcher[l].boot = Unowned /\ entry.boot # Unowned =>
           OutOfPlay(entry.boot)
  PROVE  ServicesInv'
<1>1. /\ \A b \in Intent : OutOfPlay(b) => OutOfPlay(b)'
      /\ launcher' \in Launchers
      /\ launcher'[l].at = at /\ launcher'[l].boot = launcher[l].boot
      /\ \A m \in Launcher \ {l} : launcher'[m] = launcher[m]
  BY GoesOn
<1>2. ServicesTypeOK'
  BY <1>1 DEF ServicesInv, ServicesTypeOK, Launchers, HostVars, StopVars
<1>3. LaunchersHold'
  BY <1>1 DEF ServicesInv, LaunchersHold, HasMutex, WillSpawn, HostVars
<1>4. EntryHolds'
  <2>1. entry'.boot # Unowned =>
          /\ entry'.by # Nobody /\ launcher'[entry'.by].boot = entry'.boot
          /\ entry'.pid => host'[entry'.boot] # "NONE"
    BY <1>1 DEF ServicesInv, EntryHolds, HostVars, Launchers, ServicesTypeOK
  <2>2. ASSUME NEW m \in Launcher
        PROVE  /\ launcher'[m].at \in {"PARENT", "DISCOVER"} => entry'.boot # Unowned /\ ~entry'.pid
               /\ launcher'[m].at = "DISCOVER" => launcher'[entry'.by].at = "GONE"
               /\ launcher'[m].at = "RESERVED" /\ launcher'[m].boot = Unowned
                    /\ entry'.boot # Unowned => OutOfPlay(entry.boot)'
    <3>1. CASE m = l
      BY <1>1, <3>1 DEF ServicesInv, EntryHolds, ServicesTypeOK
    <3>2. CASE m # l
      BY <1>1, <3>2 DEF ServicesInv, EntryHolds, LaunchersHold, HasMutex, ServicesTypeOK
    <3> QED BY <3>1, <3>2
  <2>3. \A b \in Intent \ {entry'.boot} : OutOfPlay(b)'
    BY <1>1 DEF ServicesInv, EntryHolds
  <2> QED BY <2>1, <2>2, <2>3 DEF EntryHolds
<1>5. HostsHold' /\ StopsHold'
  BY <1>1 DEF ServicesInv, HostsHold, StopsHold, HostVars, StopVars, Requested, ServicesTypeOK
<1> QED BY <1>2, <1>3, <1>4, <1>5 DEF ServicesInv

LEMMA OpensKeeps ==
  ASSUME ServicesInv, NEW l \in Launcher, opens(l)
  PROVE  ServicesInv'
<1>1. /\ ServicesTypeOK /\ launcher[l].at = "IDLE" /\ launcher[l].boot = Unowned
      /\ mutex = Nobody /\ mutex' = l /\ Comes(l, "OWNED") /\ entry' = entry
      /\ HostVars /\ StopVars /\ Nobody \notin Launcher
  BY ServicesAssumption DEF opens, Takes, ServicesInv, LaunchersHold
<1> QED BY <1>1, CommandKeeps DEF ServicesTypeOK

LEMMA AsksOwnedKeeps ==
  ASSUME ServicesInv, NEW l \in Launcher, asksOwned(l)
  PROVE  ServicesInv'
<1>1. /\ ServicesTypeOK /\ launcher[l].at = "OWNED" /\ mutex = l
      /\ launcher[l].boot = Unowned /\ Nobody \notin Launcher
      /\ HostVars /\ StopVars
  BY ServicesAssumption DEF asksOwned, ServicesInv, LaunchersHold, HasMutex
<1>2. CASE serviceOwned(entry.boot, entry.pid)
  <2>1. Reuses(l, TRUE)
    BY <1>2 DEF asksOwned
  <2>2. host[entry.boot] # "NONE" /\ entry.boot # Unowned
    BY <1>2 DEF serviceOwned, live, HostRuns, HostUp
  <2>3. Comes(l, "DONE") /\ mutex' = Nobody
    BY <2>1 DEF Reuses
  <2> QED BY <1>1, <2>1, <2>2, <2>3, EntryReused, CommandKeeps
<1>3. CASE ~serviceOwned(entry.boot, entry.pid) /\ (entry.boot = Unowned \/ entry.pid)
  <2>1. Comes(l, "RESERVED") /\ UNCHANGED <<entry, mutex>>
    BY <1>3 DEF asksOwned
  <2>2. entry.boot # Unowned => OutOfPlay(entry.boot)
    <3> SUFFICES ASSUME entry.boot # Unowned PROVE OutOfPlay(entry.boot)
      OBVIOUS
    <3>1. host[entry.boot] # "NONE" /\ host[entry.boot] \in {"NONE", "OVER"} \cup HostUp
      BY <1>1, <1>3 DEF ServicesInv, EntryHolds, ServicesTypeOK
    <3> QED BY <1>3, <3>1 DEF serviceOwned, HostRuns, OutOfPlay
  <2> QED BY <1>1, <2>1, <2>2, CommandKeeps DEF ServicesTypeOK
<1>4. CASE ~serviceOwned(entry.boot, entry.pid) /\ ~(entry.boot = Unowned \/ entry.pid)
  <2>1. Comes(l, "PARENT") /\ UNCHANGED <<entry, mutex>>
    BY <1>4 DEF asksOwned
  <2> QED BY <1>1, <1>4, <2>1, CommandKeeps DEF ServicesTypeOK
<1> QED BY <1>2, <1>3, <1>4

LEMMA AsksParentKeeps ==
  ASSUME ServicesInv, NEW l \in Launcher, asksParent(l)
  PROVE  ServicesInv'
<1>1. /\ ServicesTypeOK /\ launcher[l].at = "PARENT" /\ mutex = l
      /\ launcher[l].boot = Unowned /\ Nobody \notin Launcher
      /\ entry.boot # Unowned /\ ~entry.pid /\ entry.by # Nobody
      /\ HostVars /\ StopVars
  BY ServicesAssumption DEF asksParent, ServicesInv, LaunchersHold, HasMutex, EntryHolds
<1>2. CASE ParentLives(l)
  <2>1. Reuses(l, FALSE)
    BY <1>2 DEF asksParent
  <2>2. Comes(l, "DONE") /\ mutex' = Nobody
    BY <2>1 DEF Reuses
  <2> QED BY <1>1, <2>1, <2>2, EntryReused, CommandKeeps
<1>3. CASE ~ParentLives(l)
  <2>1. Comes(l, "DISCOVER") /\ UNCHANGED <<entry, mutex>>
    BY <1>3 DEF asksParent
  <2>2. launcher[entry.by].at = "GONE"
    BY <1>1, <1>3 DEF ParentLives, LauncherLives
  <2> QED BY <1>1, <2>1, <2>2, CommandKeeps DEF ServicesTypeOK
<1> QED BY <1>2, <1>3

\* An entry without a pid whose launcher has gone and whose host nobody can find is
\* abandoned for good.
LEMMA DiscoversKeeps ==
  ASSUME ServicesInv, NEW l \in Launcher, discovers(l)
  PROVE  ServicesInv'
<1>1. /\ ServicesTypeOK /\ launcher[l].at = "DISCOVER" /\ mutex = l
      /\ launcher[l].boot = Unowned /\ Nobody \notin Launcher
      /\ entry.boot # Unowned /\ ~entry.pid /\ entry.by # Nobody
      /\ launcher[entry.by].at = "GONE" /\ launcher[entry.by].boot = entry.boot
      /\ HostVars /\ StopVars
  BY ServicesAssumption DEF discovers, ServicesInv, LaunchersHold, HasMutex, EntryHolds
<1>2. CASE Discovered
  <2>1. Reuses(l, TRUE)
    BY <1>2 DEF discovers
  <2>2. Comes(l, "DONE") /\ mutex' = Nobody
    BY <2>1 DEF Reuses
  <2>3. host[entry.boot] # "NONE"
    BY <1>2 DEF Discovered, HostRuns, HostUp
  <2> QED BY <1>1, <2>1, <2>2, <2>3, EntryReused, CommandKeeps
<1>3. CASE ~Discovered
  <2>1. Comes(l, "RESERVED") /\ UNCHANGED <<entry, mutex>>
    BY <1>3 DEF discovers
  <2>2. OutOfPlay(entry.boot)
    <3>1. host[entry.boot] \in {"NONE", "OVER"}
      BY <1>1, <1>3 DEF Discovered, HostRuns, ServicesTypeOK
    <3>2. \A m \in Launcher : launcher[m].boot = entry.boot => ~WillSpawn(m)
      BY <1>1 DEF ServicesInv, LaunchersHold, WillSpawn, ServicesTypeOK
    <3> QED BY <3>1, <3>2 DEF OutOfPlay
  <2> QED BY <1>1, <2>1, <2>2, CommandKeeps DEF ServicesTypeOK
<1> QED BY <1>2, <1>3

LEMMA LooksForStopKeeps ==
  ASSUME ServicesInv, NEW l \in Launcher, looksForStop(l)
  PROVE  ServicesInv'
<1>1. /\ ServicesTypeOK /\ launcher[l].at = "RESERVED" /\ launcher[l].boot # Unowned
      /\ mutex # l /\ UNCHANGED <<entry, mutex>> /\ HostVars /\ StopVars
  BY DEF looksForStop, ServicesInv, LaunchersHold, HasMutex
<1>2. WillSpawn(l)
  BY <1>1 DEF WillSpawn
<1>3. \E at \in {"DONE", "GO"} : Comes(l, at)
  BY DEF looksForStop
<1> QED BY <1>1, <1>2, <1>3, CommandKeeps DEF ServicesTypeOK

LEMMA RecordsKeeps ==
  ASSUME ServicesInv, NEW l \in Launcher, records(l)
  PROVE  ServicesInv'
<1>1. /\ ServicesTypeOK /\ launcher[l].at = "SPAWNED" /\ launcher[l].boot # Unowned
      /\ mutex = Nobody /\ mutex' = mutex /\ Comes(l, "DONE") /\ HostVars /\ StopVars
      /\ host[launcher[l].boot] # "NONE" /\ Nobody \notin Launcher
  BY ServicesAssumption DEF records, ServicesInv, LaunchersHold
<1>2. entry' = IF entry.boot = launcher[l].boot
               THEN [boot |-> launcher[l].boot, pid |-> TRUE, by |-> l] ELSE entry
  BY DEF records, Records
<1>3. entry.boot = launcher[l].boot => entry.by = l
  BY <1>1 DEF ServicesInv, EntryHolds, LaunchersHold, ServicesTypeOK
<1>4. launcher[l].boot \in Intent
  BY <1>1 DEF ServicesTypeOK
<1>5. /\ entry' \in [boot : Intent \cup {Unowned}, pid : BOOLEAN, by : Launcher \cup {Nobody}]
      /\ entry'.boot = entry.boot /\ entry'.by = entry.by
      /\ entry'.pid => entry.pid \/ (entry.boot # Unowned /\ host[entry.boot] # "NONE")
  BY <1>1, <1>2, <1>3, <1>4 DEF ServicesTypeOK
<1> QED BY <1>1, <1>5, CommandKeeps

LEMMA EndsKeeps ==
  ASSUME ServicesInv, NEW l \in Launcher, ends(l)
  PROVE  ServicesInv'
<1>1. /\ ServicesTypeOK /\ launcher[l].at # "GONE" /\ Comes(l, "GONE") /\ Drops(l)
      /\ HostVars /\ StopVars /\ entry' = entry /\ Nobody \notin Launcher
  BY ServicesAssumption DEF ends, ServicesInv
<1> QED BY <1>1, CommandKeeps DEF Drops, ServicesTypeOK

\* A new boot is nobody's, and the one it replaces in the registry is out of play.
LEMMA ReservesKeeps ==
  ASSUME ServicesInv, NEW l \in Launcher, reserves(l)
  PROVE  ServicesInv'
<1>1. /\ ServicesTypeOK /\ launcher[l].at = "RESERVED" /\ launcher[l].boot = Unowned
      /\ mutex = l /\ mutex' = Nobody /\ Nobody \notin Launcher
      /\ HostVars /\ StopVars
  BY ServicesAssumption DEF reserves, ServicesInv
<1>2. PICK b \in Unused : /\ entry' = [boot |-> b, pid |-> FALSE, by |-> l]
                          /\ launcher' = [launcher EXCEPT ![l].boot = b]
  BY DEF reserves
<1>3. /\ b \in Intent /\ b # Unowned /\ \A m \in Launcher : launcher[m].boot # b
      /\ host[b] = "NONE"
  BY DEF Unused, Intent, Unowned, ServicesInv, LaunchersHold
<1>4. /\ launcher' \in Launchers
      /\ launcher'[l].at = "RESERVED" /\ launcher'[l].boot = b
      /\ \A m \in Launcher \ {l} : launcher'[m] = launcher[m]
  BY <1>1, <1>2, <1>3 DEF Launchers, ServicesTypeOK
<1>5. \A a \in Intent : a # b /\ OutOfPlay(a) => OutOfPlay(a)'
  BY <1>1, <1>3, <1>4 DEF OutOfPlay, WillSpawn, HostVars, StopVars, Requested
<1>6. ServicesTypeOK'
  BY <1>1, <1>2, <1>3, <1>4 DEF ServicesTypeOK, Launchers, HostVars, StopVars
<1>7. LaunchersHold'
  <2>1. ASSUME NEW m \in Launcher
        PROVE  /\ ~HasMutex(m)' /\ mutex' # m
               /\ launcher'[m].boot # Unowned =>
                    /\ launcher'[m].at \in {"RESERVED", "GO", "SPAWNED", "DONE", "GONE"}
                    /\ launcher'[m].at \in {"RESERVED", "GO"} => host'[launcher'[m].boot] = "NONE"
               /\ launcher'[m].at \in {"GO", "SPAWNED"} => launcher'[m].boot # Unowned
               /\ launcher'[m].at = "SPAWNED" => host'[launcher'[m].boot] # "NONE"
    <3>1. CASE m = l
      BY <1>1, <1>3, <1>4, <3>1 DEF HasMutex, HostVars
    <3>2. CASE m # l
      BY <1>1, <1>4, <3>2 DEF ServicesInv, LaunchersHold, HasMutex, HostVars
    <3> QED BY <3>1, <3>2
  <2>2. \A k, m \in Launcher :
          launcher'[k].boot = launcher'[m].boot /\ k # m => launcher'[k].boot = Unowned
    BY <1>1, <1>3, <1>4 DEF ServicesInv, LaunchersHold
  <2>3. ASSUME NEW a \in Intent, host'[a] # "NONE"
        PROVE  \E m \in Launcher : launcher'[m].boot = a
    <3>1. PICK m \in Launcher : launcher[m].boot = a
      BY <1>1, <2>3 DEF ServicesInv, LaunchersHold, HostVars
    <3>2. a # Unowned
      BY DEF Intent, Unowned
    <3> QED BY <1>1, <1>4, <3>1, <3>2
  <2> QED BY <2>1, <2>2, <2>3 DEF LaunchersHold
<1>8. EntryHolds'
  <2>1. entry'.boot = b /\ entry'.by = l /\ ~entry'.pid
    BY <1>2
  <2>2. \A m \in Launcher \ {l} :
          /\ launcher'[m].at \notin {"PARENT", "DISCOVER"}
          /\ ~(launcher'[m].at = "RESERVED" /\ launcher'[m].boot = Unowned)
    BY <1>1, <1>4 DEF ServicesInv, LaunchersHold, HasMutex
  <2>3. \A a \in Intent \ {b} : OutOfPlay(a)
    <3>1. \A a \in Intent : a # Unowned
      BY DEF Intent, Unowned
    <3>2. entry.boot # Unowned => OutOfPlay(entry.boot)
      BY <1>1 DEF ServicesInv, EntryHolds
    <3>3. \A a \in Intent \ {entry.boot} : OutOfPlay(a)
      BY DEF ServicesInv, EntryHolds
    <3> QED BY <3>1, <3>2, <3>3
  <2>4. \A a \in Intent \ {b} : OutOfPlay(a)'
    BY <1>5, <2>3
  <2> QED BY <1>1, <1>3, <1>4, <2>1, <2>2, <2>4 DEF EntryHolds
<1>9. HostsHold'
  BY <1>1 DEF ServicesInv, HostsHold, HostVars
<1>10. StopsHold'
  <2>1. \A a : (\E m \in Launcher : launcher[m].boot = a) /\ a # Unowned
               => a # b /\ \E m \in Launcher : launcher'[m].boot = a
    BY <1>1, <1>3, <1>4
  <2>2. stopped \subseteq Intent /\ Unowned \notin Intent /\ stopper.boot \in Intent \cup {Unowned}
    BY <1>1 DEF ServicesTypeOK, Intent, Unowned
  <2> QED BY <1>1, <1>5, <2>1, <2>2 DEF ServicesInv, StopsHold, HostVars, StopVars, Requested
<1> QED BY <1>6, <1>7, <1>8, <1>9, <1>10 DEF ServicesInv

LEMMA SpawnsKeeps ==
  ASSUME ServicesInv, NEW l \in Launcher, spawns(l)
  PROVE  ServicesInv'
<1> DEFINE b == launcher[l].boot
<1>1. /\ ServicesTypeOK /\ launcher[l].at = "GO" /\ b \in Intent /\ b # Unowned
      /\ host[b] = "NONE" /\ host' = [host EXCEPT ![b] = "CLAIM"] /\ Comes(l, "SPAWNED")
      /\ StopVars /\ UNCHANGED <<entry, mutex, identity, service>>
  BY DEF spawns, ServicesInv, LaunchersHold, ServicesTypeOK
<1>2. /\ launcher' \in Launchers
      /\ launcher'[l].at = "SPAWNED" /\ launcher'[l].boot = b
      /\ \A m \in Launcher \ {l} : launcher'[m] = launcher[m]
  BY <1>1, LauncherMoves DEF ServicesTypeOK, Launchers
<1>3. /\ host'[b] = "CLAIM" /\ \A a \in Intent \ {b} : host'[a] = host[a]
      /\ host' \in [Intent -> {"NONE", "OVER"} \cup HostUp]
  BY <1>1 DEF ServicesTypeOK, HostUp
<1> HIDE DEF b
<1>4. \A a \in Intent : OutOfPlay(a) => OutOfPlay(a)'
  <2> SUFFICES ASSUME NEW a \in Intent, OutOfPlay(a) PROVE OutOfPlay(a)'
    OBVIOUS
  <2>1. CASE a = b
    <3>1. Requested(b)
      BY <1>1, <2>1 DEF OutOfPlay, WillSpawn, b
    <3> QED BY <1>1, <1>3, <2>1, <3>1 DEF OutOfPlay, Requested, StopVars
  <2>2. CASE a # b
    BY <1>1, <1>2, <1>3, <2>2 DEF OutOfPlay, WillSpawn, Requested, StopVars
  <2> QED BY <2>1, <2>2
<1>5. ServicesTypeOK'
  BY <1>1, <1>2, <1>3 DEF ServicesTypeOK, Launchers, StopVars
<1>6. LaunchersHold'
  BY <1>1, <1>2, <1>3 DEF ServicesInv, LaunchersHold, HasMutex, b, ServicesTypeOK
<1>7. EntryHolds'
  <2>1. entry.boot # Unowned =>
          /\ entry'.by # Nobody /\ launcher'[entry'.by].boot = entry'.boot
          /\ entry'.pid => host'[entry'.boot] # "NONE"
    <3> SUFFICES ASSUME entry.boot # Unowned
                 PROVE  /\ entry'.by # Nobody /\ launcher'[entry'.by].boot = entry'.boot
                        /\ entry'.pid => host'[entry'.boot] # "NONE"
      OBVIOUS
    <3>1. /\ entry.by # Nobody /\ launcher[entry.by].boot = entry.boot
          /\ entry.pid => host[entry.boot] # "NONE"
          /\ entry.by \in Launcher /\ entry.boot \in Intent
      BY <1>1 DEF ServicesInv, EntryHolds, ServicesTypeOK
    <3>2. launcher'[entry.by].boot = launcher[entry.by].boot
      BY <1>2, <3>1 DEF b
    <3>3. entry.pid => host'[entry.boot] # "NONE"
      BY <1>3, <3>1
    <3> QED BY <1>1, <3>1, <3>2, <3>3
  <2>2. ASSUME NEW m \in Launcher
        PROVE  /\ launcher'[m].at \in {"PARENT", "DISCOVER"} => entry'.boot # Unowned /\ ~entry'.pid
               /\ launcher'[m].at = "DISCOVER" => launcher'[entry'.by].at = "GONE"
               /\ launcher'[m].at = "RESERVED" /\ launcher'[m].boot = Unowned
                    /\ entry'.boot # Unowned => OutOfPlay(entry.boot)'
    <3>1. CASE m = l
      BY <1>2, <3>1
    <3>2. CASE m # l
      <4>1. launcher'[m] = launcher[m] /\ entry' = entry
        BY <1>1, <1>2, <3>2
      <4>2. entry.boot # Unowned => entry.boot \in Intent /\ entry.by \in Launcher
        BY <1>1 DEF ServicesInv, EntryHolds, ServicesTypeOK
      <4>3. launcher[m].at = "DISCOVER" => launcher'[entry.by].at = "GONE"
        BY <1>1, <1>2, <4>2 DEF ServicesInv, EntryHolds
      <4> QED BY <1>4, <4>1, <4>2, <4>3 DEF ServicesInv, EntryHolds
    <3> QED BY <3>1, <3>2
  <2>3. \A a \in Intent \ {entry'.boot} : OutOfPlay(a)'
    BY <1>1, <1>4 DEF ServicesInv, EntryHolds
  <2> QED BY <1>1, <2>1, <2>2, <2>3 DEF EntryHolds
<1>8. HostsHold'
  BY <1>1, <1>3 DEF ServicesInv, HostsHold
<1>9. StopsHold'
  BY <1>1, <1>2, <1>3, <1>4 DEF ServicesInv, StopsHold, StopVars, Requested, ServicesTypeOK, b
<1> QED BY <1>5, <1>6, <1>7, <1>8, <1>9 DEF ServicesInv

-----------------------------------------------------------------------------
(* Services: the steps of a host.                                          *)

\* A host goes on, or ends; it starts the service only with the stop not yet asked
\* for.
LEMMA HostKeeps ==
  ASSUME ServicesInv, ByHost, NEW b \in Intent, NEW to \in HostUp \cup {"OVER"},
         host[b] \in HostUp \/ (host[b] = "OVER" /\ to = "OVER"),
         host' = [host EXCEPT ![b] = to],
         identity' \in [Intent -> {"NONE", "CLAIM", "RUNNER"}],
         service' \in [Intent -> {"NONE", "UP", "ENDED"}],
         \A a \in Intent \ {b} : identity'[a] = identity[a] /\ service'[a] = service[a],
         to \in {"CHECK_AGAIN", "SPAWN", "RUN", "STOPPING"} => identity'[b] = "RUNNER",
         service'[b] = "UP" => to \in {"RUN", "STOPPING", "OVER"},
         to \in {"SPAWN", "RUN", "STOPPING"} => ~OutOfPlay(b)
  PROVE  ServicesInv'
<1>1. /\ host'[b] = to /\ \A a \in Intent \ {b} : host'[a] = host[a]
      /\ host' \in [Intent -> {"NONE", "OVER"} \cup HostUp]
  BY DEF ServicesInv, ServicesTypeOK, HostUp
<1>2. host[b] # "NONE" /\ to # "NONE"
  BY DEF HostUp
<1>3. \A a \in Intent : OutOfPlay(a) => OutOfPlay(a)'
  <2> SUFFICES ASSUME NEW a \in Intent, OutOfPlay(a) PROVE OutOfPlay(a)'
    OBVIOUS
  <2>1. CASE a = b
    BY <1>1, <1>2, <2>1 DEF OutOfPlay, Requested, ByHost, HostUp
  <2>2. CASE a # b
    BY <1>1, <2>2 DEF OutOfPlay, Requested, WillSpawn, ByHost
  <2> QED BY <2>1, <2>2
<1>4. ServicesTypeOK'
  BY <1>1 DEF ServicesInv, ServicesTypeOK, ByHost
<1>5. LaunchersHold'
  BY <1>1, <1>2 DEF ServicesInv, LaunchersHold, HasMutex, ByHost, ServicesTypeOK
<1>6. EntryHolds'
  BY <1>1, <1>2, <1>3 DEF ServicesInv, EntryHolds, ByHost, ServicesTypeOK
<1>7. HostsHold'
  BY <1>1 DEF ServicesInv, HostsHold
<1>8. StopsHold'
  BY <1>1, <1>2, <1>3 DEF ServicesInv, StopsHold, ByHost, Requested, ServicesTypeOK
<1> QED BY <1>4, <1>5, <1>6, <1>7, <1>8 DEF ServicesInv

LEMMA HostStepKeeps ==
  ASSUME ServicesInv, NEW b \in Intent,
         HostStep(b) \/ serviceEnds(b) \/ hostDies(b) \/ guardianCloses(b)
  PROVE  ServicesInv'
<1>1. /\ host \in [Intent -> {"NONE", "OVER"} \cup HostUp]
      /\ identity \in [Intent -> {"NONE", "CLAIM", "RUNNER"}]
      /\ service \in [Intent -> {"NONE", "UP", "ENDED"}]
      /\ host[b] \in {"CHECK_AGAIN", "SPAWN", "RUN", "STOPPING"} => identity[b] = "RUNNER"
      /\ service[b] = "UP" => host[b] \in {"RUN", "STOPPING", "OVER"}
  BY DEF ServicesInv, ServicesTypeOK, HostsHold
<1>2. CASE claims(b)
  BY <1>1, <1>2, HostKeeps DEF claims, HostIs, HostUp
<1>3. CASE checks(b)
  <2>1. PICK to \in {"OVER", "CONTAIN"} : HostIs(b, to)
    BY <1>3 DEF checks
  <2> QED BY <1>1, <1>3, <2>1, HostKeeps DEF checks, HostIs, HostUp
<1>4. CASE contains(b)
  <2>1. PICK to \in {"OVER", "IDENTIFY"} : HostIs(b, to)
    BY <1>4 DEF contains
  <2> QED BY <1>1, <1>4, <2>1, HostKeeps DEF contains, HostIs, HostUp
<1>5. CASE identifies(b)
  <2>1. PICK to \in {"OVER", "RECORD"} : HostIs(b, to)
    BY <1>5 DEF identifies
  <2> QED BY <1>1, <1>5, <2>1, HostKeeps DEF identifies, HostIs, HostUp
<1>6. CASE recordsRunner(b)
  BY <1>1, <1>6, HostKeeps DEF recordsRunner, HostIs, HostUp
<1>7. CASE checksAgain(b) /\ Requested(b)
  BY <1>1, <1>7, HostKeeps DEF checksAgain, SecondLook, HostIs, HostUp
<1>8. CASE checksAgain(b) /\ ~Requested(b)
  <2>1. ~OutOfPlay(b)
    BY <1>8 DEF OutOfPlay, checksAgain
  <2> QED BY <1>1, <1>8, <2>1, HostKeeps DEF checksAgain, SecondLook, HostIs, HostUp
<1>9. ASSUME host[b] \in {"SPAWN", "RUN", "STOPPING"} PROVE ~OutOfPlay(b)
  BY <1>9 DEF OutOfPlay
<1>10. CASE serves(b) /\ HostIs(b, "RUN")
  BY <1>1, <1>9, <1>10, HostKeeps DEF serves, HostIs, HostUp
<1>11. CASE serves(b) /\ HostIs(b, "OVER")
  BY <1>1, <1>9, <1>11, HostKeeps DEF serves, HostIs, HostUp
<1>12. CASE hearsStop(b)
  BY <1>1, <1>9, <1>12, HostKeeps DEF hearsStop, HostIs, HostUp
<1>13. CASE serviceEnds(b)
  BY <1>1, <1>13, HostKeeps DEF serviceEnds, HostIs, HostUp
<1>14. CASE hostDies(b)
  BY <1>1, <1>14, HostKeeps DEF hostDies, HostIs, HostRuns
<1>15. CASE guardianCloses(b)
  <2>1. host' = [host EXCEPT ![b] = "OVER"]
    BY <1>1, <1>15 DEF guardianCloses
  <2> QED BY <1>1, <1>15, <2>1, HostKeeps DEF guardianCloses
<1>16. serves(b) => HostIs(b, "RUN") \/ HostIs(b, "OVER")
  BY DEF serves
<1> QED
  BY <1>2, <1>3, <1>4, <1>5, <1>6, <1>7, <1>8, <1>10, <1>11, <1>12, <1>13, <1>14, <1>15,
     <1>16 DEF HostStep

-----------------------------------------------------------------------------
(* Services: the steps of a command that stops the service.                *)

\* An entry is deleted only if the boot it names is out of play.
LEMMA StopperKeeps ==
  ASSUME ServicesInv, StopperStep
  PROVE  ServicesInv'
<1>1. ServicesTypeOK /\ UNCHANGED <<host, identity, service, launcher, mutex>>
  BY DEF ServicesInv, StopperStep, readsRegistry, requestServiceStop, sees, deletes,
         stopsAgain, ByStopper, HostVars
<1>2. stopFile \subseteq stopFile'
  BY DEF StopperStep, readsRegistry, requestServiceStop, sees, deletes, stopsAgain
<1>3. \A b : OutOfPlay(b) => OutOfPlay(b)'
  BY <1>1, <1>2 DEF OutOfPlay, Requested, WillSpawn
<1>4. LaunchersHold' /\ HostsHold'
  BY <1>1 DEF ServicesInv, LaunchersHold, HasMutex, HostsHold
<1>5. ASSUME entry' = entry PROVE EntryHolds'
  BY <1>1, <1>3, <1>5 DEF ServicesInv, EntryHolds
<1>6. CASE readsRegistry
  <2>1. ServicesTypeOK' /\ entry' = entry
    BY <1>1, <1>6 DEF readsRegistry, ServicesTypeOK
  <2>2. StopsHold'
    <3>1. entry.boot # Unowned =>
            /\ \E l \in Launcher : launcher[l].boot = entry.boot
            /\ entry.pid => host[entry.boot] # "NONE"
      BY <1>1 DEF ServicesInv, EntryHolds, ServicesTypeOK
    <3> QED BY <1>1, <1>3, <1>6, <3>1 DEF readsRegistry, ServicesInv, StopsHold
  <2> QED BY <1>4, <1>5, <2>1, <2>2 DEF ServicesInv
<1>7. CASE requestServiceStop
  <2>1. /\ stopper.at = "ASKS" /\ stopper'.at = "WAITS" /\ stopper'.boot = stopper.boot
        /\ stopper'.pid = stopper.pid /\ entry' = entry /\ stopped' = stopped
        /\ stopper' \in [at : {"IDLE", "ASKS", "WAITS", "DELETES", "DONE"},
                         boot : Intent \cup {Unowned}, pid : BOOLEAN]
        /\ stopFile' = stopFile \cup {stopper.boot}
    BY <1>1, <1>7 DEF requestServiceStop, ServicesTypeOK
  <2>2. stopper.boot # Unowned
    BY <2>1 DEF ServicesInv, StopsHold
  <2>3. ServicesTypeOK'
    BY <1>1, <2>1, <2>2 DEF ServicesTypeOK
  <2>4. StopsHold'
    BY <1>1, <1>3, <2>1 DEF ServicesInv, StopsHold, Requested
  <2> QED BY <1>4, <1>5, <2>1, <2>3, <2>4 DEF ServicesInv
<1>8. CASE sees
  <2>1. /\ stopper.at = "WAITS" /\ stopper'.boot = stopper.boot
        /\ stopper'.at \in {"DONE", "DELETES"}
        /\ stopper'.at = "DELETES" => ~serviceOwned(stopper.boot, stopper.pid)
        /\ stopper'.pid = stopper.pid /\ entry' = entry /\ stopped' = stopped
        /\ stopFile' = stopFile
        /\ stopper' \in [at : {"IDLE", "ASKS", "WAITS", "DELETES", "DONE"},
                         boot : Intent \cup {Unowned}, pid : BOOLEAN]
    BY <1>1, <1>8 DEF sees, ServicesTypeOK
  <2>2. /\ stopper.boot # Unowned /\ stopper.boot \in Intent /\ Requested(stopper.boot)
        /\ stopper.pid => host[stopper.boot] # "NONE"
    BY <1>1, <2>1 DEF ServicesInv, StopsHold, ServicesTypeOK
  <2>3. stopper'.at = "DELETES" => OutOfPlay(stopper.boot)
    <3>1. SUFFICES ASSUME ~serviceOwned(stopper.boot, stopper.pid)
                   PROVE  OutOfPlay(stopper.boot)
      BY <2>1
    <3>2. ~live(stopper.boot)
      BY <2>2, <3>1 DEF serviceOwned
    <3>3. CASE HostRuns(stopper.boot)
      <4>1. identity[stopper.boot] # "RUNNER"
        BY <3>2, <3>3 DEF live
      <4> QED BY <2>2, <3>3, <4>1 DEF ServicesInv, HostsHold, HostRuns, HostUp, OutOfPlay
    <3>4. CASE ~HostRuns(stopper.boot)
      <4>1. host[stopper.boot] \in {"NONE", "OVER"}
        BY <1>1, <2>2, <3>4 DEF ServicesTypeOK, HostRuns
      <4> QED BY <2>2, <4>1 DEF OutOfPlay
    <3> QED BY <3>3, <3>4
  <2>4. ServicesTypeOK'
    BY <1>1, <2>1 DEF ServicesTypeOK
  <2>5. StopsHold'
    BY <1>1, <1>3, <2>1, <2>2, <2>3 DEF ServicesInv, StopsHold, Requested
  <2> QED BY <1>4, <1>5, <2>1, <2>4, <2>5 DEF ServicesInv
<1>9. CASE deletes
  <2>1. /\ stopper.at = "DELETES" /\ stopper'.at = "DONE" /\ stopper'.boot = stopper.boot
        /\ mutex = Nobody
        /\ entry' = IF entry.boot = stopper.boot /\ entry.pid = stopper.pid
                    THEN NoEntry ELSE entry
        /\ stopped' = stopped \cup {stopper.boot} /\ stopFile' = stopFile
        /\ stopper' \in [at : {"IDLE", "ASKS", "WAITS", "DELETES", "DONE"},
                         boot : Intent \cup {Unowned}, pid : BOOLEAN]
    BY <1>1, <1>9 DEF deletes, ServicesTypeOK
  <2>2. /\ stopper.boot # Unowned /\ stopper.boot \in Intent /\ OutOfPlay(stopper.boot)
        /\ \E l \in Launcher : launcher[l].boot = stopper.boot
    BY <1>1, <2>1 DEF ServicesInv, StopsHold, ServicesTypeOK
  <2>3. ServicesTypeOK'
    BY <1>1, <2>1, <2>2 DEF ServicesTypeOK, NoEntry
  <2>4. StopsHold'
    BY <1>1, <1>3, <2>1, <2>2 DEF ServicesInv, StopsHold
  <2>5. EntryHolds'
    <3>1. CASE entry' = NoEntry /\ entry.boot = stopper.boot
      <4>1. \A l \in Launcher : mutex # l
        BY <2>1, ServicesAssumption
      <4>2. \A l \in Launcher : ~HasMutex(l)
        BY <4>1 DEF ServicesInv, LaunchersHold
      <4>3. \A b \in Intent : OutOfPlay(b)
        BY <2>2, <3>1 DEF ServicesInv, EntryHolds
      <4> QED BY <1>1, <1>3, <3>1, <4>2, <4>3 DEF EntryHolds, HasMutex, NoEntry
    <3> QED BY <1>5, <2>1, <3>1
  <2> QED BY <1>4, <2>3, <2>4, <2>5 DEF ServicesInv
<1>10. CASE stopsAgain
  <2>1. ServicesTypeOK' /\ entry' = entry
    BY <1>1, <1>10 DEF stopsAgain, ServicesTypeOK
  <2>2. StopsHold'
    BY <1>1, <1>3, <1>10 DEF stopsAgain, ServicesInv, StopsHold
  <2> QED BY <1>4, <1>5, <2>1, <2>2 DEF ServicesInv
<1> QED BY <1>6, <1>7, <1>8, <1>9, <1>10 DEF StopperStep

-----------------------------------------------------------------------------
(* Services: the theorems.                                                 *)

LEMMA ServicesStart == ServicesInit => ServicesInv
<1> SUFFICES ASSUME ServicesInit PROVE ServicesInv
  OBVIOUS
<1>1. ServicesTypeOK
  BY DEF ServicesInit, ServicesTypeOK, NoEntry
<1>2. LaunchersHold /\ HostsHold /\ StopsHold
  BY ServicesAssumption
     DEF ServicesInit, LaunchersHold, HostsHold, StopsHold, HasMutex, Unowned
<1>3. EntryHolds
  BY DEF ServicesInit, EntryHolds, OutOfPlay, WillSpawn, NoEntry
<1> QED BY <1>1, <1>2, <1>3 DEF ServicesInv

LEMMA ServicesStep == ServicesInv /\ [ServicesNext]_servicesVars => ServicesInv'
<1> SUFFICES ASSUME ServicesInv, [ServicesNext]_servicesVars PROVE ServicesInv'
  OBVIOUS
<1>1. CASE UNCHANGED servicesVars
  BY <1>1 DEF servicesVars, ServicesInv, ServicesTypeOK, LaunchersHold, EntryHolds, HostsHold,
              StopsHold, HasMutex, OutOfPlay, WillSpawn, Requested
<1>2. ASSUME NEW l \in Launcher, LauncherStep(l) PROVE ServicesInv'
  BY <1>2, OpensKeeps, AsksOwnedKeeps, AsksParentKeeps, DiscoversKeeps, ReservesKeeps,
     LooksForStopKeeps, SpawnsKeeps, RecordsKeeps, EndsKeeps DEF LauncherStep
<1> QED BY <1>1, <1>2, HostStepKeeps, StopperKeeps DEF ServicesNext

LEMMA ServicesInvHolds == ServicesSpec => []ServicesInv
BY ServicesStart, ServicesStep, PTL DEF ServicesSpec

\* A service that is supervised is the one the registry names.
LEMMA SupervisedIsEntered ==
  ASSUME ServicesInv
  PROVE  OneSupervised /\ ServiceIsRegistered
<1>1. ASSUME NEW b \in Intent, HostRuns(b), service[b] = "UP" PROVE entry.boot = b
  <2>1. host[b] \in {"RUN", "STOPPING"}
    BY <1>1 DEF ServicesInv, HostsHold, HostRuns, HostUp
  <2>2. ~OutOfPlay(b)
    BY <2>1 DEF OutOfPlay
  <2> QED BY <2>2 DEF ServicesInv, EntryHolds
<1> QED BY <1>1 DEF OneSupervised, ServiceIsRegistered

\* service-process.mjs and service-manager.mjs: when a stop has succeeded, no launch
\* that was under way and no host that could not be seen starts the service.
THEOREM StopsAreFinal == ServicesSpec => StopIsFinal
<1>1. ServicesInv /\ [ServicesNext]_servicesVars =>
        [\A b \in Intent : b \in stopped /\ service[b] # "UP" => service'[b] # "UP"]_servicesVars
  <2> SUFFICES ASSUME ServicesInv, ServicesNext, NEW b \in Intent, b \in stopped,
                      service[b] # "UP"
               PROVE  service'[b] # "UP"
    BY DEF servicesVars
  <2>1. OutOfPlay(b)
    BY DEF ServicesInv, StopsHold
  <2>2. host[b] # "SPAWN"
    BY <2>1 DEF OutOfPlay
  <2>3. service \in [Intent -> {"NONE", "UP", "ENDED"}]
    BY DEF ServicesInv, ServicesTypeOK
  <2>4. ASSUME NEW l \in Launcher, LauncherStep(l) PROVE service'[b] # "UP"
    BY <2>4 DEF LauncherStep, opens, asksOwned, asksParent, discovers, reserves, looksForStop,
                spawns, records, ends, HostVars
  <2>5. ASSUME NEW a \in Intent,
               HostStep(a) \/ serviceEnds(a) \/ hostDies(a) \/ guardianCloses(a)
        PROVE  service'[b] # "UP"
    BY <2>2, <2>3, <2>5
       DEF HostStep, claims, checks, contains, identifies, recordsRunner, checksAgain, serves,
           hearsStop, serviceEnds, hostDies, guardianCloses
  <2>6. ASSUME StopperStep PROVE service'[b] # "UP"
    BY <2>6 DEF StopperStep, readsRegistry, requestServiceStop, sees, deletes, stopsAgain,
                ByStopper, HostVars
  <2> QED BY <2>4, <2>5, <2>6 DEF ServicesNext
<1> QED BY <1>1, ServicesInvHolds, PTL DEF ServicesSpec, StopIsFinal

-----------------------------------------------------------------------------
(***************************************************************************)
(* The worker.  A step changes the process of one boot, and the invariant  *)
(* is about one process p, its queue of status writes q, the status file d *)
(* and the boots s that somebody has asked to stop.                        *)
(***************************************************************************)
Process == [alive : BOOLEAN, at : At, stop : Stopping, failed : BOOLEAN,
            poll : {"NO", "STOP", "FAIL", "SAY", "TOLD"}, children : SUBSET Child,
            agent : {"NONE", "UP", "DOWN"}, job : JobState, phase : WorkerPhase]
Entry == [by : {"start", "stop", "poll"}, text : WorkerPhase \cup {Unwritten}]

\* What a start has come to when its guardian has acknowledged.
ConfirmedAt == {"TELL", "CONFIGS", "ENGINE", "ENGINE_UP", "LINK", "LINK_UP", "AGENT", "AGENT_UP",
                 "RPC", "RPC_UP", "TELL_ROOT", "SERVING", "LATE"}

\* A start that does not have the lock yet has done nothing.
Begins(p, q) ==
  /\ p.at \in {"IDLE", "STALE", "RETAKE"} =>
       q = <<>> /\ p.children = {} /\ p.stop = "NO" /\ p.poll = "NO" /\ p.job = "NONE"
  /\ p.alive => p.at \notin {"IDLE", "OVER"}

\* Children are in a job that a guardian holds.
InItsJob(p) ==
  /\ p.children # {} => p.job \in {"HELD", "TOLD"}
  /\ p.alive /\ p.at \in ConfirmedAt => p.job = "TOLD"

\* The start and the stop each wait for one write at most, and only the write whose
\* turn it is has taken its text.
QueueHolds(p, q) ==
  /\ \A i \in 1..Len(q) : i > 1 => q[i].text = Unwritten
  /\ \A i, j \in 1..Len(q) : q[i].by = q[j].by /\ q[i].by # "poll" => i = j
  /\ \A i \in 1..Len(q) : /\ q[i].by = "start" => p.at \in {"TELL", "TELL_ROOT"}
                          /\ q[i].by = "stop" => p.stop \in {"SAY", "LAST"}

\* A stop that has gone past the children has none left; one that has gone past the
\* agent leaves none that the start would not still close.
StopHolds(p) ==
  /\ p.stop \in {"LAST", "ENDED"} => p.children = {}
  /\ p.stop \in {"CHILDREN", "LAST", "ENDED"} /\ p.agent = "UP" => p.at = "AGENT_UP"

AskedFor(b, p, s) == (p.stop # "NO" /\ ~p.failed) \/ p.poll = "STOP" => b \in s

\* The final status is published only by a stop, and replaced by no other.
StatusHolds(b, p, q, d) ==
  /\ p.phase \in Final => p.stop \in {"LAST", "ENDED"}
  /\ p.at # "OVER" /\ p.stop \notin {"LAST", "ENDED"} =>
       /\ \A i \in 1..Len(q) : q[i].text \notin Final
       /\ ~(d.boot = b /\ d.phase \in Final)
  /\ p.at = "SERVING" =>
       /\ \A i \in 1..Len(q) : q[i].text \in Final => q[i].text = p.phase
       /\ d.boot = b /\ d.phase \in Final =>
            d.phase = p.phase /\ \A i \in 1..Len(q) : q[i].text \in {Unwritten, p.phase}

BootHolds(b, p, q, d, s) ==
  /\ p \in Process /\ q \in Seq(Entry)
  /\ Begins(p, q) /\ InItsJob(p) /\ QueueHolds(p, q) /\ StopHolds(p) /\ AskedFor(b, p, s)
  /\ StatusHolds(b, p, q, d)

WorkerInv ==
  /\ wk \in [Boot -> Process] /\ writes \in [Boot -> Seq(Entry)]
  /\ {lock, asker, request} \subseteq Boot \cup {NoBoot}
  /\ asked \subseteq Boot
  /\ disk \in [boot : Boot \cup {NoBoot}, phase : WorkerPhase]
  /\ request # NoBoot => request \in asked
  /\ \A b \in Boot : BootHolds(b, wk[b], writes[b], disk, asked)

\* A step of boot b, which may publish its status, be asked to stop and take the lock.
Advances(b) ==
  /\ wk' \in [Boot -> Process] /\ writes' \in [Boot -> Seq(Entry)]
  /\ \A a \in Boot \ {b} : wk'[a] = wk[a] /\ writes'[a] = writes[a]
  /\ asked \subseteq asked' /\ asked' \subseteq Boot
  /\ {lock', asker', request'} \subseteq Boot \cup {NoBoot}
  /\ request' # NoBoot => request' \in asked'
  /\ disk' \in [boot : Boot \cup {NoBoot}, phase : WorkerPhase]
  /\ disk' = disk \/ disk'.boot = b
  /\ BootHolds(b, wk'[b], writes'[b], disk', asked')

-----------------------------------------------------------------------------
(* The worker: what a step leaves alone.                                   *)

LEMMA AdvanceKeeps ==
  ASSUME WorkerInv, NEW b \in Boot, Advances(b)
  PROVE  WorkerInv'
<1>1. ASSUME NEW a \in Boot PROVE BootHolds(a, wk'[a], writes'[a], disk', asked')
  <2>1. CASE a = b
    BY <2>1 DEF Advances
  <2>2. CASE a # b
    <3>1. /\ BootHolds(a, wk[a], writes[a], disk, asked)
          /\ wk'[a] = wk[a] /\ writes'[a] = writes[a] /\ asked \subseteq asked'
          /\ disk' = disk \/ disk'.boot # a
      BY <2>2 DEF WorkerInv, Advances
    <3>2. AskedFor(a, wk[a], asked) => AskedFor(a, wk'[a], asked')
      BY <3>1 DEF AskedFor
    <3>3. StatusHolds(a, wk[a], writes[a], disk) => StatusHolds(a, wk'[a], writes'[a], disk')
      BY <3>1 DEF StatusHolds
    <3> QED BY <3>1, <3>2, <3>3 DEF BootHolds
  <2> QED BY <2>1, <2>2
<1> QED BY <1>1 DEF WorkerInv, Advances, BootHolds, Begins, InItsJob, QueueHolds, StopHolds,
                    AskedFor, StatusHolds

\* Adding a write to the end of the queue.
LEMMA Queued ==
  ASSUME NEW q \in Seq(Entry), NEW e \in Entry
  PROVE  /\ Append(q, e) \in Seq(Entry) /\ Len(Append(q, e)) = Len(q) + 1
         /\ Append(q, e)[Len(q) + 1] = e
         /\ \A i \in 1..Len(q) : Append(q, e)[i] = q[i]
         /\ Len(q) \in Nat
OBVIOUS

\* A step gives boot b the process p and the queue q.
LEMMA Steps ==
  ASSUME WorkerInv, NEW b \in Boot, NEW p, NEW q,
         wk' = [wk EXCEPT ![b] = p], writes' = [writes EXCEPT ![b] = q],
         lock' \in Boot \cup {NoBoot}, UNCHANGED asker, request' \in {request, NoBoot},
         asked' = asked \/ asked' = asked \cup {b},
         disk' \in [boot : Boot \cup {NoBoot}, phase : WorkerPhase],
         disk' = disk \/ disk'.boot = b,
         BootHolds(b, p, q, disk', asked')
  PROVE  Advances(b)
<1>1. p \in Process /\ q \in Seq(Entry)
  BY DEF BootHolds
<1>2. /\ wk' \in [Boot -> Process] /\ writes' \in [Boot -> Seq(Entry)]
      /\ wk'[b] = p /\ writes'[b] = q
      /\ \A a \in Boot \ {b} : wk'[a] = wk[a] /\ writes'[a] = writes[a]
  BY <1>1 DEF WorkerInv
<1> QED BY <1>2 DEF Advances, WorkerInv

\* A step that leaves the queue and the status file alone.
LEMMA Moving ==
  ASSUME WorkerInv, NEW b \in Boot, NEW p,
         wk' = [wk EXCEPT ![b] = p], UNCHANGED <<asker, asked, disk, writes>>,
         lock' \in Boot \cup {NoBoot}, request' \in {request, NoBoot},
         BootHolds(b, p, writes[b], disk, asked)
  PROVE  Advances(b)
<1>1. writes' = [writes EXCEPT ![b] = writes[b]]
  BY DEF WorkerInv
<1>2. disk' \in [boot : Boot \cup {NoBoot}, phase : WorkerPhase]
  BY DEF WorkerInv
<1> QED BY <1>1, <1>2, Steps

\* A start that goes on: what it says of stops and of its status is as before.
LEMMA Onward ==
  ASSUME NEW b, NEW p \in Process, NEW n \in Process, NEW q, NEW d, NEW s,
         BootHolds(b, p, q, d, s), InItsJob(n), StopHolds(n),
         p.at \notin {"TELL", "TELL_ROOT", "OVER"},
         n.at \notin {"SERVING", "OVER"}, Begins(n, q),
         n.stop = p.stop, n.failed = p.failed, n.poll = p.poll, n.phase = p.phase
  PROVE  BootHolds(b, n, q, d, s)
<1>1. QueueHolds(n, q)
  BY DEF BootHolds, QueueHolds
<1>2. AskedFor(b, n, s)
  BY DEF BootHolds, AskedFor
<1>3. StatusHolds(b, n, q, d)
  BY DEF BootHolds, StatusHolds
<1> QED BY <1>1, <1>2, <1>3 DEF BootHolds

\* The same, when only the point it has come to changes.
LEMMA GoingOn ==
  ASSUME WorkerInv, NEW b \in Boot, UNCHANGED <<asker, asked, disk, writes>>,
         request' \in {request, NoBoot}, lock' \in Boot \cup {NoBoot},
         wk[b].at \notin {"TELL", "TELL_ROOT", "AGENT_UP", "OVER"},
         NEW to \in At \ {"IDLE", "STALE", "SERVING", "OVER"}, Goes(b, to),
         to = "RETAKE" => wk[b].at = "STALE",
         to \in ConfirmedAt => wk[b].at \in ConfirmedAt
  PROVE  Advances(b)
<1> DEFINE p == wk[b]
           n == [p EXCEPT !.at = to]
<1>1. p \in Process /\ BootHolds(b, p, writes[b], disk, asked)
  BY DEF WorkerInv
<1>2. /\ n \in Process /\ n.at = to /\ n.alive = p.alive /\ n.stop = p.stop
      /\ n.failed = p.failed /\ n.poll = p.poll /\ n.children = p.children
      /\ n.agent = p.agent /\ n.job = p.job /\ n.phase = p.phase
  BY <1>1 DEF Process
<1>3. wk' = [wk EXCEPT ![b] = n]
  BY DEF Goes
<1>4. /\ p.at \notin {"TELL", "TELL_ROOT", "AGENT_UP", "OVER"}
      /\ to \in ConfirmedAt => p.at \in ConfirmedAt
      /\ to = "RETAKE" => p.at = "STALE"
  OBVIOUS
<1> HIDE DEF n, p
<1>5. InItsJob(n) /\ StopHolds(n) /\ Begins(n, writes[b])
  BY <1>1, <1>2, <1>4 DEF BootHolds, InItsJob, StopHolds, Begins
<1>6. BootHolds(b, n, writes[b], disk, asked)
  BY <1>1, <1>2, <1>4, <1>5, Onward
<1> QED BY <1>3, <1>6, Moving

\* A process that has ended.
LEMMA OverHolds ==
  ASSUME WorkerInv, NEW b \in Boot, NEW n \in Process, UNCHANGED <<asker, request, asked, disk>>,
         lock' \in Boot \cup {NoBoot}, wk' = [wk EXCEPT ![b] = n],
         writes' = [writes EXCEPT ![b] = <<>>],
         n.at = "OVER", ~n.alive, n.stop = "NO", n.poll = "NO", n.agent = "NONE",
         n.phase = "STARTING", n.children # {} => n.job \in {"HELD", "TOLD"}
  PROVE  Advances(b)
<1>1. /\ Begins(n, <<>>) /\ InItsJob(n) /\ QueueHolds(n, <<>>) /\ StopHolds(n)
      /\ AskedFor(b, n, asked)
  BY DEF Begins, InItsJob, QueueHolds, StopHolds, AskedFor, ConfirmedAt
<1>2. StatusHolds(b, n, <<>>, disk)
  BY DEF StatusHolds, Final
<1>3. BootHolds(b, n, <<>>, disk, asked)
  BY <1>1, <1>2 DEF BootHolds
<1> QED BY <1>3, Steps DEF WorkerInv

LEMMA IsOver ==
  ASSUME NEW p \in Process
  PROVE  LET n == Over(p) IN
         /\ n \in Process /\ n.at = "OVER" /\ ~n.alive /\ n.stop = "NO" /\ ~n.failed
         /\ n.poll = "NO" /\ n.children = p.children /\ n.agent = "NONE"
         /\ n.job = p.job /\ n.phase = "STARTING"
BY DEF Process, Over, New, At, JobState, WorkerPhase, Stopping

LEMMA RefusedKeeps ==
  ASSUME WorkerInv, NEW b \in Boot, wk[b].at \in {"STALE", "RETAKE"}, Refused(b), OnlyLock,
         lock' \in Boot \cup {NoBoot}
  PROVE  Advances(b)
<1> DEFINE n == Over(wk[b])
<1>1. wk[b] \in Process /\ writes[b] = <<>> /\ wk[b].children = {}
  BY DEF WorkerInv, BootHolds, Begins
<1>2. wk' = [wk EXCEPT ![b] = n]
  BY DEF Refused
<1>3. writes' = [writes EXCEPT ![b] = <<>>]
  BY <1>1 DEF WorkerInv, OnlyLock
<1>4. /\ n \in Process /\ n.at = "OVER" /\ ~n.alive /\ n.stop = "NO" /\ n.poll = "NO"
      /\ n.agent = "NONE" /\ n.phase = "STARTING" /\ n.children = {}
  BY <1>1, IsOver
<1> HIDE DEF n
<1> QED BY <1>2, <1>3, <1>4, OverHolds DEF OnlyLock

LEMMA DiesKeeps == ASSUME WorkerInv, NEW b \in Boot, Dies(b) PROVE Advances(b)
<1> DEFINE n == Over(wk[b])
<1>1. wk[b] \in Process /\ (wk[b].children # {} => wk[b].job \in {"HELD", "TOLD"})
  BY DEF WorkerInv, BootHolds, InItsJob
<1>2. /\ n \in Process /\ n.at = "OVER" /\ ~n.alive /\ n.stop = "NO" /\ n.poll = "NO"
      /\ n.agent = "NONE" /\ n.phase = "STARTING" /\ n.children = wk[b].children
      /\ n.job = wk[b].job
  BY <1>1, IsOver
<1>3. wk' = [wk EXCEPT ![b] = n]
  BY DEF Dies
<1>4. lock' \in Boot \cup {NoBoot}
  BY DEF Dies, WorkerInv
<1> HIDE DEF n
<1> QED BY <1>1, <1>2, <1>3, <1>4, OverHolds DEF Dies

-----------------------------------------------------------------------------
(* The worker: the start.                                                  *)

LEMMA StartsKeep ==
  ASSUME WorkerInv, NEW b \in Boot,
         takeOver(b) \/ retake(b) \/ clears(b) \/ guardianLost(b) \/ probes(b)
  PROVE  Advances(b)
<1> USE DEF At, Starting, ConfirmedAt
<1>0. NoBoot \in Boot \cup {NoBoot} /\ lock \in Boot \cup {NoBoot} /\ b \in Boot \cup {NoBoot}
  BY DEF WorkerInv
<1>1. CASE takeOver(b)
  <2>1. CASE lock = NoBoot
    BY <1>0, <1>1, <2>1, RefusedKeeps DEF takeOver
  <2>2. CASE lock # NoBoot
    BY <1>0, <1>1, <2>2, GoingOn DEF takeOver, OnlyLock
  <2> QED BY <2>1, <2>2
<1>2. CASE retake(b)
  <2>1. CASE lock # NoBoot
    BY <1>0, <1>2, <2>1, RefusedKeeps DEF retake
  <2>2. CASE lock = NoBoot
    BY <1>0, <1>2, <2>2, GoingOn DEF retake, OnlyLock
  <2> QED BY <2>1, <2>2
<1>3. CASE clears(b)
  BY <1>0, <1>3, GoingOn DEF clears, Cleared
<1>4. CASE guardianLost(b)
  BY <1>0, <1>4, GoingOn DEF guardianLost, OnlyWk
<1>5. CASE probes(b)
  <2>1. wk[b].at \in {"ENGINE", "LINK", "RPC"}
    BY <1>5 DEF probes, Awaits
  <2>2. Answered[wk[b].at] \in {"ENGINE_UP", "LINK_UP", "RPC_UP"}
    BY <2>1 DEF Answered
  <2>3. Goes(b, "THREW") \/ Goes(b, Answered[wk[b].at])
    BY <1>5 DEF probes
  <2> HIDE DEF Answered
  <2>4. CASE Goes(b, "THREW")
    BY <1>0, <1>5, <2>1, <2>4, GoingOn DEF probes, OnlyWk
  <2>5. CASE Goes(b, Answered[wk[b].at])
    <3>1. PICK to \in {"ENGINE_UP", "LINK_UP", "RPC_UP"} : Goes(b, to)
      BY <2>2, <2>5
    <3> QED BY <1>0, <1>5, <2>1, <3>1, GoingOn DEF probes, OnlyWk
  <2> QED BY <2>3, <2>4, <2>5
<1> QED BY <1>1, <1>2, <1>3, <1>4, <1>5

\* A write that is added to the queue.
LEMMA Queueing ==
  ASSUME NEW b, NEW n \in Process, NEW q \in Seq(Entry), NEW d,
         NEW by \in {"start", "stop", "poll"},
         QueueHolds(n, q), StatusHolds(b, n, q, d),
         by # "poll" => \A i \in 1..Len(q) : q[i].by # by,
         by = "start" => n.at \in {"TELL", "TELL_ROOT"},
         by = "stop" => n.stop \in {"SAY", "LAST"}
  PROVE  LET r == Append(q, [by |-> by, text |-> Unwritten])
         IN  r \in Seq(Entry) /\ QueueHolds(n, r) /\ StatusHolds(b, n, r, d)
<1> DEFINE e == [by |-> by, text |-> Unwritten]
           r == Append(q, e)
<1>1. e \in Entry /\ e.by = by /\ e.text = Unwritten
  BY DEF Entry
<1> HIDE DEF e
<1>2. /\ r \in Seq(Entry) /\ Len(r) = Len(q) + 1 /\ Len(q) \in Nat
      /\ r[Len(q) + 1] = e /\ \A i \in 1..Len(q) : r[i] = q[i]
  BY <1>1, Queued
<1> HIDE DEF r
<1>3. \A i \in 1..Len(r) : i \in 1..Len(q) \/ i = Len(q) + 1
  BY <1>2
<1>4. QueueHolds(n, r)
  <2>1. \A i \in 1..Len(r) : i > 1 => r[i].text = Unwritten
    BY <1>1, <1>2, <1>3 DEF QueueHolds
  <2>2. \A i, j \in 1..Len(r) : r[i].by = r[j].by /\ r[i].by # "poll" => i = j
    BY <1>1, <1>2, <1>3 DEF QueueHolds
  <2>3. \A i \in 1..Len(r) : /\ r[i].by = "start" => n.at \in {"TELL", "TELL_ROOT"}
                             /\ r[i].by = "stop" => n.stop \in {"SAY", "LAST"}
    BY <1>1, <1>2, <1>3 DEF QueueHolds
  <2> QED BY <2>1, <2>2, <2>3 DEF QueueHolds
<1>5. StatusHolds(b, n, r, d)
  <2>1. Unwritten \notin Final
    BY DEF Unwritten, Final
  <2> QED BY <1>1, <1>2, <1>3, <2>1 DEF StatusHolds
<1> QED BY <1>2, <1>4, <1>5 DEF r, e

\* What a stop does at once.
LEMMA StopKeeps ==
  ASSUME WorkerInv, NEW b \in Boot, NEW p \in Process, NEW failed \in BOOLEAN,
         StopFrom(b, p, failed), UNCHANGED <<lock, asker, request, disk>>,
         asked' = asked \/ asked' = asked \cup {b},
         p.alive = wk[b].alive, p.at = wk[b].at, p.stop = wk[b].stop,
         p.failed = wk[b].failed, p.phase = wk[b].phase,
         p.at \notin {"IDLE", "STALE", "RETAKE", "OVER"},
         InItsJob(p), StopHolds(p), AskedFor(b, p, asked'), ~failed => b \in asked'
  PROVE  Advances(b)
<1> DEFINE q == writes[b]
<1>1. /\ q \in Seq(Entry) /\ BootHolds(b, wk[b], q, disk, asked)
      /\ lock' \in Boot \cup {NoBoot} /\ request' \in {request, NoBoot}
      /\ disk' \in [boot : Boot \cup {NoBoot}, phase : WorkerPhase] /\ disk' = disk
  BY DEF WorkerInv
<1>2. Begins(p, q) /\ QueueHolds(p, q) /\ StatusHolds(b, p, q, disk)
  BY <1>1 DEF BootHolds, Begins, QueueHolds, StatusHolds
<1>3. CASE stopping(b)
  <2>1. wk' = [wk EXCEPT ![b] = p] /\ writes' = [writes EXCEPT ![b] = q]
    BY <1>3 DEF StopFrom, WorkerInv
  <2>2. BootHolds(b, p, q, disk', asked')
    BY <1>1, <1>2 DEF BootHolds
  <2> QED BY <1>1, <2>1, <2>2, Steps
<1>4. CASE ~stopping(b)
  <2> DEFINE n == [p EXCEPT !.stop = "SAY", !.failed = failed, !.phase = "STOPPING"]
             r == Append(q, [by |-> "stop", text |-> Unwritten])
  <2>1. wk' = [wk EXCEPT ![b] = n] /\ writes' = [writes EXCEPT ![b] = r]
    BY <1>4 DEF StopFrom, QueuesWrite
  <2>2. /\ n \in Process /\ n.alive = p.alive /\ n.at = p.at /\ n.stop = "SAY"
        /\ n.failed = failed /\ n.poll = p.poll /\ n.children = p.children
        /\ n.agent = p.agent /\ n.job = p.job /\ n.phase = "STOPPING"
    BY DEF Process, Stopping, WorkerPhase
  <2>3. p.stop = "NO" /\ \A i \in 1..Len(q) : q[i].by # "stop"
    BY <1>2, <1>4 DEF stopping, QueueHolds
  <2> HIDE DEF n, r
  <2>4. InItsJob(n) /\ StopHolds(n) /\ Begins(n, r) /\ AskedFor(b, n, asked')
    <3>1. Begins(n, r)
      BY <1>2, <2>2 DEF Begins
    <3> QED BY <2>2, <2>3, <3>1 DEF InItsJob, StopHolds, AskedFor
  <2>5. QueueHolds(n, q) /\ StatusHolds(b, n, q, disk)
    BY <1>2, <2>2, <2>3 DEF QueueHolds, StatusHolds, Final
  <2>6. r \in Seq(Entry) /\ QueueHolds(n, r) /\ StatusHolds(b, n, r, disk)
    BY <1>1, <2>2, <2>3, <2>5, Queueing DEF r
  <2>7. BootHolds(b, n, r, disk', asked')
    BY <1>1, <2>2, <2>4, <2>6 DEF BootHolds
  <2> QED BY <1>1, <2>1, <2>7, Steps
<1> QED BY <1>3, <1>4

\* The guardian: what it does to the process that it holds.
LEMMA GuardianKeeps ==
  ASSUME WorkerInv, NEW b \in Boot,
         checksPorts(b) \/ assigns(b) \/ acknowledges(b) \/ guardianEnds(b)
  PROVE  Advances(b)
<1> DEFINE p == wk[b]
<1>1. /\ p \in Process /\ BootHolds(b, p, writes[b], disk, asked) /\ writes[b] \in Seq(Entry)
      /\ lock \in Boot \cup {NoBoot}
  BY DEF WorkerInv
<1>2. ASSUME NEW n \in Process, wk' = [wk EXCEPT ![b] = n], OnlyWk, InItsJob(n),
             Begins(n, writes[b]), n.at \notin {"SERVING", "OVER"} \/ n.at = p.at,
             n.at = p.at \/ p.at = "PORTS",
             n.stop = p.stop, n.failed = p.failed, n.poll = p.poll, n.children = p.children,
             n.agent = p.agent, n.phase = p.phase
      PROVE  Advances(b)
  <2>1. QueueHolds(n, writes[b]) /\ StopHolds(n) /\ AskedFor(b, n, asked)
    BY <1>1, <1>2 DEF BootHolds, QueueHolds, StopHolds, AskedFor
  <2>2. StatusHolds(b, n, writes[b], disk)
    BY <1>1, <1>2 DEF BootHolds, StatusHolds
  <2>3. BootHolds(b, n, writes[b], disk, asked)
    BY <1>1, <1>2, <2>1, <2>2 DEF BootHolds
  <2> QED BY <1>1, <1>2, <2>3, Moving DEF OnlyWk
<1>3. CASE checksPorts(b)
  <2>1. CASE Goes(b, "THREW")
    BY <1>1, <1>3, <2>1, GoingOn DEF checksPorts, OnlyWk, At, Starting, ConfirmedAt
  <2>2. CASE ~Goes(b, "THREW")
    <3> DEFINE n == [p EXCEPT !.at = "ACK", !.job = "FENCED"]
    <3>1. wk' = [wk EXCEPT ![b] = n] /\ p.children = {} /\ p.at = "PORTS" /\ OnlyWk
      BY <1>3, <2>2 DEF checksPorts
    <3>2. /\ n \in Process /\ n.alive = p.alive /\ n.at = "ACK" /\ n.stop = p.stop
          /\ n.failed = p.failed /\ n.poll = p.poll /\ n.children = p.children
          /\ n.agent = p.agent /\ n.job = "FENCED" /\ n.phase = p.phase
      BY <1>1 DEF Process, JobState, At, Starting
    <3> HIDE DEF n
    <3>3. InItsJob(n) /\ Begins(n, writes[b])
      BY <3>1, <3>2 DEF InItsJob, Begins, ConfirmedAt
    <3> QED BY <1>2, <3>1, <3>2, <3>3
  <2> QED BY <2>1, <2>2
<1>4. CASE assigns(b) \/ acknowledges(b)
  <2>1. PICK to \in {"HELD", "TOLD"} :
          wk' = [wk EXCEPT ![b] = [p EXCEPT !.job = to]] /\ p.job \in {"FENCED", "HELD"} /\ OnlyWk
    <3>1. CASE assigns(b)
      BY <3>1 DEF assigns
    <3>2. CASE acknowledges(b)
      BY <3>2 DEF acknowledges
    <3> QED BY <1>4, <3>1, <3>2
  <2> DEFINE n == [p EXCEPT !.job = to]
  <2>2. wk' = [wk EXCEPT ![b] = n] /\ OnlyWk
    BY <2>1
  <2>3. /\ n \in Process /\ n.alive = p.alive /\ n.at = p.at /\ n.stop = p.stop
        /\ n.failed = p.failed /\ n.poll = p.poll /\ n.children = p.children
        /\ n.agent = p.agent /\ n.job = to /\ n.phase = p.phase
    BY <1>1 DEF Process, JobState
  <2>4. p.job \in {"FENCED", "HELD"}
    BY <2>1
  <2> HIDE DEF n
  <2>5. InItsJob(n) /\ Begins(n, writes[b])
    BY <1>1, <2>3, <2>4 DEF BootHolds, InItsJob, Begins
  <2> QED BY <1>2, <2>2, <2>3, <2>5
<1>5. CASE guardianEnds(b)
  <2>1. CASE p.job = "FENCED"
    <3> DEFINE n == [p EXCEPT !.job = "GONE"]
    <3>1. wk' = [wk EXCEPT ![b] = n] /\ writes' = [writes EXCEPT ![b] = writes[b]]
      BY <1>5, <2>1 DEF guardianEnds
    <3>2. OnlyWk
      BY <1>5, <3>1 DEF guardianEnds, OnlyWk, WorkerInv
    <3>3. /\ n \in Process /\ n.alive = p.alive /\ n.at = p.at /\ n.stop = p.stop
          /\ n.failed = p.failed /\ n.poll = p.poll /\ n.children = p.children
          /\ n.agent = p.agent /\ n.job = "GONE" /\ n.phase = p.phase
      BY <1>1 DEF Process, JobState
    <3> HIDE DEF n
    <3>4. InItsJob(n) /\ Begins(n, writes[b])
      BY <1>1, <2>1, <3>3 DEF BootHolds, InItsJob, Begins
    <3> QED BY <1>2, <3>1, <3>2, <3>3, <3>4
  <2>2. CASE p.job # "FENCED"
    <3> DEFINE m == [[p EXCEPT !.job = "GONE"] EXCEPT !.children = @ \ InJob(b)]
               n == Over(m)
    <3>1. wk' = [wk EXCEPT ![b] = n] /\ writes' = [writes EXCEPT ![b] = <<>>]
      BY <1>5, <2>2 DEF guardianEnds
    <3>2. m \in Process /\ m.children = {}
      BY <1>1 DEF Process, JobState, InJob
    <3> HIDE DEF m
    <3>3. /\ n \in Process /\ n.at = "OVER" /\ ~n.alive /\ n.stop = "NO" /\ n.poll = "NO"
          /\ n.agent = "NONE" /\ n.phase = "STARTING" /\ n.children = {}
      BY <3>2, IsOver
    <3> HIDE DEF n
    <3>4. UNCHANGED <<lock, asker, request, asked, disk>>
      BY <1>5 DEF guardianEnds
    <3> QED BY <1>1, <3>1, <3>3, <3>4, OverHolds
  <2> QED BY <2>1, <2>2
<1> QED BY <1>3, <1>4, <1>5

LEMMA ContainedKeeps == ASSUME WorkerInv, NEW b \in Boot, contained(b) PROVE Advances(b)
<1> DEFINE p == wk[b]
           n == [p EXCEPT !.at = "TELL"]
           q == writes[b]
           r == Append(q, [by |-> "start", text |-> Unwritten])
<1>1. /\ p \in Process /\ BootHolds(b, p, q, disk, asked) /\ q \in Seq(Entry)
      /\ lock' \in Boot \cup {NoBoot} /\ request' \in {request, NoBoot}
      /\ UNCHANGED <<asker, asked>>
      /\ disk' \in [boot : Boot \cup {NoBoot}, phase : WorkerPhase] /\ disk' = disk
  BY DEF WorkerInv, contained
<1>2. /\ wk' = [wk EXCEPT ![b] = n] /\ writes' = [writes EXCEPT ![b] = r]
      /\ p.alive /\ p.at = "ACK" /\ p.job = "TOLD"
  BY DEF contained, Goes, QueuesWrite, Living, Contained
<1>3. /\ n \in Process /\ n.alive = p.alive /\ n.at = "TELL" /\ n.stop = p.stop
      /\ n.failed = p.failed /\ n.poll = p.poll /\ n.children = p.children
      /\ n.agent = p.agent /\ n.job = p.job /\ n.phase = p.phase
  BY <1>1 DEF Process, At, Starting
<1> HIDE DEF n, r, p
<1>4. Begins(n, r) /\ InItsJob(n) /\ StopHolds(n) /\ AskedFor(b, n, asked)
  BY <1>1, <1>2, <1>3 DEF BootHolds, Begins, InItsJob, StopHolds, AskedFor
<1>5. QueueHolds(n, q) /\ StatusHolds(b, n, q, disk) /\ \A i \in 1..Len(q) : q[i].by # "start"
  BY <1>1, <1>2, <1>3 DEF BootHolds, QueueHolds, StatusHolds
<1>6. r \in Seq(Entry) /\ QueueHolds(n, r) /\ StatusHolds(b, n, r, disk)
  BY <1>1, <1>3, <1>5, Queueing DEF r
<1>7. BootHolds(b, n, r, disk', asked')
  BY <1>1, <1>3, <1>4, <1>6 DEF BootHolds
<1> QED BY <1>1, <1>2, <1>7, Steps

\* A child is launched by a start that no stop has overtaken; otherwise the start fails.
LEMMA LaunchKeeps ==
  ASSUME WorkerInv, NEW b \in Boot, NEW m \in Process, NEW c \in Child,
         NEW to \in {"ENGINE", "LINK", "RPC"}, Launch(b, m, c, to), OnlyWk, m.alive,
         m.alive = wk[b].alive, m.at = wk[b].at, m.stop = wk[b].stop, m.failed = wk[b].failed,
         m.poll = wk[b].poll, m.children = wk[b].children, m.job = wk[b].job,
         m.phase = wk[b].phase, m.at \in {"CONFIGS", "ENGINE_UP", "AGENT_UP"},
         stopping(b) => m.stop = "SAY" \/ m.stop = "AGENT" \/ m.agent # "UP"
  PROVE  Advances(b)
<1> DEFINE p == wk[b]
<1>1. /\ p \in Process /\ BootHolds(b, p, writes[b], disk, asked)
      /\ lock' \in Boot \cup {NoBoot} /\ request' \in {request, NoBoot}
      /\ UNCHANGED <<asker, asked, disk, writes>>
  BY DEF WorkerInv, OnlyWk
<1>2. m.job = "TOLD" /\ p.at \in {"CONFIGS", "ENGINE_UP", "AGENT_UP"}
  BY <1>1 DEF BootHolds, InItsJob, ConfirmedAt
<1>3. PICK n \in Process :
        /\ wk' = [wk EXCEPT ![b] = n]
        /\ n.alive = m.alive /\ n.stop = m.stop /\ n.failed = m.failed /\ n.poll = m.poll
        /\ n.agent = m.agent /\ n.job = m.job /\ n.phase = m.phase
        /\ n.at \in {"THREW", "ENGINE", "LINK", "RPC"}
        /\ n.stop = "NO" \/ (n.children = m.children /\ stopping(b))
  <2>1. CASE stopping(b)
    <3> DEFINE n == [m EXCEPT !.at = "THREW"]
    <3>1. n \in Process /\ wk' = [wk EXCEPT ![b] = n]
      BY <2>1 DEF Launch, MayLaunch, Process, At
    <3>2. /\ n.alive = m.alive /\ n.stop = m.stop /\ n.failed = m.failed /\ n.poll = m.poll
          /\ n.agent = m.agent /\ n.job = m.job /\ n.phase = m.phase
          /\ n.at = "THREW" /\ n.children = m.children
      BY DEF Process
    <3> QED BY <2>1, <3>1, <3>2
  <2>2. CASE ~stopping(b)
    <3> DEFINE n == [m EXCEPT !.children = @ \cup {c}, !.at = to]
    <3>1. n \in Process /\ wk' = [wk EXCEPT ![b] = n]
      BY <2>2 DEF Launch, MayLaunch, Process, At, Starting
    <3>2. /\ n.alive = m.alive /\ n.stop = m.stop /\ n.failed = m.failed /\ n.poll = m.poll
          /\ n.agent = m.agent /\ n.job = m.job /\ n.phase = m.phase /\ n.at = to
      BY DEF Process
    <3>3. n.stop = "NO"
      BY <2>2, <3>2 DEF stopping
    <3> QED BY <3>1, <3>2, <3>3
  <2> QED BY <2>1, <2>2
<1> HIDE DEF p
<1>4. InItsJob(n) /\ Begins(n, writes[b])
  BY <1>2, <1>3 DEF InItsJob, Begins
<1>5. StopHolds(n)
  BY <1>1, <1>3 DEF BootHolds, StopHolds, p
<1>6. BootHolds(b, n, writes[b], disk, asked)
  <2>1. /\ n.stop = p.stop /\ n.failed = p.failed /\ n.poll = p.poll /\ n.phase = p.phase
    BY <1>3 DEF p
  <2> QED BY <1>1, <1>2, <1>3, <1>4, <1>5, <2>1, Onward
<1> QED BY <1>1, <1>3, <1>6, Moving

LEMMA ChildrenStartKeeps ==
  ASSUME WorkerInv, NEW b \in Boot, launches(b) \/ createsAgent(b) \/ agentCreated(b)
  PROVE  Advances(b)
<1> DEFINE p == wk[b]
<1>1. /\ p \in Process /\ BootHolds(b, p, writes[b], disk, asked)
      /\ lock' \in Boot \cup {NoBoot} /\ request' \in {request, NoBoot}
      /\ UNCHANGED <<asker, asked, disk, writes>> /\ p.alive /\ OnlyWk
  BY DEF WorkerInv, OnlyWk, launches, createsAgent, agentCreated, Living
<1>2. CASE launches(b)
  <2>1. p.at \in {"CONFIGS", "ENGINE_UP"}
    BY <1>2 DEF launches
  <2>2. stopping(b) => p.stop = "SAY" \/ p.stop = "AGENT" \/ p.agent # "UP"
    BY <1>1, <2>1 DEF BootHolds, StopHolds, stopping, Process, Stopping
  <2>3. PICK c \in Child, to \in {"ENGINE", "LINK", "RPC"} : Launch(b, p, c, to)
    BY <1>2 DEF launches, Child
  <2> QED BY <1>1, <2>1, <2>2, <2>3, LaunchKeeps
<1>3. CASE agentCreated(b)
  <2> DEFINE m == Late(b)
  <2>1. /\ m \in Process /\ m.alive = p.alive /\ m.at = p.at /\ m.stop = p.stop
        /\ m.failed = p.failed /\ m.poll = p.poll /\ m.children = p.children
        /\ m.job = p.job /\ m.phase = p.phase /\ (stopping(b) => m.agent # "UP")
    BY <1>1 DEF Process, Late
  <2>2. Launch(b, m, "rpc_link", "RPC") /\ p.at = "AGENT_UP" /\ "rpc_link" \in Child
    BY <1>3 DEF agentCreated, Child
  <2> HIDE DEF m
  <2> QED BY <1>1, <2>1, <2>2, LaunchKeeps
<1>4. CASE createsAgent(b)
  <2>1. CASE Goes(b, "AGENT") \/ Goes(b, "THREW")
    <3>1. PICK to \in {"AGENT", "THREW"} : Goes(b, to)
      BY <2>1
    <3>2. p.at \in {"LINK_UP", "AGENT"}
      BY <1>4 DEF createsAgent
    <3> QED BY <1>1, <3>1, <3>2, GoingOn DEF At, Starting, ConfirmedAt
  <2>2. CASE ~(Goes(b, "AGENT") \/ Goes(b, "THREW"))
    <3> DEFINE n == [p EXCEPT !.at = "AGENT_UP", !.agent = "UP"]
    <3>1. p.at = "AGENT" /\ wk' = [wk EXCEPT ![b] = n]
      BY <1>4, <2>2 DEF createsAgent
    <3>2. /\ n \in Process /\ n.alive = p.alive /\ n.at = "AGENT_UP" /\ n.stop = p.stop
          /\ n.failed = p.failed /\ n.poll = p.poll /\ n.children = p.children
          /\ n.agent = "UP" /\ n.job = p.job /\ n.phase = p.phase
      BY <1>1 DEF Process, At, Starting
    <3> HIDE DEF n, p
    <3>3. InItsJob(n) /\ StopHolds(n) /\ Begins(n, writes[b])
      BY <1>1, <3>1, <3>2 DEF BootHolds, InItsJob, StopHolds, Begins, ConfirmedAt
    <3>4. BootHolds(b, n, writes[b], disk, asked)
      BY <1>1, <3>1, <3>2, <3>3, Onward
    <3> QED BY <1>1, <3>1, <3>4, Moving
  <2> QED BY <2>1, <2>2
<1> QED BY <1>2, <1>3, <1>4

LEMMA TellsRootKeeps == ASSUME WorkerInv, NEW b \in Boot, tellsRoot(b) PROVE Advances(b)
<1> DEFINE p == wk[b]
           n == [p EXCEPT !.at = "TELL_ROOT", !.phase = "WAITING_ROOT"]
           q == writes[b]
           r == Append(q, [by |-> "start", text |-> Unwritten])
<1>1. /\ p \in Process /\ BootHolds(b, p, q, disk, asked) /\ q \in Seq(Entry)
      /\ lock' \in Boot \cup {NoBoot} /\ request' \in {request, NoBoot}
      /\ UNCHANGED <<asker, asked>>
      /\ disk' \in [boot : Boot \cup {NoBoot}, phase : WorkerPhase] /\ disk' = disk
  BY DEF WorkerInv, tellsRoot
<1>2. /\ wk' = [wk EXCEPT ![b] = n] /\ writes' = [writes EXCEPT ![b] = r]
      /\ p.alive /\ p.at = "RPC_UP"
  BY DEF tellsRoot, QueuesWrite, Living
<1>3. /\ n \in Process /\ n.alive = p.alive /\ n.at = "TELL_ROOT" /\ n.stop = p.stop
      /\ n.failed = p.failed /\ n.poll = p.poll /\ n.children = p.children
      /\ n.agent = p.agent /\ n.job = p.job /\ n.phase = "WAITING_ROOT"
  BY <1>1 DEF Process, At, Starting, WorkerPhase
<1> HIDE DEF n, r, p
<1>4. Begins(n, r) /\ InItsJob(n) /\ StopHolds(n) /\ AskedFor(b, n, asked)
  BY <1>1, <1>2, <1>3 DEF BootHolds, Begins, InItsJob, StopHolds, AskedFor, ConfirmedAt
<1>5. QueueHolds(n, q) /\ StatusHolds(b, n, q, disk) /\ \A i \in 1..Len(q) : q[i].by # "start"
  BY <1>1, <1>2, <1>3 DEF BootHolds, QueueHolds, StatusHolds, Final
<1>6. r \in Seq(Entry) /\ QueueHolds(n, r) /\ StatusHolds(b, n, r, disk)
  BY <1>1, <1>3, <1>5, Queueing DEF r
<1>7. BootHolds(b, n, r, disk', asked')
  BY <1>1, <1>3, <1>4, <1>6 DEF BootHolds
<1> QED BY <1>1, <1>2, <1>7, Steps

-----------------------------------------------------------------------------
(* The worker: what asks for a stop, and the periodic observation.         *)

LEMMA StoppedKeeps ==
  ASSUME WorkerInv, NEW b \in Boot,
         catches(b) \/ pollStops(b) \/ interrupted(b) \/ \E c \in Child : childEnds(b, c)
  PROVE  Advances(b)
<1> DEFINE p == wk[b]
<1>1. /\ p \in Process /\ BootHolds(b, p, writes[b], disk, asked) /\ p.alive
      /\ InItsJob(p) /\ StopHolds(p) /\ AskedFor(b, p, asked)
      /\ p.at \notin {"IDLE", "OVER"}
  BY DEF WorkerInv, BootHolds, Begins, catches, pollStops, interrupted, childEnds, Living
<1>2. CASE catches(b)
  <2>1. /\ p.at = "THREW" /\ StopFrom(b, p, TRUE) /\ asked' = asked
        /\ UNCHANGED <<lock, asker, request, disk>>
    BY <1>2 DEF catches
  <2> QED BY <1>1, <2>1, StopKeeps
<1>3. CASE interrupted(b)
  <2>1. /\ p.at = "SERVING" /\ StopFrom(b, p, FALSE) /\ asked' = asked \cup {b}
        /\ UNCHANGED <<lock, asker, request, disk>>
    BY <1>3 DEF interrupted
  <2>2. AskedFor(b, p, asked')
    BY <2>1 DEF AskedFor
  <2> QED BY <1>1, <2>1, <2>2, StopKeeps
<1>4. CASE pollStops(b)
  <2> DEFINE n == [p EXCEPT !.poll = "NO"]
  <2>1. /\ n \in Process /\ n.alive = p.alive /\ n.at = p.at /\ n.stop = p.stop
        /\ n.failed = p.failed /\ n.poll = "NO" /\ n.children = p.children
        /\ n.agent = p.agent /\ n.job = p.job /\ n.phase = p.phase
    BY <1>1 DEF Process
  <2>2. PICK failed \in BOOLEAN : StopFrom(b, n, failed) /\ (~failed => p.poll = "STOP")
    BY <1>4 DEF pollStops
  <2>3. /\ p.poll \in {"STOP", "FAIL"} /\ asked' = asked
        /\ UNCHANGED <<lock, asker, request, disk>>
    BY <1>4 DEF pollStops
  <2> HIDE DEF n
  <2>4. InItsJob(n) /\ StopHolds(n) /\ AskedFor(b, n, asked') /\ (~failed => b \in asked')
    BY <1>1, <2>1, <2>2, <2>3 DEF InItsJob, StopHolds, AskedFor
  <2>5. p.at \notin {"STALE", "RETAKE"}
    BY <1>1, <2>3 DEF BootHolds, Begins
  <2> QED BY <1>1, <2>1, <2>2, <2>3, <2>4, <2>5, StopKeeps
<1>5. ASSUME NEW c \in Child, childEnds(b, c) PROVE Advances(b)
  <2> DEFINE n == [p EXCEPT !.children = @ \ {c}]
  <2>1. /\ n \in Process /\ n.alive = p.alive /\ n.at = p.at /\ n.stop = p.stop
        /\ n.failed = p.failed /\ n.poll = p.poll /\ n.children = p.children \ {c}
        /\ n.agent = p.agent /\ n.job = p.job /\ n.phase = p.phase
    BY <1>1 DEF Process
  <2>2. /\ StopFrom(b, n, TRUE) /\ c \in p.children /\ asked' = asked
        /\ UNCHANGED <<lock, asker, request, disk>>
    BY <1>5 DEF childEnds
  <2> HIDE DEF n
  <2>3. InItsJob(n) /\ StopHolds(n) /\ AskedFor(b, n, asked')
    BY <1>1, <2>1, <2>2 DEF InItsJob, StopHolds, AskedFor
  <2>4. p.at \notin {"STALE", "RETAKE"}
    BY <1>1, <2>2 DEF BootHolds, Begins
  <2> QED BY <1>1, <2>1, <2>2, <2>3, <2>4, StopKeeps
<1> QED BY <1>2, <1>3, <1>4, <1>5

LEMMA PollKeeps == ASSUME WorkerInv, NEW b \in Boot, pollReads(b) \/ pollSays(b) PROVE Advances(b)
<1> DEFINE p == wk[b]
           q == writes[b]
<1>1. /\ p \in Process /\ BootHolds(b, p, q, disk, asked) /\ q \in Seq(Entry) /\ p.alive
      /\ lock' \in Boot \cup {NoBoot} /\ request' \in {request, NoBoot}
      /\ UNCHANGED <<asker, asked>>
      /\ disk' \in [boot : Boot \cup {NoBoot}, phase : WorkerPhase] /\ disk' = disk
  BY DEF WorkerInv, pollReads, pollSays, OnlyWk, Living
<1>2. ASSUME NEW to \in {"NO", "STOP", "SAY"}, wk' = [wk EXCEPT ![b].poll = to],
             writes' = writes, to = "STOP" => b \in asked, to # "NO" => p.at = "SERVING"
      PROVE  Advances(b)
  <2> DEFINE n == [p EXCEPT !.poll = to]
  <2>1. wk' = [wk EXCEPT ![b] = n]
    BY <1>2
  <2>2. /\ n \in Process /\ n.alive = p.alive /\ n.at = p.at /\ n.stop = p.stop
        /\ n.failed = p.failed /\ n.poll = to /\ n.children = p.children
        /\ n.agent = p.agent /\ n.job = p.job /\ n.phase = p.phase
    BY <1>1 DEF Process
  <2> HIDE DEF n
  <2>3. /\ Begins(n, q) /\ InItsJob(n) /\ QueueHolds(n, q) /\ StopHolds(n)
        /\ AskedFor(b, n, asked)
    BY <1>1, <1>2, <2>2
       DEF BootHolds, Begins, InItsJob, QueueHolds, StopHolds, AskedFor
  <2>4. StatusHolds(b, n, q, disk)
    BY <1>1, <2>2 DEF BootHolds, StatusHolds
  <2>5. BootHolds(b, n, q, disk, asked)
    BY <1>1, <2>2, <2>3, <2>4 DEF BootHolds
  <2> QED BY <1>1, <1>2, <2>1, <2>5, Moving
<1>3. CASE pollReads(b)
  <2>1. PICK to \in {"STOP", "SAY"} :
          wk' = [wk EXCEPT ![b].poll = to] /\ (to = "STOP" => request = b)
    BY <1>3 DEF pollReads, ForMe
  <2>2. b # NoBoot
    BY DEF Boot, NoBoot
  <2>3. to = "STOP" => b \in asked
    BY <2>1, <2>2 DEF WorkerInv
  <2> QED BY <1>2, <1>3, <2>1, <2>3 DEF pollReads, OnlyWk
<1>4. CASE pollSays(b) /\ stopping(b)
  BY <1>2, <1>4 DEF pollSays
<1>5. CASE pollSays(b) /\ ~stopping(b)
  <2>1. PICK phase1 \in {"READY", "WAITING_ROOT"} :
          wk' = [wk EXCEPT ![b].poll = "TOLD", ![b].phase = phase1]
    BY <1>5 DEF pollSays
  <2> DEFINE n == [p EXCEPT !.poll = "TOLD", !.phase = phase1]
             r == Append(q, [by |-> "poll", text |-> Unwritten])
  <2>2. wk' = [wk EXCEPT ![b] = n] /\ writes' = [writes EXCEPT ![b] = r]
    BY <1>5, <2>1 DEF pollSays, QueuesWrite
  <2>3. /\ n \in Process /\ n.alive = p.alive /\ n.at = p.at /\ n.stop = p.stop
        /\ n.failed = p.failed /\ n.poll = "TOLD" /\ n.children = p.children
        /\ n.agent = p.agent /\ n.job = p.job /\ n.phase \in {"READY", "WAITING_ROOT"}
    BY <1>1 DEF Process, WorkerPhase
  <2>4. p.stop = "NO" /\ p.poll = "SAY"
    BY <1>5 DEF stopping, pollSays
  <2> HIDE DEF n, r, p, q
  <2>5. Begins(n, r) /\ InItsJob(n) /\ StopHolds(n) /\ AskedFor(b, n, asked)
    BY <1>1, <2>3, <2>4 DEF BootHolds, Begins, InItsJob, StopHolds, AskedFor
  <2>6. QueueHolds(n, q) /\ StatusHolds(b, n, q, disk)
    BY <1>1, <2>3, <2>4 DEF BootHolds, QueueHolds, StatusHolds, Final, Begins
  <2>7. r \in Seq(Entry) /\ QueueHolds(n, r) /\ StatusHolds(b, n, r, disk)
    BY <1>1, <2>3, <2>6, Queueing DEF r
  <2>8. BootHolds(b, n, r, disk', asked')
    BY <1>1, <2>3, <2>5, <2>7 DEF BootHolds
  <2> QED BY <1>1, <2>2, <2>8, Steps
<1> QED BY <1>3, <1>4, <1>5

-----------------------------------------------------------------------------
(* The worker: the stop and the writes of the status.                      *)

LEMMA StopStepKeeps ==
  ASSUME WorkerInv, NEW b \in Boot, stopAgent(b) \/ stopLast(b) PROVE Advances(b)
<1> DEFINE p == wk[b]
           q == writes[b]
<1>1. /\ p \in Process /\ BootHolds(b, p, q, disk, asked) /\ q \in Seq(Entry) /\ p.alive
      /\ lock' \in Boot \cup {NoBoot} /\ request' \in {request, NoBoot}
      /\ UNCHANGED <<asker, asked>>
      /\ disk' \in [boot : Boot \cup {NoBoot}, phase : WorkerPhase] /\ disk' = disk
  BY DEF WorkerInv, stopAgent, stopLast, Living
<1>2. CASE stopAgent(b)
  <2> DEFINE agent1 == IF p.agent = "UP" /\ p.at # "AGENT_UP" THEN "DOWN" ELSE p.agent
             n == [p EXCEPT !.stop = "CHILDREN", !.agent = agent1]
  <2>1. wk' = [wk EXCEPT ![b] = n] /\ writes' = writes /\ p.stop = "AGENT"
    BY <1>2 DEF stopAgent
  <2>2. /\ n \in Process /\ n.alive = p.alive /\ n.at = p.at /\ n.stop = "CHILDREN"
        /\ n.failed = p.failed /\ n.poll = p.poll /\ n.children = p.children
        /\ n.agent = agent1 /\ n.job = p.job /\ n.phase = p.phase
        /\ (n.agent = "UP" => p.at = "AGENT_UP")
    BY <1>1 DEF Process, Stopping
  <2> HIDE DEF n, p, q, agent1
  <2>3. /\ Begins(n, q) /\ InItsJob(n) /\ QueueHolds(n, q) /\ StopHolds(n)
        /\ AskedFor(b, n, asked)
    BY <1>1, <2>1, <2>2 DEF BootHolds, Begins, InItsJob, QueueHolds, StopHolds, AskedFor
  <2>4. StatusHolds(b, n, q, disk)
    BY <1>1, <2>1, <2>2 DEF BootHolds, StatusHolds
  <2>5. BootHolds(b, n, q, disk, asked)
    BY <1>1, <2>2, <2>3, <2>4 DEF BootHolds
  <2> QED BY <1>1, <2>1, <2>5, Moving DEF q
<1>3. CASE stopLast(b)
  <2> DEFINE last == IF p.failed THEN "FAILED" ELSE "STOPPED"
             n == [p EXCEPT !.stop = "LAST", !.phase = last]
             r == Append(q, [by |-> "stop", text |-> Unwritten])
  <2>1. /\ wk' = [wk EXCEPT ![b] = n] /\ writes' = [writes EXCEPT ![b] = r]
        /\ p.stop = "CHILDREN" /\ p.children = {}
    BY <1>3 DEF stopLast, QueuesWrite
  <2>2. /\ n \in Process /\ n.alive = p.alive /\ n.at = p.at /\ n.stop = "LAST"
        /\ n.failed = p.failed /\ n.poll = p.poll /\ n.children = p.children
        /\ n.agent = p.agent /\ n.job = p.job
    BY <1>1 DEF Process, Stopping, WorkerPhase
  <2> HIDE DEF n, r, p, q
  <2>3. Begins(n, r) /\ InItsJob(n) /\ StopHolds(n) /\ AskedFor(b, n, asked)
    BY <1>1, <2>1, <2>2 DEF BootHolds, Begins, InItsJob, StopHolds, AskedFor
  <2>4. p.at # "OVER"
    BY <1>1 DEF BootHolds, Begins
  <2>5. QueueHolds(n, q) /\ StatusHolds(b, n, q, disk) /\ \A i \in 1..Len(q) : q[i].by # "stop"
    BY <1>1, <2>1, <2>2, <2>4 DEF BootHolds, QueueHolds, StatusHolds
  <2>6. r \in Seq(Entry) /\ QueueHolds(n, r) /\ StatusHolds(b, n, r, disk)
    BY <1>1, <2>2, <2>5, Queueing DEF r
  <2>7. BootHolds(b, n, r, disk', asked')
    BY <1>1, <2>2, <2>3, <2>6 DEF BootHolds
  <2> QED BY <1>1, <2>1, <2>7, Steps
<1> QED BY <1>2, <1>3

\* The first write of a queue is the one whose turn it is.
LEMMA FirstTurn ==
  ASSUME WorkerInv, NEW b \in Boot, NEW i \in Turn(b)
  PROVE  i = 1 /\ 1 \in 1..Len(writes[b]) /\ writes[b][1] \in Entry
<1>1. writes[b] \in Seq(Entry)
  BY DEF WorkerInv
<1> QED BY <1>1 DEF Turn

LEMMA WriteBeginsKeeps == ASSUME WorkerInv, NEW b \in Boot, writeBegins(b) PROVE Advances(b)
<1> DEFINE p == wk[b]
           q == writes[b]
           r == [q EXCEPT ![1] = [@ EXCEPT !.text = p.phase]]
<1>1. /\ p \in Process /\ BootHolds(b, p, q, disk, asked) /\ q \in Seq(Entry) /\ p.alive
      /\ lock' \in Boot \cup {NoBoot} /\ request' \in {request, NoBoot}
      /\ UNCHANGED <<asker, asked>>
      /\ disk' \in [boot : Boot \cup {NoBoot}, phase : WorkerPhase] /\ disk' = disk
  BY DEF WorkerInv, writeBegins, Living
<1>2. /\ 1 \in 1..Len(q) /\ q[1] \in Entry
      /\ writes' = [writes EXCEPT ![b] = r] /\ wk' = [wk EXCEPT ![b] = p]
  <2>1. PICK i \in Turn(b) : writes' = [writes EXCEPT ![b][i].text = wk[b].phase]
    BY DEF writeBegins
  <2>2. i = 1 /\ 1 \in 1..Len(q) /\ q[1] \in Entry
    BY FirstTurn
  <2>3. wk' = [wk EXCEPT ![b] = p]
    BY DEF writeBegins, WorkerInv
  <2> QED BY <2>1, <2>2, <2>3
<1>3. [q[1] EXCEPT !.text = p.phase] \in Entry
  BY <1>1, <1>2 DEF Entry, Process
<1>4. /\ r \in Seq(Entry) /\ Len(r) = Len(q) /\ Len(q) \in Nat
      /\ r[1].by = q[1].by /\ r[1].text = p.phase
      /\ \A i \in 1..Len(q) : i # 1 => r[i] = q[i]
  BY <1>1, <1>2, <1>3 DEF Entry
<1> HIDE DEF p, q, r
<1>5. Begins(p, r)
  <2>1. q # <<>>
    BY <1>1, <1>2
  <2> QED BY <1>1, <2>1 DEF BootHolds, Begins
<1>6. QueueHolds(p, r)
  <2>1. \A i \in 1..Len(q) : r[i].by = q[i].by
    BY <1>4
  <2> QED BY <1>1, <1>4, <2>1 DEF BootHolds, QueueHolds
<1>7. StatusHolds(b, p, r, disk)
  <2>1. \A i \in 1..Len(q) : i # 1 => q[i].text = Unwritten
    BY <1>1, <1>4 DEF BootHolds, QueueHolds
  <2>2. Unwritten \notin Final
    BY DEF Unwritten, Final
  <2>3. p.phase \in Final => p.stop \in {"LAST", "ENDED"}
    BY <1>1 DEF BootHolds, StatusHolds
  <2> QED BY <1>1, <1>4, <2>1, <2>2, <2>3 DEF BootHolds, StatusHolds
<1>8. BootHolds(b, p, r, disk', asked')
  BY <1>1, <1>4, <1>5, <1>6, <1>7 DEF BootHolds
<1> QED BY <1>1, <1>2, <1>8, Steps

\* Whoever waits for a write goes on; nothing else changes.
ResumesAs(p, by, n) ==
  /\ n \in Process /\ n.alive = p.alive /\ n.failed = p.failed
  /\ n.children = p.children /\ n.agent = p.agent /\ n.job = p.job /\ n.phase = p.phase
  /\ by # "start" => n.at = p.at
  /\ by # "stop" => n.stop = p.stop
  /\ n.poll = "STOP" => p.poll = "STOP"
  /\ by # "poll" => n.poll = p.poll
  /\ by = "start" /\ n.at = "SERVING" => p.stop = "NO"
  /\ by = "start" => n.at \in {"THREW", "CONFIGS", "SERVING", "LATE"}
  /\ by = "stop" => n.stop = IF p.stop = "SAY" THEN "AGENT" ELSE "ENDED"

LEMMA ResumedIs ==
  ASSUME NEW p \in Process, NEW by \in {"start", "stop", "poll"}, NEW n,
         \E ok \in BOOLEAN : n = Resumed(p, by, ok)
  PROVE  ResumesAs(p, by, n)
<1>0. PICK ok \in BOOLEAN : n = Resumed(p, by, ok)
  OBVIOUS
<1> USE <1>0 DEF ResumesAs, Resumed, Process, At, Starting, Stopping, StopGoesOn
<1>1. CASE by = "start"
  BY <1>1
<1>2. CASE by = "stop"
  BY <1>2
<1>3. CASE by = "poll"
  BY <1>3
<1> QED BY <1>1, <1>2, <1>3

LEMMA RestOf ==
  ASSUME NEW q \in Seq(Entry), 1 \in 1..Len(q)
  PROVE  LET r == Without(q, 1) IN
         /\ r \in Seq(Entry) /\ Len(r) = Len(q) - 1 /\ Len(q) \in Nat
         /\ \A i \in 1..Len(r) : r[i] = q[i + 1] /\ i + 1 \in 1..Len(q)
<1> DEFINE s == SubSeq(q, 1, 0)
           t == SubSeq(q, 2, Len(q))
<1>1. s \in Seq(Entry) /\ Len(s) = 0
  OBVIOUS
<1>2. t \in Seq(Entry) /\ Len(t) = Len(q) - 1 /\ \A i \in 1..Len(t) : t[i] = q[i + 1]
  <2> DEFINE m == Len(q)
  <2>1. m \in Nat /\ m > 0
    OBVIOUS
  <2>2. \A i \in 2..m : q[i] \in Entry
    OBVIOUS
  <2>3. t = [i \in 1..(m - 1) |-> q[i + 1]]
    BY <2>1
  <2> HIDE DEF m, t
  <2>4. \A i \in 1..(m - 1) : i + 1 \in 2..m
    BY <2>1
  <2>5. t \in [1..(m - 1) -> Entry] /\ m - 1 \in Nat
    BY <2>1, <2>2, <2>3, <2>4
  <2>6. t \in Seq(Entry) /\ Len(t) = m - 1
    BY <2>5
  <2> QED BY <2>3, <2>6 DEF m
<1>3. Without(q, 1) = s \o t
  BY DEF Without
<1> HIDE DEF s, t
<1> QED BY <1>1, <1>2, <1>3

LEMMA WriteEndsKeeps == ASSUME WorkerInv, NEW b \in Boot, writeEnds(b) PROVE Advances(b)
<1> DEFINE p == wk[b]
           q == writes[b]
           e == q[1]
           r == Without(q, 1)
<1>1. /\ p \in Process /\ BootHolds(b, p, q, disk, asked) /\ q \in Seq(Entry) /\ p.alive
      /\ request' \in {request, NoBoot} /\ UNCHANGED <<asker, asked>>
  BY DEF WorkerInv, writeEnds, Living
<1>2. /\ 1 \in 1..Len(q) /\ e \in Entry /\ e.text # Unwritten
      /\ lock' \in Boot \cup {NoBoot} /\ writes' = [writes EXCEPT ![b] = r]
      /\ disk' = disk \/ disk' = [boot |-> b, phase |-> e.text]
      /\ \E ok \in BOOLEAN : wk' = [wk EXCEPT ![b] = Resumed(p, e.by, ok)]
  <2>1. PICK i \in Turn(b), ok \in BOOLEAN :
          /\ Whole(writes[b][i])
          /\ writes' = [writes EXCEPT ![b] = Without(@, i)]
          /\ wk' = [wk EXCEPT ![b] = Resumed(@, writes[b][i].by, ok)]
          /\ lock' = IF writes[b][i].by = "stop" /\ wk[b].stop = "LAST" THEN NoBoot ELSE lock
          /\ \/ ok /\ disk' = [boot |-> b, phase |-> writes[b][i].text]
             \/ UNCHANGED disk
    BY DEF writeEnds
  <2>2. i = 1 /\ 1 \in 1..Len(q) /\ e \in Entry
    BY FirstTurn
  <2>3. lock \in Boot \cup {NoBoot} /\ NoBoot \in Boot \cup {NoBoot}
    BY DEF WorkerInv
  <2> QED BY <2>1, <2>2, <2>3 DEF Whole, WorkerInv
<1>3. PICK ok \in BOOLEAN : wk' = [wk EXCEPT ![b] = Resumed(p, e.by, ok)]
  BY <1>2
<1> DEFINE n == Resumed(p, e.by, ok)
<1>4. e.by \in {"start", "stop", "poll"} /\ e.text \in WorkerPhase
  BY <1>2 DEF Entry
<1> HIDE DEF r, e, p, q
<1>5. ResumesAs(p, e.by, n)
  <2> DEFINE by == e.by
  <2>1. by \in {"start", "stop", "poll"} /\ \E o \in BOOLEAN : n = Resumed(p, by, o)
    BY <1>4, Zenon
  <2>2. p \in Process
    BY <1>1
  <2> HIDE DEF n, by
  <2>3. ResumesAs(p, by, n)
    BY <2>1, <2>2, ResumedIs, Zenon
  <2> QED BY <2>3 DEF by
<1>6. wk' = [wk EXCEPT ![b] = n]
  BY <1>3
<1>7. /\ r \in Seq(Entry) /\ Len(r) = Len(q) - 1 /\ Len(q) \in Nat
      /\ \A i \in 1..Len(r) : r[i] = q[i + 1] /\ i + 1 \in 1..Len(q)
  BY <1>1, <1>2, RestOf DEF r
<1>8. /\ e.by = "start" => p.at \in {"TELL", "TELL_ROOT"}
      /\ e.by = "stop" => p.stop \in {"SAY", "LAST"}
      /\ p.at \notin {"IDLE", "OVER", "STALE", "RETAKE"}
      /\ \A i \in 1..Len(r) : r[i].text = Unwritten /\ (r[i].by = e.by => e.by = "poll")
  <2>1. q # <<>>
    BY <1>1, <1>2
  <2>2. /\ QueueHolds(p, q) /\ Begins(p, q)
    BY <1>1 DEF BootHolds
  <2>3. p.at \notin {"IDLE", "OVER", "STALE", "RETAKE"}
    BY <1>1, <2>1, <2>2 DEF Begins
  <2>4. /\ e.by = "start" => p.at \in {"TELL", "TELL_ROOT"}
        /\ e.by = "stop" => p.stop \in {"SAY", "LAST"}
    BY <1>2, <2>2 DEF QueueHolds, e
  <2>5. \A i \in 1..Len(r) : i + 1 > 1 /\ i + 1 # 1
    BY <1>7
  <2>6. \A i \in 1..Len(r) : r[i].text = Unwritten
    BY <1>7, <2>2, <2>5 DEF QueueHolds
  <2>7. \A i \in 1..Len(r) : r[i].by = e.by => e.by = "poll"
    BY <1>2, <1>7, <2>2, <2>5 DEF QueueHolds, e
  <2> QED BY <2>3, <2>4, <2>6, <2>7
<1>9. /\ disk' \in [boot : Boot \cup {NoBoot}, phase : WorkerPhase]
      /\ disk' = disk \/ (disk'.boot = b /\ disk'.phase = e.text)
  BY <1>2, <1>4 DEF WorkerInv
<1> HIDE DEF n
<1>10. Begins(n, r) /\ InItsJob(n) /\ StopHolds(n)
  <2>1. Begins(n, r)
    BY <1>5, <1>8 DEF Begins, ResumesAs
  <2>2. InItsJob(n)
    BY <1>1, <1>5, <1>8 DEF BootHolds, InItsJob, ConfirmedAt, ResumesAs
  <2>3. StopHolds(n)
    BY <1>1, <1>5, <1>8 DEF BootHolds, StopHolds, ResumesAs
  <2> QED BY <2>1, <2>2, <2>3
<1>11. AskedFor(b, n, asked)
  BY <1>1, <1>5, <1>8 DEF BootHolds, AskedFor, ResumesAs
<1>12. QueueHolds(n, r)
  <2>1. \A i, j \in 1..Len(r) : r[i].by = r[j].by /\ r[i].by # "poll" => i = j
    <3> SUFFICES ASSUME NEW i \in 1..Len(r), NEW j \in 1..Len(r),
                        r[i].by = r[j].by, r[i].by # "poll"
                 PROVE  i = j
      OBVIOUS
    <3>1. i + 1 = j + 1
      BY <1>1, <1>7 DEF BootHolds, QueueHolds
    <3> QED BY <1>7, <3>1
  <2>2. \A i \in 1..Len(r) : /\ r[i].by = "start" => p.at \in {"TELL", "TELL_ROOT"}
                             /\ r[i].by = "stop" => p.stop \in {"SAY", "LAST"}
    BY <1>1, <1>7 DEF BootHolds, QueueHolds
  <2>3. \A i \in 1..Len(r) : /\ r[i].by = "start" => e.by # "start"
                             /\ r[i].by = "stop" => e.by # "stop"
    BY <1>8
  <2> QED BY <1>5, <1>8, <2>1, <2>2, <2>3 DEF QueueHolds, ResumesAs
<1>13. StatusHolds(b, n, r, disk')
  <2>1. Unwritten \notin Final
    BY DEF Unwritten, Final
  <2>2. /\ p.phase \in Final => p.stop \in {"LAST", "ENDED"}
        /\ p.stop \notin {"LAST", "ENDED"} =>
             e.text \notin Final /\ ~(disk.boot = b /\ disk.phase \in Final)
        /\ p.at = "SERVING" =>
             /\ e.text \in Final => e.text = p.phase
             /\ disk.boot = b /\ disk.phase \in Final => disk.phase = p.phase
    BY <1>1, <1>2, <1>8 DEF BootHolds, StatusHolds, e
  <2>3. n.phase \in Final => n.stop \in {"LAST", "ENDED"}
    BY <1>5, <1>8, <2>2 DEF ResumesAs
  <2>4. n.stop \notin {"LAST", "ENDED"} => ~(disk'.boot = b /\ disk'.phase \in Final)
    BY <1>5, <1>8, <1>9, <2>2 DEF ResumesAs
  <2>5. n.at = "SERVING" /\ disk'.boot = b /\ disk'.phase \in Final => disk'.phase = n.phase
    BY <1>5, <1>8, <1>9, <2>2 DEF ResumesAs
  <2> QED BY <1>8, <2>1, <2>3, <2>4, <2>5 DEF StatusHolds
<1>14. BootHolds(b, n, r, disk', asked')
  BY <1>1, <1>5, <1>7, <1>10, <1>11, <1>12, <1>13 DEF BootHolds, ResumesAs
<1> QED BY <1>1, <1>2, <1>6, <1>9, <1>14, Steps DEF q, r

-----------------------------------------------------------------------------
(* The worker: every step.                                                 *)

LEMMA StartKeeps == ASSUME WorkerInv, NEW b \in Boot, startWorker(b) PROVE Advances(b)
<1> DEFINE p == wk[b]
           lives == ~Living(lock)
           to == IF lock = NoBoot THEN "CLEAR" ELSE IF Living(lock) THEN "OVER" ELSE "STALE"
           n == [p EXCEPT !.alive = lives, !.at = to]
           q == writes[b]
<1>1. /\ p \in Process /\ BootHolds(b, p, q, disk, asked) /\ q \in Seq(Entry)
      /\ p.at = "IDLE" /\ wk' = [wk EXCEPT ![b] = n]
      /\ lock' \in Boot \cup {NoBoot} /\ request' \in {request, NoBoot}
      /\ UNCHANGED <<asker, asked, disk, writes>>
  BY DEF WorkerInv, startWorker, OnlyLock
<1>2. lives \in BOOLEAN /\ to \in {"CLEAR", "OVER", "STALE"} /\ (to = "OVER" => ~lives)
  BY DEF Living
<1>3. /\ n \in Process /\ n.at = to /\ n.stop = p.stop /\ n.failed = p.failed
      /\ n.poll = p.poll /\ n.children = p.children /\ n.agent = p.agent /\ n.job = p.job
      /\ n.phase = p.phase /\ (to = "OVER" => ~n.alive)
  BY <1>1, <1>2 DEF Process, At, Starting
<1>4. q = <<>> /\ p.children = {} /\ p.stop = "NO" /\ p.poll = "NO" /\ p.job = "NONE"
  BY <1>1 DEF BootHolds, Begins
<1> HIDE DEF n, p, q, to, lives
<1>5. Begins(n, q) /\ InItsJob(n) /\ StopHolds(n) /\ AskedFor(b, n, asked) /\ QueueHolds(n, q)
  BY <1>1, <1>2, <1>3, <1>4
     DEF Begins, InItsJob, StopHolds, AskedFor, QueueHolds, ConfirmedAt
<1>6. StatusHolds(b, n, q, disk)
  BY <1>1, <1>2, <1>3, <1>4 DEF BootHolds, StatusHolds
<1>7. BootHolds(b, n, q, disk, asked)
  BY <1>1, <1>3, <1>5, <1>6 DEF BootHolds
<1> QED BY <1>1, <1>7, Moving DEF q

LEMMA WorkerStart == WorkerInit => WorkerInv
<1> SUFFICES ASSUME WorkerInit PROVE WorkerInv
  OBVIOUS
<1>1. /\ New \in Process /\ New.at = "IDLE" /\ ~New.alive /\ New.children = {} /\ New.stop = "NO"
      /\ New.poll = "NO" /\ New.job = "NONE" /\ New.phase = "STARTING" /\ New.agent = "NONE"
  BY DEF New, Process, At, Stopping, JobState, WorkerPhase
<1>2. wk = [b \in Boot |-> New] /\ writes = [b \in Boot |-> <<>>] /\ <<>> \in Seq(Entry)
  BY DEF WorkerInit
<1> HIDE DEF New
<1>3. ASSUME NEW b \in Boot PROVE BootHolds(b, wk[b], writes[b], disk, asked)
  <2>1. /\ Begins(New, <<>>) /\ InItsJob(New) /\ StopHolds(New) /\ AskedFor(b, New, asked)
        /\ QueueHolds(New, <<>>)
    BY <1>1 DEF Begins, InItsJob, StopHolds, AskedFor, QueueHolds, ConfirmedAt
  <2>2. StatusHolds(b, New, <<>>, disk)
    BY <1>1 DEF StatusHolds, WorkerInit, Final
  <2> QED BY <1>1, <1>2, <2>1, <2>2 DEF BootHolds
<1>4. "STARTING" \in WorkerPhase
  BY DEF WorkerPhase
<1>5. wk \in [Boot -> Process] /\ writes \in [Boot -> Seq(Entry)]
  BY <1>1, <1>2
<1> QED BY <1>3, <1>4, <1>5 DEF WorkerInv, WorkerInit

\* Asking for a stop is about a boot that has been named in the lock.
LEMMA AskingKeeps == ASSUME WorkerInv, readsLock \/ requestStop PROVE WorkerInv'
<1>1. /\ wk' = wk /\ writes' = writes /\ lock' = lock /\ disk' = disk /\ asked \subseteq asked'
      /\ {lock', asker', request'} \subseteq Boot \cup {NoBoot} /\ asked' \subseteq Boot
      /\ request' # NoBoot => request' \in asked'
  BY DEF WorkerInv, readsLock, requestStop, Living
<1>2. ASSUME NEW b \in Boot PROVE BootHolds(b, wk'[b], writes'[b], disk', asked')
  <2>1. BootHolds(b, wk[b], writes[b], disk, asked)
    BY DEF WorkerInv
  <2>2. AskedFor(b, wk[b], asked')
    BY <1>1, <2>1 DEF BootHolds, AskedFor
  <2> QED BY <1>1, <2>1, <2>2 DEF BootHolds
<1>3. wk \in [Boot -> Process] /\ writes \in [Boot -> Seq(Entry)]
      /\ disk \in [boot : Boot \cup {NoBoot}, phase : WorkerPhase]
  BY DEF WorkerInv
<1>4. \A b \in Boot : /\ BootHolds(b, wk[b], writes[b], disk, asked)' <=>
                           BootHolds(b, wk'[b], writes'[b], disk', asked')
  BY DEF BootHolds, Begins, InItsJob, QueueHolds, StopHolds, AskedFor, StatusHolds
<1> QED BY <1>1, <1>2, <1>3, <1>4 DEF WorkerInv

LEMMA WorkerStep == WorkerInv /\ [WorkerNext]_workerVars => WorkerInv'
<1> SUFFICES ASSUME WorkerInv, [WorkerNext]_workerVars PROVE WorkerInv'
  OBVIOUS
<1>1. CASE readsLock \/ requestStop
  BY <1>1, AskingKeeps
<1>2. ASSUME NEW b \in Boot,
             \/ startWorker(b) \/ StartStep(b) \/ StopStep(b) \/ WriteStep(b) \/ PollStep(b)
             \/ GuardianStep(b) \/ interrupted(b) \/ killed(b)
             \/ \E c \in Child : childEnds(b, c)
      PROVE  Advances(b)
  <2>1. CASE StartStep(b)
    <3>1. leaves(b) => Dies(b)
      BY DEF leaves
    <3> QED BY <2>1, <3>1, StartsKeep, GuardianKeeps, ContainedKeeps, ChildrenStartKeeps,
               TellsRootKeeps, StoppedKeeps, DiesKeeps DEF StartStep
  <2>2. CASE killed(b)
    BY <2>2, DiesKeeps DEF killed
  <2> QED BY <1>2, <2>1, <2>2, StartKeeps, StopStepKeeps, WriteBeginsKeeps, WriteEndsKeeps,
             PollKeeps, StoppedKeeps, GuardianKeeps
          DEF StopStep, WriteStep, PollStep, GuardianStep
<1>3. CASE UNCHANGED workerVars
  BY <1>3 DEF workerVars, WorkerInv, BootHolds, Begins, InItsJob, QueueHolds, StopHolds, AskedFor,
              StatusHolds
<1> QED BY <1>1, <1>2, <1>3, AdvanceKeeps DEF WorkerNext

LEMMA WorkerInvHolds == WorkerSpec => []WorkerInv
BY WorkerStart, WorkerStep, PTL DEF WorkerSpec

LEMMA SupervisorsHold ==
  WorkerInv => WorkerTypeOK /\ EndedHoldsNothing /\ ChildrenContained /\ StopIsBound
<1> SUFFICES ASSUME WorkerInv
             PROVE  WorkerTypeOK /\ EndedHoldsNothing /\ ChildrenContained /\ StopIsBound
  OBVIOUS
<1>1. WorkerTypeOK
  <2>1. ASSUME NEW b \in Boot, NEW i \in DOMAIN writes[b]
        PROVE  writes[b][i] \in [by : {"start", "stop", "poll"},
                                 text : WorkerPhase \cup {Unwritten}]
    <3>1. writes[b] \in Seq(Entry)
      BY DEF WorkerInv
    <3>2. writes[b][i] \in Entry
      BY <3>1
    <3> QED BY <3>2, Zenon DEF Entry
  <2> QED BY <2>1 DEF WorkerTypeOK, WorkerInv, Process
<1>2. ASSUME NEW b \in Boot
      PROVE  /\ wk[b].stop = "ENDED" => /\ wk[b].children = {}
                                        /\ wk[b].at \notin Starting => wk[b].agent # "UP"
             /\ wk[b].children # {} => wk[b].job \in {"HELD", "TOLD"}
             /\ stopping(b) /\ ~wk[b].failed => b \in asked
  <2>1. InItsJob(wk[b]) /\ StopHolds(wk[b]) /\ AskedFor(b, wk[b], asked)
    BY DEF WorkerInv, BootHolds
  <2> QED BY <2>1 DEF InItsJob, StopHolds, AskedFor, stopping, Starting
<1> QED BY <1>1, <1>2 DEF EndedHoldsNothing, ChildrenContained, StopIsBound

\* On a contributor's machine and in the laboratory, of any number of starts and of
\* commands: a worker whose stop has ended has left no child and no agent, its children
\* run only in a job that a guardian holds, and it stops without a failure only if it
\* was asked to; a service has one host, which the registry names (supervisor.mjs,
\* guardian.mjs, service-process.mjs).
THEOREM ProcessesAreHeld == WorkerSpec /\ ServicesSpec => []ProcessesHold
<1>1. WorkerInv /\ ServicesInv => ProcessesHold
  BY SupervisorsHold, SupervisedIsEntered DEF ProcessesHold
<1> QED BY <1>1, WorkerInvHolds, ServicesInvHolds, PTL

\* The final status of a worker that had got to serve, STOPPED or FAILED, is not
\* replaced: a periodic observation that was queued before the stop has published
\* before it, and none is queued after (supervisor.mjs, state.mjs).
THEOREM FinalStatusIsLast == WorkerSpec => FinalStatusStays
<1>1. WorkerInv /\ [WorkerNext]_workerVars
      => [\A b \in Boot :
            /\ disk.boot = b /\ disk.phase \in Final
            /\ wk[b].at = "SERVING" /\ disk'.boot = b
            => disk' = disk]_workerVars
  <2> SUFFICES ASSUME WorkerInv, WorkerNext, NEW b \in Boot, disk.boot = b, disk.phase \in Final,
                      wk[b].at = "SERVING", disk'.boot = b, disk' # disk
               PROVE  FALSE
    BY DEF workerVars
  <2>1. PICK a \in Boot : writeEnds(a)
    BY DEF WorkerNext, readsLock, requestStop, startWorker, StartStep, StopStep, WriteStep,
           PollStep, GuardianStep, interrupted, killed, childEnds, takeOver, retake, clears,
           checksPorts, contained, guardianLost, launches, probes, createsAgent, agentCreated,
           tellsRoot, catches, leaves, Dies, stopAgent, stopLast, writeBegins, pollReads,
           pollSays, pollStops, assigns, acknowledges, guardianEnds, OnlyWk, OnlyLock
  <2>2. PICK i \in Turn(a) :
          writes[a][i].text # Unwritten /\ disk' = [boot |-> a, phase |-> writes[a][i].text]
    BY <2>1 DEF writeEnds, Whole
  <2>3. i = 1 /\ 1 \in 1..Len(writes[a]) /\ a = b
    BY <2>2, FirstTurn
  <2>4. StatusHolds(b, wk[b], writes[b], disk)
    BY DEF WorkerInv, BootHolds
  <2>5. writes[b][1].text = disk.phase
    BY <2>2, <2>3, <2>4 DEF StatusHolds
  <2>6. disk' = disk
    BY <2>2, <2>3, <2>5 DEF WorkerInv
  <2> QED BY <2>6
<1> QED BY <1>1, WorkerInvHolds, PTL DEF WorkerSpec, FinalStatusStays

-----------------------------------------------------------------------------
(***************************************************************************)
(* The memory that is lent.                                                *)
(***************************************************************************)
MemoryInv ==
  /\ buffers \in [Pointer -> Nat]
  /\ used = SumOf(buffers) /\ used <= Budget
  /\ unclaimed \in Nat
  /\ told = -1 \/ told = Visible(unclaimed, Installed)

\* A buffer that is allocated or released changes the sum by its size.
LEMMA HeldChanges ==
  ASSUME MemoryInv, NEW p \in Pointer, NEW n \in Nat
  PROVE  /\ [buffers EXCEPT ![p] = n] \in [Pointer -> Nat]
         /\ SumOf([buffers EXCEPT ![p] = n]) = SumOf(buffers) - buffers[p] + n
         /\ SumOf(buffers) \in Nat
<1> DEFINE g == [buffers EXCEPT ![p] = n]
<1>1. /\ buffers \in [Pointer -> Nat] /\ g \in [Pointer -> Nat] /\ g[p] = n
      /\ \A q \in Pointer \ {p} : buffers[q] = g[q]
      /\ IsFiniteSet(Pointer)
  BY MemoryAssumption DEF MemoryInv
<1> HIDE DEF g
<1>2. \A q \in Pointer : buffers[q] \in Int /\ g[q] \in Int
  BY <1>1
<1>3. SumFunctionOnSet(g, Pointer) = SumFunctionOnSet(buffers, Pointer) - buffers[p] + g[p]
  BY <1>1, <1>2, SumChange
<1>4. SumFunctionOnSet(buffers, Pointer) \in Nat
  BY <1>1, SumNat
<1>5. SumOf(g) = SumFunctionOnSet(g, Pointer) /\ SumOf(buffers) = SumFunctionOnSet(buffers, Pointer)
  BY <1>1 DEF SumOf, SumFunction
<1> QED BY <1>1, <1>3, <1>4, <1>5 DEF g

LEMMA NothingHeld == SumOf([p \in Pointer |-> 0]) = 0
<1> DEFINE g == [p \in Pointer |-> 0]
<1>1. SumFunctionOnSet(g, Pointer) = 0
  BY MemoryAssumption, SumZero
<1> QED BY <1>1 DEF SumOf, SumFunction

LEMMA MemoryStart == MemoryInit => MemoryInv
BY NothingHeld, MemoryAssumption DEF MemoryInit, MemoryInv

LEMMA MemoryStep == MemoryInv /\ [MemoryNext]_memoryVars => MemoryInv'
<1> SUFFICES ASSUME MemoryInv, [MemoryNext]_memoryVars PROVE MemoryInv'
  OBVIOUS
<1>1. /\ {Budget, Reserve, Installed, MaxBuffers} \subseteq Nat
      /\ SumOf(buffers) \in Nat \/ Pointer = {}
  <2>1. CASE \E p \in Pointer : TRUE
    BY <2>1, HeldChanges, MemoryAssumption
  <2> QED BY <2>1, MemoryAssumption
<1>2. ASSUME NEW p \in Pointer, NEW n \in Nat, buffers' = [buffers EXCEPT ![p] = n],
             used' = used - buffers[p] + n, used' <= Budget, unclaimed' \in Nat, told' = -1
      PROVE  MemoryInv'
  <2>1. buffers' \in [Pointer -> Nat] /\ SumOf(buffers') = SumOf(buffers) - buffers[p] + n
    BY <1>2, HeldChanges
  <2>2. used' = SumOf(buffers')
    BY <1>2, <2>1 DEF MemoryInv
  <2> QED BY <1>2, <2>1, <2>2 DEF MemoryInv, SumOf
<1>3. ASSUME NEW p \in Pointer, freed(p) PROVE MemoryInv'
  <2>1. buffers[p] \in Nat /\ SumOf(buffers) \in Nat
    BY HeldChanges DEF MemoryInv
  <2>2. /\ used' = used - buffers[p] + 0 /\ used' <= Budget /\ unclaimed' \in Nat
    BY <1>1, <1>3, <2>1 DEF freed, Credited, MemoryInv
  <2>3. buffers' = [buffers EXCEPT ![p] = 0] /\ told' = -1 /\ 0 \in Nat
    BY <1>3 DEF freed
  <2> QED BY <1>2, <2>2, <2>3
<1>8. ASSUME NEW p \in Pointer, NEW asked1 \in 1..Installed, NEW actual \in 1..Installed,
             allocate(p, asked1, actual)
      PROVE  MemoryInv'
  <2>1. SumOf(buffers) \in Nat /\ buffers[p] = 0 /\ actual \in Nat
    BY <1>1, <1>8, HeldChanges DEF allocate
  <2>2. actual <= Budget - used /\ actual <= unclaimed
    BY <1>8 DEF allocate, Allows, requireAllocation, withinBudget, remaining
  <2>3. used' = used - buffers[p] + actual /\ used' <= Budget /\ unclaimed' \in Nat
    BY <1>1, <1>8, <2>1, <2>2 DEF allocate, MemoryInv
  <2> QED BY <1>2, <1>8, <2>1, <2>3 DEF allocate
<1>4. CASE memory
  BY <1>4 DEF memory, MemoryInv, Visible, Small, remaining
<1>5. CASE closeBudget
  <2>1. SumOf(buffers) \in Nat
    BY <1>1, NothingHeld DEF MemoryInv
  <2> QED BY <1>1, <1>5, <2>1, NothingHeld DEF closeBudget, MemoryInv
<1>6. ASSUME NEW n \in 0..Installed, others(n) PROVE MemoryInv'
  BY <1>1, <1>6 DEF others, MemoryInv
<1>7. CASE UNCHANGED memoryVars
  BY <1>7 DEF memoryVars, MemoryInv, Visible, Small, remaining
<1> QED BY <1>3, <1>4, <1>5, <1>6, <1>7, <1>8 DEF MemoryNext

LEMMA MemoryInvHolds == MemorySpec => []MemoryInv
BY MemoryStart, MemoryStep, PTL DEF MemorySpec

\* Of any budget, reserve, device and buffers: the guard counts what the connection
\* holds and lends no more than the contributor's budget, and whatever it has told the
\* root is free the root is granted (rpc-memory.mjs).
THEOREM LendingIsWithinTerms == MemorySpec => []LendsWithinTerms
<1>1. MemoryInv => LendsWithinTerms
  <2> SUFFICES ASSUME MemoryInv PROVE BudgetHolds /\ ToldIsGranted
    BY DEF LendsWithinTerms
  <2>1. BudgetHolds
    BY DEF BudgetHolds, MemoryInv
  <2>2. ASSUME Cardinality(InUse(buffers)) < MaxBuffers, NEW size \in 1..told
        PROVE  Allows(size, size)
    <3>1. /\ told = Visible(unclaimed, Installed) /\ unclaimed \in Nat
          /\ Reserve \in Nat /\ Installed \in Nat /\ Budget \in Nat
      BY <2>2, MemoryAssumption DEF MemoryInv
    <3>2. used \in Int
      <4>1. CASE \E p \in Pointer : TRUE
        BY <4>1, HeldChanges DEF MemoryInv
      <4>2. CASE Pointer = {}
        BY <4>2, NothingHeld DEF MemoryInv
      <4> QED BY <4>1, <4>2
    <3> QED BY <2>2, <3>1, <3>2
            DEF Allows, requireAllocation, withinBudget, hasHeadroom, Visible, Small, remaining
  <2> QED BY <2>1, <2>2 DEF ToldIsGranted
<1> QED BY <1>1, MemoryInvHolds, PTL

\* After every allocation the device keeps the contributor's reserve free, however much
\* more than it was asked for the worker took (rpc-memory.mjs).
THEOREM ReserveIsKept == MemorySpec => ReserveKept
<1>1. MemoryInv /\ [MemoryNext]_memoryVars
      => [(\E p \in Pointer : buffers'[p] > buffers[p]) => unclaimed' >= Reserve]_memoryVars
  <2> SUFFICES ASSUME MemoryInv, MemoryNext, NEW q \in Pointer, buffers'[q] > buffers[q]
               PROVE  unclaimed' >= Reserve
    BY DEF memoryVars
  <2>1. buffers \in [Pointer -> Nat] /\ unclaimed \in Nat /\ Reserve \in Nat
    BY MemoryAssumption DEF MemoryInv
  <2>2. ASSUME NEW p \in Pointer, NEW asked1 \in 1..Installed, NEW actual \in 1..Installed,
               allocate(p, asked1, actual)
        PROVE  unclaimed' >= Reserve
    BY <2>1, <2>2, MemoryAssumption DEF allocate, Allows, requireAllocation, hasHeadroom
  <2>3. ASSUME NEW p \in Pointer, freed(p) PROVE FALSE
    BY <2>1, <2>3 DEF freed
  <2>4. ~closeBudget /\ ~memory /\ \A n \in 0..Installed : ~others(n)
    BY <2>1 DEF closeBudget, memory, others
  <2> QED BY <2>2, <2>3, <2>4 DEF MemoryNext
<1> QED BY <1>1, MemoryInvHolds, PTL DEF MemorySpec, ReserveKept

-----------------------------------------------------------------------------
(***************************************************************************)
(* The link.  A step is of one call, and the invariant is about one call.  *)
(* What it counts are the pieces of the target's response: those the       *)
(* consumer has, those in its channel and those under way.                 *)
(***************************************************************************)
\* One call: its task p, the answer a to its consumer, the channel ch, the body b the
\* consumer has, and on the peer's side the frames w under way, the task s and the
\* target's response t.
BeforeBody == {"IDLE", "CONNECT", "SENT"}
Streams == {"PUMP", "GIVE", "COMPLETE"}

EndsInError(ch) == Len(ch) > 0 /\ ch[Len(ch)] = "ERROR"
InHand(p) == IF p = "GIVE" THEN 1 ELSE 0
Piped(ch) == IF EndsInError(ch) THEN Len(ch) - 1 ELSE Len(ch)

\* Nothing reaches the consumer before its body has been opened.
OpensInOrder(p, a, ch, b, w, s) ==
  /\ p \in BeforeBody => a = "NONE" /\ ch = <<>> /\ b.got = 0 /\ b.ended = "NO"
  /\ p \in {"IDLE", "CONNECT"} => s = "NONE"
  /\ p \in Streams => s \in {"COPY", "OVER"} /\ a = "STREAM"
  /\ b.ended # "NO" \/ ch # <<>> => a = "STREAM"

\* An error is the last thing in the channel, and only of a task that has broken off.
\* One that could not be told of it had as many pieces in its channel as there is room.
ErrorIsLast(p, a, ch, b) ==
  /\ \A i \in 1..(Len(ch) - 1) : ch[i] = "PIECE"
  /\ EndsInError(ch) => p = "BROKEN"
  /\ p = "BROKEN" /\ a = "STREAM" /\ b.ended = "NO" => EndsInError(ch) \/ b.got + Len(ch) >= Room

\* What the peer has done and what it has put on the wire.
PeerHolds(p, w, s, t) ==
  /\ s \in {"NONE", "READ", "ASK"} => w.frames = <<>> /\ t.made = 0
  /\ s \in AtWork \cup {"NONE"} => w.ended # "FIN" /\ ~t.ended
  /\ w.ended = "FIN" => t.ended
  /\ w.ended = "LOST" => w.frames = <<>>
  /\ s = "COPY" /\ p \in BeforeBody /\ w.ended # "LOST" => w.frames # <<>>

Heads(p, w) == IF p \in BeforeBody /\ w.frames # <<>> THEN 1 ELSE 0
Zeros(w) == IF w.ended = "FIN" THEN 1 ELSE 0
Underway(p, w) == Len(w.frames) - Heads(p, w) - Zeros(w)

\* The frames under way are a head, pieces and a zero frame; and no piece is lost between
\* the target and the consumer while the connection is there.
FramesHold(p, ch, b, w, t) ==
  /\ b.got + Piped(ch) + InHand(p) <= t.made
  /\ p \in BeforeBody \cup {"PUMP", "GIVE"} /\ w.ended # "LOST" =>
       /\ Heads(p, w) = 1 => w.frames[1] = "HEAD"
       /\ \A i \in 1..Len(w.frames) :
            i > Heads(p, w) /\ i <= Len(w.frames) - Zeros(w) => w.frames[i] = "PIECE"
       /\ Underway(p, w) >= 0
       /\ w.ended = "FIN" => w.frames[Len(w.frames)] = "ZERO"
       /\ b.got + Piped(ch) + InHand(p) + Underway(p, w) = t.made

\* A task that has completed has the whole response behind it.
WholeWhenComplete(p, ch, b, t) ==
  /\ p = "COMPLETE" => t.ended /\ b.got + Len(ch) = t.made
  /\ b.ended = "CLEAN" => p \in {"COMPLETE", "BROKEN"} /\ ch = <<>>
  /\ b.ended = "CLEAN" /\ p = "BROKEN" => b.got >= Room

CallHolds(p, a, ch, b, w, s, t) ==
  /\ OpensInOrder(p, a, ch, b, w, s) /\ ErrorIsLast(p, a, ch, b) /\ PeerHolds(p, w, s, t)
  /\ FramesHold(p, ch, b, w, t) /\ WholeWhenComplete(p, ch, b, t)

Proxies == {"IDLE", "COMPLETE", "BROKEN"} \cup Carrying
Answers == {"NONE", "BUSY", "BAD_GATEWAY", "STREAM"}
Channels == {q \in Seq({"PIECE", "ERROR"}) : Len(q) <= Room}
Bodies == [got : 0..MaxPieces, ended : {"NO", "CLEAN", "ERROR", "LEFT"}]
Connected == {"NONE", "OPEN", "CLOSED"}
Wires == [frames : Seq(Frame), ended : {"NO", "FIN", "RESET", "LOST"}]
Servers == {"NONE", "OVER"} \cup AtWork
Targets == [made : 0..MaxPieces, ended : BOOLEAN]

LinkInv ==
  /\ proxy \in [Call -> Proxies] /\ answer \in [Call -> Answers]
  /\ channel \in [Call -> Channels] /\ body \in [Call -> Bodies]
  /\ handler \in [Call -> Connected] /\ wire \in [Call -> Wires]
  /\ server \in [Call -> Servers] /\ target \in [Call -> Targets]
  /\ \A c \in Call : CallHolds(proxy[c], answer[c], channel[c], body[c], wire[c], server[c],
                               target[c])

\* A step of one call.
Becomes(c, p, a, ch, b, h, w, s, t) ==
  /\ proxy' = [proxy EXCEPT ![c] = p] /\ answer' = [answer EXCEPT ![c] = a]
  /\ channel' = [channel EXCEPT ![c] = ch] /\ body' = [body EXCEPT ![c] = b]
  /\ handler' = [handler EXCEPT ![c] = h] /\ wire' = [wire EXCEPT ![c] = w]
  /\ server' = [server EXCEPT ![c] = s] /\ target' = [target EXCEPT ![c] = t]

LEMMA Becoming ==
  ASSUME LinkInv, NEW c \in Call, NEW p \in Proxies, NEW a \in Answers, NEW ch \in Channels,
         NEW b \in Bodies, NEW h \in Connected, NEW w \in Wires, NEW s \in Servers,
         NEW t \in Targets, Becomes(c, p, a, ch, b, h, w, s, t), CallHolds(p, a, ch, b, w, s, t)
  PROVE  LinkInv'
<1>1. /\ proxy' \in [Call -> Proxies] /\ answer' \in [Call -> Answers]
      /\ channel' \in [Call -> Channels] /\ body' \in [Call -> Bodies]
      /\ handler' \in [Call -> Connected] /\ wire' \in [Call -> Wires]
      /\ server' \in [Call -> Servers] /\ target' \in [Call -> Targets]
  BY DEF LinkInv, Becomes
<1>2. ASSUME NEW d \in Call
      PROVE  CallHolds(proxy'[d], answer'[d], channel'[d], body'[d], wire'[d], server'[d],
                       target'[d])
  <2>1. CASE d = c
    <3>1. /\ proxy'[d] = p /\ answer'[d] = a /\ channel'[d] = ch /\ body'[d] = b
          /\ wire'[d] = w /\ server'[d] = s /\ target'[d] = t
      BY <2>1 DEF LinkInv, Becomes
    <3> QED BY <3>1
  <2>2. CASE d # c
    <3>1. /\ proxy'[d] = proxy[d] /\ answer'[d] = answer[d] /\ channel'[d] = channel[d]
          /\ body'[d] = body[d] /\ wire'[d] = wire[d] /\ server'[d] = server[d]
          /\ target'[d] = target[d]
      BY <2>2 DEF LinkInv, Becomes
    <3> QED BY <3>1 DEF LinkInv
  <2> QED BY <2>1, <2>2
<1> QED BY <1>1, <1>2 DEF LinkInv, CallHolds, OpensInOrder, ErrorIsLast, PeerHolds, FramesHold,
                WholeWhenComplete, EndsInError, InHand, Piped, Heads, Zeros, Underway

\* What is said of a call is of numbers and of sequences.
LEMMA CallIs ==
  ASSUME LinkInv, NEW c \in Call
  PROVE  /\ proxy[c] \in Proxies /\ answer[c] \in Answers /\ channel[c] \in Channels
         /\ body[c] \in Bodies /\ handler[c] \in Connected /\ wire[c] \in Wires
         /\ server[c] \in Servers /\ target[c] \in Targets
         /\ CallHolds(proxy[c], answer[c], channel[c], body[c], wire[c], server[c], target[c])
BY DEF LinkInv

\* A step that leaves the channel, the body and the wire alone.
LEMMA LinkGoesOn ==
  ASSUME LinkInv, NEW c \in Call, NEW p \in Proxies, NEW a \in Answers, NEW h \in Connected,
         Becomes(c, p, a, channel[c], body[c], h, wire[c], server[c], target[c]),
         \/ <<proxy[c], p>> \in {<<"IDLE", "CONNECT">>, <<"CONNECT", "SENT">>} /\ a = answer[c]
         \/ p = "BROKEN" /\ a # "STREAM" /\ proxy[c] \in BeforeBody
         \/ p = proxy[c] /\ a = answer[c]
  PROVE  LinkInv'
<1> DEFINE ch == channel[c]
           b == body[c]
           w == wire[c]
           s == server[c]
           t == target[c]
           o == proxy[c]
<1>1. /\ ch \in Channels /\ b \in Bodies /\ w \in Wires /\ s \in Servers /\ t \in Targets
      /\ CallHolds(o, answer[c], ch, b, w, s, t) /\ o \in Proxies
  BY CallIs
<1>2. \/ <<o, p>> \in {<<"IDLE", "CONNECT">>, <<"CONNECT", "SENT">>} /\ a = answer[c]
      \/ p = "BROKEN" /\ a # "STREAM" /\ o \in BeforeBody
      \/ p = o /\ a = answer[c]
  OBVIOUS
<1>3. Becomes(c, p, a, ch, b, h, w, s, t)
  OBVIOUS
<1> HIDE DEF ch, b, w, s, t, o
<1>4. CASE p = o /\ a = answer[c]
  BY <1>1, <1>3, <1>4, Becoming
<1>5. CASE <<o, p>> \in {<<"IDLE", "CONNECT">>, <<"CONNECT", "SENT">>} /\ a = answer[c]
  <2>1. OpensInOrder(p, a, ch, b, w, s) /\ ErrorIsLast(p, a, ch, b)
    BY <1>1, <1>5 DEF CallHolds, OpensInOrder, ErrorIsLast, BeforeBody, Streams
  <2>2. PeerHolds(p, w, s, t)
    BY <1>1, <1>5 DEF CallHolds, PeerHolds, BeforeBody
  <2>3. FramesHold(p, ch, b, w, t)
    <3>1. Heads(p, w) = Heads(o, w) /\ InHand(p) = InHand(o) /\ Underway(p, w) = Underway(o, w)
      BY <1>5 DEF Heads, InHand, Underway, BeforeBody
    <3> QED BY <1>1, <1>5, <3>1 DEF CallHolds, FramesHold, BeforeBody
  <2>4. WholeWhenComplete(p, ch, b, t)
    BY <1>1, <1>5 DEF CallHolds, WholeWhenComplete, OpensInOrder, BeforeBody
  <2>5. CallHolds(p, a, ch, b, w, s, t)
    BY <2>1, <2>2, <2>3, <2>4 DEF CallHolds
  <2> QED BY <1>1, <1>3, <2>5, Becoming
<1>6. CASE p = "BROKEN" /\ a # "STREAM" /\ o \in BeforeBody
  <2>1. ch = <<>> /\ b.ended = "NO" /\ b.got = 0
    BY <1>1, <1>6 DEF CallHolds, OpensInOrder
  <2>2. OpensInOrder(p, a, ch, b, w, s) /\ ErrorIsLast(p, a, ch, b)
    BY <1>6, <2>1 DEF OpensInOrder, ErrorIsLast, BeforeBody, Streams, EndsInError
  <2>3. PeerHolds(p, w, s, t)
    BY <1>1, <1>6 DEF CallHolds, PeerHolds, BeforeBody
  <2>4. FramesHold(p, ch, b, w, t)
    BY <1>1, <1>6, <2>1 DEF FramesHold, BeforeBody, Piped, InHand, EndsInError, Targets
  <2>5. WholeWhenComplete(p, ch, b, t)
    BY <1>6, <2>1 DEF WholeWhenComplete
  <2>6. CallHolds(p, a, ch, b, w, s, t)
    BY <2>2, <2>3, <2>4, <2>5 DEF CallHolds
  <2> QED BY <1>1, <1>3, <2>6, Becoming
<1> QED BY <1>2, <1>4, <1>5, <1>6

\* A step of the task that leaves what the peer does alone.
LEMMA SetupKeeps ==
  ASSUME LinkInv, NEW c \in Call,
         asksLink(c) \/ sends(c) \/ failsSetup(c) \/ handlerEnds(c)
  PROVE  LinkInv'
<1>1. /\ proxy[c] \in Proxies /\ answer[c] \in Answers /\ handler[c] \in Connected
  BY CallIs
<1>2. /\ proxy = [proxy EXCEPT ![c] = proxy[c]] /\ answer = [answer EXCEPT ![c] = answer[c]]
      /\ channel = [channel EXCEPT ![c] = channel[c]] /\ body = [body EXCEPT ![c] = body[c]]
      /\ handler = [handler EXCEPT ![c] = handler[c]] /\ wire = [wire EXCEPT ![c] = wire[c]]
      /\ server = [server EXCEPT ![c] = server[c]] /\ target = [target EXCEPT ![c] = target[c]]
  BY DEF LinkInv
<1> USE DEF Proxies, Carrying, Answers, Connected, BeforeBody
<1>3. CASE asksLink(c) /\ HasPermit(Outbound)
  <2>1. /\ Becomes(c, "CONNECT", answer[c], channel[c], body[c], handler[c], wire[c], server[c],
                   target[c])
        /\ proxy[c] = "IDLE"
    BY <1>2, <1>3 DEF asksLink, Becomes, Peer
  <2> QED BY <1>1, <2>1, LinkGoesOn
<1>4. CASE asksLink(c) /\ ~HasPermit(Outbound)
  <2>1. /\ Becomes(c, "BROKEN", "BUSY", channel[c], body[c], handler[c], wire[c], server[c],
                   target[c])
        /\ proxy[c] = "IDLE"
    BY <1>2, <1>4 DEF asksLink, Becomes, Peer
  <2> QED BY <1>1, <2>1, LinkGoesOn
<1>5. CASE sends(c)
  <2>1. /\ Becomes(c, "SENT", answer[c], channel[c], body[c], handler[c], wire[c], server[c],
                   target[c])
        /\ proxy[c] = "CONNECT"
    BY <1>2, <1>5 DEF sends, Becomes, Peer
  <2> QED BY <1>1, <2>1, LinkGoesOn
<1>6. CASE failsSetup(c)
  <2>1. /\ Becomes(c, "BROKEN", "BAD_GATEWAY", channel[c], body[c], handler[c], wire[c], server[c],
                   target[c])
        /\ proxy[c] \in {"CONNECT", "SENT"}
    BY <1>2, <1>6 DEF failsSetup, Becomes, Peer
  <2> QED BY <1>1, <2>1, LinkGoesOn
<1>7. CASE handlerEnds(c)
  <2>1. Becomes(c, proxy[c], answer[c], channel[c], body[c], "CLOSED", wire[c], server[c],
                target[c])
    BY <1>2, <1>7 DEF handlerEnds, Becomes, Local
  <2> QED BY <1>1, <2>1, LinkGoesOn
<1> QED BY <1>3, <1>4, <1>5, <1>6, <1>7

\* The first of a sequence is taken.
LEMMA TailIs ==
  ASSUME NEW S, NEW q \in Seq(S), q # <<>>
  PROVE  /\ Tail(q) \in Seq(S) /\ Len(q) \in Nat /\ Len(q) >= 1 /\ Len(Tail(q)) = Len(q) - 1
         /\ \A i \in 1..(Len(q) - 1) : Tail(q)[i] = q[i + 1]
         /\ Head(q) = q[1]
OBVIOUS

\* Something is added to a sequence.
LEMMA AppendIs ==
  ASSUME NEW S, NEW q \in Seq(S), NEW x \in S
  PROVE  /\ Append(q, x) \in Seq(S) /\ Len(q) \in Nat /\ Len(Append(q, x)) = Len(q) + 1
         /\ Append(q, x)[Len(q) + 1] = x
         /\ \A i \in 1..Len(q) : Append(q, x)[i] = q[i]
         /\ q \o <<x>> = Append(q, x)
OBVIOUS

LEMMA OpensBodyKeeps == ASSUME LinkInv, NEW c \in Call, opensBody(c) PROVE LinkInv'
<1> DEFINE ch == channel[c]
           b == body[c]
           w == wire[c]
           s == server[c]
           t == target[c]
           x == [w EXCEPT !.frames = Tail(@)]
<1>1. /\ ch \in Channels /\ b \in Bodies /\ w \in Wires /\ s \in Servers /\ t \in Targets
      /\ handler[c] \in Connected /\ CallHolds("SENT", answer[c], ch, b, w, s, t)
      /\ w.frames # <<>> /\ w.ended # "LOST"
  BY CallIs DEF opensBody
<1>2. Becomes(c, "PUMP", "STREAM", ch, b, handler[c], x, s, t)
  BY DEF opensBody, Becomes, Peer, LinkInv
<1>3. "PUMP" \in Proxies /\ "STREAM" \in Answers
  BY DEF Proxies, Carrying, Answers
<1>4. /\ x \in Wires /\ x.ended = w.ended /\ Len(x.frames) = Len(w.frames) - 1
      /\ Len(w.frames) \in Nat /\ Len(w.frames) >= 1
      /\ \A i \in 1..(Len(w.frames) - 1) : x.frames[i] = w.frames[i + 1]
  BY <1>1, TailIs DEF Wires
<1> HIDE DEF ch, b, w, s, t, x
<1>5. ch = <<>> /\ b.got = 0 /\ b.ended = "NO"
  BY <1>1 DEF CallHolds, OpensInOrder, BeforeBody
<1>6. s \in {"COPY", "OVER"}
  BY <1>1 DEF CallHolds, PeerHolds, Servers, AtWork
<1>7. OpensInOrder("PUMP", "STREAM", ch, b, x, s) /\ ErrorIsLast("PUMP", "STREAM", ch, b)
  BY <1>5, <1>6 DEF OpensInOrder, ErrorIsLast, BeforeBody, EndsInError
<1>8. PeerHolds("PUMP", x, s, t)
  BY <1>1, <1>4, <1>6 DEF CallHolds, PeerHolds, BeforeBody
<1>9. FramesHold("PUMP", ch, b, x, t)
  <2>1. /\ Heads("SENT", w) = 1 /\ Heads("PUMP", x) = 0 /\ Zeros(x) = Zeros(w)
        /\ Zeros(w) \in {0, 1} /\ InHand("SENT") = 0 /\ InHand("PUMP") = 0
    BY <1>1, <1>4 DEF Heads, Zeros, BeforeBody, InHand
  <2>2. Underway("PUMP", x) = Underway("SENT", w)
    BY <1>4, <2>1 DEF Underway
  <2>3. FramesHold("SENT", ch, b, w, t)
    BY <1>1 DEF CallHolds
  <2>4. \A i \in 1..Len(x.frames) : i <= Len(x.frames) - Zeros(x) => x.frames[i] = "PIECE"
    BY <1>1, <1>4, <2>1, <2>3 DEF FramesHold, BeforeBody
  <2>5. w.ended = "FIN" => x.frames[Len(x.frames)] = "ZERO"
    <3>1. w.ended = "FIN" => Len(w.frames) >= 2
      BY <1>1, <1>4, <2>1, <2>3 DEF FramesHold, BeforeBody, Underway, Zeros
    <3> QED BY <1>1, <1>4, <2>3, <3>1 DEF FramesHold, BeforeBody
  <2> QED BY <1>1, <1>4, <2>1, <2>2, <2>3, <2>4, <2>5 DEF FramesHold, BeforeBody
<1>10. WholeWhenComplete("PUMP", ch, b, t)
  BY <1>5 DEF WholeWhenComplete
<1>11. CallHolds("PUMP", "STREAM", ch, b, x, s, t)
  BY <1>7, <1>8, <1>9, <1>10 DEF CallHolds
<1> QED BY <1>1, <1>2, <1>3, <1>4, <1>11, Becoming

LEMMA ReceivesKeeps == ASSUME LinkInv, NEW c \in Call, receives(c) PROVE LinkInv'
<1> DEFINE a == answer[c]
           ch == channel[c]
           b == body[c]
           w == wire[c]
           s == server[c]
           t == target[c]
           x == [w EXCEPT !.frames = Tail(@)]
<1>1. /\ ch \in Channels /\ b \in Bodies /\ w \in Wires /\ s \in Servers /\ t \in Targets
      /\ a \in Answers /\ handler[c] \in Connected /\ CallHolds("PUMP", a, ch, b, w, s, t)
      /\ w.frames # <<>> /\ Head(w.frames) = "PIECE"
  BY CallIs DEF receives
<1>2. Becomes(c, "GIVE", a, ch, b, handler[c], x, s, t)
  BY DEF receives, Becomes, Peer, LinkInv
<1>3. "GIVE" \in Proxies
  BY DEF Proxies, Carrying
<1>4. /\ x \in Wires /\ x.ended = w.ended /\ Len(x.frames) = Len(w.frames) - 1
      /\ Len(w.frames) \in Nat /\ Len(w.frames) >= 1 /\ w.frames[1] = "PIECE"
      /\ \A i \in 1..(Len(w.frames) - 1) : x.frames[i] = w.frames[i + 1]
  BY <1>1, TailIs DEF Wires
<1> HIDE DEF ch, b, w, s, t, x, a
<1>5. OpensInOrder("GIVE", a, ch, b, x, s) /\ ErrorIsLast("GIVE", a, ch, b)
  BY <1>1 DEF CallHolds, OpensInOrder, ErrorIsLast, BeforeBody, Streams
<1>6. PeerHolds("GIVE", x, s, t)
  <2>1. s \in {"COPY", "OVER"}
    BY <1>1 DEF CallHolds, OpensInOrder, Streams
  <2> QED BY <1>1, <1>4, <2>1 DEF CallHolds, PeerHolds, BeforeBody
<1>7. FramesHold("GIVE", ch, b, x, t)
  <2>1. /\ Heads("PUMP", w) = 0 /\ Heads("GIVE", x) = 0 /\ Zeros(x) = Zeros(w)
        /\ Zeros(w) \in {0, 1} /\ InHand("PUMP") = 0 /\ InHand("GIVE") = 1
    BY <1>1, <1>4 DEF Heads, Zeros, BeforeBody, InHand
  <2>2. FramesHold("PUMP", ch, b, w, t)
    BY <1>1 DEF CallHolds
  <2>3. CASE w.ended = "LOST"
    BY <1>1, <2>3 DEF CallHolds, PeerHolds
  <2>4. CASE w.ended # "LOST"
    <3>1. Zeros(w) = 1 => Len(w.frames) >= 2
      BY <1>1, <1>4, <2>1, <2>2, <2>4 DEF FramesHold, Zeros
    <3>2. Underway("GIVE", x) = Underway("PUMP", w) - 1 /\ Underway("GIVE", x) >= 0
      BY <1>4, <2>1, <3>1 DEF Underway
    <3>3. Piped(ch) \in Int /\ b.got \in Int /\ t.made \in Int /\ Underway("PUMP", w) \in Int
      BY <1>1, <1>4, <2>1 DEF Piped, Channels, Bodies, Targets, Underway
    <3>4. b.got + Piped(ch) + 1 + Underway("GIVE", x) = t.made
      BY <2>1, <2>2, <2>4, <3>2, <3>3 DEF FramesHold
    <3>5. ASSUME NEW i \in 1..Len(x.frames), i <= Len(x.frames) - Zeros(x)
          PROVE  x.frames[i] = "PIECE"
      <4>1. i + 1 \in 1..Len(w.frames) /\ i + 1 > 0 /\ i + 1 <= Len(w.frames) - Zeros(w)
        BY <1>4, <2>1, <3>5
      <4>2. w.frames[i + 1] = "PIECE"
        BY <2>1, <2>2, <2>4, <4>1 DEF FramesHold
      <4> QED BY <1>4, <4>2
    <3>6. w.ended = "FIN" => x.frames[Len(x.frames)] = "ZERO"
      BY <1>4, <2>1, <2>2, <2>4, <3>1 DEF FramesHold, Zeros
    <3>7. b.got + Piped(ch) + 1 <= t.made
      BY <1>4, <2>1, <3>2, <3>3, <3>4 DEF Underway
    <3> QED BY <1>4, <2>1, <3>2, <3>4, <3>5, <3>6, <3>7 DEF FramesHold, BeforeBody
  <2> QED BY <2>3, <2>4
<1>8. WholeWhenComplete("GIVE", ch, b, t)
  BY <1>1 DEF CallHolds, WholeWhenComplete
<1>9. CallHolds("GIVE", a, ch, b, x, s, t)
  BY <1>5, <1>6, <1>7, <1>8 DEF CallHolds
<1> QED BY <1>1, <1>2, <1>3, <1>4, <1>9, Becoming

\* What is said of the wire is of a task that gives, pumps or has broken off, of what its
\* channel and body come to together.
LEMMA FramesCarry ==
  ASSUME NEW w \in Wires, NEW t \in Targets, NEW b \in Bodies, NEW d \in Bodies,
         NEW ch \in Channels, NEW x \in Channels,
         NEW o \in {"PUMP", "GIVE", "BROKEN", "COMPLETE"}, NEW p \in Proxies \ BeforeBody,
         p \in {"PUMP", "GIVE"} => o \in {"PUMP", "GIVE"}, FramesHold(o, ch, b, w, t),
         \/ d.got + Piped(x) + InHand(p) = b.got + Piped(ch) + InHand(o)
         \/ /\ d.got + Piped(x) + InHand(p) <= b.got + Piped(ch) + InHand(o)
            /\ p \in {"BROKEN", "COMPLETE"}
  PROVE  FramesHold(p, x, d, w, t)
<1>1. /\ Heads(o, w) = 0 /\ Heads(p, w) = 0 /\ Underway(p, w) = Underway(o, w)
  BY DEF Heads, Underway, BeforeBody
<1>2. /\ b.got + Piped(ch) + InHand(o) \in Int /\ d.got + Piped(x) + InHand(p) \in Int
      /\ t.made \in Int
  BY DEF Bodies, Channels, Piped, InHand, Targets
<1>3. CASE p \in {"BROKEN", "COMPLETE"}
  BY <1>2, <1>3 DEF FramesHold, BeforeBody
<1>4. CASE p \notin {"BROKEN", "COMPLETE"}
  BY <1>1, <1>2, <1>4 DEF FramesHold, BeforeBody
<1> QED BY <1>3, <1>4

LEMMA GivesKeeps == ASSUME LinkInv, NEW c \in Call, gives(c) PROVE LinkInv'
<1> DEFINE a == answer[c]
           ch == channel[c]
           b == body[c]
           w == wire[c]
           s == server[c]
           t == target[c]
           x == Append(ch, "PIECE")
<1>1. /\ ch \in Channels /\ b \in Bodies /\ w \in Wires /\ s \in Servers /\ t \in Targets
      /\ a \in Answers /\ handler[c] \in Connected /\ CallHolds("GIVE", a, ch, b, w, s, t)
      /\ Len(ch) < Room /\ b.ended = "NO"
  BY CallIs DEF gives, ChannelHasRoom
<1>2. Becomes(c, "PUMP", a, x, b, handler[c], w, s, t)
  BY DEF gives, Becomes, Peer, LinkInv
<1>3. "PUMP" \in Proxies /\ "PUMP" \in Proxies \ BeforeBody
  BY DEF Proxies, Carrying, BeforeBody
<1>4. /\ x \in Seq({"PIECE", "ERROR"}) /\ Len(ch) \in Nat /\ Len(x) = Len(ch) + 1
      /\ x[Len(ch) + 1] = "PIECE" /\ \A i \in 1..Len(ch) : x[i] = ch[i]
  BY <1>1, AppendIs DEF Channels
<1>5. x \in Channels
  BY <1>1, <1>4, LinkAssumption DEF Channels
<1> HIDE DEF ch, b, w, s, t, x, a
<1>6. ~EndsInError(ch) /\ ~EndsInError(x)
  BY <1>1, <1>4 DEF CallHolds, ErrorIsLast, EndsInError
<1>7. OpensInOrder("PUMP", a, x, b, w, s)
  BY <1>1 DEF CallHolds, OpensInOrder, BeforeBody, Streams
<1>8. ErrorIsLast("PUMP", a, x, b)
  <2>1. \A i \in 1..Len(ch) : ch[i] = "PIECE"
    BY <1>1, <1>4, <1>6 DEF CallHolds, ErrorIsLast, EndsInError, Channels
  <2> QED BY <1>4, <1>6, <2>1 DEF ErrorIsLast
<1>9. PeerHolds("PUMP", w, s, t)
  BY <1>1 DEF CallHolds, PeerHolds, BeforeBody
<1>10. FramesHold("PUMP", x, b, w, t)
  <2>1. b.got + Piped(x) + InHand("PUMP") = b.got + Piped(ch) + InHand("GIVE")
    BY <1>1, <1>4, <1>6 DEF Piped, InHand, Bodies
  <2>2. FramesHold("GIVE", ch, b, w, t)
    BY <1>1 DEF CallHolds
  <2> QED BY <1>1, <1>3, <1>5, <2>1, <2>2, FramesCarry
<1>11. WholeWhenComplete("PUMP", x, b, t)
  BY <1>1 DEF WholeWhenComplete
<1>12. CallHolds("PUMP", a, x, b, w, s, t)
  BY <1>7, <1>8, <1>9, <1>10, <1>11 DEF CallHolds
<1> QED BY <1>1, <1>2, <1>3, <1>5, <1>12, Becoming

LEMMA CompletesKeeps == ASSUME LinkInv, NEW c \in Call, completes(c) PROVE LinkInv'
<1> DEFINE a == answer[c]
           ch == channel[c]
           b == body[c]
           w == wire[c]
           s == server[c]
           t == target[c]
<1>1. /\ ch \in Channels /\ b \in Bodies /\ w \in Wires /\ s \in Servers /\ t \in Targets
      /\ a \in Answers /\ handler[c] \in Connected /\ CallHolds("PUMP", a, ch, b, w, s, t)
      /\ w.frames = <<"ZERO">> /\ w.ended = "FIN"
  BY CallIs DEF completes, Terminated
<1>2. Becomes(c, "COMPLETE", a, ch, b, handler[c], w, s, t)
  BY DEF completes, Becomes, Peer, LinkInv
<1>3. "COMPLETE" \in Proxies /\ "COMPLETE" \in Proxies \ BeforeBody
  BY DEF Proxies, Carrying, BeforeBody
<1> HIDE DEF ch, b, w, s, t, a
<1>4. OpensInOrder("COMPLETE", a, ch, b, w, s) /\ ErrorIsLast("COMPLETE", a, ch, b)
  BY <1>1 DEF CallHolds, OpensInOrder, BeforeBody, Streams, ErrorIsLast
<1>5. PeerHolds("COMPLETE", w, s, t)
  BY <1>1 DEF CallHolds, PeerHolds, BeforeBody
<1>6. FramesHold("PUMP", ch, b, w, t) /\ ~EndsInError(ch)
  BY <1>1 DEF CallHolds, ErrorIsLast
<1>7. InHand("COMPLETE") = 0 /\ InHand("PUMP") = 0
  BY DEF InHand
<1>8. FramesHold("COMPLETE", ch, b, w, t)
  BY <1>1, <1>3, <1>6, <1>7, FramesCarry
<1>9. WholeWhenComplete("COMPLETE", ch, b, t)
  <2>1. Underway("PUMP", w) = 0
    BY <1>1 DEF Underway, Heads, Zeros, BeforeBody
  <2>2. b.got + Len(ch) = t.made
    BY <1>1, <1>6, <1>7, <2>1 DEF FramesHold, Piped, Bodies, Channels
  <2>3. t.ended
    BY <1>1 DEF CallHolds, PeerHolds
  <2>4. b.ended # "CLEAN"
    BY <1>1 DEF CallHolds, WholeWhenComplete
  <2> QED BY <2>2, <2>3, <2>4 DEF WholeWhenComplete
<1>10. CallHolds("COMPLETE", a, ch, b, w, s, t)
  BY <1>4, <1>5, <1>8, <1>9 DEF CallHolds
<1> QED BY <1>1, <1>2, <1>3, <1>10, Becoming

\* A pump that breaks off has told the consumer, found no room to, or has none to tell.
LEMMA BreaksOffKeeps ==
  ASSUME LinkInv, NEW c \in Call, interrupts(c) \/ timesOut(c) PROVE LinkInv'
<1> DEFINE o == proxy[c]
           a == answer[c]
           ch == channel[c]
           b == body[c]
           w == wire[c]
           s == server[c]
           t == target[c]
           x == IF Len(ch) < Room /\ b.ended = "NO" THEN Append(ch, "ERROR") ELSE ch
<1>1. /\ ch \in Channels /\ b \in Bodies /\ w \in Wires /\ s \in Servers /\ t \in Targets
      /\ a \in Answers /\ handler[c] \in Connected /\ CallHolds(o, a, ch, b, w, s, t)
      /\ o \in {"PUMP", "GIVE"}
  BY CallIs DEF interrupts, timesOut, Timed
<1>2. Becomes(c, "BROKEN", a, x, b, handler[c], w, s, t)
  BY DEF interrupts, timesOut, BreaksOff, Told, ChannelHasRoom, Becomes, Peer, LinkInv
<1>3. "BROKEN" \in Proxies /\ "BROKEN" \in Proxies \ BeforeBody
  BY DEF Proxies, Carrying, BeforeBody
<1>4. /\ ch \in Seq({"PIECE", "ERROR"}) /\ Len(ch) \in Nat /\ Len(ch) <= Room
      /\ LET y == Append(ch, "ERROR") IN
         /\ y \in Seq({"PIECE", "ERROR"}) /\ Len(y) = Len(ch) + 1
         /\ y[Len(ch) + 1] = "ERROR" /\ \A i \in 1..Len(ch) : y[i] = ch[i]
  BY <1>1, AppendIs DEF Channels
<1>5. /\ x \in Channels
      /\ \/ Len(x) = Len(ch) + 1 /\ x[Len(x)] = "ERROR" /\ \A i \in 1..Len(ch) : x[i] = ch[i]
         \/ x = ch /\ (Len(ch) >= Room \/ b.ended # "NO")
  <2>1. CASE Len(ch) < Room /\ b.ended = "NO"
    <3>1. x = Append(ch, "ERROR")
      BY <2>1
    <3> HIDE DEF x
    <3> QED BY <1>4, <2>1, <3>1, LinkAssumption DEF Channels
  <2>2. CASE ~(Len(ch) < Room /\ b.ended = "NO")
    <3>1. x = ch
      BY <2>2
    <3> HIDE DEF x
    <3> QED BY <1>1, <1>4, <2>2, <3>1, LinkAssumption
  <2> QED BY <2>1, <2>2
<1> HIDE DEF ch, b, w, s, t, x, a, o
<1>6. ~EndsInError(ch) /\ \A i \in 1..Len(ch) : ch[i] = "PIECE"
  BY <1>1, <1>4 DEF CallHolds, ErrorIsLast, EndsInError
<1>7. OpensInOrder("BROKEN", a, x, b, w, s)
  BY <1>1 DEF CallHolds, OpensInOrder, BeforeBody, Streams
<1>8. ErrorIsLast("BROKEN", a, x, b)
  <2>1. CASE Len(x) = Len(ch) + 1 /\ x[Len(x)] = "ERROR" /\ \A i \in 1..Len(ch) : x[i] = ch[i]
    BY <1>4, <1>6, <2>1 DEF ErrorIsLast, EndsInError
  <2>2. CASE x = ch /\ (Len(ch) >= Room \/ b.ended # "NO")
    <3>1. b.got \in Nat /\ Room \in Nat
      BY <1>1, LinkAssumption DEF Bodies
    <3> QED BY <1>4, <1>6, <2>2, <3>1 DEF ErrorIsLast
  <2> QED BY <1>5, <2>1, <2>2
<1>9. PeerHolds("BROKEN", w, s, t)
  BY <1>1 DEF CallHolds, PeerHolds, BeforeBody
<1>10. FramesHold("BROKEN", x, b, w, t)
  <2>1. Piped(x) = Piped(ch)
    BY <1>4, <1>5, <1>6 DEF Piped, EndsInError
  <2>2. b.got + Piped(x) + InHand("BROKEN") <= b.got + Piped(ch) + InHand(o)
    BY <1>1, <1>4, <1>6, <2>1 DEF InHand, Piped, Bodies
  <2>3. FramesHold(o, ch, b, w, t)
    BY <1>1 DEF CallHolds
  <2> QED BY <1>1, <1>3, <1>5, <2>2, <2>3, FramesCarry
<1>11. WholeWhenComplete("BROKEN", x, b, t)
  BY <1>1 DEF CallHolds, WholeWhenComplete
<1>12. CallHolds("BROKEN", a, x, b, w, s, t)
  BY <1>7, <1>8, <1>9, <1>10, <1>11 DEF CallHolds
<1> QED BY <1>1, <1>2, <1>3, <1>5, <1>12, Becoming

-----------------------------------------------------------------------------
(* The link: the consumer.                                                 *)

LEMMA TakesKeeps == ASSUME LinkInv, NEW c \in Call, takes(c) PROVE LinkInv'
<1> DEFINE p == proxy[c]
           a == answer[c]
           ch == channel[c]
           b == body[c]
           w == wire[c]
           s == server[c]
           t == target[c]
           x == Tail(ch)
           d == IF Head(ch) = "PIECE" THEN [b EXCEPT !.got = @ + 1]
                ELSE [b EXCEPT !.ended = "ERROR"]
<1>1. /\ ch \in Channels /\ b \in Bodies /\ w \in Wires /\ s \in Servers /\ t \in Targets
      /\ a \in Answers /\ handler[c] \in Connected /\ CallHolds(p, a, ch, b, w, s, t)
      /\ ch # <<>> /\ b.ended = "NO" /\ p \in Proxies
  BY CallIs DEF takes
<1>2. Becomes(c, p, a, x, d, handler[c], w, s, t)
  <2>1. CASE Head(ch) = "PIECE"
    <3>1. d = [b EXCEPT !.got = @ + 1]
      BY <2>1
    <3>2. body' = [body EXCEPT ![c] = d]
      BY <2>1, <3>1 DEF takes, LinkInv
    <3> HIDE DEF d
    <3> QED BY <3>2 DEF takes, Becomes, Peer, LinkInv
  <2>2. CASE Head(ch) # "PIECE"
    <3>1. d = [b EXCEPT !.ended = "ERROR"]
      BY <2>2
    <3>2. body' = [body EXCEPT ![c] = d]
      BY <2>2, <3>1 DEF takes, LinkInv
    <3> HIDE DEF d
    <3> QED BY <3>2 DEF takes, Becomes, Peer, LinkInv
  <2> QED BY <2>1, <2>2
<1>3. /\ x \in Seq({"PIECE", "ERROR"}) /\ Len(ch) \in Nat /\ Len(ch) >= 1
      /\ Len(x) = Len(ch) - 1 /\ \A i \in 1..(Len(ch) - 1) : x[i] = ch[i + 1]
      /\ Head(ch) = ch[1] /\ ch[1] \in {"PIECE", "ERROR"} /\ Len(ch) <= Room
  BY <1>1, TailIs DEF Channels
<1>4. x \in Channels
  BY <1>1, <1>3, LinkAssumption DEF Channels
<1> HIDE DEF ch, w, s, t, x, a, p
<1>5. p \in {"PUMP", "GIVE", "BROKEN", "COMPLETE"} /\ p \in Proxies \ BeforeBody
  BY <1>1 DEF CallHolds, OpensInOrder, Proxies, BeforeBody, Carrying
<1>6. /\ \A i \in 1..(Len(ch) - 1) : ch[i] = "PIECE"
      /\ EndsInError(ch) => p = "BROKEN"
      /\ b.got \in Nat /\ t.made \in 0..MaxPieces /\ MaxPieces \in Nat
  BY <1>1, LinkAssumption DEF CallHolds, ErrorIsLast, Bodies, Targets
<1>7. CASE ch[1] = "PIECE"
  <2>1. d = [b EXCEPT !.got = @ + 1]
    BY <1>3, <1>7
  <2>2. /\ EndsInError(x) <=> EndsInError(ch)
        /\ Piped(x) = Piped(ch) - 1 /\ Piped(x) >= 0 /\ Piped(ch) \in Nat /\ Piped(x) \in Nat
    BY <1>3, <1>6, <1>7 DEF EndsInError, Piped
  <2>3. b.got + Piped(ch) + InHand(p) <= t.made /\ InHand(p) \in {0, 1}
    BY <1>1 DEF CallHolds, FramesHold, InHand
  <2>4. b.got + 1 \in 0..MaxPieces
    BY <1>6, <2>2, <2>3
  <2>5. d \in Bodies /\ d.got = b.got + 1 /\ d.ended = "NO"
    BY <1>1, <2>1, <2>4 DEF Bodies
  <2> HIDE DEF d, b
  <2>6. OpensInOrder(p, a, x, d, w, s)
    BY <1>1, <1>5, <2>5 DEF CallHolds, OpensInOrder, BeforeBody
  <2>7. ErrorIsLast(p, a, x, d)
    <3>1. \A i \in 1..(Len(x) - 1) : x[i] = "PIECE"
      BY <1>3, <1>6
    <3>2. p = "BROKEN" /\ a = "STREAM" => EndsInError(x) \/ d.got + Len(x) >= Room
      BY <1>1, <1>3, <1>6, <2>2, <2>5, LinkAssumption DEF CallHolds, ErrorIsLast
    <3> QED BY <1>6, <2>2, <3>1, <3>2 DEF ErrorIsLast
  <2>8. FramesHold(p, x, d, w, t)
    <3>1. d.got + Piped(x) + InHand(p) = b.got + Piped(ch) + InHand(p)
      BY <1>6, <2>2, <2>3, <2>5
    <3>2. FramesHold(p, ch, b, w, t)
      BY <1>1 DEF CallHolds
    <3> QED BY <1>1, <1>4, <1>5, <2>5, <3>1, <3>2, FramesCarry
  <2>9. WholeWhenComplete(p, x, d, t)
    <3>1. p = "COMPLETE" => t.ended /\ b.got + Len(ch) = t.made
      BY <1>1 DEF CallHolds, WholeWhenComplete
    <3> QED BY <1>3, <1>6, <2>5, <3>1 DEF WholeWhenComplete
  <2>10. CallHolds(p, a, x, d, w, s, t)
    BY <1>1, <2>6, <2>7, <2>8, <2>9 DEF CallHolds
  <2> QED BY <1>1, <1>2, <1>4, <2>5, <2>10, Becoming
<1>8. CASE ch[1] = "ERROR"
  <2>1. d = [b EXCEPT !.ended = "ERROR"]
    BY <1>3, <1>8
  <2>2. d \in Bodies /\ d.got = b.got /\ d.ended = "ERROR"
    BY <1>1, <2>1 DEF Bodies
  <2>3. Len(ch) = 1 /\ Len(x) = 0 /\ p = "BROKEN" /\ x = <<>>
    BY <1>3, <1>6, <1>8 DEF EndsInError
  <2> HIDE DEF d, b
  <2>4. Piped(x) = 0 /\ Piped(ch) = 0
    BY <1>3, <1>8, <2>3 DEF Piped, EndsInError
  <2>5. a = "STREAM" /\ OpensInOrder(p, a, x, d, w, s)
    <3>1. a = "STREAM"
      BY <1>1 DEF CallHolds, OpensInOrder
    <3> QED BY <1>1, <2>2, <2>3, <3>1 DEF CallHolds, OpensInOrder, BeforeBody, Streams
  <2>6. ErrorIsLast(p, a, x, d)
    BY <2>2, <2>3 DEF ErrorIsLast, EndsInError
  <2>7. FramesHold(p, x, d, w, t)
    <3>1. d.got + Piped(x) + InHand(p) = b.got + Piped(ch) + InHand(p)
      BY <2>2, <2>4
    <3>2. FramesHold(p, ch, b, w, t)
      BY <1>1 DEF CallHolds
    <3> QED BY <1>1, <1>4, <1>5, <2>2, <3>1, <3>2, FramesCarry
  <2>8. WholeWhenComplete(p, x, d, t)
    BY <2>2, <2>3 DEF WholeWhenComplete
  <2>9. CallHolds(p, a, x, d, w, s, t)
    BY <1>1, <2>5, <2>6, <2>7, <2>8 DEF CallHolds
  <2> QED BY <1>1, <1>2, <1>4, <2>2, <2>9, Becoming
<1> QED BY <1>3, <1>7, <1>8

LEMMA BodyEndsKeeps ==
  ASSUME LinkInv, NEW c \in Call, bodyEnds(c) \/ consumerLeaves(c) PROVE LinkInv'
<1> DEFINE p == proxy[c]
           a == answer[c]
           ch == channel[c]
           b == body[c]
           w == wire[c]
           s == server[c]
           t == target[c]
<1>1. /\ ch \in Channels /\ b \in Bodies /\ w \in Wires /\ s \in Servers /\ t \in Targets
      /\ a = "STREAM" /\ handler[c] \in Connected /\ CallHolds(p, a, ch, b, w, s, t)
      /\ b.ended = "NO" /\ p \in Proxies /\ a \in Answers
  BY CallIs DEF bodyEnds, consumerLeaves
<1>2. PICK to \in {"CLEAN", "LEFT"} :
        /\ Becomes(c, p, a, ch, [b EXCEPT !.ended = to], handler[c], w, s, t)
        /\ to = "CLEAN" => ch = <<>> /\ p \in {"COMPLETE", "BROKEN"}
  <2>1. CASE bodyEnds(c)
    <3>1. /\ Becomes(c, p, a, ch, [b EXCEPT !.ended = "CLEAN"], handler[c], w, s, t)
          /\ ch = <<>> /\ p \in {"COMPLETE", "BROKEN"}
      BY <2>1 DEF bodyEnds, Becomes, Peer, LinkInv
    <3> QED BY <3>1
  <2>2. CASE consumerLeaves(c)
    <3>1. Becomes(c, p, a, ch, [b EXCEPT !.ended = "LEFT"], handler[c], w, s, t)
      BY <2>2 DEF consumerLeaves, Becomes, Peer, LinkInv
    <3> QED BY <3>1
  <2> QED BY <2>1, <2>2
<1> DEFINE d == [b EXCEPT !.ended = to]
<1>3. d \in Bodies /\ d.got = b.got /\ d.ended = to
  BY <1>1 DEF Bodies
<1>4. Becomes(c, p, a, ch, d, handler[c], w, s, t)
  BY <1>2
<1>5. to = "CLEAN" => ch = <<>> /\ p \in {"COMPLETE", "BROKEN"}
  BY <1>2
<1> HIDE DEF ch, w, s, t, a, p, b, d
<1>6. p \in {"PUMP", "GIVE", "BROKEN", "COMPLETE"} /\ p \in Proxies \ BeforeBody
  BY <1>1 DEF CallHolds, OpensInOrder, Proxies, BeforeBody, Carrying
<1>7. OpensInOrder(p, a, ch, d, w, s) /\ ErrorIsLast(p, a, ch, d)
  BY <1>1, <1>3, <1>6 DEF CallHolds, OpensInOrder, ErrorIsLast, BeforeBody
<1>8. FramesHold(p, ch, d, w, t)
  <2>1. d.got + Piped(ch) + InHand(p) = b.got + Piped(ch) + InHand(p) /\ FramesHold(p, ch, b, w, t)
    BY <1>1, <1>3 DEF CallHolds
  <2> QED BY <1>1, <1>3, <1>6, <2>1, FramesCarry
<1>9. WholeWhenComplete(p, ch, d, t)
  <2>1. p = "COMPLETE" => t.ended /\ b.got + Len(ch) = t.made
    BY <1>1 DEF CallHolds, WholeWhenComplete
  <2>2. to = "CLEAN" /\ p = "BROKEN" => b.got >= Room
    <3>1. ch = <<>> => ~EndsInError(ch) /\ Len(ch) = 0
      BY DEF EndsInError
    <3> QED BY <1>1, <1>5, <3>1 DEF CallHolds, ErrorIsLast, Bodies
  <2> QED BY <1>3, <1>5, <2>1, <2>2 DEF WholeWhenComplete
<1>10. CallHolds(p, a, ch, d, w, s, t)
  BY <1>1, <1>7, <1>8, <1>9 DEF CallHolds
<1> QED BY <1>1, <1>3, <1>4, <1>10, Becoming

-----------------------------------------------------------------------------
(* The link: the peer.                                                     *)

\* A step of the peer leaves what the consumer has alone.
LEMMA PeerMoves ==
  ASSUME LinkInv, NEW c \in Call, NEW h \in Connected, NEW w \in Wires, NEW s \in Servers,
         NEW t \in Targets,
         Becomes(c, proxy[c], answer[c], channel[c], body[c], h, w, s, t),
         proxy[c] \in {"IDLE", "CONNECT"} => s = "NONE",
         proxy[c] \in Streams => s \in {"COPY", "OVER"},
         proxy[c] = "COMPLETE" => t = target[c],
         PeerHolds(proxy[c], w, s, t), FramesHold(proxy[c], channel[c], body[c], w, t)
  PROVE  LinkInv'
<1>1. /\ proxy[c] \in Proxies /\ answer[c] \in Answers /\ channel[c] \in Channels
      /\ body[c] \in Bodies
      /\ CallHolds(proxy[c], answer[c], channel[c], body[c], wire[c], server[c], target[c])
  BY CallIs
<1>2. OpensInOrder(proxy[c], answer[c], channel[c], body[c], w, s)
  BY <1>1 DEF CallHolds, OpensInOrder
<1>3. WholeWhenComplete(proxy[c], channel[c], body[c], t)
  BY <1>1 DEF CallHolds, WholeWhenComplete
<1>4. CallHolds(proxy[c], answer[c], channel[c], body[c], w, s, t)
  BY <1>1, <1>2, <1>3 DEF CallHolds
<1> QED BY <1>1, <1>4, Becoming

\* A connection that is lost, or refused, has nothing more under way.
LEMMA LosesKeeps ==
  ASSUME LinkInv, NEW c \in Call, acceptsConnection(c) \/ loses(c) PROVE LinkInv'
<1> DEFINE p == proxy[c]
           ch == channel[c]
           b == body[c]
           w == wire[c]
           s == server[c]
           t == target[c]
           none == [frames |-> <<>>, ended |-> "LOST"]
<1>1. /\ ch \in Channels /\ b \in Bodies /\ w \in Wires /\ s \in Servers /\ t \in Targets
      /\ p \in Proxies /\ handler[c] \in Connected /\ answer[c] \in Answers
      /\ CallHolds(p, answer[c], ch, b, w, s, t)
  BY CallIs
<1>2. CASE acceptsConnection(c) /\ HasPermit(Connections)
  <2>1. Becomes(c, p, answer[c], ch, b, "OPEN", w, s, t)
    BY <1>2 DEF acceptsConnection, Becomes, LinkInv
  <2>2. "OPEN" \in Connected
    BY DEF Connected
  <2> QED BY <1>1, <2>1, <2>2, LinkGoesOn
<1>3. CASE ~(acceptsConnection(c) /\ HasPermit(Connections))
  <2>1. Becomes(c, p, answer[c], ch, b, handler[c], none, s, t)
    <3>1. CASE loses(c)
      BY <3>1 DEF loses, Local, Peer, Becomes, LinkInv
    <3>2. CASE acceptsConnection(c)
      <4>1. w.frames = <<>>
        BY <1>1, <3>2 DEF acceptsConnection, CallHolds, OpensInOrder, PeerHolds
      <4>2. none = [w EXCEPT !.ended = "LOST"]
        BY <1>1, <4>1 DEF Wires
      <4>3. wire' = [wire EXCEPT ![c] = none]
        BY <1>3, <3>2, <4>2 DEF acceptsConnection
      <4> HIDE DEF none
      <4> QED BY <1>3, <3>2, <4>3 DEF acceptsConnection, Becomes, LinkInv
    <3> QED BY <3>1, <3>2
  <2>2. none \in Wires
    <3>1. <<>> \in Seq(Frame)
      OBVIOUS
    <3> QED BY <3>1 DEF Wires
  <2>3. none.frames = <<>> /\ none.ended = "LOST"
    OBVIOUS
  <2> HIDE DEF p, ch, b, w, s, t, none
  <2>4. PeerHolds(p, none, s, t)
    BY <1>1, <2>3 DEF CallHolds, PeerHolds
  <2>5. FramesHold(p, ch, b, none, t)
    BY <1>1, <2>3 DEF CallHolds, FramesHold
  <2>6. /\ p \in {"IDLE", "CONNECT"} => s = "NONE"
        /\ p \in Streams => s \in {"COPY", "OVER"}
    BY <1>1 DEF CallHolds, OpensInOrder
  <2> USE DEF p, ch, b, s, t
  <2> QED BY <1>1, <2>1, <2>2, <2>4, <2>5, <2>6, PeerMoves
<1> QED BY <1>2, <1>3

\* A stream that is accepted, and a request that has been read: nothing is written yet.
LEMMA ReadsKeeps ==
  ASSUME LinkInv, NEW c \in Call,
         (acceptsStream(c) /\ HasPermit(Inbound)) \/ asksTarget(c)
  PROVE  LinkInv'
<1> DEFINE p == proxy[c]
           ch == channel[c]
           b == body[c]
           w == wire[c]
           s == server[c]
           t == target[c]
<1>1. /\ ch \in Channels /\ b \in Bodies /\ w \in Wires /\ s \in Servers /\ t \in Targets
      /\ p \in Proxies /\ handler[c] \in Connected /\ answer[c] \in Answers
      /\ CallHolds(p, answer[c], ch, b, w, s, t)
  BY CallIs
<1>2. PICK n \in {"READ", "ASK"} :
        /\ Becomes(c, p, answer[c], ch, b, handler[c], w, n, t)
        /\ (s = "NONE" /\ p = "SENT") \/ s = "READ"
  <2>1. CASE acceptsStream(c) /\ HasPermit(Inbound)
    <3>1. /\ Becomes(c, p, answer[c], ch, b, handler[c], w, "READ", t)
          /\ s = "NONE" /\ p = "SENT"
      BY <2>1 DEF acceptsStream, Local, Becomes, LinkInv
    <3> QED BY <3>1
  <2>2. CASE asksTarget(c)
    <3>1. Becomes(c, p, answer[c], ch, b, handler[c], w, "ASK", t) /\ s = "READ"
      BY <2>2 DEF asksTarget, Local, Becomes, LinkInv
    <3> QED BY <3>1
  <2> QED BY <2>1, <2>2
<1>3. n \in Servers
  BY DEF Servers, AtWork
<1> HIDE DEF p, ch, b, w, s, t
<1>4. PeerHolds(p, w, n, t)
  BY <1>1, <1>2 DEF CallHolds, PeerHolds, AtWork
<1>5. FramesHold(p, ch, b, w, t)
  BY <1>1 DEF CallHolds
<1>6. p \notin {"IDLE", "CONNECT"} /\ p \notin Streams
  BY <1>1, <1>2 DEF CallHolds, OpensInOrder, Streams
<1> USE DEF p, ch, b, w, s, t
<1> QED BY <1>1, <1>2, <1>3, <1>4, <1>5, <1>6, PeerMoves

\* A stream that is reset: what was written before is still under way.
LEMMA ResetsKeeps ==
  ASSUME LinkInv, NEW c \in Call,
         (acceptsStream(c) /\ ~HasPermit(Inbound)) \/ failsServing(c)
  PROVE  LinkInv'
<1> DEFINE p == proxy[c]
           ch == channel[c]
           b == body[c]
           w == wire[c]
           s == server[c]
           t == target[c]
           x == [w EXCEPT !.ended = IF @ = "NO" THEN "RESET" ELSE @]
<1>1. /\ ch \in Channels /\ b \in Bodies /\ w \in Wires /\ s \in Servers /\ t \in Targets
      /\ p \in Proxies /\ handler[c] \in Connected /\ answer[c] \in Answers
      /\ CallHolds(p, answer[c], ch, b, w, s, t)
  BY CallIs
<1>2. Becomes(c, p, answer[c], ch, b, handler[c], x, "OVER", t)
  BY DEF acceptsStream, failsServing, Resets, Local, Becomes, LinkInv
<1>3. s \in AtWork \/ (s = "NONE" /\ p = "SENT")
  BY DEF acceptsStream, failsServing
<1>4. /\ x \in Wires /\ x.frames = w.frames
      /\ x.ended = IF w.ended = "NO" THEN "RESET" ELSE w.ended
  BY <1>1 DEF Wires
<1>5. "OVER" \in Servers
  BY DEF Servers
<1> HIDE DEF p, ch, b, w, s, t, x
<1>6. w.ended # "FIN" /\ x.ended # "FIN" /\ (x.ended = "LOST" <=> w.ended = "LOST")
  BY <1>1, <1>3, <1>4 DEF CallHolds, PeerHolds
<1>7. PeerHolds(p, x, "OVER", t)
  BY <1>1, <1>4, <1>6 DEF CallHolds, PeerHolds, AtWork
<1>8. FramesHold(p, ch, b, x, t)
  <2>1. Heads(p, x) = Heads(p, w) /\ Zeros(x) = Zeros(w) /\ Underway(p, x) = Underway(p, w)
    BY <1>4, <1>6 DEF Heads, Zeros, Underway
  <2> QED BY <1>1, <1>4, <1>6, <2>1 DEF CallHolds, FramesHold
<1>9. p \notin {"IDLE", "CONNECT"}
  BY <1>1, <1>3 DEF CallHolds, OpensInOrder, AtWork
<1> USE DEF p, ch, b, w, s, t
<1> QED BY <1>1, <1>2, <1>4, <1>5, <1>7, <1>8, <1>9, PeerMoves

\* What the peer writes goes to the end of what is under way.
LEMMA AnswersKeeps == ASSUME LinkInv, NEW c \in Call, targetAnswers(c) PROVE LinkInv'
<1> DEFINE p == proxy[c]
           ch == channel[c]
           b == body[c]
           w == wire[c]
           s == server[c]
           t == target[c]
           x == [w EXCEPT !.frames = @ \o <<"HEAD">>]
<1>1. /\ ch \in Channels /\ b \in Bodies /\ w \in Wires /\ t \in Targets
      /\ p \in Proxies /\ handler[c] \in Connected /\ answer[c] \in Answers
      /\ CallHolds(p, answer[c], ch, b, w, "ASK", t) /\ w.ended = "NO"
  BY CallIs DEF targetAnswers
<1>2. Becomes(c, p, answer[c], ch, b, handler[c], x, "COPY", t)
  BY DEF targetAnswers, Writes, Local, Becomes, LinkInv
<1>3. w.frames = <<>> /\ t.made = 0 /\ ~t.ended
  BY <1>1 DEF CallHolds, PeerHolds, AtWork
<1>4. x \in Wires /\ x.frames = <<"HEAD">> /\ x.ended = "NO"
  <2>1. w.frames \o <<"HEAD">> = <<"HEAD">>
    BY <1>3
  <2> QED BY <1>1, <2>1 DEF Wires, Frame
<1>5. "COPY" \in Servers
  BY DEF Servers, AtWork
<1> HIDE DEF p, ch, b, w, s, t, x
<1>6. PeerHolds(p, x, "COPY", t)
  BY <1>1, <1>3, <1>4 DEF CallHolds, PeerHolds, AtWork
<1>7. p \notin {"IDLE", "CONNECT"} /\ p \notin Streams /\ (p = "SENT" \/ p = "BROKEN")
  BY <1>1 DEF CallHolds, OpensInOrder, Streams, Proxies, Carrying
<1>8. FramesHold(p, ch, b, x, t)
  <2>1. CASE p = "SENT"
    <3>1. /\ Heads(p, x) = 1 /\ Zeros(x) = 0 /\ Underway(p, x) = 0 /\ x.frames[1] = "HEAD"
          /\ Len(x.frames) = 1
      BY <1>4, <2>1 DEF Heads, Zeros, Underway, BeforeBody
    <3>2. b.got = 0 /\ Piped(ch) = 0 /\ InHand(p) = 0
      BY <1>1, <2>1 DEF CallHolds, OpensInOrder, BeforeBody, Piped, EndsInError, InHand
    <3> QED BY <1>3, <1>4, <3>1, <3>2 DEF FramesHold
  <2>2. CASE p = "BROKEN"
    BY <1>1, <2>2 DEF CallHolds, FramesHold, BeforeBody
  <2> QED BY <1>7, <2>1, <2>2
<1> USE DEF p, ch, b, w, s, t
<1> QED BY <1>1, <1>2, <1>4, <1>5, <1>6, <1>7, <1>8, PeerMoves DEF Streams

LEMMA CopiesKeeps == ASSUME LinkInv, NEW c \in Call, copies(c) PROVE LinkInv'
<1> DEFINE p == proxy[c]
           ch == channel[c]
           b == body[c]
           w == wire[c]
           t == target[c]
           x == [w EXCEPT !.frames = @ \o <<"PIECE">>]
           m == [t EXCEPT !.made = @ + 1]
<1>1. /\ ch \in Channels /\ b \in Bodies /\ w \in Wires /\ t \in Targets
      /\ p \in Proxies /\ handler[c] \in Connected /\ answer[c] \in Answers
      /\ CallHolds(p, answer[c], ch, b, w, "COPY", t) /\ w.ended = "NO" /\ t.made < MaxPieces
  BY CallIs DEF copies
<1>2. Becomes(c, p, answer[c], ch, b, handler[c], x, "COPY", m)
  BY DEF copies, Writes, Local, Becomes, LinkInv
<1>3. /\ x.ended = "NO" /\ Len(w.frames) \in Nat /\ Len(x.frames) = Len(w.frames) + 1
      /\ x.frames[Len(w.frames) + 1] = "PIECE"
      /\ \A i \in 1..Len(w.frames) : x.frames[i] = w.frames[i]
      /\ x \in Wires
  <2>1. w.frames \in Seq(Frame) /\ "PIECE" \in Frame
    BY <1>1 DEF Wires, Frame
  <2>2. w.frames \o <<"PIECE">> = Append(w.frames, "PIECE")
    BY <2>1, AppendIs
  <2>3. x = [w EXCEPT !.frames = Append(w.frames, "PIECE")]
    BY <2>2
  <2>4. x.frames = Append(w.frames, "PIECE") /\ x.ended = w.ended /\ x \in Wires
    <3> DEFINE y == Append(w.frames, "PIECE")
    <3>1. y \in Seq(Frame) /\ x = [w EXCEPT !.frames = y]
      BY <2>1, <2>3, AppendIs
    <3> HIDE DEF x, y
    <3>2. x.frames = y /\ x.ended = w.ended /\ x \in Wires
      BY <1>1, <3>1 DEF Wires
    <3> QED BY <3>2 DEF y
  <2> HIDE DEF x
  <2> QED BY <1>1, <2>1, <2>4, AppendIs
<1>4. /\ m \in Targets /\ m.made = t.made + 1 /\ m.ended = t.ended /\ t.made \in Nat
  BY <1>1, LinkAssumption DEF Targets
<1>5. "COPY" \in Servers
  BY DEF Servers, AtWork
<1> HIDE DEF p, ch, b, w, t, x, m
<1>6. /\ p \notin {"IDLE", "CONNECT"} /\ p # "COMPLETE" /\ ~t.ended
      /\ p = "SENT" => w.frames # <<>>
  BY <1>1 DEF CallHolds, OpensInOrder, PeerHolds, WholeWhenComplete, AtWork, BeforeBody
<1>7. Len(x.frames) >= 1 /\ x.frames # <<>> /\ (w.frames # <<>> => Len(w.frames) >= 1)
  <2>1. w.frames \in Seq(Frame) /\ x.frames \in Seq(Frame)
    BY <1>1, <1>3 DEF Wires
  <2> QED BY <1>3, <2>1
<1>8. PeerHolds(p, x, "COPY", m)
  BY <1>3, <1>4, <1>6, <1>7 DEF PeerHolds, AtWork
<1>9. FramesHold(p, ch, b, x, m)
  <2>1. /\ Heads(p, x) = Heads(p, w) /\ Heads(p, w) \in {0, 1} /\ Zeros(x) = 0 /\ Zeros(w) = 0
        /\ Heads(p, w) = 1 => Len(w.frames) >= 1
    BY <1>1, <1>3, <1>6, <1>7 DEF Heads, Zeros, BeforeBody
  <2>2. Underway(p, x) = Underway(p, w) + 1
    BY <1>3, <2>1 DEF Underway
  <2>3. FramesHold(p, ch, b, w, t)
    BY <1>1 DEF CallHolds
  <2>4. b.got + Piped(ch) + InHand(p) \in Int /\ Underway(p, w) \in Int
    BY <1>1, <1>3, <2>1 DEF Bodies, Channels, Piped, InHand, Underway
  <2>5. b.got + Piped(ch) + InHand(p) <= m.made
    BY <1>4, <2>3, <2>4 DEF FramesHold
  <2>6. CASE p \in BeforeBody \cup {"PUMP", "GIVE"}
    <3>1. /\ Heads(p, w) = 1 => w.frames[1] = "HEAD"
          /\ \A i \in 1..Len(w.frames) :
               i > Heads(p, w) /\ i <= Len(w.frames) - Zeros(w) => w.frames[i] = "PIECE"
          /\ Underway(p, w) >= 0
          /\ b.got + Piped(ch) + InHand(p) + Underway(p, w) = t.made
      BY <1>1, <2>3, <2>6 DEF FramesHold
    <3>2. Heads(p, x) = 1 => x.frames[1] = "HEAD"
      BY <1>3, <2>1, <3>1
    <3>3. ASSUME NEW i \in 1..Len(x.frames), i > Heads(p, x) PROVE x.frames[i] = "PIECE"
      <4>1. CASE i = Len(w.frames) + 1
        BY <1>3, <4>1
      <4>2. CASE i # Len(w.frames) + 1
        BY <1>3, <2>1, <3>1, <3>3, <4>2
      <4> QED BY <4>1, <4>2
    <3>4. b.got + Piped(ch) + InHand(p) + Underway(p, x) = m.made /\ Underway(p, x) >= 0
      BY <1>4, <2>2, <2>4, <3>1
    <3> QED BY <1>3, <2>5, <3>2, <3>3, <3>4 DEF FramesHold
  <2>7. CASE p \notin BeforeBody \cup {"PUMP", "GIVE"}
    BY <2>5, <2>7 DEF FramesHold
  <2> QED BY <2>6, <2>7
<1> USE DEF p, ch, b, w, t
<1> QED BY <1>1, <1>2, <1>3, <1>4, <1>5, <1>6, <1>8, <1>9, PeerMoves

LEMMA FinishesKeeps == ASSUME LinkInv, NEW c \in Call, finishes(c) PROVE LinkInv'
<1> DEFINE p == proxy[c]
           ch == channel[c]
           b == body[c]
           w == wire[c]
           t == target[c]
           x == [frames |-> Append(w.frames, "ZERO"), ended |-> "FIN"]
           m == [t EXCEPT !.ended = TRUE]
<1>1. /\ ch \in Channels /\ b \in Bodies /\ w \in Wires /\ t \in Targets
      /\ p \in Proxies /\ handler[c] \in Connected /\ answer[c] \in Answers
      /\ CallHolds(p, answer[c], ch, b, w, "COPY", t) /\ w.ended = "NO"
  BY CallIs DEF finishes
<1>2. Becomes(c, p, answer[c], ch, b, handler[c], x, "OVER", m)
  BY DEF finishes, Local, Becomes, LinkInv
<1>3. /\ x.ended = "FIN" /\ Len(w.frames) \in Nat /\ Len(x.frames) = Len(w.frames) + 1
      /\ x.frames[Len(w.frames) + 1] = "ZERO"
      /\ \A i \in 1..Len(w.frames) : x.frames[i] = w.frames[i]
      /\ x \in Wires
  <2>1. w.frames \in Seq(Frame) /\ "ZERO" \in Frame
    BY <1>1 DEF Wires, Frame
  <2>2. x.frames = Append(w.frames, "ZERO") /\ x.ended = "FIN" /\ x \in Wires
    BY <2>1, AppendIs DEF Wires
  <2> HIDE DEF x
  <2> QED BY <2>1, <2>2, AppendIs
<1>4. m \in Targets /\ m.made = t.made /\ m.ended /\ t.made \in Nat
  <2>1. t \in Targets
    BY <1>1
  <2> HIDE DEF t
  <2>2. m \in Targets
    BY <2>1 DEF Targets
  <2>3. m.made = t.made
    BY <2>1 DEF Targets
  <2>4. m.ended
    BY <2>1 DEF Targets
  <2>5. t.made \in Nat
    BY <2>1, LinkAssumption DEF Targets
  <2> QED BY <2>2, <2>3, <2>4, <2>5
<1>5. "OVER" \in Servers
  BY DEF Servers
<1> HIDE DEF p, ch, b, w, t, x, m
<1>6. /\ p \notin {"IDLE", "CONNECT"} /\ p # "COMPLETE"
      /\ p = "SENT" => w.frames # <<>>
  BY <1>1 DEF CallHolds, OpensInOrder, PeerHolds, WholeWhenComplete, AtWork, BeforeBody
<1>7. Len(x.frames) >= 1 /\ x.frames # <<>> /\ (w.frames # <<>> => Len(w.frames) >= 1)
  <2>1. w.frames \in Seq(Frame) /\ x.frames \in Seq(Frame)
    BY <1>1, <1>3 DEF Wires
  <2> QED BY <1>3, <2>1
<1>8. PeerHolds(p, x, "OVER", m)
  BY <1>3, <1>4, <1>7 DEF PeerHolds, AtWork
<1>9. FramesHold(p, ch, b, x, m)
  <2>1. /\ Heads(p, x) = Heads(p, w) /\ Heads(p, w) \in {0, 1} /\ Zeros(x) = 1 /\ Zeros(w) = 0
        /\ Heads(p, w) = 1 => Len(w.frames) >= 1
    BY <1>1, <1>3, <1>6, <1>7 DEF Heads, Zeros, BeforeBody
  <2>2. Underway(p, x) = Underway(p, w)
    BY <1>3, <2>1 DEF Underway
  <2>3. FramesHold(p, ch, b, w, t)
    BY <1>1 DEF CallHolds
  <2>4. b.got + Piped(ch) + InHand(p) <= m.made
    BY <1>4, <2>3 DEF FramesHold
  <2>5. CASE p \in BeforeBody \cup {"PUMP", "GIVE"}
    <3>1. /\ Heads(p, w) = 1 => w.frames[1] = "HEAD"
          /\ \A i \in 1..Len(w.frames) :
               i > Heads(p, w) /\ i <= Len(w.frames) - Zeros(w) => w.frames[i] = "PIECE"
          /\ Underway(p, w) >= 0
          /\ b.got + Piped(ch) + InHand(p) + Underway(p, w) = t.made
      BY <1>1, <2>3, <2>5 DEF FramesHold
    <3>2. Heads(p, x) = 1 => x.frames[1] = "HEAD"
      BY <1>3, <2>1, <3>1
    <3>3. ASSUME NEW i \in 1..Len(x.frames), i > Heads(p, x), i <= Len(x.frames) - Zeros(x)
          PROVE  x.frames[i] = "PIECE"
      BY <1>3, <2>1, <3>1, <3>3
    <3>4. b.got + Piped(ch) + InHand(p) + Underway(p, x) = m.made /\ Underway(p, x) >= 0
      BY <1>4, <2>2, <3>1
    <3> QED BY <1>3, <2>4, <3>2, <3>3, <3>4 DEF FramesHold
  <2>6. CASE p \notin BeforeBody \cup {"PUMP", "GIVE"}
    BY <2>4, <2>6 DEF FramesHold
  <2> QED BY <2>5, <2>6
<1> USE DEF p, ch, b, w, t
<1> QED BY <1>1, <1>2, <1>3, <1>4, <1>5, <1>6, <1>8, <1>9, PeerMoves DEF Streams

LEMMA LinkStart == LinkInit => LinkInv
<1> SUFFICES ASSUME LinkInit PROVE LinkInv
  OBVIOUS
<1> DEFINE b == [got |-> 0, ended |-> "NO"]
           w == [frames |-> <<>>, ended |-> "NO"]
           t == [made |-> 0, ended |-> FALSE]
<1>1. /\ "IDLE" \in Proxies /\ "NONE" \in Answers /\ <<>> \in Channels /\ "NONE" \in Connected
      /\ "NONE" \in Servers
  BY LinkAssumption DEF Proxies, Answers, Channels, Connected, Servers
<1>2. b \in Bodies /\ b.got = 0 /\ b.ended = "NO"
  BY LinkAssumption DEF Bodies
<1>3. w \in Wires /\ w.frames = <<>> /\ w.ended = "NO"
  <2>1. <<>> \in Seq(Frame)
    OBVIOUS
  <2> QED BY <2>1 DEF Wires
<1>4. t \in Targets /\ t.made = 0
  BY LinkAssumption DEF Targets
<1>5. ~t.ended
  OBVIOUS
<1>6. /\ proxy = [c \in Call |-> "IDLE"] /\ answer = [c \in Call |-> "NONE"]
      /\ channel = [c \in Call |-> <<>>] /\ body = [c \in Call |-> b]
      /\ handler = [c \in Call |-> "NONE"] /\ wire = [c \in Call |-> w]
      /\ server = [c \in Call |-> "NONE"] /\ target = [c \in Call |-> t]
  BY DEF LinkInit
<1> HIDE DEF b, w, t
<1>7. OpensInOrder("IDLE", "NONE", <<>>, b, w, "NONE") /\ ErrorIsLast("IDLE", "NONE", <<>>, b)
  BY <1>2 DEF OpensInOrder, ErrorIsLast, Streams, EndsInError
<1>8. PeerHolds("IDLE", w, "NONE", t)
  BY <1>3, <1>4, <1>5 DEF PeerHolds
<1>9. FramesHold("IDLE", <<>>, b, w, t)
  <2>1. Heads("IDLE", w) = 0 /\ Zeros(w) = 0 /\ Underway("IDLE", w) = 0
    BY <1>3 DEF Heads, Zeros, Underway
  <2>2. Piped(<<>>) = 0 /\ InHand("IDLE") = 0
    BY DEF Piped, EndsInError, InHand
  <2> QED BY <1>2, <1>3, <1>4, <2>1, <2>2 DEF FramesHold
<1>10. WholeWhenComplete("IDLE", <<>>, b, t)
  BY <1>2 DEF WholeWhenComplete
<1>11. CallHolds("IDLE", "NONE", <<>>, b, w, "NONE", t)
  BY <1>7, <1>8, <1>9, <1>10 DEF CallHolds
<1>12. ASSUME NEW c \in Call
       PROVE  CallHolds(proxy[c], answer[c], channel[c], body[c], wire[c], server[c], target[c])
  BY <1>6, <1>11
<1> QED BY <1>1, <1>2, <1>3, <1>4, <1>6, <1>12 DEF LinkInv

LEMMA LinkStep == LinkInv /\ [LinkNext]_linkVars => LinkInv'
<1> SUFFICES ASSUME LinkInv, [LinkNext]_linkVars PROVE LinkInv'
  OBVIOUS
<1>1. ASSUME NEW c \in Call,
             \/ asksLink(c) \/ acceptsConnection(c) \/ sends(c) \/ opensBody(c) \/ failsSetup(c)
             \/ receives(c) \/ gives(c) \/ completes(c) \/ interrupts(c) \/ timesOut(c)
             \/ takes(c) \/ bodyEnds(c) \/ consumerLeaves(c)
             \/ acceptsStream(c) \/ asksTarget(c) \/ targetAnswers(c) \/ copies(c) \/ finishes(c)
             \/ failsServing(c) \/ stopsServing(c) \/ handlerEnds(c) \/ loses(c)
      PROVE  LinkInv'
  <2>1. CASE asksLink(c) \/ sends(c) \/ failsSetup(c) \/ handlerEnds(c)
    BY <2>1, SetupKeeps
  <2>2. CASE acceptsConnection(c) \/ loses(c)
    BY <2>2, LosesKeeps
  <2>3. CASE opensBody(c) \/ receives(c) \/ gives(c) \/ completes(c)
    BY <2>3, OpensBodyKeeps, ReceivesKeeps, GivesKeeps, CompletesKeeps
  <2>4. CASE interrupts(c) \/ timesOut(c)
    BY <2>4, BreaksOffKeeps
  <2>5. CASE takes(c) \/ bodyEnds(c) \/ consumerLeaves(c)
    BY <2>5, TakesKeeps, BodyEndsKeeps
  <2>6. CASE acceptsStream(c) \/ asksTarget(c)
    BY <2>6, ReadsKeeps, ResetsKeeps
  <2>7. CASE targetAnswers(c) \/ copies(c) \/ finishes(c)
    BY <2>7, AnswersKeeps, CopiesKeeps, FinishesKeeps
  <2>8. CASE failsServing(c) \/ stopsServing(c)
    BY <2>8, ResetsKeeps DEF stopsServing
  <2> QED BY <1>1, <2>1, <2>2, <2>3, <2>4, <2>5, <2>6, <2>7, <2>8
<1>2. CASE LinkNext
  <2>1. PICK c \in Call :
          \/ asksLink(c) \/ acceptsConnection(c) \/ sends(c) \/ opensBody(c) \/ failsSetup(c)
          \/ receives(c) \/ gives(c) \/ completes(c) \/ interrupts(c) \/ timesOut(c)
          \/ takes(c) \/ bodyEnds(c) \/ consumerLeaves(c)
          \/ acceptsStream(c) \/ asksTarget(c) \/ targetAnswers(c) \/ copies(c) \/ finishes(c)
          \/ failsServing(c) \/ stopsServing(c) \/ handlerEnds(c) \/ loses(c)
    BY <1>2, Zenon DEF LinkNext
  <2> QED BY <1>1, <2>1
<1>3. CASE UNCHANGED linkVars
  <2>1. /\ proxy' = proxy /\ answer' = answer /\ channel' = channel /\ body' = body
        /\ handler' = handler /\ wire' = wire /\ server' = server /\ target' = target
    BY <1>3 DEF linkVars
  <2>2. ASSUME NEW c \in Call
        PROVE  CallHolds(proxy'[c], answer'[c], channel'[c], body'[c], wire'[c], server'[c],
                         target'[c])
    BY <2>1 DEF LinkInv
  <2> QED BY <2>1, <2>2 DEF LinkInv, CallHolds, OpensInOrder, ErrorIsLast, PeerHolds,
                  FramesHold, WholeWhenComplete, EndsInError, InHand, Piped, Heads, Zeros,
                  Underway
<1> QED BY <1>2, <1>3

LEMMA LinkInvHolds == LinkSpec => []LinkInv
BY LinkStart, LinkStep, PTL DEF LinkSpec

\* A body that ends cleanly is the whole response, or its consumer took at least as much
\* as there is room for before the task broke off and could not tell it.
LEMMA LinkEnds == LinkInv => LinkTypeOK /\ EndIsWholeIfTaken
<1> SUFFICES ASSUME LinkInv PROVE LinkTypeOK /\ EndIsWholeIfTaken
  OBVIOUS
<1>1. LinkTypeOK
  BY DEF LinkInv, LinkTypeOK, Proxies, Answers, Channels, Bodies, Connected, Wires, Servers,
         Targets
<1>2. ASSUME NEW c \in Call, body[c].ended = "CLEAN"
      PROVE  AllTaken(c) \/ body[c].got >= Room
  <2>1. body[c] \in Bodies /\ WholeWhenComplete(proxy[c], channel[c], body[c], target[c])
    BY CallIs DEF CallHolds
  <2>2. CASE proxy[c] = "COMPLETE"
    <3>1. target[c].ended /\ body[c].got + Len(channel[c]) = target[c].made
      BY <2>1, <2>2 DEF WholeWhenComplete
    <3>2. Len(channel[c]) = 0 /\ body[c].got \in Int
      BY <1>2, <2>1 DEF WholeWhenComplete, Bodies
    <3> QED BY <3>1, <3>2 DEF AllTaken
  <2>3. CASE proxy[c] # "COMPLETE"
    BY <1>2, <2>1, <2>3 DEF WholeWhenComplete
  <2> QED BY <2>2, <2>3
<1> QED BY <1>1, <1>2 DEF EndIsWholeIfTaken

-----------------------------------------------------------------------------
(***************************************************************************)
(* The tunnel.  A side has a slot for one tunnel, and its counters follow  *)
(* the one that forwards; a link that has drained has no task left.        *)
(***************************************************************************)
Task == {"NONE", "OVER", "ABORTED"} \cup Working
Slotted == {"REPLY", "FORWARD"}

\* The tunnels that are open on a side, and what it has counted of them.
SideCounts(d) ==
  /\ counters[d].active = IF \E t \in Tunnel : task[d][t] = "FORWARD" THEN 1 ELSE 0
  /\ counters[d].accepted = counters[d].active + counters[d].closed
LinkOver(d) ==
  /\ rpc[d] \in {"DRAINED", "FREED", "FAILED"} => \A t \in Tunnel : task[d][t] \notin Working
  /\ rpc[d] = "FREED" => d \notin socket

OneAtRoot ==
  \A t, u \in Tunnel : task["root"][t] \in Working /\ task["root"][u] \in Working => t = u
OneAtStage ==
  \A t, u \in Tunnel : task["stage"][t] \in Slotted /\ task["stage"][u] \in Slotted => t = u
GuardIsHeld == \A t \in Tunnel : guard[t] = "OPEN" => task["stage"][t] \in Slotted
StageHasSeen == \A t \in Tunnel : task["stage"][t] # "NONE" => quic[t] # "NONE"

TunnelInv ==
  /\ TunnelTypeOK
  /\ OneAtRoot /\ OneAtStage /\ GuardIsHeld /\ StageHasSeen
  /\ \A d \in Side : SideCounts(d) /\ LinkOver(d)

LEMMA TunnelTypes ==
  ASSUME TunnelTypeOK
  PROVE  /\ \A d \in Side : /\ counters[d] \in Counters
                            /\ \A t \in Tunnel : task[d][t] \in Task
         /\ \A d \in Side : /\ counters[d].active \in Nat /\ counters[d].accepted \in Nat
                            /\ counters[d].rejected \in Nat /\ counters[d].closed \in Nat
<1>1. \A d \in Side : counters[d] \in Counters /\ \A t \in Tunnel : task[d][t] \in Task
  BY DEF TunnelTypeOK, Task
<1> QED BY <1>1 DEF Counters

\* The task of one tunnel moves on one side.
LEMMA MovesIs ==
  ASSUME TunnelTypeOK, NEW d \in Side, NEW t \in Tunnel, NEW to \in Task, Moves(d, t, to)
  PROVE  /\ task' \in [Side -> [Tunnel -> Task]]
         /\ \A e \in Side : \A u \in Tunnel :
              task'[e][u] = IF e = d /\ u = t THEN to ELSE task[e][u]
BY DEF TunnelTypeOK, Moves, Task

\* What a side counts when a tunnel has begun to forward, and when a task has ended.
LEMMA ForwardsIs ==
  ASSUME TunnelTypeOK, NEW d \in Side, NEW t \in Tunnel, Forwards(d, t)
  PROVE  /\ counters' \in [Side -> Counters]
         /\ \A e \in Side : e # d => counters'[e] = counters[e]
         /\ counters'[d].active = counters[d].active + 1
         /\ counters'[d].accepted = counters[d].accepted + 1
         /\ counters'[d].closed = counters[d].closed
BY TunnelTypes DEF TunnelTypeOK, Forwards, Counters

LEMMA RejectsIs ==
  ASSUME TunnelTypeOK, NEW d \in Side, Rejects(d)
  PROVE  /\ counters' \in [Side -> Counters]
         /\ \A e \in Side : /\ counters'[e].active = counters[e].active
                            /\ counters'[e].accepted = counters[e].accepted
                            /\ counters'[e].closed = counters[e].closed
BY TunnelTypes DEF TunnelTypeOK, Rejects, Counters

EndsAs(d, t, to) == Ends(d, t, to, TRUE) \/ Ends(d, t, to, FALSE)

LEMMA EndsIs ==
  ASSUME TunnelTypeOK, NEW d \in Side, NEW t \in Tunnel, NEW to, EndsAs(d, t, to),
         task[d][t] = "FORWARD" => counters[d].active = 1
  PROVE  /\ counters' \in [Side -> Counters]
         /\ \A e \in Side : e # d => counters'[e] = counters[e]
         /\ counters'[d].accepted = counters[d].accepted
         /\ IF task[d][t] = "FORWARD"
            THEN /\ counters'[d].active = counters[d].active - 1
                 /\ counters'[d].closed = counters[d].closed + 1
            ELSE /\ counters'[d].active = counters[d].active
                 /\ counters'[d].closed = counters[d].closed
<1>1. counters \in [Side -> Counters]
  BY DEF TunnelTypeOK
<1>2. CASE task[d][t] = "FORWARD"
  <2>1. counters' = [counters EXCEPT ![d].active = @ - 1, ![d].closed = @ + 1]
    BY <1>2 DEF EndsAs, Ends, Counted
  <2> QED BY <1>1, <1>2, <2>1, TunnelTypes DEF Counters
<1>3. CASE task[d][t] # "FORWARD"
  <2>1. Rejects(d) \/ counters' = counters
    BY <1>3 DEF EndsAs, Ends, Counted, Rejects
  <2>2. CASE Rejects(d)
    <3>1. \A e \in Side : e # d => counters'[e] = counters[e]
      BY <1>1, <2>2 DEF Rejects
    <3> QED BY <1>3, <2>2, <3>1, RejectsIs
  <2> QED BY <1>1, <1>3, <2>1, <2>2
<1> QED BY <1>2, <1>3

\* A step that moves no task: connections come and go, and a link is closed.
LEMMA TasksStayKeeps ==
  ASSUME TunnelInv, TunnelTypeOK', task' = task,
         \A t \in Tunnel : quic'[t] = "NONE" => quic[t] = "NONE",
         \A t \in Tunnel : guard'[t] = "OPEN" => guard[t] = "OPEN",
         \A e \in Side : /\ counters'[e].active = counters[e].active
                         /\ counters'[e].accepted = counters[e].accepted
                         /\ counters'[e].closed = counters[e].closed,
         \A e \in Side : LinkOver(e)'
  PROVE  TunnelInv'
BY DEF TunnelInv, OneAtRoot, OneAtStage, GuardIsHeld, StageHasSeen, SideCounts

\* A step in which only links and connections change.
LEMMA SidesKeep ==
  ASSUME TunnelInv,
         \/ \E t \in Tunnel : closesEnd(t) \/ losesTunnel(t)
         \/ \E d \in Side : closeLink(d) \/ drained(d) \/ releases(d) \/ closed(d)
  PROVE  TunnelInv'
<1> USE DEF TunnelInv
<1>1. ASSUME NEW t \in Tunnel, closesEnd(t) \/ losesTunnel(t) PROVE TunnelInv'
  <2>1. /\ task' = task /\ counters' = counters /\ rpc' = rpc /\ socket' = socket
        /\ replied' = replied
    BY <1>1 DEF closesEnd, losesTunnel, Links
  <2>2. TunnelTypeOK'
    BY <1>1, <2>1 DEF TunnelTypeOK, closesEnd, losesTunnel
  <2>3. /\ \A u \in Tunnel : quic'[u] = "NONE" => quic[u] = "NONE"
        /\ \A u \in Tunnel : guard'[u] = "OPEN" => guard[u] = "OPEN"
    BY <1>1 DEF TunnelTypeOK, closesEnd, losesTunnel
  <2>4. \A e \in Side : LinkOver(e)'
    BY <2>1 DEF LinkOver
  <2> QED BY <2>1, <2>2, <2>3, <2>4, TasksStayKeeps
<1>2. ASSUME NEW d \in Side, closeLink(d) PROVE TunnelInv'
  <2>1. TunnelTypeOK'
    BY <1>2 DEF TunnelTypeOK, closeLink
  <2>2. \A u \in Tunnel : quic'[u] = "NONE" => quic[u] = "NONE"
    BY <1>2 DEF TunnelTypeOK, closeLink
  <2>3. \A e \in Side : LinkOver(e)'
    BY <1>2 DEF TunnelTypeOK, closeLink, LinkOver
  <2> QED BY <1>2, <2>1, <2>2, <2>3, TasksStayKeeps DEF closeLink
<1>3. ASSUME NEW d \in Side, drained(d) \/ releases(d) \/ closed(d) PROVE TunnelInv'
  <2>1. UNCHANGED <<tcp, guard, task, quic, replied, counters>>
    BY <1>3 DEF drained, releases, closed, Sides
  <2>2. TunnelTypeOK'
    BY <1>3, <2>1 DEF TunnelTypeOK, drained, releases, closed
  <2>3. \A e \in Side : LinkOver(e)'
    BY <1>3, <2>1 DEF TunnelTypeOK, drained, releases, closed, LinkOver, Alive, Tasks, AddressFree
  <2> QED BY <2>1, <2>2, <2>3, TasksStayKeeps
<1> QED BY <1>1, <1>2, <1>3

LEMMA StartsKeeps == ASSUME TunnelInv, NEW d \in Side, starts(d) PROVE TunnelInv'
<1>1. TunnelTypeOK'
  BY DEF TunnelInv, TunnelTypeOK, starts, Zero, Counters
<1>2. \A t \in Tunnel : task[d][t] \notin Working
  BY DEF TunnelInv, LinkOver, starts
<1>3. ASSUME NEW e \in Side PROVE SideCounts(e)'
  <2>1. CASE e = d
    <3>1. counters'[e].active = 0 /\ counters'[e].accepted = 0 /\ counters'[e].closed = 0
      BY <2>1 DEF TunnelInv, TunnelTypeOK, starts, Zero
    <3>2. ~\E t \in Tunnel : task'[e][t] = "FORWARD"
      BY <1>2, <2>1 DEF starts, Working
    <3> QED BY <3>1, <3>2 DEF SideCounts
  <2>2. CASE e # d
    <3>1. counters'[e] = counters[e] /\ task' = task
      BY <2>2 DEF TunnelInv, TunnelTypeOK, starts
    <3> QED BY <3>1 DEF TunnelInv, SideCounts
  <2> QED BY <2>1, <2>2
<1>4. ASSUME NEW e \in Side PROVE LinkOver(e)'
  BY DEF TunnelInv, TunnelTypeOK, starts, LinkOver
<1>5. task' = task /\ guard' = guard /\ quic' = quic
  BY DEF starts
<1> QED BY <1>1, <1>3, <1>4, <1>5
        DEF TunnelInv, OneAtRoot, OneAtStage, GuardIsHeld, StageHasSeen

LEMMA AcceptsKeeps == ASSUME TunnelInv, NEW t \in Tunnel, acceptTcp(t) PROVE TunnelInv'
<1>1. TunnelTypeOK /\ "root" \in Side /\ "CONNECT" \in Task
  BY DEF TunnelInv, Side, Task, Working, Setup
<1>2. CASE RootSlot = {}
  <2>1. Moves("root", t, "CONNECT")
    BY <1>2 DEF acceptTcp
  <2>2. /\ task' \in [Side -> [Tunnel -> Task]]
        /\ \A e \in Side : \A u \in Tunnel :
             task'[e][u] = IF e = "root" /\ u = t THEN "CONNECT" ELSE task[e][u]
    BY <1>1, <2>1, MovesIs
  <2>3. /\ guard' = guard /\ quic' = quic /\ replied' = replied /\ counters' = counters
        /\ rpc' = rpc /\ socket' = socket /\ rpc["root"] = "UP"
    BY <1>2 DEF acceptTcp, Links
  <2>4. TunnelTypeOK'
    BY <1>1, <1>2, <2>2, <2>3 DEF TunnelTypeOK, acceptTcp, Task
  <2>5. \A u \in Tunnel : task["root"][u] \notin Working
    BY <1>2 DEF RootSlot, Tasks
  <2>6. OneAtRoot'
    BY <1>1, <2>2, <2>5 DEF OneAtRoot
  <2>7. OneAtStage' /\ GuardIsHeld' /\ StageHasSeen'
    BY <2>2, <2>3 DEF TunnelInv, OneAtStage, GuardIsHeld, StageHasSeen, Side
  <2>8. ASSUME NEW e \in Side PROVE SideCounts(e)'
    <3>1. (\E u \in Tunnel : task'[e][u] = "FORWARD") <=> (\E u \in Tunnel : task[e][u] = "FORWARD")
      BY <2>2, <2>5 DEF Working
    <3> QED BY <2>3, <3>1 DEF TunnelInv, SideCounts
  <2>9. ASSUME NEW e \in Side PROVE LinkOver(e)'
    BY <2>2, <2>3 DEF TunnelInv, LinkOver
  <2> QED BY <2>4, <2>6, <2>7, <2>8, <2>9 DEF TunnelInv
<1>3. CASE RootSlot # {}
  <2>1. /\ Rejects("root") /\ task' = task /\ guard' = guard /\ quic' = quic
        /\ replied' = replied /\ rpc' = rpc /\ socket' = socket
    BY <1>3 DEF acceptTcp, Links
  <2>2. TunnelTypeOK'
    BY <1>1, <1>3, <2>1, RejectsIs DEF TunnelTypeOK, acceptTcp
  <2>3. \A e \in Side : LinkOver(e)'
    BY <2>1 DEF TunnelInv, LinkOver
  <2> QED BY <1>1, <2>1, <2>2, <2>3, RejectsIs, TasksStayKeeps
<1> QED BY <1>2, <1>3

LEMMA ConnectsKeeps == ASSUME TunnelInv, NEW t \in Tunnel, connectQuic(t) PROVE TunnelInv'
<1>1. /\ TunnelTypeOK /\ "root" \in Side /\ "stage" \in Side
      /\ task["root"][t] = "CONNECT" /\ task["stage"][t] = "NONE"
  BY DEF TunnelInv, StageHasSeen, connectQuic, Side
<1>2. CASE Cardinality(Tasks("stage", Working)) < Handlers
  <2>1. /\ guard' = guard /\ replied' = replied /\ counters' = counters /\ tcp' = tcp
        /\ rpc' = rpc /\ socket' = socket /\ rpc["stage"] = "UP"
    BY <1>2 DEF connectQuic, Links
  <2>2. /\ task' \in [Side -> [Tunnel -> Task]]
        /\ \A u \in Tunnel : task'["root"][u] = IF u = t THEN "HELLO" ELSE task["root"][u]
        /\ \A u \in Tunnel : task'["stage"][u] = IF u = t THEN "VERIFY" ELSE task["stage"][u]
    BY <1>1, <1>2 DEF TunnelTypeOK, connectQuic, Task, Working, Setup, Side
  <2>3. quic' = [quic EXCEPT ![t] = "UP"]
    BY <1>2 DEF connectQuic
  <2>4. TunnelTypeOK'
    BY <1>1, <2>1, <2>2, <2>3 DEF TunnelTypeOK, Task
  <2>5. \A u \in Tunnel : task'["root"][u] \in Working <=> task["root"][u] \in Working
    BY <1>1, <2>2 DEF Working, Setup
  <2>6. OneAtRoot'
    BY <2>5 DEF TunnelInv, OneAtRoot
  <2>7. \A u \in Tunnel : task'["stage"][u] \in Slotted <=> task["stage"][u] \in Slotted
    BY <1>1, <2>2 DEF Slotted
  <2>8. OneAtStage' /\ GuardIsHeld'
    BY <2>1, <2>7 DEF TunnelInv, OneAtStage, GuardIsHeld
  <2>9. StageHasSeen'
    BY <1>1, <2>2, <2>3 DEF TunnelInv, StageHasSeen, TunnelTypeOK
  <2>10. ASSUME NEW e \in Side PROVE SideCounts(e)' /\ LinkOver(e)'
    <3>1. \A u \in Tunnel : task'[e][u] = "FORWARD" <=> task[e][u] = "FORWARD"
      BY <1>1, <2>2 DEF Side
    <3>2. SideCounts(e)'
      BY <2>1, <3>1 DEF TunnelInv, SideCounts
    <3>3. CASE e = "root"
      BY <2>1, <2>5, <3>2, <3>3 DEF TunnelInv, LinkOver
    <3>4. CASE e = "stage"
      BY <2>1, <3>2, <3>4 DEF TunnelInv, LinkOver
    <3> QED BY <3>2, <3>3, <3>4 DEF Side
  <2> QED BY <2>4, <2>6, <2>8, <2>9, <2>10 DEF TunnelInv
<1>3. CASE ~(Cardinality(Tasks("stage", Working)) < Handlers)
  <2>1. /\ Rejects("stage") /\ quic' = [quic EXCEPT ![t] = "CLOSED"] /\ task' = task
        /\ guard' = guard /\ replied' = replied /\ rpc' = rpc /\ socket' = socket /\ tcp' = tcp
    BY <1>3 DEF connectQuic, Links
  <2>2. TunnelTypeOK'
    BY <1>1, <2>1, RejectsIs DEF TunnelTypeOK
  <2>3. \A e \in Side : LinkOver(e)'
    BY <2>1 DEF TunnelInv, LinkOver
  <2>4. \A u \in Tunnel : quic'[u] = "NONE" => quic[u] = "NONE"
    BY <1>1, <2>1 DEF TunnelTypeOK
  <2> QED BY <1>1, <2>1, <2>2, <2>3, <2>4, RejectsIs, TasksStayKeeps
<1> QED BY <1>2, <1>3

\* Whatever ends a task, no other tunnel takes its place in that step.
LEMMA TunnelEndsKeeps ==
  ASSUME TunnelInv, NEW d \in Side, NEW t \in Tunnel,
         failsTunnel(d, t) \/ endsForwarding(d, t) \/ abortTask(d, t)
  PROVE  TunnelInv'
<1>1. PICK to \in {"OVER", "ABORTED"} : EndsAs(d, t, to)
  BY DEF EndsAs, failsTunnel, endsForwarding, abortTask
<1>2. TunnelTypeOK /\ to \in Task /\ to \notin Working /\ to \notin Slotted /\ to # "FORWARD"
      /\ to # "NONE"
  BY <1>1 DEF TunnelInv, Task, Working, Setup, Slotted
<1>3. /\ task' \in [Side -> [Tunnel -> Task]]
      /\ \A e \in Side : \A u \in Tunnel :
           task'[e][u] = IF e = d /\ u = t THEN to ELSE task[e][u]
  <2>1. Moves(d, t, to)
    BY <1>1 DEF EndsAs, Ends
  <2>2. to \in Task /\ TunnelTypeOK
    BY <1>2
  <2>3. \A x \in Task : Moves(d, t, x) => /\ task' \in [Side -> [Tunnel -> Task]]
      /\ \A e \in Side : \A u \in Tunnel :
           task'[e][u] = IF e = d /\ u = t THEN x ELSE task[e][u]
    BY <2>2, MovesIs
  <2> QED BY <2>1, <2>2, <2>3
<1>4. replied' = replied /\ rpc' = rpc /\ socket' = socket
  BY <1>1 DEF EndsAs, Ends, Links
<1>5. task[d][t] = "FORWARD" => counters[d].active = 1
  BY DEF TunnelInv, SideCounts
<1>6. /\ counters' \in [Side -> Counters]
      /\ \A e \in Side : e # d => counters'[e] = counters[e]
      /\ counters'[d].accepted = counters[d].accepted
      /\ IF task[d][t] = "FORWARD"
         THEN /\ counters'[d].active = counters[d].active - 1
              /\ counters'[d].closed = counters[d].closed + 1
         ELSE /\ counters'[d].active = counters[d].active
              /\ counters'[d].closed = counters[d].closed
  BY <1>1, <1>2, <1>5, EndsIs
<1>7. /\ tcp' \in [Tunnel -> {"NONE", "OPEN", "CLOSED"}]
      /\ guard' \in [Tunnel -> {"NONE", "OPEN", "CLOSED"}]
      /\ quic' \in [Tunnel -> {"NONE", "UP", "CLOSED", "LOST"}]
      /\ \A u \in Tunnel : quic'[u] = "NONE" => quic[u] = "NONE"
      /\ \A u \in Tunnel : guard'[u] = "OPEN" => guard[u] = "OPEN" /\ ~(d = "stage" /\ u = t)
  <2>1. quic' = [quic EXCEPT ![t] = IF @ = "UP" THEN "CLOSED" ELSE @]
    BY <1>1 DEF EndsAs, Ends
  <2>2. CASE d = "root"
    <3>1. tcp' = [tcp EXCEPT ![t] = "CLOSED"] /\ guard' = guard
      BY <1>1, <2>2 DEF EndsAs, Ends
    <3> QED BY <1>2, <2>1, <2>2, <3>1 DEF TunnelTypeOK
  <2>3. CASE d = "stage"
    <3>1. guard' = [guard EXCEPT ![t] = IF @ = "OPEN" THEN "CLOSED" ELSE @] /\ tcp' = tcp
      BY <1>1, <2>3 DEF EndsAs, Ends
    <3> QED BY <1>2, <2>1, <2>3, <3>1 DEF TunnelTypeOK
  <2> QED BY <2>2, <2>3 DEF Side
<1>8. TunnelTypeOK'
  BY <1>2, <1>3, <1>4, <1>6, <1>7 DEF TunnelTypeOK, Task
<1>9. OneAtRoot' /\ OneAtStage'
  BY <1>2, <1>3 DEF TunnelInv, OneAtRoot, OneAtStage, Side
<1>10. GuardIsHeld'
  BY <1>3, <1>7 DEF TunnelInv, GuardIsHeld, Side
<1>11. StageHasSeen'
  <2>1. task[d][t] # "NONE"
    BY DEF failsTunnel, endsForwarding, abortTask, Alive, Tasks, Working, Setup
  <2> QED BY <1>3, <1>7, <2>1 DEF TunnelInv, StageHasSeen, Side
<1>12. ASSUME NEW e \in Side PROVE SideCounts(e)'
  <2>1. CASE e # d
    <3>1. \A u \in Tunnel : task'[e][u] = task[e][u]
      BY <1>3, <2>1
    <3>2. counters'[e] = counters[e]
      BY <1>6, <2>1
    <3> QED BY <3>1, <3>2 DEF TunnelInv, SideCounts
  <2>2. CASE e = d /\ task[d][t] # "FORWARD"
    <3>1. (\E u \in Tunnel : task'[e][u] = "FORWARD") <=> (\E u \in Tunnel : task[e][u] = "FORWARD")
      BY <1>2, <1>3, <2>2
    <3> QED BY <1>6, <2>2, <3>1 DEF TunnelInv, SideCounts
  <2>3. CASE e = d /\ task[d][t] = "FORWARD"
    <3>1. \A u \in Tunnel : task[d][u] = "FORWARD" => u = t
      BY <2>3 DEF TunnelInv, OneAtRoot, OneAtStage, Side, Working, Slotted
    <3>2. ~\E u \in Tunnel : task'[e][u] = "FORWARD"
      BY <1>2, <1>3, <2>3, <3>1
    <3> QED BY <1>2, <1>5, <1>6, <2>3, <3>2, TunnelTypes DEF TunnelInv, SideCounts
  <2> QED BY <2>1, <2>2, <2>3
<1>13. ASSUME NEW e \in Side PROVE LinkOver(e)'
  BY <1>2, <1>3, <1>4 DEF TunnelInv, LinkOver
<1> QED BY <1>8, <1>9, <1>10, <1>11, <1>12, <1>13 DEF TunnelInv

\* A tunnel that begins to forward had the slot of its side before.
LEMMA ForwardsKeeps ==
  ASSUME TunnelInv, NEW t \in Tunnel, rootForwards(t) \/ stageForwards(t) PROVE TunnelInv'
<1>1. PICK d \in Side :
        /\ Forwards(d, t) /\ (d = "root" => task[d][t] = "HELLO")
        /\ (d = "stage" => task[d][t] = "REPLY")
  BY DEF rootForwards, stageForwards, Side
<1>2. TunnelTypeOK /\ "FORWARD" \in Task /\ "FORWARD" \in Working /\ "FORWARD" \in Slotted
      /\ task[d][t] \in Working /\ task[d][t] # "FORWARD" /\ task[d][t] # "NONE"
      /\ (d = "stage" => task[d][t] \in Slotted)
  BY <1>1 DEF TunnelInv, Task, Working, Setup, Slotted, Side
<1>3. /\ task' \in [Side -> [Tunnel -> Task]]
      /\ \A e \in Side : \A u \in Tunnel :
           task'[e][u] = IF e = d /\ u = t THEN "FORWARD" ELSE task[e][u]
  BY <1>1, <1>2, MovesIs DEF Forwards
<1>4. /\ rpc' = rpc /\ socket' = socket /\ tcp' = tcp /\ guard' = guard /\ quic' = quic
      /\ replied' \subseteq Tunnel
  BY <1>2 DEF rootForwards, stageForwards, Links, TunnelTypeOK
<1>5. /\ counters' \in [Side -> Counters]
      /\ \A e \in Side : e # d => counters'[e] = counters[e]
      /\ counters'[d].active = counters[d].active + 1
      /\ counters'[d].accepted = counters[d].accepted + 1
      /\ counters'[d].closed = counters[d].closed
  BY <1>1, <1>2, ForwardsIs
<1>6. TunnelTypeOK'
  BY <1>2, <1>3, <1>4, <1>5 DEF TunnelTypeOK, Task
<1>7. OneAtRoot' /\ OneAtStage'
  BY <1>2, <1>3 DEF TunnelInv, OneAtRoot, OneAtStage, Side
<1>8. GuardIsHeld' /\ StageHasSeen'
  BY <1>2, <1>3, <1>4 DEF TunnelInv, GuardIsHeld, StageHasSeen, Side
<1>9. ASSUME NEW e \in Side PROVE SideCounts(e)'
  <2>1. CASE e # d
    <3>1. \A u \in Tunnel : task'[e][u] = task[e][u]
      BY <1>3, <2>1
    <3>2. counters'[e] = counters[e]
      BY <1>5, <2>1
    <3> QED BY <3>1, <3>2 DEF TunnelInv, SideCounts
  <2>2. CASE e = d
    <3>1. \A u \in Tunnel : task[d][u] # "FORWARD"
      BY <1>2 DEF TunnelInv, OneAtRoot, OneAtStage, Side, Working, Slotted
    <3>2. \E u \in Tunnel : task'[e][u] = "FORWARD"
      BY <1>3, <2>2
    <3>3. counters[d].active = 0 /\ counters[d].accepted = 0 + counters[d].closed
      BY <3>1 DEF TunnelInv, SideCounts
    <3> QED BY <1>2, <1>5, <2>2, <3>2, <3>3, TunnelTypes DEF SideCounts
  <2> QED BY <2>1, <2>2
<1>10. ASSUME NEW e \in Side PROVE LinkOver(e)'
  BY <1>2, <1>3, <1>4 DEF TunnelInv, LinkOver
<1> QED BY <1>6, <1>7, <1>8, <1>9, <1>10 DEF TunnelInv

LEMMA VerifiesKeeps == ASSUME TunnelInv, NEW t \in Tunnel, verifies(t) PROVE TunnelInv'
<1>1. /\ TunnelTypeOK /\ "stage" \in Side /\ "REPLY" \in Task /\ "REPLY" \in Slotted
      /\ "VERIFY" \in Working /\ task["stage"][t] = "VERIFY"
  BY DEF TunnelInv, Side, Task, Working, Setup, Slotted, verifies
<1>2. /\ task' \in [Side -> [Tunnel -> Task]]
      /\ \A e \in Side : \A u \in Tunnel :
           task'[e][u] = IF e = "stage" /\ u = t THEN "REPLY" ELSE task[e][u]
  BY <1>1, MovesIs DEF verifies
<1>3. /\ rpc' = rpc /\ socket' = socket /\ tcp' = tcp /\ quic' = quic /\ replied' = replied
      /\ counters' = counters /\ guard' = [guard EXCEPT ![t] = "OPEN"]
  BY DEF verifies, Links
<1>4. \A u \in Tunnel : task["stage"][u] \notin Slotted
  BY DEF verifies, StageSlot, Tasks, Slotted
<1>5. TunnelTypeOK'
  BY <1>1, <1>2, <1>3 DEF TunnelTypeOK, Task
<1>6. OneAtRoot' /\ OneAtStage'
  BY <1>1, <1>2, <1>4 DEF TunnelInv, OneAtRoot, OneAtStage, Side
<1>7. GuardIsHeld' /\ StageHasSeen'
  BY <1>1, <1>2, <1>3, <1>4 DEF TunnelInv, TunnelTypeOK, GuardIsHeld, StageHasSeen
<1>8. ASSUME NEW e \in Side PROVE SideCounts(e)'
  <2>1. (\E u \in Tunnel : task'[e][u] = "FORWARD") <=> (\E u \in Tunnel : task[e][u] = "FORWARD")
    BY <1>1, <1>2
  <2> QED BY <1>3, <2>1 DEF TunnelInv, SideCounts
<1>9. ASSUME NEW e \in Side PROVE LinkOver(e)'
  BY <1>1, <1>2, <1>3 DEF TunnelInv, LinkOver
<1> QED BY <1>5, <1>6, <1>7, <1>8, <1>9 DEF TunnelInv

LEMMA TunnelInvHolds == TunnelSpec => []TunnelInv
<1>1. TunnelInit => TunnelInv
  <2> SUFFICES ASSUME TunnelInit PROVE TunnelInv
    OBVIOUS
  <2>1. TunnelTypeOK
    BY DEF TunnelInit, TunnelTypeOK, Zero, Counters
  <2>2. \A d \in Side : \A t \in Tunnel : task[d][t] = "NONE"
    BY DEF TunnelInit
  <2>3. OneAtRoot /\ OneAtStage /\ GuardIsHeld /\ StageHasSeen
    BY <2>2 DEF TunnelInit, OneAtRoot, OneAtStage, GuardIsHeld, StageHasSeen, Side, Working,
                Setup, Slotted
  <2>4. ASSUME NEW d \in Side PROVE SideCounts(d) /\ LinkOver(d)
    BY <2>2 DEF TunnelInit, SideCounts, LinkOver, Zero
  <2> QED BY <2>1, <2>3, <2>4 DEF TunnelInv
<1>2. TunnelInv /\ [TunnelNext]_tunnelVars => TunnelInv'
  <2> SUFFICES ASSUME TunnelInv, [TunnelNext]_tunnelVars PROVE TunnelInv'
    OBVIOUS
  <2>1. CASE UNCHANGED tunnelVars
    BY <2>1 DEF tunnelVars, TunnelInv, TunnelTypeOK, OneAtRoot, OneAtStage, GuardIsHeld,
                StageHasSeen, SideCounts, LinkOver
  <2>2. CASE TunnelNext
    <3>1. ASSUME NEW t \in Tunnel, acceptTcp(t) \/ connectQuic(t) \/ rootForwards(t)
                                   \/ verifies(t) \/ stageForwards(t)
          PROVE  TunnelInv'
      BY <3>1, AcceptsKeeps, ConnectsKeeps, ForwardsKeeps, VerifiesKeeps
    <3>2. ASSUME NEW t \in Tunnel, closesEnd(t) \/ losesTunnel(t) PROVE TunnelInv'
      BY <3>2, SidesKeep
    <3>3. ASSUME NEW d \in Side, NEW t \in Tunnel,
                 failsTunnel(d, t) \/ endsForwarding(d, t) \/ abortTask(d, t)
          PROVE  TunnelInv'
      BY <3>3, TunnelEndsKeeps
    <3>4. ASSUME NEW d \in Side, closeLink(d) \/ drained(d) \/ releases(d) \/ closed(d)
          PROVE  TunnelInv'
      BY <3>4, SidesKeep
    <3>5. ASSUME NEW d \in Side, starts(d) PROVE TunnelInv'
      BY <3>5, StartsKeeps
    <3> QED BY <2>2, <3>1, <3>2, <3>3, <3>4, <3>5, Zenon DEF TunnelNext
  <2> QED BY <2>1, <2>2
<1> QED BY <1>1, <1>2, PTL DEF TunnelSpec

\* At most one of each, so their numbers are 0 and 1.
LEMMA TunnelsAgree == TunnelInv => TunnelTypeOK /\ OneTunnel /\ CountersAgree /\ FreedIsFree
<1> SUFFICES ASSUME TunnelInv PROVE TunnelTypeOK /\ OneTunnel /\ CountersAgree /\ FreedIsFree
  OBVIOUS
<1>1. ASSUME NEW S, \A t, u \in S : t = u
      PROVE  Cardinality(S) = IF S = {} THEN 0 ELSE 1
  <2>1. CASE S = {}
    BY <2>1, FS_EmptySet
  <2>2. CASE S # {}
    <3>1. PICK t \in S : S = {t}
      BY <1>1, <2>2
    <3> QED BY <2>2, <3>1, FS_Singleton
  <2> QED BY <2>1, <2>2
<1>2. ASSUME NEW d \in Side
      PROVE  Cardinality(Tasks(d, {"FORWARD"}))
             = IF \E t \in Tunnel : task[d][t] = "FORWARD" THEN 1 ELSE 0
  <2> DEFINE S == Tasks(d, {"FORWARD"})
  <2>1. \A t, u \in S : t = u
    BY DEF Tasks, TunnelInv, OneAtRoot, OneAtStage, Side, Working, Slotted
  <2>2. S = {} <=> ~\E t \in Tunnel : task[d][t] = "FORWARD"
    BY DEF Tasks
  <2> HIDE DEF S
  <2>3. Cardinality(S) = IF S = {} THEN 0 ELSE 1
    BY <1>1, <2>1
  <2>4. Cardinality(S) = IF \E t \in Tunnel : task[d][t] = "FORWARD" THEN 1 ELSE 0
    BY <2>2, <2>3
  <2> QED BY <2>4 DEF S
<1>3. Cardinality({t \in Tunnel : guard[t] = "OPEN"}) <= 1
  <2> DEFINE S == {t \in Tunnel : guard[t] = "OPEN"}
  <2>1. \A t, u \in S : t = u
    BY DEF TunnelInv, GuardIsHeld, OneAtStage
  <2> HIDE DEF S
  <2>2. Cardinality(S) = IF S = {} THEN 0 ELSE 1
    BY <1>1, <2>1
  <2>3. Cardinality(S) <= 1
    BY <2>2
  <2> QED BY <2>3 DEF S
<1>4. OneTunnel
  <2>1. Cardinality(Tasks("root", {"FORWARD"})) <= 1
    BY <1>2 DEF Side
  <2> QED BY <1>3, <2>1 DEF OneTunnel
<1>5. CountersAgree
  BY <1>2 DEF TunnelInv, SideCounts, CountersAgree
<1>6. FreedIsFree
  BY DEF TunnelInv, LinkOver, FreedIsFree, Alive, Tasks
<1> QED BY <1>4, <1>5, <1>6 DEF TunnelInv

\* Between machines no response that was cut is taken for whole, one tunnel at a time
\* forwards, both ends count it, and a freed address is free (link lib.rs, rpc.rs).
THEOREM LinksAreHeld == LinkSpec /\ TunnelSpec => []LinksHold
<1>1. LinkInv /\ TunnelInv => LinksHold
  BY LinkEnds, TunnelsAgree DEF LinksHold
<1> QED BY <1>1, LinkInvHolds, TunnelInvHolds, PTL

\* What is final stays so, whatever the processes and the providers do: a route somebody
\* left, a worker's last status, a stop that succeeded, the memory a contributor keeps
\* (routes.ts, guardian.mjs, service-process.mjs, rpc-memory.mjs).
THEOREM WhatIsFinalStays ==
  RoutesSpec /\ WorkerSpec /\ ServicesSpec /\ MemorySpec => FinalStays
BY WithdrawalIsFinal, FinalStatusIsLast, StopsAreFinal, ReserveIsKept DEF FinalStays
=============================================================================
