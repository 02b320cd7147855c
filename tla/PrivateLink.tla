------------------------------ MODULE PrivateLink ------------------------------
(***************************************************************************)
(* The private link of a node and the coordinator (crates/link/src/lib.rs): *)
(* a local request is carried over a connection of its own to the peer,    *)
(* which makes it again to the local target and streams the response back  *)
(* in frames.                                                              *)
(*                                                                         *)
(* Four parties move on their own for each request: the consumer of the    *)
(* local response, the task that pumps frames into its bounded channel,    *)
(* the peer's task that serves the stream, and the target.  Connections    *)
(* are lost, and every wait has a deadline.  Routes, headers and sizes that *)
(* a check refuses before anything is sent are left out.                   *)
(***************************************************************************)
EXTENDS Integers, Sequences, FiniteSets

CONSTANTS
  Call,       \* local requests
  Permits,    \* outbound, inbound and connections: 16 each in the code
  Room,       \* pieces the channel to the consumer holds: 4 in the code
  MaxPieces   \* bound of the model: pieces of a target's response

ASSUME LinkAssumption == Permits \in Nat \ {0} /\ Room \in Nat \ {0} /\ MaxPieces \in Nat

VARIABLES
  proxy,      \* the local task of each request
  answer,     \* what the consumer was answered
  channel,    \* what the consumer has not taken yet
  body,       \* what it has: pieces, and how the body has ended
  handler,    \* the peer's task for the connection
  wire,       \* frames of the response under way, and the end of the stream
  server,     \* the peer's task for the stream
  target      \* what the target has made of the response

linkVars == <<proxy, answer, channel, body, handler, wire, server, target>>

Frame == {"HEAD", "PIECE", "ZERO"}
\* CONNECT and SENT are the setup; GIVE holds a piece for which there is no room yet.
Carrying == {"CONNECT", "SENT", "PUMP", "GIVE"}
AtWork == {"READ", "ASK", "COPY"}

LinkTypeOK ==
  /\ proxy \in [Call -> {"IDLE", "COMPLETE", "BROKEN"} \cup Carrying]
  /\ answer \in [Call -> {"NONE", "BUSY", "BAD_GATEWAY", "STREAM"}]
  /\ \A c \in Call : channel[c] \in Seq({"PIECE", "ERROR"}) /\ Len(channel[c]) <= Room
  /\ body \in [Call -> [got : 0..MaxPieces, ended : {"NO", "CLEAN", "ERROR", "LEFT"}]]
  /\ handler \in [Call -> {"NONE", "OPEN", "CLOSED"}]
  /\ \A c \in Call : /\ wire[c].frames \in Seq(Frame)
                     /\ wire[c].ended \in {"NO", "FIN", "RESET", "LOST"}
  /\ server \in [Call -> {"NONE", "OVER"} \cup AtWork]
  /\ target \in [Call -> [made : 0..MaxPieces, ended : BOOLEAN]]

LinkInit ==
  /\ proxy = [c \in Call |-> "IDLE"]
  /\ answer = [c \in Call |-> "NONE"]
  /\ channel = [c \in Call |-> <<>>]
  /\ body = [c \in Call |-> [got |-> 0, ended |-> "NO"]]
  /\ handler = [c \in Call |-> "NONE"]
  /\ wire = [c \in Call |-> [frames |-> <<>>, ended |-> "NO"]]
  /\ server = [c \in Call |-> "NONE"]
  /\ target = [c \in Call |-> [made |-> 0, ended |-> FALSE]]

-----------------------------------------------------------------------------
(* proxy: the permit and the setup.                                        *)

HasPermit(held) == Cardinality(held) < Permits
Outbound == {c \in Call : proxy[c] \in Carrying}
Inbound == {c \in Call : server[c] \in AtWork}
Connections == {c \in Call : handler[c] = "OPEN"}

Peer == UNCHANGED <<handler, server, target>>

asksLink(c) ==
  /\ proxy[c] = "IDLE"
  /\ IF HasPermit(Outbound) THEN proxy' = [proxy EXCEPT ![c] = "CONNECT"] /\ UNCHANGED answer
     ELSE /\ proxy' = [proxy EXCEPT ![c] = "BROKEN"]
          /\ answer' = [answer EXCEPT ![c] = "BUSY"]
  /\ Peer /\ UNCHANGED <<channel, body, wire>>

\* The peer accepts the connection if it has a permit left, or refuses it.
acceptsConnection(c) ==
  /\ proxy[c] = "CONNECT" /\ handler[c] = "NONE" /\ wire[c].ended = "NO"
  /\ IF HasPermit(Connections) THEN handler' = [handler EXCEPT ![c] = "OPEN"] /\ UNCHANGED wire
     ELSE wire' = [wire EXCEPT ![c].ended = "LOST"] /\ UNCHANGED handler
  /\ UNCHANGED <<proxy, answer, channel, body, server, target>>

\* The head, the body and the end of the request are written.
sends(c) ==
  /\ proxy[c] = "CONNECT" /\ handler[c] = "OPEN"
  /\ proxy' = [proxy EXCEPT ![c] = "SENT"]
  /\ Peer /\ UNCHANGED <<answer, channel, body, wire>>

\* A response head comes within the 12 seconds.
opensBody(c) ==
  /\ proxy[c] = "SENT" /\ wire[c].frames # <<>> /\ wire[c].ended # "LOST"
  /\ proxy' = [proxy EXCEPT ![c] = "PUMP"]
  /\ answer' = [answer EXCEPT ![c] = "STREAM"]
  /\ wire' = [wire EXCEPT ![c].frames = Tail(@)]
  /\ Peer /\ UNCHANGED <<channel, body>>

\* Anything else ends the setup; its connection goes with it.
failsSetup(c) ==
  /\ proxy[c] \in {"CONNECT", "SENT"}
  /\ proxy' = [proxy EXCEPT ![c] = "BROKEN"]
  /\ answer' = [answer EXCEPT ![c] = "BAD_GATEWAY"]
  /\ Peer /\ UNCHANGED <<channel, body, wire>>

-----------------------------------------------------------------------------
(* proxy: the pump.                                                        *)

receives(c) ==
  /\ proxy[c] = "PUMP" /\ wire[c].frames # <<>> /\ Head(wire[c].frames) = "PIECE"
  /\ proxy' = [proxy EXCEPT ![c] = "GIVE"]
  /\ wire' = [wire EXCEPT ![c].frames = Tail(@)]
  /\ Peer /\ UNCHANGED <<answer, channel, body>>

ChannelHasRoom(c) == Len(channel[c]) < Room

gives(c) ==
  /\ proxy[c] = "GIVE" /\ ChannelHasRoom(c) /\ body[c].ended = "NO"
  /\ channel' = [channel EXCEPT ![c] = Append(@, "PIECE")]
  /\ proxy' = [proxy EXCEPT ![c] = "PUMP"]
  /\ Peer /\ UNCHANGED <<answer, body, wire>>

\* A zero frame, and the end of the stream after it.
Terminated(c) == wire[c].frames = <<"ZERO">> /\ wire[c].ended = "FIN"

completes(c) ==
  /\ proxy[c] = "PUMP" /\ Terminated(c)
  /\ proxy' = [proxy EXCEPT ![c] = "COMPLETE"]
  /\ Peer /\ UNCHANGED <<answer, channel, body, wire>>

\* A bug: the consumer is not told of an interruption.
Told_Not(c) == channel
\* It is told if there is room: nobody waits for it to take something first.
Told(c) == IF ChannelHasRoom(c) /\ body[c].ended = "NO"
           THEN [channel EXCEPT ![c] = Append(@, "ERROR")] ELSE channel

\* What ends the pump early: a stream that was reset or lost, with the frames
\* that were under way; a consumer that has left; the deadline of 195 seconds.
Interruption(c) ==
  \/ proxy[c] = "PUMP" /\ wire[c].ended \in {"RESET", "LOST"}
  \/ body[c].ended # "NO"

BreaksOff(c) ==
  /\ proxy' = [proxy EXCEPT ![c] = "BROKEN"]
  /\ channel' = Told(c)
  /\ Peer /\ UNCHANGED <<answer, body, wire>>

interrupts(c) == proxy[c] \in {"PUMP", "GIVE"} /\ Interruption(c) /\ BreaksOff(c)

Timed(c) == proxy[c] \in {"PUMP", "GIVE"}

timesOut(c) == Timed(c) /\ BreaksOff(c)

-----------------------------------------------------------------------------
(* The consumer.                                                           *)

takes(c) ==
  /\ body[c].ended = "NO" /\ channel[c] # <<>>
  /\ IF Head(channel[c]) = "PIECE" THEN body' = [body EXCEPT ![c].got = @ + 1]
     ELSE body' = [body EXCEPT ![c].ended = "ERROR"]
  /\ channel' = [channel EXCEPT ![c] = Tail(@)]
  /\ Peer /\ UNCHANGED <<proxy, answer, wire>>

\* The channel is empty and its sender has gone: the body ends.
bodyEnds(c) ==
  /\ body[c].ended = "NO" /\ channel[c] = <<>>
  /\ answer[c] = "STREAM" /\ proxy[c] \in {"COMPLETE", "BROKEN"}
  /\ body' = [body EXCEPT ![c].ended = "CLEAN"]
  /\ Peer /\ UNCHANGED <<proxy, answer, channel, wire>>

consumerLeaves(c) ==
  /\ body[c].ended = "NO" /\ answer[c] = "STREAM"
  /\ body' = [body EXCEPT ![c].ended = "LEFT"]
  /\ Peer /\ UNCHANGED <<proxy, answer, channel, wire>>

-----------------------------------------------------------------------------
(* serve: the peer.                                                        *)

Local == UNCHANGED <<proxy, answer, channel, body>>
\* The local side has closed the connection, or has let it go.
Closed(c) == proxy[c] \in {"COMPLETE", "BROKEN"}
Resets(c) ==
  /\ server' = [server EXCEPT ![c] = "OVER"]
  /\ wire' = [wire EXCEPT ![c].ended = IF @ = "NO" THEN "RESET" ELSE @]

acceptsStream(c) ==
  /\ handler[c] = "OPEN" /\ server[c] = "NONE" /\ proxy[c] = "SENT" /\ wire[c].ended = "NO"
  /\ IF HasPermit(Inbound) THEN server' = [server EXCEPT ![c] = "READ"] /\ UNCHANGED wire
     ELSE Resets(c)
  /\ Local /\ UNCHANGED <<handler, target>>

\* The whole request has been read and allowed.  The target is asked.
asksTarget(c) ==
  /\ server[c] = "READ"
  /\ server' = [server EXCEPT ![c] = "ASK"]
  /\ Local /\ UNCHANGED <<handler, wire, target>>

Writes(c, frames, then) ==
  /\ server' = [server EXCEPT ![c] = then]
  /\ wire' = [wire EXCEPT ![c].frames = @ \o frames]

targetAnswers(c) ==
  /\ server[c] = "ASK" /\ wire[c].ended = "NO"
  /\ Writes(c, <<"HEAD">>, "COPY")
  /\ Local /\ UNCHANGED <<handler, target>>

copies(c) ==
  /\ server[c] = "COPY" /\ wire[c].ended = "NO" /\ target[c].made < MaxPieces
  /\ Writes(c, <<"PIECE">>, "COPY")
  /\ target' = [target EXCEPT ![c].made = @ + 1]
  /\ Local /\ UNCHANGED handler

\* The target's response is over: the zero frame and the end of the stream.
finishes(c) ==
  /\ server[c] = "COPY" /\ wire[c].ended = "NO"
  /\ server' = [server EXCEPT ![c] = "OVER"]
  /\ wire' = [wire EXCEPT ![c] = [frames |-> Append(@.frames, "ZERO"), ended |-> "FIN"]]
  /\ target' = [target EXCEPT ![c].ended = TRUE]
  /\ Local /\ UNCHANGED handler

\* The target fails, the request is refused, or the deadline passes.
failsServing(c) ==
  /\ server[c] \in AtWork
  /\ Resets(c)
  /\ Local /\ UNCHANGED <<handler, target>>

\* The consumer's side has gone, or the connection has: it sees that.
stopsServing(c) == (Closed(c) \/ wire[c].ended = "LOST") /\ failsServing(c)

\* The task of the connection ends with it.
handlerEnds(c) ==
  /\ handler[c] = "OPEN" /\ (Closed(c) \/ wire[c].ended = "LOST")
  /\ handler' = [handler EXCEPT ![c] = "CLOSED"]
  /\ Local /\ UNCHANGED <<wire, server, target>>

\* A connection is lost, with everything in it, at any time before it is closed.
loses(c) ==
  /\ handler[c] = "OPEN" /\ ~Closed(c) /\ wire[c].ended # "LOST"
  /\ wire' = [wire EXCEPT ![c] = [frames |-> <<>>, ended |-> "LOST"]]
  /\ Local /\ Peer

LinkNext ==
  \E c \in Call :
    \/ asksLink(c) \/ acceptsConnection(c) \/ sends(c) \/ opensBody(c) \/ failsSetup(c)
    \/ receives(c) \/ gives(c) \/ completes(c) \/ interrupts(c) \/ timesOut(c)
    \/ takes(c) \/ bodyEnds(c) \/ consumerLeaves(c)
    \/ acceptsStream(c) \/ asksTarget(c) \/ targetAnswers(c) \/ copies(c) \/ finishes(c)
    \/ failsServing(c) \/ stopsServing(c) \/ handlerEnds(c) \/ loses(c)

\* Nothing is asked of consumers, targets or the network: only the deadlines
\* come, and the end of a connection is noticed.
LocalEnds(c) == failsSetup(c) \/ timesOut(c)
LinkFairness ==
  \A c \in Call :
    /\ WF_linkVars(LocalEnds(c))
    /\ WF_linkVars(failsServing(c)) /\ WF_linkVars(handlerEnds(c))

-----------------------------------------------------------------------------
(* What must hold.                                                         *)

AllTaken(c) == target[c].ended /\ body[c].got = target[c].made

\* "A broken link cannot manufacture successful completion": a body that ends
\* without an error is the whole response of the target, or its consumer was so
\* far behind that the channel had no room for the error.  (link lib.rs 135, 400-426)
EndIsWholeIfTaken ==
  \A c \in Call : body[c].ended = "CLEAN" => AllTaken(c) \/ body[c].got >= Room

\* Whatever consumers, targets and the network do, every permit of a request, of
\* a stream and of a connection comes back.
PermitsReturn ==
  \A c \in Call : c \in Outbound \cup Inbound \cup Connections
                  ~> c \notin Outbound \cup Inbound \cup Connections
=============================================================================
