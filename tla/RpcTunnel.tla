------------------------------- MODULE RpcTunnel -------------------------------
(***************************************************************************)
(* The guarded RPC transport of one stage (crates/link/src/rpc.rs): each   *)
(* TCP connection of the root's model server becomes a tunnel, over a      *)
(* connection of its own, to the guard of the stage.  One tunnel at a time *)
(* on either side; peer and binding are checked before the guard is        *)
(* reached; either end that closes ends the tunnel; and a link is closed   *)
(* only when its tasks have ended and its address is free.                 *)
(*                                                                         *)
(* Bytes are left out.  A hello of another peer or binding is one way for  *)
(* a setup to fail.                                                        *)
(***************************************************************************)
EXTENDS Integers, FiniteSets

CONSTANTS
  Tunnel,     \* TCP connections of the root's model server
  Handlers     \* handlers the stage has at a time: 4 in the code

ASSUME TunnelAssumption == IsFiniteSet(Tunnel) /\ Handlers \in Nat \ {0}

Side == {"root", "stage"}

VARIABLES
  tcp,        \* each model connection at the root
  guard,      \* each connection to the stage's guard
  task,       \* the task of each tunnel on each side
  quic,       \* the connection of each tunnel
  replied,    \* tunnels to which the stage's hello has been written
  counters,   \* of each side: active, accepted, rejected, closed
  rpc,        \* each side's link
  socket      \* sides whose UDP address is taken

tunnelVars == <<tcp, guard, task, quic, replied, counters, rpc, socket>>

\* A setup holds the root's slot from its start; the stage's has it in REPLY.
Setup == {"CONNECT", "HELLO", "VERIFY", "REPLY"}
Working == Setup \cup {"FORWARD"}

Counters == [active : Nat, accepted : Nat, rejected : Nat, closed : Nat]
Zero == [active |-> 0, accepted |-> 0, rejected |-> 0, closed |-> 0]

TunnelTypeOK ==
  /\ tcp \in [Tunnel -> {"NONE", "OPEN", "CLOSED"}]
  /\ guard \in [Tunnel -> {"NONE", "OPEN", "CLOSED"}]
  /\ task \in [Side -> [Tunnel -> {"NONE", "OVER", "ABORTED"} \cup Working]]
  /\ quic \in [Tunnel -> {"NONE", "UP", "CLOSED", "LOST"}]
  /\ replied \subseteq Tunnel
  /\ counters \in [Side -> Counters]
  /\ rpc \in [Side -> {"UP", "CLOSING", "DRAINED", "FREED", "FAILED"}]
  /\ socket \subseteq Side

TunnelInit ==
  /\ tcp = [t \in Tunnel |-> "NONE"] /\ guard = [t \in Tunnel |-> "NONE"]
  /\ task = [d \in Side |-> [t \in Tunnel |-> "NONE"]]
  /\ quic = [t \in Tunnel |-> "NONE"]
  /\ replied = {}
  /\ counters = [d \in Side |-> Zero]
  /\ rpc = [d \in Side |-> "UP"] /\ socket = Side

-----------------------------------------------------------------------------
(* The root: a slot, a connection, and the two hellos.                     *)

Tasks(d, states) == {t \in Tunnel : task[d][t] \in states}
Moves(d, t, to) == task' = [task EXCEPT ![d][t] = to]
Rejects(d) == counters' = [counters EXCEPT ![d].rejected = @ + 1]
Links == UNCHANGED <<rpc, socket>>

\* A bug: the slot is given back when the tunnel has been set up.
RootSlot_Setup == Tasks("root", Setup)
RootSlot == Tasks("root", Working)

\* A model connection that finds the slot taken is dropped.
acceptTcp(t) ==
  /\ tcp[t] = "NONE" /\ rpc["root"] = "UP"
  /\ IF RootSlot = {} THEN /\ tcp' = [tcp EXCEPT ![t] = "OPEN"]
                           /\ Moves("root", t, "CONNECT") /\ UNCHANGED counters
     ELSE /\ tcp' = [tcp EXCEPT ![t] = "CLOSED"]
          /\ Rejects("root") /\ UNCHANGED task
  /\ Links /\ UNCHANGED <<guard, quic, replied>>

\* The stage has a permit for the handler of the connection, or refuses it.
connectQuic(t) ==
  /\ task["root"][t] = "CONNECT" /\ quic[t] = "NONE" /\ rpc["stage"] = "UP"
  /\ IF Cardinality(Tasks("stage", Working)) < Handlers
     THEN /\ quic' = [quic EXCEPT ![t] = "UP"]
          /\ task' = [task EXCEPT !["root"][t] = "HELLO", !["stage"][t] = "VERIFY"]
          /\ UNCHANGED counters
     ELSE Rejects("stage") /\ quic' = [quic EXCEPT ![t] = "CLOSED"] /\ UNCHANGED task
  /\ Links /\ UNCHANGED <<tcp, guard, replied>>

\* A tunnel is active until its task is dropped, however that ends.
Counted(d, t, as) == task[d][t] = "FORWARD"

\* Ends a task of a tunnel: what it has opened is dropped, its connection closed.
Ends(d, t, as, rejected) ==
  /\ Moves(d, t, as)
  /\ counters' = IF Counted(d, t, as)
                 THEN [counters EXCEPT ![d].active = @ - 1, ![d].closed = @ + 1]
                 ELSE IF rejected THEN [counters EXCEPT ![d].rejected = @ + 1] ELSE counters
  /\ quic' = [quic EXCEPT ![t] = IF @ = "UP" THEN "CLOSED" ELSE @]
  /\ IF d = "root" THEN tcp' = [tcp EXCEPT ![t] = "CLOSED"] /\ UNCHANGED guard
     ELSE guard' = [guard EXCEPT ![t] = IF @ = "OPEN" THEN "CLOSED" ELSE @] /\ UNCHANGED tcp
  /\ Links /\ UNCHANGED replied

\* A setup that fails: a wrong hello, no slot at the stage, no guard, or more
\* than five seconds.
failsTunnel(d, t) == task[d][t] \in Setup /\ Ends(d, t, "OVER", TRUE)

Forwards(d, t) ==
  /\ Moves(d, t, "FORWARD")
  /\ counters' = [counters EXCEPT ![d].active = @ + 1, ![d].accepted = @ + 1]

rootForwards(t) ==
  /\ task["root"][t] = "HELLO" /\ t \in replied /\ quic[t] = "UP"
  /\ Forwards("root", t)
  /\ Links /\ UNCHANGED <<tcp, guard, quic, replied>>

-----------------------------------------------------------------------------
(* The stage: the hello, its slot, the guard, and its own hello.           *)

StageSlot == Tasks("stage", {"REPLY", "FORWARD"})

verifies(t) ==
  /\ task["stage"][t] = "VERIFY" /\ quic[t] = "UP" /\ StageSlot = {}
  /\ Moves("stage", t, "REPLY")
  /\ guard' = [guard EXCEPT ![t] = "OPEN"]
  /\ Links /\ UNCHANGED <<tcp, quic, replied, counters>>

stageForwards(t) ==
  /\ task["stage"][t] = "REPLY" /\ quic[t] = "UP"
  /\ Forwards("stage", t)
  /\ replied' = replied \cup {t}
  /\ Links /\ UNCHANGED <<tcp, guard, quic>>

-----------------------------------------------------------------------------
(* forward: what ends a tunnel on a side.                                  *)

End(d, t) == IF d = "root" THEN tcp[t] ELSE guard[t]

\* A half-close ends the tunnel.
PumpEnds(d, t) == End(d, t) = "CLOSED"

endsForwarding(d, t) ==
  /\ task[d][t] = "FORWARD"
  /\ PumpEnds(d, t) \/ quic[t] \in {"CLOSED", "LOST"}
  /\ Ends(d, t, "OVER", FALSE)

\* The model server, or the guard, closes its connection.
closesEnd(t) ==
  /\ \/ tcp[t] = "OPEN" /\ tcp' = [tcp EXCEPT ![t] = "CLOSED"] /\ UNCHANGED guard
     \/ guard[t] = "OPEN" /\ guard' = [guard EXCEPT ![t] = "CLOSED"] /\ UNCHANGED tcp
  /\ Links /\ UNCHANGED <<task, quic, replied, counters>>

\* The network fails for longer than the idle timeout.
losesTunnel(t) ==
  /\ quic[t] = "UP"
  /\ quic' = [quic EXCEPT ![t] = "LOST"]
  /\ Links /\ UNCHANGED <<tcp, guard, task, replied, counters>>

-----------------------------------------------------------------------------
(* close, and the start of a new process on the same address.              *)

Alive(d) == Tasks(d, Working)
Sides == UNCHANGED <<tcp, guard, task, quic, replied, counters>>

\* The endpoint is closed, and every connection with it.
closeLink(d) ==
  /\ rpc[d] = "UP"
  /\ rpc' = [rpc EXCEPT ![d] = "CLOSING"]
  /\ quic' = [t \in Tunnel |-> IF quic[t] = "UP" THEN "CLOSED" ELSE quic[t]]
  /\ UNCHANGED <<tcp, guard, task, replied, counters, socket>>

\* The listener's loop has ended: its tasks are aborted.
abortTask(d, t) ==
  /\ rpc[d] = "CLOSING" /\ t \in Alive(d)
  /\ Ends(d, t, "ABORTED", FALSE)

drained(d) ==
  /\ rpc[d] = "CLOSING" /\ Alive(d) = {}
  /\ rpc' = [rpc EXCEPT ![d] = "DRAINED"]
  /\ Sides /\ UNCHANGED socket

\* The driver lets go of the address when nothing refers to the endpoint.
releases(d) ==
  /\ rpc[d] \in {"DRAINED", "FAILED"} /\ d \in socket
  /\ socket' = socket \ {d}
  /\ Sides /\ UNCHANGED rpc

\* A bug: the close does not look whether the address is free.
AddressFree_Assumed(d) == TRUE
AddressFree(d) == d \notin socket

\* The close succeeds, or gives up after three seconds.
closed(d) ==
  /\ rpc[d] = "DRAINED"
  /\ rpc' = [rpc EXCEPT ![d] = IF AddressFree(d) THEN "FREED" ELSE "FAILED"]
  /\ Sides /\ UNCHANGED socket

\* A new process on the address; it has a memory of its own.
starts(d) ==
  /\ rpc[d] \in {"FREED", "FAILED"} /\ d \notin socket
  /\ rpc' = [rpc EXCEPT ![d] = "UP"]
  /\ socket' = socket \cup {d}
  /\ counters' = [counters EXCEPT ![d] = Zero]
  /\ UNCHANGED <<tcp, guard, task, quic, replied>>

TunnelNext ==
  \/ \E t \in Tunnel :
       \/ acceptTcp(t) \/ connectQuic(t) \/ rootForwards(t)
       \/ verifies(t) \/ stageForwards(t) \/ closesEnd(t) \/ losesTunnel(t)
       \/ \E d \in Side : failsTunnel(d, t) \/ endsForwarding(d, t) \/ abortTask(d, t)
  \/ \E d \in Side : closeLink(d) \/ drained(d) \/ releases(d) \/ closed(d) \/ starts(d)

\* Deadlines come and ends are noticed, and a close goes on.
TaskEnds(d, t) == failsTunnel(d, t) \/ endsForwarding(d, t) \/ abortTask(d, t)
CloseGoesOn(d) == drained(d) \/ closed(d)
TunnelFairness ==
  \A d \in Side :
    /\ \A t \in Tunnel : WF_tunnelVars(TaskEnds(d, t))
    /\ WF_tunnelVars(CloseGoesOn(d))

-----------------------------------------------------------------------------
(* What must hold.                                                         *)

\* "One per root forwarder and one per stage, across all peer connections": at
\* most one tunnel forwards at the root, and the stage's guard has at most one
\* connection, whichever side has not yet noticed that the last one ended.
OneTunnel ==
  /\ Cardinality(Tasks("root", {"FORWARD"})) <= 1
  /\ Cardinality({t \in Tunnel : guard[t] = "OPEN"}) <= 1

\* The status a side publishes counts its tunnels: active ones are those that
\* forward now, and every other it has accepted is closed, also while it drains.
CountersAgree ==
  \A d \in Side :
    /\ counters[d].active = Cardinality(Tasks(d, {"FORWARD"}))
    /\ counters[d].accepted = counters[d].active + counters[d].closed

\* "A completed close must release the actual port before any retry": when close
\* has succeeded no task is left and the address can be bound.
FreedIsFree == \A d \in Side : rpc[d] = "FREED" => Alive(d) = {} /\ d \notin socket

\* "Half-close ends this tunnel": whichever end closes its TCP connection, both
\* sides' tasks end, and their slots come back.
EitherEndEndsBoth ==
  \A t \in Tunnel :
    tcp[t] = "CLOSED" \/ guard[t] = "CLOSED"
    ~> \A d \in Side : task[d][t] \notin Working
=============================================================================
