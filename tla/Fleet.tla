-------------------------------- MODULE Fleet --------------------------------
(***************************************************************************)
(* The coordinator's record of every contributed node: nodes.ts (register, *)
(* resume, heartbeat) and the owner's desired state (market.ts nodeState). *)
(*                                                                         *)
(* The epoch is the fencing token: it grows whenever an agent process that *)
(* was not the last one (another boot_id) takes the node over.  Wall-clock *)
(* freshness (last_seen within 15 seconds) is a flag that heartbeats set   *)
(* and the passing of time clears.                                         *)
(***************************************************************************)
EXTENDS Integers

CONSTANTS
  Node,        \* registered node identities
  MaxEpoch,    \* bound of the model: restarts per node (plus registration)
  Orders       \* bound of the model: what owners ask of their nodes

ASSUME FleetAssumption ==
  /\ MaxEpoch \in Nat
  /\ Orders \subseteq {"READY", "PAUSED", "REVOKED"}

VARIABLES
  epoch,       \* nodes.epoch
  phase,       \* nodes.state, last advertised by the agent
  desired,     \* nodes.desired_state, ordered by the owner
  fresh        \* nodes.last_seen is within 15 seconds

fleetVars == <<epoch, phase, desired, fresh>>

Phase == {"OFFLINE", "VALIDATING", "READY", "PAUSED", "REVOKED"}
Desired == {"READY", "PAUSED", "REVOKED"}

FleetTypeOK ==
  /\ epoch \in [Node -> Nat]
  /\ phase \in [Node -> Phase]
  /\ desired \in [Node -> Desired]
  /\ fresh \in [Node -> BOOLEAN]

FleetInit ==
  /\ epoch = [n \in Node |-> 0]
  /\ phase = [n \in Node |-> "OFFLINE"]
  /\ desired = [n \in Node |-> "READY"]
  /\ fresh = [n \in Node |-> FALSE]

-----------------------------------------------------------------------------
\* The agent of n presents a boot identity; anew says it is not the stored one.
\* The invitation of an unregistered node (epoch 0) is consumed the same way.
Resume(n, anew) ==
  /\ desired[n] # "REVOKED"
  /\ epoch[n] = 0 => anew
  /\ anew => epoch[n] < MaxEpoch
  /\ epoch' = [epoch EXCEPT ![n] = IF anew THEN @ + 1 ELSE @]
  /\ phase' = [phase EXCEPT ![n] = "VALIDATING"]
  /\ fresh' = [fresh EXCEPT ![n] = TRUE]
  /\ UNCHANGED desired

\* A heartbeat of the current boot and epoch; ready says that the engine holds
\* the model and the outbox can be written.
Heartbeat(n, ready) ==
  /\ epoch[n] > 0
  /\ desired[n] # "REVOKED"
  /\ phase' = [phase EXCEPT ![n] = IF desired[n] = "PAUSED" THEN "PAUSED"
                                   ELSE IF ready THEN "READY" ELSE "VALIDATING"]
  /\ fresh' = [fresh EXCEPT ![n] = TRUE]
  /\ UNCHANGED <<epoch, desired>>

\* Fifteen seconds without a heartbeat.
GoSilent(n) ==
  /\ fresh[n]
  /\ fresh' = [fresh EXCEPT ![n] = FALSE]
  /\ UNCHANGED <<epoch, phase, desired>>

\* The owner (or an administrator) pauses, resumes or revokes a node.
NodeState(n, order) ==
  /\ desired[n] # "REVOKED"
  /\ desired' = [desired EXCEPT ![n] = order]
  /\ phase' = [phase EXCEPT ![n] = IF order = "REVOKED" THEN "REVOKED" ELSE @]
  /\ UNCHANGED <<epoch, fresh>>

FleetNext ==
  \E n \in Node :
    \/ \E anew \in BOOLEAN : Resume(n, anew)
    \/ \E ready \in BOOLEAN : Heartbeat(n, ready)
    \/ GoSilent(n)
    \/ \E order \in Orders : NodeState(n, order)

-----------------------------------------------------------------------------
\* What an execution offer asks of each of its nodes (ready_execution_offers).
Serving(n) == phase[n] = "READY" /\ desired[n] = "READY" /\ fresh[n]
=============================================================================
