----------------------------- MODULE Registration -----------------------------
(***************************************************************************)
(* How the agent of one node makes itself known (nodes.ts signed, register *)
(* and resume; the start of crates/node and of stage.mjs).  Each start is  *)
(* a process with a boot identity of its own; it resumes the node with a   *)
(* signed request or, if that comes to nothing, registers it with its      *)
(* invitation, and then serves under the epoch it was told.  What becomes  *)
(* of the node from then on is in Fleet.                                   *)
(*                                                                         *)
(* A signed request is checked in one transaction and handled in another.  *)
(* Requests arrive late, twice or never, whether their process still waits *)
(* or not; so do answers.  Processes overlap: an agent binds its port only *)
(* after it has been told its epoch.  Clocks differ by up to Skew; one     *)
(* unit of time is the 30 seconds for which a request is valid.            *)
(***************************************************************************)
EXTENDS Integers

CONSTANTS
  MaxStarts,   \* bound: starts of the agent
  Skew,        \* how far the agent's clock is from the coordinator's
  Retention    \* how long a nonce is kept, in units (5 minutes in the code)

ASSUME RegistrationAssumption ==
  MaxStarts \in Nat /\ Skew \in Nat /\ Retention \in Nat /\ Retention >= 2

VARIABLES
  agent,     \* each process: how far its start has come
  told,      \* the epoch each process has been told
  left,      \* for how long each request is still valid, or -1
  nonceAge,  \* node_nonces: how long ago a request's nonce was seen, or -1
  passed,    \* requests that were checked and not yet handled
  checked,   \* how often each request has passed the check
  granted,   \* epochs granted to each process: answers on their way
  record     \* the row of the node, and its invitation

registrationVars == <<agent, told, left, nonceAge, passed, checked, granted, record>>

Process == 1..MaxStarts
NoProcess == 0
Message == {"resume", "register"} \X Process

RegistrationTypeOK ==
  /\ agent \in [Process -> {"NEW", "RESUMES", "REGISTERS", "SERVES", "OVER"}]
  /\ told \in [Process -> Nat]
  /\ left \in [Message -> Int] /\ nonceAge \in [Message -> Int]
  /\ passed \subseteq Message
  /\ checked \in [Message -> Nat]
  /\ granted \in [Process -> SUBSET Nat]
  /\ record \in [epoch : Nat, boot : Process \cup {NoProcess}, invited : BOOLEAN,
                 revoked : BOOLEAN]

RegistrationInit ==
  /\ agent = [p \in Process |-> "NEW"] /\ told = [p \in Process |-> 0]
  /\ left = [m \in Message |-> -1] /\ nonceAge = [m \in Message |-> -1]
  /\ passed = {} /\ checked = [m \in Message |-> 0]
  /\ granted = [p \in Process |-> {}]
  /\ record = [epoch |-> 0, boot |-> NoProcess, invited |-> TRUE, revoked |-> FALSE]

-----------------------------------------------------------------------------
(* The agent.                                                              *)

ByAgent == UNCHANGED <<nonceAge, passed, checked, granted, record>>

\* A request that is signed by a clock that is right is valid for one more unit.
Sends(m) == \E span \in (1 - Skew)..(1 + Skew) : left' = [left EXCEPT ![m] = span]

startsAgent(p) ==
  /\ agent[p] = "NEW" /\ \A q \in Process : q < p => agent[q] # "NEW"
  /\ agent' = [agent EXCEPT ![p] = "RESUMES"]
  /\ Sends(<<"resume", p>>)
  /\ UNCHANGED told /\ ByAgent

\* The resumption was refused, or its answer does not come: nothing tells them apart.
registers(p) ==
  /\ agent[p] = "RESUMES"
  /\ agent' = [agent EXCEPT ![p] = "REGISTERS"]
  /\ Sends(<<"register", p>>)
  /\ UNCHANGED told /\ ByAgent

hearsEpoch(p) ==
  /\ agent[p] \in {"RESUMES", "REGISTERS"}
  /\ \E e \in granted[p] : told' = [told EXCEPT ![p] = e]
  /\ agent' = [agent EXCEPT ![p] = "SERVES"]
  /\ UNCHANGED left /\ ByAgent

\* Its start fails, it is stopped, or it dies.
agentEnds(p) ==
  /\ agent[p] \notin {"NEW", "OVER"}
  /\ agent' = [agent EXCEPT ![p] = "OVER"]
  /\ UNCHANGED <<told, left>> /\ ByAgent

-----------------------------------------------------------------------------
(* The coordinator.                                                        *)

AtCoordinator == UNCHANGED <<agent, told>>

\* Within 30 seconds of the coordinator's clock, before or after.
InWindow(m) == left[m] \in 0..2

\* signed: the window, a registered key that is not revoked, and a fresh nonce.
signed(m) ==
  /\ m[1] = "resume" /\ InWindow(m)
  /\ record.epoch > 0 /\ ~record.revoked
  /\ nonceAge[m] = -1
  /\ nonceAge' = [nonceAge EXCEPT ![m] = 0]
  /\ passed' = passed \cup {m}
  /\ checked' = [checked EXCEPT ![m] = @ + 1]
  /\ UNCHANGED <<left, granted, record>> /\ AtCoordinator

\* A bug: a process that resumes a registered node keeps the node's epoch.
NewEpoch_Registered(p) == IF record.epoch > 0 THEN record.epoch ELSE 1
NewEpoch(p) == IF record.boot = p THEN record.epoch ELSE record.epoch + 1

Grants(p) ==
  /\ record' = [record EXCEPT !.epoch = NewEpoch(p), !.boot = p, !.invited = FALSE]
  /\ granted' = [granted EXCEPT ![p] = @ \cup {NewEpoch(p)}]

\* An invitation that has neither been consumed nor expired, for a node without a key.
register(p) ==
  /\ InWindow(<<"register", p>>)
  /\ record.invited /\ record.epoch = 0 /\ ~record.revoked
  /\ Grants(p)
  /\ UNCHANGED <<left, nonceAge, passed, checked>> /\ AtCoordinator

resume(p) ==
  /\ <<"resume", p>> \in passed /\ passed' = passed \ {<<"resume", p>>}
  /\ IF record.revoked THEN UNCHANGED <<record, granted>> ELSE Grants(p)
  /\ UNCHANGED <<left, nonceAge, checked>> /\ AtCoordinator

\* A bug: a nonce is kept for no longer than a request is valid.
Stale_Window(m) == nonceAge[m] > 1
Stale(m) == nonceAge[m] > Retention

\* reap: the nonces of more than five minutes ago.
forgets ==
  /\ \E m \in Message : Stale(m)
  /\ nonceAge' = [m \in Message |-> IF Stale(m) THEN -1 ELSE nonceAge[m]]
  /\ UNCHANGED <<left, passed, checked, granted, record>> /\ AtCoordinator

\* The owner revokes the node, or the invitation expires.
revokesNode ==
  /\ ~record.revoked
  /\ record' = [record EXCEPT !.revoked = TRUE]
  /\ UNCHANGED <<left, nonceAge, passed, checked, granted>> /\ AtCoordinator
invitationExpires ==
  /\ record.invited
  /\ record' = [record EXCEPT !.invited = FALSE]
  /\ UNCHANGED <<left, nonceAge, passed, checked, granted>> /\ AtCoordinator

\* Time passes.  The age of a nonce is told apart as far as forgets does.
passes ==
  /\ left' = [m \in Message |-> IF left[m] >= 0 THEN left[m] - 1 ELSE left[m]]
  /\ nonceAge' = [m \in Message |->
                    IF nonceAge[m] \in 0..Retention THEN nonceAge[m] + 1 ELSE nonceAge[m]]
  /\ UNCHANGED <<passed, checked, granted, record>> /\ AtCoordinator

RegistrationNext ==
  \/ \E p \in Process : \/ startsAgent(p) \/ registers(p) \/ hearsEpoch(p) \/ agentEnds(p)
                        \/ register(p) \/ resume(p)
  \/ \E m \in Message : signed(m)
  \/ forgets \/ revokesNode \/ invitationExpires \/ passes

RegistrationSpec == RegistrationInit /\ [][RegistrationNext]_registrationVars

-----------------------------------------------------------------------------
(* What must hold.                                                         *)

\* A signed request is handled once, however often it arrives: its nonce is not
\* forgotten while it is still valid, although it may have been signed by a clock
\* that is ahead.  (nodes.ts 29-58, sessions.ts 1031-1033; "nonces persist for
\* five minutes")
HandledOnce == \A m \in Message : checked[m] <= 1

\* An epoch names one process: no two are ever told the same, through lost answers,
\* resumptions that arrive after a later process's, and overlapping starts.  All
\* fencing of sessions and leases rests on it.  (nodes.ts 61-110)
EpochNamesOneProcess ==
  \A p, q \in Process : told[p] = told[q] /\ told[p] # 0 => p = q
=============================================================================
