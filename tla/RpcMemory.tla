------------------------------ MODULE RpcMemory ------------------------------
(***************************************************************************)
(* The memory that a contributor lends to one RPC connection               *)
(* (rpc-memory.mjs).  The guard sees every allocation and release of the   *)
(* root's engine, asks the worker and the device what is free, refuses     *)
(* what exceeds the budget or the reserve, and answers questions about     *)
(* memory within the same terms.  A refusal ends the connection, and with  *)
(* it the budget and every buffer.                                         *)
(*                                                                         *)
(* One command at a time is served; other programs take and return memory  *)
(* between commands.  The worker may allocate more than was asked for.     *)
(***************************************************************************)
EXTENDS Integers, FiniteSets, Functions

CONSTANTS
  Pointer,     \* addresses of buffers
  Budget,      \* limit_bytes
  Reserve,     \* reserve_bytes
  Installed,   \* memory of the device
  MaxBuffers   \* buffers a connection may hold (4096)

ASSUME MemoryAssumption ==
  /\ {Budget, Reserve, Installed, MaxBuffers} \subseteq Nat
  /\ Budget > 0
  /\ IsFiniteSet(Pointer)

VARIABLES
  buffers,     \* the size of each buffer that is held; 0: none
  used,        \* the guard's own count
  unclaimed,   \* memory that is free on the device
  told         \* free memory last told to the root, until something changes; -1

memoryVars == <<buffers, used, unclaimed, told>>

Small(a, b) == IF a < b THEN a ELSE b
SumOf(b) == SumFunction(b)
InUse(b) == {p \in Pointer : b[p] > 0}
remaining == Budget - used

MemoryInit ==
  /\ buffers = [p \in Pointer |-> 0]
  /\ used = 0 /\ unclaimed = Installed /\ told = -1

-----------------------------------------------------------------------------
withinBudget(size) == size <= remaining /\ Cardinality(InUse(buffers)) < MaxBuffers
hasHeadroom(size, free) == free >= Reserve /\ size <= free - Reserve
requireAllocation(size, free) == withinBudget(size) /\ hasHeadroom(size, free)

Allows(asked, actual) ==
  requireAllocation(asked, unclaimed) /\ requireAllocation(actual, unclaimed)

\* The worker answers with a buffer of at least what was asked, or with none.
allocate(p, asked, actual) ==
  /\ buffers[p] = 0 /\ actual >= asked /\ actual <= unclaimed
  /\ Allows(asked, actual)
  /\ buffers' = [buffers EXCEPT ![p] = actual]
  /\ used' = used + actual
  /\ unclaimed' = unclaimed - actual
  /\ told' = -1

Credited(p) == used - buffers[p]

\* The budget is credited after the worker has released the buffer.
freed(p) ==
  /\ buffers[p] > 0
  /\ used' = Credited(p)
  /\ buffers' = [buffers EXCEPT ![p] = 0]
  /\ unclaimed' = unclaimed + buffers[p]
  /\ told' = -1

\* A bug: the reserve is not taken off what is free.
Visible_Reserve(free, total) == Small(free, Small(remaining, Small(total, Budget)))
Visible(free, total) ==
  Small(IF free > Reserve THEN free - Reserve ELSE 0, Small(remaining, Small(total, Budget)))

\* The device-memory query of the root.
memory ==
  /\ told' = Visible(unclaimed, Installed)
  /\ UNCHANGED <<buffers, used, unclaimed>>

\* Anything refused ends the connection.
closeBudget ==
  /\ buffers' = [p \in Pointer |-> 0]
  /\ used' = 0
  /\ unclaimed' = unclaimed + SumOf(buffers)
  /\ told' = -1

\* Other programs take memory or return it.
others(free) ==
  /\ free # unclaimed /\ free + SumOf(buffers) <= Installed
  /\ unclaimed' = free
  /\ told' = -1
  /\ UNCHANGED <<buffers, used>>

MemoryNext ==
  \/ \E p \in Pointer :
       \/ freed(p)
       \/ \E asked, actual \in 1..Installed : allocate(p, asked, actual)
  \/ memory \/ closeBudget
  \/ \E free \in 0..Installed : others(free)

-----------------------------------------------------------------------------
(* What must hold.                                                         *)

\* The guard's count is what the worker holds for the connection, and within what
\* the contributor lends, through every order of allocations and releases.
BudgetHolds == used = SumOf(buffers) /\ used <= Budget

\* What the root was told is free it may have: no allocation up to it is refused
\* while nothing else happens, except for too many buffers.
ToldIsGranted ==
  Cardinality(InUse(buffers)) < MaxBuffers =>
    \A size \in 1..told : Allows(size, size)

\* The contributor keeps the reserve after every allocation, however much more
\* than it was asked for the worker took.
ReserveKept ==
  [][(\E p \in Pointer : buffers'[p] > buffers[p]) => unclaimed' >= Reserve]_memoryVars
=============================================================================
