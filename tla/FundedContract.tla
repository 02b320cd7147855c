--------------------------- MODULE FundedContract ---------------------------
(***************************************************************************)
(* What the laboratory promises of a funded contract: its whole price is   *)
(* set aside when it is offered, is paid out in parts while it is open,    *)
(* and when it closes nothing is left behind and nothing can be paid any   *)
(* more.  Leases implements it, and so do the windows of Pools, with the   *)
(* balance of the escrow as what is held (AVAILABILITY.md in               *)
(* docs/implementation).                                                   *)
(***************************************************************************)
EXTENDS Integers

CONSTANTS
  Contract,
  Price        \* of each contract

VARIABLES
  stage,       \* NEW, FUNDED or CLOSED
  held,        \* set aside and not yet paid
  paid         \* paid so far

contractVars == <<stage, held, paid>>

Init ==
  /\ stage = [c \in Contract |-> "NEW"]
  /\ held = [c \in Contract |-> 0]
  /\ paid = [c \in Contract |-> 0]

Offer(c) ==
  /\ stage[c] = "NEW"
  /\ stage' = [stage EXCEPT ![c] = "FUNDED"]
  /\ held' = [held EXCEPT ![c] = Price[c]]
  /\ UNCHANGED paid

Pay(c, amount) ==
  /\ stage[c] = "FUNDED"
  /\ held' = [held EXCEPT ![c] = @ - amount]
  /\ paid' = [paid EXCEPT ![c] = @ + amount]
  /\ UNCHANGED stage

\* The last payment and the refund of the rest are one step.
Close(c, amount) ==
  /\ stage[c] = "FUNDED"
  /\ stage' = [stage EXCEPT ![c] = "CLOSED"]
  /\ held' = [held EXCEPT ![c] = 0]
  /\ paid' = [paid EXCEPT ![c] = @ + amount]

Next ==
  \E c \in Contract :
    \/ Offer(c)
    \/ \E amount \in 0..held[c] : Pay(c, amount) \/ Close(c, amount)

Spec == Init /\ [][Next]_contractVars
=============================================================================
