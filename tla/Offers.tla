------------------------------- MODULE Offers -------------------------------
(***************************************************************************)
(* What can be executed on: a single node that serves a whole model, or a  *)
(* route of several nodes, the root first, with the payout share of each.  *)
(* The offers are numbered in the order of their keys ("node:..." before   *)
(* "route:..."), and a published route never changes its members.          *)
(***************************************************************************)
EXTENDS Ledger, Fleet, Sequences

CONSTANTS
  Domain,      \* physical resource domains
  Owner,       \* the provider account of each node
  Host,        \* the domain of each node
  Members,     \* offers in offer_key order: the nodes of each, root first
  Shares       \* the payout shares of each offer, in basis points

Offer == DOMAIN Members

ASSUME OffersAssumption ==
  /\ Owner \in [Node -> User] /\ Host \in [Node -> Domain]
  /\ Members \in Seq(Seq(Node)) /\ Shares \in Seq(Seq(1..10000))
  /\ Len(Shares) = Len(Members)
  /\ \A o \in Offer : Len(Members[o]) > 0 /\ Len(Shares[o]) = Len(Members[o])
  /\ \A o \in Offer : \A i, j \in DOMAIN Members[o] :
       Members[o][i] = Members[o][j] => i = j

Nodes(o) == {Members[o][i] : i \in DOMAIN Members[o]}
Root(o) == Members[o][1]
Stages(o) == Nodes(o) \ {Root(o)}
Domains(o) == {Host[n] : n \in Nodes(o)}

\* A route has a root and at least one stage.
IsRoute(o) == Len(Members[o]) > 1
Providers(o) == {Owner[n] : n \in Nodes(o)}
=============================================================================
