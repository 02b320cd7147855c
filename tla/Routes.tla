------------------------------- MODULE Routes -------------------------------
(***************************************************************************)
(* Routes on the coordinator (routes.ts): the owner of a root publishes a  *)
(* route, every provider in it accepts its terms, and an administrator     *)
(* qualifies or revokes it; a provider may withdraw at any time.  Which    *)
(* nodes serve is Fleet's; an offer is open for execution when it is       *)
(* listed here and its nodes serve (the view ready_execution_offers).      *)
(*                                                                         *)
(* The members of a route never change, so its hash is never compared.     *)
(* Publishing again under an idempotency key finds the route.              *)
(***************************************************************************)
EXTENDS Offers

CONSTANTS
  MaxRoutes    \* routes a publisher may have open (32 in the code)

ASSUME RoutesAssumption == MaxRoutes \in Nat

VARIABLES
  preview,     \* the model's state is LOCAL_PREVIEW (false: REVOKED)
  routeState,  \* execution_routes.state; NONE: not published yet
  consent      \* route_acceptances: of each provider to each route

routesVars == <<preview, routeState, consent>>

Route == {o \in Offer : IsRoute(o)}
Publisher(r) == Owner[Root(r)]

RoutesTypeOK ==
  /\ preview \in BOOLEAN
  /\ routeState \in [Route -> {"NONE", "CANDIDATE", "LOCAL_PREVIEW", "REVOKED"}]
  /\ consent \in [Route -> [User -> {"NONE", "GIVEN", "WITHDRAWN"}]]

RoutesInit ==
  /\ preview = TRUE
  /\ routeState = [r \in Route |-> "NONE"]
  /\ consent = [r \in Route |-> [u \in User |-> "NONE"]]

-----------------------------------------------------------------------------
\* Every node of the route must be known and not revoked, the model qualified.
publish(r) ==
  /\ routeState[r] = "NONE"
  /\ Cardinality({q \in Route : Publisher(q) = Publisher(r)
                                /\ routeState[q] \notin {"NONE", "REVOKED"}}) < MaxRoutes
  /\ preview
  /\ \A n \in Nodes(r) : epoch[n] > 0 /\ desired[n] # "REVOKED"
  /\ routeState' = [routeState EXCEPT ![r] = "CANDIDATE"]
  /\ UNCHANGED <<fleetVars, preview, consent>>

MayAccept(r, u) == consent[r][u] = "NONE"

acceptTerms(r, u) ==
  /\ routeState[r] \notin {"NONE", "REVOKED"}
  /\ u \in Providers(r)
  /\ MayAccept(r, u)
  /\ consent' = [consent EXCEPT ![r][u] = "GIVEN"]
  /\ UNCHANGED <<fleetVars, preview, routeState>>

withdraw(r, u) ==
  /\ consent[r][u] = "GIVEN"
  /\ consent' = [consent EXCEPT ![r][u] = "WITHDRAWN"]
  /\ UNCHANGED <<fleetVars, preview, routeState>>

\* A bug: the publisher speaks for the others.
AllConsent_Publisher(r) == consent[r][Publisher(r)] = "GIVEN"
AllConsent(r) == \A u \in Providers(r) : consent[r][u] = "GIVEN"

RootIsFree(r) ==
  \A q \in Route \ {r} : Root(q) = Root(r) => routeState[q] # "LOCAL_PREVIEW"

qualifyRoute(r, state) ==
  /\ routeState[r] \notin {"NONE", "REVOKED"}
  /\ state = "LOCAL_PREVIEW" => RootIsFree(r) /\ AllConsent(r)
  /\ routeState' = [routeState EXCEPT ![r] = state]
  /\ UNCHANGED <<fleetVars, preview, consent>>

\* The administrator qualifies or revokes the model itself (market.ts).
qualifyModel(qualified) ==
  /\ preview' = qualified
  /\ UNCHANGED <<fleetVars, routeState, consent>>

RoutesStep ==
  \/ \E r \in Route :
       \/ publish(r)
       \/ \E u \in User : acceptTerms(r, u) \/ withdraw(r, u)
       \/ \E state \in {"LOCAL_PREVIEW", "REVOKED"} : qualifyRoute(r, state)
  \/ \E qualified \in BOOLEAN : qualifyModel(qualified)

RoutesNext == RoutesStep \/ (FleetNext /\ UNCHANGED routesVars)

\* The routes by themselves: no handler here touches the book.
StartOfMarket == FleetInit /\ RoutesInit /\ balance = NoLines /\ journal = {}
RoutesSpec ==
  StartOfMarket
  /\ [][RoutesNext /\ UNCHANGED ledgerVars]_<<fleetVars, routesVars, ledgerVars>>

-----------------------------------------------------------------------------
\* What the view asks of an offer besides its nodes.
Listed(o) ==
  preview /\ (IsRoute(o) => routeState[o] = "LOCAL_PREVIEW" /\ AllConsent(o))

\* The offer is in the view ready_execution_offers.
Open(o) == Listed(o) /\ \A n \in Nodes(o) : Serving(n)

-----------------------------------------------------------------------------
(* What must hold.                                                         *)

\* One root serves one route: no root is in two open offers, through every
\* sequence of publications, qualifications, withdrawals and revocations.
OneOpenRoutePerRoot ==
  \A q, r \in Route : q # r /\ Root(q) = Root(r) => ~(Open(q) /\ Open(r))

\* A withdrawal is for good: once a provider has left a route, no sequence of
\* acceptances and qualifications offers that route again.
WithdrawnNeverReopens ==
  [][\A r \in Route, u \in User :
       consent[r][u] = "WITHDRAWN" => ~Open(r)']_<<fleetVars, routesVars>>

\* A qualified route has been accepted by every provider in it, even if one of
\* them has withdrawn since.
QualifiedWasAccepted ==
  \A r \in Route : routeState[r] = "LOCAL_PREVIEW" =>
    \A u \in Providers(r) : consent[r][u] # "NONE"

\* A root has one open route, whatever the order of publications, withdrawals and
\* revocations, and it was qualified with everyone's consent (routes.ts).
RoutesHold == OneOpenRoutePerRoot /\ QualifiedWasAccepted
=============================================================================
