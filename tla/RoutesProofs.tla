---------------------------- MODULE RoutesProofs ----------------------------
(***************************************************************************)
(* Of every set of nodes, providers and routes: a root is in one open      *)
(* route at most, a qualified route was accepted by all its providers, and *)
(* a provider who has withdrawn from a route never finds it open again.    *)
(*                                                                         *)
(* What is open depends on the nodes, the model and the consents too, but  *)
(* only a qualified route can be open: it is enough that two routes of one *)
(* root are never both qualified, and that a consent never goes back.      *)
(***************************************************************************)
EXTENDS Routes, TLAPS

\* Two routes of one root are never both qualified (the check in qualify).
OneQualified ==
  \A q, r \in Route :
    q # r /\ Root(q) = Root(r) =>
      ~(routeState[q] = "LOCAL_PREVIEW" /\ routeState[r] = "LOCAL_PREVIEW")

\* Only the providers of a route have a say in it.
ProvidersSpeak ==
  \A r \in Route : \A u \in User : consent[r][u] # "NONE" => u \in Providers(r)

RoutesInv == RoutesTypeOK /\ OneQualified /\ QualifiedWasAccepted /\ ProvidersSpeak

LEMMA StartInv == StartOfMarket => RoutesInv
BY DEF StartOfMarket, RoutesInit, RoutesInv, RoutesTypeOK, OneQualified,
       QualifiedWasAccepted, ProvidersSpeak

\* The providers of an offer are account holders.
LEMMA ProvidersAreUsers ==
  ASSUME NEW o \in Offer
  PROVE  Providers(o) \subseteq User
<1>1. Len(Members[o]) \in Nat /\ Members[o] \in Seq(Node)
  BY OffersAssumption DEF Offer
<1>2. Nodes(o) \subseteq Node
  BY <1>1 DEF Nodes
<1> QED BY <1>2, OffersAssumption DEF Providers

-----------------------------------------------------------------------------
(* One handler at a time.                                                  *)

LEMMA PublishInv ==
  ASSUME RoutesInv, NEW r \in Route, publish(r)
  PROVE  RoutesInv'
<1> USE DEF RoutesInv
<1>1. /\ routeState' = [routeState EXCEPT ![r] = "CANDIDATE"]
      /\ preview' = preview /\ consent' = consent
  BY DEF publish
<1>2. RoutesTypeOK'
  BY <1>1 DEF RoutesTypeOK
<1>3. \A q \in Route : routeState'[q] = "LOCAL_PREVIEW" =>
        routeState[q] = "LOCAL_PREVIEW"
  BY <1>1 DEF RoutesTypeOK
<1> QED BY <1>1, <1>2, <1>3 DEF OneQualified, QualifiedWasAccepted, ProvidersSpeak

\* Accepting and withdrawing: the routes stay as they are, and nobody who has
\* spoken becomes one who has not.
LEMMA ConsentInv ==
  ASSUME RoutesInv, NEW r \in Route, NEW u \in User,
         acceptTerms(r, u) \/ withdraw(r, u)
  PROVE  RoutesInv'
<1> USE DEF RoutesInv
<1>1. PICK said \in {"GIVEN", "WITHDRAWN"} :
        consent' = [consent EXCEPT ![r][u] = said]
  BY DEF acceptTerms, withdraw
<1>2. u \in Providers(r)
  BY DEF acceptTerms, withdraw, ProvidersSpeak
<1>3. routeState' = routeState /\ preview' = preview
  BY DEF acceptTerms, withdraw
<1>4. RoutesTypeOK'
  BY <1>1, <1>3 DEF RoutesTypeOK
<1>5. \A q \in Route, v \in User :
        consent'[q][v] = IF q = r /\ v = u THEN said ELSE consent[q][v]
  BY <1>1 DEF RoutesTypeOK
<1>6. OneQualified'
  BY <1>3 DEF OneQualified
<1>7. QualifiedWasAccepted'
  <2> SUFFICES ASSUME NEW q \in Route, routeState'[q] = "LOCAL_PREVIEW",
                      NEW v \in Providers(q)
               PROVE  consent'[q][v] # "NONE"
    BY DEF QualifiedWasAccepted
  <2>1. v \in User
    BY ProvidersAreUsers DEF Route
  <2>2. consent[q][v] # "NONE"
    BY <1>3 DEF QualifiedWasAccepted
  <2> QED BY <1>5, <2>1, <2>2
<1>8. ProvidersSpeak'
  BY <1>2, <1>5 DEF ProvidersSpeak
<1> QED BY <1>4, <1>6, <1>7, <1>8

\* Qualifying asks that no other route of the root is qualified and that every
\* provider consents; revoking only takes a qualified route away.
LEMMA QualifyInv ==
  ASSUME RoutesInv, NEW r \in Route, NEW state \in {"LOCAL_PREVIEW", "REVOKED"},
         qualifyRoute(r, state)
  PROVE  RoutesInv'
<1> USE DEF RoutesInv
<1>1. /\ state = "LOCAL_PREVIEW" => RootIsFree(r) /\ AllConsent(r)
      /\ routeState' = [routeState EXCEPT ![r] = state]
      /\ preview' = preview /\ consent' = consent
  BY DEF qualifyRoute
<1>2. RoutesTypeOK'
  BY <1>1 DEF RoutesTypeOK
<1>3. \A q \in Route : routeState'[q] = IF q = r THEN state ELSE routeState[q]
  BY <1>1 DEF RoutesTypeOK
<1>4. OneQualified'
  BY <1>1, <1>3 DEF OneQualified, RootIsFree
<1>5. QualifiedWasAccepted'
  BY <1>1, <1>3 DEF QualifiedWasAccepted, AllConsent
<1>6. ProvidersSpeak'
  BY <1>1 DEF ProvidersSpeak
<1> QED BY <1>2, <1>4, <1>5, <1>6

-----------------------------------------------------------------------------
(* Every step.                                                             *)

LEMMA StepInv ==
  ASSUME RoutesInv,
         [RoutesNext /\ UNCHANGED ledgerVars]_<<fleetVars, routesVars, ledgerVars>>
  PROVE  RoutesInv'
<1>1. ASSUME UNCHANGED routesVars
      PROVE  RoutesInv'
  BY <1>1 DEF routesVars, RoutesInv, RoutesTypeOK, OneQualified,
              QualifiedWasAccepted, ProvidersSpeak
<1>2. ASSUME NEW qualified \in BOOLEAN, qualifyModel(qualified)
      PROVE  RoutesInv'
  BY <1>2 DEF qualifyModel, RoutesInv, RoutesTypeOK, OneQualified,
              QualifiedWasAccepted, ProvidersSpeak
<1> QED BY <1>1, <1>2, PublishInv, ConsentInv, QualifyInv DEF RoutesNext, RoutesStep

\* A consent that was withdrawn stays withdrawn: acceptTerms finds the record
\* of it, and withdraw only answers a consent that stands.
LEMMA WithdrawalStays ==
  ASSUME RoutesTypeOK, NEW r \in Route, NEW u \in User, consent[r][u] = "WITHDRAWN",
         [RoutesNext /\ UNCHANGED ledgerVars]_<<fleetVars, routesVars, ledgerVars>>
  PROVE  consent'[r][u] = "WITHDRAWN"
<1>1. ASSUME NEW q \in Route, NEW v \in User, acceptTerms(q, v) \/ withdraw(q, v)
      PROVE  consent'[r][u] = "WITHDRAWN"
  <2>1. q # r \/ v # u
    BY <1>1 DEF acceptTerms, withdraw, MayAccept
  <2>2. \/ consent' = [consent EXCEPT ![q][v] = "GIVEN"]
        \/ consent' = [consent EXCEPT ![q][v] = "WITHDRAWN"]
    BY <1>1 DEF acceptTerms, withdraw
  <2> QED BY <2>1, <2>2 DEF RoutesTypeOK
<1>2. ASSUME consent' = consent
      PROVE  consent'[r][u] = "WITHDRAWN"
  BY <1>2
<1>3. \/ consent' = consent
      \/ \E q \in Route, v \in User : acceptTerms(q, v) \/ withdraw(q, v)
  BY DEF RoutesNext, RoutesStep, routesVars, publish, qualifyRoute, qualifyModel
<1> QED BY <1>1, <1>2, <1>3

-----------------------------------------------------------------------------
(* The theorems.                                                           *)

\* Through every sequence of publications, acceptances, withdrawals,
\* qualifications, revocations and restarts of nodes, the routes keep RoutesInv.
THEOREM RoutesInvariant == RoutesSpec => []RoutesInv
<1>1. StartOfMarket => RoutesInv
  BY StartInv
<1>2. /\ RoutesInv
      /\ [RoutesNext /\ UNCHANGED ledgerVars]_<<fleetVars, routesVars, ledgerVars>>
      => RoutesInv'
  BY StepInv
<1> QED BY <1>1, <1>2, PTL DEF RoutesSpec

\* A root serves one open route, and a qualified route was accepted by all
\* (the checks of qualify, which holds the root's record locked, routes.ts).
THEOREM OneRouteOfEach == RoutesSpec => []RoutesHold
<1>1. RoutesInv => RoutesHold
  BY DEF RoutesInv, RoutesHold, OneQualified, OneOpenRoutePerRoot, Open, Listed, Route
<1> QED BY <1>1, RoutesInvariant, PTL

\* Who has withdrawn from a route never finds it open again (routes.ts withdraw).
THEOREM WithdrawalIsFinal == RoutesSpec => WithdrawnNeverReopens
<1>1. ASSUME RoutesInv, RoutesInv',
             [RoutesNext /\ UNCHANGED ledgerVars]_<<fleetVars, routesVars, ledgerVars>>
      PROVE  \A r \in Route, u \in User : consent[r][u] = "WITHDRAWN" => ~Open(r)'
  <2> SUFFICES ASSUME NEW r \in Route, NEW u \in User, consent[r][u] = "WITHDRAWN"
               PROVE  ~Open(r)'
    OBVIOUS
  <2>1. consent'[r][u] = "WITHDRAWN"
    BY <1>1, WithdrawalStays DEF RoutesInv
  <2>2. u \in Providers(r)
    BY <1>1 DEF RoutesInv, ProvidersSpeak
  <2>3. ~AllConsent(r)'
    BY <2>1, <2>2 DEF AllConsent
  <2>4. IsRoute(r)
    BY DEF Route
  <2> QED BY <2>3, <2>4 DEF Open, Listed
<1> QED BY <1>1, RoutesInvariant, PTL DEF RoutesSpec, WithdrawnNeverReopens
=============================================================================
