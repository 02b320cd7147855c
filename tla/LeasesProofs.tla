---------------------------- MODULE LeasesProofs ----------------------------
(***************************************************************************)
(* Of every set of nodes, providers, routes, leases and domains.           *)
(*                                                                         *)
(* Claims: the registry is exactly the open windows, so that a physical    *)
(* domain is in one paid window at most, and an accepted route window is   *)
(* kept to its end. Every handler that changes a row goes through Write,   *)
(* and whether a window is open depends on the row's stage alone.          *)
(*                                                                         *)
(* Credits, on any clock: what a member is credited with fits in the time  *)
(* sampled, the time sampled fits in the window, and no process is         *)
(* credited for an interval another one began. Each handler writes one row *)
(* at most, and the row that is written is sound: it keeps the bounds,     *)
(* which need each other, and it credits no member whose process has       *)
(* changed.                                                                *)
(*                                                                         *)
(* Books, on any clock: the book and the contracts tell one story, no      *)
(* member is paid more than its share of the budget, and a lease           *)
(* implements FundedContract. A handler writes one row and makes the       *)
(* postings that go with it. The invariant says of each row that what is   *)
(* paid is what the credits have earned (Owed), and of the journal that a  *)
(* key is used for one posting (Keys): a payment's key is the largest so   *)
(* far, because what it is made from has grown, so that no payment is      *)
(* taken for an earlier one.                                               *)
(***************************************************************************)
EXTENDS Leases, RoutesProofs, PayoutProofs

(* Claims.                                                                 *)

StageName == {"NEW"} \cup Funded \cup Closed

\* A row has a stage, one of the known ones.
Staged(r) == "stage" \in DOMAIN r /\ r.stage \in StageName

Registry ==
  /\ DOMAIN lease = Lease /\ lease = [l \in Lease |-> lease[l]]
  /\ \A l \in Lease : Staged(lease[l])
  /\ claimant \in [Domain -> Lease \cup {None}]
  /\ ClaimsMatchLeases

\* What a handler may make of the row of l: open a window only over domains that
\* nobody claims, and keep an open route window open until its end.
Lawful(l, r) ==
  /\ Staged(r)
  /\ Holds(r) => lease[l].stage \in Active \/ Unclaimed(l)
  /\ IsRoute(Backed[l]) /\ lease[l].stage \in Active =>
       r.stage \in Active \/ (r.stage = "COMPLETED" /\ now >= Ends(l))

LawfulStep ==
  \/ UNCHANGED <<lease, claimant>>
  \/ \E l \in Lease : \E r : Lawful(l, r) /\ Write(l, r)

-----------------------------------------------------------------------------
(* Rows.                                                                   *)

LEMMA StageFacts ==
  /\ Active \subseteq StageName
  /\ \A s \in {"NEW", "OFFERED"} \cup Closed : s \notin Active /\ s \in StageName
BY DEF Active, Closed, Funded, StageName

\* Changing the stage of a row changes nothing but what it says.
LEMMA Restage ==
  ASSUME NEW r, "stage" \in DOMAIN r, NEW s
  PROVE  /\ [r EXCEPT !.stage = s].stage = s
         /\ DOMAIN [r EXCEPT !.stage = s] = DOMAIN r
OBVIOUS

\* An observation leaves a window open: the row stays as it was or drains.
LEMMA SampleStage ==
  ASSUME NEW l \in Lease, Staged(lease[l])
  PROVE  /\ Staged(Sample(l))
         /\ Sample(l).stage \in {"DRAINING", lease[l].stage}
BY DEF Sample, Staged, StageName, Funded

-----------------------------------------------------------------------------
(* Every step is lawful.                                                   *)

\* Payment and refund are lawful as far as the row they write is.
LEMMA AdvanceLawful ==
  ASSUME NEW l \in Lease, NEW r, Lawful(l, r), advance(l, r)
  PROVE  LawfulStep
BY DEF advance, LawfulStep

LEMMA CloseLawful ==
  ASSUME NEW l \in Lease, NEW r, Staged(r), NEW stage \in Closed,
         IsRoute(Backed[l]) /\ lease[l].stage \in Active =>
           stage = "COMPLETED" /\ now >= Ends(l),
         close(l, r, stage)
  PROVE  LawfulStep
<1> DEFINE last == [r EXCEPT !.stage = stage, !.ready = FALSE]
<1>1. "stage" \in DOMAIN last /\ last.stage = stage
  BY DEF Staged
<1>2. Lawful(l, last)
  BY <1>1, StageFacts DEF Lawful, Staged, Holds
<1>3. Write(l, last)
  BY DEF close
<1> QED BY <1>2, <1>3 DEF LawfulStep

LEMMA OfferLawful ==
  ASSUME Registry, NEW l \in Lease, offer(l)
  PROVE  LawfulStep
<1> DEFINE r == [lease[l] EXCEPT !.stage = "OFFERED"]
<1>1. Staged(lease[l]) /\ lease[l].stage = "NEW"
  BY DEF Registry, offer
<1>2. "stage" \in DOMAIN r /\ r.stage = "OFFERED"
  BY <1>1, Restage DEF Staged
<1>3. Lawful(l, r)
  BY <1>1, <1>2, StageFacts DEF Lawful, Staged, Holds, Active
<1>4. Write(l, r)
  BY DEF offer
<1> QED BY <1>3, <1>4 DEF LawfulStep

\* The window opens over domains that were found free.
LEMMA AcceptLawful ==
  ASSUME Registry, NEW l \in Lease, NEW u \in User, accept(l, u)
  PROVE  LawfulStep
<1> DEFINE accepted == lease[l].accepted \cup {u}
<1>1. Staged(lease[l]) /\ lease[l].stage = "OFFERED"
  BY DEF Registry, accept, AcceptsTerms
<1>2. CASE accepted # Providers(Backed[l])
  <2> DEFINE r == [lease[l] EXCEPT !.accepted = accepted]
  <2>1. "stage" \in DOMAIN r /\ r.stage = "OFFERED"
    BY <1>1 DEF Staged
  <2>2. Lawful(l, r)
    BY <1>1, <2>1, StageFacts DEF Lawful, Staged, Holds, Active
  <2>3. Write(l, r)
    BY <1>2 DEF accept, AcceptsTerms
  <2> QED BY <2>2, <2>3 DEF LawfulStep
<1>3. CASE accepted = Providers(Backed[l])
  <2>1. "stage" \in DOMAIN Activated(l, accepted) /\ Activated(l, accepted).stage = "ACTIVE"
    BY <1>1 DEF Staged, Activated
  <2>2. Unclaimed(l) /\ Write(l, Activated(l, accepted))
    BY <1>3 DEF accept, AcceptsTerms
  <2>3. Lawful(l, Activated(l, accepted))
    BY <1>1, <2>1, <2>2, StageFacts DEF Lawful, Staged, Active
  <2> QED BY <2>2, <2>3 DEF LawfulStep
<1> QED BY <1>2, <1>3

LEMMA ReconcileLawful ==
  ASSUME Registry, NEW l \in Lease, reconcile(l)
  PROVE  LawfulStep
<1>1. Staged(lease[l])
  BY DEF Registry
<1>2. Staged(Sample(l)) /\ Sample(l).stage \in {"DRAINING", lease[l].stage}
  BY <1>1, SampleStage
<1>3. CASE lease[l].stage = "OFFERED" /\ close(l, lease[l], "EXPIRED")
  BY <1>1, <1>3, CloseLawful DEF Active, Closed
<1>4. CASE lease[l].stage \in Active /\ now >= Ends(l) /\ close(l, Sample(l), "COMPLETED")
  BY <1>2, <1>4, CloseLawful DEF Closed
<1>5. CASE lease[l].stage \in Active /\ advance(l, Sample(l))
  <2>1. Lawful(l, Sample(l))
    BY <1>2, <1>5 DEF Lawful, Active
  <2> QED BY <1>5, <2>1, AdvanceLawful
<1> QED BY <1>3, <1>4, <1>5 DEF reconcile

LEMMA CancelNodeLawful ==
  ASSUME Registry, NEW l \in Lease, cancelNode(l)
  PROVE  LawfulStep
<1>1. Staged(lease[l]) /\ Staged(Sample(l))
  BY SampleStage DEF Registry
<1>2. ~IsRoute(Backed[l]) /\ "CANCELLED" \in Closed
  BY DEF cancelNode, Closed
<1> QED BY <1>1, <1>2, CloseLawful DEF cancelNode

LEMMA CancelRouteLawful ==
  ASSUME Registry, NEW l \in Lease, NEW u \in User, cancelRoute(l, u)
  PROVE  LawfulStep
<1> DEFINE r == IF now >= lease[l].sampled THEN Sample(l) ELSE lease[l]
<1>1. Staged(lease[l])
  BY DEF Registry
<1>2. Staged(r)
  BY <1>1, SampleStage
<1>3. CASE lease[l].stage = "OFFERED" /\ close(l, lease[l], "CANCELLED")
  BY <1>1, <1>3, CloseLawful DEF Active, Closed
<1>4. CASE lease[l].stage \in Active /\ now >= Ends(l) /\ close(l, r, "COMPLETED")
  <2> HIDE DEF r
  <2> QED BY <1>2, <1>4, CloseLawful DEF Closed
<1>5. CASE lease[l].stage \in Active /\ LeaveRoute(l, u, r)
  <2> HIDE DEF r
  <2>1. "stage" \in DOMAIN Left(l, u, r) /\ Left(l, u, r).stage = "DRAINING"
    BY <1>2 DEF Staged, Left
  <2>2. Lawful(l, Left(l, u, r))
    BY <1>5, <2>1 DEF Lawful, Staged, StageName, Funded, Active
  <2> QED BY <1>5, <2>2, AdvanceLawful DEF LeaveRoute
<1> QED BY <1>3, <1>4, <1>5 DEF cancelRoute

LEMMA NextLawful == Registry /\ [Next]_vars => LawfulStep
<1> SUFFICES ASSUME Registry, [Next]_vars PROVE LawfulStep
  OBVIOUS
<1>1. CASE FleetStep \/ RoutesMove \/ Tick \/ SetClockBack
  BY <1>1 DEF FleetStep, RoutesMove, Tick, SetClockBack, LawfulStep
<1>2. CASE \E n \in Wavering : Lag(n)
  BY <1>2 DEF Lag, LawfulStep
<1>3. ASSUME NEW l \in Lease, Lapse(l) PROVE LawfulStep
  BY <1>3 DEF Lapse, LawfulStep
<1>4. CASE UNCHANGED vars
  BY <1>4 DEF vars, LawfulStep
<1> QED
  BY <1>1, <1>2, <1>3, <1>4, OfferLawful, AcceptLawful, ReconcileLawful,
     CancelNodeLawful, CancelRouteLawful DEF Next

-----------------------------------------------------------------------------
(* What lawful steps keep.                                                 *)

LEMMA RegistryInit == Init => Registry
<1> SUFFICES ASSUME Init PROVE Registry
  OBVIOUS
<1>1. lease = [l \in Lease |-> NewLease] /\ claimant = [d \in Domain |-> None]
  BY DEF Init
<1>2. \A l \in Lease : "stage" \in DOMAIN lease[l] /\ lease[l].stage = "NEW"
  BY <1>1 DEF NewLease
<1>3. \A d \in Domain, l \in Lease : claimant[d] # l
  BY <1>1, LeasesAssumption
<1> QED
  BY <1>1, <1>2, <1>3, StageFacts DEF Registry, Staged, ClaimsMatchLeases

LEMMA RegistryStep == Registry /\ LawfulStep => Registry'
<1> SUFFICES ASSUME Registry, LawfulStep PROVE Registry'
  OBVIOUS
<1>1. CASE UNCHANGED <<lease, claimant>>
  BY <1>1 DEF Registry, ClaimsMatchLeases, Staged
<1>2. ASSUME NEW l \in Lease, NEW r, Lawful(l, r), Write(l, r) PROVE Registry'
  <2>1. /\ DOMAIN lease' = Lease /\ lease' = [m \in Lease |-> lease'[m]]
        /\ lease'[l] = r
        /\ \A m \in Lease \ {l} : lease'[m] = lease[m]
    BY <1>2 DEF Registry, Write
  <2>2. \A m \in Lease : Staged(lease[m])'
    BY <1>2, <2>1 DEF Registry, Staged, Lawful
  <2>3. \A d \in Domain :
          claimant'[d] = IF d \in Domains(Backed[l]) /\ Holds(r) THEN l
                         ELSE IF claimant[d] = l THEN None ELSE claimant[d]
    BY <1>2 DEF Write
  <2>4. claimant' \in [Domain -> Lease \cup {None}]
    BY <1>2 DEF Registry, Write
  <2>5. ASSUME NEW d \in Domain, NEW m \in Lease
        PROVE  claimant'[d] = m <=> lease'[m].stage \in Active /\ d \in Domains(Backed[m])
    <3>1. claimant[d] = m <=> lease[m].stage \in Active /\ d \in Domains(Backed[m])
      BY DEF Registry, ClaimsMatchLeases
    <3>2. None # l /\ None # m
      BY LeasesAssumption
    <3>3. CASE m = l
      BY <2>1, <2>3, <3>2, <3>3 DEF Holds
    <3>4. CASE m # l /\ ~(d \in Domains(Backed[l]) /\ Holds(r))
      BY <2>1, <2>3, <3>1, <3>2, <3>4
    <3>5. CASE m # l /\ d \in Domains(Backed[l]) /\ Holds(r)
      <4>1. claimant[d] \in {l, None}
        BY <1>2, <3>5 DEF Lawful, Unclaimed, Registry, ClaimsMatchLeases
      <4> QED BY <2>1, <2>3, <3>1, <3>2, <3>5, <4>1
    <3> QED BY <3>3, <3>4, <3>5
  <2> QED BY <2>1, <2>2, <2>4, <2>5 DEF Registry, ClaimsMatchLeases
<1> QED BY <1>1, <1>2 DEF LawfulStep

LEMMA WindowStep ==
  ASSUME Registry, LawfulStep, NEW l \in Lease,
         IsRoute(Backed[l]), lease[l].stage \in Active
  PROVE  lease'[l].stage \in Active \/ (lease'[l].stage = "COMPLETED" /\ now >= Ends(l))
<1>1. CASE UNCHANGED <<lease, claimant>>
  BY <1>1
<1>2. ASSUME NEW m \in Lease, NEW r, Lawful(m, r), Write(m, r)
      PROVE  lease'[l].stage \in Active \/ (lease'[l].stage = "COMPLETED" /\ now >= Ends(l))
  <2>1. lease'[m] = r /\ (l # m => lease'[l] = lease[l])
    BY <1>2 DEF Registry, Write
  <2> QED BY <1>2, <2>1 DEF Lawful
<1> QED BY <1>1, <1>2 DEF LawfulStep

\* Migration 006: the registry holds exactly the domains of the open windows, so
\* that no domain is in two windows, whatever leases, nodes and routes there are.
THEOREM RegistryIsExact == Spec => []ClaimsMatchLeases
<1>1. Registry => ClaimsMatchLeases
  BY DEF Registry
<1>2. Registry /\ [Next]_vars => Registry'
  BY NextLawful, RegistryStep
<1> QED BY RegistryInit, <1>1, <1>2, PTL DEF Spec

\* route-availability.ts cancel: no request of the sponsor or of a provider, and
\* no failure of a member, closes an accepted route window before its end.
THEOREM WindowIsKept == Spec => AcceptedWindowPreserved
<1>1. Registry /\ [Next]_vars => Registry'
  BY NextLawful, RegistryStep
<1>2. Registry /\ [Next]_vars =>
        [\A l \in Lease :
           IsRoute(Backed[l]) /\ lease[l].stage \in Active =>
             \/ lease'[l].stage \in Active
             \/ lease'[l].stage = "COMPLETED" /\ now >= Ends(l)]_vars
  BY NextLawful, WindowStep
<1> QED BY RegistryInit, <1>1, <1>2, PTL DEF Spec, AcceptedWindowPreserved

-----------------------------------------------------------------------------
(* Credits.                                                                *)

\* Row r has every field, and its times are numbers.
Shaped(r) ==
  /\ DOMAIN r = {"stage", "accepted", "started", "sampled", "ready", "joint", "paid", "part"}
  /\ r.started \in Int /\ r.sampled \in Int /\ r.joint \in Int
  /\ DOMAIN r.part = Node
  /\ \A n \in Node :
       /\ DOMAIN r.part[n] = {"credited", "paid", "ready", "epoch", "withdrawn"}
       /\ r.part[n].credited \in Int

\* The bounds, in the row r of lease l; before the window opens nothing is sampled.
Timed(l, r) ==
  /\ Shaped(r)
  /\ r.sampled <= r.started + Window(l)
  /\ r.stage \in {"NEW", "OFFERED"} => r.sampled = r.started
  /\ \A n \in Nodes(Backed[l]) :
       /\ r.part[n].credited <= r.sampled - r.started
       /\ r.joint <= r.part[n].credited

CreditsInv ==
  /\ now \in Int
  /\ DOMAIN lease = Lease
  /\ \A l \in Lease : Timed(l, lease[l])

\* Row r gives no member of l credit for an interval that another process began.
SameProcess(l, r) ==
  \A n \in Nodes(Backed[l]) :
    lease[l].stage \in Active /\ lease[l].part[n].epoch # epoch[n] =>
      r.part[n].credited = lease[l].part[n].credited

Sound(l, r) == Timed(l, r) /\ SameProcess(l, r)

SoundStep ==
  \/ UNCHANGED lease
  \/ \E l \in Lease : \E r : Sound(l, r) /\ Write(l, r)

-----------------------------------------------------------------------------
(* Rows.                                                                   *)

LEMMA MembersAreNodes ==
  ASSUME NEW l \in Lease
  PROVE  Nodes(Backed[l]) \subseteq Node
<1>1. Backed[l] \in Offer
  BY LeasesAssumption
<1>2. Len(Members[Backed[l]]) \in Nat /\ Members[Backed[l]] \in Seq(Node)
  BY <1>1, OffersAssumption DEF Offer
<1> QED BY <1>2 DEF Nodes

LEMMA WindowIsNat ==
  ASSUME NEW l \in Lease
  PROVE  Window(l) \in Nat
BY LeasesAssumption DEF Window

\* The larger and the smaller of two numbers.
LEMMA MaxOfTwo ==
  ASSUME NEW a \in Int, NEW b \in Int
  PROVE  Max({a, b}) = IF a >= b THEN a ELSE b
<1> DEFINE m == IF a >= b THEN a ELSE b
<1>1. m \in {a, b} /\ \A y \in {a, b} : m >= y
  OBVIOUS
<1>2. ASSUME NEW x \in {a, b}, \A y \in {a, b} : x >= y PROVE x = m
  BY <1>2
<1> QED BY <1>1, <1>2 DEF Max

LEMMA MinOfTwo ==
  ASSUME NEW a \in Int, NEW b \in Int
  PROVE  Min({a, b}) = IF a <= b THEN a ELSE b
<1> DEFINE m == IF a <= b THEN a ELSE b
<1>1. m \in {a, b} /\ \A y \in {a, b} : m =< y
  OBVIOUS
<1>2. ASSUME NEW x \in {a, b}, \A y \in {a, b} : x =< y PROVE x = m
  BY <1>2
<1> QED BY <1>1, <1>2 DEF Min

\* On any clock an observation goes forward, and not past the end of the window.
LEMMA SampledForward ==
  ASSUME CreditsInv, NEW l \in Lease
  PROVE  /\ SampledUntil(l) \in Int
         /\ lease[l].sampled <= SampledUntil(l)
         /\ SampledUntil(l) <= lease[l].started + Window(l)
         /\ lease[l].sampled <= now => SampledUntil(l) <= now
<1>1. /\ now \in Int /\ lease[l].sampled \in Int /\ lease[l].started \in Int
      /\ lease[l].sampled <= lease[l].started + Window(l)
  BY DEF CreditsInv, Timed, Shaped
<1>2. Window(l) \in Nat
  BY WindowIsNat
<1>3. Ends(l) = lease[l].started + Window(l) /\ Ends(l) \in Int
  BY <1>1, <1>2 DEF Ends
<1>4. Min({now, Ends(l)}) = IF now <= Ends(l) THEN now ELSE Ends(l)
  BY <1>1, <1>3, MinOfTwo
<1> DEFINE m == Min({now, Ends(l)})
<1>5. m \in Int /\ m <= Ends(l) /\ m <= now
  BY <1>1, <1>3, <1>4
<1>6. SampledUntil(l) = IF lease[l].sampled >= m THEN lease[l].sampled ELSE m
  <2> HIDE DEF m
  <2>1. Max({lease[l].sampled, m}) = IF lease[l].sampled >= m THEN lease[l].sampled ELSE m
    BY <1>1, <1>5, MaxOfTwo
  <2> QED BY <2>1 DEF SampledUntil, m
<1> HIDE DEF m
<1> QED BY <1>1, <1>2, <1>3, <1>5, <1>6

\* An observation of an open window is sound: what is credited is at most what has
\* passed since the last one, and to members whose process is the same.
LEMMA SampleSound ==
  ASSUME CreditsInv, NEW l \in Lease, lease[l].stage \in Active
  PROVE  Sound(l, Sample(l))
<1> DEFINE r == lease[l]
           s == Sample(l)
           elapsed == SampledUntil(l) - r.sampled
           all == r.ready /\ Joint(l) /\ \A n \in Nodes(Backed[l]) : Credits(l, n)
<1>1. Timed(l, r) /\ Shaped(r)
  BY DEF CreditsInv, Timed
<1>2. SampledUntil(l) \in Int /\ elapsed \in Nat /\ SampledUntil(l) <= r.started + Window(l)
  BY <1>1, SampledForward DEF Shaped
<1>3. /\ DOMAIN s = DOMAIN r
      /\ s.started = r.started /\ s.sampled = SampledUntil(l)
      /\ s.joint = r.joint + (IF all THEN elapsed ELSE 0)
      /\ s.stage \in {r.stage, "DRAINING"}
      /\ DOMAIN s.part = Node
  BY <1>1 DEF Sample, Shaped
<1>4. \A n \in Node \ Nodes(Backed[l]) : s.part[n] = r.part[n]
  BY <1>1 DEF Sample, Shaped
<1>5. ASSUME NEW n \in Nodes(Backed[l])
      PROVE  /\ DOMAIN s.part[n] = DOMAIN r.part[n]
             /\ s.part[n].credited =
                  r.part[n].credited + (IF Credits(l, n) THEN elapsed ELSE 0)
  BY <1>1, MembersAreNodes DEF Sample, Shaped
<1> HIDE DEF s
<1>6. Shaped(s)
  <2>1. DOMAIN s = {"stage", "accepted", "started", "sampled", "ready", "joint", "paid", "part"}
    BY <1>1, <1>3 DEF Shaped
  <2>2. s.started \in Int /\ s.sampled \in Int /\ s.joint \in Int
    BY <1>1, <1>2, <1>3 DEF Shaped
  <2>3. ASSUME NEW n \in Node
        PROVE  /\ DOMAIN s.part[n] = {"credited", "paid", "ready", "epoch", "withdrawn"}
               /\ s.part[n].credited \in Int
    <3>1. DOMAIN r.part[n] = {"credited", "paid", "ready", "epoch", "withdrawn"}
          /\ r.part[n].credited \in Int
      BY <1>1 DEF Shaped
    <3>2. CASE n \in Nodes(Backed[l])
      BY <1>2, <1>5, <3>1, <3>2
    <3> QED BY <1>4, <3>1, <3>2
  <2> QED BY <1>3, <2>1, <2>2, <2>3 DEF Shaped
<1>7. ASSUME NEW n \in Nodes(Backed[l])
      PROVE  /\ s.part[n].credited <= s.sampled - s.started
             /\ s.joint <= s.part[n].credited
  <2>1. /\ r.part[n].credited <= r.sampled - r.started
        /\ r.joint <= r.part[n].credited
    BY <1>1 DEF Timed
  <2>2. /\ r.part[n].credited \in Int /\ r.joint \in Int
        /\ r.sampled \in Int /\ r.started \in Int
    BY <1>1, MembersAreNodes DEF Shaped
  <2>3. all => Credits(l, n)
    OBVIOUS
  <2> HIDE DEF all, r
  <2> QED BY <1>2, <1>3, <1>5, <2>1, <2>2, <2>3
<1>8. Timed(l, s)
  <2>1. s.stage \notin {"NEW", "OFFERED"}
    BY <1>3 DEF Active
  <2> QED BY <1>2, <1>3, <1>6, <1>7, <2>1 DEF Timed
<1>9. SameProcess(l, s)
  <2> SUFFICES ASSUME NEW n \in Nodes(Backed[l]), r.part[n].epoch # epoch[n]
               PROVE  s.part[n].credited = r.part[n].credited
    BY DEF SameProcess
  <2>1. ~Credits(l, n)
    BY DEF Credits
  <2>2. r.part[n].credited \in Int
    BY <1>1, MembersAreNodes DEF Shaped
  <2> QED BY <1>5, <2>1, <2>2
<1> QED BY <1>8, <1>9 DEF Sound, s

\* The row that stands is sound.
LEMMA StandingSound ==
  ASSUME CreditsInv, NEW l \in Lease
  PROVE  Sound(l, lease[l])
BY DEF CreditsInv, Sound, SameProcess

\* Closing a row changes neither its times nor its credits.
LEMMA ClosedSound ==
  ASSUME NEW l \in Lease, NEW r, Sound(l, r), NEW stage \in Closed
  PROVE  Sound(l, [r EXCEPT !.stage = stage, !.ready = FALSE])
<1> DEFINE s == [r EXCEPT !.stage = stage, !.ready = FALSE]
<1>1. Shaped(r)
  BY DEF Sound, Timed
<1>2. /\ DOMAIN s = DOMAIN r /\ s.stage = stage
      /\ s.started = r.started /\ s.sampled = r.sampled /\ s.joint = r.joint
      /\ s.part = r.part
  BY <1>1 DEF Shaped
<1>3. stage \notin {"NEW", "OFFERED"}
  BY DEF Closed
<1> HIDE DEF s
<1>4. Timed(l, s)
  BY <1>1, <1>2, <1>3 DEF Sound, Timed, Shaped
<1>5. SameProcess(l, s)
  BY <1>2 DEF Sound, SameProcess
<1> QED BY <1>4, <1>5 DEF Sound, s

\* Nor does the leaving of a member.
LEMMA LeftSound ==
  ASSUME NEW l \in Lease, NEW u, NEW r, Sound(l, r)
  PROVE  Sound(l, Left(l, u, r))
<1> DEFINE s == Left(l, u, r)
<1>1. Shaped(r)
  BY DEF Sound, Timed
<1>2. /\ DOMAIN s = DOMAIN r /\ s.stage = "DRAINING"
      /\ s.started = r.started /\ s.sampled = r.sampled /\ s.joint = r.joint
      /\ DOMAIN s.part = Node
  BY <1>1 DEF Left, Shaped
<1>3. ASSUME NEW n \in Node
      PROVE  /\ DOMAIN s.part[n] = DOMAIN r.part[n]
             /\ s.part[n].credited = r.part[n].credited
  BY <1>1 DEF Left, Shaped
<1> HIDE DEF s
<1>4. Shaped(s)
  BY <1>1, <1>2, <1>3 DEF Shaped
<1>5. \A n \in Nodes(Backed[l]) : s.part[n].credited = r.part[n].credited
  BY <1>3, MembersAreNodes
<1>6. Timed(l, s)
  BY <1>2, <1>4, <1>5 DEF Sound, Timed
<1>7. SameProcess(l, s)
  BY <1>5 DEF Sound, SameProcess
<1> QED BY <1>6, <1>7 DEF Sound, s

-----------------------------------------------------------------------------
(* One handler at a time.                                                  *)

LEMMA AdvanceSound ==
  ASSUME NEW l \in Lease, NEW r, Sound(l, r), advance(l, r)
  PROVE  SoundStep
BY DEF advance, SoundStep

LEMMA CloseSound ==
  ASSUME NEW l \in Lease, NEW r, Sound(l, r), NEW stage \in Closed, close(l, r, stage)
  PROVE  SoundStep
BY ClosedSound DEF close, SoundStep

LEMMA OfferSound ==
  ASSUME CreditsInv, NEW l \in Lease, offer(l)
  PROVE  SoundStep
<1> DEFINE r == lease[l]
           s == [lease[l] EXCEPT !.stage = "OFFERED"]
<1>1. Timed(l, r) /\ Shaped(r) /\ r.stage = "NEW"
  BY DEF CreditsInv, Timed, offer
<1>2. /\ DOMAIN s = DOMAIN r
      /\ s.started = r.started /\ s.sampled = r.sampled /\ s.joint = r.joint
      /\ s.part = r.part
  BY <1>1 DEF Shaped
<1>3. Write(l, s)
  BY DEF offer
<1> HIDE DEF s
<1>4. Timed(l, s)
  BY <1>1, <1>2 DEF Timed, Shaped
<1>5. SameProcess(l, s)
  BY <1>2 DEF SameProcess
<1> QED BY <1>3, <1>4, <1>5 DEF Sound, SoundStep

\* When the window opens the first sample is taken, and nobody has credit.
LEMMA AcceptSound ==
  ASSUME CreditsInv, NEW l \in Lease, NEW u \in User, accept(l, u)
  PROVE  SoundStep
<1> DEFINE accepted == lease[l].accepted \cup {u}
           r == lease[l]
<1>1. Timed(l, r) /\ Shaped(r) /\ r.stage = "OFFERED" /\ now \in Int
  BY DEF CreditsInv, Timed, accept, AcceptsTerms
<1>2. r.stage \notin Active
  BY <1>1 DEF Active
<1>3. CASE accepted # Providers(Backed[l])
  <2> DEFINE s == [r EXCEPT !.accepted = accepted]
  <2>1. /\ DOMAIN s = DOMAIN r /\ s.stage = r.stage
        /\ s.started = r.started /\ s.sampled = r.sampled /\ s.joint = r.joint
        /\ s.part = r.part
    BY <1>1 DEF Shaped
  <2>2. Write(l, s)
    BY <1>3 DEF accept, AcceptsTerms
  <2> HIDE DEF s
  <2>3. Timed(l, s)
    BY <1>1, <2>1 DEF Timed, Shaped
  <2> QED BY <1>2, <2>2, <2>3 DEF Sound, SameProcess, SoundStep
<1>4. CASE accepted = Providers(Backed[l])
  <2> DEFINE s == Activated(l, accepted)
  <2>1. /\ DOMAIN s = DOMAIN r /\ s.stage = "ACTIVE"
        /\ s.started = now /\ s.sampled = now /\ s.joint = r.joint
        /\ DOMAIN s.part = Node
    BY <1>1 DEF Activated, Shaped
  <2>2. ASSUME NEW n \in Node
        PROVE  /\ DOMAIN s.part[n] = DOMAIN r.part[n]
               /\ s.part[n].credited = r.part[n].credited
    BY <1>1 DEF Activated, Shaped
  <2>3. Write(l, s)
    BY <1>4 DEF accept, AcceptsTerms
  <2> HIDE DEF s
  <2>4. Shaped(s)
    BY <1>1, <2>1, <2>2 DEF Shaped
  <2>5. s.sampled <= s.started + Window(l)
    BY <1>1, <2>1, WindowIsNat
  <2>6. ASSUME NEW n \in Nodes(Backed[l])
        PROVE  /\ s.part[n].credited <= s.sampled - s.started
               /\ s.joint <= s.part[n].credited
    <3>1. /\ r.part[n].credited <= r.sampled - r.started
          /\ r.joint <= r.part[n].credited
          /\ r.sampled = r.started /\ r.sampled \in Int
      BY <1>1 DEF Timed, Shaped
    <3> QED BY <1>1, <2>1, <2>2, <3>1, MembersAreNodes
  <2>7. Timed(l, s)
    BY <2>1, <2>4, <2>5, <2>6 DEF Timed
  <2> QED BY <1>2, <2>3, <2>7 DEF Sound, SameProcess, SoundStep
<1> QED BY <1>3, <1>4

LEMMA ReconcileSound ==
  ASSUME CreditsInv, NEW l \in Lease, reconcile(l)
  PROVE  SoundStep
<1>1. CASE lease[l].stage = "OFFERED" /\ close(l, lease[l], "EXPIRED")
  BY <1>1, StandingSound, CloseSound DEF Closed
<1>2. CASE lease[l].stage \in Active /\ close(l, Sample(l), "COMPLETED")
  BY <1>2, SampleSound, CloseSound DEF Closed
<1>3. CASE lease[l].stage \in Active /\ advance(l, Sample(l))
  BY <1>3, SampleSound, AdvanceSound
<1> QED BY <1>1, <1>2, <1>3 DEF reconcile

LEMMA CancelNodeSound ==
  ASSUME CreditsInv, NEW l \in Lease, cancelNode(l)
  PROVE  SoundStep
<1>1. CASE lease[l].stage = "OFFERED" /\ close(l, lease[l], "CANCELLED")
  BY <1>1, StandingSound, CloseSound DEF Closed
<1>2. CASE lease[l].stage = "ACTIVE" /\ close(l, Sample(l), "CANCELLED")
  <2>1. lease[l].stage \in Active
    BY <1>2 DEF Active
  <2> QED BY <1>2, <2>1, SampleSound, CloseSound DEF Closed
<1> QED BY <1>1, <1>2 DEF cancelNode

LEMMA CancelRouteSound ==
  ASSUME CreditsInv, NEW l \in Lease, NEW u \in User, cancelRoute(l, u)
  PROVE  SoundStep
<1> DEFINE r == IF now >= lease[l].sampled THEN Sample(l) ELSE lease[l]
<1>1. CASE lease[l].stage = "OFFERED" /\ close(l, lease[l], "CANCELLED")
  BY <1>1, StandingSound, CloseSound DEF Closed
<1>2. ASSUME lease[l].stage \in Active PROVE Sound(l, r)
  BY <1>2, StandingSound, SampleSound
<1>3. CASE lease[l].stage \in Active /\ close(l, r, "COMPLETED")
  <2> HIDE DEF r
  <2> QED BY <1>2, <1>3, CloseSound DEF Closed
<1>4. CASE lease[l].stage \in Active /\ LeaveRoute(l, u, r)
  <2> HIDE DEF r
  <2> QED BY <1>2, <1>4, LeftSound, AdvanceSound DEF LeaveRoute
<1> QED BY <1>1, <1>3, <1>4 DEF cancelRoute

LEMMA NextSound == CreditsInv /\ [Next]_vars => SoundStep /\ now' \in Int
<1> SUFFICES ASSUME CreditsInv, [Next]_vars PROVE SoundStep /\ now' \in Int
  OBVIOUS
<1>1. now \in Int
  BY DEF CreditsInv
<1>2. CASE FleetStep \/ RoutesMove \/ Tick \/ SetClockBack
  BY <1>1, <1>2 DEF FleetStep, RoutesMove, Tick, SetClockBack, SoundStep, clockVars
<1>3. CASE \E n \in Wavering : Lag(n)
  BY <1>1, <1>3 DEF Lag, SoundStep
<1>4. ASSUME NEW l \in Lease, Lapse(l) PROVE SoundStep /\ now' \in Int
  BY <1>1, <1>4 DEF Lapse, SoundStep
<1>5. CASE UNCHANGED vars
  BY <1>1, <1>5 DEF vars, SoundStep
<1>6. ASSUME NEW l \in Lease,
             \/ offer(l) \/ reconcile(l) \/ cancelNode(l)
             \/ \E u \in User : accept(l, u) \/ cancelRoute(l, u)
      PROVE  now' \in Int
  BY <1>1, <1>6 DEF offer, reconcile, cancelNode, accept, AcceptsTerms, cancelRoute, clockVars
<1> QED
  BY <1>2, <1>3, <1>4, <1>5, <1>6, OfferSound, AcceptSound, ReconcileSound,
     CancelNodeSound, CancelRouteSound DEF Next

-----------------------------------------------------------------------------
(* What sound steps keep.                                                  *)

LEMMA CreditsInit == Init => CreditsInv
<1> SUFFICES ASSUME Init PROVE CreditsInv
  OBVIOUS
<1>1. now = 0 /\ lease = [l \in Lease |-> NewLease]
  BY DEF Init
<1>2. ASSUME NEW l \in Lease PROVE Timed(l, NewLease)
  BY MembersAreNodes, WindowIsNat DEF Timed, Shaped, NewLease, NewPart
<1> QED BY <1>1, <1>2 DEF CreditsInv

LEMMA CreditsStep ==
  ASSUME CreditsInv, [Next]_vars
  PROVE  CreditsInv'
<1>1. SoundStep /\ now' \in Int
  BY NextSound
<1>2. CASE UNCHANGED lease
  BY <1>1, <1>2 DEF CreditsInv, Timed, Shaped
<1>3. ASSUME NEW l \in Lease, NEW r, Sound(l, r), Write(l, r) PROVE CreditsInv'
  <2>1. /\ DOMAIN lease' = Lease
        /\ \A m \in Lease : lease'[m] = IF m = l THEN r ELSE lease[m]
    BY <1>3 DEF CreditsInv, Write
  <2>2. \A m \in Lease : Timed(m, lease'[m])
    BY <1>3, <2>1 DEF CreditsInv, Sound
  <2>3. \A m \in Lease : Timed(m, lease[m])'
    BY <2>2 DEF Timed, Shaped
  <2> QED BY <1>1, <2>1, <2>3 DEF CreditsInv
<1> QED BY <1>1, <1>2, <1>3 DEF SoundStep

\* availability.ts and route-availability.ts sample: whatever the clock does and
\* whenever the reconciliation comes round, nobody is credited for more time than
\* the window has, nor the route for more than its least ready member.
THEOREM CreditFitsWindow == Spec => []CreditInTime
<1>1. CreditsInv => CreditInTime
  BY DEF CreditsInv, CreditInTime, Timed, Ends
<1>2. CreditsInv /\ [Next]_vars => CreditsInv'
  BY CreditsStep
<1> QED BY CreditsInit, <1>1, <1>2, PTL DEF Spec

\* The epoch in the conditions of both samples: the process that earns an
\* interval is the one that began it.
THEOREM ProcessEarnsItsOwn == Spec => NoCreditAcrossRestart
<1>1. CreditsInv /\ [Next]_vars => CreditsInv'
  BY CreditsStep
<1>2. CreditsInv /\ [Next]_vars =>
        [\A l \in Lease : \A n \in Nodes(Backed[l]) :
           lease[l].stage \in Active /\ lease[l].part[n].epoch # epoch[n] =>
             lease'[l].part[n].credited = lease[l].part[n].credited]_vars
  <2> SUFFICES ASSUME CreditsInv, [Next]_vars,
                      NEW l \in Lease, NEW n \in Nodes(Backed[l]),
                      lease[l].stage \in Active, lease[l].part[n].epoch # epoch[n]
               PROVE  lease'[l].part[n].credited = lease[l].part[n].credited
    OBVIOUS
  <2>1. CASE UNCHANGED lease
    BY <2>1
  <2>2. ASSUME NEW m \in Lease, NEW r, Sound(m, r), Write(m, r)
        PROVE  lease'[l].part[n].credited = lease[l].part[n].credited
    <3>1. lease'[l] = IF l = m THEN r ELSE lease[l]
      BY <2>2 DEF CreditsInv, Write
    <3> QED BY <2>2, <3>1 DEF Sound, SameProcess
  <2> QED BY <2>1, <2>2, NextSound DEF SoundStep
<1> QED BY CreditsInit, <1>1, <1>2, PTL DEF Spec, NoCreditAcrossRestart

-----------------------------------------------------------------------------
(* Books.                                                                  *)

\* What is paid in row r of lease l is what its members' credits have earned.
Owed(l, r) ==
  /\ r \in LeaseRow
  /\ r.paid = SumFunctionOnSet([n \in Node |-> r.part[n].paid], Nodes(Backed[l]))
  /\ \A n \in Nodes(Backed[l]) : r.part[n].paid = Earned(l, n, r.part[n].credited)
  /\ \A n \in Node \ Nodes(Backed[l]) : r.part[n].paid = 0
  /\ r.stage \in {"NEW", "OFFERED"} =>
       r.paid = 0 /\ \A n \in Node : r.part[n].paid = 0 /\ r.part[n].credited = 0

Within(l, r) == \A n \in Nodes(Backed[l]) : r.part[n].paid <= Maximum(l, n)

\* What the key of the next payment is made from.
Mark(l, r) == IF IsRoute(Backed[l]) THEN r.paid ELSE r.part[Root(Backed[l])].credited

\* Each key is in the journal when its posting was made, and no payment is ahead of
\* the row.
Keys ==
  \A l \in Lease :
    /\ FundKey(l) \in journal <=> lease[l].stage # "NEW"
    /\ RefundKey(l) \in journal => lease[l].stage \in Closed
    /\ \A x \in Nat : <<"pay", l, x>> \in journal => x <= Mark(l, lease[l])

EscrowsHold ==
  \A l \in Lease :
    balance[Escrow(l)] = IF lease[l].stage \in Funded THEN Budget(l) - lease[l].paid ELSE 0

RowsHold == \A l \in Lease : Owed(l, lease[l]) /\ Within(l, lease[l])

MoneyInv ==
  /\ Registry /\ CreditsInv /\ LeasesTypeOK
  /\ RowsHold /\ Keys /\ EscrowsHold

-----------------------------------------------------------------------------
(* What the handlers make of a row and of the book.                        *)

SameMoney(l, r) ==
  /\ r.paid = lease[l].paid
  /\ \A n \in Node : /\ r.part[n].paid = lease[l].part[n].paid
                     /\ r.part[n].credited = lease[l].part[n].credited

\* No credit is taken back, and nobody who has left earns anything.
Grown(l, r) ==
  \A n \in Node :
    /\ lease[l].part[n].credited <= r.part[n].credited
    /\ lease[l].part[n].withdrawn => r.part[n].paid = lease[l].part[n].paid

OfferLines(l) ==
  [NoLines EXCEPT ![Available(Sponsor[l])] = 0 - Budget(l), ![Escrow(l)] = Budget(l)]

\* What returns to the sponsor with the row r.
Returned(l, r) == IF r.stage \in Closed THEN RefundLines(l, r) ELSE NoLines

Offered(l, r) ==
  /\ lease[l].stage = "NEW" /\ r.stage = "OFFERED" /\ SameMoney(l, r)
  /\ Post(FundKey(l), OfferLines(l))
Accepted(l, r) ==
  /\ lease[l].stage = "OFFERED" /\ r.stage \in {"OFFERED", "ACTIVE"} /\ SameMoney(l, r)
  /\ UNCHANGED ledgerVars
Settled(l, r) ==
  /\ lease[l].stage \in Funded /\ r.stage \in Active \cup Closed
  /\ Grown(l, r) /\ Projected(l, r)
  /\ PostBoth(PayKey(l, r), PaymentLines(l, r), RefundKey(l), Returned(l, r))

MoneyMove(l, r) ==
  /\ lease' = [lease EXCEPT ![l] = r]
  /\ Owed(l, r)
  /\ Offered(l, r) \/ Accepted(l, r) \/ Settled(l, r)

MoneyStep ==
  \/ UNCHANGED <<lease, ledgerVars>>
  \/ \E l \in Lease : \E r \in LeaseRow : MoneyMove(l, r)

-----------------------------------------------------------------------------
(* Amounts.                                                                *)

LEMMA Prices ==
  ASSUME NEW l \in Lease
  PROVE  /\ Budget(l) \in Nat \ {0} /\ Window(l) \in Nat \ {0}
         /\ Backed[l] \in Offer /\ Sponsor[l] \in User
<1>1. \A a, b \in Nat \ {0} : a * b \in Nat \ {0}
  OBVIOUS
<1>2. /\ Rate[l] \in Nat \ {0} /\ Duration[l] \in Nat \ {0} /\ Second \in Nat \ {0}
      /\ Backed[l] \in Offer /\ Sponsor[l] \in User
  BY LeasesAssumption
<1> QED BY <1>1, <1>2 DEF Budget, Window

\* The part of the budget that a member can earn is one of the parts of its split.
LEMMA MaximumIsNat ==
  ASSUME NEW l \in Lease, NEW n \in Nodes(Backed[l])
  PROVE  Maximum(l, n) \in Nat
<1> DEFINE o == Backed[l]
           i == CHOOSE k \in DOMAIN Members[o] : Members[o][k] = n
<1>1. o \in Offer /\ Budget(l) \in Int /\ Budget(l) >= 0
  BY Prices
<1>2. Shares[o] \in Seq(1..Bps) /\ DOMAIN Shares[o] = DOMAIN Members[o]
  BY <1>1, OffersAssumption DEF Offer, Bps
<1>3. i \in DOMAIN Members[o]
  BY DEF Nodes
<1> HIDE DEF i
<1>4. splitByBps(Budget(l), Shares[o])[i] \in Nat
  BY <1>1, <1>2, <1>3, PartsOfSplit
<1> QED BY <1>4 DEF Maximum, i

LEMMA EarnedIsNat ==
  ASSUME NEW l \in Lease, NEW n \in Nodes(Backed[l]), NEW credited \in Nat
  PROVE  Earned(l, n, credited) \in Nat /\ Earned(l, n, 0) = 0
<1> DEFINE m == Maximum(l, n)
           w == Window(l)
<1>1. m \in Nat /\ w \in Nat \ {0}
  BY MaximumIsNat, Prices
<1> HIDE DEF m, w
<1>2. credited * m \in Nat /\ 0 * m = 0
  BY <1>1
<1>3. \A p \in Nat : p \div w \in Nat
  BY <1>1
<1>4. 0 \div w = 0
  BY <1>1
<1> QED BY <1>2, <1>3, <1>4 DEF Earned, m, w

\* The members of a lease are finitely many, and each of them is a node.
LEMMA FiniteMembers ==
  ASSUME NEW l \in Lease
  PROVE  /\ Nodes(Backed[l]) \subseteq Node /\ IsFiniteSet(Nodes(Backed[l]))
         /\ IsFiniteSet(Node) /\ Root(Backed[l]) \in Nodes(Backed[l])
         /\ ~IsRoute(Backed[l]) => Nodes(Backed[l]) = {Root(Backed[l])}
<1>1. Nodes(Backed[l]) \subseteq Node /\ IsFiniteSet(Node)
  BY MembersAreNodes, LeasesAssumption
<1>2. IsFiniteSet(Nodes(Backed[l]))
  BY <1>1, FS_Subset
<1> DEFINE ms == Members[Backed[l]]
<1>3. ms \in Seq(Node) /\ Len(ms) > 0 /\ DOMAIN ms = 1..Len(ms) /\ Len(ms) \in Nat
  BY Prices, OffersAssumption DEF Offer
<1>4. Root(Backed[l]) \in Nodes(Backed[l])
  BY <1>3 DEF Root, Nodes
<1>5. ASSUME ~IsRoute(Backed[l]) PROVE Nodes(Backed[l]) = {Root(Backed[l])}
  <2>1. DOMAIN ms = {1}
    BY <1>3, <1>5 DEF IsRoute
  <2> QED BY <2>1 DEF Root, Nodes
<1> QED BY <1>1, <1>2, <1>4, <1>5

-----------------------------------------------------------------------------
(* Rows.                                                                   *)

LEMMA RowFields ==
  ASSUME NEW r \in LeaseRow
  PROVE  /\ r.stage \in StageName /\ r.accepted \in SUBSET User
         /\ r.started \in Nat /\ r.sampled \in Nat /\ r.ready \in BOOLEAN
         /\ r.joint \in Nat /\ r.paid \in Nat /\ r.part \in [Node -> Part]
         /\ \A n \in Node : /\ r.part[n] \in Part
                            /\ r.part[n].credited \in Nat /\ r.part[n].paid \in Nat
                            /\ r.part[n].ready \in BOOLEAN /\ r.part[n].epoch \in Nat
                            /\ r.part[n].withdrawn \in BOOLEAN
BY DEF LeaseRow, Part, StageName

\* What a member is paid adds up to a number.
LEMMA PaidIsNat ==
  ASSUME NEW l \in Lease, NEW f, \A n \in Nodes(Backed[l]) : f[n] \in Nat
  PROVE  SumFunctionOnSet(f, Nodes(Backed[l])) \in Nat
BY FiniteMembers, SumNat

\* An observation pays what the credits have earned, and takes nothing back.
LEMMA SampleOwed ==
  ASSUME MoneyInv, NEW l \in Lease, lease[l].stage \in Active
  PROVE  /\ Owed(l, Sample(l)) /\ Grown(l, Sample(l))
         /\ Sample(l).stage \in Active
<1> DEFINE r == lease[l]
           s == Sample(l)
           elapsed == SampledUntil(l) - r.sampled
           credited(n) == r.part[n].credited + (IF Credits(l, n) THEN elapsed ELSE 0)
           all == r.ready /\ Joint(l) /\ \A n \in Nodes(Backed[l]) : Credits(l, n)
           part == [n \in Node |->
                     IF n \notin Nodes(Backed[l]) THEN r.part[n]
                     ELSE [r.part[n] EXCEPT !.credited = credited(n),
                                            !.paid = Earned(l, n, credited(n)),
                                            !.ready = MemberReady(l, n),
                                            !.epoch = epoch[n]]]
           paid == SumFunctionOnSet([n \in Node |-> part[n].paid], Nodes(Backed[l]))
<1>1. r \in LeaseRow /\ Owed(l, r) /\ epoch \in [Node -> Nat]
  BY DEF MoneyInv, RowsHold, Owed, LeasesTypeOK, FleetTypeOK
<1>2. SampledUntil(l) \in Nat /\ elapsed \in Nat
  <2>1. SampledUntil(l) \in Int /\ r.sampled <= SampledUntil(l) /\ r.sampled \in Nat
    BY <1>1, RowFields, SampledForward DEF MoneyInv
  <2> HIDE DEF r
  <2> QED BY <2>1
<1>3. \A n \in Node : credited(n) \in Nat /\ r.part[n].credited <= credited(n)
  <2> SUFFICES ASSUME NEW n \in Node
               PROVE  credited(n) \in Nat /\ r.part[n].credited <= credited(n)
    OBVIOUS
  <2>1. r.part[n].credited \in Nat
    BY <1>1, RowFields
  <2> HIDE DEF r, elapsed
  <2> QED BY <1>2, <2>1
<1>4. /\ s = [r EXCEPT !.sampled = SampledUntil(l), !.ready = Joint(l),
                       !.joint = @ + (IF all THEN elapsed ELSE 0), !.paid = paid,
                       !.part = part,
                       !.stage = IF IsRoute(Backed[l]) /\ ~Joint(l) THEN "DRAINING" ELSE @]
  BY DEF Sample
<1>5. ASSUME NEW n \in Nodes(Backed[l])
      PROVE  /\ part[n] \in Part /\ part[n].credited = credited(n)
             /\ part[n].paid = Earned(l, n, credited(n))
             /\ part[n].withdrawn = r.part[n].withdrawn
             /\ part[n].paid \in Nat
  <2>1. n \in Node /\ r.part[n] \in Part /\ credited(n) \in Nat /\ epoch[n] \in Nat
    BY <1>1, <1>3, RowFields, FiniteMembers
  <2>2. Earned(l, n, credited(n)) \in Nat
    <3> HIDE DEF credited
    <3> QED BY <2>1, EarnedIsNat
  <2>3. MemberReady(l, n) \in BOOLEAN
    BY DEF MemberReady
  <2>4. part[n] = [r.part[n] EXCEPT !.credited = credited(n),
                                   !.paid = Earned(l, n, credited(n)),
                                   !.ready = MemberReady(l, n), !.epoch = epoch[n]]
    BY <2>1
  <2> HIDE DEF part, credited, r
  <2> QED BY <2>1, <2>2, <2>3, <2>4 DEF Part
<1>6. \A n \in Node \ Nodes(Backed[l]) : part[n] = r.part[n]
  OBVIOUS
<1>7. part \in [Node -> Part]
  <2>1. \A n \in Node : part[n] \in Part
    BY <1>1, <1>5, <1>6, RowFields
  <2>2. part = [n \in Node |-> part[n]]
    OBVIOUS
  <2> HIDE DEF part
  <2> QED BY <2>1, <2>2
<1>8. paid \in Nat
  <2> DEFINE f == [n \in Node |-> part[n].paid]
  <2>1. \A n \in Nodes(Backed[l]) : f[n] \in Nat
    BY <1>5, FiniteMembers
  <2> HIDE DEF f
  <2> QED BY <2>1, PaidIsNat DEF f
<1>9. all \in BOOLEAN /\ Joint(l) \in BOOLEAN
  BY DEF Joint
<1> HIDE DEF s, part, paid, elapsed, all, credited
<1>10. /\ s \in LeaseRow /\ s.part = part /\ s.paid = paid
       /\ s.stage \in {r.stage, "DRAINING"}
  <2>1. r.joint + (IF all THEN elapsed ELSE 0) \in Nat
    <3>1. r.joint \in Nat
      BY <1>1, RowFields
    <3> QED BY <1>2, <3>1
  <2> QED BY <1>1, <1>2, <1>4, <1>7, <1>8, <1>9, <2>1 DEF LeaseRow, Funded
<1>11. s.stage \in Active
  BY <1>10 DEF Active
<1>12. Owed(l, s)
  <2>1. s.paid = SumFunctionOnSet([n \in Node |-> s.part[n].paid], Nodes(Backed[l]))
    BY <1>10 DEF paid
  <2>2. \A n \in Nodes(Backed[l]) : s.part[n].paid = Earned(l, n, s.part[n].credited)
    BY <1>5, <1>10
  <2>3. \A n \in Node \ Nodes(Backed[l]) : s.part[n].paid = 0
    BY <1>1, <1>6, <1>10 DEF Owed
  <2> QED BY <1>10, <1>11, <2>1, <2>2, <2>3 DEF Owed, Active
<1>13. Grown(l, s)
  <2> SUFFICES ASSUME NEW n \in Node
               PROVE  /\ r.part[n].credited <= s.part[n].credited
                      /\ r.part[n].withdrawn => s.part[n].paid = r.part[n].paid
    BY DEF Grown
  <2>1. CASE n \notin Nodes(Backed[l])
    BY <1>1, <1>6, <1>10, <2>1, RowFields
  <2>2. CASE n \in Nodes(Backed[l])
    <3>1. r.part[n].credited <= s.part[n].credited
      BY <1>3, <1>5, <1>10, <2>2
    <3>2. ASSUME r.part[n].withdrawn PROVE s.part[n].paid = r.part[n].paid
      <4>1. ~Credits(l, n)
        BY <3>2 DEF Credits, MemberReady
      <4>2. credited(n) = r.part[n].credited
        BY <1>1, <4>1, RowFields DEF credited
      <4> QED BY <1>1, <1>5, <1>10, <2>2, <4>2 DEF Owed
    <3> QED BY <3>1, <3>2
  <2> QED BY <2>1, <2>2
<1> QED BY <1>11, <1>12, <1>13 DEF s

\* The row that stands is owed what it says, and nothing has grown.
LEMMA StandingOwed ==
  ASSUME MoneyInv, NEW l \in Lease
  PROVE  Owed(l, lease[l]) /\ Grown(l, lease[l]) /\ lease[l] \in LeaseRow
<1>1. Owed(l, lease[l]) /\ lease[l] \in LeaseRow
  BY DEF MoneyInv, RowsHold, Owed
<1>2. \A n \in Node : lease[l].part[n].credited \in Nat
  BY <1>1, RowFields
<1> QED BY <1>1, <1>2 DEF Grown

\* Closing a row, and the leaving of a member, touch no amount.
LEMMA ClosedOwed ==
  ASSUME NEW l \in Lease, NEW r, Owed(l, r), Grown(l, r), NEW stage \in Closed
  PROVE  LET s == [r EXCEPT !.stage = stage, !.ready = FALSE]
         IN  /\ Owed(l, s) /\ Grown(l, s) /\ s.stage = stage
             /\ s.part = r.part /\ s.paid = r.paid
<1> DEFINE s == [r EXCEPT !.stage = stage, !.ready = FALSE]
<1>1. r \in LeaseRow
  BY DEF Owed
<1>2. s \in LeaseRow /\ s.stage = stage /\ s.part = r.part /\ s.paid = r.paid
  BY <1>1 DEF LeaseRow
<1>3. stage \notin {"NEW", "OFFERED"}
  BY DEF Closed
<1> HIDE DEF s
<1>4. Owed(l, s) /\ Grown(l, s)
  BY <1>2, <1>3 DEF Owed, Grown
<1> QED BY <1>2, <1>4 DEF s

LEMMA LeftOwed ==
  ASSUME NEW l \in Lease, NEW u, NEW r, Owed(l, r), Grown(l, r)
  PROVE  Owed(l, Left(l, u, r)) /\ Grown(l, Left(l, u, r)) /\ Left(l, u, r).stage = "DRAINING"
<1> DEFINE part == [n \in Node |->
                      IF n \in Nodes(Backed[l]) /\ Owner[n] = u
                      THEN [r.part[n] EXCEPT !.withdrawn = TRUE, !.ready = FALSE]
                      ELSE r.part[n]]
           s == Left(l, u, r)
<1>1. r \in LeaseRow
  BY DEF Owed
<1>2. \A n \in Node : /\ part[n] \in Part /\ part[n].paid = r.part[n].paid
                      /\ part[n].credited = r.part[n].credited
  BY <1>1, RowFields DEF Part
<1>3. part \in [Node -> Part]
  <2>1. part = [n \in Node |-> part[n]]
    OBVIOUS
  <2> HIDE DEF part
  <2> QED BY <1>2, <2>1
<1>4. s = [r EXCEPT !.stage = "DRAINING", !.ready = FALSE, !.part = part]
  BY DEF Left
<1> HIDE DEF part, s
<1>5. /\ s \in LeaseRow /\ s.stage = "DRAINING" /\ s.paid = r.paid
      /\ \A n \in Node : /\ s.part[n].paid = r.part[n].paid
                         /\ s.part[n].credited = r.part[n].credited
  BY <1>1, <1>2, <1>3, <1>4 DEF LeaseRow, Funded
<1>6. Nodes(Backed[l]) \subseteq Node
  BY FiniteMembers
<1>7. [n \in Node |-> s.part[n].paid] = [n \in Node |-> r.part[n].paid]
  BY <1>5
<1>8. Owed(l, s)
  BY <1>5, <1>6, <1>7 DEF Owed
<1>9. Grown(l, s)
  BY <1>5 DEF Grown
<1> QED BY <1>5, <1>8, <1>9 DEF s

-----------------------------------------------------------------------------
(* One handler at a time.                                                  *)

LEMMA AdvanceMoney ==
  ASSUME MoneyInv, NEW l \in Lease, NEW r, Owed(l, r), Grown(l, r), r.stage \in Active,
         lease[l].stage \in Funded, advance(l, r)
  PROVE  MoneyStep
<1>1. r \in LeaseRow /\ r.stage \notin Closed
  BY DEF Owed, Active, Closed
<1>2. Settled(l, r)
  BY <1>1 DEF advance, Settled, Returned
<1>3. lease' = [lease EXCEPT ![l] = r]
  BY DEF advance, Write
<1> QED BY <1>1, <1>2, <1>3 DEF MoneyStep, MoneyMove

LEMMA CloseMoney ==
  ASSUME MoneyInv, NEW l \in Lease, NEW r, Owed(l, r), Grown(l, r), NEW stage \in Closed,
         lease[l].stage \in Funded, close(l, r, stage)
  PROVE  MoneyStep
<1> DEFINE s == [r EXCEPT !.stage = stage, !.ready = FALSE]
<1>1. /\ Owed(l, s) /\ Grown(l, s) /\ s.stage = stage
      /\ s.part = r.part /\ s.paid = r.paid
  BY ClosedOwed
<1>2. /\ Projected(l, r)
      /\ PostBoth(PayKey(l, r), PaymentLines(l, r), RefundKey(l), RefundLines(l, r))
      /\ lease' = [lease EXCEPT ![l] = s]
  BY DEF close, Write
<1> HIDE DEF s
<1>3. /\ PayKey(l, s) = PayKey(l, r) /\ PaymentLines(l, s) = PaymentLines(l, r)
      /\ Returned(l, s) = RefundLines(l, r) /\ Projected(l, s)
  <2>1. PayKey(l, s) = PayKey(l, r)
    BY <1>1 DEF PayKey
  <2>2. PaymentLines(l, s) = PaymentLines(l, r)
    BY <1>1 DEF PaymentLines
  <2>3. Returned(l, s) = RefundLines(l, r)
    BY <1>1 DEF Returned, RefundLines
  <2>4. Projected(l, s)
    BY <1>1, <1>2 DEF Projected
  <2> QED BY <2>1, <2>2, <2>3, <2>4
<1>4. Settled(l, s)
  BY <1>1, <1>2, <1>3 DEF Settled
<1>5. s \in LeaseRow
  BY <1>1 DEF Owed
<1> QED BY <1>1, <1>2, <1>4, <1>5 DEF MoneyStep, MoneyMove

LEMMA OfferMoney ==
  ASSUME MoneyInv, NEW l \in Lease, offer(l)
  PROVE  MoneyStep
<1> DEFINE r == lease[l]
           s == [lease[l] EXCEPT !.stage = "OFFERED"]
<1>1. r \in LeaseRow /\ Owed(l, r) /\ r.stage = "NEW"
  BY StandingOwed DEF offer
<1>2. s \in LeaseRow /\ s.stage = "OFFERED" /\ s.part = r.part /\ s.paid = r.paid
  BY <1>1 DEF LeaseRow, Funded
<1>3. lease' = [lease EXCEPT ![l] = s] /\ Post(FundKey(l), OfferLines(l))
  BY DEF offer, Write, OfferLines
<1> HIDE DEF s
<1>4. Owed(l, s)
  BY <1>1, <1>2 DEF Owed
<1>5. SameMoney(l, s)
  BY <1>2 DEF SameMoney
<1> QED BY <1>1, <1>2, <1>3, <1>4, <1>5 DEF MoneyStep, MoneyMove, Offered

LEMMA AcceptMoney ==
  ASSUME MoneyInv, NEW l \in Lease, NEW u \in User, accept(l, u)
  PROVE  MoneyStep
<1> DEFINE accepted == lease[l].accepted \cup {u}
           r == lease[l]
<1>1. r \in LeaseRow /\ Owed(l, r) /\ r.stage = "OFFERED" /\ accepted \in SUBSET User
  <2>1. r \in LeaseRow /\ Owed(l, r) /\ r.stage = "OFFERED"
    BY StandingOwed DEF accept, AcceptsTerms
  <2> QED BY <2>1, RowFields
<1>2. /\ UNCHANGED ledgerVars /\ now \in Nat /\ epoch \in [Node -> Nat]
      /\ Nodes(Backed[l]) \subseteq Node
  BY FiniteMembers DEF accept, AcceptsTerms, MoneyInv, LeasesTypeOK, FleetTypeOK
<1>3. ASSUME NEW s \in LeaseRow, s.stage \in {"OFFERED", "ACTIVE"}, s.paid = r.paid,
             \A n \in Node : /\ s.part[n].paid = r.part[n].paid
                             /\ s.part[n].credited = r.part[n].credited,
             lease' = [lease EXCEPT ![l] = s]
      PROVE  MoneyStep
  <2>1. SameMoney(l, s)
    BY <1>3 DEF SameMoney
  <2>2. [n \in Node |-> s.part[n].paid] = [n \in Node |-> r.part[n].paid]
    BY <1>3
  <2>3. Owed(l, s)
    BY <1>1, <1>2, <1>3, <2>2 DEF Owed
  <2> QED BY <1>1, <1>2, <1>3, <2>1, <2>3 DEF MoneyStep, MoneyMove, Accepted
<1>4. CASE accepted # Providers(Backed[l])
  <2> DEFINE s == [r EXCEPT !.accepted = accepted]
  <2>1. s \in LeaseRow /\ s.stage = "OFFERED" /\ s.paid = r.paid /\ s.part = r.part
    BY <1>1 DEF LeaseRow
  <2>2. lease' = [lease EXCEPT ![l] = s]
    BY <1>4 DEF accept, AcceptsTerms, Write
  <2> HIDE DEF s
  <2> QED BY <1>3, <2>1, <2>2
<1>5. CASE accepted = Providers(Backed[l])
  <2> DEFINE part == [n \in Node |->
                        IF n \in Nodes(Backed[l])
                        THEN [r.part[n] EXCEPT !.ready = TRUE, !.epoch = epoch[n]]
                        ELSE r.part[n]]
             s == Activated(l, accepted)
  <2>1. \A n \in Node : /\ part[n] \in Part /\ part[n].paid = r.part[n].paid
                        /\ part[n].credited = r.part[n].credited
    <3> SUFFICES ASSUME NEW n \in Node
                 PROVE  /\ part[n] \in Part /\ part[n].paid = r.part[n].paid
                        /\ part[n].credited = r.part[n].credited
      OBVIOUS
    <3>1. r.part[n] \in Part /\ epoch[n] \in Nat
      BY <1>1, <1>2, RowFields
    <3>2. part[n] = IF n \in Nodes(Backed[l])
                    THEN [r.part[n] EXCEPT !.ready = TRUE, !.epoch = epoch[n]]
                    ELSE r.part[n]
      OBVIOUS
    <3> HIDE DEF part, r
    <3> QED BY <3>1, <3>2 DEF Part
  <2>2. part \in [Node -> Part]
    <3>1. part = [n \in Node |-> part[n]]
      OBVIOUS
    <3> HIDE DEF part
    <3> QED BY <2>1, <3>1
  <2>3. s = [r EXCEPT !.stage = "ACTIVE", !.accepted = accepted, !.started = now,
                      !.sampled = now, !.ready = TRUE, !.part = part]
    BY DEF Activated
  <2>4. lease' = [lease EXCEPT ![l] = s]
    BY <1>5 DEF accept, AcceptsTerms, Write
  <2> HIDE DEF s, part
  <2>5. s \in LeaseRow /\ s.stage = "ACTIVE" /\ s.paid = r.paid /\ s.part = part
    BY <1>1, <1>2, <2>2, <2>3 DEF LeaseRow, Funded
  <2> QED BY <1>3, <2>1, <2>4, <2>5
<1> QED BY <1>4, <1>5

LEMMA ReconcileMoney ==
  ASSUME MoneyInv, NEW l \in Lease, reconcile(l)
  PROVE  MoneyStep
<1>1. CASE lease[l].stage = "OFFERED" /\ close(l, lease[l], "EXPIRED")
  BY <1>1, StandingOwed, CloseMoney DEF Closed, Funded
<1>2. CASE lease[l].stage \in Active /\ close(l, Sample(l), "COMPLETED")
  BY <1>2, SampleOwed, CloseMoney DEF Closed, Funded, Active
<1>3. CASE lease[l].stage \in Active /\ advance(l, Sample(l))
  <2>1. lease[l].stage \in Funded
    BY <1>3 DEF Active, Funded
  <2> QED BY <1>3, <2>1, SampleOwed, AdvanceMoney
<1> QED BY <1>1, <1>2, <1>3 DEF reconcile

LEMMA CancelNodeMoney ==
  ASSUME MoneyInv, NEW l \in Lease, cancelNode(l)
  PROVE  MoneyStep
<1>1. CASE lease[l].stage = "OFFERED" /\ close(l, lease[l], "CANCELLED")
  BY <1>1, StandingOwed, CloseMoney DEF Closed, Funded
<1>2. CASE lease[l].stage = "ACTIVE" /\ close(l, Sample(l), "CANCELLED")
  BY <1>2, SampleOwed, CloseMoney DEF Closed, Funded, Active
<1> QED BY <1>1, <1>2 DEF cancelNode

LEMMA CancelRouteMoney ==
  ASSUME MoneyInv, NEW l \in Lease, NEW u \in User, cancelRoute(l, u)
  PROVE  MoneyStep
<1> DEFINE r == IF now >= lease[l].sampled THEN Sample(l) ELSE lease[l]
<1>1. CASE lease[l].stage = "OFFERED" /\ close(l, lease[l], "CANCELLED")
  BY <1>1, StandingOwed, CloseMoney DEF Closed, Funded
<1>2. ASSUME lease[l].stage \in Active
      PROVE  Owed(l, r) /\ Grown(l, r) /\ lease[l].stage \in Funded
  BY <1>2, StandingOwed, SampleOwed DEF Active, Funded
<1>3. CASE lease[l].stage \in Active /\ close(l, r, "COMPLETED")
  <2> HIDE DEF r
  <2> QED BY <1>2, <1>3, CloseMoney DEF Closed
<1>4. CASE lease[l].stage \in Active /\ LeaveRoute(l, u, r)
  <2> HIDE DEF r
  <2>1. /\ Owed(l, Left(l, u, r)) /\ Grown(l, Left(l, u, r))
        /\ Left(l, u, r).stage \in Active /\ lease[l].stage \in Funded
    BY <1>2, <1>4, LeftOwed DEF Active
  <2> QED BY <1>4, <2>1, AdvanceMoney DEF LeaveRoute
<1> QED BY <1>1, <1>3, <1>4 DEF cancelRoute

LEMMA NextMoney ==
  ASSUME MoneyInv, [Next]_vars
  PROVE  MoneyStep
<1>1. CASE FleetStep \/ RoutesMove \/ Tick \/ SetClockBack
  BY <1>1 DEF FleetStep, RoutesMove, Tick, SetClockBack, MoneyStep
<1>2. CASE \E n \in Wavering : Lag(n)
  BY <1>2 DEF Lag, MoneyStep
<1>3. ASSUME NEW l \in Lease, Lapse(l) PROVE MoneyStep
  BY <1>3 DEF Lapse, MoneyStep
<1>4. CASE UNCHANGED vars
  BY <1>4 DEF vars, MoneyStep, ledgerVars
<1> QED
  BY <1>1, <1>2, <1>3, <1>4, OfferMoney, AcceptMoney, ReconcileMoney,
     CancelNodeMoney, CancelRouteMoney DEF Next

-----------------------------------------------------------------------------
(* The postings.                                                           *)

\* What member n has earned since the row of l was written.
Gain(l, r) == [n \in Node |-> r.part[n].paid - lease[l].part[n].paid]
MembersOf(l, u) == {n \in Nodes(Backed[l]) : Owner[n] = u}

LEMMA EscrowAccounts ==
  ASSUME NEW l \in Lease, NEW m \in Lease
  PROVE  Escrow(l) \in Account \ {LabIssuer} /\ (Escrow(l) = Escrow(m) <=> l = m)
BY LeasesAssumption DEF Account, Escrow, LabIssuer

LEMMA Accounts ==
  ASSUME NEW l \in Lease, NEW u \in User
  PROVE  /\ Escrow(l) \in Account \ {LabIssuer} /\ Available(u) \in Account \ {LabIssuer}
         /\ Escrow(l) # Available(u) /\ Available(u)[2] = u
         /\ \A v \in User : Available(u) = Available(v) <=> u = v
         /\ \A m \in Lease : Escrow(l) = Escrow(m) <=> l = m
BY LeasesAssumption DEF Account, Escrow, Available, LabIssuer

LEMMA OfferLinesAre ==
  ASSUME NEW l \in Lease
  PROVE  /\ OfferLines(l) \in [Account -> Int]
         /\ \A m \in Lease : OfferLines(l)[Escrow(m)] = IF l = m THEN Budget(l) ELSE 0
         /\ \A u \in User : OfferLines(l)[Available(u)] =
                              IF Sponsor[l] = u THEN 0 - Budget(l) ELSE 0
<1>1. Budget(l) \in Int /\ Sponsor[l] \in User
  BY Prices
<1> QED BY <1>1, Accounts DEF OfferLines, NoLines

LEMMA RefundLinesAre ==
  ASSUME NEW l \in Lease, NEW r \in LeaseRow
  PROVE  /\ RefundLines(l, r) \in [Account -> Int]
         /\ \A m \in Lease : RefundLines(l, r)[Escrow(m)] =
                               IF l = m THEN r.paid - Budget(l) ELSE 0
         /\ \A u \in User : RefundLines(l, r)[Available(u)] =
                              IF Sponsor[l] = u THEN Budget(l) - r.paid ELSE 0
<1>1. Budget(l) \in Int /\ Sponsor[l] \in User /\ r.paid \in Int
  BY Prices, RowFields
<1> QED BY <1>1, Accounts DEF RefundLines, NoLines

LEMMA PaymentLinesAre ==
  ASSUME NEW l \in Lease, lease[l] \in LeaseRow, NEW r \in LeaseRow
  PROVE  /\ PaymentLines(l, r) \in [Account -> Int]
         /\ \A m \in Lease : PaymentLines(l, r)[Escrow(m)] =
                               IF l = m THEN lease[l].paid - r.paid ELSE 0
         /\ \A u \in User : PaymentLines(l, r)[Available(u)] =
                              SumFunctionOnSet(Gain(l, r), MembersOf(l, u))
         /\ \A a \in Account :
              \/ PaymentLines(l, r)[a] = 0 \/ a = Escrow(l)
              \/ \E u \in User : a = Available(u)
<1>1. \A n \in Node : Gain(l, r)[n] \in Int
  BY RowFields DEF Gain
<1>2. ASSUME NEW u
      PROVE  SumFunctionOnSet(Gain(l, r), MembersOf(l, u)) \in Int
  <2>1. IsFiniteSet(MembersOf(l, u)) /\ MembersOf(l, u) \subseteq Node
    BY FiniteMembers, FS_Subset DEF MembersOf
  <2> QED BY <1>1, <2>1, SumType
<1>3. \A a \in Account :
        PaymentLines(l, r)[a] =
          IF a = Escrow(l) THEN lease[l].paid - r.paid
          ELSE IF \E u \in User : a = Available(u)
          THEN SumFunctionOnSet(Gain(l, r), MembersOf(l, a[2])) ELSE 0
  BY DEF PaymentLines, Gain, MembersOf
<1>4. lease[l].paid - r.paid \in Int
  BY RowFields
<1>5. DOMAIN PaymentLines(l, r) = Account
      /\ PaymentLines(l, r) = [a \in Account |-> PaymentLines(l, r)[a]]
  BY DEF PaymentLines
<1>6. \A a \in Account : PaymentLines(l, r)[a] \in Int
  BY <1>2, <1>3, <1>4
<1>7. \A m \in Lease : PaymentLines(l, r)[Escrow(m)] =
                         IF l = m THEN lease[l].paid - r.paid ELSE 0
  <2> SUFFICES ASSUME NEW m \in Lease
               PROVE  PaymentLines(l, r)[Escrow(m)] =
                        IF l = m THEN lease[l].paid - r.paid ELSE 0
    OBVIOUS
  <2>1. Escrow(m) \in Account /\ (Escrow(m) = Escrow(l) <=> l = m)
    BY EscrowAccounts
  <2>2. \A u \in User : Escrow(m) # Available(u)
    BY Accounts
  <2> QED BY <1>3, <2>1, <2>2
<1>8. \A u \in User : PaymentLines(l, r)[Available(u)] =
                        SumFunctionOnSet(Gain(l, r), MembersOf(l, u))
  BY <1>3, Accounts
<1> QED BY <1>3, <1>5, <1>6, <1>7, <1>8

\* A row whose payments differ from those made so far has a larger mark, and no
\* row goes back (the keys of reconcile and of the payments, ledger.ts).
LEMMA MarksGrow ==
  ASSUME MoneyInv, NEW l \in Lease, NEW r \in LeaseRow, Owed(l, r), Grown(l, r),
         Projected(l, r)
  PROVE  /\ Mark(l, lease[l]) \in Nat /\ Mark(l, r) \in Nat
         /\ lease[l].paid <= r.paid
         /\ Mark(l, lease[l]) <= Mark(l, r)
         /\ PaymentLines(l, r) # NoLines => Mark(l, lease[l]) < Mark(l, r)
<1> DEFINE ns == Nodes(Backed[l])
           f == [n \in Node |-> lease[l].part[n].paid]
           g == [n \in Node |-> r.part[n].paid]
           d == Gain(l, r)
<1>1. lease[l] \in LeaseRow /\ Owed(l, lease[l])
  BY StandingOwed
<1>2. \A n \in Node : /\ f[n] \in Nat /\ g[n] \in Nat
                      /\ lease[l].part[n].credited \in Nat /\ r.part[n].credited \in Nat
  BY <1>1, RowFields
<1>3. ns \subseteq Node /\ IsFiniteSet(ns) /\ Root(Backed[l]) \in ns
      /\ (~IsRoute(Backed[l]) => ns = {Root(Backed[l])})
  BY FiniteMembers
<1>4. Mark(l, lease[l]) \in Nat /\ Mark(l, r) \in Nat
  BY <1>1, <1>2, <1>3, RowFields DEF Mark
<1>5. \A n \in ns : f[n] <= g[n] /\ d[n] \in Nat /\ g[n] = f[n] + d[n] /\ d[n] = g[n] - f[n]
  BY <1>2, <1>3 DEF Projected, Gain
<1>6. lease[l].paid = SumFunctionOnSet(f, ns) /\ r.paid = SumFunctionOnSet(g, ns)
      /\ lease[l].paid \in Nat /\ r.paid \in Nat
  BY <1>1, RowFields DEF Owed
<1>7. /\ SumFunctionOnSet(g, ns) = SumFunctionOnSet(f, ns) + SumFunctionOnSet(d, ns)
      /\ SumFunctionOnSet(d, ns) \in Nat
      /\ \A n \in ns : d[n] <= SumFunctionOnSet(d, ns)
  <2> HIDE DEF f, g, d, ns
  <2>1. \A n \in ns : f[n] \in Int /\ d[n] \in Int /\ g[n] = f[n] + d[n]
    BY <1>2, <1>3, <1>5
  <2>2. SumFunctionOnSet(g, ns) = SumFunctionOnSet(f, ns) + SumFunctionOnSet(d, ns)
    BY <1>3, <2>1, SumAdds
  <2>3. \A n \in ns : d[n] \in Nat
    BY <1>5
  <2> QED BY <1>3, <2>2, <2>3, SumNat
<1>8. lease[l].paid <= r.paid
  <2> HIDE DEF f, g, d
  <2> QED BY <1>6, <1>7
<1>9. Mark(l, lease[l]) <= Mark(l, r)
  BY <1>3, <1>8 DEF Mark, Grown
<1>10. ASSUME PaymentLines(l, r) # NoLines PROVE \E n \in ns : d[n] # 0
  <2> SUFFICES ASSUME \A n \in ns : d[n] = 0 PROVE PaymentLines(l, r) = NoLines
    BY <1>10
  <2> HIDE DEF d
  <2>1. SumFunctionOnSet(d, ns) = 0
    BY <1>3, SumZero
  <2>2. lease[l].paid - r.paid = 0
    BY <1>6, <1>7, <2>1
  <2>3. \A u : SumFunctionOnSet(d, MembersOf(l, u)) = 0
    <3> SUFFICES ASSUME NEW u PROVE SumFunctionOnSet(d, MembersOf(l, u)) = 0
      OBVIOUS
    <3>1. MembersOf(l, u) \subseteq ns
      BY DEF MembersOf
    <3>2. IsFiniteSet(MembersOf(l, u)) /\ \A n \in MembersOf(l, u) : d[n] = 0
      BY <1>3, <3>1, FS_Subset
    <3> HIDE DEF ns
    <3> QED BY <3>2, SumZero
  <2>4. \A a \in Account : PaymentLines(l, r)[a] = 0
    BY <1>1, <2>2, <2>3, PaymentLinesAre DEF d
  <2>5. PaymentLines(l, r) = [a \in Account |-> PaymentLines(l, r)[a]]
    BY DEF PaymentLines
  <2> QED BY <2>4, <2>5 DEF NoLines
<1>11. ASSUME PaymentLines(l, r) # NoLines PROVE Mark(l, lease[l]) < Mark(l, r)
  <2>1. PICK n \in ns : d[n] # 0
    BY <1>10, <1>11
  <2>2. CASE IsRoute(Backed[l])
    <3>1. SumFunctionOnSet(d, ns) > 0
      <4> DEFINE t == SumFunctionOnSet(d, ns)
                 e == d[n]
      <4>1. e \in Nat /\ e # 0 /\ e <= t /\ t \in Nat
        BY <1>5, <1>7, <2>1
      <4> HIDE DEF t, e
      <4> QED BY <4>1 DEF t
    <3>2. lease[l].paid < r.paid
      <4> HIDE DEF d, f, g
      <4> QED BY <1>6, <1>7, <3>1
    <3> QED BY <2>2, <3>2 DEF Mark
  <2>3. CASE ~IsRoute(Backed[l])
    <3>1. n = Root(Backed[l])
      BY <1>3, <2>1, <2>3
    <3>2. g[n] # f[n]
      BY <1>2, <1>3, <2>1 DEF Gain
    <3>3. r.part[n].credited # lease[l].part[n].credited
      BY <1>1, <1>3, <3>2 DEF Owed
    <3>4. lease[l].part[n].credited < r.part[n].credited
      BY <1>2, <1>3, <3>3 DEF Grown
    <3> QED BY <2>3, <3>1, <3>4 DEF Mark
  <2> QED BY <2>2, <2>3
<1> QED BY <1>4, <1>8, <1>9, <1>11

\* Two postings under fresh keys are both made, and each is covered (post, ledger.ts).
LEMMA PostedBoth ==
  ASSUME LedgerTypeOK, NEW key1, NEW lines1, NEW key2, NEW lines2,
         lines1 \in [Account -> Int], lines2 \in [Account -> Int],
         lines1 # NoLines => key1 \notin journal,
         lines2 # NoLines => key2 \notin journal,
         PostBoth(key1, lines1, key2, lines2)
  PROVE  /\ LedgerTypeOK'
         /\ \A a \in Account : balance'[a] = balance[a] + lines1[a] + lines2[a]
         /\ \A a \in Account \ {LabIssuer} : balance[a] + lines1[a] >= 0
         /\ journal \subseteq journal'
         /\ journal' \subseteq journal \cup (IF lines1 # NoLines THEN {key1} ELSE {})
                                       \cup (IF lines2 # NoLines THEN {key2} ELSE {})
<1> DEFINE between == IF lines1 # NoLines THEN [a \in Account |-> balance[a] + lines1[a]]
                      ELSE balance
<1>1. /\ lines1 # NoLines => Covered(balance, lines1)
      /\ lines2 # NoLines => Covered(between, lines2)
      /\ balance' = IF lines2 # NoLines THEN [a \in Account |-> between[a] + lines2[a]]
                    ELSE between
      /\ journal' = journal \cup (IF lines1 # NoLines THEN {key1} ELSE {})
                            \cup (IF lines2 # NoLines THEN {key2} ELSE {})
  BY DEF PostBoth, Acceptable
<1>2. /\ balance \in [Account -> Int]
      /\ \A a \in Account \ {LabIssuer} : balance[a] >= 0
      /\ \A a \in Account : NoLines[a] = 0
  BY DEF LedgerTypeOK, NoLines
<1>3. /\ between \in [Account -> Int]
      /\ \A a \in Account : between[a] = balance[a] + lines1[a]
  BY <1>2
<1>4. \A a \in Account \ {LabIssuer} : between[a] >= 0
  BY <1>1, <1>2, <1>3 DEF Covered
<1> HIDE DEF between
<1>5. /\ balance' \in [Account -> Int]
      /\ \A a \in Account : balance'[a] = between[a] + lines2[a]
  BY <1>1, <1>2, <1>3
<1>6. \A a \in Account \ {LabIssuer} : balance'[a] >= 0
  BY <1>1, <1>2, <1>4, <1>5 DEF Covered
<1> QED BY <1>1, <1>3, <1>4, <1>5, <1>6 DEF LedgerTypeOK

\* A payment and a refund are always made: nothing of theirs was posted before. No
\* more is paid than the escrow holds.
LEMMA SettledBook ==
  ASSUME MoneyInv, NEW l \in Lease, NEW r \in LeaseRow, Owed(l, r), Settled(l, r)
  PROVE  /\ LedgerTypeOK'
         /\ \A a \in Account :
              balance'[a] = balance[a] + PaymentLines(l, r)[a] + Returned(l, r)[a]
         /\ lease[l].paid <= r.paid /\ r.paid <= Budget(l)
         /\ journal \subseteq journal'
         /\ journal' \subseteq journal \cup {PayKey(l, r)}
                                \cup (IF r.stage \in Closed THEN {RefundKey(l)} ELSE {})
<1>1. /\ lease[l] \in LeaseRow /\ LedgerTypeOK /\ lease[l].stage \in Funded
      /\ balance[Escrow(l)] = Budget(l) - lease[l].paid
      /\ Grown(l, r) /\ Projected(l, r)
  BY StandingOwed DEF MoneyInv, LeasesTypeOK, EscrowsHold, Settled
<1>2. PaymentLines(l, r) \in [Account -> Int] /\ Returned(l, r) \in [Account -> Int]
  BY <1>1, PaymentLinesAre, RefundLinesAre DEF Returned, NoLines
<1>3. /\ Mark(l, lease[l]) \in Nat /\ Mark(l, r) \in Nat
      /\ lease[l].paid <= r.paid
      /\ PaymentLines(l, r) # NoLines => Mark(l, lease[l]) < Mark(l, r)
  BY <1>1, MarksGrow
<1>4. PayKey(l, r) = <<"pay", l, Mark(l, r)>>
  BY DEF PayKey, Mark
<1>5. PaymentLines(l, r) # NoLines => PayKey(l, r) \notin journal
  BY <1>3, <1>4 DEF MoneyInv, Keys
<1>6. RefundKey(l) \notin journal
  BY <1>1 DEF MoneyInv, Keys, Funded, Closed
<1>7. PostBoth(PayKey(l, r), PaymentLines(l, r), RefundKey(l), Returned(l, r))
  BY DEF Settled
<1>8. /\ LedgerTypeOK'
      /\ \A a \in Account :
           balance'[a] = balance[a] + PaymentLines(l, r)[a] + Returned(l, r)[a]
      /\ \A a \in Account \ {LabIssuer} : balance[a] + PaymentLines(l, r)[a] >= 0
      /\ journal \subseteq journal'
      /\ journal' \subseteq journal
           \cup (IF PaymentLines(l, r) # NoLines THEN {PayKey(l, r)} ELSE {})
           \cup (IF Returned(l, r) # NoLines THEN {RefundKey(l)} ELSE {})
  BY <1>1, <1>2, <1>5, <1>6, <1>7, PostedBoth
<1>9. r.paid <= Budget(l)
  <2>1. PaymentLines(l, r)[Escrow(l)] = lease[l].paid - r.paid
    BY <1>1, PaymentLinesAre
  <2>2. Escrow(l) \in Account \ {LabIssuer}
    BY EscrowAccounts
  <2>3. balance[Escrow(l)] + PaymentLines(l, r)[Escrow(l)] >= 0
    BY <1>8, <2>2
  <2>4. Budget(l) \in Nat /\ lease[l].paid \in Nat /\ r.paid \in Nat
    BY <1>1, Prices, RowFields
  <2> QED BY <1>1, <2>1, <2>3, <2>4
<1>10. Returned(l, r) # NoLines => r.stage \in Closed
  BY DEF Returned
<1> QED BY <1>3, <1>8, <1>9, <1>10

\* Offering a lease sets its budget aside.
LEMMA OfferedBook ==
  ASSUME MoneyInv, NEW l \in Lease, NEW r \in LeaseRow, Offered(l, r)
  PROVE  /\ LedgerTypeOK'
         /\ \A a \in Account : balance'[a] = balance[a] + OfferLines(l)[a]
         /\ journal' = journal \cup {FundKey(l)}
<1>1. FundKey(l) \notin journal /\ LedgerTypeOK
  BY DEF Offered, MoneyInv, Keys, LeasesTypeOK
<1>2. /\ Covered(balance, OfferLines(l))
      /\ balance' = [a \in Account |-> balance[a] + OfferLines(l)[a]]
      /\ journal' = journal \cup {FundKey(l)}
  BY <1>1 DEF Offered, Post, Acceptable
<1>3. OfferLines(l) \in [Account -> Int]
  BY OfferLinesAre
<1>4. /\ balance' \in [Account -> Int]
      /\ \A a \in Account : balance'[a] = balance[a] + OfferLines(l)[a]
  BY <1>1, <1>2, <1>3 DEF LedgerTypeOK
<1>5. \A a \in Account \ {LabIssuer} : balance'[a] >= 0
  BY <1>2, <1>4 DEF Covered
<1> QED BY <1>2, <1>4, <1>5 DEF LedgerTypeOK

-----------------------------------------------------------------------------
(* What such steps keep.                                                   *)

LEMMA WrittenRow ==
  ASSUME MoneyInv, NEW l \in Lease, NEW r, lease' = [lease EXCEPT ![l] = r]
  PROVE  lease'[l] = r /\ \A m \in Lease \ {l} : lease'[m] = lease[m]
BY DEF MoneyInv, Registry

LEMMA KeysStep ==
  ASSUME MoneyInv, NEW l \in Lease, NEW r \in LeaseRow, MoneyMove(l, r)
  PROVE  Keys'
<1>1. /\ lease'[l] = r /\ \A m \in Lease \ {l} : lease'[m] = lease[m]
      /\ lease[l] \in LeaseRow /\ Owed(l, r)
  BY WrittenRow, StandingOwed DEF MoneyMove
<1>2. ASSUME NEW m \in Lease
      PROVE  /\ FundKey(m) \in journal <=> lease[m].stage # "NEW"
             /\ RefundKey(m) \in journal => lease[m].stage \in Closed
             /\ \A x \in Nat : <<"pay", m, x>> \in journal => x <= Mark(m, lease[m])
  BY DEF MoneyInv, Keys
<1>3. CASE Offered(l, r)
  <2>1. journal' = journal \cup {FundKey(l)} /\ r.stage = "OFFERED" /\ SameMoney(l, r)
        /\ lease[l].stage = "NEW"
    BY <1>3, OfferedBook DEF Offered
  <2>2. Mark(l, r) = Mark(l, lease[l])
    BY <2>1, FiniteMembers DEF Mark, SameMoney
  <2>3. ASSUME NEW m \in Lease
        PROVE  /\ FundKey(m) \in journal' <=> lease'[m].stage # "NEW"
               /\ RefundKey(m) \in journal' => lease'[m].stage \in Closed
               /\ \A x \in Nat : <<"pay", m, x>> \in journal' => x <= Mark(m, lease'[m])
    <3>1. /\ FundKey(m) = FundKey(l) <=> m = l
          /\ RefundKey(m) # FundKey(l) /\ \A x : <<"pay", m, x>> # FundKey(l)
      BY DEF FundKey, RefundKey
    <3>2. RefundKey(m) \in journal => m # l
      BY <1>2, <2>1 DEF Closed
    <3> QED BY <1>1, <1>2, <2>1, <2>2, <3>1, <3>2
  <2> QED BY <2>3 DEF Keys, Mark, FundKey, RefundKey
<1>4. CASE Accepted(l, r)
  <2>1. journal' = journal /\ r.stage \in {"OFFERED", "ACTIVE"} /\ SameMoney(l, r)
        /\ lease[l].stage = "OFFERED"
    BY <1>4 DEF Accepted, ledgerVars
  <2>2. Mark(l, r) = Mark(l, lease[l])
    BY <2>1, FiniteMembers DEF Mark, SameMoney
  <2>3. ASSUME NEW m \in Lease
        PROVE  /\ FundKey(m) \in journal' <=> lease'[m].stage # "NEW"
               /\ RefundKey(m) \in journal' => lease'[m].stage \in Closed
               /\ \A x \in Nat : <<"pay", m, x>> \in journal' => x <= Mark(m, lease'[m])
    <3>1. RefundKey(m) \in journal => m # l
      BY <1>2, <2>1 DEF Closed
    <3> QED BY <1>1, <1>2, <2>1, <2>2, <3>1
  <2> QED BY <2>3 DEF Keys, Mark, FundKey, RefundKey
<1>5. CASE Settled(l, r)
  <2>1. /\ journal \subseteq journal'
        /\ journal' \subseteq journal \cup {PayKey(l, r)}
                                \cup (IF r.stage \in Closed THEN {RefundKey(l)} ELSE {})
        /\ lease[l].stage \in Funded /\ r.stage \in Active \cup Closed
    BY <1>1, <1>5, SettledBook DEF Settled
  <2>2. /\ Mark(l, lease[l]) \in Nat /\ Mark(l, r) \in Nat
        /\ Mark(l, lease[l]) <= Mark(l, r)
    BY <1>1, <1>5, MarksGrow DEF Settled
  <2>3. PayKey(l, r) = <<"pay", l, Mark(l, r)>>
    BY DEF PayKey, Mark
  <2>4. ASSUME NEW m \in Lease
        PROVE  /\ FundKey(m) \in journal' <=> lease'[m].stage # "NEW"
               /\ RefundKey(m) \in journal' => lease'[m].stage \in Closed
               /\ \A x \in Nat : <<"pay", m, x>> \in journal' => x <= Mark(m, lease'[m])
    <3>1. /\ FundKey(m) # PayKey(l, r) /\ FundKey(m) # RefundKey(l)
          /\ RefundKey(m) # PayKey(l, r) /\ (RefundKey(m) = RefundKey(l) <=> m = l)
          /\ \A x : <<"pay", m, x>> # RefundKey(l)
          /\ \A x : <<"pay", m, x>> = PayKey(l, r) <=> m = l /\ x = Mark(l, r)
      BY <2>3 DEF FundKey, RefundKey
    <3>2. FundKey(m) \in journal' <=> FundKey(m) \in journal
      BY <2>1, <3>1
    <3>3. lease[l].stage # "NEW" /\ r.stage # "NEW" /\ lease[l].stage \notin Closed
      BY <2>1 DEF Funded, Active, Closed
    <3>4. RefundKey(m) \in journal' => lease'[m].stage \in Closed
      BY <1>1, <1>2, <2>1, <3>1, <3>3
    <3>5. ASSUME NEW x \in Nat, <<"pay", m, x>> \in journal' PROVE x <= Mark(m, lease'[m])
      <4>1. CASE m # l
        BY <1>1, <1>2, <2>1, <3>1, <3>5, <4>1
      <4>2. CASE m = l
        <5>1. x = Mark(l, r) \/ x <= Mark(l, lease[l])
          BY <1>2, <2>1, <3>1, <3>5, <4>2
        <5> QED BY <1>1, <2>2, <4>2, <5>1
      <4> QED BY <4>1, <4>2
    <3> QED BY <1>1, <1>2, <3>2, <3>3, <3>4, <3>5
  <2> QED BY <2>4 DEF Keys, Mark, FundKey, RefundKey
<1> QED BY <1>3, <1>4, <1>5 DEF MoneyMove

LEMMA EscrowsStep ==
  ASSUME MoneyInv, NEW l \in Lease, NEW r \in LeaseRow, MoneyMove(l, r)
  PROVE  EscrowsHold'
<1>1. /\ lease'[l] = r /\ \A m \in Lease \ {l} : lease'[m] = lease[m]
      /\ lease[l] \in LeaseRow /\ Owed(l, r) /\ Owed(l, lease[l])
  BY WrittenRow, StandingOwed DEF MoneyMove
<1>2. SUFFICES ASSUME NEW m \in Lease
      PROVE  balance'[Escrow(m)] =
               IF lease'[m].stage \in Funded THEN Budget(m) - lease'[m].paid ELSE 0
  BY DEF EscrowsHold, Escrow
<1>3. /\ balance[Escrow(m)] = IF lease[m].stage \in Funded
                              THEN Budget(m) - lease[m].paid ELSE 0
      /\ balance[Escrow(m)] \in Int /\ Escrow(m) \in Account
  BY EscrowAccounts DEF MoneyInv, EscrowsHold, LeasesTypeOK, LedgerTypeOK
<1>4. Budget(l) \in Nat /\ lease[l].paid \in Nat /\ r.paid \in Nat
  BY <1>1, Prices, RowFields
<1>5. CASE Offered(l, r)
  <2>1. /\ balance'[Escrow(m)] = balance[Escrow(m)] + (IF l = m THEN Budget(l) ELSE 0)
        /\ lease[l].stage = "NEW" /\ r.stage = "OFFERED" /\ r.paid = lease[l].paid
    BY <1>3, <1>5, OfferedBook, OfferLinesAre DEF Offered, SameMoney
  <2>2. lease[l].paid = 0
    BY <1>1, <2>1 DEF Owed
  <2>3. "NEW" \notin Funded /\ "OFFERED" \in Funded
    BY DEF Funded
  <2> QED BY <1>1, <1>3, <1>4, <2>1, <2>2, <2>3
<1>6. CASE Accepted(l, r)
  <2>1. balance' = balance /\ lease[l].stage \in Funded /\ r.stage \in Funded
        /\ r.paid = lease[l].paid
    BY <1>6 DEF Accepted, ledgerVars, SameMoney, Funded
  <2> QED BY <1>1, <1>3, <2>1
<1>7. CASE Settled(l, r)
  <2>1. /\ balance'[Escrow(m)] = balance[Escrow(m)] + PaymentLines(l, r)[Escrow(m)]
                                   + Returned(l, r)[Escrow(m)]
        /\ lease[l].stage \in Funded /\ r.stage \in Active \cup Closed
    BY <1>1, <1>3, <1>7, SettledBook DEF Settled
  <2>2. PaymentLines(l, r)[Escrow(m)] = IF l = m THEN lease[l].paid - r.paid ELSE 0
    BY <1>1, PaymentLinesAre
  <2>3. Returned(l, r)[Escrow(m)] =
          IF l = m /\ r.stage \in Closed THEN r.paid - Budget(l) ELSE 0
    BY <1>3, RefundLinesAre DEF Returned, NoLines
  <2>4. r.stage \in Closed <=> r.stage \notin Funded
    BY <2>1 DEF Closed, Funded, Active
  <2>5. CASE m = l
    BY <1>1, <1>3, <1>4, <2>1, <2>2, <2>3, <2>4, <2>5
  <2>6. CASE m # l
    BY <1>1, <1>3, <2>1, <2>2, <2>3, <2>6
  <2> QED BY <2>5, <2>6
<1> QED BY <1>5, <1>6, <1>7 DEF MoneyMove

LEMMA RowsStep ==
  ASSUME MoneyInv, NEW l \in Lease, NEW r \in LeaseRow, MoneyMove(l, r)
  PROVE  RowsHold' /\ lease' \in [Lease -> LeaseRow]
<1>1. /\ lease'[l] = r /\ \A m \in Lease \ {l} : lease'[m] = lease[m]
      /\ Owed(l, r) /\ lease' = [lease EXCEPT ![l] = r]
  BY WrittenRow DEF MoneyMove
<1>2. \A m \in Lease : Owed(m, lease[m]) /\ Within(m, lease[m])
  BY DEF MoneyInv, RowsHold
<1>3. Within(l, r)
  <2>1. CASE SameMoney(l, r)
    <3>1. Nodes(Backed[l]) \subseteq Node
      BY FiniteMembers
    <3> QED BY <1>2, <2>1, <3>1 DEF Within, SameMoney
  <2>2. CASE Projected(l, r)
    BY <2>2 DEF Projected, Within
  <2> QED BY <2>1, <2>2 DEF MoneyMove, Offered, Accepted, Settled
<1>4. \A m \in Lease : Owed(m, lease'[m]) /\ Within(m, lease'[m])
  BY <1>1, <1>2, <1>3
<1>5. lease' \in [Lease -> LeaseRow]
  BY <1>1 DEF MoneyInv, LeasesTypeOK
<1> QED BY <1>4, <1>5 DEF RowsHold, Owed, Within, Maximum, Earned

\* The records of nodes and routes, and the clock.
WorldTypes ==
  /\ FleetTypeOK /\ RoutesTypeOK
  /\ now \in Nat /\ recent \subseteq Node /\ due \subseteq Lease

LEMMA FleetTypes ==
  ASSUME FleetTypeOK, FleetStep, recent \subseteq Node
  PROVE  FleetTypeOK' /\ recent' \subseteq Node
<1>1. PICK n \in Wavering :
        \/ /\ \/ \E anew \in BOOLEAN : Resume(n, anew)
              \/ \E ready \in BOOLEAN : Heartbeat(n, ready)
           /\ recent' = recent \cup {n}
        \/ GoSilent(n) /\ UNCHANGED recent
        \/ (\E order \in Orders : NodeState(n, order)) /\ UNCHANGED recent
  BY DEF FleetStep
<1>2. n \in Node
  BY LeasesAssumption
<1>3. ASSUME NEW anew \in BOOLEAN, Resume(n, anew) PROVE FleetTypeOK'
  BY <1>2, <1>3 DEF Resume, FleetTypeOK, Phase
<1>4. ASSUME NEW ready \in BOOLEAN, Heartbeat(n, ready) PROVE FleetTypeOK'
  BY <1>2, <1>4 DEF Heartbeat, FleetTypeOK, Phase
<1>5. ASSUME GoSilent(n) PROVE FleetTypeOK'
  BY <1>2, <1>5 DEF GoSilent, FleetTypeOK
<1>6. ASSUME NEW order \in Orders, NodeState(n, order) PROVE FleetTypeOK'
  <2>1. order \in Desired
    BY FleetAssumption DEF Desired
  <2> QED BY <1>2, <1>6, <2>1 DEF NodeState, FleetTypeOK, Phase
<1>7. recent' \subseteq Node
  BY <1>1, <1>2
<1> QED BY <1>1, <1>3, <1>4, <1>5, <1>6, <1>7

LEMMA RoutesTypes ==
  ASSUME RoutesTypeOK, RoutesStep
  PROVE  RoutesTypeOK'
<1>1. ASSUME NEW r \in Route, publish(r) PROVE RoutesTypeOK'
  BY <1>1 DEF publish, RoutesTypeOK
<1>2. ASSUME NEW r \in Route, NEW u \in User, acceptTerms(r, u) \/ withdraw(r, u)
      PROVE  RoutesTypeOK'
  BY <1>2 DEF acceptTerms, withdraw, RoutesTypeOK
<1>3. ASSUME NEW r \in Route, NEW state \in {"LOCAL_PREVIEW", "REVOKED"}, qualifyRoute(r, state)
      PROVE  RoutesTypeOK'
  BY <1>3 DEF qualifyRoute, RoutesTypeOK
<1>4. ASSUME NEW qualified \in BOOLEAN, qualifyModel(qualified) PROVE RoutesTypeOK'
  BY <1>4 DEF qualifyModel, RoutesTypeOK
<1> QED BY <1>1, <1>2, <1>3, <1>4 DEF RoutesStep

LEMMA WorldStep ==
  ASSUME WorldTypes, [Next]_vars
  PROVE  WorldTypes'
<1>1. CASE FleetStep
  <2>1. FleetTypeOK' /\ recent' \subseteq Node
    BY <1>1, FleetTypes DEF WorldTypes
  <2> QED BY <1>1, <2>1 DEF FleetStep, WorldTypes, RoutesTypeOK, routesVars
<1>2. CASE RoutesMove
  <2>1. RoutesTypeOK'
    BY <1>2, RoutesTypes DEF WorldTypes, RoutesMove
  <2>2. UNCHANGED fleetVars
    BY <1>2 DEF RoutesMove, RoutesStep, publish, acceptTerms, withdraw, qualifyRoute,
                qualifyModel
  <2> QED BY <1>2, <2>1, <2>2 DEF RoutesMove, WorldTypes, FleetTypeOK, fleetVars, clockVars
<1>3. CASE Tick \/ SetClockBack \/ (\E n \in Wavering : Lag(n)) \/ (\E l \in Lease : Lapse(l))
  <2>1. UNCHANGED offerVars /\ now' \in Nat /\ recent' \subseteq Node /\ due' \subseteq Lease
    BY <1>3 DEF Tick, SetClockBack, Lag, Lapse, WorldTypes
  <2> QED BY <2>1 DEF WorldTypes, FleetTypeOK, RoutesTypeOK, offerVars, fleetVars, routesVars
<1>4. CASE \E l \in Lease : \/ offer(l) \/ reconcile(l) \/ cancelNode(l)
                            \/ \E u \in User : accept(l, u) \/ cancelRoute(l, u)
  <2>1. UNCHANGED <<offerVars, clockVars>>
    BY <1>4 DEF offer, reconcile, cancelNode, accept, AcceptsTerms, cancelRoute
  <2> QED BY <2>1 DEF WorldTypes, FleetTypeOK, RoutesTypeOK, offerVars, fleetVars,
                      routesVars, clockVars
<1>5. CASE UNCHANGED vars
  BY <1>5 DEF vars, WorldTypes, FleetTypeOK, RoutesTypeOK
<1> QED BY <1>1, <1>2, <1>3, <1>4, <1>5 DEF Next

LEMMA MoneyStepKeeps == MoneyInv /\ [Next]_vars => MoneyInv'
<1> SUFFICES ASSUME MoneyInv, [Next]_vars PROVE MoneyInv'
  OBVIOUS
<1>1. Registry' /\ CreditsInv'
  BY NextLawful, RegistryStep, CreditsStep DEF MoneyInv
<1>2. WorldTypes'
  BY WorldStep DEF MoneyInv, LeasesTypeOK, WorldTypes
<1>3. claimant' \in [Domain -> Lease \cup {None}]
  BY <1>1 DEF Registry
<1>4. CASE UNCHANGED <<lease, ledgerVars>>
  <2>1. LedgerTypeOK' /\ lease' \in [Lease -> LeaseRow]
    BY <1>4 DEF ledgerVars, MoneyInv, LeasesTypeOK, LedgerTypeOK
  <2>2. RowsHold'
    <3>1. \A l \in Lease : Owed(l, lease'[l]) /\ Within(l, lease'[l])
      BY <1>4 DEF MoneyInv, RowsHold
    <3> QED BY <3>1 DEF RowsHold, Owed, Within, Earned, Maximum
  <2>3. Keys'
    BY <1>4 DEF ledgerVars, MoneyInv, Keys, Mark, FundKey, RefundKey
  <2>4. EscrowsHold'
    BY <1>4 DEF ledgerVars, MoneyInv, EscrowsHold, Escrow
  <2> QED BY <1>1, <1>2, <1>3, <2>1, <2>2, <2>3, <2>4 DEF MoneyInv, LeasesTypeOK, WorldTypes
<1>5. ASSUME NEW l \in Lease, NEW r \in LeaseRow, MoneyMove(l, r) PROVE MoneyInv'
  <2>1. RowsHold' /\ Keys' /\ EscrowsHold' /\ lease' \in [Lease -> LeaseRow]
    BY <1>5, RowsStep, KeysStep, EscrowsStep
  <2>2. LedgerTypeOK'
    <3>1. CASE Offered(l, r)
      BY <3>1, OfferedBook
    <3>2. CASE Accepted(l, r)
      BY <3>2 DEF Accepted, ledgerVars, MoneyInv, LeasesTypeOK, LedgerTypeOK
    <3>3. CASE Settled(l, r)
      BY <1>5, <3>3, SettledBook DEF MoneyMove
    <3> QED BY <1>5, <3>1, <3>2, <3>3 DEF MoneyMove
  <2> QED BY <1>1, <1>2, <1>3, <2>1, <2>2 DEF MoneyInv, LeasesTypeOK, WorldTypes
<1> QED BY <1>4, <1>5, NextMoney DEF MoneyStep

LEMMA MoneyInit == Init => MoneyInv
<1> SUFFICES ASSUME Init PROVE MoneyInv
  OBVIOUS
<1>1. Registry /\ CreditsInv
  BY RegistryInit, CreditsInit
<1>2. /\ lease = [l \in Lease |-> NewLease] /\ journal = {}
      /\ balance = [a \in Account |->
           IF \E u \in User : a = Available(u) THEN Funds[a[2]]
           ELSE IF a = LabIssuer THEN 0 - SumFunction(Funds) ELSE 0]
  BY DEF Init
<1>3. NewLease \in LeaseRow /\ NewLease.stage = "NEW" /\ NewLease.paid = 0
      /\ \A n \in Node : NewLease.part[n].paid = 0 /\ NewLease.part[n].credited = 0
  BY DEF NewLease, NewPart, LeaseRow, Part
<1>4. ASSUME NEW l \in Lease PROVE Owed(l, NewLease) /\ Within(l, NewLease)
  <2>1. Nodes(Backed[l]) \subseteq Node /\ IsFiniteSet(Nodes(Backed[l]))
    BY FiniteMembers
  <2>2. SumFunctionOnSet([n \in Node |-> NewLease.part[n].paid], Nodes(Backed[l])) = 0
    <3> DEFINE f == [n \in Node |-> NewLease.part[n].paid]
    <3>1. \A n \in Nodes(Backed[l]) : f[n] = 0
      BY <1>3, <2>1
    <3> HIDE DEF f
    <3> QED BY <2>1, <3>1, SumZero DEF f
  <2>3. \A n \in Nodes(Backed[l]) : Earned(l, n, 0) = 0 /\ Maximum(l, n) \in Nat
    BY EarnedIsNat, MaximumIsNat
  <2> HIDE DEF NewLease
  <2> QED BY <1>3, <2>1, <2>2, <2>3 DEF Owed, Within
<1>5. RowsHold
  BY <1>2, <1>4 DEF RowsHold
<1>6. Keys
  BY <1>2, <1>3 DEF Keys
<1>7. EscrowsHold
  <2> SUFFICES ASSUME NEW l \in Lease PROVE balance[Escrow(l)] = 0
    BY <1>2, <1>3 DEF EscrowsHold, Funded
  <2>1. Escrow(l) \in Account /\ Escrow(l) # LabIssuer /\ \A u \in User : Escrow(l) # Available(u)
    BY EscrowAccounts, Accounts DEF Escrow, LabIssuer
  <2> QED BY <1>2, <2>1
<1>8. LedgerTypeOK
  <2>1. \A u \in User : Available(u)[2] = u /\ Funds[u] \in Nat
    BY LeasesAssumption DEF Available
  <2>2. SumFunction(Funds) \in Int
    <3>1. IsFiniteSet(User) /\ DOMAIN Funds = User /\ \A u \in User : Funds[u] \in Int
      BY LeasesAssumption
    <3>2. SumFunctionOnSet(Funds, User) \in Int
      BY <3>1, SumType
    <3> QED BY <3>1, <3>2 DEF SumFunction
  <2>3. balance \in [Account -> Int]
    BY <1>2, <2>1, <2>2
  <2> QED BY <1>2, <2>1, <2>3 DEF LedgerTypeOK
<1>9. FleetTypeOK /\ RoutesTypeOK
  BY DEF Init, FleetInit, RoutesInit, FleetTypeOK, RoutesTypeOK, Phase, Desired
<1>10. lease \in [Lease -> LeaseRow]
  BY <1>2, <1>3
<1>11. now \in Nat /\ recent \subseteq Node /\ due \subseteq Lease
  BY DEF Init
<1> QED BY <1>1, <1>5, <1>6, <1>7, <1>8, <1>9, <1>10, <1>11 DEF MoneyInv, LeasesTypeOK, Registry

-----------------------------------------------------------------------------
(* The accounts of sponsors and of providers.                              *)

\* What each contract costs the sponsor u so far, and what each member of it has
\* brought in.
Outlay(u) ==
  [l \in Lease |-> IF Sponsor[l] = u /\ lease[l].stage # "NEW"
                   THEN (IF lease[l].stage \in Funded THEN Budget(l) ELSE lease[l].paid)
                   ELSE 0]
Pairs(u) == {ln \in Lease \X Node : Owner[ln[2]] = u}
Income == [ln \in Lease \X Node |-> lease[ln[1]].part[ln[2]].paid]

AccountOf(u) ==
  balance[Available(u)] = Funds[u] - SumFunctionOnSet(Outlay(u), Lease)
                            + SumFunctionOnSet(Income, Pairs(u))

LEMMA FinitePairs ==
  ASSUME NEW u
  PROVE  IsFiniteSet(Pairs(u)) /\ Pairs(u) \subseteq Lease \X Node
<1>1. IsFiniteSet(Lease \X Node)
  BY LeasesAssumption, FS_Product
<1> QED BY <1>1, FS_Subset DEF Pairs

LEMMA AccountTypes ==
  ASSUME lease \in [Lease -> LeaseRow], NEW u
  PROVE  /\ \A l \in Lease : Outlay(u)[l] \in Int
         /\ \A ln \in Pairs(u) : Income[ln] \in Int
         /\ SumFunctionOnSet(Outlay(u), Lease) \in Int
         /\ SumFunctionOnSet(Income, Pairs(u)) \in Int
<1>1. ASSUME NEW l \in Lease PROVE Outlay(u)[l] \in Int
  <2>1. lease[l].paid \in Nat /\ Budget(l) \in Nat
    BY RowFields, Prices
  <2> QED BY <2>1 DEF Outlay
<1>2. ASSUME NEW ln \in Lease \X Node PROVE Income[ln] \in Int
  <2>1. ln[1] \in Lease /\ ln[2] \in Node
    OBVIOUS
  <2>2. lease[ln[1]].part[ln[2]].paid \in Nat
    BY <2>1, RowFields
  <2> QED BY <2>2 DEF Income
<1>3. IsFiniteSet(Lease) /\ IsFiniteSet(Pairs(u)) /\ Pairs(u) \subseteq Lease \X Node
  BY LeasesAssumption, FinitePairs
<1> QED BY <1>1, <1>2, <1>3, SumType

LEMMA AccountTypesNext ==
  ASSUME NEW u
  PROVE  (lease \in [Lease -> LeaseRow])' =>
           /\ \A l \in Lease : Outlay(u)'[l] \in Int
           /\ \A ln \in Pairs(u) : Income'[ln] \in Int
<1> DEFINE P == /\ \A l \in Lease : Outlay(u)[l] \in Int
                /\ \A ln \in Pairs(u) : Income[ln] \in Int
<1>1. lease \in [Lease -> LeaseRow] => P
  BY AccountTypes
<1>2. (lease \in [Lease -> LeaseRow])' => P'
  <2> HIDE DEF P
  <2> QED BY <1>1, PTL
<1> QED BY <1>2

\* The invariant says of every account what the property says of it.
LEMMA AccountIs ==
  ASSUME lease \in [Lease -> LeaseRow], EscrowsHold
  PROVE  BooksMatchLeases <=> \A u \in User : AccountOf(u)
<1> SUFFICES ASSUME NEW u \in User
    PROVE  LET mine == {l \in Lease : Sponsor[l] = u /\ lease[l].stage # "NEW"}
           IN  /\ Sum(mine, LAMBDA l : IF lease[l].stage \in Funded
                                       THEN Budget(l) ELSE lease[l].paid)
                    = SumFunctionOnSet(Outlay(u), Lease)
               /\ Sum({ln \in Lease \X Node : Owner[ln[2]] = u},
                      LAMBDA ln : lease[ln[1]].part[ln[2]].paid)
                    = SumFunctionOnSet(Income, Pairs(u))
  BY DEF BooksMatchLeases, AccountOf, EscrowsHold
<1> DEFINE mine == {l \in Lease : Sponsor[l] = u /\ lease[l].stage # "NEW"}
           f == [l \in mine |-> IF lease[l].stage \in Funded
                                THEN Budget(l) ELSE lease[l].paid]
           g == [ln \in Pairs(u) |-> lease[ln[1]].part[ln[2]].paid]
<1>1. /\ \A l \in Lease : Outlay(u)[l] \in Int
      /\ IsFiniteSet(Lease) /\ IsFiniteSet(Pairs(u)) /\ Pairs(u) \subseteq Lease \X Node
  BY AccountTypes, LeasesAssumption, FinitePairs
<1>2. SumFunctionOnSet(f, mine) = SumFunctionOnSet(Outlay(u), Lease)
  <2>1. mine \in SUBSET Lease /\ \A l \in mine : f[l] = Outlay(u)[l]
    BY DEF Outlay
  <2>2. \A l \in Lease \ mine : Outlay(u)[l] = 0
    BY DEF Outlay
  <2> HIDE DEF f, mine
  <2> QED BY <1>1, <2>1, <2>2, SumPart
<1>3. SumFunctionOnSet(g, Pairs(u)) = SumFunctionOnSet(Income, Pairs(u))
  <2>1. \A ln \in Pairs(u) : g[ln] = Income[ln]
    BY <1>1 DEF Income
  <2> HIDE DEF g
  <2> QED BY <1>1, <2>1, SumSame
<1> QED BY <1>2, <1>3 DEF Sum, Pairs

\* What the members of user u gain by a new row is what u's income grows by.
LEMMA IncomeGrows ==
  ASSUME MoneyInv, NEW l \in Lease, NEW r \in LeaseRow, MoneyMove(l, r), NEW u \in User
  PROVE  /\ SumFunctionOnSet(Gain(l, r), MembersOf(l, u)) \in Int
         /\ SumFunctionOnSet(Income', Pairs(u)) =
              SumFunctionOnSet(Income, Pairs(u))
                + SumFunctionOnSet(Gain(l, r), MembersOf(l, u))
<1> DEFINE d == [ln \in Pairs(u) |-> IF ln[1] = l THEN Gain(l, r)[ln[2]] ELSE 0]
           p == [n \in MembersOf(l, u) |-> <<l, n>>]
           T == {p[n] : n \in MembersOf(l, u)}
           a == Income
<1>1. /\ lease'[l] = r /\ \A m \in Lease \ {l} : lease'[m] = lease[m]
      /\ Owed(l, r) /\ Owed(l, lease[l]) /\ lease[l] \in LeaseRow
      /\ lease \in [Lease -> LeaseRow] /\ lease' \in [Lease -> LeaseRow]
  BY WrittenRow, StandingOwed, RowsStep DEF MoneyMove, MoneyInv, LeasesTypeOK
<1>2. /\ \A n \in Node : Gain(l, r)[n] = r.part[n].paid - lease[l].part[n].paid
      /\ \A n \in Node : Gain(l, r)[n] \in Int
  BY <1>1, RowFields DEF Gain
<1>3. /\ IsFiniteSet(Pairs(u)) /\ Pairs(u) \subseteq Lease \X Node
      /\ IsFiniteSet(MembersOf(l, u)) /\ MembersOf(l, u) \subseteq Node
      /\ Nodes(Backed[l]) \subseteq Node
  <2>1. MembersOf(l, u) \subseteq Node /\ IsFiniteSet(Nodes(Backed[l]))
        /\ MembersOf(l, u) \subseteq Nodes(Backed[l])
    BY FiniteMembers DEF MembersOf
  <2> QED BY <2>1, FinitePairs, FS_Subset, FiniteMembers
<1>4. \A ln \in Pairs(u) : a[ln] \in Int /\ a'[ln] \in Int
  BY <1>1, AccountTypes, AccountTypesNext
<1>5. \A ln \in Pairs(u) : d[ln] \in Int /\ a'[ln] = a[ln] + d[ln]
  <2> SUFFICES ASSUME NEW ln \in Pairs(u)
               PROVE  d[ln] \in Int /\ a'[ln] = a[ln] + d[ln]
    OBVIOUS
  <2>1. ln[1] \in Lease /\ ln[2] \in Node /\ ln \in Lease \X Node
    BY <1>3
  <2>2. a[ln] = lease[ln[1]].part[ln[2]].paid /\ a'[ln] = lease'[ln[1]].part[ln[2]].paid
        /\ a[ln] \in Int
    BY <1>4, <2>1 DEF Income
  <2>3. CASE ln[1] = l
    <3>1. d[ln] = r.part[ln[2]].paid - lease[l].part[ln[2]].paid
      BY <1>2, <2>1, <2>3
    <3>2. r.part[ln[2]].paid \in Nat /\ lease[l].part[ln[2]].paid \in Nat
      BY <1>1, <2>1, RowFields
    <3> HIDE DEF d, a
    <3> QED BY <1>1, <2>2, <2>3, <3>1, <3>2
  <2>4. CASE ln[1] # l
    <3>1. d[ln] = 0
      BY <2>4
    <3> HIDE DEF d, a
    <3> QED BY <1>1, <2>1, <2>2, <2>4, <3>1
  <2> QED BY <2>3, <2>4
<1>6. SumFunctionOnSet(a', Pairs(u)) =
        SumFunctionOnSet(a, Pairs(u)) + SumFunctionOnSet(d, Pairs(u))
  <2> HIDE DEF a, d
  <2> QED BY <1>3, <1>4, <1>5, SumAdds
<1>7. \A n \in MembersOf(l, u) : n \in Node /\ p[n] = <<l, n>> /\ p[n] \in Pairs(u)
  BY <1>3 DEF Pairs, MembersOf
<1>8. SumFunctionOnSet(d, T) = SumFunctionOnSet(d, Pairs(u))
  <2>1. T \in SUBSET Pairs(u)
    <3> HIDE DEF p
    <3> QED BY <1>7
  <2>2. ASSUME NEW ln \in Pairs(u) \ T PROVE d[ln] = 0
    <3>1. ln[1] \in Lease /\ ln[2] \in Node /\ Owner[ln[2]] = u /\ ln = <<ln[1], ln[2]>>
      BY <1>3 DEF Pairs
    <3>2. CASE ln[1] = l
      <4>1. ln[2] \notin Nodes(Backed[l])
        BY <3>1, <3>2 DEF MembersOf
      <4>2. r.part[ln[2]].paid = 0 /\ lease[l].part[ln[2]].paid = 0
        BY <1>1, <3>1, <4>1 DEF Owed
      <4> QED BY <1>2, <3>1, <3>2, <4>2
    <3>3. CASE ln[1] # l
      BY <3>3
    <3> QED BY <3>2, <3>3
  <2> HIDE DEF d, T
  <2> QED BY <1>3, <1>5, <2>1, <2>2, SumPart
<1>9. SumFunctionOnSet(d, T) = SumFunctionOnSet(Gain(l, r), MembersOf(l, u))
  <2>1. ASSUME NEW n \in MembersOf(l, u)
        PROVE  Gain(l, r)[n] \in Int /\ d[p[n]] = Gain(l, r)[n]
    BY <1>2, <1>7
  <2>2. \A x, y \in MembersOf(l, u) : p[x] = p[y] => x = y
    BY <1>7
  <2>3. T = {p[n] : n \in MembersOf(l, u)}
    OBVIOUS
  <2> DEFINE ms == MembersOf(l, u)
             f == Gain(l, r)
  <2>4. IsFiniteSet(ms) /\ T = {p[n] : n \in ms} /\ \A x, y \in ms : p[x] = p[y] => x = y
    BY <1>3, <2>2, <2>3
  <2>5. \A n \in ms : f[n] \in Int /\ d[p[n]] = f[n]
    BY <2>1
  <2> HIDE DEF d, p, T, ms, f
  <2>6. SumFunctionOnSet(d, T) = SumFunctionOnSet(f, ms)
    BY <2>4, <2>5, SumRenamed
  <2> QED BY <2>6 DEF ms, f
<1>10. SumFunctionOnSet(Gain(l, r), MembersOf(l, u)) \in Int
  BY <1>2, <1>3, SumType
<1> QED BY <1>6, <1>8, <1>9, <1>10

\* An offer takes the budget from the sponsor; a payment moves to the providers what
\* their nodes have earned; a refund returns the rest, and nobody else is touched.
LEMMA AccountStep ==
  ASSUME MoneyInv, NEW l \in Lease, NEW r \in LeaseRow, MoneyMove(l, r),
         NEW u \in User, AccountOf(u)
  PROVE  AccountOf(u)'
<1> DEFINE a == Outlay(u)
           gain == SumFunctionOnSet(Gain(l, r), MembersOf(l, u))
           book == balance[Available(u)]
           spent == SumFunctionOnSet(a, Lease)
           income == SumFunctionOnSet(Income, Pairs(u))
<1>1. /\ lease'[l] = r /\ \A m \in Lease \ {l} : lease'[m] = lease[m]
      /\ Owed(l, r) /\ Owed(l, lease[l]) /\ lease[l] \in LeaseRow
      /\ lease \in [Lease -> LeaseRow] /\ lease' \in [Lease -> LeaseRow]
  BY WrittenRow, StandingOwed, RowsStep DEF MoneyMove, MoneyInv, LeasesTypeOK
<1>2. /\ Budget(l) \in Nat /\ lease[l].paid \in Nat /\ r.paid \in Nat
      /\ Available(u) \in Account /\ IsFiniteSet(Lease) /\ Funds[u] \in Nat
  BY <1>1, Prices, RowFields, Accounts, LeasesAssumption
<1>3. /\ \A m \in Lease : a[m] \in Int /\ a'[m] \in Int
      /\ spent \in Int /\ income \in Int
  BY <1>1, AccountTypes, AccountTypesNext
<1>4. \A m \in Lease \ {l} : a'[m] = a[m]
  BY <1>1 DEF Outlay
<1>5. spent' = spent - a[l] + a'[l]
  <2> HIDE DEF a
  <2> QED BY <1>2, <1>3, <1>4, SumChange
<1>6. gain \in Int /\ income' = income + gain
  BY IncomeGrows DEF Pairs
<1>7. /\ a[l] = IF Sponsor[l] = u /\ lease[l].stage # "NEW"
                THEN (IF lease[l].stage \in Funded THEN Budget(l) ELSE lease[l].paid) ELSE 0
      /\ a'[l] = IF Sponsor[l] = u /\ r.stage # "NEW"
                 THEN (IF r.stage \in Funded THEN Budget(l) ELSE r.paid) ELSE 0
  BY <1>1 DEF Outlay
<1>8. book = Funds[u] - spent + income /\ book \in Int
  BY <1>2 DEF AccountOf, MoneyInv, LeasesTypeOK, LedgerTypeOK
<1>9. ASSUME SameMoney(l, r) PROVE gain = 0
  <2>1. MembersOf(l, u) \subseteq Node /\ IsFiniteSet(MembersOf(l, u))
    BY FiniteMembers, FS_Subset DEF MembersOf
  <2>2. ASSUME NEW n \in Node PROVE Gain(l, r)[n] = 0
    BY <1>1, <1>9, RowFields DEF SameMoney, Gain
  <2> QED BY <2>1, <2>2, SumZero
<1>10. book' = book + a[l] - a'[l] + gain
  <2> HIDE DEF gain, a
  <2>1. CASE Offered(l, r)
    <3>1. book' = book + (IF Sponsor[l] = u THEN 0 - Budget(l) ELSE 0)
      BY <1>2, <2>1, OfferedBook, OfferLinesAre DEF Available
    <3>2. /\ lease[l].stage = "NEW" /\ r.stage = "OFFERED" /\ gain = 0
          /\ r.stage \in Funded
      BY <1>9, <2>1 DEF Offered, Funded
    <3>3. a[l] = 0 /\ a'[l] = IF Sponsor[l] = u THEN Budget(l) ELSE 0
      BY <1>7, <3>2
    <3> HIDE DEF book
    <3> QED BY <1>2, <1>8, <3>1, <3>2, <3>3
  <2>2. CASE Accepted(l, r)
    <3>1. /\ balance' = balance /\ gain = 0 /\ r.paid = lease[l].paid
          /\ lease[l].stage \in Funded /\ r.stage \in Funded
          /\ lease[l].stage # "NEW" /\ r.stage # "NEW"
      BY <1>9, <2>2 DEF Accepted, ledgerVars, SameMoney, Funded
    <3>2. a[l] = a'[l] /\ a[l] \in Int
      BY <1>2, <1>7, <3>1
    <3>3. book' = book
      BY <3>1 DEF Available
    <3> HIDE DEF book
    <3> QED BY <1>8, <3>1, <3>2, <3>3
  <2>3. CASE Settled(l, r)
    <3>1. /\ lease[l].stage \in Funded /\ r.stage \in Active \cup Closed
          /\ lease[l].stage # "NEW" /\ r.stage # "NEW"
          /\ r.stage \in Funded <=> r.stage \notin Closed
      BY <2>3 DEF Settled, Funded, Active, Closed
    <3>2. book' = book + PaymentLines(l, r)[Available(u)] + Returned(l, r)[Available(u)]
      BY <1>1, <1>2, <2>3, SettledBook DEF Available
    <3>3. PaymentLines(l, r)[Available(u)] = gain
      BY <1>1, PaymentLinesAre DEF gain
    <3>4. Returned(l, r)[Available(u)] =
            IF Sponsor[l] = u /\ r.stage \in Closed THEN Budget(l) - r.paid ELSE 0
      BY <1>2, RefundLinesAre DEF Returned, NoLines
    <3>5. a[l] = (IF Sponsor[l] = u THEN Budget(l) ELSE 0)
          /\ a'[l] = (IF Sponsor[l] = u
                      THEN (IF r.stage \in Closed THEN r.paid ELSE Budget(l)) ELSE 0)
      BY <1>7, <3>1
    <3> HIDE DEF book
    <3>6. CASE Sponsor[l] = u /\ r.stage \in Closed
      BY <1>2, <1>6, <1>8, <3>2, <3>3, <3>4, <3>5, <3>6
    <3>7. CASE ~(Sponsor[l] = u /\ r.stage \in Closed)
      BY <1>2, <1>6, <1>8, <3>2, <3>3, <3>4, <3>5, <3>7
    <3> QED BY <3>6, <3>7
  <2> QED BY <2>1, <2>2, <2>3 DEF MoneyMove
<1>11. book' = Funds[u] - spent' + income'
  <2>1. a[l] \in Int /\ a'[l] \in Int
    BY <1>3
  <2> HIDE DEF a, gain, book, spent, income
  <2> QED BY <1>2, <1>3, <1>5, <1>6, <1>8, <1>10, <2>1
<1> QED BY <1>11 DEF AccountOf, Available, Pairs

LEMMA AccountInit ==
  ASSUME Init, NEW u \in User
  PROVE  AccountOf(u)
<1>1. lease = [l \in Lease |-> NewLease] /\ NewLease.stage = "NEW"
      /\ \A n \in Node : NewLease.part[n].paid = 0
  BY DEF Init, NewLease, NewPart
<1>2. \A l \in Lease : Outlay(u)[l] = 0
  BY <1>1 DEF Outlay
<1>3. IsFiniteSet(Lease) /\ IsFiniteSet(Pairs(u)) /\ Pairs(u) \subseteq Lease \X Node
      /\ Funds[u] \in Nat
  BY LeasesAssumption, FinitePairs
<1>4. \A ln \in Pairs(u) : Income[ln] = 0
  BY <1>1, <1>3 DEF Income
<1>5. SumFunctionOnSet(Outlay(u), Lease) = 0 /\ SumFunctionOnSet(Income, Pairs(u)) = 0
  BY <1>2, <1>3, <1>4, SumZero
<1>6. balance[Available(u)] = Funds[u]
  <2>1. Available(u) \in Account /\ Available(u)[2] = u
    BY Accounts DEF Account, Available
  <2> QED BY <2>1 DEF Init
<1> QED BY <1>3, <1>5, <1>6 DEF AccountOf

-----------------------------------------------------------------------------
(* The theorems.                                                           *)

LEMMA MoneyHolds == Spec => []MoneyInv
BY MoneyInit, MoneyStepKeeps, PTL DEF Spec

\* Of every contract at all times: no account and no escrow is below zero, the
\* book and the contracts tell one story, and nobody is credited for more than the
\* window or paid more than its share of the budget, whatever the clock does and
\* however often a reconciliation is retried.
THEOREM LeasesHold == Spec => []LeasesInv
<1> DEFINE B == \A u \in User : AccountOf(u)
<1>1. Init => B
  BY AccountInit
<1>2. ASSUME MoneyInv, B, [Next]_vars PROVE B'
  <2>1. CASE UNCHANGED <<lease, ledgerVars>>
    BY <1>2, <2>1 DEF AccountOf, Outlay, Income, Available, Pairs, ledgerVars
  <2>2. ASSUME NEW l \in Lease, NEW r \in LeaseRow, MoneyMove(l, r) PROVE B'
    <3> SUFFICES ASSUME NEW u \in User PROVE AccountOf(u)'
      OBVIOUS
    <3> QED BY <1>2, <2>2, AccountStep
  <2> QED BY <1>2, <2>1, <2>2, NextMoney DEF MoneyStep
<1>3. MoneyInv /\ B => LeasesInv
  <2> SUFFICES ASSUME MoneyInv, B PROVE LeasesInv
    OBVIOUS
  <2>1. LeasesTypeOK
    BY DEF MoneyInv
  <2>2. BooksMatchLeases
    BY AccountIs DEF MoneyInv, LeasesTypeOK
  <2>3. CreditInTime
    BY DEF MoneyInv, CreditsInv, CreditInTime, Timed, Ends
  <2>4. CreditWithinWindow
    BY <2>3 DEF CreditWithinWindow, MoneyInv, RowsHold, Within
  <2> QED BY <2>1, <2>2, <2>4 DEF LeasesInv
<1> HIDE DEF B
<1> QED BY <1>1, <1>2, <1>3, MoneyHolds, PTL DEF Spec

\* route-availability.ts cancel: a provider who leaves a route keeps what its nodes
\* have earned and earns nothing more, whatever happens to the route afterwards.
THEOREM LeaversKeepTheirEarnings == Spec => LeavingForfeitsOnlyTheFuture
<1>1. MoneyInv /\ [Next]_vars =>
        [\A l \in Lease, n \in Node :
           lease[l].part[n].withdrawn => lease'[l].part[n].paid = lease[l].part[n].paid]_vars
  <2> SUFFICES ASSUME MoneyInv, [Next]_vars, NEW m \in Lease, NEW n \in Node,
                      lease[m].part[n].withdrawn
               PROVE  lease'[m].part[n].paid = lease[m].part[n].paid
    OBVIOUS
  <2>1. CASE UNCHANGED <<lease, ledgerVars>>
    BY <2>1
  <2>2. ASSUME NEW l \in Lease, NEW r \in LeaseRow, MoneyMove(l, r)
        PROVE  lease'[m].part[n].paid = lease[m].part[n].paid
    <3>1. lease'[l] = r /\ \A k \in Lease \ {l} : lease'[k] = lease[k]
      BY <2>2, WrittenRow DEF MoneyMove
    <3>2. SameMoney(l, r) \/ Grown(l, r)
      BY <2>2 DEF MoneyMove, Offered, Accepted, Settled
    <3> QED BY <3>1, <3>2 DEF SameMoney, Grown
  <2> QED BY <2>1, <2>2, NextMoney DEF MoneyStep
<1> QED BY <1>1, MoneyHolds, PTL DEF Spec, LeavingForfeitsOnlyTheFuture

-----------------------------------------------------------------------------
(* A lease is a funded contract.                                           *)

\* What the mapping of Leases makes of the rows and of the book.
StageOf ==
  [l \in Lease |-> IF lease[l].stage = "NEW" THEN "NEW"
                   ELSE IF lease[l].stage \in Funded THEN "FUNDED" ELSE "CLOSED"]
HeldOf == [l \in Lease |-> balance[Escrow(l)]]
PaidOf == [l \in Lease |-> lease[l].paid]

LEMMA ContractInit == Init => Contract!Init
<1> SUFFICES ASSUME Init PROVE Contract!Init
  OBVIOUS
<1>1. MoneyInv
  BY MoneyInit
<1>2. lease = [l \in Lease |-> NewLease] /\ NewLease.stage = "NEW" /\ NewLease.paid = 0
  BY DEF Init, NewLease
<1>3. \A l \in Lease : balance[Escrow(l)] = 0
  BY <1>1, <1>2 DEF MoneyInv, EscrowsHold, Funded
<1> QED BY <1>2, <1>3 DEF Contract!Init

\* A step of the coordinator is an offer, a payment, a closing or nothing to the
\* contract: what a closing pays and what it returns are one step.
LEMMA ContractStep ==
  ASSUME MoneyInv, MoneyInv', [Next]_vars
  PROVE  [Contract!Next]_(Contract!contractVars)
<1>1. CASE UNCHANGED <<lease, ledgerVars>>
  BY <1>1 DEF ledgerVars, Contract!contractVars, Escrow
<1>2. ASSUME NEW l \in Lease, NEW r \in LeaseRow, MoneyMove(l, r)
      PROVE  [Contract!Next]_(Contract!contractVars)
  <2>1. /\ lease'[l] = r /\ \A m \in Lease \ {l} : lease'[m] = lease[m]
        /\ Owed(l, r) /\ Owed(l, lease[l]) /\ lease[l] \in LeaseRow
    BY <1>2, WrittenRow, StandingOwed DEF MoneyMove
  <2>2. /\ \A m \in Lease : balance[Escrow(m)] =
             IF lease[m].stage \in Funded THEN Budget(m) - lease[m].paid ELSE 0
        /\ \A m \in Lease : balance'[Escrow(m)] =
             IF lease'[m].stage \in Funded THEN Budget(m) - lease'[m].paid ELSE 0
    BY DEF MoneyInv, EscrowsHold, Escrow
  <2>3. Budget(l) \in Nat /\ lease[l].paid \in Nat /\ r.paid \in Nat
    BY <2>1, Prices, RowFields
  <2> DEFINE s == StageOf
             h == HeldOf
             p == PaidOf
  <2>4. /\ s' = [s EXCEPT ![l] = s'[l]] /\ h' = [h EXCEPT ![l] = h'[l]]
        /\ p' = [p EXCEPT ![l] = p'[l]]
        /\ s = [s EXCEPT ![l] = s[l]] /\ h = [h EXCEPT ![l] = h[l]]
        /\ p = [p EXCEPT ![l] = p[l]]
        /\ DOMAIN s = Lease /\ DOMAIN h = Lease /\ DOMAIN p = Lease
    <3>1. \A m \in Lease \ {l} : s'[m] = s[m] /\ h'[m] = h[m] /\ p'[m] = p[m]
      BY <2>1, <2>2 DEF StageOf, HeldOf, PaidOf
    <3>2. /\ s' = [m \in Lease |-> s'[m]] /\ s = [m \in Lease |-> s[m]]
          /\ h' = [m \in Lease |-> h'[m]] /\ h = [m \in Lease |-> h[m]]
          /\ p' = [m \in Lease |-> p'[m]] /\ p = [m \in Lease |-> p[m]]
      BY DEF StageOf, HeldOf, PaidOf
    <3> HIDE DEF s, h, p
    <3> QED BY <3>1, <3>2
  <2>5. /\ h[l] = (IF lease[l].stage \in Funded THEN Budget(l) - lease[l].paid ELSE 0)
        /\ h'[l] = (IF r.stage \in Funded THEN Budget(l) - r.paid ELSE 0)
        /\ p[l] = lease[l].paid /\ p'[l] = r.paid
        /\ s[l] = (IF lease[l].stage = "NEW" THEN "NEW"
                   ELSE IF lease[l].stage \in Funded THEN "FUNDED" ELSE "CLOSED")
        /\ s'[l] = (IF r.stage = "NEW" THEN "NEW"
                    ELSE IF r.stage \in Funded THEN "FUNDED" ELSE "CLOSED")
    BY <2>1, <2>2 DEF StageOf, HeldOf, PaidOf
  <2>6. /\ Contract!Offer(l) <=>
             /\ s[l] = "NEW" /\ s' = [s EXCEPT ![l] = "FUNDED"]
             /\ h' = [h EXCEPT ![l] = Budget(l)] /\ p' = p
        /\ \A amount : Contract!Pay(l, amount) <=>
             /\ s[l] = "FUNDED" /\ h' = [h EXCEPT ![l] = h[l] - amount]
             /\ p' = [p EXCEPT ![l] = p[l] + amount] /\ s' = s
        /\ \A amount : Contract!Close(l, amount) <=>
             /\ s[l] = "FUNDED" /\ s' = [s EXCEPT ![l] = "CLOSED"]
             /\ h' = [h EXCEPT ![l] = 0] /\ p' = [p EXCEPT ![l] = p[l] + amount]
    BY DEF Contract!Offer, Contract!Pay, Contract!Close, StageOf, HeldOf, PaidOf
  <2>10. ASSUME NEW amount \in 0..h[l], Contract!Pay(l, amount) \/ Contract!Close(l, amount)
         PROVE  Contract!Next
    BY <2>10 DEF Contract!Next, HeldOf
  <2>7. CASE Offered(l, r)
    <3>1. /\ lease[l].stage = "NEW" /\ r.stage = "OFFERED" /\ r.stage \in Funded
          /\ r.paid = 0 /\ lease[l].paid = 0
      BY <2>1, <2>7 DEF Offered, SameMoney, Funded, Owed
    <3>2. s[l] = "NEW" /\ s'[l] = "FUNDED" /\ h'[l] = Budget(l) /\ p'[l] = p[l]
      BY <2>3, <2>5, <3>1
    <3> HIDE DEF s, h, p
    <3>3. p' = p
      BY <2>4, <3>2
    <3>4. Contract!Offer(l)
      BY <2>4, <2>6, <3>2, <3>3
    <3> QED BY <3>4 DEF Contract!Next
  <2>8. CASE Accepted(l, r)
    <3>1. lease[l].stage \in Funded /\ r.stage \in Funded /\ r.paid = lease[l].paid
          /\ lease[l].stage # "NEW" /\ r.stage # "NEW"
      BY <2>8 DEF Accepted, SameMoney, Funded
    <3>2. s'[l] = s[l] /\ h'[l] = h[l] /\ p'[l] = p[l]
      BY <2>5, <3>1
    <3> HIDE DEF s, h, p
    <3>3. s' = s /\ h' = h /\ p' = p
      BY <2>4, <3>2
    <3> QED BY <3>3 DEF s, h, p, Contract!contractVars, StageOf, HeldOf, PaidOf
  <2>9. CASE Settled(l, r)
    <3>1. lease[l].stage \in Funded /\ lease[l].stage # "NEW" /\ r.stage # "NEW"
          /\ r.stage \in Funded \cup Closed
      BY <2>9 DEF Settled, Funded, Active, Closed
    <3>2. lease[l].paid <= r.paid /\ r.paid <= Budget(l)
      BY <1>2, <2>9, SettledBook DEF MoneyMove
    <3>3. r.paid - lease[l].paid \in 0..h[l]
      BY <2>3, <2>5, <3>1, <3>2
    <3>4. PICK paid \in 0..h[l] : paid = r.paid - lease[l].paid
      BY <3>3
    <3>5. s[l] = "FUNDED" /\ p'[l] = p[l] + paid
      BY <2>3, <2>5, <3>1, <3>2, <3>4
    <3>6. CASE r.stage \in Funded
      <4>1. h'[l] = h[l] - paid /\ s'[l] = s[l]
        BY <2>3, <2>5, <3>1, <3>4, <3>6
      <4> HIDE DEF s, h, p
      <4>2. s' = s
        BY <2>4, <4>1
      <4>3. h' = [h EXCEPT ![l] = h[l] - paid]
        BY <2>4, <4>1
      <4>4. p' = [p EXCEPT ![l] = p[l] + paid]
        BY <2>4, <3>5
      <4>5. Contract!Pay(l, paid)
        BY <2>6, <3>5, <4>2, <4>3, <4>4
      <4> QED BY <2>10, <4>5
    <3>7. CASE r.stage \in Closed
      <4>1. h'[l] = 0 /\ s'[l] = "CLOSED"
        BY <2>5, <3>1, <3>7 DEF Funded, Closed
      <4> HIDE DEF s, h, p
      <4>2. h' = [h EXCEPT ![l] = 0]
        BY <2>4, <4>1
      <4>3. p' = [p EXCEPT ![l] = p[l] + paid]
        BY <2>4, <3>5
      <4>4. s' = [s EXCEPT ![l] = "CLOSED"]
        BY <2>4, <4>1
      <4>5. Contract!Close(l, paid)
        BY <2>6, <3>5, <4>2, <4>3, <4>4
      <4> QED BY <2>10, <4>5
    <3> QED BY <3>1, <3>6, <3>7
  <2> QED BY <1>2, <2>7, <2>8, <2>9 DEF MoneyMove
<1> QED BY <1>1, <1>2, NextMoney DEF MoneyStep

\* Leases of nodes and of routes implement FundedContract: the price is set aside
\* whole, paid out in parts while the contract is open, and nothing is left behind.
THEOREM LeasesImplementContracts == Spec => LeasesAreContracts
<1>1. Spec => []MoneyInv
  BY MoneyHolds
<1>2. Init => Contract!Init
  BY ContractInit
<1>3. MoneyInv /\ MoneyInv' /\ [Next]_vars => [Contract!Next]_(Contract!contractVars)
  BY ContractStep
<1> QED BY <1>1, <1>2, <1>3, PTL DEF Spec, LeasesAreContracts, Contract!Spec

-----------------------------------------------------------------------------
(* A domain is paid for once at a time.                                    *)

\* On a clock that is not set back: what is sampled has passed, nothing is sampled
\* before a window opens, of two leases that share a domain one was sampled for the
\* last time before the other began, and the one that is open began last.
Intervals ==
  /\ \A l \in Lease : lease[l].started <= lease[l].sampled /\ lease[l].sampled <= now
  /\ \A l \in Lease :
       lease[l].stage \in {"NEW", "OFFERED"} => lease[l].started = 0 /\ lease[l].sampled = 0
  /\ \A l, m \in Lease :
       l # m /\ Domains(Backed[l]) \cap Domains(Backed[m]) # {} =>
         /\ \/ lease[l].sampled <= lease[m].started
            \/ lease[m].sampled <= lease[l].started
         /\ lease[l].stage \in Active => lease[m].sampled <= lease[l].started

\* What a handler makes of the times in a row: it leaves them alone, samples an open
\* window until now, or opens a window over domains that nobody claims.
Standing(l, r) ==
  /\ r.started = lease[l].started /\ r.sampled = lease[l].sampled
  /\ r.stage \in Active => lease[l].stage \in Active
  /\ r.stage \in {"NEW", "OFFERED"} => lease[l].stage \in {"NEW", "OFFERED"}
Sampled(l, r) ==
  /\ lease[l].stage \in Active /\ r.stage \in Active \cup Closed
  /\ r.started = lease[l].started
  /\ lease[l].sampled <= r.sampled /\ (lease[l].sampled <= now => r.sampled <= now)
Opened(l, r) ==
  /\ Unclaimed(l)
  /\ r.stage = "ACTIVE" /\ r.started = now /\ r.sampled = now

Passing(l, r) ==
  /\ lease' = [lease EXCEPT ![l] = r] /\ now' = now
  /\ Standing(l, r) \/ Sampled(l, r) \/ Opened(l, r)

PassingStep ==
  \/ UNCHANGED lease /\ now' \in Nat /\ (~SetBack => now <= now')
  \/ \E l \in Lease : \E r : Passing(l, r)

LEMMA SampleTimes ==
  ASSUME MoneyInv, NEW l \in Lease, lease[l].stage \in Active
  PROVE  Sampled(l, Sample(l)) /\ Sample(l) \in LeaseRow
<1>1. Sample(l).stage \in Active /\ Sample(l) \in LeaseRow
  BY SampleOwed DEF Owed
<1>2. Sample(l).started = lease[l].started /\ Sample(l).sampled = SampledUntil(l)
  BY StandingOwed DEF Sample, LeaseRow
<1>3. /\ lease[l].sampled <= SampledUntil(l)
      /\ lease[l].sampled <= now => SampledUntil(l) <= now
  BY SampledForward DEF MoneyInv
<1> QED BY <1>1, <1>2, <1>3 DEF Sampled

\* Closing a row and leaving it touch no time.
LEMMA CloseTimes ==
  ASSUME NEW l \in Lease, NEW r \in LeaseRow, NEW stage \in Closed, close(l, r, stage),
         lease[l].stage \in Active => Sampled(l, r) \/ Standing(l, r),
         lease[l].stage \notin Active => Standing(l, r), now' = now
  PROVE  PassingStep
<1> DEFINE s == [r EXCEPT !.stage = stage, !.ready = FALSE]
<1>1. s \in LeaseRow /\ s.stage = stage /\ s.started = r.started /\ s.sampled = r.sampled
  BY DEF LeaseRow
<1>2. lease' = [lease EXCEPT ![l] = s]
  BY DEF close, Write
<1>3. stage \notin Active /\ stage \notin {"NEW", "OFFERED"}
  BY DEF Closed, Active
<1> HIDE DEF s
<1>4. Standing(l, s) \/ Sampled(l, s)
  BY <1>1, <1>3 DEF Standing, Sampled
<1> QED BY <1>1, <1>2, <1>4 DEF Passing, PassingStep

LEMMA AdvanceTimes ==
  ASSUME NEW l \in Lease, NEW r \in LeaseRow, advance(l, r), Sampled(l, r) \/ Standing(l, r),
         now' = now
  PROVE  PassingStep
BY DEF advance, Write, Passing, PassingStep

LEMMA LeftTimes ==
  ASSUME NEW l \in Lease, NEW u, NEW r \in LeaseRow, lease[l].stage \in Active,
         Sampled(l, r) \/ Standing(l, r), Left(l, u, r) \in LeaseRow
  PROVE  Sampled(l, Left(l, u, r)) \/ Standing(l, Left(l, u, r))
<1>1. /\ Left(l, u, r).stage = "DRAINING" /\ Left(l, u, r).started = r.started
      /\ Left(l, u, r).sampled = r.sampled
  BY DEF Left, LeaseRow
<1>2. "DRAINING" \in Active /\ "DRAINING" \notin {"NEW", "OFFERED"}
  BY DEF Active
<1> QED BY <1>1, <1>2 DEF Sampled, Standing

LEMMA HandlerTimes ==
  ASSUME MoneyInv, NEW l \in Lease,
         \/ offer(l) \/ reconcile(l) \/ cancelNode(l)
         \/ \E u \in User : accept(l, u) \/ cancelRoute(l, u)
  PROVE  PassingStep
<1> DEFINE r == lease[l]
<1>1. r \in LeaseRow /\ Standing(l, r)
  BY StandingOwed DEF Standing
<1>2. now' = now
  BY DEF offer, reconcile, cancelNode, accept, AcceptsTerms, cancelRoute, clockVars
<1>3. "OFFERED" \notin Active /\ "ACTIVE" \in Active
  BY DEF Active
<1>4. CASE offer(l)
  <2> DEFINE s == [r EXCEPT !.stage = "OFFERED"]
  <2>1. lease' = [lease EXCEPT ![l] = s] /\ r.stage = "NEW"
    BY <1>4 DEF offer, Write
  <2>2. s \in LeaseRow /\ s.stage = "OFFERED" /\ s.started = r.started
        /\ s.sampled = r.sampled
    BY <1>1 DEF LeaseRow, Funded
  <2> HIDE DEF s
  <2>3. Standing(l, s)
    BY <1>3, <2>1, <2>2 DEF Standing
  <2> QED BY <1>2, <2>1, <2>2, <2>3 DEF Passing, PassingStep
<1>5. CASE reconcile(l)
  <2>1. CASE r.stage = "OFFERED" /\ close(l, r, "EXPIRED")
    BY <1>1, <1>2, <1>3, <2>1, CloseTimes DEF Closed
  <2>2. CASE r.stage \in Active /\ close(l, Sample(l), "COMPLETED")
    BY <1>2, <2>2, SampleTimes, CloseTimes DEF Closed
  <2>3. CASE r.stage \in Active /\ advance(l, Sample(l))
    BY <1>2, <2>3, SampleTimes, AdvanceTimes
  <2> QED BY <1>5, <2>1, <2>2, <2>3 DEF reconcile
<1>6. CASE cancelNode(l)
  <2>1. CASE r.stage = "OFFERED" /\ close(l, r, "CANCELLED")
    BY <1>1, <1>2, <1>3, <2>1, CloseTimes DEF Closed
  <2>2. CASE r.stage = "ACTIVE" /\ close(l, Sample(l), "CANCELLED")
    BY <1>2, <1>3, <2>2, SampleTimes, CloseTimes DEF Closed
  <2> QED BY <1>6, <2>1, <2>2 DEF cancelNode
<1>7. ASSUME NEW u \in User, accept(l, u) PROVE PassingStep
  <2> DEFINE accepted == r.accepted \cup {u}
  <2>1. r.stage = "OFFERED" /\ accepted \in SUBSET User
    BY <1>1, <1>7 DEF accept, AcceptsTerms, LeaseRow
  <2>2. CASE accepted # Providers(Backed[l])
    <3> DEFINE s == [r EXCEPT !.accepted = accepted]
    <3>1. lease' = [lease EXCEPT ![l] = s]
      BY <1>7, <2>2 DEF accept, AcceptsTerms, Write
    <3>2. s \in LeaseRow /\ s.stage = r.stage /\ s.started = r.started
          /\ s.sampled = r.sampled
      BY <1>1, <2>1 DEF LeaseRow
    <3> HIDE DEF s
    <3>3. Standing(l, s)
      BY <3>2 DEF Standing
    <3> QED BY <1>2, <3>1, <3>2, <3>3 DEF Passing, PassingStep
  <2>3. CASE accepted = Providers(Backed[l])
    <3> DEFINE s == Activated(l, accepted)
    <3>1. lease' = [lease EXCEPT ![l] = s] /\ Unclaimed(l)
      BY <1>7, <2>3 DEF accept, AcceptsTerms, Write
    <3>2. s.stage = "ACTIVE" /\ s.started = now /\ s.sampled = now
      BY <1>1 DEF Activated, LeaseRow
    <3> HIDE DEF s
    <3>3. Opened(l, s)
      BY <3>1, <3>2 DEF Opened
    <3> QED BY <1>2, <3>1, <3>3 DEF Passing, PassingStep
  <2> QED BY <2>2, <2>3
<1>8. ASSUME NEW u \in User, cancelRoute(l, u) PROVE PassingStep
  <2> DEFINE s == IF now >= lease[l].sampled THEN Sample(l) ELSE lease[l]
  <2>1. CASE r.stage = "OFFERED" /\ close(l, r, "CANCELLED")
    BY <1>1, <1>2, <1>3, <2>1, CloseTimes DEF Closed
  <2>2. ASSUME r.stage \in Active
        PROVE  /\ s \in LeaseRow /\ (Sampled(l, s) \/ Standing(l, s))
               /\ Owed(l, s) /\ Grown(l, s)
    BY <1>1, <2>2, SampleTimes, SampleOwed, StandingOwed
  <2> HIDE DEF s
  <2>3. CASE r.stage \in Active /\ close(l, s, "COMPLETED")
    BY <1>2, <2>2, <2>3, CloseTimes DEF Closed
  <2>4. CASE r.stage \in Active /\ LeaveRoute(l, u, s)
    <3>1. Left(l, u, s) \in LeaseRow
      BY <2>2, <2>4, LeftOwed DEF Owed
    <3>2. Sampled(l, Left(l, u, s)) \/ Standing(l, Left(l, u, s))
      BY <2>2, <2>4, <3>1, LeftTimes
    <3> QED BY <1>2, <2>4, <3>1, <3>2, AdvanceTimes DEF LeaveRoute
  <2> QED BY <1>8, <2>1, <2>3, <2>4 DEF cancelRoute, s
<1> QED BY <1>4, <1>5, <1>6, <1>7, <1>8

LEMMA NextTimes ==
  ASSUME MoneyInv, [Next]_vars
  PROVE  PassingStep
<1>1. now \in Nat
  BY DEF MoneyInv, LeasesTypeOK
<1>2. CASE FleetStep \/ RoutesMove \/ Tick \/ SetClockBack
  BY <1>1, <1>2 DEF FleetStep, RoutesMove, Tick, SetClockBack, clockVars, PassingStep
<1>3. CASE \E n \in Wavering : Lag(n)
  BY <1>1, <1>3 DEF Lag, PassingStep
<1>4. ASSUME NEW l \in Lease, Lapse(l) PROVE PassingStep
  BY <1>1, <1>4 DEF Lapse, PassingStep
<1>5. CASE UNCHANGED vars
  BY <1>1, <1>5 DEF vars, PassingStep
<1> QED BY <1>2, <1>3, <1>4, <1>5, HandlerTimes DEF Next

LEMMA IntervalsStep ==
  ASSUME ~SetBack, MoneyInv, MoneyInv', Intervals, PassingStep
  PROVE  Intervals'
<1>1. /\ now \in Nat
      /\ \A l \in Lease : lease[l].started \in Nat /\ lease[l].sampled \in Nat
      /\ \A l \in Lease : lease'[l].started \in Nat /\ lease'[l].sampled \in Nat
  BY DEF MoneyInv, LeasesTypeOK, LeaseRow
<1>2. CASE UNCHANGED lease /\ now' \in Nat /\ now <= now'
  BY <1>1, <1>2 DEF Intervals
<1>3. ASSUME NEW l \in Lease, NEW r, Passing(l, r) PROVE Intervals'
  <2>1. /\ lease'[l] = r /\ \A m \in Lease \ {l} : lease'[m] = lease[m]
        /\ now' = now /\ r.started \in Nat /\ r.sampled \in Nat
    BY <1>1, <1>3, WrittenRow DEF Passing
  <2>2. /\ r.started <= r.sampled /\ r.sampled <= now
        /\ r.stage \in {"NEW", "OFFERED"} => r.started = 0 /\ r.sampled = 0
    BY <1>1, <1>3, <2>1
       DEF Passing, Standing, Sampled, Opened, Intervals, Active, Closed
  <2>3. ASSUME NEW m \in Lease, m # l, Domains(Backed[l]) \cap Domains(Backed[m]) # {}
        PROVE  /\ r.sampled <= lease[m].started \/ lease[m].sampled <= r.started
               /\ r.stage \in Active => lease[m].sampled <= r.started
               /\ lease[m].stage \in Active => r.sampled <= lease[m].started
    <3>1. PICK d : d \in Domains(Backed[l]) /\ d \in Domains(Backed[m])
      BY <2>3
    <3>2. d \in Domain
      BY <3>1, MembersAreNodes, OffersAssumption DEF Domains
    <3>3. /\ lease[l].sampled <= lease[m].started \/ lease[m].sampled <= lease[l].started
          /\ lease[l].stage \in Active => lease[m].sampled <= lease[l].started
          /\ lease[m].stage \in Active => lease[l].sampled <= lease[m].started
          /\ lease[m].sampled <= now
      BY <2>3 DEF Intervals
    <3>4. lease[m].stage \in Active => lease[l].stage \notin Active /\ ~Unclaimed(l)
      <4>1. \A k \in {l, m} : claimant[d] = k <=> lease[k].stage \in Active
        BY <3>1, <3>2 DEF MoneyInv, Registry, ClaimsMatchLeases
      <4>2. m # None
        BY LeasesAssumption
      <4> QED BY <2>3, <3>1, <4>1, <4>2 DEF Unclaimed
    <3>5. CASE Standing(l, r)
      BY <3>3, <3>5 DEF Standing
    <3>6. CASE Sampled(l, r)
      BY <3>3, <3>4, <3>6 DEF Sampled
    <3>7. CASE Opened(l, r)
      BY <3>3, <3>4, <3>7 DEF Opened
    <3> QED BY <1>3, <3>5, <3>6, <3>7 DEF Passing
  <2>4. \A k \in Lease : /\ lease'[k].started <= lease'[k].sampled /\ lease'[k].sampled <= now'
                         /\ lease'[k].stage \in {"NEW", "OFFERED"} =>
                              lease'[k].started = 0 /\ lease'[k].sampled = 0
    BY <2>1, <2>2 DEF Intervals
  <2>5. ASSUME NEW k \in Lease, NEW m \in Lease,
               k # m, Domains(Backed[k]) \cap Domains(Backed[m]) # {}
        PROVE  /\ \/ lease'[k].sampled <= lease'[m].started
                  \/ lease'[m].sampled <= lease'[k].started
               /\ lease'[k].stage \in Active => lease'[m].sampled <= lease'[k].started
    <3>1. CASE k = l
      BY <2>1, <2>3, <2>5, <3>1
    <3>2. CASE m = l
      BY <2>1, <2>3, <2>5, <3>2
    <3>3. CASE k # l /\ m # l
      BY <2>1, <2>5, <3>3 DEF Intervals
    <3> QED BY <3>1, <3>2, <3>3
  <2> QED BY <2>4, <2>5 DEF Intervals
<1> QED BY <1>2, <1>3 DEF PassingStep

LEMMA IntervalsInit == Init => Intervals
BY DEF Init, Intervals, NewLease, Active

\* Migration 003, "a declared physical domain cannot earn two overlapping readiness
\* payments": on a clock that is not set back, for leases of either kind.
THEOREM NoOverlappingPayment == Spec => []DomainPaidOnce
<1>1. MoneyInv /\ MoneyInv' /\ (~SetBack => Intervals) /\ [Next]_vars => (~SetBack => Intervals)'
  BY NextTimes, IntervalsStep
<1>2. (~SetBack => Intervals) => DomainPaidOnce
  BY DEF Intervals, DomainPaidOnce
<1> QED BY IntervalsInit, MoneyHolds, <1>1, <1>2, PTL DEF Spec
=============================================================================
