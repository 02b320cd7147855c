------------------------------- MODULE Leases -------------------------------
(***************************************************************************)
(* Funded availability contracts: leases of one node (availability.ts) and *)
(* of a complete route (route-availability.ts).  A sponsor moves the whole *)
(* budget to an escrow; while the contract is active the periodic          *)
(* reconciliation pays each member for the intervals between two ready     *)
(* observations, and what is left returns when the contract closes.        *)
(*                                                                         *)
(* Both kinds claim physical domains in one registry, which the triggers   *)
(* of migration 006 maintain on every change of state.  Handlers are       *)
(* SERIALIZABLE transactions and therefore atomic.  A lease is named by    *)
(* its sponsor and idempotency key.                                        *)
(*                                                                         *)
(* The clock counts ticks (milliseconds in the code) and may be set back.  *)
(***************************************************************************)
EXTENDS Routes, Payout, FiniteSetsExt

CONSTANTS
  Lease,       \* contracts, by sponsor and idempotency key
  Sponsor,     \* the account that funds each lease
  Backed,      \* the offer each lease is for
  Duration,    \* the length of each window, in seconds
  Rate,        \* micro-units per second of each lease
  Second,      \* ticks per second (1000 in the code)
  MaxGap,      \* ticks between observations that still pay (6 s in the code)
  MaxOpen,     \* open leases per sponsor (4 in the code)
  Funds,       \* the opening available balance of each account
  MaxClock,    \* bound of the model: the last tick
  SetBack,     \* bound of the model: whether the clock may be set back
  Wavering,    \* bound of the model: the nodes whose records change
  Amended      \* bound of the model: whether routes and models change

Window(l) == Duration[l] * Second
Budget(l) == Rate[l] * Duration[l]
None == "none"

ASSUME LeasesAssumption ==
  /\ Fund = Lease /\ None \notin Lease
  /\ IsFiniteSet(Lease) /\ IsFiniteSet(Node) /\ IsFiniteSet(User)
  /\ Sponsor \in [Lease -> User]
  /\ Backed \in [Lease -> Offer]
  /\ Duration \in [Lease -> Nat \ {0}] /\ Rate \in [Lease -> Nat \ {0}]
  /\ Second \in Nat \ {0} /\ MaxGap \in Nat /\ MaxOpen \in Nat
  /\ Funds \in [User -> Nat]
  /\ MaxClock \in Nat /\ SetBack \in BOOLEAN
  /\ Wavering \subseteq Node /\ Amended \in BOOLEAN

VARIABLES
  now,         \* the wall clock of the coordinator
  recent,      \* nodes seen within the last 5 seconds
  due,         \* leases whose offer (5 minutes) has expired
  lease,       \* availability_leases and route_availability_leases
  claimant     \* availability_domain_claims

clockVars == <<now, recent, due>>
offerVars == <<fleetVars, routesVars>>
vars == <<balance, journal, epoch, phase, desired, fresh, preview, routeState, consent,
          now, recent, due, lease, claimant>>

Funded == {"OFFERED", "ACTIVE", "DRAINING"}
\* A bug: a draining contract is no longer reconciled.
Active_NotDraining == {"ACTIVE"}
Active == {"ACTIVE", "DRAINING"}
Closed == {"COMPLETED", "CANCELLED", "EXPIRED"}

\* One member of a lease; a node lease has only one.
Part == [credited : Nat, paid : Nat, ready : BOOLEAN, epoch : Nat, withdrawn : BOOLEAN]
NewPart == [credited |-> 0, paid |-> 0, ready |-> FALSE, epoch |-> 0, withdrawn |-> FALSE]

LeaseRow == [stage : {"NEW"} \cup Funded \cup Closed,
             accepted : SUBSET User,    \* providers who accepted these terms
             started : Nat,
             sampled : Nat,             \* sample_ms
             ready : BOOLEAN,           \* sample_ready of the whole route
             joint : Nat,               \* joint_ready_ms
             paid : Nat,                \* paid_microtu, over all members
             part : [Node -> Part]]
NewLease == [stage |-> "NEW", accepted |-> {}, started |-> 0, sampled |-> 0,
             ready |-> FALSE, joint |-> 0, paid |-> 0,
             part |-> [n \in Node |-> NewPart]]

FundKey(l) == <<"fund", l>>
RefundKey(l) == <<"refund", l>>
\* A node lease's payments are keyed by the time credited, a route's by the sum paid.
PayKey(l, r) ==
  <<"pay", l, IF IsRoute(Backed[l]) THEN r.paid ELSE r.part[Root(Backed[l])].credited>>

LeasesTypeOK ==
  /\ LedgerTypeOK /\ FleetTypeOK /\ RoutesTypeOK
  /\ now \in Nat /\ recent \subseteq Node /\ due \subseteq Lease
  /\ lease \in [Lease -> LeaseRow]
  /\ claimant \in [Domain -> Lease \cup {None}]

Init ==
  /\ balance = [a \in Account |->
       IF \E u \in User : a = Available(u) THEN Funds[a[2]]
       ELSE IF a = LabIssuer THEN 0 - SumFunction(Funds) ELSE 0]
  /\ journal = {}
  /\ FleetInit /\ RoutesInit
  /\ now = 0 /\ recent = {} /\ due = {}
  /\ lease = [l \in Lease |-> NewLease]
  /\ claimant = [d \in Domain |-> None]

-----------------------------------------------------------------------------
(* The world around the leases.                                            *)

\* A heartbeat or a resumed agent has just been seen; silence takes five
\* seconds before it takes fifteen.
FleetStep ==
  /\ \E n \in Wavering :
       \/ /\ \/ \E anew \in BOOLEAN : Resume(n, anew)
             \/ \E ready \in BOOLEAN : Heartbeat(n, ready)
          /\ recent' = recent \cup {n}
       \/ n \notin recent /\ GoSilent(n) /\ UNCHANGED recent
       \/ (\E order \in Orders : NodeState(n, order)) /\ UNCHANGED recent
  /\ UNCHANGED <<ledgerVars, routesVars, now, due, lease, claimant>>

\* Five seconds without a heartbeat.
Lag(n) ==
  /\ n \in recent
  /\ recent' = recent \ {n}
  /\ UNCHANGED <<ledgerVars, offerVars, now, due, lease, claimant>>

\* Five minutes without every acceptance.
Lapse(l) ==
  /\ lease[l].stage = "OFFERED"
  /\ l \notin due
  /\ due' = due \cup {l}
  /\ UNCHANGED <<ledgerVars, offerVars, now, recent, lease, claimant>>

Tick ==
  /\ now < MaxClock
  /\ now' = now + 1
  /\ UNCHANGED <<ledgerVars, offerVars, recent, due, lease, claimant>>

SetClockBack ==
  /\ SetBack
  /\ now > 0
  /\ now' = now - 1
  /\ UNCHANGED <<ledgerVars, offerVars, recent, due, lease, claimant>>

RoutesMove ==
  /\ Amended
  /\ RoutesStep
  /\ UNCHANGED <<ledgerVars, clockVars, lease, claimant>>

-----------------------------------------------------------------------------
(* What the coordinator sees, and what it owes for it.                     *)

\* A bug: a member that has left becomes ready again with its node.
MemberReady_Returns(l, n) ==
  /\ IsRoute(Backed[l]) => consent[Backed[l]][Owner[n]] = "GIVEN"
  /\ preview /\ phase[n] = "READY" /\ desired[n] = "READY" /\ n \in recent
\* Node n is ready for lease l, as its own record says (observation, observe).
MemberReady(l, n) ==
  /\ ~lease[l].part[n].withdrawn
  /\ IsRoute(Backed[l]) => consent[Backed[l]][Owner[n]] = "GIVEN"
  /\ preview /\ phase[n] = "READY" /\ desired[n] = "READY" /\ n \in recent

Joint(l) ==
  /\ IsRoute(Backed[l]) => routeState[Backed[l]] = "LOCAL_PREVIEW"
  /\ \A n \in Nodes(Backed[l]) : MemberReady(l, n)

Ends(l) == lease[l].started + Window(l)

\* The largest part of the budget that member n can earn.
Maximum(l, n) ==
  LET o == Backed[l]
  IN  splitByBps(Budget(l), Shares[o])[CHOOSE i \in DOMAIN Members[o] : Members[o][i] = n]

Earned(l, n, credited) == (credited * Maximum(l, n)) \div Window(l)

\* A bug: the interval before a restart is paid to the process after it.
Credits_AcrossRestart(l, n) ==
  /\ now - lease[l].sampled <= MaxGap
  /\ lease[l].part[n].ready /\ MemberReady(l, n)
\* Two ready observations of one process, close to each other, delimit an
\* interval that is paid.
Credits(l, n) ==
  /\ now - lease[l].sampled <= MaxGap
  /\ lease[l].part[n].ready /\ MemberReady(l, n)
  /\ lease[l].part[n].epoch = epoch[n]

\* A bug: the last interval runs on after the end of the window.
SampledUntil_PastEnd(l) == Max({lease[l].sampled, now})
\* A clock that was set back does not take the sample back.
SampledUntil(l) == Max({lease[l].sampled, Min({now, Ends(l)})})

\* The row of l after an observation at this moment.
Sample(l) ==
  LET r == lease[l]
      elapsed == SampledUntil(l) - r.sampled
      credited(n) == r.part[n].credited + (IF Credits(l, n) THEN elapsed ELSE 0)
      part == [n \in Node |->
                 IF n \notin Nodes(Backed[l]) THEN r.part[n]
                 ELSE [r.part[n] EXCEPT !.credited = credited(n),
                                        !.paid = Earned(l, n, credited(n)),
                                        !.ready = MemberReady(l, n),
                                        !.epoch = epoch[n]]]
      all == r.ready /\ Joint(l) /\ \A n \in Nodes(Backed[l]) : Credits(l, n)
  IN  [r EXCEPT !.sampled = SampledUntil(l),
                !.ready = Joint(l),
                !.joint = @ + (IF all THEN elapsed ELSE 0),
                !.paid = SumFunctionOnSet([n \in Node |-> part[n].paid], Nodes(Backed[l])),
                !.part = part,
                !.stage = IF IsRoute(Backed[l]) /\ ~Joint(l) THEN "DRAINING" ELSE @]

\* What the members have earned since the row of l was written, out of escrow.
PaymentLines(l, r) ==
  LET earned == [n \in Node |-> r.part[n].paid - lease[l].part[n].paid]
  IN  [a \in Account |->
         IF a = Escrow(l) THEN lease[l].paid - r.paid
         ELSE IF \E u \in User : a = Available(u)
         THEN SumFunctionOnSet(earned, {n \in Nodes(Backed[l]) : Owner[n] = a[2]})
         ELSE 0]

\* A bug: a contract that has paid something is taken for spent.
RefundLines_Unpaid(l, r) ==
  IF r.paid > 0 THEN NoLines
  ELSE [NoLines EXCEPT ![Escrow(l)] = 0 - Budget(l), ![Available(Sponsor[l])] = Budget(l)]
RefundLines(l, r) ==
  [NoLines EXCEPT ![Escrow(l)] = r.paid - Budget(l),
                  ![Available(Sponsor[l])] = Budget(l) - r.paid]

\* A bug: a draining route gives its domains back.
Holds_Undrained(r) == r.stage = "ACTIVE"
\* The row keeps its claims in this state.
Holds(r) == r.stage \in Active

\* The row of l becomes r; the trigger keeps the claims in step with its state.
Write(l, r) ==
  /\ lease' = [lease EXCEPT ![l] = r]
  /\ claimant' = [d \in Domain |->
       IF d \in Domains(Backed[l]) /\ Holds(r) THEN l
       ELSE IF claimant[d] = l THEN None ELSE claimant[d]]

\* A projection that goes down or over the member's maximum is refused.
Projected(l, r) ==
  \A n \in Nodes(Backed[l]) :
    lease[l].part[n].paid <= r.part[n].paid /\ r.part[n].paid <= Maximum(l, n)

\* Pay what r has earned since, and go on.
advance(l, r) ==
  /\ Projected(l, r)
  /\ PostBoth(PayKey(l, r), PaymentLines(l, r), RefundKey(l), NoLines)
  /\ Write(l, r)

\* Pay what r has earned since, return the rest to the sponsor.
close(l, r, stage) ==
  /\ Projected(l, r)
  /\ PostBoth(PayKey(l, r), PaymentLines(l, r), RefundKey(l), RefundLines(l, r))
  /\ Write(l, [r EXCEPT !.stage = stage, !.ready = FALSE])

-----------------------------------------------------------------------------
(* The handlers.                                                           *)

OpenOf(u) == {l \in Lease : Sponsor[l] = u /\ lease[l].stage \in Funded}

\* A node need only exist for its lease to be offered; a route must be open.
NodeOffered(o) == preview /\ epoch[Root(o)] > 0 /\ desired[Root(o)] # "REVOKED"

offer(l) ==
  LET o == Backed[l] IN
  /\ lease[l].stage = "NEW"
  /\ Cardinality(OpenOf(Sponsor[l])) < MaxOpen
  /\ IF IsRoute(o) THEN Open(o)
     ELSE NodeOffered(o)
  /\ \A n \in Nodes(o) : Maximum(l, n) > 0
  /\ Post(FundKey(l), [NoLines EXCEPT ![Available(Sponsor[l])] = 0 - Budget(l),
                                      ![Escrow(l)] = Budget(l)])
  /\ Write(l, [lease[l] EXCEPT !.stage = "OFFERED"])
  /\ UNCHANGED <<offerVars, clockVars>>

\* The window opens now, with this moment as the first observation.
Activated(l, accepted) ==
  [lease[l] EXCEPT !.stage = "ACTIVE",
                   !.accepted = accepted,
                   !.started = now, !.sampled = now, !.ready = TRUE,
                   !.part = [n \in Node |->
                     IF n \in Nodes(Backed[l])
                     THEN [lease[l].part[n] EXCEPT !.ready = TRUE, !.epoch = epoch[n]]
                     ELSE lease[l].part[n]]]

Unclaimed(l) == \A d \in Domains(Backed[l]) : claimant[d] = None

\* Only by a provider who has not yet, and in time.
AcceptsTerms(l, u) ==
  /\ lease[l].stage = "OFFERED"
  /\ l \notin due
  /\ u \in Providers(Backed[l]) \ lease[l].accepted

\* A provider of l accepts its terms; the last acceptance opens the window, and
\* is rolled back with it when the members are not all ready.
accept(l, u) ==
  LET accepted == lease[l].accepted \cup {u} IN
  /\ AcceptsTerms(l, u)
  /\ IF accepted # Providers(Backed[l])
     THEN Write(l, [lease[l] EXCEPT !.accepted = accepted])
     ELSE /\ now + Window(l) <= MaxClock
          /\ Unclaimed(l)
          /\ Joint(l)
          /\ Write(l, Activated(l, accepted))
  /\ UNCHANGED <<ledgerVars, offerVars, clockVars>>

\* One row of a reconciliation run, which comes round every two seconds.
reconcile(l) ==
  /\ \/ /\ lease[l].stage = "OFFERED"
        /\ l \in due
        /\ close(l, lease[l], "EXPIRED")
     \/ /\ lease[l].stage \in Active
        /\ IsRoute(Backed[l]) => now >= lease[l].sampled
        /\ IF now >= Ends(l) THEN close(l, Sample(l), "COMPLETED")
           ELSE advance(l, Sample(l))
  /\ UNCHANGED <<offerVars, clockVars>>

\* The sponsor or the provider ends a node lease at once.
cancelNode(l) ==
  /\ ~IsRoute(Backed[l])
  /\ \/ lease[l].stage = "OFFERED" /\ close(l, lease[l], "CANCELLED")
     \/ lease[l].stage = "ACTIVE" /\ close(l, Sample(l), "CANCELLED")
  /\ UNCHANGED <<offerVars, clockVars>>

\* The row of l after u has left it: u's members earn no more.
Left(l, u, r) ==
  [r EXCEPT !.stage = "DRAINING", !.ready = FALSE,
            !.part = [n \in Node |->
              IF n \in Nodes(Backed[l]) /\ Owner[n] = u
              THEN [r.part[n] EXCEPT !.withdrawn = TRUE, !.ready = FALSE]
              ELSE r.part[n]]]

\* A bug: the sponsor's request ends the window.
LeaveRoute_Ends(l, u, r) == close(l, r, "CANCELLED")
LeaveRoute(l, u, r) == advance(l, Left(l, u, r))

\* An accepted route lease drains instead: only u's own part ends early.
cancelRoute(l, u) ==
  LET r == IF now >= lease[l].sampled THEN Sample(l) ELSE lease[l] IN
  /\ IsRoute(Backed[l])
  /\ u \in {Sponsor[l]} \cup Providers(Backed[l])
  /\ \/ lease[l].stage = "OFFERED" /\ close(l, lease[l], "CANCELLED")
     \/ /\ lease[l].stage \in Active
        /\ IF now >= Ends(l) THEN close(l, r, "COMPLETED") ELSE LeaveRoute(l, u, r)
  /\ UNCHANGED <<offerVars, clockVars>>

Next ==
  \/ FleetStep \/ RoutesMove \/ Tick \/ SetClockBack
  \/ \E n \in Wavering : Lag(n)
  \/ \E l \in Lease :
       \/ Lapse(l) \/ offer(l) \/ reconcile(l) \/ cancelNode(l)
       \/ \E u \in User : accept(l, u) \/ cancelRoute(l, u)

Spec == Init /\ [][Next]_vars

\* Time passes, offers lapse and the reconciliation comes round.
Fairness ==
  /\ WF_vars(Tick)
  /\ \A l \in Lease : WF_vars(Lapse(l)) /\ WF_vars(reconcile(l))

FairSpec == Spec /\ Fairness

-----------------------------------------------------------------------------
(* What must hold.                                                         *)

Sum(S, f(_)) == SumFunctionOnSet([x \in S |-> f(x)], S)

\* The book and the contracts tell one story: an escrow holds exactly what its
\* open contract has not yet paid, and every account has what it opened with,
\* less the budgets of its open contracts and the payments of its closed ones,
\* plus what its nodes earned.  Broken by a payment whose key was used before,
\* by a refund of the wrong rest, and by a member paid twice for an interval.
BooksMatchLeases ==
  /\ \A l \in Lease :
       balance[Escrow(l)] =
         IF lease[l].stage \in Funded THEN Budget(l) - lease[l].paid ELSE 0
  /\ \A u \in User :
       LET mine == {l \in Lease : Sponsor[l] = u /\ lease[l].stage # "NEW"}
       IN  balance[Available(u)] =
             Funds[u]
               - Sum(mine, LAMBDA l : IF lease[l].stage \in Funded
                                      THEN Budget(l) ELSE lease[l].paid)
               + Sum({ln \in Lease \X Node : Owner[ln[2]] = u},
                     LAMBDA ln : lease[ln[1]].part[ln[2]].paid)

\* The claims registry is exactly the open windows: a domain is claimed by l as
\* long as l is active or draining, and so by one lease of either kind at most.
ClaimsMatchLeases ==
  \A d \in Domain, l \in Lease :
    claimant[d] = l <=> lease[l].stage \in Active /\ d \in Domains(Backed[l])

\* "A declared physical domain cannot earn two overlapping readiness payments"
\* (migration 003): on a clock that is not set back, two leases that share a
\* domain have paid for intervals that do not overlap.
DomainPaidOnce ==
  ~SetBack =>
    \A l, m \in Lease :
      /\ l # m /\ lease[l].paid > 0 /\ lease[m].paid > 0
      /\ Domains(Backed[l]) \cap Domains(Backed[m]) # {}
      => \/ lease[l].sampled <= lease[m].started
         \/ lease[m].sampled <= lease[l].started

\* Nobody is credited for more than the window that was accepted, on any clock: a
\* member's credit fits in the time sampled, which fits in the window, and the
\* route is never credited as a whole for longer than its least ready member.
CreditInTime ==
  \A l \in Lease :
    /\ lease[l].sampled <= Ends(l)
    /\ \A n \in Nodes(Backed[l]) :
         /\ lease[l].part[n].credited <= lease[l].sampled - lease[l].started
         /\ lease[l].joint <= lease[l].part[n].credited

\* And so nobody is paid for more than its share of the budget.
CreditWithinWindow ==
  CreditInTime
  /\ \A l \in Lease : \A n \in Nodes(Backed[l]) : lease[l].part[n].paid <= Maximum(l, n)

\* What holds of every contract at all times: the types, with no account and no escrow
\* below zero, the book, and the limits of each member's credit.
LeasesInv == LeasesTypeOK /\ BooksMatchLeases /\ CreditWithinWindow

\* "A sponsor cannot retrospectively revoke the other providers' funded window":
\* once open, a route's window closes only at its end, as completed.
AcceptedWindowPreserved ==
  [][\A l \in Lease :
       IsRoute(Backed[l]) /\ lease[l].stage \in Active =>
         \/ lease'[l].stage \in Active
         \/ lease'[l].stage = "COMPLETED" /\ now >= Ends(l)]_vars

\* "An exiting provider relinquishes only its own future readiness earnings": it
\* earns nothing more, and what it has earned stays.
LeavingForfeitsOnlyTheFuture ==
  [][\A l \in Lease, n \in Node :
       lease[l].part[n].withdrawn => lease'[l].part[n].paid = lease[l].part[n].paid]_vars

\* A process is not paid for an interval that another process began.
NoCreditAcrossRestart ==
  [][\A l \in Lease : \A n \in Nodes(Backed[l]) :
       lease[l].stage \in Active /\ lease[l].part[n].epoch # epoch[n] =>
         lease'[l].part[n].credited = lease[l].part[n].credited]_vars

\* Every funded contract closes, and with it the sponsor has the rest back.
EveryLeaseCloses ==
  \A l \in Lease : lease[l].stage \in Funded ~> lease[l].stage \in Closed

-----------------------------------------------------------------------------
\* What a contract promises, whatever it is for (FundedContract).
Contract == INSTANCE FundedContract WITH
  Contract <- Lease,
  Price <- [l \in Lease |-> Budget(l)],
  stage <- [l \in Lease |-> IF lease[l].stage = "NEW" THEN "NEW"
                            ELSE IF lease[l].stage \in Funded THEN "FUNDED" ELSE "CLOSED"],
  held <- [l \in Lease |-> balance[Escrow(l)]],
  paid <- [l \in Lease |-> lease[l].paid]

LeasesAreContracts == Contract!Spec
=============================================================================
