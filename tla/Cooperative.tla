---------------------------- MODULE Cooperative ----------------------------
(***************************************************************************)
(* A cooperative pool of the coordinator (cooperative.ts): users give it   *)
(* credit, it funds windows of ready capacity on complete routes, requests *)
(* covered by a window are settled into it, and an administrator may       *)
(* refund a settlement.  A window is a route lease whose money comes from  *)
(* the pool; its payments are abstracted to what FundedContract promises.  *)
(*                                                                         *)
(* Horizons are scaled: the code keeps six hours, one day and three days   *)
(* of every group's rate.  A time is told apart from now only as far as a  *)
(* guard does: support is LONG when it covers another whole window, SHORT  *)
(* when it does not, and LAPSED.  The domains of two routes are disjoint   *)
(* and have one slot, so that a route serves one request at a time.        *)
(***************************************************************************)
EXTENDS Ledger

CONSTANTS
  Group,           \* essential groups of the pool's plan
  RoutesOf,        \* the routes that can serve a group
  ProvidersOf,     \* the providers with a node in a route
  Rate, Duration,  \* of each group
  FloorTime, WorkingTime, ReserveTime,  \* 6 h, 24 h and 72 h in the code
  MaxWindows,      \* windows ever offered (bound of the instances)
  MaxOpen,         \* contracts a sponsor may have open (4 in the code)
  Creator,         \* the user who opened the pool and is its sponsor
  Working, Reserve, Burn,  \* the funds that own the pool's three accounts
  Gifts,           \* the amounts users contribute
  Session, Requester, Hold, Charges,  \* covered requests and their prices
  NULL

Window == 1..MaxWindows
Route == UNION {RoutesOf[g] : g \in Group}
Source == {Working, Reserve}
Kind == {"ESSENTIAL", "EXPANSION"}
OpenStates == {"OFFERED", "ACTIVE", "DRAINING"}
Times == {"LONG", "SHORT", "LAPSED"}

ASSUME CooperativeAssumption ==
  /\ IsFiniteSet(User) /\ IsFiniteSet(Group) /\ IsFiniteSet(Session)
  /\ MaxWindows \in Nat /\ MaxOpen \in Nat
  /\ FloorTime \in Nat /\ WorkingTime \in Nat /\ ReserveTime \in Nat
  /\ FloorTime <= WorkingTime
  /\ Rate \in [Group -> Nat] /\ Duration \in [Group -> Nat] /\ Gifts \subseteq Nat \ {0}
  /\ Hold \in [Session -> Nat] /\ Requester \in [Session -> User]
  /\ Window \cup {Working, Reserve, Burn} = Fund
  /\ {Working, Reserve, Burn} \cap Window = {}
  /\ Working # Reserve /\ Reserve # Burn /\ Burn # Working
  /\ \A g, h \in Group : g # h => RoutesOf[g] \cap RoutesOf[h] = {}
  /\ \A r \in Route : ProvidersOf[r] # {} /\ ProvidersOf[r] \subseteq User
  /\ NULL \notin Group \cup Route \cup Window
  /\ SumFunction(Rate) * (FloorTime + WorkingTime + ReserveTime) <= MaxAmount

VARIABLES
  given,    \* cooperative_funding, summed for each destination
  pool,     \* the row of cooperative_pools
  ready,    \* routes listed by ready_execution_offers
  window,   \* cooperative_windows with their route leases
  request,  \* sessions quoted on the pool, with their settlement
  costs     \* paid out of windows funded by working capital within a day

coopVars == <<given, pool, ready, window, request, costs>>
poolVars == <<ledgerVars, coopVars>>

Budget(g) == Rate[g] * Duration[g]
Plan == SumFunction(Rate)

NoWindow == [state |-> "NONE", kind |-> "ESSENTIAL", group |-> NULL, route |-> NULL,
             source |-> Working, cover |-> "LONG", accepted |-> {}, paid |-> 0,
             ended |-> FALSE, left |-> FALSE]
NewRequest == [state |-> "NEW", window |-> NULL, working |-> 0, reserve |-> 0,
               burned |-> 0, separate |-> FALSE, recent |-> FALSE, undone |-> FALSE]

-----------------------------------------------------------------------------
(* The snapshot of a pool: what it holds, owes and aims at. *)

OpenWindows == {w \in Window : window[w].state \in OpenStates}
Unpaid(w) == Budget(window[w].group) - window[w].paid

\* An essential window that is over but not yet closed is not held any more.
Counted(g) == {w \in OpenWindows : window[w].group = g /\ window[w].kind = "ESSENTIAL"
                                   /\ ~window[w].ended}
HeldFor(g) == SumFunction([w \in Counted(g) |-> Unpaid(w)])
EssentialHeld == SumFunction([g \in Group |-> HeldFor(g)])

Gap(target, have) == IF target > have THEN target - have ELSE 0
Less(a, b) == IF a < b THEN a ELSE b

Floor         == Gap(Plan * FloorTime, EssentialHeld)
WorkingTarget == Gap(Plan * WorkingTime, EssentialHeld)
ReserveTarget == Plan * ReserveTime
InWorking == balance[Escrow(Working)]
InReserve == balance[Escrow(Reserve)]

ReadyGroup(g) == RoutesOf[g] \cap ready # {}
Supported == ~pool.paused /\ pool.support # "LAPSED"
Minimum == SumFunction([g \in Group |-> IF HeldFor(g) > 0 THEN 0 ELSE Budget(g)])
Affordable(g) == /\ ReadyGroup(g)
                 /\ \/ HeldFor(g) > 0
                    \/ InWorking >= Budget(g)
                    \/ InReserve >= Budget(g)

HealthySince(continuous) ==
  IF ~continuous THEN "NEVER"
  ELSE IF pool.healthy # "NEVER" /\ pool.fresh THEN pool.healthy ELSE "NOW"

Healthy == HealthySince(/\ Supported /\ \A g \in Group : ReadyGroup(g)
                        /\ InWorking >= Floor /\ InReserve >= ReserveTarget)
PoolState ==
  IF ~Supported \/ \A g \in Group : ~Affordable(g) THEN "HIBERNATING"
  ELSE IF (\E g \in Group : ~ReadyGroup(g)) \/ InWorking < Minimum THEN "DEFENSE"
  ELSE IF Healthy = "DAY" THEN "NORMAL" ELSE "RECOVERY"

\* A bug: the reserve is filled before the floor of working capital.
recycle_ReserveFirst(q, w, r, f, wt, rt) ==
  LET reserve == Less(q, Gap(rt, r))
      working == Less(q - reserve, Gap(wt, w))
  IN  [working |-> working, reserve |-> reserve, burned |-> q - reserve - working]
\* A charge goes to the floor, then the reserve, then working capital; the rest burns.
recycle(q, w, r, f, wt, rt) ==
  LET floor   == Less(q, Gap(f, w))
      reserve == Less(q - floor, Gap(rt, r))
      working == Less(q - floor - reserve, Gap(wt, w + floor))
  IN  [working |-> floor + working, reserve |-> reserve,
       burned |-> q - floor - reserve - working]

CoopInit ==
  /\ given = [s \in Source |-> 0]
  /\ pool = [paused |-> FALSE, support |-> "LONG", state |-> "HIBERNATING",
             healthy |-> "NEVER", fresh |-> FALSE]
  /\ ready = Route
  /\ window = [w \in Window |-> NoWindow]
  /\ request = [s \in Session |-> NewRequest]
  /\ costs = 0

-----------------------------------------------------------------------------
(* Money in, and the pool's support. *)

fund(u, s, amount) ==
  /\ Supported
  /\ Post(<<"coop-funding", s, given[s]>>,
          [NoLines EXCEPT ![Available(u)] = -amount, ![Escrow(s)] = amount])
  /\ given' = [given EXCEPT ![s] = @ + amount]
  /\ UNCHANGED <<pool, ready, window, request, costs>>

\* Support may be declared up to thirty days ahead, and a minute at least.
manage(paused, support) ==
  /\ pool' = [pool EXCEPT !.paused = paused, !.support = support, !.healthy = "NEVER"]
  /\ UNCHANGED <<ledgerVars, given, ready, window, request, costs>>

-----------------------------------------------------------------------------
(* Windows. *)

MinOf(S) == CHOOSE x \in S : \A y \in S : x <= y
NextWindow == MinOf({w \in Window : window[w].state = "NONE"})
LastUse(r) == LET used == {w \in Window : window[w].route = r}
              IN  IF used = {} THEN 0 ELSE CHOOSE w \in used : \A v \in used : v <= w

Claimed(r) == \E w \in OpenWindows : window[w].route = r /\ window[w].state # "OFFERED"
Candidates(g) == {r \in RoutesOf[g] \cap ready : ~Claimed(r)}

\* Alternatives take turns: the one whose last window is oldest goes first.
Before(r, q) == LastUse(r) < LastUse(q)

Vacant(g, kind) == ~\E w \in OpenWindows : window[w].group = g /\ window[w].kind = kind

ReserveMayPay(g) == InWorking < Budget(g) /\ InReserve >= Budget(g)

ExpansionFits(g) ==
  /\ InWorking >= Floor + Budget(g)
  /\ InReserve >= ReserveTarget
  /\ PoolState = "NORMAL"

\* What offerTransaction, and the offer of a route lease it makes, insist on.
MayOffer(g, kind, source, r) ==
  /\ \E w \in Window : window[w].state = "NONE"
  /\ ~pool.paused /\ pool.support = "LONG"
  /\ Vacant(g, kind)
  /\ r \in Candidates(g)
  /\ kind = "EXPANSION" => source = Working /\ ExpansionFits(g)
  /\ source = Reserve => ReserveMayPay(g)
  /\ Cardinality(OpenWindows) < MaxOpen

Offered(g, kind, source, r) ==
  [NoWindow EXCEPT !.state = "OFFERED", !.kind = kind, !.group = g, !.route = r,
                   !.source = source]
PostOffer(w, g, source) ==
  Post(<<"route-lease", w, "fund">>,
       [NoLines EXCEPT ![Escrow(source)] = -Budget(g), ![Escrow(w)] = Budget(g)])

\* By hand only essential windows are offered.
offer(g, source, r) ==
  LET w == NextWindow IN
  /\ MayOffer(g, "ESSENTIAL", source, r)
  /\ \A q \in Candidates(g) : ~Before(q, r)
  /\ PostOffer(w, g, source)
  /\ window' = [window EXCEPT ![w] = Offered(g, "ESSENTIAL", source, r)]
  /\ UNCHANGED <<given, pool, ready, request, costs>>

\* The acceptance that completes a window starts it, or is refused as a whole.
Backed(row) == ~pool.paused /\ pool.support = "LONG" /\ row.cover = "LONG"
MayStart(row) == Backed(row) /\ ~Claimed(row.route) /\ row.route \in ready

accept(w, u) ==
  LET row == window[w]
      all == row.accepted \cup {u} = ProvidersOf[row.route] IN
  /\ row.state = "OFFERED" /\ ~row.ended
  /\ u \in ProvidersOf[row.route] \ row.accepted
  /\ all => MayStart(row)
  /\ window' = [window EXCEPT ![w].accepted = @ \cup {u},
                              ![w].state = IF all THEN "ACTIVE" ELSE @]
  /\ UNCHANGED <<ledgerVars, given, pool, ready, request, costs>>

\* The rest of a window's budget goes back to the account it was paid from.
\* A bug: it goes to working capital, whoever paid.
BackTo_Working(row) == Escrow(Working)
BackTo(row) == Escrow(row.source)

\* A part goes to the providers of the route; no property tells how it is shared.
Payee(r) == CHOOSE u \in ProvidersOf[r] : TRUE
PayLines(w, part) ==
  [NoLines EXCEPT ![Escrow(w)] = -part, ![Available(Payee(window[w].route))] = part]
RestLines(w, rest) == IF rest = 0 THEN NoLines
                      ELSE [NoLines EXCEPT ![Escrow(w)] = -rest, ![BackTo(window[w])] = rest]

\* reconcile: an expired offer closes; a running window pays, drains once its
\* route is not ready, and closes when it is over.
advance(w, part) ==
  LET row == window[w]
      closes == row.ended
      paid == row.paid + part IN
  /\ row.state \in OpenStates
  /\ row.state = "OFFERED" => closes /\ part = 0
  /\ part \in 0..Unpaid(w)
  /\ PostBoth(<<"route-lease", w, "pay", paid>>,
              IF part = 0 THEN NoLines ELSE PayLines(w, part),
              <<"route-lease", w, "refund">>,
              IF closes THEN RestLines(w, Unpaid(w) - part) ELSE NoLines)
  /\ window' = [window EXCEPT ![w].paid = paid,
                              ![w].state = IF closes THEN "CLOSED"
                                           ELSE IF row.route \in ready THEN @ ELSE "DRAINING"]
  /\ costs' = IF row.source = Working THEN costs + part ELSE costs
  /\ UNCHANGED <<given, pool, ready, request>>

\* Before a window runs, anyone in it may cancel it; afterwards it is paid up to
\* now and drains, and a provider gives up its own part.  (A cancel of a window that
\* is over is the advance that closes it.)
\* A bug: a window that runs is closed as well.
Revocable_Any(row) == row.state \in OpenStates
Revocable(row) == row.state = "OFFERED"
cancel(w, leaves, part) ==
  LET row == window[w] IN
  /\ row.state \in OpenStates
  /\ part \in 0..Unpaid(w)
  /\ IF Revocable(row)
     THEN /\ ~leaves /\ part = 0
          /\ IF Unpaid(w) = 0 THEN UNCHANGED ledgerVars
             ELSE Post(<<"route-lease", w, "refund">>, RestLines(w, Unpaid(w)))
          /\ window' = [window EXCEPT ![w].state = "CLOSED"]
          /\ UNCHANGED costs
     ELSE /\ ~row.ended
          /\ IF part = 0 THEN UNCHANGED ledgerVars
             ELSE Post(<<"route-lease", w, "pay", row.paid + part>>, PayLines(w, part))
          /\ window' = [window EXCEPT ![w].state = "DRAINING", ![w].paid = @ + part,
                                      ![w].left = @ \/ leaves]
          /\ costs' = IF row.source = Working THEN costs + part ELSE costs
  /\ UNCHANGED <<given, pool, ready, request>>

-----------------------------------------------------------------------------
(* Covered requests. *)

\* A request is quoted against a supported pool and then holds its price.
quote(s) ==
  /\ request[s].state = "NEW"
  /\ Supported
  /\ request' = [request EXCEPT ![s].state = "QUOTED"]
  /\ UNCHANGED <<ledgerVars, given, pool, ready, window, costs>>

create(s) ==
  /\ request[s].state = "QUOTED"
  /\ Post(<<"hold", s>>, [NoLines EXCEPT ![Available(Requester[s])] = -Hold[s],
                                        ![Held(Requester[s])] = Hold[s]])
  /\ request' = [request EXCEPT ![s].state = "QUEUED"]
  /\ UNCHANGED <<given, pool, ready, window, costs>>

Eligible(w) ==
  /\ Supported
  /\ window[w].state \in {"ACTIVE", "DRAINING"} /\ ~window[w].ended /\ ~window[w].left

OnRoute(r) == {s \in Session : request[s].state = "RUNNING"
                               /\ window[request[s].window].route = r}

\* The execution deadline is the window's end at the latest.
admit(s, w) ==
  /\ request[s].state = "QUEUED"
  /\ Eligible(w)
  /\ window[w].route \in ready /\ OnRoute(window[w].route) = {}
  /\ request' = [request EXCEPT ![s].state = "RUNNING", ![s].window = w]
  /\ UNCHANGED <<ledgerVars, given, pool, ready, window, costs>>

SettleLines(s, charge, parts) ==
  [NoLines EXCEPT ![Held(Requester[s])] = -Hold[s],
                  ![Available(Requester[s])] = Hold[s] - charge,
                  ![Escrow(Working)] = parts.working,
                  ![Escrow(Reserve)] = parts.reserve,
                  ![Escrow(Burn)] = parts.burned]

Parts(charge) == recycle(charge, InWorking, InReserve, Floor, WorkingTarget, ReserveTarget)

\* What consumed the window goes to the pool; nothing goes to the providers.
settle(s, charge, separate) ==
  /\ request[s].state = "RUNNING"
  /\ charge \in 1..Hold[s]
  /\ Post(<<"settle", s>>, SettleLines(s, charge, Parts(charge)))
  /\ request' = [request EXCEPT ![s] =
        [@ EXCEPT !.state = "SETTLED", !.separate = separate, !.recent = TRUE,
                  !.working = Parts(charge).working, !.reserve = Parts(charge).reserve,
                  !.burned = Parts(charge).burned]]
  /\ UNCHANGED <<given, pool, ready, window, costs>>

\* A request that ends without a charge gets its hold back.
release(s) ==
  /\ request[s].state \in {"QUEUED", "RUNNING"}
  /\ Post(<<"settle", s>>, [NoLines EXCEPT ![Held(Requester[s])] = -Hold[s],
                                          ![Available(Requester[s])] = Hold[s]])
  /\ request' = [request EXCEPT ![s].state = "RELEASED"]
  /\ UNCHANGED <<given, pool, ready, window, costs>>

Charged(row) == row.working + row.reserve + row.burned

\* Every part returns from where it went; a part already spent blocks the refund.
RefundLines(s) ==
  LET row == request[s] IN
  [NoLines EXCEPT ![Escrow(Working)] = -row.working, ![Escrow(Reserve)] = -row.reserve,
                  ![Escrow(Burn)] = -row.burned,
                  ![Available(Requester[s])] = Charged(row)]
refund(s) ==
  /\ request[s].state = "SETTLED"
  /\ Post(<<"coop-refund", s>>, RefundLines(s))
  /\ request' = [request EXCEPT ![s].state = "REFUNDED", ![s].undone = TRUE]
  /\ UNCHANGED <<given, pool, ready, window, costs>>

-----------------------------------------------------------------------------
(* The pool's sampling, and what happens around it. *)

\* reconcile, every two seconds for a pool that is supported or not hibernating.
sample ==
  /\ Supported \/ pool.state # "HIBERNATING"
  /\ pool' = [pool EXCEPT !.state = PoolState, !.healthy = Healthy, !.fresh = TRUE]
  /\ UNCHANGED <<ledgerVars, given, ready, window, request, costs>>

SamplesStop ==
  /\ pool.fresh
  /\ pool' = [pool EXCEPT !.fresh = FALSE]
  /\ UNCHANGED <<ledgerVars, given, ready, window, request, costs>>

\* A day goes by: what was settled and paid is not within the last day any more.
DayPasses ==
  /\ pool.healthy = "NOW" \/ costs > 0 \/ \E s \in Session : request[s].recent \/ request[s].undone
  /\ pool' = [pool EXCEPT !.healthy = IF @ = "NOW" THEN "DAY" ELSE @]
  /\ request' = [s \in Session |-> [request[s] EXCEPT !.recent = FALSE, !.undone = FALSE]]
  /\ costs' = 0
  /\ UNCHANGED <<ledgerVars, given, ready, window>>

SupportFades ==
  /\ pool.support # "LAPSED"
  /\ pool' = [pool EXCEPT !.support = IF @ = "LONG" THEN "SHORT" ELSE "LAPSED"]
  /\ UNCHANGED <<ledgerVars, given, ready, window, request, costs>>

TermsFade(w) ==
  /\ window[w].state = "OFFERED" /\ window[w].cover = "LONG"
  /\ window' = [window EXCEPT ![w].cover = "SHORT"]
  /\ UNCHANGED <<ledgerVars, given, pool, ready, request, costs>>

WindowEnds(w) ==
  /\ window[w].state \in OpenStates /\ ~window[w].ended
  /\ window' = [window EXCEPT ![w].ended = TRUE]
  /\ UNCHANGED <<ledgerVars, given, pool, ready, request, costs>>

Listed(r) ==
  /\ ready' = IF r \in ready THEN ready \ {r} ELSE ready \cup {r}
  /\ UNCHANGED <<ledgerVars, given, pool, window, request, costs>>

-----------------------------------------------------------------------------
PoolRow ==
  [paused : BOOLEAN, support : Times, healthy : {"NEVER", "NOW", "DAY"},
   state : {"HIBERNATING", "DEFENSE", "RECOVERY", "NORMAL"}, fresh : BOOLEAN]
WindowRow ==
  [state : {"NONE", "CLOSED"} \cup OpenStates, kind : Kind, group : Group \cup {NULL},
   route : Route \cup {NULL}, source : Source, cover : Times, accepted : SUBSET User,
   paid : Nat, ended : BOOLEAN, left : BOOLEAN]
RequestRow ==
  [state : {"NEW", "QUOTED", "QUEUED", "RUNNING", "SETTLED", "RELEASED", "REFUNDED"},
   window : Window \cup {NULL}, working : Nat, reserve : Nat, burned : Nat,
   separate : BOOLEAN, recent : BOOLEAN, undone : BOOLEAN]

CoopTypeOK ==
  /\ LedgerTypeOK
  /\ given \in [Source -> Nat] /\ pool \in PoolRow /\ ready \subseteq Route
  /\ window \in [Window -> WindowRow] /\ request \in [Session -> RequestRow]
  /\ costs \in Nat
=============================================================================
