------------------------------- MODULE Pools -------------------------------
(***************************************************************************)
(* A cooperative pool with its renewals and declarations, and what the     *)
(* whole promises: no money is made or lost between its accounts, windows  *)
(* and requests, permissions are never stretched, and an expansion never   *)
(* takes what essential capacity needs.                                    *)
(***************************************************************************)
EXTENDS Renewals

CONSTANTS
  Scene,       \* kinds of situation, so that a run need not mix them all
  Cast         \* who and what takes part in each situation

ASSUME PoolsAssumption ==
  \A sc \in Scene :
    LET who == Cast[sc] IN
    /\ who["givers"] \cup who["classed"] \subseteq User
    /\ who["requests"] \subseteq Session /\ who["parties"] \subseteq Party
    /\ who["supports"] \subseteq Declared /\ who["authorities"] \subseteq Authority
    /\ who["kinds"] \subseteq Kind /\ who["flaky"] \subseteq Route
    /\ \A limit \in who["limits"] :
         limit.windows \in Nat /\ limit.working \in Nat /\ limit.reserve \in Nat
    /\ \A x \in who["mandates"] : x[1] \in Mandate /\ x[2] \in Route

VARIABLE scene

allVars == <<vars, scene>>

In(what) == Cast[scene][what]

CoopStep ==
  \/ \E u \in In("givers"), s \in Source, n \in Gifts : fund(u, s, n)
  \/ "manage" \in In("events") /\ \E p \in BOOLEAN, t \in {"LONG", "SHORT"} : manage(p, t)
  \/ "offer" \in In("events") /\ \E g \in Group, s \in Source, r \in Route : offer(g, s, r)
  \/ \E w \in Window :
       \/ \E u \in User : accept(w, u)
       \/ \E part \in In("parts") : advance(w, part)
       \/ /\ "cancel" \in In("events")
          /\ \E leaves \in BOOLEAN, part \in In("parts") : cancel(w, leaves, part)
       \/ "fade" \in In("events") /\ TermsFade(w)
       \/ WindowEnds(w)
  \/ \E s \in In("requests") :
       \/ quote(s) \/ create(s)
       \/ "release" \in In("events") /\ release(s)
       \/ \E w \in Window : admit(s, w)
       \/ \E charge \in Charges : settleJudged(s, charge)
       \/ "refund" \in In("events") /\ refund(s)
  \/ "sample" \in In("events") /\ sample
  \/ "stop" \in In("events") /\ SamplesStop
  \/ "day" \in In("events") /\ DayPasses
  \/ "fade" \in In("events") /\ SupportFades
  \/ \E r \in In("flaky") : Listed(r)

EconStep ==
  \/ \E u \in In("classed") :
       revokeParty(u) \/ \E p \in In("parties") : affiliate(u, p)
  \/ \E d \in In("supports") : support(d) \/ revokeSupport(d)

RenewStep ==
  \/ \E a \in In("authorities") :
       \/ \E g \in Group, kind \in In("kinds"), limit \in In("limits"), d \in Declared \cup {NULL} :
            authorize(a, g, kind, limit, d)
       \/ "lapse" \in In("events") /\ AuthorityFades(a)
  \/ \E a \in Authority : attempt(a) \/ ("revoke" \in In("events") /\ revokeAuthority(a))
  \/ \E x \in In("mandates"), kind \in In("kinds"), n \in MandateLimits :
       mandateFor(x[1], x[2], x[3], kind, n)
  \/ "lapse" \in In("events") /\ \E m \in Mandate : MandateFades(m)
  \/ "revoke" \in In("events") /\ \E m \in Mandate : revokeMandate(m)
  \/ reconcile

Next ==
  /\ \/ CoopStep /\ UNCHANGED <<econVars, renewVars>>
     \/ EconStep /\ UNCHANGED renewVars
     \/ RenewStep
  /\ Cardinality({w \in Window : window'[w].state # "NONE"}) <= In("windows")
  /\ UNCHANGED scene

\* Users have what they have; nothing of it has been given to the pool.
PoolsInit ==
  /\ LedgerTypeOK /\ journal = {} /\ \A f \in Fund : balance[Escrow(f)] = 0
  /\ CoopInit /\ EconInit /\ RenewInit
  /\ scene \in Scene

PoolsSpec == PoolsInit /\ [][Next]_allVars

-----------------------------------------------------------------------------
Opened == {w \in Window : window[w].state # "NONE"}
Of(s) == {w \in Opened : window[w].source = s}
Drawn(w) == IF w \in OpenWindows THEN Budget(window[w].group) ELSE window[w].paid
Settled == {s \in Session : request[s].state = "SETTLED"}

(* Types of the pool, its declarations and its permissions. *)
PoolsTypeOK == CoopTypeOK /\ EconTypeOK /\ RenewTypeOK

(* The three accounts of a pool hold exactly what its rows say: what was    *)
(* given and what settlements brought and no refund took back, less what    *)
(* its open windows were given and its closed windows paid; a window's      *)
(* escrow holds what it has still to pay (cooperative.ts:461, 753, 875).    *)
PoolBooks ==
  /\ InWorking = given[Working] + SumFunction([s \in Settled |-> request[s].working])
                  - SumFunction([w \in Of(Working) |-> Drawn(w)])
  /\ InReserve = given[Reserve] + SumFunction([s \in Settled |-> request[s].reserve])
                  - SumFunction([w \in Of(Reserve) |-> Drawn(w)])
  /\ balance[Escrow(Burn)] = SumFunction([s \in Settled |-> request[s].burned])
  /\ \A w \in Window : balance[Escrow(w)] = IF w \in OpenWindows THEN Unpaid(w) ELSE 0

(* A group has at most one open window of each kind, offered by hand or by  *)
(* a renewal, and no route runs two windows (COOPERATIVE_FUNDS.md).         *)
OneWindowForEach ==
  \A w, v \in OpenWindows : w # v =>
    /\ window[w].group # window[v].group \/ window[w].kind # window[v].kind
    /\ \/ window[w].route # window[v].route
       \/ window[w].state = "OFFERED" \/ window[v].state = "OFFERED"

(* A running request's window is not closed before its end, whoever cancels *)
(* or revokes what; so a request is never left without its cover.           *)
CoverOutlastsRequest ==
  \A s \in Session : request[s].state = "RUNNING" =>
    LET row == window[request[s].window] IN
    row.state \in {"ACTIVE", "DRAINING"} \/ row.ended

(* Counters of an authority are those of the windows it renewed, within its *)
(* limits, and they are gross: what a window returns does not restore them  *)
(* (BOUNDED_RENEWALS.md; trigger consume_renewal_authority).                *)
RunsOf(a, s) == {w \in Window : run[w] = a /\ window[w].source = s}
Gross(a, s) == SumFunction([w \in RunsOf(a, s) |-> Budget(window[w].group)])
AuthorityBounds ==
  \A a \in Authority :
    /\ authority[a].used = Cardinality({w \in Window : run[w] = a})
    /\ authority[a].used <= authority[a].windows
    /\ authority[a].spentWorking = Gross(a, Working)
    /\ authority[a].spentReserve = Gross(a, Reserve)
    /\ authority[a].spentWorking <= authority[a].working
    /\ authority[a].spentReserve <= authority[a].reserve

(* Every window that was renewed consumed one mandate, of its own kind, of  *)
(* each of its providers and of nobody else, and no mandate serves more     *)
(* windows than its provider allowed.                                       *)
MandatesCoverWindow ==
  /\ \A w \in Window : run[w] # NULL =>
       /\ {mandate[m].provider : m \in usage[w]} = ProvidersOf[window[w].route]
       /\ Cardinality(usage[w]) = Cardinality(ProvidersOf[window[w].route])
       /\ \A m \in usage[w] : /\ mandate[m].route = window[w].route
                               /\ mandate[m].kind = window[w].kind
  /\ \A m \in Mandate :
       /\ mandate[m].used = Cardinality({w \in Window : m \in usage[w]})
       /\ mandate[m].used <= mandate[m].windows

(* Each expansion was renewed under its own authority from working capital  *)
(* and consumed a held request that no other expansion consumed.            *)
ExpansionBacked ==
  \A w \in Opened : window[w].kind = "EXPANSION" =>
    /\ window[w].source = Working /\ run[w] # NULL
    /\ authority[run[w]].kind = "EXPANSION"
    /\ demand[w] # NULL
    /\ \A v \in Window \ {w} : demand[v] # demand[w]

-----------------------------------------------------------------------------
NewWindow(w) == window[w].state = "NONE" /\ window'[w].state # "NONE"

(* A charge goes first to the floor, then to the reserve, then to working   *)
(* capital; nothing is burned while a target is not met and no part is more *)
(* than what its target lacked (recycle, COOPERATIVE_FUNDS.md).             *)
FloorFirst ==
  [][\A s \in Session :
       request[s].state = "RUNNING" /\ request'[s].state = "SETTLED" =>
         LET new == request'[s] IN
         /\ new.reserve > 0 => InWorking' >= Floor
         /\ new.burned > 0 => InWorking' >= WorkingTarget /\ InReserve' >= ReserveTarget
         /\ new.working > Gap(Floor, InWorking) => InReserve' >= ReserveTarget
         /\ new.working <= Gap(WorkingTarget, InWorking)
         /\ new.reserve <= Gap(ReserveTarget, InReserve)]_allVars

(* The reserve is drawn only by an essential window that working capital    *)
(* could not pay, or by the refund of what it received.                     *)
ReserveProtected ==
  [][InReserve' < InReserve =>
       \/ \E w \in Window : /\ NewWindow(w) /\ window'[w].kind = "ESSENTIAL"
                            /\ InWorking < Budget(window'[w].group)
       \/ \E s \in Session : request[s].state = "SETTLED" /\ request'[s].state = "REFUNDED"
                            /\ request[s].reserve > 0]_allVars

(* An expansion leaves the essential floor and the whole reserve in place,  *)
(* is made only while every group's essential window covers requests, and   *)
(* its request belongs to a party that none of the pool's actors shares.    *)
ExpansionKeepsFloor ==
  [][\A w \in Window : NewWindow(w) /\ window'[w].kind = "EXPANSION" =>
       /\ InWorking' >= Floor /\ InReserve' >= ReserveTarget
       /\ \A g \in Group : EssentialCovered(g)
       /\ LET u == Requester[demand'[w]]
          IN  /\ party[u] # NULL
              /\ \A v \in Actors(window'[w].group) : party[v] \notin {NULL, party[u]}]_allVars

(* A permission that was revoked, expired or used up is never used or       *)
(* opened again, although a batch made before may still name it.            *)
ClosedStaysClosed ==
  [][/\ \A a \in Authority : authority[a].state \notin {"NONE", "ACTIVE"} =>
          authority'[a] = authority[a]
     /\ \A m \in Mandate : mandate[m].state \notin {"NONE", "ACTIVE"} =>
          mandate'[m] = mandate[m]]_allVars

(* A pool whose samples stopped is not NORMAL at the next one: a day of     *)
(* health is a day of samples without a gap (cooperative.ts:97-102).        *)
GapEndsHealth ==
  [][pool'.state = "NORMAL" /\ pool.state # "NORMAL" => pool.fresh]_allVars

(* A batch tries every essential authority before any expansion: the money  *)
(* an essential window needs is not taken by an expansion of the same pass. *)
EssentialGoesFirst ==
  \A i, j \in DOMAIN batch : i < j =>
    ~(authority[batch[i]].kind = "EXPANSION" /\ authority[batch[j]].kind = "ESSENTIAL")

\* A window is a contract of the group it is offered to, at that group's budget: the
\* budget is set aside whole from the pool, is paid out in parts while the window is open,
\* and with its end the rest is gone from its escrow (cooperative.ts, availability.ts).
IsFor(c) == window[c[1]].group = c[2]
WindowContract == INSTANCE FundedContract WITH
  Contract <- Window \X Group,
  Price <- [c \in Window \X Group |-> Budget(c[2])],
  stage <- [c \in Window \X Group |-> IF ~IsFor(c) THEN "NEW"
                                      ELSE IF c[1] \in OpenWindows THEN "FUNDED" ELSE "CLOSED"],
  held <- [c \in Window \X Group |-> IF IsFor(c) THEN balance[Escrow(c[1])] ELSE 0],
  paid <- [c \in Window \X Group |-> IF IsFor(c) THEN window[c[1]].paid ELSE 0]

WindowsAreContracts == [][WindowContract!Next]_(WindowContract!contractVars)

\* A pool's accounts, declarations and permissions in every order of gifts, settlements,
\* refunds, windows and renewals.
PoolsInv == PoolsTypeOK /\ PoolBooks

\* Windows are one of each kind and last as long as the requests they cover.
WindowsHold == OneWindowForEach /\ CoverOutlastsRequest

\* Renewals stay within the permissions of managers and providers, essential ones first,
\* and expansions answer a request of their own.
PermissionsHold ==
  AuthorityBounds /\ MandatesCoverWindow /\ ExpansionBacked /\ EssentialGoesFirst

\* The order in which a charge fills the funds, and a window or a refund draws on them; and
\* what a window has drawn is set aside, paid and returned as a funded contract promises.
MoneyInOrder == FloorFirst /\ ReserveProtected /\ WindowsAreContracts

\* An expansion yields to what is essential, closed permissions are not used again, and
\* the health it needs is earned without gaps.
ExpansionYields == ExpansionKeepsFloor /\ ClosedStaysClosed /\ GapEndsHealth

-----------------------------------------------------------------------------
\* The coordinator's loop reconciles the renewals for ever.
Fairness ==
  WF_batch(/\ reconcile \/ \E a \in Authority : attempt(a)
           /\ UNCHANGED scene)

(* A renewal that stays possible is made: an authority with its money, its  *)
(* mandates and a ready route is not passed over for ever.                  *)
RenewalHappens == \A a \in Authority : ~<>[](Ripe(a) /\ CanRenew(a))
=============================================================================
