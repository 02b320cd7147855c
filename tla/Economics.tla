----------------------------- MODULE Economics -----------------------------
(***************************************************************************)
(* Administrative declarations about a pool (economics.ts): which economic *)
(* party a user belongs to, which in-kind support a pool has, and, from    *)
(* them and the pool's own state, whether an expansion is backed by the    *)
(* demand of independent parties.                                          *)
(*                                                                         *)
(* An affiliation that expires and one that is revoked are told apart by   *)
(* nothing but their time: both end it.  Independence of a settlement is   *)
(* judged by the rows of its own time, so it is recorded when it settles.  *)
(***************************************************************************)
EXTENDS Cooperative

CONSTANTS
  Party,
  Declared     \* operating supports an administrator may declare

ASSUME EconomicsAssumption == NULL \notin Party \cup Declared \cup Session

VARIABLES
  party,       \* the unrevoked affiliation of a user, or NULL
  declared,    \* cooperative_operating_support: NONE, VALID or OVER
  demand       \* cooperative_expansion_demand: the request of each window

econVars == <<party, declared, demand>>
ecoVars == <<poolVars, econVars>>

EconInit ==
  /\ party = [u \in User |-> NULL]
  /\ declared = [d \in Declared |-> "NONE"]
  /\ demand = [w \in Window |-> NULL]

EconTypeOK ==
  /\ party \in [User -> Party \cup {NULL}]
  /\ declared \in [Declared -> {"NONE", "VALID", "OVER"}]
  /\ demand \in [Window -> Session \cup {NULL}]

-----------------------------------------------------------------------------
\* A classification is revoked before it is replaced.
affiliate(u, p) ==
  /\ party[u] = NULL
  /\ party' = [party EXCEPT ![u] = p]
  /\ UNCHANGED <<poolVars, declared, demand>>

support(d) ==
  /\ declared[d] = "NONE"
  /\ declared' = [declared EXCEPT ![d] = "VALID"]
  /\ UNCHANGED <<poolVars, party, demand>>

revokeParty(u) ==
  /\ party[u] # NULL
  /\ party' = [party EXCEPT ![u] = NULL]
  /\ UNCHANGED <<poolVars, declared, demand>>

revokeSupport(d) ==
  /\ declared[d] = "VALID"
  /\ declared' = [declared EXCEPT ![d] = "OVER"]
  /\ UNCHANGED <<poolVars, party, demand>>

-----------------------------------------------------------------------------
Actors(g) == {Creator} \cup UNION {ProvidersOf[r] : r \in RoutesOf[g]}

\* Independence is unknown, so denied, unless every actor has been classified.
Independent(u, g) ==
  party[u] # NULL /\ \A a \in Actors(g) : party[a] \notin {NULL, party[u]}

\* A settlement is judged in the group of the window that covered it.
settleJudged(s, charge) ==
  /\ request[s].state = "RUNNING"
  /\ settle(s, charge, Independent(Requester[s], window[request[s].window].group))

-----------------------------------------------------------------------------
(* The facts an expansion is decided by. *)

Kept(s) == request[s].working + request[s].reserve
NetRecycled ==
  SumFunction([s \in {t \in Session : request[t].recent /\ request[t].separate} |-> Kept(s)])
  - SumFunction([s \in {t \in Session : request[t].undone /\ request[t].separate} |-> Kept(s)])

CoveringWindows(g) ==
  {w \in Window : /\ window[w].state = "ACTIVE" /\ ~window[w].ended /\ ~window[w].left
                  /\ window[w].group = g /\ window[w].route \in ready}
Spare(g) == Cardinality({w \in CoveringWindows(g) : OnRoute(window[w].route) = {}})
Additional(g) == {r \in Candidates(g) : OnRoute(r) = {}}
EssentialCovered(g) == \E w \in CoveringWindows(g) : window[w].kind = "ESSENTIAL"

Uncommitted == {g \in Group : Supported /\ Vacant(g, "ESSENTIAL")}
SponsorSlots == Cardinality(OpenWindows) + Cardinality(Uncommitted)

Backs(s, g) ==
  /\ request[s].state = "QUEUED" /\ Hold[s] > 0
  /\ Independent(Requester[s], g)
  /\ \A w \in Window : demand[w] # s

\* One request for each party, however many users and requests it has.
BackingParties(g) == {party[Requester[s]] : s \in {t \in Session : Backs(t, g)}}

Approved(g, d) ==
  /\ PoolState = "NORMAL"
  /\ InWorking >= Floor + Budget(g) /\ InReserve >= ReserveTarget
  /\ declared[d] = "VALID"
  /\ \A h \in Group : EssentialCovered(h)
  /\ SponsorSlots < MaxOpen
  /\ costs > 0 /\ NetRecycled >= costs
  /\ Cardinality(BackingParties(g)) > Spare(g)
  /\ Additional(g) # {}

\* validate_expansion_demand repeats, on the rows of the same transaction, what
\* the facts were computed from.  The pool has paid the window by then.
Validated(s, g) ==
  /\ request[s].state = "QUEUED" /\ Independent(Requester[s], g)
  /\ InReserve >= ReserveTarget
  /\ InWorking - Budget(g) >= Floor
  /\ ~pool.paused /\ pool.healthy = "DAY" /\ pool.fresh
=============================================================================
