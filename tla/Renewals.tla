----------------------------- MODULE Renewals -----------------------------
(***************************************************************************)
(* Bounded renewals of a pool's windows (renewals.ts, with the triggers of *)
(* migrations 008 and 009): the pool's manager authorizes a number of      *)
(* windows within gross limits, every provider mandates its part, and the  *)
(* coordinator then funds and accepts one window after another, without    *)
(* asking again, while both permissions last.  An expansion window needs   *)
(* the backing of Economics as well.                                       *)
(*                                                                         *)
(* A permission is told by its identity; the terms it froze, and so its    *)
(* hashes, never change.                                                   *)
(***************************************************************************)
EXTENDS Economics, SequencesExt

CONSTANTS
  Authority, Mandate,   \* identities of the permissions ever given
  MandateLimits         \* the numbers of windows a provider mandates

ASSUME RenewalsAssumption ==
  /\ IsFiniteSet(Authority) /\ IsFiniteSet(Mandate) /\ MandateLimits \subseteq Nat
  /\ NULL \notin Authority

VARIABLES
  authority,   \* cooperative_renewal_authorizations
  mandate,     \* cooperative_provider_mandates
  run,         \* the authority that each window was renewed by, or NULL
  usage,       \* cooperative_mandate_usages of each window
  batch        \* authorities that the running reconcile has still to try

renewVars == <<authority, mandate, run, usage, batch>>
vars == <<ecoVars, renewVars>>

NoAuthority == [state |-> "NONE", kind |-> "ESSENTIAL", group |-> NULL, support |-> NULL,
                windows |-> 0, working |-> 0, reserve |-> 0, term |-> "LONG",
                used |-> 0, spentWorking |-> 0, spentReserve |-> 0]
NoMandate == [state |-> "NONE", kind |-> "ESSENTIAL", route |-> NULL, provider |-> NULL,
              windows |-> 0, term |-> "LONG", used |-> 0]
States == {"NONE", "ACTIVE", "REVOKED", "EXPIRED", "EXHAUSTED"}

RenewInit ==
  /\ authority = [a \in Authority |-> NoAuthority]
  /\ mandate = [m \in Mandate |-> NoMandate]
  /\ run = [w \in Window |-> NULL]
  /\ usage = [w \in Window |-> {}]
  /\ batch = <<>>

AuthorityRow ==
  [state : States, kind : Kind, group : Group \cup {NULL}, support : Declared \cup {NULL},
   windows : Nat, working : Nat, reserve : Nat, term : Times,
   used : Nat, spentWorking : Nat, spentReserve : Nat]
MandateRow ==
  [state : States, kind : Kind, route : Route \cup {NULL}, provider : User \cup {NULL},
   windows : Nat, term : Times, used : Nat]

RenewTypeOK ==
  /\ authority \in [Authority -> AuthorityRow] /\ mandate \in [Mandate -> MandateRow]
  /\ run \in [Window -> Authority \cup {NULL}]
  /\ usage \in [Window -> SUBSET Mandate]
  /\ batch \in Seq(Authority)

-----------------------------------------------------------------------------
(* Permissions. *)

\* An active permission whose term is over is closed before its place is taken.
Retired(row) == [row EXCEPT !.state = "EXPIRED"]
Over(row) == row.state = "ACTIVE" /\ row.term = "LAPSED"

authorize(a, g, kind, limit, d) ==
  LET retired == [b \in Authority |-> IF Over(authority[b]) THEN Retired(authority[b])
                                      ELSE authority[b]] IN
  /\ authority[a].state = "NONE"
  /\ kind = "EXPANSION" => limit.reserve = 0 /\ d # NULL /\ declared[d] = "VALID"
  /\ kind = "ESSENTIAL" => d = NULL
  /\ limit.working + limit.reserve <= MaxAmount
  /\ limit.working >= Budget(g) \/ limit.reserve >= Budget(g)
  /\ \A b \in Authority : ~(/\ retired[b].state = "ACTIVE"
                            /\ retired[b].group = g /\ retired[b].kind = kind)
  /\ authority' = [retired EXCEPT ![a] =
       [NoAuthority EXCEPT !.state = "ACTIVE", !.kind = kind, !.group = g, !.support = d,
                           !.windows = limit.windows, !.working = limit.working,
                           !.reserve = limit.reserve]]
  /\ UNCHANGED <<ecoVars, mandate, run, usage, batch>>

mandateFor(m, r, u, kind, windows) ==
  LET retired == [n \in Mandate |-> IF Over(mandate[n]) /\ mandate[n].provider = u
                                    THEN Retired(mandate[n]) ELSE mandate[n]] IN
  /\ mandate[m].state = "NONE"
  /\ u \in ProvidersOf[r]
  /\ \A n \in Mandate : ~(/\ retired[n].state = "ACTIVE" /\ retired[n].route = r
                          /\ retired[n].provider = u /\ retired[n].kind = kind)
  /\ mandate' = [retired EXCEPT ![m] =
       [NoMandate EXCEPT !.state = "ACTIVE", !.kind = kind, !.route = r, !.provider = u,
                         !.windows = windows]]
  /\ UNCHANGED <<ecoVars, authority, run, usage, batch>>

\* Windows that were accepted under the permission go on.
revokeAuthority(a) ==
  /\ authority[a].state = "ACTIVE"
  /\ authority' = [authority EXCEPT ![a].state = "REVOKED"]
  /\ UNCHANGED <<ecoVars, mandate, run, usage, batch>>
revokeMandate(m) ==
  /\ mandate[m].state = "ACTIVE"
  /\ mandate' = [mandate EXCEPT ![m].state = "REVOKED"]
  /\ UNCHANGED <<ecoVars, authority, run, usage, batch>>

AuthorityFades(a) ==
  /\ authority[a].state = "ACTIVE" /\ authority[a].term # "LAPSED"
  /\ authority' = [authority EXCEPT ![a].term = IF @ = "LONG" THEN "SHORT" ELSE "LAPSED"]
  /\ UNCHANGED <<ecoVars, mandate, run, usage, batch>>
MandateFades(m) ==
  /\ mandate[m].state = "ACTIVE" /\ mandate[m].term # "LAPSED"
  /\ mandate' = [mandate EXCEPT ![m].term = IF @ = "LONG" THEN "SHORT" ELSE "LAPSED"]
  /\ UNCHANGED <<ecoVars, authority, run, usage, batch>>

-----------------------------------------------------------------------------
(* Renewal. *)

WorkingLeft(a) == authority[a].working - authority[a].spentWorking
ReserveLeft(a) == authority[a].reserve - authority[a].spentReserve

Spent(a) == LET cost == Budget(authority[a].group) IN
  \/ authority[a].used >= authority[a].windows
  \/ WorkingLeft(a) < cost /\ ReserveLeft(a) < cost

\* The working limit is never stretched by the reserve's, nor the other way round.
SourceFor(a) ==
  LET cost == Budget(authority[a].group) IN
  IF InWorking >= cost /\ WorkingLeft(a) >= cost THEN {Working}
  ELSE IF InWorking < cost /\ InReserve >= cost /\ ReserveLeft(a) >= cost THEN {Reserve}
  ELSE {}

\* A bug: a mandate that is used up or was revoked still stands.
Mandated_Any(m, r, kind) ==
  /\ mandate[m].route = r /\ mandate[m].kind = kind /\ mandate[m].term = "LONG"
Mandated(m, r, kind) ==
  /\ mandate[m].state = "ACTIVE" /\ mandate[m].used < mandate[m].windows
  /\ mandate[m].route = r /\ mandate[m].kind = kind /\ mandate[m].term = "LONG"
MandatesOf(r, kind) == {m \in Mandate : Mandated(m, r, kind)}

AllMandated(r, kind) ==
  {mandate[m].provider : m \in MandatesOf(r, kind)} = ProvidersOf[r]

RoutesFor(a) ==
  LET g == authority[a].group
      kind == authority[a].kind
      open == IF kind = "EXPANSION" THEN Additional(g) ELSE Candidates(g)
      able == {r \in open : AllMandated(r, kind)}
  IN  {r \in able : \A q \in able : ~Before(q, r)}

\* Of each party, and of the parties, one that backs the expansion is taken.
DemandFor(a) ==
  IF authority[a].kind = "ESSENTIAL" THEN {NULL}
  ELSE {s \in Session : Backs(s, authority[a].group)}

\* What one window takes from the authority that paid it.
\* A bug: only what the windows really cost counts, so that a rest comes back.
Committed_Net(a, source) == 0
Committed(a, source) == Budget(authority[a].group)

Consumed(a, source) ==
  LET cost == Committed(a, source)
      row == [authority[a] EXCEPT !.used = @ + 1,
                !.spentWorking = IF source = Working THEN @ + cost ELSE @,
                !.spentReserve = IF source = Reserve THEN @ + cost ELSE @]
      over == \/ row.used >= row.windows
              \/ /\ row.working - row.spentWorking < Budget(row.group)
                 /\ row.reserve - row.spentReserve < Budget(row.group)
  IN  IF over THEN [row EXCEPT !.state = "EXHAUSTED"] ELSE row

MandateUsed(row) ==
  [row EXCEPT !.used = @ + 1,
              !.state = IF row.used + 1 >= row.windows THEN "EXHAUSTED" ELSE "ACTIVE"]

\* One transaction offers the window, accepts it for every provider, and consumes
\* the permissions; whatever fails in it leaves nothing behind.
Renewal(a, source, r, s) ==
  LET row == authority[a]
      g == row.group
      w == NextWindow
      taken == MandatesOf(r, row.kind) IN
  /\ MayOffer(g, row.kind, source, r)
  /\ MayStart(Offered(g, row.kind, source, r))
  /\ s # NULL => Validated(s, g)
  /\ PostOffer(w, g, source)
  /\ window' = [window EXCEPT ![w] = [Offered(g, row.kind, source, r) EXCEPT
                                        !.state = "ACTIVE", !.accepted = ProvidersOf[r]]]
  /\ authority' = [authority EXCEPT ![a] = Consumed(a, source)]
  /\ mandate' = [m \in Mandate |-> IF m \in taken THEN MandateUsed(mandate[m])
                                   ELSE mandate[m]]
  /\ run' = [run EXCEPT ![w] = a]
  /\ usage' = [usage EXCEPT ![w] = taken]
  /\ demand' = [demand EXCEPT ![w] = s]
  /\ UNCHANGED <<given, pool, ready, request, costs, party, declared>>

\* What stands in the way of a renewal just now; the authority keeps waiting.
Ripe(a) ==
  LET row == authority[a] IN
  /\ row.state = "ACTIVE" /\ row.term = "LONG"
  /\ ~pool.paused /\ pool.support = "LONG"
  /\ Vacant(row.group, row.kind)
  /\ ~Spent(a)
  /\ row.kind = "EXPANSION" => Approved(row.group, row.support)

CanRenew(a) == \E source \in SourceFor(a), r \in RoutesFor(a), s \in DemandFor(a) :
                 /\ MayOffer(authority[a].group, authority[a].kind, source, r)
                 /\ s # NULL => Validated(s, authority[a].group)

\* Nothing but its own limits stands in the way.
Exhausted(a) ==
  LET row == authority[a] IN
  /\ row.state = "ACTIVE" /\ row.term = "LONG"
  /\ ~pool.paused /\ pool.support = "LONG"
  /\ Vacant(row.group, row.kind)
  /\ Spent(a)

\* One authority of the batch is tried; it is read again, since it may have been
\* closed after the batch was made.
attempt(a) ==
  /\ batch # <<>> /\ a = Head(batch)
  /\ batch' = Tail(batch)
  /\ \/ /\ Over(authority[a])
        /\ authority' = [authority EXCEPT ![a].state = "EXPIRED"]
        /\ UNCHANGED <<ecoVars, mandate, run, usage>>
     \/ /\ Exhausted(a)
        /\ authority' = [authority EXCEPT ![a].state = "EXHAUSTED"]
        /\ UNCHANGED <<ecoVars, mandate, run, usage>>
     \/ /\ Ripe(a)
        /\ \E source \in SourceFor(a), r \in RoutesFor(a), s \in DemandFor(a) :
             Renewal(a, source, r, s)
     \/ /\ ~Over(authority[a]) /\ ~Exhausted(a) /\ ~(Ripe(a) /\ CanRenew(a))
        /\ UNCHANGED <<ecoVars, authority, mandate, run, usage>>

\* Mandates that are over are closed; of the active authorities, the essential
\* ones are tried first.
EssentialFirst(s) == \A i, j \in DOMAIN s : i < j =>
  (authority[s[i]].kind = "EXPANSION" => authority[s[j]].kind = "EXPANSION")

\* A bug: only authorities that were never used are tried.
Pending_Unused == {a \in Authority : authority[a].state = "ACTIVE" /\ authority[a].used = 0}
Pending == {a \in Authority : authority[a].state = "ACTIVE"}

reconcile ==
  /\ batch = <<>>
  /\ mandate' = [m \in Mandate |-> IF Over(mandate[m]) THEN Retired(mandate[m])
                                   ELSE mandate[m]]
  /\ \E s \in SetToSeqs(Pending) : EssentialFirst(s) /\ batch' = s
  /\ UNCHANGED <<ecoVars, authority, run, usage>>
=============================================================================
