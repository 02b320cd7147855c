----------------------------- MODULE PoolsProofs -----------------------------
(***************************************************************************)
(* What is promised of a cooperative pool, for any groups, routes, users,  *)
(* requests, permissions and amounts.                                      *)
(***************************************************************************)
EXTENDS Pools, PayoutProofs

-----------------------------------------------------------------------------
(* Names, rows and sums.                                                   *)

LEMMA WindowsAre ==
  /\ Window \subseteq Nat \ {0} /\ IsFiniteSet(Window) /\ NULL \notin Window
  /\ \A f \in Fund : f \in Window \/ f \in {Working, Reserve, Burn}
  /\ Window \subseteq Fund /\ Source \subseteq Fund /\ Burn \in Fund
  /\ Working \notin Window /\ Reserve \notin Window /\ Burn \notin Window
  /\ Working # Reserve /\ Reserve # Burn /\ Burn # Working
<1>1. MaxWindows \in Nat /\ Window \cup {Working, Reserve, Burn} = Fund
      /\ {Working, Reserve, Burn} \cap Window = {} /\ NULL \notin Window
      /\ Working # Reserve /\ Reserve # Burn /\ Burn # Working
  BY CooperativeAssumption
<1>2. IsFiniteSet(Window)
  BY <1>1, FS_Interval DEF Window
<1>3. Window \subseteq Nat \ {0}
  BY <1>1 DEF Window
<1> HIDE DEF Window
<1> QED BY <1>1, <1>2, <1>3 DEF Source

LEMMA BudgetsAre ==
  /\ \A g \in Group : Budget(g) \in Nat
  /\ Plan \in Nat
<1>1. \A g \in Group : Budget(g) \in Nat
  BY CooperativeAssumption DEF Budget
<1>2. IsFiniteSet(Group) /\ \A g \in Group : Rate[g] \in Nat
  BY CooperativeAssumption
<1>3. SumFunctionOnSet(Rate, Group) \in Nat
  BY <1>2, SumNat
<1>4. DOMAIN Rate = Group
  BY CooperativeAssumption
<1> QED BY <1>1, <1>3, <1>4 DEF Plan, SumFunction

LEMMA RoutesAre ==
  /\ NULL \notin Route /\ NULL \notin Group
  /\ \A g \in Group : RoutesOf[g] \subseteq Route
  /\ \A r \in Route : ProvidersOf[r] # {} /\ ProvidersOf[r] \subseteq User
                      /\ IsFiniteSet(ProvidersOf[r]) /\ Payee(r) \in User
<1>1. \A r \in Route : ProvidersOf[r] # {} /\ ProvidersOf[r] \subseteq User
  BY CooperativeAssumption
<1>2. \A r \in Route : IsFiniteSet(ProvidersOf[r])
  BY <1>1, CooperativeAssumption, FS_Subset
<1>3. \A r \in Route : Payee(r) \in User
  BY <1>1 DEF Payee
<1> QED BY <1>1, <1>2, <1>3, CooperativeAssumption DEF Route

\* The least of a set of windows.
LEMMA LeastWindow ==
  ASSUME NEW S \in SUBSET Window, S # {}
  PROVE  MinOf(S) \in S
<1>1. \E x \in S : \A y \in S : x <= y
  <2> DEFINE Above(x) == {y \in S : y < x}
             bad == {T \in SUBSET S : \E x \in S : T = Above(x)}
  <2>1. IsFiniteSet(S)
    BY WindowsAre, FS_Subset
  <2>2. bad \in SUBSET SUBSET S /\ bad # {}
    OBVIOUS
  <2>3. PICK T \in bad : \A U \in SUBSET T : U \in bad => U = T
    <3> HIDE DEF bad
    <3> QED BY <2>1, <2>2, LeastPart
  <2>4. PICK x \in S : T = Above(x)
    BY <2>3
  <2>5. ASSUME NEW y \in S, ~(x <= y) PROVE FALSE
    <3>1. x \in Nat /\ y \in Nat /\ S \subseteq Nat
      BY WindowsAre
    <3>2. y < x /\ ~(y < y) /\ \A z \in S : z < y => z < x
      BY <2>5, <3>1
    <3>3. Above(y) \in bad /\ Above(y) \in SUBSET T /\ y \in T /\ y \notin Above(y)
      BY <2>4, <3>2
    <3> HIDE DEF Above, bad
    <3> QED BY <2>3, <3>3
  <2> QED BY <2>5
<1> QED BY <1>1 DEF MinOf

-----------------------------------------------------------------------------
(* Postings.                                                               *)

LEMMA AccountsAre ==
  /\ \A u \in User : Available(u) \in Account /\ Held(u) \in Account
  /\ \A f \in Fund : Escrow(f) \in Account
  /\ \A u \in User : Available(u) # LabIssuer /\ Held(u) # LabIssuer
  /\ \A f : Escrow(f) # LabIssuer
BY DEF Account, Available, Held, Escrow, LabIssuer

\* A posting keeps the book in order; under a key of its own it is made.
LEMMA Posted ==
  ASSUME LedgerTypeOK, NEW key, NEW lines, Post(key, lines)
  PROVE  /\ LedgerTypeOK'
         /\ key \notin journal =>
              /\ journal' = journal \cup {key}
              /\ lines \in [Account -> Int]
              /\ \A a \in Account : balance'[a] = balance[a] + lines[a]
              /\ \A a \in Account \ {LabIssuer} : balance[a] + lines[a] >= 0
<1>1. CASE key \in journal
  BY <1>1 DEF Post, LedgerTypeOK, ledgerVars
<1>2. CASE key \notin journal
  <2>1. /\ Acceptable(lines) /\ journal' = journal \cup {key}
        /\ balance' = [a \in Account |-> balance[a] + lines[a]]
    BY <1>2 DEF Post
  <2>2. lines \in [Account -> Int]
    <3>1. lines \in [Account -> -MaxAmount..MaxAmount] /\ -MaxAmount..MaxAmount \subseteq Int
      BY <2>1, LedgerAssumption DEF Acceptable, Balanced
    <3> QED BY <3>1
  <2> QED BY <2>1, <2>2 DEF LedgerTypeOK, Acceptable, Covered
<1> QED BY <1>1, <1>2

\* So are two postings; both are made when nothing was posted under their keys.
LEMMA PostedTwice ==
  ASSUME LedgerTypeOK, NEW key1, NEW lines1, NEW key2, NEW lines2,
         PostBoth(key1, lines1, key2, lines2),
         lines1 \in [Account -> Int], lines2 \in [Account -> Int]
  PROVE  /\ LedgerTypeOK'
         /\ /\ lines1 # NoLines => key1 \notin journal
            /\ lines2 # NoLines => key2 \notin journal
            =>
              /\ \A a \in Account : balance'[a] = balance[a] + lines1[a] + lines2[a]
              /\ journal' = journal \cup (IF lines1 # NoLines THEN {key1} ELSE {})
                                    \cup (IF lines2 # NoLines THEN {key2} ELSE {})
<1> DEFINE made1 == lines1 # NoLines /\ key1 \notin journal
           made2 == lines2 # NoLines /\ key2 \notin journal
           between == IF made1 THEN [a \in Account |-> balance[a] + lines1[a]] ELSE balance
<1>1. /\ made1 => Covered(balance, lines1)
      /\ made2 => Covered(between, lines2)
      /\ balance' = IF made2 THEN [a \in Account |-> between[a] + lines2[a]] ELSE between
      /\ journal' = journal \cup (IF made1 THEN {key1} ELSE {})
                            \cup (IF made2 THEN {key2} ELSE {})
  BY DEF PostBoth, Acceptable
<1>2. /\ balance \in [Account -> Int]
      /\ \A a \in Account \ {LabIssuer} : balance[a] >= 0
      /\ \A a \in Account : NoLines[a] = 0
  BY DEF LedgerTypeOK, NoLines
<1>3. /\ between \in [Account -> Int]
      /\ \A a \in Account \ {LabIssuer} : between[a] >= 0
      /\ (lines1 # NoLines => key1 \notin journal) =>
           \A a \in Account : between[a] = balance[a] + lines1[a]
  BY <1>1, <1>2 DEF Covered
<1> HIDE DEF between
<1>4. /\ balance' \in [Account -> Int]
      /\ \A a \in Account \ {LabIssuer} : balance'[a] >= 0
      /\ (lines2 # NoLines => key2 \notin journal) =>
           \A a \in Account : balance'[a] = between[a] + lines2[a]
  BY <1>1, <1>2, <1>3 DEF Covered
<1> QED BY <1>1, <1>3, <1>4 DEF LedgerTypeOK

-----------------------------------------------------------------------------
(* What a step does to a window.                                           *)

\* A window is offered, or renewed, where there is none of its group and kind, and
\* runs on a route that no other one runs on.
Opening(w, r) ==
  /\ w = NextWindow /\ window[w].state = "NONE" /\ r.state \in {"OFFERED", "ACTIVE"}
  /\ r.group \in Group /\ r.route \in RoutesOf[r.group] /\ Vacant(r.group, r.kind)
  /\ r.paid = 0 /\ ~r.ended
  /\ r.state = "ACTIVE" => ~Claimed(r.route)

\* An open window stays what it is, pays no more than its budget, and closes only
\* before it runs or when it is over.
Going(w, r) ==
  /\ window[w].state \in OpenStates
  /\ r.kind = window[w].kind /\ r.group = window[w].group
  /\ r.route = window[w].route /\ r.source = window[w].source
  /\ window[w].paid <= r.paid /\ r.paid <= Budget(r.group)
  /\ window[w].ended => r.ended
  /\ \/ r.state = window[w].state
     \/ window[w].state = "OFFERED" /\ r.state = "ACTIVE" /\ ~Claimed(r.route)
     \/ window[w].state # "OFFERED" /\ r.state = "DRAINING"
     \/ (window[w].state = "OFFERED" \/ window[w].ended) /\ r.state = "CLOSED"

WindowMoves ==
  \/ UNCHANGED window
  \/ \E w \in Window, r \in WindowRow :
       window' = [window EXCEPT ![w] = r] /\ (Opening(w, r) \/ Going(w, r))

\* A row that was offered has its group and its route.
RowsNamed ==
  \A w \in Window :
    /\ window[w].state = "NONE" => window[w] = NoWindow
    /\ window[w].state # "NONE" =>
         window[w].group \in Group /\ window[w].route \in RoutesOf[window[w].group]
    /\ window[w].state # "NONE" => window[w].paid <= Budget(window[w].group)

\* A request that runs is covered.
RequestsNamed ==
  \A s \in Session : request[s].state = "RUNNING" =>
    request[s].window \in Window /\ window[request[s].window].state # "NONE"

\* A permission that was never given is blank; the windows a batch may renew are of
\* groups, and a window was renewed only if it was offered.
PermissionsNamed ==
  /\ \A a \in Authority : IF authority[a].state = "NONE" THEN authority[a] = NoAuthority
                          ELSE authority[a].group \in Group
  /\ \A m \in Mandate : mandate[m].state = "NONE" => mandate[m] = NoMandate
  /\ \A w \in Window : window[w].state = "NONE" =>
       run[w] = NULL /\ usage[w] = {} /\ demand[w] = NULL
  /\ \A i \in DOMAIN batch : authority[batch[i]].state # "NONE"

TypeInv ==
  PoolsTypeOK /\ scene \in Scene /\ RowsNamed /\ RequestsNamed /\ PermissionsNamed

\* A request runs only once it was admitted to a window that runs.
RequestMoves ==
  /\ request' \in [Session -> RequestRow]
  /\ \A s \in Session : request'[s].state = "RUNNING" =>
       \/ request[s].state = "RUNNING" /\ request'[s].window = request[s].window
       \/ /\ UNCHANGED window /\ request'[s].window \in Window
          /\ window[request'[s].window].state \in {"ACTIVE", "DRAINING"}
          /\ ~window[request'[s].window].ended

Moves ==
  /\ LedgerTypeOK' /\ given' \in [Source -> Nat] /\ pool' \in PoolRow
  /\ ready' \subseteq Route /\ costs' \in Nat
  /\ WindowMoves /\ RequestMoves

LEMMA Rows ==
  ASSUME TypeInv
  PROVE  /\ LedgerTypeOK /\ given \in [Source -> Nat] /\ pool \in PoolRow /\ costs \in Nat
         /\ ready \subseteq Route
         /\ window \in [Window -> WindowRow] /\ request \in [Session -> RequestRow]
         /\ \A w \in Window :
              /\ window[w] \in WindowRow /\ window[w].source \in Source
              /\ window[w].state \in OpenStates =>
                   /\ window[w].group \in Group /\ window[w].route \in Route
                   /\ window[w].route \in RoutesOf[window[w].group]
                   /\ Budget(window[w].group) \in Nat /\ Unpaid(w) \in Nat
                   /\ window[w].paid \in Nat /\ Unpaid(w) = Budget(window[w].group) - window[w].paid
                   /\ ProvidersOf[window[w].route] \subseteq User
                   /\ Payee(window[w].route) \in User
<1>1. CoopTypeOK /\ RowsNamed
  BY DEF TypeInv, PoolsTypeOK
<1>2. \A w \in Window : window[w] \in WindowRow /\ window[w].source \in Source
                        /\ window[w].paid \in Nat
  BY <1>1 DEF CoopTypeOK, WindowRow
<1>3. ASSUME NEW w \in Window, window[w].state \in OpenStates
      PROVE  /\ window[w].group \in Group /\ window[w].route \in Route
             /\ window[w].route \in RoutesOf[window[w].group]
             /\ Budget(window[w].group) \in Nat /\ window[w].paid <= Budget(window[w].group)
  BY <1>1, <1>3, BudgetsAre, RoutesAre DEF RowsNamed, OpenStates
<1> QED BY <1>1, <1>2, <1>3, RoutesAre DEF CoopTypeOK, Unpaid

\* Nothing but the pool, its supply or its windows' terms changes.
LEMMA Stays ==
  ASSUME TypeInv, UNCHANGED <<ledgerVars, request>>
  PROVE  LedgerTypeOK' /\ RequestMoves
BY Rows DEF RequestMoves, ledgerVars, LedgerTypeOK

\* One window's row is written.
LEMMA WindowWritten ==
  ASSUME TypeInv, NEW w \in Window, NEW r \in WindowRow,
         window' = [window EXCEPT ![w] = r], Opening(w, r) \/ Going(w, r)
  PROVE  WindowMoves
BY DEF WindowMoves

LEMMA GiftMoves ==
  ASSUME TypeInv, NEW u \in User, NEW s \in Source, NEW n \in Gifts, fund(u, s, n)
  PROVE  Moves
<1>1. n \in Nat /\ given[s] + n \in Nat
  BY Rows, CooperativeAssumption
<1>2. LedgerTypeOK'
  BY Rows, Posted DEF fund
<1>3. given' \in [Source -> Nat]
  BY <1>1, Rows DEF fund
<1> QED BY <1>2, <1>3, Rows DEF fund, Moves, WindowMoves, RequestMoves

\* The pool's own row.
LEMMA PoolMoves ==
  ASSUME TypeInv,
         \/ \E p \in BOOLEAN, t \in {"LONG", "SHORT"} : manage(p, t)
         \/ sample \/ SamplesStop \/ SupportFades
  PROVE  Moves
<1>1. UNCHANGED <<ledgerVars, given, ready, window, request, costs>>
  BY DEF manage, sample, SamplesStop, SupportFades
<1>2. pool.support \in Times /\ pool.healthy \in {"NEVER", "NOW", "DAY"}
  BY Rows DEF PoolRow
<1>3. PoolState \in {"HIBERNATING", "DEFENSE", "RECOVERY", "NORMAL"}
  BY DEF PoolState
<1>4. Healthy \in {"NEVER", "NOW", "DAY"}
  BY <1>2 DEF Healthy, HealthySince
<1>5. pool' \in PoolRow
  BY <1>2, <1>3, <1>4, Rows DEF manage, sample, SamplesStop, SupportFades, PoolRow, Times
<1> QED BY <1>1, <1>5, Rows, Stays DEF Moves, WindowMoves

LEMMA ListedMoves ==
  ASSUME TypeInv, NEW r \in Route, Listed(r)
  PROVE  Moves
<1>1. ready' \subseteq Route
  BY Rows DEF Listed
<1> QED BY <1>1, Rows, Stays DEF Listed, Moves, WindowMoves

-----------------------------------------------------------------------------
(* Windows.                                                                *)

LEMMA NextIs ==
  ASSUME \E w \in Window : window[w].state = "NONE"
  PROVE  NextWindow \in Window /\ window[NextWindow].state = "NONE"
<1> DEFINE S == {w \in Window : window[w].state = "NONE"}
<1>1. S \in SUBSET Window /\ S # {}
  OBVIOUS
<1>2. MinOf(S) \in S
  <2> HIDE DEF S
  <2> QED BY <1>1, LeastWindow
<1> QED BY <1>2 DEF NextWindow

LEMMA OfferedIs ==
  \A g \in Group, kind \in Kind, source \in Source, r \in Route :
    LET row == Offered(g, kind, source, r) IN
    /\ row \in WindowRow
    /\ row.state = "OFFERED" /\ row.kind = kind /\ row.group = g /\ row.route = r
    /\ row.source = source /\ row.paid = 0 /\ ~row.ended /\ row.accepted = {}
<1>1. NoWindow \in WindowRow
  BY DEF NoWindow, WindowRow, OpenStates, Times, Kind, Source
<1>2. NoWindow.paid = 0 /\ ~NoWindow.ended /\ NoWindow.accepted = {}
  BY DEF NoWindow
<1> SUFFICES ASSUME NEW g \in Group, NEW kind \in Kind, NEW source \in Source, NEW r \in Route
             PROVE  LET row == Offered(g, kind, source, r) IN
                    /\ row \in WindowRow
                    /\ row.state = "OFFERED" /\ row.kind = kind /\ row.group = g
                    /\ row.route = r /\ row.source = source /\ row.paid = 0 /\ ~row.ended
                    /\ row.accepted = {}
  OBVIOUS
<1> QED BY <1>1, <1>2 DEF Offered, WindowRow, OpenStates

LEMMA OfferMoves ==
  ASSUME TypeInv, NEW g \in Group, NEW s \in Source, NEW r \in Route, offer(g, s, r)
  PROVE  Moves
<1> DEFINE w == NextWindow
           row == Offered(g, "ESSENTIAL", s, r)
<1>1. /\ MayOffer(g, "ESSENTIAL", s, r) /\ PostOffer(w, g, s)
      /\ window' = [window EXCEPT ![w] = row]
      /\ UNCHANGED <<given, pool, ready, request, costs>>
  BY DEF offer
<1>2. w \in Window /\ window[w].state = "NONE"
  BY <1>1, NextIs DEF MayOffer
<1>3. row \in WindowRow /\ row.state = "OFFERED" /\ row.group = g /\ row.kind = "ESSENTIAL"
      /\ row.route = r /\ row.paid = 0 /\ ~row.ended
  <2>1. "ESSENTIAL" \in Kind
    BY DEF Kind
  <2> QED BY <2>1, OfferedIs
<1>4. Vacant(g, "ESSENTIAL") /\ r \in RoutesOf[g]
  BY <1>1 DEF MayOffer, Candidates
<1> HIDE DEF row
<1>5. Opening(w, row)
  BY <1>2, <1>3, <1>4 DEF Opening
<1> HIDE DEF w
<1>6. WindowMoves
  BY <1>1, <1>2, <1>3, <1>5, WindowWritten
<1>7. LedgerTypeOK'
  BY <1>1, Rows, Posted DEF PostOffer
<1> QED BY <1>1, <1>6, <1>7, Rows DEF Moves, RequestMoves

LEMMA AcceptMoves ==
  ASSUME TypeInv, NEW w \in Window, NEW u \in User, accept(w, u)
  PROVE  Moves
<1> DEFINE row == window[w]
           all == row.accepted \cup {u} = ProvidersOf[row.route]
           next == [row EXCEPT !.accepted = row.accepted \cup {u},
                               !.state = IF all THEN "ACTIVE" ELSE row.state]
<1>1. /\ row.state = "OFFERED" /\ (all => MayStart(row))
      /\ window' = [window EXCEPT ![w] = next]
      /\ UNCHANGED <<ledgerVars, given, pool, ready, request, costs>>
  BY Rows DEF accept
<1>2. row \in WindowRow /\ row.state \in OpenStates /\ row.paid <= Budget(row.group)
      /\ row.paid \in Nat
  BY <1>1, Rows DEF OpenStates, TypeInv, RowsNamed
<1>3. next \in WindowRow
  BY <1>2 DEF WindowRow, OpenStates
<1>4. /\ next.kind = row.kind /\ next.group = row.group /\ next.route = row.route
      /\ next.source = row.source /\ next.paid = row.paid /\ next.ended = row.ended
      /\ next.state = IF all THEN "ACTIVE" ELSE row.state
  BY <1>2 DEF WindowRow
<1>5. all => ~Claimed(row.route)
  BY <1>1 DEF MayStart
<1> HIDE DEF next
<1>6. Going(w, next)
  BY <1>1, <1>2, <1>4, <1>5 DEF Going
<1> QED BY <1>1, <1>3, <1>6, WindowWritten, Stays, Rows DEF Moves

\* A payment, and the return of the rest, are of integers.
LEMMA LinesAre ==
  ASSUME TypeInv, NEW w \in Window, window[w].state \in OpenStates, NEW n \in Int
  PROVE  /\ PayLines(w, n) \in [Account -> Int] /\ RestLines(w, n) \in [Account -> Int]
         /\ NoLines \in [Account -> Int]
         /\ \A a \in Account :
              /\ PayLines(w, n)[a] =
                   IF a = Available(Payee(window[w].route)) THEN n
                   ELSE IF a = Escrow(w) THEN -n ELSE 0
              /\ RestLines(w, n)[a] =
                   IF a = Escrow(window[w].source) THEN n
                   ELSE IF a = Escrow(w) THEN -n ELSE 0
              /\ NoLines[a] = 0
<1>1. /\ Escrow(w) \in Account /\ Escrow(window[w].source) \in Account
      /\ Available(Payee(window[w].route)) \in Account
      /\ Escrow(window[w].source) # Escrow(w)
      /\ Available(Payee(window[w].route)) # Escrow(w)
  BY Rows, WindowsAre, AccountsAre DEF Escrow, Available, Source
<1>2. NoLines \in [Account -> Int] /\ \A a \in Account : NoLines[a] = 0
  BY DEF NoLines
<1> QED BY <1>1, <1>2 DEF PayLines, RestLines, BackTo

LEMMA AdvanceMoves ==
  ASSUME TypeInv, NEW w \in Window, NEW part, advance(w, part)
  PROVE  Moves
<1> DEFINE row == window[w]
           next == [row EXCEPT !.paid = row.paid + part,
                      !.state = IF row.ended THEN "CLOSED"
                                ELSE IF row.route \in ready THEN row.state ELSE "DRAINING"]
           lines1 == IF part = 0 THEN NoLines ELSE PayLines(w, part)
           lines2 == IF row.ended THEN RestLines(w, Unpaid(w) - part) ELSE NoLines
<1>1. /\ row.state \in OpenStates /\ (row.state = "OFFERED" => row.ended)
      /\ part \in 0..Unpaid(w)
      /\ PostBoth(<<"route-lease", w, "pay", row.paid + part>>, lines1,
                  <<"route-lease", w, "refund">>, lines2)
      /\ window' = [window EXCEPT ![w] = next]
      /\ costs' = IF row.source = Working THEN costs + part ELSE costs
      /\ UNCHANGED <<given, pool, ready, request>>
  BY Rows DEF advance
<1>2. /\ row \in WindowRow /\ row.paid \in Nat /\ Unpaid(w) \in Nat /\ part \in Nat
      /\ Unpaid(w) = Budget(row.group) - row.paid /\ Budget(row.group) \in Nat
      /\ part <= Unpaid(w)
  BY <1>1, Rows
<1>3. next \in WindowRow
  <2>1. row.paid + part \in Nat
    BY <1>2
  <2> QED BY <1>1, <1>2, <2>1 DEF WindowRow, OpenStates
<1>4. /\ next.kind = row.kind /\ next.group = row.group /\ next.route = row.route
      /\ next.source = row.source /\ next.paid = row.paid + part /\ next.ended = row.ended
      /\ next.state = IF row.ended THEN "CLOSED"
                      ELSE IF row.route \in ready THEN row.state ELSE "DRAINING"
  BY <1>2 DEF WindowRow
<1> HIDE DEF next
<1>5. Going(w, next)
  BY <1>1, <1>2, <1>4 DEF Going
<1>6. lines1 \in [Account -> Int] /\ lines2 \in [Account -> Int]
  <2>1. part \in Int /\ Unpaid(w) - part \in Int
    BY <1>2
  <2> QED BY <1>1, <2>1, LinesAre
<1> HIDE DEF lines1, lines2
<1>7. LedgerTypeOK'
  BY <1>1, <1>6, Rows, PostedTwice
<1>8. costs' \in Nat
  BY <1>1, <1>2, Rows
<1> QED BY <1>1, <1>3, <1>5, <1>7, <1>8, WindowWritten, Rows DEF Moves, RequestMoves

LEMMA CancelMoves ==
  ASSUME TypeInv, NEW w \in Window, NEW leaves \in BOOLEAN, NEW part, cancel(w, leaves, part)
  PROVE  Moves
<1> DEFINE row == window[w]
           next == IF row.state = "OFFERED" THEN [row EXCEPT !.state = "CLOSED"]
                   ELSE [row EXCEPT !.state = "DRAINING", !.paid = row.paid + part,
                                    !.left = row.left \/ leaves]
<1>1. /\ row.state \in OpenStates /\ part \in 0..Unpaid(w)
      /\ (row.state = "OFFERED" => part = 0)
      /\ \/ UNCHANGED ledgerVars
         \/ Post(<<"route-lease", w, "refund">>, RestLines(w, Unpaid(w)))
         \/ Post(<<"route-lease", w, "pay", row.paid + part>>, PayLines(w, part))
      /\ window' = [window EXCEPT ![w] = next]
      /\ costs' \in {costs, costs + part}
      /\ UNCHANGED <<given, pool, ready, request>>
  BY Rows DEF cancel, Revocable
<1>2. /\ row \in WindowRow /\ row.paid \in Nat /\ Unpaid(w) \in Nat /\ part \in Nat
      /\ Unpaid(w) = Budget(row.group) - row.paid /\ Budget(row.group) \in Nat
      /\ part <= Unpaid(w)
  BY <1>1, Rows
<1>3. next \in WindowRow
  <2>1. row.paid + part \in Nat
    BY <1>2
  <2> QED BY <1>1, <1>2, <2>1 DEF WindowRow, OpenStates
<1>4. /\ next.kind = row.kind /\ next.group = row.group /\ next.route = row.route
      /\ next.source = row.source /\ next.paid = row.paid + part /\ next.ended = row.ended
      /\ next.state = IF row.state = "OFFERED" THEN "CLOSED" ELSE "DRAINING"
  BY <1>1, <1>2 DEF WindowRow
<1> HIDE DEF next
<1>5. Going(w, next)
  BY <1>1, <1>2, <1>4 DEF Going
<1>6. LedgerTypeOK'
  BY <1>1, Rows, Posted DEF ledgerVars, LedgerTypeOK
<1>7. costs' \in Nat
  BY <1>1, <1>2, Rows
<1> QED BY <1>1, <1>3, <1>5, <1>6, <1>7, WindowWritten, Rows DEF Moves, RequestMoves

LEMMA TermMoves ==
  ASSUME TypeInv, NEW w \in Window, TermsFade(w) \/ WindowEnds(w)
  PROVE  Moves
<1> DEFINE row == window[w]
           next == IF WindowEnds(w) THEN [row EXCEPT !.ended = TRUE]
                   ELSE [row EXCEPT !.cover = "SHORT"]
<1>1. /\ row.state \in OpenStates
      /\ window' = [window EXCEPT ![w] = next]
      /\ UNCHANGED <<ledgerVars, given, pool, ready, request, costs>>
  BY Rows DEF TermsFade, WindowEnds, OpenStates
<1>2. row \in WindowRow /\ row.paid <= Budget(row.group) /\ row.paid \in Nat
  BY <1>1, Rows DEF TypeInv, RowsNamed, OpenStates
<1>3. next \in WindowRow
  BY <1>2 DEF WindowRow, Times
<1>4. /\ next.kind = row.kind /\ next.group = row.group /\ next.route = row.route
      /\ next.source = row.source /\ next.paid = row.paid /\ (row.ended => next.ended)
      /\ next.state = row.state
  BY <1>2 DEF WindowRow
<1> HIDE DEF next
<1>5. Going(w, next)
  BY <1>1, <1>2, <1>4 DEF Going
<1> QED BY <1>1, <1>3, <1>5, WindowWritten, Stays, Rows DEF Moves

-----------------------------------------------------------------------------
(* Targets, and the parts of a charge.                                     *)

LEMMA TargetsAre ==
  ASSUME TypeInv
  PROVE  /\ \A g \in Group : IsFiniteSet(Counted(g)) /\ HeldFor(g) \in Nat
         /\ EssentialHeld \in Nat /\ Floor \in Nat /\ WorkingTarget \in Nat
         /\ ReserveTarget \in Nat /\ Floor <= WorkingTarget
         /\ InWorking \in Nat /\ InReserve \in Nat
<1>1. ASSUME NEW g \in Group
      PROVE  IsFiniteSet(Counted(g)) /\ HeldFor(g) \in Nat
  <2>1. Counted(g) \subseteq Window /\ \A w \in Counted(g) : Unpaid(w) \in Nat
    BY Rows DEF Counted, OpenWindows
  <2>2. IsFiniteSet(Counted(g))
    BY <2>1, WindowsAre, FS_Subset
  <2> DEFINE f == [w \in Counted(g) |-> Unpaid(w)]
  <2>3. \A w \in Counted(g) : f[w] \in Nat
    BY <2>1
  <2>4. SumFunctionOnSet(f, Counted(g)) \in Nat
    <3> HIDE DEF f
    <3> QED BY <2>2, <2>3, SumNat
  <2> QED BY <2>2, <2>4 DEF HeldFor, SumFunction
<1>2. EssentialHeld \in Nat
  <2> DEFINE f == [g \in Group |-> HeldFor(g)]
  <2>1. IsFiniteSet(Group) /\ \A g \in Group : f[g] \in Nat
    BY <1>1, CooperativeAssumption
  <2>2. SumFunctionOnSet(f, Group) \in Nat
    <3> HIDE DEF f
    <3> QED BY <2>1, SumNat
  <2> QED BY <2>2 DEF EssentialHeld, SumFunction
<1>3. \A x \in Nat, y \in Nat : x * y \in Nat
  OBVIOUS
<1>4. /\ Plan * FloorTime \in Nat /\ Plan * WorkingTime \in Nat /\ Plan * ReserveTime \in Nat
      /\ Plan * FloorTime <= Plan * WorkingTime
  <2>1. /\ Plan \in Nat /\ FloorTime \in Nat /\ WorkingTime \in Nat /\ ReserveTime \in Nat
        /\ FloorTime <= WorkingTime
    BY BudgetsAre, CooperativeAssumption
  <2>2. \A p \in Nat, x \in Nat, y \in Nat : x <= y => p * x <= p * y
    OBVIOUS
  <2> QED BY <1>3, <2>1, <2>2
<1>5. Floor \in Nat /\ WorkingTarget \in Nat /\ ReserveTarget \in Nat /\ Floor <= WorkingTarget
  BY <1>2, <1>4 DEF Floor, WorkingTarget, ReserveTarget, Gap
<1>6. InWorking \in Nat /\ InReserve \in Nat
  <2>1. Working \in Fund /\ Reserve \in Fund
    BY WindowsAre DEF Source
  <2> QED BY <2>1, Rows, AccountsAre DEF InWorking, InReserve, LedgerTypeOK
<1> QED BY <1>1, <1>2, <1>5, <1>6

\* A charge is shared without a rest: the floor is filled first, then the reserve, then
\* working capital, each no further than its target, before anything is burned.
LEMMA PartsAre ==
  ASSUME TypeInv, NEW q \in Nat
  PROVE  /\ Parts(q).working \in Nat /\ Parts(q).reserve \in Nat /\ Parts(q).burned \in Nat
         /\ Parts(q).working + Parts(q).reserve + Parts(q).burned = q
         /\ Parts(q).working <= Gap(WorkingTarget, InWorking)
         /\ Parts(q).reserve <= Gap(ReserveTarget, InReserve)
         /\ Parts(q).reserve > 0 => InWorking + Parts(q).working >= Floor
         /\ Parts(q).burned > 0 => /\ InWorking + Parts(q).working >= WorkingTarget
                                   /\ InReserve + Parts(q).reserve >= ReserveTarget
         /\ Parts(q).working > Gap(Floor, InWorking) =>
              InReserve + Parts(q).reserve >= ReserveTarget
<1> DEFINE w == InWorking
           r == InReserve
           f == Floor
           wt == WorkingTarget
           rt == ReserveTarget
<1>1. /\ w \in Nat /\ r \in Nat /\ f \in Nat /\ wt \in Nat /\ rt \in Nat /\ f <= wt
      /\ Parts(q) = recycle(q, w, r, f, wt, rt)
  BY TargetsAre DEF Parts
<1> HIDE DEF w, r, f, wt, rt
<1>2. LET parts == Parts(q) IN
      /\ parts.working \in Nat /\ parts.reserve \in Nat /\ parts.burned \in Nat
      /\ parts.working + parts.reserve + parts.burned = q
      /\ parts.working <= Gap(wt, w) /\ parts.reserve <= Gap(rt, r)
      /\ parts.reserve > 0 => w + parts.working >= f
      /\ parts.burned > 0 => w + parts.working >= wt /\ r + parts.reserve >= rt
      /\ parts.working > Gap(f, w) => r + parts.reserve >= rt
  BY <1>1 DEF recycle, Gap, Less
<1> QED BY <1>2 DEF w, r, f, wt, rt

-----------------------------------------------------------------------------
(* Requests.                                                               *)

LEMMA RequestWritten ==
  ASSUME TypeInv, NEW s \in Session, NEW r \in RequestRow, request' = [request EXCEPT ![s] = r],
         r.state = "RUNNING" =>
           /\ UNCHANGED window /\ r.window \in Window
           /\ window[r.window].state \in {"ACTIVE", "DRAINING"} /\ ~window[r.window].ended
  PROVE  RequestMoves
BY Rows DEF RequestMoves

LEMMA RequestRows ==
  ASSUME TypeInv, NEW s \in Session
  PROVE  /\ request[s] \in RequestRow /\ Requester[s] \in User /\ Hold[s] \in Nat
         /\ request[s].working \in Nat /\ request[s].reserve \in Nat /\ request[s].burned \in Nat
BY Rows, CooperativeAssumption DEF RequestRow

LEMMA QuoteMoves ==
  ASSUME TypeInv, NEW s \in Session, quote(s) \/ create(s) \/ release(s) \/ refund(s)
  PROVE  Moves
<1> DEFINE next == IF quote(s) THEN [request[s] EXCEPT !.state = "QUOTED"]
                   ELSE IF create(s) THEN [request[s] EXCEPT !.state = "QUEUED"]
                   ELSE IF release(s) THEN [request[s] EXCEPT !.state = "RELEASED"]
                   ELSE [request[s] EXCEPT !.state = "REFUNDED", !.undone = TRUE]
<1>1. /\ request' = [request EXCEPT ![s] = next]
      /\ UNCHANGED <<given, pool, ready, window, costs>>
  BY Rows DEF quote, create, release, refund
<1>2. next \in RequestRow /\ next.state # "RUNNING"
  BY RequestRows DEF RequestRow
<1>3. LedgerTypeOK'
  <2>1. CASE quote(s)
    BY <2>1, Rows DEF quote, ledgerVars, LedgerTypeOK
  <2>2. CASE create(s) \/ release(s) \/ refund(s)
    BY <2>2, Rows, Posted DEF create, release, refund
  <2> QED BY <2>1, <2>2
<1> HIDE DEF next
<1> QED BY <1>1, <1>2, <1>3, RequestWritten, Rows DEF Moves, WindowMoves

LEMMA AdmitMoves ==
  ASSUME TypeInv, NEW s \in Session, NEW w \in Window, admit(s, w)
  PROVE  Moves
<1> DEFINE next == [request[s] EXCEPT !.state = "RUNNING", !.window = w]
<1>1. /\ request' = [request EXCEPT ![s] = next]
      /\ window[w].state \in {"ACTIVE", "DRAINING"} /\ ~window[w].ended
      /\ UNCHANGED <<ledgerVars, given, pool, ready, window, costs>>
  BY Rows DEF admit, Eligible
<1>2. next \in RequestRow /\ next.state = "RUNNING" /\ next.window = w
  BY RequestRows DEF RequestRow
<1> HIDE DEF next
<1>3. RequestMoves
  BY <1>1, <1>2, RequestWritten
<1> QED BY <1>1, <1>3, Rows DEF Moves, WindowMoves, ledgerVars, LedgerTypeOK

LEMMA SettleMoves ==
  ASSUME TypeInv, NEW s \in Session, NEW charge, settleJudged(s, charge)
  PROVE  Moves
<1> DEFINE separate == Independent(Requester[s], window[request[s].window].group)
           next == [request[s] EXCEPT !.state = "SETTLED", !.separate = separate,
                      !.recent = TRUE, !.working = Parts(charge).working,
                      !.reserve = Parts(charge).reserve, !.burned = Parts(charge).burned]
<1>1. /\ charge \in 1..Hold[s] /\ request' = [request EXCEPT ![s] = next]
      /\ Post(<<"settle", s>>, SettleLines(s, charge, Parts(charge)))
      /\ UNCHANGED <<given, pool, ready, window, costs>>
  BY Rows DEF settleJudged, settle
<1>2. separate \in BOOLEAN
  BY DEF Independent
<1>3. /\ Parts(charge).working \in Nat /\ Parts(charge).reserve \in Nat
      /\ Parts(charge).burned \in Nat
  BY <1>1, PartsAre, RequestRows
<1> HIDE DEF separate
<1>4. next \in RequestRow /\ next.state # "RUNNING"
  BY <1>2, <1>3, RequestRows DEF RequestRow
<1> HIDE DEF next
<1>5. LedgerTypeOK'
  BY <1>1, Rows, Posted
<1> QED BY <1>1, <1>4, <1>5, RequestWritten, Rows DEF Moves, WindowMoves

LEMMA DayMoves ==
  ASSUME TypeInv, DayPasses
  PROVE  Moves
<1> DEFINE next == [s \in Session |-> [request[s] EXCEPT !.recent = FALSE, !.undone = FALSE]]
<1>1. /\ request' = next /\ costs' = 0
      /\ pool' = [pool EXCEPT !.healthy = IF pool.healthy = "NOW" THEN "DAY" ELSE pool.healthy]
      /\ UNCHANGED <<ledgerVars, given, ready, window>>
  BY Rows DEF DayPasses, PoolRow
<1>2. pool' \in PoolRow
  BY <1>1, Rows DEF PoolRow
<1>3. \A s \in Session : /\ next[s] \in RequestRow /\ next[s].state = request[s].state
                         /\ next[s].window = request[s].window
  BY RequestRows DEF RequestRow
<1>4. RequestMoves
  BY <1>1, <1>3 DEF RequestMoves
<1> QED BY <1>1, <1>2, <1>4, Rows DEF Moves, WindowMoves, ledgerVars, LedgerTypeOK

-----------------------------------------------------------------------------
(* Permissions.                                                            *)

\* An authority keeps its terms and its counters; a closed one keeps everything, and one
\* that is given starts from nothing.
AuthorityKept(a) ==
  LET old == authority[a]
      new == authority'[a] IN
  IF old.state = "NONE"
  THEN new = old \/ (/\ new.state = "ACTIVE" /\ new.group \in Group /\ new.used = 0
                     /\ new.spentWorking = 0 /\ new.spentReserve = 0)
  ELSE /\ new.kind = old.kind /\ new.group = old.group /\ new.windows = old.windows
       /\ new.working = old.working /\ new.reserve = old.reserve /\ new.used = old.used
       /\ new.spentWorking = old.spentWorking /\ new.spentReserve = old.spentReserve
       /\ new.state # "NONE" /\ (old.state # "ACTIVE" => new = old)

\* So does a mandate; no provider gives two for one route and kind at a time.
Rival(old, m, n) ==
  /\ m # n /\ old[m].state = "ACTIVE" /\ old[n].state = "ACTIVE"
  /\ old[m].route = old[n].route /\ old[m].provider = old[n].provider
  /\ old[m].kind = old[n].kind
MandateKept(m) ==
  LET old == mandate[m]
      new == mandate'[m] IN
  IF old.state = "NONE"
  THEN new = old \/ (/\ new.state = "ACTIVE" /\ new.used = 0
                     /\ \A n \in Mandate : ~Rival(mandate', m, n))
  ELSE /\ new.kind = old.kind /\ new.route = old.route /\ new.provider = old.provider
       /\ new.windows = old.windows /\ new.used = old.used
       /\ new.state # "NONE" /\ (old.state # "ACTIVE" => new = old)

\* A step that renews nothing.
PermitsMove ==
  /\ authority' \in [Authority -> AuthorityRow] /\ mandate' \in [Mandate -> MandateRow]
  /\ \A a \in Authority : AuthorityKept(a)
  /\ \A m \in Mandate : MandateKept(m)
  /\ UNCHANGED <<run, usage>>
  /\ \/ UNCHANGED batch
     \/ batch # <<>> /\ batch' = Tail(batch)
     \/ UNCHANGED authority /\ batch' \in Seq(Pending) /\ EssentialFirst(batch')

EconMoves == EconTypeOK' /\ UNCHANGED demand

LEMMA PermitRows ==
  ASSUME TypeInv
  PROVE  /\ authority \in [Authority -> AuthorityRow] /\ mandate \in [Mandate -> MandateRow]
         /\ \A a \in Authority :
              /\ authority[a] \in AuthorityRow
              /\ authority[a].windows \in Nat /\ authority[a].used \in Nat
              /\ authority[a].working \in Nat /\ authority[a].reserve \in Nat
              /\ authority[a].spentWorking \in Nat /\ authority[a].spentReserve \in Nat
              /\ authority[a].state # "NONE" => authority[a].group \in Group
              /\ authority[a].kind \in Kind
         /\ \A m \in Mandate : mandate[m] \in MandateRow /\ mandate[m].used \in Nat
                               /\ mandate[m].windows \in Nat /\ mandate[m].kind \in Kind
BY DEF TypeInv, PoolsTypeOK, RenewTypeOK, PermissionsNamed, AuthorityRow, MandateRow

LEMMA Idle ==
  ASSUME TypeInv, UNCHANGED <<authority, mandate, run, usage, batch>>
  PROVE  PermitsMove
<1>1. authority' = authority /\ mandate' = mandate
  OBVIOUS
<1>2. \A a \in Authority : AuthorityKept(a)
  BY <1>1, PermitRows DEF AuthorityKept
<1>3. \A m \in Mandate : MandateKept(m)
  BY <1>1, PermitRows DEF MandateKept
<1> QED BY <1>1, <1>2, <1>3, PermitRows DEF PermitsMove

LEMMA EconStepMoves ==
  ASSUME TypeInv, EconStep
  PROVE  UNCHANGED poolVars /\ EconMoves
<1>1. /\ In("classed") \subseteq User /\ In("parties") \subseteq Party
      /\ In("supports") \subseteq Declared
  BY PoolsAssumption DEF In, TypeInv
<1>2. EconTypeOK
  BY DEF TypeInv, PoolsTypeOK
<1>3. CASE \E u \in In("classed") : revokeParty(u) \/ \E p \in In("parties") : affiliate(u, p)
  BY <1>1, <1>2, <1>3 DEF revokeParty, affiliate, EconTypeOK, EconMoves
<1>4. CASE \E d \in In("supports") : support(d) \/ revokeSupport(d)
  BY <1>1, <1>2, <1>4 DEF support, revokeSupport, EconTypeOK, EconMoves
<1> QED BY <1>3, <1>4 DEF EconStep

\* A term or a state changes; nothing is counted.
LEMMA TermChanges ==
  ASSUME TypeInv, NEW a \in Authority, authority[a].state = "ACTIVE",
         NEW st \in States \ {"NONE"}, NEW t \in Times,
         authority' = [authority EXCEPT ![a] = [authority[a] EXCEPT !.state = st, !.term = t]]
  PROVE  /\ authority' \in [Authority -> AuthorityRow]
         /\ \A b \in Authority : AuthorityKept(b)
<1> DEFINE row == [authority[a] EXCEPT !.state = st, !.term = t]
<1>1. row \in AuthorityRow
  BY PermitRows DEF AuthorityRow
<1>2. /\ row.kind = authority[a].kind /\ row.group = authority[a].group
      /\ row.windows = authority[a].windows /\ row.working = authority[a].working
      /\ row.reserve = authority[a].reserve /\ row.used = authority[a].used
      /\ row.spentWorking = authority[a].spentWorking
      /\ row.spentReserve = authority[a].spentReserve /\ row.state = st
  BY PermitRows DEF AuthorityRow
<1>3. authority' = [authority EXCEPT ![a] = row]
  OBVIOUS
<1> HIDE DEF row
<1>4. authority' \in [Authority -> AuthorityRow]
  BY <1>1, <1>3, PermitRows
<1>5. authority'[a] = row /\ \A b \in Authority \ {a} : authority'[b] = authority[b]
  BY <1>3, PermitRows
<1>6. AuthorityKept(a)
  BY <1>2, <1>5 DEF AuthorityKept
<1>7. \A b \in Authority \ {a} : AuthorityKept(b)
  BY <1>5 DEF AuthorityKept
<1> QED BY <1>4, <1>6, <1>7

LEMMA AuthorizeMoves ==
  ASSUME TypeInv, NEW a \in In("authorities"), NEW g \in Group, NEW kind \in In("kinds"),
         NEW limit \in In("limits"), NEW d \in Declared \cup {NULL},
         authorize(a, g, kind, limit, d)
  PROVE  PermitsMove /\ UNCHANGED ecoVars
<1> DEFINE After(b) == IF Over(authority[b]) THEN Retired(authority[b]) ELSE authority[b]
           row == [NoAuthority EXCEPT !.state = "ACTIVE", !.kind = kind, !.group = g,
                     !.support = d, !.windows = limit.windows, !.working = limit.working,
                     !.reserve = limit.reserve]
<1>1. /\ a \in Authority /\ kind \in Kind /\ limit.windows \in Nat
      /\ limit.working \in Nat /\ limit.reserve \in Nat
  BY PoolsAssumption DEF In, TypeInv
<1>2. /\ authority[a].state = "NONE"
      /\ authority' = [[b \in Authority |-> After(b)] EXCEPT ![a] = row]
      /\ UNCHANGED <<ecoVars, mandate, run, usage, batch>>
  BY DEF authorize
<1>3. NoAuthority \in AuthorityRow /\ NoAuthority.used = 0 /\ NoAuthority.spentWorking = 0
      /\ NoAuthority.spentReserve = 0
  BY DEF NoAuthority, AuthorityRow, States, Kind, Times
<1>4. /\ row \in AuthorityRow /\ row.state = "ACTIVE" /\ row.group = g /\ row.used = 0
      /\ row.spentWorking = 0 /\ row.spentReserve = 0
  BY <1>1, <1>3 DEF AuthorityRow, States
<1>5. \A b \in Authority :
        /\ After(b) \in AuthorityRow
        /\ After(b).kind = authority[b].kind /\ After(b).group = authority[b].group
        /\ After(b).windows = authority[b].windows /\ After(b).working = authority[b].working
        /\ After(b).reserve = authority[b].reserve /\ After(b).used = authority[b].used
        /\ After(b).spentWorking = authority[b].spentWorking
        /\ After(b).spentReserve = authority[b].spentReserve
        /\ authority[b].state # "NONE" => After(b).state # "NONE"
        /\ authority[b].state # "ACTIVE" => After(b) = authority[b]
  BY PermitRows DEF Over, Retired, AuthorityRow, States
<1> HIDE DEF After, row
<1>6. /\ authority' \in [Authority -> AuthorityRow] /\ authority'[a] = row
      /\ \A b \in Authority \ {a} : authority'[b] = After(b)
  BY <1>1, <1>2, <1>4, <1>5
<1>7. AuthorityKept(a)
  BY <1>1, <1>2, <1>4, <1>6 DEF AuthorityKept
<1>8. \A b \in Authority \ {a} : AuthorityKept(b)
  BY <1>5, <1>6 DEF AuthorityKept
<1>9. \A m \in Mandate : MandateKept(m)
  BY <1>2, PermitRows DEF MandateKept
<1> QED BY <1>2, <1>6, <1>7, <1>8, <1>9, PermitRows DEF PermitsMove

LEMMA MandateMoves ==
  ASSUME TypeInv, NEW x \in In("mandates"), NEW kind \in In("kinds"), NEW n \in MandateLimits,
         mandateFor(x[1], x[2], x[3], kind, n)
  PROVE  PermitsMove /\ UNCHANGED ecoVars
<1> DEFINE m == x[1]
           r == x[2]
           u == x[3]
           After(k) == IF Over(mandate[k]) /\ mandate[k].provider = u THEN Retired(mandate[k])
                      ELSE mandate[k]
           retired == [k \in Mandate |-> After(k)]
           row == [NoMandate EXCEPT !.state = "ACTIVE", !.kind = kind, !.route = r,
                                    !.provider = u, !.windows = n]
<1>1. m \in Mandate /\ r \in Route /\ kind \in Kind /\ n \in Nat
  BY PoolsAssumption, RenewalsAssumption DEF In, TypeInv
<1>2. /\ mandate[m].state = "NONE" /\ u \in ProvidersOf[r]
      /\ \A k \in Mandate : ~(/\ retired[k].state = "ACTIVE" /\ retired[k].route = r
                              /\ retired[k].provider = u /\ retired[k].kind = kind)
      /\ mandate' = [retired EXCEPT ![m] = row]
      /\ UNCHANGED <<ecoVars, authority, run, usage, batch>>
  BY DEF mandateFor
<1>3. u \in User
  BY <1>1, <1>2, RoutesAre
<1>4. NoMandate \in MandateRow /\ NoMandate.used = 0
  BY DEF NoMandate, MandateRow, States, Kind, Times
<1>5. /\ row \in MandateRow /\ row.state = "ACTIVE" /\ row.used = 0 /\ row.route = r
      /\ row.provider = u /\ row.kind = kind
  BY <1>1, <1>3, <1>4 DEF MandateRow, States
<1>6. \A k \in Mandate :
        /\ After(k) \in MandateRow
        /\ After(k).kind = mandate[k].kind /\ After(k).route = mandate[k].route
        /\ After(k).provider = mandate[k].provider /\ After(k).windows = mandate[k].windows
        /\ After(k).used = mandate[k].used
        /\ mandate[k].state # "NONE" => After(k).state # "NONE"
        /\ mandate[k].state # "ACTIVE" => After(k) = mandate[k]
  BY PermitRows DEF Over, Retired, MandateRow, States
<1>7. \A k \in Mandate : retired[k] = After(k)
  OBVIOUS
<1> HIDE DEF After, row, m, r, u
<1>8. /\ mandate' \in [Mandate -> MandateRow] /\ mandate'[m] = row
      /\ \A k \in Mandate \ {m} : mandate'[k] = After(k)
  BY <1>1, <1>2, <1>5, <1>6
<1>9. \A k \in Mandate : ~Rival(mandate', m, k)
  BY <1>2, <1>5, <1>7, <1>8 DEF Rival
<1>10. MandateKept(m)
  BY <1>1, <1>2, <1>5, <1>8, <1>9 DEF MandateKept
<1>11. \A k \in Mandate \ {m} : MandateKept(k)
  BY <1>6, <1>8 DEF MandateKept
<1>12. \A a \in Authority : AuthorityKept(a)
  BY <1>2, PermitRows DEF AuthorityKept
<1> QED BY <1>2, <1>8, <1>10, <1>11, <1>12, PermitRows DEF PermitsMove

LEMMA AuthorityMoves ==
  ASSUME TypeInv, NEW a \in Authority, revokeAuthority(a) \/ AuthorityFades(a)
  PROVE  PermitsMove /\ UNCHANGED ecoVars
<1> DEFINE st == IF revokeAuthority(a) THEN "REVOKED" ELSE authority[a].state
           t == IF revokeAuthority(a) THEN authority[a].term
                ELSE IF authority[a].term = "LONG" THEN "SHORT" ELSE "LAPSED"
<1>1. /\ authority[a].state = "ACTIVE"
      /\ UNCHANGED <<ecoVars, mandate, run, usage, batch>>
  BY DEF revokeAuthority, AuthorityFades
<1>2. authority[a] = [authority[a] EXCEPT !.term = authority[a].term]
      /\ [authority[a] EXCEPT !.state = authority[a].state] = authority[a]
  BY PermitRows DEF AuthorityRow
<1>3. authority' = [authority EXCEPT ![a] = [authority[a] EXCEPT !.state = st, !.term = t]]
  <2>1. CASE revokeAuthority(a)
    BY <2>1, PermitRows DEF revokeAuthority, AuthorityRow
  <2>2. CASE ~revokeAuthority(a)
    BY <2>2, PermitRows DEF AuthorityFades, AuthorityRow
  <2> QED BY <2>1, <2>2
<1>4. st \in States \ {"NONE"} /\ t \in Times
  BY <1>1, PermitRows DEF AuthorityRow, States, Times
<1> HIDE DEF st, t
<1>5. /\ authority' \in [Authority -> AuthorityRow] /\ \A b \in Authority : AuthorityKept(b)
  BY <1>1, <1>3, <1>4, TermChanges
<1>6. \A m \in Mandate : MandateKept(m)
  BY <1>1, PermitRows DEF MandateKept
<1> QED BY <1>1, <1>5, <1>6, PermitRows DEF PermitsMove

LEMMA MandateEnds ==
  ASSUME TypeInv, NEW m \in Mandate, revokeMandate(m) \/ MandateFades(m)
  PROVE  PermitsMove /\ UNCHANGED ecoVars
<1> DEFINE row == IF revokeMandate(m) THEN [mandate[m] EXCEPT !.state = "REVOKED"]
                  ELSE [mandate[m] EXCEPT !.term = IF mandate[m].term = "LONG" THEN "SHORT"
                                                   ELSE "LAPSED"]
<1>1. /\ mandate[m].state = "ACTIVE" /\ mandate' = [mandate EXCEPT ![m] = row]
      /\ UNCHANGED <<ecoVars, authority, run, usage, batch>>
  BY PermitRows DEF revokeMandate, MandateFades
<1>2. /\ row \in MandateRow /\ row.kind = mandate[m].kind /\ row.route = mandate[m].route
      /\ row.provider = mandate[m].provider /\ row.windows = mandate[m].windows
      /\ row.used = mandate[m].used /\ row.state # "NONE"
  BY <1>1, PermitRows DEF MandateRow, States, Times
<1> HIDE DEF row
<1>3. /\ mandate' \in [Mandate -> MandateRow] /\ mandate'[m] = row
      /\ \A n \in Mandate \ {m} : mandate'[n] = mandate[n]
  BY <1>1, <1>2, PermitRows
<1>4. MandateKept(m)
  BY <1>1, <1>2, <1>3 DEF MandateKept
<1>5. \A n \in Mandate \ {m} : MandateKept(n)
  BY <1>3 DEF MandateKept
<1>6. \A a \in Authority : AuthorityKept(a)
  BY <1>1, PermitRows DEF AuthorityKept
<1> QED BY <1>1, <1>3, <1>4, <1>5, <1>6, PermitRows DEF PermitsMove

LEMMA ReconcileMoves ==
  ASSUME TypeInv, reconcile
  PROVE  PermitsMove /\ UNCHANGED ecoVars
<1> DEFINE After(m) == IF Over(mandate[m]) THEN Retired(mandate[m]) ELSE mandate[m]
<1>1. /\ mandate' = [m \in Mandate |-> After(m)]
      /\ UNCHANGED <<ecoVars, authority, run, usage>>
  BY DEF reconcile
<1>2. \A m \in Mandate :
        /\ After(m) \in MandateRow
        /\ After(m).kind = mandate[m].kind /\ After(m).route = mandate[m].route
        /\ After(m).provider = mandate[m].provider /\ After(m).windows = mandate[m].windows
        /\ After(m).used = mandate[m].used
        /\ mandate[m].state # "NONE" => After(m).state # "NONE"
        /\ mandate[m].state # "ACTIVE" => After(m) = mandate[m]
  BY PermitRows DEF Over, Retired, MandateRow, States
<1> HIDE DEF After
<1>3. mandate' \in [Mandate -> MandateRow] /\ \A m \in Mandate : mandate'[m] = After(m)
  BY <1>1, <1>2
<1>4. \A m \in Mandate : MandateKept(m)
  BY <1>2, <1>3 DEF MandateKept
<1>5. \A a \in Authority : AuthorityKept(a)
  BY <1>1, PermitRows DEF AuthorityKept
<1>6. batch' \in Seq(Pending) /\ EssentialFirst(batch')
  <2>1. PICK sq \in SetToSeqs(Pending) : EssentialFirst(sq) /\ batch' = sq
    BY DEF reconcile
  <2>2. IsFiniteSet(Pending)
    BY RenewalsAssumption, FS_Subset DEF Pending
  <2>3. Cardinality(Pending) \in Nat
    BY <2>2, FS_CardinalityType
  <2>4. sq \in [1..Cardinality(Pending) -> Pending]
    BY <2>1 DEF SetToSeqs
  <2> DEFINE n == Cardinality(Pending)
  <2> HIDE DEF n
  <2>5. n \in Nat /\ sq \in [1..n -> Pending]
    BY <2>3, <2>4 DEF n
  <2>6. sq \in Seq(Pending)
    BY <2>5
  <2> QED BY <2>1, <2>6
<1> QED BY <1>1, <1>3, <1>4, <1>5, <1>6, PermitRows DEF PermitsMove

LEMMA AuthorityCloses ==
  ASSUME TypeInv, NEW a \in Authority, authority[a].state = "ACTIVE",
         NEW new \in States \ {"NONE"}, authority' = [authority EXCEPT ![a].state = new]
  PROVE  /\ authority' \in [Authority -> AuthorityRow]
         /\ \A b \in Authority : AuthorityKept(b)
<1>1. authority' \in [Authority -> AuthorityRow]
  BY PermitRows DEF AuthorityRow
<1>2. LET row == authority'[a] IN
      /\ row.kind = authority[a].kind /\ row.group = authority[a].group
      /\ row.windows = authority[a].windows /\ row.working = authority[a].working
      /\ row.reserve = authority[a].reserve /\ row.used = authority[a].used
      /\ row.spentWorking = authority[a].spentWorking
      /\ row.spentReserve = authority[a].spentReserve /\ row.state = new
  BY PermitRows DEF AuthorityRow
<1>3. \A b \in Authority \ {a} : authority'[b] = authority[b]
  BY PermitRows
<1>4. AuthorityKept(a)
  BY <1>2 DEF AuthorityKept
<1>5. \A b \in Authority \ {a} : AuthorityKept(b)
  BY <1>3 DEF AuthorityKept
<1> QED BY <1>1, <1>4, <1>5

\* An authority of the batch that is not renewed.
LEMMA AttemptMoves ==
  ASSUME TypeInv, NEW a \in Authority, attempt(a),
         ~\E source \in SourceFor(a), r \in RoutesFor(a), s \in DemandFor(a) :
            Ripe(a) /\ Renewal(a, source, r, s)
  PROVE  PermitsMove /\ UNCHANGED ecoVars
<1>1. batch # <<>> /\ batch' = Tail(batch) /\ UNCHANGED <<ecoVars, mandate, run, usage>>
  BY DEF attempt
<1>2. \A m \in Mandate : MandateKept(m)
  BY <1>1, PermitRows DEF MandateKept
<1>3. authority' \in [Authority -> AuthorityRow] /\ \A b \in Authority : AuthorityKept(b)
  <2>1. ASSUME authority[a].state = "ACTIVE", NEW new \in {"EXPIRED", "EXHAUSTED"},
               authority' = [authority EXCEPT ![a].state = new]
        PROVE  authority' \in [Authority -> AuthorityRow] /\ \A b \in Authority : AuthorityKept(b)
    <3>1. new \in States \ {"NONE"}
      BY DEF States
    <3> QED BY <2>1, <3>1, AuthorityCloses
  <2>2. CASE UNCHANGED authority
    BY <2>2, PermitRows DEF AuthorityKept
  <2>3. CASE Over(authority[a]) /\ authority' = [authority EXCEPT ![a].state = "EXPIRED"]
    BY <2>1, <2>3 DEF Over
  <2>4. CASE Exhausted(a) /\ authority' = [authority EXCEPT ![a].state = "EXHAUSTED"]
    BY <2>1, <2>4 DEF Exhausted
  <2> QED BY <2>2, <2>3, <2>4 DEF attempt
<1> QED BY <1>1, <1>2, <1>3, PermitRows DEF PermitsMove

-----------------------------------------------------------------------------
(* A renewal.                                                              *)

\* What a window takes from its authority, and from a mandate.
AuthorityUsed(a, source) ==
  LET old == authority[a]
      new == authority'[a]
      cost == Budget(old.group) IN
  /\ new.state \in {"ACTIVE", "EXHAUSTED"}
  /\ new.kind = old.kind /\ new.group = old.group /\ new.windows = old.windows
  /\ new.working = old.working /\ new.reserve = old.reserve
  /\ new.used = old.used + 1 /\ new.used <= new.windows
  /\ new.spentWorking = old.spentWorking + (IF source = Working THEN cost ELSE 0)
  /\ new.spentReserve = old.spentReserve + (IF source = Reserve THEN cost ELSE 0)
  /\ source = Working => new.spentWorking <= new.working
  /\ source = Reserve => new.spentReserve <= new.reserve
MandateTaken(m, r, kind) ==
  LET old == mandate[m]
      new == mandate'[m] IN
  /\ old.state = "ACTIVE" /\ old.route = r /\ old.kind = kind
  /\ new.state \in {"ACTIVE", "EXHAUSTED"}
  /\ new.kind = old.kind /\ new.route = old.route /\ new.provider = old.provider
  /\ new.windows = old.windows /\ new.used = old.used + 1 /\ new.used <= new.windows

Renews(a, w, source, r, s) ==
  LET g == authority[a].group
      kind == authority[a].kind
      row == window'[w] IN
  /\ authority[a].state = "ACTIVE" /\ window[w].state = "NONE"
  /\ row.state = "ACTIVE" /\ row.kind = kind /\ row.group = g /\ row.route = r
  /\ row.source = source
  /\ \A v \in Window \ {w} : /\ window'[v] = window[v] /\ run'[v] = run[v]
                             /\ usage'[v] = usage[v] /\ demand'[v] = demand[v]
  /\ \A b \in Authority \ {a} : authority'[b] = authority[b]
  /\ AuthorityUsed(a, source)
  /\ \A m \in Mandate : IF m \in usage'[w] THEN MandateTaken(m, r, kind)
                        ELSE mandate'[m] = mandate[m]
  /\ {mandate[m].provider : m \in usage'[w]} = ProvidersOf[r]
  /\ run'[w] = a /\ demand'[w] = s
  /\ kind = "EXPANSION" => source = Working /\ s \in Session /\ \A v \in Window : demand[v] # s
  /\ kind = "ESSENTIAL" => s = NULL

\* Types of what a renewal writes.
RenewalTypes ==
  /\ authority' \in [Authority -> AuthorityRow] /\ mandate' \in [Mandate -> MandateRow]
  /\ run' \in [Window -> Authority \cup {NULL}] /\ usage' \in [Window -> SUBSET Mandate]
  /\ demand' \in [Window -> Session \cup {NULL}] /\ party' = party /\ declared' = declared

LEMMA PoolRowsOf ==
  ASSUME TypeInv
  PROVE  /\ run \in [Window -> Authority \cup {NULL}] /\ usage \in [Window -> SUBSET Mandate]
         /\ demand \in [Window -> Session \cup {NULL}] /\ batch \in Seq(Authority)
         /\ party \in [User -> Party \cup {NULL}]
         /\ declared \in [Declared -> {"NONE", "VALID", "OVER"}]
BY DEF TypeInv, PoolsTypeOK, RenewTypeOK, EconTypeOK

LEMMA AuthorityIsUsed ==
  ASSUME TypeInv, NEW a \in Authority, NEW source \in SourceFor(a), Ripe(a),
         authority' = [authority EXCEPT ![a] = Consumed(a, source)]
  PROVE  /\ authority' \in [Authority -> AuthorityRow] /\ AuthorityUsed(a, source)
         /\ \A b \in Authority \ {a} : authority'[b] = authority[b]
<1> DEFINE old == authority[a]
           cost == Budget(old.group)
           byW == IF source = Working THEN cost ELSE 0
           byR == IF source = Reserve THEN cost ELSE 0
           row == [old EXCEPT !.used = old.used + 1, !.spentWorking = old.spentWorking + byW,
                              !.spentReserve = old.spentReserve + byR]
           new == Consumed(a, source)
<1>1. /\ old \in AuthorityRow /\ old.state = "ACTIVE" /\ old.group \in Group /\ cost \in Nat
      /\ old.used \in Nat /\ old.windows \in Nat /\ old.working \in Nat
      /\ old.reserve \in Nat /\ old.spentWorking \in Nat /\ old.spentReserve \in Nat
  BY PermitRows, BudgetsAre DEF Ripe
<1>2. /\ old.used < old.windows
      /\ source = Working => old.spentWorking + cost <= old.working
      /\ source = Reserve => old.spentReserve + cost <= old.reserve
      /\ source \in Source
  BY <1>1, WindowsAre DEF Ripe, Spent, SourceFor, WorkingLeft, ReserveLeft, Source
<1>3. /\ byW \in Nat /\ byR \in Nat /\ old.used + 1 \in Nat
      /\ old.spentWorking + byW \in Nat /\ old.spentReserve + byR \in Nat
  BY <1>1
<1>4. row = [old EXCEPT !.used = old.used + 1,
               !.spentWorking = IF source = Working THEN old.spentWorking + cost
                                ELSE old.spentWorking,
               !.spentReserve = IF source = Reserve THEN old.spentReserve + cost
                                ELSE old.spentReserve]
  <2>1. /\ old.spentWorking + byW = IF source = Working THEN old.spentWorking + cost
                                    ELSE old.spentWorking
        /\ old.spentReserve + byR = IF source = Reserve THEN old.spentReserve + cost
                                    ELSE old.spentReserve
    BY <1>1
  <2> QED BY <2>1
<1>5. new = row \/ new = [row EXCEPT !.state = "EXHAUSTED"]
  BY <1>4 DEF Consumed, Committed
<1> HIDE DEF byW, byR
<1>6. row \in AuthorityRow
  BY <1>1, <1>3 DEF AuthorityRow
<1>7. /\ row.state = old.state /\ row.kind = old.kind /\ row.group = old.group
      /\ row.windows = old.windows /\ row.working = old.working /\ row.reserve = old.reserve
      /\ row.used = old.used + 1 /\ row.spentWorking = old.spentWorking + byW
      /\ row.spentReserve = old.spentReserve + byR
  BY <1>1 DEF AuthorityRow
<1> HIDE DEF row, new
<1>8. /\ new \in AuthorityRow /\ new.state \in {"ACTIVE", "EXHAUSTED"} /\ new.kind = old.kind
      /\ new.group = old.group /\ new.windows = old.windows /\ new.working = old.working
      /\ new.reserve = old.reserve /\ new.used = old.used + 1
      /\ new.spentWorking = old.spentWorking + byW
      /\ new.spentReserve = old.spentReserve + byR
  BY <1>1, <1>5, <1>6, <1>7 DEF AuthorityRow, States
<1>9. /\ authority' \in [Authority -> AuthorityRow] /\ authority'[a] = new
      /\ \A b \in Authority \ {a} : authority'[b] = authority[b]
  BY <1>8, PermitRows DEF new
<1>10. AuthorityUsed(a, source)
  BY <1>1, <1>2, <1>8, <1>9 DEF AuthorityUsed, byW, byR
<1> QED BY <1>9, <1>10

LEMMA MandatesAreTaken ==
  ASSUME TypeInv, NEW r, NEW kind, NEW taken, taken = MandatesOf(r, kind),
         mandate' = [m \in Mandate |-> IF m \in taken THEN MandateUsed(mandate[m])
                                       ELSE mandate[m]]
  PROVE  /\ mandate' \in [Mandate -> MandateRow] /\ taken \subseteq Mandate
         /\ \A m \in Mandate : IF m \in taken THEN MandateTaken(m, r, kind)
                               ELSE mandate'[m] = mandate[m]
<1>1. taken \subseteq Mandate /\ \A m \in taken : Mandated(m, r, kind)
  BY DEF MandatesOf
<1>2. ASSUME NEW m \in taken
      PROVE  MandateUsed(mandate[m]) \in MandateRow /\ MandateTaken(m, r, kind)
  <2> DEFINE old == mandate[m]
             new == MandateUsed(old)
  <2>1. /\ m \in Mandate /\ old \in MandateRow /\ old.used \in Nat /\ old.windows \in Nat
        /\ old.state = "ACTIVE" /\ old.used < old.windows /\ old.route = r /\ old.kind = kind
    BY <1>1, PermitRows DEF Mandated
  <2>2. old.used + 1 \in Nat
    BY <2>1
  <2>3. /\ new \in MandateRow /\ new.state \in {"ACTIVE", "EXHAUSTED"}
        /\ new.kind = old.kind /\ new.route = old.route /\ new.provider = old.provider
        /\ new.windows = old.windows /\ new.used = old.used + 1
    BY <2>1, <2>2 DEF MandateUsed, MandateRow, States
  <2>4. mandate'[m] = new
    BY <2>1
  <2> HIDE DEF new
  <2>5. MandateTaken(m, r, kind)
    BY <2>1, <2>3, <2>4 DEF MandateTaken
  <2> QED BY <2>3, <2>5 DEF new
<1>3. mandate' \in [Mandate -> MandateRow]
  BY <1>2, PermitRows
<1>4. \A m \in Mandate : m \notin taken => mandate'[m] = mandate[m]
  OBVIOUS
<1> QED BY <1>1, <1>2, <1>3, <1>4

LEMMA RenewalIs ==
  ASSUME TypeInv, NEW a \in Authority, Ripe(a), NEW source \in SourceFor(a),
         NEW r \in RoutesFor(a), NEW s \in DemandFor(a), Renewal(a, source, r, s)
  PROVE  /\ NextWindow \in Window /\ r \in Route /\ source \in Source
         /\ Renews(a, NextWindow, source, r, s) /\ RenewalTypes /\ Moves
<1> DEFINE w == NextWindow
           g == authority[a].group
           kind == authority[a].kind
           taken == MandatesOf(r, kind)
           given0 == Offered(g, kind, source, r)
           row == [given0 EXCEPT !.state = "ACTIVE", !.accepted = ProvidersOf[r]]
<1>1. /\ MayOffer(g, kind, source, r) /\ MayStart(given0) /\ PostOffer(w, g, source)
      /\ window' = [window EXCEPT ![w] = row]
      /\ authority' = [authority EXCEPT ![a] = Consumed(a, source)]
      /\ mandate' = [m \in Mandate |-> IF m \in taken THEN MandateUsed(mandate[m])
                                       ELSE mandate[m]]
      /\ run' = [run EXCEPT ![w] = a] /\ usage' = [usage EXCEPT ![w] = taken]
      /\ demand' = [demand EXCEPT ![w] = s]
      /\ UNCHANGED <<given, pool, ready, request, costs, party, declared>>
  BY DEF Renewal
<1>2. w \in Window /\ window[w].state = "NONE"
  BY <1>1, NextIs DEF MayOffer
<1>3. /\ authority[a].state = "ACTIVE" /\ g \in Group /\ kind \in Kind
  BY PermitRows DEF Ripe
<1>4. /\ r \in RoutesOf[g] /\ r \in Route /\ ProvidersOf[r] \subseteq User
      /\ Vacant(g, kind) /\ (kind = "EXPANSION" => source = Working)
  BY <1>1, <1>3, RoutesAre DEF MayOffer, Candidates
<1>5. source \in Source
  BY DEF SourceFor, Source
<1>6. /\ given0 \in WindowRow /\ given0.state = "OFFERED" /\ given0.kind = kind
      /\ given0.group = g /\ given0.route = r /\ given0.source = source /\ given0.paid = 0
      /\ ~given0.ended
  BY <1>3, <1>4, <1>5, OfferedIs
<1>7. ~Claimed(r)
  BY <1>1, <1>6 DEF MayStart
<1>8. AllMandated(r, kind)
  BY DEF RoutesFor
<1>9. s \in Session \cup {NULL} /\ (kind = "ESSENTIAL" => s = NULL)
      /\ (kind = "EXPANSION" => s \in Session /\ \A v \in Window : demand[v] # s)
  BY DEF DemandFor, Backs
<1> HIDE DEF given0
<1>10. /\ row \in WindowRow /\ row.state = "ACTIVE" /\ row.kind = kind /\ row.group = g
       /\ row.route = r /\ row.source = source /\ row.paid = 0 /\ ~row.ended
  BY <1>4, <1>6 DEF WindowRow, OpenStates
<1> HIDE DEF row
<1>11. Opening(w, row)
  BY <1>2, <1>3, <1>4, <1>7, <1>10 DEF Opening
<1> HIDE DEF w
<1>12. WindowMoves
  BY <1>1, <1>2, <1>10, <1>11, WindowWritten
<1>13. LedgerTypeOK'
  BY <1>1, Rows, Posted DEF PostOffer
<1>14. Moves
  BY <1>1, <1>12, <1>13, Rows DEF Moves, RequestMoves
<1>15. window'[w] = row /\ \A v \in Window \ {w} : window'[v] = window[v]
  BY <1>1, <1>2, Rows
<1>16. /\ run' \in [Window -> Authority \cup {NULL}] /\ run'[w] = a
       /\ demand' \in [Window -> Session \cup {NULL}] /\ demand'[w] = s
       /\ \A v \in Window \ {w} : run'[v] = run[v] /\ usage'[v] = usage[v] /\ demand'[v] = demand[v]
  BY <1>1, <1>2, <1>9, PoolRowsOf
<1>17. /\ authority' \in [Authority -> AuthorityRow] /\ AuthorityUsed(a, source)
       /\ \A b \in Authority \ {a} : authority'[b] = authority[b]
  BY <1>1, AuthorityIsUsed
<1> HIDE DEF taken
<1>18. /\ mandate' \in [Mandate -> MandateRow] /\ taken \subseteq Mandate
       /\ \A m \in Mandate : IF m \in taken THEN MandateTaken(m, r, kind)
                             ELSE mandate'[m] = mandate[m]
  <2> HIDE DEF kind
  <2>1. taken = MandatesOf(r, kind)
    BY DEF taken, kind
  <2> QED BY <1>1, <2>1, MandatesAreTaken
<1>19. usage' \in [Window -> SUBSET Mandate] /\ usage'[w] = taken
  BY <1>1, <1>2, <1>18, PoolRowsOf
<1>20. {mandate[m].provider : m \in usage'[w]} = ProvidersOf[r]
  BY <1>8, <1>19 DEF AllMandated, taken
<1>21. RenewalTypes
  BY <1>1, <1>16, <1>17, <1>18, <1>19 DEF RenewalTypes
<1>22. Renews(a, w, source, r, s)
  BY <1>2, <1>3, <1>4, <1>9, <1>10, <1>15, <1>16, <1>17, <1>18, <1>19, <1>20 DEF Renews
<1> QED BY <1>2, <1>4, <1>5, <1>14, <1>21, <1>22 DEF w

-----------------------------------------------------------------------------
(* Every step.                                                             *)

\* A step that renews no window, and one that renews one.
QuietStep ==
  /\ Moves /\ EconMoves /\ PermitsMove
  /\ \A w \in Window : NewWindow(w) => window'[w].kind = "ESSENTIAL"
RenewalStep ==
  /\ Moves /\ RenewalTypes /\ batch # <<>> /\ batch' = Tail(batch)
  /\ \E a \in Authority, source \in Source, r \in Route, s \in Session \cup {NULL} :
       /\ NextWindow \in Window /\ Renews(a, NextWindow, source, r, s)
       /\ Ripe(a) /\ source \in SourceFor(a) /\ s \in DemandFor(a)
       /\ Renewal(a, source, r, s)

LEMMA PoolStays ==
  ASSUME TypeInv, UNCHANGED poolVars
  PROVE  Moves
BY Rows DEF Moves, WindowMoves, RequestMoves, poolVars, coopVars, ledgerVars, LedgerTypeOK

LEMMA CoopMoves ==
  ASSUME TypeInv, CoopStep
  PROVE  Moves
<1>1. /\ In("givers") \subseteq User /\ In("requests") \subseteq Session
      /\ In("flaky") \subseteq Route
  BY PoolsAssumption DEF In, TypeInv
<1>2. CASE \E u \in In("givers"), s \in Source, n \in Gifts : fund(u, s, n)
  BY <1>1, <1>2, GiftMoves
<1>3. CASE \/ \E p \in BOOLEAN, t \in {"LONG", "SHORT"} : manage(p, t)
           \/ sample \/ SamplesStop \/ SupportFades
  BY <1>3, PoolMoves
<1>4. CASE \E g \in Group, s \in Source, r \in Route : offer(g, s, r)
  BY <1>4, OfferMoves
<1>5. ASSUME NEW w \in Window,
             \/ \E u \in User : accept(w, u)
             \/ \E part \in In("parts") : advance(w, part)
             \/ \E leaves \in BOOLEAN, part \in In("parts") : cancel(w, leaves, part)
             \/ TermsFade(w) \/ WindowEnds(w)
      PROVE  Moves
  BY <1>5, AcceptMoves, AdvanceMoves, CancelMoves, TermMoves
<1>6. ASSUME NEW s \in In("requests"),
             \/ quote(s) \/ create(s) \/ release(s) \/ refund(s)
             \/ \E w \in Window : admit(s, w)
             \/ \E charge \in Charges : settleJudged(s, charge)
      PROVE  Moves
  BY <1>1, <1>6, QuoteMoves, AdmitMoves, SettleMoves
<1>7. CASE DayPasses
  BY <1>7, DayMoves
<1>8. CASE \E r \in In("flaky") : Listed(r)
  BY <1>1, <1>8, ListedMoves
<1> QED BY <1>2, <1>3, <1>4, <1>5, <1>6, <1>7, <1>8 DEF CoopStep

\* By hand, only an offer opens a window.
LEMMA CoopOpens ==
  ASSUME TypeInv, CoopStep, NEW w \in Window, NewWindow(w)
  PROVE  \E g \in Group, s \in Source, r \in Route : offer(g, s, r) /\ w = NextWindow
<1>1. window' # window /\ window[w].state = "NONE"
  BY DEF NewWindow
<1>2. ASSUME NEW v \in Window,
             \/ \E u \in User : accept(v, u)
             \/ \E part \in In("parts") : advance(v, part)
             \/ \E leaves \in BOOLEAN, part \in In("parts") : cancel(v, leaves, part)
             \/ TermsFade(v) \/ WindowEnds(v)
      PROVE  FALSE
  <2>1. window[v].state \in OpenStates
    BY <1>2 DEF accept, advance, cancel, TermsFade, WindowEnds, OpenStates
  <2>2. w # v
    BY <1>1, <2>1 DEF OpenStates
  <2>3. window'[w] = window[w]
    BY <1>2, <2>2, Rows DEF accept, advance, cancel, TermsFade, WindowEnds
  <2> QED BY <2>3 DEF NewWindow
<1>3. ASSUME NEW s \in In("requests"),
             \/ quote(s) \/ create(s) \/ release(s) \/ refund(s)
             \/ \E v \in Window : admit(s, v)
             \/ \E charge \in Charges : settleJudged(s, charge)
      PROVE  FALSE
  BY <1>1, <1>3 DEF quote, create, release, refund, admit, settleJudged, settle
<1>4. ASSUME \/ \E u \in In("givers"), s \in Source, n \in Gifts : fund(u, s, n)
             \/ \E p \in BOOLEAN, t \in {"LONG", "SHORT"} : manage(p, t)
             \/ sample \/ SamplesStop \/ DayPasses \/ SupportFades
             \/ \E r \in In("flaky") : Listed(r)
      PROVE  FALSE
  BY <1>1, <1>4 DEF fund, manage, sample, SamplesStop, DayPasses, SupportFades, Listed
<1>5. ASSUME NEW g \in Group, NEW s \in Source, NEW r \in Route, offer(g, s, r)
      PROVE  w = NextWindow
  <2>1. NextWindow \in Window
    BY <1>5, NextIs DEF offer, MayOffer
  <2>2. ASSUME w # NextWindow PROVE FALSE
    <3>1. window'[w] = window[w]
      BY <1>5, <2>1, <2>2, Rows DEF offer
    <3> QED BY <3>1 DEF NewWindow
  <2> QED BY <2>2
<1> QED BY <1>2, <1>3, <1>4, <1>5 DEF CoopStep

LEMMA OffersAreEssential ==
  ASSUME TypeInv, CoopStep, NEW w \in Window, NewWindow(w)
  PROVE  window'[w].kind = "ESSENTIAL"
<1>1. PICK g \in Group, s \in Source, r \in Route : offer(g, s, r) /\ w = NextWindow
  BY CoopOpens
<1>2. window'[w] = Offered(g, "ESSENTIAL", s, r)
  BY <1>1, Rows DEF offer
<1> QED BY <1>2, OfferedIs DEF Kind

LEMMA RenewMoves ==
  ASSUME TypeInv, RenewStep
  PROVE  RenewalStep \/ (PermitsMove /\ UNCHANGED ecoVars)
<1>1. In("authorities") \subseteq Authority
  BY PoolsAssumption DEF In, TypeInv
<1>2. CASE \E a \in In("authorities"), g \in Group, kind \in In("kinds"), limit \in In("limits"),
              d \in Declared \cup {NULL} : authorize(a, g, kind, limit, d)
  BY <1>2, AuthorizeMoves
<1>3. CASE \E a \in Authority : revokeAuthority(a) \/ AuthorityFades(a)
  BY <1>3, AuthorityMoves
<1>4. CASE \E x \in In("mandates"), kind \in In("kinds"), n \in MandateLimits :
              mandateFor(x[1], x[2], x[3], kind, n)
  BY <1>4, MandateMoves
<1>5. CASE \E m \in Mandate : MandateFades(m) \/ revokeMandate(m)
  BY <1>5, MandateEnds
<1>6. CASE reconcile
  BY <1>6, ReconcileMoves
<1>7. ASSUME NEW a \in Authority, attempt(a)
      PROVE  RenewalStep \/ (PermitsMove /\ UNCHANGED ecoVars)
  <2>1. CASE \E source \in SourceFor(a), r \in RoutesFor(a), s \in DemandFor(a) :
               Ripe(a) /\ Renewal(a, source, r, s)
    <3>1. PICK source \in SourceFor(a), r \in RoutesFor(a), s \in DemandFor(a) :
                 Ripe(a) /\ Renewal(a, source, r, s)
      BY <2>1
    <3>2. /\ NextWindow \in Window /\ r \in Route /\ source \in Source
          /\ Renews(a, NextWindow, source, r, s) /\ RenewalTypes /\ Moves
      BY <3>1, RenewalIs
    <3>3. s \in Session \cup {NULL}
      BY DEF DemandFor
    <3>4. batch # <<>> /\ batch' = Tail(batch)
      BY <1>7 DEF attempt
    <3> QED BY <3>1, <3>2, <3>3, <3>4 DEF RenewalStep
  <2>2. CASE ~\E source \in SourceFor(a), r \in RoutesFor(a), s \in DemandFor(a) :
                Ripe(a) /\ Renewal(a, source, r, s)
    BY <1>7, <2>2, AttemptMoves
  <2> QED BY <2>1, <2>2
<1> QED BY <1>1, <1>2, <1>3, <1>4, <1>5, <1>6, <1>7 DEF RenewStep

LEMMA Steps ==
  ASSUME TypeInv, [Next]_allVars
  PROVE  (QuietStep \/ RenewalStep) /\ scene' = scene
<1>1. CASE CoopStep /\ UNCHANGED <<econVars, renewVars>> /\ UNCHANGED scene
  BY <1>1, CoopMoves, OffersAreEssential, Idle DEF QuietStep, EconMoves, EconTypeOK, TypeInv,
     PoolsTypeOK, econVars, renewVars
<1>2. CASE EconStep /\ UNCHANGED renewVars /\ UNCHANGED scene
  <2>1. UNCHANGED poolVars /\ EconMoves
    BY <1>2, EconStepMoves
  <2>2. \A w \in Window : ~NewWindow(w)
    BY <2>1 DEF poolVars, coopVars, NewWindow
  <2> QED BY <1>2, <2>1, <2>2, PoolStays, Idle DEF QuietStep, renewVars
<1>3. CASE RenewStep /\ UNCHANGED scene
  <2>1. CASE PermitsMove /\ UNCHANGED ecoVars
    <3>1. UNCHANGED <<poolVars, party, declared, demand>>
      BY <2>1 DEF ecoVars, econVars
    <3>2. EconMoves
      BY <3>1, PoolRowsOf DEF EconMoves, EconTypeOK
    <3>3. \A w \in Window : ~NewWindow(w)
      BY <3>1 DEF poolVars, coopVars, NewWindow
    <3> QED BY <1>3, <2>1, <3>1, <3>2, <3>3, PoolStays DEF QuietStep
  <2> QED BY <1>3, <2>1, RenewMoves
<1>4. CASE UNCHANGED allVars
  <2>1. /\ UNCHANGED <<poolVars, party, declared, demand>>
        /\ UNCHANGED <<authority, mandate, run, usage, batch, scene>>
    BY <1>4 DEF allVars, vars, ecoVars, econVars, renewVars
  <2>2. EconMoves
    BY <2>1, PoolRowsOf DEF EconMoves, EconTypeOK
  <2>3. \A w \in Window : ~NewWindow(w)
    BY <2>1 DEF poolVars, coopVars, NewWindow
  <2> QED BY <2>1, <2>2, <2>3, PoolStays, Idle DEF QuietStep
<1> QED BY <1>1, <1>2, <1>3, <1>4 DEF Next

\* A window's row after a step: as it was, opened, or going on.
LEMMA WindowsNext ==
  ASSUME TypeInv, WindowMoves
  PROVE  /\ window' \in [Window -> WindowRow]
         /\ \A w \in Window :
              \/ window'[w] = window[w]
              \/ window'[w] \in WindowRow /\ (Opening(w, window'[w]) \/ Going(w, window'[w]))
<1>1. CASE UNCHANGED window
  BY <1>1, Rows
<1>2. CASE ~UNCHANGED window
  <2>1. PICK w \in Window, r \in WindowRow :
          window' = [window EXCEPT ![w] = r] /\ (Opening(w, r) \/ Going(w, r))
    BY <1>2 DEF WindowMoves
  <2>2. window' \in [Window -> WindowRow] /\ window'[w] = r
        /\ \A v \in Window \ {w} : window'[v] = window[v]
    BY <2>1, Rows
  <2> QED BY <2>1, <2>2
<1> QED BY <1>1, <1>2

LEMMA RowsStay ==
  ASSUME TypeInv, WindowMoves
  PROVE  /\ RowsNamed'
         /\ \A w \in Window : window[w].state # "NONE" =>
              /\ window'[w].state # "NONE" /\ window'[w].kind = window[w].kind
              /\ window'[w].group = window[w].group /\ window'[w].route = window[w].route
              /\ window'[w].source = window[w].source
<1>1. SUFFICES ASSUME NEW w \in Window
      PROVE  /\ window'[w].state = "NONE" => window'[w] = NoWindow
             /\ window'[w].state # "NONE" =>
                  /\ window'[w].group \in Group /\ window'[w].route \in RoutesOf[window'[w].group]
                  /\ window'[w].paid <= Budget(window'[w].group)
             /\ window[w].state # "NONE" =>
                  /\ window'[w].state # "NONE" /\ window'[w].kind = window[w].kind
                  /\ window'[w].group = window[w].group /\ window'[w].route = window[w].route
                  /\ window'[w].source = window[w].source
  BY DEF RowsNamed
<1> DEFINE r == window'[w]
<1>2. /\ window[w].state = "NONE" => window[w] = NoWindow
      /\ window[w].state # "NONE" =>
           /\ window[w].group \in Group /\ window[w].route \in RoutesOf[window[w].group]
           /\ window[w].paid <= Budget(window[w].group)
  BY DEF TypeInv, RowsNamed
<1>3. CASE r = window[w]
  BY <1>2, <1>3
<1>4. CASE Opening(w, r)
  <2>1. r.group \in Group /\ r.route \in RoutesOf[r.group] /\ r.paid = 0
        /\ r.state # "NONE" /\ window[w].state = "NONE"
    BY <1>4 DEF Opening
  <2>2. Budget(r.group) \in Nat
    BY <2>1, BudgetsAre
  <2> HIDE DEF r
  <2> QED BY <2>1, <2>2 DEF r
<1>5. CASE Going(w, r)
  <2>1. /\ window[w].state \in OpenStates /\ r.kind = window[w].kind
        /\ r.group = window[w].group /\ r.route = window[w].route
        /\ r.source = window[w].source /\ r.paid <= Budget(r.group)
        /\ r.state # "NONE" /\ window[w].state # "NONE"
    BY <1>5 DEF Going, OpenStates
  <2> HIDE DEF r
  <2> QED BY <1>2, <2>1 DEF r
<1> QED BY <1>3, <1>4, <1>5, WindowsNext

LEMMA RequestsStay ==
  ASSUME TypeInv, WindowMoves, RequestMoves
  PROVE  RequestsNamed'
<1> SUFFICES ASSUME NEW s \in Session, request'[s].state = "RUNNING"
             PROVE  request'[s].window \in Window /\ window'[request'[s].window].state # "NONE"
  BY DEF RequestsNamed
<1>1. CASE request[s].state = "RUNNING" /\ request'[s].window = request[s].window
  BY <1>1, RowsStay DEF TypeInv, RequestsNamed
<1>2. CASE /\ UNCHANGED window /\ request'[s].window \in Window
           /\ window[request'[s].window].state \in {"ACTIVE", "DRAINING"}
  BY <1>2
<1> QED BY <1>1, <1>2 DEF RequestMoves

LEMMA BatchMoves ==
  ASSUME TypeInv, PermitsMove \/ (batch # <<>> /\ batch' = Tail(batch))
  PROVE  /\ batch' \in Seq(Authority)
         /\ \/ batch' = batch
            \/ /\ DOMAIN batch' = 1..(Len(batch) - 1) /\ Len(batch) \in Nat
               /\ DOMAIN batch = 1..Len(batch)
               /\ \A i \in DOMAIN batch' : batch'[i] = batch[i + 1] /\ i + 1 \in DOMAIN batch
            \/ /\ UNCHANGED authority /\ EssentialFirst(batch')
               /\ \A i \in DOMAIN batch' : batch'[i] \in Pending
<1>1. batch \in Seq(Authority)
  BY PoolRowsOf
<1>2. CASE UNCHANGED batch
  BY <1>1, <1>2
<1>3. CASE batch # <<>> /\ batch' = Tail(batch)
  BY <1>1, <1>3
<1>4. CASE UNCHANGED authority /\ batch' \in Seq(Pending) /\ EssentialFirst(batch')
  <2>1. Pending \subseteq Authority
    BY DEF Pending
  <2>2. \A i \in DOMAIN batch' : batch'[i] \in Pending
    BY <1>4, ElementOfSeq
  <2>3. batch' \in Seq(Authority)
    BY <1>4, <2>1
  <2> QED BY <1>4, <2>2, <2>3
<1> QED BY <1>2, <1>3, <1>4 DEF PermitsMove

LEMMA QuietPermissions ==
  ASSUME TypeInv, QuietStep
  PROVE  PermissionsNamed' /\ RenewTypeOK'
<1>1. /\ \A a \in Authority : AuthorityKept(a)
      /\ \A m \in Mandate : MandateKept(m)
      /\ run' = run /\ usage' = usage /\ demand' = demand
      /\ authority' \in [Authority -> AuthorityRow] /\ mandate' \in [Mandate -> MandateRow]
  BY DEF QuietStep, PermitsMove, EconMoves
<1>2. PermissionsNamed
  BY DEF TypeInv
<1>3. \A a \in Authority : /\ authority[a].state # "NONE" => authority'[a].state # "NONE"
                           /\ IF authority'[a].state = "NONE" THEN authority'[a] = NoAuthority
                              ELSE authority'[a].group \in Group
  BY <1>1, <1>2 DEF AuthorityKept, PermissionsNamed
<1>4. \A m \in Mandate : mandate'[m].state = "NONE" => mandate'[m] = NoMandate
  BY <1>1, <1>2 DEF MandateKept, PermissionsNamed
<1>5. \A w \in Window : window'[w].state = "NONE" =>
        run'[w] = NULL /\ usage'[w] = {} /\ demand'[w] = NULL
  BY <1>1, <1>2, RowsStay DEF QuietStep, Moves, PermissionsNamed
<1>6. batch' \in Seq(Authority) /\ \A i \in DOMAIN batch' : authority'[batch'[i]].state # "NONE"
  <2>1. \A i \in DOMAIN batch : batch[i] \in Authority /\ authority[batch[i]].state # "NONE"
    BY <1>2, PoolRowsOf, ElementOfSeq DEF PermissionsNamed
  <2>2. \A b \in Pending : b \in Authority /\ authority[b].state # "NONE"
    BY DEF Pending
  <2>3. PermitsMove
    BY DEF QuietStep
  <2> QED BY <1>3, <2>1, <2>2, <2>3, BatchMoves
<1> QED BY <1>1, <1>3, <1>4, <1>5, <1>6, PoolRowsOf DEF PermissionsNamed, RenewTypeOK

LEMMA RenewalPermissions ==
  ASSUME TypeInv, RenewalStep
  PROVE  PermissionsNamed' /\ RenewTypeOK' /\ EconTypeOK'
<1>1. PICK a \in Authority, source \in Source, r \in Route, s \in Session \cup {NULL} :
        NextWindow \in Window /\ Renews(a, NextWindow, source, r, s)
  BY DEF RenewalStep
<1> DEFINE w == NextWindow
<1>2. /\ authority[a].state = "ACTIVE" /\ window'[w].state = "ACTIVE" /\ w \in Window
      /\ \A v \in Window \ {w} : /\ window'[v] = window[v] /\ run'[v] = run[v]
                                 /\ usage'[v] = usage[v] /\ demand'[v] = demand[v]
      /\ \A b \in Authority \ {a} : authority'[b] = authority[b]
      /\ AuthorityUsed(a, source)
      /\ \A m \in Mandate : MandateTaken(m, r, authority[a].kind) \/ mandate'[m] = mandate[m]
  BY <1>1 DEF Renews
<1>3. RenewalTypes
  BY DEF RenewalStep
<1>4. PermissionsNamed
  BY DEF TypeInv
<1> HIDE DEF w
<1>5. authority'[a].state # "NONE" /\ authority'[a].group = authority[a].group
  BY <1>2 DEF AuthorityUsed
<1>6. \A b \in Authority : /\ authority[b].state # "NONE" => authority'[b].state # "NONE"
                           /\ IF authority'[b].state = "NONE" THEN authority'[b] = NoAuthority
                              ELSE authority'[b].group \in Group
  BY <1>2, <1>4, <1>5 DEF PermissionsNamed
<1>7. \A m \in Mandate : mandate'[m].state = "NONE" => mandate'[m] = NoMandate
  BY <1>2, <1>4 DEF MandateTaken, PermissionsNamed
<1>8. \A v \in Window : window'[v].state = "NONE" =>
        run'[v] = NULL /\ usage'[v] = {} /\ demand'[v] = NULL
  BY <1>2, <1>4 DEF PermissionsNamed
<1>9. batch' \in Seq(Authority) /\ \A i \in DOMAIN batch' : authority'[batch'[i]].state # "NONE"
  <2>1. \A i \in DOMAIN batch : batch[i] \in Authority /\ authority[batch[i]].state # "NONE"
    BY <1>4, PoolRowsOf, ElementOfSeq DEF PermissionsNamed
  <2>2. \A b \in Pending : b \in Authority /\ authority[b].state # "NONE"
    BY DEF Pending
  <2>3. batch # <<>> /\ batch' = Tail(batch)
    BY DEF RenewalStep
  <2> QED BY <1>6, <2>1, <2>2, <2>3, BatchMoves
<1>10. EconTypeOK'
  BY <1>3, PoolRowsOf DEF RenewalTypes, EconTypeOK
<1> QED BY <1>3, <1>6, <1>7, <1>8, <1>9, <1>10 DEF PermissionsNamed, RenewTypeOK, RenewalTypes

LEMMA PoolsTypesKept ==
  ASSUME TypeInv, [Next]_allVars
  PROVE  TypeInv'
<1>1. (QuietStep \/ RenewalStep) /\ scene' \in Scene
  BY Steps DEF TypeInv
<1>2. Moves
  BY <1>1 DEF QuietStep, RenewalStep
<1>3. window' \in [Window -> WindowRow] /\ RowsNamed' /\ RequestsNamed'
  BY <1>2, WindowsNext, RowsStay, RequestsStay DEF Moves
<1>4. CoopTypeOK'
  BY <1>2, <1>3 DEF Moves, RequestMoves, CoopTypeOK
<1>5. PermissionsNamed' /\ RenewTypeOK' /\ EconTypeOK'
  BY <1>1, QuietPermissions, RenewalPermissions DEF QuietStep, EconMoves
<1> QED BY <1>1, <1>3, <1>4, <1>5 DEF TypeInv, PoolsTypeOK

LEMMA PoolsTypesStart ==
  ASSUME PoolsInit
  PROVE  TypeInv
<1>1. /\ LedgerTypeOK /\ CoopInit /\ EconInit /\ RenewInit /\ scene \in Scene
  BY DEF PoolsInit
<1>2. given \in [Source -> Nat] /\ ready \subseteq Route /\ costs \in Nat
  BY <1>1 DEF CoopInit
<1>3. pool \in PoolRow
  BY <1>1 DEF CoopInit, PoolRow, Times
<1>4. NoWindow \in WindowRow /\ NoWindow.state = "NONE"
  BY DEF NoWindow, WindowRow, OpenStates, Times, Kind, Source
<1>5. NewRequest \in RequestRow /\ NewRequest.state = "NEW"
  BY DEF NewRequest, RequestRow
<1>6. NoAuthority \in AuthorityRow /\ NoAuthority.state = "NONE"
  BY DEF NoAuthority, AuthorityRow, States, Kind, Times
<1>7. NoMandate \in MandateRow /\ NoMandate.state = "NONE"
  BY DEF NoMandate, MandateRow, States, Kind, Times
<1>8. CoopTypeOK
  BY <1>1, <1>2, <1>3, <1>4, <1>5 DEF CoopInit, CoopTypeOK
<1>9. EconTypeOK
  BY <1>1 DEF EconInit, EconTypeOK
<1>10. RenewTypeOK
  BY <1>1, <1>6, <1>7 DEF RenewInit, RenewTypeOK
<1>11. RowsNamed /\ RequestsNamed
  BY <1>1, <1>4, <1>5 DEF CoopInit, RowsNamed, RequestsNamed
<1>12. PermissionsNamed
  BY <1>1, <1>6, <1>7 DEF RenewInit, EconInit, PermissionsNamed
<1> QED BY <1>1, <1>8, <1>9, <1>10, <1>11, <1>12 DEF TypeInv, PoolsTypeOK

\* The pool's rows, its declarations and its permissions are always well formed: a window
\* that was offered has a group and one of its routes and pays within its budget, and a
\* request that runs has its window (cooperative.ts, economics.ts, renewals.ts).
THEOREM PoolsAreTyped == PoolsSpec => [](PoolsTypeOK /\ RowsNamed /\ RequestsNamed)
<1>1. PoolsInit => TypeInv
  BY PoolsTypesStart
<1>2. TypeInv /\ [Next]_allVars => TypeInv'
  BY PoolsTypesKept
<1>3. TypeInv => PoolsTypeOK /\ RowsNamed /\ RequestsNamed
  BY DEF TypeInv
<1> QED BY <1>1, <1>2, <1>3, PTL DEF PoolsSpec

-----------------------------------------------------------------------------
(* Windows hold.                                                           *)

WindowsInv == TypeInv /\ WindowsHold

LEMMA OneWindowKept ==
  ASSUME TypeInv, OneWindowForEach, WindowMoves
  PROVE  OneWindowForEach'
<1>1. CASE UNCHANGED window
  BY <1>1 DEF OneWindowForEach, OpenWindows
<1>2. CASE ~UNCHANGED window
  <2>1. PICK w \in Window, r \in WindowRow :
          window' = [window EXCEPT ![w] = r] /\ (Opening(w, r) \/ Going(w, r))
    BY <1>2 DEF WindowMoves
  <2>2. window'[w] = r /\ \A v \in Window \ {w} : window'[v] = window[v]
    BY <2>1, Rows
  <2>3. ASSUME NEW v \in Window \ {w}, r.state \in OpenStates, window[v].state \in OpenStates
        PROVE  /\ r.group # window[v].group \/ r.kind # window[v].kind
               /\ r.route # window[v].route \/ r.state = "OFFERED" \/ window[v].state = "OFFERED"
    <3>1. v \in OpenWindows
      BY <2>3 DEF OpenWindows
    <3>2. CASE Opening(w, r)
      BY <3>1, <3>2 DEF Opening, Vacant, Claimed
    <3>3. CASE Going(w, r)
      <4>1. w \in OpenWindows /\ r.kind = window[w].kind /\ r.group = window[w].group
            /\ r.route = window[w].route
        BY <3>3 DEF Going, OpenWindows
      <4>2. /\ window[w].group # window[v].group \/ window[w].kind # window[v].kind
            /\ \/ window[w].route # window[v].route
               \/ window[w].state = "OFFERED" \/ window[v].state = "OFFERED"
        BY <3>1, <4>1 DEF OneWindowForEach
      <4>3. \/ r.state = window[w].state \/ ~Claimed(r.route) \/ window[w].state # "OFFERED"
        BY <2>3, <3>3 DEF Going, OpenStates
      <4> QED BY <3>1, <4>1, <4>2, <4>3 DEF Claimed
    <3> QED BY <2>1, <3>2, <3>3
  <2>4. \A v \in Window : v \in OpenWindows' <=> window'[v].state \in OpenStates
    BY DEF OpenWindows
  <2>5. OpenWindows' \subseteq Window
    BY DEF OpenWindows
  <2>6. ASSUME NEW x \in Window, NEW y \in Window, x # y, x \in OpenWindows', y \in OpenWindows'
        PROVE  /\ window'[x].group # window'[y].group \/ window'[x].kind # window'[y].kind
               /\ \/ window'[x].route # window'[y].route
                  \/ window'[x].state = "OFFERED" \/ window'[y].state = "OFFERED"
    <3>1. CASE x # w /\ y # w
      BY <2>2, <2>4, <2>6, <3>1 DEF OneWindowForEach, OpenWindows
    <3>2. CASE x = w
      BY <2>2, <2>3, <2>4, <2>6, <3>2
    <3>3. CASE y = w
      BY <2>2, <2>3, <2>4, <2>6, <3>3
    <3> QED BY <3>1, <3>2, <3>3
  <2> QED BY <2>5, <2>6 DEF OneWindowForEach
<1> QED BY <1>1, <1>2

LEMMA CoverKept ==
  ASSUME TypeInv, CoverOutlastsRequest, WindowMoves, RequestMoves
  PROVE  CoverOutlastsRequest'
<1> SUFFICES ASSUME NEW s \in Session, request'[s].state = "RUNNING"
             PROVE  LET row == window'[request'[s].window] IN
                    row.state \in {"ACTIVE", "DRAINING"} \/ row.ended
  BY DEF CoverOutlastsRequest
<1>1. CASE request[s].state = "RUNNING" /\ request'[s].window = request[s].window
  <2> DEFINE v == request[s].window
  <2>1. v \in Window /\ window[v].state # "NONE"
    BY <1>1 DEF TypeInv, RequestsNamed
  <2>2. window[v].state \in {"ACTIVE", "DRAINING"} \/ window[v].ended
    BY <1>1 DEF CoverOutlastsRequest
  <2>3. request'[s].window = v
    BY <1>1
  <2> HIDE DEF v
  <2>4. CASE window'[v] = window[v]
    BY <2>2, <2>3, <2>4
  <2>5. CASE Opening(v, window'[v])
    BY <2>1, <2>5 DEF Opening
  <2>6. CASE Going(v, window'[v])
    <3>1. window[v].ended => window'[v].ended
      BY <2>6 DEF Going
    <3>2. ~window[v].ended => window'[v].state \in {"ACTIVE", "DRAINING"}
      BY <2>2, <2>6 DEF Going
    <3> QED BY <2>3, <3>1, <3>2
  <2> QED BY <2>1, <2>4, <2>5, <2>6, WindowsNext
<1>2. CASE /\ UNCHANGED window /\ request'[s].window \in Window
           /\ window[request'[s].window].state \in {"ACTIVE", "DRAINING"}
  BY <1>2
<1> QED BY <1>1, <1>2 DEF RequestMoves

\* Whoever offers, renews, accepts, cancels or lets windows end, in whatever order: a group
\* has one open window of each kind at most, a route runs one at a time, and a running
\* request keeps its window until it is over.
THEOREM PoolWindowsHold == PoolsSpec => []WindowsHold
<1>1. PoolsInit => WindowsInv
  <2> SUFFICES ASSUME PoolsInit PROVE WindowsInv
    OBVIOUS
  <2>1. \A w \in Window : window[w].state = "NONE"
    BY DEF PoolsInit, CoopInit, NoWindow
  <2>2. \A s \in Session : request[s].state = "NEW"
    BY DEF PoolsInit, CoopInit, NewRequest
  <2>3. OpenWindows = {}
    BY <2>1 DEF OpenWindows, OpenStates
  <2> QED BY <2>2, <2>3, PoolsTypesStart DEF WindowsInv, WindowsHold, OneWindowForEach,
     CoverOutlastsRequest
<1>2. WindowsInv /\ [Next]_allVars => WindowsInv'
  <2> SUFFICES ASSUME WindowsInv, [Next]_allVars PROVE WindowsInv'
    OBVIOUS
  <2>1. TypeInv /\ OneWindowForEach /\ CoverOutlastsRequest
    BY DEF WindowsInv, WindowsHold
  <2>2. TypeInv' /\ WindowMoves /\ RequestMoves
    BY <2>1, PoolsTypesKept, Steps DEF QuietStep, RenewalStep, Moves
  <2>3. OneWindowForEach' /\ CoverOutlastsRequest'
    BY <2>1, <2>2, OneWindowKept, CoverKept
  <2> QED BY <2>2, <2>3 DEF WindowsInv, WindowsHold
<1>3. WindowsInv => WindowsHold
  BY DEF WindowsInv
<1> QED BY <1>1, <1>2, <1>3, PTL DEF PoolsSpec

-----------------------------------------------------------------------------
(* Permissions hold.                                                       *)

LEMMA SumGrows ==
  ASSUME NEW S, IsFiniteSet(S), NEW w, w \notin S, NEW f, NEW g,
         DOMAIN f = S, DOMAIN g = S \cup {w},
         \A v \in S : f[v] \in Int /\ g[v] = f[v], g[w] \in Int
  PROVE  SumFunction(g) = SumFunction(f) + g[w] /\ SumFunction(f) \in Int
<1>1. SumFunctionOnSet(g, S \cup {w}) = g[w] + SumFunctionOnSet(g, S)
  BY SumInsert
<1>2. SumFunctionOnSet(g, S) = SumFunctionOnSet(f, S)
  BY SumSame
<1>3. SumFunctionOnSet(f, S) \in Int
  BY SumType
<1> QED BY <1>1, <1>2, <1>3 DEF SumFunction

\* The counters an authority must show, of given windows.
Counts(a, runs, rows, used, spentWorking, spentReserve) ==
  LET of(s) == {w \in Window : runs[w] = a /\ rows[w].source = s}
      gross(s) == SumFunction([w \in of(s) |-> Budget(rows[w].group)]) IN
  /\ used = Cardinality({w \in Window : runs[w] = a})
  /\ spentWorking = gross(Working) /\ spentReserve = gross(Reserve)

LEMMA CountsAre ==
  /\ AuthorityBounds <=>
       \A a \in Authority :
         LET row == authority[a] IN
         /\ Counts(a, run, window, row.used, row.spentWorking, row.spentReserve)
         /\ row.used <= row.windows /\ row.spentWorking <= row.working
         /\ row.spentReserve <= row.reserve
  /\ AuthorityBounds' <=>
       \A a \in Authority :
         LET row == authority'[a] IN
         /\ Counts(a, run', window', row.used, row.spentWorking, row.spentReserve)
         /\ row.used <= row.windows /\ row.spentWorking <= row.working
         /\ row.spentReserve <= row.reserve
BY DEF AuthorityBounds, Counts, RunsOf, Gross

\* Nothing is counted again while the windows renewed stay what they are.
LEMMA CountsStay ==
  ASSUME NEW a, NEW runs, NEW runs2, NEW rows, NEW rows2, NEW n, NEW x, NEW y,
         Counts(a, runs, rows, n, x, y),
         \A w \in Window : runs2[w] = a <=> runs[w] = a,
         \A w \in Window : runs[w] = a => /\ rows2[w].source = rows[w].source
                                          /\ rows2[w].group = rows[w].group
  PROVE  Counts(a, runs2, rows2, n, x, y)
<1> DEFINE of(s) == {w \in Window : runs[w] = a /\ rows[w].source = s}
           of2(s) == {w \in Window : runs2[w] = a /\ rows2[w].source = s}
<1>1. {w \in Window : runs2[w] = a} = {w \in Window : runs[w] = a}
  OBVIOUS
<1>2. ASSUME NEW s
      PROVE  [w \in of2(s) |-> Budget(rows2[w].group)] = [w \in of(s) |-> Budget(rows[w].group)]
  <2>1. of2(s) = of(s)
    OBVIOUS
  <2>2. \A w \in of(s) : rows2[w].group = rows[w].group
    OBVIOUS
  <2> HIDE DEF of, of2
  <2> QED BY <2>1, <2>2
<1> QED BY <1>1, <1>2 DEF Counts

\* A window more is one more, and its budget.
LEMMA CountsGrow ==
  ASSUME NEW a, NEW runs, NEW runs2, NEW rows, NEW rows2, NEW n, NEW x, NEW y,
         NEW w \in Window, NEW source \in Source,
         Counts(a, runs, rows, n, x, y), runs[w] # a, runs2[w] = a,
         rows2[w].source = source, rows2[w].group \in Group,
         \A v \in Window \ {w} : runs2[v] = runs[v],
         \A v \in Window : runs[v] = a => /\ rows[v].group \in Group
                                          /\ rows2[v].source = rows[v].source
                                          /\ rows2[v].group = rows[v].group
  PROVE  Counts(a, runs2, rows2, n + 1,
                x + (IF source = Working THEN Budget(rows2[w].group) ELSE 0),
                y + (IF source = Reserve THEN Budget(rows2[w].group) ELSE 0))
<1> DEFINE all == {v \in Window : runs[v] = a}
           all2 == {v \in Window : runs2[v] = a}
           of(s) == {v \in Window : runs[v] = a /\ rows[v].source = s}
           of2(s) == {v \in Window : runs2[v] = a /\ rows2[v].source = s}
           f(s) == [v \in of(s) |-> Budget(rows[v].group)]
           g(s) == [v \in of2(s) |-> Budget(rows2[v].group)]
           cost == Budget(rows2[w].group)
<1>1. cost \in Nat /\ \A v \in all : Budget(rows[v].group) \in Nat
  BY BudgetsAre
<1>2. IsFiniteSet(all) /\ Cardinality(all) \in Nat
  BY WindowsAre, FS_Subset, FS_CardinalityType
<1>3. all2 = all \cup {w} /\ w \notin all
  OBVIOUS
<1>4. Cardinality(all2) = Cardinality(all) + 1
  BY <1>2, <1>3, FS_AddElement
<1>5. ASSUME NEW s \in Source
      PROVE  SumFunction(f(s)) \in Int
             /\ SumFunction(g(s)) = SumFunction(f(s)) + (IF source = s THEN cost ELSE 0)
  <2>1. /\ of(s) \subseteq Window /\ IsFiniteSet(of(s)) /\ w \notin of(s)
        /\ of(s) \subseteq all
    BY WindowsAre, FS_Subset
  <2>2. /\ DOMAIN f(s) = of(s) /\ DOMAIN g(s) = of2(s)
        /\ \A v \in of(s) : f(s)[v] = Budget(rows[v].group) /\ f(s)[v] \in Int
        /\ \A v \in of2(s) : g(s)[v] = Budget(rows2[v].group)
    BY <1>1, <2>1
  <2>3. CASE source = s
    <3>1. of2(s) = of(s) \cup {w} /\ g(s)[w] = cost
      BY <2>3
    <3>2. \A v \in of(s) : g(s)[v] = f(s)[v]
      BY <2>2, <3>1
    <3> HIDE DEF of, of2, f, g, cost
    <3>3. SumFunction(g(s)) = SumFunction(f(s)) + g(s)[w] /\ SumFunction(f(s)) \in Int
      BY <1>1, <2>1, <2>2, <3>1, <3>2, SumGrows
    <3> QED BY <2>3, <3>1, <3>3
  <2>4. CASE source # s
    <3>1. of2(s) = of(s)
      BY <2>4
    <3>2. \A v \in of(s) : g(s)[v] = f(s)[v]
      BY <2>2, <3>1
    <3> HIDE DEF of, of2, f, g, cost
    <3>3. SumFunctionOnSet(f(s), of(s)) \in Int
          /\ SumFunctionOnSet(g(s), of(s)) = SumFunctionOnSet(f(s), of(s))
      BY <2>1, <2>2, <3>2, SumType, SumSame
    <3> QED BY <2>2, <2>4, <3>1, <3>3 DEF SumFunction
  <2> QED BY <2>3, <2>4
<1>6. /\ n = Cardinality(all) /\ x = SumFunction(f(Working)) /\ y = SumFunction(f(Reserve))
  BY DEF Counts
<1>7. /\ SumFunction(g(Working)) = x + (IF source = Working THEN cost ELSE 0)
      /\ SumFunction(g(Reserve)) = y + (IF source = Reserve THEN cost ELSE 0)
  <2> HIDE DEF f, g, cost
  <2> QED BY <1>5, <1>6 DEF Source
<1> QED BY <1>4, <1>6, <1>7 DEF Counts

\* The terms of the windows renewed by an authority stay.
LEMMA RenewedStay ==
  ASSUME TypeInv, WindowMoves, NEW w \in Window, run[w] # NULL
  PROVE  /\ window[w].state # "NONE" /\ window'[w].state # "NONE"
         /\ window'[w].source = window[w].source /\ window'[w].group = window[w].group
         /\ window'[w].route = window[w].route /\ window'[w].kind = window[w].kind
         /\ window[w].group \in Group /\ window[w].route \in Route
<1>1. window[w].state # "NONE"
  BY DEF TypeInv, PermissionsNamed
<1> QED BY <1>1, RowsStay, RoutesAre DEF TypeInv, RowsNamed

LEMMA BoundsKept ==
  ASSUME TypeInv, AuthorityBounds, QuietStep
  PROVE  AuthorityBounds'
<1>1. WindowMoves /\ run' = run
  BY DEF QuietStep, Moves, PermitsMove
<1> SUFFICES ASSUME NEW a \in Authority
             PROVE  LET row == authority'[a] IN
                    /\ Counts(a, run', window', row.used, row.spentWorking, row.spentReserve)
                    /\ row.used <= row.windows /\ row.spentWorking <= row.working
                    /\ row.spentReserve <= row.reserve
  BY CountsAre
<1> DEFINE old == authority[a]
           new == authority'[a]
<1>2. /\ Counts(a, run, window, old.used, old.spentWorking, old.spentReserve)
      /\ old.used <= old.windows /\ old.spentWorking <= old.working
      /\ old.spentReserve <= old.reserve
  BY CountsAre
<1>3. /\ new.used = old.used /\ new.spentWorking = old.spentWorking
      /\ new.spentReserve = old.spentReserve
      /\ new.used <= new.windows /\ new.spentWorking <= new.working
      /\ new.spentReserve <= new.reserve
  <2>1. AuthorityKept(a) /\ new \in AuthorityRow
    BY DEF QuietStep, PermitsMove
  <2>2. CASE old.state # "NONE"
    BY <1>2, <2>1, <2>2 DEF AuthorityKept
  <2>3. CASE old.state = "NONE"
    <3>1. old.used = 0 /\ old.spentWorking = 0 /\ old.spentReserve = 0
      BY <2>3 DEF TypeInv, PermissionsNamed, NoAuthority
    <3>2. new.windows \in Nat /\ new.working \in Nat /\ new.reserve \in Nat
      BY <2>1 DEF AuthorityRow
    <3> QED BY <1>2, <2>1, <2>3, <3>1, <3>2 DEF AuthorityKept
  <2> QED BY <2>2, <2>3
<1>4. \A w \in Window : run[w] = a => /\ window'[w].source = window[w].source
                                      /\ window'[w].group = window[w].group
  BY <1>1, RenewedStay, RenewalsAssumption
<1> HIDE DEF old, new
<1>5. Counts(a, run', window', old.used, old.spentWorking, old.spentReserve)
  BY <1>1, <1>2, <1>4, CountsStay
<1> QED BY <1>3, <1>5 DEF new

LEMMA BoundsRenewed ==
  ASSUME TypeInv, AuthorityBounds, RenewalStep
  PROVE  AuthorityBounds'
<1>1. PICK b \in Authority, source \in Source, r \in Route, s \in Session \cup {NULL} :
        NextWindow \in Window /\ Renews(b, NextWindow, source, r, s)
  BY DEF RenewalStep
<1> DEFINE w == NextWindow
<1>2. /\ w \in Window /\ authority[b].state = "ACTIVE" /\ window[w].state = "NONE"
      /\ window'[w].group = authority[b].group /\ window'[w].source = source
      /\ \A v \in Window \ {w} : window'[v] = window[v] /\ run'[v] = run[v]
      /\ \A a \in Authority \ {b} : authority'[a] = authority[a]
      /\ AuthorityUsed(b, source) /\ run'[w] = b
  BY <1>1 DEF Renews
<1> HIDE DEF w
<1>3. run[w] = NULL /\ WindowMoves
  BY <1>2 DEF TypeInv, PermissionsNamed, RenewalStep, Moves
<1>4. ASSUME NEW a \in Authority
      PROVE  /\ \A v \in Window : run[v] = a => /\ window'[v].source = window[v].source
                                                /\ window'[v].group = window[v].group
                                                /\ window[v].group \in Group
             /\ run[w] # a
  BY <1>3, RenewedStay, RenewalsAssumption
<1> SUFFICES ASSUME NEW a \in Authority
             PROVE  LET row == authority'[a] IN
                    /\ Counts(a, run', window', row.used, row.spentWorking, row.spentReserve)
                    /\ row.used <= row.windows /\ row.spentWorking <= row.working
                    /\ row.spentReserve <= row.reserve
  BY CountsAre
<1> DEFINE old == authority[a]
           new == authority'[a]
<1>5. /\ Counts(a, run, window, old.used, old.spentWorking, old.spentReserve)
      /\ old.used <= old.windows /\ old.spentWorking <= old.working
      /\ old.spentReserve <= old.reserve
  BY CountsAre
<1>6. CASE a # b
  <2>1. new = old
    BY <1>2, <1>6
  <2>2. \A v \in Window : run'[v] = a <=> run[v] = a
    BY <1>2, <1>4, <1>6
  <2> HIDE DEF old, new
  <2>3. Counts(a, run', window', old.used, old.spentWorking, old.spentReserve)
    BY <1>4, <1>5, <2>2, CountsStay
  <2> QED BY <1>5, <2>1, <2>3 DEF new
<1>7. CASE a = b
  <2> DEFINE cost == Budget(window'[w].group)
             byW == IF source = Working THEN cost ELSE 0
             byR == IF source = Reserve THEN cost ELSE 0
  <2>1. /\ new.used = old.used + 1 /\ new.used <= new.windows
        /\ new.spentWorking = old.spentWorking + byW
        /\ new.spentReserve = old.spentReserve + byR
        /\ new.working = old.working /\ new.reserve = old.reserve
        /\ source = Working => new.spentWorking <= new.working
        /\ source = Reserve => new.spentReserve <= new.reserve
    BY <1>2, <1>7 DEF AuthorityUsed
  <2>2. /\ old.spentWorking \in Nat /\ old.spentReserve \in Nat
        /\ old.group \in Group /\ window'[w].group \in Group
    BY <1>2, <1>7, PermitRows
  <2>3. new.spentWorking <= new.working /\ new.spentReserve <= new.reserve
    BY <1>5, <2>1, <2>2
  <2> HIDE DEF old, new
  <2>4. Counts(a, run', window', old.used + 1, old.spentWorking + byW, old.spentReserve + byR)
    BY <1>2, <1>4, <1>5, <1>7, <2>2, CountsGrow
  <2> QED BY <2>1, <2>3, <2>4 DEF new
<1> QED BY <1>6, <1>7

NoRivals == \A m, n \in Mandate : ~Rival(mandate, m, n)

LEMMA RivalsKept ==
  ASSUME TypeInv, NoRivals, QuietStep \/ RenewalStep
  PROVE  NoRivals'
<1> SUFFICES ASSUME NEW m \in Mandate, NEW n \in Mandate, Rival(mandate', m, n)
             PROVE  FALSE
  BY DEF NoRivals
<1>1. CASE QuietStep
  <2>1. MandateKept(m) /\ MandateKept(n)
    BY <1>1 DEF QuietStep, PermitsMove
  <2>2. CASE mandate[m].state # "NONE" /\ mandate[n].state # "NONE"
    <3>1. Rival(mandate, m, n)
      BY <2>1, <2>2 DEF MandateKept, Rival
    <3> QED BY <3>1 DEF NoRivals
  <2>3. CASE mandate[m].state = "NONE"
    BY <2>1, <2>3 DEF MandateKept, Rival
  <2>4. CASE mandate[n].state = "NONE"
    BY <2>1, <2>4 DEF MandateKept, Rival
  <2> QED BY <2>2, <2>3, <2>4
<1>2. CASE RenewalStep
  <2>1. PICK a \in Authority, source \in Source, r \in Route, s \in Session \cup {NULL} :
          Renews(a, NextWindow, source, r, s)
    BY <1>2 DEF RenewalStep
  <2>2. \A k \in Mandate : MandateTaken(k, r, authority[a].kind) \/ mandate'[k] = mandate[k]
    BY <2>1 DEF Renews
  <2>3. Rival(mandate, m, n)
    BY <2>2 DEF MandateTaken, Rival
  <2> QED BY <2>3 DEF NoRivals
<1> QED BY <1>1, <1>2

\* What MandatesCoverWindow says of one window, and of one mandate.
CoveredBy(rows, taken, row) ==
  /\ {rows[m].provider : m \in taken} = ProvidersOf[row.route]
  /\ Cardinality(taken) = Cardinality(ProvidersOf[row.route])
  /\ \A m \in taken : rows[m].route = row.route /\ rows[m].kind = row.kind

LEMMA CoversAre ==
  /\ MandatesCoverWindow <=>
       /\ \A w \in Window : run[w] # NULL => CoveredBy(mandate, usage[w], window[w])
       /\ \A m \in Mandate : /\ mandate[m].used = Cardinality({w \in Window : m \in usage[w]})
                             /\ mandate[m].used <= mandate[m].windows
  /\ MandatesCoverWindow' <=>
       /\ \A w \in Window : run'[w] # NULL => CoveredBy(mandate', usage'[w], window'[w])
       /\ \A m \in Mandate : /\ mandate'[m].used = Cardinality({w \in Window : m \in usage'[w]})
                             /\ mandate'[m].used <= mandate'[m].windows
BY DEF MandatesCoverWindow, CoveredBy

LEMMA CoverStays ==
  ASSUME NEW rows, NEW rows2, NEW taken, NEW row, NEW row2, CoveredBy(rows, taken, row),
         row2.route = row.route, row2.kind = row.kind,
         \A m \in taken : /\ rows2[m].provider = rows[m].provider
                          /\ rows2[m].route = rows[m].route /\ rows2[m].kind = rows[m].kind
  PROVE  CoveredBy(rows2, taken, row2)
<1>1. {rows2[m].provider : m \in taken} = {rows[m].provider : m \in taken}
  OBVIOUS
<1> QED BY <1>1 DEF CoveredBy

\* One mandate of each provider: as many as there are providers.
LEMMA OneOfEach ==
  ASSUME NEW rows, NEW taken, IsFiniteSet(taken),
         \A m, n \in taken : rows[m].provider = rows[n].provider => m = n
  PROVE  Cardinality({rows[m].provider : m \in taken}) = Cardinality(taken)
<1> DEFINE T == {rows[m].provider : m \in taken}
           f == [m \in taken |-> rows[m].provider]
<1>1. f \in [taken -> T] /\ \A m \in taken : f[m] = rows[m].provider
  OBVIOUS
<1>2. \A t \in T : \E m \in taken : f[m] = t
  OBVIOUS
<1>3. f \in Surjection(taken, T)
  BY <1>1, <1>2 DEF Surjection
<1>4. f \in Injection(taken, T)
  BY <1>1 DEF Injection, IsInjective
<1> QED BY <1>3, <1>4, FS_Surjection

LEMMA MandatesKept ==
  ASSUME TypeInv, MandatesCoverWindow, QuietStep
  PROVE  MandatesCoverWindow'
<1>1. /\ WindowMoves /\ run' = run /\ usage' = usage
      /\ \A m \in Mandate : MandateKept(m)
      /\ mandate' \in [Mandate -> MandateRow]
  BY DEF QuietStep, Moves, PermitsMove
<1>2. ASSUME NEW w \in Window, run[w] # NULL
      PROVE  CoveredBy(mandate', usage[w], window'[w])
  <2>1. CoveredBy(mandate, usage[w], window[w])
    BY <1>2, CoversAre
  <2>2. /\ window'[w].route = window[w].route /\ window'[w].kind = window[w].kind
        /\ window[w].route \in Route
    BY <1>1, <1>2, RenewedStay
  <2>3. ASSUME NEW m \in usage[w]
        PROVE  /\ mandate'[m].provider = mandate[m].provider
               /\ mandate'[m].route = mandate[m].route /\ mandate'[m].kind = mandate[m].kind
    <3>1. m \in Mandate /\ mandate[m].route \in Route
      BY <2>1, <2>2, PoolRowsOf DEF CoveredBy
    <3>2. mandate[m].state # "NONE"
      BY <3>1, RoutesAre DEF TypeInv, PermissionsNamed, NoMandate
    <3> QED BY <1>1, <3>1, <3>2 DEF MandateKept
  <2> QED BY <2>1, <2>2, <2>3, CoverStays
<1>3. ASSUME NEW m \in Mandate
      PROVE  mandate'[m].used = mandate[m].used /\ mandate'[m].used <= mandate'[m].windows
  <2>1. mandate[m].used <= mandate[m].windows
    BY CoversAre
  <2>2. CASE mandate[m].state # "NONE"
    BY <1>1, <2>1, <2>2 DEF MandateKept
  <2>3. CASE mandate[m].state = "NONE"
    <3>1. mandate[m].used = 0
      BY <2>3 DEF TypeInv, PermissionsNamed, NoMandate
    <3>2. mandate'[m].windows \in Nat
      BY <1>1 DEF MandateRow
    <3> QED BY <1>1, <2>1, <2>3, <3>1, <3>2 DEF MandateKept
  <2> QED BY <2>2, <2>3
<1> QED BY <1>1, <1>2, <1>3, CoversAre

LEMMA MandatesRenewed ==
  ASSUME TypeInv, NoRivals, MandatesCoverWindow, RenewalStep
  PROVE  MandatesCoverWindow'
<1>1. PICK a \in Authority, source \in Source, r \in Route, s \in Session \cup {NULL} :
        NextWindow \in Window /\ Renews(a, NextWindow, source, r, s)
  BY DEF RenewalStep
<1> DEFINE w == NextWindow
           kind == authority[a].kind
           taken == usage'[w]
<1>2. /\ w \in Window /\ window[w].state = "NONE"
      /\ window'[w].kind = kind /\ window'[w].route = r
      /\ \A v \in Window \ {w} : window'[v] = window[v] /\ run'[v] = run[v]
                                 /\ usage'[v] = usage[v]
      /\ \A m \in Mandate : IF m \in taken THEN MandateTaken(m, r, kind)
                            ELSE mandate'[m] = mandate[m]
      /\ {mandate[m].provider : m \in taken} = ProvidersOf[r]
  BY <1>1 DEF Renews
<1>3. taken \subseteq Mandate /\ IsFiniteSet(taken) /\ usage[w] = {}
  <2>1. usage' \in [Window -> SUBSET Mandate]
    BY DEF RenewalStep, RenewalTypes
  <2>2. taken \subseteq Mandate
    BY <1>2, <2>1
  <2>3. usage[w] = {}
    BY <1>2 DEF TypeInv, PermissionsNamed
  <2> HIDE DEF taken
  <2> QED BY <2>2, <2>3, RenewalsAssumption, FS_Subset
<1> HIDE DEF w, taken, kind
<1>4. \A m \in Mandate : /\ mandate'[m].provider = mandate[m].provider
                         /\ mandate'[m].route = mandate[m].route
                         /\ mandate'[m].kind = mandate[m].kind
  BY <1>2 DEF MandateTaken
<1>5. CoveredBy(mandate', taken, window'[w])
  <2>1. \A m \in taken : mandate[m].state = "ACTIVE" /\ mandate[m].route = r
                         /\ mandate[m].kind = kind
    BY <1>2, <1>3 DEF MandateTaken
  <2>2. \A m, n \in taken : mandate[m].provider = mandate[n].provider => m = n
    BY <1>3, <2>1 DEF NoRivals, Rival
  <2>3. Cardinality(taken) = Cardinality(ProvidersOf[r])
    BY <1>2, <1>3, <2>2, OneOfEach
  <2>4. {mandate'[m].provider : m \in taken} = {mandate[m].provider : m \in taken}
    BY <1>3, <1>4
  <2> QED BY <1>2, <1>3, <1>4, <2>1, <2>3, <2>4 DEF CoveredBy
<1>6. ASSUME NEW v \in Window \ {w}, run[v] # NULL
      PROVE  CoveredBy(mandate', usage[v], window[v])
  <2>1. CoveredBy(mandate, usage[v], window[v]) /\ usage[v] \subseteq Mandate
    BY <1>6, CoversAre, PoolRowsOf
  <2> QED BY <1>4, <2>1, CoverStays
<1>7. ASSUME NEW m \in Mandate
      PROVE  /\ mandate'[m].used = Cardinality({v \in Window : m \in usage'[v]})
             /\ mandate'[m].used <= mandate'[m].windows
  <2> DEFINE of == {v \in Window : m \in usage[v]}
             of2 == {v \in Window : m \in usage'[v]}
  <2>1. mandate[m].used = Cardinality(of) /\ mandate[m].used <= mandate[m].windows
    BY CoversAre
  <2>2. IsFiniteSet(of) /\ w \notin of
    BY <1>3, WindowsAre, FS_Subset
  <2>3. CASE m \in taken
    <3>1. of2 = of \cup {w}
      BY <1>2, <2>3 DEF taken
    <3>2. Cardinality(of2) = Cardinality(of) + 1
      BY <2>2, <3>1, FS_AddElement
    <3> QED BY <1>2, <2>1, <2>3, <3>2 DEF MandateTaken
  <2>4. CASE m \notin taken
    <3>1. of2 = of
      BY <1>2, <1>3, <2>4 DEF taken
    <3> QED BY <1>2, <2>1, <2>4, <3>1
  <2> QED BY <2>3, <2>4
<1>8. \A v \in Window : run'[v] # NULL => CoveredBy(mandate', usage'[v], window'[v])
  BY <1>2, <1>5, <1>6 DEF taken
<1> QED BY <1>7, <1>8, CoversAre

LEMMA ExpansionsKept ==
  ASSUME TypeInv, ExpansionBacked, QuietStep \/ RenewalStep
  PROVE  ExpansionBacked'
<1> SUFFICES ASSUME NEW x \in Window, window'[x].state # "NONE", window'[x].kind = "EXPANSION"
             PROVE  /\ window'[x].source = Working /\ run'[x] # NULL
                    /\ authority'[run'[x]].kind = "EXPANSION" /\ demand'[x] # NULL
                    /\ \A v \in Window \ {x} : demand'[v] # demand'[x]
  BY DEF ExpansionBacked, Opened
<1>1. WindowMoves
  BY DEF QuietStep, RenewalStep, Moves
<1>2. ASSUME window[x].state # "NONE"
      PROVE  /\ window'[x].source = Working /\ run[x] \in Authority
             /\ authority[run[x]].kind = "EXPANSION" /\ authority[run[x]].state # "NONE"
             /\ demand[x] # NULL /\ \A v \in Window \ {x} : demand[v] # demand[x]
  <2>1. window'[x].source = window[x].source /\ window[x].kind = "EXPANSION"
    BY <1>1, <1>2, RowsStay
  <2>2. /\ window[x].source = Working /\ run[x] # NULL
        /\ authority[run[x]].kind = "EXPANSION" /\ demand[x] # NULL
        /\ \A v \in Window \ {x} : demand[v] # demand[x]
    BY <1>2, <2>1 DEF ExpansionBacked, Opened
  <2>3. run[x] \in Authority
    BY <2>2, PoolRowsOf
  <2>4. authority[run[x]].state # "NONE"
    BY <2>2, <2>3 DEF TypeInv, PermissionsNamed, NoAuthority
  <2> QED BY <2>1, <2>2, <2>3, <2>4
<1>3. CASE QuietStep
  <2>1. window[x].state # "NONE"
    BY <1>3 DEF QuietStep, NewWindow
  <2>2. run' = run /\ demand' = demand /\ \A a \in Authority : AuthorityKept(a)
    BY <1>3 DEF QuietStep, PermitsMove, EconMoves
  <2>3. authority'[run[x]].kind = authority[run[x]].kind
    BY <1>2, <2>1, <2>2 DEF AuthorityKept
  <2> QED BY <1>2, <2>1, <2>2, <2>3, RenewalsAssumption
<1>4. CASE RenewalStep
  <2>1. PICK a \in Authority, source \in Source, r \in Route, s \in Session \cup {NULL} :
          NextWindow \in Window /\ Renews(a, NextWindow, source, r, s)
    BY <1>4 DEF RenewalStep
  <2> DEFINE w == NextWindow
  <2>2. /\ w \in Window /\ window[w].state = "NONE"
        /\ window'[w].kind = authority[a].kind /\ window'[w].source = source
        /\ \A v \in Window \ {w} : window'[v] = window[v] /\ run'[v] = run[v]
                                   /\ demand'[v] = demand[v]
        /\ \A b \in Authority \ {a} : authority'[b] = authority[b]
        /\ authority'[a].kind = authority[a].kind
        /\ run'[w] = a /\ demand'[w] = s
        /\ authority[a].kind = "EXPANSION" =>
             source = Working /\ s \in Session /\ \A v \in Window : demand[v] # s
        /\ authority[a].kind = "ESSENTIAL" => s = NULL
    BY <2>1 DEF Renews, AuthorityUsed
  <2>3. NULL \notin Session /\ NULL \notin Authority /\ authority[a].kind \in Kind
    BY EconomicsAssumption, RenewalsAssumption, PermitRows
  <2> HIDE DEF w
  <2>4. CASE x = w
    BY <2>2, <2>3, <2>4
  <2>5. CASE x # w
    <3>1. window[x].state # "NONE"
      BY <2>2, <2>5
    <3>2. \A b \in Authority : authority'[b].kind = authority[b].kind
      BY <2>2
    <3>3. demand[x] # s
      BY <1>2, <2>2, <2>3, <3>1 DEF Kind
    <3> QED BY <1>2, <2>2, <2>3, <2>5, <3>1, <3>2, <3>3
  <2> QED BY <2>4, <2>5
<1> QED BY <1>3, <1>4

LEMMA OrderKept ==
  ASSUME TypeInv, EssentialGoesFirst, QuietStep \/ RenewalStep
  PROVE  EssentialGoesFirst'
<1>1. \A i \in DOMAIN batch : batch[i] \in Authority /\ authority[batch[i]].state # "NONE"
  BY PoolRowsOf, ElementOfSeq DEF TypeInv, PermissionsNamed
<1>2. \A a \in Authority : authority[a].state # "NONE" => authority'[a].kind = authority[a].kind
  <2>1. CASE QuietStep
    BY <2>1 DEF QuietStep, PermitsMove, AuthorityKept
  <2>2. CASE RenewalStep
    BY <2>2 DEF RenewalStep, Renews, AuthorityUsed
  <2> QED BY <2>1, <2>2
<1>3. /\ batch \in Seq(Authority) /\ batch' \in Seq(Authority)
      /\ \/ batch' = batch
         \/ /\ DOMAIN batch' = 1..(Len(batch) - 1) /\ Len(batch) \in Nat
            /\ DOMAIN batch = 1..Len(batch)
            /\ \A i \in DOMAIN batch' : batch'[i] = batch[i + 1] /\ i + 1 \in DOMAIN batch
         \/ UNCHANGED authority /\ EssentialFirst(batch')
  BY BatchMoves, PoolRowsOf DEF QuietStep, RenewalStep
<1> SUFFICES ASSUME NEW i \in DOMAIN batch', NEW j \in DOMAIN batch', i < j,
                    authority'[batch'[i]].kind = "EXPANSION",
                    authority'[batch'[j]].kind = "ESSENTIAL"
             PROVE  FALSE
  BY DEF EssentialGoesFirst
<1>4. CASE batch' = batch
  BY <1>1, <1>2, <1>4 DEF EssentialGoesFirst
<1>5. CASE /\ DOMAIN batch' = 1..(Len(batch) - 1) /\ Len(batch) \in Nat
           /\ \A k \in DOMAIN batch' : batch'[k] = batch[k + 1] /\ k + 1 \in DOMAIN batch
  <2>1. /\ i + 1 \in DOMAIN batch /\ j + 1 \in DOMAIN batch /\ i + 1 < j + 1
        /\ batch'[i] = batch[i + 1] /\ batch'[j] = batch[j + 1]
    BY <1>5
  <2>2. /\ authority[batch[i + 1]].kind = "EXPANSION"
        /\ authority[batch[j + 1]].kind = "ESSENTIAL"
    BY <1>1, <1>2, <2>1
  <2> QED BY <2>1, <2>2 DEF EssentialGoesFirst
<1>6. CASE UNCHANGED authority /\ EssentialFirst(batch')
  BY <1>6 DEF EssentialFirst
<1> QED BY <1>3, <1>4, <1>5, <1>6

PermissionsInv == TypeInv /\ NoRivals /\ PermissionsHold

\* However windows are offered, renewed and closed and permissions are given, used up,
\* revoked and run out: an authority's counters are those of its windows and within its
\* gross limits, a renewed window consumed exactly one mandate of each of its providers
\* and none beyond its number, an expansion has a request of its own, and no batch tries
\* one before what is essential (renewals.ts, triggers of migrations 008 and 009).
THEOREM PermissionsAreNotStretched == PoolsSpec => []PermissionsHold
<1>1. PoolsInit => PermissionsInv
  <2> SUFFICES ASSUME PoolsInit PROVE PermissionsInv
    OBVIOUS
  <2>1. TypeInv
    BY PoolsTypesStart
  <2>2. /\ \A w \in Window : window[w].state = "NONE" /\ run[w] = NULL /\ usage[w] = {}
        /\ \A a \in Authority : authority[a] = NoAuthority
        /\ \A m \in Mandate : mandate[m] = NoMandate
        /\ batch = <<>>
    BY DEF PoolsInit, CoopInit, RenewInit, NoWindow
  <2>3. AuthorityBounds
    <3> SUFFICES ASSUME NEW a \in Authority
                 PROVE  LET row == authority[a] IN
                        /\ Counts(a, run, window, row.used, row.spentWorking, row.spentReserve)
                        /\ row.used <= row.windows /\ row.spentWorking <= row.working
                        /\ row.spentReserve <= row.reserve
      BY CountsAre
    <3> DEFINE of(s) == {w \in Window : run[w] = a /\ window[w].source = s}
               f(s) == [w \in of(s) |-> Budget(window[w].group)]
    <3>1. {w \in Window : run[w] = a} = {} /\ \A s : of(s) = {}
      BY <2>2, RenewalsAssumption
    <3>2. \A s : DOMAIN f(s) = {}
      BY <3>1
    <3>3. \A s : SumFunction(f(s)) = 0
      <4> HIDE DEF f
      <4> QED BY <3>2, SumEmpty DEF SumFunction
    <3>4. Counts(a, run, window, 0, 0, 0)
      BY <3>1, <3>3, FS_EmptySet DEF Counts
    <3>5. /\ authority[a].used = 0 /\ authority[a].spentWorking = 0
          /\ authority[a].spentReserve = 0 /\ authority[a].windows = 0
          /\ authority[a].working = 0 /\ authority[a].reserve = 0
      BY <2>2 DEF NoAuthority
    <3> QED BY <3>4, <3>5
  <2>4. MandatesCoverWindow
    <3>1. \A m \in Mandate : {w \in Window : m \in usage[w]} = {}
      BY <2>2
    <3>2. \A m \in Mandate : mandate[m].used = 0 /\ mandate[m].windows = 0
      BY <2>2 DEF NoMandate
    <3>3. \A m \in Mandate : /\ mandate[m].used = Cardinality({w \in Window : m \in usage[w]})
                             /\ mandate[m].used <= mandate[m].windows
      BY <3>1, <3>2, FS_EmptySet
    <3>4. \A w \in Window : run[w] # NULL => CoveredBy(mandate, usage[w], window[w])
      BY <2>2
    <3> QED BY <3>3, <3>4, CoversAre
  <2>5. NoRivals
    BY <2>2 DEF NoRivals, Rival, NoMandate
  <2>6. ExpansionBacked /\ EssentialGoesFirst
    BY <2>2 DEF ExpansionBacked, Opened, EssentialGoesFirst
  <2> QED BY <2>1, <2>3, <2>4, <2>5, <2>6 DEF PermissionsInv, PermissionsHold
<1>2. PermissionsInv /\ [Next]_allVars => PermissionsInv'
  <2> SUFFICES ASSUME PermissionsInv, [Next]_allVars PROVE PermissionsInv'
    OBVIOUS
  <2>1. /\ TypeInv /\ NoRivals /\ AuthorityBounds /\ MandatesCoverWindow
        /\ ExpansionBacked /\ EssentialGoesFirst
    BY DEF PermissionsInv, PermissionsHold
  <2>2. TypeInv' /\ (QuietStep \/ RenewalStep)
    BY <2>1, PoolsTypesKept, Steps
  <2>3. AuthorityBounds' /\ MandatesCoverWindow'
    BY <2>1, <2>2, BoundsKept, BoundsRenewed, MandatesKept, MandatesRenewed
  <2>4. NoRivals' /\ ExpansionBacked' /\ EssentialGoesFirst'
    BY <2>1, <2>2, RivalsKept, ExpansionsKept, OrderKept
  <2> QED BY <2>2, <2>3, <2>4 DEF PermissionsInv, PermissionsHold
<1>3. PermissionsInv => PermissionsHold
  BY DEF PermissionsInv
<1> QED BY <1>1, <1>2, <1>3, PTL DEF PoolsSpec

-----------------------------------------------------------------------------
(* Money: what each kind of step does to the pool's accounts.              *)

FundKey(w) == <<"route-lease", w, "fund">>
RestKey(w) == <<"route-lease", w, "refund">>
PayKey(w, n) == <<"route-lease", w, "pay", n>>
SettleKey(s) == <<"settle", s>>
UndoKey(s) == <<"coop-refund", s>>
GiftKey(s, n) == <<"coop-funding", s, n>>
HoldKey(s) == <<"hold", s>>

Early == {"NEW", "QUOTED", "QUEUED", "RUNNING"}

\* Nothing was posted yet under the keys that are still to be used.
KeysInv ==
  /\ \A w \in Window : window[w].state = "NONE" => FundKey(w) \notin journal
  /\ \A w \in Window : window[w].state # "CLOSED" =>
       /\ RestKey(w) \notin journal
       /\ \A n \in Nat : n > window[w].paid => PayKey(w, n) \notin journal
  /\ \A s \in Session : request[s].state \in Early => SettleKey(s) \notin journal
  /\ \A s \in Session : request[s].state # "REFUNDED" => UndoKey(s) \notin journal
  /\ \A s \in Source, n \in Nat : n >= given[s] => GiftKey(s, n) \notin journal

\* The escrow accounts change by given amounts, and no other.
EscrowsMove(d) == \A f \in Fund : balance'[Escrow(f)] = balance[Escrow(f)] + d[f]
NoMove == [f \in Fund |-> 0]
KeysAdded(keys) == journal' \subseteq journal \cup keys

GiftStep(s, n) ==
  /\ given' = [given EXCEPT ![s] = given[s] + n]
  /\ EscrowsMove([NoMove EXCEPT ![s] = n])
  /\ KeysAdded({GiftKey(s, given[s])})
  /\ UNCHANGED <<window, request>>

OpenStep(w, row) ==
  /\ window[w].state = "NONE" /\ row.state \in {"OFFERED", "ACTIVE"} /\ row.paid = 0
  /\ row.group \in Group /\ row.source \in Source /\ row.kind \in Kind
  /\ window' = [window EXCEPT ![w] = row]
  /\ EscrowsMove([NoMove EXCEPT ![row.source] = -Budget(row.group), ![w] = Budget(row.group)])
  /\ KeysAdded({FundKey(w)})
  /\ UNCHANGED <<given, request>>
  /\ row.source = Reserve => row.kind = "ESSENTIAL" /\ ReserveMayPay(row.group)
  /\ row.kind = "EXPANSION" => row.source = Working /\ ExpansionFits(row.group)

GoStep(w, row, part, rest) ==
  /\ window[w].state \in OpenStates /\ row.state \in OpenStates \cup {"CLOSED"}
  /\ row.group = window[w].group /\ row.source = window[w].source
  /\ row.paid = window[w].paid + part /\ part <= Unpaid(w)
  /\ rest = IF row.state = "CLOSED" THEN Unpaid(w) - part ELSE 0
  /\ window' = [window EXCEPT ![w] = row]
  /\ EscrowsMove([NoMove EXCEPT ![row.source] = rest, ![w] = -(part + rest)])
  /\ KeysAdded((IF part > 0 THEN {PayKey(w, row.paid)} ELSE {})
               \cup (IF row.state = "CLOSED" THEN {RestKey(w)} ELSE {}))
  /\ UNCHANGED <<given, request>>

SettleStep(s, row, parts) ==
  /\ request[s].state = "RUNNING" /\ row.state = "SETTLED"
  /\ row.working = parts.working /\ row.reserve = parts.reserve /\ row.burned = parts.burned
  /\ parts \in {Parts(q) : q \in Nat}
  /\ request' = [request EXCEPT ![s] = row]
  /\ EscrowsMove([NoMove EXCEPT ![Working] = parts.working, ![Reserve] = parts.reserve,
                                ![Burn] = parts.burned])
  /\ KeysAdded({SettleKey(s)})
  /\ UNCHANGED <<given, window>>

UndoStep(s, row) ==
  /\ request[s].state = "SETTLED" /\ row.state = "REFUNDED"
  /\ request' = [request EXCEPT ![s] = row]
  /\ EscrowsMove([NoMove EXCEPT ![Working] = -request[s].working,
                                ![Reserve] = -request[s].reserve,
                                ![Burn] = -request[s].burned])
  /\ KeysAdded({UndoKey(s)})
  /\ UNCHANGED <<given, window>>

\* The state a request had and has, when what it brought does not change.
RequestGoes(s) ==
  LET old == request[s]
      new == request'[s] IN
  /\ new.state = "SETTLED" <=> old.state = "SETTLED"
  /\ new.state = "REFUNDED" <=> old.state = "REFUNDED"
  /\ new.state \in Early => old.state \in Early
  /\ new.working = old.working /\ new.reserve = old.reserve /\ new.burned = old.burned

StillStep ==
  /\ EscrowsMove(NoMove)
  /\ \A s \in Session : RequestGoes(s)
  /\ KeysAdded({HoldKey(s) : s \in Session}
               \cup {SettleKey(s) : s \in {t \in Session : request'[t].state = "RELEASED"}})
  /\ UNCHANGED <<given, window>>

LEMMA EscrowsAre ==
  /\ \A f \in Fund : Escrow(f) \in Account /\ Escrow(f) # LabIssuer
  /\ \A f, h \in Fund : Escrow(f) = Escrow(h) => f = h
  /\ \A f \in Fund, u \in User : Escrow(f) # Available(u) /\ Escrow(f) # Held(u)
  /\ \A u \in User : Available(u) \in Account /\ Held(u) \in Account
BY AccountsAre DEF Escrow, Available, Held

\* A posting under a key of its own moves the escrows by its lines.
LEMMA PostMoves ==
  ASSUME LedgerTypeOK, NEW key, key \notin journal, NEW lines, Post(key, lines),
         NEW d, \A f \in Fund : lines[Escrow(f)] = d[f]
  PROVE  EscrowsMove(d) /\ KeysAdded({key})
<1>1. journal' = journal \cup {key} /\ \A a \in Account : balance'[a] = balance[a] + lines[a]
  BY Posted
<1> QED BY <1>1, EscrowsAre DEF EscrowsMove, KeysAdded

LEMMA NothingMoves ==
  ASSUME LedgerTypeOK, UNCHANGED ledgerVars
  PROVE  EscrowsMove(NoMove) /\ \A keys : KeysAdded(keys)
<1>1. balance' = balance /\ journal' = journal
  BY DEF ledgerVars
<1>2. \A f \in Fund : balance[Escrow(f)] \in Int
  BY EscrowsAre DEF LedgerTypeOK
<1> QED BY <1>1, <1>2 DEF EscrowsMove, KeysAdded, NoMove

LEMMA NoLinesAre == NoLines \in [Account -> Int] /\ \A a \in Account : NoLines[a] = 0
BY DEF NoLines

LEMMA GiftIs ==
  ASSUME TypeInv, KeysInv, NEW u \in User, NEW s \in Source, NEW n \in Gifts, fund(u, s, n)
  PROVE  n \in Nat \ {0} /\ GiftStep(s, n)
<1> DEFINE lines == [NoLines EXCEPT ![Available(u)] = -n, ![Escrow(s)] = n]
           d == [NoMove EXCEPT ![s] = n]
<1>1. /\ Post(GiftKey(s, given[s]), lines) /\ given' = [given EXCEPT ![s] = given[s] + n]
      /\ UNCHANGED <<window, request>>
  BY Rows DEF fund, GiftKey
<1>2. GiftKey(s, given[s]) \notin journal
  BY Rows DEF KeysInv
<1>3. s \in Fund
  BY WindowsAre
<1>4. \A f \in Fund : lines[Escrow(f)] = d[f]
  BY <1>3, NoLinesAre, EscrowsAre DEF NoMove
<1> HIDE DEF lines, d
<1>5. EscrowsMove(d) /\ KeysAdded({GiftKey(s, given[s])})
  BY <1>1, <1>2, <1>4, Rows, PostMoves
<1>6. n \in Nat \ {0}
  BY CooperativeAssumption
<1> QED BY <1>1, <1>5, <1>6 DEF GiftStep, d

LEMMA OfferPosts ==
  ASSUME TypeInv, KeysInv, NEW w \in Window, window[w].state = "NONE", NEW g \in Group,
         NEW source \in Source, PostOffer(w, g, source)
  PROVE  /\ EscrowsMove([NoMove EXCEPT ![source] = -Budget(g), ![w] = Budget(g)])
         /\ KeysAdded({FundKey(w)})
<1> DEFINE cost == Budget(g)
           lines == [NoLines EXCEPT ![Escrow(source)] = -cost, ![Escrow(w)] = cost]
           d == [NoMove EXCEPT ![source] = -cost, ![w] = cost]
<1>1. Post(FundKey(w), lines)
  BY DEF PostOffer, FundKey
<1>2. FundKey(w) \notin journal
  BY DEF KeysInv
<1>3. source \in Fund /\ w \in Fund /\ source # w
  BY WindowsAre DEF Source
<1> HIDE DEF cost
<1>4. \A f \in Fund : lines[Escrow(f)] = d[f]
  BY <1>3, NoLinesAre, EscrowsAre DEF NoMove
<1> HIDE DEF lines, d
<1>5. EscrowsMove(d) /\ KeysAdded({FundKey(w)})
  BY <1>1, <1>2, <1>4, Rows, PostMoves
<1> QED BY <1>5 DEF d, cost

LEMMA OfferOpens ==
  ASSUME TypeInv, KeysInv, NEW g \in Group, NEW s \in Source, NEW r \in Route, offer(g, s, r)
  PROVE  NextWindow \in Window /\ OpenStep(NextWindow, Offered(g, "ESSENTIAL", s, r))
<1> DEFINE w == NextWindow
           row == Offered(g, "ESSENTIAL", s, r)
<1>1. /\ MayOffer(g, "ESSENTIAL", s, r) /\ PostOffer(w, g, s)
      /\ window' = [window EXCEPT ![w] = row] /\ UNCHANGED <<given, request>>
  BY DEF offer
<1>2. w \in Window /\ window[w].state = "NONE"
  BY <1>1, NextIs DEF MayOffer
<1>3. /\ row.state = "OFFERED" /\ row.kind = "ESSENTIAL" /\ row.group = g /\ row.source = s
      /\ row.paid = 0 /\ row.kind \in Kind
  <2>1. "ESSENTIAL" \in Kind
    BY DEF Kind
  <2> QED BY <2>1, OfferedIs
<1>4. s = Reserve => ReserveMayPay(g)
  BY <1>1 DEF MayOffer
<1> HIDE DEF w, row
<1>5. /\ EscrowsMove([NoMove EXCEPT ![s] = -Budget(g), ![w] = Budget(g)])
      /\ KeysAdded({FundKey(w)})
  BY <1>1, <1>2, OfferPosts
<1>6. OpenStep(w, row)
  BY <1>1, <1>2, <1>3, <1>4, <1>5 DEF OpenStep
<1> QED BY <1>2, <1>6 DEF w, row

LEMMA RenewalOpens ==
  ASSUME TypeInv, KeysInv, RenewalStep
  PROVE  \E w \in Window, row \in WindowRow : OpenStep(w, row)
<1>1. PICK a \in Authority, source \in Source, r \in Route, s \in Session \cup {NULL} :
        /\ NextWindow \in Window /\ Renews(a, NextWindow, source, r, s)
        /\ Renewal(a, source, r, s)
  BY DEF RenewalStep
<1> DEFINE w == NextWindow
           g == authority[a].group
           kind == authority[a].kind
           row == [Offered(g, kind, source, r) EXCEPT !.state = "ACTIVE",
                                                      !.accepted = ProvidersOf[r]]
<1>2. /\ w \in Window /\ window[w].state = "NONE" /\ authority[a].state = "ACTIVE"
  BY <1>1 DEF Renews
<1>3. /\ MayOffer(g, kind, source, r) /\ PostOffer(w, g, source)
      /\ window' = [window EXCEPT ![w] = row] /\ UNCHANGED <<given, request>>
  BY <1>1 DEF Renewal
<1>4. g \in Group /\ kind \in Kind
  BY <1>2, PermitRows
<1>5. ProvidersOf[r] \subseteq User
  BY RoutesAre
<1>6. LET row0 == Offered(g, kind, source, r) IN
      /\ row0 \in WindowRow
      /\ row0.kind = kind /\ row0.group = g /\ row0.source = source /\ row0.paid = 0
  BY <1>4, OfferedIs
<1>7. /\ row \in WindowRow /\ row.state = "ACTIVE" /\ row.kind = kind /\ row.group = g
      /\ row.source = source /\ row.paid = 0
  BY <1>5, <1>6 DEF WindowRow, OpenStates
<1>8. /\ source = Reserve => ReserveMayPay(g) /\ kind # "EXPANSION"
      /\ kind = "EXPANSION" => source = Working /\ ExpansionFits(g)
  BY <1>3, WindowsAre DEF MayOffer
<1>9. source = Reserve => kind = "ESSENTIAL"
  BY <1>4, <1>8 DEF Kind
<1> HIDE DEF w, row, g, kind
<1>10. /\ EscrowsMove([NoMove EXCEPT ![source] = -Budget(g), ![w] = Budget(g)])
       /\ KeysAdded({FundKey(w)})
  BY <1>2, <1>3, <1>4, OfferPosts
<1>11. OpenStep(w, row)
  BY <1>2, <1>3, <1>4, <1>7, <1>8, <1>9, <1>10 DEF OpenStep
<1> QED BY <1>2, <1>7, <1>11

LEMMA GoLines ==
  ASSUME TypeInv, NEW w \in Window, window[w].state \in OpenStates, NEW n \in Nat, NEW f \in Fund
  PROVE  /\ PayLines(w, n)[Escrow(f)] = IF f = w THEN -n ELSE 0
         /\ RestLines(w, n)[Escrow(f)] =
              IF f = window[w].source THEN n ELSE IF f = w THEN -n ELSE 0
         /\ NoLines[Escrow(f)] = 0
<1> DEFINE source == window[w].source
<1>1. /\ source \in Fund /\ w \in Fund /\ Payee(window[w].route) \in User
  BY Rows, WindowsAre
<1>2. /\ Escrow(f) \in Account /\ Escrow(f) # Available(Payee(window[w].route))
      /\ Escrow(f) = Escrow(w) <=> f = w
      /\ Escrow(f) = Escrow(source) <=> f = source
  BY <1>1, EscrowsAre
<1>3. n \in Int
  OBVIOUS
<1> QED BY <1>2, <1>3, LinesAre

\* A part that is paid and a rest that goes back, of an open window.
LEMMA GoPosts ==
  ASSUME TypeInv, KeysInv, NEW w \in Window, window[w].state \in OpenStates,
         NEW part \in Nat, NEW rest \in Nat, NEW closes \in BOOLEAN,
         PostBoth(PayKey(w, window[w].paid + part),
                  IF part = 0 THEN NoLines ELSE PayLines(w, part),
                  RestKey(w), IF closes THEN RestLines(w, rest) ELSE NoLines),
         ~closes => rest = 0
  PROVE  /\ EscrowsMove([NoMove EXCEPT ![window[w].source] = rest, ![w] = -(part + rest)])
         /\ KeysAdded((IF part > 0 THEN {PayKey(w, window[w].paid + part)} ELSE {})
                      \cup (IF closes THEN {RestKey(w)} ELSE {}))
<1> DEFINE paid == window[w].paid + part
           source == window[w].source
           lines1 == IF part = 0 THEN NoLines ELSE PayLines(w, part)
           lines2 == IF closes THEN RestLines(w, rest) ELSE NoLines
<1>1. /\ paid \in Nat /\ (part > 0 => paid > window[w].paid)
      /\ source \in Source /\ source \in Fund /\ w \in Fund /\ source # w
      /\ Payee(window[w].route) \in User
  BY Rows, WindowsAre DEF Source
<1>2. part > 0 => PayKey(w, paid) \notin journal
  BY <1>1 DEF KeysInv, OpenStates
<1>3. RestKey(w) \notin journal
  BY DEF KeysInv, OpenStates
<1>4. part \in Int /\ rest \in Int
  OBVIOUS
<1>5. /\ lines1 \in [Account -> Int] /\ lines2 \in [Account -> Int]
  BY <1>4, LinesAre
<1>6. \A f \in Fund :
        /\ lines1[Escrow(f)] = IF f = w THEN -part ELSE 0
        /\ lines2[Escrow(f)] = IF f = source THEN rest ELSE IF f = w THEN -rest ELSE 0
  BY GoLines
<1>7. PostBoth(PayKey(w, paid), lines1, RestKey(w), lines2)
  OBVIOUS
<1>8. part = 0 => lines1 = NoLines
  OBVIOUS
<1>9. ~closes => lines2 = NoLines
  OBVIOUS
<1> HIDE DEF lines1, lines2, paid, source
<1>10. /\ \A a \in Account : balance'[a] = balance[a] + lines1[a] + lines2[a]
       /\ journal' = journal \cup (IF lines1 # NoLines THEN {PayKey(w, paid)} ELSE {})
                             \cup (IF lines2 # NoLines THEN {RestKey(w)} ELSE {})
  <2>1. LedgerTypeOK /\ (lines1 # NoLines => PayKey(w, paid) \notin journal)
    BY <1>2, <1>8, Rows
  <2> QED BY <1>3, <1>5, <1>7, <2>1, PostedTwice
<1>11. EscrowsMove([NoMove EXCEPT ![source] = rest, ![w] = -(part + rest)])
  <2> DEFINE d == [NoMove EXCEPT ![source] = rest, ![w] = -(part + rest)]
  <2>1. ASSUME NEW f \in Fund PROVE balance'[Escrow(f)] = balance[Escrow(f)] + d[f]
    <3>1. balance'[Escrow(f)] = balance[Escrow(f)] + lines1[Escrow(f)] + lines2[Escrow(f)]
      BY <1>10, EscrowsAre
    <3>2. balance[Escrow(f)] \in Int
      BY Rows, EscrowsAre DEF LedgerTypeOK
    <3>3. d[f] = IF f = w THEN -(part + rest) ELSE IF f = source THEN rest ELSE 0
      BY <1>1 DEF NoMove
    <3> HIDE DEF d
    <3> QED BY <1>1, <1>6, <3>1, <3>2, <3>3
  <2> QED BY <2>1 DEF EscrowsMove
<1>12. KeysAdded((IF part > 0 THEN {PayKey(w, paid)} ELSE {})
                 \cup (IF closes THEN {RestKey(w)} ELSE {}))
  BY <1>8, <1>9, <1>10 DEF KeysAdded
<1> QED BY <1>11, <1>12 DEF paid, source

LEMMA AdvanceGoes ==
  ASSUME TypeInv, KeysInv, NEW w \in Window, NEW part, advance(w, part)
  PROVE  \E row \in WindowRow, rest \in Nat : part \in Nat /\ GoStep(w, row, part, rest)
<1> DEFINE old == window[w]
           closes == old.ended
           row == [old EXCEPT !.paid = old.paid + part,
                     !.state = IF closes THEN "CLOSED"
                               ELSE IF old.route \in ready THEN old.state ELSE "DRAINING"]
           rest == IF closes THEN Unpaid(w) - part ELSE 0
<1>1. /\ old.state \in OpenStates /\ part \in 0..Unpaid(w)
      /\ PostBoth(PayKey(w, old.paid + part), IF part = 0 THEN NoLines ELSE PayLines(w, part),
                  RestKey(w), IF closes THEN RestLines(w, rest) ELSE NoLines)
      /\ window' = [window EXCEPT ![w] = row] /\ UNCHANGED <<given, request>>
  BY Rows DEF advance, PayKey, RestKey
<1>2. /\ old \in WindowRow /\ old.paid \in Nat /\ Unpaid(w) \in Nat /\ part \in Nat
      /\ part <= Unpaid(w) /\ closes \in BOOLEAN
  BY <1>1, Rows DEF WindowRow
<1>3. rest \in Nat /\ (~closes => rest = 0)
  BY <1>2
<1>4. row \in WindowRow
  <2>1. old.paid + part \in Nat
    BY <1>2
  <2> QED BY <1>1, <1>2, <2>1 DEF WindowRow, OpenStates
<1>5. /\ row.group = old.group /\ row.source = old.source /\ row.paid = old.paid + part
      /\ row.state \in OpenStates \cup {"CLOSED"} /\ (row.state = "CLOSED" <=> closes)
  BY <1>1, <1>2 DEF WindowRow, OpenStates
<1>6. rest = IF row.state = "CLOSED" THEN Unpaid(w) - part ELSE 0
  BY <1>5
<1> HIDE DEF row, rest
<1>7. /\ EscrowsMove([NoMove EXCEPT ![old.source] = rest, ![w] = -(part + rest)])
      /\ KeysAdded((IF part > 0 THEN {PayKey(w, old.paid + part)} ELSE {})
                   \cup (IF closes THEN {RestKey(w)} ELSE {}))
  BY <1>1, <1>2, <1>3, GoPosts
<1>8. GoStep(w, row, part, rest)
  BY <1>1, <1>2, <1>5, <1>6, <1>7 DEF GoStep
<1> QED BY <1>2, <1>3, <1>4, <1>8

LEMMA CancelGoes ==
  ASSUME TypeInv, KeysInv, NEW w \in Window, NEW leaves \in BOOLEAN, NEW part,
         cancel(w, leaves, part)
  PROVE  \E row \in WindowRow, rest \in Nat : part \in Nat /\ GoStep(w, row, part, rest)
<1> DEFINE old == window[w]
           closes == old.state = "OFFERED"
           row == IF closes THEN [old EXCEPT !.state = "CLOSED"]
                  ELSE [old EXCEPT !.state = "DRAINING", !.paid = old.paid + part,
                                   !.left = old.left \/ leaves]
           rest == IF closes THEN Unpaid(w) ELSE 0
           d == [NoMove EXCEPT ![old.source] = rest, ![w] = -(part + rest)]
           keys == (IF part > 0 THEN {PayKey(w, row.paid)} ELSE {})
                   \cup (IF row.state = "CLOSED" THEN {RestKey(w)} ELSE {})
<1>1. /\ old.state \in OpenStates /\ part \in 0..Unpaid(w) /\ (closes => part = 0)
      /\ closes => IF Unpaid(w) = 0 THEN UNCHANGED ledgerVars
                   ELSE Post(RestKey(w), RestLines(w, Unpaid(w)))
      /\ ~closes => IF part = 0 THEN UNCHANGED ledgerVars
                    ELSE Post(PayKey(w, old.paid + part), PayLines(w, part))
      /\ window' = [window EXCEPT ![w] = row] /\ UNCHANGED <<given, request>>
  BY Rows DEF cancel, Revocable, PayKey, RestKey
<1>2. /\ old \in WindowRow /\ old.paid \in Nat /\ Unpaid(w) \in Nat /\ part \in Nat
      /\ part <= Unpaid(w) /\ rest \in Nat
      /\ old.source \in Fund /\ w \in Fund /\ old.source # w
  BY <1>1, Rows, WindowsAre DEF Source
<1>3. row \in WindowRow
  <2>1. old.paid + part \in Nat
    BY <1>2
  <2> QED BY <1>1, <1>2, <2>1 DEF WindowRow, OpenStates
<1>4. /\ row.group = old.group /\ row.source = old.source /\ row.paid = old.paid + part
      /\ row.state \in OpenStates \cup {"CLOSED"} /\ (row.state = "CLOSED" <=> closes)
  BY <1>1, <1>2 DEF WindowRow, OpenStates
<1>5. rest = IF row.state = "CLOSED" THEN Unpaid(w) - part ELSE 0
  BY <1>1, <1>2, <1>4
<1> HIDE DEF row
<1>6. \A f \in Fund :
        d[f] = IF f = w THEN -(part + rest) ELSE IF f = old.source THEN rest ELSE 0
  BY <1>2 DEF NoMove
<1>7. RestKey(w) \notin journal /\ (part > 0 => PayKey(w, old.paid + part) \notin journal)
  <2>1. old.paid + part \in Nat /\ (part > 0 => old.paid + part > old.paid)
    BY <1>2
  <2> QED BY <1>1, <2>1 DEF KeysInv, OpenStates
<1> HIDE DEF d
<1>8. EscrowsMove(d) /\ KeysAdded(keys)
  <2>1. CASE rest = 0 /\ part = 0
    <3>1. UNCHANGED ledgerVars
      BY <1>1, <2>1
    <3>2. \A f \in Fund : d[f] = NoMove[f]
      BY <1>6, <2>1 DEF NoMove
    <3> QED BY <3>1, <3>2, Rows, NothingMoves DEF EscrowsMove
  <2>2. CASE rest # 0
    <3>1. closes /\ part = 0 /\ rest = Unpaid(w) /\ Post(RestKey(w), RestLines(w, rest))
      BY <1>1, <2>2
    <3>2. \A f \in Fund : RestLines(w, rest)[Escrow(f)] = d[f]
      BY <1>1, <1>2, <1>6, <3>1, GoLines
    <3>3. EscrowsMove(d) /\ KeysAdded({RestKey(w)})
      BY <1>7, <3>1, <3>2, Rows, PostMoves
    <3> QED BY <1>4, <3>1, <3>3 DEF KeysAdded
  <2>3. CASE part # 0
    <3>1. ~closes /\ part > 0 /\ rest = 0 /\ Post(PayKey(w, old.paid + part), PayLines(w, part))
      BY <1>1, <1>2, <2>3
    <3>2. \A f \in Fund : PayLines(w, part)[Escrow(f)] = d[f]
      BY <1>1, <1>2, <1>6, <3>1, GoLines
    <3>3. EscrowsMove(d) /\ KeysAdded({PayKey(w, old.paid + part)})
      BY <1>7, <3>1, <3>2, Rows, PostMoves
    <3> QED BY <1>4, <3>1, <3>3 DEF KeysAdded
  <2> QED BY <2>1, <2>2, <2>3
<1>9. EscrowsMove([NoMove EXCEPT ![row.source] = rest, ![w] = -(part + rest)])
  BY <1>4, <1>8 DEF d
<1>10. GoStep(w, row, part, rest)
  BY <1>1, <1>2, <1>4, <1>5, <1>8, <1>9 DEF GoStep
<1> QED BY <1>2, <1>3, <1>10

LEMMA TermGoes ==
  ASSUME TypeInv, NEW w \in Window,
         (\E u \in User : accept(w, u)) \/ TermsFade(w) \/ WindowEnds(w)
  PROVE  \E row \in WindowRow, none \in Nat : GoStep(w, row, none, none)
<1> DEFINE old == window[w]
           row == window'[w]
<1>1. /\ old.state \in OpenStates /\ row \in WindowRow
      /\ row.group = old.group /\ row.source = old.source /\ row.paid = old.paid
      /\ row.state \in OpenStates /\ window' = [window EXCEPT ![w] = row]
      /\ UNCHANGED <<ledgerVars, given, request>>
  <2>1. old \in WindowRow
    BY Rows
  <2>2. CASE TermsFade(w)
    BY <2>1, <2>2, Rows DEF TermsFade, WindowRow, OpenStates, Times
  <2>3. CASE WindowEnds(w)
    BY <2>1, <2>3, Rows DEF WindowEnds, WindowRow, OpenStates
  <2>4. CASE \E u \in User : accept(w, u)
    <3>1. PICK u \in User : accept(w, u)
      BY <2>4
    <3> DEFINE st == IF old.accepted \cup {u} = ProvidersOf[old.route] THEN "ACTIVE" ELSE old.state
               next == [old EXCEPT !.accepted = old.accepted \cup {u}, !.state = st]
    <3>2. /\ window' = [window EXCEPT ![w] = next] /\ old.state = "OFFERED"
          /\ UNCHANGED <<ledgerVars, given, request>>
      BY <2>1, <3>1, Rows DEF accept
    <3>3. st \in OpenStates
      BY <3>2 DEF OpenStates
    <3> HIDE DEF st
    <3>4. /\ next \in WindowRow /\ next.group = old.group /\ next.source = old.source
          /\ next.paid = old.paid /\ next.state = st
      BY <2>1, <3>3 DEF WindowRow
    <3> HIDE DEF next
    <3>5. window'[w] = next
      BY <3>2, Rows
    <3> QED BY <3>2, <3>3, <3>4, <3>5 DEF OpenStates
  <2> QED BY <2>2, <2>3, <2>4
<1>2. old.paid \in Nat /\ Unpaid(w) \in Nat /\ old.source \in Fund /\ w \in Fund
  BY <1>1, Rows, WindowsAre
<1> HIDE DEF row
<1> PICK none \in Nat : none <= 0
  OBVIOUS
<1>3. EscrowsMove([NoMove EXCEPT ![row.source] = none, ![w] = -(none + none)])
  <2>1. \A f \in Fund : [NoMove EXCEPT ![row.source] = none, ![w] = -(none + none)][f] = NoMove[f]
    <3>1. -(none + none) = 0
      OBVIOUS
    <3> QED BY <1>1, <1>2, <3>1 DEF NoMove
  <2> QED BY <1>1, <2>1, Rows, NothingMoves DEF EscrowsMove
<1>4. \A keys : KeysAdded(keys)
  BY <1>1, Rows, NothingMoves
<1>5. row.paid = old.paid + none /\ none <= Unpaid(w) /\ row.state # "CLOSED"
  BY <1>1, <1>2 DEF OpenStates
<1>6. GoStep(w, row, none, none)
  BY <1>1, <1>3, <1>4, <1>5 DEF GoStep
<1> QED BY <1>1, <1>6

LEMMA SettleIs ==
  ASSUME TypeInv, KeysInv, NEW s \in Session, NEW charge, settleJudged(s, charge)
  PROVE  \E row \in RequestRow : SettleStep(s, row, Parts(charge)) /\ charge \in Nat
<1> DEFINE parts == Parts(charge)
           separate == Independent(Requester[s], window[request[s].window].group)
           row == [request[s] EXCEPT !.state = "SETTLED", !.separate = separate,
                      !.recent = TRUE, !.working = parts.working,
                      !.reserve = parts.reserve, !.burned = parts.burned]
           lines == SettleLines(s, charge, parts)
           d == [NoMove EXCEPT ![Working] = parts.working, ![Reserve] = parts.reserve,
                               ![Burn] = parts.burned]
<1>1. /\ charge \in 1..Hold[s] /\ request[s].state = "RUNNING"
      /\ request' = [request EXCEPT ![s] = row] /\ Post(SettleKey(s), lines)
      /\ UNCHANGED <<given, window>>
  BY Rows DEF settleJudged, settle, SettleKey
<1>2. charge \in Nat /\ Requester[s] \in User
  BY <1>1, RequestRows
<1>3. /\ parts.working \in Nat /\ parts.reserve \in Nat /\ parts.burned \in Nat
  BY <1>2, PartsAre
<1>4. separate \in BOOLEAN
  BY DEF Independent
<1> HIDE DEF separate, parts
<1>5. /\ row \in RequestRow /\ row.state = "SETTLED" /\ row.working = parts.working
      /\ row.reserve = parts.reserve /\ row.burned = parts.burned
  BY <1>3, <1>4, RequestRows DEF RequestRow
<1>6. SettleKey(s) \notin journal
  BY <1>1 DEF KeysInv, Early
<1>7. \A f \in Fund : lines[Escrow(f)] = d[f]
  <2>1. /\ Working \in Fund /\ Reserve \in Fund /\ Burn \in Fund /\ Working # Reserve
        /\ Reserve # Burn /\ Burn # Working
    BY WindowsAre DEF Source
  <2>2. /\ Escrow(Working) # Escrow(Reserve) /\ Escrow(Working) # Escrow(Burn)
        /\ Escrow(Reserve) # Escrow(Burn)
    BY <2>1, EscrowsAre
  <2> QED BY <1>2, <2>1, <2>2, NoLinesAre, EscrowsAre DEF SettleLines, NoMove
<1> HIDE DEF row, lines, d
<1>8. EscrowsMove(d) /\ KeysAdded({SettleKey(s)})
  BY <1>1, <1>6, <1>7, Rows, PostMoves
<1>9. parts \in {Parts(q) : q \in Nat}
  BY <1>2 DEF parts
<1>10. SettleStep(s, row, parts)
  BY <1>1, <1>5, <1>8, <1>9 DEF SettleStep, d
<1> QED BY <1>2, <1>5, <1>10 DEF parts

LEMMA UndoIs ==
  ASSUME TypeInv, KeysInv, NEW s \in Session, refund(s)
  PROVE  \E row \in RequestRow : UndoStep(s, row)
<1> DEFINE old == request[s]
           row == [old EXCEPT !.state = "REFUNDED", !.undone = TRUE]
           lines == RefundLines(s)
           d == [NoMove EXCEPT ![Working] = -old.working, ![Reserve] = -old.reserve,
                               ![Burn] = -old.burned]
<1>1. /\ old.state = "SETTLED" /\ request' = [request EXCEPT ![s] = row]
      /\ Post(UndoKey(s), lines) /\ UNCHANGED <<given, window>>
  BY Rows DEF refund, UndoKey
<1>2. /\ row \in RequestRow /\ row.state = "REFUNDED"
      /\ Requester[s] \in User
  BY RequestRows DEF RequestRow
<1>3. UndoKey(s) \notin journal
  BY <1>1 DEF KeysInv
<1>4. \A f \in Fund : lines[Escrow(f)] = d[f]
  <2>1. /\ Working \in Fund /\ Reserve \in Fund /\ Burn \in Fund /\ Working # Reserve
        /\ Reserve # Burn /\ Burn # Working
    BY WindowsAre DEF Source
  <2>2. /\ Escrow(Working) # Escrow(Reserve) /\ Escrow(Working) # Escrow(Burn)
        /\ Escrow(Reserve) # Escrow(Burn)
    BY <2>1, EscrowsAre
  <2> QED BY <1>2, <2>1, <2>2, NoLinesAre, EscrowsAre DEF RefundLines, NoMove
<1> HIDE DEF row, lines, d
<1>5. EscrowsMove(d) /\ KeysAdded({UndoKey(s)})
  BY <1>1, <1>3, <1>4, Rows, PostMoves
<1>6. UndoStep(s, row)
  BY <1>1, <1>2, <1>5 DEF UndoStep, d
<1> QED BY <1>2, <1>6

LEMMA QuoteStill ==
  ASSUME TypeInv, NEW s \in Session,
         quote(s) \/ create(s) \/ release(s) \/ \E w \in Window : admit(s, w)
  PROVE  StillStep
<1> DEFINE new == request'[s]
           old == request[s]
<1>1. /\ UNCHANGED <<given, window>>
      /\ old \in RequestRow
      /\ \A t \in Session \ {s} : request'[t] = request[t]
      /\ old.state \in Early
      /\ new.state \in {"QUOTED", "QUEUED", "RUNNING", "RELEASED"}
      /\ new.working = old.working /\ new.reserve = old.reserve /\ new.burned = old.burned
  <2>1. old \in RequestRow
    BY Rows
  <2>2. CASE quote(s)
    BY <2>1, <2>2, Rows DEF quote, RequestRow, Early
  <2>3. CASE create(s)
    BY <2>1, <2>3, Rows DEF create, RequestRow, Early
  <2>4. CASE release(s)
    BY <2>1, <2>4, Rows DEF release, RequestRow, Early
  <2>5. CASE \E w \in Window : admit(s, w)
    <3>1. PICK w \in Window : admit(s, w)
      BY <2>5
    <3> DEFINE next == [old EXCEPT !.state = "RUNNING", !.window = w]
    <3>2. /\ request' = [request EXCEPT ![s] = next] /\ old.state = "QUEUED"
          /\ UNCHANGED <<given, window>>
      BY <2>1, <3>1, Rows DEF admit
    <3>3. /\ next.state = "RUNNING" /\ next.working = old.working
          /\ next.reserve = old.reserve /\ next.burned = old.burned
      BY <2>1 DEF RequestRow
    <3> HIDE DEF next
    <3>4. new = next
      BY <3>2, Rows
    <3> QED BY <2>1, <3>2, <3>3, <3>4, Rows DEF Early
  <2> QED BY <2>1, <2>2, <2>3, <2>4, <2>5
<1>5. release(s) => new.state = "RELEASED"
  BY Rows DEF release, RequestRow
<1> HIDE DEF new, old
<1>2. ASSUME NEW t \in Session PROVE RequestGoes(t)
  <2>1. CASE t = s
    BY <1>1, <2>1 DEF RequestGoes, Early, new, old
  <2>2. CASE t # s
    BY <1>1, <2>2 DEF RequestGoes
  <2> QED BY <2>1, <2>2
<1>3. Requester[s] \in User
  BY RequestRows
<1>4. /\ EscrowsMove(NoMove)
      /\ \/ KeysAdded({HoldKey(s)})
         \/ KeysAdded({SettleKey(s)}) /\ request'[s].state = "RELEASED"
  <2>1. ASSUME NEW key, NEW lines, Post(key, lines), \A f \in Fund : lines[Escrow(f)] = NoMove[f]
        PROVE  EscrowsMove(NoMove) /\ KeysAdded({key})
    <3>1. CASE key \in journal
      BY <2>1, <3>1, Rows, NothingMoves DEF Post
    <3>2. CASE key \notin journal
      BY <2>1, <3>2, Rows, PostMoves
    <3> QED BY <3>1, <3>2
  <2>2. CASE quote(s) \/ \E w \in Window : admit(s, w)
    BY <2>2, Rows, NothingMoves DEF quote, admit
  <2>3. CASE create(s)
    <3> DEFINE lines == [NoLines EXCEPT ![Available(Requester[s])] = -Hold[s],
                                        ![Held(Requester[s])] = Hold[s]]
    <3>1. \A f \in Fund : lines[Escrow(f)] = NoMove[f]
      BY <1>3, NoLinesAre, EscrowsAre DEF NoMove
    <3>2. Post(HoldKey(s), lines)
      BY <2>3 DEF create, HoldKey
    <3> HIDE DEF lines
    <3> QED BY <2>1, <3>1, <3>2
  <2>4. CASE release(s)
    <3> DEFINE lines == [NoLines EXCEPT ![Held(Requester[s])] = -Hold[s],
                                        ![Available(Requester[s])] = Hold[s]]
    <3>1. \A f \in Fund : lines[Escrow(f)] = NoMove[f]
      BY <1>3, NoLinesAre, EscrowsAre DEF NoMove
    <3>2. Post(SettleKey(s), lines)
      BY <2>4 DEF release, SettleKey
    <3> HIDE DEF lines
    <3>3. EscrowsMove(NoMove) /\ KeysAdded({SettleKey(s)})
      BY <2>1, <3>1, <3>2
    <3> QED BY <1>5, <2>4, <3>3 DEF new
  <2> QED BY <2>2, <2>3, <2>4
<1> QED BY <1>1, <1>2, <1>4 DEF StillStep, KeysAdded

LEMMA QuietMoney ==
  ASSUME TypeInv, UNCHANGED <<ledgerVars, given, window>>,
         UNCHANGED request \/ DayPasses
  PROVE  StillStep
<1>1. ASSUME NEW s \in Session PROVE RequestGoes(s)
  <2>1. CASE UNCHANGED request
    BY <2>1 DEF RequestGoes
  <2>2. CASE DayPasses
    <3>1. request'[s] = [request[s] EXCEPT !.recent = FALSE, !.undone = FALSE]
      BY <2>2 DEF DayPasses
    <3> QED BY <3>1, RequestRows DEF RequestGoes, RequestRow
  <2> QED BY <2>1, <2>2
<1>2. EscrowsMove(NoMove) /\ \A keys : KeysAdded(keys)
  BY Rows, NothingMoves
<1> QED BY <1>1, <1>2 DEF StillStep

MoneyStep ==
  \/ \E s \in Source, n \in Nat \ {0} : GiftStep(s, n)
  \/ \E w \in Window, row \in WindowRow : OpenStep(w, row)
  \/ \E w \in Window, row \in WindowRow, part \in Nat, rest \in Nat : GoStep(w, row, part, rest)
  \/ \E s \in Session, row \in RequestRow, q \in Nat : SettleStep(s, row, Parts(q))
  \/ \E s \in Session, row \in RequestRow : UndoStep(s, row)
  \/ StillStep

LEMMA CoopMoney ==
  ASSUME TypeInv, KeysInv, CoopStep
  PROVE  MoneyStep
<1>1. In("givers") \subseteq User /\ In("requests") \subseteq Session
  BY PoolsAssumption DEF In, TypeInv
<1>2. CASE \E u \in In("givers"), s \in Source, n \in Gifts : fund(u, s, n)
  BY <1>1, <1>2, GiftIs DEF MoneyStep
<1>3. CASE \/ \E p \in BOOLEAN, t \in {"LONG", "SHORT"} : manage(p, t)
           \/ sample \/ SamplesStop \/ SupportFades \/ DayPasses
           \/ \E r \in In("flaky") : Listed(r)
  <2>1. /\ UNCHANGED <<ledgerVars, given, window>>
        /\ UNCHANGED request \/ DayPasses
    BY <1>3 DEF manage, sample, SamplesStop, SupportFades, DayPasses, Listed
  <2> QED BY <2>1, QuietMoney DEF MoneyStep
<1>4. CASE \E g \in Group, s \in Source, r \in Route : offer(g, s, r)
  <2>1. PICK g \in Group, s \in Source, r \in Route : offer(g, s, r)
    BY <1>4
  <2>2. "ESSENTIAL" \in Kind
    BY DEF Kind
  <2>3. Offered(g, "ESSENTIAL", s, r) \in WindowRow
    BY <2>2, OfferedIs
  <2>4. NextWindow \in Window /\ OpenStep(NextWindow, Offered(g, "ESSENTIAL", s, r))
    BY <2>1, OfferOpens
  <2> QED BY <2>3, <2>4 DEF MoneyStep
<1>5. ASSUME NEW w \in Window,
             \/ \E u \in User : accept(w, u)
             \/ \E part \in In("parts") : advance(w, part)
             \/ \E leaves \in BOOLEAN, part \in In("parts") : cancel(w, leaves, part)
             \/ TermsFade(w) \/ WindowEnds(w)
      PROVE  MoneyStep
  <2>1. \E row \in WindowRow, part \in Nat, rest \in Nat : GoStep(w, row, part, rest)
    BY <1>5, AdvanceGoes, CancelGoes, TermGoes
  <2> QED BY <2>1 DEF MoneyStep
<1>6. ASSUME NEW s \in In("requests"),
             \/ quote(s) \/ create(s) \/ release(s) \/ refund(s)
             \/ \E w \in Window : admit(s, w)
             \/ \E charge \in Charges : settleJudged(s, charge)
      PROVE  MoneyStep
  <2>1. CASE quote(s) \/ create(s) \/ release(s) \/ \E w \in Window : admit(s, w)
    BY <1>1, <2>1, QuoteStill DEF MoneyStep
  <2>2. CASE refund(s)
    BY <1>1, <2>2, UndoIs DEF MoneyStep
  <2>3. CASE \E charge \in Charges : settleJudged(s, charge)
    BY <1>1, <2>3, SettleIs DEF MoneyStep
  <2> QED BY <1>6, <2>1, <2>2, <2>3
<1> QED BY <1>2, <1>3, <1>4, <1>5, <1>6 DEF CoopStep

\* A step is one of the pool's own, one that leaves the pool alone, or a renewal.
LEMMA Kinds ==
  ASSUME TypeInv, [Next]_allVars
  PROVE  CoopStep \/ UNCHANGED poolVars \/ RenewalStep
<1>1. CASE EconStep
  BY <1>1, EconStepMoves
<1>2. CASE RenewStep
  BY <1>2, RenewMoves DEF ecoVars
<1>3. CASE UNCHANGED allVars
  BY <1>3 DEF allVars, vars, ecoVars
<1> QED BY <1>1, <1>2, <1>3 DEF Next

LEMMA MoneySteps ==
  ASSUME TypeInv, KeysInv, [Next]_allVars
  PROVE  MoneyStep
<1>1. CASE UNCHANGED poolVars
  <2>1. UNCHANGED <<ledgerVars, given, window>> /\ UNCHANGED request
    BY <1>1 DEF poolVars, coopVars
  <2> QED BY <2>1, QuietMoney DEF MoneyStep
<1>2. CASE RenewalStep
  BY <1>2, RenewalOpens DEF MoneyStep
<1>3. CASE CoopStep
  BY <1>3, CoopMoney
<1> QED BY <1>1, <1>2, <1>3, Kinds

\* Keys of two kinds, or of two things, are two keys.
LEMMA KeysDiffer ==
  /\ \A w, v : FundKey(w) = FundKey(v) => w = v
  /\ \A w, v : RestKey(w) = RestKey(v) => w = v
  /\ \A w, v, n, k : PayKey(w, n) = PayKey(v, k) => w = v /\ n = k
  /\ \A s, t : SettleKey(s) = SettleKey(t) => s = t
  /\ \A s, t : UndoKey(s) = UndoKey(t) => s = t
  /\ \A s, t, n, k : GiftKey(s, n) = GiftKey(t, k) => s = t /\ n = k
  /\ \A w, v : FundKey(w) # RestKey(v)
  /\ \A w, v, n : FundKey(w) # PayKey(v, n) /\ RestKey(w) # PayKey(v, n)
  /\ \A w, s : FundKey(w) # SettleKey(s) /\ FundKey(w) # UndoKey(s) /\ FundKey(w) # HoldKey(s)
  /\ \A w, s, n : FundKey(w) # GiftKey(s, n) /\ RestKey(w) # GiftKey(s, n)
  /\ \A w, s : RestKey(w) # SettleKey(s) /\ RestKey(w) # UndoKey(s) /\ RestKey(w) # HoldKey(s)
  /\ \A w, n, s : PayKey(w, n) # SettleKey(s) /\ PayKey(w, n) # UndoKey(s)
                  /\ PayKey(w, n) # HoldKey(s)
  /\ \A w, n, s, k : PayKey(w, n) # GiftKey(s, k)
  /\ \A s, t : SettleKey(s) # UndoKey(t) /\ SettleKey(s) # HoldKey(t) /\ UndoKey(s) # HoldKey(t)
  /\ \A s, t, n : GiftKey(t, n) # SettleKey(s) /\ GiftKey(t, n) # UndoKey(s)
                  /\ GiftKey(t, n) # HoldKey(s)
<1>1. /\ \A w, v : FundKey(w) = FundKey(v) => w = v
      /\ \A w, v : RestKey(w) = RestKey(v) => w = v
      /\ \A w, v, n, k : PayKey(w, n) = PayKey(v, k) => w = v /\ n = k
  BY DEF FundKey, RestKey, PayKey
<1>2. /\ \A s, t : SettleKey(s) = SettleKey(t) => s = t
      /\ \A s, t : UndoKey(s) = UndoKey(t) => s = t
      /\ \A s, t, n, k : GiftKey(s, n) = GiftKey(t, k) => s = t /\ n = k
  BY DEF SettleKey, UndoKey, GiftKey
<1>3. /\ \A w, v : FundKey(w) # RestKey(v)
      /\ \A w, v, n : FundKey(w) # PayKey(v, n) /\ RestKey(w) # PayKey(v, n)
  BY DEF FundKey, RestKey, PayKey
<1>4. /\ \A w, s : FundKey(w) # SettleKey(s) /\ FundKey(w) # UndoKey(s) /\ FundKey(w) # HoldKey(s)
      /\ \A w, s, n : FundKey(w) # GiftKey(s, n) /\ RestKey(w) # GiftKey(s, n)
      /\ \A w, s : RestKey(w) # SettleKey(s) /\ RestKey(w) # UndoKey(s) /\ RestKey(w) # HoldKey(s)
  BY DEF FundKey, RestKey, SettleKey, UndoKey, GiftKey, HoldKey
<1>5. /\ \A w, n, s : PayKey(w, n) # SettleKey(s) /\ PayKey(w, n) # UndoKey(s)
                      /\ PayKey(w, n) # HoldKey(s)
      /\ \A w, n, s, k : PayKey(w, n) # GiftKey(s, k)
  BY DEF PayKey, SettleKey, UndoKey, GiftKey, HoldKey
<1>6. /\ \A s, t : SettleKey(s) # UndoKey(t) /\ SettleKey(s) # HoldKey(t) /\ UndoKey(s) # HoldKey(t)
      /\ \A s, t, n : GiftKey(t, n) # SettleKey(s) /\ GiftKey(t, n) # UndoKey(s)
                      /\ GiftKey(t, n) # HoldKey(s)
  BY DEF SettleKey, UndoKey, GiftKey, HoldKey
<1> QED BY <1>1, <1>2, <1>3, <1>4, <1>5, <1>6

\* A key that a step did not post is posted only if it was.
LEMMA NotAdded ==
  ASSUME NEW keys, KeysAdded(keys), NEW key, key \notin journal, key \notin keys
  PROVE  key \notin journal'
BY DEF KeysAdded

LEMMA GiftKeys ==
  ASSUME TypeInv, KeysInv, NEW s \in Source, NEW n \in Nat \ {0}, GiftStep(s, n)
  PROVE  KeysInv'
<1>1. /\ KeysAdded({GiftKey(s, given[s])}) /\ window' = window /\ request' = request
      /\ given' = [given EXCEPT ![s] = given[s] + n] /\ given \in [Source -> Nat]
  BY Rows DEF GiftStep
<1>2. \A w \in Window : window[w].state = "NONE" => FundKey(w) \notin journal'
  BY <1>1, NotAdded, KeysDiffer DEF KeysInv
<1>3. ASSUME NEW w \in Window, window[w].state # "CLOSED"
      PROVE  /\ RestKey(w) \notin journal'
             /\ \A k \in Nat : k > window[w].paid => PayKey(w, k) \notin journal'
  <2>1. /\ RestKey(w) # GiftKey(s, given[s])
        /\ \A k : PayKey(w, k) # GiftKey(s, given[s])
    BY KeysDiffer
  <2>2. /\ RestKey(w) \notin journal
        /\ \A k \in Nat : k > window[w].paid => PayKey(w, k) \notin journal
    BY <1>3 DEF KeysInv
  <2> QED BY <1>1, <2>1, <2>2, NotAdded
<1>4. /\ \A t \in Session : request[t].state \in Early => SettleKey(t) \notin journal'
      /\ \A t \in Session : request[t].state # "REFUNDED" => UndoKey(t) \notin journal'
  BY <1>1, NotAdded, KeysDiffer DEF KeysInv
<1>5. ASSUME NEW t \in Source, NEW k \in Nat, k >= given'[t]
      PROVE  GiftKey(t, k) \notin journal'
  <2>1. k >= given[t] /\ (t = s => k # given[s])
    BY <1>1, <1>5
  <2>2. GiftKey(t, k) \notin journal /\ GiftKey(t, k) # GiftKey(s, given[s])
    BY <2>1, KeysDiffer DEF KeysInv
  <2> QED BY <1>1, <2>2, NotAdded
<1> QED BY <1>1, <1>2, <1>3, <1>4, <1>5 DEF KeysInv

\* A step that posts a window's keys, and no other ones.
LEMMA WindowKeys ==
  ASSUME TypeInv, KeysInv, NEW w \in Window, NEW row \in WindowRow,
         UNCHANGED <<given, request>>, window' = [window EXCEPT ![w] = row], NEW keys,
         KeysAdded(keys),
         keys \subseteq {FundKey(w), RestKey(w)} \cup {PayKey(w, n) : n \in Nat},
         row.state # "NONE",
         window[w].state = "CLOSED" => row.state = "CLOSED",
         row.state # "CLOSED" => row.paid >= window[w].paid /\ RestKey(w) \notin keys,
         row.state # "CLOSED" => \A n \in Nat : n > row.paid => PayKey(w, n) \notin keys
  PROVE  KeysInv'
<1>1. /\ window'[w] = row /\ \A v \in Window \ {w} : window'[v] = window[v]
      /\ window[w].paid \in Nat /\ row.paid \in Nat /\ given' = given /\ request' = request
  BY Rows DEF WindowRow
<1>2. \A key : key \in keys => \/ key = FundKey(w) \/ key = RestKey(w)
                               \/ \E n \in Nat : key = PayKey(w, n)
  OBVIOUS
<1>3. ASSUME NEW v \in Window, window'[v].state = "NONE"
      PROVE  FundKey(v) \notin journal'
  <2>1. v # w /\ window[v].state = "NONE"
    BY <1>1, <1>3
  <2>2. FundKey(v) \notin journal /\ FundKey(v) \notin keys
    BY <1>2, <2>1, KeysDiffer DEF KeysInv
  <2> QED BY <2>2, NotAdded
<1>4. ASSUME NEW v \in Window, window'[v].state # "CLOSED"
      PROVE  /\ RestKey(v) \notin journal'
             /\ \A n \in Nat : n > window'[v].paid => PayKey(v, n) \notin journal'
  <2>1. CASE v = w
    <3>1. row.state # "CLOSED" /\ window[w].state # "CLOSED"
      BY <1>1, <1>4, <2>1
    <3>2. RestKey(w) \notin journal /\ RestKey(w) \notin keys
      BY <3>1 DEF KeysInv
    <3>3. ASSUME NEW n \in Nat, n > row.paid
          PROVE  PayKey(w, n) \notin journal /\ PayKey(w, n) \notin keys
      BY <1>1, <3>1, <3>3 DEF KeysInv
    <3> QED BY <1>1, <2>1, <3>2, <3>3, NotAdded
  <2>2. CASE v # w
    <3>1. window'[v] = window[v]
      BY <1>1, <2>2
    <3>4. RestKey(v) # RestKey(w) /\ RestKey(v) # FundKey(w)
          /\ \A n : RestKey(v) # PayKey(w, n)
      BY <2>2, KeysDiffer
    <3>5. \A n, k : /\ PayKey(v, n) # PayKey(w, k) /\ PayKey(v, n) # RestKey(w)
                    /\ PayKey(v, n) # FundKey(w)
      BY <2>2, KeysDiffer
    <3>2. RestKey(v) \notin journal /\ RestKey(v) \notin keys
      BY <1>2, <1>4, <3>1, <3>4 DEF KeysInv
    <3>3. ASSUME NEW n \in Nat, n > window[v].paid
          PROVE  PayKey(v, n) \notin journal /\ PayKey(v, n) \notin keys
      BY <1>2, <1>4, <3>1, <3>3, <3>5 DEF KeysInv
    <3> QED BY <3>1, <3>2, <3>3, NotAdded
  <2> QED BY <2>1, <2>2
<1>5. ASSUME NEW t \in Session
      PROVE  /\ request'[t].state \in Early => SettleKey(t) \notin journal'
             /\ request'[t].state # "REFUNDED" => UndoKey(t) \notin journal'
  <2>1. SettleKey(t) \notin keys /\ UndoKey(t) \notin keys
    BY <1>2, KeysDiffer
  <2> QED BY <1>1, <2>1, NotAdded DEF KeysInv
<1>6. ASSUME NEW t \in Source, NEW k \in Nat, k >= given'[t]
      PROVE  GiftKey(t, k) \notin journal'
  <2>1. GiftKey(t, k) \notin keys
    BY <1>2, KeysDiffer
  <2> QED BY <1>1, <1>6, <2>1, NotAdded DEF KeysInv
<1> QED BY <1>3, <1>4, <1>5, <1>6 DEF KeysInv

\* A step that posts keys of requests, and no other ones.
LEMMA RequestKeys ==
  ASSUME TypeInv, KeysInv, UNCHANGED <<given, window>>, NEW keys, KeysAdded(keys),
         keys \subseteq {HoldKey(s) : s \in Session} \cup {SettleKey(s) : s \in Session}
                        \cup {UndoKey(s) : s \in Session},
         \A s \in Session : request'[s].state \in Early =>
           request[s].state \in Early /\ SettleKey(s) \notin keys,
         \A s \in Session : request'[s].state # "REFUNDED" =>
           request[s].state # "REFUNDED" /\ UndoKey(s) \notin keys
  PROVE  KeysInv'
<1>1. given' = given /\ window' = window
  OBVIOUS
<1>2. \A key : key \in keys => \E s \in Session : key \in {HoldKey(s), SettleKey(s), UndoKey(s)}
  OBVIOUS
<1>3. ASSUME NEW v \in Window
      PROVE  /\ window[v].state = "NONE" => FundKey(v) \notin journal'
             /\ window[v].state # "CLOSED" =>
                  /\ RestKey(v) \notin journal'
                  /\ \A n \in Nat : n > window[v].paid => PayKey(v, n) \notin journal'
  <2>1. FundKey(v) \notin keys /\ RestKey(v) \notin keys /\ \A n : PayKey(v, n) \notin keys
    BY <1>2, KeysDiffer
  <2> QED BY <2>1, NotAdded DEF KeysInv
<1>4. ASSUME NEW t \in Session
      PROVE  /\ request'[t].state \in Early => SettleKey(t) \notin journal'
             /\ request'[t].state # "REFUNDED" => UndoKey(t) \notin journal'
  BY NotAdded DEF KeysInv
<1>5. ASSUME NEW t \in Source, NEW k \in Nat, k >= given[t]
      PROVE  GiftKey(t, k) \notin journal'
  <2>1. GiftKey(t, k) \notin keys
    BY <1>2, KeysDiffer
  <2> QED BY <1>5, <2>1, NotAdded DEF KeysInv
<1> QED BY <1>1, <1>3, <1>4, <1>5 DEF KeysInv

LEMMA KeysKept ==
  ASSUME TypeInv, KeysInv, MoneyStep
  PROVE  KeysInv'
<1>1. ASSUME NEW s \in Source, NEW n \in Nat \ {0}, GiftStep(s, n)
      PROVE  KeysInv'
  BY <1>1, GiftKeys
<1>2. ASSUME NEW w \in Window, NEW row \in WindowRow, OpenStep(w, row)
      PROVE  KeysInv'
  <2>1. /\ window[w].state = "NONE" /\ row.state \in {"OFFERED", "ACTIVE"} /\ row.paid = 0
        /\ KeysAdded({FundKey(w)})
        /\ UNCHANGED <<given, request>> /\ window' = [window EXCEPT ![w] = row]
    BY <1>2 DEF OpenStep
  <2>2. window[w].paid = 0
    BY <2>1 DEF TypeInv, RowsNamed, NoWindow
  <2> DEFINE keys == {FundKey(w)}
  <2>3. /\ RestKey(w) \notin keys /\ \A n : PayKey(w, n) \notin keys
        /\ keys \subseteq {FundKey(w), RestKey(w)} \cup {PayKey(w, n) : n \in Nat}
    BY KeysDiffer
  <2>4. row.state # "NONE" /\ row.paid >= window[w].paid /\ window[w].state # "CLOSED"
    BY <2>1, <2>2
  <2>5. KeysAdded(keys)
    BY <2>1
  <2> HIDE DEF keys
  <2> QED BY <2>1, <2>3, <2>4, <2>5, WindowKeys
<1>3. ASSUME NEW w \in Window, NEW row \in WindowRow, NEW part \in Nat, NEW rest \in Nat,
             GoStep(w, row, part, rest)
      PROVE  KeysInv'
  <2> DEFINE keys == (IF part > 0 THEN {PayKey(w, row.paid)} ELSE {})
                     \cup (IF row.state = "CLOSED" THEN {RestKey(w)} ELSE {})
  <2>1. /\ window[w].state \in OpenStates /\ row.state \in OpenStates \cup {"CLOSED"}
        /\ row.paid = window[w].paid + part /\ KeysAdded(keys)
        /\ UNCHANGED <<given, request>> /\ window' = [window EXCEPT ![w] = row]
    BY <1>3 DEF GoStep
  <2>2. window[w].paid \in Nat /\ row.paid \in Nat
    BY Rows DEF WindowRow
  <2>3. /\ keys \subseteq {FundKey(w), RestKey(w)} \cup {PayKey(w, n) : n \in Nat}
        /\ row.state # "CLOSED" => RestKey(w) \notin keys
    BY <2>2, KeysDiffer
  <2>4. ASSUME row.state # "CLOSED", NEW n \in Nat, n > row.paid
        PROVE  PayKey(w, n) \notin keys
    BY <2>2, <2>4, KeysDiffer
  <2>5. /\ row.state # "NONE" /\ window[w].state # "CLOSED" /\ row.paid >= window[w].paid
    BY <2>1, <2>2 DEF OpenStates
  <2> HIDE DEF keys
  <2> QED BY <2>1, <2>3, <2>4, <2>5, WindowKeys
<1>4. ASSUME NEW s \in Session, NEW row \in RequestRow, NEW q \in Nat, SettleStep(s, row, Parts(q))
      PROVE  KeysInv'
  <2>1. /\ KeysAdded({SettleKey(s)}) /\ UNCHANGED <<given, window>>
        /\ request'[s].state = "SETTLED" /\ request[s].state = "RUNNING"
        /\ \A t \in Session \ {s} : request'[t] = request[t]
    BY <1>4, Rows DEF SettleStep
  <2>2. \A t \in Session : t # s => SettleKey(t) # SettleKey(s)
    BY KeysDiffer
  <2>3. \A t \in Session : UndoKey(t) # SettleKey(s)
    BY KeysDiffer
  <2> QED BY <2>1, <2>2, <2>3, RequestKeys DEF Early
<1>5. ASSUME NEW s \in Session, NEW row \in RequestRow, UndoStep(s, row)
      PROVE  KeysInv'
  <2>1. /\ KeysAdded({UndoKey(s)}) /\ UNCHANGED <<given, window>>
        /\ request'[s].state = "REFUNDED" /\ request[s].state = "SETTLED"
        /\ \A t \in Session \ {s} : request'[t] = request[t]
    BY <1>5, Rows DEF UndoStep
  <2>2. \A t \in Session : t # s => UndoKey(t) # UndoKey(s)
    BY KeysDiffer
  <2>3. \A t \in Session : SettleKey(t) # UndoKey(s)
    BY KeysDiffer
  <2> QED BY <2>1, <2>2, <2>3, RequestKeys DEF Early
<1>6. CASE StillStep
  <2> DEFINE keys == {HoldKey(s) : s \in Session}
                     \cup {SettleKey(s) : s \in {t \in Session : request'[t].state = "RELEASED"}}
  <2>1. KeysAdded(keys) /\ UNCHANGED <<given, window>> /\ \A s \in Session : RequestGoes(s)
    BY <1>6 DEF StillStep
  <2>2. \A s \in Session : request'[s].state \in Early =>
          request[s].state \in Early /\ SettleKey(s) \notin keys
    BY <2>1, KeysDiffer DEF RequestGoes, Early
  <2>3. \A s \in Session : request'[s].state # "REFUNDED" =>
          request[s].state # "REFUNDED" /\ UndoKey(s) \notin keys
    BY <2>1, KeysDiffer DEF RequestGoes
  <2>4. keys \subseteq {HoldKey(s) : s \in Session} \cup {SettleKey(s) : s \in Session}
    OBVIOUS
  <2> HIDE DEF keys
  <2> QED BY <2>1, <2>2, <2>3, <2>4, RequestKeys
<1> QED BY <1>1, <1>2, <1>3, <1>4, <1>5, <1>6 DEF MoneyStep

-----------------------------------------------------------------------------
(* The books.                                                              *)

\* What a request brought to a fund, what a window took from one, and what it still has.
Brought(row, f) ==
  IF row.state # "SETTLED" THEN 0
  ELSE IF f = Working THEN row.working ELSE IF f = Reserve THEN row.reserve ELSE row.burned
Took(row, f) ==
  IF row.state = "NONE" \/ row.source # f THEN 0
  ELSE IF row.state \in OpenStates THEN Budget(row.group) ELSE row.paid
Left(row) == IF row.state \in OpenStates THEN Budget(row.group) - row.paid ELSE 0
GivenTo(gifts, f) == IF f \in Source THEN gifts[f] ELSE 0

AllBrought(requests, f) == SumFunctionOnSet([s \in Session |-> Brought(requests[s], f)], Session)
AllTook(rows, f) == SumFunctionOnSet([w \in Window |-> Took(rows[w], f)], Window)

PoolFund == {Working, Reserve, Burn}

Books(book, gifts, requests, rows) ==
  /\ \A f \in PoolFund :
       book[Escrow(f)] = GivenTo(gifts, f) + AllBrought(requests, f) - AllTook(rows, f)
  /\ \A w \in Window : book[Escrow(w)] = Left(rows[w])

LEMMA PoolFundsAre ==
  /\ Source \subseteq PoolFund /\ PoolFund \subseteq Fund /\ PoolFund \cap Window = {}
  /\ Working # Reserve /\ Reserve # Burn /\ Burn # Working /\ Burn \notin Source
  /\ Window \subseteq Fund
BY WindowsAre DEF PoolFund, Source

LEMMA BroughtIs ==
  ASSUME NEW row \in RequestRow, NEW f
  PROVE  Brought(row, f) \in Nat
BY DEF Brought, RequestRow

\* A row of an open window names a group.
Grouped(row) == row \in WindowRow /\ (row.state \in OpenStates => row.group \in Group)

LEMMA TookIs ==
  ASSUME NEW row, Grouped(row), NEW f
  PROVE  Took(row, f) \in Nat /\ Left(row) \in Int
<1>1. row.paid \in Nat /\ (row.state \in OpenStates => Budget(row.group) \in Nat)
  BY BudgetsAre DEF Grouped, WindowRow
<1> QED BY <1>1 DEF Took, Left

LEMMA GroupedRows ==
  ASSUME TypeInv
  PROVE  \A w \in Window : Grouped(window[w])
BY Rows DEF Grouped

LEMMA TotalsAre ==
  ASSUME TypeInv, NEW f
  PROVE  AllBrought(request, f) \in Int /\ AllTook(window, f) \in Int
<1> DEFINE b == [s \in Session |-> Brought(request[s], f)]
           t == [w \in Window |-> Took(window[w], f)]
<1>1. IsFiniteSet(Session) /\ IsFiniteSet(Window)
  BY CooperativeAssumption, WindowsAre
<1>2. \A s \in Session : b[s] \in Int
  BY RequestRows, BroughtIs
<1>3. \A w \in Window : t[w] \in Int
  BY GroupedRows, TookIs
<1> HIDE DEF b, t
<1>4. SumFunctionOnSet(b, Session) \in Int /\ SumFunctionOnSet(t, Window) \in Int
  BY <1>1, <1>2, <1>3, SumType
<1> QED BY <1>4 DEF b, t, AllBrought, AllTook

LEMMA BroughtShifts ==
  ASSUME TypeInv, NEW s \in Session, NEW row \in RequestRow,
         NEW requests, requests = [request EXCEPT ![s] = row], NEW f
  PROVE  AllBrought(requests, f) = AllBrought(request, f) - Brought(request[s], f) + Brought(row, f)
<1> DEFINE b == [t \in Session |-> Brought(request[t], f)]
           c == [t \in Session |-> Brought(requests[t], f)]
<1>1. IsFiniteSet(Session)
  BY CooperativeAssumption
<1>2. requests[s] = row /\ \A t \in Session \ {s} : requests[t] = request[t]
  BY Rows
<1>3. /\ b[s] = Brought(request[s], f) /\ c[s] = Brought(row, f)
      /\ \A t \in Session \ {s} : b[t] = c[t]
  BY <1>2
<1>4. \A t \in Session : b[t] \in Int /\ c[t] \in Int
  <2>1. \A t \in Session : b[t] \in Int
    BY RequestRows, BroughtIs
  <2>2. c[s] \in Int
    BY <1>3, BroughtIs
  <2> HIDE DEF b, c
  <2> QED BY <1>3, <2>1, <2>2
<1> HIDE DEF b, c
<1>5. SumFunctionOnSet(c, Session) = SumFunctionOnSet(b, Session) - b[s] + c[s]
  BY <1>1, <1>3, <1>4, SumChange
<1> QED BY <1>3, <1>5 DEF b, c, AllBrought

LEMMA BroughtStays ==
  ASSUME TypeInv, NEW f, NEW requests,
         \A s \in Session : Brought(requests[s], f) = Brought(request[s], f)
  PROVE  AllBrought(requests, f) = AllBrought(request, f)
BY DEF AllBrought

LEMMA TookShifts ==
  ASSUME TypeInv, NEW w \in Window, NEW row, Grouped(row),
         NEW rows, rows = [window EXCEPT ![w] = row], NEW f
  PROVE  AllTook(rows, f) = AllTook(window, f) - Took(window[w], f) + Took(row, f)
<1> DEFINE b == [v \in Window |-> Took(window[v], f)]
           c == [v \in Window |-> Took(rows[v], f)]
<1>1. IsFiniteSet(Window)
  BY WindowsAre
<1>2. rows[w] = row /\ \A v \in Window \ {w} : rows[v] = window[v]
  BY Rows
<1>3. /\ b[w] = Took(window[w], f) /\ c[w] = Took(row, f)
      /\ \A v \in Window \ {w} : b[v] = c[v]
  BY <1>2
<1>4. \A v \in Window : b[v] \in Int /\ c[v] \in Int
  <2>1. \A v \in Window : b[v] \in Int
    BY GroupedRows, TookIs
  <2>2. c[w] \in Int
    BY <1>3, TookIs
  <2> HIDE DEF b, c
  <2> QED BY <1>3, <2>1, <2>2
<1> HIDE DEF b, c
<1>5. SumFunctionOnSet(c, Window) = SumFunctionOnSet(b, Window) - b[w] + c[w]
  BY <1>1, <1>3, <1>4, SumChange
<1> QED BY <1>3, <1>5 DEF b, c, AllTook

\* What is true of the books, term by term.
LEMMA Terms ==
  ASSUME TypeInv
  PROVE  /\ \A f \in PoolFund : /\ balance[Escrow(f)] \in Int /\ GivenTo(given, f) \in Nat
                                /\ AllBrought(request, f) \in Int /\ AllTook(window, f) \in Int
         /\ \A w \in Window : balance[Escrow(w)] \in Int
<1>1. \A f \in Fund : balance[Escrow(f)] \in Int
  BY Rows, EscrowsAre DEF LedgerTypeOK
<1>2. \A f : GivenTo(given, f) \in Nat
  BY Rows DEF GivenTo
<1> QED BY <1>1, <1>2, PoolFundsAre, TotalsAre

BooksNext == Books(balance', given', request', window')

LEMMA GiftBooks ==
  ASSUME TypeInv, Books(balance, given, request, window), NEW s \in Source,
         NEW n \in Nat \ {0}, GiftStep(s, n)
  PROVE  BooksNext
<1>1. /\ given' = [given EXCEPT ![s] = given[s] + n] /\ given \in [Source -> Nat]
      /\ window' = window /\ request' = request
      /\ \A f \in Fund : balance'[Escrow(f)] = balance[Escrow(f)] + (IF f = s THEN n ELSE 0)
  BY Rows, PoolFundsAre DEF GiftStep, EscrowsMove, NoMove
<1>2. ASSUME NEW f \in PoolFund
      PROVE  balance'[Escrow(f)] =
               GivenTo(given', f) + AllBrought(request, f) - AllTook(window, f)
  <2>1. GivenTo(given', f) = GivenTo(given, f) + (IF f = s THEN n ELSE 0)
    BY <1>1 DEF GivenTo
  <2> QED BY <1>1, <2>1, Terms, PoolFundsAre DEF Books
<1>3. ASSUME NEW w \in Window
      PROVE  balance'[Escrow(w)] = Left(window[w])
  BY <1>1, Terms, PoolFundsAre DEF Books
<1> QED BY <1>1, <1>2, <1>3 DEF Books, BooksNext

\* The books after a step that writes one window, from what it moves.
LEMMA WindowBooks ==
  ASSUME TypeInv, Books(balance, given, request, window), UNCHANGED <<given, request>>,
         NEW w \in Window, NEW row, Grouped(row), row.source \in Source,
         window' = [window EXCEPT ![w] = row], NEW back \in Int, NEW move \in Int,
         EscrowsMove([NoMove EXCEPT ![row.source] = back, ![w] = move]),
         Left(row) = Left(window[w]) + move,
         Took(row, row.source) = Took(window[w], row.source) - back,
         \A f \in PoolFund \ {row.source} : Took(row, f) = Took(window[w], f)
  PROVE  BooksNext
<1>1. \A f \in Fund : balance'[Escrow(f)] = balance[Escrow(f)] +
         (IF f = w THEN move ELSE IF f = row.source THEN back ELSE 0)
  <2>1. w \in Fund /\ row.source \in Fund
    BY PoolFundsAre
  <2> QED BY <2>1 DEF EscrowsMove, NoMove
<1>2. \A f \in PoolFund : f # w /\ f \in Fund
  BY PoolFundsAre
<1>3. \A f \in PoolFund : /\ Took(row, f) \in Nat /\ Took(window[w], f) \in Nat
                          /\ AllTook(window', f) =
                               AllTook(window, f) - Took(window[w], f) + Took(row, f)
  BY TookShifts, TookIs, GroupedRows
<1>4. ASSUME NEW f \in PoolFund
      PROVE  balance'[Escrow(f)] =
               GivenTo(given', f) + AllBrought(request', f) - AllTook(window', f)
  <2>1. balance[Escrow(f)] = GivenTo(given, f) + AllBrought(request, f) - AllTook(window, f)
    BY DEF Books
  <2>2. given' = given /\ request' = request
    OBVIOUS
  <2>3. AllTook(window', f) = AllTook(window, f) - (IF f = row.source THEN back ELSE 0)
    <3>1. /\ AllTook(window, f) \in Int /\ Took(row, f) \in Nat /\ Took(window[w], f) \in Nat
          /\ AllTook(window', f) = AllTook(window, f) - Took(window[w], f) + Took(row, f)
      BY <1>3, TotalsAre
    <3>2. Took(row, f) = Took(window[w], f) - (IF f = row.source THEN back ELSE 0)
      BY <3>1
    <3> QED BY <3>1, <3>2
  <2>4. balance'[Escrow(f)] = balance[Escrow(f)] + (IF f = row.source THEN back ELSE 0)
    BY <1>1, <1>2
  <2> QED BY <2>1, <2>2, <2>3, <2>4, Terms
<1>5. ASSUME NEW v \in Window
      PROVE  balance'[Escrow(v)] = Left(window'[v])
  <2>1. balance[Escrow(v)] = Left(window[v]) /\ balance[Escrow(v)] \in Int
    BY Terms DEF Books
  <2>2. v \in Fund /\ v # row.source
    BY PoolFundsAre
  <2>3. window'[v] = IF v = w THEN row ELSE window[v]
    BY Rows
  <2> QED BY <1>1, <2>1, <2>2, <2>3
<1> QED BY <1>4, <1>5 DEF Books, BooksNext

LEMMA OpenBooks ==
  ASSUME TypeInv, Books(balance, given, request, window), NEW w \in Window,
         NEW row \in WindowRow, OpenStep(w, row)
  PROVE  BooksNext
<1> DEFINE cost == Budget(row.group)
<1>1. /\ window[w].state = "NONE" /\ row.state \in {"OFFERED", "ACTIVE"} /\ row.paid = 0
      /\ row.group \in Group /\ row.source \in Source /\ UNCHANGED <<given, request>>
      /\ window' = [window EXCEPT ![w] = row]
      /\ EscrowsMove([NoMove EXCEPT ![row.source] = -cost, ![w] = cost])
  BY DEF OpenStep
<1>2. cost \in Nat /\ cost \in Int /\ -cost \in Int
  BY <1>1, BudgetsAre
<1>3. row.state \in OpenStates /\ row.state # "NONE" /\ window[w].state \notin OpenStates
  BY <1>1 DEF OpenStates
<1>4. Left(row) = cost /\ Left(window[w]) = 0
  BY <1>1, <1>2, <1>3 DEF Left
<1>5. \A f : Took(window[w], f) = 0 /\ Took(row, f) = IF row.source = f THEN cost ELSE 0
  BY <1>1, <1>3 DEF Took
<1> HIDE DEF cost
<1>6. Left(row) = Left(window[w]) + cost
  BY <1>2, <1>4
<1>7. /\ Took(row, row.source) = Took(window[w], row.source) - (-cost)
      /\ \A f \in PoolFund \ {row.source} : Took(row, f) = Took(window[w], f)
  BY <1>2, <1>5
<1> QED BY <1>1, <1>2, <1>6, <1>7, WindowBooks DEF Grouped

LEMMA GoBooks ==
  ASSUME TypeInv, Books(balance, given, request, window), NEW w \in Window,
         NEW row \in WindowRow, NEW part \in Nat, NEW rest \in Nat, GoStep(w, row, part, rest)
  PROVE  BooksNext
<1> DEFINE old == window[w]
           cost == Budget(old.group)
           move == -(part + rest)
<1>1. /\ old.state \in OpenStates /\ row.state \in OpenStates \cup {"CLOSED"}
      /\ row.group = old.group /\ row.source = old.source
      /\ row.paid = old.paid + part
      /\ rest = IF row.state = "CLOSED" THEN cost - old.paid - part ELSE 0
      /\ UNCHANGED <<given, request>> /\ window' = [window EXCEPT ![w] = row]
      /\ EscrowsMove([NoMove EXCEPT ![row.source] = rest, ![w] = move])
  BY DEF GoStep, Unpaid
<1>2. /\ cost \in Nat /\ old.paid \in Nat /\ old.group \in Group /\ old.source \in Source
  BY <1>1, Rows
<1>3. /\ old.state # "NONE" /\ row.state # "NONE" /\ "CLOSED" \notin OpenStates
      /\ row.state \in OpenStates <=> row.state # "CLOSED"
  BY <1>1 DEF OpenStates
<1>4. /\ Left(old) = cost - old.paid
      /\ Left(row) = IF row.state = "CLOSED" THEN 0 ELSE cost - (old.paid + part)
  BY <1>1, <1>3 DEF Left
<1>5. \A f : /\ Took(old, f) = IF old.source = f THEN cost ELSE 0
             /\ Took(row, f) = IF old.source # f THEN 0
                               ELSE IF row.state = "CLOSED" THEN old.paid + part ELSE cost
  BY <1>1, <1>3 DEF Took
<1>6. Grouped(row) /\ Grouped(old)
  BY <1>1, <1>2, GroupedRows DEF Grouped
<1> HIDE DEF cost, old
<1>7. move \in Int /\ Left(row) = Left(old) + move
  BY <1>1, <1>2, <1>4
<1>8. /\ Took(row, row.source) = Took(old, row.source) - rest
      /\ \A f \in PoolFund \ {row.source} : Took(row, f) = Took(old, f)
  BY <1>1, <1>2, <1>5
<1> HIDE DEF move
<1>9. row.source \in Source /\ rest \in Int
  BY <1>1, <1>2
<1> QED BY <1>1, <1>6, <1>7, <1>8, <1>9, WindowBooks DEF old

\* The books after a step that writes one request, from what it moves.
LEMMA RequestBooks ==
  ASSUME TypeInv, Books(balance, given, request, window), UNCHANGED <<given, window>>,
         NEW s \in Session, NEW row \in RequestRow, request' = [request EXCEPT ![s] = row],
         NEW a \in Int, NEW b \in Int, NEW c \in Int,
         EscrowsMove([NoMove EXCEPT ![Working] = a, ![Reserve] = b, ![Burn] = c]),
         Brought(row, Working) = Brought(request[s], Working) + a,
         Brought(row, Reserve) = Brought(request[s], Reserve) + b,
         Brought(row, Burn) = Brought(request[s], Burn) + c
  PROVE  BooksNext
<1>1. \A f \in Fund : balance'[Escrow(f)] = balance[Escrow(f)] +
         (IF f = Working THEN a ELSE IF f = Reserve THEN b ELSE IF f = Burn THEN c ELSE 0)
  <2>1. Working \in Fund /\ Reserve \in Fund /\ Burn \in Fund
    BY PoolFundsAre DEF PoolFund
  <2> QED BY <2>1, PoolFundsAre DEF EscrowsMove, NoMove
<1>2. ASSUME NEW f \in PoolFund
      PROVE  balance'[Escrow(f)] =
               GivenTo(given', f) + AllBrought(request', f) - AllTook(window', f)
  <2> DEFINE x == IF f = Working THEN a ELSE IF f = Reserve THEN b ELSE c
  <2>1. /\ balance[Escrow(f)] = GivenTo(given, f) + AllBrought(request, f) - AllTook(window, f)
        /\ given' = given /\ window' = window
    BY DEF Books
  <2>2. x \in Int /\ balance'[Escrow(f)] = balance[Escrow(f)] + x
        /\ Brought(row, f) = Brought(request[s], f) + x
    BY <1>1, PoolFundsAre DEF PoolFund
  <2>3. Brought(request[s], f) \in Nat
    BY RequestRows, BroughtIs
  <2>4. AllBrought(request', f) = AllBrought(request, f) - Brought(request[s], f) + Brought(row, f)
    BY BroughtShifts
  <2> HIDE DEF x
  <2> QED BY <2>1, <2>2, <2>3, <2>4, Terms
<1>3. ASSUME NEW v \in Window
      PROVE  balance'[Escrow(v)] = Left(window'[v])
  <2>1. v \in Fund /\ v # Working /\ v # Reserve /\ v # Burn
    BY PoolFundsAre DEF PoolFund
  <2>2. balance[Escrow(v)] = Left(window[v]) /\ balance[Escrow(v)] \in Int /\ window' = window
    BY Terms DEF Books
  <2> QED BY <1>1, <2>1, <2>2
<1> QED BY <1>2, <1>3 DEF Books, BooksNext

LEMMA SettleBooks ==
  ASSUME TypeInv, Books(balance, given, request, window), NEW s \in Session,
         NEW row \in RequestRow, NEW q \in Nat, SettleStep(s, row, Parts(q))
  PROVE  BooksNext
<1>1. /\ request[s].state = "RUNNING" /\ row.state = "SETTLED"
      /\ request' = [request EXCEPT ![s] = row] /\ UNCHANGED <<given, window>>
      /\ EscrowsMove([NoMove EXCEPT ![Working] = row.working, ![Reserve] = row.reserve,
                                    ![Burn] = row.burned])
  BY DEF SettleStep
<1>2. row.working \in Int /\ row.reserve \in Int /\ row.burned \in Int
  BY DEF RequestRow
<1>3. /\ Brought(row, Working) = row.working /\ Brought(row, Reserve) = row.reserve
      /\ Brought(row, Burn) = row.burned /\ \A f : Brought(request[s], f) = 0
  BY <1>1, PoolFundsAre DEF Brought
<1>4. /\ Brought(row, Working) = Brought(request[s], Working) + row.working
      /\ Brought(row, Reserve) = Brought(request[s], Reserve) + row.reserve
      /\ Brought(row, Burn) = Brought(request[s], Burn) + row.burned
  BY <1>2, <1>3
<1> QED BY <1>1, <1>2, <1>4, RequestBooks

LEMMA UndoBooks ==
  ASSUME TypeInv, Books(balance, given, request, window), NEW s \in Session,
         NEW row \in RequestRow, UndoStep(s, row)
  PROVE  BooksNext
<1> DEFINE old == request[s]
           a == -old.working
           b == -old.reserve
           c == -old.burned
<1>1. /\ old.state = "SETTLED" /\ row.state = "REFUNDED"
      /\ request' = [request EXCEPT ![s] = row] /\ UNCHANGED <<given, window>>
      /\ EscrowsMove([NoMove EXCEPT ![Working] = a, ![Reserve] = b, ![Burn] = c])
  BY DEF UndoStep
<1>2. old.working \in Nat /\ old.reserve \in Nat /\ old.burned \in Nat
  BY RequestRows
<1>3. /\ Brought(old, Working) = old.working /\ Brought(old, Reserve) = old.reserve
      /\ Brought(old, Burn) = old.burned /\ \A f : Brought(row, f) = 0
  BY <1>1, PoolFundsAre DEF Brought
<1> HIDE DEF old
<1>4. /\ Brought(row, Working) = Brought(old, Working) + a
      /\ Brought(row, Reserve) = Brought(old, Reserve) + b
      /\ Brought(row, Burn) = Brought(old, Burn) + c
      /\ a \in Int /\ b \in Int /\ c \in Int
  BY <1>2, <1>3
<1> HIDE DEF a, b, c
<1> QED BY <1>1, <1>4, RequestBooks DEF old

LEMMA StillBooks ==
  ASSUME TypeInv, Books(balance, given, request, window), StillStep
  PROVE  BooksNext
<1>1. /\ given' = given /\ window' = window /\ \A s \in Session : RequestGoes(s)
      /\ \A f \in Fund : balance'[Escrow(f)] = balance[Escrow(f)] + 0
  BY DEF StillStep, EscrowsMove, NoMove
<1>2. \A s \in Session, f \in PoolFund : Brought(request'[s], f) = Brought(request[s], f)
  BY <1>1 DEF RequestGoes, Brought
<1>3. \A f \in PoolFund : AllBrought(request', f) = AllBrought(request, f)
  BY <1>2, BroughtStays
<1>4. /\ \A f \in PoolFund : balance'[Escrow(f)] = balance[Escrow(f)]
      /\ \A w \in Window : balance'[Escrow(w)] = balance[Escrow(w)]
  BY <1>1, Terms, PoolFundsAre
<1> QED BY <1>1, <1>3, <1>4 DEF Books, BooksNext

LEMMA BooksKept ==
  ASSUME TypeInv, Books(balance, given, request, window), MoneyStep
  PROVE  BooksNext
BY GiftBooks, OpenBooks, GoBooks, SettleBooks, UndoBooks, StillBooks DEF MoneyStep

-----------------------------------------------------------------------------
\* Terms that are nothing outside a part add up to the sum over the part.
LEMMA SumOf ==
  ASSUME NEW S, IsFiniteSet(S), NEW T \in SUBSET S, NEW f, NEW g, DOMAIN f = T,
         \A x \in S : g[x] \in Int, \A x \in T : f[x] = g[x], \A x \in S \ T : g[x] = 0
  PROVE  SumFunction(f) = SumFunctionOnSet(g, S)
<1>1. SumFunctionOnSet(f, T) = SumFunctionOnSet(g, S)
  BY SumPart
<1> QED BY <1>1 DEF SumFunction

LEMMA TookSum ==
  ASSUME TypeInv, NEW source \in Source
  PROVE  SumFunction([w \in Of(source) |-> Drawn(w)]) = AllTook(window, source)
<1> DEFINE f == [w \in Of(source) |-> Drawn(w)]
           g == [w \in Window |-> Took(window[w], source)]
<1>1. Of(source) \in SUBSET Window /\ IsFiniteSet(Window)
  BY WindowsAre DEF Of, Opened
<1>2. \A w \in Window : g[w] \in Int
  BY GroupedRows, TookIs
<1>3. \A w \in Of(source) : f[w] = g[w]
  BY DEF Of, Opened, Drawn, Took, OpenWindows
<1>4. \A w \in Window \ Of(source) : g[w] = 0
  BY DEF Of, Opened, Took
<1>5. DOMAIN f = Of(source)
  OBVIOUS
<1> HIDE DEF f, g
<1>6. SumFunction(f) = SumFunctionOnSet(g, Window)
  BY <1>1, <1>2, <1>3, <1>4, <1>5, SumOf
<1> QED BY <1>6 DEF f, g, AllTook

LEMMA BroughtSum ==
  ASSUME TypeInv
  PROVE  /\ SumFunction([s \in Settled |-> request[s].working]) = AllBrought(request, Working)
         /\ SumFunction([s \in Settled |-> request[s].reserve]) = AllBrought(request, Reserve)
         /\ SumFunction([s \in Settled |-> request[s].burned]) = AllBrought(request, Burn)
<1> DEFINE w == [s \in Settled |-> request[s].working]
           r == [s \in Settled |-> request[s].reserve]
           b == [s \in Settled |-> request[s].burned]
           g(f) == [s \in Session |-> Brought(request[s], f)]
<1>1. Settled \in SUBSET Session /\ IsFiniteSet(Session)
  BY CooperativeAssumption DEF Settled
<1>2. \A f : \A s \in Session : g(f)[s] \in Int
  BY RequestRows, BroughtIs
<1>3. /\ \A s \in Settled : w[s] = g(Working)[s]
      /\ \A s \in Settled : r[s] = g(Reserve)[s]
      /\ \A s \in Settled : b[s] = g(Burn)[s]
  BY PoolFundsAre DEF Settled, Brought
<1>4. \A f : \A s \in Session \ Settled : g(f)[s] = 0
  BY DEF Settled, Brought
<1>5. DOMAIN w = Settled /\ DOMAIN r = Settled /\ DOMAIN b = Settled
  OBVIOUS
<1> HIDE DEF w, r, b, g
<1>6. /\ SumFunction(w) = SumFunctionOnSet(g(Working), Session)
      /\ SumFunction(r) = SumFunctionOnSet(g(Reserve), Session)
      /\ SumFunction(b) = SumFunctionOnSet(g(Burn), Session)
  BY <1>1, <1>2, <1>3, <1>4, <1>5, SumOf
<1> QED BY <1>6 DEF w, r, b, g, AllBrought

\* So the books kept term by term are the pool's.
LEMMA BooksAre ==
  ASSUME TypeInv, Books(balance, given, request, window)
  PROVE  PoolBooks
<1>1. /\ Working \in PoolFund /\ Reserve \in PoolFund /\ Burn \in PoolFund
      /\ Working \in Source /\ Reserve \in Source /\ Burn \notin Source
  BY PoolFundsAre DEF PoolFund, Source
<1>2. \A w \in Window : Took(window[w], Burn) = 0
  BY <1>1, Rows DEF Took
<1>3. AllTook(window, Burn) = 0
  <2> DEFINE g == [w \in Window |-> Took(window[w], Burn)]
  <2>1. \A w \in Window : g[w] = 0
    BY <1>2
  <2> HIDE DEF g
  <2>2. SumFunctionOnSet(g, Window) = 0
    BY <2>1, WindowsAre, SumZero
  <2> QED BY <2>2 DEF g, AllTook
<1>4. balance[Escrow(Burn)] = AllBrought(request, Burn)
  BY <1>1, <1>3, Terms DEF Books, GivenTo
<1>5. /\ balance[Escrow(Working)] = given[Working] + AllBrought(request, Working)
                                     - AllTook(window, Working)
      /\ balance[Escrow(Reserve)] = given[Reserve] + AllBrought(request, Reserve)
                                     - AllTook(window, Reserve)
  BY <1>1 DEF Books, GivenTo
<1>6. \A w \in Window : balance[Escrow(w)] = IF w \in OpenWindows THEN Unpaid(w) ELSE 0
  BY DEF Books, Left, OpenWindows, Unpaid
<1> QED BY <1>1, <1>4, <1>5, <1>6, BroughtSum, TookSum DEF PoolBooks, InWorking, InReserve

LEMMA BooksStart ==
  ASSUME PoolsInit
  PROVE  KeysInv /\ Books(balance, given, request, window)
<1>1. /\ journal = {} /\ \A f \in Fund : balance[Escrow(f)] = 0
      /\ \A s \in Source : given[s] = 0
      /\ \A w \in Window : window[w].state = "NONE"
      /\ \A s \in Session : request[s].state = "NEW"
  BY DEF PoolsInit, CoopInit, NoWindow, NewRequest
<1>2. KeysInv
  BY <1>1 DEF KeysInv
<1>3. \A f : /\ \A s \in Session : Brought(request[s], f) = 0
             /\ \A w \in Window : Took(window[w], f) = 0
  BY <1>1 DEF Brought, Took
<1>4. ASSUME NEW f PROVE AllBrought(request, f) = 0 /\ AllTook(window, f) = 0
  <2> DEFINE b == [s \in Session |-> Brought(request[s], f)]
             t == [w \in Window |-> Took(window[w], f)]
  <2>1. (\A s \in Session : b[s] = 0) /\ \A w \in Window : t[w] = 0
    BY <1>3
  <2> HIDE DEF b, t
  <2>2. SumFunctionOnSet(b, Session) = 0 /\ SumFunctionOnSet(t, Window) = 0
    BY <2>1, WindowsAre, CooperativeAssumption, SumZero
  <2> QED BY <2>2 DEF b, t, AllBrought, AllTook
<1>5. \A f \in PoolFund :
        balance[Escrow(f)] = GivenTo(given, f) + AllBrought(request, f) - AllTook(window, f)
  BY <1>1, <1>4, PoolFundsAre DEF GivenTo
<1>6. \A w \in Window : balance[Escrow(w)] = Left(window[w])
  BY <1>1, PoolFundsAre DEF Left, OpenStates
<1> QED BY <1>2, <1>5, <1>6 DEF Books

MoneyInv == TypeInv /\ KeysInv /\ Books(balance, given, request, window)

LEMMA MoneyInvHolds == PoolsSpec => []MoneyInv
<1>1. PoolsInit => MoneyInv
  BY PoolsTypesStart, BooksStart DEF MoneyInv
<1>2. MoneyInv /\ [Next]_allVars => MoneyInv'
  <2> SUFFICES ASSUME MoneyInv, [Next]_allVars PROVE MoneyInv'
    OBVIOUS
  <2>1. TypeInv' /\ MoneyStep
    BY PoolsTypesKept, MoneySteps DEF MoneyInv
  <2>2. KeysInv' /\ BooksNext
    BY <2>1, KeysKept, BooksKept DEF MoneyInv
  <2> QED BY <2>1, <2>2 DEF MoneyInv, BooksNext
<1> QED BY <1>1, <1>2, PTL DEF PoolsSpec

\* However gifts, windows, settlements and refunds follow each other, the three accounts of
\* a pool and the escrow of every window hold exactly what the rows say, and every account
\* but the issuer's is covered (cooperative.ts:461, 753, 875; ledger.ts).
THEOREM PoolAccountsMatchRows == PoolsSpec => []PoolsInv
<1>1. MoneyInv => PoolsInv
  BY BooksAre DEF MoneyInv, PoolsInv, TypeInv
<1> QED BY <1>1, MoneyInvHolds, PTL

-----------------------------------------------------------------------------
(* A window is a funded contract.                                          *)

\* What the mapping of Pools makes of the windows and of the book.
Bids == Window \X Group
StageOf ==
  [c \in Bids |-> IF ~IsFor(c) THEN "NEW"
                  ELSE IF c[1] \in OpenWindows THEN "FUNDED" ELSE "CLOSED"]
HeldOf == [c \in Bids |-> IF IsFor(c) THEN balance[Escrow(c[1])] ELSE 0]
PaidOf == [c \in Bids |-> IF IsFor(c) THEN window[c[1]].paid ELSE 0]

LEMMA ContractBegins == PoolsInit => WindowContract!Init
<1> SUFFICES ASSUME PoolsInit PROVE WindowContract!Init
  OBVIOUS
<1>1. \A w \in Window, g \in Group : window[w].group # g
  BY RoutesAre DEF PoolsInit, CoopInit, NoWindow
<1>2. \A c \in Bids : ~IsFor(c)
  BY <1>1 DEF IsFor, Bids
<1> QED BY <1>2 DEF WindowContract!Init, Bids

\* A step of the pool is an offer, a payment, a closing or nothing to the contract of a
\* window: what its end pays and what it returns are one step.
LEMMA ContractStep ==
  ASSUME MoneyInv, MoneyInv', WindowMoves
  PROVE  [WindowContract!Next]_(WindowContract!contractVars)
<1>1. /\ TypeInv /\ \A w \in Window : balance[Escrow(w)] = Left(window[w])
      /\ \A w \in Window : balance'[Escrow(w)] = Left(window'[w])
  BY DEF MoneyInv, Books, Left, Escrow, Budget
<1>2. CASE UNCHANGED window
  <2>1. UNCHANGED <<StageOf, HeldOf, PaidOf>>
    BY <1>1, <1>2 DEF StageOf, HeldOf, PaidOf, IsFor, OpenWindows, Left, Bids
  <2> QED BY <2>1 DEF WindowContract!contractVars, StageOf, HeldOf, PaidOf, Bids
<1>3. ASSUME NEW w \in Window, NEW r \in WindowRow,
             window' = [window EXCEPT ![w] = r], Opening(w, r) \/ Going(w, r)
      PROVE  [WindowContract!Next]_(WindowContract!contractVars)
  <2>1. /\ window'[w] = r /\ \A v \in Window \ {w} : window'[v] = window[v]
        /\ window[w].paid \in Nat /\ r.paid \in Nat
        /\ window[w].state \in OpenStates =>
             window[w].group \in Group /\ window[w].paid <= Budget(window[w].group)
        /\ window[w].state = "NONE" => window[w].group = NULL
    <3>1. /\ window'[w] = r /\ \A v \in Window \ {w} : window'[v] = window[v]
      BY <1>1, <1>3, Rows
    <3>2. window[w] \in WindowRow /\ window[w].paid \in Nat /\ r.paid \in Nat
      BY <1>1, Rows DEF WindowRow
    <3>3. NoWindow.group = NULL /\ "NONE" \notin OpenStates
      BY DEF NoWindow, OpenStates
    <3> QED BY <1>1, <3>1, <3>2, <3>3 DEF TypeInv, RowsNamed
  <2>2. /\ r.group \in Group /\ NULL \notin Group /\ Budget(r.group) \in Nat
        /\ window[w].state = "NONE" \/ window[w].group = r.group
    BY <1>3, <2>1, BudgetsAre, RoutesAre DEF Opening, Going
  <2> DEFINE c == <<w, r.group>>
             s == StageOf
             h == HeldOf
             p == PaidOf
             fresh == window[w].state = "NONE"
  <2>3. c \in Bids /\ c[1] = w /\ c[2] = r.group /\ IsFor(c)' /\ (IsFor(c) <=> ~fresh)
    BY <2>1, <2>2 DEF Bids, IsFor
  <2>4. \A d \in Bids \ {c} : s'[d] = s[d] /\ h'[d] = h[d] /\ p'[d] = p[d]
    <3> SUFFICES ASSUME NEW d \in Bids \ {c}
                 PROVE  s'[d] = s[d] /\ h'[d] = h[d] /\ p'[d] = p[d]
      OBVIOUS
    <3>1. d[1] \in Window /\ d[2] \in Group /\ (d[1] # w \/ d[2] # r.group)
      BY DEF Bids
    <3>2. CASE d[1] # w
      <4>1. window'[d[1]] = window[d[1]]
        BY <2>1, <3>1, <3>2
      <4>2. /\ (IsFor(d)' <=> IsFor(d)) /\ (d[1] \in OpenWindows' <=> d[1] \in OpenWindows)
            /\ balance'[Escrow(d[1])] = balance[Escrow(d[1])]
        BY <1>1, <3>1, <4>1 DEF IsFor, OpenWindows, Left
      <4> QED BY <4>1, <4>2 DEF StageOf, HeldOf, PaidOf, Bids, Escrow
    <3>3. CASE d[1] = w /\ d[2] # r.group
      <4>1. ~IsFor(d) /\ ~IsFor(d)'
        BY <2>1, <2>2, <3>1, <3>3 DEF IsFor
      <4> QED BY <4>1 DEF StageOf, HeldOf, PaidOf, Bids
    <3> QED BY <3>1, <3>2, <3>3
  <2>5. /\ s' = [s EXCEPT ![c] = s'[c]] /\ h' = [h EXCEPT ![c] = h'[c]]
        /\ p' = [p EXCEPT ![c] = p'[c]]
        /\ s = [s EXCEPT ![c] = s[c]] /\ h = [h EXCEPT ![c] = h[c]]
        /\ p = [p EXCEPT ![c] = p[c]]
        /\ DOMAIN s = Bids /\ DOMAIN h = Bids /\ DOMAIN p = Bids
    <3>1. /\ s' = [d \in Bids |-> s'[d]] /\ s = [d \in Bids |-> s[d]]
          /\ h' = [d \in Bids |-> h'[d]] /\ h = [d \in Bids |-> h[d]]
          /\ p' = [d \in Bids |-> p'[d]] /\ p = [d \in Bids |-> p[d]]
      BY DEF StageOf, HeldOf, PaidOf, Bids
    <3> HIDE DEF s, h, p, c
    <3> QED BY <2>4, <3>1
  <2>6. /\ s[c] = (IF fresh THEN "NEW"
                   ELSE IF window[w].state \in OpenStates THEN "FUNDED" ELSE "CLOSED")
        /\ h[c] = (IF fresh THEN 0 ELSE Left(window[w]))
        /\ p[c] = (IF fresh THEN 0 ELSE window[w].paid)
        /\ s'[c] = (IF r.state \in OpenStates THEN "FUNDED" ELSE "CLOSED")
        /\ h'[c] = Left(r) /\ p'[c] = r.paid
    BY <1>1, <2>1, <2>3 DEF StageOf, HeldOf, PaidOf, OpenWindows, Escrow
  <2>7. /\ WindowContract!Offer(c) <=>
             /\ s[c] = "NEW" /\ s' = [s EXCEPT ![c] = "FUNDED"]
             /\ h' = [h EXCEPT ![c] = Budget(r.group)] /\ p' = p
        /\ \A amount : WindowContract!Pay(c, amount) <=>
             /\ s[c] = "FUNDED" /\ h' = [h EXCEPT ![c] = h[c] - amount]
             /\ p' = [p EXCEPT ![c] = p[c] + amount] /\ s' = s
        /\ \A amount : WindowContract!Close(c, amount) <=>
             /\ s[c] = "FUNDED" /\ s' = [s EXCEPT ![c] = "CLOSED"]
             /\ h' = [h EXCEPT ![c] = 0] /\ p' = [p EXCEPT ![c] = p[c] + amount]
    <3>1. [d \in Window \X Group |-> Budget(d[2])][c] = Budget(r.group)
      BY <2>3 DEF Bids
    <3> HIDE DEF c
    <3> QED BY <3>1 DEF WindowContract!Offer, WindowContract!Pay, WindowContract!Close,
                StageOf, HeldOf, PaidOf, Bids
  <2>8. ASSUME NEW amount \in 0..h[c],
               WindowContract!Pay(c, amount) \/ WindowContract!Close(c, amount)
        PROVE  WindowContract!Next
    BY <2>3, <2>8 DEF WindowContract!Next, HeldOf, Bids
  <2>9. CASE Opening(w, r)
    <3>1. /\ fresh /\ r.state \in OpenStates /\ r.paid = 0 /\ Left(r) = Budget(r.group)
      BY <2>2, <2>9 DEF Opening, OpenStates, Left
    <3>2. s[c] = "NEW" /\ s'[c] = "FUNDED" /\ h'[c] = Budget(r.group) /\ p'[c] = p[c]
      BY <2>6, <3>1
    <3> HIDE DEF s, h, p, c
    <3>3. WindowContract!Offer(c)
      BY <2>5, <2>7, <3>2
    <3> QED BY <2>3, <3>3 DEF WindowContract!Next, Bids
  <2>10. CASE Going(w, r)
    <3>1. /\ window[w].state \in OpenStates /\ ~fresh /\ r.group = window[w].group
          /\ window[w].paid <= r.paid /\ r.paid <= Budget(r.group)
          /\ r.state \in OpenStates \cup {"CLOSED"}
      BY <2>10 DEF Going, OpenStates
    <3>2. Left(window[w]) = Budget(r.group) - window[w].paid
      BY <3>1 DEF Left
    <3>3. r.paid - window[w].paid \in 0..h[c]
      BY <2>1, <2>2, <2>6, <3>1, <3>2
    <3>4. PICK amount \in 0..h[c] : amount = r.paid - window[w].paid
      BY <3>3
    <3>5. s[c] = "FUNDED" /\ p'[c] = p[c] + amount
      BY <2>1, <2>6, <3>1, <3>4
    <3>6. CASE r.state \in OpenStates
      <4>1. h'[c] = h[c] - amount /\ s'[c] = s[c]
        BY <2>1, <2>2, <2>6, <3>1, <3>2, <3>4, <3>6 DEF Left
      <4> HIDE DEF s, h, p, c
      <4>2. WindowContract!Pay(c, amount)
        BY <2>5, <2>7, <3>5, <4>1
      <4> QED BY <2>8, <4>2
    <3>7. CASE r.state = "CLOSED"
      <4>1. h'[c] = 0 /\ s'[c] = "CLOSED"
        BY <2>6, <3>7 DEF OpenStates, Left
      <4> HIDE DEF s, h, p, c
      <4>2. WindowContract!Close(c, amount)
        BY <2>5, <2>7, <3>5, <4>1
      <4> QED BY <2>8, <4>2
    <3> QED BY <3>1, <3>6, <3>7
  <2> QED BY <1>3, <2>9, <2>10
<1> QED BY <1>2, <1>3 DEF WindowMoves

LEMMA ContractSteps ==
  ASSUME MoneyInv, MoneyInv', [Next]_allVars
  PROVE  [WindowContract!Next]_(WindowContract!contractVars)
<1>1. WindowMoves
  BY Steps DEF MoneyInv, QuietStep, RenewalStep, Moves
<1> QED BY <1>1, ContractStep

\* A window implements FundedContract, whoever offers it, renews it or cancels it: the
\* group's budget is set aside whole, paid out in parts while the window is open, and
\* nothing is left in its escrow or paid from it afterwards.
THEOREM WindowsImplementContracts == PoolsSpec => WindowContract!Spec
<1>1. PoolsInit => WindowContract!Init
  BY ContractBegins
<1>2. MoneyInv /\ MoneyInv' /\ [Next]_allVars
      => [WindowContract!Next]_(WindowContract!contractVars)
  BY ContractSteps
<1> QED BY <1>1, <1>2, MoneyInvHolds, PTL DEF PoolsSpec, WindowContract!Spec

-----------------------------------------------------------------------------
(* The order in which money comes and goes.                                *)

LEMMA FundsAre ==
  ASSUME TypeInv
  PROVE  /\ Working \in Fund /\ Reserve \in Fund /\ Burn \in Fund /\ Working # Reserve
         /\ Working \notin Window /\ Reserve \notin Window /\ Burn # Working /\ Burn # Reserve
         /\ InWorking \in Nat /\ InReserve \in Nat
BY TargetsAre, WindowsAre DEF Source

LEMMA SettleMoney ==
  ASSUME TypeInv, NEW s \in Session, NEW row \in RequestRow, NEW q \in Nat,
         SettleStep(s, row, Parts(q))
  PROVE  /\ InWorking' = InWorking + Parts(q).working
         /\ InReserve' = InReserve + Parts(q).reserve
         /\ request'[s] = row /\ \A t \in Session \ {s} : request'[t] = request[t]
         /\ row.working = Parts(q).working /\ row.reserve = Parts(q).reserve
         /\ row.burned = Parts(q).burned
<1>1. /\ EscrowsMove([NoMove EXCEPT ![Working] = Parts(q).working,
                                    ![Reserve] = Parts(q).reserve,
                                    ![Burn] = Parts(q).burned])
      /\ request' = [request EXCEPT ![s] = row]
      /\ row.working = Parts(q).working /\ row.reserve = Parts(q).reserve
      /\ row.burned = Parts(q).burned
  BY DEF SettleStep
<1>2. InWorking' = InWorking + Parts(q).working /\ InReserve' = InReserve + Parts(q).reserve
  BY <1>1, FundsAre DEF EscrowsMove, NoMove, InWorking, InReserve
<1> QED BY <1>1, <1>2, Rows

LEMMA SettlesInOrder ==
  ASSUME TypeInv, MoneyStep, NEW s \in Session,
         request[s].state = "RUNNING", request'[s].state = "SETTLED"
  PROVE  LET new == request'[s] IN
         /\ new.reserve > 0 => InWorking' >= Floor
         /\ new.burned > 0 => InWorking' >= WorkingTarget /\ InReserve' >= ReserveTarget
         /\ new.working > Gap(Floor, InWorking) => InReserve' >= ReserveTarget
         /\ new.working <= Gap(WorkingTarget, InWorking)
         /\ new.reserve <= Gap(ReserveTarget, InReserve)
<1>1. request'[s] # request[s]
  OBVIOUS
<1>2. PICK t \in Session, row \in RequestRow, q \in Nat : SettleStep(t, row, Parts(q))
  <2>1. ASSUME NEW t \in Session, NEW row \in RequestRow, UndoStep(t, row) PROVE FALSE
    <3>1. /\ request'[t] = row /\ row.state = "REFUNDED"
          /\ \A u \in Session \ {t} : request'[u] = request[u]
      BY <2>1, Rows DEF UndoStep
    <3> QED BY <1>1, <3>1
  <2>2. ASSUME StillStep PROVE FALSE
    BY <2>2 DEF StillStep, RequestGoes
  <2>3. ASSUME UNCHANGED request PROVE FALSE
    BY <1>1, <2>3
  <2> QED BY <2>1, <2>2, <2>3 DEF MoneyStep, GiftStep, OpenStep, GoStep
<1>3. /\ InWorking' = InWorking + Parts(q).working
      /\ InReserve' = InReserve + Parts(q).reserve
      /\ request'[t] = row /\ \A u \in Session \ {t} : request'[u] = request[u]
      /\ row.working = Parts(q).working /\ row.reserve = Parts(q).reserve
      /\ row.burned = Parts(q).burned
  BY <1>2, SettleMoney
<1>4. request'[s] = row
  BY <1>1, <1>3
<1> QED BY <1>3, <1>4, PartsAre

LEMMA ReserveDrawn ==
  ASSUME TypeInv, MoneyStep, InReserve' < InReserve
  PROVE  \/ \E w \in Window : /\ NewWindow(w) /\ window'[w].kind = "ESSENTIAL"
                              /\ InWorking < Budget(window'[w].group)
         \/ \E s \in Session : request[s].state = "SETTLED" /\ request'[s].state = "REFUNDED"
                              /\ request[s].reserve > 0
<1>1. ASSUME NEW s \in Source, NEW n \in Nat \ {0}, GiftStep(s, n) PROVE FALSE
  <2>1. InReserve' = InReserve + (IF s = Reserve THEN n ELSE 0)
    BY <1>1, FundsAre, WindowsAre DEF GiftStep, EscrowsMove, NoMove, InReserve
  <2> QED BY <2>1, FundsAre
<1>2. ASSUME NEW w \in Window, NEW row \in WindowRow, OpenStep(w, row)
      PROVE  /\ NewWindow(w) /\ window'[w].kind = "ESSENTIAL"
             /\ InWorking < Budget(window'[w].group)
  <2> DEFINE cost == Budget(row.group)
  <2>1. /\ window[w].state = "NONE" /\ row.state \in {"OFFERED", "ACTIVE"}
        /\ row.group \in Group /\ row.source \in Source
        /\ window' = [window EXCEPT ![w] = row]
        /\ EscrowsMove([NoMove EXCEPT ![row.source] = -cost, ![w] = cost])
        /\ row.source = Reserve => row.kind = "ESSENTIAL" /\ ReserveMayPay(row.group)
    BY <1>2 DEF OpenStep
  <2>2. cost \in Nat
    BY <2>1, BudgetsAre
  <2> HIDE DEF cost
  <2>3. InReserve' = InReserve + (IF row.source = Reserve THEN -cost ELSE 0)
    BY <2>1, FundsAre, WindowsAre DEF EscrowsMove, NoMove, InReserve
  <2>4. row.source = Reserve
    BY <2>2, <2>3, FundsAre
  <2>5. window'[w] = row
    BY <2>1, Rows
  <2> QED BY <2>1, <2>4, <2>5 DEF NewWindow, ReserveMayPay
<1>3. ASSUME NEW w \in Window, NEW row \in WindowRow, NEW part \in Nat, NEW rest \in Nat,
             GoStep(w, row, part, rest)
      PROVE  FALSE
  <2>1. row.source \in Source
    BY DEF WindowRow
  <2>2. InReserve' = InReserve + (IF row.source = Reserve THEN rest ELSE 0)
    BY <1>3, <2>1, FundsAre, WindowsAre DEF GoStep, EscrowsMove, NoMove, InReserve
  <2> QED BY <2>2, FundsAre
<1>4. ASSUME NEW s \in Session, NEW row \in RequestRow, NEW q \in Nat, SettleStep(s, row, Parts(q))
      PROVE  FALSE
  BY <1>4, SettleMoney, PartsAre, FundsAre
<1>5. ASSUME NEW s \in Session, NEW row \in RequestRow, UndoStep(s, row)
      PROVE  request[s].state = "SETTLED" /\ request'[s].state = "REFUNDED"
             /\ request[s].reserve > 0
  <2>1. /\ request[s].state = "SETTLED" /\ row.state = "REFUNDED"
        /\ request' = [request EXCEPT ![s] = row]
        /\ EscrowsMove([NoMove EXCEPT ![Working] = -request[s].working,
                                      ![Reserve] = -request[s].reserve,
                                      ![Burn] = -request[s].burned])
    BY <1>5 DEF UndoStep
  <2>2. InReserve' = InReserve + -request[s].reserve
    BY <2>1, FundsAre DEF EscrowsMove, NoMove, InReserve
  <2>3. request[s].reserve \in Nat
    BY RequestRows
  <2>4. request'[s] = row
    BY <2>1, Rows
  <2> QED BY <2>1, <2>2, <2>3, <2>4, FundsAre
<1>6. ASSUME StillStep PROVE FALSE
  <2>1. InReserve' = InReserve + 0
    BY <1>6, FundsAre DEF StillStep, EscrowsMove, NoMove, InReserve
  <2> QED BY <2>1, FundsAre
<1> QED BY <1>1, <1>2, <1>3, <1>4, <1>5, <1>6 DEF MoneyStep

\* recycle and offerTransaction: a charge fills the floor, then the reserve, then working
\* capital, and only what no target lacks is burned; the reserve pays for nothing but an
\* essential window that working capital could not pay, or gives back what it was brought;
\* and what a window has drawn is set aside, paid and returned as FundedContract promises.
THEOREM MoneyKeepsItsOrder == PoolsSpec => MoneyInOrder
<1>1. MoneyInv /\ [Next]_allVars =>
        [\A s \in Session :
           request[s].state = "RUNNING" /\ request'[s].state = "SETTLED" =>
             LET new == request'[s] IN
             /\ new.reserve > 0 => InWorking' >= Floor
             /\ new.burned > 0 => InWorking' >= WorkingTarget /\ InReserve' >= ReserveTarget
             /\ new.working > Gap(Floor, InWorking) => InReserve' >= ReserveTarget
             /\ new.working <= Gap(WorkingTarget, InWorking)
             /\ new.reserve <= Gap(ReserveTarget, InReserve)]_allVars
  BY MoneySteps, SettlesInOrder DEF MoneyInv
<1>2. MoneyInv /\ [Next]_allVars =>
        [InReserve' < InReserve =>
           \/ \E w \in Window : /\ NewWindow(w) /\ window'[w].kind = "ESSENTIAL"
                                /\ InWorking < Budget(window'[w].group)
           \/ \E s \in Session : request[s].state = "SETTLED" /\ request'[s].state = "REFUNDED"
                                /\ request[s].reserve > 0]_allVars
  BY MoneySteps, ReserveDrawn DEF MoneyInv
<1>3. MoneyInv /\ MoneyInv' /\ [Next]_allVars
      => [WindowContract!Next]_(WindowContract!contractVars)
  BY ContractSteps
<1> QED BY <1>1, <1>2, <1>3, MoneyInvHolds, PTL DEF PoolsSpec, MoneyInOrder, FloorFirst,
       ReserveProtected, WindowsAreContracts

-----------------------------------------------------------------------------
(* Expansions yield.                                                       *)

LEMMA ExpansionKeeps ==
  ASSUME MoneyInv, [Next]_allVars, NEW w \in Window, NewWindow(w),
         window'[w].kind = "EXPANSION"
  PROVE  /\ InWorking' >= Floor /\ InReserve' >= ReserveTarget
         /\ \A g \in Group : EssentialCovered(g)
         /\ LET u == Requester[demand'[w]]
            IN  /\ party[u] # NULL
                /\ \A v \in Actors(window'[w].group) : party[v] \notin {NULL, party[u]}
<1>1. TypeInv /\ KeysInv /\ RenewalStep
  BY Steps DEF MoneyInv, QuietStep
<1>2. PICK a \in Authority, source \in Source, r \in Route, s \in Session \cup {NULL} :
        /\ NextWindow \in Window /\ Renews(a, NextWindow, source, r, s)
        /\ Ripe(a) /\ s \in DemandFor(a)
  BY <1>1 DEF RenewalStep
<1>3. w = NextWindow
  <2> SUFFICES ASSUME w # NextWindow PROVE FALSE
    OBVIOUS
  <2>1. window'[w] = window[w]
    BY <1>2 DEF Renews
  <2> QED BY <2>1 DEF NewWindow
<1>4. /\ window'[w].kind = authority[a].kind /\ window'[w].group = authority[a].group
      /\ demand'[w] = s /\ authority[a].kind = "EXPANSION"
      /\ \A v \in Window \ {w} : window'[v] = window[v]
  BY <1>2, <1>3 DEF Renews
<1>5. \A g \in Group : EssentialCovered(g)
  BY <1>2, <1>4 DEF Ripe, Approved
<1>6. Independent(Requester[s], authority[a].group)
  BY <1>2, <1>4 DEF DemandFor, Backs
<1>7. PICK v \in Window, row \in WindowRow : OpenStep(v, row)
  BY <1>1, RenewalOpens
<1>8. /\ window[v].state = "NONE" /\ row.state # "NONE" /\ row.group \in Group
      /\ window' = [window EXCEPT ![v] = row]
      /\ EscrowsMove([NoMove EXCEPT ![row.source] = -Budget(row.group), ![v] = Budget(row.group)])
      /\ row.kind = "EXPANSION" => row.source = Working /\ ExpansionFits(row.group)
  BY <1>7 DEF OpenStep
<1>9. v = w /\ window'[w] = row
  <2>1. window'[v] = row
    BY <1>1, <1>8, Rows
  <2> QED BY <1>4, <1>8, <2>1
<1>10. row.source = Working /\ InWorking >= Floor + Budget(row.group) /\ InReserve >= ReserveTarget
  BY <1>8, <1>9 DEF ExpansionFits
<1> DEFINE cost == Budget(row.group)
<1>11. cost \in Nat
  BY <1>8, BudgetsAre
<1> HIDE DEF cost
<1>12. InWorking' = InWorking + -cost /\ InReserve' = InReserve + 0
  BY <1>1, <1>8, <1>10, FundsAre DEF EscrowsMove, NoMove, InWorking, InReserve, cost
<1>13. InWorking' >= Floor /\ InReserve' >= ReserveTarget
  BY <1>1, <1>10, <1>11, <1>12, FundsAre, TargetsAre DEF cost
<1> QED BY <1>4, <1>5, <1>6, <1>13 DEF Independent

LEMMA ClosedStays ==
  ASSUME TypeInv, [Next]_allVars
  PROVE  /\ \A a \in Authority : authority[a].state \notin {"NONE", "ACTIVE"} =>
              authority'[a] = authority[a]
         /\ \A m \in Mandate : mandate[m].state \notin {"NONE", "ACTIVE"} =>
              mandate'[m] = mandate[m]
<1>1. CASE QuietStep
  BY <1>1 DEF QuietStep, PermitsMove, AuthorityKept, MandateKept
<1>2. CASE RenewalStep
  <2>1. PICK a \in Authority, source \in Source, r \in Route, s \in Session \cup {NULL} :
          Renews(a, NextWindow, source, r, s)
    BY <1>2 DEF RenewalStep
  <2>2. /\ authority[a].state = "ACTIVE"
        /\ \A b \in Authority \ {a} : authority'[b] = authority[b]
    BY <2>1 DEF Renews
  <2>3. \A m \in Mandate : mandate[m].state = "ACTIVE" \/ mandate'[m] = mandate[m]
    BY <2>1 DEF Renews, MandateTaken
  <2> QED BY <2>2, <2>3
<1> QED BY <1>1, <1>2, Steps

LEMMA HealthNeedsSamples ==
  ASSUME TypeInv, [Next]_allVars, pool'.state = "NORMAL", pool.state # "NORMAL"
  PROVE  pool.fresh
<1>1. pool \in PoolRow
  BY Rows
<1>2. CoopStep
  <2>1. ASSUME UNCHANGED poolVars PROVE FALSE
    BY <2>1 DEF poolVars, coopVars
  <2>2. ASSUME RenewalStep PROVE FALSE
    <3>1. pool' = pool
      BY <2>2 DEF RenewalStep, Renewal
    <3> QED BY <3>1
  <2> QED BY <2>1, <2>2, Kinds
<1>3. sample
  <2>1. \A f, g : pool' # [pool EXCEPT !.paused = f, !.support = g, !.healthy = "NEVER"]
    BY <1>1 DEF PoolRow
  <2>2. ASSUME pool' = [pool EXCEPT !.fresh = FALSE] PROVE FALSE
    BY <1>1, <2>2 DEF PoolRow
  <2>3. \A f : pool' # [pool EXCEPT !.healthy = f]
    BY <1>1 DEF PoolRow
  <2>4. \A f : pool' # [pool EXCEPT !.support = f]
    BY <1>1 DEF PoolRow
  <2>5. \A p, t : ~manage(p, t)
    BY <2>1 DEF manage
  <2>6. ~SamplesStop /\ ~DayPasses /\ ~SupportFades
    BY <2>2, <2>3, <2>4 DEF SamplesStop, DayPasses, SupportFades
  <2>7. pool' # pool
    OBVIOUS
  <2>8. /\ \A u, s, n : ~fund(u, s, n)
        /\ \A g, s, r : ~offer(g, s, r)
        /\ \A r : ~Listed(r)
    BY <2>7 DEF fund, offer, Listed
  <2>9. /\ \A w, u : ~accept(w, u)
        /\ \A w, part : ~advance(w, part)
        /\ \A w, leaves, part : ~cancel(w, leaves, part)
        /\ \A w : ~TermsFade(w) /\ ~WindowEnds(w)
    BY <2>7 DEF accept, advance, cancel, TermsFade, WindowEnds
  <2>10. /\ \A s : ~quote(s) /\ ~create(s) /\ ~release(s) /\ ~refund(s)
         /\ \A s, w : ~admit(s, w)
         /\ \A s, charge : ~settleJudged(s, charge)
    BY <2>7 DEF quote, create, release, refund, admit, settleJudged, settle
  <2> QED BY <1>2, <2>5, <2>6, <2>8, <2>9, <2>10 DEF CoopStep
<1>4. PoolState = "NORMAL"
  BY <1>1, <1>3 DEF sample, PoolRow
<1>5. Healthy = "DAY"
  BY <1>4 DEF PoolState
<1> QED BY <1>5 DEF Healthy, HealthySince

\* validate_expansion_demand and cooperative.ts:97-102: an expansion is opened only above
\* the floor and the whole reserve, while every group is covered and for a party that none
\* of the pool's actors belongs to; a permission that was closed is never used or opened
\* again, whatever batch still names it; and a pool becomes NORMAL by samples without a gap.
THEOREM ExpansionsYield == PoolsSpec => ExpansionYields
<1>1. MoneyInv /\ [Next]_allVars =>
        [\A w \in Window : NewWindow(w) /\ window'[w].kind = "EXPANSION" =>
           /\ InWorking' >= Floor /\ InReserve' >= ReserveTarget
           /\ \A g \in Group : EssentialCovered(g)
           /\ LET u == Requester[demand'[w]]
              IN  /\ party[u] # NULL
                  /\ \A v \in Actors(window'[w].group) : party[v] \notin {NULL, party[u]}]_allVars
  BY ExpansionKeeps
<1>2. MoneyInv /\ [Next]_allVars =>
        [/\ \A a \in Authority : authority[a].state \notin {"NONE", "ACTIVE"} =>
              authority'[a] = authority[a]
         /\ \A m \in Mandate : mandate[m].state \notin {"NONE", "ACTIVE"} =>
              mandate'[m] = mandate[m]]_allVars
  BY ClosedStays DEF MoneyInv
<1>3. MoneyInv /\ [Next]_allVars =>
        [pool'.state = "NORMAL" /\ pool.state # "NORMAL" => pool.fresh]_allVars
  BY HealthNeedsSamples DEF MoneyInv
<1> QED BY <1>1, <1>2, <1>3, MoneyInvHolds, PTL DEF PoolsSpec, ExpansionYields,
       ExpansionKeepsFloor, ClosedStaysClosed, GapEndsHealth
=============================================================================
