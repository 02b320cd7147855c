--------------------------- MODULE SessionsProofs ---------------------------
(***************************************************************************)
(* Theorems about Sessions, for every set of accounts, sessions, nodes,    *)
(* offers, amounts and bounds. SessionsInv is inductive: SettleOnce and    *)
(* the two row lemmas carry it over every handler.                         *)
(*                                                                         *)
(* A step of the coordinator changes at most one row, and Moves says how;  *)
(* the action properties, the bound on the slots of every domain and the   *)
(* books follow from it.                                                   *)
(*                                                                         *)
(* And about Metering, for every manifest: the reservation of a quote      *)
(* covers every usage that can be charged to it, because rounding up by a  *)
(* fixed denominator is monotone, and so is the price in both counts of    *)
(* tokens; and the division of a charge is exact, because the parts are    *)
(* differences of consecutive boundaries, the first of which is 0 and the  *)
(* last the whole.                                                         *)
(***************************************************************************)
EXTENDS Sessions, Metering, PayoutProofs

-----------------------------------------------------------------------------
(* The book.                                                               *)

\* A posting that is accepted leaves every balance an integer, and every
\* balance but the issuer's nonnegative (post in ledger.ts).
LEMMA PostPreservesBook ==
  ASSUME NEW key, NEW lines, LedgerTypeOK, Post(key, lines)
  PROVE  LedgerTypeOK' /\ journal' = journal \cup {key}
<1>1. CASE key \in journal
  BY <1>1 DEF Post, ledgerVars, LedgerTypeOK
<1>2. CASE key \notin journal
  <2>1. /\ lines \in [Account -> -MaxAmount..MaxAmount]
        /\ \A a \in Account \ {LabIssuer} : balance[a] + lines[a] >= 0
        /\ balance' = [a \in Account |-> balance[a] + lines[a]]
        /\ journal' = journal \cup {key}
    BY <1>2 DEF Post, Acceptable, Balanced, Covered
  <2>2. \A a \in Account : lines[a] \in Int /\ balance[a] \in Int
    BY <2>1, LedgerAssumption DEF LedgerTypeOK
  <2>3. balance' \in [Account -> Int]
    BY <2>1, <2>2
  <2>4. \A a \in Account \ {LabIssuer} : balance'[a] >= 0
    BY <2>1
  <2> QED BY <2>1, <2>3, <2>4 DEF LedgerTypeOK
<1> QED BY <1>1, <1>2

-----------------------------------------------------------------------------
(* Offers.                                                                 *)

\* The root and the stages of an offer are its nodes, and an offer of one node
\* has no stage.
LEMMA OfferNodes ==
  ASSUME NEW o \in Offer
  PROVE  /\ Nodes(o) \subseteq Node
         /\ Root(o) \in Nodes(o)
         /\ Nodes(o) = Stages(o) \cup {Root(o)}
         /\ ~(Len(Members[o]) > 1) => Nodes(o) = {Root(o)}
<1>1. Members[o] \in Seq(Node) /\ Len(Members[o]) > 0
  BY OffersAssumption DEF Offer
<1>2. DOMAIN Members[o] = 1..Len(Members[o]) /\ Len(Members[o]) \in Nat
  BY <1>1
<1>3. Nodes(o) \subseteq Node
  BY <1>1, <1>2 DEF Nodes
<1>4. Root(o) \in Nodes(o)
  BY <1>1, <1>2 DEF Nodes, Root
<1>5. ~(Len(Members[o]) > 1) => Nodes(o) = {Root(o)}
  <2> SUFFICES ASSUME ~(Len(Members[o]) > 1) PROVE Nodes(o) = {Root(o)}
    OBVIOUS
  <2>1. DOMAIN Members[o] = {1}
    BY <1>1, <1>2
  <2> QED BY <2>1 DEF Nodes, Root
<1> QED BY <1>3, <1>4, <1>5 DEF Stages

-----------------------------------------------------------------------------
(* The two ways a handler changes a row.                                   *)

\* A live session moves on: only its row changes, to another row that is live
\* and has the shape of its state.
LEMMA RowMovesOn ==
  ASSUME SessionsInv, NEW s \in Session, NEW r \in Row,
         row[s].state \in Live, r.state \in Live, Consistent(r),
         row' = [row EXCEPT ![s] = r],
         UNCHANGED <<ledgerVars, worldVars, overdue, created>>,
         served' \in [User -> Nat]
  PROVE  SessionsInv'
<1>1. row' \in [Session -> Row]
  BY DEF SessionsInv, SessionsTypeOK
<1>2. row'[s] = r /\ \A t \in Session \ {s} : row'[t] = row[t]
  BY DEF SessionsInv, SessionsTypeOK
<1>3. SessionsTypeOK'
   BY <1>1 DEF SessionsInv, SessionsTypeOK, LedgerTypeOK, FleetTypeOK, ledgerVars, worldVars,
               fleetVars
<1>4. PostedExactlyOnce'
  BY <1>2 DEF SessionsInv, PostedExactlyOnce, ledgerVars, Live, Active, Terminal
<1>5. RowsConsistent'
  BY <1>2 DEF SessionsInv, RowsConsistent
<1> QED BY <1>3, <1>4, <1>5 DEF SessionsInv

\* A live session ends through finalize: its settlement is posted, and
\* only a row with the claims and reports of all its nodes is completed.
LEMMA RowEnds ==
  ASSUME SessionsInv, NEW s \in Session, NEW r \in Row, NEW state \in Terminal,
         NEW bill \in Nat, NEW billing \in Billing,
         row[s].state \in Live,
         state = "COMPLETED" => /\ r.offer \in Offer
                                /\ r.claimed = Nodes(r.offer)
                                /\ \A n \in Nodes(r.offer) : r.report[n] = "COMPLETED",
         bill > 0 => state = "COMPLETED" /\ billing = "SETTLED",
         finalize(s, r, state, bill, billing),
         UNCHANGED <<worldVars, overdue, created, served>>
  PROVE  SessionsInv'
<1> DEFINE last == [r EXCEPT !.state = state, !.billing = billing, !.charged = bill]
<1>1. last \in Row
  BY DEF Row, Terminal, Billing
<1>2. /\ last.state = state /\ last.billing = billing /\ last.charged = bill
      /\ last.offer = r.offer /\ last.claimed = r.claimed /\ last.report = r.report
  BY DEF Row
<1>3. row' = [row EXCEPT ![s] = last]
  BY DEF finalize
<1>4. row'[s] = last /\ \A t \in Session \ {s} : row'[t] = row[t]
  BY <1>3 DEF SessionsInv, SessionsTypeOK
<1>5. LedgerTypeOK' /\ journal' = IF Hold[s] > 0 THEN journal \cup {SettleKey(s)} ELSE journal
  BY PostPreservesBook DEF finalize, SessionsInv, SessionsTypeOK, ledgerVars, LedgerTypeOK
<1> HIDE DEF last
<1>6. SessionsTypeOK'
  <2>1. row' \in [Session -> Row]
    BY <1>1, <1>3 DEF SessionsInv, SessionsTypeOK
  <2>2. journal' \subseteq {HoldKey(t) : t \in Session} \cup {SettleKey(t) : t \in Session}
    BY <1>5 DEF SessionsInv, SessionsTypeOK
  <2> QED BY <1>5, <2>1, <2>2 DEF SessionsInv, SessionsTypeOK, FleetTypeOK, worldVars, fleetVars
<1>7. PostedExactlyOnce'
  <2> SUFFICES ASSUME NEW t \in Session, Hold[t] > 0
               PROVE  /\ HoldKey(t) \in journal' <=> row'[t].state # "NEW"
                      /\ SettleKey(t) \in journal' <=> row'[t].state \in Terminal
    BY DEF PostedExactlyOnce
  <2>1. /\ HoldKey(t) \in journal <=> row[t].state # "NEW"
        /\ SettleKey(t) \in journal <=> row[t].state \in Terminal
    BY DEF SessionsInv, PostedExactlyOnce
  <2>2. HoldKey(t) # SettleKey(s) /\ (t # s => SettleKey(t) # SettleKey(s))
    BY DEF HoldKey, SettleKey
  <2>3. CASE t = s
    BY <1>2, <1>4, <1>5, <2>1, <2>2, <2>3 DEF Live, Active, Terminal
  <2>4. CASE t # s
    BY <1>4, <1>5, <2>1, <2>2, <2>4
  <2> QED BY <2>3, <2>4
<1>8. RowsConsistent'
  <2>1. Consistent(last)
    BY <1>2 DEF Consistent, Terminal, Live, Active
  <2> QED BY <1>4, <2>1 DEF SessionsInv, RowsConsistent
<1> QED BY <1>6, <1>7, <1>8 DEF SessionsInv

-----------------------------------------------------------------------------
(* Every handler keeps the invariant.                                      *)

LEMMA InitInv == Init => SessionsInv
<1> SUFFICES ASSUME Init PROVE SessionsInv
  OBVIOUS
<1>1. NewRow \in Row /\ Consistent(NewRow) /\ NewRow.state = "NEW"
  BY DEF NewRow, Row, Consistent, Billing, Pending, Live, Active, Terminal
<1>2. LedgerTypeOK
  <2>1. balance \in [Account -> Int]
    <3> SUFFICES ASSUME NEW a \in Account PROVE balance[a] \in Int
      BY DEF Init
    <3>1. ASSUME NEW u \in User, a = Available(u) PROVE balance[a] \in Nat
      BY <3>1, SessionsAssumption DEF Init, Available
    <3>2. ASSUME ~ \E u \in User : a = Available(u) PROVE balance[a] \in Int
      BY <3>2, SessionsAssumption DEF Init
    <3> QED BY <3>1, <3>2
  <2>2. ASSUME NEW a \in Account \ {LabIssuer} PROVE balance[a] >= 0
    <3>1. ASSUME NEW u \in User, a = Available(u) PROVE balance[a] \in Nat
      BY <3>1, SessionsAssumption DEF Init, Available
    <3>2. ASSUME ~ \E u \in User : a = Available(u) PROVE balance[a] = 0
      BY <2>2, <3>2 DEF Init
    <3> QED BY <3>1, <3>2
  <2> QED BY <2>1, <2>2 DEF LedgerTypeOK
<1>3. FleetTypeOK
  BY DEF Init, FleetInit, FleetTypeOK, Phase, Desired
<1>4. SessionsTypeOK
  BY <1>1, <1>2, <1>3 DEF Init, SessionsTypeOK
<1> QED BY <1>1, <1>4 DEF Init, SessionsInv, PostedExactlyOnce, RowsConsistent, Terminal

LEMMA FleetStepInv == SessionsInv /\ FleetStep => SessionsInv'
<1> SUFFICES ASSUME SessionsInv, FleetStep PROVE SessionsInv'
  OBVIOUS
<1>1. FleetTypeOK'
  <2>1. PICK n \in Node : \/ \E anew \in BOOLEAN : Resume(n, anew)
                          \/ \E ready \in BOOLEAN : Heartbeat(n, ready)
                          \/ GoSilent(n)
                          \/ \E order \in Orders : NodeState(n, order)
    BY DEF FleetStep, FleetNext
  <2>2. FleetTypeOK
    BY DEF SessionsInv, SessionsTypeOK
  <2>3. CASE \E anew \in BOOLEAN : Resume(n, anew)
    BY <2>2, <2>3 DEF Resume, FleetTypeOK, Phase
  <2>4. CASE \E ready \in BOOLEAN : Heartbeat(n, ready)
    BY <2>2, <2>4 DEF Heartbeat, FleetTypeOK, Phase
  <2>5. CASE GoSilent(n)
    BY <2>2, <2>5 DEF GoSilent, FleetTypeOK
  <2>6. CASE \E order \in Orders : NodeState(n, order)
    BY <2>2, <2>6, FleetAssumption DEF NodeState, FleetTypeOK, Phase, Desired
  <2> QED BY <2>1, <2>3, <2>4, <2>5, <2>6
<1> QED BY <1>1 DEF SessionsInv, SessionsTypeOK, LedgerTypeOK, PostedExactlyOnce, RowsConsistent,
                    FleetStep, ledgerVars, sessionVars

LEMMA RelistInv ==
  ASSUME SessionsInv, NEW o \in Movable, Relist(o)
  PROVE  SessionsInv'
<1>1. o \in Offer
  BY SessionsAssumption
 <1> QED BY <1>1 DEF Relist, SessionsInv, SessionsTypeOK, LedgerTypeOK, FleetTypeOK,
                     PostedExactlyOnce,
                    RowsConsistent, ledgerVars, fleetVars, sessionVars

LEMMA CreateInv ==
  ASSUME SessionsInv, NEW s \in Session, create(s)
  PROVE  SessionsInv'
<1> DEFINE r == [row[s] EXCEPT !.state = "QUEUED"]
<1>1. row[s] \in Row /\ row[s].state = "NEW" /\ Consistent(row[s])
  BY DEF create, SessionsInv, SessionsTypeOK, RowsConsistent
<1>2. r \in Row /\ Consistent(r) /\ r.state = "QUEUED"
  BY <1>1 DEF Row, Consistent, Live, Active, Terminal
<1>3. row' = [row EXCEPT ![s] = r]
  BY DEF create
<1> HIDE DEF r
<1>4. row' \in [Session -> Row] /\ row'[s] = r /\ \A t \in Session \ {s} : row'[t] = row[t]
  BY <1>2, <1>3 DEF SessionsInv, SessionsTypeOK
<1>5. /\ LedgerTypeOK'
      /\ journal' = IF Hold[s] > 0 THEN journal \cup {HoldKey(s)} ELSE journal
  BY PostPreservesBook DEF create, SessionsInv, SessionsTypeOK, ledgerVars, LedgerTypeOK
<1>6. created' \in [Session -> Nat]
  <2> DEFINE T == {t \in Session : row[t].state # "NEW"}
  <2>1. Cardinality(T) \in Nat
    BY SessionsAssumption, FS_Subset, FS_CardinalityType
  <2>2. created' = [created EXCEPT ![s] = 1 + Cardinality(T)]
    BY DEF create
  <2> HIDE DEF T
  <2> QED BY <2>1, <2>2 DEF SessionsInv, SessionsTypeOK
<1>7. SessionsTypeOK'
  <2>1. journal' \subseteq {HoldKey(t) : t \in Session} \cup {SettleKey(t) : t \in Session}
    BY <1>5 DEF SessionsInv, SessionsTypeOK
  <2> QED BY <1>4, <1>5, <1>6, <2>1 DEF create, SessionsInv, SessionsTypeOK, FleetTypeOK,
                                        worldVars, fleetVars
<1>8. PostedExactlyOnce'
  <2> SUFFICES ASSUME NEW t \in Session, Hold[t] > 0
               PROVE  /\ HoldKey(t) \in journal' <=> row'[t].state # "NEW"
                      /\ SettleKey(t) \in journal' <=> row'[t].state \in Terminal
    BY DEF PostedExactlyOnce
  <2>1. /\ HoldKey(t) \in journal <=> row[t].state # "NEW"
        /\ SettleKey(t) \in journal <=> row[t].state \in Terminal
    BY DEF SessionsInv, PostedExactlyOnce
  <2>2. SettleKey(t) # HoldKey(s) /\ (t # s => HoldKey(t) # HoldKey(s))
    BY DEF HoldKey, SettleKey
  <2>3. CASE t = s
    BY <1>1, <1>2, <1>4, <1>5, <2>1, <2>2, <2>3 DEF Terminal
  <2>4. CASE t # s
    BY <1>4, <1>5, <2>1, <2>2, <2>4
  <2> QED BY <2>3, <2>4
<1>9. RowsConsistent'
  BY <1>2, <1>4 DEF SessionsInv, RowsConsistent
<1> QED BY <1>7, <1>8, <1>9 DEF SessionsInv

LEMMA ExpireInv ==
  ASSUME SessionsInv, NEW s \in Session, Expire(s)
  PROVE  SessionsInv'
BY DEF Expire, SessionsInv, SessionsTypeOK, LedgerTypeOK, FleetTypeOK, PostedExactlyOnce,
       RowsConsistent, ledgerVars, worldVars, fleetVars

LEMMA AdmitInv ==
  ASSUME SessionsInv, NEW s \in Session, NEW o \in Offer, admit(s, o)
  PROVE  SessionsInv'
<1> DEFINE r == [row[s] EXCEPT !.state = "PREPARING", !.offer = o,
                               !.epochs = [n \in Node |-> IF n \in Nodes(o)
                                                          THEN epoch[n] ELSE 0]]
<1>1. row[s] \in Row /\ row[s].state = "QUEUED" /\ Consistent(row[s])
  BY DEF admit, Foremost, Executable, Queued, SessionsInv, SessionsTypeOK, RowsConsistent
<1>2. [n \in Node |-> IF n \in Nodes(o) THEN epoch[n] ELSE 0] \in [Node -> Nat]
  BY DEF SessionsInv, SessionsTypeOK, FleetTypeOK
<1>3. r \in Row /\ r.state = "PREPARING" /\ r.offer = o /\ r.report = row[s].report
      /\ r.claimed = row[s].claimed /\ r.charged = row[s].charged /\ r.billing = row[s].billing
  BY <1>1, <1>2 DEF Row, Live, Active
<1>4. row' = [row EXCEPT ![s] = r]
  BY DEF admit
<1> HIDE DEF r
<1>5. Consistent(r)
  BY <1>1, <1>3 DEF Consistent, Live, Active
<1>6. served' \in [User -> Nat]
  <2> DEFINE T == {t \in Session : row[t].offer # NoOffer}
  <2>1. Cardinality(T) \in Nat
    BY SessionsAssumption, FS_Subset, FS_CardinalityType
  <2>2. served' = [served EXCEPT ![Requester[s]] = 1 + Cardinality(T)]
    BY DEF admit
  <2>3. served \in [User -> Nat] /\ 1 + Cardinality(T) \in Nat
    BY <2>1 DEF SessionsInv, SessionsTypeOK
  <2> HIDE DEF T
  <2> QED BY <2>2, <2>3
<1>7. row[s].state \in Live /\ r.state \in Live
  BY <1>1, <1>3 DEF Live, Active
<1>8. UNCHANGED <<ledgerVars, worldVars, overdue, created>>
  BY DEF admit
<1> QED
  BY <1>3, <1>4, <1>5, <1>6, <1>7, <1>8, RowMovesOn

\* The handlers that end a session without a charge, whatever its evidence.
LEMMA FreeEndInv ==
  ASSUME SessionsInv, NEW s \in Session, NEW state \in Terminal \ {"COMPLETED"},
         row[s].state \in Live,
         finalize(s, row[s], state, 0, "REFUNDED"),
         UNCHANGED <<worldVars, overdue, created, served>>
  PROVE  SessionsInv'
<1>1. row[s] \in Row /\ state \in Terminal /\ "REFUNDED" \in Billing
  BY DEF SessionsInv, SessionsTypeOK, Billing
<1> QED BY <1>1, RowEnds

LEMMA AdmitLateInv ==
  ASSUME SessionsInv, NEW s \in Session, admitLate(s)
  PROVE  SessionsInv'
BY FreeEndInv DEF admitLate, Live, Terminal

LEMMA FailInv ==
  ASSUME SessionsInv, NEW s \in Session, fail(s)
  PROVE  SessionsInv'
BY FreeEndInv DEF fail, Live, Active, Unclaimed, Terminal

LEMMA ReapInv ==
  ASSUME SessionsInv, NEW s \in Session, reap(s)
  PROVE  SessionsInv'
BY FreeEndInv DEF reap, Terminal

LEMMA LateReceiptInv ==
  ASSUME SessionsInv, NEW s \in Session, NEW n \in Node, lateReceipt(s, n)
  PROVE  SessionsInv'
BY FreeEndInv DEF lateReceipt, Live, Terminal

LEMMA CancelInv ==
  ASSUME SessionsInv, NEW s \in Session, cancel(s)
  PROVE  SessionsInv'
<1>1. CASE row[s].state \in Unclaimed
  BY <1>1, FreeEndInv DEF cancel, Live, Active, Unclaimed, Terminal
<1>2. CASE row[s].state = "RUNNING"
  <2> DEFINE r == [row[s] EXCEPT !.state = "CANCELLING"]
  <2>1. row[s] \in Row /\ Consistent(row[s])
    BY DEF SessionsInv, SessionsTypeOK, RowsConsistent
  <2>2. r \in Row /\ r = [row[s] EXCEPT !.state = "CANCELLING"] /\ r.state = "CANCELLING"
    BY <2>1 DEF Row, Live, Active
  <2>3. /\ r.offer = row[s].offer /\ r.report = row[s].report /\ r.claimed = row[s].claimed
        /\ r.charged = row[s].charged /\ r.billing = row[s].billing
    BY <2>1 DEF Row
  <2>4. row' = [row EXCEPT ![s] = r]
    BY <1>2 DEF cancel, Unclaimed
  <2>5. UNCHANGED <<ledgerVars, worldVars, overdue, created>> /\ served' \in [User -> Nat]
    BY <1>2 DEF cancel, Unclaimed, SessionsInv, SessionsTypeOK
  <2> HIDE DEF r
  <2>6. Consistent(r) /\ row[s].state \in Live /\ r.state \in Live
    BY <1>2, <2>1, <2>2, <2>3 DEF Consistent, Live, Active
  <2> QED BY <2>2, <2>4, <2>5, <2>6, RowMovesOn
<1> QED BY <1>1, <1>2 DEF cancel

LEMMA AuthorizeInv ==
  ASSUME SessionsInv, NEW s \in Session, authorize(s)
  PROVE  SessionsInv'
<1> DEFINE r == [row[s] EXCEPT !.state = "AUTHORIZED"]
<1>1. row[s] \in Row /\ Consistent(row[s]) /\ row[s].state = "PREPARING"
  BY DEF SessionsInv, SessionsTypeOK, RowsConsistent, authorize
<1>2. r \in Row /\ r.state = "AUTHORIZED"
  BY <1>1 DEF Row, Live, Active
<1>3. /\ r.offer = row[s].offer /\ r.report = row[s].report /\ r.claimed = row[s].claimed
      /\ r.charged = row[s].charged /\ r.billing = row[s].billing
  BY <1>1 DEF Row
<1>4. row' = [row EXCEPT ![s] = r]
  BY DEF authorize
<1>5. UNCHANGED <<ledgerVars, worldVars, overdue, created>> /\ served' \in [User -> Nat]
  BY DEF authorize, SessionsInv, SessionsTypeOK
<1> HIDE DEF r
<1>6. Consistent(r) /\ row[s].state \in Live /\ r.state \in Live
  BY <1>1, <1>2, <1>3 DEF Consistent, Live, Active
<1> QED BY <1>2, <1>4, <1>5, <1>6, RowMovesOn

LEMMA StageClaimInv ==
  ASSUME SessionsInv, NEW s \in Session, NEW n \in Node, stageClaim(s, n)
  PROVE  SessionsInv'
<1> DEFINE r == [row[s] EXCEPT !.claimed = @ \cup {n}]
<1>1. row[s] \in Row /\ Consistent(row[s]) /\ row[s].state = "AUTHORIZED"
  BY DEF SessionsInv, SessionsTypeOK, RowsConsistent, stageClaim
<1>2. n \in Stages(row[s].offer)
  BY DEF stageClaim
<1>3. r \in Row /\ r.state = "AUTHORIZED" /\ r.claimed = row[s].claimed \cup {n}
  BY <1>1 DEF Row
<1>4. /\ r.offer = row[s].offer /\ r.report = row[s].report
      /\ r.charged = row[s].charged /\ r.billing = row[s].billing
  BY <1>1 DEF Row
<1>5. row' = [row EXCEPT ![s] = r]
  BY DEF stageClaim
<1>6. UNCHANGED <<ledgerVars, worldVars, overdue, created>> /\ served' \in [User -> Nat]
  BY DEF stageClaim, SessionsInv, SessionsTypeOK
<1> HIDE DEF r
<1>7. Consistent(r) /\ row[s].state \in Live /\ r.state \in Live
  BY <1>1, <1>2, <1>3, <1>4 DEF Consistent, Live, Active
<1> QED BY <1>3, <1>5, <1>6, <1>7, RowMovesOn

\* The root starts last: with its claim the claims are the nodes of the offer.
LEMMA ClaimInv ==
  ASSUME SessionsInv, NEW s \in Session, claim(s)
  PROVE  SessionsInv'
<1> DEFINE n == Root(row[s].offer)
<1> DEFINE r == [row[s] EXCEPT !.state = "RUNNING", !.claimed = @ \cup {n}]
<1>1. row[s] \in Row /\ Consistent(row[s]) /\ row[s].state = "AUTHORIZED"
  BY DEF SessionsInv, SessionsTypeOK, RowsConsistent, claim
<1>2. row[s].offer \in Offer
  BY <1>1 DEF Consistent, Active
<1>3. row[s].claimed \subseteq Stages(row[s].offer) /\ n \in Node
  BY <1>1, <1>2, OfferNodes DEF Consistent
<1>4. row[s].claimed \cup {n} = Nodes(row[s].offer)
  <2>1. CASE Routed(s)
    BY <1>2, <1>3, <2>1, OfferNodes DEF claim, StagesClaimed
  <2>2. CASE ~Routed(s)
    BY <1>2, <1>3, <2>2, OfferNodes DEF Routed, IsRoute
  <2> QED BY <2>1, <2>2
<1>5. r \in Row /\ r.state = "RUNNING" /\ r.claimed = row[s].claimed \cup {n}
  BY <1>1, <1>3 DEF Row, Live, Active
<1>6. /\ r.offer = row[s].offer /\ r.report = row[s].report
      /\ r.charged = row[s].charged /\ r.billing = row[s].billing
  BY <1>1 DEF Row
<1>7. row' = [row EXCEPT ![s] = r]
  BY DEF claim
<1>8. UNCHANGED <<ledgerVars, worldVars, overdue, created>> /\ served' \in [User -> Nat]
  BY DEF claim, SessionsInv, SessionsTypeOK
<1> HIDE DEF r, n
<1>9. Consistent(r) /\ row[s].state \in Live /\ r.state \in Live
  BY <1>1, <1>4, <1>5, <1>6 DEF Consistent, Live, Active
<1> QED BY <1>5, <1>7, <1>8, <1>9, RowMovesOn

-----------------------------------------------------------------------------
(* Receipts.                                                               *)

\* A route's row r, changed by a report, is recorded or ended: r is the row of s
\* but for its reports, which all are complete unless one of a stage refuses.
LEMMA SettleRouteInv ==
  ASSUME SessionsInv, NEW s \in Session, NEW r \in Row,
         row[s].state \in Active,
         r.state = row[s].state, r.offer = row[s].offer, r.claimed = row[s].claimed,
         r.charged = row[s].charged, r.billing = row[s].billing,
         r.report[Root(r.offer)] \in {Pending, "COMPLETED"},
         \A n \in Node \ Nodes(r.offer) : r.report[n] = row[s].report[n],
         r.state \in {"PREPARING", "AUTHORIZED"} =>
           \E n \in Stages(r.offer) : r.report[n] \notin {Pending, "COMPLETED"},
         settleRoute(s, r),
         UNCHANGED <<worldVars, overdue, created, served>>
  PROVE  SessionsInv'
<1> DEFINE failed == \E n \in Stages(r.offer) : r.report[n] \notin {Pending, "COMPLETED"}
<1>1. Consistent(row[s]) /\ row[s].state \in Live /\ r.offer \in Offer
  BY DEF SessionsInv, RowsConsistent, Consistent, Live
<1>2. CASE r.state = "CANCELLING" \/ failed
  <2>1. PICK state \in {"CANCELLED", "FAILED"} : finalize(s, r, state, 0, "REFUNDED")
    BY <1>2 DEF settleRoute
  <2>2. state \in Terminal /\ "REFUNDED" \in Billing /\ 0 \in Nat
    BY DEF Terminal, Billing
  <2> QED BY <1>1, <2>1, <2>2, RowEnds
<1>3. CASE r.state # "CANCELLING" /\ ~failed
  <2>1. r.state = "RUNNING"
    BY <1>3 DEF Active
  <2>2. \A n \in Node : r.report[n] \in {Pending, "COMPLETED"}
    BY <1>1, <1>3, <2>1, OfferNodes DEF Consistent
  <2>3. CASE ~Complete(r)
    <3>1. row' = [row EXCEPT ![s] = r] /\ UNCHANGED ledgerVars
      BY <1>3, <2>3 DEF settleRoute
    <3>2. Consistent(r) /\ r.state \in Live
      BY <1>1, <2>1, <2>2 DEF Consistent, Live, Active
    <3>3. UNCHANGED <<ledgerVars, worldVars, overdue, created>> /\ served' \in [User -> Nat]
      BY <3>1 DEF SessionsInv, SessionsTypeOK
    <3> QED BY <1>1, <3>1, <3>2, <3>3, RowMovesOn
  <2>4. CASE Complete(r)
    <3>1. finalize(s, r, "COMPLETED", r.cost, Billed(r.cost)) /\ r.cost \in Nat
      BY <1>3, <2>4 DEF settleRoute, Row
    <3>2. \A n \in Nodes(r.offer) : r.report[n] = "COMPLETED"
      BY <1>1, <2>2, <2>4, OfferNodes DEF Complete, Pending
    <3>3. r.claimed = Nodes(r.offer)
      BY <1>1, <2>1 DEF Consistent
    <3>4. Billed(r.cost) \in Billing /\ (r.cost > 0 => Billed(r.cost) = "SETTLED")
      BY <3>1 DEF Billed, Billing
    <3>5. "COMPLETED" \in Terminal
      BY DEF Terminal
    <3> QED BY <1>1, <3>1, <3>2, <3>3, <3>4, <3>5, RowEnds
  <2> QED BY <2>3, <2>4
<1> QED BY <1>2, <1>3

LEMMA StageReceiptInv ==
  ASSUME SessionsInv, NEW s \in Session, NEW n \in Node, NEW report \in Report,
         stageReceipt(s, n, report)
  PROVE  SessionsInv'
<1> DEFINE r == [row[s] EXCEPT !.report[n] = report]
<1>1. row[s] \in Row /\ Consistent(row[s])
              /\ row[s].state \in {"AUTHORIZED", "RUNNING", "CANCELLING"}
  BY DEF SessionsInv, SessionsTypeOK, RowsConsistent, stageReceipt
<1>2. row[s].state \in Active /\ row[s].offer \in Offer
  BY <1>1 DEF Consistent, Active
<1>3. n \in Stages(row[s].offer)
  BY DEF stageReceipt
<1>4. r \in Row /\ r.report = [row[s].report EXCEPT ![n] = report]
  BY <1>1 DEF Row
<1>5. /\ r.state = row[s].state /\ r.offer = row[s].offer /\ r.claimed = row[s].claimed
      /\ r.charged = row[s].charged /\ r.billing = row[s].billing
  BY <1>1 DEF Row
<1>6. row[s].report \in [Node -> Report \cup {Pending}]
  BY <1>1 DEF Row
<1>7. settleRoute(s, r) /\ UNCHANGED <<worldVars, overdue, created, served>>
  BY DEF stageReceipt
<1> HIDE DEF r
<1>8. \A m \in Node : r.report[m] = IF m = n THEN report ELSE row[s].report[m]
  BY <1>4, <1>6
<1>9. r.report[Root(r.offer)] \in {Pending, "COMPLETED"}
  BY <1>1, <1>2, <1>3, <1>5, <1>8, OfferNodes DEF Consistent, Stages
<1>10. \A m \in Node \ Nodes(r.offer) : r.report[m] = row[s].report[m]
  BY <1>3, <1>5, <1>8 DEF Stages
<1>11. ASSUME r.state \in {"PREPARING", "AUTHORIZED"}
       PROVE  \E m \in Stages(r.offer) : r.report[m] \notin {Pending, "COMPLETED"}
  <2>1. Root(row[s].offer) \notin row[s].claimed
    BY <1>1, <1>2, <1>5, <1>11 DEF Consistent, Stages
  <2>2. report \notin {Pending, "COMPLETED"}
    BY <2>1 DEF stageReceipt, Report, Pending
  <2> QED BY <1>3, <1>5, <1>8, <2>2
<1> QED BY <1>2, <1>4, <1>5, <1>7, <1>9, <1>10, <1>11, SettleRouteInv

LEMMA ReceiptInv ==
  ASSUME SessionsInv, NEW s \in Session, NEW report \in Report, NEW cost \in Nat,
         receipt(s, report, cost)
  PROVE  SessionsInv'
<1> DEFINE n == Root(row[s].offer)
           r == [row[s] EXCEPT !.report[n] = report, !.cost = cost]
           bill == IF Payable(s, report) THEN cost ELSE 0
           state == IF row[s].state = "CANCELLING" THEN "CANCELLED"
                    ELSE IF report = "INVALID" THEN "FAILED" ELSE report
           billing == IF report = "INVALID" THEN "DISPUTED" ELSE Billed(bill)
<1>1. row[s] \in Row /\ Consistent(row[s]) /\ row[s].state \in {"RUNNING", "CANCELLING"}
  BY DEF SessionsInv, SessionsTypeOK, RowsConsistent, receipt
<1>2. row[s].state \in Active /\ row[s].state \in Live /\ row[s].offer \in Offer
  BY <1>1 DEF Consistent, Active, Live
<1>3. n \in Nodes(row[s].offer) /\ n \in Node
  BY <1>2, OfferNodes
<1>4. r \in Row /\ r.report = [row[s].report EXCEPT ![n] = report]
  BY <1>1, <1>3 DEF Row
<1>5. /\ r.state = row[s].state /\ r.offer = row[s].offer /\ r.claimed = row[s].claimed
      /\ r.charged = row[s].charged /\ r.billing = row[s].billing
  BY <1>1 DEF Row
<1>6. row[s].report \in [Node -> Report \cup {Pending}]
  BY <1>1 DEF Row
<1>7. /\ UNCHANGED <<worldVars, overdue, created, served>>
      /\ IF Routed(s) /\ Payable(s, report) THEN settleRoute(s, r)
         ELSE finalize(s, r, state, bill, billing)
  BY DEF receipt
<1>8. r.report[n] = report /\ \A m \in Node \ {n} : r.report[m] = row[s].report[m]
  BY <1>3, <1>4, <1>6
<1> HIDE DEF r, n
<1>9. CASE Routed(s) /\ Payable(s, report)
  <2>1. report = "COMPLETED" /\ settleRoute(s, r)
    BY <1>7, <1>9 DEF Payable
  <2>2. r.report[Root(r.offer)] \in {Pending, "COMPLETED"}
    BY <1>5, <1>8, <2>1 DEF n
  <2>3. \A m \in Node \ Nodes(r.offer) : r.report[m] = row[s].report[m]
    BY <1>3, <1>5, <1>8
  <2>4. r.state \notin {"PREPARING", "AUTHORIZED"}
    BY <1>1, <1>5
  <2> QED BY <1>2, <1>4, <1>5, <1>7, <2>1, <2>2, <2>3, <2>4, SettleRouteInv
<1>10. CASE ~(Routed(s) /\ Payable(s, report))
  <2>1. finalize(s, r, state, bill, billing)
    BY <1>7, <1>10
  <2>2. state \in Terminal /\ bill \in Nat /\ billing \in Billing
    BY DEF Terminal, Billing, Billed, Report
  <2>3. state = "COMPLETED" => Payable(s, report) /\ ~Routed(s) /\ report = "COMPLETED"
    BY <1>10 DEF Payable
  <2>4. ASSUME state = "COMPLETED"
        PROVE  /\ r.offer \in Offer /\ r.claimed = Nodes(r.offer)
               /\ \A m \in Nodes(r.offer) : r.report[m] = "COMPLETED"
    <3>1. Nodes(row[s].offer) = {n}
      BY <1>2, <2>3, <2>4, OfferNodes DEF Routed, IsRoute, n
    <3> QED BY <1>1, <1>2, <1>5, <1>8, <2>3, <2>4, <3>1 DEF Consistent
  <2>5. ASSUME bill > 0
        PROVE  state = "COMPLETED" /\ billing = "SETTLED"
    <3>1. Payable(s, report)
      BY <2>5
    <3> QED BY <2>5, <3>1 DEF Payable, Billed
  <2> HIDE DEF state, bill, billing
  <2> QED BY <1>2, <1>4, <1>7, <2>1, <2>2, <2>4, <2>5, RowEnds
<1> QED BY <1>9, <1>10

-----------------------------------------------------------------------------
(* The theorems.                                                           *)

LEMMA NextInv == SessionsInv /\ [Next]_vars => SessionsInv'
<1> SUFFICES ASSUME SessionsInv, [Next]_vars PROVE SessionsInv'
  OBVIOUS
<1>1. CASE UNCHANGED vars
  BY <1>1 DEF vars, SessionsInv, SessionsTypeOK, LedgerTypeOK, FleetTypeOK, PostedExactlyOnce,
              RowsConsistent
<1>2. CASE FleetStep
  BY <1>2, FleetStepInv
<1>10. CASE \E o \in Movable : Relist(o)
  BY <1>10, RelistInv
<1>3. ASSUME NEW s \in Session,
             \/ create(s) \/ Expire(s) \/ admitLate(s) \/ authorize(s) \/ claim(s)
             \/ cancel(s) \/ fail(s) \/ reap(s)
      PROVE  SessionsInv'
  BY <1>3, CreateInv, ExpireInv, AdmitLateInv, AuthorizeInv, ClaimInv, CancelInv,
     FailInv, ReapInv
<1>4. ASSUME NEW s \in Session, NEW o \in Offer, admit(s, o) PROVE SessionsInv'
  BY <1>4, AdmitInv
<1>5. ASSUME NEW s \in Session, NEW n \in Node, stageClaim(s, n) \/ lateReceipt(s, n)
      PROVE  SessionsInv'
  BY <1>5, StageClaimInv, LateReceiptInv
<1>6. Charge \subseteq Nat /\ Reports \subseteq Report /\ "COMPLETED" \in Report
  BY SessionsAssumption DEF Report
<1>7. ASSUME NEW s \in Session, NEW cost \in Charge, receipt(s, "COMPLETED", cost)
      PROVE  SessionsInv'
  BY <1>6, <1>7, ReceiptInv
<1>8. ASSUME NEW s \in Session, NEW report \in Reports, receipt(s, report, 0)
      PROVE  SessionsInv'
  BY <1>6, <1>8, ReceiptInv
<1>9. ASSUME NEW s \in Session, NEW n \in Node, NEW report \in Reports \cup {"COMPLETED"},
             stageReceipt(s, n, report)
      PROVE  SessionsInv'
  BY <1>6, <1>9, StageReceiptInv
<1> QED BY <1>1, <1>2, <1>3, <1>4, <1>5, <1>7, <1>8, <1>9, <1>10 DEF Next

\* Every handler keeps the types, the postings and the shape of the rows.
THEOREM Invariance == Spec => []SessionsInv
<1>1. Init => SessionsInv
  BY InitInv
<1>2. SessionsInv /\ [Next]_vars => SessionsInv'
  BY NextInv
<1> QED BY <1>1, <1>2, PTL DEF Spec

\* Rows, records and books always have their types; in particular no balance but
\* the issuer's goes below zero.
THEOREM TypeCorrect == Spec => []SessionsTypeOK
<1>1. SessionsInv => SessionsTypeOK
  BY DEF SessionsInv
<1> QED BY <1>1, Invariance, PTL

\* The reservation and the settlement of every session are posted exactly once.
THEOREM PostedOnce == Spec => []PostedExactlyOnce
<1>1. SessionsInv => PostedExactlyOnce
  BY DEF SessionsInv
<1> QED BY <1>1, Invariance, PTL

\* The row of a session has at all times the shape of its state.
THEOREM RowsStayConsistent == Spec => []RowsConsistent
<1>1. SessionsInv => RowsConsistent
  BY DEF SessionsInv
<1> QED BY <1>1, Invariance, PTL

\* A root never runs before every stage of its route has claimed the attempt.
THEOREM Started == Spec => []StartedMeansAllClaimed
<1>1. SessionsInv => StartedMeansAllClaimed
  BY DEF SessionsInv, RowsConsistent, Consistent, StartedMeansAllClaimed
<1> QED BY <1>1, Invariance, PTL

\* Nobody is charged without the completed reports of all claimed participants.
THEOREM ChargedOnEvidence == Spec => []ChargedOnlyOnFullEvidence
<1>1. SessionsInv => ChargedOnlyOnFullEvidence
  BY DEF SessionsInv, RowsConsistent, Consistent, ChargedOnlyOnFullEvidence, SessionsTypeOK, Row
<1> QED BY <1>1, Invariance, PTL

-----------------------------------------------------------------------------
(* What a step makes of a row.                                             *)

\* What every handler that writes the row of s turns it into.
Moves(s, r) ==
  /\ row[s].state \in {"NEW"} \cup Live
  /\ row[s].state \in Active => r.offer = row[s].offer
  /\ r.state \in Active \/ r.offer = row[s].offer
  /\ r.state \in Active /\ row[s].state \notin Active =>
       Foremost(s) /\ r.offer \in Offer /\ HasRoom(r.offer)
  /\ row[s].state = "CANCELLING" => r.charged = 0
  /\ r.state = "COMPLETED" =>
       \A n \in Nodes(row[s].offer) :
         epoch[n] = row[s].epochs[n] /\ desired[n] # "REVOKED"
  /\ row[s].state \in {"RUNNING", "CANCELLING"} /\ r.state \in Terminal =>
       r.report # row[s].report \/ s \in overdue \/ Fenced(s)

\* The posting made for s; nothing is written for a free session.
Entered(s, lines) ==
  balance' = IF Hold[s] > 0 THEN [a \in Account |-> balance[a] + lines[a]] ELSE balance

HoldLines(s) == [NoLines EXCEPT ![Available(Requester[s])] = 0 - Hold[s],
                                ![Held(Requester[s])] = Hold[s]]

\* What the book shows of it: the session is reserved, goes on, or is settled.
Books(s, r) ==
  \/ row[s].state = "NEW" /\ r.state \in Live /\ Entered(s, HoldLines(s))
  \/ row[s].state \in Live /\ r.state \in Live /\ balance' = balance
  \/ /\ row[s].state \in Live /\ r.state \in Terminal
     /\ r.charged <= Hold[s] /\ r.offer = row[s].offer
     /\ Entered(s, SettlementLines(s, r.charged))

MoveOf(s) ==
  \E r \in Row : row' = [row EXCEPT ![s] = r] /\ Moves(s, r) /\ Books(s, r)

\* A handler that ends s through finalize, with r as the row so far.
LEMMA EndMoves ==
  ASSUME SessionsInv, NEW s \in Session, NEW r \in Row, NEW state \in Terminal,
         NEW bill \in Nat, NEW billing \in Billing,
         row[s].state \in Live,
         r.offer = row[s].offer,
         row[s].state = "CANCELLING" => bill = 0,
         state = "COMPLETED" =>
           \A n \in Nodes(row[s].offer) :
             epoch[n] = row[s].epochs[n] /\ desired[n] # "REVOKED",
         row[s].state \in {"RUNNING", "CANCELLING"} =>
           r.report # row[s].report \/ s \in overdue \/ Fenced(s),
         finalize(s, r, state, bill, billing)
  PROVE  MoveOf(s)
<1> DEFINE last == [r EXCEPT !.state = state, !.billing = billing, !.charged = bill]
<1>1. last \in Row
  BY DEF Row, Terminal, Billing
<1>2. last.state = state /\ last.charged = bill /\ last.offer = r.offer /\ last.report = r.report
  BY DEF Row
<1>3. row' = [row EXCEPT ![s] = last]
  BY DEF finalize
<1> HIDE DEF last
<1>4. Moves(s, last)
  BY <1>2 DEF Moves, Live, Active, Terminal
<1>5. bill <= Hold[s] /\ Entered(s, SettlementLines(s, bill))
  <2>1. Hold[s] > 0 => SettleKey(s) \notin journal
    BY DEF SessionsInv, PostedExactlyOnce, Live, Active, Terminal
  <2> QED BY <2>1 DEF finalize, Post, Entered, ledgerVars
<1>6. Books(s, last)
  BY <1>2, <1>5 DEF Books
<1> QED BY <1>1, <1>3, <1>4, <1>6 DEF MoveOf

LEMMA FreeEndMoves ==
  ASSUME SessionsInv, NEW s \in Session, NEW state \in Terminal \ {"COMPLETED"},
         row[s].state \in Live,
         row[s].state \in {"RUNNING", "CANCELLING"} => s \in overdue \/ Fenced(s),
         finalize(s, row[s], state, 0, "REFUNDED")
  PROVE  MoveOf(s)
<1>1. row[s] \in Row /\ state \in Terminal /\ "REFUNDED" \in Billing
  BY DEF SessionsInv, SessionsTypeOK, Billing
<1> QED BY <1>1, EndMoves

\* A row that stays unfinished, under the offer that it had.
LEMMA LiveMoves ==
  ASSUME SessionsInv, NEW s \in Session, NEW r \in Row,
         row[s].state \in {"NEW"} \cup Live, r.state \in Live,
         r.offer = row[s].offer, r.charged = row[s].charged,
         r.state \in Active => row[s].state \in Active,
         row' = [row EXCEPT ![s] = r], Books(s, r)
  PROVE  MoveOf(s)
<1>1. row[s].charged = 0
  BY DEF SessionsInv, RowsConsistent, Consistent
<1>2. Moves(s, r)
  BY <1>1 DEF Moves, Live, Active, Terminal
<1> QED BY <1>2 DEF MoveOf

LEMMA AdmitMoves ==
  ASSUME SessionsInv, NEW s \in Session, NEW o \in Offer, admit(s, o)
  PROVE  MoveOf(s)
<1> DEFINE r == [row[s] EXCEPT !.state = "PREPARING", !.offer = o,
                               !.epochs = [n \in Node |-> IF n \in Nodes(o)
                                                          THEN epoch[n] ELSE 0]]
<1>1. row[s] \in Row /\ row[s].state = "QUEUED"
  BY DEF admit, Foremost, Executable, Queued, SessionsInv, SessionsTypeOK
<1>2. [n \in Node |-> IF n \in Nodes(o) THEN epoch[n] ELSE 0] \in [Node -> Nat]
  BY DEF SessionsInv, SessionsTypeOK, FleetTypeOK
<1>3. r \in Row /\ r.state = "PREPARING" /\ r.offer = o
  BY <1>1, <1>2 DEF Row, Live, Active
<1>4. row' = [row EXCEPT ![s] = r] /\ HasRoom(o) /\ Foremost(s)
  BY DEF admit
<1> HIDE DEF r
<1>5. Moves(s, r)
  BY <1>1, <1>3, <1>4 DEF Moves, Live, Active, Terminal
<1>6. Books(s, r)
  BY <1>1, <1>3 DEF admit, Books, ledgerVars, Live, Active
<1> QED BY <1>3, <1>4, <1>5, <1>6 DEF MoveOf

\* The handlers that only write one or two fields of a row that stays live.
LEMMA WriteMoves ==
  ASSUME SessionsInv, NEW s \in Session,
         \/ create(s) \/ authorize(s) \/ claim(s)
         \/ \E n \in Node : stageClaim(s, n)
  PROVE  MoveOf(s)
<1>1. row[s] \in Row /\ Consistent(row[s])
  BY DEF SessionsInv, SessionsTypeOK, RowsConsistent
<1>2. CASE create(s)
  <2> DEFINE r == [row[s] EXCEPT !.state = "QUEUED"]
  <2>1. r \in Row /\ r.state = "QUEUED" /\ r.offer = row[s].offer /\ r.charged = row[s].charged
    BY <1>1 DEF Row, Live
  <2>2. row' = [row EXCEPT ![s] = r] /\ row[s].state = "NEW"
    BY <1>2 DEF create
  <2> HIDE DEF r
  <2>3. Entered(s, HoldLines(s))
    <3>1. Hold[s] > 0 => HoldKey(s) \notin journal
      BY <2>2 DEF SessionsInv, PostedExactlyOnce
    <3> QED BY <1>2, <3>1 DEF create, Post, Entered, HoldLines, ledgerVars
  <2>4. Books(s, r)
    BY <2>1, <2>2, <2>3 DEF Books, Live
  <2> QED BY <2>1, <2>2, <2>4, LiveMoves DEF Live, Active
<1>3. CASE authorize(s)
  <2> DEFINE r == [row[s] EXCEPT !.state = "AUTHORIZED"]
  <2>1. r \in Row /\ r.state = "AUTHORIZED" /\ r.offer = row[s].offer /\ r.charged = row[s].charged
    BY <1>1 DEF Row, Live, Active
  <2>2. row' = [row EXCEPT ![s] = r] /\ row[s].state = "PREPARING"
    BY <1>3 DEF authorize
  <2> HIDE DEF r
  <2>3. Books(s, r)
    BY <1>3, <2>1, <2>2 DEF authorize, Books, ledgerVars, Live, Active
  <2> QED BY <2>1, <2>2, <2>3, LiveMoves DEF Live, Active
<1>4. CASE claim(s)
  <2> DEFINE n == Root(row[s].offer)
             r == [row[s] EXCEPT !.state = "RUNNING", !.claimed = @ \cup {n}]
  <2>1. row[s].state = "AUTHORIZED" /\ n \in Node
    BY <1>1, <1>4, OfferNodes DEF claim, Consistent, Active
  <2>2. r \in Row /\ r.state = "RUNNING" /\ r.offer = row[s].offer /\ r.charged = row[s].charged
    BY <1>1, <2>1 DEF Row, Live, Active
  <2>3. row' = [row EXCEPT ![s] = r]
    BY <1>4 DEF claim
  <2> HIDE DEF r, n
  <2>4. Books(s, r)
    BY <1>4, <2>1, <2>2 DEF claim, Books, ledgerVars, Live, Active
  <2> QED BY <2>1, <2>2, <2>3, <2>4, LiveMoves DEF Live, Active
<1>5. ASSUME NEW n \in Node, stageClaim(s, n) PROVE MoveOf(s)
  <2> DEFINE r == [row[s] EXCEPT !.claimed = @ \cup {n}]
  <2>1. r \in Row /\ r.state = row[s].state /\ r.offer = row[s].offer /\ r.charged = row[s].charged
    BY <1>1 DEF Row
  <2>2. row' = [row EXCEPT ![s] = r] /\ row[s].state = "AUTHORIZED"
    BY <1>5 DEF stageClaim
  <2> HIDE DEF r
  <2>3. Books(s, r)
    BY <1>5, <2>1, <2>2 DEF stageClaim, Books, ledgerVars, Live, Active
  <2> QED BY <2>1, <2>2, <2>3, LiveMoves DEF Live, Active
<1> QED BY <1>2, <1>3, <1>4, <1>5

LEMMA StopMoves ==
  ASSUME SessionsInv, NEW s \in Session,
         \/ admitLate(s) \/ cancel(s) \/ fail(s) \/ reap(s)
         \/ \E n \in Node : lateReceipt(s, n)
  PROVE  MoveOf(s)
<1>1. CASE admitLate(s)
  BY <1>1, FreeEndMoves DEF admitLate, Live, Terminal
<1>2. CASE fail(s)
  BY <1>2, FreeEndMoves DEF fail, Unclaimed, Live, Active, Terminal
<1>3. CASE reap(s)
  BY <1>3, FreeEndMoves DEF reap, Reapable, Terminal
<1>4. ASSUME NEW n \in Node, lateReceipt(s, n) PROVE MoveOf(s)
  BY <1>4, FreeEndMoves DEF lateReceipt, Live, Terminal
<1>5. CASE cancel(s)
  <2>1. CASE row[s].state \in Unclaimed
    BY <1>5, <2>1, FreeEndMoves DEF cancel, Unclaimed, Live, Active, Terminal
  <2>2. CASE row[s].state = "RUNNING"
    <3> DEFINE r == [row[s] EXCEPT !.state = "CANCELLING"]
    <3>1. row[s] \in Row
      BY DEF SessionsInv, SessionsTypeOK
    <3>2. /\ r \in Row /\ r.state = "CANCELLING"
          /\ r.offer = row[s].offer /\ r.charged = row[s].charged
      BY <3>1 DEF Row, Live, Active
    <3>3. row' = [row EXCEPT ![s] = r]
      BY <1>5, <2>2 DEF cancel, Unclaimed
    <3> HIDE DEF r
    <3>4. Books(s, r)
      BY <1>5, <2>2, <3>2 DEF cancel, Unclaimed, Books, ledgerVars, Live, Active
    <3> QED BY <2>2, <3>2, <3>3, <3>4, LiveMoves DEF Live, Active
  <2> QED BY <1>5, <2>1, <2>2 DEF cancel
<1> QED BY <1>1, <1>2, <1>3, <1>4, <1>5

-----------------------------------------------------------------------------
(* Receipts.                                                               *)

LEMMA SettleRouteMoves ==
  ASSUME SessionsInv, NEW s \in Session, NEW r \in Row,
         row[s].state \in Active,
         r.state = row[s].state, r.offer = row[s].offer,
         r.charged = row[s].charged, r.epochs = row[s].epochs,
         r.report # row[s].report,
         settleRoute(s, r)
  PROVE  MoveOf(s)
<1> DEFINE failed == \E n \in Stages(r.offer) : r.report[n] \notin {Pending, "COMPLETED"}
<1>1. row[s].state \in Live
  BY DEF Live
<1>2. CASE r.state = "CANCELLING" \/ failed
  <2>1. PICK state \in {"CANCELLED", "FAILED"} : finalize(s, r, state, 0, "REFUNDED")
    BY <1>2 DEF settleRoute
  <2>2. state \in Terminal /\ state # "COMPLETED" /\ "REFUNDED" \in Billing /\ 0 \in Nat
    BY DEF Terminal, Billing
  <2> QED BY <1>1, <2>1, <2>2, EndMoves
<1>3. CASE r.state # "CANCELLING" /\ ~failed /\ ~Complete(r)
  <2>1. row' = [row EXCEPT ![s] = r] /\ UNCHANGED ledgerVars
    BY <1>3 DEF settleRoute
  <2>2. Books(s, r)
    BY <1>1, <2>1 DEF Books, ledgerVars
  <2> QED BY <1>1, <2>1, <2>2, LiveMoves
<1>4. CASE r.state # "CANCELLING" /\ ~failed /\ Complete(r)
  <2>1. finalize(s, r, "COMPLETED", r.cost, Billed(r.cost)) /\ r.cost \in Nat /\ Current(s, FALSE)
    BY <1>4 DEF settleRoute, Row
  <2>2. Billed(r.cost) \in Billing /\ "COMPLETED" \in Terminal
    BY DEF Billed, Billing, Terminal
  <2>3. \A n \in Nodes(row[s].offer) : epoch[n] = row[s].epochs[n] /\ desired[n] # "REVOKED"
    BY <2>1 DEF Current
  <2> QED BY <1>1, <1>4, <2>1, <2>2, <2>3, EndMoves
<1> QED BY <1>2, <1>3, <1>4

LEMMA StageReceiptMoves ==
  ASSUME SessionsInv, NEW s \in Session, NEW n \in Node, NEW report \in Report,
         stageReceipt(s, n, report)
  PROVE  MoveOf(s)
<1> DEFINE r == [row[s] EXCEPT !.report[n] = report]
<1>1. row[s] \in Row /\ row[s].state \in Active
  BY DEF SessionsInv, SessionsTypeOK, stageReceipt, Active
<1>2. /\ r \in Row /\ r.report = [row[s].report EXCEPT ![n] = report]
      /\ r.state = row[s].state /\ r.offer = row[s].offer
      /\ r.charged = row[s].charged /\ r.epochs = row[s].epochs
  BY <1>1 DEF Row
<1>3. row[s].report \in [Node -> Report \cup {Pending}] /\ row[s].report[n] = Pending
  BY <1>1 DEF Row, stageReceipt
<1>4. settleRoute(s, r)
  BY DEF stageReceipt
<1> HIDE DEF r
<1>5. r.report # row[s].report
  BY <1>2, <1>3 DEF Report, Pending
<1> QED BY <1>1, <1>2, <1>4, <1>5, SettleRouteMoves

LEMMA ReceiptMoves ==
  ASSUME SessionsInv, NEW s \in Session, NEW report \in Report, NEW cost \in Nat,
         receipt(s, report, cost)
  PROVE  MoveOf(s)
<1> DEFINE n == Root(row[s].offer)
           r == [row[s] EXCEPT !.report[n] = report, !.cost = cost]
           bill == IF Payable(s, report) THEN cost ELSE 0
           state == IF row[s].state = "CANCELLING" THEN "CANCELLED"
                    ELSE IF report = "INVALID" THEN "FAILED" ELSE report
           billing == IF report = "INVALID" THEN "DISPUTED" ELSE Billed(bill)
<1>1. row[s] \in Row /\ Consistent(row[s]) /\ row[s].state \in {"RUNNING", "CANCELLING"}
  BY DEF SessionsInv, SessionsTypeOK, RowsConsistent, receipt
<1>2. row[s].state \in Active /\ row[s].state \in Live /\ row[s].offer \in Offer
  BY <1>1 DEF Consistent, Active, Live
<1>3. n \in Node
  BY <1>2, OfferNodes
<1>4. /\ r \in Row /\ r.report = [row[s].report EXCEPT ![n] = report]
      /\ r.state = row[s].state /\ r.offer = row[s].offer
      /\ r.charged = row[s].charged /\ r.epochs = row[s].epochs
  BY <1>1, <1>3 DEF Row
<1>5. row[s].report \in [Node -> Report \cup {Pending}] /\ row[s].report[n] = Pending
  BY <1>1 DEF Row, receipt
<1>6. /\ epoch[n] = row[s].epochs[n] /\ desired[n] # "REVOKED"
      /\ IF Routed(s) /\ Payable(s, report) THEN settleRoute(s, r)
         ELSE finalize(s, r, state, bill, billing)
  BY DEF receipt
<1> HIDE DEF r
<1>7. r.report # row[s].report
  BY <1>3, <1>4, <1>5 DEF Report, Pending
<1>8. CASE Routed(s) /\ Payable(s, report)
  BY <1>2, <1>4, <1>6, <1>7, <1>8, SettleRouteMoves
<1>9. CASE ~(Routed(s) /\ Payable(s, report))
  <2>1. finalize(s, r, state, bill, billing)
    BY <1>6, <1>9
  <2>2. state \in Terminal /\ bill \in Nat /\ billing \in Billing
    BY DEF Terminal, Billing, Billed, Report
  <2>3. row[s].state = "CANCELLING" => bill = 0
    BY DEF Payable
  <2>4. ASSUME state = "COMPLETED"
        PROVE  \A m \in Nodes(row[s].offer) : epoch[m] = row[s].epochs[m] /\ desired[m] # "REVOKED"
    <3>1. ~Routed(s)
      BY <1>9, <2>4 DEF Payable
    <3>2. Nodes(row[s].offer) = {n}
      BY <1>2, <3>1, OfferNodes DEF Routed, IsRoute
    <3> QED BY <1>6, <3>2
  <2> HIDE DEF state, bill, billing, n
  <2> QED BY <1>2, <1>4, <1>7, <2>1, <2>2, <2>3, <2>4, EndMoves
<1> QED BY <1>8, <1>9

-----------------------------------------------------------------------------
(* The steps, and what follows.                                            *)

LEMMA StepMoves ==
  ASSUME SessionsInv, [Next]_vars
  PROVE  (row' = row /\ balance' = balance) \/ \E s \in Session : MoveOf(s)
<1>1. CASE UNCHANGED vars
  BY <1>1 DEF vars
<1>2. CASE FleetStep
  BY <1>2 DEF FleetStep, ledgerVars, sessionVars
<1>10. CASE \E o \in Movable : Relist(o)
  BY <1>10 DEF Relist, ledgerVars, sessionVars
<1>3. ASSUME NEW s \in Session, Expire(s) PROVE row' = row /\ balance' = balance
  BY <1>3 DEF Expire, ledgerVars
<1>4. ASSUME NEW s \in Session,
             \/ create(s) \/ authorize(s) \/ claim(s)
             \/ \E n \in Node : stageClaim(s, n)
      PROVE  MoveOf(s)
  BY <1>4, WriteMoves
<1>5. ASSUME NEW s \in Session,
             \/ admitLate(s) \/ cancel(s) \/ fail(s) \/ reap(s)
             \/ \E n \in Node : lateReceipt(s, n)
      PROVE  MoveOf(s)
  BY <1>5, StopMoves
<1>6. ASSUME NEW s \in Session, NEW o \in Offer, admit(s, o) PROVE MoveOf(s)
  BY <1>6, AdmitMoves
<1>7. Charge \subseteq Nat /\ Reports \subseteq Report /\ "COMPLETED" \in Report
  BY SessionsAssumption DEF Report
<1>8. ASSUME NEW s \in Session,
             \/ \E cost \in Charge : receipt(s, "COMPLETED", cost)
             \/ \E report \in Reports : receipt(s, report, 0)
      PROVE  MoveOf(s)
  BY <1>7, <1>8, ReceiptMoves
<1>9. ASSUME NEW s \in Session, NEW n \in Node, NEW report \in Reports \cup {"COMPLETED"},
             stageReceipt(s, n, report)
      PROVE  MoveOf(s)
  BY <1>7, <1>9, StageReceiptMoves
<1> QED BY <1>1, <1>2, <1>3, <1>4, <1>5, <1>6, <1>8, <1>9, <1>10 DEF Next

\* No later receipt, cancellation, failure or reaper run touches an ended session.
THEOREM FinalEnd == Spec => EndIsFinal
<1> DEFINE A == \A s \in Session : row[s].state \in Terminal => row'[s] = row[s]
<1>1. ASSUME SessionsInv, [Next]_vars PROVE [A]_vars
  <2> SUFFICES ASSUME NEW s \in Session, row[s].state \in Terminal PROVE row'[s] = row[s]
    OBVIOUS
  <2>1. ASSUME NEW t \in Session, MoveOf(t) PROVE row'[s] = row[s]
    <3>1. t # s
      BY <2>1 DEF MoveOf, Moves, Terminal, Live, Active
    <3> QED BY <2>1, <3>1 DEF MoveOf, SessionsInv, SessionsTypeOK
  <2> QED BY <1>1, <2>1, StepMoves
<1> QED BY <1>1, Invariance, PTL DEF Spec, EndIsFinal

\* A session completes only for the processes that were admitted.
THEOREM OneEpoch == Spec => CompletedUnderOneEpoch
<1> DEFINE A == \A s \in Session :
                  row[s].state # "COMPLETED" /\ row'[s].state = "COMPLETED" =>
                    \A n \in Nodes(row[s].offer) :
                      epoch[n] = row[s].epochs[n] /\ desired[n] # "REVOKED"
<1>1. ASSUME SessionsInv, [Next]_vars PROVE [A]_vars
  <2> SUFFICES ASSUME NEW s \in Session,
                      row[s].state # "COMPLETED", row'[s].state = "COMPLETED"
               PROVE  \A n \in Nodes(row[s].offer) :
                        epoch[n] = row[s].epochs[n] /\ desired[n] # "REVOKED"
    OBVIOUS
  <2>1. ASSUME NEW t \in Session, MoveOf(t)
        PROVE  \A n \in Nodes(row[s].offer) :
                 epoch[n] = row[s].epochs[n] /\ desired[n] # "REVOKED"
    <3>1. PICK r \in Row : row' = [row EXCEPT ![t] = r] /\ Moves(t, r)
      BY <2>1 DEF MoveOf
    <3>2. t = s /\ row'[s] = r
      BY <1>1, <3>1 DEF SessionsInv, SessionsTypeOK
    <3> QED BY <3>1, <3>2 DEF Moves
  <2> QED BY <1>1, <2>1, StepMoves
<1> QED BY <1>1, Invariance, PTL DEF Spec, CompletedUnderOneEpoch

\* An execution that a node has claimed is not ended by the gateway's opinion.
THEOREM ClaimedByEvidence == Spec => ClaimedEndsByEvidence
<1> DEFINE A == \A s \in Session :
                  row[s].state \in {"RUNNING", "CANCELLING"} /\ row'[s].state \in Terminal =>
                    row'[s].report # row[s].report \/ s \in overdue \/ Fenced(s)
<1>1. ASSUME SessionsInv, [Next]_vars PROVE [A]_vars
  <2> SUFFICES ASSUME NEW s \in Session,
                      row[s].state \in {"RUNNING", "CANCELLING"}, row'[s].state \in Terminal
               PROVE  row'[s].report # row[s].report \/ s \in overdue \/ Fenced(s)
    OBVIOUS
  <2>1. ASSUME NEW t \in Session, MoveOf(t)
        PROVE  row'[s].report # row[s].report \/ s \in overdue \/ Fenced(s)
    <3>1. PICK r \in Row : row' = [row EXCEPT ![t] = r] /\ Moves(t, r)
      BY <2>1 DEF MoveOf
    <3>2. t = s /\ row'[s] = r
      BY <1>1, <3>1 DEF SessionsInv, SessionsTypeOK, Terminal
    <3> QED BY <3>1, <3>2 DEF Moves
  <2> QED BY <1>1, <2>1, StepMoves DEF Terminal
<1> QED BY <1>1, Invariance, PTL DEF Spec, ClaimedEndsByEvidence

\* A request whose cancellation was accepted while it ran is never charged.
THEOREM CancelledFree == Spec => CancelledIsFree
<1> DEFINE A == \A s \in Session : row[s].state = "CANCELLING" => row'[s].charged = 0
<1>1. ASSUME SessionsInv, [Next]_vars PROVE [A]_vars
  <2> SUFFICES ASSUME NEW s \in Session, row[s].state = "CANCELLING" PROVE row'[s].charged = 0
    OBVIOUS
  <2>1. row[s].charged = 0
    BY <1>1 DEF SessionsInv, RowsConsistent, Consistent, Live, Active
  <2>2. ASSUME NEW t \in Session, MoveOf(t) PROVE row'[s].charged = 0
    <3>1. PICK r \in Row : row' = [row EXCEPT ![t] = r] /\ Moves(t, r)
      BY <2>2 DEF MoveOf
    <3>2. CASE t = s
      BY <1>1, <3>1, <3>2 DEF Moves, SessionsInv, SessionsTypeOK
    <3>3. CASE t # s
      BY <1>1, <2>1, <3>1, <3>3 DEF SessionsInv, SessionsTypeOK
    <3> QED BY <3>2, <3>3
  <2> QED BY <1>1, <2>1, <2>2, StepMoves
<1> QED BY <1>1, Invariance, PTL DEF Spec, CancelledIsFree

\* A session ends once and for all, by evidence, and for nothing when cancelled.
THEOREM EndsEarned == Spec => EndsByEvidence
  BY FinalEnd, ClaimedByEvidence, CancelledFree, PTL DEF EndsByEvidence

\* However routes and single nodes overlap, no domain serves more sessions than
\* it has slots.
THEOREM SlotsBound == Spec => []SlotsRespected
<1>1. Init => SlotsRespected
  <2> SUFFICES ASSUME Init, NEW d \in Domain PROVE Cardinality(Occupants(d)) <= Slots[d]
    BY DEF SlotsRespected
  <2>1. Occupants(d) = {}
    BY DEF Init, Occupants, NewRow, Active
  <2> QED BY <2>1, SessionsAssumption, FS_EmptySet
<1>2. ASSUME SessionsInv, SlotsRespected, [Next]_vars PROVE SlotsRespected'
  <2> SUFFICES ASSUME NEW d \in Domain PROVE Cardinality(Occupants(d)') <= Slots[d]
    BY DEF SlotsRespected
  <2>1. /\ IsFiniteSet(Occupants(d)) /\ Cardinality(Occupants(d)) \in Nat
        /\ Cardinality(Occupants(d)) <= Slots[d] /\ Slots[d] \in Nat
    <3>1. IsFiniteSet(Occupants(d))
      BY SessionsAssumption, FS_Subset DEF Occupants
    <3> QED BY <1>2, <3>1, SessionsAssumption, FS_CardinalityType DEF SlotsRespected
  <2>2. CASE row' = row
    <3>1. Occupants(d)' = Occupants(d)
      BY <2>2 DEF Occupants
    <3> QED BY <2>1, <3>1
  <2>3. ASSUME NEW s \in Session, MoveOf(s) PROVE Cardinality(Occupants(d)') <= Slots[d]
    <3>1. PICK r \in Row : row' = [row EXCEPT ![s] = r] /\ Moves(s, r)
      BY <2>3 DEF MoveOf
    <3>2. row'[s] = r /\ \A t \in Session \ {s} : row'[t] = row[t]
      BY <1>2, <3>1 DEF SessionsInv, SessionsTypeOK
    <3>3. CASE s \in Occupants(d) \/ s \notin Occupants(d)'
      <4>1. Occupants(d)' \subseteq Occupants(d)
        BY <3>2, <3>3 DEF Occupants
      <4>2. Cardinality(Occupants(d)') <= Cardinality(Occupants(d))
        BY <2>1, <4>1, FS_Subset
      <4>3. Cardinality(Occupants(d)') \in Nat
        BY <2>1, <4>1, FS_Subset, FS_CardinalityType
      <4> QED BY <2>1, <4>2, <4>3
    <3>4. CASE s \notin Occupants(d) /\ s \in Occupants(d)'
      <4>1. r.state \in Active /\ d \in Domains(r.offer)
        BY <3>2, <3>4 DEF Occupants
      <4>2. row[s].state \notin Active
        BY <3>1, <3>4, <4>1 DEF Occupants, Moves
      <4>3. HasRoom(r.offer)
        BY <3>1, <4>1, <4>2 DEF Moves
      <4>4. Cardinality(Occupants(d)) < Slots[d]
        BY <4>1, <4>3 DEF HasRoom
      <4>5. Occupants(d)' = Occupants(d) \cup {s}
        BY <3>2, <3>4 DEF Occupants
      <4>6. Cardinality(Occupants(d)') = Cardinality(Occupants(d)) + 1
        BY <2>1, <3>4, <4>5, FS_AddElement
      <4> QED BY <2>1, <4>4, <4>6
    <3> QED BY <3>3, <3>4
  <2> QED BY <1>2, <2>2, <2>3, StepMoves
<1> QED BY <1>1, <1>2, Invariance, PTL DEF Spec

-----------------------------------------------------------------------------
(* The order of admission.                                                 *)

\* A step admits only the session that is first among all that could run.
LEMMA AdmittedIsForemost ==
  ASSUME SessionsInv, [Next]_vars, NEW s \in Session, Queued(s), row'[s].state = "PREPARING"
  PROVE  Foremost(s)
<1>1. row[s].state = "QUEUED"
  BY DEF Queued
<1>2. ASSUME NEW t \in Session, MoveOf(t) PROVE Foremost(s)
  <2>1. PICK r \in Row : row' = [row EXCEPT ![t] = r] /\ Moves(t, r)
    BY <1>2 DEF MoveOf
  <2>2. t = s /\ row'[s] = r
    BY <1>1, <2>1 DEF SessionsInv, SessionsTypeOK
  <2> QED BY <1>1, <2>1, <2>2 DEF Moves, Active
<1> QED BY <1>1, <1>2, StepMoves

\* Within an account the oldest waiting request is admitted first.
THEOREM Fifo == Spec => FifoWithinAccount
<1> DEFINE A == \A s, t \in Session :
                  /\ Requester[s] = Requester[t]
                  /\ Queued(s) /\ Queued(t) /\ created[t] < created[s]
                  => row'[s].state # "PREPARING"
<1>1. ASSUME SessionsInv, [Next]_vars PROVE [A]_vars
  <2> SUFFICES ASSUME NEW s \in Session, NEW t \in Session,
                      Requester[s] = Requester[t], Queued(s), Queued(t),
                      created[t] < created[s], row'[s].state = "PREPARING"
               PROVE  FALSE
    OBVIOUS
  <2>1. Foremost(s)
    BY <1>1, AdmittedIsForemost
  <2>2. created[s] \in Nat /\ created[t] \in Nat /\ served[Requester[s]] \in Nat
    BY <1>1, SessionsAssumption DEF SessionsInv, SessionsTypeOK
  <2>3. t # s /\ Executable(t)
    BY <2>1, <2>2 DEF Foremost, Executable
  <2>4. Earlier(s, t)
    BY <2>1, <2>3 DEF Foremost
  <2> QED BY <2>2, <2>4 DEF Earlier
<1> QED BY <1>1, Invariance, PTL DEF Spec, FifoWithinAccount

\* The account served last waits for the others that wait.
THEOREM Turns == Spec => AccountsTakeTurns
<1> DEFINE A == \A s, t \in Session :
                  /\ Queued(s) /\ Queued(t) /\ Requester[s] # Requester[t]
                  /\ \A u \in User \ {Requester[s]} : served[u] < served[Requester[s]]
                  => row'[s].state # "PREPARING"
<1>1. ASSUME SessionsInv, [Next]_vars PROVE [A]_vars
  <2> SUFFICES ASSUME NEW s \in Session, NEW t \in Session,
                      Requester[s] # Requester[t], Queued(s), Queued(t),
                      \A u \in User \ {Requester[s]} : served[u] < served[Requester[s]],
                      row'[s].state = "PREPARING"
               PROVE  FALSE
    OBVIOUS
  <2>1. Foremost(s)
    BY <1>1, AdmittedIsForemost
  <2>2. served[Requester[t]] < served[Requester[s]]
    BY SessionsAssumption
  <2>3. served[Requester[s]] \in Nat /\ served[Requester[t]] \in Nat
    BY <1>1, SessionsAssumption DEF SessionsInv, SessionsTypeOK
  <2>4. Earlier(s, t)
    BY <2>1 DEF Foremost, Executable
  <2> QED BY <2>2, <2>3, <2>4 DEF Earlier
<1> QED BY <1>1, Invariance, PTL DEF Spec, AccountsTakeTurns

\* Admission is in turn, between the accounts and within each.
THEOREM InTurn == Spec => AdmissionInTurn
  BY Fifo, Turns, PTL DEF AdmissionInTurn

-----------------------------------------------------------------------------
(* The books.                                                              *)

\* What the first shares of an offer come to, and so every part of a charge, is an
\* integer (splitByBps).
LEMMA PartsAreIntegers ==
  ASSUME NEW o \in Offer, NEW rest \in Int
  PROVE  /\ DOMAIN splitByBps(rest, Shares[o]) = DOMAIN Members[o]
         /\ IsFiniteSet(DOMAIN Members[o])
         /\ \A i \in DOMAIN Members[o] : splitByBps(rest, Shares[o])[i] \in Int
<1>1. Shares[o] \in Seq(1..Bps) /\ DOMAIN Shares[o] = DOMAIN Members[o]
  BY OffersAssumption DEF Offer, Bps
<1> QED BY <1>1, PartsOfSplit

LEMMA EarnedType ==
  ASSUME NEW s \in Session, NEW u \in User, NEW bill \in Nat,
         bill > 0 => row[s].offer \in Offer
  PROVE  Earned(s, bill, u) \in Int
<1>1. CASE bill = 0
  BY <1>1 DEF Earned
<1>2. CASE bill # 0
  <2> DEFINE o == row[s].offer
             f == splitByBps(bill - feeOf(bill), Shares[o])
             mine == {i \in DOMAIN Members[o] : Owner[Members[o][i]] = u}
  <2>1. o \in Offer /\ bill - feeOf(bill) \in Int
    BY <1>2 DEF feeOf, Bps
  <2>2. \A i \in DOMAIN Members[o] : f[i] \in Int
    BY <2>1, PartsAreIntegers
  <2>3. IsFiniteSet(DOMAIN Members[o])
    BY <2>1, PartsAreIntegers
  <2>4. mine \subseteq DOMAIN Members[o]
    OBVIOUS
  <2>5. Earned(s, bill, u) = SumFunctionOnSet(f, mine)
    BY <1>2 DEF Earned
  <2> HIDE DEF f, mine, o
  <2>6. IsFiniteSet(mine)
    BY <2>3, <2>4, FS_Subset
  <2>7. SumFunctionOnSet(f, mine) \in Int
    BY <2>2, <2>4, <2>6, SumType
  <2> QED BY <2>5, <2>7
<1> QED BY <1>1, <1>2

\* What each session has in the books of account u: a hold, an expense, an income.
HoldOf(s) == IF row[s].state \in Live THEN Hold[s] ELSE 0
Reserved(u) == [s \in Session |-> IF Requester[s] = u THEN HoldOf(s) ELSE 0]
Spent(u) ==
  [s \in Session |-> IF Requester[s] = u THEN HoldOf(s) + row[s].charged ELSE 0]
Income(u) == [s \in Session |-> Earned(s, row[s].charged, u)]

BookOf(u) ==
  /\ balance[Held(u)] = SumFunctionOnSet(Reserved(u), Session)
  /\ balance[Available(u)] = Opening[u] - SumFunctionOnSet(Spent(u), Session)
                               + SumFunctionOnSet(Income(u), Session)

LEMMA BookTypes ==
  ASSUME SessionsInv, NEW u \in User
  PROVE  /\ \A s \in Session : /\ Reserved(u)[s] \in Int /\ Spent(u)[s] \in Int
                               /\ Income(u)[s] \in Int
                               /\ HoldOf(s) \in Int /\ row[s].charged \in Nat
                               /\ row[s].charged > 0 => row[s].offer \in Offer
         /\ SumFunctionOnSet(Reserved(u), Session) \in Int
         /\ SumFunctionOnSet(Spent(u), Session) \in Int
         /\ SumFunctionOnSet(Income(u), Session) \in Int
         /\ IsFiniteSet(Session)
<1>1. ASSUME NEW s \in Session
      PROVE  /\ HoldOf(s) \in Int /\ row[s].charged \in Nat
             /\ row[s].charged > 0 => row[s].offer \in Offer
             /\ Earned(s, row[s].charged, u) \in Int
  <2>1. row[s] \in Row /\ Consistent(row[s])
    BY DEF SessionsInv, SessionsTypeOK, RowsConsistent
  <2>2. row[s].charged \in Nat /\ (row[s].charged > 0 => row[s].offer \in Offer)
    BY <2>1 DEF Row, Consistent
  <2>3. HoldOf(s) \in Int
    BY SessionsAssumption, LedgerAssumption DEF HoldOf
  <2> QED BY <2>2, <2>3, EarnedType
<1>2. \A s \in Session : /\ Reserved(u)[s] \in Int /\ Spent(u)[s] \in Int
                         /\ Income(u)[s] \in Int
  BY <1>1 DEF Reserved, Spent, Income
<1>3. IsFiniteSet(Session)
  BY SessionsAssumption
<1> QED BY <1>1, <1>2, <1>3, SumType

Rows == \A u \in User, s \in Session :
          Reserved(u)[s] \in Int /\ Spent(u)[s] \in Int /\ Income(u)[s] \in Int

LEMMA BookTypesNext == SessionsInv' => Rows'
<1>1. SessionsInv => Rows
  BY BookTypes DEF Rows
<1> QED BY <1>1, PTL

LEMMA BookIs ==
  ASSUME SessionsInv
  PROVE  BooksMatchSessions <=> \A u \in User : BookOf(u)
<1> SUFFICES ASSUME NEW u \in User
    PROVE  LET mine == {s \in Session : Requester[s] = u /\ row[s].state # "NEW"}
               unfinished(s) == IF row[s].state \in Live THEN Hold[s] ELSE 0
           IN  /\ Sum(mine, unfinished) = SumFunctionOnSet(Reserved(u), Session)
               /\ Sum(mine, LAMBDA s : unfinished(s) + row[s].charged)
                    = SumFunctionOnSet(Spent(u), Session)
               /\ Sum({s \in Session : row[s].charged > 0},
                      LAMBDA s : Earned(s, row[s].charged, u))
                    = SumFunctionOnSet(Income(u), Session)
  BY DEF BooksMatchSessions, BookOf
<1> DEFINE mine == {s \in Session : Requester[s] = u /\ row[s].state # "NEW"}
           paying == {s \in Session : row[s].charged > 0}
           f == [s \in mine |-> IF row[s].state \in Live THEN Hold[s] ELSE 0]
           g == [s \in mine |-> (IF row[s].state \in Live THEN Hold[s] ELSE 0) + row[s].charged]
           h == [s \in paying |-> Earned(s, row[s].charged, u)]
<1>1. \A s \in Session : Consistent(row[s])
  BY DEF SessionsInv, RowsConsistent
<1>2. \A s \in Session : /\ Reserved(u)[s] \in Int /\ Spent(u)[s] \in Int
                         /\ Income(u)[s] \in Int
                         /\ HoldOf(s) \in Int /\ row[s].charged \in Nat
  BY BookTypes
<1>3. mine \in SUBSET Session /\ paying \in SUBSET Session /\ IsFiniteSet(Session)
  BY SessionsAssumption
<1>4. SumFunctionOnSet(f, mine) = SumFunctionOnSet(Reserved(u), Session)
  <2>1. \A s \in mine : f[s] = Reserved(u)[s]
    BY DEF Reserved, HoldOf
  <2>2. \A s \in Session \ mine : Reserved(u)[s] = 0
    BY DEF Reserved, HoldOf, Live, Active
  <2> HIDE DEF f, mine
  <2> QED BY <1>2, <1>3, <2>1, <2>2, SumPart
<1>5. SumFunctionOnSet(g, mine) = SumFunctionOnSet(Spent(u), Session)
  <2>1. \A s \in mine : g[s] = Spent(u)[s]
    BY DEF Spent, HoldOf
  <2>2. \A s \in Session \ mine : Spent(u)[s] = 0
    BY <1>1 DEF Spent, HoldOf, Live, Active, Consistent
  <2> HIDE DEF g, mine
  <2> QED BY <1>2, <1>3, <2>1, <2>2, SumPart
<1>6. SumFunctionOnSet(h, paying) = SumFunctionOnSet(Income(u), Session)
  <2>1. \A s \in paying : h[s] = Income(u)[s]
    BY DEF Income
  <2>2. \A s \in Session \ paying : row[s].charged = 0
    BY <1>2
  <2>3. \A s \in Session \ paying : Income(u)[s] = 0
    BY <2>2 DEF Income, Earned
  <2> HIDE DEF h, paying
  <2> QED BY <1>2, <1>3, <2>1, <2>3, SumPart
<1> QED BY <1>4, <1>5, <1>6 DEF Sum

LEMMA InitBook ==
  ASSUME Init, NEW u \in User
  PROVE  BookOf(u)
<1>1. \A s \in Session : Reserved(u)[s] = 0 /\ Spent(u)[s] = 0 /\ Income(u)[s] = 0
  BY DEF Init, NewRow, Reserved, Spent, Income, HoldOf, Earned, Live, Active
<1>2. IsFiniteSet(Session)
  BY SessionsAssumption
<1>3. /\ SumFunctionOnSet(Reserved(u), Session) = 0
      /\ SumFunctionOnSet(Spent(u), Session) = 0
      /\ SumFunctionOnSet(Income(u), Session) = 0
  BY <1>1, <1>2, SumZero
<1>4. balance[Held(u)] = 0
  BY DEF Init, Account, Held, Available, LabIssuer
<1>5. balance[Available(u)] = Opening[u] /\ Opening[u] \in Nat
  BY SessionsAssumption DEF Init, Account, Available
<1> QED BY <1>3, <1>4, <1>5 DEF BookOf

\* The lines of a reservation and of a settlement, in the accounts of one user.
LEMMA LinesOf ==
  ASSUME NEW s \in Session, NEW u \in User, NEW bill \in Nat
  PROVE  /\ HoldLines(s)[Held(u)] = IF Requester[s] = u THEN Hold[s] ELSE 0
         /\ HoldLines(s)[Available(u)] = IF Requester[s] = u THEN 0 - Hold[s] ELSE 0
         /\ SettlementLines(s, bill)[Held(u)] =
              IF Requester[s] = u THEN 0 - Hold[s] ELSE 0
         /\ SettlementLines(s, bill)[Available(u)] =
              Earned(s, bill, u) + (IF Requester[s] = u THEN Hold[s] - bill ELSE 0)
<1>1. /\ Held(u) \in Account /\ Available(u) \in Account /\ Requester[s] \in User
      /\ Held(Requester[s]) \in Account /\ Available(Requester[s]) \in Account
  BY SessionsAssumption DEF Account
<1>2. /\ \A v \in User : Held(u) # Available(v)
      /\ \A v \in User : Held(u) = Held(v) <=> u = v
      /\ \A v \in User : Available(u) = Available(v) <=> u = v
      /\ \A v \in User : Available(u) # Held(v)
      /\ Held(u) # LabWorking /\ Available(u) # LabWorking
      /\ Available(u)[2] = u
  BY DEF Held, Available, LabWorking
<1>3. /\ HoldLines(s)[Held(u)] = IF Requester[s] = u THEN Hold[s] ELSE 0
      /\ HoldLines(s)[Available(u)] = IF Requester[s] = u THEN 0 - Hold[s] ELSE 0
  BY <1>1, <1>2 DEF HoldLines, NoLines
<1>4. SettlementLines(s, bill)[Held(u)] = IF Requester[s] = u THEN 0 - Hold[s] ELSE 0
  BY <1>1, <1>2 DEF SettlementLines
<1>5. SettlementLines(s, bill)[Available(u)] =
              Earned(s, bill, u) + (IF Requester[s] = u THEN Hold[s] - bill ELSE 0)
  BY <1>1, <1>2 DEF SettlementLines
<1> QED BY <1>3, <1>4, <1>5

\* A reservation raises the held balance by what it takes from the available one; a
\* settlement closes the hold and pays the charge to those it belongs to.
LEMMA MoveBook ==
  ASSUME SessionsInv, SessionsInv', NEW u \in User, BookOf(u), NEW s \in Session, MoveOf(s)
  PROVE  BookOf(u)'
<1>1. PICK r \in Row : row' = [row EXCEPT ![s] = r] /\ Books(s, r)
  BY DEF MoveOf
<1>2. row'[s] = r /\ \A t \in Session \ {s} : row'[t] = row[t]
  BY <1>1 DEF SessionsInv, SessionsTypeOK
<1> DEFINE a == Reserved(u)
           b == Spent(u)
           c == Income(u)
<1>3. /\ \A t \in Session : /\ a[t] \in Int /\ b[t] \in Int /\ c[t] \in Int
                            /\ a'[t] \in Int /\ b'[t] \in Int /\ c'[t] \in Int
      /\ SumFunctionOnSet(a, Session) \in Int
      /\ SumFunctionOnSet(b, Session) \in Int
      /\ SumFunctionOnSet(c, Session) \in Int
      /\ IsFiniteSet(Session)
  <2>1. /\ \A t \in Session : a[t] \in Int /\ b[t] \in Int /\ c[t] \in Int
        /\ SumFunctionOnSet(a, Session) \in Int
        /\ SumFunctionOnSet(b, Session) \in Int
        /\ SumFunctionOnSet(c, Session) \in Int
        /\ IsFiniteSet(Session)
    BY BookTypes
  <2>2. \A t \in Session : a'[t] \in Int /\ b'[t] \in Int /\ c'[t] \in Int
    BY BookTypesNext DEF Rows
  <2> QED BY <2>1, <2>2
<1>4. \A t \in Session \ {s} : a'[t] = a[t] /\ b'[t] = b[t] /\ c'[t] = c[t]
  BY <1>2 DEF Reserved, Spent, Income, HoldOf, Earned
<1>5. /\ SumFunctionOnSet(a', Session) = SumFunctionOnSet(a, Session) - a[s] + a'[s]
      /\ SumFunctionOnSet(b', Session) = SumFunctionOnSet(b, Session) - b[s] + b'[s]
      /\ SumFunctionOnSet(c', Session) = SumFunctionOnSet(c, Session) - c[s] + c'[s]
  <2> HIDE DEF a, b, c
  <2>1. SumFunctionOnSet(a', Session) = SumFunctionOnSet(a, Session) - a[s] + a'[s]
    BY <1>3, <1>4, SumChange
  <2>2. SumFunctionOnSet(b', Session) = SumFunctionOnSet(b, Session) - b[s] + b'[s]
    BY <1>3, <1>4, SumChange
  <2>3. SumFunctionOnSet(c', Session) = SumFunctionOnSet(c, Session) - c[s] + c'[s]
    BY <1>3, <1>4, SumChange
  <2> QED BY <2>1, <2>2, <2>3
<1>6. /\ a[s] = IF Requester[s] = u THEN HoldOf(s) ELSE 0
      /\ b[s] = IF Requester[s] = u THEN HoldOf(s) + row[s].charged ELSE 0
      /\ c[s] = Earned(s, row[s].charged, u)
      /\ a'[s] = IF Requester[s] = u THEN (IF r.state \in Live THEN Hold[s] ELSE 0) ELSE 0
      /\ b'[s] = IF Requester[s] = u
                 THEN (IF r.state \in Live THEN Hold[s] ELSE 0) + r.charged ELSE 0
      /\ c'[s] = Earned(s, r.charged, u)'
      /\ HoldOf(s) = IF row[s].state \in Live THEN Hold[s] ELSE 0
  BY <1>2 DEF Reserved, Spent, Income, HoldOf
<1>7. /\ row[s].state \in {"NEW"} \cup Live => row[s].charged = 0
      /\ r.state \in Live => r.charged = 0
      /\ row[s].charged \in Nat /\ r.charged \in Nat /\ Hold[s] \in Nat
  <2>1. Consistent(row[s]) /\ Consistent(row'[s]) /\ row[s] \in Row
    BY DEF SessionsInv, RowsConsistent, SessionsTypeOK
  <2> QED BY <1>2, <2>1, SessionsAssumption, LedgerAssumption DEF Consistent, Row
<1>8. /\ Held(u) \in Account /\ Available(u) \in Account
      /\ balance[Held(u)] \in Int /\ balance[Available(u)] \in Int /\ Opening[u] \in Int
  BY SessionsAssumption DEF Account, SessionsInv, SessionsTypeOK, LedgerTypeOK
<1>9. /\ balance[Held(u)] = SumFunctionOnSet(a, Session)
      /\ balance[Available(u)] = Opening[u] - SumFunctionOnSet(b, Session)
                                   + SumFunctionOnSet(c, Session)
  BY DEF BookOf
<1>10. /\ balance'[Held(u)] = balance[Held(u)] - a[s] + a'[s]
       /\ balance'[Available(u)] = balance[Available(u)] + b[s] - b'[s] - c[s] + c'[s]
  <2> HIDE DEF a, b, c
  <2>1. CASE row[s].state = "NEW" /\ r.state \in Live /\ Entered(s, HoldLines(s))
    <3>1. /\ row[s].charged = 0 /\ r.charged = 0 /\ HoldOf(s) = 0
          /\ c[s] = 0 /\ c'[s] = 0
      BY <1>6, <1>7, <2>1 DEF Earned, Live, Active
    <3>2. CASE Hold[s] > 0
      <4>1. /\ balance'[Held(u)] = balance[Held(u)] + HoldLines(s)[Held(u)]
            /\ balance'[Available(u)] = balance[Available(u)] + HoldLines(s)[Available(u)]
        BY <1>8, <2>1, <3>2 DEF Entered
      <4>2. /\ HoldLines(s)[Held(u)] = IF Requester[s] = u THEN Hold[s] ELSE 0
            /\ HoldLines(s)[Available(u)] = IF Requester[s] = u THEN 0 - Hold[s] ELSE 0
        BY LinesOf
      <4>3. CASE Requester[s] = u
        BY <1>6, <1>7, <1>8, <2>1, <3>1, <4>1, <4>2, <4>3
      <4>4. CASE Requester[s] # u
        BY <1>6, <1>8, <3>1, <4>1, <4>2, <4>4
      <4> QED BY <4>3, <4>4
    <3>3. CASE ~(Hold[s] > 0)
      <4>1. balance' = balance /\ Hold[s] = 0
        BY <1>7, <2>1, <3>3 DEF Entered
      <4> QED BY <1>6, <1>8, <2>1, <3>1, <4>1
    <3> QED BY <3>2, <3>3
  <2>2. CASE row[s].state \in Live /\ r.state \in Live /\ balance' = balance
    <3>1. /\ row[s].charged = 0 /\ r.charged = 0 /\ HoldOf(s) = Hold[s]
          /\ c[s] = 0 /\ c'[s] = 0
      BY <1>6, <1>7, <2>2 DEF Earned
    <3> QED BY <1>6, <1>7, <1>8, <2>2, <3>1
  <2>3. CASE /\ row[s].state \in Live /\ r.state \in Terminal
             /\ r.charged <= Hold[s] /\ r.offer = row[s].offer
             /\ Entered(s, SettlementLines(s, r.charged))
    <3>1. /\ row[s].charged = 0 /\ HoldOf(s) = Hold[s] /\ c[s] = 0 /\ r.state \notin Live
      BY <1>6, <1>7, <2>3 DEF Earned, Live, Active, Terminal
    <3>2. c'[s] = Earned(s, r.charged, u)
      BY <1>2, <1>6, <2>3 DEF Earned
    <3>3. CASE Hold[s] > 0
      <4>1. /\ balance'[Held(u)] = balance[Held(u)] + SettlementLines(s, r.charged)[Held(u)]
            /\ balance'[Available(u)] =
                 balance[Available(u)] + SettlementLines(s, r.charged)[Available(u)]
        BY <1>8, <2>3, <3>3 DEF Entered
      <4>2. /\ SettlementLines(s, r.charged)[Held(u)] =
                 IF Requester[s] = u THEN 0 - Hold[s] ELSE 0
            /\ SettlementLines(s, r.charged)[Available(u)] =
                 c'[s] + (IF Requester[s] = u THEN Hold[s] - r.charged ELSE 0)
        BY <1>7, <3>2, LinesOf
      <4> QED BY <1>3, <1>6, <1>7, <1>8, <3>1, <4>1, <4>2
    <3>4. CASE ~(Hold[s] > 0)
      <4>1. balance' = balance /\ Hold[s] = 0 /\ r.charged = 0
        BY <1>7, <2>3, <3>4 DEF Entered
      <4>2. c'[s] = 0
        BY <3>2, <4>1 DEF Earned
      <4> QED BY <1>6, <1>8, <3>1, <4>1, <4>2
    <3> QED BY <3>3, <3>4
  <2> QED BY <1>1, <2>1, <2>2, <2>3 DEF Books
<1>11. /\ balance'[Held(u)] = SumFunctionOnSet(a', Session)
       /\ balance'[Available(u)] = Opening[u] - SumFunctionOnSet(b', Session)
                                     + SumFunctionOnSet(c', Session)
  <2> HIDE DEF a, b, c
  <2> QED BY <1>3, <1>5, <1>8, <1>9, <1>10
<1> QED BY <1>11 DEF BookOf

\* Holds, charges and earnings of all sessions account for every balance, whatever
\* handlers ran and in whatever order.
THEOREM BooksMatch == Spec => []BooksMatchSessions
<1> DEFINE B == \A u \in User : BookOf(u)
<1>1. Init => B
  BY InitBook
<1>2. ASSUME SessionsInv, SessionsInv', B, [Next]_vars PROVE B'
  <2>1. CASE row' = row /\ balance' = balance
    BY <1>2, <2>1 DEF BookOf, Reserved, Spent, Income, HoldOf, Earned
  <2>2. ASSUME NEW s \in Session, MoveOf(s) PROVE B'
    <3> SUFFICES ASSUME NEW u \in User PROVE BookOf(u)'
      OBVIOUS
    <3> QED BY <1>2, <2>2, MoveBook
  <2> QED BY <1>2, <2>1, <2>2, StepMoves
<1>3. SessionsInv /\ B => BooksMatchSessions
  BY BookIs
<1> HIDE DEF B
<1> QED BY <1>1, <1>2, <1>3, Invariance, PTL DEF Spec

-----------------------------------------------------------------------------
(* What a session is charged, and how the charge is divided.               *)

\* Division by a positive number keeps the order.
LEMMA DivMonotone ==
  ASSUME NEW a \in Nat, NEW b \in Nat, NEW d \in Nat \ {0}, a <= b
  PROVE  a \div d <= b \div d /\ a \div d \in Nat
<1> DEFINE p == a \div d
           q == b \div d
<1>1. p \in Int /\ q \in Int /\ d * p <= a /\ b < d * (q + 1)
  OBVIOUS
<1>2. d * p < d * (q + 1)
  BY <1>1
<1>3. p < q + 1
  BY <1>1, <1>2
<1>4. a \div d \in Nat
  OBVIOUS
<1> QED BY <1>1, <1>3, <1>4

\* Each count of tokens costs at least as much as any smaller count.
LEMMA ProductMonotone ==
  ASSUME NEW i \in Nat, NEW j \in Nat, NEW r \in Nat, i <= j
  PROVE  i * r <= j * r /\ i * r \in Nat /\ j * r \in Nat
OBVIOUS

\* More input and more output never cost less (chargeFor).
LEMMA ChargeMonotone ==
  ASSUME NEW m, m.input_rate \in Nat, m.output_rate \in Nat, m.denominator \in Nat \ {0},
         NEW i \in Nat, NEW j \in Nat, i <= j,
         NEW o \in Nat, NEW p \in Nat, o <= p
  PROVE  /\ chargeFor(m, i, o) <= chargeFor(m, j, p)
         /\ chargeFor(m, i, o) \in Nat /\ chargeFor(m, j, p) \in Nat
<1> DEFINE small == i * m.input_rate + o * m.output_rate + m.denominator - 1
           large == j * m.input_rate + p * m.output_rate + m.denominator - 1
<1>1. small \in Nat /\ large \in Nat /\ small <= large
  <2>1. i * m.input_rate <= j * m.input_rate /\ i * m.input_rate \in Nat
          /\ j * m.input_rate \in Nat
    BY ProductMonotone
  <2>2. o * m.output_rate <= p * m.output_rate /\ o * m.output_rate \in Nat
          /\ p * m.output_rate \in Nat
    BY ProductMonotone
  <2>3. \A a, b, c, d \in Nat, e \in Nat \ {0} :
          a <= b /\ c <= d => /\ a + c + e - 1 \in Nat /\ b + d + e - 1 \in Nat
                             /\ a + c + e - 1 <= b + d + e - 1
    OBVIOUS
  <2> QED BY <2>1, <2>2, <2>3, Zenon
<1>2. small \div m.denominator <= large \div m.denominator
        /\ small \div m.denominator \in Nat /\ large \div m.denominator \in Nat
  <2> HIDE DEF small, large
  <2> QED BY <1>1, DivMonotone
<1> QED BY <1>2 DEF chargeFor, ceilDiv

-----------------------------------------------------------------------------
\* What every reachable state of one request satisfies: the hold is the quote.
Quoted ==
  /\ manifest \in Manifest
  /\ output \in Nat /\ output <= manifest.max_output
  /\ hold \in Nat /\ hold <= MaxQuote
  /\ output > 0 => hold = quoteMaximum(manifest, output)
  /\ charge \in Nat /\ charge <= hold
  /\ output = 0 => charge = 0

LEMMA QuotedInit == MeterInit => Quoted
BY MeteringAssumption DEF MeterInit, Quoted

LEMMA QuotedStep == Quoted /\ [MeterNext]_meterVars => Quoted'
<1> SUFFICES ASSUME Quoted, [MeterNext]_meterVars PROVE Quoted'
  OBVIOUS
<1> USE MeteringAssumption DEF Quoted
<1>1. ASSUME NEW out \in 1..MaxUsage, quote(out) PROVE Quoted'
  <2>1. quoteMaximum(manifest, out) \in Nat
    <3>1. manifest.max_context - out \in Nat /\ out \in Nat
      BY <1>1 DEF quote
    <3>2. manifest.max_context - out <= manifest.max_context - out /\ out <= out
      BY <3>1
    <3>3. /\ manifest.input_rate \in Nat /\ manifest.output_rate \in Nat
          /\ manifest.denominator \in Nat \ {0}
      OBVIOUS
    <3> QED BY <3>1, <3>2, <3>3, ChargeMonotone, Zenon DEF quoteMaximum
  <2> QED BY <1>1, <2>1 DEF quote
<1>2. ASSUME NEW prompt \in 1..MaxUsage, NEW completion \in 1..MaxUsage,
             NEW shares \in Allocation, settle(prompt, completion, shares)
      PROVE  Quoted'
  <2>1. manifest.max_context - output \in Nat /\ prompt <= manifest.max_context - output
          /\ prompt \in Nat /\ completion \in Nat /\ completion <= output
    BY <1>2 DEF settle, Plausible
  <2>2. /\ chargeFor(manifest, prompt, completion) <= quoteMaximum(manifest, output)
        /\ chargeFor(manifest, prompt, completion) \in Nat
    BY <2>1, ChargeMonotone DEF quoteMaximum
  <2> QED BY <1>2, <2>2 DEF settle
<1>3. CASE UNCHANGED meterVars
  BY <1>3 DEF meterVars
<1> QED BY <1>1, <1>2, <1>3 DEF MeterNext

\* No usage that passes the coordinator's checks costs more than the session
\* holds, for every manifest, so that finalize never refuses it as charge_limit.
THEOREM QuoteCoversUsage == MeterSpec => []ChargeWithinQuote
<1>1. Quoted => ChargeWithinQuote
  BY DEF Quoted, ChargeWithinQuote
<1> QED BY QuotedInit, QuotedStep, <1>1, PTL DEF MeterSpec

-----------------------------------------------------------------------------
\* The parts of a settled charge are its split by some allocation.
Divided ==
  parts # <<>> => \E shares \in Allocation : parts = Split(charge - feeOf(charge), shares)

\* Fee and parts are the charge, whatever the amounts and shares: the boundaries
\* telescope, so what one part loses by rounding the next one gains.
THEOREM DivisionIsExact == MeterSpec => []SplitIsExact
<1>1. MeterInit => Divided
  BY DEF MeterInit, Divided
<1>2. Divided /\ [MeterNext]_meterVars => Divided'
  <2> SUFFICES ASSUME Divided, [MeterNext]_meterVars PROVE Divided'
    OBVIOUS
  <2>1. ASSUME NEW out \in 1..MaxUsage, quote(out) PROVE Divided'
    BY <2>1 DEF quote, Divided
  <2>2. ASSUME NEW prompt \in 1..MaxUsage, NEW completion \in 1..MaxUsage,
               NEW shares \in Allocation, settle(prompt, completion, shares)
        PROVE  Divided'
    BY <2>2 DEF settle, Divided
  <2>3. CASE UNCHANGED meterVars
    BY <2>3 DEF meterVars, Divided
  <2> QED BY <2>1, <2>2, <2>3 DEF MeterNext
<1>3. Quoted /\ Divided => SplitIsExact
  <2> SUFFICES ASSUME Quoted, Divided, parts # <<>> PROVE SplitIsExact
    BY DEF SplitIsExact
  <2> DEFINE rest == charge - feeOf(charge)
  <2>1. PICK shares \in Allocation : parts = splitByBps(rest, shares)
    BY DEF Divided, Split
  <2>2. rest \in Int
    BY DEF Quoted, feeOf, Bps
  <2>3. shares \in Seq(1..Bps) /\ SumFunction(shares) = Bps
    BY MeteringAssumption
  <2> HIDE DEF rest
  <2>4. /\ SumFunction(parts) = rest
        /\ \A i \in DOMAIN shares :
             (parts[i] - 1) * Bps < rest * shares[i] /\ rest * shares[i] < (parts[i] + 1) * Bps
    BY <2>1, <2>2, <2>3, SplitExact
  <2>5. DOMAIN shares = DOMAIN parts
    BY <2>1 DEF splitByBps
  <2> QED BY <2>4, <2>5 DEF SplitIsExact, rest
<1> QED BY QuotedInit, QuotedStep, <1>1, <1>2, <1>3, PTL DEF MeterSpec
=============================================================================
