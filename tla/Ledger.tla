------------------------------- MODULE Ledger -------------------------------
(***************************************************************************)
(* The double-entry book of the coordinator: ledger.ts `post`, with the    *)
(* triggers of migration 001 that project journal lines into balances.     *)
(*                                                                         *)
(* A posting is a function from accounts to signed amounts (the lines the  *)
(* code builds, already combined per account; an absent line is a zero).   *)
(* A rejected posting throws, which aborts the whole transaction that      *)
(* asked for it: here Post is then false and the action is not enabled.    *)
(***************************************************************************)
EXTENDS Integers, FiniteSets, Functions

CONSTANTS
  User,        \* account holders: consumers and providers
  Fund,        \* contracts and pools that own escrow accounts
  MaxAmount    \* the largest amount of one line (2^63 - 1 in the code)

ASSUME LedgerAssumption == MaxAmount \in Nat

VARIABLES
  balance,     \* ledger_accounts.balance
  journal      \* the business keys of the postings made so far

ledgerVars == <<balance, journal>>

-----------------------------------------------------------------------------
Available(u) == <<"available", u>>
Held(u)      == <<"held", u>>
Escrow(f)    == <<"escrow", f>>
LabIssuer    == <<"lab", "issuer">>
LabWorking   == <<"lab", "working">>

Account == {Available(u) : u \in User} \cup {Held(u) : u \in User}
             \cup {Escrow(f) : f \in Fund} \cup {LabIssuer, LabWorking}

\* No account is touched: the base every posting's lines are written over.
NoLines == [a \in Account |-> 0]

\* The checks of post on a book: two lines or more, summing to zero, each
\* within the amount range, and no account but the issuer's below zero.
Balanced(lines) ==
  /\ lines \in [Account -> -MaxAmount..MaxAmount]
  /\ Cardinality({a \in Account : lines[a] # 0}) >= 2
  /\ SumFunction(lines) = 0
Covered(book, lines) == \A a \in Account \ {LabIssuer} : book[a] + lines[a] >= 0

Acceptable(lines) == Balanced(lines) /\ Covered(balance, lines)

\* A key already in the journal is answered with the old posting.
Post(key, lines) ==
  IF key \in journal
  THEN UNCHANGED ledgerVars
  ELSE /\ Acceptable(lines)
       /\ balance' = [a \in Account |-> balance[a] + lines[a]]
       /\ journal' = journal \cup {key}

\* A handler that makes up to two postings, one after the other, under keys that
\* differ; NoLines is a posting that the handler does not make.
PostBoth(key1, lines1, key2, lines2) ==
  LET made1 == lines1 # NoLines /\ key1 \notin journal
      made2 == lines2 # NoLines /\ key2 \notin journal
      between == IF made1 THEN [a \in Account |-> balance[a] + lines1[a]] ELSE balance
  IN  /\ made1 => Acceptable(lines1)
      /\ made2 => Balanced(lines2) /\ Covered(between, lines2)
      /\ balance' = IF made2 THEN [a \in Account |-> between[a] + lines2[a]] ELSE between
      /\ journal' = journal \cup (IF made1 THEN {key1} ELSE {})
                            \cup (IF made2 THEN {key2} ELSE {})

\* Every account but the issuer's is nonnegative, as the table's CHECK says.
LedgerTypeOK ==
  /\ balance \in [Account -> Int]
  /\ \A a \in Account \ {LabIssuer} : balance[a] >= 0
=============================================================================
