------------------------------ MODULE LedgerTx ------------------------------
(***************************************************************************)
(* ledger_entries row by row: InsertEntries opens a transaction, inserts   *)
(* the DEBIT row, then the CREDIT row, and commits; any number of requests *)
(* do so at once, for the same transfer and entry type or for others.  A   *)
(* member of Movements is one call of PostDoubleEntry, with a movement_id  *)
(* of its own.                                                             *)
(*                                                                         *)
(* PostgreSQL, external: an INSERT whose key another open transaction has  *)
(* inserted waits for it to end, and a reader sees committed rows only.    *)
(***************************************************************************)
EXTENDS Integers, FiniteSets, FiniteSetsExt

CONSTANTS
    Transfers, Accounts, Correspondents, AccountOf, CorrespondentOf, Amount,
    ReturnedCheckFee,   \* as in module Ledger
    Movements,          \* the bound on the postings of a behaviour
    Faults              \* TRUE: a transaction may be cut off before it commits

ASSUME FaultsAssumption == Faults \in BOOLEAN

ASSUME LedgerAssumption ==
    /\ AccountOf \in [Transfers -> Accounts]
    /\ CorrespondentOf \in [Accounts -> Correspondents]
    /\ Amount \in [Transfers -> Nat \ {0}]
    /\ ReturnedCheckFee \in [Correspondents -> Nat]
    /\ IsFiniteSet(Transfers)

VARIABLES
    rows,   \* committed rows, as <<movement, transfer, entry type, side>>
    ppc,    \* the statement the posting executes next
    pT,     \* its transfer
    pType   \* its entry type

vars == <<rows, ppc, pT, pType>>

\* Pairs of rows posted for a transfer under an entry type: what module Ledger counts.
Posted ==
    [t \in Transfers |-> [type \in {"FREE", "REVERSAL", "RETURNED_CHECK_FEE"} |->
        Cardinality({m \in Movements : <<m, t, type, "DEBIT">> \in rows})]]

Atomic == INSTANCE Ledger WITH ledger <- Posted

Sides == {"DEBIT", "CREDIT"}

PostingPCs == {"idle", "DEBIT", "CREDIT", "commit", "done"}

None == "none"

Init ==
    /\ rows = {}
    /\ ppc = [m \in Movements |-> "idle"]
    /\ pT = [m \in Movements |-> None]
    /\ pType = [m \in Movements |-> None]

Row(m, side) == <<m, pT[m], pType[m], side>>

\* Mutant: the entries come out of a map, whose order differs from call to call.
FirstEntryOfMap(m) == IF m = CHOOSE n \in Movements : TRUE THEN "CREDIT" ELSE "DEBIT"

\* PostDoubleEntry lists the DEBIT entry first, and InsertEntries keeps the order.
FirstEntry(m) == "DEBIT"

OtherSide(side) == IF side = "DEBIT" THEN "CREDIT" ELSE "DEBIT"

\* The statement after m's INSERT of a row.
After(m, side) == IF side = FirstEntry(m) THEN OtherSide(side) ELSE "commit"

\* m's open transaction has inserted the row.
Holds(m, side) ==
    ppc[m] = "commit" \/ (side = FirstEntry(m) /\ ppc[m] = OtherSide(side))

\* The UNIQUE constraint: movement_id is not part of it.
Conflicts(m, n) == pT[m] = pT[n] /\ pType[m] = pType[n]

Duplicate(m, side) == \E n \in Movements : <<n, pT[m], pType[m], side>> \in rows

Waits(m, side) == \E n \in Movements \ {m} : Conflicts(m, n) /\ Holds(n, side)

----------------------------------------------------------------------------
\* PostDoubleEntry: the entries and BEGIN.
PostDoubleEntry(m) ==
    /\ ppc[m] = "idle"
    /\ \E t \in Transfers, type \in Atomic!EntryTypes :
          /\ pT' = [pT EXCEPT ![m] = t]
          /\ pType' = [pType EXCEPT ![m] = type]
    /\ ppc' = [ppc EXCEPT ![m] = FirstEntry(m)]
    /\ UNCHANGED rows

\* Mutant: the key includes movement_id.
InsertUnconstrained(m, side) ==
    /\ ppc[m] = side
    /\ \/ /\ Atomic!EntryAmount(pT[m], pType[m]) > 0
          /\ ppc' = [ppc EXCEPT ![m] = After(m, side)]
       \/ /\ Atomic!EntryAmount(pT[m], pType[m]) <= 0
          /\ ppc' = [ppc EXCEPT ![m] = "done"]
    /\ UNCHANGED <<rows, pT, pType>>

\* Mutant: inserts outside the transaction.
InsertAutocommit(m, side) ==
    /\ ppc[m] = side
    /\ ~Waits(m, side)
    /\ \/ /\ Atomic!EntryAmount(pT[m], pType[m]) > 0 /\ ~Duplicate(m, side)
          /\ rows' = rows \union {Row(m, side)}
          /\ ppc' = [ppc EXCEPT ![m] = After(m, side)]
       \/ /\ Atomic!EntryAmount(pT[m], pType[m]) <= 0 \/ Duplicate(m, side)
          /\ ppc' = [ppc EXCEPT ![m] = "done"]
          /\ UNCHANGED rows
    /\ UNCHANGED <<pT, pType>>

\* One INSERT of the loop; the checks fail it and roll the transaction back.
Insert(m, side) ==
    /\ ppc[m] = side
    /\ ~Waits(m, side)
    /\ \/ /\ Atomic!EntryAmount(pT[m], pType[m]) > 0 /\ ~Duplicate(m, side)
          /\ ppc' = [ppc EXCEPT ![m] = After(m, side)]
       \/ /\ Atomic!EntryAmount(pT[m], pType[m]) <= 0 \/ Duplicate(m, side)
          /\ ppc' = [ppc EXCEPT ![m] = "done"]
    /\ UNCHANGED <<rows, pT, pType>>

Commit(m) ==
    /\ ppc[m] = "commit"
    /\ rows' = rows \union {Row(m, "DEBIT"), Row(m, "CREDIT")}
    /\ ppc' = [ppc EXCEPT ![m] = "done"]
    /\ UNCHANGED <<pT, pType>>

\* The context is cancelled, a statement or the commit fails, or the process dies.
Rollback(m) ==
    /\ Faults
    /\ ppc[m] \in {"DEBIT", "CREDIT", "commit"}
    /\ ppc' = [ppc EXCEPT ![m] = "done"]
    /\ UNCHANGED <<rows, pT, pType>>

Runs(m) == (\E side \in Sides : Insert(m, side)) \/ Commit(m)

Next == \E m \in Movements : PostDoubleEntry(m) \/ Runs(m) \/ Rollback(m)

Spec == Init /\ [][Next]_vars

----------------------------------------------------------------------------
(* Queries *)

FeeAccount == "FEE-APEX"

Omnibus(t) == <<"OMNIBUS", Atomic!CorrOf(t)>>

\* accounts.type tells the bank's own accounts from the investors'.
ASSUME BankAccountsAssumption ==
    /\ FeeAccount \notin Accounts
    /\ \A c \in Correspondents : <<"OMNIBUS", c>> \notin Accounts

\* The account a row is booked on, as the three callers of PostDoubleEntry choose it.
AccountOfRow(row) ==
    LET t == row[2] IN
    CASE row[3] = "FREE" -> IF row[4] = "DEBIT" THEN Omnibus(t) ELSE AccountOf[t]
      [] row[3] = "REVERSAL" -> IF row[4] = "DEBIT" THEN AccountOf[t] ELSE Omnibus(t)
      [] OTHER -> IF row[4] = "DEBIT" THEN AccountOf[t] ELSE FeeAccount

\* SUM(CASE WHEN side = 'CREDIT' THEN amount ELSE -amount END)
Sum(entries) ==
    MapThenSumSet(LAMBDA row : IF row[4] = "CREDIT" THEN Atomic!EntryAmount(row[2], row[3])
                               ELSE -Atomic!EntryAmount(row[2], row[3]), entries)

GetBalance(a) == Sum({row \in rows : AccountOfRow(row) = a})

GetEntriesByTransfer(t) == {row \in rows : row[2] = t}

Reconcile == Sum(rows)

----------------------------------------------------------------------------
(* Properties *)

\* Row by row, the store implements the atomic postings of module Ledger: a pair
\* appears at once, at most one for each transfer and entry type, never one of amount 0.
ImplementsLedger == Atomic!LedgerSpec

\* What a reader sees at any moment is balanced, transfer by transfer and altogether,
\* and the rows of an investor's account add up to the balance of module Ledger.
RowsReconcile ==
    /\ \A t \in Transfers : Sum(GetEntriesByTransfer(t)) = 0
    /\ Reconcile = 0
    /\ \A a \in Accounts : GetBalance(a) = Atomic!GetBalance(a)

\* m's INSERT waits for the transaction of n to end.
WaitsFor(m, n) ==
    n # m /\ Conflicts(m, n) /\ \E side \in Sides : ppc[m] = side /\ Holds(n, side)

\* Postings never wait for each other in a circle, which PostgreSQL would break by failing
\* one of them, a posting nobody retries: all insert their rows in one order, and whoever
\* has the first row of a pair finds nobody on the second.
NoDeadlock ==
    \A D \in SUBSET Movements : D # {} => \E m \in D : \A n \in D : ~WaitsFor(m, n)

TypeOK ==
    /\ rows \subseteq Movements \X Transfers \X Atomic!EntryTypes \X Sides
    /\ ppc \in [Movements -> PostingPCs]
    /\ pT \in [Movements -> Transfers \union {None}]
    /\ pType \in [Movements -> Atomic!EntryTypes \union {None}]

\* What the refinement rests on: committed rows come in pairs, belong to postings that
\* have ended and are unique in transfer, type and side ...
PairsOK ==
    \A m \in Movements, t \in Transfers, type \in Atomic!EntryTypes :
        /\ <<m, t, type, "DEBIT">> \in rows <=> <<m, t, type, "CREDIT">> \in rows
        /\ <<m, t, type, "DEBIT">> \in rows =>
              /\ ppc[m] = "done"
              /\ \A n \in Movements : <<n, t, type, "DEBIT">> \in rows => m = n

\* ... and an open transaction that has inserted a row is the only one to have it.
HeldOK ==
    \A m \in Movements :
        /\ ppc[m] \in {"DEBIT", "CREDIT", "commit"} =>
              pT[m] \in Transfers /\ pType[m] \in Atomic!EntryTypes
        /\ ppc[m] \in {"CREDIT", "commit"} =>
              /\ Atomic!EntryAmount(pT[m], pType[m]) > 0
              /\ \A n \in Movements :
                    /\ <<n, pT[m], pType[m], "DEBIT">> \notin rows
                    /\ n # m /\ Conflicts(m, n) => ppc[n] \notin {"CREDIT", "commit"}

TxInv == TypeOK /\ PairsOK /\ HeldOK
=============================================================================
