--------------------------- MODULE LedgerTxProofs ---------------------------
(* The store's transactions implement the atomic ledger, for any number of     *)
(* concurrent postings, transfers and accounts.                                *)
EXTENDS LedgerTx, SumTheorems, FiniteSetTheorems, TLAPS

\* The table starts empty.
LEMMA InitTx == Init => TxInv
BY DEF Init, TxInv, TypeOK, PairsOK, HeldOK, PostingPCs

\* PostDoubleEntry opens a transaction that has no row yet.
LEMMA BeginTx ==
    ASSUME TxInv, NEW m \in Movements, PostDoubleEntry(m)
    PROVE  TxInv'
<1>1. PICK t \in Transfers, type \in Atomic!EntryTypes :
         /\ pT' = [pT EXCEPT ![m] = t]
         /\ pType' = [pType EXCEPT ![m] = type]
      BY DEF PostDoubleEntry
<1>2. ppc[m] = "idle" /\ ppc' = [ppc EXCEPT ![m] = "DEBIT"] /\ UNCHANGED rows
      BY DEF PostDoubleEntry, FirstEntry
<1>3. TypeOK'
      BY <1>1, <1>2 DEF TxInv, TypeOK, PostingPCs
<1>4. PairsOK'
      BY <1>2 DEF TxInv, TypeOK, PairsOK
<1>5. \A n \in Movements \ {m} : ppc'[n] = ppc[n] /\ pT'[n] = pT[n] /\ pType'[n] = pType[n]
      BY <1>1, <1>2 DEF TxInv, TypeOK
<1>6. ppc'[m] = "DEBIT" /\ pT'[m] = t /\ pType'[m] = type
      BY <1>1, <1>2 DEF TxInv, TypeOK
<1>7. HeldOK'
      BY <1>2, <1>5, <1>6 DEF TxInv, HeldOK, Conflicts
<1> QED BY <1>3, <1>4, <1>7 DEF TxInv

\* An INSERT takes a row no other transaction has, or ends the transaction.
LEMMA InsertTx ==
    ASSUME TxInv, NEW m \in Movements, NEW side \in Sides, Insert(m, side)
    PROVE  TxInv'
<1>1. UNCHANGED <<rows, pT, pType>> /\ ppc[m] = side /\ ~Waits(m, side)
      BY DEF Insert
<1>2. \/ /\ Atomic!EntryAmount(pT[m], pType[m]) > 0 /\ ~Duplicate(m, side)
         /\ ppc' = [ppc EXCEPT ![m] = After(m, side)]
      \/ ppc' = [ppc EXCEPT ![m] = "done"]
      BY DEF Insert
<1>3. TypeOK'
      BY <1>1, <1>2 DEF TxInv, TypeOK, PostingPCs, Sides, After, FirstEntry, OtherSide
<1>4. \A n \in Movements \ {m} : ppc'[n] = ppc[n]
      BY <1>2 DEF TxInv, TypeOK
<1>5. ppc[m] # "done"
      BY <1>1 DEF Sides
<1>6. PairsOK'
      BY <1>1, <1>4, <1>5 DEF TxInv, PairsOK
<1>7. CASE ppc'[m] = "done"
      BY <1>1, <1>3, <1>6, <1>4, <1>7 DEF TxInv, HeldOK, Conflicts
<1>8. CASE /\ Atomic!EntryAmount(pT[m], pType[m]) > 0 /\ ~Duplicate(m, side)
           /\ ppc' = [ppc EXCEPT ![m] = After(m, side)]
  <2>1. pT[m] \in Transfers /\ pType[m] \in Atomic!EntryTypes
        BY <1>1 DEF TxInv, HeldOK, Sides
  <2>2. \A n \in Movements : <<n, pT[m], pType[m], "DEBIT">> \notin rows
        BY <1>1, <1>8, <2>1 DEF TxInv, PairsOK, HeldOK, Duplicate, Sides
  <2>3. \A n \in Movements \ {m} : Conflicts(m, n) => ppc[n] \notin {"CREDIT", "commit"}
        BY <1>1 DEF TxInv, HeldOK, Waits, Holds, Sides, FirstEntry, OtherSide
  <2>4. ppc'[m] \in {"CREDIT", "commit"}
        BY <1>8 DEF TxInv, TypeOK, After, FirstEntry, OtherSide
  <2>5. HeldOK'
        BY <1>1, <1>4, <1>8, <2>1, <2>2, <2>3, <2>4 DEF TxInv, HeldOK, Conflicts
  <2> QED BY <1>3, <1>6, <2>5 DEF TxInv
<1> QED BY <1>2, <1>7, <1>8 DEF TxInv, TypeOK

\* The end of a transaction without its commit gives up what it held.
LEMMA RollbackTx ==
    ASSUME TxInv, NEW m \in Movements, Rollback(m)
    PROVE  TxInv'
<1>1. /\ UNCHANGED <<rows, pT, pType>> /\ ppc' = [ppc EXCEPT ![m] = "done"]
      BY DEF Rollback
<1>2. TypeOK' /\ PairsOK'
      BY <1>1 DEF TxInv, TypeOK, PairsOK, PostingPCs
<1>3. ppc'[m] = "done" /\ \A n \in Movements \ {m} : ppc'[n] = ppc[n]
      BY <1>1 DEF TxInv, TypeOK
<1>4. HeldOK'
      BY <1>1, <1>3 DEF TxInv, HeldOK, Conflicts
<1> QED BY <1>2, <1>4 DEF TxInv

\* A commit adds the pair that the transaction holds, and nobody else's.
LEMMA CommitTx ==
    ASSUME TxInv, NEW m \in Movements, Commit(m)
    PROVE  TxInv'
<1> DEFINE t0 == pT[m]
           y0 == pType[m]
<1>1. /\ ppc[m] = "commit" /\ ppc' = [ppc EXCEPT ![m] = "done"]
      /\ rows' = rows \union {<<m, t0, y0, "DEBIT">>, <<m, t0, y0, "CREDIT">>}
      /\ UNCHANGED <<pT, pType>>
      BY DEF Commit, Row
<1>2. t0 \in Transfers /\ y0 \in Atomic!EntryTypes
      BY <1>1 DEF TxInv, HeldOK
<1>3. /\ \A n \in Movements : <<n, t0, y0, "DEBIT">> \notin rows
      /\ \A n \in Movements \ {m} : Conflicts(m, n) => ppc[n] \notin {"CREDIT", "commit"}
      BY <1>1 DEF TxInv, HeldOK
<1>4. ppc'[m] = "done" /\ \A n \in Movements \ {m} : ppc'[n] = ppc[n]
      BY <1>1 DEF TxInv, TypeOK
<1>5. TypeOK'
      BY <1>1, <1>2 DEF TxInv, TypeOK, PostingPCs, Sides
<1>6. PairsOK'
      BY <1>1, <1>2, <1>3, <1>4 DEF TxInv, PairsOK
<1>7. HeldOK'
      BY <1>1, <1>3, <1>4 DEF TxInv, HeldOK, Conflicts
<1> QED BY <1>5, <1>6, <1>7 DEF TxInv

\* Every step of a posting keeps the invariant.
LEMMA NextTx == TxInv /\ [Next]_vars => TxInv'
<1> SUFFICES ASSUME TxInv, [Next]_vars PROVE TxInv'
    OBVIOUS
<1>1. CASE Next
  <2>1. PICK m \in Movements : PostDoubleEntry(m) \/ Runs(m) \/ Rollback(m)
        BY <1>1 DEF Next
  <2> QED BY <2>1, BeginTx, InsertTx, CommitTx, RollbackTx DEF Runs
<1>2. CASE UNCHANGED vars
      BY <1>2 DEF vars, TxInv, TypeOK, PairsOK, HeldOK, Conflicts
<1> QED BY <1>1, <1>2

\* Committed rows come in pairs, one for each transfer and entry type, and two open
\* transactions never hold the same row, whatever InsertEntries interleaves.
THEOREM TxInvariant == Spec => []TxInv
BY InitTx, NextTx, PTL DEF Spec

\* Of any postings one does not wait for the others: a posting waits for one that has
\* inserted its DEBIT row, and that one finds nobody on its CREDIT row.
THEOREM NoDeadlocks == Spec => []NoDeadlock
<1>1. ASSUME TxInv, NEW m \in Movements, NEW n \in Movements, WaitsFor(m, n)
      PROVE  ppc[n] \in {"CREDIT", "commit"} /\ ppc[m] = "DEBIT"
  <2>1. n # m /\ Conflicts(m, n) /\ ppc[n] \in {"CREDIT", "commit"} /\ ppc[m] \in Sides
        BY <1>1 DEF WaitsFor, Holds, Sides, FirstEntry, OtherSide
  <2>2. ppc[m] # "CREDIT"
        BY <1>1, <2>1 DEF TxInv, HeldOK
  <2> QED BY <2>1, <2>2 DEF Sides
<1>2. TxInv => NoDeadlock
  <2> SUFFICES ASSUME TxInv, NEW D \in SUBSET Movements, D # {},
                      \A m \in D : \E n \in D : WaitsFor(m, n)
               PROVE  FALSE
      BY DEF NoDeadlock
  <2>1. PICK m \in D, n \in D : WaitsFor(m, n)
        OBVIOUS
  <2>2. PICK k \in D : WaitsFor(n, k)
        OBVIOUS
  <2> QED BY <1>1, <2>1, <2>2
<1> QED BY <1>2, TxInvariant, PTL

\* A movement is posted for a transfer and an entry type: its DEBIT row is there.
PostedBy(t, type) == {m \in Movements : <<m, t, type, "DEBIT">> \in rows}

\* The count of module Ledger, by the set it counts.
LEMMA PostedCounts ==
    /\ Posted = [t \in Transfers |-> [type \in Atomic!EntryTypes |-> Cardinality(PostedBy(t, type))]]
    /\ Posted' = [t \in Transfers |-> [type \in Atomic!EntryTypes |-> Cardinality(PostedBy(t, type)')]]
BY DEF Posted, PostedBy, Atomic!EntryTypes

\* The empty table is the empty ledger.
LEMMA InitRefines == Init => Atomic!LedgerInit
<1> SUFFICES ASSUME Init PROVE Atomic!LedgerInit
    OBVIOUS
<1>1. \A t \in Transfers, type \in Atomic!EntryTypes : PostedBy(t, type) = {}
      BY DEF Init, PostedBy
<1>2. Cardinality({}) = 0
      BY FS_EmptySet
<1> QED BY <1>1, <1>2, PostedCounts DEF Atomic!LedgerInit

\* A commit is the atomic posting of its transfer and entry type.
LEMMA CommitRefines ==
    ASSUME TxInv, NEW m \in Movements, Commit(m)
    PROVE  Atomic!PostDoubleEntry(pT[m], pType[m])
<1>0. PICK t0, y0 : t0 = pT[m] /\ y0 = pType[m]
      OBVIOUS
<1>1. /\ ppc[m] = "commit"
      /\ rows' = rows \union {<<m, t0, y0, "DEBIT">>, <<m, t0, y0, "CREDIT">>}
      BY <1>0 DEF Commit, Row
<1>2. /\ t0 \in Transfers /\ y0 \in Atomic!EntryTypes
      /\ Atomic!EntryAmount(t0, y0) > 0
      /\ \A n \in Movements : <<n, t0, y0, "DEBIT">> \notin rows
      BY <1>0, <1>1 DEF TxInv, HeldOK
<1>3. PostedBy(t0, y0) = {} /\ PostedBy(t0, y0)' = {m}
      BY <1>1, <1>2 DEF PostedBy
<1>4. Cardinality(PostedBy(t0, y0)) = 0 /\ Cardinality(PostedBy(t0, y0)') = 1
      BY <1>3, FS_EmptySet, FS_Singleton
<1>5. \A t \in Transfers, type \in Atomic!EntryTypes :
          t # t0 \/ type # y0 => PostedBy(t, type)' = PostedBy(t, type)
      BY <1>1 DEF PostedBy
<1>6. Posted[t0][y0] = 0
      BY <1>2, <1>4, PostedCounts
<1>7. \A t \in Transfers, type \in Atomic!EntryTypes :
          Cardinality(PostedBy(t, type)') = IF t = t0 /\ type = y0 THEN Posted[t0][y0] + 1
                                            ELSE Posted[t][type]
      BY <1>4, <1>5, <1>6, PostedCounts
<1>8. Posted' = [Posted EXCEPT ![t0] = [Posted[t0] EXCEPT ![y0] = Posted[t0][y0] + 1]]
      BY <1>2, <1>7, PostedCounts
<1> QED BY <1>0, <1>2, <1>6, <1>8 DEF Atomic!PostDoubleEntry, Atomic!CanPost

\* Every other step leaves the atomic ledger as it was.
LEMMA OthersStutter == UNCHANGED rows => UNCHANGED Posted
BY DEF Posted

\* The transactions of InsertEntries, interleaved and cut off in any way, implement the
\* ledger whose postings are atomic.
THEOREM LedgerRefinement == Spec => ImplementsLedger
<1>1. TxInv /\ [Next]_vars => [Atomic!LedgerNext]_Posted
  <2> SUFFICES ASSUME TxInv, [Next]_vars PROVE [Atomic!LedgerNext]_Posted
      OBVIOUS
  <2>1. CASE \E m \in Movements : Commit(m)
    <3>1. PICK m \in Movements : Commit(m)
          BY <2>1
    <3>2. pT[m] \in Transfers /\ pType[m] \in Atomic!EntryTypes
          BY <3>1 DEF Commit, TxInv, HeldOK
    <3> QED BY <3>1, <3>2, CommitRefines DEF Atomic!LedgerNext
  <2>2. CASE UNCHANGED rows
        BY <2>2, OthersStutter
  <2> QED BY <2>1, <2>2 DEF Next, Runs, PostDoubleEntry, Insert, Rollback, vars
<1> QED BY <1>1, TxInvariant, InitRefines, PTL DEF Spec, ImplementsLedger, Atomic!LedgerSpec

----------------------------------------------------------------------------
(* Balances *)

\* The rows that may ever be inserted.
AllRows == Movements \X Transfers \X Atomic!EntryTypes \X Sides

\* A row's contribution to a sum.
RowAmount(row) ==
    IF row[4] = "CREDIT" THEN Atomic!EntryAmount(row[2], row[3])
    ELSE -Atomic!EntryAmount(row[2], row[3])

RowWeights(D) == [row \in D |-> RowAmount(row)]

\* Amounts are natural numbers, and contributions integers.
LEMMA AmountsAreInt ==
    /\ \A t \in Transfers, type \in Atomic!EntryTypes : Atomic!EntryAmount(t, type) \in Nat
    /\ \A row \in AllRows : RowAmount(row) \in Int
<1>1. \A t \in Transfers, type \in Atomic!EntryTypes : Atomic!EntryAmount(t, type) \in Nat
      BY LedgerAssumption DEF Atomic!EntryAmount, Atomic!CorrOf
<1>2. ASSUME NEW row \in AllRows PROVE RowAmount(row) \in Int
  <2>1. row[2] \in Transfers /\ row[3] \in Atomic!EntryTypes
        BY DEF AllRows
  <2>2. Atomic!EntryAmount(row[2], row[3]) \in Nat
        BY <1>1, <2>1
  <2> QED BY <2>2 DEF RowAmount
<1> QED BY <1>1, <1>2

\* The query adds the contributions of its rows.
LEMMA SumIsWeight ==
    ASSUME NEW D \in SUBSET AllRows, IsFiniteSet(D), NEW E \in SUBSET D
    PROVE  Sum(E) = WeightOf(RowWeights(D), E)
<1> DEFINE g == CHOOSE iter : iter = [s \in SUBSET E |->
                    IF s = {} THEN 0
                    ELSE RowAmount(CHOOSE x \in s : TRUE) + iter[s \ {CHOOSE x \in s : TRUE}]]
<1>1. Sum(E) = g[E]
      BY DEF Sum, RowAmount, MapThenSumSet, MapThenFoldSet
<1>2. IsFiniteSet(E) /\ RowWeights(E) \in [E -> Int] /\ RowWeights(D) \in [D -> Int]
      BY FS_Subset, AmountsAreInt DEF RowWeights
<1>3. PICK h : Sums(h, RowWeights(E), E)
      BY <1>2, SumExists
<1>4. h = [s \in SUBSET E |->
             IF s = {} THEN 0
             ELSE RowAmount(CHOOSE x \in s : TRUE) + h[s \ {CHOOSE x \in s : TRUE}]]
      BY <1>3, FirstIn DEF Sums, Adds, RowWeights, First
<1>5. g = [s \in SUBSET E |->
             IF s = {} THEN 0
             ELSE RowAmount(CHOOSE x \in s : TRUE) + g[s \ {CHOOSE x \in s : TRUE}]]
      BY <1>4
<1>6. Sums(g, RowWeights(E), E)
      BY <1>5, FirstIn DEF Sums, Adds, RowWeights, First
<1>7. PICK k, v : Sums(k, v, E) /\ v = RowWeights(E) /\ Sum(E) = k[E]
      BY <1>1, <1>6
<1>8. PICK f, w : Sums(f, w, D) /\ w = RowWeights(D)
      BY <1>2, SumExists
<1>9. Sums(k, v, E) /\ Sums(f, w, D) /\ (\A x \in E : v[x] = w[x]) /\ E \in SUBSET E
      BY <1>7, <1>8 DEF RowWeights
<1>10. k[E] = f[E]
      BY <1>9, AddsUnique
<1> QED BY <1>2, <1>7, <1>8, <1>10, WeightIsSum

\* A row adds its contribution.
LEMMA AddRow ==
    ASSUME NEW D \in SUBSET AllRows, IsFiniteSet(D), NEW E \in SUBSET D, NEW row \in D \ E
    PROVE  Sum(E) \in Int /\ Sum(E \union {row}) = Sum(E) + RowAmount(row)
<1>1. RowWeights(D) \in [D -> Int] /\ RowWeights(D)[row] = RowAmount(row)
      BY AmountsAreInt DEF RowWeights
<1>2. E \union {row} \in SUBSET D
      OBVIOUS
<1>3. Sum(E) = WeightOf(RowWeights(D), E)
      BY SumIsWeight
<1>4. Sum(E \union {row}) = WeightOf(RowWeights(D), E \union {row})
      BY <1>2, SumIsWeight
<1>5. WeightOf(RowWeights(D), E) \in Int
      BY <1>1, SumLaws
<1>6. WeightOf(RowWeights(D), E \union {row}) = WeightOf(RowWeights(D), E) + RowWeights(D)[row]
      BY <1>1, SumAdd
<1> QED BY <1>1, <1>3, <1>4, <1>5, <1>6

\* What the postings of a transfer leave on its account, in a ledger l.
Net(l, t) ==
    Amount[t] * (l[t]["FREE"] - l[t]["REVERSAL"])
    - ReturnedCheckFee[Atomic!CorrOf(t)] * l[t]["RETURNED_CHECK_FEE"]

NetWeights(l) == [t \in Transfers |-> Net(l, t)]

TransfersOf(a) == {t \in Transfers : AccountOf[t] = a}

\* The balance of module Ledger, in a ledger l.
BalanceOf(l, a) ==
    MapThenSumSet(
        LAMBDA t : Amount[t] * (l[t]["FREE"] - l[t]["REVERSAL"])
                   - ReturnedCheckFee[Atomic!CorrOf(t)] * l[t]["RETURNED_CHECK_FEE"],
        {t \in Transfers : AccountOf[t] = a})

Ledgers == [Transfers -> [Atomic!EntryTypes -> Nat]]

\* It adds up what the transfers of the account leave.
LEMMA BalanceIsWeight ==
    ASSUME NEW l \in Ledgers, NEW a
    PROVE  NetWeights(l) \in [Transfers -> Int] /\ BalanceOf(l, a) = WeightOf(NetWeights(l), TransfersOf(a))
<1> DEFINE S == TransfersOf(a)
           g == CHOOSE iter : iter = [s \in SUBSET S |->
                    IF s = {} THEN 0
                    ELSE Net(l, CHOOSE x \in s : TRUE) + iter[s \ {CHOOSE x \in s : TRUE}]]
<1>0. S \in SUBSET Transfers
      BY DEF TransfersOf
<1>1. BalanceOf(l, a) = g[S]
      BY DEF BalanceOf, Net, TransfersOf, MapThenSumSet, MapThenFoldSet
<1>2. ASSUME NEW t \in Transfers PROVE Net(l, t) \in Int
  <2>1. /\ l[t]["FREE"] \in Nat /\ l[t]["REVERSAL"] \in Nat
        /\ l[t]["RETURNED_CHECK_FEE"] \in Nat
        BY DEF Ledgers, Atomic!EntryTypes
  <2>2. Amount[t] \in Nat /\ ReturnedCheckFee[Atomic!CorrOf(t)] \in Nat
        BY LedgerAssumption DEF Atomic!CorrOf
  <2> QED BY <2>1, <2>2 DEF Net
<1>3. IsFiniteSet(Transfers) /\ IsFiniteSet(S) /\ NetWeights(l) \in [Transfers -> Int]
      BY <1>0, <1>2, LedgerAssumption, FS_Subset DEF NetWeights
<1>4. PICK u : u = [t \in S |-> Net(l, t)]
      OBVIOUS
<1>5. u \in [S -> Int] /\ \A t \in S : u[t] = Net(l, t) /\ u[t] = NetWeights(l)[t]
      BY <1>0, <1>2, <1>4 DEF NetWeights
<1> HIDE DEF S
<1>6. PICK h : Sums(h, u, S)
      BY <1>3, <1>5, SumExists
<1>7. h = [s \in SUBSET S |->
             IF s = {} THEN 0
             ELSE Net(l, CHOOSE x \in s : TRUE) + h[s \ {CHOOSE x \in s : TRUE}]]
      BY <1>5, <1>6, FirstIn DEF Sums, Adds, First
<1>8. g = [s \in SUBSET S |->
             IF s = {} THEN 0
             ELSE Net(l, CHOOSE x \in s : TRUE) + g[s \ {CHOOSE x \in s : TRUE}]]
      BY <1>7
<1>9. PICK k : /\ BalanceOf(l, a) = k[S]
               /\ k = [s \in SUBSET S |->
                         IF s = {} THEN 0
                         ELSE Net(l, CHOOSE x \in s : TRUE) + k[s \ {CHOOSE x \in s : TRUE}]]
      BY <1>1, <1>8
<1>10. Sums(k, u, S)
  <2>1. \A s \in SUBSET S : s # {} => u[First(s)] = Net(l, First(s))
        BY <1>5, FirstIn
  <2>2. k = [s \in SUBSET S |-> IF s = {} THEN 0 ELSE Net(l, First(s)) + k[s \ {First(s)}]]
        BY <1>9 DEF First
  <2>3. k = [s \in SUBSET S |-> IF s = {} THEN 0 ELSE u[First(s)] + k[s \ {First(s)}]]
        BY <2>1, <2>2
  <2> QED BY <2>3 DEF Sums, Adds
<1>11. PICK f, w : Sums(f, w, Transfers) /\ w = NetWeights(l)
      BY <1>3, SumExists
<1>12. /\ Sums(k, u, S) /\ Sums(f, w, Transfers) /\ (\A x \in S : u[x] = w[x])
       /\ S \in SUBSET S /\ S \in SUBSET Transfers /\ IsFiniteSet(Transfers)
      BY <1>0, <1>3, <1>5, <1>10, <1>11
<1>13. k[S] = f[S]
      BY <1>12, AddsUnique
<1>14. WeightOf(NetWeights(l), S) = f[S]
      BY <1>3, <1>11, <1>12, WeightIsSum
<1> QED BY <1>3, <1>9, <1>13, <1>14 DEF S

\* What a posting does to the balance of its account.
Effect(t, type) ==
    IF type = "FREE" THEN Atomic!EntryAmount(t, type) ELSE -Atomic!EntryAmount(t, type)

\* The ledger after a posting.
WithPosting(l, t, type) == [l EXCEPT ![t] = [l[t] EXCEPT ![type] = l[t][type] + 1]]

\* A posting changes the balance of its account and no other.
LEMMA BalanceChanges ==
    ASSUME NEW l \in Ledgers, NEW a, NEW t \in Transfers, NEW type \in Atomic!EntryTypes
    PROVE  /\ BalanceOf(l, a) \in Int
           /\ BalanceOf(WithPosting(l, t, type), a) =
                 BalanceOf(l, a) + (IF AccountOf[t] = a THEN Effect(t, type) ELSE 0)
<1>0. PICK k \in Ledgers : /\ k = WithPosting(l, t, type)
                           /\ k = [l EXCEPT ![t] = [l[t] EXCEPT ![type] = l[t][type] + 1]]
  <2>1. WithPosting(l, t, type) = [l EXCEPT ![t] = [l[t] EXCEPT ![type] = l[t][type] + 1]]
        BY DEF WithPosting
  <2>2. [l EXCEPT ![t] = [l[t] EXCEPT ![type] = l[t][type] + 1]] \in Ledgers
        BY DEF Ledgers
  <2> QED BY <2>1, <2>2
<1>1. /\ NetWeights(l) \in [Transfers -> Int] /\ NetWeights(k) \in [Transfers -> Int]
      /\ BalanceOf(l, a) = WeightOf(NetWeights(l), TransfersOf(a))
      /\ BalanceOf(k, a) = WeightOf(NetWeights(k), TransfersOf(a))
      BY BalanceIsWeight
<1>2. IsFiniteSet(Transfers) /\ TransfersOf(a) \in SUBSET Transfers
      BY LedgerAssumption DEF TransfersOf
<1>3. \A u \in Transfers \ {t} : NetWeights(k)[u] = NetWeights(l)[u]
      BY <1>0 DEF NetWeights, Net, Ledgers
<1>4. WeightOf(NetWeights(l), TransfersOf(a)) \in Int
      BY <1>1, <1>2, SumLaws
<1>5. NetWeights(k)[t] = NetWeights(l)[t] + Effect(t, type)
  <2>1. PICK free \in Nat, rev \in Nat, fee \in Nat :
            free = l[t]["FREE"] /\ rev = l[t]["REVERSAL"] /\ fee = l[t]["RETURNED_CHECK_FEE"]
        BY DEF Ledgers, Atomic!EntryTypes
  <2>2. PICK p \in Nat, q \in Nat : p = Amount[t] /\ q = ReturnedCheckFee[Atomic!CorrOf(t)]
        BY LedgerAssumption DEF Atomic!CorrOf
  <2>3. NetWeights(l)[t] = p * (free - rev) - q * fee
        BY <2>1, <2>2 DEF NetWeights, Net
  <2>4. k[t] = [l[t] EXCEPT ![type] = l[t][type] + 1]
        BY <1>0 DEF Ledgers
  <2>5. CASE type = "FREE"
    <3>1. NetWeights(k)[t] = p * ((free + 1) - rev) - q * fee
          BY <2>1, <2>2, <2>4, <2>5 DEF NetWeights, Net, Ledgers, Atomic!EntryTypes
    <3>2. p * ((free + 1) - rev) = p * (free - rev) + p
          OBVIOUS
    <3>3. p * (free - rev) \in Int /\ q * fee \in Int
          OBVIOUS
    <3> QED BY <2>2, <2>3, <2>5, <3>1, <3>2, <3>3 DEF Effect, Atomic!EntryAmount
  <2>6. CASE type = "REVERSAL"
    <3>1. NetWeights(k)[t] = p * (free - (rev + 1)) - q * fee
          BY <2>1, <2>2, <2>4, <2>6 DEF NetWeights, Net, Ledgers, Atomic!EntryTypes
    <3>2. p * (free - (rev + 1)) = p * (free - rev) - p
          OBVIOUS
    <3>3. p * (free - rev) \in Int /\ q * fee \in Int
          OBVIOUS
    <3> QED BY <2>2, <2>3, <2>6, <3>1, <3>2, <3>3 DEF Effect, Atomic!EntryAmount
  <2>7. CASE type = "RETURNED_CHECK_FEE"
    <3>1. NetWeights(k)[t] = p * (free - rev) - q * (fee + 1)
          BY <2>1, <2>2, <2>4, <2>7 DEF NetWeights, Net, Ledgers, Atomic!EntryTypes
    <3>2. q * (fee + 1) = q * fee + q
          OBVIOUS
    <3>3. p * (free - rev) \in Int /\ q * fee \in Int
          OBVIOUS
    <3> QED BY <2>2, <2>3, <2>7, <3>1, <3>2, <3>3 DEF Effect, Atomic!EntryAmount
  <2> QED BY <2>5, <2>6, <2>7 DEF Atomic!EntryTypes
<1>6. Effect(t, type) \in Int
      BY AmountsAreInt DEF Effect
<1>7. PICK w, v, S : w = NetWeights(l) /\ v = NetWeights(k) /\ S = TransfersOf(a)
      OBVIOUS
<1>8. /\ IsFiniteSet(Transfers) /\ w \in [Transfers -> Int] /\ v \in [Transfers -> Int]
      /\ S \in SUBSET Transfers
      BY <1>1, <1>2, <1>7
<1>9. CASE AccountOf[t] = a
  <2>1. t \in S /\ \A y \in S \ {t} : v[y] = w[y]
        BY <1>2, <1>3, <1>7, <1>9 DEF TransfersOf
  <2>2. WeightOf(v, S) = WeightOf(w, S) + (v[t] - w[t])
        BY <1>8, <2>1, SumChange
  <2>3. w[t] \in Int
        BY <1>8
  <2> QED BY <1>0, <1>1, <1>4, <1>5, <1>6, <1>7, <1>9, <2>2, <2>3
<1>10. CASE AccountOf[t] # a
  <2>1. \A y \in S : v[y] = w[y]
        BY <1>2, <1>3, <1>7, <1>10 DEF TransfersOf
  <2>2. WeightOf(v, S) = WeightOf(w, S)
        BY <1>8, <2>1, SumAgree
  <2> QED BY <1>0, <1>1, <1>4, <1>7, <1>10, <2>2
<1> QED BY <1>0, <1>1, <1>4, <1>9, <1>10

\* The inductive invariant: the table is finite and balanced.
RowsInv == TxInv /\ IsFiniteSet(rows) /\ RowsReconcile

\* There are counts of each transfer and entry type.
LEMMA PostedTyped == ASSUME TxInv PROVE Posted \in Ledgers
<1>1. ASSUME NEW t \in Transfers, NEW type \in Atomic!EntryTypes
      PROVE  Cardinality(PostedBy(t, type)) \in Nat
  <2>1. \A m, n \in PostedBy(t, type) : m = n
        BY DEF PostedBy, TxInv, PairsOK
  <2>2. PostedBy(t, type) = {} \/ \E m : PostedBy(t, type) = {m}
        BY <2>1
  <2>3. CASE PostedBy(t, type) = {}
        BY <2>3, FS_EmptySet
  <2>4. CASE \E m : PostedBy(t, type) = {m}
    <3>1. PICK m : PostedBy(t, type) = {m}
          BY <2>4
    <3>2. Cardinality({m}) = 1
          BY FS_Singleton
    <3> QED BY <3>1, <3>2
  <2> QED BY <2>2, <2>3, <2>4
<1> QED BY <1>1, PostedCounts DEF Ledgers

\* The balance of module Ledger, in the ledger that the rows stand for.
LEMMA AtomicBalance ==
    ASSUME NEW a
    PROVE  Atomic!GetBalance(a) = BalanceOf(Posted, a) /\ Atomic!GetBalance(a)' = BalanceOf(Posted', a)
<1>1. Atomic!GetBalance(a) = BalanceOf(Posted, a)
      BY DEF Atomic!GetBalance, BalanceOf, MapThenSumSet, MapThenFoldSet,
         Atomic!MapThenSumSet, Atomic!MapThenFoldSet
<1>2. Atomic!GetBalance(a)' = BalanceOf(Posted', a)
      BY DEF Atomic!GetBalance, BalanceOf, MapThenSumSet, MapThenFoldSet,
         Atomic!MapThenSumSet, Atomic!MapThenFoldSet
<1> QED BY <1>1, <1>2

\* The empty table is balanced.
LEMMA InitReconciles == ASSUME Init PROVE RowsInv
<1>1. rows = {} /\ IsFiniteSet({}) /\ {} \in SUBSET AllRows
      BY FS_EmptySet DEF Init
<1>2. Sum({}) = 0
  <2>1. RowWeights({}) \in [{} -> Int]
        BY DEF RowWeights
  <2> QED BY <1>1, <2>1, SumIsWeight, SumLaws
<1>3. ASSUME NEW a \in Accounts PROVE Atomic!GetBalance(a) = 0
  <2>1. Posted = [t \in Transfers |-> [type \in Atomic!EntryTypes |-> 0]]
        BY InitRefines DEF Atomic!LedgerInit
  <2>2. Posted \in Ledgers
        BY <2>1 DEF Ledgers
  <2>3. PICK w, S : w = NetWeights(Posted) /\ S = TransfersOf(a)
        OBVIOUS
  <2>4. w \in [Transfers -> Int] /\ BalanceOf(Posted, a) = WeightOf(w, S)
        BY <2>2, <2>3, BalanceIsWeight
  <2>5. \A t \in Transfers : w[t] = 0
    <3>1. ASSUME NEW t \in Transfers PROVE w[t] = 0
      <4>1. Amount[t] \in Nat /\ ReturnedCheckFee[Atomic!CorrOf(t)] \in Nat
            BY LedgerAssumption DEF Atomic!CorrOf
      <4>2. /\ Posted[t]["FREE"] = 0 /\ Posted[t]["REVERSAL"] = 0
            /\ Posted[t]["RETURNED_CHECK_FEE"] = 0
            BY <2>1 DEF Atomic!EntryTypes
      <4> QED BY <2>3, <4>1, <4>2 DEF NetWeights, Net
    <3> QED BY <3>1
  <2>6. IsFiniteSet(Transfers) /\ S \in SUBSET Transfers
        BY <2>3, LedgerAssumption DEF TransfersOf
  <2>7. WeightOf(w, S) = 0
        BY <2>4, <2>5, <2>6, SumZero
  <2> QED BY <2>4, <2>7, AtomicBalance
<1>4. RowsReconcile
      BY <1>1, <1>2, <1>3 DEF RowsReconcile, GetEntriesByTransfer, Reconcile, GetBalance
<1> QED BY <1>1, <1>4, InitTx DEF RowsInv

\* A pair adds its contributions to the rows that a reader sees, and cancels out in
\* those of its transfer and in the whole table.
LEMMA CommitReconciles ==
    ASSUME RowsInv, NEW m \in Movements, Commit(m)
    PROVE  IsFiniteSet(rows)' /\ RowsReconcile'
<1>0. PICK t0, y0, d, c : /\ t0 = pT[m] /\ y0 = pType[m]
                          /\ d = <<m, t0, y0, "DEBIT">> /\ c = <<m, t0, y0, "CREDIT">>
      OBVIOUS
<1>1. rows' = rows \union {d, c} /\ ppc[m] = "commit"
      BY <1>0 DEF Commit, Row
<1>2. /\ t0 \in Transfers /\ y0 \in Atomic!EntryTypes
      /\ \A n \in Movements : <<n, t0, y0, "DEBIT">> \notin rows
      BY <1>0, <1>1 DEF RowsInv, TxInv, HeldOK
<1>3. d \notin rows /\ c \notin rows /\ c # d
      BY <1>0, <1>2 DEF RowsInv, TxInv, PairsOK
<1>4. rows \in SUBSET AllRows /\ rows' \in SUBSET AllRows /\ d \in AllRows /\ c \in AllRows
      BY <1>0, <1>1, <1>2 DEF RowsInv, TxInv, TypeOK, AllRows, Sides
<1>5. IsFiniteSet(rows')
  <2>1. IsFiniteSet(rows \union {d})
        BY FS_AddElement DEF RowsInv
  <2>2. IsFiniteSet((rows \union {d}) \union {c})
        BY <2>1, FS_AddElement
  <2>3. (rows \union {d}) \union {c} = rows'
        BY <1>1
  <2> QED BY <2>2, <2>3
<1>6. PICK p \in Nat : p = Atomic!EntryAmount(t0, y0)
      BY <1>2, AmountsAreInt
<1>7. RowAmount(d) = -p /\ RowAmount(c) = p
      BY <1>0, <1>6 DEF RowAmount
<1>8. ASSUME NEW E \in SUBSET rows
      PROVE  /\ Sum(E) \in Int
             /\ Sum(E \union {d}) = Sum(E) - p
             /\ Sum(E \union {c}) = Sum(E) + p
             /\ Sum(E \union {d, c}) = Sum(E)
  <2>1. PICK D : D = rows' /\ D \in SUBSET AllRows /\ IsFiniteSet(D)
        BY <1>4, <1>5
  <2>2. /\ E \in SUBSET D /\ d \in D \ E /\ c \in D \ E
        /\ E \union {d} \in SUBSET D /\ c \in D \ (E \union {d})
        /\ (E \union {d}) \union {c} = E \union {d, c}
        BY <1>1, <1>3, <2>1
  <2>3. Sum(E) \in Int /\ Sum(E \union {d}) = Sum(E) + RowAmount(d)
        BY <2>1, <2>2, AddRow
  <2>4. Sum(E \union {c}) = Sum(E) + RowAmount(c)
        BY <2>1, <2>2, AddRow
  <2>5. Sum((E \union {d}) \union {c}) = Sum(E \union {d}) + RowAmount(c)
        BY <2>1, <2>2, AddRow
  <2>6. Sum(E \union {d}) = Sum(E) - p /\ Sum(E \union {c}) = Sum(E) + p
        BY <1>7, <2>3, <2>4
  <2>7. Sum((E \union {d}) \union {c}) = Sum(E)
        BY <1>7, <2>3, <2>5, <2>6
  <2> QED BY <2>2, <2>3, <2>6, <2>7
<1>9. Reconcile' = 0
      BY <1>1, <1>8 DEF RowsInv, RowsReconcile, Reconcile
<1>10. ASSUME NEW t \in Transfers PROVE Sum(GetEntriesByTransfer(t))' = 0
  <2>1. PICK E \in SUBSET rows : E = {row \in rows : row[2] = t} /\ Sum(E) = 0
        BY DEF RowsInv, RowsReconcile, GetEntriesByTransfer
  <2>2. {row \in rows' : row[2] = t} = IF t = t0 THEN E \union {d, c} ELSE E
        BY <1>0, <1>1, <2>1
  <2>3. Sum(GetEntriesByTransfer(t))' = Sum({row \in rows' : row[2] = t})
        BY DEF GetEntriesByTransfer
  <2> QED BY <1>8, <2>1, <2>2, <2>3
<1>11. ASSUME NEW a \in Accounts PROVE GetBalance(a)' = Atomic!GetBalance(a)'
  <2>1. PICK E \in SUBSET rows :
            E = {row \in rows : AccountOfRow(row) = a} /\ Sum(E) = BalanceOf(Posted, a)
        BY AtomicBalance DEF RowsInv, RowsReconcile, GetBalance
  <2>2. /\ AccountOf[t0] \in Accounts /\ Atomic!CorrOf(t0) \in Correspondents
        /\ Omnibus(t0) \notin Accounts /\ FeeAccount \notin Accounts
        BY <1>2, LedgerAssumption, BankAccountsAssumption DEF Atomic!CorrOf, Omnibus
  <2>3. /\ AccountOfRow(d) = IF y0 = "FREE" THEN Omnibus(t0) ELSE AccountOf[t0]
        /\ AccountOfRow(c) = IF y0 = "FREE" THEN AccountOf[t0]
                             ELSE IF y0 = "REVERSAL" THEN Omnibus(t0) ELSE FeeAccount
        BY <1>0 DEF AccountOfRow
  <2>4. {row \in rows' : AccountOfRow(row) = a} =
            IF AccountOf[t0] # a THEN E
            ELSE IF y0 = "FREE" THEN E \union {c} ELSE E \union {d}
        BY <1>1, <2>1, <2>2, <2>3
  <2>5. GetBalance(a)' = Sum({row \in rows' : AccountOfRow(row) = a})
        BY DEF GetBalance
  <2>6. Posted' = [Posted EXCEPT ![t0] = [Posted[t0] EXCEPT ![y0] = Posted[t0][y0] + 1]]
        BY <1>0, CommitRefines DEF RowsInv, Atomic!PostDoubleEntry
  <2>7. Posted \in Ledgers
        BY PostedTyped DEF RowsInv
  <2>8. PICK l, k : l = Posted /\ k = Posted'
        OBVIOUS
  <2>9. k = WithPosting(l, t0, y0) /\ l \in Ledgers
        BY <2>6, <2>7, <2>8 DEF WithPosting
  <2>10. /\ BalanceOf(l, a) \in Int
         /\ BalanceOf(k, a) = BalanceOf(l, a) + (IF AccountOf[t0] = a THEN Effect(t0, y0) ELSE 0)
        BY <1>2, <2>9, BalanceChanges
  <2>11. Effect(t0, y0) = IF y0 = "FREE" THEN p ELSE -p
        BY <1>6 DEF Effect
  <2>12. Atomic!GetBalance(a)' = BalanceOf(k, a) /\ Sum(E) = BalanceOf(l, a)
        BY <2>1, <2>8, AtomicBalance
  <2>13. CASE AccountOf[t0] # a
    <3>1. BalanceOf(k, a) = BalanceOf(l, a)
          BY <2>10, <2>13
    <3>2. GetBalance(a)' = Sum(E)
          BY <2>4, <2>5, <2>13
    <3> QED BY <2>12, <3>1, <3>2
  <2>14. CASE AccountOf[t0] = a /\ y0 = "FREE"
        BY <1>8, <2>4, <2>5, <2>10, <2>11, <2>12, <2>14
  <2>15. CASE AccountOf[t0] = a /\ y0 # "FREE"
        BY <1>8, <2>4, <2>5, <2>10, <2>11, <2>12, <2>15
  <2> QED BY <2>13, <2>14, <2>15
<1> QED BY <1>5, <1>9, <1>10, <1>11 DEF RowsReconcile

\* What a reader sees of the ledger at any moment is balanced, transfer by transfer and
\* altogether, and agrees with the atomic ledger on the balance of every investor,
\* whatever postings run, wait for each other, fail or are cut off.
THEOREM RowsBalance == Spec => []RowsReconcile
<1>1. RowsInv /\ [Next]_vars => RowsInv'
  <2> SUFFICES ASSUME RowsInv, [Next]_vars PROVE RowsInv'
      OBVIOUS
  <2>1. TxInv'
        BY NextTx DEF RowsInv
  <2>2. CASE \E m \in Movements : Commit(m)
        BY <2>1, <2>2, CommitReconciles DEF RowsInv
  <2>3. CASE UNCHANGED rows
    <3>1. UNCHANGED Posted
          BY <2>3, OthersStutter
    <3>2. \A a : Atomic!GetBalance(a)' = Atomic!GetBalance(a)
          BY <3>1, AtomicBalance
    <3>3. /\ IsFiniteSet(rows)' /\ Reconcile' = Reconcile
          /\ \A t : Sum(GetEntriesByTransfer(t))' = Sum(GetEntriesByTransfer(t))
          /\ \A a : GetBalance(a)' = GetBalance(a)
          BY <2>3 DEF RowsInv, Reconcile, GetEntriesByTransfer, GetBalance
    <3> QED BY <2>1, <3>2, <3>3 DEF RowsInv, RowsReconcile
  <2> QED BY <2>2, <2>3 DEF Next, Runs, PostDoubleEntry, Insert, Rollback, vars
<1>2. RowsInv => RowsReconcile
      BY DEF RowsInv
<1> QED BY <1>1, <1>2, InitReconciles, PTL DEF Spec
=============================================================================
