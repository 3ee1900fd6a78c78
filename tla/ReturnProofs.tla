---------------------------- MODULE ReturnProofs ----------------------------
(***************************************************************************)
(* What returns leave behind in module CheckDeposit, for any number of     *)
(* transfers, accounts and concurrent requests: one return reverses a      *)
(* transfer, and an account it leaves in debt goes to COLLECTIONS.         *)
(***************************************************************************)
EXTENDS CheckDepositProofs, SumTheorems

\* Completed is final but for a return: the state a return read as such stands.
SeenStands ==
    \A r \in RetRequests :
        rpc[r] # "idle" /\ rSeen[r] = "Completed" => state[rT[r]] \in {"Completed", "Returned"}

\* A fee of zero is never charged: the ledger refuses it.
FeesArePositive ==
    \A t \in Transfers :
        ledger[t]["RETURNED_CHECK_FEE"] # 0 => ReturnedCheckFee[CorrOf(t)] > 0

\* Nothing is settled where no trigger runs.
SettledByTriggers == Triggers = {} => \A t \in Transfers : state[t] # "Completed"

ReturnInv ==
    /\ MoneyInv
    /\ OneReturner
    /\ SeenStands
    /\ FeesArePositive
    /\ SettledByTriggers

\* The return of t has been reported but its account not yet checked.
Closing(r, t) == rT[r] = t /\ rpc[r] \in {"record", "balance", "collections"}

\* Every reversal is carried on by its return, up to Returned, unless settlement took
\* the transfer away from it or there is no fee to charge.
ReversalsCarriedOn ==
    \A t \in Transfers :
        ledger[t]["REVERSAL"] = 1 =>
            \/ state[t] \in {"Completed", "Returned"}
            \/ ReturnedCheckFee[CorrOf(t)] = 0
            \/ \E r \in RetRequests : rT[r] = t /\ rpc[r] \in Returning

\* A return that may have taken the account into debt has yet to look at its balance.
Unchecked(t) == state[t] # "Returned" \/ \E r \in RetRequests : Closing(r, t)

\* ... of one of a's transfers.
Tended(a) ==
    \E t \in Transfers : AccountOf[t] = a /\ ledger[t]["REVERSAL"] = 1 /\ Unchecked(t)

\* Every account in debt is flagged, or such a return is there.
DebtsTended ==
    \A a \in Accounts : GetBalance(a) < 0 => accountStatus[a] = "COLLECTIONS" \/ Tended(a)

DebtInv == ReturnInv /\ (~Faults => ReversalsCarriedOn /\ DebtsTended)

----------------------------------------------------------------------------
(* Balances *)

\* What the postings of a transfer leave on its account, in a ledger l.
Net(l, t) ==
    Amount[t] * (l[t]["FREE"] - l[t]["REVERSAL"])
    - ReturnedCheckFee[CorrOf(t)] * l[t]["RETURNED_CHECK_FEE"]

NetWeights(l) == [t \in Transfers |-> Net(l, t)]

TransfersOf(a) == {t \in Transfers : AccountOf[t] = a}

\* GetBalance, in a ledger l.
BalanceOf(l, a) ==
    MapThenSumSet(
        LAMBDA t : Amount[t] * (l[t]["FREE"] - l[t]["REVERSAL"])
                   - ReturnedCheckFee[CorrOf(t)] * l[t]["RETURNED_CHECK_FEE"],
        {t \in Transfers : AccountOf[t] = a})

Ledgers == [Transfers -> [EntryTypes -> Nat]]

\* A balance adds up what the transfers of the account leave.
LEMMA BalanceIsWeight ==
  ASSUME NEW l \in Ledgers, NEW a
  PROVE  /\ NetWeights(l) \in [Transfers -> Int]
         /\ BalanceOf(l, a) = WeightOf(NetWeights(l), TransfersOf(a))
<1> DEFINE S == TransfersOf(a)
           g == CHOOSE iter : iter = [s \in SUBSET S |->
                    IF s = {} THEN 0
                    ELSE Net(l, CHOOSE x \in s : TRUE) + iter[s \ {CHOOSE x \in s : TRUE}]]
<1>0. S \in SUBSET Transfers
  BY DEF TransfersOf
<1>1. BalanceOf(l, a) = g[S]
  BY DEF BalanceOf, Net, TransfersOf, MapThenSumSet, MapThenFoldSet
<1>2. ASSUME NEW t \in Transfers PROVE Net(l, t) \in Int
  <2>1. /\ l[t]["FREE"] \in Nat /\ l[t]["REVERSAL"] \in Nat
        /\ l[t]["RETURNED_CHECK_FEE"] \in Nat
    BY DEF Ledgers, EntryTypes
  <2>2. Amount[t] \in Nat /\ ReturnedCheckFee[CorrOf(t)] \in Nat
    BY LedgerAssumption DEF CorrOf
  <2> QED
    BY <2>1, <2>2 DEF Net
<1>3. IsFiniteSet(Transfers) /\ IsFiniteSet(S) /\ NetWeights(l) \in [Transfers -> Int]
  BY <1>0, <1>2, FiniteAssumption, FS_Subset DEF NetWeights
<1>4. PICK u : u = [t \in S |-> Net(l, t)]
  OBVIOUS
<1>5. u \in [S -> Int] /\ \A t \in S : u[t] = Net(l, t) /\ u[t] = NetWeights(l)[t]
  BY <1>0, <1>2, <1>4 DEF NetWeights
<1> HIDE DEF S
<1>6. PICK h : Sums(h, u, S)
  BY <1>3, <1>5, SumExists
<1>7. h = [s \in SUBSET S |->
             IF s = {} THEN 0
             ELSE Net(l, CHOOSE x \in s : TRUE) + h[s \ {CHOOSE x \in s : TRUE}]]
  BY <1>5, <1>6, FirstIn DEF Sums, Adds, First
<1>8. g = [s \in SUBSET S |->
             IF s = {} THEN 0
             ELSE Net(l, CHOOSE x \in s : TRUE) + g[s \ {CHOOSE x \in s : TRUE}]]
  BY <1>7
<1>9. PICK k : /\ BalanceOf(l, a) = k[S]
               /\ k = [s \in SUBSET S |->
                         IF s = {} THEN 0
                         ELSE Net(l, CHOOSE x \in s : TRUE) + k[s \ {CHOOSE x \in s : TRUE}]]
  BY <1>1, <1>8
<1>10. Sums(k, u, S)
  <2>1. \A s \in SUBSET S : s # {} => u[First(s)] = Net(l, First(s))
    BY <1>5, FirstIn
  <2>2. k = [s \in SUBSET S |-> IF s = {} THEN 0 ELSE Net(l, First(s)) + k[s \ {First(s)}]]
    BY <1>9 DEF First
  <2>3. k = [s \in SUBSET S |-> IF s = {} THEN 0 ELSE u[First(s)] + k[s \ {First(s)}]]
    BY <2>1, <2>2
  <2> QED
    BY <2>3 DEF Sums, Adds
<1>11. PICK f, w : Sums(f, w, Transfers) /\ w = NetWeights(l)
  BY <1>3, SumExists
<1>12. /\ Sums(k, u, S) /\ Sums(f, w, Transfers) /\ (\A x \in S : u[x] = w[x])
       /\ S \in SUBSET S /\ S \in SUBSET Transfers /\ IsFiniteSet(Transfers)
  BY <1>0, <1>3, <1>5, <1>10, <1>11
<1>13. k[S] = f[S]
  BY <1>12, AddsUnique
<1>14. WeightOf(NetWeights(l), S) = f[S]
  BY <1>3, <1>11, <1>12, WeightIsSum
<1> QED
  BY <1>3, <1>9, <1>13, <1>14 DEF S

\* A balance does not fall when what each transfer of the account leaves does not.
LEMMA BalanceMonotone ==
  ASSUME NEW l \in Ledgers, NEW k \in Ledgers, NEW a,
         \A t \in TransfersOf(a) : Net(l, t) <= Net(k, t)
  PROVE  /\ BalanceOf(l, a) \in Int /\ BalanceOf(k, a) \in Int
         /\ BalanceOf(l, a) <= BalanceOf(k, a)
<1>1. PICK w, v, S : w = NetWeights(l) /\ v = NetWeights(k) /\ S = TransfersOf(a)
  OBVIOUS
<1>2. /\ w \in [Transfers -> Int] /\ v \in [Transfers -> Int]
      /\ BalanceOf(l, a) = WeightOf(w, S) /\ BalanceOf(k, a) = WeightOf(v, S)
  BY <1>1, BalanceIsWeight
<1>3. /\ IsFiniteSet(Transfers) /\ S \in SUBSET Transfers
      /\ \A t \in S : w[t] <= v[t]
  BY <1>1, FiniteAssumption DEF TransfersOf, NetWeights
<1> QED
  BY <1>2, <1>3, SumMonotone

\* An account none of whose transfers was charged a fee is not in debt: a reversal
\* takes back no more than the credit.
LEMMA NoFeeNoDebt ==
  ASSUME TypeOK, MoneyMatchesState, NEW a,
         \A t \in TransfersOf(a) : ledger[t]["RETURNED_CHECK_FEE"] = 0
  PROVE  ~(GetBalance(a) < 0)
<1>1. PICK l : l = ledger
  OBVIOUS
<1>2. l \in Ledgers
  BY <1>1 DEF TypeOK, TablesTypeOK, Ledgers
<1>3. PICK w, v, S : w = [t \in Transfers |-> 0] /\ v = NetWeights(l) /\ S = TransfersOf(a)
  OBVIOUS
<1>4. ASSUME NEW t \in S PROVE w[t] <= v[t]
  <2>1. t \in Transfers /\ l[t]["RETURNED_CHECK_FEE"] = 0
    BY <1>1, <1>3 DEF TransfersOf
  <2>2. PICK free \in Nat, rev \in Nat :
          free = l[t]["FREE"] /\ rev = l[t]["REVERSAL"] /\ free <= 1 /\ rev <= free
    BY <1>1, <1>2, <2>1 DEF Ledgers, EntryTypes, MoneyMatchesState
  <2>3. PICK p \in Nat, q \in Nat : p = Amount[t] /\ q = ReturnedCheckFee[CorrOf(t)]
    BY <2>1, LedgerAssumption DEF CorrOf
  <2>4. v[t] = p * (free - rev) - q * 0
    BY <1>3, <2>1, <2>2, <2>3 DEF NetWeights, Net
  <2>5. PICK d \in {0, 1} : d = free - rev
    BY <2>2
  <2>6. p * d \in Nat /\ q * 0 = 0
    BY <2>3
  <2>7. v[t] \in Nat
    BY <2>4, <2>5, <2>6
  <2> QED
    BY <1>3, <2>1, <2>7
<1>5. /\ v \in [Transfers -> Int] /\ w \in [Transfers -> Int]
      /\ S \in SUBSET Transfers /\ IsFiniteSet(Transfers) /\ BalanceOf(l, a) = WeightOf(v, S)
      /\ \A t \in S : w[t] = 0
  BY <1>2, <1>3, BalanceIsWeight, FiniteAssumption DEF TransfersOf
<1>6. WeightOf(w, S) = 0
  BY <1>5, SumZero
<1>7. WeightOf(v, S) \in Int /\ 0 <= WeightOf(v, S)
  BY <1>4, <1>5, <1>6, SumMonotone
<1>8. GetBalance(a) = BalanceOf(ledger, a)
  BY DEF GetBalance, BalanceOf
<1> QED
  BY <1>1, <1>5, <1>7, <1>8

\* A step that posts nothing, a credit, or an entry of another account takes no account
\* into debt.
LEMMA DebtIsOld ==
  ASSUME TypeOK, TypeOK', NEW a,
         \/ UNCHANGED ledger
         \/ \E t \in Transfers, type \in EntryTypes :
               PostDoubleEntry(t, type) /\ (type = "FREE" \/ AccountOf[t] # a),
         GetBalance(a)' < 0
  PROVE  GetBalance(a) < 0
<1>1. PICK l, k : l = ledger /\ k = ledger'
  OBVIOUS
<1>2. l \in Ledgers /\ k \in Ledgers
  BY <1>1 DEF TypeOK, TablesTypeOK, Ledgers
<1>3. GetBalance(a) = BalanceOf(ledger, a)
  BY DEF GetBalance, BalanceOf
<1>4. GetBalance(a)' = BalanceOf(ledger', a)
  BY DEF GetBalance, BalanceOf, CorrOf, MapThenSumSet, MapThenFoldSet
<1>5. CASE UNCHANGED ledger
  BY <1>1, <1>3, <1>4, <1>5
<1>6. CASE ~UNCHANGED ledger
  <2>1. PICK t \in Transfers, type \in EntryTypes :
          PostDoubleEntry(t, type) /\ (type = "FREE" \/ AccountOf[t] # a)
    BY <1>6
  <2>2. k = [l EXCEPT ![t][type] = @ + 1]
    BY <1>1, <2>1 DEF PostDoubleEntry
  <2>3. ASSUME NEW u \in TransfersOf(a) PROVE Net(l, u) <= Net(k, u)
    <3>1. u \in Transfers /\ AccountOf[u] = a
      BY DEF TransfersOf
    <3>2. PICK free \in Nat, rev \in Nat, fee \in Nat :
            free = l[u]["FREE"] /\ rev = l[u]["REVERSAL"] /\ fee = l[u]["RETURNED_CHECK_FEE"]
      BY <1>2, <3>1 DEF Ledgers, EntryTypes
    <3>3. PICK p \in Nat, q \in Nat : p = Amount[u] /\ q = ReturnedCheckFee[CorrOf(u)]
      BY <3>1, LedgerAssumption DEF CorrOf
    <3>4. Net(l, u) = p * (free - rev) - q * fee
      BY <3>2, <3>3 DEF Net
    <3>5. /\ k[u]["REVERSAL"] = rev /\ k[u]["RETURNED_CHECK_FEE"] = fee
          /\ k[u]["FREE"] = free \/ k[u]["FREE"] = free + 1
      BY <1>2, <2>1, <2>2, <3>1, <3>2 DEF Ledgers, EntryTypes
    <3>6. p * ((free + 1) - rev) = p * (free - rev) + p
      OBVIOUS
    <3>8. p * (free - rev) \in Int /\ q * fee \in Int
      OBVIOUS
    <3>7. \/ Net(k, u) = p * (free - rev) - q * fee
          \/ Net(k, u) = p * ((free + 1) - rev) - q * fee
      BY <3>3, <3>5 DEF Net
    <3> QED
      BY <3>4, <3>6, <3>7, <3>8
  <2>4. BalanceOf(l, a) \in Int /\ BalanceOf(k, a) \in Int /\ BalanceOf(l, a) <= BalanceOf(k, a)
    BY <1>2, <2>3, BalanceMonotone
  <2> QED
    BY <1>1, <1>3, <1>4, <2>4
<1> QED
  BY <1>5, <1>6

----------------------------------------------------------------------------
(* Every request that is not a return: deposits, operators, triggers.       *)

\* It leaves returns and account statuses alone, posts credits only, returns no
\* transfer, and only a trigger completes one.
OtherStep ==
    /\ UNCHANGED <<retVars, accountStatus>>
    /\ UNCHANGED ledger \/ \E t \in Transfers : PostDoubleEntry(t, "FREE")
    /\ \A t \in Transfers :
          \/ state'[t] = state[t]
          \/ /\ state[t] \notin {"FundsPosted", "Completed", "Returned"}
             /\ state'[t] \notin {"Completed", "Returned"}
          \/ state[t] = "FundsPosted" /\ state'[t] = "Completed" /\ Triggers # {}

\* A move along the table up to FundsPosted.
EarlyMove(t, from, to) ==
    /\ from \notin {"FundsPosted", "Completed", "Returned"}
    /\ to \notin {"Completed", "Returned"}
    /\ UpdateState(t, from, to)

\* A step that makes an early move or none.
LEMMA EarlyStep ==
  ASSUME TypeOK, UNCHANGED <<retVars, accountStatus>>,
         UNCHANGED ledger \/ \E t \in Transfers : PostDoubleEntry(t, "FREE"),
         UNCHANGED state \/ \E t \in Transfers : \E from, to : EarlyMove(t, from, to)
  PROVE  OtherStep
<1>1. CASE UNCHANGED state
  BY <1>1 DEF OtherStep
<1>2. CASE \E t \in Transfers : \E from, to : EarlyMove(t, from, to)
  <2>0. PICK t \in Transfers : \E from, to : EarlyMove(t, from, to)
    BY <1>2
  <2>1. PICK from, to : EarlyMove(t, from, to)
    BY <2>0
  <2>2. \A u \in Transfers :
          state'[u] = state[u] \/ (u = t /\ state[u] = from /\ state'[u] = to)
    BY <2>1 DEF EarlyMove, UpdateState, TypeOK, TablesTypeOK
  <2> QED
    BY <2>1, <2>2 DEF OtherStep, EarlyMove
<1> QED
  BY <1>1, <1>2

\* A deposit posts its credit and moves its transfer up to FundsPosted.
LEMMA DepositOther ==
  ASSUME TypeOK, NEW t \in Transfers, DepositFrame,
         CreateDeposit(t) \/ DepositRuns(t) \/ DepositAborts(t)
  PROVE  OtherStep
<1>1. UNCHANGED <<retVars, accountStatus>>
  BY DEF DepositFrame
<1>2. UNCHANGED ledger \/ PostDoubleEntry(t, "FREE")
  <2>1. CASE CreateDeposit(t) \/ DepositAborts(t)
    BY <2>1 DEF CreateDeposit, DepositAborts
  <2>2. CASE DepositRuns(t)
    BY <2>2
    DEF DepositRuns, ToValidating, ValidatingEvent, CallVSS, VSSRejectCode, VSSReject,
        VSSRejectEvent, ToAnalyzing, AnalyzingEvent, Evaluate, FundingRejectCode, FundingReject,
        FundingRejectEvent, Flag, ToApproved, ApprovedEvent, PostCredit, ToFundsPosted,
        FundsPostedEvent, DepositUpdate, DepositEvent, SetCode, PostFails
  <2> QED
    BY <2>1, <2>2
<1>3. UNCHANGED state \/ \E from, to : EarlyMove(t, from, to)
  <2>1. CASE CreateDeposit(t)
    <3>1. EarlyMove(t, "none", "Requested")
      BY <2>1 DEF CreateDeposit, Create, EarlyMove, UpdateState
    <3> QED
      BY <3>1
  <2>2. CASE DepositAborts(t)
    BY <2>2 DEF DepositAborts
  <2>3. ASSUME NEW here, NEW from, NEW to, NEW event, DepositUpdate(t, here, from, to, event),
               from \notin {"FundsPosted", "Completed", "Returned"},
               to \notin {"Completed", "Returned"}
        PROVE  UNCHANGED state \/ EarlyMove(t, from, to)
    BY <2>3 DEF DepositUpdate, Transition, TransitionFails, EarlyMove
  <2>4. CASE \/ ToValidating(t) \/ VSSReject(t) \/ ToAnalyzing(t) \/ FundingReject(t)
             \/ ToApproved(t) \/ ToFundsPosted(t)
    BY <2>3, <2>4 DEF ToValidating, VSSReject, ToAnalyzing, FundingReject, ToApproved, ToFundsPosted
  <2>5. CASE \/ ValidatingEvent(t) \/ CallVSS(t) \/ VSSRejectCode(t) \/ VSSRejectEvent(t)
             \/ AnalyzingEvent(t) \/ Evaluate(t) \/ FundingRejectCode(t) \/ FundingRejectEvent(t)
             \/ Flag(t) \/ ApprovedEvent(t) \/ PostCredit(t) \/ FundsPostedEvent(t)
    BY <2>5
    DEF ValidatingEvent, CallVSS, VSSRejectCode, VSSRejectEvent, AnalyzingEvent, Evaluate,
        FundingRejectCode, FundingRejectEvent, Flag, ApprovedEvent, PostCredit,
        FundsPostedEvent, DepositEvent, SetCode
  <2> QED
    BY <2>1, <2>2, <2>4, <2>5 DEF DepositRuns
<1> QED
  BY <1>1, <1>2, <1>3, EarlyStep

\* An operator's request, the same.
LEMMA OperatorOther ==
  ASSUME TypeOK, NEW r \in OpRequests, OperatorFrame,
         PostAction(r) \/ OperatorRuns(r) \/ OperatorAborts(r)
  PROVE  OtherStep
<1>0. opc[r] # "idle" => oT[r] \in Transfers
  BY DEF TypeOK, OperatorTypeOK
<1>1. UNCHANGED <<retVars, accountStatus>>
  BY DEF OperatorFrame
<1>2. UNCHANGED ledger \/ \E t \in Transfers : PostDoubleEntry(t, "FREE")
  <2>1. CASE PostAction(r) \/ OperatorAborts(r)
    BY <2>1 DEF PostAction, OperatorAborts
  <2>2. CASE OperatorRuns(r)
    BY <1>0, <2>2
    DEF OperatorRuns, Approve, ApproveEvent, ApprovePost, ApproveFunds, ApproveFundsEvent,
        RejectCode, Reject, RejectEvent, OperatorUpdate, OperatorEvent, PostFails
  <2> QED
    BY <2>1, <2>2
<1>3. UNCHANGED state \/ \E t \in Transfers : \E from, to : EarlyMove(t, from, to)
  <2>1. ASSUME NEW here, here # "idle", NEW from, NEW to, NEW event,
               OperatorUpdate(r, here, from, to, event),
               from \notin {"FundsPosted", "Completed", "Returned"},
               to \notin {"Completed", "Returned"}
        PROVE  UNCHANGED state \/ \E t \in Transfers : EarlyMove(t, from, to)
    BY <1>0, <2>1 DEF OperatorUpdate, Transition, TransitionFails, EarlyMove
  <2>2. CASE Approve(r) \/ ApproveFunds(r) \/ Reject(r)
    <3>1. CASE Approve(r)
      BY <2>1, <3>1 DEF Approve
    <3>2. CASE ApproveFunds(r)
      BY <2>1, <3>2 DEF ApproveFunds
    <3>3. CASE Reject(r)
      <4>1. OperatorUpdate(r, "toRejected", RejectFrom(r), "Rejected", "evRejected")
        BY <3>3 DEF Reject
      <4>2. RejectFrom(r) \notin {"FundsPosted", "Completed", "Returned"}
        BY DEF RejectFrom
      <4> QED
        BY <2>1, <4>1, <4>2
    <3> QED
      BY <2>2, <3>1, <3>2, <3>3
  <2>3. CASE \/ PostAction(r) \/ ApproveEvent(r) \/ ApprovePost(r) \/ ApproveFundsEvent(r)
             \/ RejectCode(r) \/ RejectEvent(r) \/ OperatorAborts(r)
    BY <2>3
    DEF PostAction, ApproveEvent, ApprovePost, ApproveFundsEvent, RejectCode, RejectEvent,
        OperatorAborts, OperatorEvent
  <2> QED
    BY <2>2, <2>3 DEF OperatorRuns
<1> QED
  BY <1>1, <1>2, <1>3, EarlyStep

\* A trigger completes transfers.
LEMMA TriggerOther ==
  ASSUME TypeOK, NEW g \in Triggers, TriggerFrame,
         ListFundsPosted(g) \/ TriggerRuns(g) \/ TriggerAborts(g)
  PROVE  OtherStep
<1>1. UNCHANGED <<retVars, accountStatus, ledger>>
  BY DEF TriggerFrame
<1>2. CASE UNCHANGED state
  BY <1>1, <1>2 DEF OtherStep
<1>3. CASE CompleteTransfer(g)
  <2>1. UNCHANGED state \/ \E t \in Transfers : UpdateState(t, "FundsPosted", "Completed")
    BY <1>3 DEF CompleteTransfer, TypeOK, TriggerTypeOK
  <2>2. CASE \E t \in Transfers : UpdateState(t, "FundsPosted", "Completed")
    <3>1. PICK t \in Transfers : UpdateState(t, "FundsPosted", "Completed")
      BY <2>2
    <3>2. \A u \in Transfers :
            \/ state'[u] = state[u]
            \/ state[u] = "FundsPosted" /\ state'[u] = "Completed"
      BY <3>1 DEF UpdateState, TypeOK, TablesTypeOK
    <3> QED
      BY <1>1, <3>2 DEF OtherStep
  <2> QED
    BY <1>2, <2>1, <2>2
<1>4. CASE \/ ListFundsPosted(g) \/ OpenSettlementFile(g) \/ WriteSettlementFile(g)
           \/ CreateBatch(g) \/ LinkTransfer(g)
  BY <1>2, <1>4 DEF ListFundsPosted, OpenSettlementFile, WriteSettlementFile, CreateBatch,
                    LinkTransfer
<1>5. CASE SubmitBatch(g) \/ AcknowledgeBatch(g) \/ RecordCompletion(g) \/ TriggerAborts(g)
  BY <1>2, <1>5 DEF SubmitBatch, AcknowledgeBatch, RecordCompletion, TriggerAborts
<1> QED
  BY <1>3, <1>4, <1>5 DEF TriggerRuns

\* An account stays tended when the returns of its transfers stay and no other
\* transfer becomes Returned.
LEMMA TendedKept ==
  ASSUME NEW a, Tended(a),
         \A t \in Transfers : ledger[t]["REVERSAL"] = 1 => ledger'[t]["REVERSAL"] = 1,
         \A t \in Transfers, r \in RetRequests :
            AccountOf[t] = a /\ Closing(r, t) => Closing(r, t)',
         \A t \in Transfers :
            state[t] # "Returned" =>
                state'[t] # "Returned" \/ \E r \in RetRequests : Closing(r, t)'
  PROVE  Tended(a)'
<1>1. PICK t \in Transfers : AccountOf[t] = a /\ ledger[t]["REVERSAL"] = 1 /\ Unchecked(t)
  BY DEF Tended
<1>2. Unchecked(t)'
  <2>1. CASE state[t] # "Returned"
    BY <2>1 DEF Unchecked
  <2>2. CASE \E r \in RetRequests : Closing(r, t)
    BY <1>1, <2>2 DEF Unchecked
  <2> QED
    BY <1>1, <2>1, <2>2 DEF Unchecked
<1> QED
  BY <1>1, <1>2 DEF Tended

\* What every step must establish besides the invariant of module CheckDepositProofs.
ReturnStepOK ==
    /\ OneReturner'
    /\ SeenStands'
    /\ FeesArePositive'
    /\ SettledByTriggers'
    /\ ~Faults /\ ReversalsCarriedOn /\ DebtsTended => ReversalsCarriedOn' /\ DebtsTended'

\* The steps of other requests do.
LEMMA OtherKeeps ==
  ASSUME ReturnInv, TypeOK', OtherStep
  PROVE  ReturnStepOK
<1>1. TypeOK /\ MoneyMatchesState
  BY DEF ReturnInv, MoneyInv
<1>2. /\ UNCHANGED <<rpc, rT, rSeen, accountStatus>>
      /\ \A t \in Transfers :
            /\ ledger'[t]["REVERSAL"] = ledger[t]["REVERSAL"]
            /\ ledger'[t]["RETURNED_CHECK_FEE"] = ledger[t]["RETURNED_CHECK_FEE"]
  BY <1>1 DEF OtherStep, retVars, PostDoubleEntry, TypeOK, TablesTypeOK, EntryTypes
<1>3. \A t \in Transfers :
        /\ state[t] \in {"FundsPosted", "Completed"} => state'[t] \in {"FundsPosted", "Completed"}
        /\ state'[t] = "Returned" <=> state[t] = "Returned"
        /\ state[t] = "Completed" => state'[t] = "Completed"
        /\ Triggers = {} /\ state[t] # "Completed" => state'[t] # "Completed"
  BY DEF OtherStep
<1>4. \A r \in RetRequests : rpc[r] # "idle" => rT[r] \in Transfers
  BY <1>1 DEF TypeOK, ReturnTypeOK
<1>5. OneReturner'
  BY <1>2, <1>3, <1>4 DEF ReturnInv, OneReturner, Returning
<1>6. SeenStands'
  BY <1>2, <1>3, <1>4 DEF ReturnInv, SeenStands
<1>7. FeesArePositive' /\ SettledByTriggers'
  BY <1>2, <1>3 DEF ReturnInv, FeesArePositive, SettledByTriggers, CorrOf
<1>8. ASSUME ReversalsCarriedOn PROVE ReversalsCarriedOn'
  BY <1>2, <1>3, <1>8 DEF ReversalsCarriedOn, CorrOf
<1>9. ASSUME DebtsTended PROVE DebtsTended'
  <2> SUFFICES ASSUME NEW a \in Accounts, GetBalance(a)' < 0
      PROVE  accountStatus'[a] = "COLLECTIONS" \/ Tended(a)'
    BY DEF DebtsTended
  <2>1. \/ UNCHANGED ledger
        \/ \E t \in Transfers, type \in EntryTypes :
              PostDoubleEntry(t, type) /\ (type = "FREE" \/ AccountOf[t] # a)
    BY DEF OtherStep, EntryTypes
  <2>2. GetBalance(a) < 0
    BY <1>1, <2>1, DebtIsOld
  <2>3. CASE accountStatus[a] = "COLLECTIONS"
    BY <1>2, <2>3
  <2>4. CASE Tended(a)
    <3>1. \A t \in Transfers, r \in RetRequests : Closing(r, t) => Closing(r, t)'
      BY <1>2 DEF Closing
    <3>2. /\ \A t \in Transfers : ledger[t]["REVERSAL"] = 1 => ledger'[t]["REVERSAL"] = 1
          /\ \A t \in Transfers : state[t] # "Returned" => state'[t] # "Returned"
      BY <1>2, <1>3
    <3> QED
      BY <2>4, <3>1, <3>2, TendedKept
  <2> QED
    BY <1>9, <2>2, <2>3, <2>4 DEF DebtsTended
<1> QED
  BY <1>5, <1>6, <1>7, <1>8, <1>9 DEF ReturnStepOK

----------------------------------------------------------------------------
(* Returns                                                                  *)

\* A return that reverses or charges t no more: settlement has it, or there is no fee.
Relieved(t) == state[t] = "Completed" \/ ReturnedCheckFee[CorrOf(t)] = 0

\* The account needs this return no more: it is not in debt, or flagged.
Looked(a) == ~(GetBalance(a) < 0) \/ accountStatus'[a] = "COLLECTIONS"

\* A step of return r that posts nothing and moves no transfer.
LEMMA QuietKeeps ==
  ASSUME ReturnInv, TypeOK', NEW r \in RetRequests, UNCHANGED <<state, ledger>>,
         NEW pc, pc \notin Returning, rpc' = [rpc EXCEPT ![r] = pc],
         \A q \in RetRequests \ {r} : rT'[q] = rT[q] /\ rSeen'[q] = rSeen[q],
         pc # "idle" /\ rSeen'[r] = "Completed" => state[rT'[r]] \in {"Completed", "Returned"},
         ~Faults /\ rpc[r] \in Returning => Relieved(rT[r]),
         \A a \in Accounts : accountStatus[a] = "COLLECTIONS" => accountStatus'[a] = "COLLECTIONS",
         ~Faults => \A t \in Transfers : Closing(r, t) => Closing(r, t)' \/ Looked(AccountOf[t])
  PROVE  ReturnStepOK
<1>1. TypeOK
  BY DEF ReturnInv, MoneyInv
<1>2. /\ rpc'[r] = pc
      /\ \A q \in RetRequests \ {r} : rpc'[q] = rpc[q]
      /\ \A q \in RetRequests : rpc[q] # "idle" => rT[q] \in Transfers
  BY <1>1 DEF TypeOK, ReturnTypeOK
<1>3. OneReturner'
  BY <1>2 DEF ReturnInv, OneReturner
<1>4. SeenStands'
  BY <1>2 DEF ReturnInv, SeenStands
<1>5. FeesArePositive' /\ SettledByTriggers'
  BY DEF ReturnInv, FeesArePositive, SettledByTriggers, CorrOf
<1>6. ASSUME ~Faults, ReversalsCarriedOn PROVE ReversalsCarriedOn'
  <2> SUFFICES ASSUME NEW t \in Transfers, ledger[t]["REVERSAL"] = 1
      PROVE \/ state[t] \in {"Completed", "Returned"}
            \/ ReturnedCheckFee[CorrOf(t)] = 0
            \/ \E q \in RetRequests : rT'[q] = t /\ rpc'[q] \in Returning
    BY DEF ReversalsCarriedOn, CorrOf, Returning
  <2>1. CASE rT[r] = t /\ rpc[r] \in Returning
    BY <1>6, <2>1 DEF Relieved
  <2>2. CASE ~(rT[r] = t /\ rpc[r] \in Returning)
    BY <1>2, <1>6, <2>2 DEF ReversalsCarriedOn
  <2> QED
    BY <2>1, <2>2
<1>7. ASSUME ~Faults, DebtsTended PROVE DebtsTended'
  <2> SUFFICES ASSUME NEW a \in Accounts, GetBalance(a)' < 0
      PROVE  accountStatus'[a] = "COLLECTIONS" \/ Tended(a)'
    BY DEF DebtsTended
  <2>1. GetBalance(a) < 0
    BY <1>1, DebtIsOld
  <2>2. CASE accountStatus'[a] = "COLLECTIONS"
    BY <2>2
  <2>3. CASE accountStatus'[a] # "COLLECTIONS"
    <3>1. Tended(a)
      BY <1>7, <2>1, <2>3 DEF DebtsTended
    <3>2. ASSUME NEW t \in Transfers, NEW q \in RetRequests, AccountOf[t] = a, Closing(q, t)
          PROVE  Closing(q, t)'
      <4>1. CASE q = r
        BY <1>7, <2>1, <2>3, <3>2, <4>1 DEF Looked
      <4>2. CASE q # r
        BY <1>2, <3>2, <4>2 DEF Closing
      <4> QED
        BY <4>1, <4>2
    <3> QED
      BY <3>1, <3>2, TendedKept
  <2> QED
    BY <2>2, <2>3
<1> QED
  BY <1>3, <1>4, <1>5, <1>6, <1>7 DEF ReturnStepOK

\* A posting of return r: its transfer is tended by r itself, and the balances of other
\* accounts do not change.
LEMMA PostedDebts ==
  ASSUME ReturnInv, TypeOK', NEW r \in RetRequests, NEW t \in Transfers, t = rT[r],
         NEW type \in EntryTypes, PostDoubleEntry(t, type), UNCHANGED <<state, accountStatus>>,
         \A q \in RetRequests : rT'[q] = rT[q],
         \A q \in RetRequests \ {r} : rpc'[q] = rpc[q],
         rpc[r] \in {"reversal", "fee"}, state[t] # "Returned",
         ledger'[t]["REVERSAL"] = 1,
         \A u \in Transfers : ledger[u]["REVERSAL"] = 1 => ledger'[u]["REVERSAL"] = 1,
         DebtsTended
  PROVE  DebtsTended'
<1> SUFFICES ASSUME NEW a \in Accounts, GetBalance(a)' < 0
    PROVE  accountStatus'[a] = "COLLECTIONS" \/ Tended(a)'
  BY DEF DebtsTended
<1>1. CASE AccountOf[t] = a
  BY <1>1 DEF Tended, Unchecked
<1>2. CASE AccountOf[t] # a
  <2>1. GetBalance(a) < 0
    BY <1>2, DebtIsOld DEF ReturnInv, MoneyInv
  <2>2. \A u \in Transfers, q \in RetRequests : Closing(q, u) => Closing(q, u)'
    BY DEF Closing
  <2>3. Tended(a) => Tended(a)'
    BY <2>2, TendedKept
  <2> QED
    BY <2>1, <2>3 DEF DebtsTended
<1> QED
  BY <1>1, <1>2

\* The reversal is posted: the constraint lets one return through, and it is the one
\* that goes on to the fee.
LEMMA ReversalKeeps ==
  ASSUME ReturnInv, TypeOK', NEW r \in RetRequests, ReturnFrame,
         rpc[r] = "reversal", PostDoubleEntry(rT[r], "REVERSAL"), RetGoto(r, "fee"),
         UNCHANGED <<state, accountStatus>>
  PROVE  ReturnStepOK
<1>1. PICK t \in Transfers : t = rT[r]
  BY DEF ReturnInv, MoneyInv, TypeOK, ReturnTypeOK
<1>2. /\ TypeOK /\ MoneyMatchesState /\ ReturnProgress
      /\ state[t] \in {"FundsPosted", "Completed", "Returned"}
  BY <1>1 DEF ReturnInv, MoneyInv, ReturnProgress
<1>3. /\ rpc'[r] = "fee" /\ \A q \in RetRequests \ {r} : rpc'[q] = rpc[q]
      /\ \A q \in RetRequests : rT'[q] = rT[q] /\ rSeen'[q] = rSeen[q]
      /\ \A q \in RetRequests : rpc[q] # "idle" => rT[q] \in Transfers
  BY <1>2 DEF RetGoto, TypeOK, ReturnTypeOK
<1>4. /\ ledger[t]["REVERSAL"] = 0 /\ ledger'[t]["REVERSAL"] = 1
      /\ \A u \in Transfers : u # t => ledger'[u]["REVERSAL"] = ledger[u]["REVERSAL"]
      /\ \A u \in Transfers : ledger'[u]["RETURNED_CHECK_FEE"] = ledger[u]["RETURNED_CHECK_FEE"]
  BY <1>1, <1>2 DEF PostDoubleEntry, CanPost, TypeOK, TablesTypeOK, EntryTypes
<1>5. ledger[t]["RETURNED_CHECK_FEE"] = 0 /\ state[t] \in {"FundsPosted", "Completed"}
  <2>1. ledger[t]["RETURNED_CHECK_FEE"] \in Nat
    BY <1>2 DEF TypeOK, TablesTypeOK, EntryTypes
  <2>2. ledger[t]["RETURNED_CHECK_FEE"] <= 0
    BY <1>2, <1>4 DEF MoneyMatchesState
  <2>3. state[t] = "Returned" => ledger[t]["RETURNED_CHECK_FEE"] = 1
    BY <1>2 DEF MoneyMatchesState
  <2> QED
    BY <1>2, <2>1, <2>2, <2>3
<1>6. \A q \in RetRequests : rT[q] = t => rpc[q] \notin Returning
  BY <1>2, <1>4, <1>5 DEF ReturnProgress, Returning
<1>7. OneReturner'
  BY <1>1, <1>3, <1>4, <1>5, <1>6 DEF ReturnInv, OneReturner, Returning
<1>8. SeenStands'
  BY <1>1, <1>3 DEF ReturnInv, SeenStands
<1>9. FeesArePositive' /\ SettledByTriggers'
  BY <1>4 DEF ReturnInv, FeesArePositive, SettledByTriggers, CorrOf
<1>10. ASSUME ReversalsCarriedOn PROVE ReversalsCarriedOn'
  <2> SUFFICES ASSUME NEW u \in Transfers, ledger'[u]["REVERSAL"] = 1
      PROVE \/ state[u] \in {"Completed", "Returned"}
            \/ ReturnedCheckFee[CorrOf(u)] = 0
            \/ \E q \in RetRequests : rT'[q] = u /\ rpc'[q] \in Returning
    BY DEF ReversalsCarriedOn, CorrOf, Returning
  <2>1. CASE u = t
    BY <1>1, <1>3, <2>1 DEF Returning
  <2>2. CASE u # t
    BY <1>1, <1>3, <1>4, <1>10, <2>2 DEF ReversalsCarriedOn
  <2> QED
    BY <2>1, <2>2
<1>11. ASSUME DebtsTended PROVE DebtsTended'
  <2>1. /\ PostDoubleEntry(t, "REVERSAL") /\ "REVERSAL" \in EntryTypes
        /\ state[t] # "Returned" /\ rpc[r] \in {"reversal", "fee"}
        /\ \A u \in Transfers : ledger[u]["REVERSAL"] = 1 => ledger'[u]["REVERSAL"] = 1
    BY <1>1, <1>4, <1>5 DEF EntryTypes
  <2> QED
    BY <1>1, <1>3, <1>4, <1>11, <2>1, PostedDebts
<1> QED
  BY <1>7, <1>8, <1>9, <1>10, <1>11 DEF ReturnStepOK

\* The fee is charged, by the return that reversed.
LEMMA FeeKeeps ==
  ASSUME ReturnInv, TypeOK', NEW r \in RetRequests, ReturnFrame,
         rpc[r] = "fee", PostDoubleEntry(rT[r], "RETURNED_CHECK_FEE"), RetGoto(r, "toReturned"),
         UNCHANGED <<state, accountStatus>>
  PROVE  ReturnStepOK
<1>1. PICK t \in Transfers : t = rT[r]
  BY DEF ReturnInv, MoneyInv, TypeOK, ReturnTypeOK
<1>2. TypeOK /\ MoneyMatchesState /\ ReturnProgress /\ ledger[t]["REVERSAL"] = 1
  BY <1>1 DEF ReturnInv, MoneyInv, ReturnProgress
<1>3. /\ rpc'[r] = "toReturned" /\ \A q \in RetRequests \ {r} : rpc'[q] = rpc[q]
      /\ \A q \in RetRequests : rT'[q] = rT[q] /\ rSeen'[q] = rSeen[q]
      /\ \A q \in RetRequests : rpc[q] # "idle" => rT[q] \in Transfers
  BY <1>2 DEF RetGoto, TypeOK, ReturnTypeOK
<1>4. /\ ledger[t]["RETURNED_CHECK_FEE"] = 0 /\ ledger'[t]["RETURNED_CHECK_FEE"] = 1
      /\ \A u \in Transfers :
            u # t => ledger'[u]["RETURNED_CHECK_FEE"] = ledger[u]["RETURNED_CHECK_FEE"]
      /\ \A u \in Transfers : ledger'[u]["REVERSAL"] = ledger[u]["REVERSAL"]
      /\ ReturnedCheckFee[CorrOf(t)] > 0
  BY <1>1, <1>2 DEF PostDoubleEntry, CanPost, EntryAmount, TypeOK, TablesTypeOK, EntryTypes
<1>5. /\ state[t] \in {"FundsPosted", "Completed"}
      /\ \A q \in RetRequests \ {r} : rT[q] = t => rpc[q] \notin Returning
  BY <1>1 DEF ReturnInv, OneReturner, Returning
<1>6. OneReturner'
  BY <1>1, <1>3, <1>4, <1>5 DEF ReturnInv, OneReturner, Returning
<1>7. SeenStands'
  BY <1>1, <1>3 DEF ReturnInv, SeenStands
<1>8. FeesArePositive' /\ SettledByTriggers'
  BY <1>4 DEF ReturnInv, FeesArePositive, SettledByTriggers, CorrOf
<1>9. ASSUME ReversalsCarriedOn PROVE ReversalsCarriedOn'
  <2> SUFFICES ASSUME NEW u \in Transfers, ledger[u]["REVERSAL"] = 1
      PROVE \/ state[u] \in {"Completed", "Returned"}
            \/ ReturnedCheckFee[CorrOf(u)] = 0
            \/ \E q \in RetRequests : rT'[q] = u /\ rpc'[q] \in Returning
    BY <1>4 DEF ReversalsCarriedOn, CorrOf, Returning
  <2>1. CASE u = t
    BY <1>1, <1>3, <2>1 DEF Returning
  <2>2. CASE u # t
    BY <1>1, <1>3, <1>9, <2>2 DEF ReversalsCarriedOn
  <2> QED
    BY <2>1, <2>2
<1>10. ASSUME DebtsTended PROVE DebtsTended'
  <2>1. /\ PostDoubleEntry(t, "RETURNED_CHECK_FEE") /\ "RETURNED_CHECK_FEE" \in EntryTypes
        /\ state[t] # "Returned" /\ rpc[r] \in {"reversal", "fee"}
        /\ ledger'[t]["REVERSAL"] = 1
        /\ \A u \in Transfers : ledger[u]["REVERSAL"] = 1 => ledger'[u]["REVERSAL"] = 1
    BY <1>1, <1>2, <1>4, <1>5 DEF EntryTypes
  <2> QED
    BY <1>1, <1>3, <1>10, <2>1, PostedDebts
<1> QED
  BY <1>6, <1>7, <1>8, <1>9, <1>10 DEF ReturnStepOK

\* The transfer becomes Returned, and its return has yet to look at the balance.
LEMMA MoveKeeps ==
  ASSUME ReturnInv, TypeOK', NEW r \in RetRequests, ReturnFrame,
         rpc[r] = "toReturned", UpdateState(rT[r], rSeen[r], "Returned"), RetGoto(r, "record"),
         UNCHANGED <<ledger, accountStatus>>
  PROVE  ReturnStepOK
<1>1. PICK t \in Transfers : t = rT[r]
  BY DEF ReturnInv, MoneyInv, TypeOK, ReturnTypeOK
<1>2. TypeOK
  BY DEF ReturnInv, MoneyInv
<1>3. /\ rpc'[r] = "record" /\ \A q \in RetRequests \ {r} : rpc'[q] = rpc[q]
      /\ \A q \in RetRequests : rT'[q] = rT[q] /\ rSeen'[q] = rSeen[q]
      /\ \A q \in RetRequests : rpc[q] # "idle" => rT[q] \in Transfers
  BY <1>2 DEF RetGoto, TypeOK, ReturnTypeOK
<1>4. state'[t] = "Returned" /\ \A u \in Transfers : u # t => state'[u] = state[u]
  BY <1>1, <1>2 DEF UpdateState, TypeOK, TablesTypeOK
<1>5. \A q \in RetRequests \ {r} : rT[q] = t => rpc[q] \notin Returning
  BY <1>1 DEF ReturnInv, OneReturner, Returning
<1>6. OneReturner'
  BY <1>1, <1>3, <1>4, <1>5 DEF ReturnInv, OneReturner, Returning
<1>7. SeenStands'
  BY <1>1, <1>3, <1>4 DEF ReturnInv, SeenStands
<1>8. FeesArePositive' /\ SettledByTriggers'
  BY <1>4 DEF ReturnInv, FeesArePositive, SettledByTriggers, CorrOf
<1>9. ASSUME ReversalsCarriedOn PROVE ReversalsCarriedOn'
  <2> SUFFICES ASSUME NEW u \in Transfers, ledger[u]["REVERSAL"] = 1
      PROVE \/ state'[u] \in {"Completed", "Returned"}
            \/ ReturnedCheckFee[CorrOf(u)] = 0
            \/ \E q \in RetRequests : rT'[q] = u /\ rpc'[q] \in Returning
    BY DEF ReversalsCarriedOn, CorrOf, Returning
  <2>1. CASE u = t
    BY <1>4, <2>1
  <2>2. CASE u # t
    BY <1>1, <1>3, <1>4, <1>9, <2>2 DEF ReversalsCarriedOn
  <2> QED
    BY <2>1, <2>2
<1>10. ASSUME DebtsTended PROVE DebtsTended'
  <2> SUFFICES ASSUME NEW a \in Accounts, GetBalance(a)' < 0
      PROVE  accountStatus'[a] = "COLLECTIONS" \/ Tended(a)'
    BY DEF DebtsTended
  <2>1. GetBalance(a) < 0
    BY <1>2, DebtIsOld
  <2>2. \A u \in Transfers, q \in RetRequests : Closing(q, u) => Closing(q, u)'
    BY <1>3 DEF Closing
  <2>3. Closing(r, t)'
    BY <1>1, <1>3 DEF Closing
  <2>4. \A u \in Transfers :
          state[u] # "Returned" =>
              state'[u] # "Returned" \/ \E q \in RetRequests : Closing(q, u)'
    BY <1>4, <2>3
  <2>5. Tended(a) => Tended(a)'
    BY <2>2, <2>4, TendedKept
  <2> QED
    BY <1>10, <2>1, <2>5 DEF DebtsTended
<1> QED
  BY <1>6, <1>7, <1>8, <1>9, <1>10 DEF ReturnStepOK

\* Every step of POST /returns.
LEMMA ReturnKeeps ==
  ASSUME ReturnInv, TypeOK', NEW r \in RetRequests, ReturnFrame,
         ProcessReturn(r) \/ ReturnRuns(r) \/ ReturnAborts(r)
  PROVE  ReturnStepOK
<1>0. /\ TypeOK
      /\ rT \in [RetRequests -> Transfers \union {None}]
      /\ rSeen \in [RetRequests -> {"FundsPosted", "Completed", None}]
      /\ rpc \in [RetRequests -> ReturnPCs]
      /\ rpc[r] # "idle" => rT[r] \in Transfers /\ rSeen[r] # None
  BY DEF ReturnInv, MoneyInv, TypeOK, ReturnTypeOK
<1>1. ASSUME NEW pc \in ReturnPCs, pc \notin Returning, RetGoto(r, pc)
      PROVE  /\ rpc' = [rpc EXCEPT ![r] = pc]
             /\ \A q \in RetRequests \ {r} : rT'[q] = rT[q] /\ rSeen'[q] = rSeen[q]
             /\ pc # "idle" => rT'[r] = rT[r] /\ rSeen'[r] = rSeen[r]
  BY <1>0, <1>1 DEF RetGoto
<1>2. ASSUME RetGoto(r, "idle"), UNCHANGED <<state, ledger, accountStatus>>,
             ~Faults /\ rpc[r] \in Returning => Relieved(rT[r]),
             ~Faults => \A t \in Transfers : Closing(r, t) => Looked(AccountOf[t])
      PROVE  ReturnStepOK
  <2>1. /\ rpc' = [rpc EXCEPT ![r] = "idle"]
        /\ \A q \in RetRequests \ {r} : rT'[q] = rT[q] /\ rSeen'[q] = rSeen[q]
    BY <1>1, <1>2 DEF ReturnPCs, Returning
  <2>2. "idle" \notin Returning
    BY DEF Returning
  <2> QED
    BY <1>2, <2>1, <2>2, QuietKeeps
<1>3. CASE ProcessReturn(r)
  <2>1. PICK t \in Transfers :
          /\ rT' = [rT EXCEPT ![r] = t] /\ rSeen' = [rSeen EXCEPT ![r] = state[t]]
          /\ rpc[r] = "idle" /\ rpc' = [rpc EXCEPT ![r] = "reversal"]
          /\ UNCHANGED <<state, ledger, accountStatus>>
    BY <1>3 DEF ProcessReturn
  <2>2. /\ \A q \in RetRequests \ {r} : rT'[q] = rT[q] /\ rSeen'[q] = rSeen[q]
        /\ rSeen'[r] = state[rT'[r]] /\ "reversal" \notin Returning
        /\ rpc[r] \notin Returning /\ \A u : ~Closing(r, u)
    BY <1>0, <2>1 DEF Closing, Returning
  <2>3. rSeen'[r] = "Completed" => state[rT'[r]] \in {"Completed", "Returned"}
    BY <2>2
  <2> QED
    BY <2>1, <2>2, <2>3, QuietKeeps
<1>4. CASE PostReversal(r)
  <2>1. CASE PostDoubleEntry(rT[r], "REVERSAL") /\ RetGoto(r, "fee")
    BY <1>4, <2>1, ReversalKeeps DEF PostReversal, PostReturnEntry
  <2>2. CASE PostFails(rT[r], "REVERSAL") /\ RetGoto(r, "idle")
    BY <1>2, <1>4, <2>2 DEF PostReversal, PostReturnEntry, PostFails, Closing, Returning
  <2> QED
    BY <1>4, <2>1, <2>2 DEF PostReversal, PostReturnEntry
<1>5. CASE PostFee(r)
  <2>1. CASE PostDoubleEntry(rT[r], "RETURNED_CHECK_FEE") /\ RetGoto(r, "toReturned")
    BY <1>5, <2>1, FeeKeeps DEF PostFee, PostReturnEntry
  <2>2. CASE PostFails(rT[r], "RETURNED_CHECK_FEE") /\ RetGoto(r, "idle")
    <3>1. rpc[r] = "fee" /\ UNCHANGED <<state, ledger, accountStatus>>
      BY <1>5, <2>2 DEF PostFee, PostReturnEntry, PostFails
    <3>2. PICK t \in Transfers : t = rT[r]
      BY <1>0, <3>1
    <3>3. ledger[t]["RETURNED_CHECK_FEE"] = 0
      BY <3>1, <3>2 DEF ReturnInv, OneReturner, Returning
    <3>4. ReturnedCheckFee[CorrOf(t)] \in Nat
      BY LedgerAssumption DEF CorrOf
    <3>5. Relieved(rT[r])
      BY <2>2, <3>2, <3>3, <3>4 DEF PostFails, CanPost, EntryAmount, Relieved
    <3>6. \A u : ~Closing(r, u)
      BY <3>1 DEF Closing
    <3> QED
      BY <1>2, <2>2, <3>1, <3>5, <3>6
  <2> QED
    BY <1>5, <2>1, <2>2 DEF PostFee, PostReturnEntry
<1>6. CASE ToReturned(r)
  <2>1. CASE UpdateState(rT[r], rSeen[r], "Returned") /\ RetGoto(r, "record")
    BY <1>6, <2>1, MoveKeeps DEF ToReturned
  <2>2. CASE state[rT[r]] # rSeen[r] /\ UNCHANGED state /\ RetGoto(r, "idle")
    <3>1. rpc[r] = "toReturned" /\ UNCHANGED <<state, ledger, accountStatus>>
      BY <1>6, <2>2 DEF ToReturned
    <3>2. state[rT[r]] \in {"FundsPosted", "Completed"} /\ rSeen[r] \in {"FundsPosted", "Completed"}
      BY <1>0, <3>1 DEF ReturnInv, OneReturner, Returning
    <3>3. rSeen[r] = "Completed" => state[rT[r]] \in {"Completed", "Returned"}
      BY <3>1 DEF ReturnInv, SeenStands
    <3>4. Relieved(rT[r])
      BY <2>2, <3>2, <3>3 DEF Relieved
    <3>5. \A u : ~Closing(r, u)
      BY <3>1 DEF Closing
    <3> QED
      BY <1>2, <2>2, <3>1, <3>4, <3>5
  <2> QED
    BY <1>6, <2>1, <2>2 DEF ToReturned
<1>7. ASSUME NEW here \in {"record", "balance"}, NEW pc \in {"balance", "collections"},
             rpc[r] = here, RetGoto(r, pc), UNCHANGED <<state, ledger, accountStatus>>
      PROVE  ReturnStepOK
  <2>1. pc \in ReturnPCs /\ pc \notin Returning /\ pc # "idle" /\ rpc[r] \notin Returning
    BY <1>7 DEF ReturnPCs, Returning
  <2>2. /\ rpc' = [rpc EXCEPT ![r] = pc] /\ rT'[r] = rT[r] /\ rSeen'[r] = rSeen[r]
        /\ \A q \in RetRequests \ {r} : rT'[q] = rT[q] /\ rSeen'[q] = rSeen[q]
    BY <1>1, <1>7, <2>1
  <2>3. \A t \in Transfers : Closing(r, t) => Closing(r, t)'
    BY <1>0, <1>7, <2>2 DEF Closing
  <2>4. rSeen'[r] = "Completed" => state[rT'[r]] \in {"Completed", "Returned"}
    BY <1>7, <2>2 DEF ReturnInv, SeenStands
  <2> QED
    BY <1>7, <2>1, <2>2, <2>3, <2>4, QuietKeeps
<1>8. CASE RecordReturn(r)
  BY <1>7, <1>8 DEF RecordReturn
<1>9. CASE CheckBalance(r)
  <2>1. CASE GetBalance(AccountOf[rT[r]]) < 0
    BY <1>7, <1>9, <2>1 DEF CheckBalance
  <2>2. CASE ~(GetBalance(AccountOf[rT[r]]) < 0)
    <3>1. \A t : Closing(r, t) => Looked(AccountOf[t])
      BY <2>2 DEF Closing, Looked
    <3> QED
      BY <1>2, <1>9, <2>2, <3>1 DEF CheckBalance, Returning
  <2> QED
    BY <2>1, <2>2
<1>10. CASE FlagCollections(r)
  <2>1. /\ rpc[r] = "collections" /\ RetGoto(r, "idle") /\ UNCHANGED <<state, ledger>>
        /\ accountStatus' = [accountStatus EXCEPT ![AccountOf[rT[r]]] = "COLLECTIONS"]
    BY <1>10 DEF FlagCollections, SetAccountStatus
  <2>2. rpc[r] \notin Returning /\ "idle" \notin Returning /\ "idle" \in ReturnPCs
    BY <2>1 DEF Returning, ReturnPCs
  <2>3. accountStatus \in [Accounts -> Statuses] /\ \A t \in Transfers : AccountOf[t] \in Accounts
    BY <1>0, LedgerAssumption DEF TypeOK, TablesTypeOK
  <2>4. \A a \in Accounts : accountStatus[a] = "COLLECTIONS" => accountStatus'[a] = "COLLECTIONS"
    BY <2>1, <2>3
  <2>5. \A t \in Transfers : Closing(r, t) => Looked(AccountOf[t])
    BY <2>1, <2>3 DEF Closing, Looked
  <2>6. /\ rpc' = [rpc EXCEPT ![r] = "idle"]
        /\ \A q \in RetRequests \ {r} : rT'[q] = rT[q] /\ rSeen'[q] = rSeen[q]
    BY <1>1, <2>1, <2>2
  <2> QED
    BY <2>1, <2>2, <2>4, <2>5, <2>6, QuietKeeps
<1>11. CASE ReturnAborts(r)
  BY <1>2, <1>11 DEF ReturnAborts
<1> QED
  BY <1>3, <1>4, <1>5, <1>6, <1>8, <1>9, <1>10, <1>11 DEF ReturnRuns

----------------------------------------------------------------------------
\* The invariant holds of the empty tables: no account has a transfer yet.
LEMMA InitDebt == Init => DebtInv
<1> SUFFICES ASSUME Init PROVE DebtInv
  OBVIOUS
<1>1. MoneyInv
  BY InitMoney
<1>2. ReturnInv /\ ReversalsCarriedOn
  BY <1>1 DEF Init, DBInit, ReturnInit, LedgerInit, EntryTypes, ReturnInv, OneReturner, Returning,
              SeenStands, FeesArePositive, SettledByTriggers, ReversalsCarriedOn
<1>3. DebtsTended
  <2>1. ASSUME NEW a \in Accounts PROVE ~(GetBalance(a) < 0)
    <3>1. \A t \in TransfersOf(a) : ledger[t]["RETURNED_CHECK_FEE"] = 0
      BY DEF Init, DBInit, LedgerInit, EntryTypes, TransfersOf
    <3> QED
      BY <1>1, <3>1, NoFeeNoDebt DEF MoneyInv
  <2> QED
    BY <2>1 DEF DebtsTended
<1> QED
  BY <1>2, <1>3 DEF DebtInv

\* Any step of the server keeps it.
LEMMA NextDebt ==
  ASSUME DebtInv, [Next]_vars
  PROVE  DebtInv'
<1>1. ReturnInv /\ MoneyInv /\ TypeOK
  BY DEF DebtInv, ReturnInv, MoneyInv
<1>2. MoneyInv' /\ TypeOK'
  <2>1. MoneyInv'
    BY <1>1, NextMoney
  <2> QED
    BY <2>1 DEF MoneyInv
<1>3. ASSUME UNCHANGED <<state, ledger, accountStatus, retVars>> PROVE OtherStep
  BY <1>3 DEF OtherStep
<1>4. ReturnStepOK
  <2>1. CASE \E r \in RetRequests :
                ReturnFrame /\ (ProcessReturn(r) \/ ReturnRuns(r) \/ ReturnAborts(r))
    BY <1>1, <1>2, <2>1, ReturnKeeps
  <2>2. CASE \E t \in Transfers :
                DepositFrame /\ (CreateDeposit(t) \/ DepositRuns(t) \/ DepositAborts(t))
    BY <1>1, <1>2, <2>2, DepositOther, OtherKeeps
  <2>3. CASE \E r \in OpRequests :
                OperatorFrame /\ (PostAction(r) \/ OperatorRuns(r) \/ OperatorAborts(r))
    BY <1>1, <1>2, <2>3, OperatorOther, OtherKeeps
  <2>4. CASE \E g \in Triggers :
                TriggerFrame /\ (ListFundsPosted(g) \/ TriggerRuns(g) \/ TriggerAborts(g))
    BY <1>1, <1>2, <2>4, TriggerOther, OtherKeeps
  <2>5. CASE HealthFrame \/ UNCHANGED vars
    BY <1>1, <1>2, <1>3, <2>5, OtherKeeps DEF HealthFrame, vars
  <2> QED
    BY <2>1, <2>2, <2>3, <2>4, <2>5 DEF Next, DepositStep, OperatorStep, ReturnStep, TriggerStep
<1> QED
  BY <1>2, <1>4 DEF ReturnStepOK, DebtInv, ReturnInv

\* The inductive invariant holds throughout.
LEMMA DebtInvariant == Spec => []DebtInv
<1>1. DebtInv /\ [Next]_vars => DebtInv'
  BY NextDebt
<1> QED
  BY <1>1, InitDebt, PTL DEF Spec

\* However many returns of a transfer run, and wherever they are cut off, one of them
\* at most has reversed it and has the fee and the state to do, and nobody takes the
\* funded transfer away from it unless to settle it.
THEOREM SingleReturner == Spec => []OneReturner
<1>1. DebtInv => OneReturner
  BY DEF DebtInv, ReturnInv
<1> QED
  BY <1>1, DebtInvariant, PTL

\* Where no request is cut off, an account in debt whose returns have answered is in
\* COLLECTIONS, unless one of its transfers was settled under the return that reversed
\* it: that interleaving, which loses the return, is the only way to an unflagged debt.
THEOREM DebtsAreFlagged == Spec => [](~Faults => DebtFlaggedUnlessSettled)
<1>1. DebtInv /\ ~Faults => DebtFlaggedUnlessSettled
  <2> SUFFICES ASSUME DebtInv, ~Faults,
                      NEW a \in Accounts, GetBalance(a) < 0, ~ReturnsInFlight(a),
                      accountStatus[a] # "COLLECTIONS"
      PROVE  \E t \in Transfers :
                AccountOf[t] = a /\ state[t] = "Completed" /\ ledger[t]["REVERSAL"] = 1
    BY DEF DebtFlaggedUnlessSettled
  <2>1. /\ TypeOK /\ MoneyMatchesState /\ FeesArePositive
        /\ ReversalsCarriedOn /\ DebtsTended
    BY DEF DebtInv, ReturnInv, MoneyInv
  <2>2. PICK t \in Transfers : AccountOf[t] = a /\ ledger[t]["REVERSAL"] = 1 /\ Unchecked(t)
    BY <2>1 DEF DebtsTended, Tended
  <2>3. \A r \in RetRequests : rT[r] = t => rpc[r] = "idle"
    BY <2>2 DEF ReturnsInFlight
  <2>4. state[t] # "Returned"
    BY <2>2, <2>3 DEF Unchecked, Closing
  <2>5. state[t] = "Completed" \/ ReturnedCheckFee[CorrOf(t)] = 0
    BY <2>1, <2>2, <2>3, <2>4 DEF ReversalsCarriedOn, Returning
  <2>6. ReturnedCheckFee[CorrOf(t)] # 0
    <3>1. PICK u \in TransfersOf(a) : ledger[u]["RETURNED_CHECK_FEE"] # 0
      BY <2>1, NoFeeNoDebt
    <3>2. u \in Transfers /\ CorrOf(u) = CorrOf(t)
      BY <2>2 DEF TransfersOf, CorrOf
    <3> QED
      BY <2>1, <3>1, <3>2 DEF FeesArePositive
  <2> QED
    BY <2>2, <2>5, <2>6
<1> QED
  BY <1>1, DebtInvariant, PTL

\* Where no trigger runs, there is no such transfer: every debt is flagged.
THEOREM NegativeIsFlagged == Spec => [](~Faults /\ Triggers = {} => NegativeBalanceFlagged)
<1>1. DebtInv /\ DebtFlaggedUnlessSettled /\ Triggers = {} => NegativeBalanceFlagged
  BY DEF DebtInv, ReturnInv, SettledByTriggers, DebtFlaggedUnlessSettled, NegativeBalanceFlagged
<1> QED
  BY <1>1, DebtInvariant, DebtsAreFlagged, PTL
=============================================================================
