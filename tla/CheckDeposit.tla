---------------------------- MODULE CheckDeposit ----------------------------
(***************************************************************************)
(* The API server: deposit, operator, return and settlement requests run   *)
(* concurrently on the shared tables, one statement at a time.             *)
(***************************************************************************)
EXTENDS DepositFlow, OperatorReview, ReturnHandler, HealthTrigger

vars == <<state, errorCode, reviewReason, events, ledger, accountStatus,
          notifications, depVars, opVars, retVars, setVars, healthVars>>

Init ==
    /\ DBInit
    /\ DepositInit
    /\ OperatorInit
    /\ ReturnInit
    /\ SettlementInit
    /\ HealthInit

(* What each kind of request leaves alone *)

DepositFrame ==
    UNCHANGED <<accountStatus, notifications, opVars, retVars, setVars, healthVars>>

OperatorFrame ==
    UNCHANGED <<reviewReason, accountStatus, notifications, depVars, retVars, setVars,
                healthVars>>

ReturnFrame ==
    UNCHANGED <<errorCode, reviewReason, depVars, opVars, setVars, healthVars>>

TriggerFrame ==
    UNCHANGED <<errorCode, reviewReason, ledger, accountStatus, notifications,
                depVars, opVars, retVars, healthVars>>

HealthFrame ==
    UNCHANGED <<state, errorCode, reviewReason, events, ledger, accountStatus,
                notifications, depVars, opVars, retVars, batchFile, settledAt, fileData,
                torn, presented, spc, sListed, sCorr, sBatch, sQueue, sTids, sDone>>

DepositStep(t) == DepositRuns(t) /\ DepositFrame

OperatorStep(r) == OperatorRuns(r) /\ OperatorFrame

ReturnStep(r) == ReturnRuns(r) /\ ReturnFrame

TriggerStep(g) == TriggerRuns(g) /\ TriggerFrame

Next ==
    \/ \E t \in Transfers :
          \/ CreateDeposit(t) /\ DepositFrame
          \/ DepositStep(t)
          \/ DepositAborts(t) /\ DepositFrame
    \/ \E r \in OpRequests :
          \/ PostAction(r) /\ OperatorFrame
          \/ OperatorStep(r)
          \/ OperatorAborts(r) /\ OperatorFrame
    \/ \E r \in RetRequests :
          \/ ProcessReturn(r) /\ ReturnFrame
          \/ ReturnStep(r)
          \/ ReturnAborts(r) /\ ReturnFrame
    \/ \E g \in Triggers :
          \/ ListFundsPosted(g) /\ TriggerFrame
          \/ TriggerStep(g)
          \/ TriggerAborts(g) /\ TriggerFrame
    \/ \E h \in HealthRequests :
          \/ SelectReady(h) /\ HealthFrame
          \/ HealthRuns(h) /\ HealthFrame
          \/ HealthAborts(h) /\ HealthFrame

Spec == Init /\ [][Next]_vars

\* A request that has started is a goroutine: it is scheduled until it answers.
\* No fairness is asked of clients, operators or the bank.
Fairness ==
    /\ \A t \in Transfers : WF_vars(DepositStep(t))
    /\ \A r \in OpRequests : WF_vars(OperatorStep(r))
    /\ \A r \in RetRequests : WF_vars(ReturnStep(r))
    /\ \A g \in Triggers : WF_vars(TriggerStep(g))

FairSpec == Spec /\ Fairness

----------------------------------------------------------------------------
(* Types *)

ErrorCodes ==
    {None, "VSS_IQA_BLUR", "VSS_IQA_GLARE", "VSS_DUPLICATE_DETECTED",
     "FS_ACCOUNT_INELIGIBLE", "FS_OVER_DEPOSIT_LIMIT", "OPERATOR_REASON"}

ReviewReasons == {None, "VSS_MICR_READ_FAIL", "VSS_AMOUNT_MISMATCH"}

TablesTypeOK ==
    /\ state \in [Transfers -> TransferStates \union {"none"}]
    /\ errorCode \in [Transfers -> ErrorCodes]
    /\ reviewReason \in [Transfers -> ReviewReasons]
    /\ events \subseteq Transfers \X TransferStates \X TransferStates
    /\ ledger \in [Transfers -> [EntryTypes -> Nat]]
    /\ accountStatus \in [Accounts -> Statuses]
    /\ notifications \subseteq Transfers

DepositTypeOK ==
    /\ dpc \in [Transfers -> DepositPCs]
    /\ dStatus \in [Transfers -> Statuses \union {None}]
    /\ dVSS \in [Transfers -> VSSOutcomes \union {None}]

OperatorTypeOK ==
    /\ opc \in [OpRequests -> OperatorPCs]
    /\ oT \in [OpRequests -> Transfers \union {None}]
    /\ oSeen \in [OpRequests -> {"Validating", "Analyzing", None}]
    /\ \A r \in OpRequests : opc[r] # "idle" => oT[r] \in Transfers

ReturnTypeOK ==
    /\ rpc \in [RetRequests -> ReturnPCs]
    /\ rT \in [RetRequests -> Transfers \union {None}]
    /\ rSeen \in [RetRequests -> {"FundsPosted", "Completed", None}]
    /\ \A r \in RetRequests :
          rpc[r] # "idle" => rT[r] \in Transfers /\ rSeen[r] # None

SettlementTypeOK ==
    /\ batchStatus \in [Batches -> BatchStatuses]
    /\ batchFile \in [Batches -> Files \union {None}]
    /\ batchOf \in [Transfers -> Batches \union {None}]
    /\ settledAt \subseteq Transfers
    /\ fileData \in [Files -> SUBSET Transfers]
    /\ torn \subseteq Files
    /\ presented \subseteq Batches \X Transfers

TriggerTypeOK ==
    /\ spc \in [Triggers -> TriggerPCs]
    /\ sListed \in [Triggers -> SUBSET Transfers]
    /\ sCorr \in [Triggers -> Correspondents \union {None}]
    /\ sBatch \in [Triggers -> Batches \union {None}]
    /\ sQueue \in [Triggers -> Seq(Batches)]
    /\ sTids \in [Triggers -> SUBSET Transfers]
    /\ sDone \in [Triggers -> Transfers \union {None}]

HealthTypeOK ==
    /\ hpc \in [HealthRequests -> HealthPCs]
    /\ hReady \in [HealthRequests -> BOOLEAN]
    /\ hBatch \in [HealthRequests -> Batches \union {None}]
    /\ \A h \in HealthRequests : hpc[h] = "link" => hBatch[h] \in Batches

\* What a trigger holds at each of its statements: the correspondent and the
\* batch being built, a batch to submit or acknowledge, the transfer completed;
\* and every batch it holds has its file.
TriggerLocalsOK ==
    \A g \in Triggers :
        /\ spc[g] \in {"write", "batch", "link"} => sCorr[g] \in Correspondents
        /\ spc[g] = "link" => sBatch[g] \in Batches /\ batchFile[sBatch[g]] \in Files
        /\ spc[g] \in {"submit", "ack", "complete", "record"} => sQueue[g] # <<>>
        /\ spc[g] = "record" => sDone[g] \in Transfers
        /\ \A i \in DOMAIN sQueue[g] : batchFile[sQueue[g][i]] \in Files

\* Every table and every request's local state keeps its type, and a request in
\* flight holds what its next statement needs: the transfer it works on, the
\* state it read, the batch it builds, submits or acknowledges.
TypeOK ==
    /\ TablesTypeOK
    /\ DepositTypeOK
    /\ OperatorTypeOK
    /\ ReturnTypeOK
    /\ SettlementTypeOK
    /\ TriggerTypeOK
    /\ TriggerLocalsOK
    /\ HealthTypeOK

----------------------------------------------------------------------------
(* Money *)

\* The ledger agrees with the state machine at every moment, however requests
\* interleave or are cut off: nothing is posted for a transfer not yet approved
\* or rejected, a transfer shown as funded has its credit and only one, nothing
\* is reversed before it is funded, the fee comes only after the reversal, and a
\* Returned transfer has been credited, reversed and charged exactly once.
MoneyMatchesState ==
    \A t \in Transfers :
        LET free == ledger[t]["FREE"]
            reversal == ledger[t]["REVERSAL"]
            fee == ledger[t]["RETURNED_CHECK_FEE"]
        IN  /\ free <= 1 /\ reversal <= free /\ fee <= reversal
            /\ free = 1 => state[t] \in {"Approved", "FundsPosted", "Completed", "Returned"}
            /\ state[t] \in {"FundsPosted", "Completed", "Returned"} => free = 1
            /\ state[t] = "Approved" => reversal = 0
            /\ state[t] = "Returned" => fee = 1

\* A request has approved its transfer and has the credit to post or to report.
Approving == {"evApproved", "post", "toFundsPosted"}

\* What the ledger holds of the credit while a request at pc is approving.
CreditAt(pc) == IF pc = "toFundsPosted" THEN 1 ELSE 0

\* The optimistic lock on Analyzing -> Approved elects at most one request, the
\* deposit's own or one operator's, to post the credit, and while it works nobody
\* else moves the transfer: so its posting cannot hit the uniqueness constraint,
\* nor its update to FundsPosted fail.
OneApprover ==
    /\ \A t \in Transfers :
          dpc[t] \in Approving =>
              /\ state[t] = "Approved"
              /\ ledger[t]["FREE"] = CreditAt(dpc[t])
              /\ \A r \in OpRequests : opc[r] \in Approving => oT[r] # t
    /\ \A r \in OpRequests :
          opc[r] \in Approving =>
              /\ state[oT[r]] = "Approved"
              /\ ledger[oT[r]]["FREE"] = CreditAt(opc[r])
              /\ \A q \in OpRequests : opc[q] \in Approving /\ oT[q] = oT[r] => q = r

Lifecycle == INSTANCE TransferLifecycle

\* The server, whatever its requests interleave or lose, implements the abstract
\* life cycle of a transfer: every step moves one transfer along the table or
\* posts one pair of entries, in the order the life cycle prescribes.
ImplementsLifecycle == Lifecycle!LifecycleSpec

\* What a return in flight relies on: the transfer it read as funded stays funded
\* until some return completes, and its own postings stand.
ReturnProgress ==
    \A r \in RetRequests :
        /\ rpc[r] = "reversal" => state[rT[r]] \in {"FundsPosted", "Completed", "Returned"}
        /\ rpc[r] = "fee" => ledger[rT[r]]["REVERSAL"] = 1
        /\ rpc[r] = "toReturned" => ledger[rT[r]]["RETURNED_CHECK_FEE"] = 1

\* The inductive invariant behind the theorems of module CheckDepositProofs.
MoneyInv == TypeOK /\ MoneyMatchesState /\ OneApprover /\ ReturnProgress

\* Some return of a's transfers has not answered yet.
ReturnsInFlight(a) ==
    \E r \in RetRequests : rpc[r] # "idle" /\ AccountOf[rT[r]] = a

\* An account that a return left in debt is in COLLECTIONS once the returns of its
\* transfers have answered: reversal plus fee can take it below zero, and so can
\* two concurrent returns neither of which would alone.
NegativeBalanceFlagged ==
    \A a \in Accounts :
        GetBalance(a) < 0 /\ ~ReturnsInFlight(a) => accountStatus[a] = "COLLECTIONS"

\* A return has posted its reversal and has the fee to charge or the state to move.
Returning == {"fee", "toReturned"}

\* The ledger's uniqueness constraint elects at most one return to reverse a transfer,
\* however often the bank delivers it: while that return works the transfer stays
\* funded and only its own posting charges the fee, so the fee cannot hit the
\* constraint.
OneReturner ==
    \A r \in RetRequests :
        rpc[r] \in Returning =>
            /\ state[rT[r]] \in {"FundsPosted", "Completed"}
            /\ ledger[rT[r]]["RETURNED_CHECK_FEE"] = IF rpc[r] = "fee" THEN 0 ELSE 1
            /\ \A q \in RetRequests : rpc[q] \in Returning /\ rT[q] = rT[r] => q = r

\* With settlement running, an account left in debt but not flagged has a transfer that
\* was reversed and yet settled: a trigger completed it under a return that had read it
\* as FundsPosted, and which therefore ended before it looked at the balance.
DebtFlaggedUnlessSettled ==
    \A a \in Accounts :
        GetBalance(a) < 0 /\ ~ReturnsInFlight(a) =>
            \/ accountStatus[a] = "COLLECTIONS"
            \/ \E t \in Transfers :
                  AccountOf[t] = a /\ state[t] = "Completed" /\ ledger[t]["REVERSAL"] = 1

\* An investor whose deposit was returned has been told, unless the request that
\* returned it is about to; and nobody is told of a return that did not happen, although
\* a return may fail after it has posted its entries.
ReturnNotified ==
    /\ \A t \in Transfers :
          state[t] = "Returned" =>
              \/ t \in notifications
              \/ \E r \in RetRequests : rT[r] = t /\ rpc[r] = "record"
    /\ \A t \in notifications : state[t] = "Returned"

----------------------------------------------------------------------------
(* The audit trail *)

\* The states a transfer in state s has certainly been through since Requested.
Passed(s) ==
    CASE s = "Validating" -> {"Validating"}
      [] s = "Analyzing" -> {"Validating", "Analyzing"}
      [] s = "Approved" -> {"Validating", "Analyzing", "Approved"}
      [] s = "FundsPosted" -> {"Validating", "Analyzing", "Approved", "FundsPosted"}
      [] s = "Completed" ->
            {"Validating", "Analyzing", "Approved", "FundsPosted", "Completed"}
      [] s = "Rejected" -> {"Validating", "Rejected"}
      [] s = "Returned" ->
            {"Validating", "Analyzing", "Approved", "FundsPosted", "Returned"}
      [] OTHER -> {}

\* ... and the ones it may have been through besides.
MayHavePassed(s) ==
    Passed(s) \union (CASE s = "Rejected" -> {"Analyzing"}
                        [] s = "Returned" -> {"Completed"}
                        [] OTHER -> {})

\* The statement at which a request writes the event of each transition it makes.
DepositWrites ==
    { <<"evValidating", "Requested", "Validating">>,
      <<"evAnalyzing", "Validating", "Analyzing">>, <<"evRejectedV", "Validating", "Rejected">>,
      <<"evApproved", "Analyzing", "Approved">>,    <<"evRejectedA", "Analyzing", "Rejected">>,
      <<"evFundsPosted", "Approved", "FundsPosted">> }

OperatorWrites(r) ==
    { <<"evApproved", "Analyzing", "Approved">>, <<"evFundsPosted", "Approved", "FundsPosted">>,
      <<"evRejected", RejectFrom(r), "Rejected">> }

\* A request is about to write the event of t's transition.
AboutToTell(t, from, to) ==
    \/ <<dpc[t], from, to>> \in DepositWrites
    \/ \E r \in OpRequests : oT[r] = t /\ <<opc[r], from, to>> \in OperatorWrites(r)
    \/ \E r \in RetRequests :
          rpc[r] = "record" /\ rT[r] = t /\ from = rSeen[r] /\ to = "Returned"
    \/ \E g \in Triggers :
          spc[g] = "record" /\ sDone[g] = t /\ from = "FundsPosted" /\ to = "Completed"

EventPending(t, s) == \E from \in TransferStates : AboutToTell(t, from, s)

\* The trail never tells a story that did not happen: the events of a transfer
\* lie on one path of the state machine that leads to its state.
AuditTruthful ==
    /\ \A e \in events : isValidTransition(e[2], e[3]) /\ e[3] \in MayHavePassed(state[e[1]])
    /\ \A e, f \in events : e[1] = f[1] /\ (e[2] = f[2] \/ e[3] = f[3]) => e = f

\* The trail leaves nothing out: every state a transfer has been through has its
\* state_changed event, or a request about to write it.
AuditComplete ==
    \A t \in Transfers : \A s \in Passed(state[t]) :
        EventPending(t, s) \/ \E e \in events : e[1] = t /\ e[3] = s

\* A transfer is approved by the funding service's decision or by an operator who
\* acts on one flagged for review.
ApprovalsAreReviewed ==
    [][\A t \in Transfers :
          state[t] # "Approved" /\ state'[t] = "Approved" =>
              dpc[t] = "toApproved" \/ reviewReason[t] # None]_vars

----------------------------------------------------------------------------
(* Settlement and returns *)

\* A Completed transfer was in a file the settlement bank received.
CompletedWasPresented ==
    \A t \in Transfers :
        state[t] = "Completed" => \E b \in Batches : <<b, t>> \in presented

\* The bank is not asked twice to settle the same check.
PresentedOnce ==
    \A p, q \in presented : p[2] = q[2] => p = q

\* Nothing linked to a batch whose file the bank acknowledged is left behind in
\* FundsPosted once the triggers have answered, however two of them relink the same
\* transfers.
AcknowledgedAreSettled ==
    (\A g \in Triggers : spc[g] = "idle") =>
        \A t \in Transfers :
            /\ batchOf[t] # None
            /\ batchStatus[batchOf[t]] = "ACKNOWLEDGED" /\ batchFile[batchOf[t]] # None
            => state[t] \in {"Completed", "Returned"}

\* Everything the bank was shown in a batch it acknowledged is settled or returned once
\* the triggers have answered: the transfers completed, which are the ones linked to the
\* batch at that moment, are the ones of its file, although returns and the health
\* trigger work on the same rows.
PresentedAreSettled ==
    (\A g \in Triggers : spc[g] = "idle") =>
        \A p \in presented :
            batchStatus[p[1]] = "ACKNOWLEDGED" => state[p[2]] \in {"Completed", "Returned"}

----------------------------------------------------------------------------
(* Liveness, when no request is cut off *)

\* A transfer is decided and paid, or waits in the queue of its correspondent's operators.
Resolved(t) ==
    \/ state[t] \in {"Rejected", "FundsPosted", "Completed", "Returned"}
    \/ t \in ListQueue(CorrOf(t))

\* A deposit gets resolved once the vendor has answered it.  Only the failure of the
\* vendor's call, here an unknown scenario, may leave it in Validating, where no queue
\* lists it.
DepositResolves ==
    \A t \in Transfers :
        /\ dVSS[t] # None ~> Resolved(t)
        /\ state[t] = "Requested" ~>
              \/ Resolved(t)
              \/ /\ state[t] = "Validating" /\ dpc[t] = "done"
                 /\ \E s \in Scenarios[t] : s \notin ScenarioNames

\* A return the handler accepted ends in Returned.
ReturnsComplete ==
    \A t \in Transfers :
        (\E r \in RetRequests : rpc[r] = "reversal" /\ rT[r] = t) ~> state[t] = "Returned"

\* A transfer that a trigger listed is settled, unless it is returned first.
ListedAreSettled ==
    \A t \in Transfers :
        (\E g \in Triggers : t \in sListed[g]) ~> state[t] \in {"Completed", "Returned"}
=============================================================================
