----------------------------- MODULE DepositFlow -----------------------------
(***************************************************************************)
(* POST /deposits: CreateDeposit and the orchestrator's ProcessDeposit,    *)
(* one request per transfer.  dpc[t] is the statement the request executes *)
(* next; "toX" is a call of UpdateState, "evX" the audit event after it.   *)
(* A call whose error makes the handler return is, when it can fail only   *)
(* for want of the database or the vendor, the Abort of module             *)
(* CheckDeposit at that point.                                             *)
(***************************************************************************)
EXTENDS TransferDB, VendorStub

CONSTANT Scenarios   \* Scenarios[t]: names that the header of t's request may hold, or
                     \* that its account selects

VARIABLES
    dpc,      \* program counter of t's request
    dStatus,  \* account status read before the row was created
    dVSS      \* the vendor's answer

depVars == <<dpc, dStatus, dVSS>>

DepositPCs ==
    {"idle", "toValidating", "evValidating", "vss", "codeV", "toRejectedV",
     "evRejectedV", "toAnalyzing", "evAnalyzing", "evaluate", "codeA",
     "toRejectedA", "evRejectedA", "flag", "toApproved", "evApproved", "post",
     "toFundsPosted", "evFundsPosted", "done"}

DepositInit ==
    /\ dpc = [t \in Transfers |-> "idle"]
    /\ dStatus = [t \in Transfers |-> None]
    /\ dVSS = [t \in Transfers |-> None]

\* A request keeps what it read until it answers.
Goto(t, pc) ==
    /\ dpc' = [dpc EXCEPT ![t] = pc]
    /\ dStatus' = [dStatus EXCEPT ![t] = IF pc = "done" THEN None ELSE @]
    /\ dVSS' = [dVSS EXCEPT ![t] = IF pc = "done" THEN None ELSE @]

----------------------------------------------------------------------------
(* A call of orchestrator.Transition: UpdateState, then the event.  Losing *)
(* the optimistic lock ends the request.                                   *)

DepositUpdate(t, here, from, to, event) ==
    /\ dpc[t] = here
    /\ \/ Transition(t, from, to) /\ Goto(t, event)
       \/ TransitionFails(t, from, to) /\ Goto(t, "done")
    /\ UNCHANGED <<errorCode, events, ledger, reviewReason>>

DepositEvent(t, here, from, to, next) ==
    /\ dpc[t] = here
    /\ writeStateChangedEvent(t, from, to)
    /\ Goto(t, next)
    /\ UNCHANGED <<state, errorCode, ledger, reviewReason>>

----------------------------------------------------------------------------
(* Funding rules, in the engine's order.  The request never carries the    *)
(* VSS result, so the two VSS rules never fire; the duplicate checker is   *)
(* not wired.                                                              *)

Eligible(t) == dStatus[t] = "ACTIVE" /\ AccountOf[t] \notin IneligibleAccounts

WithinLimit(t) == Amount[t] <= DepositLimit[CorrOf(t)]

FundingRejects(t) == ~Eligible(t) \/ ~WithinLimit(t)

\* The reason code of a rejection: eligibility is the first rule.
FundingReason(t) ==
    IF ~Eligible(t) THEN "FS_ACCOUNT_INELIGIBLE" ELSE "FS_OVER_DEPOSIT_LIMIT"

\* The review reason ProcessDeposit derives from the vendor's answer.
ReviewReason(outcome) ==
    CASE outcome = "micr_fail" -> "VSS_MICR_READ_FAIL"
      [] outcome = "amount_mismatch" -> "VSS_AMOUNT_MISMATCH"
      [] OTHER -> None

VSSErrorCode(outcome) ==
    CASE outcome = "iqa_blur" -> "VSS_IQA_BLUR"
      [] outcome = "iqa_glare" -> "VSS_IQA_GLARE"
      [] OTHER -> "VSS_DUPLICATE_DETECTED"

----------------------------------------------------------------------------
(* Steps *)

\* Account lookup and INSERT, one step: nobody sees the row in between.  The
\* status read here is the one the funding rules see, however long the vendor
\* takes.
CreateDeposit(t) ==
    /\ dpc[t] = "idle"
    /\ Create(t)
    /\ dStatus' = [dStatus EXCEPT ![t] = accountStatus[AccountOf[t]]]
    /\ dpc' = [dpc EXCEPT ![t] = "toValidating"]
    /\ UNCHANGED <<errorCode, events, ledger, reviewReason, dVSS>>

ToValidating(t) == DepositUpdate(t, "toValidating", "Requested", "Validating", "evValidating")

ValidatingEvent(t) == DepositEvent(t, "evValidating", "Requested", "Validating", "vss")

\* The vendor call and the branch on its answer.  An unknown scenario is an error
\* of the call, and leaves the transfer in Validating.
CallVSS(t) ==
    /\ dpc[t] = "vss"
    /\ \E s \in Scenarios[t] :
          \/ /\ s \in ScenarioNames
             /\ LET outcome == Outcome(ValidateResponse(s, Amount[t]), Amount[t])
                IN  /\ dVSS' = [dVSS EXCEPT ![t] = outcome]
                    /\ dpc' = [dpc EXCEPT ![t] =
                                  IF outcome \in {"iqa_blur", "iqa_glare", "duplicate"}
                                  THEN "codeV" ELSE "toAnalyzing"]
             /\ UNCHANGED dStatus
          \/ s \notin ScenarioNames /\ Goto(t, "done")
    /\ UNCHANGED <<state, errorCode, events, ledger, reviewReason>>

\* setErrorAndReject ignores the outcome of setErrorCode.
SetCode(t, here, code, next) ==
    /\ dpc[t] = here
    /\ \/ SetErrorCode(t, code)
       \/ Faults /\ UNCHANGED errorCode
    /\ Goto(t, next)
    /\ UNCHANGED <<state, events, ledger, reviewReason>>

VSSRejectCode(t) == SetCode(t, "codeV", VSSErrorCode(dVSS[t]), "toRejectedV")

VSSReject(t) == DepositUpdate(t, "toRejectedV", "Validating", "Rejected", "evRejectedV")

VSSRejectEvent(t) == DepositEvent(t, "evRejectedV", "Validating", "Rejected", "done")

ToAnalyzing(t) == DepositUpdate(t, "toAnalyzing", "Validating", "Analyzing", "evAnalyzing")

AnalyzingEvent(t) == DepositEvent(t, "evAnalyzing", "Validating", "Analyzing", "evaluate")

Evaluate(t) ==
    /\ dpc[t] = "evaluate"
    /\ Goto(t, IF FundingRejects(t) THEN "codeA"
               ELSE IF ReviewReason(dVSS[t]) # None THEN "flag" ELSE "toApproved")
    /\ UNCHANGED <<state, errorCode, events, ledger, reviewReason>>

FundingRejectCode(t) == SetCode(t, "codeA", FundingReason(t), "toRejectedA")

FundingReject(t) == DepositUpdate(t, "toRejectedA", "Analyzing", "Rejected", "evRejectedA")

FundingRejectEvent(t) == DepositEvent(t, "evRejectedA", "Analyzing", "Rejected", "done")

\* Mutant: a transfer kept for review is not marked for the queue.
FlagWithoutReason(t) ==
    /\ dpc[t] = "flag"
    /\ Goto(t, "done")
    /\ UNCHANGED <<state, errorCode, events, ledger, reviewReason>>

\* The transfer stays in Analyzing; a failed write of the reason is only logged.
Flag(t) ==
    /\ dpc[t] = "flag"
    /\ \/ SetReviewReason(t, ReviewReason(dVSS[t]))
       \/ Faults /\ UNCHANGED reviewReason
    /\ Goto(t, "done")
    /\ UNCHANGED <<state, errorCode, events, ledger>>

ToApproved(t) == DepositUpdate(t, "toApproved", "Analyzing", "Approved", "evApproved")

\* Mutant: funds are reported before the ledger is posted.
ApprovedEventThenFunds(t) ==
    DepositEvent(t, "evApproved", "Analyzing", "Approved", "toFundsPosted")

ApprovedEvent(t) == DepositEvent(t, "evApproved", "Analyzing", "Approved", "post")

\* A failed posting leaves the transfer in Approved.
PostCredit(t) ==
    /\ dpc[t] = "post"
    /\ \/ PostDoubleEntry(t, "FREE") /\ Goto(t, "toFundsPosted")
       \/ PostFails(t, "FREE") /\ Goto(t, "done")
    /\ UNCHANGED <<state, errorCode, events, reviewReason>>

ToFundsPosted(t) ==
    DepositUpdate(t, "toFundsPosted", "Approved", "FundsPosted", "evFundsPosted")

FundsPostedEvent(t) == DepositEvent(t, "evFundsPosted", "Approved", "FundsPosted", "done")

----------------------------------------------------------------------------
\* What a running request does next.
DepositRuns(t) ==
    \/ ToValidating(t) \/ ValidatingEvent(t) \/ CallVSS(t)
    \/ VSSRejectCode(t) \/ VSSReject(t) \/ VSSRejectEvent(t)
    \/ ToAnalyzing(t) \/ AnalyzingEvent(t) \/ Evaluate(t)
    \/ FundingRejectCode(t) \/ FundingReject(t) \/ FundingRejectEvent(t)
    \/ Flag(t)
    \/ ToApproved(t) \/ ApprovedEvent(t) \/ PostCredit(t)
    \/ ToFundsPosted(t) \/ FundsPostedEvent(t)

DepositRunning(t) == dpc[t] \notin {"idle", "done"}

\* The request ends early: the client disconnects, which cancels the context
\* of every later call, a hard call errors, or the process dies.
DepositAborts(t) ==
    /\ Faults
    /\ DepositRunning(t)
    /\ Goto(t, "done")
    /\ UNCHANGED <<state, errorCode, events, ledger, reviewReason>>
=============================================================================
