--------------------------- MODULE OperatorReview ---------------------------
(***************************************************************************)
(* POST /operator/actions.  A member of OpRequests is a request slot: each *)
(* HTTP request in flight occupies one and leaves it when it answers, so   *)
(* Cardinality(OpRequests) bounds concurrency, not the number of requests. *)
(* The row-level check on the operator's correspondent only refuses        *)
(* requests; every transfer has operators who pass it, so it is left out.  *)
(***************************************************************************)
EXTENDS TransferDB

CONSTANT OpRequests

VARIABLES
    opc,    \* the statement the request executes next
    oT,     \* the transfer it acts on
    oSeen   \* the state GetByID returned, which chooses the origin of a rejection

opVars == <<opc, oT, oSeen>>

OperatorPCs ==
    {"idle", "toApproved", "evApproved", "post", "toFundsPosted", "evFundsPosted",
     "code", "toRejected", "evRejected"}

OperatorInit ==
    /\ opc = [r \in OpRequests |-> "idle"]
    /\ oT = [r \in OpRequests |-> None]
    /\ oSeen = [r \in OpRequests |-> None]

\* A request keeps what it read until it answers.
OpGoto(r, pc) ==
    /\ opc' = [opc EXCEPT ![r] = pc]
    /\ oT' = [oT EXCEPT ![r] = IF pc = "idle" THEN None ELSE @]
    /\ oSeen' = [oSeen EXCEPT ![r] = IF pc = "idle" THEN None ELSE @]

----------------------------------------------------------------------------
\* What GET /operator/queue shows the operators of c.
ListQueue(c) ==
    {t \in Transfers : state[t] = "Analyzing" /\ reviewReason[t] # None /\ CorrOf(t) = c}

\* Validating is reviewable for APPROVE as well as for REJECT.
isReviewable(t) ==
    \/ state[t] = "Analyzing" /\ reviewReason[t] # None
    \/ state[t] = "Validating"

\* GetByID, the reviewability check and the dispatch on the action.  A REJECT
\* with a reason writes error_code first.
PostAction(r) ==
    /\ opc[r] = "idle"
    /\ \E t \in Transfers, first \in {"toApproved", "code", "toRejected"} :
          /\ isReviewable(t)
          /\ oT' = [oT EXCEPT ![r] = t]
          /\ oSeen' = [oSeen EXCEPT ![r] = state[t]]
          /\ opc' = [opc EXCEPT ![r] = first]
    /\ UNCHANGED <<state, errorCode, events, ledger>>

OperatorUpdate(r, here, from, to, event) ==
    /\ opc[r] = here
    /\ \/ Transition(oT[r], from, to) /\ OpGoto(r, event)
       \/ TransitionFails(oT[r], from, to) /\ OpGoto(r, "idle")
    /\ UNCHANGED <<errorCode, events, ledger>>

OperatorEvent(r, here, from, to, next) ==
    /\ opc[r] = here
    /\ writeStateChangedEvent(oT[r], from, to)
    /\ OpGoto(r, next)
    /\ UNCHANGED <<state, errorCode, ledger>>

\* APPROVE always starts from Analyzing, whatever state was read.
Approve(r) == OperatorUpdate(r, "toApproved", "Analyzing", "Approved", "evApproved")

ApproveEvent(r) == OperatorEvent(r, "evApproved", "Analyzing", "Approved", "post")

ApprovePost(r) ==
    /\ opc[r] = "post"
    /\ \/ PostDoubleEntry(oT[r], "FREE") /\ OpGoto(r, "toFundsPosted")
       \/ PostFails(oT[r], "FREE") /\ OpGoto(r, "idle")
    /\ UNCHANGED <<state, errorCode, events>>

ApproveFunds(r) == OperatorUpdate(r, "toFundsPosted", "Approved", "FundsPosted", "evFundsPosted")

ApproveFundsEvent(r) == OperatorEvent(r, "evFundsPosted", "Approved", "FundsPosted", "idle")

\* error_code is written before the transition is known to succeed.
RejectCode(r) ==
    /\ opc[r] = "code"
    /\ \/ SetErrorCode(oT[r], "OPERATOR_REASON")
       \/ Faults /\ UNCHANGED errorCode
    /\ OpGoto(r, "toRejected")
    /\ UNCHANGED <<state, events, ledger>>

RejectFrom(r) == IF oSeen[r] = "Validating" THEN "Validating" ELSE "Analyzing"

Reject(r) == OperatorUpdate(r, "toRejected", RejectFrom(r), "Rejected", "evRejected")

RejectEvent(r) == OperatorEvent(r, "evRejected", RejectFrom(r), "Rejected", "idle")

----------------------------------------------------------------------------
OperatorRuns(r) ==
    \/ Approve(r) \/ ApproveEvent(r) \/ ApprovePost(r)
    \/ ApproveFunds(r) \/ ApproveFundsEvent(r)
    \/ RejectCode(r) \/ Reject(r) \/ RejectEvent(r)

OperatorAborts(r) ==
    /\ Faults
    /\ opc[r] # "idle"
    /\ OpGoto(r, "idle")
    /\ UNCHANGED <<state, errorCode, events, ledger>>
=============================================================================
