---------------------------- MODULE ReturnHandler ----------------------------
(***************************************************************************)
(* POST /returns, the settlement bank's webhook: ProcessReturn.  A member  *)
(* of RetRequests is a request slot; the bank may deliver a return any     *)
(* number of times, concurrently or one after the other.                   *)
(***************************************************************************)
EXTENDS TransferDB

CONSTANT RetRequests

VARIABLES
    rpc,    \* the statement the request executes next
    rT,     \* the transfer being returned
    rSeen   \* fromState: the state read when the request arrived

retVars == <<rpc, rT, rSeen>>

ReturnPCs ==
    {"idle", "reversal", "fee", "toReturned", "record", "balance", "collections"}

ReturnInit ==
    /\ rpc = [r \in RetRequests |-> "idle"]
    /\ rT = [r \in RetRequests |-> None]
    /\ rSeen = [r \in RetRequests |-> None]

\* A request keeps what it read until it answers.
RetGoto(r, pc) ==
    /\ rpc' = [rpc EXCEPT ![r] = pc]
    /\ rT' = [rT EXCEPT ![r] = IF pc = "idle" THEN None ELSE @]
    /\ rSeen' = [rSeen EXCEPT ![r] = IF pc = "idle" THEN None ELSE @]

----------------------------------------------------------------------------
\* Mutant: the state check lets Approved through.
ReturnableFromApproved(t) == state[t] \in {"Approved", "FundsPosted", "Completed"}

\* Returned is answered as a no-op and every other state refused, both without
\* a write.
Returnable(t) == state[t] \in {"FundsPosted", "Completed"}

ProcessReturn(r) ==
    /\ rpc[r] = "idle"
    /\ \E t \in Transfers :
          /\ Returnable(t)
          /\ rT' = [rT EXCEPT ![r] = t]
          /\ rSeen' = [rSeen EXCEPT ![r] = state[t]]
    /\ rpc' = [rpc EXCEPT ![r] = "reversal"]
    /\ UNCHANGED <<state, events, ledger, accountStatus, notifications>>

\* The reversal pair and the fee pair are two transactions.
PostReturnEntry(r, here, type, next) ==
    /\ rpc[r] = here
    /\ \/ PostDoubleEntry(rT[r], type) /\ RetGoto(r, next)
       \/ PostFails(rT[r], type) /\ RetGoto(r, "idle")
    /\ UNCHANGED <<state, events, accountStatus, notifications>>

PostReversal(r) == PostReturnEntry(r, "reversal", "REVERSAL", "fee")

PostFee(r) == PostReturnEntry(r, "fee", "RETURNED_CHECK_FEE", "toReturned")

\* Mutant: the entries already posted are taken to make the return final.
ToReturnedForced(r) ==
    /\ rpc[r] = "toReturned"
    /\ state' = [state EXCEPT ![rT[r]] = "Returned"]
    /\ RetGoto(r, "record")
    /\ UNCHANGED <<events, ledger, accountStatus, notifications>>

\* Mutant: the origin is taken to be Completed.
ToReturnedFromCompleted(r) ==
    /\ rpc[r] = "toReturned"
    /\ \/ UpdateState(rT[r], "Completed", "Returned") /\ RetGoto(r, "record")
       \/ state[rT[r]] # "Completed" /\ UNCHANGED state /\ RetGoto(r, "idle")
    /\ UNCHANGED <<events, ledger, accountStatus, notifications>>

\* UpdateState from the state read at arrival, which may have moved on.
ToReturned(r) ==
    /\ rpc[r] = "toReturned"
    /\ \/ UpdateState(rT[r], rSeen[r], "Returned") /\ RetGoto(r, "record")
       \/ state[rT[r]] # rSeen[r] /\ UNCHANGED state /\ RetGoto(r, "idle")
    /\ UNCHANGED <<events, ledger, accountStatus, notifications>>

\* Mutant: only the return of a settled deposit is notified.
RecordReturnOfSettled(r) ==
    /\ rpc[r] = "record"
    /\ writeStateChangedEvent(rT[r], rSeen[r], "Returned")
    /\ IF rSeen[r] = "Completed" THEN CreateNotification(rT[r]) ELSE UNCHANGED notifications
    /\ RetGoto(r, "balance")
    /\ UNCHANGED <<state, ledger, accountStatus>>

\* The audit event and the investor's notification, both best effort.
RecordReturn(r) ==
    /\ rpc[r] = "record"
    /\ \/ writeStateChangedEvent(rT[r], rSeen[r], "Returned")
       \/ Faults /\ UNCHANGED events
    /\ \/ CreateNotification(rT[r])
       \/ Faults /\ UNCHANGED notifications
    /\ RetGoto(r, "balance")
    /\ UNCHANGED <<state, ledger, accountStatus>>

\* Mutant: a debt only counts once it is larger than the fee just charged.
CheckBalanceBeforeFee(r) ==
    /\ rpc[r] = "balance"
    /\ RetGoto(r, IF GetBalance(AccountOf[rT[r]]) + ReturnedCheckFee[CorrOf(rT[r])] < 0
                  THEN "collections" ELSE "idle")
    /\ UNCHANGED <<state, events, ledger, accountStatus, notifications>>

CheckBalance(r) ==
    /\ rpc[r] = "balance"
    /\ RetGoto(r, IF GetBalance(AccountOf[rT[r]]) < 0 THEN "collections" ELSE "idle")
    /\ UNCHANGED <<state, events, ledger, accountStatus, notifications>>

FlagCollections(r) ==
    /\ rpc[r] = "collections"
    /\ SetAccountStatus(AccountOf[rT[r]], "COLLECTIONS")
    /\ RetGoto(r, "idle")
    /\ UNCHANGED <<state, events, ledger, notifications>>

----------------------------------------------------------------------------
ReturnRuns(r) ==
    \/ PostReversal(r) \/ PostFee(r) \/ ToReturned(r)
    \/ RecordReturn(r) \/ CheckBalance(r) \/ FlagCollections(r)

\* A failed balance query or status write is only logged and ends the request
\* like a cut-off.
ReturnAborts(r) ==
    /\ Faults
    /\ rpc[r] # "idle"
    /\ RetGoto(r, "idle")
    /\ UNCHANGED <<state, events, ledger, accountStatus, notifications>>
=============================================================================
