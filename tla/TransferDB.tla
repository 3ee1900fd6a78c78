----------------------------- MODULE TransferDB -----------------------------
(***************************************************************************)
(* The PostgreSQL tables the components share, and the statements they     *)
(* execute on them.  Every store call is one autocommit statement, so it   *)
(* is one atomic step of the request that makes it; the only multi-row     *)
(* transaction is the DEBIT/CREDIT pair of a posting, module Ledger.       *)
(*                                                                         *)
(* A statement is an operator that constrains the primed table it writes;  *)
(* a conjunct on the unprimed state is the condition under which the call  *)
(* returns no error.  Write-only columns (contribution type, VSS results,  *)
(* image references, the decision-trace rows other than state_changed) are *)
(* left out: no guard of any component reads them.                         *)
(***************************************************************************)
EXTENDS Ledger

CONSTANTS
    DepositLimit,       \* [Correspondents -> Nat], rules_config.deposit_limit
    IneligibleAccounts, \* accounts whose type the correspondent excludes
    Faults              \* TRUE: requests may be cut off and best-effort writes lost

VARIABLES
    state,         \* transfers.state; "none" before the row exists
    errorCode,     \* transfers.error_code
    reviewReason,  \* transfers.review_reason
    events,        \* transfer_events rows of step state_changed, as <<transfer, from, to>>
    accountStatus, \* accounts.status
    notifications  \* transfers with a RETURN_RECEIVED notification

ASSUME ConstantsAssumption ==
    /\ DepositLimit \in [Correspondents -> Nat]
    /\ IneligibleAccounts \subseteq Accounts
    /\ Faults \in BOOLEAN

----------------------------------------------------------------------------
(* The state machine of internal/orchestrator/states.go *)

TransferStates ==
    {"Requested", "Validating", "Analyzing", "Approved",
     "FundsPosted", "Completed", "Rejected", "Returned"}

validTransitions ==
    { <<"Requested", "Validating">>,
      <<"Validating", "Analyzing">>,   <<"Validating", "Rejected">>,
      <<"Analyzing", "Approved">>,     <<"Analyzing", "Rejected">>,
      <<"Approved", "FundsPosted">>,
      <<"FundsPosted", "Completed">>,  <<"FundsPosted", "Returned">>,
      <<"Completed", "Returned">> }

isValidTransition(from, to) == <<from, to>> \in validTransitions

None == "none"

Statuses == {"ACTIVE", "COLLECTIONS"}

DBInit ==
    /\ state = [t \in Transfers |-> "none"]
    /\ errorCode = [t \in Transfers |-> None]
    /\ reviewReason = [t \in Transfers |-> None]
    /\ events = {}
    /\ LedgerInit
    /\ accountStatus = [a \in Accounts |-> "ACTIVE"]
    /\ notifications = {}

----------------------------------------------------------------------------
(* Statements *)

Create(t) ==
    /\ state[t] = "none"
    /\ state' = [state EXCEPT ![t] = "Requested"]

\* Mutant: UPDATE ... WHERE id = $1, without AND state = $from.
UpdateStateUnlocked(t, from, to) ==
    /\ state[t] # "none"
    /\ state' = [state EXCEPT ![t] = to]

\* UPDATE transfers SET state = to WHERE id = t AND state = from: the optimistic
\* lock.  No row matches, and the call fails, when the state has moved on.
UpdateState(t, from, to) ==
    /\ state[t] = from
    /\ state' = [state EXCEPT ![t] = to]

\* The table check and the UPDATE of orchestrator.Transition; its event is the
\* caller's next step, a statement of its own.
Transition(t, from, to) ==
    /\ isValidTransition(from, to)
    /\ UpdateState(t, from, to)

TransitionFails(t, from, to) ==
    /\ ~isValidTransition(from, to) \/ state[t] # from
    /\ UNCHANGED state

\* Mutant: the event names the transfer's current state as the origin.
WriteStateChangedFromCurrent(t, from, to) ==
    events' = events \union {<<t, state[t], to>>}

\* Mutant: one event row per transfer, overwritten by the next transition.
WriteStateChangedUpsert(t, from, to) ==
    events' = {e \in events : e[1] # t} \union {<<t, from, to>>}

writeStateChangedEvent(t, from, to) ==
    events' = events \union {<<t, from, to>>}

SetErrorCode(t, code) ==
    errorCode' = [errorCode EXCEPT ![t] = code]

SetReviewReason(t, reason) ==
    reviewReason' = [reviewReason EXCEPT ![t] = reason]

SetAccountStatus(a, status) ==
    accountStatus' = [accountStatus EXCEPT ![a] = status]

CreateNotification(t) == notifications' = notifications \union {t}
=============================================================================
