-------------------------- MODULE TransferLifecycle --------------------------
(***************************************************************************)
(* What the system promises about one transfer and its money, whatever the *)
(* requests that work on it do: the state advances along the transition    *)
(* table, the provisional credit is posted once and only after approval,   *)
(* funds are reported posted only once the credit is, and a return         *)
(* reverses the credit and charges the fee, once each, before it is        *)
(* reported.  There are no requests here, only the outcome.                *)
(***************************************************************************)
EXTENDS Integers

CONSTANT Transfers

VARIABLES state, ledger

lifecycleVars == <<state, ledger>>

Types == {"FREE", "REVERSAL", "RETURNED_CHECK_FEE"}

LifecycleInit ==
    /\ state = [t \in Transfers |-> "none"]
    /\ ledger = [t \in Transfers |-> [type \in Types |-> 0]]

Posted(t, type) == ledger[t][type] = 1

Move(t, from, to) ==
    /\ state[t] = from
    /\ state' = [state EXCEPT ![t] = to]
    /\ UNCHANGED ledger

Post(t, type) ==
    /\ ledger[t][type] = 0
    /\ ledger' = [ledger EXCEPT ![t][type] = 1]
    /\ UNCHANGED state

Open(t) == Move(t, "none", "Requested")

Review(t) ==
    \/ Move(t, "Requested", "Validating")
    \/ Move(t, "Validating", "Analyzing")
    \/ Move(t, "Analyzing", "Approved")

Decline(t) ==
    \/ Move(t, "Validating", "Rejected")
    \/ Move(t, "Analyzing", "Rejected")

Credit(t) == state[t] = "Approved" /\ Post(t, "FREE")

Fund(t) == Posted(t, "FREE") /\ Move(t, "Approved", "FundsPosted")

Settle(t) == Posted(t, "FREE") /\ Move(t, "FundsPosted", "Completed")

Funded(t) == state[t] \in {"FundsPosted", "Completed"}

Reverse(t) == Funded(t) /\ Posted(t, "FREE") /\ Post(t, "REVERSAL")

Charge(t) == Funded(t) /\ Posted(t, "REVERSAL") /\ Post(t, "RETURNED_CHECK_FEE")

Return(t) ==
    /\ Posted(t, "REVERSAL") /\ Posted(t, "RETURNED_CHECK_FEE")
    /\ \/ Move(t, "FundsPosted", "Returned")
       \/ Move(t, "Completed", "Returned")

LifecycleNext ==
    \E t \in Transfers :
        \/ Open(t) \/ Review(t) \/ Decline(t) \/ Credit(t) \/ Fund(t)
        \/ Settle(t) \/ Reverse(t) \/ Charge(t) \/ Return(t)

LifecycleSpec == LifecycleInit /\ [][LifecycleNext]_lifecycleVars
=============================================================================
