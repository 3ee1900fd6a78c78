------------------------------- MODULE Ledger -------------------------------
(***************************************************************************)
(* The double-entry ledger as the handlers see it: a posting inserts its   *)
(* DEBIT and its CREDIT row in one transaction, or neither, and is one     *)
(* atomic step.  Module LedgerTx shows that the transactions of the store  *)
(* implement this.                                                         *)
(***************************************************************************)
EXTENDS Integers, FiniteSets, FiniteSetsExt

CONSTANTS
    Transfers,          \* transfer ids that requests may create
    Accounts,           \* investor accounts
    Correspondents,     \* broker-dealers
    AccountOf,          \* [Transfers -> Accounts]
    CorrespondentOf,    \* [Accounts -> Correspondents]
    Amount,             \* [Transfers -> Nat \ {0}], in cents
    ReturnedCheckFee    \* [Correspondents -> Nat], rules_config.fees.returned_check

ASSUME LedgerAssumption ==
    /\ AccountOf \in [Transfers -> Accounts]
    /\ CorrespondentOf \in [Accounts -> Correspondents]
    /\ Amount \in [Transfers -> Nat \ {0}]
    /\ ReturnedCheckFee \in [Correspondents -> Nat]

\* A table holds finitely many rows: balances add up amounts of transfers.
ASSUME FiniteAssumption == IsFiniteSet(Transfers)

VARIABLE ledger   \* ledger[t][type]: DEBIT/CREDIT pairs of that entry type posted for t

\* Named by the memo that selects the entry_type of a posting.
EntryTypes == {"FREE", "REVERSAL", "RETURNED_CHECK_FEE"}

CorrOf(t) == CorrespondentOf[AccountOf[t]]

LedgerInit == ledger = [t \in Transfers |-> [type \in EntryTypes |-> 0]]

EntryAmount(t, type) ==
    IF type = "RETURNED_CHECK_FEE" THEN ReturnedCheckFee[CorrOf(t)] ELSE Amount[t]

\* The ledger's constraints: amount > 0, and UNIQUE(transfer_id, entry_type,
\* account_id, side), which admits one pair of each type per transfer.
CanPost(t, type) ==
    /\ EntryAmount(t, type) > 0
    /\ ledger[t][type] = 0

\* Mutant: a ledger without the uniqueness constraint.
PostDoubleEntryTwice(t, type) ==
    /\ EntryAmount(t, type) > 0
    /\ ledger' = [ledger EXCEPT ![t][type] = @ + 1]

\* One transaction inserts the DEBIT and the CREDIT row, or neither.
PostDoubleEntry(t, type) ==
    /\ CanPost(t, type)
    /\ ledger' = [ledger EXCEPT ![t][type] = @ + 1]

PostFails(t, type) ==
    /\ ~CanPost(t, type)
    /\ UNCHANGED ledger

\* SUM(credits) - SUM(debits) over an investor account: a deposit credits it,
\* a reversal and a fee debit it.
GetBalance(a) ==
    MapThenSumSet(
        LAMBDA t : Amount[t] * (ledger[t]["FREE"] - ledger[t]["REVERSAL"])
                   - ReturnedCheckFee[CorrOf(t)] * ledger[t]["RETURNED_CHECK_FEE"],
        {t \in Transfers : AccountOf[t] = a})

LedgerNext == \E t \in Transfers, type \in EntryTypes : PostDoubleEntry(t, type)

LedgerSpec == LedgerInit /\ [][LedgerNext]_ledger
=============================================================================
