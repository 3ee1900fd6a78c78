--------------------------- MODULE MCCheckDeposit ---------------------------
(* Small instances of CheckDeposit for TLC. *)
EXTENDS CheckDeposit, TLC

CONSTANTS t1, t2, a1, a2, c1, c2, f1, f2

\* Two transfers of one account, or of accounts of two correspondents.
SameAccount == [t \in Transfers |-> a1]
OwnAccounts == [t \in Transfers |-> IF t = t1 THEN a1 ELSE a2]

OneCorrespondent == [a \in Accounts |-> c1]
TwoCorrespondents == [a \in Accounts |-> IF a = a1 THEN c1 ELSE c2]

\* Amounts in cents, within the limit.
SmallAmounts == [t \in Transfers |-> 100]
Limits == [c \in Correspondents |-> 500]
Fees == [c \in Correspondents |-> 30]

\* A path for each correspondent; or, as the ids of db/seed.sql have it, one path
\* for both, because their first 8 characters are equal.
OwnFiles == [c \in Correspondents |-> IF c = c1 THEN f1 ELSE f2]
SeedFiles == [c \in Correspondents |-> f1]

\* Scenarios of the transfers: the plain one; one for each way the control flow goes on
\* the vendor's answer, an unknown one included; one paid and one flagged for review,
\* rejected or unknown.
CleanScenario == [t \in Transfers |-> {"clean_pass"}]
MixedScenarios ==
    [t \in Transfers |-> {"clean_pass", "micr_failure", "iqa_fail_glare", "unknown"}]
PaidAndOther ==
    [t \in Transfers |->
        IF t = t1 THEN {"clean_pass"}
        ELSE {"amount_mismatch", "duplicate_detected", "unknown"}]

\* Request slots are interchangeable.
SlotSymmetry ==
    Permutations(OpRequests) \union Permutations(RetRequests)
    \union Permutations(Triggers) \union Permutations(HealthRequests)
=============================================================================
