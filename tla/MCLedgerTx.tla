----------------------------- MODULE MCLedgerTx -----------------------------
(* Small instances of LedgerTx for TLC. *)
EXTENDS LedgerTx, TLC

CONSTANTS t1, a1, a2, c1, c2

\* Two correspondents, one of which charges nothing for a returned check.
OwnAccounts == [t \in Transfers |-> IF t = t1 THEN a1 ELSE a2]
TwoCorrespondents == [a \in Accounts |-> IF a = a1 THEN c1 ELSE c2]
Amounts == [t \in Transfers |-> IF t = t1 THEN 100 ELSE 70]
Fees == [c \in Correspondents |-> IF c = c1 THEN 30 ELSE 0]
=============================================================================
