SPECIFICATION Spec
CONSTANTS
    t1 = t1
    a1 = a1
    a2 = a2
    c1 = c1
    c2 = c2
    Transfers = {t1, t2}
    Accounts = {a1, a2}
    Correspondents = {c1, c2}
    AccountOf <- OwnAccounts
    CorrespondentOf <- TwoCorrespondents
    Amount <- Amounts
    ReturnedCheckFee <- Fees
    Movements = {m1, m2, m3}
    Faults = TRUE
INVARIANTS TxInv RowsReconcile NoDeadlock
PROPERTY ImplementsLedger
CHECK_DEADLOCK FALSE
