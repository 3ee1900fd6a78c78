SPECIFICATION FairSpec
CONSTANTS
    t1 = t1
    t2 = t2
    a1 = a1
    a2 = a2
    c1 = c1
    c2 = c2
    f1 = f1
    f2 = f2
    Transfers = {t1, t2}
    Accounts = {a1}
    Correspondents = {c1}
    AccountOf <- SameAccount
    CorrespondentOf <- OneCorrespondent
    Amount <- SmallAmounts
    DepositLimit <- Limits
    ReturnedCheckFee <- Fees
    IneligibleAccounts = {}
    Scenarios <- PaidAndOther
    OpRequests = {o1}
    RetRequests = {r1, r2}
    Triggers = {}
    HealthRequests = {}
    Batches = {}
    Files = {f1}
    FileOf <- OwnFiles
    Faults = FALSE
INVARIANTS OneReturner NegativeBalanceFlagged ReturnNotified AuditComplete AuditTruthful
PROPERTIES DepositResolves ReturnsComplete
CHECK_DEADLOCK FALSE
