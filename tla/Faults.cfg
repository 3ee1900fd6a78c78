SPECIFICATION Spec
CONSTANTS
    t1 = t1
    t2 = t2
    a1 = a1
    a2 = a2
    c1 = c1
    c2 = c2
    f1 = f1
    f2 = f2
    Transfers = {t1}
    Accounts = {a1}
    Correspondents = {c1}
    AccountOf <- SameAccount
    CorrespondentOf <- OneCorrespondent
    Amount <- SmallAmounts
    DepositLimit <- Limits
    ReturnedCheckFee <- Fees
    IneligibleAccounts = {}
    Scenarios <- MixedScenarios
    OpRequests = {o1}
    RetRequests = {r1}
    Triggers = {g1}
    HealthRequests = {}
    Batches = {b1, b2}
    Files = {f1}
    FileOf <- OwnFiles
    Faults = TRUE
INVARIANTS MoneyInv MoneyMatchesState OneApprover AuditTruthful CompletedWasPresented
PROPERTY ImplementsLifecycle
CHECK_DEADLOCK FALSE
