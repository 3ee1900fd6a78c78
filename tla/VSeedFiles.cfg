SPECIFICATION Spec
CONSTANTS
    t1 = t1
    t2 = t2
    a1 = a1
    a2 = a2
    c1 = c1
    c2 = c2
    f1 = f1
    f2 = f2
    Transfers = {t1, t2}
    Accounts = {a1, a2}
    Correspondents = {c1, c2}
    AccountOf <- OwnAccounts
    CorrespondentOf <- TwoCorrespondents
    Amount <- SmallAmounts
    DepositLimit <- Limits
    ReturnedCheckFee <- Fees
    IneligibleAccounts = {}
    Scenarios <- CleanScenario
    OpRequests = {}
    RetRequests = {}
    Triggers = {g1}
    HealthRequests = {}
    Batches = {b1, b2}
    Files = {f1}
    FileOf <- SeedFiles
    Faults = FALSE
INVARIANT CompletedWasPresented
CHECK_DEADLOCK FALSE
