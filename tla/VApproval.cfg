SPECIFICATION Spec
CONSTANTS
    t1 = t1
    t2 = t2
    a1 = a1
    a2 = a2
    c1 = c1
    c2 = c2
    f1 = f1
    f2 = f2
    Transfers = {t1}
    Accounts = {a1}
    Correspondents = {c1}
    AccountOf <- SameAccount
    CorrespondentOf <- OneCorrespondent
    Amount <- SmallAmounts
    DepositLimit <- Limits
    ReturnedCheckFee <- Fees
    IneligibleAccounts = {}
    Scenarios <- CleanScenario
    OpRequests = {o1}
    RetRequests = {}
    Triggers = {}
    HealthRequests = {}
    Batches = {}
    Files = {f1}
    FileOf <- OwnFiles
    Faults = FALSE
PROPERTY ApprovalsAreReviewed
CHECK_DEADLOCK FALSE
