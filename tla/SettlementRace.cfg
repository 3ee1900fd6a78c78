SPECIFICATION Spec
CONSTANTS
    t1 = t1
    t2 = t2
    a1 = a1
    a2 = a2
    c1 = c1
    c2 = c2
    f1 = f1
    f2 = f2
    Transfers = {t1, t2}
    Accounts = {a1}
    Correspondents = {c1}
    AccountOf <- SameAccount
    CorrespondentOf <- OneCorrespondent
    Amount <- SmallAmounts
    DepositLimit <- Limits
    ReturnedCheckFee <- Fees
    IneligibleAccounts = {}
    Scenarios <- CleanScenario
    OpRequests = {}
    RetRequests = {}
    Triggers = {g1, g2}
    HealthRequests = {h1}
    Batches = {b1, b2, b3}
    Files = {f1}
    FileOf <- OwnFiles
    Faults = FALSE
INVARIANT AcknowledgedAreSettled
SYMMETRY SlotSymmetry
CHECK_DEADLOCK FALSE
