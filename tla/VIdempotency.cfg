SPECIFICATION Spec
CONSTANTS
    Requests = {r1, r2}
    Keys = {k1}
    NoKey = NoKey
    Transfers = {t1, t2}
    None = None
    Faults = FALSE
INVARIANT OneTransferPerKey
CHECK_DEADLOCK FALSE
