SPECIFICATION Spec
CONSTANTS
    Requests = {r1, r2, r3}
    Keys = {k1, k2}
    NoKey = NoKey
    Transfers = {t1, t2, t3}
    None = None
    Faults = TRUE
INVARIANTS IdempotencyInv ReplaysAgree AnsweredIsFinal
SYMMETRY Interchangeable
CHECK_DEADLOCK FALSE
