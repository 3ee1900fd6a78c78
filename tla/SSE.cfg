SPECIFICATION FairSpec
CONSTANTS
    Clients = {c1, c2}
    BufferSize = 1
    MaxMessages = 3
    Faults = TRUE
INVARIANTS LockInv StreamComplete
PROPERTIES GoneIsForgotten NotificationsTaken
CHECK_DEADLOCK FALSE
