SPECIFICATION FairSpec
CONSTANTS
    w1 = w1
    w2 = w2
    w3 = w3
    Worker = {w1, w2}
    Paths = 5
    Capacity = 2
    Cancellable = TRUE
CHECK_DEADLOCK FALSE
PROPERTY Returns
