SPECIFICATION Spec
CONSTANTS
    Producers = {p1, p2}
    Capacity = 2
    Burst = 3
    Calls = {"push", "try_push"}
    MaxPush = 3
INVARIANT InTicketOrder
INVARIANT DataRaceFree
INVARIANT NothingLost
PROPERTY DestructorReturns
PROPERTY EventuallyWritten
CHECK_DEADLOCK FALSE
