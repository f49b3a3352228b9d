SPECIFICATION Spec
CONSTANTS
    Producers = {p1, p2}
    Capacity = 4
    Burst = 2
    Calls = {"push"}
    MaxPush = 3
PROPERTY EveryEntryWritten
CHECK_DEADLOCK FALSE
