SPECIFICATION Spec
CONSTANTS
    InitiatorReset = TRUE
    AcceptorReset = TRUE
    Window = 4
    HeartBtInt <- MCHeartBtInt
    AppKinds = {"request"}
    MaxApp = 1
    MaxTicks = 0
    MaxFailures = 0
    MaxStops = 0
INVARIANT StoreAssertHolds
CHECK_DEADLOCK FALSE
