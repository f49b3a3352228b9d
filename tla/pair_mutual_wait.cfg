SPECIFICATION Spec
CONSTANTS
    InitiatorReset = FALSE
    AcceptorReset = TRUE
    Window = 4
    HeartBtInt <- MCHeartBtInt
    AppKinds = {"request"}
    MaxApp = 1
    MaxTicks = 0
    MaxFailures = 1
    MaxStops = 0
INVARIANT NoMutualWait
CHECK_DEADLOCK FALSE
