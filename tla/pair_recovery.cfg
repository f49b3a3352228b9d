SPECIFICATION Spec
CONSTANTS
    InitiatorReset = FALSE
    AcceptorReset = TRUE
    Window = 4
    HeartBtInt <- MCHeartBtInt
    AppKinds = {"request", "unregistered"}
    MaxApp = 2
    MaxTicks = 0
    MaxFailures = 2
    MaxStops = 0
INVARIANT TypeOK
INVARIANT ExactlyOnceInOrder
INVARIANT StoreMatchesSeq
INVARIANT WireFaithful
INVARIANT ParkedIsAhead
INVARIANT Inv
PROPERTY NextInNeverRegresses
CHECK_DEADLOCK FALSE
