SPECIFICATION FairSpec
CONSTANTS
    InitiatorReset = TRUE
    AcceptorReset = TRUE
    Window = 4
    HeartBtInt <- MCHeartBtInt
    AppKinds = {"request"}
    MaxApp = 1
    MaxTicks = 1
    MaxFailures = 1
    MaxStops = 1
PROPERTY EventualDelivery
PROPERTY LogoutEnds
PROPERTY LogonResolves
CHECK_DEADLOCK FALSE
