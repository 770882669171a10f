CONSTANTS
    c1 = c1
    c2 = c2
    r1 = r1
    r2 = r2
    NoFuture = NoFuture
    NoOne = NoOne
    Clients <- MCClients
    Patient <- MCPatient
    Receivers <- MCClients
    Interruptible <- MCInterruptible
    Futures <- MCOneFuture
    Kinds <- MCKinds
    MaxEpoch = 2
    MaxInbound = 1
    MaxQueued = 0
    MaxCloses = 1
SPECIFICATION FairSpec
PROPERTIES
    HandedOverResolves
    ReceiveReleased
    PutMessageReturns
    CloseTerminates
CHECK_DEADLOCK FALSE
