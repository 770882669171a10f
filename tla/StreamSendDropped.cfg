CONSTANTS
    c1 = c1
    c2 = c2
    r1 = r1
    r2 = r2
    NoFuture = NoFuture
    NoOne = NoOne
    Clients <- MCOneClient
    Patient <- MCPatient
    Receivers <- MCOneClient
    Interruptible = {}
    Futures <- MCOneFuture
    Kinds <- MCKinds
    MaxEpoch = 2
    MaxInbound = 0
    MaxQueued = 0
    MaxCloses = 0
SPECIFICATION FairSpec
PROPERTIES
    SendSendsOrRaises
CHECK_DEADLOCK FALSE
