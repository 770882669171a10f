CONSTANTS
    m = m
    f1 = f1
    f2 = f2
    f3 = f3
    f4 = f4
    f5 = f5
    NoFuture = NoFuture
    NoOne = NoOne
    Main = m
    Clients <- MCClients
    Patient = {}
    Receivers <- MCClients
    Interruptible <- MCClients
    Futures <- MCFutures
    Kinds <- MCKinds
    MaxEpoch = 2
    MaxInbound = 2
    MaxQueued = 4
    MaxCloses = 1
    Registrations = 1
    MaxRequests = 1
    MaxInterrupts = 1
SPECIFICATION TPFairSpec
INVARIANTS
    RegisteredFirst
    NoneMissed
    NothingRegisteredAfterInterrupt
    AppliedOnce
PROPERTIES
    Reregisters
    DrainEnds
CHECK_DEADLOCK FALSE
