CONSTANTS
    c1 = c1
    c2 = c2
    r1 = r1
    r2 = r2
    NoFuture = NoFuture
    NoOne = NoOne
    Clients <- MCClients
    Patient <- MCPatient
    Receivers <- MCReceivers
    Interruptible <- MCInterruptible
    Futures <- MCFutures
    Kinds <- MCKinds
    MaxEpoch = 2
    MaxInbound = 0
    MaxQueued = 1
    MaxCloses = 1
SPECIFICATION Spec
SYMMETRY MCSymmetry
INVARIANTS
    QueuesWhileRunning
    NoStrayAnswer
    CallsKept
PROPERTIES
    KeepsPromise
    NeverForgotten
CHECK_DEADLOCK FALSE
