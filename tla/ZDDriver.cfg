CONSTANTS
    e = e
    d = d
    o = o
    f1 = f1
    f2 = f2
    NoFuture = NoFuture
    NoOne = NoOne
    Main = e
    Driver = d
    Stopper = o
    Clients <- MCClients
    Patient = {}
    Receivers <- MCReceivers
    Interruptible = {}
    Futures <- MCFutures
    Kinds <- MCKinds
    Answers <- MCAnswers
    MaxEpoch = 2
    MaxInbound = 2
    MaxQueued = 9
    MaxCloses = 3
    MaxCalls = 1
    MaxEvents = 4
    EngineQuits = TRUE
SPECIFICATION ZDFairSpec
INVARIANTS
    UpdatesInOrder
    DriverServes
PROPERTIES
    NoneLost
    NothingAfterReturn
    StopEndsStart
CHECK_DEADLOCK FALSE
