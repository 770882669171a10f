CONSTANTS
    NoTxn = NoTxn
    Classes = 3
    Tests = 2
    Contents <- MCContents
    Scripts <- MCScripts
    Handlings <- MCHandlings
SPECIFICATION MockFairSpec
INVARIANTS
    NeverHangs
    OwnVerdict
PROPERTIES
    TestEnds
CHECK_DEADLOCK FALSE
