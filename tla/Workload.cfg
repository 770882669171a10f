CONSTANTS
    c1 = c1
    c2 = c2
    u1 = u1
    u2 = u2
    n1 = n1
    n2 = n2
    NoBatch = NoBatch
    NoKey = NoKey
    NoName = NoName
    Checkers <- MCCheckers
    Urls <- MCUrls
    Names <- MCNames
    MaxValue = 1
SPECIFICATION WorkloadFairSpec
INVARIANTS
    OnePlace
    OneUnderWay
    KeyKnown
    NoneDropped
PROPERTIES
    Followed
CHECK_DEADLOCK FALSE
