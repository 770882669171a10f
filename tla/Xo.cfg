CONSTANTS
    p1 = p1
    a1 = a1
    n1 = n1
    n2 = n2
    s1 = s1
    s2 = s2
    NoJob = NoJob
    NoOne = NoOne
    NoGame = NoGame
    Garbage = Garbage
    Processors <- MCProcessors
    Addresses <- MCAddresses
    Names <- MCNames
    AddressOf <- MCAddressOf
    Signers <- MCSigners
    Jobs <- MCJobs
SPECIFICATION XoSpec
SYMMETRY MCSymmetry
CONSTRAINT MCBound
INVARIANTS
    XoInv
PROPERTIES
    PlaysByTheRules
