CONSTANTS
    p1 = p1
    p2 = p2
    a1 = a1
    a2 = a2
    n1 = n1
    n2 = n2
    n3 = n3
    long = long
    NoJob = NoJob
    Garbage = Garbage
    Incomplete = Incomplete
    Unset = Unset
    Processors <- MCProcessors
    Addresses <- MCAddresses
    Names <- MCNames
    AddressOf <- MCAddressOf
    Jobs <- MCJobs
    MaxValue = 1
SPECIFICATION IntkeySpec
SYMMETRY MCSymmetry
INVARIANTS
    RefusedRightly
PROPERTIES
    KeepsCounters
