SPECIFICATION MCSpec
CONSTANTS
    Client = {c1, c2}
    Start = 1
    End = 2
    ScanLimit = 1
    LeaseTime = 1
    None = None
    MaxExchanges = 3
    MaxTime = 3
    Ip = {i1, i2}
    Mac = {m1, m2}
    NoMac = NoMac
    ArpScript = TRUE
    MaxNeighbours = 2
    MaxRecords = 2
SYMMETRY Symmetry
INVARIANT HeldIsRecorded
INVARIANT NeighboursAreRight
PROPERTY AdvertisesOnlyUnheld
CHECK_DEADLOCK FALSE
