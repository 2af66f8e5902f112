SPECIFICATION Spec
CONSTANTS
    r1 = r1
    r2 = r2
    NoGranule = NoGranule
    Rds = {r1}
    Granules <- MCGranules
    RootOf <- MCRootOf
    RipasRequests <- MCRequests
    HostPas = {0}
    S2TTES_PER_S2TT = 2
    StartLevel = 2
    TlbMax = 1
INVARIANTS
    TypeOK
    RefcountCountsLive
    PointsToOwned
    NoSharing
    NoLeak
    ScrubbedOnReturn
    TlbCoherent
    RamIsMeasured
