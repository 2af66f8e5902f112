SPECIFICATION RttSpec
CONSTANTS
    r1 = r1
    r2 = r2
    NoGranule = NoGranule
    Rds = {r1}
    Granules <- MCGranules
    RootOf <- MCRootOf
    RipasRequests <- MCOneRequest
    HostPas = {}
    S2TTES_PER_S2TT = 2
    StartLevel = 1
    TlbMax = 1
INVARIANTS
    TablesOwnGranules
