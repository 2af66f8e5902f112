SPECIFICATION Spec
CONSTANTS
    r1 = r1
    r2 = r2
    NoGranule = NoGranule
    Rds = {r1}
    Granules <- MCGranules
    RootOf <- MCRootOf
    RipasRequests <- MCTwoRequests
    HostPas = {}
    S2TTES_PER_S2TT = 2
    StartLevel = 2
    TlbMax = 0
PROPERTIES
    ImplementsIpaSpace
