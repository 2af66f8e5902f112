SPECIFICATION LSpec
CONSTANTS
    r1 = r1
    c1 = c1
    c2 = c2
    Rds = {r1}
    Cpus = {c1, c2}
    Granules <- MCGranules
    RootOf <- MCRootOf
    RdAddr <- MCRdAddr
    RecAddr <- MCRecAddr
    Commands <- MCBlockCommands
    RipasRequests <- MCRequests
    HostPas = {}
    S2TTES_PER_S2TT = 2
    StartLevel = 2
    TlbMax = 0
PROPERTIES
    PopulatedOnlyNew
