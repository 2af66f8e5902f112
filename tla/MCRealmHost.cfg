SPECIFICATION RealmSpec
CONSTANTS
    rd1 = rd1
    Rds = {rd1}
    Granules <- MCGranules
    KernelPages <- MCKernelPages
    RootOf <- MCRoot
    RipasRequests = {}
    HostPas <- MCPas
    S2TTES_PER_S2TT = 2
    StartLevel = 2
    TlbMax = 0
    Vcpus = {v1, v2}
    Unmapper = unmapper
    FaultIpas = {0, 1, 2, 3}
    MapSizes = {1, 2}
    NoPage = NoPage
    UnmapRanges <- MCRanges
    vm1 = vm1
    vm2 = vm2
    u1 = u1
SYMMETRY Symmetry
INVARIANTS
    PagesAccounted
    
    LivesKeepApart
    
    SimdIsolated
PROPERTIES
    MappingIsExact
    
