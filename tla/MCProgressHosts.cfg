SPECIFICATION ProgressSpec
CONSTANTS
    rd1 = rd1
    Rds = {rd1}
    Granules <- MCGranules
    KernelPages <- MCKernelPages
    RootOf <- MCRoot
    RipasRequests = {}
    HostPas <- MCPas
    S2TTES_PER_S2TT = 2
    StartLevel = 1
    TlbMax = 0
    Vcpus = {v1}
    Unmapper = unmapper
    FaultIpas = {3, 4}
    MapSizes = {1}
    NoPage = NoPage
    UnmapRanges <- MCRanges
    v1 = v1
    vm1 = vm1
    t1 = t1
    u1 = u1
    u2 = u2
    z1 = z1
    p1 = p1
    c1 = c1
    c2 = c2
    c3 = c3
    NoCpu = NoCpu
PROPERTIES
    HostsGetOn
