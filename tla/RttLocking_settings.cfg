SPECIFICATION SettingsSpec
CONSTANTS
    r1 = r1
    c1 = c1
    c2 = c2
    Rds = {r1}
    Cpus = {c1, c2}
    Granules <- MCDeepGranules
    RootOf <- MCRootOf
    RdAddr <- MCRdAddr
    RecAddr <- MCRecAddr
    Commands <- MCAnyCommands
    RipasRequests <- MCRequests
    HostPas = {}
    S2TTES_PER_S2TT = 2
    StartLevel = 1
    TlbMax = 0
SYMMETRY CpuSymmetry
INVARIANTS
    LockedAsAsserted
    NoWaitCycle
PROPERTIES
    CommandsAreAtomic
