\* One component at a time: two CPUs, two loading processes, a task and a daemon,
\* one or two vectors, two NMIs and an interrupt, one writer and one reader.
SPECIFICATION ProgressSpec
CONSTANTS
    r1 = r1
    c1 = c1
    c2 = c2
    Rds = {r1}
    Cpus = {c1, c2}
    Granules <- MCGranules
    RootOf <- MCRootOf
    RdAddr <- MCRdAddr
    RecAddr <- MCRecAddr
    Commands <- MCReturning
    RipasRequests <- MCRequests
    HostPas = {0}
    S2TTES_PER_S2TT = 2
    StartLevel = 2
    TlbMax = 0
    p1 = p1
    p2 = p2
    x1 = x1
    o1 = o1
    o2 = o2
    a = a
    b = b
    t1 = t1
    d1 = d1
    w1 = w1
    q1 = q1
    None = None
PROPERTY ServicesGetOn
\* The bounded calls, records, deliveries and NMIs are used up.
CHECK_DEADLOCK FALSE
