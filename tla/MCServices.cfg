\* three processes and a user, three calls on two modules.
SPECIFICATION ServiceSpec
CONSTANTS
    Procs = {p1, p2, p3}
    Users = {u1}
    Objs <- MCObjs
    a = a
    b = b
    Names = {a, b}
    None = None
    Needs <- MCNeeds
    MaxCalls = 3
    PageFails = FALSE
    RoFails = FALSE
    t1 = t1
    t2 = t2
    d1 = d1
    d2 = d2
    Tasks = {t1, t2}
    Daemons = {d1, d2}
    Nobody = Nobody
    Limit = 1
    Retries = 2
    WaitTime = 1
    Default = TRUE
    MaxRecords = 3
    MaxRequests = 2
    Ops = {"register", "unregister"}
    Lossy = TRUE
    Congested = TRUE
    Reuse = FALSE
SYMMETRY Symmetry
INVARIANTS
    
    RecordsAccounted
PROPERTIES
    HealthyStays
