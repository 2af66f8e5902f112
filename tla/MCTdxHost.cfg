SPECIFICATION TdxSpec
CONSTANTS
    Vcpus = {v1, v2}
    Zappers = {z1, z2}
    Pages = {p1}
    NoPage = NoPage
    MaxZaps = 2
    t1 = t1
    t2 = t2
    u1 = u1
    u2 = u2
    Tds = {t1, t2}
    TdVcpus = {u1, u2}
    TdOf <- MCTdOf
    KernelPages <- MCKernelPages
    NrTdcs = 2
    NrTdvpx = 1
    Keyids = {1, 2}
    Refusals = {"kcalloc", "mng_create", "key_config", "addcx", "mng_init", "vp_create",
                "vp_addcx", "vp_init", "vpflushdone", "key_freeid", "reclaim"}
    NullPa = 0
    c1 = c1
    c2 = c2
    c3 = c3
    Vps = {v1, v2}
    Cpus = {c1, c2, c3}
    Package <- MCPackage
    MaxOffline = 2
    NoCpu = NoCpu
SYMMETRY Symmetry
INVARIANTS
    NeverBugged
    FlushedBeforeUnpinned
    TdsKeepApart
    EverythingBack
    VcpuListsSound
