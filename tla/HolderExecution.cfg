SPECIFICATION HolderOrLeaseSpec
CONSTANTS
    p1 = p1
    p2 = p2
    Pids = {p1, p2, p3}
    Holder = holder
    InitProc = initProc
    NoPid = noPid
    Free = free
    Platforms = {"linux", "darwin"}
    Failing = {"table"}
    Procs = {c1, c2, c3}
    Helpers = {k1, k2}
    NoProc = noProc
INVARIANTS
    MetaNamesHolder
    HelperGuardsLease
PROPERTIES
    ImplementsLaunch
    ExecuteEnds
    ImplementsMutex
CHECK_DEADLOCK FALSE
