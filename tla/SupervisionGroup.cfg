SPECIFICATION Spec
CONSTANTS
    Sup = sup
    Rival = rival
    Bind = bind
    Dog = dog
    NoProc = noProc
    Workers = {w1, w2}
    Hosts = {"linux", "darwin"}
INVARIANTS ConfirmedMeansCleared LeaseUntilCleared
PROPERTIES ImplementsLease
SYMMETRY WorkerSymmetry
CHECK_DEADLOCK FALSE
