SPECIFICATION InstanceSpec
CONSTANTS
    r1 = r1
    r2 = r2
    Runs = {r1, r2}
    Contracts = {c1}
    Sources = {s1, s2}
    Outputs = {good}
    GoodOutputs = {good}
    Pred <- ChainPred
    TTL = 1
    ChallengeTTL = 1
    MaxTime = 1
    MaxLog = 6
    ChainLog = 5
    MaxAttempts = 2
    MaxArms = 1
    NoRun = noRun
    NoApproval = noApproval
    NoReceipt = noReceipt
    NoLocals = noLocals
    NoPending = noPending
INVARIANTS
    OneFate
    CancelledGrantRaced
    ReceiptLostOnlyToRefusal
PROPERTIES
    ImplementsFate
CONSTRAINT EventsOnce
SYMMETRY SourceSymmetry
CHECK_DEADLOCK FALSE
