SPECIFICATION Spec
CONSTANTS
    Runs = {r1}
    Contracts = {c1}
    Sources = {s1, s2}
    Outputs = {good, bad}
    GoodOutputs = {good}
    Pred <- SoloPred
    TTL = 1
    MaxTime = 1
    MaxLog = 6
    NoRun = noRun
    NoApproval = noApproval
    NoReceipt = noReceipt
    NoLocals = noLocals
INVARIANTS
    RelaunchOnlyAfterUnconfirmed
    LaunchWasApproved
    RunStartsApproved
    PostflightedVerifies
    ReceiptBindsLaunch
PROPERTIES
    ClosedIsFinal
SYMMETRY SourceSymmetry
CHECK_DEADLOCK FALSE
