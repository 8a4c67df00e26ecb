SPECIFICATION Spec
CONSTANTS
    Runs = {r1}
    MaxExact = 1
    MaxInFlight = 2
    MaxFaults = 2
    MaxChanges = 1
    None = None
INVARIANTS
    CompletedMeansRan
PROPERTIES
    ImplementsNonceFates
    LaunchedAsShown
    NeverSignsAgain
CONSTRAINT FewDisturbances
CHECK_DEADLOCK FALSE
