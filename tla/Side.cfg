SPECIFICATION SideSpec
CONSTANTS
  Procs = {p1, p2, p3}
  Entries = {e1, e2, e3}
  Genesis = genesis
  TornLine = torn
  Nil = nil
  MaxPairs = 2
  MaxKeyFaults = 3
  LaunchNonces = {n1, n2}
  NoNonce = noNonce
  MaxPid = 3
  Sources = {"sh", "script"}
  Script = "script"
  Interpreter = "sh"
  Bodies = {"b1", "b2"}
  MaxBinds = 2
  SubTests = FALSE
  Checkers = {check1, check2}
  Manifests <- MCManifests
  MaxChecks = 2
  MaxEdits = 1
  PhoneChallenges = {c1, c2}
  ExactChallenges = {r1}
  Blank = blank
  MaxPosts = 2
  MaxRepeats = 1
  Clerks = {p, q}
  UsageKeys = {k1, k2}
  MaxCommands = 3
  MaxSeconds = 2
  MaxTreeEdits = 1
INVARIANTS
  ChainVerifies
  ReturnedIsThere
  SignedVerifiesUntilOverwritten
  LiveKeepsLease
  BoundIsSigned
  PassedMeansTrue
  BindsWhatStood
  EvidenceStands
  ApplicableHolds
  ServedBelongs
  AnsweredStays
PROPERTIES
  ImplementsAppendOnlyLog
  ImplementsAtomicPair
CONSTRAINT ChecksAlone
SYMMETRY SideSymmetry
CHECK_DEADLOCK FALSE
