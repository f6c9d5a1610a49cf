SPECIFICATION MishapSpec
CONSTANTS
    p1 = p1
    p2 = p2
    Procs = {p1, p2}
    Appends <- MCAppends
    Imports <- MCImports
    Pins <- MCPins
    Roots <- MCRoots
    Policies <- MCPolicies
    Environments = {"prod"}
    Authorities = {"a1"}
    Ttls = {1}
    Claims = {1, 2}
    Minimums = {1}
    FutureSkew = 1
    StapleSkew = 0
    MaxTtl = 1
    MaxEvents = 2
    MaxTime = 2
    MaxStaples = 1
    MaxPlans = 1
    MaxAllowed = 1
SYMMETRY Symmetric
CONSTRAINT ClockMatters
INVARIANTS HistoryKept RecordedOnce AllowedIsCovered
CHECK_DEADLOCK FALSE
