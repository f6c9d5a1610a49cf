SPECIFICATION Spec
CONSTANTS
    Drills = {"base", "d1"}
    Artifacts = {"v1", "v2"}
    Environments = {"e1"}
    ValidFrom <- MCFrom
    ValidUntil <- MCUntil
    Margin = 0
    Fresh = 2
    AdmissionLife = 2
    RouteAge = 4
    MaxRecorded = 2
    Base = "base"
    Installed = "v1"
    Commits = {"c1"}
    Signers = {"admitter", "deployer"}
    Duration = 1
    IsolationLife = 2
    MaxActivity = 3
    MaxRuns = 1
    MaxTime = 3
INVARIANTS ApprovedIsOneDrill AcceptedWithinEveryWindow
CHECK_DEADLOCK FALSE
