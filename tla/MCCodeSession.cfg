SPECIFICATION Spec
CONSTANTS
    Limit = 1
    BudgetWindow = 2
    MaxLag = 0
    CodeCalls = {c1}
    DataCalls = {d1}
    AppIDs = {app}
    AppOf <- MCAppOf
    None = None
    HasResidue = FALSE
    FreshWindow = 1
    RepairWindow = 2
    MaxSessions = 2
    MaxAuth = 2
    MaxTime = 2
    MaxCrashes = 1
CHECK_DEADLOCK FALSE
INVARIANTS
    TypeOK
    KeySentOnce
    SuccessorHasAPlace
    BackoffWasGranted
PROPERTIES
    StoredForItsAuthorization
    CellSpec
