SPECIFICATION LocksSpec
CONSTANTS
    Limit = 2
    BudgetWindow = 2
    MaxLag = 1
    CodeCalls = {c1, c2}
    DataCalls = {}
    AppIDs = {app}
    AppOf <- MCAppOf
    None = None
    HasResidue = FALSE
    FreshWindow = 1
    RepairWindow = 2
    MaxSessions = 2
    MaxAuth = 1
    MaxTime = 2
    MaxCrashes = 0
CHECK_DEADLOCK FALSE
INVARIANTS
    WithinBudget
PROPERTIES
    SkipsOnlyWhatServed
    RequestsReturn
