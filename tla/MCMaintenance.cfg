SPECIFICATION FairSpec
CONSTANTS
    Requests = {r1, r2}
    NoRequest = NoRequest
    MaxVersion = 3
CHECK_DEADLOCK FALSE
INVARIANTS
    TypeOK
    OutcomeIsTrue
PROPERTIES
    NeverOlder
    JobEnds
