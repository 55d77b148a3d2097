SPECIFICATION Spec
CONSTANTS
    Confirms = {h1, h2}
    Makers = {m1}
    Cleaners = {k1}
    OpenIDs = {a, b}
    Users = {u1}
    None = None
    MaxID = 3
    MaxLinks = 2
SYMMETRY Symmetry
CHECK_DEADLOCK FALSE
INVARIANTS
    TypeOK
    LinksPointHome
    AddsWithinLinks
PROPERTIES
    UpdatesItsOwnAccount
    OwnedStayOwned
CONSTRAINT TwoAtATime
