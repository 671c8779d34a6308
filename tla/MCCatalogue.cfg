\* Four requests, among which one edition of a claim, each one after the listeners of the previous one.
SPECIFICATION CatalogueSpec
CONSTANTS
    Authors = {x1, x2}
    Works = {w1, w2, w3}
    Editions = {e1, e2}
    NoEntity = NoEntity
    Catalogues <- MCCatalogues
    w1 = w1
    w2 = w2
    w3 = w3
    x1 = x1
    x2 = x2
    e1 = e1
    e2 = e2
    MaxRequests = 4
    MaxEdits = 1
    MaxTasks = 1
    MaxHistory = 5
INVARIANTS
    UsesFollowTheirEntity
    NoTaskOnRedirection
    ReversalsRestore
CHECK_DEADLOCK FALSE
