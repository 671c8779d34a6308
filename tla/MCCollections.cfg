\* The inventory, the lists and the visibility of documents, one of them at a time.
SPECIFICATION CollectionsSpec
CONSTANTS
    Users = {u, v}
    Items = {i, j}
    Shelves = {s, t}
    Requests = {r1, r2}
    NoDoc = NoDoc
    Gone = Gone
    MaxRequests = 3
    Levels = {"private", "public"}
    MaxRestarts = 1
    Creators = {u}
    Lists = {l1, l2}
    Uris = {a, b, c}
    Ids = {1, 2, 3}
    NoOne = NoOne
    MaxListWrites = 5
    Owners = {owner}
    Viewers = {viewer}
    Circles = {g, h}
    Anonymous = Anonymous
    MaxChanges = 5
SYMMETRY Symmetric
INVARIANTS
    ShelvesHoldItemsOfTheirOwner
    SnapshotFollowsEvents
    ViewsAgreeWithFilter
PROPERTY
    ImplementsOrderedLists
CHECK_DEADLOCK FALSE
