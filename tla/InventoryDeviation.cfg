\* The counts in the user document, when items change without the event.
SPECIFICATION InventorySpec
CONSTANTS
    Users = {u, v}
    Items = {i, j}
    Shelves = {s, t}
    Requests = {r1, r2}
    NoDoc = NoDoc
    Gone = Gone
    MaxRequests = 3
    Levels = {"private", "public"}
    MaxRestarts = 0
INVARIANT
    SnapshotIsUpToDate
CHECK_DEADLOCK FALSE
