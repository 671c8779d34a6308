\* A shelf of another user, named behind one of the user's own.
SPECIFICATION InventorySpec
CONSTANTS
    Users = {u, v}
    Items = {i}
    Shelves = {s, t}
    Requests = {r1}
    NoDoc = NoDoc
    Gone = Gone
    MaxRequests = 2
    Levels = {"private", "public"}
    MaxRestarts = 0
INVARIANT
    NoShelfOfAnotherOwner
CHECK_DEADLOCK FALSE
