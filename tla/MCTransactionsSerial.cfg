\* Requests handled one at a time; side effects still run in the background.
SPECIFICATION SerialSpec
CONSTANTS
    Users = {u1, u2, u3}
    Items = {i1}
    TransactionIds = {t1, t2}
    Calls = {c1}
    NoDoc = NoDoc
    MaxItemWrites = 2
    MaxMessages = 2
    MaxActions = 5
SYMMETRY Symmetric
INVARIANTS
    AtMostOneBusy
    NeverUnreadByBoth
    OneActiveRequest
PROPERTY
    ImplementsProtocol
CHECK_DEADLOCK FALSE
