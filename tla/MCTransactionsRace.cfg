\* Requests interleave: two handlers in flight.
SPECIFICATION RaceSpec
CONSTANTS
    Users = {u1, u2}
    Items = {i1}
    TransactionIds = {t1, t2}
    Calls = {c1, c2}
    NoDoc = NoDoc
    MaxItemWrites = 3
    MaxMessages = 1
    MaxActions = 3
SYMMETRY Symmetric
INVARIANTS
    TypeOK
    LogIsCausal
    CustodyChain
    OneMovePerConfirmation
CHECK_DEADLOCK FALSE
