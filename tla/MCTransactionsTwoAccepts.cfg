\* Two acceptances about one item.
SPECIFICATION RaceSpec
CONSTANTS
    Users = {u1, u2, u3}
    Items = {i1}
    TransactionIds = {t1, t2}
    Calls = {c1, c2}
    NoDoc = NoDoc
    MaxItemWrites = 1
    MaxMessages = 1
    MaxActions = 5
INVARIANT
    AtMostOneBusy
CHECK_DEADLOCK FALSE
