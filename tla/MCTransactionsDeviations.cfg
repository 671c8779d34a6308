\* Deviations, of which TLC reports the second with the option -continue: an update of a
\* confirmed transaction of an item that was given; a message posted while the other
\* party marks the transaction as read.
SPECIFICATION Spec
CONSTANTS
    Users = {u1, u2, u3}
    Items = {i1}
    TransactionIds = {t1, t2}
    Calls = {c1}
    NoDoc = NoDoc
    MaxItemWrites = 1
    MaxMessages = 2
    MaxActions = 5
PROPERTIES
    InactiveIsFinal
    MessageIsUnread
CHECK_DEADLOCK FALSE
