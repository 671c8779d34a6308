\* Two elements of one list, moved one after the other again and again.
SPECIFICATION ListingsSpec
CONSTANTS
    Creators = {u}
    Lists = {l1}
    Uris = {a, b}
    Ids = {1, 2}
    NoOne = NoOne
    MaxListWrites = 16
INVARIANT
    NextOrdinalIsAbove
CHECK_DEADLOCK FALSE
