\* One user updates the labels of one entity twice at the same time.
SPECIFICATION Spec
CONSTANTS
    Entities = {a}
    Langs = {en, fr}
    Labels = {x, y}
    None = None
    Users = {u}
    Dataadmins = {}
    Calls = {c1, c2}
    MaxCalls = 3
INVARIANT
    HistoryIsReplayable
CHECK_DEADLOCK FALSE
