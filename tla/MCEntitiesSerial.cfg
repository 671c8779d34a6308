\* Requests are handled one at a time.
SPECIFICATION Spec
CONSTANTS
    Entities = {a, b}
    Langs = {en, fr}
    Labels = {x, y}
    None = None
    Users = {u, admin}
    Dataadmins = {admin}
    Calls = {c1}
    MaxCalls = 5
SYMMETRY Symmetric
INVARIANTS
    TypeOK
    HistoryIsReplayable
    NoCircularRedirection
PROPERTY
    MergeLosesNothing
CHECK_DEADLOCK FALSE
