\* Requests are handled one at a time, until a merge is reverted.
SPECIFICATION Spec
CONSTANTS
    Entities = {a, b}
    Langs = {en, fr}
    Labels = {x, y}
    None = None
    Users = {u, admin}
    Dataadmins = {admin}
    Calls = {c1}
    MaxCalls = 5
SYMMETRY Symmetric
PROPERTY
    RevertMergeRestores
CHECK_DEADLOCK FALSE
