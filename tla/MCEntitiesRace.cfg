\* Two requests interleave at every database call.
SPECIFICATION Spec
CONSTANTS
    Entities = {a, b}
    Langs = {en, fr}
    Labels = {x}
    None = None
    Users = {admin}
    Dataadmins = {admin}
    Calls = {c1, c2}
    MaxCalls = 4
PROPERTIES
    EditsAreTheirOwn
    RequestsEnd
CHECK_DEADLOCK FALSE
