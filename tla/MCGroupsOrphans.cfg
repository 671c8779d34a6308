\* The last admin leaves while a user joins.
SPECIFICATION RaceSpec
CONSTANTS
    Users = {u1, u2}
    GroupCalls = {c1, c2}
    Promoted = 1
    MaxHooks = 1
INVARIANT
    NoMembersWithoutAdmin
CHECK_DEADLOCK FALSE
