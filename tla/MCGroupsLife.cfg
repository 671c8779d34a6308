\* One request at a time, with the deletions of accounts and of the group.
SPECIFICATION LifeSpec
CONSTANTS
    Users = {u1, u2, u3}
    GroupCalls = {c1}
    Promoted = 1
    MaxHooks = 1
INVARIANT
    TypeOK
PROPERTY
    EmptyGroupIsDeleted
CHECK_DEADLOCK FALSE
