\* Relations, invitations, sign-ups and deletions: serial, or two handlers in flight;
\* membership requests of a group, two at a time, the deletion of the emptied group included.
SPECIFICATION MCSpec
CONSTANTS
    Ids = {1, 2, 3, 4}
    Calls = {c1, c2}
    MaxSerial = 4
    MaxRace = 3
    Persons = {p}
    NoPerson = NoPerson
    Members = {1, 3}
    NoId = 0
    Users = {u1, u2, u3}
    GroupCalls = {g1, g2}
    Promoted = 1
    MaxHooks = 1
SYMMETRY Symmetric
INVARIANTS
    FriendshipIsMutual
    RelationsFollowWishes
    OneAccountPerUsername
    InvitationsBecomeRequests
    NothingLeftOfDeleted
    DeletionIsComplete
    OneRole
    MutualConsent
PROPERTY
    AdminsLeaveByThemselves
CHECK_DEADLOCK FALSE
