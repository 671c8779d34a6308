\* Eight parts of the server, one of them at a time.
SPECIFICATION PartsSpec
CONSTANTS
    Docs = {e, w}
    Layers = {w}
    Nothing = Nothing
    MaxSeq = 2
    MaxGap = 1
    MaxRetries = 1
    MaxCrashes = 2
    MaxFailures = 2
    Calls = {c1, c2}
    None = None
    BaseBanTime = 1
    BanTimeIncreaseFactor = 2
    MaxBanTime = 2
    Timeout = 3
    MaxClock = 5
    MaxAttempts = 2
    MaxBanRestarts = 1
    CookieMaxAge = 4
    OneDay = 3
    TenDays = 4
    Shortly = 1
    LaterOn = 2
    NoTimer = NoTimer
    MaxTime = 17
    MaxStops = 1
    Works = {w1, w2}
    Never = Never
    Ttl = 2
    QueryServiceLag = 1
    MaxHours = 6
    MaxClaimEdits = 4
    Handlers = {h1, h2}
    MaxMerges = 3
    MaxNetworkFailures = 3
    MaxNotifyAttempts = 1
    MaxSubscriptions = 4
    Readers = {r1, r2}
    Keys = {k1, k2}
    NotCached = NotCached
    MaxRemoteEdits = 2
    MaxCalls = 3
    MaxFailedRequests = 1
    Listeners = {l3, l4}
    Nobody = Nobody
    DebounceDelay = 1
    MaxMailTime = 3
    MaxUpdates = 2
    MaxMailFailures = 1
    Books = {b1, b2, b3}
    Absent = Absent
    MaxDate = 4
    MaxSwitches = 2
SYMMETRY Symmetric
INVARIANTS
    IndexFollowsChanges
    BansReflectOutages
    SessionsLiveCookieMaxAge
    AuthorWorksHaveRecentEdits
    RevertsReachOtherInstances
    FetchedEntitiesAreRecent
    UnreadUpdatesReachTheirParty
    EachItemIsAnnouncedOnce
CHECK_DEADLOCK FALSE
