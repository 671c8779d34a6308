\* Claims edited on Wikidata by the server, and the reverse claims cached before them.
SPECIFICATION RelationsCacheSpec
CONSTANTS
    Works = {w1,w2}
    Never = Never
    Ttl = 2
    QueryServiceLag = 1
    MaxHours = 6
    MaxClaimEdits = 4
INVARIANT
    ReverseClaimsHaveRecentEdits
CHECK_DEADLOCK FALSE
