----------------------------- MODULE RelationsCache -----------------------------
(* Works of an author on Wikidata (get_author_works.ts, reverse_claims.ts): results of *)
(* the query service, which lags behind and is cached for a month, together with the   *)
(* relations edited lately, kept for some hours in a cache with expiration keys of its *)
(* own (entities_relations_temporary_cache.ts, temporarily_cache_relations.ts).        *)
EXTENDS Naturals, Functions

CONSTANTS
    Works,          \* subjects of claims that have the author as value
    Never,
    Ttl,            \* of the temporary relations
    QueryServiceLag,\* the time the query service may take to see an edit
    MaxHours, MaxClaimEdits
ASSUME LagAssumption == Ttl \in Nat /\ QueryServiceLag \in Nat /\ QueryServiceLag <= Ttl /\ Never \notin Nat

VARIABLES
    hour,
    claimed,        \* works with the claim on Wikidata
    queryService,   \* works with the claim according to the query service
    editedAt,       \* [Works -> time of the last edit]
    relations,      \* [Works -> the expiration of its temporary relation, Never if none]
    expirations,    \* the expiration keys [work, at]
    expiring,       \* those that checkExpiredCache deletes next
    cached,         \* cached query results, by key
    claimEdits

rvars == <<hour, claimed, queryService, editedAt, relations, expirations, expiring, cached, claimEdits>>

RelationsCacheInit ==
    /\ hour = 0
    /\ claimed = {} /\ queryService = {}
    /\ editedAt = [w \in Works |-> 0]
    /\ relations = [w \in Works |-> Never]
    /\ expirations = {} /\ expiring = {}
    /\ cached = <<>>
    /\ claimEdits = 0

-----------------------------------------------------------------------------
\* The author has an id, that queries take, and a uri, that claims and relations have.

AuthorWorksKey(qid) == <<"wdQuery:author_works", qid>>
GetReverseClaimCacheKey(value) == <<"wd:reverse-claim", value>>

KeyOf(query) == IF query = "author_works" THEN AuthorWorksKey("Q1") ELSE GetReverseClaimCacheKey("Q1")

\* A mutant: the queries by name are not invalidated.
GetReverseClaimsKey(qid, valueUri) == {GetReverseClaimCacheKey(valueUri)}

\* The keys that the expiration of a relation invalidates (run_query.ts).
GetQueriesKeys(qid, valueUri) == {AuthorWorksKey(qid), GetReverseClaimCacheKey(valueUri)}

Editing(w) ==
    /\ claimEdits < MaxClaimEdits
    /\ claimEdits' = claimEdits + 1
    /\ editedAt' = [editedAt EXCEPT ![w] = hour]
    /\ UNCHANGED <<hour, queryService, expiring, cached>>

\* updateWdClaim with a new value: the relation is set. It is not edited in the instant
\* between the two steps of checkExpiredCache.
AddWdClaim(w) ==
    /\ Editing(w)
    /\ w \notin claimed /\ \A e \in expiring : e.work # w
    /\ claimed' = claimed \cup {w}
    /\ relations' = [relations EXCEPT ![w] = hour + Ttl]
    /\ expirations' = expirations \cup {[work |-> w, at |-> hour + Ttl]}

\* updateWdClaim with an old value: the relation is deleted with its expiration key.
RemoveWdClaim(w) ==
    /\ Editing(w)
    /\ w \in claimed
    /\ claimed' = claimed \ {w}
    /\ relations' = [relations EXCEPT ![w] = Never]
    /\ expirations' = expirations \ {[work |-> w, at |-> relations[w]]}

QueryServiceUpdates(w) ==
    /\ queryService' = IF w \in claimed THEN queryService \cup {w} ELSE queryService \ {w}
    /\ queryService' # queryService
    /\ UNCHANGED <<hour, claimed, editedAt, relations, expirations, expiring, cached, claimEdits>>

\* A cache miss, or a refresh, queries the service and caches what it gives.
PopulateQuery(query) ==
    /\ cached' = [k \in DOMAIN cached \cup {KeyOf(query)} |-> IF k = KeyOf(query) THEN queryService ELSE cached[k]]
    /\ cached' # cached
    /\ UNCHANGED <<hour, claimed, queryService, editedAt, relations, expirations, expiring, claimEdits>>

\* checkExpiredCache: the queries are invalidated, then the relations deleted.
InvalidateQueries ==
    LET expired == {e \in expirations : e.at < hour}
    IN /\ expiring = {} /\ expired # {}
       /\ expiring' = expired
       /\ cached' = Restrict(cached, DOMAIN cached \ GetQueriesKeys("Q1", "wd:Q1"))
       /\ UNCHANGED <<hour, claimed, queryService, editedAt, relations, expirations, claimEdits>>

DeleteExpired ==
    /\ expiring # {}
    /\ relations' = [w \in Works |-> IF \E e \in expiring : e.work = w THEN Never ELSE relations[w]]
    /\ expirations' = expirations \ expiring
    /\ expiring' = {}
    /\ UNCHANGED <<hour, claimed, queryService, editedAt, cached, claimEdits>>

\* The query service lags for a bounded time.
HourPasses ==
    /\ hour < MaxHours
    /\ \A w \in Works : (w \in claimed <=> w \in queryService) \/ hour < editedAt[w] + QueryServiceLag
    /\ hour' = hour + 1
    /\ UNCHANGED <<claimed, queryService, editedAt, relations, expirations, expiring, cached, claimEdits>>

RelationsCacheNext ==
    \/ \E w \in Works : AddWdClaim(w) \/ RemoveWdClaim(w) \/ QueryServiceUpdates(w)
    \/ \E query \in {"author_works", "reverse-claims"} : PopulateQuery(query)
    \/ InvalidateQueries \/ DeleteExpired \/ HourPasses

RelationsCacheSpec == RelationsCacheInit /\ [][RelationsCacheNext]_rvars

-----------------------------------------------------------------------------

\* getCachedRelations keeps the relations that the primary data confirm.
GetCachedRelations == {w \in Works : relations[w] # Never /\ w \in claimed}
Listed(query) == (IF KeyOf(query) \in DOMAIN cached THEN cached[KeyOf(query)] ELSE queryService) \cup GetCachedRelations

\* move_to_wikidata.ts:79: relations are cached "as Wikidata Query Service can take some
\* time to update": a work that a user links to its author is in the list of the works
\* of this author from then on, whatever is cached and whenever it expires.
AuthorWorksHaveRecentEdits == claimed \subseteq Listed("author_works")

\* tests/integration/entities_relations_temporary_cache.ts:65: "should invalidate related
\* cached queries": so do the reverse claims.
ReverseClaimsHaveRecentEdits == claimed \subseteq Listed("reverse-claims")
=============================================================================
