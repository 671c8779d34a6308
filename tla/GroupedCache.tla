------------------------------ MODULE GroupedCache ------------------------------
(* A cached remote entity (lib/cache.ts, lib/request_grouper.ts, as data/wikidata uses *)
(* them): calls that find nothing in the cache, or want a refresh, gather their keys   *)
(* in one request, and each populates the cache with its result without waiting for    *)
(* the write.                                                                          *)
EXTENDS Naturals, Sequences, FiniteSets

CONSTANTS Readers, Keys, NotCached, MaxRemoteEdits, MaxCalls, MaxFailedRequests
ASSUME NotCachedAssumption == NotCached \notin Nat

VARIABLES
    remote,         \* [Keys -> revision at the remote source]
    cache,          \* [Keys -> revision or NotCached]
    writes,         \* writes to the cache, issued and not yet done, in order: [key, revision]
    group,          \* [keys, number] of the request that is gathered
    sent,           \* requests [number, keys, results: NotCached until the source has read them]
    readers,        \* [Readers -> [step, key, since: the revision when it called, number, answer]]
    cacheBudget     \* [edits, calls, failures] so far

cvars == <<remote, cache, writes, group, sent, readers, cacheBudget>>

Done == [step |-> "done", key |-> NotCached, since |-> 0, number |-> 0, answer |-> NotCached]

GroupedCacheInit ==
    /\ remote = [k \in Keys |-> 1]
    /\ cache = [k \in Keys |-> NotCached]
    /\ writes = <<>>
    /\ group = [keys |-> {}, number |-> 1]
    /\ sent = {}
    /\ readers = [r \in Readers |-> Done]
    /\ cacheBudget = [edits |-> 0, calls |-> 0, failures |-> 0]

Spends(counter, max) == cacheBudget[counter] < max /\ cacheBudget' = [cacheBudget EXCEPT ![counter] = @ + 1]

-----------------------------------------------------------------------------

EditRemote(k) ==
    /\ Spends("edits", MaxRemoteEdits)
    /\ remote' = [remote EXCEPT ![k] = @ + 1]
    /\ UNCHANGED <<cache, writes, group, sent, readers>>

Joined(r, k) == [step |-> "grouped", key |-> k, since |-> readers[r].since, number |-> group.number, answer |-> NotCached]

\* cache_.get: a refresh does not look in the cache.
Get(r, k, refresh) ==
    /\ readers[r].step = "done"
    /\ Spends("calls", MaxCalls)
    /\ IF refresh
       THEN /\ readers' = [readers EXCEPT ![r] = [Joined(r, k) EXCEPT !.since = remote[k]]]
            /\ group' = [group EXCEPT !.keys = @ \cup {k}]
       ELSE /\ readers' = [readers EXCEPT ![r] = [Done EXCEPT !.step = "checking", !.key = k, !.since = remote[k]]]
            /\ UNCHANGED group
    /\ UNCHANGED <<remote, cache, writes, sent>>

CheckCache(r) ==
    LET k == readers[r].key
    IN /\ readers[r].step = "checking"
       /\ IF cache[k] # NotCached
          THEN readers' = [readers EXCEPT ![r] = Done] /\ UNCHANGED group
          ELSE readers' = [readers EXCEPT ![r] = Joined(r, k)] /\ group' = [group EXCEPT !.keys = @ \cup {k}]
       /\ UNCHANGED <<remote, cache, writes, sent, cacheBudget>>

\* A mutant: the group is reset once its request was answered, so that later calls join
\* a request already sent.
DoGroupedRequestThenReset ==
    /\ group.keys # {} /\ \A request \in sent : request.number # group.number
    /\ sent' = sent \cup {[number |-> group.number, keys |-> group.keys, results |-> NotCached]}
    /\ UNCHANGED <<remote, cache, writes, group, readers, cacheBudget>>

\* The timeout of the group: later calls join another one.
DoGroupedRequest ==
    /\ group.keys # {}
    /\ sent' = sent \cup {[number |-> group.number, keys |-> group.keys, results |-> NotCached]}
    /\ group' = [keys |-> {}, number |-> group.number + 1]
    /\ UNCHANGED <<remote, cache, writes, readers, cacheBudget>>

\* The source reads what is asked; its answer may take its time.
ReadRemote(request) ==
    /\ request.results = NotCached
    /\ sent' = (sent \ {request}) \cup {[request EXCEPT !.results = [k \in request.keys |-> remote[k]]]}
    /\ UNCHANGED <<remote, cache, writes, group, readers, cacheBudget>>

Waiting(request) == {r \in Readers : readers[r].step = "grouped" /\ readers[r].number = request.number}

\* All those who wait have the results, and populate the cache one after the other.
ResolveGroup(request) ==
    /\ request.results # NotCached
    /\ sent' = sent \ {request}
    /\ readers' = [r \in Readers |-> IF r \notin Waiting(request) THEN readers[r]
                                     ELSE IF readers[r].key \in request.keys
                                     THEN [readers[r] EXCEPT !.step = "answered", !.answer = request.results[readers[r].key]]
                                     ELSE [readers[r] EXCEPT !.step = "answered"]]
    /\ UNCHANGED <<remote, cache, writes, group, cacheBudget>>

RejectGroup(request) ==
    /\ Spends("failures", MaxFailedRequests)
    /\ sent' = sent \ {request}
    /\ readers' = [r \in Readers |-> IF r \in Waiting(request) THEN Done ELSE readers[r]]
    /\ UNCHANGED <<remote, cache, writes, group>>

\* populate: the value is returned while its write goes on.
Populate(r) ==
    /\ readers[r].step = "answered"
    /\ writes' = Append(writes, [key |-> readers[r].key, revision |-> readers[r].answer])
    /\ readers' = [readers EXCEPT ![r] = Done]
    /\ UNCHANGED <<remote, cache, group, sent, cacheBudget>>

WriteCache ==
    /\ writes # <<>>
    /\ cache' = [cache EXCEPT ![Head(writes).key] = Head(writes).revision]
    /\ writes' = Tail(writes)
    /\ UNCHANGED <<remote, group, sent, readers, cacheBudget>>

\* level-ttl.
Expire(k) ==
    /\ cache[k] # NotCached
    /\ cache' = [cache EXCEPT ![k] = NotCached]
    /\ UNCHANGED <<remote, writes, group, sent, readers, cacheBudget>>

GroupedCacheNext ==
    \/ \E k \in Keys : EditRemote(k) \/ Expire(k)
    \/ \E r \in Readers : \/ CheckCache(r) \/ Populate(r)
                          \/ \E k \in Keys, refresh \in BOOLEAN : Get(r, k, refresh)
    \/ \E request \in sent : ReadRemote(request) \/ ResolveGroup(request) \/ RejectGroup(request)
    \/ DoGroupedRequest \/ WriteCache

GroupedCacheSpec == GroupedCacheInit /\ [][GroupedCacheNext]_cvars

-----------------------------------------------------------------------------

\* What is not found in the cache, and what is refreshed, is at least as recent as the
\* call: calls are only grouped with a request that was not sent yet.
FetchedEntitiesAreRecent ==
    \A r \in Readers : readers[r].step = "answered" => /\ readers[r].answer # NotCached
                                                       /\ readers[r].answer >= readers[r].since
=============================================================================
