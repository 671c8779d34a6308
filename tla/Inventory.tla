------------------------------- MODULE Inventory -------------------------------
(* Items and shelves (controllers/items, controllers/shelves): an item holds the ids *)
(* of its shelves, and the requests that change several documents read them in one   *)
(* database call and write them in another, each write checked against the revision  *)
(* read. The counts of items in the user document follow by a debounced listener.    *)
EXTENDS Naturals, FiniteSets

CONSTANTS
    Users, Items, Shelves, Requests, NoDoc, Gone,
    Levels,         \* what getVisibilitySummaryKey makes of the visibility keys of an item
    MaxRequests, MaxRestarts

ItemDoc == [owner : Users, level : Levels, shelves : SUBSET Shelves, rev : Nat]

ASSUME LevelsAssumption == "private" \in Levels /\ Levels \subseteq {"private", "network", "public"}
ASSUME ItemsAssumption == IsFiniteSet(Items)
ASSUME NoDocAssumption ==
    /\ NoDoc # Gone
    /\ \A none \in {NoDoc, Gone} : none \notin Users /\ none \notin ItemDoc /\ none \notin [Levels -> Nat]

VARIABLES
    items,          \* [Items -> [owner, level, shelves, rev], NoDoc before and Gone after]
    shelves,        \* [Shelves -> owner, NoDoc before and Gone after]
    requests,       \* [Requests -> the handler in flight, NoRequest otherwise]
    snapshot,       \* [Users -> items count by level, in the user document]
    timers,         \* users whose counts wait for the end of the debounce delay
    recounts,       \* [Users -> counts read by the update in progress, NoDoc if none]
    unannounced,    \* users whose items changed without the event, since the last recount
    strays,         \* items with a shelf of somebody else, that a creation or an edition put there
    inventoryBudget \* [requests, restarts] so far

ivars == <<items, shelves, requests, snapshot, timers, recounts, unannounced, strays, inventoryBudget>>

NoRequest == [step |-> "idle"]
Existing == {i \in Items : items[i] \notin {NoDoc, Gone}}

GetItemsCounts(u) == [level \in Levels |-> Cardinality({i \in Existing : items[i].owner = u /\ items[i].level = level})]

InventoryInit ==
    /\ items = [i \in Items |-> NoDoc]
    /\ shelves = [s \in Shelves |-> NoDoc]
    /\ requests = [r \in Requests |-> NoRequest]
    /\ snapshot = [u \in Users |-> [level \in Levels |-> 0]]
    /\ timers = {}
    /\ recounts = [u \in Users |-> NoDoc]
    /\ unannounced = {}
    /\ strays = {}
    /\ inventoryBudget = [requests |-> 0, restarts |-> 0]

-----------------------------------------------------------------------------
\* What handlers do to the documents they read.

AddedShelves(doc, ss) == [doc EXCEPT !.shelves = @ \cup ss]
DeletedShelves(doc, ss) == [doc EXCEPT !.shelves = @ \ ss]
UpdatedItem(doc, attribute, value) == [doc EXCEPT ![attribute] = value]

\* A mutant: the item stays in the shelves of its former owner.
ChangedOwnerOnly(doc, u) == [doc EXCEPT !.owner = u, !.level = "private"]

\* changeItemDocOwner resets what the former owner had set.
ChangedOwner(doc, u) == [doc EXCEPT !.owner = u, !.level = "private", !.shelves = {}]

\* The requests that set the shelves of items: bulk updates of them, and the edition of
\* one item.
Editions == {"shelves", "edition"}

Change(r, doc) ==
    CASE r.kind = "add" -> AddedShelves(doc, r.shelves)
      [] r.kind \in {"remove", "deleteShelves"} -> DeletedShelves(doc, r.shelves)
      [] r.kind = "level" -> UpdatedItem(doc, "level", r.level)
      [] r.kind \in Editions -> UpdatedItem(doc, "shelves", r.shelves)
      [] r.kind = "changeOwner" -> ChangedOwner(doc, r.recipient)

\* validateShelfOwnership, of the requests on shelves: shelves that are not found pass.
ShelvesBelongTo(u, ss) == \A s \in ss : shelves[s] \in {u, Gone}

\* validateShelvesOwnership, of the creation and the edition of items, compares the first
\* of the owners only, and the request says which shelf comes first.
FirstShelfBelongsTo(u, ss) == (\A s \in ss : shelves[s] = Gone) \/ \E s \in ss : shelves[s] = u

\* The shelves of others that such a request got through with one of the user's own.
ShelvesOfOthers(u, ss) == {s \in ss : shelves[s] \notin {u, Gone}}

\* The view byShelfAndVisibilityKey, with the key 'private' of the owner.
ShelvesItems(ss) == {i \in Existing : items[i].shelves \cap ss # {}}

\* The documents whose revision is still the one read: a bulk write writes these, and
\* fails if there are others.
Current(read) == {i \in DOMAIN read \cap Existing : items[i].rev = read[i].rev}

Goes(r, request) == requests' = [requests EXCEPT ![r] = request]
Ends(r) == Goes(r, NoRequest)

BeginRequest(r, request) ==
    /\ requests[r] = NoRequest
    /\ inventoryBudget.requests < MaxRequests
    /\ inventoryBudget' = [inventoryBudget EXCEPT !.requests = @ + 1]
    /\ Goes(r, request)
    /\ UNCHANGED <<items, shelves, snapshot, timers, recounts, unannounced, strays>>

Announce(us) == timers' = timers \cup us /\ UNCHANGED unannounced
Silently(us) == unannounced' = unannounced \cup us /\ UNCHANGED timers

CreateShelf(u, s) ==
    /\ shelves[s] = NoDoc
    /\ shelves' = [shelves EXCEPT ![s] = u]
    /\ UNCHANGED <<items, requests, snapshot, timers, recounts, unannounced, strays, inventoryBudget>>

\* A creation validates the shelves of all its items together, then writes the items.
BeginCreate(r, u, level, onShelves) ==
    LET is == DOMAIN onShelves
    IN /\ is # {} /\ \A i \in is : items[i] = NoDoc
       /\ \A q \in Requests : requests[q].step = "create" => DOMAIN requests[q].onShelves \cap is = {}
       /\ FirstShelfBelongsTo(u, UNION {onShelves[i] : i \in is})
       /\ BeginRequest(r, [step |-> "create", user |-> u, level |-> level, onShelves |-> onShelves])

CreateItems(r) ==
    LET request == requests[r]
        onShelves == request.onShelves
    IN /\ request.step = "create"
       /\ items' = [i \in Items |-> IF i \in DOMAIN onShelves
                         THEN [owner |-> request.user, level |-> request.level, shelves |-> onShelves[i], rev |-> 1] ELSE items[i]]
       /\ strays' = strays \cup UNION {{i} \X ShelvesOfOthers(request.user, onShelves[i]) : i \in DOMAIN onShelves}
       /\ Announce({request.user})
       /\ Ends(r)
       /\ UNCHANGED <<shelves, snapshot, recounts, inventoryBudget>>

\* add-items and remove-items of a shelf, bulk updates of an attribute, the edition of an
\* item, the change of owner at the end of a transaction: the items are read, then
\* written. The first two check the shelves before that; so does an edition, against the
\* owner that its body names.
BeginUpdate(r, kind, u, is, level, ss, v) ==
    /\ kind \in {"add", "remove"} => ShelvesBelongTo(u, ss)
    /\ kind = "edition" => FirstShelfBelongsTo(v, ss)
    /\ BeginRequest(r, [step |-> "read", kind |-> kind, user |-> u, items |-> is, level |-> level, shelves |-> ss,
                 recipient |-> v, read |-> <<>>])

\* An item that is missing or that belongs to another user fails the request.
ReadItems(r) ==
    LET request == requests[r]
        next == IF request.kind = "shelves" THEN "validate" ELSE "write"
    IN /\ request.step = "read"
       /\ IF \A i \in request.items : i \in Existing /\ items[i].owner = request.user
          THEN Goes(r, [request EXCEPT !.step = next, !.read = [i \in request.items |-> items[i]]])
          ELSE Ends(r)
       /\ UNCHANGED <<items, shelves, snapshot, timers, recounts, unannounced, strays, inventoryBudget>>

\* A bulk update checks the shelves once the items are read, at each attempt.
ValidateShelves(r) ==
    LET request == requests[r] IN
    /\ request.step = "validate"
    /\ IF FirstShelfBelongsTo(request.user, request.shelves) THEN Goes(r, [request EXCEPT !.step = "write"]) ELSE Ends(r)
    /\ UNCHANGED <<items, shelves, snapshot, timers, recounts, unannounced, strays, inventoryBudget>>

WriteItems(r) ==
    LET request == requests[r]
        written == Current(request.read)
        failed == DOMAIN request.read \ written
        bulk == request.kind \in {"level", "shelves"}
    IN /\ request.step = "write"
       /\ items' = [i \in Items |-> IF i \in written THEN [Change(request, request.read[i]) EXCEPT !.rev = items[i].rev + 1] ELSE items[i]]
       /\ strays' = IF request.kind \in Editions
                     THEN (strays \ (written \X Shelves)) \cup (written \X ShelvesOfOthers(request.user, request.shelves))
                     ELSE IF request.kind = "changeOwner" THEN strays \ (written \X Shelves) ELSE strays
       /\ IF bulk /\ failed # {} THEN Goes(r, [request EXCEPT !.step = "read", !.items = failed])           \* retried
          ELSE Ends(r)
       /\ CASE (bulk \/ request.kind = "edition") /\ failed = {} -> Announce({request.user})
            [] bulk /\ failed # {} /\ written # {} -> Silently({request.user})                            \* until the retry
            [] request.kind = "changeOwner" /\ failed = {} -> Silently({request.user, request.recipient})
            [] OTHER -> UNCHANGED <<timers, unannounced>>
       /\ UNCHANGED <<shelves, snapshot, recounts, inventoryBudget>>

\* Deletion of items: those that are not found are left out.
BeginDelete(r, u, is) ==
    LET found == is \cap Existing IN
    /\ found # {} /\ \A i \in found : items[i].owner = u
    /\ BeginRequest(r, [step |-> "delete", user |-> u, read |-> [i \in found |-> items[i]]])

\* A mutant: the deletion of items tells nobody.
DeleteItemsSilently(r) ==
    /\ requests[r].step = "delete"
    /\ items' = [i \in Items |-> IF i \in Current(requests[r].read) THEN Gone ELSE items[i]]
    /\ Ends(r)
    /\ UNCHANGED <<shelves, snapshot, timers, recounts, unannounced, strays, inventoryBudget>>

DeleteItems(r) ==
    LET deleted == Current(requests[r].read) IN
    /\ requests[r].step = "delete"
    /\ items' = [i \in Items |-> IF i \in deleted THEN Gone ELSE items[i]]
    /\ IF deleted = DOMAIN requests[r].read THEN Announce({requests[r].user})
       ELSE IF deleted # {} THEN Silently({requests[r].user})                        \* the call fails
       ELSE UNCHANGED <<timers, unannounced>>
    /\ Ends(r)
    /\ UNCHANGED <<shelves, snapshot, recounts, strays, inventoryBudget>>

\* Deletion of shelves: on demand their items first, then the shelves, then the ids of
\* these shelves in the items that still have them.
BeginDeleteShelves(r, u, ss, withItems) ==
    /\ \A s \in ss : shelves[s] = u
    /\ BeginRequest(r, [step |-> IF withItems THEN "readDeletedItems" ELSE "bulkDeleteShelves", kind |-> "deleteShelves",
                 user |-> u, shelves |-> ss, items |-> ShelvesItems(ss), read |-> <<>>])

ReadDeletedItems(r) ==
    LET request == requests[r] IN
    /\ request.step = "readDeletedItems"
    /\ Goes(r, [request EXCEPT !.step = "deleteShelvesItems", !.read = [i \in request.items \cap Existing |-> items[i]]])
    /\ UNCHANGED <<items, shelves, snapshot, timers, recounts, unannounced, strays, inventoryBudget>>

DeleteShelvesItems(r) ==
    LET request == requests[r]
        deleted == Current(request.read)
    IN /\ request.step = "deleteShelvesItems"
       /\ items' = [i \in Items |-> IF i \in deleted THEN Gone ELSE items[i]]
       /\ IF deleted = {} THEN UNCHANGED <<timers, unannounced>> ELSE Silently({items[i].owner : i \in deleted})
       /\ IF deleted = DOMAIN request.read THEN Goes(r, [request EXCEPT !.step = "bulkDeleteShelves"]) ELSE Ends(r)
       /\ UNCHANGED <<shelves, snapshot, recounts, strays, inventoryBudget>>

BulkDeleteShelves(r) ==
    LET request == requests[r] IN
    /\ request.step = "bulkDeleteShelves"
    /\ shelves' = [s \in Shelves |-> IF s \in request.shelves THEN Gone ELSE shelves[s]]
    /\ Goes(r, [request EXCEPT !.step = "readShelvesItems"])
    /\ UNCHANGED <<items, snapshot, timers, recounts, unannounced, strays, inventoryBudget>>

ReadShelvesItems(r) ==
    LET request == requests[r]
        found == ShelvesItems(request.shelves)
    IN /\ request.step = "readShelvesItems"
       /\ IF found # {} /\ \A i \in found : items[i].owner = request.user
          THEN Goes(r, [request EXCEPT !.step = "write", !.read = [i \in found |-> items[i]]])
          ELSE Ends(r)
       /\ UNCHANGED <<items, shelves, snapshot, timers, recounts, unannounced, strays, inventoryBudget>>

-----------------------------------------------------------------------------
\* The counts. The delay of the debounce (5 s) outlasts a recount, so that a user has
\* one recount at a time.

StartRecount(u) ==
    /\ u \in timers /\ recounts[u] = NoDoc
    /\ timers' = timers \ {u}
    /\ recounts' = [recounts EXCEPT ![u] = GetItemsCounts(u)]
    /\ unannounced' = unannounced \ {u}
    /\ UNCHANGED <<items, shelves, requests, snapshot, strays, inventoryBudget>>

UpdateUserItemsCounts(u) ==
    /\ recounts[u] # NoDoc
    /\ snapshot' = [snapshot EXCEPT ![u] = recounts[u]]
    /\ recounts' = [recounts EXCEPT ![u] = NoDoc]
    /\ UNCHANGED <<items, shelves, requests, timers, unannounced, strays, inventoryBudget>>

\* The process stops and starts again: handlers, timers and recounts are gone.
Restart ==
    /\ inventoryBudget.restarts < MaxRestarts
    /\ inventoryBudget' = [inventoryBudget EXCEPT !.restarts = @ + 1]
    /\ requests' = [r \in Requests |-> NoRequest]
    /\ timers' = {}
    /\ recounts' = [u \in Users |-> NoDoc]
    /\ unannounced' = unannounced \cup timers \cup {u \in Users : recounts[u] # NoDoc}
    /\ UNCHANGED <<items, shelves, snapshot, strays>>

\* Sets of shelves that a request may name: shelves that were created, of any owners.
Known == {s \in Shelves : shelves[s] # NoDoc}

\* Items are created private, on a shelf at most, and shown or put on more by an update:
\* the rest would only multiply the ways to the same documents.
InventoryNext ==
    \/ \E u \in Users, s \in Shelves : CreateShelf(u, s)
    \/ \E r \in Requests, u \in Users :
         \/ \E is \in SUBSET Items : \E onShelves \in [is -> {ss \in SUBSET Known : Cardinality(ss) <= 1}] : BeginCreate(r, u, "private", onShelves)
         \/ \E is \in (SUBSET Existing) \ {{}}, ss \in (SUBSET Known) \ {{}} :
              \E kind \in {"add", "remove", "shelves"} : BeginUpdate(r, kind, u, is, "private", ss, u)
         \/ \E i \in Existing, ss \in (SUBSET Known) \ {{}}, v \in Users : BeginUpdate(r, "edition", u, {i}, "private", ss, v)
         \/ \E is \in (SUBSET Existing) \ {{}}, level \in Levels \ {"private"} : BeginUpdate(r, "level", u, is, level, {}, u)
         \/ \E i \in Existing, v \in Users \ {u} :
              items[i].owner = u /\ BeginUpdate(r, "changeOwner", u, {i}, "private", {}, v)
         \/ \E is \in SUBSET Existing : BeginDelete(r, u, is)
         \/ \E ss \in (SUBSET Known) \ {{}}, withItems \in BOOLEAN : BeginDeleteShelves(r, u, ss, withItems)
    \/ \E r \in Requests :
         \/ CreateItems(r) \/ ReadItems(r) \/ ValidateShelves(r) \/ WriteItems(r) \/ DeleteItems(r)
         \/ ReadDeletedItems(r) \/ DeleteShelvesItems(r) \/ BulkDeleteShelves(r) \/ ReadShelvesItems(r)
    \/ \E u \in Users : StartRecount(u) \/ UpdateUserItemsCounts(u)
    \/ Restart

InventorySpec == InventoryInit /\ [][InventoryNext]_ivars

-----------------------------------------------------------------------------

\* An item is on shelves of its owner only, but for those of others that a creation or
\* an edition named behind one of the user's own: an item that changes owner leaves the
\* shelves of its former owner, and no request that read it before puts it back.
ShelvesHoldItemsOfTheirOwner ==
    \A i \in Existing : \A s \in items[i].shelves : shelves[s] \in {items[i].owner, Gone} \/ <<i, s>> \in strays

\* tests/api/items/bulk-update.test.ts:111: "should reject adding different owner shelves",
\* and tests/api/items/create.test.ts:180: "should reject item with a shelf from another owner".
NoShelfOfAnotherOwner ==
    \A i \in Existing : \A s \in items[i].shelves : shelves[s] \in {items[i].owner, Gone}

\* Once the listener and its timer are quiet, the counts in the user document are those
\* of the items, unless these changed without the event 'user:inventory:update' (change
\* of owner, deletion with a shelf, bulk deletion that fails in part, bulk update that
\* fails in part until it is retried, restart).
SnapshotFollowsEvents ==
    \A u \in Users : u \notin timers \cup unannounced /\ recounts[u] = NoDoc => snapshot[u] = GetItemsCounts(u)

\* keep_snapshot_items_counts_updated.ts:1: "Keep the user snapshot data about the state
\* of her items updated", whatever changed the items.
SnapshotIsUpToDate ==
    \A u \in Users :
        u \notin timers /\ recounts[u] = NoDoc /\ requests = [r \in Requests |-> NoRequest] => snapshot[u] = GetItemsCounts(u)

=============================================================================
