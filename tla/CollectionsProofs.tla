--------------------------- MODULE CollectionsProofs ---------------------------
(* Shelves hold items of their owner, the counts of items follow the events, and the *)
(* two ways of deciding who sees a document agree, for any number of users, items,   *)
(* shelves, groups and requests in flight.                                           *)
EXTENDS Inventory, Visibility, FiniteSetTheorems, TLAPS

\* Documents read are those that the database still has, but for those written since,
\* whose revision has grown.
Fresh(read, docs) ==
    \A i \in DOMAIN read :
        /\ i \in Items /\ read[i] \in ItemDoc /\ docs[i] # NoDoc
        /\ docs[i] # Gone => read[i].rev <= docs[i].rev /\ (read[i].rev = docs[i].rev => read[i] = docs[i])

Belong(u, ss, owners) == ss \subseteq Shelves /\ \A s \in ss : owners[s] \in {u, Gone}

\* The fields of a request that changes documents.
Fields == {"step", "kind", "user", "items", "shelves", "read"}

CreationHolds(q, docs) ==
    q.step = "create" =>
        /\ q.user \in Users /\ q.level \in Levels
        /\ \A i \in DOMAIN q.onShelves : i \in Items /\ q.onShelves[i] \subseteq Shelves /\ docs[i] = NoDoc

UpdateHolds(q, docs, owners) ==
    q.step \in {"read", "validate", "write"} =>
        /\ Fields \subseteq DOMAIN q /\ q.user \in Users
        /\ q.kind \in {"add", "remove", "shelves", "edition", "level", "changeOwner", "deleteShelves"}
        /\ q.kind = "level" => "level" \in DOMAIN q /\ q.level \in Levels
        /\ q.kind = "changeOwner" => /\ "recipient" \in DOMAIN q /\ q.recipient \in Users
                                     /\ \A i, j \in q.items : i = j
        /\ q.kind = "add" => Belong(q.user, q.shelves, owners)
        /\ q.kind \in Editions => q.shelves \subseteq Shelves
        /\ q.step = "validate" => q.kind = "shelves"
        /\ q.step \in {"validate", "write"} =>
              /\ Fresh(q.read, docs) /\ \A i \in DOMAIN q.read : q.read[i].owner = q.user
              /\ q.kind = "changeOwner" => DOMAIN q.read \subseteq q.items

DeletionHolds(q, docs) ==
    q.step = "delete" =>
        q.user \in Users /\ Fresh(q.read, docs) /\ \A i \in DOMAIN q.read : q.read[i].owner = q.user

ShelvesDeletionHolds(q, docs) ==
    q.step \in {"readDeletedItems", "deleteShelvesItems", "bulkDeleteShelves", "readShelvesItems"} =>
        /\ Fields \subseteq DOMAIN q /\ q.user \in Users /\ q.kind = "deleteShelves"
        /\ q.step = "deleteShelvesItems" => Fresh(q.read, docs)

RequestHolds(q, docs, owners) ==
    /\ CreationHolds(q, docs) /\ UpdateHolds(q, docs, owners)
    /\ DeletionHolds(q, docs) /\ ShelvesDeletionHolds(q, docs)

Creates(q, i) == q.step = "create" /\ i \in DOMAIN q.onShelves

\* Two requests do not create the same item.
CreateOnce(qs) == \A r, s \in Requests :
    /\ qs[r].step = "create" /\ qs[s].step = "create"
    /\ DOMAIN qs[r].onShelves \cap DOMAIN qs[s].onShelves # {}
    => r = s

InventoryTypes ==
    /\ items \in [Items -> ItemDoc \cup {NoDoc, Gone}]
    /\ shelves \in [Shelves -> Users \cup {NoDoc, Gone}]
    /\ DOMAIN requests = Requests /\ DOMAIN snapshot = Users /\ DOMAIN recounts = Users

RequestsHold ==
    CreateOnce(requests) /\ \A r \in Requests : RequestHolds(requests[r], items, shelves)

\* The last recount, unless another one is to come or a change was not told.
CountsHold ==
    \A u \in Users : u \notin timers \cup unannounced =>
        (IF recounts[u] = NoDoc THEN snapshot[u] ELSE recounts[u]) = GetItemsCounts(u)

InventoryInv == InventoryTypes /\ RequestsHold /\ ShelvesHoldItemsOfTheirOwner /\ CountsHold

-----------------------------------------------------------------------------
(* What the steps have in common *)

\* A step leaves an item, deletes it, or writes it with a new revision.
ItemMoves(i) ==
    \/ items'[i] = items[i]
    \/ items[i] # NoDoc /\ items'[i] = Gone
    \/ items[i] \in ItemDoc /\ items'[i] \in ItemDoc /\ items'[i].rev = items[i].rev + 1
ShelfMoves(s) == shelves'[s] = shelves[s] \/ shelves'[s] = Gone \/ shelves[s] = NoDoc

LEMMA NotItem == NoDoc \notin ItemDoc /\ Gone \notin ItemDoc /\ NoDoc # Gone /\ NoDoc \notin Users /\ Gone \notin Users
BY NoDocAssumption

LEMMA FreshStays ==
    ASSUME InventoryTypes, NEW read, Fresh(read, items),
           \A i \in Items : ItemMoves(i) \/ items[i] = NoDoc
    PROVE  Fresh(read, items')
<1> SUFFICES ASSUME NEW i \in DOMAIN read
             PROVE  /\ i \in Items /\ read[i] \in ItemDoc /\ items'[i] # NoDoc
                    /\ items'[i] # Gone => /\ read[i].rev <= items'[i].rev
                                           /\ read[i].rev = items'[i].rev => read[i] = items'[i]
  BY DEF Fresh
<1>1. /\ i \in Items /\ read[i] \in ItemDoc /\ items[i] # NoDoc
      /\ items[i] # Gone => read[i].rev <= items[i].rev /\ (read[i].rev = items[i].rev => read[i] = items[i])
  BY DEF Fresh
<1>2. read[i].rev \in Nat /\ (items[i] \in ItemDoc => items[i].rev \in Nat)
  BY <1>1 DEF ItemDoc
<1>3. ItemMoves(i)
  BY <1>1
<1> QED
  BY <1>1, <1>2, <1>3, NotItem DEF ItemMoves

LEMMA BelongStays ==
    ASSUME NEW u \in Users, NEW ss, Belong(u, ss, shelves), \A s \in Shelves : ShelfMoves(s)
    PROVE  Belong(u, ss, shelves')
BY NotItem DEF Belong, ShelfMoves

LEMMA RequestStays ==
    ASSUME InventoryTypes, NEW q, RequestHolds(q, items, shelves),
           \A i \in Items : ItemMoves(i) \/ (items[i] = NoDoc /\ (q.step = "create" => i \notin DOMAIN q.onShelves)),
           \A s \in Shelves : ShelfMoves(s)
    PROVE  RequestHolds(q, items', shelves')
<1>1. \A read : Fresh(read, items) => Fresh(read, items')
  BY FreshStays
<1>2. \A u \in Users : \A ss : Belong(u, ss, shelves) => Belong(u, ss, shelves')
  BY BelongStays
<1>3. q.step = "create" => \A i \in DOMAIN q.onShelves : items'[i] = NoDoc
  BY NotItem DEF RequestHolds, CreationHolds, ItemMoves
<1> QED
  BY <1>1, <1>2, <1>3 DEF RequestHolds, CreationHolds, UpdateHolds, DeletionHolds, ShelvesDeletionHolds

LEMMA RequestsMove ==
    ASSUME InventoryInv, NEW r \in Requests, NEW q, Goes(r, q),
           \A i \in Items : ItemMoves(i) \/ (items[i] = NoDoc /\ Creates(requests[r], i)),
           \A s \in Shelves : ShelfMoves(s),
           RequestHolds(q, items', shelves'),
           \A p \in Requests : \A i : ~(Creates(q, i) /\ Creates(requests[p], i))
    PROVE  RequestsHold' /\ DOMAIN requests' = Requests
<1>1. DOMAIN requests' = Requests /\ requests'[r] = q /\ \A p \in Requests \ {r} : requests'[p] = requests[p]
  BY DEF Goes, InventoryInv, InventoryTypes
<1>2. ASSUME NEW p \in Requests PROVE RequestHolds(requests'[p], items', shelves')
  <2>1. CASE p = r
    BY <1>1, <2>1
  <2>2. CASE p # r
    <3>1. \A i \in Items : ItemMoves(i) \/ (items[i] = NoDoc /\ (requests[p].step = "create" => i \notin DOMAIN requests[p].onShelves))
      BY <2>2 DEF InventoryInv, RequestsHold, CreateOnce, Creates
    <3>2. RequestHolds(requests[p], items, shelves)
      BY DEF InventoryInv, RequestsHold
    <3> QED
      BY <1>1, <2>2, <3>1, <3>2, RequestStays DEF InventoryInv
  <2> QED
    BY <2>1, <2>2
<1>3. CreateOnce(requests')
  <2>1. ASSUME NEW p \in Requests, NEW o \in Requests, requests'[p].step = "create", requests'[o].step = "create",
               NEW i, i \in DOMAIN requests'[p].onShelves, i \in DOMAIN requests'[o].onShelves
        PROVE  p = o
    BY <1>1, <2>1 DEF InventoryInv, RequestsHold, CreateOnce, Creates
  <2> QED
    BY <2>1 DEF CreateOnce
<1> QED
  BY <1>1, <1>2, <1>3 DEF RequestsHold

\* The counts of a user change with the owner, the level or the existence of items.
Counted(u, level) == {i \in Existing : items[i].owner = u /\ items[i].level = level}

LEMMA SameCounts ==
    ASSUME NEW u \in Users, \A level \in Levels : Counted(u, level)' = Counted(u, level)
    PROVE  GetItemsCounts(u)' = GetItemsCounts(u)
BY DEF GetItemsCounts, Counted, Existing

LEMMA CountsStay ==
    ASSUME CountsHold, UNCHANGED <<snapshot, recounts>>,
           \A u \in Users : u \in timers \cup unannounced => u \in timers' \cup unannounced',
           \A u \in Users : u \notin timers' \cup unannounced' => GetItemsCounts(u)' = GetItemsCounts(u)
    PROVE  CountsHold'
BY DEF CountsHold

-----------------------------------------------------------------------------
(* Steps that change no item and no shelf *)

LEMMA OnlyRequest ==
    ASSUME InventoryInv, NEW r \in Requests, NEW q, Goes(r, q),
           UNCHANGED <<items, shelves, snapshot, timers, recounts, unannounced, strays>>,
           RequestHolds(q, items, shelves),
           \A p \in Requests : \A i : ~(Creates(q, i) /\ Creates(requests[p], i))
    PROVE  InventoryInv'
<1>1. (\A i \in Items : ItemMoves(i)) /\ \A s \in Shelves : ShelfMoves(s)
  BY DEF ItemMoves, ShelfMoves
<1>2. RequestsHold' /\ DOMAIN requests' = Requests
  BY <1>1, RequestsMove
<1>3. InventoryTypes' /\ ShelvesHoldItemsOfTheirOwner'
  BY <1>2 DEF InventoryInv, InventoryTypes, ShelvesHoldItemsOfTheirOwner, Existing
<1>4. CountsHold'
  BY DEF InventoryInv, CountsHold, GetItemsCounts, Existing
<1> QED
  BY <1>2, <1>3, <1>4 DEF InventoryInv

LEMMA KeepsBeginCreate ==
    ASSUME InventoryInv, NEW r \in Requests, NEW u \in Users, NEW is \in SUBSET Items,
           NEW onShelves \in [is -> SUBSET Shelves], BeginCreate(r, u, "private", onShelves)
    PROVE  InventoryInv'
<1> DEFINE q == [step |-> "create", user |-> u, level |-> "private", onShelves |-> onShelves]
<1>1. /\ Goes(r, q) /\ UNCHANGED <<items, shelves, snapshot, timers, recounts, unannounced, strays>>
      /\ \A i \in is : items[i] = NoDoc
      /\ \A p \in Requests : requests[p].step = "create" => DOMAIN requests[p].onShelves \cap is = {}
  BY DEF BeginCreate, BeginRequest
<1>2. q.step = "create" /\ q.user = u /\ q.level = "private" /\ q.onShelves = onShelves
  OBVIOUS
<1> HIDE DEF q
<1>3. RequestHolds(q, items, shelves)
  BY <1>1, <1>2, LevelsAssumption
  DEF RequestHolds, CreationHolds, UpdateHolds, DeletionHolds, ShelvesDeletionHolds
<1>4. \A p \in Requests : \A i : ~(Creates(q, i) /\ Creates(requests[p], i))
  BY <1>1, <1>2 DEF Creates
<1> QED
  BY <1>1, <1>3, <1>4, OnlyRequest

LEMMA KeepsBeginUpdate ==
    ASSUME InventoryInv, NEW r \in Requests, NEW u \in Users,
           NEW kind \in {"add", "remove", "shelves", "edition", "level", "changeOwner"}, NEW is,
           NEW level \in Levels, NEW ss \in SUBSET Shelves, NEW v \in Users,
           kind = "changeOwner" => \A i, j \in is : i = j,
           BeginUpdate(r, kind, u, is, level, ss, v)
    PROVE  InventoryInv'
<1> DEFINE q == [step |-> "read", kind |-> kind, user |-> u, items |-> is, level |-> level,
                 shelves |-> ss, recipient |-> v, read |-> <<>>]
<1>1. /\ Goes(r, q) /\ UNCHANGED <<items, shelves, snapshot, timers, recounts, unannounced, strays>>
      /\ kind = "add" => \A s \in ss : shelves[s] \in {u, Gone}
  BY DEF BeginUpdate, BeginRequest, ShelvesBelongTo
<1>2. /\ q.step = "read" /\ q.kind = kind /\ q.user = u /\ q.items = is /\ q.level = level
      /\ q.shelves = ss /\ q.recipient = v /\ Fields \cup {"level", "recipient"} \subseteq DOMAIN q
  BY DEF Fields
<1> HIDE DEF q
<1>3. RequestHolds(q, items, shelves)
  BY <1>1, <1>2
  DEF RequestHolds, CreationHolds, UpdateHolds, DeletionHolds, ShelvesDeletionHolds, Belong
<1> QED
  BY <1>1, <1>2, <1>3, OnlyRequest DEF Creates

\* What a read of items knows of them.
LEMMA ReadIsFresh ==
    ASSUME InventoryInv, NEW is, is \subseteq Existing
    PROVE  Fresh([i \in is |-> items[i]], items)
BY DEF Fresh, Existing, InventoryInv, InventoryTypes, ItemDoc

LEMMA KeepsReadItems ==
    ASSUME InventoryInv, NEW r \in Requests, ReadItems(r)
    PROVE  InventoryInv'
<1> DEFINE request == requests[r]
           read == [i \in request.items |-> items[i]]
           next == IF request.kind = "shelves" THEN "validate" ELSE "write"
           q == [request EXCEPT !.step = next, !.read = read]
<1>1. UNCHANGED <<items, shelves, snapshot, timers, recounts, unannounced, strays>> /\ request.step = "read"
  BY DEF ReadItems
<1>2. UpdateHolds(request, items, shelves)
  BY DEF InventoryInv, RequestsHold, RequestHolds
<1>3. CASE Goes(r, NoRequest)
  <2>1. RequestHolds(NoRequest, items, shelves) /\ NoRequest.step # "create"
    BY DEF RequestHolds, CreationHolds, UpdateHolds, DeletionHolds, ShelvesDeletionHolds, NoRequest
  <2> QED
    BY <1>1, <1>3, <2>1, OnlyRequest DEF Creates
<1>4. CASE Goes(r, q) /\ \A i \in request.items : i \in Existing /\ items[i].owner = request.user
  <2>1. /\ Fields \subseteq DOMAIN q /\ q.step = next /\ q.read = read
        /\ DOMAIN q = DOMAIN request
        /\ \A f \in DOMAIN request \ {"step", "read"} : q[f] = request[f]
    BY <1>1, <1>2 DEF UpdateHolds, Fields
  <2>2. q.kind = request.kind /\ q.user = request.user /\ q.items = request.items
        /\ q.shelves = request.shelves
    BY <2>1 DEF Fields
  <2>3. /\ request.kind = "level" => q.level = request.level
        /\ request.kind = "changeOwner" => q.recipient = request.recipient
    BY <1>1, <1>2 DEF UpdateHolds
  <2>4. Fresh(read, items)
    BY <1>4, ReadIsFresh
  <2>5. DOMAIN read = request.items /\ \A i \in request.items : read[i].owner = request.user
    BY <1>4
  <2>9. next \in {"validate", "write"} /\ (next = "validate" => request.kind = "shelves")
    OBVIOUS
  <2> HIDE DEF q, read, next
  <2>6. UpdateHolds(q, items, shelves)
    BY <1>1, <1>2, <2>1, <2>2, <2>3, <2>4, <2>5, <2>9 DEF UpdateHolds
  <2>7. RequestHolds(q, items, shelves)
    BY <2>1, <2>6, <2>9 DEF RequestHolds, CreationHolds, DeletionHolds, ShelvesDeletionHolds
  <2>8. q.step # "create"
    BY <2>1, <2>9
  <2> QED
    BY <1>1, <1>4, <2>7, <2>8, OnlyRequest DEF Creates
<1> QED
  BY <1>3, <1>4 DEF ReadItems, Ends

LEMMA KeepsValidateShelves ==
    ASSUME InventoryInv, NEW r \in Requests, ValidateShelves(r)
    PROVE  InventoryInv'
<1> DEFINE request == requests[r]
           q == [request EXCEPT !.step = "write"]
<1>1. UNCHANGED <<items, shelves, snapshot, timers, recounts, unannounced, strays>> /\ request.step = "validate"
  BY DEF ValidateShelves
<1>2. UpdateHolds(request, items, shelves)
  BY DEF InventoryInv, RequestsHold, RequestHolds
<1>3. RequestHolds(NoRequest, items, shelves) /\ NoRequest.step # "create"
  BY DEF RequestHolds, CreationHolds, UpdateHolds, DeletionHolds, ShelvesDeletionHolds, NoRequest
<1>4. /\ q.step = "write" /\ DOMAIN q = DOMAIN request
      /\ \A f \in DOMAIN request \ {"step"} : q[f] = request[f]
  BY <1>1, <1>2 DEF UpdateHolds, Fields
<1>5. /\ q.kind = request.kind /\ q.user = request.user /\ q.items = request.items
      /\ q.shelves = request.shelves /\ q.read = request.read /\ request.kind = "shelves"
  BY <1>1, <1>2, <1>4 DEF UpdateHolds, Fields
<1> HIDE DEF q
<1>6. UpdateHolds(q, items, shelves)
  BY <1>1, <1>2, <1>4, <1>5 DEF UpdateHolds, Editions
<1>7. RequestHolds(q, items, shelves) /\ q.step # "create"
  BY <1>4, <1>6 DEF RequestHolds, CreationHolds, DeletionHolds, ShelvesDeletionHolds
<1>8. Goes(r, q) \/ Goes(r, NoRequest)
  BY DEF ValidateShelves, Ends, q
<1> QED
  BY <1>1, <1>3, <1>7, <1>8, OnlyRequest DEF Creates

LEMMA KeepsBeginDelete ==
    ASSUME InventoryInv, NEW r \in Requests, NEW u \in Users, NEW is, BeginDelete(r, u, is)
    PROVE  InventoryInv'
<1> DEFINE found == is \cap Existing
           read == [i \in found |-> items[i]]
           q == [step |-> "delete", user |-> u, read |-> read]
<1>1. /\ Goes(r, q) /\ UNCHANGED <<items, shelves, snapshot, timers, recounts, unannounced, strays>>
      /\ \A i \in found : items[i].owner = u
  BY DEF BeginDelete, BeginRequest
<1>2. q.step = "delete" /\ q.user = u /\ q.read = read
  OBVIOUS
<1>3. Fresh(read, items) /\ \A i \in DOMAIN read : read[i].owner = u
  BY <1>1, ReadIsFresh
<1> HIDE DEF q, read
<1>4. RequestHolds(q, items, shelves)
  BY <1>2, <1>3
  DEF RequestHolds, CreationHolds, UpdateHolds, DeletionHolds, ShelvesDeletionHolds
<1> QED
  BY <1>1, <1>2, <1>4, OnlyRequest DEF Creates

LEMMA KeepsBeginDeleteShelves ==
    ASSUME InventoryInv, NEW r \in Requests, NEW u \in Users, NEW ss, NEW withItems \in BOOLEAN,
           BeginDeleteShelves(r, u, ss, withItems)
    PROVE  InventoryInv'
<1>1. PICK first \in {"readDeletedItems", "bulkDeleteShelves"} :
          /\ Goes(r, [step |-> first, kind |-> "deleteShelves", user |-> u, shelves |-> ss,
                      items |-> ShelvesItems(ss), read |-> <<>>])
          /\ UNCHANGED <<items, shelves, snapshot, timers, recounts, unannounced, strays>>
  BY DEF BeginDeleteShelves, BeginRequest
<1> DEFINE q == [step |-> first, kind |-> "deleteShelves", user |-> u, shelves |-> ss,
                 items |-> ShelvesItems(ss), read |-> <<>>]
<1>2. q.step = first /\ q.kind = "deleteShelves" /\ q.user = u /\ Fields \subseteq DOMAIN q
  BY DEF Fields
<1>3. Goes(r, q)
  BY <1>1
<1> HIDE DEF q
<1>4. RequestHolds(q, items, shelves)
  BY <1>2
  DEF RequestHolds, CreationHolds, UpdateHolds, DeletionHolds, ShelvesDeletionHolds
<1> QED
  BY <1>1, <1>2, <1>3, <1>4, OnlyRequest DEF Creates

\* The two reads of a deletion of shelves.
LEMMA KeepsShelvesReads ==
    ASSUME InventoryInv, NEW r \in Requests, ReadDeletedItems(r) \/ ReadShelvesItems(r)
    PROVE  InventoryInv'
<1> DEFINE request == requests[r]
<1>1. /\ UNCHANGED <<items, shelves, snapshot, timers, recounts, unannounced, strays>>
      /\ request.step \in {"readDeletedItems", "readShelvesItems"}
  BY DEF ReadDeletedItems, ReadShelvesItems
<1>2. Fields \subseteq DOMAIN request /\ request.user \in Users /\ request.kind = "deleteShelves"
  BY <1>1 DEF InventoryInv, RequestsHold, RequestHolds, ShelvesDeletionHolds
<1>3. CASE Goes(r, NoRequest)
  <2>1. RequestHolds(NoRequest, items, shelves) /\ NoRequest.step # "create"
    BY DEF RequestHolds, CreationHolds, UpdateHolds, DeletionHolds, ShelvesDeletionHolds, NoRequest
  <2> QED
    BY <1>1, <1>3, <2>1, OnlyRequest DEF Creates
<1>4. ASSUME NEW is, is \subseteq Existing, NEW step \in {"deleteShelvesItems", "write"},
             step = "write" => \A i \in is : items[i].owner = request.user,
             Goes(r, [request EXCEPT !.step = step, !.read = [i \in is |-> items[i]]])
      PROVE  InventoryInv'
  <2> DEFINE read == [i \in is |-> items[i]]
             q == [request EXCEPT !.step = step, !.read = read]
  <2>1. /\ q.step = step /\ q.read = read /\ DOMAIN q = DOMAIN request
        /\ q.kind = "deleteShelves" /\ q.user = request.user
    BY <1>2 DEF Fields
  <2>2. Fresh(read, items) /\ (step = "write" => \A i \in DOMAIN read : read[i].owner = request.user)
    BY <1>4, ReadIsFresh
  <2>3. Goes(r, q)
    BY <1>4
  <2> HIDE DEF q, read
  <2>4. RequestHolds(q, items, shelves)
    BY <1>2, <2>1, <2>2
    DEF RequestHolds, CreationHolds, UpdateHolds, DeletionHolds, ShelvesDeletionHolds, Editions
  <2> QED
    BY <1>1, <2>1, <2>3, <2>4, OnlyRequest DEF Creates
<1>5. CASE ReadDeletedItems(r)
  <2>1. request.items \cap Existing \subseteq Existing
    OBVIOUS
  <2> QED
    BY <1>4, <1>5, <2>1 DEF ReadDeletedItems
<1>6. CASE ReadShelvesItems(r)
  <2>1. ShelvesItems(request.shelves) \subseteq Existing
    BY DEF ShelvesItems
  <2> QED
    BY <1>3, <1>4, <1>6, <2>1 DEF ReadShelvesItems, Ends
<1> QED
  BY <1>5, <1>6

-----------------------------------------------------------------------------
(* Shelves *)

LEMMA KeepsShelves ==
    ASSUME InventoryInv, \A s \in Shelves : ShelfMoves(s),
           shelves' \in [Shelves -> Users \cup {NoDoc, Gone}],
           RequestsHold', DOMAIN requests' = Requests,
           UNCHANGED <<items, snapshot, timers, recounts, unannounced, strays>>
    PROVE  InventoryInv'
<1>1. InventoryTypes'
  BY DEF InventoryInv, InventoryTypes
<1>2. ShelvesHoldItemsOfTheirOwner'
  <2>1. \A i \in Existing : items[i] \in ItemDoc /\ items[i].owner \in Users /\ items[i].shelves \subseteq Shelves
    BY DEF Existing, InventoryInv, InventoryTypes, ItemDoc
  <2> QED
    BY <2>1, NotItem DEF InventoryInv, ShelvesHoldItemsOfTheirOwner, ShelfMoves, Existing
<1>3. CountsHold'
  BY DEF InventoryInv, CountsHold, GetItemsCounts, Existing
<1> QED
  BY <1>1, <1>2, <1>3 DEF InventoryInv

LEMMA KeepsCreateShelf ==
    ASSUME InventoryInv, NEW u \in Users, NEW s \in Shelves, CreateShelf(u, s)
    PROVE  InventoryInv'
<1>1. /\ UNCHANGED <<items, requests, snapshot, timers, recounts, unannounced, strays>>
      /\ shelves[s] = NoDoc /\ shelves' = [shelves EXCEPT ![s] = u]
  BY DEF CreateShelf
<1>2. /\ \A t \in Shelves : ShelfMoves(t)
      /\ shelves' \in [Shelves -> Users \cup {NoDoc, Gone}]
  BY <1>1 DEF ShelfMoves, InventoryInv, InventoryTypes
<1>3. \A i \in Items : ItemMoves(i)
  BY <1>1 DEF ItemMoves
<1>4. RequestsHold' /\ DOMAIN requests' = Requests
  <2>1. \A r \in Requests : RequestHolds(requests[r], items', shelves')
    BY <1>2, <1>3, RequestStays DEF InventoryInv, RequestsHold
  <2> QED
    BY <1>1, <2>1 DEF InventoryInv, InventoryTypes, RequestsHold, CreateOnce
<1> QED
  BY <1>1, <1>2, <1>4, KeepsShelves

LEMMA KeepsBulkDeleteShelves ==
    ASSUME InventoryInv, NEW r \in Requests, BulkDeleteShelves(r)
    PROVE  InventoryInv'
<1> DEFINE request == requests[r]
           q == [request EXCEPT !.step = "readShelvesItems"]
<1>1. /\ UNCHANGED <<items, snapshot, timers, recounts, unannounced, strays>> /\ Goes(r, q)
      /\ request.step = "bulkDeleteShelves"
      /\ shelves' = [s \in Shelves |-> IF s \in request.shelves THEN Gone ELSE shelves[s]]
  BY DEF BulkDeleteShelves
<1>2. Fields \subseteq DOMAIN request /\ request.user \in Users /\ request.kind = "deleteShelves"
  BY <1>1 DEF InventoryInv, RequestsHold, RequestHolds, ShelvesDeletionHolds
<1>3. /\ q.step = "readShelvesItems" /\ DOMAIN q = DOMAIN request
      /\ q.kind = "deleteShelves" /\ q.user = request.user
  BY <1>2 DEF Fields
<1> HIDE DEF q
<1>4. RequestHolds(q, items', shelves')
  BY <1>2, <1>3
  DEF RequestHolds, CreationHolds, UpdateHolds, DeletionHolds, ShelvesDeletionHolds
<1>5. /\ \A t \in Shelves : ShelfMoves(t)
      /\ shelves' \in [Shelves -> Users \cup {NoDoc, Gone}]
  BY <1>1 DEF ShelfMoves, InventoryInv, InventoryTypes
<1>6. \A i \in Items : ItemMoves(i)
  BY <1>1 DEF ItemMoves
<1>7. RequestsHold' /\ DOMAIN requests' = Requests
  BY <1>1, <1>3, <1>4, <1>5, <1>6, RequestsMove DEF Creates
<1> QED
  BY <1>1, <1>5, <1>7, KeepsShelves

-----------------------------------------------------------------------------
(* Items *)

\* Steps that write or delete items: what remains to say of each.
LEMMA KeepsItems ==
    ASSUME InventoryInv, NEW r \in Requests, NEW q, Goes(r, q),
           items' \in [Items -> ItemDoc \cup {NoDoc, Gone}],
           \A i \in Items : ItemMoves(i) \/ (items[i] = NoDoc /\ Creates(requests[r], i)),
           UNCHANGED <<shelves, snapshot, recounts>>,
           RequestHolds(q, items', shelves), q.step # "create",
           \A i \in Items : items'[i] \in ItemDoc =>
               \/ items'[i] = items[i] /\ \A s : <<i, s>> \in strays => <<i, s>> \in strays'
               \/ \A s \in items'[i].shelves : shelves[s] \in {items'[i].owner, Gone} \/ <<i, s>> \in strays',
           \A u \in Users : u \in timers \cup unannounced => u \in timers' \cup unannounced',
           \A u \in Users : u \notin timers' \cup unannounced' => GetItemsCounts(u)' = GetItemsCounts(u)
    PROVE  InventoryInv'
<1>1. \A s \in Shelves : ShelfMoves(s)
  BY DEF ShelfMoves
<1>2. RequestsHold' /\ DOMAIN requests' = Requests
  BY <1>1, RequestsMove DEF Creates
<1>3. InventoryTypes'
  BY <1>2 DEF InventoryInv, InventoryTypes
<1>4. ShelvesHoldItemsOfTheirOwner'
  <2>1. \A i \in Existing' : i \in Items /\ items'[i] \in ItemDoc
    BY DEF Existing
  <2>2. \A i \in Items : items'[i] \in ItemDoc /\ items'[i] = items[i] => i \in Existing
    BY NotItem DEF Existing
  <2> QED
    BY <2>1, <2>2 DEF InventoryInv, ShelvesHoldItemsOfTheirOwner
<1>5. CountsHold'
  BY CountsStay DEF InventoryInv
<1> QED
  BY <1>2, <1>3, <1>4, <1>5 DEF InventoryInv

LEMMA IdleHolds ==
    /\ \A docs, owners : RequestHolds(NoRequest, docs, owners)
    /\ NoRequest.step # "create"
BY DEF RequestHolds, CreationHolds, UpdateHolds, DeletionHolds, ShelvesDeletionHolds, NoRequest

\* What is counted for u, item by item.
LEMMA CountedItems ==
    ASSUME NEW u \in Users,
           \A i \in Items : LET counted == items[i] \notin {NoDoc, Gone} /\ items[i].owner = u
                                counted1 == items'[i] \notin {NoDoc, Gone} /\ items'[i].owner = u
                            IN  (counted <=> counted1) /\ (counted => items'[i].level = items[i].level)
    PROVE  GetItemsCounts(u)' = GetItemsCounts(u)
<1>1. \A level \in Levels : Counted(u, level)' = Counted(u, level)
  BY DEF Counted, Existing
<1> QED
  BY <1>1, SameCounts

LEMMA KeepsCreateItems ==
    ASSUME InventoryInv, NEW r \in Requests, CreateItems(r)
    PROVE  InventoryInv'
<1> DEFINE q == requests[r]
           is == DOMAIN q.onShelves
           new(i) == [owner |-> q.user, level |-> q.level, shelves |-> q.onShelves[i], rev |-> 1]
<1>1. /\ q.step = "create" /\ Goes(r, NoRequest) /\ UNCHANGED <<shelves, snapshot, recounts, unannounced>>
      /\ items' = [i \in Items |-> IF i \in is THEN new(i) ELSE items[i]] /\ timers' = timers \cup {q.user}
      /\ strays' = strays \cup UNION {{i} \X ShelvesOfOthers(q.user, q.onShelves[i]) : i \in is}
  BY DEF CreateItems, Ends, Announce
<1>2. /\ q.user \in Users /\ q.level \in Levels
      /\ \A i \in is : i \in Items /\ q.onShelves[i] \subseteq Shelves /\ items[i] = NoDoc
  BY <1>1 DEF InventoryInv, RequestsHold, RequestHolds, CreationHolds
<1>3. \A i \in is : new(i) \in ItemDoc /\ new(i).owner = q.user /\ new(i).shelves = q.onShelves[i]
  BY <1>2 DEF ItemDoc
<1>4. \A i \in is : \A s \in q.onShelves[i] : shelves[s] \in {q.user, Gone} \/ <<i, s>> \in strays'
  BY <1>1 DEF ShelvesOfOthers
<1>5. \A p : p \in strays => p \in strays'
  BY <1>1
<1> HIDE DEF new, is
<1>6. /\ items' \in [Items -> ItemDoc \cup {NoDoc, Gone}]
      /\ \A i \in Items : (i \in is /\ items'[i] = new(i)) \/ (i \notin is /\ items'[i] = items[i])
  BY <1>1, <1>2, <1>3 DEF InventoryInv, InventoryTypes
<1>7. \A i \in Items : ItemMoves(i) \/ (items[i] = NoDoc /\ Creates(q, i))
  BY <1>1, <1>2, <1>6 DEF ItemMoves, Creates, is
<1>8. \A i \in Items : items'[i] \in ItemDoc =>
         \/ items'[i] = items[i] /\ \A s : <<i, s>> \in strays => <<i, s>> \in strays'
         \/ \A s \in items'[i].shelves : shelves[s] \in {items'[i].owner, Gone} \/ <<i, s>> \in strays'
  BY <1>3, <1>4, <1>5, <1>6
<1>9. ASSUME NEW u \in Users, u \notin timers' \cup unannounced'
      PROVE  GetItemsCounts(u)' = GetItemsCounts(u)
  <2>1. ASSUME NEW i \in Items
        PROVE  LET counted == items[i] \notin {NoDoc, Gone} /\ items[i].owner = u
                   counted1 == items'[i] \notin {NoDoc, Gone} /\ items'[i].owner = u
               IN  (counted <=> counted1) /\ (counted => items'[i].level = items[i].level)
    BY <1>1, <1>2, <1>3, <1>6, <1>9, NotItem
  <2> QED
    BY <2>1, CountedItems
<1>10. \A u \in Users : u \in timers \cup unannounced => u \in timers' \cup unannounced'
  BY <1>1
<1>11. UNCHANGED <<shelves, snapshot, recounts>> /\ Goes(r, NoRequest)
  BY <1>1
<1> QED
  BY <1>6, <1>7, <1>8, <1>9, <1>10, <1>11, IdleHolds, KeepsItems

\* The documents that a bulk write finds as they were read.
LEMMA CurrentIs ==
    ASSUME InventoryInv, NEW read, Fresh(read, items)
    PROVE  \A i \in Current(read) : /\ i \in Items /\ i \in DOMAIN read /\ items[i] \in ItemDoc
                                    /\ items[i] = read[i]
BY DEF Current, Existing, Fresh, InventoryInv, InventoryTypes

\* A step that deletes current documents, of owners that it tells or that are told of.
LEMMA KeepsDeleted ==
    ASSUME InventoryInv, NEW r \in Requests, NEW q, Goes(r, q), NEW deleted \in SUBSET Existing,
           items' = [i \in Items |-> IF i \in deleted THEN Gone ELSE items[i]],
           UNCHANGED <<shelves, snapshot, recounts, strays>>,
           RequestHolds(q, items', shelves), q.step # "create",
           \A u \in Users : u \in timers \cup unannounced => u \in timers' \cup unannounced',
           \A i \in deleted : items[i].owner \in timers' \cup unannounced'
    PROVE  InventoryInv'
<1>1. \A i \in deleted : i \in Items /\ items[i] \in ItemDoc
  BY DEF Existing, InventoryInv, InventoryTypes
<1>2. items' \in [Items -> ItemDoc \cup {NoDoc, Gone}] /\ \A i \in Items : ItemMoves(i)
  BY <1>1, NotItem DEF ItemMoves, InventoryInv, InventoryTypes
<1>3. \A i \in Items : items'[i] \in ItemDoc => items'[i] = items[i]
  BY NotItem
<1>4. ASSUME NEW u \in Users, u \notin timers' \cup unannounced'
      PROVE  GetItemsCounts(u)' = GetItemsCounts(u)
  BY <1>1, <1>4, CountedItems
<1> QED
  BY <1>2, <1>3, <1>4, KeepsItems

LEMMA KeepsDeleteItems ==
    ASSUME InventoryInv, NEW r \in Requests, DeleteItems(r)
    PROVE  InventoryInv'
<1> DEFINE q == requests[r]
           deleted == Current(q.read)
<1>1. /\ q.step = "delete" /\ Goes(r, NoRequest) /\ UNCHANGED <<shelves, snapshot, recounts, strays>>
      /\ items' = [i \in Items |-> IF i \in deleted THEN Gone ELSE items[i]]
      /\ timers \subseteq timers' /\ unannounced \subseteq unannounced'
      /\ deleted # {} => q.user \in timers' \cup unannounced'
  BY DEF DeleteItems, Ends, Announce, Silently
<1>2. Fresh(q.read, items) /\ \A i \in DOMAIN q.read : q.read[i].owner = q.user
  BY <1>1 DEF InventoryInv, RequestsHold, RequestHolds, DeletionHolds
<1>3. deleted \in SUBSET Existing /\ \A i \in deleted : items[i].owner = q.user
  BY <1>2, CurrentIs DEF Current
<1> HIDE DEF deleted
<1> QED
  BY <1>1, <1>3, IdleHolds, KeepsDeleted

LEMMA KeepsDeleteShelvesItems ==
    ASSUME InventoryInv, NEW r \in Requests, DeleteShelvesItems(r)
    PROVE  InventoryInv'
<1> DEFINE request == requests[r]
           deleted == Current(request.read)
           next == [request EXCEPT !.step = "bulkDeleteShelves"]
<1>1. /\ request.step = "deleteShelvesItems" /\ UNCHANGED <<shelves, snapshot, recounts, strays>>
      /\ Goes(r, next) \/ Goes(r, NoRequest)
      /\ items' = [i \in Items |-> IF i \in deleted THEN Gone ELSE items[i]]
      /\ timers \subseteq timers' /\ unannounced \subseteq unannounced'
      /\ \A i \in deleted : items[i].owner \in timers' \cup unannounced'
  BY DEF DeleteShelvesItems, Ends, Silently
<1>2. Fields \subseteq DOMAIN request /\ request.user \in Users /\ request.kind = "deleteShelves"
  BY <1>1 DEF InventoryInv, RequestsHold, RequestHolds, ShelvesDeletionHolds
<1>3. deleted \in SUBSET Existing
  BY DEF Current
<1>4. next.step = "bulkDeleteShelves" /\ RequestHolds(next, items', shelves)
  <2>1. /\ next.step = "bulkDeleteShelves" /\ DOMAIN next = DOMAIN request
        /\ next.kind = "deleteShelves" /\ next.user = request.user
    BY <1>2 DEF Fields
  <2> HIDE DEF next
  <2> QED
    BY <1>2, <2>1
    DEF RequestHolds, CreationHolds, UpdateHolds, DeletionHolds, ShelvesDeletionHolds
<1> HIDE DEF deleted, next
<1> QED
  BY <1>1, <1>3, <1>4, IdleHolds, KeepsDeleted

\* The fields of a document after a change of some of them.
LEMMA ChangedFields ==
    ASSUME NEW doc \in ItemDoc
    PROVE  /\ \A ss \in SUBSET Shelves : LET new == [doc EXCEPT !.shelves = ss] IN
                 /\ new \in ItemDoc /\ new.shelves = ss
                 /\ new.owner = doc.owner /\ new.level = doc.level /\ new.rev = doc.rev
           /\ \A l \in Levels : LET new == [doc EXCEPT !.level = l] IN
                 /\ new \in ItemDoc /\ new.shelves = doc.shelves /\ new.owner = doc.owner /\ new.rev = doc.rev
           /\ \A n \in Nat : LET new == [doc EXCEPT !.rev = n] IN
                 /\ new \in ItemDoc /\ new.shelves = doc.shelves
                 /\ new.owner = doc.owner /\ new.level = doc.level /\ new.rev = n
BY DEF ItemDoc

LEMMA ChangedOwnerFields ==
    ASSUME NEW doc \in ItemDoc, NEW u \in Users
    PROVE  LET new == ChangedOwner(doc, u) IN
           new \in ItemDoc /\ new.shelves = {} /\ new.owner = u /\ new.rev = doc.rev
BY LevelsAssumption DEF ItemDoc, ChangedOwner

\* The document that a bulk update writes.
Written(q, i, new) ==
    /\ items[i] \in ItemDoc /\ i \in Items /\ items[i].owner = q.user
    /\ new \in ItemDoc /\ new.rev = items[i].rev + 1
    /\ \A s \in new.shelves :
          \/ shelves[s] \in {new.owner, Gone}
          \/ q.kind \in Editions /\ s \in ShelvesOfOthers(q.user, q.shelves)
          \/ q.kind \notin Editions \cup {"changeOwner"} /\ <<i, s>> \in strays
    /\ q.kind # "changeOwner" => new.owner = q.user
    /\ q.kind = "changeOwner" => new.owner = q.recipient
    /\ q.kind \notin {"changeOwner", "level"} => new.level = items[i].level

LEMMA ChangedIs ==
    ASSUME InventoryInv, NEW q, UpdateHolds(q, items, shelves), q.step = "write",
           NEW i, i \in Current(q.read),
           NEW new, new = [Change(q, q.read[i]) EXCEPT !.rev = items[i].rev + 1]
    PROVE  Written(q, i, new)
<1>1. /\ i \in Items /\ i \in DOMAIN q.read /\ items[i] \in ItemDoc /\ items[i] = q.read[i]
      /\ items[i].owner = q.user /\ q.user \in Users
  BY CurrentIs DEF UpdateHolds
<1>2. i \in Existing /\ \A s \in items[i].shelves : shelves[s] \in {items[i].owner, Gone} \/ <<i, s>> \in strays
  BY <1>1, NotItem DEF Existing, InventoryInv, ShelvesHoldItemsOfTheirOwner
<1>3. PICK doc \in ItemDoc : doc = items[i]
  BY <1>1
<1>4. doc.rev \in Nat /\ doc.shelves \subseteq Shelves /\ doc.owner \in Users /\ doc.level \in Levels
  BY <1>3 DEF ItemDoc
<1> DEFINE n == doc.rev + 1
<1>5. n \in Nat /\ new = [Change(q, doc) EXCEPT !.rev = n]
  BY <1>1, <1>3, <1>4
<1> HIDE DEF n
<1>6. \A changed \in ItemDoc : LET written == [changed EXCEPT !.rev = n] IN
          /\ written \in ItemDoc /\ written.rev = n
          /\ written.owner = changed.owner /\ written.level = changed.level
          /\ written.shelves = changed.shelves
  BY <1>5, ChangedFields
<1>7. ASSUME NEW ss \in SUBSET Shelves, Change(q, doc) = [doc EXCEPT !.shelves = ss]
      PROVE  /\ new \in ItemDoc /\ new.rev = items[i].rev + 1 /\ new.owner = q.user
             /\ new.level = items[i].level /\ new.shelves = ss
  <2> DEFINE changed == [doc EXCEPT !.shelves = ss]
  <2>1. /\ changed \in ItemDoc /\ changed = Change(q, doc) /\ changed.shelves = ss
        /\ changed.owner = doc.owner /\ changed.level = doc.level
    BY <1>7, ChangedFields
  <2> HIDE DEF changed
  <2> QED
    BY <1>1, <1>3, <1>5, <1>6, <2>1 DEF n
<1>8. CASE q.kind \in {"add", "remove", "deleteShelves"}
  <2>1. PICK ss \in SUBSET Shelves :
            /\ Change(q, doc) = [doc EXCEPT !.shelves = ss]
            /\ \A s \in ss : s \in doc.shelves \/ shelves[s] \in {q.user, Gone}
    <3>1. CASE q.kind = "add"
      <4>1. Change(q, doc) = [doc EXCEPT !.shelves = doc.shelves \cup q.shelves]
        BY <3>1 DEF Change, AddedShelves, Editions
      <4>2. q.shelves \subseteq Shelves /\ \A s \in q.shelves : shelves[s] \in {q.user, Gone}
        BY <3>1 DEF UpdateHolds, Belong
      <4> QED
        BY <1>4, <4>1, <4>2
    <3>2. CASE q.kind \in {"remove", "deleteShelves"}
      <4>1. Change(q, doc) = [doc EXCEPT !.shelves = doc.shelves \ q.shelves]
        BY <3>2 DEF Change, DeletedShelves, Editions
      <4> QED
        BY <1>4, <4>1
    <3> QED
      BY <1>8, <3>1, <3>2
  <2>2. \A s \in ss : shelves[s] \in {q.user, Gone} \/ <<i, s>> \in strays
    BY <1>1, <1>2, <1>3, <2>1
  <2>3. q.kind \notin Editions \cup {"changeOwner", "level"}
    BY <1>8 DEF Editions
  <2>4. /\ new \in ItemDoc /\ new.rev = items[i].rev + 1 /\ new.owner = q.user
        /\ new.level = items[i].level /\ new.shelves = ss
    BY <1>7, <2>1
  <2> QED
    BY <1>1, <2>2, <2>3, <2>4 DEF Written
<1>9. CASE q.kind \in Editions
  <2>1. q.shelves \in SUBSET Shelves /\ q.kind \notin {"changeOwner", "level"}
    BY <1>9 DEF UpdateHolds, Editions
  <2>2. Change(q, doc) = [doc EXCEPT !.shelves = q.shelves]
    BY <1>9 DEF Change, UpdatedItem, Editions
  <2>3. /\ new \in ItemDoc /\ new.rev = items[i].rev + 1 /\ new.owner = q.user
        /\ new.level = items[i].level /\ new.shelves = q.shelves
    BY <1>7, <2>1, <2>2
  <2> QED
    BY <1>1, <1>9, <2>1, <2>3 DEF Written, ShelvesOfOthers
<1>10. CASE q.kind = "level"
  <2>1. q.level \in Levels /\ Change(q, doc) = [doc EXCEPT !.level = q.level]
    BY <1>10 DEF UpdateHolds, Change, UpdatedItem, Editions
  <2> DEFINE changed == [doc EXCEPT !.level = q.level]
  <2>2. /\ changed \in ItemDoc /\ changed = Change(q, doc) /\ changed.shelves = doc.shelves
        /\ changed.owner = doc.owner
    BY <2>1, ChangedFields
  <2> HIDE DEF changed
  <2>3. new \in ItemDoc /\ new.rev = n /\ new.owner = doc.owner /\ new.shelves = doc.shelves
    BY <1>5, <1>6, <2>2
  <2> QED
    BY <1>1, <1>2, <1>3, <1>10, <2>3 DEF n, Written, Editions
<1>11. CASE q.kind = "changeOwner"
  <2>1. q.recipient \in Users /\ Change(q, doc) = ChangedOwner(doc, q.recipient)
    BY <1>11 DEF UpdateHolds, Change, Editions
  <2>2. PICK changed \in ItemDoc : /\ changed = Change(q, doc) /\ changed.shelves = {}
                                   /\ changed.owner = q.recipient
    BY <1>3, <2>1, ChangedOwnerFields
  <2>3. new \in ItemDoc /\ new.rev = n /\ new.owner = q.recipient /\ new.shelves = {}
    BY <1>5, <1>6, <2>2
  <2> QED
    BY <1>1, <1>3, <1>11, <2>3 DEF n, Written
<1> QED
  BY <1>8, <1>9, <1>10, <1>11 DEF UpdateHolds, Editions

LEMMA KeepsWriteItems ==
    ASSUME InventoryInv, NEW r \in Requests, WriteItems(r)
    PROVE  InventoryInv'
<1> DEFINE q == requests[r]
           written == Current(q.read)
           failed == DOMAIN q.read \ written
           retry == [q EXCEPT !.step = "read", !.items = failed]
           new(i) == [Change(q, q.read[i]) EXCEPT !.rev = items[i].rev + 1]
           bulk == q.kind \in {"level", "shelves"}
<1>1. /\ q.step = "write" /\ UNCHANGED <<shelves, snapshot, recounts>>
      /\ items' = [i \in Items |-> IF i \in written THEN new(i) ELSE items[i]]
      /\ Goes(r, NoRequest) \/ (bulk /\ Goes(r, retry))
      /\ timers \subseteq timers' /\ unannounced \subseteq unannounced'
      /\ bulk /\ written # {} => q.user \in timers' \cup unannounced'
      /\ strays' = IF q.kind \in Editions
                    THEN (strays \ (written \X Shelves)) \cup (written \X ShelvesOfOthers(q.user, q.shelves))
                    ELSE IF q.kind = "changeOwner" THEN strays \ (written \X Shelves) ELSE strays
      /\ q.kind = "changeOwner" /\ failed = {} => {q.user, q.recipient} \subseteq timers' \cup unannounced'
  BY DEF WriteItems, Ends, Announce, Silently
<1>2. UpdateHolds(q, items, shelves)
  BY DEF InventoryInv, RequestsHold, RequestHolds
<1>3. q.kind = "changeOwner" /\ written # {} => failed = {}
  <2>1. written \subseteq DOMAIN q.read
    BY DEF Current
  <2> QED
    BY <1>1, <1>2, <2>1 DEF UpdateHolds
<1>4. \A i \in written : Written(q, i, new(i))
  BY <1>1, <1>2, ChangedIs
<1>5. bulk => RequestHolds(retry, items', shelves) /\ retry.step # "create"
  <2> SUFFICES ASSUME bulk PROVE RequestHolds(retry, items', shelves) /\ retry.step # "create"
    OBVIOUS
  <2>1. /\ retry.step = "read" /\ retry.items = failed /\ DOMAIN retry = DOMAIN q
        /\ \A f \in DOMAIN q \ {"step", "items"} : retry[f] = q[f]
    BY <1>1, <1>2 DEF UpdateHolds, Fields
  <2>2. /\ retry.kind = q.kind /\ retry.user = q.user /\ retry.shelves = q.shelves
        /\ q.kind = "level" => retry.level = q.level
    BY <1>1, <1>2, <2>1 DEF UpdateHolds, Fields
  <2> HIDE DEF retry, failed
  <2> QED
    BY <1>1, <1>2, <2>1, <2>2
    DEF RequestHolds, CreationHolds, UpdateHolds, DeletionHolds, ShelvesDeletionHolds
<1> HIDE DEF new, written, failed, retry
<1>6. items' \in [Items -> ItemDoc \cup {NoDoc, Gone}] /\ \A i \in Items : ItemMoves(i)
  BY <1>1, <1>4 DEF Written, ItemMoves, InventoryInv, InventoryTypes
<1>7. ASSUME NEW i \in Items
      PROVE  \/ items'[i] = items[i] /\ \A s : <<i, s>> \in strays => <<i, s>> \in strays'
             \/ \A s \in items'[i].shelves : shelves[s] \in {items'[i].owner, Gone} \/ <<i, s>> \in strays'
  <2>1. CASE i \notin written
    BY <1>1, <2>1 DEF Editions
  <2>2. CASE i \in written
    <3>1. items'[i] = new(i)
      BY <1>1, <2>2
    <3>2. \A s \in new(i).shelves :
              \/ shelves[s] \in {new(i).owner, Gone}
              \/ q.kind \in Editions /\ s \in ShelvesOfOthers(q.user, q.shelves)
              \/ q.kind \notin Editions \cup {"changeOwner"} /\ <<i, s>> \in strays
      BY <1>4, <2>2 DEF Written
    <3>3. \A s : q.kind \in Editions /\ s \in ShelvesOfOthers(q.user, q.shelves) => <<i, s>> \in strays'
      <4>1. q.kind \in Editions =>
               strays' = (strays \ (written \X Shelves)) \cup (written \X ShelvesOfOthers(q.user, q.shelves))
        BY <1>1
      <4>2. \A s \in ShelvesOfOthers(q.user, q.shelves) : <<i, s>> \in written \X ShelvesOfOthers(q.user, q.shelves)
        BY <2>2
      <4> QED
        BY <4>1, <4>2
    <3>4. \A s : q.kind \notin Editions \cup {"changeOwner"} /\ <<i, s>> \in strays => <<i, s>> \in strays'
      BY <1>1
    <3> QED
      BY <3>1, <3>2, <3>3, <3>4
  <2> QED
    BY <2>1, <2>2
<1>8. ASSUME NEW u \in Users, u \notin timers' \cup unannounced'
      PROVE  GetItemsCounts(u)' = GetItemsCounts(u)
  <2>1. ASSUME NEW i \in Items
        PROVE  LET counted == items[i] \notin {NoDoc, Gone} /\ items[i].owner = u
                   counted1 == items'[i] \notin {NoDoc, Gone} /\ items'[i].owner = u
               IN  (counted <=> counted1) /\ (counted => items'[i].level = items[i].level)
    <3>1. CASE i \notin written
      BY <1>1, <3>1
    <3>2. CASE i \in written
      <4>1. items'[i] = new(i) /\ items[i] \in ItemDoc /\ new(i) \in ItemDoc /\ items[i].owner = q.user
        BY <1>1, <1>4, <3>2 DEF Written
      <4>2. CASE q.kind = "changeOwner"
        BY <1>1, <1>3, <1>4, <1>8, <3>2, <4>1, <4>2 DEF Written
      <4>3. CASE q.kind # "changeOwner"
        BY <1>1, <1>4, <1>8, <3>2, <4>1, <4>3, NotItem DEF Written
      <4> QED
        BY <4>2, <4>3
    <3> QED
      BY <3>1, <3>2
  <2> QED
    BY <2>1, CountedItems
<1> QED
  BY <1>1, <1>5, <1>6, <1>7, <1>8, IdleHolds, KeepsItems

-----------------------------------------------------------------------------
(* Counts *)

LEMMA CountsAreNumbers == \A u \in Users : GetItemsCounts(u) \in [Levels -> Nat]
<1>1. \A u, level : IsFiniteSet(Counted(u, level))
  BY ItemsAssumption, FS_Subset DEF Counted, Existing
<1>2. \A u, level : Cardinality(Counted(u, level)) \in Nat
  BY <1>1, FS_CardinalityType
<1>3. \A u : GetItemsCounts(u) = [level \in Levels |-> Cardinality(Counted(u, level))]
  BY DEF GetItemsCounts, Counted
<1> QED
  BY <1>2, <1>3

LEMMA OnlyCounts ==
    ASSUME InventoryInv, UNCHANGED <<items, shelves, requests, strays>>,
           DOMAIN snapshot' = Users, DOMAIN recounts' = Users, CountsHold'
    PROVE  InventoryInv'
<1>1. InventoryTypes' /\ ShelvesHoldItemsOfTheirOwner'
  BY DEF InventoryInv, InventoryTypes, ShelvesHoldItemsOfTheirOwner, Existing
<1>2. RequestsHold'
  BY DEF InventoryInv, RequestsHold
<1> QED
  BY <1>1, <1>2 DEF InventoryInv

LEMMA KeepsStartRecount ==
    ASSUME InventoryInv, NEW u \in Users, StartRecount(u)
    PROVE  InventoryInv'
<1>1. /\ UNCHANGED <<items, shelves, requests, snapshot, strays>> /\ timers' = timers \ {u}
      /\ recounts' = [recounts EXCEPT ![u] = GetItemsCounts(u)] /\ unannounced' = unannounced \ {u}
  BY DEF StartRecount
<1>2. /\ DOMAIN recounts' = Users /\ recounts'[u] = GetItemsCounts(u)
      /\ \A v \in Users \ {u} : recounts'[v] = recounts[v]
  BY <1>1 DEF InventoryInv, InventoryTypes
<1>3. GetItemsCounts(u) # NoDoc
  BY CountsAreNumbers, NoDocAssumption
<1>4. \A v \in Users : GetItemsCounts(v)' = GetItemsCounts(v)
  BY <1>1 DEF GetItemsCounts, Existing
<1>5. ASSUME NEW v \in Users, v \notin timers' \cup unannounced'
      PROVE  (IF recounts'[v] = NoDoc THEN snapshot'[v] ELSE recounts'[v]) = GetItemsCounts(v)'
  <2>1. CASE v = u
    BY <1>2, <1>3, <1>4, <2>1
  <2>2. CASE v # u
    BY <1>1, <1>2, <1>4, <1>5, <2>2 DEF InventoryInv, CountsHold
  <2> QED
    BY <2>1, <2>2
<1>6. CountsHold'
  BY <1>5 DEF CountsHold
<1> QED
  BY <1>1, <1>2, <1>6, OnlyCounts DEF InventoryInv, InventoryTypes

LEMMA KeepsUpdateUserItemsCounts ==
    ASSUME InventoryInv, NEW u \in Users, UpdateUserItemsCounts(u)
    PROVE  InventoryInv'
<1>1. /\ UNCHANGED <<items, shelves, requests, timers, unannounced, strays>> /\ recounts[u] # NoDoc
      /\ snapshot' = [snapshot EXCEPT ![u] = recounts[u]]
      /\ recounts' = [recounts EXCEPT ![u] = NoDoc]
  BY DEF UpdateUserItemsCounts
<1>2. /\ DOMAIN snapshot' = Users /\ DOMAIN recounts' = Users
      /\ snapshot'[u] = recounts[u] /\ recounts'[u] = NoDoc
      /\ \A v \in Users \ {u} : snapshot'[v] = snapshot[v] /\ recounts'[v] = recounts[v]
  BY <1>1 DEF InventoryInv, InventoryTypes
<1>3. \A v \in Users : GetItemsCounts(v)' = GetItemsCounts(v)
  BY <1>1 DEF GetItemsCounts, Existing
<1>4. CountsHold'
  BY <1>1, <1>2, <1>3 DEF InventoryInv, CountsHold
<1> QED
  BY <1>1, <1>2, <1>4, OnlyCounts

LEMMA KeepsRestart ==
    ASSUME InventoryInv, Restart
    PROVE  InventoryInv'
<1>1. /\ UNCHANGED <<items, shelves, snapshot, strays>> /\ timers' = {}
      /\ requests' = [r \in Requests |-> NoRequest] /\ recounts' = [u \in Users |-> NoDoc]
      /\ unannounced' = unannounced \cup timers \cup {u \in Users : recounts[u] # NoDoc}
  BY DEF Restart
<1>2. InventoryTypes' /\ ShelvesHoldItemsOfTheirOwner'
  BY <1>1 DEF InventoryInv, InventoryTypes, ShelvesHoldItemsOfTheirOwner, Existing
<1>3. RequestsHold'
  BY <1>1, IdleHolds DEF RequestsHold, CreateOnce
<1>4. \A v \in Users : GetItemsCounts(v)' = GetItemsCounts(v)
  BY <1>1 DEF GetItemsCounts, Existing
<1>5. CountsHold'
  BY <1>1, <1>4 DEF InventoryInv, CountsHold
<1> QED
  BY <1>2, <1>3, <1>5 DEF InventoryInv

-----------------------------------------------------------------------------
(* The theorems *)

LEMMA InventoryStarts ==
    ASSUME InventoryInit PROVE InventoryInv
<1>1. InventoryTypes /\ ShelvesHoldItemsOfTheirOwner
  BY DEF InventoryInit, InventoryTypes, ShelvesHoldItemsOfTheirOwner, Existing
<1>2. RequestsHold
  BY IdleHolds DEF InventoryInit, RequestsHold, CreateOnce
<1>3. \A u, level : Counted(u, level) = {}
  BY DEF InventoryInit, Counted, Existing
<1>4. \A u : GetItemsCounts(u) = [level \in Levels |-> 0]
  <2>1. \A u : GetItemsCounts(u) = [level \in Levels |-> Cardinality(Counted(u, level))]
    BY DEF GetItemsCounts, Counted
  <2> QED
    BY <1>3, <2>1, FS_EmptySet
<1>5. CountsHold
  BY <1>4 DEF InventoryInit, CountsHold
<1> QED
  BY <1>1, <1>2, <1>5 DEF InventoryInv

LEMMA InventoryKeeps ==
    ASSUME InventoryInv, InventoryNext PROVE InventoryInv'
<1>1. ASSUME NEW r \in Requests, NEW u \in Users,
             \/ \E is \in SUBSET Existing : BeginDelete(r, u, is)
             \/ \E ss \in (SUBSET Known) \ {{}}, withItems \in BOOLEAN : BeginDeleteShelves(r, u, ss, withItems)
      PROVE  InventoryInv'
  BY <1>1, KeepsBeginDelete, KeepsBeginDeleteShelves
<1>2. ASSUME NEW r \in Requests, NEW u \in Users, NEW is \in (SUBSET Existing) \ {{}},
             NEW ss \in (SUBSET Known) \ {{}}, NEW kind \in {"add", "remove", "shelves"},
             BeginUpdate(r, kind, u, is, "private", ss, u)
      PROVE  InventoryInv'
  <2>1. ss \in SUBSET Shelves /\ "private" \in Levels
    BY LevelsAssumption DEF Known
  <2> QED
    BY <1>2, <2>1, KeepsBeginUpdate
<1>3. ASSUME NEW r \in Requests, NEW u \in Users, NEW is \in (SUBSET Existing) \ {{}},
             NEW level \in Levels \ {"private"}, BeginUpdate(r, "level", u, is, level, {}, u)
      PROVE  InventoryInv'
  BY <1>3, KeepsBeginUpdate
<1>4. ASSUME NEW r \in Requests, NEW u \in Users, NEW i \in Existing, NEW v \in Users \ {u},
             BeginUpdate(r, "changeOwner", u, {i}, "private", {}, v)
      PROVE  InventoryInv'
  BY <1>4, LevelsAssumption, KeepsBeginUpdate
<1>5. ASSUME NEW r \in Requests,
             \/ CreateItems(r) \/ ReadItems(r) \/ ValidateShelves(r) \/ WriteItems(r) \/ DeleteItems(r)
             \/ ReadDeletedItems(r) \/ DeleteShelvesItems(r) \/ BulkDeleteShelves(r) \/ ReadShelvesItems(r)
      PROVE  InventoryInv'
  BY <1>5, KeepsCreateItems, KeepsReadItems, KeepsValidateShelves, KeepsWriteItems, KeepsDeleteItems,
     KeepsShelvesReads, KeepsDeleteShelvesItems, KeepsBulkDeleteShelves
<1>6. ASSUME NEW r \in Requests, NEW u \in Users,
             \E i \in Existing, v \in Users \ {u} :
                 items[i].owner = u /\ BeginUpdate(r, "changeOwner", u, {i}, "private", {}, v)
      PROVE  InventoryInv'
  BY <1>4, <1>6
<1>7. ASSUME NEW u \in Users, \/ \E s \in Shelves : CreateShelf(u, s)
                              \/ StartRecount(u) \/ UpdateUserItemsCounts(u)
      PROVE  InventoryInv'
  BY <1>7, KeepsCreateShelf, KeepsStartRecount, KeepsUpdateUserItemsCounts
<1>8. ASSUME NEW r \in Requests, NEW u \in Users,
             \/ \E is \in (SUBSET Existing) \ {{}}, ss \in (SUBSET Known) \ {{}} :
                  \E kind \in {"add", "remove", "shelves"} : BeginUpdate(r, kind, u, is, "private", ss, u)
             \/ \E is \in (SUBSET Existing) \ {{}}, level \in Levels \ {"private"} :
                  BeginUpdate(r, "level", u, is, level, {}, u)
      PROVE  InventoryInv'
  BY <1>2, <1>3, <1>8
<1>9. ASSUME NEW r \in Requests, NEW u \in Users,
             \E is \in SUBSET Items : \E onShelves \in [is -> {ss \in SUBSET Known : Cardinality(ss) <= 1}] :
                 BeginCreate(r, u, "private", onShelves)
      PROVE  InventoryInv'
  <2>1. PICK is \in SUBSET Items : \E onShelves \in [is -> {ss \in SUBSET Known : Cardinality(ss) <= 1}] :
                                     BeginCreate(r, u, "private", onShelves)
    BY <1>9
  <2>2. PICK onShelves \in [is -> {ss \in SUBSET Known : Cardinality(ss) <= 1}] :
            BeginCreate(r, u, "private", onShelves)
    BY <2>1
  <2>3. onShelves \in [is -> SUBSET Shelves]
    BY DEF Known
  <2> QED
    BY <2>2, <2>3, KeepsBeginCreate
<1>10. ASSUME NEW r \in Requests, NEW u \in Users,
              \E i \in Existing, ss \in (SUBSET Known) \ {{}}, v \in Users :
                  BeginUpdate(r, "edition", u, {i}, "private", ss, v)
       PROVE  InventoryInv'
  <2>1. (SUBSET Known) \ {{}} \subseteq SUBSET Shelves /\ "private" \in Levels
    BY LevelsAssumption DEF Known
  <2> QED
    BY <1>10, <2>1, KeepsBeginUpdate
<1> QED
  BY <1>1, <1>5, <1>6, <1>7, <1>8, <1>9, <1>10, KeepsRestart, Zenon DEF InventoryNext

LEMMA InventoryInvariant == InventorySpec => []InventoryInv
<1>1. ASSUME InventoryInv, UNCHANGED ivars PROVE InventoryInv'
  BY <1>1 DEF ivars, InventoryInv, InventoryTypes, RequestsHold, CountsHold,
              ShelvesHoldItemsOfTheirOwner, GetItemsCounts, Existing
<1> QED
  BY <1>1, InventoryStarts, InventoryKeeps, PTL DEF InventorySpec

\* An item is on shelves of its owner only, but for those that a creation or an edition
\* named behind one of the user's own, whatever requests read the items and the shelves
\* before an item changed owner or a shelf was deleted (bulk writes of items and shelves,
\* checked against the revisions read; resets of the change of owner).
THEOREM OwnersHoldTheirShelves == InventorySpec => []ShelvesHoldItemsOfTheirOwner
BY InventoryInvariant, PTL DEF InventoryInv

\* The counts in the user document are those of the items once its listener is quiet,
\* unless a change was not told to it.
THEOREM SnapshotsFollowEvents == InventorySpec => []SnapshotFollowsEvents
<1>1. InventoryInv => SnapshotFollowsEvents
  BY DEF InventoryInv, CountsHold, SnapshotFollowsEvents
<1> QED
  BY <1>1, InventoryInvariant, PTL

-----------------------------------------------------------------------------
(* Visibility *)

VisibilityTypes == visibility \in [Owners -> SUBSET (Keywords \cup Circles)]

LEMMA VisibilityInvariant == VisibilitySpec => []VisibilityTypes
<1>1. VisibilityInit => VisibilityTypes
  BY DEF VisibilityInit, VisibilityTypes
<1>2. VisibilityTypes /\ [VisibilityNext]_vvars => VisibilityTypes'
  BY DEF VisibilityTypes, VisibilityNext, vvars, SetVisibility, JoinGroup, LeaveGroup, UpdateFriendship
<1> QED
  BY <1>1, <1>2, PTL DEF VisibilitySpec

\* Whatever the keys, the memberships and the friendships, a query of the views and the
\* filter of documents show a document to the same readers, as long as its owner is in
\* the groups of its keys.
THEOREM QueriesAgreeWithFilter == VisibilitySpec => []ViewsAgreeWithFilter
<1>1. ASSUME VisibilityTypes, NEW owner \in Owners, NEW reader \in People \cup {Anonymous},
             GroupKeys(visibility[owner]) \subseteq GetGroupsIds(owner)
      PROVE  InViews(owner, reader) <=> IsVisible(owner, reader)
  <2>1. /\ visibility[owner] \subseteq Keywords \cup Circles
        /\ "private" \notin visibility[owner]
        /\ "public" \notin Circles /\ "friends" \notin Circles /\ "groups" \notin Circles
    BY <1>1, KeysAssumption DEF VisibilityTypes, Keywords
  <2>2. owner # Anonymous
    BY KeysAssumption DEF People
  <2>3. CASE owner = reader
    BY <2>3 DEF InViews, GetAllowedVisibilityKeys, IsVisible
  <2>4. CASE owner # reader /\ reader = Anonymous
    BY <2>1, <2>4 DEF InViews, GetAllowedVisibilityKeys, IsVisible
  <2>5. CASE owner # reader /\ reader # Anonymous
    <3> DEFINE keys == visibility[owner]
    <3>1. InViews(owner, reader) <=>
             \/ "public" \in keys
             \/ "friends" \in keys /\ AreFriends(owner, reader)
             \/ "groups" \in keys /\ GetSharedGroupsIds(owner, reader) # {}
             \/ \E g \in GetSharedGroupsIds(owner, reader) : g \in keys
      <4>1. GetSharedGroupsIds(owner, reader) \subseteq Circles
        BY DEF GetSharedGroupsIds, GetGroupsIds
      <4>2. GetAllowedVisibilityKeys(owner, reader) =
               {"public"} \cup {key \in {"friends"} : AreFriends(owner, reader)}
                          \cup {key \in {"groups"} : GetSharedGroupsIds(owner, reader) # {}}
                          \cup GetSharedGroupsIds(owner, reader)
        BY <2>5 DEF GetAllowedVisibilityKeys
      <4>3. "private" \notin Circles
        BY KeysAssumption
      <4> QED
        BY <2>1, <4>1, <4>2, <4>3 DEF InViews
    <3>2. "groups" \in keys => (owner \in GetUserGroupsCoMembers(reader) <=> GetSharedGroupsIds(owner, reader) # {})
      <4>1. owner \in GetUserGroupsCoMembers(reader)
               <=> \E g \in GetGroupsIds(reader) : owner \in members[g]
        BY <2>5 DEF GetUserGroupsCoMembers
      <4>2. GetSharedGroupsIds(owner, reader) = {g \in GetGroupsIds(reader) : owner \in members[g]}
        BY DEF GetSharedGroupsIds, GetGroupsIds
      <4> QED
        BY <4>1, <4>2
    <3>3. (\E g \in GetSharedGroupsIds(owner, reader) : g \in keys)
             <=> \E g \in GroupKeys(keys) : reader \in members[g]
      BY <1>1 DEF GetSharedGroupsIds, GetGroupsIds, GroupKeys
    <3> QED
      BY <2>5, <3>1, <3>2, <3>3 DEF IsVisible
  <2> QED
    BY <2>3, <2>4, <2>5
<1>2. VisibilityTypes => ViewsAgreeWithFilter
  BY <1>1 DEF ViewsAgreeWithFilter
<1> QED
  BY <1>2, VisibilityInvariant, PTL
=============================================================================
