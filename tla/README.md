# Verification of inventaire

This directory holds TLA+ models of the server of [inventaire](../src/README.md), a web
application to keep inventories of books and exchange them. It is a Node program: one process
handles many HTTP requests, each by an asynchronous function that keeps what it has read across
its `await`s, over CouchDB databases that know nothing of transactions. Nearly everything that is
hard to test in it comes from that: a handler reads a document, validates it, and writes
another version of it after other handlers ran.

| file | what it is |
|---|---|
| `Transactions.tla` | the exchange of items: requests, updates, messages, changes of owner |
| `ExchangeProtocol.tla` | what that exchange promises: the abstract specification |
| `Groups.tla` | the memberships of a group, its end, the deletion of accounts |
| `EntityPatches.tla`, `Entities.tla` | the JSON patches of a history, and the edition of entities with their history: labels, merges and what undoes them |
| `Relations.tla`, `Invitations.tla`, `Accounts.tla` | friendships, invitations by email, sign-ups and deletions of accounts, each module extending the former |
| `Catalogue.tla` | claims between entities, and the items, list elements and tasks that follow merges, removals and their reversals |
| `Inventory.tla` | items and shelves, and the counts of items in the user document |
| `Ordinals.tla`, `Listings.tla`, `OrderedLists.tla` | ordinals as strings, the lists they keep in order, and the abstract specification of these lists |
| `Visibility.tla` | who may see a document, decided by views and by a filter |
| `Indexation.tla` | the changes feed followed into Elasticsearch, with its queue of jobs |
| `OutgoingRequests.tla` | requests to other hosts, their retries and the bans of hosts |
| `SessionKeys.tla` | the rotation of the keys that sign session cookies |
| `RelationsCache.tla` | relations edited on Wikidata, remembered while its query service lags |
| `FederatedMerges.tla` | another instance that follows merges and their reversals |
| `GroupedCache.tla` | a cache of remote values, whose requests are grouped |
| `TransactionEmails.tla` | the debounced emails about a transaction |
| `PublicActivities.tla` | the activities that announce new items |
| `MC*.tla`, `*.cfg` | small instances and workloads for TLC |
| `TransactionsProofs.tla` | theorems about the exchange; those of its last part are about one request at a time |
| `GroupsProofs.tla`, `EntitiesProofs.tla` | theorems about groups and about editions |
| `SocialProofs.tla`, `SerialProofs.tla` | theorems about relations and accounts, the second module with one request at a time |
| `CatalogueProofs.tla` | theorems about merges, removals and their reversals |
| `CollectionsProofs.tla`, `PartsProofs.tla` | theorems about the collections of a user and about the mechanisms of the server |
| `PROJECT.json` | components, runs, mutants, map to the source, findings, hazards, theorems |

`tlc -config MCTransactionsRace.cfg MCTransactions` model-checks a run, `tlapm GroupsProofs.tla`
checks the proofs of a module.

## Inventory

Paths are relative to `src/server/`.

| component | state | operations | hard behaviour | what makes it correct |
|---|---|---|---|---|
| transactions (`controllers/transactions`) | `transactions`, `comments` databases | request, update-state, message, mark-as-read, cancellation of the active ones | checks and writes are different database calls; the state is validated on a copy | the log of a transaction is causal, an item is promised to one user, an item moves once per confirmation |
| transaction emails (`lib/emails`) | waiting list in LevelDB | debounced listener, crawler | keys deleted without waiting, restarts, failed sendings | an unread update reaches its party |
| inventory, shelves (`controllers/items`, `controllers/shelves`) | `items`, `shelves`, counts in `users` | creation, edition, bulk updates, deletion, change of owner | reads and writes are different calls, each write checked against a revision; debounced counts | a shelf holds items of its owner; counts follow the items |
| visibility (`lib/visibility`) | keys of documents | views by keys, filter | memberships change after the keys were written | both ways agree |
| groups (`controllers/groups`) | `groups` database | ten membership actions, settings, creation, deletion when emptied | rights validated on one copy, action applied to another; deletion by a listener | one role per user, mutual consent, admins are not kicked |
| user accounts (`controllers/user`), notifications | `users`, `notifications` databases, a lock in memory | sign up, deletion with its clean-ups | clean-ups run side by side, one failure stops the rest | one account per username; nothing is left of a deleted user |
| sessions (`lib/auto_rotated_keys.ts`) | keys in memory and in a file | rotation by a leader, read by followers | timers of several processes | a cookie lives for its maximum age |
| relations (`controllers/relations`) | `relations` database | request, cancel, accept, discard, unfriend | status read, then put unconditionally | friends both asked for it |
| invitations (`controllers/invitations`) | `users` database (type `invited`) | invitation by email, refusal, conversion at sign up | the document changes its type | no invitation is lost |
| entities: edition and history (`controllers/entities`, `models/entity.ts`, `models/patch.ts`) | `entities`, `patches` databases | creation, edition, merge, redirection, reversal | several puts, each of which may conflict; the history lives in another database | a version is what its patches rebuild |
| entities: claims, redirections, deletions | the same | edition of claims, redirections, placeholders | one merge writes many documents, and its reversal finds them again from patches | everything follows the merges, and comes back |
| tasks (`controllers/tasks`) | `tasks` database | suggestions, closing, listeners of merges | follows the merges by events | no task about an entity that is gone |
| relations of Wikidata entities (`controllers/entities/lib/*cache*`) | LevelDB | edition, queries, expiration | remote lag, cached answers, two expirations | a recent edit is listed, and stays so |
| federation (`controllers/instances`, `lib/federation`) | `instances_subscriptions`, revisions cache | subscription, notification, retries | lost or repeated requests | items come back when a merge is reverted |
| listings (`controllers/listings`) | `lists`, `elements` databases | lists, addition, move and removal of elements | ordinals as strings | elements stay where they were put |
| activitypub (`controllers/activitypub`) | `activities` database | debounced activities of new items | windows between activities | an item is announced once |
| follow (`lib/follow.ts`), indexation (`db/elasticsearch`) | last sequence in LevelDB, Elasticsearch | changes feed, batches, jobs | restart, debounced save, asynchronous formatting | the index ends as the database is |
| caches and jobs (`lib/cache.ts`, `lib/request_grouper.ts`, `db/level`) | LevelDB | populate, refresh, expire | population in flight, grouped requests | what is fetched is recent |
| outgoing requests (`lib/requests.ts`, host bans) | memory, LevelDB | requests, retries, bans | late failures, restarts | a long ban is that of a long outage |
| views and searches of entities, images, external data, feeds, reports, server, scripts | derived, or remote | formatting, sending, fetching | remote failures | - |

**How they interact.** A controller calls the functions of other components directly and, after
its own writes, `emit`s events on one bus (`lib/radio.ts`). In production the bus is a plain
`EventEmitter`: listeners start synchronously and nobody awaits them (`lib/radio.ts:26`), so the
change of owner of an item (`transaction:update`) and the deletion of an emptied group
(`group:leave`) run in the background and their failures are only logged. In tests
(`waitForSideEffects`) they are awaited, which is why tests do not meet these interleavings. The
deletion of an account calls into transactions, groups, relations, shelves and listings.

**The database.** `db.get` then `db.put` fails with 409 when the document was written in between.
`db.update(id, f)` (of blue-cot) reads, applies `f` and writes, again until no conflict: in the
models it applies `f` atomically to the current document. Views are read at their current state.

## Plan

Done, in this order: `Transactions` with `ExchangeProtocol`, `Groups`, `EntityPatches` and `Entities`,
each with its proofs; then the social part (`Relations`, `Invitations`, `Accounts`), the catalogue, the
collections of a user, and the mechanisms of the server.

Left, by decreasing interest:

- liveness of the waiting lists (jobs, emails, notifications) under fairness of their timers;
- `Listings` with two requests at a time, against an abstract specification that allows duplicates;
- `Catalogue` with the requests of `Entities` cut at their database calls;
- theorems: the refinement of `OrderedLists`, once `FindOrdinalBetween` is a recursive function;
- the deliveries of notes to followers, and items made public after their creation, in `PublicActivities`.

## Transactions

*State.* `items` and `transactions` map identifiers to documents, or to `NoDoc`; of a document
the model keeps what the code decides on (an item's owner, mode, whether it has any visibility
key, history and revision; a transaction's users, mode, state, log of actions and read
states). `messages` counts the comments of a transaction. A call in flight is a record in one of
`requesting`, `updating`, `messaging`, `cancelling`: the local variables its handler still uses.
`moves` holds the changes of owner that a confirmation started. `Move.confirmation` is auxiliary:
it names the action that started the move and no action reads it.

*Actions.* One per stretch of a handler between awaits:

| action | code |
|---|---|
| `StartRequest`, `RequestBusyCheck`, `RequestExistingCheck`, `CreateTransaction`, `PostFirstMessage` | `request.ts`, `lib/rights_verification.ts`, `lib/transactions.ts` |
| `StartUpdate`, `UpdateBusyCheck`, `EndUpdate` | `update_state.ts`, `updateTransactionState`, `stateUpdater` |
| `ReadItemToMove`, `RefuseMove`, `MoveItem`, `LoseMove` | `lib/side_effects.ts`, `changeItemOwner`, `changeItemDocOwner` |
| `StartMessage`, `PostMessage`, `UpdateReadForNewMessage`, `MarkAsRead` | `post_message.ts`, `mark_as_read.ts` |
| `StartCancelAll`, `CancelOne` | `cancelAllActiveTransactions` |
| `EditItem`, `DeleteItem` | `updateItems`, `delete_by_ids.ts` |

Checks on a copy that a handler already holds are made when it takes the copy: a call they refuse
has written nothing. `SideEffects` is part of the write of the state, as `emit` calls its
listeners in the same tick.

*Bounds.* `MaxItemWrites` bounds the revisions an owner writes (one write between the get and the
put of a move is what a conflict needs; the race run allows a second one, so that an item moves
twice), `MaxMessages` the messages, `MaxActions` the length of a log when an update starts (four
actions reach every state, and calls in flight may exceed it). Two transactions about one item
and two calls are the least that race; three users let two of them request the same item.

*Runs.*

- `transactions_race` (`RaceSpec`): two calls in flight at once. The items are given and
  given again, no messages. `LogIsCausal`, `CustodyChain`, `OneMovePerConfirmation`.
- `transactions_serial` (`SerialSpec`): one call in flight at a time, side effects in the
  background, three users, messages about the first request. `AtMostOneBusy`, `OneActiveRequest`,
  `NeverUnreadByBoth`, and `ImplementsProtocol`: the refinement of `ExchangeProtocol` under the
  mapping of the owner of each item, the state of each deal, and the transfers still owed. This is
  what the code guarantees when requests do not overlap; the next run shows that it is the
  overlap that breaks it.
- `transactions_two_accepts` (finding): the busy check and the write are two calls, and two
  acceptances about one item both pass.

`MessageIsUnread` and `InactiveIsFinal` are stated in the module and false in the code: see the known
deviations.

No fairness is assumed: nothing in the code ensures that a transaction progresses, and a lost move
is lost (`LoseMove`).

*Proved* (`TransactionsProofs.tla`), for any constants that satisfy `BoundsAssumption` and
`NoDocAssumption` (`NoDoc` is neither an item nor a transaction document, whatever their contents):

- `Typing`: `TypeOK`, with `CallsRefer`: a call in flight refers to an existing transaction, its
  user is a party to it, and an update it will write was possible from some action of the log.
- `LogsOnlyGrow`: a step keeps a transaction's item, users and mode and only appends to its log.
- `LogsAreCausal`: `LogIsCausal` is not inductive by itself; the invariant adds that the update
  in flight is justified by an action of the log, which stays there since logs only grow: that is
  exactly why a stale validation cannot produce an action without a cause.
- `CustodyIsChained`: the invariant adds that a move in its `put` stage has read the item at a
  revision at which the item's owner was the transaction's, hence that a put that passes
  the revision check extends the chain from its end.
- `MovesOncePerConfirmation`: `OneMovePerConfirmation`. `OneMoveInv` also looks at the moves in
  flight: what they and the transfers of the histories come from are confirmed actions of existing logs, and no two
  of them come from the same one. A new move comes from the action just appended, which none can come from yet.
- `OneHasAlwaysRead`: `NeverUnreadByBoth`. It is inductive with the types: a creation and an update leave
  the transaction read by their author, a message by its sender, and a mark only adds to it.

*Proved with one request at a time* (the last part of `TransactionsProofs.tla`): the hypothesis `OneCall` says that `Calls`, the slots for requests
in flight, has at most one member, as in the serial run. Moves of items, marks of reading and the owners' own writes still
interleave with the request, for any number of users, items and transactions.

- `BusyOnce` and `RequestedOnce`: `AtMostOneBusy` and `OneActiveRequest`. `SerialInv` adds what the busy check
  of the only request has established, and that nothing else makes an item busy until it writes.
- `OneAtATimeImplementsProtocol`: the refinement `ImplementsProtocol`. Initial states map to initial states, and each
  action maps to a step of `ExchangeProtocol` or to a stutter, from the invariants above (`Serial`); for instance the
  write of an acceptance is `Accept` because the item is not busy, and `MoveItem` is a
  transfer because of `CustodyInv`.

## Groups

*State.* One group document: whether it exists, `open`, and its five lists. `groupCalls` holds the
requests in flight with the checks they still wait for; `hooks` counts the runs of
`deleteGroupIfEmpty` by the call they wait for; `deleted` and `purges` follow the deletion of
accounts. `asked` and `welcomed` are auxiliary: the consent of each side.

*Actions.* `StartCall` and `Validate` are the checks of `membership_validations.ts`: each one
reads its own copy of the group, and those of a `Promise.all` are answered in any order.
`GroupAction` is `_groupAction` under `retryOnConflict`: get, action and put without conflict, so
one step on the current group; `GroupActionThrows` is an action that does not find its membership.
`CheckIfEmpty` and `DeleteGroup` are the listener of `group:leave`. `DeleteAccount`, `FindGroup`,
`RemoveUser` and `RemoveUserFails` are the deletion of an account: a put that conflicts is not
retried. `UpdateOpen` is the only setting the actions read.

*Bounds.* Two calls in flight and three users (an author, a target and the one who changes
the group meanwhile) when requests race. `MaxHooks` bounds the listeners in flight. `Promoted`
stands for the three most senior members of `removeUserFromGroupDoc`: with three users it
is 1, so that some members are promoted and some are not.

*Runs.*

- `social` (`MCSocial`), in the behaviours whose `subject` is the group: membership requests interleave, no account is deleted
  (`RaceNext`). `OneRole`, `MutualConsent`, `AdminsLeaveByThemselves`. Its other behaviours are about relations, invitations and accounts, and leave the
  group at its initial state: the two parts share nothing.
- `groups_life`: one request at a time, with deletions of accounts, under weak fairness of the
  steps of what has started. `EmptyGroupIsDeleted`: a group whose last admin goes away is deleted
  or gets admins again.

`NoMembersWithoutAdmin` is stated in the module and false when requests overlap: see the known deviations.

*Fairness.* `Fairness` says that what has started ends: the database answers and the process
keeps running. Nobody is obliged to send a request. A crash loses the listeners in flight, and
with them the property: the code has no recovery for them (see the hazards).

*Proved* (`GroupsProofs.tla`), for any set of users, any `Promoted` and `MaxHooks`:
`Typing` (the type invariant), `SingleRole` (an action only adds a membership to a list after it was taken from another or
found nowhere, on the copy it writes), `ConsentIsMutual` (the invariant is inductive together
with the types) and `AdminsAreSafe` (each step that takes an admin from the list is one of the three
allowed).

## Entities

*State.* `docs` holds the versioned part of each document (`models/attributes/entity.ts`): its
labels, or the entity it redirects to. Claims are in `Catalogue`: no operation here edits them alone,
and they come and go with the labels. `versions` is both the version of a document and what
its revision stands for: a put of another version than the current one is a conflict. `patches` is
the other database, one patch per version at most. A request in flight is one record of `calls`:
what it was asked, and what it has read and computed. `log` and `count` are auxiliary: who put
what, and how many requests were started.

*Patches.* `EntityPatches` models jiff, a library outside of `src/`, by the operations that
`models/patch.ts` and the tests of the patches show: a difference is one change per path, a removal
or a replacement tests the former value first, an addition replaces silently, and whole labels come
or go with a redirection. `Length` counts the operations, as `aggregatedOperationsAreShorter` does.
A patch reverts (`Reverts`) when its inverse applies and does not remove labels as a whole: before it removes a value,
`fixOperation` looks for it with `indexOf` (`models/patch.ts:178`), which throws on an object. The patch that turned a redirection
back into an entity is thus never undone: a new patch is posted after it and not folded into it, and a
restoration that has to go through it fails.
`Snapshots` is `addVersionsSnapshots`, a recursive function over the versions.

*Actions.* One per stretch of a handler between database calls:

| action | code |
|---|---|
| `Create`, `UpdateLabel`, `Merge`, `RevertMerge`, `RevertEdit`, `RestoreVersion` | the controllers, and a creation up to its post |
| `Read` | `getEntityById` (both documents for a merge) and the update computed from it |
| `ReadPatches` | the reads of the history by `revert_merge.ts`, `revert_edit.ts`, `restore_version.ts` |
| `Put` | `putInvEntityUpdate` up to its put, and `retryOnConflict` when it conflicts |
| `ReadLastPatch`, `PostPatch`, `FoldPatch` | `create_patch.ts` |

A merge is two editions in a row (`Continuation`), and the reversal of a merge is the reversal of
the redirection, then that of the merge's patch on the target. A refusal ends the request
where the code throws: what it has put before stays. In a merge by a user who is not a data admin,
whether labels match is left open: anyone may merge.

*Bounds.* Two entities, the least that merge; two languages, so that a merge can fill a label and
keep another; two texts, so that a label can be replaced. `MaxCalls` bounds the requests: with five,
the serial runs see an edit, a merge of two created entities, its reversal and one more
request. The race run has four requests, two at a time, of one user: the one who can do everything,
and whose patches can fold into one another; one text is enough for two edits to conflict. The
calls and the users are interchangeable in the serial run (`SYMMETRY`), which has no liveness.

*Runs.*

- `entities_serial`: one request at a time. `HistoryIsReplayable`: whatever was folded, rewritten
  or deleted, replaying the patches of an entity gives its document, and each version in the history
  was put by its author. `NoCircularRedirection`. `MergeLosesNothing`: when an entity becomes a
  redirection its target has a label in each of its languages.
- `entities_race`: two requests interleave. `EditsAreTheirOwn`: what a put changes in the current
  document is what its request asked for. `RequestsEnd`: a retry comes after a
  conflict that another request won, so the retries end.

`NoCircularRedirection` and `MergeLosesNothing` are checked with one request at a time because they
are false with two (see the hazards): nothing in the code or its documentation claims otherwise, so
these are no findings.

*Fairness.* Each request in flight takes its next step (`WF_vars(Step(c))`): the database answers,
and `runAfterDelay` fires. Nobody is obliged to send a request, and their number is bounded:
`RequestsEnd` does not say that a request ends against an endless flow of conflicting ones.

*Proved* (`EntitiesProofs.tla`), for any entities, languages, texts, users, calls and `MaxCalls`
that satisfy `PatchesAssumption` and `EntitiesAssumption`, however requests interleave:

- `PatchRoundTrip`: the difference of two documents applies to the first and gives the second, and
  its reversal gives the first back, unless the second has labels that the first, a redirection, had not. From `DiffApplies`
  (each path has at most one change) and `InverseOfDiff` (inverting a difference is differing backwards).
- `EditsStayTheirOwn`: `EditsAreTheirOwn`. The property is about a step, and follows from the
  invariant `EditInv`: a request that holds a document holds the current one or an older
  version, and what it is about to put is its own edit of the document it holds
  (`UpdateIsItsOwn`, for each operation; `RevertedUndoes` for reversals, `BeforeRedirectIsAnEntity`
  for reverted merges, which needs that a nonempty set of versions has a last one). A put
  increments the version, so it makes the others hold older ones (`SaveKeepsEditInv`), and a put
  that passes the revision check is an edit of the current document.

*Proved with one request at a time*: the hypothesis `OneCall` says that `Calls`, the slots for requests in flight, has
at most one member, as in the serial run. `NoDocAssumption` and `NoPatchAssumption` say that `None` is no document and
no patch.

- `HistoriesAreReplayable`: `HistoryIsReplayable`. `IsHistory` gives the documents after each version as a witness,
  each patch being the difference of two of them and telling of a version that its author has put. `Snapshots` and `Restored` are recursive
  functions: that they compute the witness is proved without induction, as no version is the first one
  (`SnapshotsReplay`), or the last one (`RestoredReplays`), where they differ. The witness of a written patch is the
  former one up to that patch and the update from there on (`WriteExtendsHistory`), whether the patch is posted,
  rewritten or deleted, because the last patch, when the code can revert it, reverts to the version before it
  (`RevertsLastPatch`), and is not touched otherwise.
- `Typing`: `TypeOK`. `UndoneIsAnEntity` shows, by cases on what the patch changed, that a reversal leaves an entity or
  is refused; the versions are bounded because a request puts an entity at most once (`Budget`).
- `RedirectionsEnd`: `NoCircularRedirection`, because an entity only redirects to another one that is no redirection.
- `MergesLoseNothing`: `MergeLosesNothing`. Between the two editions of a merge the request says that the target covers the
  labels of the merged entity (`ArgumentInv`).

All follow from `SerialInv`: between its put and its patch, the history of the edited entity leads to the
document that was replaced (`WritingInv`), that of any other entity to its document (`HistoriesInv`).

## Relations, Invitations, Accounts

*State.* The `users` database as identifiers with a type (`nobody`, `invited`, `user`, `deleted`),
a `person` (an email and a username) and the attributes of invitations; `relations` maps a pair of
identifiers to its status and, while a deletion may need it, a revision. `calls` holds the handlers in
flight, `posts` the notifications that unawaited listeners have still to write. `wishes` and
`everWished` are auxiliary: who asked for whose friendship, until it ends or ever.

*Actions.* `RelationBegin`, `RelationRead`, `RelationPut` are the intents of `solve_intent.ts`: the
status is read, the intent is decided on it, and the put looks at nothing. `InviteBegin`,
`InviteRead`, `InviteWrite`, `StopEmails` are the invitations by email; `SignUpBegin` to
`SignUpConvert` a sign up, with the lock of `prevent_multi_accounts_creation.ts` and `Unlock`, its
timeout, taken to be longer than a sign up. `DeletionBegin` to `DeletionEnd` are
`delete_user_and_cleanup.ts`: relations and notifications are found by a view, then deleted by bulk
when they have not changed; the clean-ups of the other components are one step that ends or fails.

*Run* `social` (`MCSocial`), in the behaviours whose `subject` is `relations`. A variable `regime` makes a behaviour either serial (four requests, each after the
listeners of the previous one) or racing (three requests, two handlers at a time), so that one
run shows what overlaps cannot break and what they can. In both: `FriendshipIsMutual`,
`OneAccountPerUsername`, `DeletionIsComplete`. In serial behaviours: `RelationsFollowWishes` (with two handlers
an acceptance may follow the cancellation of what it accepts), `InvitationsBecomeRequests`,
`NothingLeftOfDeleted`. Four documents are enough for two users, one person invited by both
and signed up, and a document of another person; both orders of the identifiers of a pair occur.

*Proved* (`SocialProofs`). `FriendsBothAsked` is `FriendshipIsMutual` for any users, calls and requests. A status
alone is not inductive, since an intent puts a status decided on what it read earlier: `AskedInv`
adds what a call in flight knows (`CallIsWished`: who makes or accepts a request has wished for it, and so has the other one
if their request was read) to what a status tells (`StatusIsWished`). It survives the races because
`everWished` only grows, so that a stale status is still a wish of the past. The proof assumes that
identifiers are natural numbers (`SocialAssumption`), which stands for the order in which the code joins two of them,
and that `NoId` is none of them (`NoIdAssumption`).

The other two theorems of `SocialProofs` also hold in both regimes, from `AccountsInv`, which says which document
each handler in flight works on:

- `UsernamesAreUnique`: `OneAccountPerUsername`. A username that was found available stays so until its account is
  created: the lock is taken in the same step as the check begins, no other sign up passes it, and the timeout
  comes after the end.
- `DeletionsAreComplete`: `DeletionIsComplete`. The clean-ups that a deletion has still to do are counted by the
  stage it is in; the items come last, and a failure leaves them.

*Proved with one request at a time* (`SerialProofs.tla`): the theorems are those of `SocialSpec`, and their properties are about
behaviours whose `regime` is serial. `SerialInv` is a conjunction of named parts (`SerialParts`) preserved together: the
documents a handler has read are the current ones (`DocumentsInv`), a deleted user is in no relation, notification or
request in flight but those its own deletion has still to find (`GoneInv`), an accepted invitation is a request,
a friendship, or waits in a sign up or a conversion (`PromisesInv`), and a status says what was wished
(`WishesInv`).

- `RelationsSayWhoWishes`: `RelationsFollowWishes`.
- `NoInvitationIsLost`: `InvitationsBecomeRequests`.
- `DeletedUsersLeaveNothing`: `NothingLeftOfDeleted`.

## Catalogue

*State.* One record `db`: documents (an entity with the bag of the entities its claims refer to, a
redirection, or a removed placeholder), the puts in their order with what their patches are when they are not folded (`patches`)
and the versions they replace (`before`), the tasks, the entity of one
item and of one list element with those it had before. `folded` says which puts have no patch of their own. `radio` holds the events whose
listeners have not run. `undo` is auxiliary: the claims before the last request, when the next one may
revert it.

*Actions.* A request is one step here: it applies the functions of the code in their order and stops
at the first that fails, keeping what was written (`ok`, `halfway`). How puts and patches of two
requests interleave is the subject of `Entities`. `Listen` is a listener, a step of its own.
Claims are bags since the reversal of a redirected claim may add a value that is there already. Works refer to
authors and editions to works, the smallest chain in which a merge redirects claims, removes an isolated
author, and a put is refused for lack of a work (`CanPut`).

What a merge gives its target depends on the property (`GivenClaims`): an edition gets all the works it
has not, a work gets an author only when it has none, and then only the first (`models/entity.ts:216`).
`RedirectClaims` puts all the documents that refer to the merged entity at once, and replaces the value every time
that it is there. A reversal looks for patches by their context: the last deletion of each removed author
(`LastDeletion`), the first merge into the target (`RevertMergePatch`), and every redirection of
claims, whose failures do not stop one another (`RevertRedirected`). They see the patches that were posted and are still there
(`Posted`). Deleted claims come back to a
subject that was not edited since, read through the redirections (`RecoverDeletedClaims`).

`createPatch` folds a patch, whatever its context, into the previous patch of the entity when that one has no context and the same
user; nothing is left of both when they cancel out (`FoldedWith`). The previous one is then the patch of the creation, or that
of an edition, a recovery or a redirection (`Foldable`). Who the user is, and whether the two make one shorter patch,
depends on what the model leaves out, labels for instance: any patch of a request that may be folded is or is not. No request
reads the patches it leaves, so this is decided at the end of each (`Handle`).

*Run* `catalogue`. Four requests (`MaxRequests`), at most one of which edits a claim (`MaxEdits`): a merge, another that undoes
or follows it, and two more, enough for a chain of two merges and the reversals of both. Requests and folded puts are five at most
together (`MaxHistory`): a history of four requests loses one patch, one of two requests loses three. Suggestions come while there is
at most one task (`MaxTasks`): hence two tasks, one that a listener archives and one that it leaves, with states of their own.
Three works, two authors and two editions: the works have
one, two or no author, the editions have different works, the item and the list element are on different works.
`UsesFollowTheirEntity`: items and elements are on what their entity has become.
`NoTaskOnRedirection`: after the listeners no live task is about a redirection. `ReversalsRestore`: a merge
or a removal is entirely undone by its reversal, if it comes next and none of the patches it left was folded; a merge, if it is also
the first of this entity. When the patch of the target, of a redirected claim or of a removed author was folded, the reversal
finds no patch with the context it looks for, and leaves things as they are or fails half way: the same folding makes
`RevertMergeRestores` false in `Entities`. The two other properties hold of such histories too. 2.6 million states.

*Proved* (`CatalogueProofs.tla`), for any entities, tasks, initial claims and number of requests, from `EntitiesAssumption` (the
three types of entities are disjoint and finite) and `CataloguesAssumption` (entities are created with valid claims, editions
with a work). The first half of the module follows a request through the functions that it applies. It shows that each of
them leaves a good state (`Good`: documents and patches are typed, claims refer to entities of the right type, what is
redirected has a target, editions have a work), whether it fails or not, and that none but a merge and its reversal
changes where entities are redirected to (`Keeps`). Then each of the three properties has its inductive invariant:

- `TasksAreArchived`: `NoTaskOnRedirection`. By `TasksInv` a live task about a redirection has the listener of the merge still
  to come; the property is the case where no listener is. It uses that a reversal's listener restores tasks
  only about an entity that is not a redirection any more, since no request comes before the listeners have run.
- `UsesAreOnTheirEntity`: `UsesFollowTheirEntity`. The property says nothing of the list of previous entities, which
  is what reversals work on; `UsesInv` does (`Follows`): from the entity it is on, a use goes back to its origin through
  entities that are all different, each one redirected to the one before it or about to be moved back. A merge makes
  the path longer, a reversal cuts it at the entity that is back, and a path leads where reads lead (`PathsResolve`).
- `ReversalsUndo`: `ReversalsRestore`, about requests whose patches were all posted. `UndoInv` says that the databases are those that a first merge, or a removal, left
  (`AfterMerge`, `AfterDelete`), with its patches (`MergePatches`). The recoveries, the reversal of the target and those of the
  claims then find these patches and no other, in spite of the ones that the reversal itself appends (`Prolongs`), and none of their
  checks can fail (`RecoverIsolated`, `RevertGiven`, `RevertAllRedirected`; `RecoveredRestores` for a removal).

The last proof follows the order of the code: the redirection, the authors removed with it, the target, the claims. It depends on details
that are easily lost: any put, not only the edition of a claim, makes a subject one that was updated since (`placeholders.ts:87`),
and an edition that lost its work cannot be recovered (`models/entity.ts:165`).

`NoDuplicateClaim` is stated in the module and false in the code: see the known deviations.

## Inventory, Listings, Visibility

The run `collections` is their sum: the three modules share nothing, and a behaviour is one of a single
part (`part`), the others staying at their initial state. This checks each part exactly as a run of its own
would.

*Inventory.* Items hold the identifiers of their shelves. A request reads in one step and writes
in another, only the documents whose revision has not changed (`Current`): bulk updates are retried on
the others, other requests fail in part. `StartRecount` and `UpdateUserItemsCounts` are the debounced
listener of `user:inventory:update`; `unannounced` and `strays` are auxiliary. Requests on shelves check every shelf
(`ShelvesBelongTo`), while creations, editions and bulk updates of items check that the first of the owners of the shelves is the user, or
the one an edited document names (`FirstShelfBelongsTo`): an item may get a shelf of another user behind one's own, and
`strays` remembers these until the item has other shelves. Two users, items, shelves and requests
at a time, three requests in all, one restart: enough for a change of owner to overlap an
addition to a shelf or the deletion of one, for another request to follow, and for two shelves of different users to
be sent together. `ShelvesHoldItemsOfTheirOwner`: an item is on shelves of its owner, its `strays` excepted, however the checks, the reads
and the writes interleave; without the exception this is `NoShelfOfAnotherOwner`, a finding (`inventory_shelves`).
`SnapshotFollowsEvents`: nothing but the writes that emit no event leaves the counts behind.

*Listings.* `Ordinals` models the strings as sequences of digits, compared lexicographically, with the
character-by-character search of `findOrdinalBetween`, the increment of `lexicographic_ordinal.ts` and its doubles.
The requests of `Listings` come one at a time. `ImplementsOrderedLists` is the refinement of `OrderedLists`,
sequences without ordinals: an addition comes last, a moved element takes the position asked, the others keep
their order. It is about the steps from lists whose highest ordinal, as a number in base 36, is one that a double holds
(`HighestOrdinalsAreExact`); beyond, the next last ordinal may not be the highest, a known deviation. Two lists, three
entities, three elements and five requests; a second initial state (`movedList`) is a list of two
elements after eight moves, so that the requests after it take the ordinals past 2^53.

*Visibility.* The keys of a document and the groups and friends of its owner and a reader, which change
independently. `ViewsAgreeWithFilter`: `getAllowedVisibilityKeys` with the views, and
`filterVisibleDocs`, give the same documents, as long as the owner is in the groups of the keys. (When the owner has left one of
them, the filter still shows the document to its members and the views do not; nothing says
which is meant.)

*Proved* (`CollectionsProofs`), for any users, items, shelves, requests and restarts:

- `OwnersHoldTheirShelves` and `SnapshotsFollowEvents`, from `InventoryInv`: a request holds copies of documents that are
  the current ones or have an older revision (`Fresh`), and the shelves it puts items on are those of its user or
  deleted ones, or become `strays` (`Belong`, part of `RequestsHold`); the counts of a user, or those that a recount in flight has read, are those of the items,
  unless another recount is to come or a write was not announced (`CountsHold`). The proof found that the model let a bulk
  update that fails in part emit its event although the code throws before it: `WriteItems` now leaves such
  a write unannounced. `ItemsAssumption` and `NoDocAssumption` say that the constants are sets of what they stand for.
- `QueriesAgreeWithFilter`: `ViewsAgreeWithFilter`, by cases on the key that shows the document, each of which is an
  allowed key of the reader exactly when the filter accepts it. `VisibilityTypes` is the only invariant needed.

## Mechanisms of the server

The run `parts` is the sum of eight modules, as `collections` is.

- `Indexation` (`lib/follow.ts`, `db/elasticsearch`): changes come in order. A document that is to be deindexed joins the batch
  at once, be it a layer of a Wikidata entity; a layer makes a job of a queue on disk; the others are formatted by functions
  that may fail, nothing awaiting them, or give nothing. Batches are posted. A job skips an entity that is up to date, or ends
  without indexing one that is not in the cache (`EndJob`). The last sequence is saved with a delay. A crash loses
  memory; a post, a job or a formatter may fail. That Wikidata has the entity of a layer is supposed.
  `IndexFollowsChanges`: at rest, the index has the last version of each document, except of those that are `amiss` (auxiliary):
  undone by a crash, a failure of the three kinds, an inversion of two formatters or posts, a cache miss, or a layer
  deindexed, since its operation deletes another identifier than that of the Wikidata entity. Two changes, two crashes, two
  failures; the gap that a restart gives up is 1 instead of 10000.
- `OutgoingRequests` (`lib/requests.ts`, `lib/requests_temporary_host_ban.ts`): calls to one host, retries,
  waits asked by status 429, bans that failures multiply, their backup and restart.
  `BansReflectOutages`: a ban is long only if there was time for the shorter ones since the host first failed,
  however many calls fail together. `Timeout` is longer than the first ban so that an answer may come
  after it.
- `SessionKeys` (`lib/auto_rotated_keys.ts`): a leader makes keys, a follower reads them from the file, with
  their timers; the leader may stop at any time. `SessionsLiveCookieMaxAge`: the leader still has the
  key of a session until its cookie expires. The unit of time is scaled (`CookieMaxAge` 4, a day 3)
  and keeps the order of the constants; 17 units see four generations of keys.
- `RelationsCache` (`entities_relations_temporary_cache.ts`, `run_query.ts`): claims edited on Wikidata, the
  query service that lags, its cached answers, the temporary relations and their expiration.
  `AuthorWorksHaveRecentEdits`: a claim is listed from its edition on. The same for reverse claims
  is the finding of the run `relations_reverse_claims`.
- `FederatedMerges` (`controllers/instances`, `lib/federation`): merges on one instance, subscriptions of another,
  notifications that are lost, repeated or late. `RevertsReachOtherInstances`: once
  all is delivered, items have their entity back.
- `GroupedCache` (`lib/cache.ts`, `lib/request_grouper.ts`): readers of two keys, whose requests are
  grouped. `FetchedEntitiesAreRecent`: a value that was fetched is at least as recent as the call that asked for it.
- `TransactionEmails` (`lib/emails`): the waiting list on disk, the listeners that replace keys, the crawler, sendings
  that fail and restarts. `UnreadUpdatesReachTheirParty`: at any time something
  is about to tell the party who has not read the last update, unless an email or an event was lost.
- `PublicActivities` (`controllers/activitypub`): activities are documents with a window of time, in which the outbox lists the items;
  then the items of the window are read, once, and a note is posted to the followers (`ReadItems`, `PostNote`): of all of them
  when the user pools activities, else of one. An item is dated before it is stored. `EachItemIsAnnouncedOnce`: no item is in two
  windows or two notes, and once things are quiet each is in a window, and in a note unless it is `unnoted` (auxiliary): stored after its
  window was read, or left out by an error, a restart or another item's note. Items are public from the start (those that
  become so later are in no note), and how a note gets to each follower is left out. Three items, four dates, two
  restarts, errors or changes of settings.

793,000 states in about three minutes with two workers; the names of items, emails, readers and the like are
interchangeable (`SYMMETRY`).

*Proved* (`PartsProofs`), for any values of the constants that satisfy the assumptions of each module (orders of
durations, and that the values `Absent`, `Nobody`, `Never` and `NoTimer` are none of those they stand beside):

- `FetchedIsRecent` (`GroupedCache`): by `ServedInv` the group that is gathered has a number that no
  sent request has, and a reader who waits for a sent request called before the source answered it.
- `SessionsOutliveNoKey` (`SessionKeys`): by `KeysInv` the two keys of the file are more than the age of a cookie
  apart, those of the follower are the same or older ones, with a timer that is due soon after the next key (`FollowingKeys`), and a session in its time
  has one of the last two keys of the leader (`SessionIsKept`).
- `AuthorsHaveTheirRecentWorks` (`RelationsCache`): by `RelationsInv` the query service knows of an edit once its lag is over,
  a temporary relation expires at its time to live after the edit, and a claim without a temporary relation, or whose
  relation is about to be deleted, is in the answer of the query service and in the cached one. This uses that the time to live is not
  shorter than the lag (`LagAssumption`).
- `RevertsAreDelivered` (`FederatedMerges`): by `FederatedInv`, once the merge is reverted and unless something was missed, nothing is in
  flight that could move the item again, and a moved item has a subscription that was posted the revert or will be again.
- `UpdatesReachTheirParty` (`TransactionEmails`): by `MailInv` an update that is still unread is in the hands of a listener, or
  announced, or excused (a crash, a failed sending), or has a key on the waiting list that nobody will delete before an email tells of it.
- `ItemsAreAnnouncedOnce` (`PublicActivities`): by `ActivitiesInv` the windows of the activities do not overlap and leave no gap, the
  one being created starts where the last one ends, and an item beyond all of them has an activity coming. A note tells of a window that
  no other note tells of, and a stored item of a window is in its note, unnoted, or in the window that is being noted.
- `BansAreEarned` (`OutgoingRequests`): by `BansInv` the ban in memory and the one that a restart will read are both long
  enough only for the time since the host first failed, because a new ban starts when the former one has expired. The
  property bounds the sum of the shorter bans in closed form.
- `ChangesAreIndexed` (`Indexation`): by `IndexInv` a document of which nothing was lost has its last change still to come, or
  a job, or a formatter at work on it, or is the last one about it in the batches in flight, or is in the index. What is
  not said of the documents `amiss` is what the paths that lose an operation undo, and the proof goes through each of them. The operations of a layer
  stay in the order of versions, and a job that reads a stale document has another job, or a change, behind it.

## Findings

- `transactions_two_accepts`: the busy check and the write are two calls, and two acceptances
  about one item both pass.
- `relations_reverse_claims`: reverse claims are cached under the identifier of the value and invalidated
  under its uri (`data/wikidata/run_query.ts:107`, `controllers/entities/lib/reverse_claims.ts:69`): an answer cached before the
  query service knows of an edit outlives the temporary relation, and lacks the edited claim until it gets too
  old.
- `inventory_shelves`: only the first of the owners of the shelves is compared (`items/lib/validate_item_async.ts:58`), and the edition of an
  item compares it with the owner its body names (line 12): an item gets on a shelf of another user, which the tests
  `bulk-update.test.ts:111` and `create.test.ts:180` say is rejected.

## Known deviations

Properties stated in the modules, and false in the code. Each has a configuration that shows it, apart
from the runs of `PROJECT.json` (the one of the first two wants `tlc -continue`, to show both).

| property | configuration, module | what happens |
|---|---|---|
| `MessageIsUnread` | `MCTransactionsDeviations`, `MCTransactions` | a message posted while the other party marks the transaction as read stays read: the write is spared on a stale copy (`transactions.ts:62` "Spares a db write if updatedReadStates is already the current read state object") |
| `InactiveIsFinal` | `MCTransactionsDeviations`, `MCTransactions` | the table of next actions says that a confirmed gift is over, the table of next states lets it be cancelled (`models/transaction.ts:84` "if there are next actions, the transaction is active") |
| `NoMembersWithoutAdmin` | `MCGroupsOrphans`, `MCGroups` | the leave of the last admin, validated while alone, is applied once a member has joined: the group is deleted with its member (`membership_update_hooks.ts:16`) |
| `HistoryIsReplayable` | `MCEntitiesHistory`, `MCEntities` | of two updates of a user at once, the first finds the patch of the second when it looks for the last one, and deletes it (`create_patch.ts:26`; the test `update_inv_labels.test.ts:106` "should accept rapid updates on the same entity") |
| `RevertMergeRestores` | `MCEntitiesRevertMerge`, `MCEntities` | the patch of a redirection is folded into the last edit of the same user, and the version that a reversal of the merge restores is no longer in the history (`create_patch.ts:29`) |
| `NextOrdinalIsAbove` | `ListingsDeviation`, `Listings` | ordinals are incremented as numbers in base 36 and lose digits above 2^53 (`lexicographic_ordinal.ts:68`): two elements moved one after the other to the end get one digit more each time, until the next last ordinal is not above the others (`tests/unit/libs/find_ordinal.ts:49` "should find an ordinal above the one passed") |
| `RestartMissesNoChange` | `IndexationDeviation`, `Indexation` | a sequence saved before its document is indexed (`follow.ts:59` "It won't miss any changes as CouchDB will send everything that happened since the last saved sequence number") |
| `SimultaneousFailuresCountOnce` | `OutgoingRequestsDeviation`, `OutgoingRequests` | a request sent before a ban and failing after it multiplies the ban (`requests_temporary_host_ban.ts:90` "Prevent several simulateous requests to all multiply the ban time") |
| `SnapshotIsUpToDate` | `InventoryDeviation`, `Inventory` | a change of owner, or the deletion of a shelf with its items, emits no event |
| `NoDuplicateClaim` | `MCCatalogueDeviation`, `MCCatalogue` | a reverted merge adds a value without looking whether it is there already |

## What is proved, what is only model-checked

Proved, for every value of the constants: the theorems listed in `PROJECT.json`, whose arguments are in the
sections above. Only model-checked:

- liveness under fairness (`EmptyGroupIsDeleted`, `RequestsEnd`), out of the provers' reach;
- `ImplementsOrderedLists`, where recursion over data decides: that would be an induction over the digits of ordinals,
  and `Ordinals` declares a recursive operator, which the provers do not take.

Every invariant that a run checks is the conclusion of a theorem. A recursive function can be unfolded once it is known that some function satisfies
its equation. For the recoveries and reversals of `Catalogue`, which come in turn, one is built index by index (`Iterates`); for the reads
through redirections it is defined without recursion, from the sets that redirections do not leave (`Ends`, `ResolvedIs`). Inductions
over indexes go through the least index at which a fact would fail (`Stepwise`).

The last part of `TransactionsProofs`, the theorems of `SerialProofs`, and those of `EntitiesProofs` that assume `OneCall`, say nothing of
requests that overlap: the properties are false then, or are not claimed by the code, as the findings, the known deviations and the hazards tell. In
`Catalogue` a request is one step and comes after the listeners of the previous one, and its theorems say no more. The other
theorems hold whatever interleaves.

The properties of the last four sections are safety properties and assume no fairness: what a listener or a timer that never runs
leaves undone is not stated, except by the properties of states at rest.

## What is not modelled

*Left out of the modelled components.* Contents of snapshots, feeds, tracking and logs; the slugs and
the other settings of groups; names, colours and comments of shelves and lists; users who refuse emails, and
the texts of emails; a failed write of the file of keys; the local layers of Wikidata
entities in `Entities`, batches of patches, types without labels; the inferred claims and moves to
Wikidata in `Catalogue`; concurrent requests in `Listings` and `Catalogue`; the change of a
username. A crash of the process is modelled where something survives it: the feed and the jobs, the waiting
emails, the bans, the keys, the counts of items, the activities. Elsewhere it loses a side effect, as `LoseMove` does, or
leaves a version without its patch for good.

*Components without a module.* A large part of the server decides nothing over time: tables of
properties and of their constraints (`controllers/entities/lib/properties`), sanitization of parameters
(`lib/sanitize`), validations of formats (`models/validations`), types, configuration, texts and templates of emails,
formatting of documents for clients, queries of views and of the search engine, clients of other data sources
(`data`, `controllers/data`), images, and administration scripts. A model of them would restate tables and
input and output; their states and failures appear in the modules where
another component depends on them (a query service that lags, a request that fails, a mail
that is not sent). They are listed in `PROJECT.json` with the reason.
