---------------------------- MODULE PublicActivities ----------------------------
(* The activities by which a user's new items are announced on the fediverse: each   *)
(* activity document is a window of time, from the previous activity to now, created *)
(* once the updates of the inventory have calmed down. The outbox lists the items    *)
(* whose creation is in that window; the followers get one note, made of the items   *)
(* that are found there when the document has just been created.                     *)
EXTENDS Naturals, FiniteSets

CONSTANTS
    Books,          \* the items the user may add, public from their creation
    Absent,         \* not added
    MaxDate,        \* bound on the time
    MaxSwitches     \* bound on the restarts, the errors and the changes of the settings

ASSUME AbsentAssumption == Absent \notin Nat

VARIABLES
    date,
    created,        \* [Books -> date of creation, or Absent]
    stored,         \* the books that the items database has
    activities,     \* windows of the activity documents: set of [since, until]
    notes,          \* sent to the followers: set of [since, until, items]
    debounced,      \* TRUE while the timer of the user's debounced activity runs
    publishing,     \* the activity being created: step, window, items read, poolActivities
    profile,        \* settings of the user: [fediversable, poolActivities]
    lapsed,         \* an update was announced by no activity: restart, error, or setting off
    unnoted,        \* books that the note of their window leaves out: stored too late, restart,
                    \* error, or another one posted
    switches

pvars == <<date, created, stored, activities, notes, debounced, publishing, profile, lapsed, unnoted, switches>>

Calm == [step |-> "none", since |-> 0, until |-> 0, items |-> {}, poolActivities |-> FALSE]

PublicInit ==
    /\ date = 1 /\ created = [b \in Books |-> Absent] /\ stored = {} /\ activities = {} /\ notes = {}
    /\ debounced = FALSE /\ publishing = Calm /\ profile = [fediversable |-> TRUE, poolActivities |-> FALSE]
    /\ lapsed = FALSE /\ unnoted = {} /\ switches = 0

\* itemsWithinActivityRange.
Within(b, window) == created[b] > window.since /\ created[b] < window.until

Noting == publishing.step \in {"read", "post"}

\* createItemDoc dates the item, before it is written.
CreateBook(b) ==
    /\ created[b] = Absent /\ created' = [created EXCEPT ![b] = date]
    /\ UNCHANGED <<date, stored, activities, notes, debounced, publishing, profile, lapsed, unnoted, switches>>

\* The window of a book has been read for its note, or lost.
NotedBefore(b) ==
    \E a \in activities : Within(b, a) /\ ~(publishing.step = "read" /\ Within(b, publishing))

\* The item is written, then the event 'user:inventory:update' starts the timer again.
StoreBook(b) ==
    /\ created[b] # Absent /\ b \notin stored
    /\ stored' = stored \cup {b} /\ debounced' = TRUE
    /\ unnoted' = IF NotedBefore(b) THEN unnoted \cup {b} ELSE unnoted
    /\ UNCHANGED <<date, created, activities, notes, publishing, profile, lapsed, switches>>

\* The timer ends: the user is read.  Updates are longer apart than its requests, thus no
\* other activity of the user is being created.
FindUser ==
    /\ debounced /\ debounced' = FALSE
    /\ publishing = Calm
    /\ publishing' = IF profile.fediversable
                     THEN [Calm EXCEPT !.step = "last", !.poolActivities = profile.poolActivities] ELSE Calm
    /\ lapsed' = (lapsed \/ ~profile.fediversable)
    /\ UNCHANGED <<date, created, stored, activities, notes, profile, unnoted, switches>>

Untils == {a.until : a \in activities}

\* The end of the activity that a view in ascending order would give.
FirstActivity == IF activities = {} THEN 0 ELSE CHOOSE t \in Untils : \A u \in Untils : t <= u

\* `updated` of the last activity, which is the end of its window.
LastActivity == IF activities = {} THEN 0 ELSE CHOOSE t \in Untils : \A u \in Untils : t >= u

FindLastActivity ==
    /\ publishing.step = "last"
    /\ publishing' = [publishing EXCEPT !.step = "create", !.since = LastActivity]
    /\ UNCHANGED <<date, created, stored, activities, notes, debounced, profile, lapsed, unnoted, switches>>

CreateActivity ==
    /\ publishing.step = "create"
    /\ publishing' = [publishing EXCEPT !.step = "read", !.until = date]
    /\ activities' = activities \cup {[since |-> publishing.since, until |-> date]}
    /\ lapsed' = FALSE
    /\ UNCHANGED <<date, created, stored, notes, debounced, profile, unnoted, switches>>

\* formatUserItemsActivities: a window without items stays as a document, and makes no note.
ReadItems ==
    LET items == {b \in stored : Within(b, publishing)}
    IN /\ publishing.step = "read"
       /\ publishing' = IF items = {} THEN Calm ELSE [publishing EXCEPT !.step = "post", !.items = items]
       /\ UNCHANGED <<date, created, stored, activities, notes, debounced, profile, lapsed, unnoted, switches>>

\* Pooled, the items make one note; otherwise each has its own, the last created first,
\* and createActivities[0] alone is posted.
Postable(items) ==
    IF publishing.poolActivities THEN {items}
    ELSE {{b} : b \in {c \in items : \A d \in items : created[d] <= created[c]}}

\* postActivityToActorFollowersInboxes.
PostNote ==
    /\ publishing.step = "post" /\ publishing' = Calm
    /\ \E items \in Postable(publishing.items) :
          /\ notes' = notes \cup {[since |-> publishing.since, until |-> publishing.until, items |-> items]}
          /\ unnoted' = unnoted \cup (publishing.items \ items)
    /\ UNCHANGED <<date, created, stored, activities, debounced, profile, lapsed, switches>>

Switching == switches < MaxSwitches /\ switches' = switches + 1

SetSetting(setting, value) ==
    /\ Switching /\ profile[setting] # value /\ profile' = [profile EXCEPT ![setting] = value]
    /\ UNCHANGED <<date, created, stored, activities, notes, debounced, publishing, lapsed, unnoted>>

Abandoned ==
    /\ publishing' = Calm
    /\ unnoted' = unnoted \cup {b \in stored : Noting /\ Within(b, publishing)}

\* One of its requests fails: the error is logged.
PublishingFails ==
    /\ Switching /\ publishing # Calm
    /\ Abandoned
    /\ lapsed' = (lapsed \/ ~Noting)
    /\ UNCHANGED <<date, created, stored, activities, notes, debounced, profile>>

\* The timer and what runs are lost, the requests that were writing an item fail.
RestartActivities ==
    /\ Switching
    /\ created' = [b \in Books |-> IF b \in stored THEN created[b] ELSE Absent]
    /\ debounced' = FALSE
    /\ Abandoned
    /\ lapsed' = (lapsed \/ debounced \/ (publishing # Calm /\ ~Noting))
    /\ UNCHANGED <<date, stored, activities, notes, profile>>

PassDate ==
    /\ date < MaxDate /\ date' = date + 1
    /\ UNCHANGED <<created, stored, activities, notes, debounced, publishing, profile, lapsed, unnoted, switches>>

PublicNext ==
    \/ \E b \in Books : CreateBook(b) \/ StoreBook(b)
    \/ FindUser \/ FindLastActivity \/ CreateActivity \/ ReadItems \/ PostNote \/ PublishingFails
    \/ \E setting \in {"fediversable", "poolActivities"}, value \in BOOLEAN : SetSetting(setting, value)
    \/ RestartActivities
    \/ PassDate

PublicSpec == PublicInit /\ [][PublicNext]_pvars

-----------------------------------------------------------------------------

Quiet == ~debounced /\ publishing = Calm /\ ~lapsed

\* No item is in two notes or in two windows. Once the timer is quiet every item is in the
\* window of an activity, thus in the outbox, also those of which a restart, an error or the
\* setting had lost the activity as soon as there is another one; but for those created in
\* the very millisecond of an activity, which both its window and the next one leave out.
\* And it is in a note, unless its window was read before it was stored, a restart or an
\* error came between the activity and its note, or the user does not pool activities,
\* when the followers are told of one item of each window only.
EachItemIsAnnouncedOnce ==
    \A b \in stored :
        /\ \A m, n \in notes : b \in m.items /\ b \in n.items => m = n
        /\ \A a, c \in activities : Within(b, a) /\ Within(b, c) => a = c
        /\ Quiet /\ created[b] \notin Untils =>
              /\ \E a \in activities : Within(b, a)
              /\ b \in unnoted \/ \E n \in notes : b \in n.items
=============================================================================
