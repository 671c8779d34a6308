--------------------------- MODULE TransactionEmails ---------------------------
(* The debounced emails about one transaction: each event of the transaction puts   *)
(* a dated key in a waiting list kept on disk, in place of the keys it finds there; *)
(* a crawler sends an email for the keys that are old enough, to the user who did   *)
(* not read the last update, and deletes each key after its email.                  *)
EXTENDS Naturals, FiniteSets

CONSTANTS
    Listeners,          \* slots for the events being handled
    Nobody,             \* nobody has unread updates
    DebounceDelay,      \* age from which the crawler takes a key
    MaxMailTime,        \* bound on the time, counted in periods of the crawler
    MaxUpdates,         \* bound on the updates of the transaction
    MaxMailFailures     \* bound on the failures to build or to send an email

Parties == {"owner", "requester"}

ASSUME NobodyAssumption == Nobody \notin Parties

VARIABLES
    mailTime,
    crawled,            \* TRUE once the crawler has run in the current period
    update,             \* how many updates the transaction has had
    unread,             \* the party whose read state is false, or Nobody
    waiting,            \* the keys of the level database `waiting`: [at, id]
    listeners,          \* [Listeners -> the event being added to the list, or "free"]
    deletions,          \* keys whose deletion was started and not awaited
    senders,            \* the emails being built and sent: [key, step, to, of]
    announced,          \* the parties that an email told of the last update
    excused,            \* TRUE if the event or the email of the last update was lost
    mailFailures

mailVars == <<mailTime, crawled, update, unread, waiting, listeners, deletions, senders, announced, excused, mailFailures>>

MailInit ==
    /\ mailTime = 0 /\ crawled = FALSE /\ update = 0 /\ unread = Nobody
    /\ waiting = {} /\ listeners = [l \in Listeners |-> "free"] /\ deletions = {} /\ senders = {}
    /\ announced = {} /\ excused = FALSE /\ mailFailures = 0

\* The keys that are nowhere: events of the same period get distinct keys, as many as
\* that period may need.
NewKeys ==
    [at : {mailTime}, id : 1..(2 * MaxUpdates + 1)] \ (waiting \cup deletions \cup {s.key : s \in senders})

\* A party acts or writes: the other has not read it, and the event is emitted.
UpdateTransaction(party, l) ==
    /\ update < MaxUpdates /\ listeners[l] = "free"
    /\ update' = update + 1
    /\ unread' = CHOOSE other \in Parties : other # party
    /\ listeners' = [listeners EXCEPT ![l] = "list"]
    /\ announced' = {} /\ excused' = FALSE
    /\ UNCHANGED <<mailTime, crawled, waiting, deletions, senders, mailFailures>>

MarkTransactionAsRead(party) ==
    /\ unread = party /\ unread' = Nobody
    /\ UNCHANGED <<mailTime, crawled, update, waiting, listeners, deletions, senders, announced, excused, mailFailures>>

\* addToWaitingList streams the keys of the transaction and deletes each, unawaited.
AddToWaitingList(l) ==
    /\ listeners[l] = "list"
    /\ deletions' = deletions \cup waiting
    /\ listeners' = [listeners EXCEPT ![l] = "put"]
    /\ UNCHANGED <<mailTime, crawled, update, unread, waiting, senders, announced, excused, mailFailures>>

CreateNewWaiter(l) ==
    /\ listeners[l] = "put"
    /\ NewKeys # {} /\ waiting' = waiting \cup {CHOOSE k \in NewKeys : TRUE}
    /\ listeners' = [listeners EXCEPT ![l] = "free"]
    /\ UNCHANGED <<mailTime, crawled, update, unread, deletions, senders, announced, excused, mailFailures>>

DeleteWaiter(k) ==
    /\ k \in deletions
    /\ waiting' = waiting \ {k} /\ deletions' = deletions \ {k}
    /\ UNCHANGED <<mailTime, crawled, update, unread, listeners, senders, announced, excused, mailFailures>>

\* The crawler takes every key that is old enough, those being sent included.
Crawl ==
    /\ ~crawled /\ crawled' = TRUE
    /\ senders' = senders \cup {[key |-> k, step |-> "build", to |-> Nobody, of |-> 0] :
                                   k \in {k \in waiting : mailTime - k.at >= DebounceDelay}}
    /\ UNCHANGED <<mailTime, update, unread, waiting, listeners, deletions, announced, excused, mailFailures>>

Advances(s, t) == senders' = (senders \ {s}) \cup {t}

\* The email is for the owner or else for the requester who has not read; for none, the
\* key is deleted at once.
BuildTransactionEmail(s) ==
    /\ s \in senders /\ s.step = "build"
    /\ Advances(s, [s EXCEPT !.step = IF unread = Nobody THEN "delete" ELSE "send", !.to = unread, !.of = update])
    /\ UNCHANGED <<mailTime, crawled, update, unread, waiting, listeners, deletions, announced, excused, mailFailures>>

\* An email that cannot be built keeps its key for the next crawl.
FailToBuild(s) ==
    /\ s \in senders /\ s.step = "build" /\ mailFailures < MaxMailFailures
    /\ mailFailures' = mailFailures + 1
    /\ senders' = senders \ {s}
    /\ UNCHANGED <<mailTime, crawled, update, unread, waiting, listeners, deletions, announced, excused>>

\* sendMail logs its errors and does not throw them: the key is deleted in both cases.
SendMail(s) ==
    /\ s \in senders /\ s.step = "send"
    /\ Advances(s, [s EXCEPT !.step = "delete"])
    /\ \/ announced' = announced \cup {p \in Parties : p = s.to /\ s.of = update} /\ UNCHANGED <<excused, mailFailures>>
       \/ /\ mailFailures < MaxMailFailures /\ mailFailures' = mailFailures + 1
          /\ excused' = (excused \/ s.of = update) /\ UNCHANGED announced
    /\ UNCHANGED <<mailTime, crawled, update, unread, waiting, listeners, deletions>>

DeleteKeys(s, keys) ==
    /\ s \in senders /\ s.step = "delete"
    /\ waiting' = waiting \ keys
    /\ senders' = senders \ {s}
    /\ UNCHANGED <<mailTime, crawled, update, unread, listeners, deletions, announced, excused, mailFailures>>

\* Mutant: the keys of the transaction are deleted after its email, not the crawled one.
DeleteSentTransaction(s) == DeleteKeys(s, waiting)

DeleteSent(s) == DeleteKeys(s, {s.key})

\* The server stops and starts again: the waiting list is on disk, nothing else is.
RestartServer ==
    /\ mailFailures < MaxMailFailures /\ mailFailures' = mailFailures + 1
    /\ listeners' = [l \in Listeners |-> "free"] /\ deletions' = {} /\ senders' = {}
    /\ excused' = (excused \/ \E l \in Listeners : listeners[l] # "free")
    /\ UNCHANGED <<mailTime, crawled, update, unread, waiting, announced>>

NextPeriod ==
    /\ mailTime < MaxMailTime /\ mailTime' = mailTime + 1 /\ crawled' = FALSE
    /\ UNCHANGED <<update, unread, waiting, listeners, deletions, senders, announced, excused, mailFailures>>

MailNext ==
    \/ \E party \in Parties : MarkTransactionAsRead(party) \/ \E l \in Listeners : UpdateTransaction(party, l)
    \/ \E l \in Listeners : AddToWaitingList(l) \/ CreateNewWaiter(l)
    \/ \E k \in deletions : DeleteWaiter(k)
    \/ Crawl
    \/ \E s \in senders : BuildTransactionEmail(s) \/ FailToBuild(s) \/ SendMail(s) \/ DeleteSent(s)
    \/ RestartServer
    \/ NextPeriod

MailSpec == MailInit /\ [][MailNext]_mailVars

-----------------------------------------------------------------------------

\* The last update of the transaction that a party has not read will reach it by email:
\* its event is being handled, a key waits that no one is about to delete, or the email
\* was built after it; unless a crash or a failed email lost it.  In particular the
\* deletion of a key after its email never takes an update made meanwhile.
UnreadUpdatesReachTheirParty ==
    unread # Nobody =>
        \/ \E l \in Listeners : listeners[l] # "free"
        \/ \E k \in waiting \ deletions : \A s \in senders : s.key = k => s.step = "build"
        \/ \E s \in senders : s.step = "build" \/ (s.step = "send" /\ s.to = unread /\ s.of = update)
        \/ unread \in announced \/ excused
=============================================================================
