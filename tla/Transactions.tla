------------------------------ MODULE Transactions ------------------------------
(***************************************************************************)
(* The exchange of items between users: a requester asks for an item, its  *)
(* owner accepts or declines, the requester confirms the reception, and a  *)
(* lent item is returned.  Every HTTP request is an asynchronous function  *)
(* of the Node process: between two `await`s other requests run, so what a *)
(* handler read may be stale when it writes.  A call in flight is a record *)
(* that keeps what its handler still remembers; an action is one stretch   *)
(* of a handler between two awaits.                                        *)
(*                                                                         *)
(* CouchDB is external.  `db.update` re-reads the document and retries on  *)
(* conflict, so it applies its function atomically to the current document;*)
(* a get followed by a put fails with 409 when the document was written in *)
(* between.                                                                *)
(***************************************************************************)
EXTENDS Naturals, Sequences, FiniteSets

CONSTANTS
    Users,
    Items,
    TransactionIds,
    Calls,          \* slots for the requests the server handles at a time
    NoDoc,          \* the answer of the database for a document it has not
    MaxItemWrites,  \* bound on the revisions of an item that its owner writes
    MaxMessages,    \* bound on the messages of a transaction
    MaxActions      \* bound on the actions of a transaction when a state update starts

ASSUME BoundsAssumption == MaxItemWrites \in Nat /\ MaxMessages \in Nat /\ MaxActions \in Nat

VARIABLES
    items,          \* the items database
    transactions,   \* the transactions database
    messages,       \* the comments database: how many messages each transaction has
    requesting,     \* the calls of `request` in flight
    updating,       \* the calls of `update-state` in flight
    messaging,      \* the calls of `message` in flight
    cancelling,     \* the deletions of users in flight: transactions still to cancel
    moves           \* the changes of owner started by 'transaction:update' and not ended

vars == <<items, transactions, messages, requesting, updating, messaging, cancelling, moves>>
calls == <<requesting, updating, messaging, cancelling>>

-----------------------------------------------------------------------------
(* Documents *)

Roles == {"owner", "requester"}
Requestable == {"giving", "lending", "selling"}
Modes == Requestable \cup {"inventorying"}
\* The visibility keys of an item: none, or some.
Visibilities == {"private", "shared"}
States == {"requested", "accepted", "declined", "confirmed", "returned", "cancelled"}

\* The states that may follow a state.
NextStates ==
    [requested |-> {"accepted", "declined", "cancelled"},
     accepted  |-> {"confirmed", "cancelled"},
     declined  |-> {},
     confirmed |-> {"returned", "cancelled"},
     returned  |-> {},
     cancelled |-> {}]

\* The roles that may bring a transaction to a state.
Actors ==
    [requested |-> {"requester"},
     accepted  |-> {"owner"},
     declined  |-> {"owner"},
     confirmed |-> {"requester"},
     returned  |-> {"owner"},
     cancelled |-> Roles]

Action == [action : States, actor : Roles \cup {"unrecorded"}]
Read == [Roles -> BOOLEAN]

TransactionDoc ==
    [item : Items, owner : Users, requester : Users, transaction : Requestable,
     state : States, actions : Seq(Action), read : Read]

\* `confirmation` is auxiliary: the position in the transaction's actions of the
\* one that moved the item.
Move == [transaction : TransactionIds, previousOwner : Users, confirmation : Nat]

ItemDoc ==
    [owner : Users, transaction : Modes, visibility : Visibilities, history : Seq(Move), rev : Nat]

\* A change of owner in progress: `rev` is the revision of the item it has read.
PendingMove ==
    [transaction : TransactionIds, confirmation : Nat, at : {"get", "put"}, rev : Nat]

\* What the two users of a transaction know of it.
DealDoc ==
    [item : Items, owner : Users, requester : Users, kind : Requestable, state : States]

\* A missing document is no document, and nobody.
ASSUME NoDocAssumption == NoDoc \notin TransactionDoc \cup ItemDoc \cup DealDoc \cup Users

Exists(t) == transactions[t] # NoDoc
\* Mutant: loans change the owner too.
OneWayOrLent(doc) == doc.transaction \in Requestable
OneWay(doc) == doc.transaction \in {"giving", "selling"}
LastAction(doc) == doc.actions[Len(doc.actions)].action

\* The transaction still expects something of one of the two users.
IsActive(doc) ==
    \/ doc.state \in {"requested", "accepted"}
    \/ doc.state = "confirmed" /\ doc.transaction = "lending"

\* The rows of the view `byBusyItem` for item i.
BusyTransactions(i) ==
    {t \in TransactionIds :
        /\ Exists(t)
        /\ transactions[t].item = i
        /\ \/ LastAction(transactions[t]) = "accepted"
           \/ /\ transactions[t].transaction = "lending"
              /\ LastAction(transactions[t]) = "confirmed"}

RoleOf(doc, u) == IF u = doc.owner THEN "owner" ELSE "requester"
Party(doc, u) == u \in {doc.owner, doc.requester}

\* validateTransactionPossibleState, on the state the handler has read.
PossibleState(seen, mode, new) ==
    /\ new \in NextStates[seen]
    /\ new = "returned" => mode = "lending"

\* Who acted has read, the other has not.
ReadStates(role) == [r \in Roles |-> r = role]

-----------------------------------------------------------------------------
(* Calls in flight *)

Idle == [at |-> "idle"]

RequestCall ==
    [at : {"busy", "existing", "post"}, user : Users, item : Items, owner : Users,
     transaction : Requestable]
FirstMessageCall == [at : {"message"}, id : TransactionIds]
UpdateCall == [at : {"busy", "write"}, user : Users, id : TransactionIds, state : States]
MessageCall == [at : {"post", "read"}, user : Users, id : TransactionIds, seen : Read]
CancelCall == [at : {"write"}, user : Users, ids : SUBSET TransactionIds]

Free(c) == requesting[c] = Idle /\ updating[c] = Idle /\ messaging[c] = Idle /\ cancelling[c] = Idle

Init ==
    /\ items \in [Items -> [owner : Users, transaction : Modes, visibility : Visibilities,
                            history : {<<>>}, rev : {1}]]
    /\ transactions = [t \in TransactionIds |-> NoDoc]
    /\ messages = [t \in TransactionIds |-> 0]
    /\ requesting = [c \in Calls |-> Idle]
    /\ updating = [c \in Calls |-> Idle]
    /\ messaging = [c \in Calls |-> Idle]
    /\ cancelling = [c \in Calls |-> Idle]
    /\ moves = {}

-----------------------------------------------------------------------------
(* POST /api/transactions?action=request *)

\* getItemById.  The checks on this copy of the item alone are made here: a call
\* they refuse changes nothing, whatever it asks the database before them.  They
\* refuse one's own items, private items and items not offered.  The match of the
\* visibility keys returns a boolean that nobody reads, hence any visibility but
\* the empty one lets the request through.
StartRequest(c, u, i) ==
    /\ Free(c)
    /\ items[i] # NoDoc
    /\ items[i].owner # u
    /\ items[i].visibility = "shared"
    /\ items[i].transaction \in Requestable
    /\ requesting' = [requesting EXCEPT ![c] =
          [at |-> "busy", user |-> u, item |-> i, owner |-> items[i].owner,
           transaction |-> items[i].transaction]]
    /\ UNCHANGED <<items, transactions, messages, updating, messaging, cancelling, moves>>

\* checkIfItemIsBusy
RequestBusyCheck(c) ==
    LET call == requesting[c]
    IN  /\ call.at = "busy"
        /\ requesting' = [requesting EXCEPT ![c] =
              IF BusyTransactions(call.item) = {} THEN [call EXCEPT !.at = "existing"] ELSE Idle]
        /\ UNCHANGED <<items, transactions, messages, updating, messaging, cancelling, moves>>

\* Mutant: only the owner's transactions are looked at.
ActiveTransactionsOwned(u, i) ==
    {t \in TransactionIds :
        Exists(t) /\ transactions[t].item = i /\ transactions[t].owner = u /\ IsActive(transactions[t])}

\* The active transactions of user u about item i, as owner or requester.
ActiveTransactions(u, i) ==
    {t \in TransactionIds :
        /\ Exists(t)
        /\ transactions[t].item = i
        /\ Party(transactions[t], u)
        /\ IsActive(transactions[t])}

\* verifyNoExistingTransaction
RequestExistingCheck(c) ==
    LET call == requesting[c]
    IN  /\ call.at = "existing"
        /\ requesting' = [requesting EXCEPT ![c] =
              IF ActiveTransactions(call.user, call.item) = {} THEN [call EXCEPT !.at = "post"]
              ELSE Idle]
        /\ UNCHANGED <<items, transactions, messages, updating, messaging, cancelling, moves>>

\* Mutant: the mode is that of the item now, not of the copy that was validated.
NewTransactionDocOfItem(call) ==
    [item |-> call.item, owner |-> call.owner, requester |-> call.user,
     transaction |-> items[call.item].transaction, state |-> "requested",
     actions |-> <<[action |-> "requested", actor |-> "unrecorded"]>>,
     read |-> ReadStates("requester")]

NewTransactionDoc(call) ==
    [item |-> call.item, owner |-> call.owner, requester |-> call.user,
     transaction |-> call.transaction, state |-> "requested",
     actions |-> <<[action |-> "requested", actor |-> "unrecorded"]>>,
     read |-> ReadStates("requester")]

\* createTransaction, from the copy of the item read at the start.
CreateTransaction(c, t) ==
    LET call == requesting[c]
    IN  /\ call.at = "post"
        /\ ~Exists(t)
        /\ transactions' = [transactions EXCEPT ![t] = NewTransactionDoc(call)]
        /\ requesting' = [requesting EXCEPT ![c] =
              [at |-> "message", id |-> t]]
        /\ UNCHANGED <<items, messages, updating, messaging, cancelling, moves>>

\* addTransactionMessage: the message that goes with the request.
PostFirstMessage(c) ==
    LET call == requesting[c]
    IN  /\ call.at = "message"
        /\ messages' = [messages EXCEPT ![call.id] = @ + 1]
        /\ requesting' = [requesting EXCEPT ![c] = Idle]
        /\ UNCHANGED <<items, transactions, updating, messaging, cancelling, moves>>

-----------------------------------------------------------------------------
(* PUT /api/transactions?action=update-state *)

\* Mutant: the state is not validated.
StartUpdateUnvalidated(c, u, t, s) ==
    /\ Free(c)
    /\ Exists(t)
    /\ Party(transactions[t], u)
    /\ RoleOf(transactions[t], u) \in Actors[s]
    /\ Len(transactions[t].actions) < MaxActions
    /\ updating' = [updating EXCEPT ![c] =
          [at |-> IF s = "accepted" THEN "busy" ELSE "write", user |-> u, id |-> t, state |-> s]]
    /\ UNCHANGED <<items, transactions, messages, requesting, messaging, cancelling, moves>>

\* getTransactionById, validateRights and validateTransactionPossibleState: all on
\* the same copy of the transaction, though the code makes the last check after
\* the database's answer about the item.
StartUpdate(c, u, t, s) ==
    /\ Free(c)
    /\ Exists(t)
    /\ Party(transactions[t], u)
    /\ RoleOf(transactions[t], u) \in Actors[s]
    /\ PossibleState(transactions[t].state, transactions[t].transaction, s)
    /\ Len(transactions[t].actions) < MaxActions
    /\ updating' = [updating EXCEPT ![c] =
          [at |-> IF s = "accepted" THEN "busy" ELSE "write", user |-> u, id |-> t, state |-> s]]
    /\ UNCHANGED <<items, transactions, messages, requesting, messaging, cancelling, moves>>

\* Mutant: a busy item does not prevent an acceptance.
UpdateBusyCheckPassed(c) ==
    LET call == updating[c]
    IN  /\ call.at = "busy"
        /\ updating' = [updating EXCEPT ![c] = [call EXCEPT !.at = "write"]]
        /\ UNCHANGED <<items, transactions, messages, requesting, messaging, cancelling, moves>>

\* checkForConcurrentTransactions, which only 'accepted' goes through.
UpdateBusyCheck(c) ==
    LET call == updating[c]
    IN  /\ call.at = "busy"
        /\ updating' = [updating EXCEPT ![c] =
              IF BusyTransactions(transactions[call.id].item) = {}
              THEN [call EXCEPT !.at = "write"] ELSE Idle]
        /\ UNCHANGED <<items, transactions, messages, requesting, messaging, cancelling, moves>>

\* stateUpdater: what db.update applies to the current document, whatever its state.
WithState(doc, s, u) ==
    [doc EXCEPT
        !.state = s,
        !.actions = Append(@, [action |-> s,
            actor |-> IF s = "cancelled" THEN RoleOf(doc, u) ELSE "unrecorded"]),
        !.read = ReadStates(RoleOf(doc, u))]

\* Mutant: any update of a one-way transaction moves the item.
SideEffectsAlways(t, s) ==
    IF OneWay(transactions[t])
    THEN {[transaction |-> t, confirmation |-> Len(transactions[t].actions) + 1,
           at |-> "get", rev |-> 0]}
    ELSE {}

\* applySideEffects: a confirmed one-way transaction starts a change of owner.
\* In production the event bus does not wait for its listeners.
SideEffects(t, s) ==
    IF s = "confirmed" /\ OneWay(transactions[t])
    THEN {[transaction |-> t, confirmation |-> Len(transactions[t].actions) + 1,
           at |-> "get", rev |-> 0]}
    ELSE {}

\* The second half of updateTransactionState.
WriteState(t, s, u) ==
    /\ transactions' = [transactions EXCEPT ![t] = WithState(@, s, u)]
    /\ moves' = moves \cup SideEffects(t, s)

EndUpdate(c) ==
    LET call == updating[c]
    IN  /\ call.at = "write"
        /\ WriteState(call.id, call.state, call.user)
        /\ updating' = [updating EXCEPT ![c] = Idle]
        /\ UNCHANGED <<items, messages, requesting, messaging, cancelling>>

-----------------------------------------------------------------------------
(* changeItemOwner, the listener of 'transaction:update' *)

\* Mutant: the owner of the item is not compared with that of the transaction.
ReadItemOfAnyOwner(m) ==
    LET item == items[transactions[m.transaction].item]
    IN  /\ m.at = "get"
        /\ item # NoDoc
        /\ moves' = (moves \ {m}) \cup {[m EXCEPT !.at = "put", !.rev = item.rev]}
        /\ UNCHANGED <<items, transactions, messages, calls>>

\* db.get, then changeItemDocOwner, which refuses an item of another owner.
ReadItemToMove(m) ==
    LET doc == transactions[m.transaction]
        item == items[doc.item]
    IN  /\ m.at = "get"
        /\ item # NoDoc
        /\ item.owner = doc.owner
        /\ moves' = (moves \ {m}) \cup {[m EXCEPT !.at = "put", !.rev = item.rev]}
        /\ UNCHANGED <<items, transactions, messages, calls>>

\* The item is gone or has another owner: the error is only logged.
RefuseMove(m) ==
    LET doc == transactions[m.transaction]
    IN  /\ m.at = "get"
        /\ items[doc.item] # NoDoc => items[doc.item].owner # doc.owner
        /\ moves' = moves \ {m}
        /\ UNCHANGED <<items, transactions, messages, calls>>

\* The item is still at the revision that was read.
Fresh(m) ==
    LET item == items[transactions[m.transaction].item]
    IN  item # NoDoc /\ item.rev = m.rev

\* changeItemDocOwner's result: the reset attributes and the new history.
Moved(item, doc, m) ==
    [item EXCEPT
        !.owner = doc.requester,
        !.transaction = "inventorying",
        !.visibility = "private",
        !.history = Append(@, [transaction |-> m.transaction, previousOwner |-> doc.owner,
                               confirmation |-> m.confirmation]),
        !.rev = @ + 1]

\* db.postAndReturn
MoveItem(m) ==
    LET doc == transactions[m.transaction]
    IN  /\ m.at = "put"
        /\ Fresh(m)
        /\ items' = [items EXCEPT ![doc.item] = Moved(@, doc, m)]
        /\ moves' = moves \ {m}
        /\ UNCHANGED <<transactions, messages, calls>>

\* The put answers 409 and nothing retries it.
LoseMove(m) ==
    /\ m.at = "put"
    /\ ~Fresh(m)
    /\ moves' = moves \ {m}
    /\ UNCHANGED <<items, transactions, messages, calls>>

-----------------------------------------------------------------------------
(* POST /api/transactions?action=message and PUT ?action=mark-as-read *)

StartMessage(c, u, t) ==
    /\ Free(c)
    /\ Exists(t)
    /\ Party(transactions[t], u)
    /\ messages[t] < MaxMessages
    /\ messaging' = [messaging EXCEPT ![c] =
          [at |-> "post", user |-> u, id |-> t, seen |-> transactions[t].read]]
    /\ UNCHANGED <<items, transactions, messages, requesting, updating, cancelling, moves>>

PostMessage(c) ==
    LET call == messaging[c]
    IN  /\ call.at = "post"
        /\ messages' = [messages EXCEPT ![call.id] = @ + 1]
        /\ messaging' = [messaging EXCEPT ![c] = [call EXCEPT !.at = "read"]]
        /\ UNCHANGED <<items, transactions, requesting, updating, cancelling, moves>>

\* Mutant: the read state of the author of the message is left as it was.
UpdateReadOfOther(c) ==
    LET call == messaging[c]
        other == Roles \ {RoleOf(transactions[call.id], call.user)}
    IN  /\ call.at = "read"
        /\ transactions' = [transactions EXCEPT ![call.id].read = [r \in Roles |-> @[r] /\ r \notin other]]
        /\ messaging' = [messaging EXCEPT ![c] = Idle]
        /\ UNCHANGED <<items, messages, requesting, updating, cancelling, moves>>

\* updateReadForNewMessage writes nothing when the read states it saw at the
\* start are already the wanted ones.
UpdateReadForNewMessage(c) ==
    LET call == messaging[c]
        wanted == ReadStates(RoleOf(transactions[call.id], call.user))
    IN  /\ call.at = "read"
        /\ transactions' = IF call.seen = wanted THEN transactions
                           ELSE [transactions EXCEPT ![call.id].read = wanted]
        /\ messaging' = [messaging EXCEPT ![c] = Idle]
        /\ UNCHANGED <<items, messages, requesting, updating, cancelling, moves>>

\* Reads only what never changes in a transaction: one atomic step.
MarkAsRead(u, t) ==
    /\ Exists(t)
    /\ Party(transactions[t], u)
    /\ transactions' = [transactions EXCEPT ![t].read[RoleOf(transactions[t], u)] = TRUE]
    /\ UNCHANGED <<items, messages, calls, moves>>

-----------------------------------------------------------------------------
(* Deletion of a user: cancelAllActiveTransactions *)

\* Being active, every transaction of the list may be cancelled: the validation
\* on the list's copies refuses none.
StartCancelAll(c, u) ==
    LET ids == {t \in TransactionIds :
                    Exists(t) /\ Party(transactions[t], u) /\ IsActive(transactions[t])}
    IN  /\ Free(c)
        /\ ids # {}
        /\ cancelling' = [cancelling EXCEPT ![c] = [at |-> "write", user |-> u, ids |-> ids]]
        /\ UNCHANGED <<items, transactions, messages, requesting, updating, messaging, moves>>

\* The updates run side by side, in any order.
CancelOne(c, t) ==
    LET call == cancelling[c]
        left == call.ids \ {t}
    IN  /\ call.at = "write"
        /\ t \in call.ids
        /\ WriteState(t, "cancelled", call.user)
        /\ cancelling' = [cancelling EXCEPT ![c] =
              IF left = {} THEN Idle ELSE [call EXCEPT !.ids = left]]
        /\ UNCHANGED <<items, messages, requesting, updating, messaging>>

-----------------------------------------------------------------------------
(* The owner's own writes of an item.  A get and a put that fails when the   *)
(* item was written in between amount to one step at the time of the put.    *)

\* updateItems; an unchanged document is written all the same.
EditItem(u, i, mode, visibility) ==
    /\ items[i] # NoDoc
    /\ items[i].owner = u
    /\ items[i].rev < MaxItemWrites
    /\ items' = [items EXCEPT ![i].transaction = mode, ![i].visibility = visibility, ![i].rev = @ + 1]
    /\ UNCHANGED <<transactions, messages, calls, moves>>

\* itemsBulkDelete, from delete-by-ids: nothing asks whether the item is busy.
DeleteItem(u, i) ==
    /\ items[i] # NoDoc
    /\ items[i].owner = u
    /\ items' = [items EXCEPT ![i] = NoDoc]
    /\ UNCHANGED <<transactions, messages, calls, moves>>

-----------------------------------------------------------------------------
Request(c) ==
    \/ \E u \in Users, i \in Items : StartRequest(c, u, i)
    \/ RequestBusyCheck(c)
    \/ RequestExistingCheck(c)
    \/ \E t \in TransactionIds : CreateTransaction(c, t)
    \/ PostFirstMessage(c)

Update(c) ==
    \/ \E u \in Users, t \in TransactionIds, s \in States : StartUpdate(c, u, t, s)
    \/ UpdateBusyCheck(c)
    \/ EndUpdate(c)

Message(c) ==
    \/ \E u \in Users, t \in TransactionIds : StartMessage(c, u, t)
    \/ PostMessage(c)
    \/ UpdateReadForNewMessage(c)

CancelAll(c) ==
    \/ \E u \in Users : StartCancelAll(c, u)
    \/ \E t \in TransactionIds : CancelOne(c, t)

ChangeItemOwner(m) ==
    \/ ReadItemToMove(m)
    \/ RefuseMove(m)
    \/ MoveItem(m)
    \/ LoseMove(m)

OwnerWrites ==
    \E u \in Users, i \in Items :
        \/ \E mode \in Modes, visibility \in Visibilities : EditItem(u, i, mode, visibility)
        \/ DeleteItem(u, i)

Next ==
    \/ \E c \in Calls : Request(c) \/ Update(c) \/ Message(c) \/ CancelAll(c)
    \/ \E m \in moves : ChangeItemOwner(m)
    \/ \E u \in Users, t \in TransactionIds : MarkAsRead(u, t)
    \/ OwnerWrites

Spec == Init /\ [][Next]_vars
-----------------------------------------------------------------------------
(* Properties *)

\* Every document and every call has its type.
TypeOK ==
    /\ items \in [Items -> ItemDoc \cup {NoDoc}]
    /\ transactions \in [TransactionIds -> TransactionDoc \cup {NoDoc}]
    /\ messages \in [TransactionIds -> Nat]
    /\ requesting \in [Calls -> RequestCall \cup FirstMessageCall \cup {Idle}]
    /\ updating \in [Calls -> UpdateCall \cup {Idle}]
    /\ messaging \in [Calls -> MessageCall \cup {Idle}]
    /\ cancelling \in [Calls -> CancelCall \cup {Idle}]
    /\ moves \subseteq PendingMove

\* An earlier action of the log allows action s next.
Justified(doc, k, s) ==
    \E j \in 1..(k - 1) : PossibleState(doc.actions[j].action, doc.transaction, s)

Causal(doc) ==
    /\ Len(doc.actions) > 0
    /\ doc.actions[1].action = "requested"
    /\ \A k \in 2..Len(doc.actions) : Justified(doc, k, doc.actions[k].action)
    /\ doc.state = LastAction(doc)

\* However stale the state a handler validated against, that state was once the
\* transaction's: each action of the log follows from an earlier one, a return
\* only ever ends a loan, and the state (which the handlers read) is the last
\* action (which the view byBusyItem reads).
LogIsCausal == \A t \in TransactionIds : Exists(t) => Causal(transactions[t])

Custodian(item, k) == IF k = Len(item.history) THEN item.owner ELSE item.history[k + 1].previousOwner

\* The history of an item is a chain of custody: each transfer is one of a one-way
\* transaction about this item whose owner was then the owner of the item, the
\* next transfer starts from its requester, and the last requester is the
\* present owner.
CustodyChain ==
    \A i \in Items : items[i] # NoDoc =>
        \A k \in 1..Len(items[i].history) :
            LET entry == items[i].history[k]
                doc == transactions[entry.transaction]
            IN  /\ doc # NoDoc
                /\ doc.item = i
                /\ OneWay(doc)
                /\ doc.owner = entry.previousOwner
                /\ doc.requester = Custodian(items[i], k)

\* A confirmation moves the item at most once: every transfer comes from a
\* confirmed action of its transaction, no two from the same one, and one that
\* is still in progress has not been written yet.
OneMovePerConfirmation ==
    /\ \A m \in moves :
          LET doc == transactions[m.transaction]
          IN  /\ doc # NoDoc
              /\ m.confirmation \in 1..Len(doc.actions)
              /\ doc.actions[m.confirmation].action = "confirmed"
              /\ \A n \in moves : n.transaction = m.transaction /\ n.confirmation = m.confirmation
                                      => n = m
    /\ \A i \in Items : items[i] # NoDoc =>
          LET h == items[i].history
          IN  \A k \in 1..Len(h) :
                LET doc == transactions[h[k].transaction]
                IN  /\ doc # NoDoc
                    /\ h[k].confirmation \in 1..Len(doc.actions)
                    /\ doc.actions[h[k].confirmation].action = "confirmed"
                    /\ \A l \in 1..Len(h) :
                          h[l].transaction = h[k].transaction /\ h[l].confirmation = h[k].confirmation
                          => l = k
                    /\ \A m \in moves :
                          m.transaction = h[k].transaction => m.confirmation # h[k].confirmation

\* Once a message is posted the transaction is unread for the user it is meant for,
\* which is what justifies sparing the write of equal read states.  A
\* mark-as-read that comes between the read and the message breaks it.
MessageIsUnread ==
    [][\A c \in Calls :
          messaging[c].at = "read" /\ messaging'[c] = Idle =>
            LET doc == transactions'[messaging[c].id]
            IN  doc.read = ReadStates(RoleOf(doc, messaging[c].user))]_vars

\* A transaction is never unread for both users: whoever wrote to it last has read
\* it, and a mark of reading by the other does not undo that.
NeverUnreadByBoth == \A t \in TransactionIds : Exists(t) => \E r \in Roles : transactions[t].read[r]

\* An item is kept busy by one transaction at a time.  Holds when requests are
\* handled one after the other; two acceptances that interleave break it.
AtMostOneBusy ==
    \A i \in Items : \A t, s \in BusyTransactions(i) : t = s

\* A user has at most one active transaction about an item.  Holds when requests
\* are handled one after the other.
OneActiveRequest ==
    \A t, s \in TransactionIds :
        /\ Exists(t) /\ Exists(s)
        /\ transactions[t].item = transactions[s].item
        /\ transactions[t].requester = transactions[s].requester
        /\ IsActive(transactions[t]) /\ IsActive(transactions[s])
        => t = s

\* A transaction that expects nothing of its users any more keeps its state.
InactiveIsFinal ==
    [][\A t \in TransactionIds :
          Exists(t) /\ ~IsActive(transactions[t]) => transactions'[t].state = transactions[t].state]_vars

-----------------------------------------------------------------------------
(* The protocol that requests handled one at a time implement *)

Custody == [i \in Items |-> IF items[i] = NoDoc THEN NoDoc ELSE items[i].owner]

Deal ==
    [t \in TransactionIds |->
        IF Exists(t)
        THEN [item |-> transactions[t].item, owner |-> transactions[t].owner,
              requester |-> transactions[t].requester, kind |-> transactions[t].transaction,
              state |-> transactions[t].state]
        ELSE NoDoc]

Owed == {m.transaction : m \in moves}

Protocol == INSTANCE ExchangeProtocol
    WITH Deals <- TransactionIds, None <- NoDoc, custody <- Custody, deal <- Deal, owed <- Owed

\* Handled one at a time, the requests keep the protocol: an item has one holder,
\* moves once and only for a confirmed deal, from its owner to its requester.
ImplementsProtocol == Protocol!Spec
=============================================================================
