--------------------------- MODULE TransactionsProofs ---------------------------
(***************************************************************************)
(* Proofs about Transactions, for any users, items, transactions and       *)
(* calls; the last part, with its refinement of ExchangeProtocol, is about *)
(* one request at a time.                                                  *)
(***************************************************************************)
EXTENDS Transactions, TLAPS

\* What db.update applies yields a transaction document.
LEMMA WithStateType ==
    ASSUME NEW doc \in TransactionDoc, NEW s \in States, NEW u \in Users
    PROVE  WithState(doc, s, u) \in TransactionDoc
<1>1. RoleOf(doc, u) \in Roles
  BY DEF RoleOf, Roles
<1>2. ReadStates(RoleOf(doc, u)) \in Read
  BY <1>1 DEF ReadStates, Read
<1> DEFINE act == [action |-> s, actor |-> IF s = "cancelled" THEN RoleOf(doc, u) ELSE "unrecorded"]
<1>3. act \in Action
  BY <1>1 DEF Action
<1>4. Append(doc.actions, act) \in Seq(Action)
  BY <1>3 DEF TransactionDoc
<1> QED
  BY <1>2, <1>4 DEF WithState, TransactionDoc

\* The second half of updateTransactionState keeps the documents and the pending
\* moves well typed.
LEMMA WriteStateType ==
    ASSUME TypeOK, NEW t \in TransactionIds, NEW s \in States, NEW u \in Users, Exists(t),
           WriteState(t, s, u)
    PROVE  /\ transactions' \in [TransactionIds -> TransactionDoc \cup {NoDoc}]
           /\ moves' \subseteq PendingMove
<1>1. transactions[t] \in TransactionDoc
  BY DEF TypeOK, Exists
<1>2. WithState(transactions[t], s, u) \in TransactionDoc
  BY <1>1, WithStateType
<1>3. Len(transactions[t].actions) + 1 \in Nat
  BY <1>1 DEF TransactionDoc
<1>4. SideEffects(t, s) \subseteq PendingMove
  BY <1>3 DEF SideEffects, PendingMove
<1> QED
  BY <1>2, <1>4 DEF WriteState, TypeOK

-----------------------------------------------------------------------------
(* Calls and moves refer to transactions that exist *)

\* Every call in flight and every pending move is about an existing transaction:
\* transactions are never deleted.
CallsRefer ==
    /\ \A c \in Calls : updating[c] # Idle => Exists(updating[c].id)
    /\ \A c \in Calls : messaging[c] # Idle => Exists(messaging[c].id)
    /\ \A c \in Calls : cancelling[c] # Idle => \A t \in cancelling[c].ids : Exists(t)
    /\ \A m \in moves : Exists(m.transaction)

\* No step makes a transaction disappear.
LEMMA WriteStateKeeps ==
    ASSUME TypeOK, NEW t \in TransactionIds, NEW s \in States, NEW u \in Users, Exists(t),
           WriteState(t, s, u), NEW r \in TransactionIds, Exists(r)
    PROVE  Exists(r)'
<1>1. transactions[t] \in TransactionDoc
  BY DEF TypeOK, Exists
<1>2. WithState(transactions[t], s, u) # NoDoc
  BY <1>1, WithStateType, NoDocAssumption
<1>3. CASE r = t
  BY <1>2, <1>3 DEF WriteState, TypeOK, Exists
<1>4. CASE r # t
  BY <1>4 DEF WriteState, TypeOK, Exists
<1> QED
  BY <1>3, <1>4

\* The moves that a state update starts are of its transaction.
LEMMA WriteStateMoves ==
    ASSUME TypeOK, NEW t \in TransactionIds, NEW s \in States, NEW u \in Users, Exists(t),
           WriteState(t, s, u), NEW m \in moves'
    PROVE  m \in moves \/ m.transaction = t
BY DEF WriteState, SideEffects

Typed == TypeOK /\ CallsRefer

LEMMA RequestTyped ==
    ASSUME Typed, NEW c \in Calls, Request(c)
    PROVE  Typed'
<1> USE DEF Typed
<1>1. ASSUME NEW u \in Users, NEW i \in Items, StartRequest(c, u, i) PROVE Typed'
  <2> DEFINE call == [at |-> "busy", user |-> u, item |-> i, owner |-> items[i].owner,
                      transaction |-> items[i].transaction]
  <2>1. call \in RequestCall
    BY <1>1 DEF StartRequest, TypeOK, ItemDoc, RequestCall
  <2>2. TypeOK'
    BY <1>1, <2>1 DEF StartRequest, TypeOK
  <2> QED
    BY <1>1, <2>2 DEF StartRequest, CallsRefer, Exists
<1>2. ASSUME RequestBusyCheck(c) PROVE Typed'
  <2>1. requesting[c] \in RequestCall
    BY <1>2 DEF RequestBusyCheck, TypeOK, FirstMessageCall, Idle
  <2>2. [requesting[c] EXCEPT !.at = "existing"] \in RequestCall
    BY <2>1 DEF RequestCall
  <2>3. TypeOK'
    BY <1>2, <2>2 DEF RequestBusyCheck, TypeOK
  <2> QED
    BY <1>2, <2>3 DEF RequestBusyCheck, CallsRefer, Exists
<1>3. ASSUME RequestExistingCheck(c) PROVE Typed'
  <2>1. requesting[c] \in RequestCall
    BY <1>3 DEF RequestExistingCheck, TypeOK, FirstMessageCall, Idle
  <2>2. [requesting[c] EXCEPT !.at = "post"] \in RequestCall
    BY <2>1 DEF RequestCall
  <2>3. TypeOK'
    BY <1>3, <2>2 DEF RequestExistingCheck, TypeOK
  <2> QED
    BY <1>3, <2>3 DEF RequestExistingCheck, CallsRefer, Exists
<1>4. ASSUME NEW t \in TransactionIds, CreateTransaction(c, t) PROVE Typed'
  <2>1. requesting[c] \in RequestCall
    BY <1>4 DEF CreateTransaction, TypeOK, FirstMessageCall, Idle
  <2>2. NewTransactionDoc(requesting[c]) \in TransactionDoc
    BY <2>1 DEF RequestCall, NewTransactionDoc, TransactionDoc, States, Action, Read, ReadStates
  <2>3. [at |-> "message", id |-> t] \in FirstMessageCall
    BY DEF FirstMessageCall
  <2>4. TypeOK'
    BY <1>4, <2>2, <2>3 DEF CreateTransaction, TypeOK
  <2>5. \A r \in TransactionIds : Exists(r) => Exists(r)'
    BY <1>4 DEF CreateTransaction, TypeOK, Exists
  <2>6. CallsRefer'
    BY <1>4, <2>5 DEF CreateTransaction, CallsRefer, TypeOK, Idle, UpdateCall, MessageCall,
                      CancelCall, PendingMove
  <2> QED
    BY <2>4, <2>6
<1>5. ASSUME PostFirstMessage(c) PROVE Typed'
  <2>1. requesting[c] \in FirstMessageCall
    BY <1>5 DEF PostFirstMessage, TypeOK, RequestCall, Idle
  <2>2. messages' \in [TransactionIds -> Nat]
    BY <1>5, <2>1 DEF PostFirstMessage, TypeOK, FirstMessageCall
  <2>3. TypeOK'
    BY <1>5, <2>2 DEF PostFirstMessage, TypeOK
  <2> QED
    BY <1>5, <2>3 DEF PostFirstMessage, CallsRefer, Exists
<1> QED
  BY <1>1, <1>2, <1>3, <1>4, <1>5 DEF Request

LEMMA UpdateTyped ==
    ASSUME Typed, NEW c \in Calls, Update(c)
    PROVE  Typed'
<1> USE DEF Typed
<1>1. ASSUME NEW u \in Users, NEW t \in TransactionIds, NEW s \in States, StartUpdate(c, u, t, s)
      PROVE Typed'
  <2> DEFINE call == [at |-> IF s = "accepted" THEN "busy" ELSE "write", user |-> u, id |-> t,
                      state |-> s]
  <2>1. call \in UpdateCall
    BY DEF UpdateCall
  <2>2. TypeOK'
    BY <1>1, <2>1 DEF StartUpdate, TypeOK
  <2>3. \A d \in Calls : updating'[d] # Idle => Exists(updating'[d].id)
    BY <1>1 DEF StartUpdate, TypeOK, CallsRefer
  <2> QED
    BY <1>1, <2>2, <2>3 DEF StartUpdate, CallsRefer, Exists
<1>2. ASSUME UpdateBusyCheck(c) PROVE Typed'
  <2>1. updating[c] \in UpdateCall /\ updating[c] # Idle
    BY <1>2 DEF UpdateBusyCheck, TypeOK, Idle
  <2> DEFINE call == [updating[c] EXCEPT !.at = "write"]
  <2>2. call \in UpdateCall /\ call.id = updating[c].id
    BY <2>1 DEF UpdateCall
  <2>3. TypeOK'
    BY <1>2, <2>2 DEF UpdateBusyCheck, TypeOK
  <2>4. \A d \in Calls : updating'[d] # Idle => Exists(updating'[d].id)
    BY <1>2, <2>1, <2>2 DEF UpdateBusyCheck, TypeOK, CallsRefer
  <2> QED
    BY <1>2, <2>3, <2>4 DEF UpdateBusyCheck, CallsRefer, Exists
<1>3. ASSUME EndUpdate(c) PROVE Typed'
  <2>1. updating[c] \in UpdateCall /\ updating[c] # Idle
    BY <1>3 DEF EndUpdate, TypeOK, Idle
  <2> DEFINE t == updating[c].id
             s == updating[c].state
             u == updating[c].user
  <2>2. t \in TransactionIds /\ s \in States /\ u \in Users /\ Exists(t)
    BY <2>1 DEF UpdateCall, CallsRefer
  <2>3. WriteState(t, s, u)
    BY <1>3 DEF EndUpdate
  <2> HIDE DEF t, s, u
  <2>4. TypeOK'
    BY <1>3, <2>2, <2>3, WriteStateType DEF EndUpdate, TypeOK
  <2>5. \A r \in TransactionIds : Exists(r) => Exists(r)'
    BY <2>2, <2>3, WriteStateKeeps
  <2>6. \A m \in moves' : Exists(m.transaction)'
    BY <2>2, <2>3, <2>5, WriteStateMoves DEF CallsRefer, TypeOK, PendingMove
  <2> QED
    BY <1>3, <2>4, <2>5, <2>6 DEF EndUpdate, CallsRefer, TypeOK, UpdateCall, MessageCall, CancelCall
<1> QED
  BY <1>1, <1>2, <1>3 DEF Update

LEMMA MessageTyped ==
    ASSUME Typed, NEW c \in Calls, Message(c)
    PROVE  Typed'
<1> USE DEF Typed
<1>1. ASSUME NEW u \in Users, NEW t \in TransactionIds, StartMessage(c, u, t) PROVE Typed'
  <2> DEFINE call == [at |-> "post", user |-> u, id |-> t, seen |-> transactions[t].read]
  <2>1. call \in MessageCall
    BY <1>1 DEF StartMessage, MessageCall, TypeOK, TransactionDoc, Exists
  <2>2. TypeOK'
    BY <1>1, <2>1 DEF StartMessage, TypeOK
  <2> QED
    BY <1>1, <2>2 DEF StartMessage, CallsRefer, Exists, TypeOK
<1>2. ASSUME PostMessage(c) PROVE Typed'
  <2>1. messaging[c] \in MessageCall /\ messaging[c] # Idle
    BY <1>2 DEF PostMessage, TypeOK, Idle
  <2> DEFINE call == [messaging[c] EXCEPT !.at = "read"]
  <2>2. call \in MessageCall /\ call.id = messaging[c].id
    BY <2>1 DEF MessageCall
  <2>3. messages' \in [TransactionIds -> Nat]
    BY <1>2, <2>1 DEF PostMessage, TypeOK, MessageCall
  <2>4. TypeOK'
    BY <1>2, <2>2, <2>3 DEF PostMessage, TypeOK
  <2> QED
    BY <1>2, <2>1, <2>2, <2>4 DEF PostMessage, CallsRefer, Exists, TypeOK
<1>3. ASSUME UpdateReadForNewMessage(c) PROVE Typed'
  <2>1. messaging[c] \in MessageCall /\ messaging[c] # Idle
    BY <1>3 DEF UpdateReadForNewMessage, TypeOK, Idle
  <2> DEFINE t == messaging[c].id
             wanted == ReadStates(RoleOf(transactions[t], messaging[c].user))
  <2>2. t \in TransactionIds /\ transactions[t] \in TransactionDoc
    BY <2>1 DEF MessageCall, CallsRefer, Exists, TypeOK
  <2>3. wanted \in Read
    BY DEF ReadStates, Read
  <2>4. [transactions[t] EXCEPT !.read = wanted] \in TransactionDoc
    BY <2>2, <2>3 DEF TransactionDoc
  <2>5. transactions' \in [TransactionIds -> TransactionDoc \cup {NoDoc}]
    BY <1>3, <2>2, <2>4 DEF UpdateReadForNewMessage, TypeOK
  <2>6. TypeOK'
    BY <1>3, <2>5 DEF UpdateReadForNewMessage, TypeOK
  <2>7. \A r \in TransactionIds : Exists(r) => Exists(r)'
    BY <1>3, <2>2, <2>4, NoDocAssumption DEF UpdateReadForNewMessage, TypeOK, Exists
  <2> QED
    BY <1>3, <2>6, <2>7 DEF UpdateReadForNewMessage, CallsRefer, TypeOK, Idle, UpdateCall,
                            MessageCall, CancelCall, PendingMove
<1> QED
  BY <1>1, <1>2, <1>3 DEF Message

LEMMA CancelAllTyped ==
    ASSUME Typed, NEW c \in Calls, CancelAll(c)
    PROVE  Typed'
<1> USE DEF Typed
<1>1. ASSUME NEW u \in Users, StartCancelAll(c, u) PROVE Typed'
  <2> DEFINE ids == {t \in TransactionIds :
                       Exists(t) /\ Party(transactions[t], u) /\ IsActive(transactions[t])}
             call == [at |-> "write", user |-> u, ids |-> ids]
  <2>1. call \in CancelCall
    BY DEF CancelCall
  <2>2. TypeOK'
    BY <1>1, <2>1 DEF StartCancelAll, TypeOK
  <2>3. \A d \in Calls : cancelling'[d] # Idle => \A t \in cancelling'[d].ids : Exists(t)
    BY <1>1 DEF StartCancelAll, TypeOK, CallsRefer
  <2> QED
    BY <1>1, <2>2, <2>3 DEF StartCancelAll, CallsRefer, Exists
<1>2. ASSUME NEW t \in TransactionIds, CancelOne(c, t) PROVE Typed'
  <2>1. cancelling[c] \in CancelCall /\ cancelling[c] # Idle
    BY <1>2 DEF CancelOne, TypeOK, Idle
  <2> DEFINE u == cancelling[c].user
             left == cancelling[c].ids \ {t}
             call == [cancelling[c] EXCEPT !.ids = left]
  <2>2. u \in Users /\ Exists(t)
    BY <1>2, <2>1 DEF CancelOne, CancelCall, CallsRefer
  <2>3. WriteState(t, "cancelled", u) /\ "cancelled" \in States
    BY <1>2 DEF CancelOne, States
  <2>4. call \in CancelCall /\ call.ids = left
    BY <2>1 DEF CancelCall
  <2>5. TypeOK'
    BY <1>2, <2>2, <2>3, <2>4, WriteStateType DEF CancelOne, TypeOK
  <2>6. \A r \in TransactionIds : Exists(r) => Exists(r)'
    BY <2>2, <2>3, WriteStateKeeps
  <2>7. \A m \in moves' : Exists(m.transaction)'
    BY <2>2, <2>3, <2>6, WriteStateMoves DEF CallsRefer, TypeOK, PendingMove
  <2>8. \A d \in Calls : cancelling'[d] # Idle => \A r \in cancelling'[d].ids : Exists(r)'
    BY <1>2, <2>1, <2>4, <2>6 DEF CancelOne, CallsRefer, TypeOK, CancelCall
  <2> QED
    BY <1>2, <2>5, <2>6, <2>7, <2>8 DEF CancelOne, CallsRefer, TypeOK, UpdateCall, MessageCall
<1> QED
  BY <1>1, <1>2 DEF CancelAll

\* What a change of owner writes is an item.
LEMMA MovedType ==
    ASSUME NEW item \in ItemDoc, NEW doc \in TransactionDoc, NEW m \in PendingMove
    PROVE  Moved(item, doc, m) \in ItemDoc
<1> DEFINE entry == [transaction |-> m.transaction, previousOwner |-> doc.owner,
                     confirmation |-> m.confirmation]
           history == Append(item.history, entry)
           rev == item.rev + 1
           moved == [item EXCEPT !.owner = doc.requester, !.transaction = "inventorying",
                        !.visibility = "private", !.history = history, !.rev = rev]
<1>1. entry \in Move
  BY DEF Move, PendingMove, TransactionDoc
<1>2. history \in Seq(Move) /\ rev \in Nat
  BY <1>1 DEF ItemDoc
<1>3. moved \in ItemDoc
  <2> HIDE DEF history, rev
  <2> QED
    BY <1>2 DEF ItemDoc, TransactionDoc, Modes, Visibilities
<1> QED
  BY <1>3 DEF Moved

LEMMA MoveTyped ==
    ASSUME Typed, NEW m \in moves, ChangeItemOwner(m)
    PROVE  Typed'
<1> USE DEF Typed
<1> DEFINE doc == transactions[m.transaction]
<1>0. m \in PendingMove /\ doc \in TransactionDoc
  BY DEF TypeOK, CallsRefer, Exists, PendingMove
<1>1. ASSUME ReadItemToMove(m) PROVE Typed'
  <2>1. items[doc.item] \in ItemDoc
    BY <1>0, <1>1 DEF ReadItemToMove, TypeOK, TransactionDoc
  <2> DEFINE n == [m EXCEPT !.at = "put", !.rev = items[doc.item].rev]
  <2>2. n \in PendingMove /\ n.transaction = m.transaction
    BY <1>0, <2>1 DEF PendingMove, ItemDoc
  <2>3. moves' = (moves \ {m}) \cup {n}
    BY <1>1 DEF ReadItemToMove
  <2> HIDE DEF n
  <2>4. TypeOK'
    BY <1>1, <2>2, <2>3 DEF ReadItemToMove, TypeOK, calls
  <2> QED
    BY <1>1, <2>2, <2>3, <2>4 DEF ReadItemToMove, CallsRefer, Exists, calls
<1>2. ASSUME MoveItem(m) PROVE Typed'
  <2>1. items[doc.item] \in ItemDoc
    BY <1>0, <1>2 DEF MoveItem, Fresh, TypeOK, TransactionDoc
  <2>2. Moved(items[doc.item], doc, m) \in ItemDoc
    BY <1>0, <2>1, MovedType
  <2>3. TypeOK'
    BY <1>2, <2>2 DEF MoveItem, TypeOK, calls
  <2> QED
    BY <1>2, <2>3 DEF MoveItem, CallsRefer, Exists, calls
<1>3. ASSUME RefuseMove(m) \/ LoseMove(m) PROVE Typed'
  <2>1. TypeOK'
    BY <1>3 DEF RefuseMove, LoseMove, TypeOK, calls
  <2> QED
    BY <1>3, <2>1 DEF RefuseMove, LoseMove, CallsRefer, Exists, calls
<1> QED
  BY <1>1, <1>2, <1>3 DEF ChangeItemOwner

LEMMA MarkAsReadTyped ==
    ASSUME Typed, NEW u \in Users, NEW t \in TransactionIds, MarkAsRead(u, t)
    PROVE  Typed'
<1> USE DEF Typed
<1> DEFINE doc == transactions[t]
           read == [doc EXCEPT !.read[RoleOf(doc, u)] = TRUE]
<1>1. doc \in TransactionDoc
  BY DEF MarkAsRead, TypeOK, Exists
<1>2. read \in TransactionDoc
  BY <1>1 DEF TransactionDoc, Read
<1>3. transactions' = [transactions EXCEPT ![t] = read]
  BY DEF MarkAsRead
<1> HIDE DEF read
<1>4. TypeOK'
  BY <1>2, <1>3 DEF MarkAsRead, TypeOK, calls
<1>5. \A r \in TransactionIds : Exists(r) => Exists(r)'
  BY <1>2, <1>3, NoDocAssumption DEF TypeOK, Exists
<1> QED
  BY <1>4, <1>5 DEF MarkAsRead, CallsRefer, TypeOK, Idle, UpdateCall, MessageCall, CancelCall,
                    PendingMove, calls

LEMMA OwnerWritesTyped ==
    ASSUME Typed, OwnerWrites
    PROVE  Typed'
<1> USE DEF Typed
<1>1. ASSUME NEW u \in Users, NEW i \in Items, NEW mode \in Modes, NEW visibility \in Visibilities,
             EditItem(u, i, mode, visibility)
      PROVE Typed'
  <2>1. items[i] \in ItemDoc
    BY <1>1 DEF EditItem, TypeOK
  <2> DEFINE rev == items[i].rev + 1
             edited == [items[i] EXCEPT !.transaction = mode, !.visibility = visibility, !.rev = rev]
  <2>2. rev \in Nat
    BY <2>1 DEF ItemDoc
  <2>3. items' = [items EXCEPT ![i] = edited]
    BY <1>1 DEF EditItem
  <2> HIDE DEF rev
  <2>4. edited \in ItemDoc
    BY <2>1, <2>2 DEF ItemDoc
  <2> HIDE DEF edited
  <2>5. TypeOK'
    BY <1>1, <2>3, <2>4 DEF EditItem, TypeOK, calls
  <2> QED
    BY <1>1, <2>5 DEF EditItem, CallsRefer, Exists, calls
<1>2. ASSUME NEW u \in Users, NEW i \in Items, DeleteItem(u, i) PROVE Typed'
  <2>1. TypeOK'
    BY <1>2 DEF DeleteItem, TypeOK, calls
  <2> QED
    BY <1>2, <2>1 DEF DeleteItem, CallsRefer, Exists, calls
<1> QED
  BY <1>1, <1>2 DEF OwnerWrites

LEMMA InitTyped == Init => Typed
<1> SUFFICES ASSUME Init PROVE Typed
  OBVIOUS
<1>1. \A i \in Items : items[i] \in ItemDoc
  <2>1. <<>> \in Seq(Move) /\ 1 \in Nat
    OBVIOUS
  <2> QED
    BY <2>1 DEF Init, ItemDoc
<1>2. TypeOK
  BY <1>1 DEF Init, TypeOK
<1> QED
  BY <1>2 DEF Init, Typed, CallsRefer

LEMMA NextTyped == Typed /\ [Next]_vars => Typed'
<1> SUFFICES ASSUME Typed, [Next]_vars PROVE Typed'
  OBVIOUS
<1>1. CASE UNCHANGED vars
  BY <1>1 DEF vars, Typed, TypeOK, CallsRefer, Exists
<1>2. CASE Next
  BY <1>2, RequestTyped, UpdateTyped, MessageTyped, CancelAllTyped, MoveTyped, MarkAsReadTyped,
     OwnerWritesTyped DEF Next
<1> QED
  BY <1>1, <1>2

\* Whatever the users, the items and the number of requests handled at a time,
\* documents, calls and pending moves keep their types, and no handler or side
\* effect holds the id of a transaction that the database has not.
THEOREM Typing == Spec => [](TypeOK /\ CallsRefer)
<1>1. Spec => []Typed
  BY InitTyped, NextTyped, PTL DEF Spec
<1> QED
  BY <1>1, PTL DEF Typed

-----------------------------------------------------------------------------
(* The log of actions *)

\* doc2 is doc some updates later: the same deal, a longer log.
Extends(doc2, doc) ==
    /\ doc2.item = doc.item /\ doc2.owner = doc.owner /\ doc2.requester = doc.requester
    /\ doc2.transaction = doc.transaction
    /\ Len(doc2.actions) >= Len(doc.actions)
    /\ \A k \in 1..Len(doc.actions) : doc2.actions[k] = doc.actions[k]

\* The updater appends to the log and leaves the deal alone.
LEMMA WithStateExtends ==
    ASSUME NEW doc \in TransactionDoc, NEW s \in States, NEW u \in Users
    PROVE  LET new == WithState(doc, s, u)
           IN  /\ Extends(new, doc)
               /\ Len(new.actions) = Len(doc.actions) + 1
               /\ new.actions[Len(doc.actions) + 1].action = s
               /\ new.state = s
<1> DEFINE act == [action |-> s, actor |-> IF s = "cancelled" THEN RoleOf(doc, u) ELSE "unrecorded"]
           new == WithState(doc, s, u)
<1>1. act.action = s
  OBVIOUS
<1>2. /\ new.actions = Append(doc.actions, act)
      /\ new.state = s
      /\ new.item = doc.item /\ new.owner = doc.owner /\ new.requester = doc.requester
      /\ new.transaction = doc.transaction
  BY DEF WithState, TransactionDoc
<1>3. doc.actions \in Seq(Action)
  BY DEF TransactionDoc
<1> HIDE DEF act, new
<1>4. /\ Len(new.actions) = Len(doc.actions) + 1
      /\ \A k \in 1..Len(doc.actions) : new.actions[k] = doc.actions[k]
      /\ new.actions[Len(doc.actions) + 1] = act
  BY <1>2, <1>3
<1>5. Len(doc.actions) \in Nat
  BY <1>3
<1>6. Extends(new, doc)
  BY <1>2, <1>4, <1>5 DEF Extends
<1> QED
  BY <1>1, <1>2, <1>4, <1>6 DEF new

\* A justification stays one as the log grows.
LEMMA JustifiedExtends ==
    ASSUME NEW doc, NEW doc2, Extends(doc2, doc), NEW k \in Nat, NEW l \in Nat, NEW s,
           Len(doc.actions) \in Nat, k <= Len(doc.actions) + 1, k <= l, Justified(doc, k, s)
    PROVE  Justified(doc2, l, s)
<1>1. PICK j \in 1..(k - 1) : PossibleState(doc.actions[j].action, doc.transaction, s)
  BY DEF Justified
<1>2. j \in 1..(l - 1) /\ j \in 1..Len(doc.actions)
  OBVIOUS
<1>3. doc2.actions[j] = doc.actions[j] /\ doc2.transaction = doc.transaction
  BY <1>2 DEF Extends
<1> QED
  BY <1>1, <1>2, <1>3 DEF Justified

\* An update that its log justifies keeps the log causal.
LEMMA WithStateCausal ==
    ASSUME NEW doc \in TransactionDoc, NEW s \in States, NEW u \in Users,
           Causal(doc), Justified(doc, Len(doc.actions) + 1, s)
    PROVE  Causal(WithState(doc, s, u))
<1> DEFINE new == WithState(doc, s, u)
           n == Len(doc.actions)
<1>0. n \in Nat /\ n > 0
  BY DEF TransactionDoc, Causal
<1>1. /\ Extends(new, doc)
      /\ Len(new.actions) = n + 1
      /\ new.actions[n + 1].action = s
      /\ new.state = s
  BY WithStateExtends
<1> HIDE DEF new
<1>2. new.actions[1].action = "requested"
  BY <1>0, <1>1 DEF Extends, Causal
<1>3. ASSUME NEW k \in 2..Len(new.actions) PROVE Justified(new, k, new.actions[k].action)
  <2>1. CASE k = n + 1
    BY <1>0, <1>1, <2>1, JustifiedExtends
  <2>2. CASE k # n + 1
    <3>1. k \in 2..n /\ k \in 1..n /\ k \in Nat /\ k <= n + 1 /\ k <= k
      BY <1>0, <1>1, <2>2
    <3>2. Justified(doc, k, doc.actions[k].action) /\ new.actions[k] = doc.actions[k]
      BY <1>1, <3>1 DEF Causal, Extends
    <3> QED
      BY <1>0, <1>1, <3>1, <3>2, JustifiedExtends
  <2> QED
    BY <2>1, <2>2
<1>4. new.state = LastAction(new)
  BY <1>1 DEF LastAction
<1> QED
  BY <1>0, <1>1, <1>2, <1>3, <1>4 DEF Causal, new

\* The state that a state update in flight will write, and the cancellations of a
\* deletion in flight, follow from an action of the log.
CallsJustified ==
    /\ \A c \in Calls : updating[c] # Idle =>
          LET doc == transactions[updating[c].id]
          IN  Justified(doc, Len(doc.actions) + 1, updating[c].state)
    /\ \A c \in Calls : cancelling[c] # Idle => \A t \in cancelling[c].ids :
          LET doc == transactions[t] IN Justified(doc, Len(doc.actions) + 1, "cancelled")

\* In one step an existing transaction keeps its deal and its log grows.
LogsGrow ==
    \A t \in TransactionIds : Exists(t) => Exists(t)' /\ Extends(transactions'[t], transactions[t])

LEMMA WriteStateGrows ==
    ASSUME TypeOK, NEW t \in TransactionIds, NEW s \in States, NEW u \in Users, Exists(t),
           WriteState(t, s, u)
    PROVE  LogsGrow
<1> SUFFICES ASSUME NEW r \in TransactionIds, Exists(r)
             PROVE  Exists(r)' /\ Extends(transactions'[r], transactions[r])
  BY DEF LogsGrow
<1>1. transactions[r] \in TransactionDoc /\ Len(transactions[r].actions) \in Nat
  BY DEF TypeOK, Exists, TransactionDoc
<1>2. Exists(r)'
  BY WriteStateKeeps
<1>3. CASE r = t
  BY <1>1, <1>2, <1>3, WithStateExtends DEF WriteState, TypeOK
<1>4. CASE r # t
  BY <1>1, <1>2, <1>4 DEF WriteState, TypeOK, Extends
<1> QED
  BY <1>3, <1>4

LEMMA UnchangedGrows ==
    ASSUME TypeOK, transactions' = transactions
    PROVE  LogsGrow
<1>1. \A t \in TransactionIds : Exists(t) => Len(transactions[t].actions) \in Nat
  BY DEF TypeOK, Exists, TransactionDoc
<1> QED
  BY <1>1 DEF LogsGrow, Exists, Extends

\* Changing the read states leaves the log and the state alone.
LEMMA ReadWriteGrows ==
    ASSUME TypeOK, NEW t \in TransactionIds, Exists(t), NEW read \in Read,
           transactions' = [transactions EXCEPT ![t].read = read]
    PROVE  /\ LogsGrow
           /\ LogIsCausal => LogIsCausal'
<1> DEFINE doc == transactions[t]
           new == [doc EXCEPT !.read = read]
<1>1. doc \in TransactionDoc /\ Len(doc.actions) \in Nat
  BY DEF TypeOK, Exists, TransactionDoc
<1>2. new \in TransactionDoc
  BY <1>1 DEF TransactionDoc
<1>3. /\ new.item = doc.item /\ new.owner = doc.owner /\ new.requester = doc.requester
      /\ new.transaction = doc.transaction /\ new.actions = doc.actions /\ new.state = doc.state
  BY <1>1 DEF TransactionDoc
<1>4. transactions' = [transactions EXCEPT ![t] = new]
  OBVIOUS
<1> HIDE DEF new
<1>5. Extends(new, doc) /\ (Causal(doc) => Causal(new))
  BY <1>1, <1>3 DEF Extends, Causal, Justified, LastAction
<1>6. \A r \in TransactionIds \ {t} : transactions'[r] = transactions[r]
  BY <1>4 DEF TypeOK
<1>7. \A r \in TransactionIds \ {t} : Exists(r) => Extends(transactions'[r], transactions[r])
  BY <1>6 DEF TypeOK, Exists, TransactionDoc, Extends
<1>8. transactions'[t] = new
  BY <1>4 DEF TypeOK
<1> QED
  BY <1>2, <1>5, <1>6, <1>7, <1>8, NoDocAssumption DEF LogsGrow, LogIsCausal, Exists

\* An update in flight stays justified while other calls write.
LEMMA StillJustified ==
    ASSUME TypeOK, LogsGrow, NEW t \in TransactionIds, Exists(t), NEW s,
           Justified(transactions[t], Len(transactions[t].actions) + 1, s), TypeOK'
    PROVE  Justified(transactions'[t], Len(transactions'[t].actions) + 1, s)
<1>1. Extends(transactions'[t], transactions[t]) /\ Exists(t)'
  BY DEF LogsGrow
<1>2. Len(transactions[t].actions) \in Nat /\ Len(transactions'[t].actions) \in Nat
  BY <1>1 DEF TypeOK, Exists, TransactionDoc
<1>3. Len(transactions'[t].actions) >= Len(transactions[t].actions)
  BY <1>1 DEF Extends
<1> DEFINE m == Len(transactions[t].actions) + 1
           n == Len(transactions'[t].actions) + 1
<1>4. m \in Nat /\ n \in Nat /\ m <= Len(transactions[t].actions) + 1 /\ m <= n
  BY <1>2, <1>3
<1> QED
  BY <1>1, <1>2, <1>4, JustifiedExtends

LEMMA NextGrows ==
    ASSUME Typed, [Next]_vars
    PROVE  LogsGrow
<1> USE DEF Typed
<1>1. ASSUME NEW c \in Calls, Request(c) PROVE LogsGrow
  <2>1. ASSUME NEW t \in TransactionIds, CreateTransaction(c, t) PROVE LogsGrow
    <3>1. \A r \in TransactionIds : Exists(r) => transactions'[r] = transactions[r]
      BY <2>1 DEF CreateTransaction, TypeOK, Exists
    <3>2. \A r \in TransactionIds : Exists(r) => Len(transactions[r].actions) \in Nat
      BY DEF TypeOK, Exists, TransactionDoc
    <3> QED
      BY <3>1, <3>2 DEF LogsGrow, Exists, Extends
  <2>2. CASE transactions' = transactions
    BY <2>2, UnchangedGrows
  <2> QED
    BY <1>1, <2>1, <2>2 DEF Request, StartRequest, RequestBusyCheck, RequestExistingCheck,
                            PostFirstMessage
<1>2. ASSUME NEW c \in Calls, Update(c) PROVE LogsGrow
  <2>1. ASSUME EndUpdate(c) PROVE LogsGrow
    <3>1. updating[c] \in UpdateCall /\ updating[c] # Idle
      BY <2>1 DEF EndUpdate, TypeOK, Idle
    <3> QED
      BY <2>1, <3>1, WriteStateGrows DEF EndUpdate, UpdateCall, CallsRefer
  <2>2. CASE transactions' = transactions
    BY <2>2, UnchangedGrows
  <2> QED
    BY <1>2, <2>1, <2>2 DEF Update, StartUpdate, UpdateBusyCheck
<1>3. ASSUME NEW c \in Calls, Message(c) PROVE LogsGrow
  <2>1. ASSUME UpdateReadForNewMessage(c) PROVE LogsGrow
    <3>1. messaging[c] \in MessageCall /\ messaging[c] # Idle
      BY <2>1 DEF UpdateReadForNewMessage, TypeOK, Idle
    <3>2. messaging[c].id \in TransactionIds /\ Exists(messaging[c].id)
      BY <3>1 DEF MessageCall, CallsRefer
    <3>3. \A r : ReadStates(r) \in Read
      BY DEF ReadStates, Read
    <3> QED
      BY <2>1, <3>2, <3>3, UnchangedGrows, ReadWriteGrows DEF UpdateReadForNewMessage
  <2>2. CASE transactions' = transactions
    BY <2>2, UnchangedGrows
  <2> QED
    BY <1>3, <2>1, <2>2 DEF Message, StartMessage, PostMessage
<1>4. ASSUME NEW c \in Calls, CancelAll(c) PROVE LogsGrow
  <2>1. ASSUME NEW t \in TransactionIds, CancelOne(c, t) PROVE LogsGrow
    <3>1. cancelling[c] \in CancelCall /\ cancelling[c] # Idle
      BY <2>1 DEF CancelOne, TypeOK, Idle
    <3>2. "cancelled" \in States /\ cancelling[c].user \in Users /\ Exists(t)
      BY <2>1, <3>1 DEF CancelOne, States, CancelCall, CallsRefer
    <3> QED
      BY <2>1, <3>2, WriteStateGrows DEF CancelOne
  <2>2. CASE transactions' = transactions
    BY <2>2, UnchangedGrows
  <2> QED
    BY <1>4, <2>1, <2>2 DEF CancelAll, StartCancelAll
<1>5. ASSUME NEW m \in moves, ChangeItemOwner(m) PROVE LogsGrow
  BY <1>5, UnchangedGrows DEF ChangeItemOwner, ReadItemToMove, RefuseMove, MoveItem, LoseMove
<1>6. ASSUME NEW u \in Users, NEW t \in TransactionIds, MarkAsRead(u, t) PROVE LogsGrow
  <2> DEFINE read == [transactions[t].read EXCEPT ![RoleOf(transactions[t], u)] = TRUE]
  <2>1. Exists(t) /\ transactions[t] \in TransactionDoc
    BY <1>6 DEF MarkAsRead, TypeOK, Exists
  <2>2. read \in Read
    BY <2>1 DEF TransactionDoc, Read
  <2>3. transactions' = [transactions EXCEPT ![t].read = read]
    BY <1>6 DEF MarkAsRead
  <2> HIDE DEF read
  <2> QED
    BY <2>1, <2>2, <2>3, ReadWriteGrows
<1>7. ASSUME OwnerWrites PROVE LogsGrow
  BY <1>7, UnchangedGrows DEF OwnerWrites, EditItem, DeleteItem
<1>8. CASE UNCHANGED vars
  BY <1>8, UnchangedGrows DEF vars
<1> QED
  BY <1>1, <1>2, <1>3, <1>4, <1>5, <1>6, <1>7, <1>8 DEF Next

\* Whatever runs at the same time, no step rewrites the log of a transaction or
\* the deal it is about: stale handlers append, they never overwrite.
THEOREM LogsOnlyGrow == Spec => [][LogsGrow]_vars
<1>1. Typed /\ [Next]_vars => [LogsGrow]_vars
  BY NextGrows
<1> QED
  BY <1>1, InitTyped, NextTyped, PTL DEF Spec

-----------------------------------------------------------------------------
(* The log of actions is causal *)

CausalInv == LogIsCausal /\ CallsJustified

\* Updates in flight that a step leaves alone stay justified.
LEMMA OthersJustified ==
    ASSUME Typed, CallsJustified, LogsGrow, TypeOK'
    PROVE  /\ \A c \in Calls : updating[c] # Idle /\ updating'[c] = updating[c] =>
                LET doc == transactions'[updating'[c].id]
                IN  Justified(doc, Len(doc.actions) + 1, updating'[c].state)
           /\ \A c \in Calls : cancelling[c] # Idle => \A t \in cancelling[c].ids :
                LET doc == transactions'[t] IN Justified(doc, Len(doc.actions) + 1, "cancelled")
<1>1. ASSUME NEW c \in Calls, updating[c] # Idle, updating'[c] = updating[c]
      PROVE  LET doc == transactions'[updating'[c].id]
             IN  Justified(doc, Len(doc.actions) + 1, updating'[c].state)
  <2>1. updating[c].id \in TransactionIds /\ Exists(updating[c].id)
    BY <1>1 DEF Typed, TypeOK, UpdateCall, CallsRefer
  <2> QED
    BY <1>1, <2>1, StillJustified DEF CallsJustified, Typed
<1>2. ASSUME NEW c \in Calls, cancelling[c] # Idle, NEW t \in cancelling[c].ids
      PROVE  LET doc == transactions'[t] IN Justified(doc, Len(doc.actions) + 1, "cancelled")
  <2>1. t \in TransactionIds /\ Exists(t)
    BY <1>2 DEF Typed, TypeOK, CancelCall, CallsRefer
  <2> QED
    BY <1>2, <2>1, StillJustified DEF CallsJustified, Typed
<1> QED
  BY <1>1, <1>2

\* The state that a handler reads justifies what it allows.
LEMMA StateJustifies ==
    ASSUME NEW doc \in TransactionDoc, Causal(doc), NEW s,
           PossibleState(doc.state, doc.transaction, s)
    PROVE  Justified(doc, Len(doc.actions) + 1, s)
<1>1. Len(doc.actions) \in Nat /\ Len(doc.actions) > 0
  BY DEF TransactionDoc, Causal
<1>2. PossibleState(doc.actions[Len(doc.actions)].action, doc.transaction, s)
  BY DEF Causal, LastAction
<1> QED
  BY <1>1, <1>2 DEF Justified

\* A justified write keeps every log causal.
LEMMA WriteStateCausal ==
    ASSUME TypeOK, LogIsCausal, NEW t \in TransactionIds, NEW s \in States, NEW u \in Users,
           Exists(t), WriteState(t, s, u),
           Justified(transactions[t], Len(transactions[t].actions) + 1, s)
    PROVE  LogIsCausal'
<1>1. transactions[t] \in TransactionDoc /\ Causal(transactions[t])
  BY DEF TypeOK, Exists, LogIsCausal
<1>2. Causal(WithState(transactions[t], s, u))
  BY <1>1, WithStateCausal
<1> QED
  BY <1>2 DEF WriteState, LogIsCausal, TypeOK, Exists

\* Steps that write no transaction and start no update.
LEMMA SameLogsCausal ==
    ASSUME CausalInv, transactions' = transactions, updating' = updating,
           cancelling' = cancelling
    PROVE  CausalInv'
BY DEF CausalInv, LogIsCausal, CallsJustified, Exists

LEMMA InitCausal == Init => CausalInv
BY DEF Init, CausalInv, LogIsCausal, CallsJustified, Exists

LEMMA NextCausal ==
    ASSUME Typed, CausalInv, [Next]_vars
    PROVE  CausalInv'
<1> USE DEF Typed, CausalInv
<1>0. LogsGrow /\ Typed'
  BY NextGrows, NextTyped
<1>1. ASSUME NEW c \in Calls, Request(c) PROVE CausalInv'
  <2>1. ASSUME NEW t \in TransactionIds, CreateTransaction(c, t) PROVE CausalInv'
    <3> DEFINE new == NewTransactionDoc(requesting[c])
    <3>1. Causal(new)
      BY DEF NewTransactionDoc, Causal, LastAction
    <3> HIDE DEF new
    <3>2. LogIsCausal'
      BY <2>1, <3>1 DEF CreateTransaction, LogIsCausal, TypeOK, Exists, new
    <3>3. CallsJustified'
      BY <1>0, <2>1, OthersJustified DEF CreateTransaction, CallsJustified
    <3> QED
      BY <3>2, <3>3
  <2> QED
    BY <1>1, <2>1, SameLogsCausal DEF Request, StartRequest, RequestBusyCheck,
                                      RequestExistingCheck, PostFirstMessage
<1>2. ASSUME NEW c \in Calls, Update(c) PROVE CausalInv'
  <2>1. ASSUME NEW u \in Users, NEW t \in TransactionIds, NEW s \in States,
               StartUpdate(c, u, t, s)
        PROVE  CausalInv'
    <3>1. transactions[t] \in TransactionDoc /\ Causal(transactions[t])
      BY <2>1 DEF StartUpdate, TypeOK, Exists, LogIsCausal
    <3>2. Justified(transactions[t], Len(transactions[t].actions) + 1, s)
      BY <2>1, <3>1, StateJustifies DEF StartUpdate
    <3>3. /\ updating'[c].id = t /\ updating'[c].state = s
          /\ transactions' = transactions /\ cancelling' = cancelling
          /\ \A d \in Calls \ {c} : updating'[d] = updating[d]
      BY <2>1 DEF StartUpdate, TypeOK
    <3>4. CallsJustified'
      BY <3>2, <3>3 DEF CallsJustified
    <3> QED
      BY <3>3, <3>4 DEF LogIsCausal, Exists
  <2>2. ASSUME UpdateBusyCheck(c) PROVE CausalInv'
    <3>1. updating[c] \in UpdateCall /\ updating[c] # Idle
      BY <2>2 DEF UpdateBusyCheck, TypeOK, Idle
    <3> DEFINE call == [updating[c] EXCEPT !.at = "write"]
    <3>2. call.id = updating[c].id /\ call.state = updating[c].state
      BY <3>1 DEF UpdateCall
    <3>3. /\ transactions' = transactions /\ cancelling' = cancelling
          /\ updating'[c] \in {call, Idle}
          /\ \A d \in Calls \ {c} : updating'[d] = updating[d]
      BY <2>2 DEF UpdateBusyCheck, TypeOK
    <3>4. CallsJustified'
      BY <3>1, <3>2, <3>3 DEF CallsJustified
    <3> QED
      BY <3>3, <3>4 DEF LogIsCausal, Exists
  <2>3. ASSUME EndUpdate(c) PROVE CausalInv'
    <3>1. updating[c] \in UpdateCall /\ updating[c] # Idle
      BY <2>3 DEF EndUpdate, TypeOK, Idle
    <3> DEFINE t == updating[c].id
               s == updating[c].state
               u == updating[c].user
    <3>2. /\ t \in TransactionIds /\ s \in States /\ u \in Users /\ Exists(t)
          /\ WriteState(t, s, u)
          /\ Justified(transactions[t], Len(transactions[t].actions) + 1, s)
      BY <2>3, <3>1 DEF EndUpdate, UpdateCall, CallsRefer, CallsJustified
    <3>3. LogIsCausal'
      BY <3>2, WriteStateCausal
    <3>4. CallsJustified'
      BY <1>0, <2>3, OthersJustified DEF EndUpdate, CallsJustified, TypeOK
    <3> QED
      BY <3>3, <3>4
  <2> QED
    BY <1>2, <2>1, <2>2, <2>3 DEF Update
<1>3. ASSUME NEW c \in Calls, Message(c) PROVE CausalInv'
  <2>1. ASSUME UpdateReadForNewMessage(c) PROVE CausalInv'
    <3>1. messaging[c] \in MessageCall /\ messaging[c] # Idle
      BY <2>1 DEF UpdateReadForNewMessage, TypeOK, Idle
    <3>2. messaging[c].id \in TransactionIds /\ Exists(messaging[c].id)
      BY <3>1 DEF MessageCall, CallsRefer
    <3>3. \A r : ReadStates(r) \in Read
      BY DEF ReadStates, Read
    <3>4. LogIsCausal'
      BY <2>1, <3>2, <3>3, ReadWriteGrows DEF UpdateReadForNewMessage, LogIsCausal, Exists
    <3>5. CallsJustified'
      BY <1>0, <2>1, OthersJustified DEF UpdateReadForNewMessage, CallsJustified
    <3> QED
      BY <3>4, <3>5
  <2> QED
    BY <1>3, <2>1, SameLogsCausal DEF Message, StartMessage, PostMessage
<1>4. ASSUME NEW c \in Calls, CancelAll(c) PROVE CausalInv'
  <2>1. ASSUME NEW u \in Users, StartCancelAll(c, u) PROVE CausalInv'
    <3> DEFINE ids == {t \in TransactionIds :
                         Exists(t) /\ Party(transactions[t], u) /\ IsActive(transactions[t])}
    <3>1. ASSUME NEW t \in ids
          PROVE  Justified(transactions[t], Len(transactions[t].actions) + 1, "cancelled")
      <4>1. transactions[t] \in TransactionDoc /\ Causal(transactions[t])
        BY <3>1 DEF TypeOK, Exists, LogIsCausal
      <4>2. PossibleState(transactions[t].state, transactions[t].transaction, "cancelled")
        BY <3>1 DEF IsActive, PossibleState, NextStates
      <4> QED
        BY <4>1, <4>2, StateJustifies
    <3>2. /\ transactions' = transactions /\ updating' = updating
          /\ cancelling'[c].ids = ids
          /\ \A d \in Calls \ {c} : cancelling'[d] = cancelling[d]
      BY <2>1 DEF StartCancelAll, TypeOK
    <3> HIDE DEF ids
    <3>3. CallsJustified'
      BY <3>1, <3>2 DEF CallsJustified
    <3> QED
      BY <3>2, <3>3 DEF LogIsCausal, Exists
  <2>2. ASSUME NEW t \in TransactionIds, CancelOne(c, t) PROVE CausalInv'
    <3>1. cancelling[c] \in CancelCall /\ cancelling[c] # Idle
      BY <2>2 DEF CancelOne, TypeOK, Idle
    <3>2. /\ "cancelled" \in States /\ cancelling[c].user \in Users /\ Exists(t)
          /\ WriteState(t, "cancelled", cancelling[c].user)
          /\ Justified(transactions[t], Len(transactions[t].actions) + 1, "cancelled")
      BY <2>2, <3>1 DEF CancelOne, States, CancelCall, CallsRefer, CallsJustified
    <3>3. LogIsCausal'
      BY <3>2, WriteStateCausal
    <3> DEFINE left == cancelling[c].ids \ {t}
               call == [cancelling[c] EXCEPT !.ids = left]
    <3>4. call.ids = left
      BY <3>1 DEF CancelCall
    <3>5. updating' = updating /\ cancelling'[c] \in {call, Idle}
          /\ \A d \in Calls \ {c} : cancelling'[d] = cancelling[d]
      BY <2>2 DEF CancelOne, TypeOK
    <3> HIDE DEF call
    <3>6. CallsJustified'
      BY <1>0, <3>1, <3>4, <3>5, OthersJustified DEF CallsJustified
    <3> QED
      BY <3>3, <3>6
  <2> QED
    BY <1>4, <2>1, <2>2 DEF CancelAll
<1>5. ASSUME NEW m \in moves, ChangeItemOwner(m) PROVE CausalInv'
  BY <1>5, SameLogsCausal DEF ChangeItemOwner, ReadItemToMove, RefuseMove, MoveItem, LoseMove, calls
<1>6. ASSUME NEW u \in Users, NEW t \in TransactionIds, MarkAsRead(u, t) PROVE CausalInv'
  <2> DEFINE read == [transactions[t].read EXCEPT ![RoleOf(transactions[t], u)] = TRUE]
  <2>1. Exists(t) /\ transactions[t] \in TransactionDoc
    BY <1>6 DEF MarkAsRead, TypeOK, Exists
  <2>2. read \in Read
    BY <2>1 DEF TransactionDoc, Read
  <2>3. transactions' = [transactions EXCEPT ![t].read = read]
    BY <1>6 DEF MarkAsRead
  <2> HIDE DEF read
  <2>4. LogIsCausal'
    BY <2>1, <2>2, <2>3, ReadWriteGrows
  <2>5. CallsJustified'
    BY <1>0, <1>6, OthersJustified DEF MarkAsRead, CallsJustified, calls
  <2> QED
    BY <2>4, <2>5
<1>7. ASSUME OwnerWrites PROVE CausalInv'
  BY <1>7, SameLogsCausal DEF OwnerWrites, EditItem, DeleteItem, calls
<1>8. CASE UNCHANGED vars
  BY <1>8, SameLogsCausal DEF vars
<1> QED
  BY <1>1, <1>2, <1>3, <1>4, <1>5, <1>6, <1>7, <1>8 DEF Next

\* Whatever the interleaving of the handlers, every action of every log follows from
\* an earlier one, and the state of a transaction is its last action.
THEOREM LogsAreCausal == Spec => []LogIsCausal
<1>1. Init => Typed /\ CausalInv
  BY InitTyped, InitCausal
<1>2. Typed /\ CausalInv /\ [Next]_vars => (Typed /\ CausalInv)'
  BY NextTyped, NextCausal
<1> QED
  BY <1>1, <1>2, PTL DEF Spec, CausalInv

-----------------------------------------------------------------------------
(* The chain of custody *)

\* A change of owner in progress is one of a one-way transaction, and as long as
\* the item is at the revision it read, the item is still the giver's.
MovesFromOwner ==
    \A m \in moves :
        LET doc == transactions[m.transaction]
            item == items[doc.item]
        IN  /\ OneWay(doc)
            /\ m.at = "put" /\ item # NoDoc =>
                  /\ m.rev <= item.rev
                  /\ m.rev = item.rev => item.owner = doc.owner

CustodyInv == CustodyChain /\ MovesFromOwner

\* The links of the chain only use what no step changes in a transaction.
LEMMA CustodySameItems ==
    ASSUME Typed, CustodyInv, LogsGrow, items' = items,
           \A m \in moves' : m \in moves \/ (m.at = "get" /\ OneWay(transactions[m.transaction])
                                            /\ Exists(m.transaction)
                                            /\ m.transaction \in TransactionIds)
    PROVE  CustodyInv'
<1>1. CustodyChain'
  <2> SUFFICES ASSUME NEW i \in Items, items[i] # NoDoc, NEW k \in 1..Len(items[i].history)
               PROVE  LET entry == items[i].history[k]
                          doc == transactions'[entry.transaction]
                      IN  /\ doc # NoDoc /\ doc.item = i /\ OneWay(doc)
                          /\ doc.owner = entry.previousOwner
                          /\ doc.requester = Custodian(items[i], k)
    BY DEF CustodyChain
  <2> DEFINE t == items[i].history[k].transaction
  <2>1. items[i].history[k] \in Move
    BY DEF Typed, TypeOK, ItemDoc
  <2>2. t \in TransactionIds /\ Exists(t)
    BY <2>1 DEF Move, CustodyInv, CustodyChain, Exists
  <2>3. Exists(t)' /\ Extends(transactions'[t], transactions[t])
    BY <2>2 DEF LogsGrow
  <2> QED
    BY <2>3 DEF CustodyInv, CustodyChain, Exists, Extends, OneWay
<1>2. MovesFromOwner'
  <2> SUFFICES ASSUME NEW m \in moves'
               PROVE  LET doc == transactions'[m.transaction]
                          item == items[doc.item]
                      IN  /\ OneWay(doc)
                          /\ m.at = "put" /\ item # NoDoc =>
                                /\ m.rev <= item.rev
                                /\ m.rev = item.rev => item.owner = doc.owner
    BY DEF MovesFromOwner
  <2>1. m.transaction \in TransactionIds /\ Exists(m.transaction)
    BY DEF Typed, TypeOK, CallsRefer, PendingMove
  <2>2. Extends(transactions'[m.transaction], transactions[m.transaction])
    BY <2>1 DEF LogsGrow
  <2> QED
    BY <2>1, <2>2 DEF CustodyInv, MovesFromOwner, Extends, OneWay
<1> QED
  BY <1>1, <1>2 DEF CustodyInv

\* The owner's writes raise the revision and leave the owner and the history alone.
LEMMA CustodyOwnerWrites ==
    ASSUME Typed, CustodyInv, OwnerWrites
    PROVE  CustodyInv'
<1> USE DEF Typed
<1>1. transactions' = transactions /\ moves' = moves
  BY DEF OwnerWrites, EditItem, DeleteItem
<1>2. \A i \in Items : items'[i] # NoDoc =>
         /\ items[i] # NoDoc
         /\ items'[i].owner = items[i].owner /\ items'[i].history = items[i].history
         /\ items'[i] = items[i] \/ items'[i].rev = items[i].rev + 1
  <2>1. ASSUME NEW u \in Users, NEW i \in Items, NEW mode \in Modes,
               NEW visibility \in Visibilities, EditItem(u, i, mode, visibility)
        PROVE  /\ items'[i].owner = items[i].owner /\ items'[i].history = items[i].history
               /\ items'[i].rev = items[i].rev + 1
               /\ items[i] # NoDoc
               /\ \A j \in Items \ {i} : items'[j] = items[j]
    <3>1. items[i] \in ItemDoc
      BY <2>1 DEF EditItem, TypeOK
    <3> QED
      BY <2>1, <3>1 DEF EditItem, TypeOK, ItemDoc
  <2>2. ASSUME NEW u \in Users, NEW i \in Items, DeleteItem(u, i)
        PROVE  items'[i] = NoDoc /\ \A j \in Items \ {i} : items'[j] = items[j]
    BY <2>2 DEF DeleteItem, TypeOK
  <2> QED
    BY <2>1, <2>2 DEF OwnerWrites
<1>3. CustodyChain'
  BY <1>1, <1>2 DEF CustodyInv, CustodyChain, Custodian
<1>4. MovesFromOwner'
  <2> SUFFICES ASSUME NEW m \in moves, m.at = "put", NEW i \in Items,
                      i = transactions[m.transaction].item, items'[i] # NoDoc
               PROVE  m.rev <= items'[i].rev /\ (m.rev = items'[i].rev => items'[i].owner = transactions[m.transaction].owner)
    <3>1. \A m \in moves : transactions[m.transaction].item \in Items
      BY DEF TypeOK, CallsRefer, Exists, PendingMove, TransactionDoc
    <3> QED
      BY <1>1, <3>1 DEF CustodyInv, MovesFromOwner
  <2>1. items[i] \in ItemDoc /\ m \in PendingMove
    BY <1>2 DEF TypeOK
  <2>2. m.rev <= items[i].rev /\ (m.rev = items[i].rev => items[i].owner = transactions[m.transaction].owner)
    BY <1>2 DEF CustodyInv, MovesFromOwner
  <2> QED
    BY <1>2, <2>1, <2>2 DEF ItemDoc, PendingMove
<1> QED
  BY <1>3, <1>4 DEF CustodyInv

\* What appending to a sequence gives.
LEMMA Appending ==
    ASSUME NEW S, NEW h \in Seq(S), NEW e \in S
    PROVE  /\ Len(Append(h, e)) = Len(h) + 1
           /\ Append(h, e)[Len(h) + 1] = e
           /\ \A k \in 1..Len(h) : Append(h, e)[k] = h[k]
OBVIOUS

\* A change of owner adds the link from the giver to the receiver.
LEMMA CustodyMove ==
    ASSUME Typed, CustodyInv, NEW m \in moves, ChangeItemOwner(m)
    PROVE  CustodyInv'
<1> USE DEF Typed
<1> DEFINE doc == transactions[m.transaction]
           i == doc.item
<1>0. /\ m \in PendingMove /\ m.transaction \in TransactionIds /\ doc # NoDoc
      /\ doc \in TransactionDoc /\ i \in Items
  BY DEF TypeOK, CallsRefer, Exists, PendingMove, TransactionDoc
<1>1. ASSUME ReadItemToMove(m) PROVE CustodyInv'
  <2> DEFINE n == [m EXCEPT !.at = "put", !.rev = items[i].rev]
  <2>1. items[i] \in ItemDoc
    BY <1>0, <1>1 DEF ReadItemToMove, TypeOK
  <2>2. n.transaction = m.transaction /\ n.rev = items[i].rev /\ items[i].rev \in Nat
    BY <1>0, <2>1 DEF PendingMove, ItemDoc
  <2>3. /\ moves' = (moves \ {m}) \cup {n} /\ items' = items /\ transactions' = transactions
        /\ items[i].owner = doc.owner
    BY <1>1 DEF ReadItemToMove
  <2> HIDE DEF n
  <2>4. MovesFromOwner'
    BY <2>2, <2>3 DEF CustodyInv, MovesFromOwner
  <2> QED
    BY <2>3, <2>4 DEF CustodyInv, CustodyChain
<1>2. ASSUME RefuseMove(m) \/ LoseMove(m) PROVE CustodyInv'
  BY <1>2 DEF RefuseMove, LoseMove, CustodyInv, CustodyChain, MovesFromOwner
<1>3. ASSUME MoveItem(m) PROVE CustodyInv'
  <2> DEFINE item == items[i]
             entry == [transaction |-> m.transaction, previousOwner |-> doc.owner,
                       confirmation |-> m.confirmation]
             new == Moved(item, doc, m)
             n == Len(item.history)
  <2>1. item \in ItemDoc /\ item # NoDoc /\ item.owner = doc.owner /\ OneWay(doc)
    BY <1>0, <1>3 DEF MoveItem, Fresh, TypeOK, CustodyInv, MovesFromOwner
  <2>2. /\ new.owner = doc.requester /\ new.rev = item.rev + 1
        /\ new.history = Append(item.history, entry)
    BY <2>1 DEF Moved, ItemDoc
  <2>3. entry.transaction = m.transaction /\ entry.previousOwner = doc.owner /\ entry \in Move
    BY <1>0 DEF Move, PendingMove, TransactionDoc
  <2>4. item.history \in Seq(Move) /\ n \in Nat /\ item.rev \in Nat
    BY <2>1 DEF ItemDoc
  <2>5. /\ items' = [items EXCEPT ![i] = new]
        /\ transactions' = transactions /\ moves' = moves \ {m}
    BY <1>3 DEF MoveItem
  <2> HIDE DEF entry, new
  <2>6. /\ items'[i] = new /\ \A j \in Items \ {i} : items'[j] = items[j]
    BY <1>0, <2>5 DEF TypeOK
  <2>7. /\ Len(new.history) = n + 1 /\ new.history[n + 1] = entry
        /\ \A k \in 1..n : new.history[k] = item.history[k]
    <3> DEFINE h == item.history
    <3>1. h \in Seq(Move) /\ entry \in Move /\ new.history = Append(h, entry) /\ n = Len(h)
      BY <2>2, <2>3, <2>4
    <3> HIDE DEF h, n
    <3>2. /\ Len(Append(h, entry)) = Len(h) + 1 /\ Append(h, entry)[Len(h) + 1] = entry
          /\ \A k \in 1..Len(h) : Append(h, entry)[k] = h[k]
      BY <3>1, Appending
    <3>3. /\ Len(new.history) = n + 1 /\ new.history[n + 1] = entry
          /\ \A k \in 1..n : new.history[k] = h[k]
      BY <3>1, <3>2
    <3> QED
      BY <3>3 DEF h
  <2>links. \A k \in 1..n :
            LET link == item.history[k]
                deal == transactions[link.transaction]
            IN  /\ deal # NoDoc /\ deal.item = i /\ OneWay(deal)
                /\ deal.owner = link.previousOwner
                /\ deal.requester = Custodian(item, k)
    BY <1>0, <2>1 DEF CustodyInv, CustodyChain
  <2>8. ASSUME NEW k \in 1..(n + 1)
        PROVE  LET link == new.history[k]
                   deal == transactions[link.transaction]
               IN  /\ deal # NoDoc /\ deal.item = i /\ OneWay(deal)
                   /\ deal.owner = link.previousOwner
                   /\ deal.requester = Custodian(new, k)
    <3>1. CASE k = n + 1
      BY <1>0, <2>1, <2>2, <2>3, <2>7, <3>1 DEF Custodian
    <3>2. CASE k = n /\ k # n + 1
      <4>1. k \in 1..n
        BY <2>4, <3>2
      <4>2. Custodian(new, k) = item.owner
        BY <2>1, <2>3, <2>4, <2>7, <3>2 DEF Custodian
      <4> QED
        BY <2>7, <2>links, <3>2, <4>1, <4>2 DEF Custodian
    <3>3. CASE k # n /\ k # n + 1
      <4>1. k \in 1..n /\ k + 1 \in 1..n
        BY <2>4, <3>3
      <4>2. Custodian(new, k) = Custodian(item, k)
        BY <2>4, <2>7, <3>3, <4>1 DEF Custodian
      <4> QED
        BY <2>7, <2>links, <4>1, <4>2
    <3> QED
      BY <3>1, <3>2, <3>3
  <2>9. CustodyChain'
    <3> SUFFICES ASSUME NEW j \in Items, items'[j] # NoDoc, NEW k \in 1..Len(items'[j].history)
                 PROVE  LET link == items'[j].history[k]
                            deal == transactions[link.transaction]
                        IN  /\ deal # NoDoc /\ deal.item = j /\ OneWay(deal)
                            /\ deal.owner = link.previousOwner
                            /\ deal.requester = Custodian(items'[j], k)
      BY <2>5 DEF CustodyChain
    <3>1. CASE j = i
      BY <2>6, <2>7, <2>8, <3>1
    <3>2. CASE j # i
      BY <2>6, <3>2 DEF CustodyInv, CustodyChain
    <3> QED
      BY <3>1, <3>2
  <2>10. MovesFromOwner'
    <3> SUFFICES ASSUME NEW l \in moves', l.at = "put", transactions[l.transaction].item = i
                 PROVE  l.rev <= new.rev /\ l.rev # new.rev
      BY <2>5, <2>6, <1>0 DEF CustodyInv, MovesFromOwner, TypeOK, CallsRefer, Exists, PendingMove,
                              TransactionDoc
    <3>1. l \in moves /\ l.rev \in Nat /\ l.rev <= item.rev
      BY <2>1, <2>5 DEF CustodyInv, MovesFromOwner, TypeOK, PendingMove
    <3> QED
      BY <2>2, <2>4, <3>1
  <2> QED
    BY <2>9, <2>10 DEF CustodyInv
<1> QED
  BY <1>1, <1>2, <1>3 DEF ChangeItemOwner

LEMMA InitCustody == Init => CustodyInv
<1> SUFFICES ASSUME Init PROVE CustodyInv
  OBVIOUS
<1>1. \A i \in Items : items[i].history = <<>>
  BY DEF Init
<1> QED
  BY <1>1 DEF Init, CustodyInv, CustodyChain, MovesFromOwner

LEMMA NextCustody ==
    ASSUME Typed, CustodyInv, [Next]_vars
    PROVE  CustodyInv'
<1> USE DEF Typed
<1>0. LogsGrow
  BY NextGrows
<1>1. ASSUME NEW t \in TransactionIds, NEW s, NEW u, Exists(t), WriteState(t, s, u), items' = items
      PROVE  CustodyInv'
  <2>1. \A m \in moves' : m \in moves \/ (m.at = "get" /\ OneWay(transactions[t]) /\ m.transaction = t)
    BY <1>1 DEF WriteState, SideEffects
  <2> QED
    BY <1>0, <1>1, <2>1, CustodySameItems
<1>2. ASSUME NEW c \in Calls, EndUpdate(c) PROVE CustodyInv'
  <2>1. updating[c] \in UpdateCall /\ updating[c] # Idle
    BY <1>2 DEF EndUpdate, TypeOK, Idle
  <2> QED
    BY <1>1, <1>2, <2>1 DEF EndUpdate, UpdateCall, CallsRefer
<1>3. ASSUME NEW c \in Calls, NEW t \in TransactionIds, CancelOne(c, t) PROVE CustodyInv'
  <2>1. cancelling[c] \in CancelCall /\ cancelling[c] # Idle
    BY <1>3 DEF CancelOne, TypeOK, Idle
  <2>2. Exists(t)
    BY <1>3, <2>1 DEF CancelOne, CallsRefer
  <2> QED
    BY <1>1, <1>3, <2>2 DEF CancelOne
<1>4. CASE items' = items /\ moves' = moves
  BY <1>0, <1>4, CustodySameItems
<1>5. ASSUME NEW c \in Calls, Request(c) \/ Update(c) \/ Message(c) \/ CancelAll(c)
      PROVE  CustodyInv'
  BY <1>2, <1>3, <1>4, <1>5 DEF Request, StartRequest, RequestBusyCheck, RequestExistingCheck,
     CreateTransaction, PostFirstMessage, Update, StartUpdate, UpdateBusyCheck, Message,
     StartMessage, PostMessage, UpdateReadForNewMessage, CancelAll, StartCancelAll
<1>6. ASSUME NEW u \in Users, NEW t \in TransactionIds, MarkAsRead(u, t) PROVE CustodyInv'
  BY <1>4, <1>6 DEF MarkAsRead
<1>7. CASE UNCHANGED vars
  BY <1>4, <1>7 DEF vars
<1> QED
  BY <1>5, <1>6, <1>7, CustodyMove, CustodyOwnerWrites DEF Next

\* Whatever the number of concurrent deals about an item, its history is a chain
\* of custody that ends with its owner: the owner check of changeItemDocOwner and
\* the database's revision check are enough, though nothing locks the item.
THEOREM CustodyIsChained == Spec => []CustodyChain
<1>1. Init => Typed /\ CustodyInv
  BY InitTyped, InitCustody
<1>2. Typed /\ CustodyInv /\ [Next]_vars => (Typed /\ CustodyInv)'
  BY NextTyped, NextCustody
<1> QED
  BY <1>1, <1>2, PTL DEF Spec, CustodyInv

-----------------------------------------------------------------------------
(* One move per confirmation *)

\* In the transactions database db, the n-th action of transaction t is a confirmation.
ConfirmedAt(db, t, n) ==
    /\ t \in TransactionIds /\ db[t] # NoDoc
    /\ n \in 1..Len(db[t].actions)
    /\ db[t].actions[n].action = "confirmed"

\* The transfers of history h come from distinct confirmations.
MovedOnce(db, h) ==
    \A k \in 1..Len(h) :
        /\ ConfirmedAt(db, h[k].transaction, h[k].confirmation)
        /\ \A l \in 1..Len(h) :
              h[l].transaction = h[k].transaction /\ h[l].confirmation = h[k].confirmation => l = k

\* None of the transfers of history h is still to do.
NoneLeft(pending, h) ==
    \A k \in 1..Len(h) : \A m \in pending :
        m.transaction = h[k].transaction => m.confirmation # h[k].confirmation

MovesApart(pending) ==
    \A m, n \in pending : n.transaction = m.transaction /\ n.confirmation = m.confirmation => n = m

OneMoveInv ==
    /\ \A m \in moves : ConfirmedAt(transactions, m.transaction, m.confirmation)
    /\ MovesApart(moves)
    /\ \A i \in Items : items[i] # NoDoc =>
          MovedOnce(transactions, items[i].history) /\ NoneLeft(moves, items[i].history)

LEMMA OneMoveInvSuffices == OneMoveInv => OneMovePerConfirmation
BY DEF OneMoveInv, MovesApart, MovedOnce, NoneLeft, ConfirmedAt, OneMovePerConfirmation

\* The invariant of the next state, part by part.
LEMMA OneMoveInvNext ==
    ASSUME \A m \in moves' : ConfirmedAt(transactions', m.transaction, m.confirmation),
           MovesApart(moves'),
           \A i \in Items : items'[i] # NoDoc =>
              MovedOnce(transactions', items'[i].history) /\ NoneLeft(moves', items'[i].history)
    PROVE  OneMoveInv'
BY DEF OneMoveInv, MovesApart, MovedOnce, NoneLeft, ConfirmedAt

\* Logs only grow, thus a confirmation stays where it is.
LEMMA StillConfirmed ==
    ASSUME Typed, LogsGrow, NEW t, NEW n, ConfirmedAt(transactions, t, n)
    PROVE  ConfirmedAt(transactions', t, n)
<1>1. t \in TransactionIds /\ Exists(t) /\ Len(transactions[t].actions) \in Nat
  BY DEF ConfirmedAt, Typed, TypeOK, Exists, TransactionDoc
<1>2. Exists(t)' /\ Extends(transactions'[t], transactions[t])
  BY <1>1 DEF LogsGrow
<1> QED
  BY <1>1, <1>2 DEF ConfirmedAt, Extends, Exists

LEMMA StillMovedOnce ==
    ASSUME Typed, LogsGrow, NEW h, MovedOnce(transactions, h)
    PROVE  MovedOnce(transactions', h)
BY StillConfirmed DEF MovedOnce

\* Steps that leave the histories as they are, or delete an item, and start no move.
LEMMA OneMoveKept ==
    ASSUME Typed, LogsGrow, OneMoveInv, moves' \subseteq moves,
           \A i \in Items : items'[i] # NoDoc => items[i] # NoDoc /\ items'[i].history = items[i].history
    PROVE  OneMoveInv'
<1>1. \A m \in moves' : ConfirmedAt(transactions', m.transaction, m.confirmation)
  BY StillConfirmed DEF OneMoveInv
<1>2. MovesApart(moves')
  BY DEF OneMoveInv, MovesApart
<1>3. ASSUME NEW i \in Items, items'[i] # NoDoc
      PROVE  MovedOnce(transactions', items'[i].history) /\ NoneLeft(moves', items'[i].history)
  <2>1. MovedOnce(transactions, items'[i].history) /\ NoneLeft(moves, items'[i].history)
    BY <1>3 DEF OneMoveInv
  <2> QED
    BY <2>1, StillMovedOnce DEF NoneLeft
<1> QED
  BY <1>1, <1>2, <1>3, OneMoveInvNext

\* A state update: the move that it starts comes from an action that was not there.
LEMMA OneMoveWriteState ==
    ASSUME Typed, LogsGrow, OneMoveInv, NEW t \in TransactionIds, NEW s \in States, NEW u \in Users,
           Exists(t), WriteState(t, s, u), items' = items
    PROVE  OneMoveInv'
<1> DEFINE n == Len(transactions[t].actions) + 1
<1>1. ~ConfirmedAt(transactions, t, n)
  BY DEF ConfirmedAt, Typed, TypeOK, Exists, TransactionDoc
<1>2. \A m \in moves' \ moves : m.transaction = t /\ m.confirmation = n /\ s = "confirmed"
  BY DEF WriteState, SideEffects
<1>3. \A m, l \in moves' \ moves : m = l
  BY DEF WriteState, SideEffects
<1>4. s = "confirmed" => ConfirmedAt(transactions', t, n)
  <2>1. transactions[t] \in TransactionDoc /\ Len(transactions[t].actions) \in Nat
    BY DEF Typed, TypeOK, Exists, TransactionDoc
  <2>2. /\ transactions'[t] = WithState(transactions[t], s, u)
        /\ transactions'[t] # NoDoc
    BY WriteStateKeeps DEF WriteState, Typed, TypeOK, Exists
  <2>3. /\ Len(transactions'[t].actions) = n
        /\ transactions'[t].actions[n].action = s
    BY <2>1, <2>2, WithStateExtends
  <2> QED
    BY <2>1, <2>2, <2>3 DEF ConfirmedAt
<1> HIDE DEF n
<1>5. \A m \in moves' : ConfirmedAt(transactions', m.transaction, m.confirmation)
  BY <1>2, <1>4, StillConfirmed DEF OneMoveInv
<1>6. \A m \in moves : ~(m.transaction = t /\ m.confirmation = n)
  BY <1>1 DEF OneMoveInv
<1>7. MovesApart(moves')
  BY <1>2, <1>3, <1>6 DEF OneMoveInv, MovesApart
<1>8. ASSUME NEW i \in Items, items'[i] # NoDoc
      PROVE  MovedOnce(transactions', items'[i].history) /\ NoneLeft(moves', items'[i].history)
  <2>1. MovedOnce(transactions, items'[i].history) /\ NoneLeft(moves, items'[i].history)
    BY <1>8 DEF OneMoveInv
  <2>2. \A k \in 1..Len(items'[i].history) :
           ~(items'[i].history[k].transaction = t /\ items'[i].history[k].confirmation = n)
    BY <1>1, <2>1 DEF MovedOnce
  <2> QED
    BY <1>2, <2>1, <2>2, StillMovedOnce DEF NoneLeft
<1> QED
  BY <1>5, <1>7, <1>8, OneMoveInvNext

\* The history that a move writes: one transfer more, which is not to do any more.
LEMMA OneMoreTransfer ==
    ASSUME NEW h \in Seq(Move), NEW m \in moves, NEW e \in Move,
           e.transaction = m.transaction, e.confirmation = m.confirmation,
           ConfirmedAt(transactions, m.transaction, m.confirmation), MovesApart(moves),
           MovedOnce(transactions, h), NoneLeft(moves, h)
    PROVE  MovedOnce(transactions, Append(h, e)) /\ NoneLeft(moves \ {m}, Append(h, e))
<1> DEFINE new == Append(h, e)
           n == Len(h)
<1>1. /\ n \in Nat /\ Len(new) = n + 1 /\ new[n + 1] = e
      /\ \A k \in 1..n : new[k] = h[k]
  BY Appending
<1>2. \A k \in 1..n : ~(h[k].transaction = e.transaction /\ h[k].confirmation = e.confirmation)
  BY DEF NoneLeft
<1>3. \A k \in 1..n : /\ ConfirmedAt(transactions, h[k].transaction, h[k].confirmation)
                      /\ \A l \in 1..n : h[l].transaction = h[k].transaction
                                         /\ h[l].confirmation = h[k].confirmation => l = k
  BY DEF MovedOnce
<1>4. \A k \in 1..n : \A l \in moves : l.transaction = h[k].transaction => l.confirmation # h[k].confirmation
  BY DEF NoneLeft
<1> HIDE DEF new, n
<1>5. \A k \in 1..(n + 1) : k = n + 1 \/ k \in 1..n
  BY <1>1
<1>6. MovedOnce(transactions, new)
  BY <1>1, <1>2, <1>3, <1>5 DEF MovedOnce
<1>7. NoneLeft(moves \ {m}, new)
  BY <1>1, <1>4, <1>5 DEF NoneLeft, MovesApart
<1> QED
  BY <1>6, <1>7 DEF new

\* A change of owner in progress: what it writes in the history it does not do again.
LEMMA OneMoveMoves ==
    ASSUME Typed, LogsGrow, OneMoveInv, NEW m \in moves, ChangeItemOwner(m)
    PROVE  OneMoveInv'
<1> DEFINE doc == transactions[m.transaction]
           i == doc.item
<1>0. /\ m \in PendingMove /\ doc \in TransactionDoc /\ i \in Items /\ transactions' = transactions
  BY DEF Typed, TypeOK, CallsRefer, Exists, PendingMove, TransactionDoc, ChangeItemOwner,
     ReadItemToMove, RefuseMove, MoveItem, LoseMove
<1>1. ASSUME ReadItemToMove(m) PROVE OneMoveInv'
  <2> DEFINE n == [m EXCEPT !.at = "put", !.rev = items[i].rev]
  <2>1. n.transaction = m.transaction /\ n.confirmation = m.confirmation
    BY <1>0 DEF PendingMove
  <2>2. moves' = (moves \ {m}) \cup {n} /\ items' = items
    BY <1>1 DEF ReadItemToMove
  <2> HIDE DEF n
  <2>3. MovesApart(moves')
    BY <2>1, <2>2 DEF OneMoveInv, MovesApart
  <2>4. \A j \in Items : items[j] # NoDoc => NoneLeft(moves', items[j].history)
    BY <2>1, <2>2 DEF OneMoveInv, NoneLeft
  <2> QED
    BY <1>0, <2>1, <2>2, <2>3, <2>4, OneMoveInvNext DEF OneMoveInv
<1>2. ASSUME RefuseMove(m) \/ LoseMove(m) PROVE OneMoveInv'
  BY <1>2, OneMoveKept DEF RefuseMove, LoseMove
<1>3. ASSUME MoveItem(m) PROVE OneMoveInv'
  <2> DEFINE entry == [transaction |-> m.transaction, previousOwner |-> doc.owner,
                       confirmation |-> m.confirmation]
             new == Moved(items[i], doc, m)
  <2>1. items[i] \in ItemDoc /\ items[i] # NoDoc
    BY <1>0, <1>3 DEF MoveItem, Fresh, Typed, TypeOK
  <2>2. new.history = Append(items[i].history, entry) /\ items[i].history \in Seq(Move)
    BY <2>1 DEF Moved, ItemDoc
  <2>3. entry.transaction = m.transaction /\ entry.confirmation = m.confirmation /\ entry \in Move
    BY <1>0 DEF Move, PendingMove, TransactionDoc
  <2>4. /\ items'[i] = new /\ \A j \in Items \ {i} : items'[j] = items[j]
        /\ moves' = moves \ {m}
    BY <1>0, <1>3 DEF MoveItem, Typed, TypeOK
  <2> HIDE DEF new, entry
  <2>5. /\ ConfirmedAt(transactions, m.transaction, m.confirmation) /\ MovesApart(moves)
        /\ MovedOnce(transactions, items[i].history) /\ NoneLeft(moves, items[i].history)
    BY <1>0, <2>1 DEF OneMoveInv
  <2>6. MovedOnce(transactions', items'[i].history) /\ NoneLeft(moves', items'[i].history)
    BY <1>0, <2>2, <2>3, <2>4, <2>5, OneMoreTransfer
  <2>7. \A j \in Items \ {i} : items'[j] # NoDoc =>
           MovedOnce(transactions', items'[j].history) /\ NoneLeft(moves', items'[j].history)
    BY <1>0, <2>4 DEF OneMoveInv, NoneLeft
  <2>8. /\ \A l \in moves' : ConfirmedAt(transactions', l.transaction, l.confirmation)
        /\ MovesApart(moves')
    BY <1>0, <2>4 DEF OneMoveInv, MovesApart
  <2> QED
    BY <2>6, <2>7, <2>8, OneMoveInvNext
<1> QED
  BY <1>1, <1>2, <1>3 DEF ChangeItemOwner

LEMMA InitOneMove == Init => OneMoveInv
<1> SUFFICES ASSUME Init PROVE OneMoveInv
  OBVIOUS
<1>1. \A i \in Items : items[i].history = <<>>
  BY DEF Init
<1> QED
  BY <1>1 DEF Init, OneMoveInv, MovesApart, MovedOnce, NoneLeft

LEMMA NextOneMove ==
    ASSUME Typed, OneMoveInv, [Next]_vars
    PROVE  OneMoveInv'
<1> USE DEF Typed
<1>0. LogsGrow
  BY NextGrows
<1>1. CASE items' = items /\ moves' = moves
  BY <1>0, <1>1, OneMoveKept
<1>2. ASSUME NEW c \in Calls, EndUpdate(c) PROVE OneMoveInv'
  <2>1. updating[c] \in UpdateCall /\ updating[c] # Idle
    BY <1>2 DEF EndUpdate, TypeOK, Idle
  <2> QED
    BY <1>0, <1>2, <2>1, OneMoveWriteState DEF EndUpdate, UpdateCall, CallsRefer
<1>3. ASSUME NEW c \in Calls, NEW t \in TransactionIds, CancelOne(c, t) PROVE OneMoveInv'
  <2>1. cancelling[c] \in CancelCall /\ cancelling[c] # Idle
    BY <1>3 DEF CancelOne, TypeOK, Idle
  <2>2. Exists(t) /\ cancelling[c].user \in Users /\ "cancelled" \in States
    BY <1>3, <2>1 DEF CancelOne, CallsRefer, CancelCall, States
  <2> QED
    BY <1>0, <1>3, <2>2, OneMoveWriteState DEF CancelOne
<1>4. ASSUME NEW c \in Calls, Request(c) \/ Update(c) \/ Message(c) \/ CancelAll(c)
      PROVE  OneMoveInv'
  BY <1>1, <1>2, <1>3, <1>4 DEF Request, StartRequest, RequestBusyCheck, RequestExistingCheck,
     CreateTransaction, PostFirstMessage, Update, StartUpdate, UpdateBusyCheck, Message,
     StartMessage, PostMessage, UpdateReadForNewMessage, CancelAll, StartCancelAll
<1>5. ASSUME OwnerWrites PROVE OneMoveInv'
  <2>1. \A i \in Items : items'[i] # NoDoc => items[i] # NoDoc /\ items'[i].history = items[i].history
    <3>1. ASSUME NEW u \in Users, NEW i \in Items, NEW mode \in Modes, NEW visibility \in Visibilities,
                 EditItem(u, i, mode, visibility)
          PROVE  items[i] # NoDoc /\ items'[i].history = items[i].history
                 /\ \A j \in Items \ {i} : items'[j] = items[j]
      <4>1. items[i] \in ItemDoc
        BY <3>1 DEF EditItem, TypeOK
      <4> QED
        BY <3>1, <4>1 DEF EditItem, TypeOK, ItemDoc
    <3>2. ASSUME NEW u \in Users, NEW i \in Items, DeleteItem(u, i)
          PROVE  items'[i] = NoDoc /\ \A j \in Items \ {i} : items'[j] = items[j]
      BY <3>2 DEF DeleteItem, TypeOK
    <3> QED
      BY <1>5, <3>1, <3>2 DEF OwnerWrites
  <2>2. moves' = moves
    BY <1>5 DEF OwnerWrites, EditItem, DeleteItem
  <2> QED
    BY <1>0, <2>1, <2>2, OneMoveKept
<1>6. ASSUME NEW u \in Users, NEW t \in TransactionIds, MarkAsRead(u, t) PROVE OneMoveInv'
  BY <1>1, <1>6 DEF MarkAsRead
<1>7. CASE UNCHANGED vars
  BY <1>1, <1>7 DEF vars
<1> QED
  BY <1>0, <1>4, <1>5, <1>6, <1>7, OneMoveMoves DEF Next

\* However many handlers run and however often a transaction is confirmed, an item moves at
\* most once for each confirmation.
THEOREM MovesOncePerConfirmation == Spec => []OneMovePerConfirmation
<1>1. Init => Typed /\ OneMoveInv
  BY InitTyped, InitOneMove
<1>2. Typed /\ OneMoveInv /\ [Next]_vars => (Typed /\ OneMoveInv)'
  BY NextTyped, NextOneMove
<1> QED
  BY <1>1, <1>2, OneMoveInvSuffices, PTL DEF Spec

-----------------------------------------------------------------------------
(* Read states *)


\* Someone has read transaction t of database db.
SomeoneHasRead(db, t) == \E r \in Roles : db[t].read[r]

\* An update leaves the transaction read by who made it.
LEMMA ReadByActor ==
    ASSUME NEW db, NEW t, NEW role \in Roles, db[t].read = ReadStates(role)
    PROVE  SomeoneHasRead(db, t)
BY DEF ReadStates, SomeoneHasRead

LEMMA WithStateRead ==
    ASSUME NEW doc \in TransactionDoc, NEW s \in States, NEW u \in Users
    PROVE  WithState(doc, s, u).read = ReadStates(RoleOf(doc, u))
BY DEF WithState, TransactionDoc

LEMMA WriteStateRead ==
    ASSUME Typed, NeverUnreadByBoth, NEW t \in TransactionIds, NEW s \in States, NEW u \in Users,
           Exists(t), WriteState(t, s, u)
    PROVE  NeverUnreadByBoth'
<1>1. transactions[t] \in TransactionDoc /\ RoleOf(transactions[t], u) \in Roles
  BY DEF Typed, TypeOK, Exists, RoleOf, Roles
<1>2. transactions'[t].read = ReadStates(RoleOf(transactions[t], u))
  BY <1>1, WithStateRead DEF WriteState, Typed, TypeOK
<1>3. SomeoneHasRead(transactions', t)
  BY <1>1, <1>2, ReadByActor
<1>4. \A r \in TransactionIds \ {t} : transactions'[r] = transactions[r]
  BY DEF WriteState, Typed, TypeOK
<1> QED
  BY <1>3, <1>4 DEF NeverUnreadByBoth, SomeoneHasRead, Exists

LEMMA NextRead ==
    ASSUME Typed, NeverUnreadByBoth, [Next]_vars
    PROVE  NeverUnreadByBoth'
<1> USE DEF Typed
<1>1. CASE transactions' = transactions
  BY <1>1 DEF NeverUnreadByBoth, Exists
<1>2. ASSUME NEW c \in Calls, NEW t \in TransactionIds, CreateTransaction(c, t)
      PROVE NeverUnreadByBoth'
  <2>1. transactions'[t].read = ReadStates("requester") /\ "requester" \in Roles
    BY <1>2 DEF CreateTransaction, NewTransactionDoc, TypeOK, Roles
  <2>2. SomeoneHasRead(transactions', t)
    BY <2>1, ReadByActor
  <2>3. \A r \in TransactionIds \ {t} : transactions'[r] = transactions[r]
    BY <1>2 DEF CreateTransaction, TypeOK
  <2> QED
    BY <2>2, <2>3 DEF NeverUnreadByBoth, SomeoneHasRead, Exists
<1>3. ASSUME NEW c \in Calls, EndUpdate(c) PROVE NeverUnreadByBoth'
  <2>1. updating[c] \in UpdateCall /\ updating[c] # Idle
    BY <1>3 DEF EndUpdate, TypeOK, Idle
  <2> QED
    BY <1>3, <2>1, WriteStateRead DEF EndUpdate, UpdateCall, CallsRefer
<1>4. ASSUME NEW c \in Calls, NEW t \in TransactionIds, CancelOne(c, t) PROVE NeverUnreadByBoth'
  <2>1. cancelling[c] \in CancelCall /\ cancelling[c] # Idle
    BY <1>4 DEF CancelOne, TypeOK, Idle
  <2>2. Exists(t) /\ cancelling[c].user \in Users /\ "cancelled" \in States
    BY <1>4, <2>1 DEF CancelOne, CallsRefer, CancelCall, States
  <2> QED
    BY <1>4, <2>2, WriteStateRead DEF CancelOne
<1>5. ASSUME NEW c \in Calls, UpdateReadForNewMessage(c) PROVE NeverUnreadByBoth'
  <2> DEFINE t == messaging[c].id
             role == RoleOf(transactions[t], messaging[c].user)
  <2>1. messaging[c] \in MessageCall /\ messaging[c] # Idle
    BY <1>5 DEF UpdateReadForNewMessage, TypeOK, Idle
  <2>2. t \in TransactionIds /\ transactions[t] \in TransactionDoc /\ role \in Roles
    BY <2>1 DEF MessageCall, CallsRefer, Exists, TypeOK, RoleOf, Roles
  <2>3. ASSUME transactions' = [transactions EXCEPT ![t].read = ReadStates(role)]
        PROVE  NeverUnreadByBoth'
    <3>1. transactions'[t].read = ReadStates(role)
      BY <2>2, <2>3 DEF TypeOK, TransactionDoc
    <3>2. SomeoneHasRead(transactions', t)
      BY <2>2, <3>1, ReadByActor
    <3>3. \A r \in TransactionIds \ {t} : transactions'[r] = transactions[r]
      BY <2>3 DEF TypeOK
    <3> QED
      BY <3>2, <3>3 DEF NeverUnreadByBoth, SomeoneHasRead, Exists
  <2> QED
    BY <1>1, <1>5, <2>3 DEF UpdateReadForNewMessage
<1>6. ASSUME NEW u \in Users, NEW t \in TransactionIds, MarkAsRead(u, t) PROVE NeverUnreadByBoth'
  <2> DEFINE role == RoleOf(transactions[t], u)
             read == [transactions[t].read EXCEPT ![role] = TRUE]
  <2>1. transactions[t] \in TransactionDoc /\ role \in Roles
    BY <1>6 DEF MarkAsRead, TypeOK, Exists, RoleOf, Roles
  <2>2. transactions[t].read \in [Roles -> BOOLEAN]
    BY <2>1 DEF TransactionDoc, Read
  <2>3. read[role] /\ transactions'[t].read = read
    BY <1>6, <2>1, <2>2 DEF MarkAsRead, TypeOK, TransactionDoc
  <2>4. SomeoneHasRead(transactions', t)
    BY <2>1, <2>3 DEF SomeoneHasRead
  <2>5. \A r \in TransactionIds \ {t} : transactions'[r] = transactions[r]
    BY <1>6 DEF MarkAsRead, TypeOK
  <2> QED
    BY <2>4, <2>5 DEF NeverUnreadByBoth, SomeoneHasRead, Exists
<1>7. ASSUME OwnerWrites \/ \E m \in moves : ChangeItemOwner(m) PROVE NeverUnreadByBoth'
  BY <1>1, <1>7 DEF OwnerWrites, EditItem, DeleteItem, ChangeItemOwner, ReadItemToMove, RefuseMove,
     MoveItem, LoseMove
<1>8. ASSUME NEW c \in Calls, Request(c) \/ Update(c) \/ Message(c) \/ CancelAll(c)
      PROVE  NeverUnreadByBoth'
  BY <1>1, <1>2, <1>3, <1>4, <1>5, <1>8 DEF Request, StartRequest, RequestBusyCheck,
     RequestExistingCheck, PostFirstMessage, Update, StartUpdate, UpdateBusyCheck, Message,
     StartMessage, PostMessage, CancelAll, StartCancelAll
<1>9. CASE UNCHANGED vars
  BY <1>1, <1>9 DEF vars
<1> QED
  BY <1>6, <1>7, <1>8, <1>9 DEF Next

\* However the updates, the messages and the marks of reading of the two users interleave,
\* one of them has always read the transaction.
THEOREM OneHasAlwaysRead == Spec => []NeverUnreadByBoth
<1>1. Init => Typed /\ NeverUnreadByBoth
  <2>1. Init => NeverUnreadByBoth
    BY DEF Init, NeverUnreadByBoth, Exists
  <2> QED
    BY <2>1, InitTyped
<1>2. Typed /\ NeverUnreadByBoth /\ [Next]_vars => (Typed /\ NeverUnreadByBoth)'
  BY NextTyped, NextRead
<1> QED
  BY <1>1, <1>2, PTL DEF Spec

-----------------------------------------------------------------------------
(* One request at a time: what a handler has read is then still true when  *)
(* it writes.  The changes of owner, the marks of reading and the owners'  *)
(* writes of their items still come between any two steps.                 *)

OneCall == \A c, d \in Calls : c = d

-----------------------------------------------------------------------------
(* What a handler has read is still true *)

\* The transactions of database db that keep item i busy, by their states.
Held(db, i) ==
    {t \in TransactionIds :
        /\ db[t] # NoDoc
        /\ db[t].item = i
        /\ \/ db[t].state = "accepted"
           \/ db[t].transaction = "lending" /\ db[t].state = "confirmed"}

\* The active transactions of u about item i.
Engaged(db, u, i) ==
    {t \in TransactionIds :
        db[t] # NoDoc /\ db[t].item = i /\ Party(db[t], u) /\ IsActive(db[t])}

\* A slot serves one call.
OneHandler ==
    \A c \in Calls :
        /\ requesting[c] # Idle => updating[c] = Idle /\ cancelling[c] = Idle
        /\ updating[c] # Idle => cancelling[c] = Idle

\* A request that passed its checks would pass them again.
RequestHolds(db, call) ==
    /\ call.user # call.owner
    /\ call.at \in {"existing", "post"} => Held(db, call.item) = {}
    /\ call.at = "post" => Engaged(db, call.user, call.item) = {}

\* And so would an update.
UpdateHolds(db, call) ==
    /\ PossibleState(db[call.id].state, db[call.id].transaction, call.state)
    /\ call.at = "write" /\ call.state = "accepted" => Held(db, db[call.id].item) = {}

CallsHold ==
    /\ \A c \in Calls : requesting[c] \in RequestCall => RequestHolds(transactions, requesting[c])
    /\ \A c \in Calls : updating[c] # Idle => UpdateHolds(transactions, updating[c])
    /\ \A c \in Calls : cancelling[c] # Idle => \A t \in cancelling[c].ids : IsActive(transactions[t])

HeldOnce(db) == \A i \in Items : \A t, s \in Held(db, i) : t = s

EngagedOnce(db) ==
    \A t, s \in TransactionIds :
        /\ db[t] # NoDoc /\ db[s] # NoDoc
        /\ db[t].item = db[s].item /\ db[t].requester = db[s].requester
        /\ IsActive(db[t]) /\ IsActive(db[s])
        => t = s

\* A transaction has one move in progress at most, and none before it is confirmed.
MovesAfterwards(db, pending) ==
    \A m \in pending :
        /\ db[m.transaction].state \notin {"requested", "accepted"}
        /\ \A n \in pending : n.transaction = m.transaction => n = m

SerialInv ==
    /\ OneHandler
    /\ CallsHold
    /\ HeldOnce(transactions)
    /\ EngagedOnce(transactions)
    /\ MovesAfterwards(transactions, moves)

\* The view byBusyItem reads the last action, which is the state.
LEMMA BusyIsHeld ==
    ASSUME LogIsCausal, NEW i
    PROVE  BusyTransactions(i) = Held(transactions, i)
BY DEF LogIsCausal, Causal, BusyTransactions, Held, Exists

LEMMA SerialInvSuffices ==
    ASSUME LogIsCausal, SerialInv
    PROVE  AtMostOneBusy /\ OneActiveRequest
BY BusyIsHeld DEF SerialInv, HeldOnce, EngagedOnce, AtMostOneBusy, OneActiveRequest, Exists

\* The states from which an update may come.
LEMMA Following ==
    ASSUME NEW seen \in States, NEW mode, NEW new, PossibleState(seen, mode, new)
    PROVE  /\ new # "requested"
           /\ new \in {"accepted", "declined"} => seen = "requested"
           /\ new = "confirmed" => seen = "accepted"
           /\ new = "returned" => seen = "confirmed" /\ mode = "lending"
           /\ new = "cancelled" => seen \in {"requested", "accepted", "confirmed"}
<1>1. CASE seen = "requested"
  BY <1>1 DEF PossibleState, NextStates
<1>2. CASE seen = "accepted"
  BY <1>2 DEF PossibleState, NextStates
<1>3. CASE seen = "confirmed"
  BY <1>3 DEF PossibleState, NextStates
<1>4. CASE seen \in {"declined", "returned", "cancelled"}
  BY <1>4 DEF PossibleState, NextStates
<1> QED
  BY <1>1, <1>2, <1>3, <1>4 DEF States

\* The same deals in the same states: messages and marks of reading change nothing else.
SameDeals(db2, db) ==
    \A t \in TransactionIds :
        /\ db2[t] # NoDoc <=> db[t] # NoDoc
        /\ db[t] # NoDoc =>
              /\ db2[t].item = db[t].item /\ db2[t].owner = db[t].owner
              /\ db2[t].requester = db[t].requester /\ db2[t].transaction = db[t].transaction
              /\ db2[t].state = db[t].state

LEMMA SameDealsHeld ==
    ASSUME NEW db2, NEW db, SameDeals(db2, db)
    PROVE  /\ \A i : Held(db2, i) = Held(db, i)
           /\ \A u, i : Engaged(db2, u, i) = Engaged(db, u, i)
           /\ HeldOnce(db) => HeldOnce(db2)
           /\ EngagedOnce(db) => EngagedOnce(db2)
<1>1. \A i : Held(db2, i) = Held(db, i)
  BY DEF SameDeals, Held
<1>2. \A u, i : Engaged(db2, u, i) = Engaged(db, u, i)
  BY DEF SameDeals, Engaged, Party, IsActive
<1>3. EngagedOnce(db) => EngagedOnce(db2)
  BY DEF SameDeals, EngagedOnce, IsActive
<1> QED
  BY <1>1, <1>2, <1>3 DEF HeldOnce

LEMMA SameDealsCalls ==
    ASSUME Typed, CallsHold, SameDeals(transactions', transactions)
    PROVE  /\ \A c \in Calls : requesting[c] \in RequestCall => RequestHolds(transactions', requesting[c])
           /\ \A c \in Calls : updating[c] # Idle => UpdateHolds(transactions', updating[c])
           /\ \A c \in Calls : cancelling[c] # Idle =>
                 \A t \in cancelling[c].ids : IsActive(transactions'[t])
<1>1. ASSUME NEW c \in Calls, requesting[c] \in RequestCall PROVE RequestHolds(transactions', requesting[c])
  BY <1>1, SameDealsHeld DEF CallsHold, RequestHolds
<1>2. ASSUME NEW c \in Calls, updating[c] # Idle PROVE UpdateHolds(transactions', updating[c])
  <2>1. updating[c].id \in TransactionIds /\ transactions[updating[c].id] # NoDoc
    BY <1>2 DEF Typed, TypeOK, CallsRefer, UpdateCall, Exists
  <2>2. /\ transactions'[updating[c].id].item = transactions[updating[c].id].item
        /\ transactions'[updating[c].id].transaction = transactions[updating[c].id].transaction
        /\ transactions'[updating[c].id].state = transactions[updating[c].id].state
    BY <2>1 DEF SameDeals
  <2> QED
    BY <1>2, <2>2, SameDealsHeld DEF CallsHold, UpdateHolds
<1>3. ASSUME NEW c \in Calls, cancelling[c] # Idle, NEW t \in cancelling[c].ids
      PROVE  IsActive(transactions'[t])
  <2>1. t \in TransactionIds /\ transactions[t] # NoDoc
    BY <1>3 DEF Typed, TypeOK, CallsRefer, CancelCall, Exists
  <2> QED
    BY <1>3, <2>1 DEF CallsHold, SameDeals, IsActive
<1> QED
  BY <1>1, <1>2, <1>3

\* The invariant of the next state, part by part.
LEMMA SerialInvNext ==
    ASSUME \A c \in Calls :
              /\ requesting'[c] # Idle => updating'[c] = Idle /\ cancelling'[c] = Idle
              /\ updating'[c] # Idle => cancelling'[c] = Idle,
           \A c \in Calls : requesting'[c] \in RequestCall => RequestHolds(transactions', requesting'[c]),
           \A c \in Calls : updating'[c] # Idle => UpdateHolds(transactions', updating'[c]),
           \A c \in Calls : cancelling'[c] # Idle =>
              \A t \in cancelling'[c].ids : IsActive(transactions'[t]),
           HeldOnce(transactions'), EngagedOnce(transactions'), MovesAfterwards(transactions', moves')
    PROVE  SerialInv'
BY DEF SerialInv, OneHandler, CallsHold, RequestHolds, UpdateHolds, PossibleState, Held, Engaged, HeldOnce, EngagedOnce,
       MovesAfterwards, Party, IsActive

\* A state update that the current state allows, of an item that is free if it accepts.
LEMMA SerialWriteState ==
    ASSUME Typed, SerialInv, NEW t \in TransactionIds, NEW s \in States, NEW u \in Users,
           Exists(t), WriteState(t, s, u),
           PossibleState(transactions[t].state, transactions[t].transaction, s),
           s = "accepted" => Held(transactions, transactions[t].item) = {}
    PROVE  /\ HeldOnce(transactions') /\ EngagedOnce(transactions')
           /\ MovesAfterwards(transactions', moves')
           /\ \A r \in TransactionIds \ {t} : transactions'[r] = transactions[r]
<1> DEFINE doc == transactions[t]
           new == WithState(doc, s, u)
<1>1. doc \in TransactionDoc /\ doc # NoDoc /\ doc.state \in States
  BY DEF Typed, TypeOK, Exists, TransactionDoc
<1>2. /\ new.item = doc.item /\ new.owner = doc.owner /\ new.requester = doc.requester
      /\ new.transaction = doc.transaction /\ new.state = s
  BY <1>1, WithStateExtends DEF Extends
<1>3. transactions'[t] = new /\ \A r \in TransactionIds \ {t} : transactions'[r] = transactions[r]
  BY DEF WriteState, Typed, TypeOK
<1>4. /\ s # "requested"
      /\ s = "accepted" => doc.state = "requested"
      /\ s = "confirmed" => doc.state = "accepted"
  BY <1>1, Following
<1> HIDE DEF new
<1>5. HeldOnce(transactions')
  <2> SUFFICES ASSUME NEW i \in Items, NEW r \in Held(transactions', i), NEW q \in Held(transactions', i)
               PROVE  r = q
    BY DEF HeldOnce
  <2>1. \A x \in Held(transactions', i) : x # t => x \in Held(transactions, i)
    BY <1>3 DEF Held
  <2>2. t \in Held(transactions', i) => i = doc.item /\ (s = "accepted" \/ t \in Held(transactions, i))
    BY <1>1, <1>2, <1>3, <1>4 DEF Held
  <2> QED
    BY <2>1, <2>2 DEF SerialInv, HeldOnce
<1>6. EngagedOnce(transactions')
  <2>1. IsActive(new) => IsActive(doc)
    BY <1>2, <1>4 DEF IsActive
  <2> QED
    BY <1>1, <1>2, <1>3, <2>1 DEF SerialInv, EngagedOnce
<1>7. MovesAfterwards(transactions', moves')
  <2>1. \A m \in moves : m.transaction = t => s \notin {"requested", "accepted", "confirmed"}
    BY <1>4 DEF SerialInv, MovesAfterwards
  <2>2. \A m \in moves : m.transaction \in TransactionIds
    BY DEF Typed, TypeOK, PendingMove
  <2>3. /\ \A m \in moves' \ moves : m.transaction = t /\ s = "confirmed"
        /\ \A m, n \in moves' \ moves : m = n
    BY DEF WriteState, SideEffects
  <2>4. ASSUME NEW m \in moves' PROVE transactions'[m.transaction].state \notin {"requested", "accepted"}
    <3>1. CASE m.transaction = t
      BY <1>2, <1>3, <2>1, <2>3, <3>1
    <3>2. CASE m.transaction # t
      BY <1>3, <2>2, <2>3, <3>2 DEF SerialInv, MovesAfterwards
    <3> QED
      BY <3>1, <3>2
  <2>5. \A m, n \in moves' : n.transaction = m.transaction => n = m
    BY <2>1, <2>3 DEF SerialInv, MovesAfterwards
  <2> QED
    BY <2>4, <2>5 DEF MovesAfterwards
<1> QED
  BY <1>3, <1>5, <1>6, <1>7

-----------------------------------------------------------------------------
(* Each step keeps it *)

\* Steps that leave the deals alone and end moves at most: what is left to show is that the
\* calls of the one slot hold.
LEMMA SerialSameDeals ==
    ASSUME Typed, SerialInv, SameDeals(transactions', transactions),
           \A m \in moves' : \E n \in moves : n.transaction = m.transaction,
           \A m, n \in moves' : n.transaction = m.transaction => n = m
    PROVE  HeldOnce(transactions') /\ EngagedOnce(transactions') /\ MovesAfterwards(transactions', moves')
<1>1. HeldOnce(transactions') /\ EngagedOnce(transactions')
  BY SameDealsHeld DEF SerialInv
<1>2. ASSUME NEW m \in moves' PROVE transactions'[m.transaction].state \notin {"requested", "accepted"}
  <2>1. PICK n \in moves : n.transaction = m.transaction
    OBVIOUS
  <2>2. /\ n.transaction \in TransactionIds /\ transactions[n.transaction] # NoDoc
        /\ transactions[n.transaction].state \notin {"requested", "accepted"}
    BY DEF Typed, TypeOK, CallsRefer, PendingMove, Exists, SerialInv, MovesAfterwards
  <2> QED
    BY <2>1, <2>2 DEF SameDeals
<1> QED
  BY <1>1, <1>2 DEF MovesAfterwards

\* Steps of the calls that only read and write the read states, of the moves and of the users.
LEMMA SerialQuiet ==
    ASSUME Typed, SerialInv, SameDeals(transactions', transactions),
           requesting' = requesting, updating' = updating, cancelling' = cancelling,
           \A m \in moves' : \E n \in moves : n.transaction = m.transaction,
           \A m, n \in moves' : n.transaction = m.transaction => n = m
    PROVE  SerialInv'
<1>1. /\ \A c \in Calls : requesting[c] \in RequestCall => RequestHolds(transactions', requesting[c])
      /\ \A c \in Calls : updating[c] # Idle => UpdateHolds(transactions', updating[c])
      /\ \A c \in Calls : cancelling[c] # Idle =>
            \A t \in cancelling[c].ids : IsActive(transactions'[t])
  BY SameDealsCalls DEF SerialInv
<1>2. \A c \in Calls :
         /\ requesting[c] # Idle => updating[c] = Idle /\ cancelling[c] = Idle
         /\ updating[c] # Idle => cancelling[c] = Idle
  BY DEF SerialInv, OneHandler
<1> QED
  BY <1>1, <1>2, SerialSameDeals, SerialInvNext

LEMMA NoDealChanged == ASSUME transactions' = transactions PROVE SameDeals(transactions', transactions)
BY DEF SameDeals

LEMMA SerialRequest ==
    ASSUME OneCall, Typed, LogIsCausal, SerialInv, NEW c \in Calls, Request(c)
    PROVE  SerialInv'
<1> USE DEF Typed
<1>0. \A d \in Calls : d = c
  BY DEF OneCall
<1>1. ASSUME moves' = moves, updating' = updating, cancelling' = cancelling, transactions' = transactions,
             requesting'[c] # Idle => updating[c] = Idle /\ cancelling[c] = Idle,
             requesting'[c] \in RequestCall => RequestHolds(transactions, requesting'[c])
      PROVE  SerialInv'
  <2>1. /\ HeldOnce(transactions') /\ EngagedOnce(transactions')
        /\ MovesAfterwards(transactions', moves')
    BY <1>1 DEF SerialInv
  <2>2. /\ \A d \in Calls : requesting'[d] \in RequestCall => RequestHolds(transactions', requesting'[d])
        /\ \A d \in Calls : updating'[d] # Idle => UpdateHolds(transactions', updating'[d])
        /\ \A d \in Calls : cancelling'[d] # Idle =>
              \A t \in cancelling'[d].ids : IsActive(transactions'[t])
    BY <1>0, <1>1 DEF SerialInv, CallsHold
  <2>3. \A d \in Calls :
           /\ requesting'[d] # Idle => updating'[d] = Idle /\ cancelling'[d] = Idle
           /\ updating'[d] # Idle => cancelling'[d] = Idle
    BY <1>0, <1>1 DEF SerialInv, OneHandler
  <2> QED
    BY <2>1, <2>2, <2>3, SerialInvNext
<1>2. ASSUME NEW u \in Users, NEW i \in Items, StartRequest(c, u, i) PROVE SerialInv'
  <2>1. /\ requesting'[c] = [at |-> "busy", user |-> u, item |-> i, owner |-> items[i].owner,
                             transaction |-> items[i].transaction]
        /\ items[i].owner # u
    BY <1>2 DEF StartRequest, TypeOK
  <2>2. RequestHolds(transactions, requesting'[c])
    BY <2>1 DEF RequestHolds
  <2> QED
    BY <1>1, <1>2, <2>2 DEF StartRequest, Free
<1>3. ASSUME RequestBusyCheck(c) PROVE SerialInv'
  <2>1. requesting[c] \in RequestCall /\ requesting[c] # Idle
    BY <1>3 DEF RequestBusyCheck, TypeOK, FirstMessageCall, Idle
  <2> DEFINE call == [requesting[c] EXCEPT !.at = "existing"]
  <2>2. /\ call.user = requesting[c].user /\ call.owner = requesting[c].owner
        /\ call.item = requesting[c].item /\ call.at = "existing"
    BY <2>1 DEF RequestCall
  <2>3. requesting'[c] = Idle \/ (requesting'[c] = call /\ Held(transactions, call.item) = {})
    BY <1>3, <2>2, BusyIsHeld DEF RequestBusyCheck, TypeOK
  <2> HIDE DEF call
  <2>4. requesting'[c] = call => RequestHolds(transactions, requesting'[c])
    BY <2>1, <2>2, <2>3 DEF RequestHolds, SerialInv, CallsHold, RequestCall, Idle
  <2>5. requesting'[c] \in RequestCall => requesting'[c] # Idle
    BY DEF RequestCall, Idle
  <2> QED
    BY <1>1, <1>3, <2>1, <2>3, <2>4, <2>5 DEF RequestBusyCheck, SerialInv, OneHandler
<1>4. ASSUME RequestExistingCheck(c) PROVE SerialInv'
  <2>1. requesting[c] \in RequestCall /\ requesting[c] # Idle /\ requesting[c].at = "existing"
    BY <1>4 DEF RequestExistingCheck, TypeOK, FirstMessageCall, Idle
  <2> DEFINE call == [requesting[c] EXCEPT !.at = "post"]
  <2>2. /\ call.user = requesting[c].user /\ call.owner = requesting[c].owner
        /\ call.item = requesting[c].item /\ call.at = "post"
    BY <2>1 DEF RequestCall
  <2>3. requesting'[c] = Idle \/ (requesting'[c] = call /\ Engaged(transactions, call.user, call.item) = {})
    BY <1>4, <2>2 DEF RequestExistingCheck, TypeOK, ActiveTransactions, Engaged, Exists
  <2> HIDE DEF call
  <2>h. call.user # call.owner /\ Held(transactions, call.item) = {}
    <3>1. RequestHolds(transactions, requesting[c])
      BY <2>1 DEF SerialInv, CallsHold
    <3> QED
      BY <2>1, <2>2, <3>1 DEF RequestHolds
  <2>4. requesting'[c] = call => RequestHolds(transactions, requesting'[c])
    BY <2>2, <2>3, <2>h DEF RequestHolds, RequestCall, Idle
  <2>5. requesting'[c] \in RequestCall => requesting'[c] # Idle
    BY DEF RequestCall, Idle
  <2> QED
    BY <1>1, <1>4, <2>1, <2>3, <2>4, <2>5 DEF RequestExistingCheck, SerialInv, OneHandler
<1>5. ASSUME NEW t \in TransactionIds, CreateTransaction(c, t) PROVE SerialInv'
  <2> DEFINE call == requesting[c]
             doc == NewTransactionDoc(call)
  <2>1. call \in RequestCall /\ call # Idle /\ call.at = "post"
    BY <1>5 DEF CreateTransaction, TypeOK, FirstMessageCall, Idle
  <2>2. /\ doc.item = call.item /\ doc.owner = call.owner /\ doc.requester = call.user
        /\ doc.transaction = call.transaction /\ doc.state = "requested"
    BY DEF NewTransactionDoc
  <2>3. /\ transactions'[t] = doc /\ transactions[t] = NoDoc
        /\ \A r \in TransactionIds \ {t} : transactions'[r] = transactions[r]
    BY <1>5 DEF CreateTransaction, TypeOK, Exists
  <2>4. /\ Held(transactions, call.item) = {} /\ Engaged(transactions, call.user, call.item) = {}
    BY <2>1 DEF SerialInv, CallsHold, RequestHolds
  <2>5. updating[c] = Idle /\ cancelling[c] = Idle
    BY <2>1 DEF SerialInv, OneHandler
  <2>6. updating' = updating /\ cancelling' = cancelling /\ moves' = moves
    BY <1>5 DEF CreateTransaction
  <2>7. requesting'[c] = [at |-> "message", id |-> t]
    BY <1>5 DEF CreateTransaction, TypeOK
  <2>8. requesting'[c] \notin RequestCall
    BY <2>7 DEF RequestCall
  <2> HIDE DEF doc, call
  <2>9. HeldOnce(transactions')
    <3>1. \A i \in Items : \A r \in Held(transactions', i) : r \in Held(transactions, i)
      BY <2>2, <2>3 DEF Held
    <3> QED
      BY <3>1 DEF SerialInv, HeldOnce
  <2>10. EngagedOnce(transactions')
    <3>1. \A r \in TransactionIds : transactions[r] # NoDoc /\ transactions[r].item = doc.item
             /\ transactions[r].requester = doc.requester => ~IsActive(transactions[r])
      BY <2>2, <2>4 DEF Engaged, Party
    <3> QED
      BY <2>3, <3>1 DEF SerialInv, EngagedOnce
  <2>11. MovesAfterwards(transactions', moves')
    <3>1. \A m \in moves : m.transaction \in TransactionIds /\ m.transaction # t
      BY <2>3 DEF TypeOK, CallsRefer, PendingMove, Exists
    <3> QED
      BY <2>3, <2>6, <3>1 DEF SerialInv, MovesAfterwards
  <2> QED
    BY <1>0, <2>5, <2>6, <2>8, <2>9, <2>10, <2>11, SerialInvNext
<1>6. ASSUME PostFirstMessage(c) PROVE SerialInv'
  <2>1. requesting'[c] = Idle /\ Idle \notin RequestCall
    BY <1>6 DEF PostFirstMessage, TypeOK, RequestCall, Idle
  <2> QED
    BY <1>1, <1>6, <2>1 DEF PostFirstMessage
<1> QED
  BY <1>2, <1>3, <1>4, <1>5, <1>6 DEF Request

LEMMA SerialUpdate ==
    ASSUME OneCall, Typed, LogIsCausal, SerialInv, NEW c \in Calls, Update(c)
    PROVE  SerialInv'
<1> USE DEF Typed
<1>0. \A d \in Calls : d = c
  BY DEF OneCall
<1>1. ASSUME moves' = moves, requesting' = requesting, cancelling' = cancelling, transactions' = transactions,
             updating'[c] # Idle => requesting[c] = Idle /\ cancelling[c] = Idle,
             updating'[c] # Idle => UpdateHolds(transactions, updating'[c])
      PROVE  SerialInv'
  <2>1. /\ HeldOnce(transactions') /\ EngagedOnce(transactions')
        /\ MovesAfterwards(transactions', moves')
    BY <1>1 DEF SerialInv
  <2>2. /\ \A d \in Calls : requesting'[d] \in RequestCall => RequestHolds(transactions', requesting'[d])
        /\ \A d \in Calls : updating'[d] # Idle => UpdateHolds(transactions', updating'[d])
        /\ \A d \in Calls : cancelling'[d] # Idle =>
              \A t \in cancelling'[d].ids : IsActive(transactions'[t])
    BY <1>0, <1>1 DEF SerialInv, CallsHold
  <2>3. \A d \in Calls :
           /\ requesting'[d] # Idle => updating'[d] = Idle /\ cancelling'[d] = Idle
           /\ updating'[d] # Idle => cancelling'[d] = Idle
    BY <1>0, <1>1 DEF SerialInv, OneHandler
  <2> QED
    BY <2>1, <2>2, <2>3, SerialInvNext
<1>2. ASSUME NEW u \in Users, NEW t \in TransactionIds, NEW s \in States, StartUpdate(c, u, t, s)
      PROVE SerialInv'
  <2>1. /\ updating'[c] = [at |-> IF s = "accepted" THEN "busy" ELSE "write", user |-> u, id |-> t,
                           state |-> s]
        /\ PossibleState(transactions[t].state, transactions[t].transaction, s)
    BY <1>2 DEF StartUpdate, TypeOK
  <2>2. UpdateHolds(transactions, updating'[c])
    BY <2>1 DEF UpdateHolds
  <2> QED
    BY <1>1, <1>2, <2>2 DEF StartUpdate, Free
<1>3. ASSUME UpdateBusyCheck(c) PROVE SerialInv'
  <2>1. updating[c] \in UpdateCall /\ updating[c] # Idle
    BY <1>3 DEF UpdateBusyCheck, TypeOK, Idle
  <2> DEFINE call == [updating[c] EXCEPT !.at = "write"]
  <2>2. call.id = updating[c].id /\ call.state = updating[c].state
    BY <2>1 DEF UpdateCall
  <2>3. updating'[c] = Idle \/ (updating'[c] = call /\ Held(transactions, transactions[call.id].item) = {})
    BY <1>3, <2>2, BusyIsHeld DEF UpdateBusyCheck, TypeOK
  <2>4. UpdateHolds(transactions, updating[c])
    BY <2>1 DEF SerialInv, CallsHold
  <2> HIDE DEF call
  <2>5. updating'[c] # Idle => UpdateHolds(transactions, updating'[c])
    BY <2>2, <2>3, <2>4 DEF UpdateHolds
  <2> QED
    BY <1>1, <1>3, <2>1, <2>5 DEF UpdateBusyCheck, SerialInv, OneHandler
<1>4. ASSUME EndUpdate(c) PROVE SerialInv'
  <2> DEFINE t == updating[c].id
             s == updating[c].state
             u == updating[c].user
  <2>1. updating[c] \in UpdateCall /\ updating[c] # Idle /\ updating[c].at = "write"
    BY <1>4 DEF EndUpdate, TypeOK, Idle
  <2>2. t \in TransactionIds /\ s \in States /\ u \in Users /\ Exists(t) /\ WriteState(t, s, u)
    BY <1>4, <2>1 DEF EndUpdate, UpdateCall, CallsRefer
  <2>3. UpdateHolds(transactions, updating[c])
    BY <2>1 DEF SerialInv, CallsHold
  <2>4. /\ PossibleState(transactions[t].state, transactions[t].transaction, s)
        /\ s = "accepted" => Held(transactions, transactions[t].item) = {}
    BY <2>1, <2>3 DEF UpdateHolds
  <2> HIDE DEF t, s, u
  <2>5. /\ HeldOnce(transactions') /\ EngagedOnce(transactions')
        /\ MovesAfterwards(transactions', moves')
    BY <2>2, <2>4, SerialWriteState
  <2>6. /\ requesting'[c] = Idle /\ updating'[c] = Idle /\ cancelling'[c] = Idle
        /\ Idle \notin RequestCall
    BY <1>4, <2>1 DEF EndUpdate, TypeOK, SerialInv, OneHandler, RequestCall, Idle
  <2> QED
    BY <1>0, <2>5, <2>6, SerialInvNext
<1> QED
  BY <1>2, <1>3, <1>4 DEF Update

LEMMA SerialCancelAll ==
    ASSUME OneCall, Typed, LogIsCausal, SerialInv, NEW c \in Calls, CancelAll(c)
    PROVE  SerialInv'
<1> USE DEF Typed
<1>0. /\ \A d \in Calls : d = c
      /\ Idle \notin RequestCall
  BY DEF OneCall, RequestCall, Idle
<1>1. ASSUME NEW u \in Users, StartCancelAll(c, u) PROVE SerialInv'
  <2> DEFINE ids == {t \in TransactionIds :
                       Exists(t) /\ Party(transactions[t], u) /\ IsActive(transactions[t])}
  <2>1. /\ cancelling'[c] = [at |-> "write", user |-> u, ids |-> ids]
        /\ requesting'[c] = Idle /\ updating'[c] = Idle
        /\ transactions' = transactions /\ moves' = moves
    BY <1>1 DEF StartCancelAll, TypeOK, Free
  <2>2. \A d \in Calls : cancelling'[d] # Idle =>
           \A t \in cancelling'[d].ids : IsActive(transactions'[t])
    BY <1>0, <2>1
  <2>3. /\ HeldOnce(transactions') /\ EngagedOnce(transactions')
        /\ MovesAfterwards(transactions', moves')
    BY <2>1 DEF SerialInv
  <2> QED
    BY <1>0, <2>1, <2>2, <2>3, SerialInvNext
<1>2. ASSUME NEW t \in TransactionIds, CancelOne(c, t) PROVE SerialInv'
  <2> DEFINE u == cancelling[c].user
             left == cancelling[c].ids \ {t}
             call == [cancelling[c] EXCEPT !.ids = left]
  <2>1. cancelling[c] \in CancelCall /\ cancelling[c] # Idle
    BY <1>2 DEF CancelOne, TypeOK, Idle
  <2>2. u \in Users /\ Exists(t) /\ WriteState(t, "cancelled", u) /\ "cancelled" \in States
    BY <1>2, <2>1 DEF CancelOne, CancelCall, CallsRefer, States
  <2>3. PossibleState(transactions[t].state, transactions[t].transaction, "cancelled")
    <3>1. IsActive(transactions[t])
      BY <1>2, <2>1 DEF CancelOne, SerialInv, CallsHold
    <3> QED
      BY <3>1 DEF IsActive, PossibleState, NextStates
  <2>4. /\ HeldOnce(transactions') /\ EngagedOnce(transactions')
        /\ MovesAfterwards(transactions', moves')
        /\ \A r \in TransactionIds \ {t} : transactions'[r] = transactions[r]
    BY <2>2, <2>3, SerialWriteState
  <2>5. requesting'[c] = Idle /\ updating'[c] = Idle
    BY <1>2, <2>1 DEF CancelOne, SerialInv, OneHandler
  <2>6. cancelling'[c] # Idle => cancelling'[c] = call
    BY <1>2 DEF CancelOne, TypeOK
  <2>7. call.ids = left
    BY <2>1 DEF CancelCall
  <2>8. \A r \in left : r \in TransactionIds \ {t} /\ IsActive(transactions[r])
    BY <2>1 DEF SerialInv, CallsHold, CancelCall
  <2> HIDE DEF call, left
  <2>9. \A d \in Calls : cancelling'[d] # Idle =>
           \A r \in cancelling'[d].ids : IsActive(transactions'[r])
    BY <1>0, <2>4, <2>6, <2>7, <2>8
  <2> QED
    BY <1>0, <2>4, <2>5, <2>9, SerialInvNext
<1> QED
  BY <1>1, <1>2 DEF CancelAll

\* Writes of the read states leave the deals alone.
LEMMA SerialRead ==
    ASSUME Typed, NEW t \in TransactionIds, Exists(t), NEW read \in Read,
           transactions' = [transactions EXCEPT ![t].read = read]
    PROVE  SameDeals(transactions', transactions)
<1> DEFINE doc == transactions[t]
           new == [doc EXCEPT !.read = read]
<1>1. doc \in TransactionDoc /\ doc # NoDoc
  BY DEF Typed, TypeOK, Exists
<1>2. new \in TransactionDoc /\ new # NoDoc
  BY <1>1, NoDocAssumption DEF TransactionDoc
<1>3. /\ new.item = doc.item /\ new.owner = doc.owner /\ new.requester = doc.requester
      /\ new.transaction = doc.transaction /\ new.state = doc.state
  BY <1>1 DEF TransactionDoc
<1>4. transactions'[t] = new /\ \A r \in TransactionIds \ {t} : transactions'[r] = transactions[r]
  BY DEF Typed, TypeOK
<1> HIDE DEF new
<1> QED
  BY <1>1, <1>2, <1>3, <1>4 DEF SameDeals

LEMMA MessageReads ==
    ASSUME Typed, NEW c \in Calls, Message(c)
    PROVE  SameDeals(transactions', transactions)
<1> USE DEF Typed
<1>1. CASE transactions' = transactions
  BY <1>1, NoDealChanged
<1>2. ASSUME UpdateReadForNewMessage(c) PROVE SameDeals(transactions', transactions)
  <2> DEFINE t == messaging[c].id
             wanted == ReadStates(RoleOf(transactions[t], messaging[c].user))
  <2>1. messaging[c] \in MessageCall /\ messaging[c] # Idle
    BY <1>2 DEF UpdateReadForNewMessage, TypeOK, Idle
  <2>2. t \in TransactionIds /\ Exists(t) /\ wanted \in Read
    BY <2>1 DEF MessageCall, CallsRefer, ReadStates, Read
  <2> QED
    BY <1>1, <1>2, <2>2, SerialRead DEF UpdateReadForNewMessage
<1> QED
  BY <1>1, <1>2 DEF Message, StartMessage, PostMessage

LEMMA MarkReads ==
    ASSUME Typed, NEW u \in Users, NEW t \in TransactionIds, MarkAsRead(u, t)
    PROVE  SameDeals(transactions', transactions)
<1> DEFINE read == [transactions[t].read EXCEPT ![RoleOf(transactions[t], u)] = TRUE]
<1>1. Exists(t) /\ transactions[t] \in TransactionDoc
  BY DEF MarkAsRead, Typed, TypeOK, Exists
<1>2. read \in Read
  BY <1>1 DEF TransactionDoc, Read
<1>3. transactions' = [transactions EXCEPT ![t].read = read]
  BY DEF MarkAsRead
<1> QED
  BY <1>1, <1>2, <1>3, SerialRead

\* A change of owner touches no deal, and leaves its move or ends it.
LEMMA MovesEnd ==
    ASSUME Typed, SerialInv, NEW m \in moves, ChangeItemOwner(m)
    PROVE  /\ SameDeals(transactions', transactions) /\ UNCHANGED calls
           /\ \A l \in moves' : \E n \in moves : n.transaction = l.transaction
           /\ \A l, n \in moves' : n.transaction = l.transaction => n = l
<1>1. SameDeals(transactions', transactions) /\ UNCHANGED calls
  BY NoDealChanged DEF ChangeItemOwner, ReadItemToMove, RefuseMove, MoveItem, LoseMove
<1>2. \A l, n \in moves : n.transaction = l.transaction => n = l
  BY DEF SerialInv, MovesAfterwards
<1>3. CASE moves' = moves \ {m}
  BY <1>1, <1>2, <1>3
<1>4. ASSUME ReadItemToMove(m) PROVE \E n : moves' = (moves \ {m}) \cup {n} /\ n.transaction = m.transaction
  <2> DEFINE n == [m EXCEPT !.at = "put", !.rev = items[transactions[m.transaction].item].rev]
  <2>1. n.transaction = m.transaction
    BY DEF Typed, TypeOK, PendingMove
  <2>2. moves' = (moves \ {m}) \cup {n}
    BY <1>4 DEF ReadItemToMove
  <2> HIDE DEF n
  <2> QED
    BY <2>1, <2>2
<1>5. ASSUME NEW n, moves' = (moves \ {m}) \cup {n}, n.transaction = m.transaction
      PROVE  /\ \A l \in moves' : \E k \in moves : k.transaction = l.transaction
             /\ \A l, k \in moves' : k.transaction = l.transaction => k = l
  BY <1>2, <1>5
<1> QED
  BY <1>1, <1>2, <1>3, <1>4, <1>5 DEF ChangeItemOwner, RefuseMove, MoveItem, LoseMove

LEMMA InitSerial == Init => SerialInv
<1>1. Idle \notin RequestCall
  BY DEF RequestCall, Idle
<1> QED
  BY <1>1 DEF Init, SerialInv, OneHandler, CallsHold, HeldOnce, EngagedOnce, Held, MovesAfterwards

LEMMA NextSerial ==
    ASSUME OneCall, Typed, LogIsCausal, SerialInv, [Next]_vars
    PROVE  SerialInv'
<1>0. \A m, n \in moves : n.transaction = m.transaction => n = m
  BY DEF SerialInv, MovesAfterwards
<1>1. ASSUME SameDeals(transactions', transactions), UNCHANGED <<requesting, updating, cancelling>>,
             moves' = moves
      PROVE  SerialInv'
  BY <1>0, <1>1, SerialQuiet
<1>2. ASSUME NEW c \in Calls, Message(c) PROVE SerialInv'
  BY <1>1, <1>2, MessageReads DEF Message, StartMessage, PostMessage, UpdateReadForNewMessage
<1>3. ASSUME NEW m \in moves, ChangeItemOwner(m) PROVE SerialInv'
  BY <1>3, MovesEnd, SerialQuiet DEF calls
<1>4. ASSUME NEW u \in Users, NEW t \in TransactionIds, MarkAsRead(u, t) PROVE SerialInv'
  BY <1>1, <1>4, MarkReads DEF MarkAsRead, calls
<1>5. ASSUME OwnerWrites PROVE SerialInv'
  BY <1>1, <1>5, NoDealChanged DEF OwnerWrites, EditItem, DeleteItem, calls
<1>6. CASE UNCHANGED vars
  BY <1>1, <1>6, NoDealChanged DEF vars
<1> QED
  BY <1>2, <1>3, <1>4, <1>5, <1>6, SerialRequest, SerialUpdate, SerialCancelAll DEF Next

Serial == Typed /\ CausalInv /\ CustodyInv /\ SerialInv

LEMMA AlwaysSerial == ASSUME OneCall PROVE Spec => []Serial
<1>1. Init => Serial
  BY InitTyped, InitCausal, InitCustody, InitSerial DEF Serial
<1>2. Serial /\ [Next]_vars => Serial'
  BY NextTyped, NextCausal, NextCustody, NextSerial DEF Serial, CausalInv
<1> QED
  BY <1>1, <1>2, PTL DEF Spec

\* When requests are handled one at a time, an item is kept busy by one transaction at most,
\* though the busy view is read one step before the acceptance is written.
THEOREM BusyOnce == ASSUME OneCall PROVE Spec => []AtMostOneBusy
<1>1. Serial => AtMostOneBusy
  BY SerialInvSuffices DEF Serial, CausalInv
<1> QED
  BY <1>1, AlwaysSerial, PTL

\* When requests are handled one at a time, a user has at most one active request about an item.
THEOREM RequestedOnce == ASSUME OneCall PROVE Spec => []OneActiveRequest
<1>1. Serial => OneActiveRequest
  BY SerialInvSuffices DEF Serial, CausalInv
<1> QED
  BY <1>1, AlwaysSerial, PTL

-----------------------------------------------------------------------------
(* The protocol is implemented *)

\* The deal that a document of the database stands for.
DealOf(doc) ==
    IF doc = NoDoc THEN NoDoc
    ELSE [item |-> doc.item, owner |-> doc.owner, requester |-> doc.requester,
          kind |-> doc.transaction, state |-> doc.state]

LEMMA DealIs ==
    /\ Deal = [t \in TransactionIds |-> DealOf(transactions[t])]
    /\ Deal' = [t \in TransactionIds |-> DealOf(transactions'[t])]
BY DEF Deal, DealOf, Exists

\* Only documents stand for deals.
LEMMA DealOfDoc ==
    ASSUME Typed, NEW t \in TransactionIds
    PROVE  /\ Deal[t] = DealOf(transactions[t])
           /\ Deal[t] # NoDoc <=> transactions[t] # NoDoc
           /\ transactions[t] # NoDoc =>
                 /\ Deal[t].item = transactions[t].item /\ Deal[t].owner = transactions[t].owner
                 /\ Deal[t].requester = transactions[t].requester
                 /\ Deal[t].kind = transactions[t].transaction
                 /\ Deal[t].state = transactions[t].state
                 /\ Deal[t].kind \in Requestable
<1>1. Deal[t] = DealOf(transactions[t])
  BY DealIs
<1>2. CASE transactions[t] = NoDoc
  BY <1>1, <1>2 DEF DealOf
<1>3. CASE transactions[t] # NoDoc
  <2>1. transactions[t] \in TransactionDoc
    BY <1>3 DEF Typed, TypeOK
  <2>2. Deal[t] \in DealDoc
    BY <1>1, <1>3, <2>1 DEF DealOf, DealDoc, TransactionDoc
  <2> QED
    BY <1>1, <1>3, <2>1, <2>2, NoDocAssumption DEF DealOf, TransactionDoc
<1> QED
  BY <1>2, <1>3

\* The transactions that keep an item busy are the holders of the protocol.
LEMMA HoldersAreHeld ==
    ASSUME Typed, NEW i
    PROVE  Protocol!Holders(i) = Held(transactions, i)
BY DealOfDoc DEF Protocol!Holders, Protocol!Made, Held

LEMMA OpenIsActive ==
    ASSUME Typed, NEW t \in TransactionIds, Exists(t)
    PROVE  Protocol!Open(t) <=> IsActive(transactions[t])
<1>1. Protocol!Holders(Deal[t].item) = Held(transactions, transactions[t].item)
  BY HoldersAreHeld, DealOfDoc DEF Exists
<1> QED
  BY <1>1, DealOfDoc DEF Protocol!Open, Held, IsActive, Exists

LEMMA SameDealsRefine ==
    ASSUME Typed, Typed', SameDeals(transactions', transactions)
    PROVE  Deal' = Deal
<1>1. \A t \in TransactionIds : DealOf(transactions'[t]) = DealOf(transactions[t])
  BY DEF SameDeals, DealOf
<1> QED
  BY <1>1, DealIs

\* A step that the protocol does not see.
LEMMA Unseen ==
    ASSUME Custody' = Custody, Deal' = Deal, Owed' = Owed
    PROVE  [Protocol!Next]_(Protocol!vars)
BY DEF Protocol!vars

LEMMA SameCustody ==
    ASSUME \A i \in Items : /\ items'[i] = NoDoc <=> items[i] = NoDoc
                            /\ items[i] # NoDoc => items'[i].owner = items[i].owner
    PROVE  Custody' = Custody
BY DEF Custody

\* A state update changes one deal, and owes a transfer if it confirms one to give.
LEMMA WriteStateDeal ==
    ASSUME Typed, NEW t \in TransactionIds, NEW s \in States, NEW u \in Users, Exists(t),
           WriteState(t, s, u)
    PROVE  /\ Deal' = [Deal EXCEPT ![t].state = s]
           /\ Owed' = IF s = "confirmed" /\ Deal[t].kind # "lending" THEN Owed \cup {t} ELSE Owed
<1> DEFINE doc == transactions[t]
           new == WithState(doc, s, u)
<1>1. doc \in TransactionDoc /\ doc # NoDoc
  BY DEF Typed, TypeOK, Exists
<1>2. /\ new.item = doc.item /\ new.owner = doc.owner /\ new.requester = doc.requester
      /\ new.transaction = doc.transaction /\ new.state = s
      /\ new # NoDoc
  BY <1>1, WithStateExtends, WithStateType, NoDocAssumption DEF Extends
<1>3. transactions'[t] = new /\ \A r \in TransactionIds \ {t} : transactions'[r] = transactions[r]
  BY DEF WriteState, Typed, TypeOK
<1> HIDE DEF new
<1>4. DealOf(new) = [DealOf(doc) EXCEPT !.state = s]
  BY <1>1, <1>2 DEF DealOf
<1>5. Deal' = [Deal EXCEPT ![t] = DealOf(new)]
  BY <1>3, DealIs
<1>6. Deal' = [Deal EXCEPT ![t].state = s]
  BY <1>4, <1>5, DealIs
<1>7. OneWay(doc) <=> Deal[t].kind # "lending"
  BY <1>1, DealOfDoc DEF OneWay, TransactionDoc, Requestable
<1>8. Owed' = IF s = "confirmed" /\ Deal[t].kind # "lending" THEN Owed \cup {t} ELSE Owed
  <2>1. CASE s = "confirmed" /\ OneWay(doc)
    <3> DEFINE m == [transaction |-> t, confirmation |-> Len(doc.actions) + 1, at |-> "get", rev |-> 0]
    <3>1. moves' = moves \cup {m} /\ m.transaction = t
      BY <2>1 DEF WriteState, SideEffects
    <3> HIDE DEF m
    <3>2. Owed' = Owed \cup {t}
      BY <3>1 DEF Owed
    <3> QED
      BY <1>7, <2>1, <3>2
  <2>2. CASE ~(s = "confirmed" /\ OneWay(doc))
    <3>1. moves' = moves
      BY <2>2 DEF WriteState, SideEffects
    <3> QED
      BY <1>7, <2>2, <3>1 DEF Owed
  <2> QED
    BY <2>1, <2>2
<1> QED
  BY <1>6, <1>8

\* A state update that the current state allows is a step of the protocol.
LEMMA WriteStateRefines ==
    ASSUME Typed, NEW t \in TransactionIds, NEW s \in States, NEW u \in Users,
           Exists(t), WriteState(t, s, u), items' = items,
           PossibleState(transactions[t].state, transactions[t].transaction, s),
           s = "accepted" => Held(transactions, transactions[t].item) = {}
    PROVE  Protocol!Next
<1>1. /\ Deal' = [Deal EXCEPT ![t].state = s]
      /\ Owed' = IF s = "confirmed" /\ Deal[t].kind # "lending" THEN Owed \cup {t} ELSE Owed
      /\ Custody' = Custody
  BY WriteStateDeal, SameCustody
<1>2. /\ Deal[t].state = transactions[t].state /\ Deal[t].kind = transactions[t].transaction
      /\ Deal[t].item = transactions[t].item /\ Deal[t] # NoDoc
      /\ transactions[t].state \in States
  BY DealOfDoc DEF Exists, Typed, TypeOK, TransactionDoc
<1>3. CASE s = "accepted"
  <2>1. Deal[t].state = "requested" /\ Protocol!Holders(Deal[t].item) = {}
    BY <1>2, <1>3, Following, HoldersAreHeld
  <2>2. Protocol!Accept(t)
    BY <1>1, <1>3, <2>1 DEF Protocol!Accept, Protocol!Becomes
  <2> QED
    BY <1>2, <2>2 DEF Protocol!Next, Protocol!Made
<1>4. CASE s = "declined"
  <2>1. Protocol!Decline(t)
    BY <1>1, <1>2, <1>4, Following DEF Protocol!Decline, Protocol!Becomes
  <2> QED
    BY <1>2, <2>1 DEF Protocol!Next, Protocol!Made
<1>5. CASE s = "confirmed"
  <2>1. Protocol!Confirm(t)
    BY <1>1, <1>2, <1>5, Following DEF Protocol!Confirm, Protocol!Becomes
  <2> QED
    BY <1>2, <2>1 DEF Protocol!Next, Protocol!Made
<1>6. CASE s = "returned"
  <2>1. Protocol!Return(t)
    BY <1>1, <1>2, <1>6, Following DEF Protocol!Return, Protocol!Becomes
  <2> QED
    BY <1>2, <2>1 DEF Protocol!Next, Protocol!Made
<1>7. CASE s = "cancelled"
  <2>1. Protocol!Cancel(t)
    BY <1>1, <1>2, <1>7, Following DEF Protocol!Cancel, Protocol!Becomes
  <2> QED
    BY <1>2, <2>1 DEF Protocol!Next, Protocol!Made
<1> QED
  BY <1>2, <1>3, <1>4, <1>5, <1>6, <1>7, Following DEF States

\* A request asks; its other steps are not seen.
LEMMA RequestRefines ==
    ASSUME Typed, Typed', SerialInv, NEW c \in Calls, Request(c)
    PROVE  [Protocol!Next]_(Protocol!vars)
<1> USE DEF Typed
<1>1. CASE transactions' = transactions /\ items' = items /\ moves' = moves
  <2>1. Custody' = Custody /\ Owed' = Owed /\ Deal' = Deal
    BY <1>1, SameCustody, DealIs DEF Owed
  <2> QED
    BY <2>1, Unseen
<1>2. ASSUME NEW t \in TransactionIds, CreateTransaction(c, t) PROVE Protocol!Next
  <2> DEFINE call == requesting[c]
             doc == NewTransactionDoc(call)
  <2>1. call \in RequestCall /\ call.at = "post"
    BY <1>2 DEF CreateTransaction, TypeOK, FirstMessageCall, Idle
  <2>2. /\ doc.item = call.item /\ doc.owner = call.owner /\ doc.requester = call.user
        /\ doc.transaction = call.transaction /\ doc.state = "requested"
    BY DEF NewTransactionDoc
  <2>3. /\ transactions'[t] = doc /\ transactions[t] = NoDoc
        /\ \A r \in TransactionIds \ {t} : transactions'[r] = transactions[r]
        /\ items' = items /\ moves' = moves
    BY <1>2 DEF CreateTransaction, TypeOK, Exists
  <2>4. /\ call.user # call.owner
        /\ Held(transactions, call.item) = {} /\ Engaged(transactions, call.user, call.item) = {}
    BY <2>1 DEF SerialInv, CallsHold, RequestHolds
  <2>5. /\ call.item \in Items /\ call.user \in Users /\ call.owner \in Users
        /\ call.transaction \in Protocol!Kinds
    BY <2>1 DEF RequestCall, Requestable, Protocol!Kinds
  <2>6. doc # NoDoc
    <3>1. doc \in TransactionDoc
      BY <2>1 DEF RequestCall, NewTransactionDoc, TransactionDoc, States, Action, Read, ReadStates
    <3> QED
      BY <3>1, NoDocAssumption
  <2> HIDE DEF doc, call
  <2>7. Deal' = [Deal EXCEPT ![t] = DealOf(doc)]
    BY <2>3, DealIs
  <2>8. DealOf(doc) = [item |-> call.item, owner |-> call.owner, requester |-> call.user,
                       kind |-> call.transaction, state |-> "requested"]
    BY <2>2, <2>6 DEF DealOf
  <2>9. Protocol!Holders(call.item) = {}
    BY <2>4, HoldersAreHeld
  <2>10. ASSUME NEW e \in TransactionIds, Protocol!Made(e), Deal[e].item = call.item,
                call.user \in {Deal[e].owner, Deal[e].requester}
         PROVE  ~Protocol!Open(e)
    <3>1. Exists(e) /\ transactions[e].item = call.item /\ Party(transactions[e], call.user)
      BY <2>10, DealOfDoc DEF Protocol!Made, Exists, Party
    <3> QED
      BY <2>4, <3>1, OpenIsActive DEF Engaged, Exists
  <2>11. ~Protocol!Made(t) /\ Custody' = Custody /\ Owed' = Owed
    BY <2>3, DealOfDoc, SameCustody DEF Protocol!Made, Owed
  <2>12. Protocol!Ask(t, call.item, call.owner, call.user, call.transaction)
    BY <2>4, <2>7, <2>8, <2>9, <2>10, <2>11 DEF Protocol!Ask
  <2> QED
    BY <2>5, <2>12 DEF Protocol!Next
<1> QED
  BY <1>1, <1>2 DEF Request, StartRequest, RequestBusyCheck, RequestExistingCheck, PostFirstMessage

\* A change of owner transfers what is owed, or fails to.
LEMMA MoveRefines ==
    ASSUME Typed, Typed', CustodyInv, SerialInv, NEW m \in moves, ChangeItemOwner(m)
    PROVE  [Protocol!Next]_(Protocol!vars)
<1> USE DEF Typed
<1> DEFINE t == m.transaction
           doc == transactions[t]
           i == doc.item
<1>0. /\ m \in PendingMove /\ t \in TransactionIds /\ doc \in TransactionDoc /\ doc # NoDoc /\ i \in Items
      /\ Deal[t].item = i /\ Deal[t].owner = doc.owner /\ Deal[t].requester = doc.requester
      /\ Deal[t] # NoDoc /\ t \in Owed
  BY DealOfDoc DEF TypeOK, CallsRefer, Exists, PendingMove, TransactionDoc, Owed
<1>1. \A l, n \in moves : n.transaction = l.transaction => n = l
  BY DEF SerialInv, MovesAfterwards
<1>2. transactions' = transactions /\ Deal' = Deal
  BY DealIs DEF ChangeItemOwner, ReadItemToMove, RefuseMove, MoveItem, LoseMove
<1>3. moves' = moves \ {m} => Owed' = Owed \ {t}
  BY <1>1 DEF Owed
<1>4. ASSUME ReadItemToMove(m) PROVE [Protocol!Next]_(Protocol!vars)
  <2> DEFINE n == [m EXCEPT !.at = "put", !.rev = items[transactions[m.transaction].item].rev]
  <2>1. n.transaction = m.transaction
    BY <1>0 DEF PendingMove
  <2>2. moves' = (moves \ {m}) \cup {n} /\ items' = items
    BY <1>4 DEF ReadItemToMove
  <2> HIDE DEF n
  <2>3. Owed' = Owed
    BY <2>1, <2>2 DEF Owed
  <2> QED
    BY <1>2, <2>2, <2>3, SameCustody, Unseen
<1>5. ASSUME RefuseMove(m) \/ LoseMove(m) PROVE Protocol!Next
  <2>1. Custody' = Custody /\ Owed' = Owed \ {t}
    BY <1>3, <1>5, SameCustody DEF RefuseMove, LoseMove
  <2>2. Protocol!Fail(t)
    BY <1>0, <1>2, <2>1 DEF Protocol!Fail
  <2> QED
    BY <1>0, <2>2 DEF Protocol!Next, Protocol!Made
<1>6. ASSUME MoveItem(m) PROVE Protocol!Next
  <2>1. /\ items[i] # NoDoc /\ items[i] \in ItemDoc /\ items[i].owner = doc.owner
    BY <1>0, <1>6 DEF MoveItem, Fresh, TypeOK, CustodyInv, MovesFromOwner
  <2>2. /\ items'[i] = Moved(items[i], doc, m) /\ \A j \in Items \ {i} : items'[j] = items[j]
    BY <1>0, <1>6 DEF MoveItem, TypeOK
  <2>3. items'[i].owner = doc.requester
    BY <2>1, <2>2 DEF Moved, ItemDoc
  <2>4. items'[i] # NoDoc
    BY <1>0, <2>1, <2>2, MovedType, NoDocAssumption
  <2>5. Custody' = [Custody EXCEPT ![i] = doc.requester]
    BY <1>0, <2>2, <2>3, <2>4 DEF Custody
  <2>6. Custody[i] = doc.owner
    BY <1>0, <2>1 DEF Custody
  <2>7. Owed' = Owed \ {t}
    BY <1>3, <1>6 DEF MoveItem
  <2>8. Protocol!Transfer(t)
    BY <1>0, <1>2, <2>5, <2>6, <2>7 DEF Protocol!Transfer
  <2> QED
    BY <1>0, <2>8 DEF Protocol!Next, Protocol!Made
<1> QED
  BY <1>4, <1>5, <1>6 DEF ChangeItemOwner

\* The owner's writes leave the owners alone, but for deletions.
LEMMA OwnerWritesRefine ==
    ASSUME Typed, OwnerWrites
    PROVE  [Protocol!Next]_(Protocol!vars)
<1> USE DEF Typed
<1>0. transactions' = transactions /\ moves' = moves /\ Deal' = Deal /\ Owed' = Owed
  BY DealIs DEF OwnerWrites, EditItem, DeleteItem, Owed
<1>1. ASSUME NEW u \in Users, NEW i \in Items, NEW mode \in Modes, NEW visibility \in Visibilities,
             EditItem(u, i, mode, visibility)
      PROVE  [Protocol!Next]_(Protocol!vars)
  <2>1. items[i] \in ItemDoc /\ \A j \in Items \ {i} : items'[j] = items[j]
    BY <1>1 DEF EditItem, TypeOK
  <2> DEFINE edited == [items[i] EXCEPT !.transaction = mode, !.visibility = visibility, !.rev = @ + 1]
  <2>2. items'[i] = edited /\ edited \in ItemDoc /\ edited.owner = items[i].owner
    BY <1>1, <2>1 DEF EditItem, TypeOK, ItemDoc
  <2>3. Custody' = Custody
    BY <2>1, <2>2, SameCustody, NoDocAssumption
  <2> QED
    BY <1>0, <2>3, Unseen
<1>2. ASSUME NEW u \in Users, NEW i \in Items, DeleteItem(u, i)
      PROVE  Protocol!Next
  <2>1. Custody[i] # NoDoc
    BY <1>2, NoDocAssumption DEF DeleteItem, Custody
  <2>2. Custody' = [Custody EXCEPT ![i] = NoDoc]
    BY <1>2 DEF DeleteItem, Custody, TypeOK
  <2>3. Protocol!Remove(i)
    BY <1>0, <2>1, <2>2 DEF Protocol!Remove
  <2> QED
    BY <2>3 DEF Protocol!Next
<1> QED
  BY <1>1, <1>2 DEF OwnerWrites

LEMMA NextRefines ==
    ASSUME Serial, Serial', [Next]_vars
    PROVE  [Protocol!Next]_(Protocol!vars)
<1> USE DEF Serial
<1>1. ASSUME SameDeals(transactions', transactions), items' = items, moves' = moves
      PROVE  [Protocol!Next]_(Protocol!vars)
  <2>1. Deal' = Deal
    BY <1>1, SameDealsRefine
  <2> QED
    BY <1>1, <2>1, SameCustody, Unseen DEF Owed
<1>2. ASSUME NEW c \in Calls, EndUpdate(c) PROVE Protocol!Next
  <2> DEFINE t == updating[c].id
             s == updating[c].state
  <2>1. updating[c] \in UpdateCall /\ updating[c] # Idle /\ updating[c].at = "write"
    BY <1>2 DEF EndUpdate, Typed, TypeOK, Idle
  <2>2. UpdateHolds(transactions, updating[c])
    BY <2>1 DEF SerialInv, CallsHold
  <2> QED
    BY <1>2, <2>1, <2>2, WriteStateRefines DEF EndUpdate, UpdateCall, Typed, CallsRefer, UpdateHolds
<1>3. ASSUME NEW c \in Calls, NEW t \in TransactionIds, CancelOne(c, t) PROVE Protocol!Next
  <2>1. cancelling[c] \in CancelCall /\ cancelling[c] # Idle
    BY <1>3 DEF CancelOne, Typed, TypeOK, Idle
  <2>2. /\ cancelling[c].user \in Users /\ Exists(t) /\ "cancelled" \in States
        /\ IsActive(transactions[t])
    BY <1>3, <2>1 DEF CancelOne, CancelCall, Typed, CallsRefer, States, SerialInv, CallsHold
  <2>3. PossibleState(transactions[t].state, transactions[t].transaction, "cancelled")
    BY <2>2 DEF IsActive, PossibleState, NextStates
  <2> QED
    BY <1>3, <2>2, <2>3, WriteStateRefines DEF CancelOne
<1>4. ASSUME NEW c \in Calls, Message(c) PROVE [Protocol!Next]_(Protocol!vars)
  BY <1>1, <1>4, MessageReads DEF Message, StartMessage, PostMessage, UpdateReadForNewMessage
<1>5. ASSUME NEW u \in Users, NEW t \in TransactionIds, MarkAsRead(u, t)
      PROVE  [Protocol!Next]_(Protocol!vars)
  BY <1>1, <1>5, MarkReads DEF MarkAsRead
<1>6. ASSUME NEW c \in Calls, Update(c) \/ CancelAll(c) PROVE [Protocol!Next]_(Protocol!vars)
  BY <1>1, <1>2, <1>3, <1>6, NoDealChanged DEF Update, StartUpdate, UpdateBusyCheck, CancelAll,
     StartCancelAll
<1>7. CASE UNCHANGED vars
  BY <1>1, <1>7, NoDealChanged DEF vars
<1> QED
  BY <1>4, <1>5, <1>6, <1>7, RequestRefines, MoveRefines, OwnerWritesRefine DEF Next

LEMMA InitRefines == Init => Protocol!Init
<1> SUFFICES ASSUME Init PROVE Protocol!Init
  OBVIOUS
<1>1. \A i \in Items : items[i].owner \in Users /\ items[i] # NoDoc
  <2>1. \A i \in Items : items[i] \in ItemDoc
    <3>1. <<>> \in Seq(Move) /\ 1 \in Nat
      OBVIOUS
    <3> QED
      BY <3>1 DEF Init, ItemDoc
  <2> QED
    BY <2>1, NoDocAssumption DEF Init
<1>2. Custody \in [Items -> Users]
  BY <1>1 DEF Custody
<1>3. Deal = [t \in TransactionIds |-> NoDoc] /\ Owed = {}
  BY DEF Init, Deal, Exists, Owed
<1> QED
  BY <1>2, <1>3 DEF Protocol!Init

\* When requests are handled one at a time, the exchange of items implements the protocol it
\* promises, whatever the changes of owner, which run in the background, the messages and
\* the owners' writes do between two steps of a request.
THEOREM OneAtATimeImplementsProtocol == ASSUME OneCall PROVE Spec => ImplementsProtocol
<1>1. Init => Protocol!Init
  BY InitRefines
<1>2. Serial /\ Serial' /\ [Next]_vars => [Protocol!Next]_(Protocol!vars)
  BY NextRefines
<1> QED
  BY <1>1, <1>2, AlwaysSerial, PTL DEF Spec, ImplementsProtocol, Protocol!Spec

=============================================================================
