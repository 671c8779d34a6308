-------------------------------- MODULE Relations --------------------------------
(***************************************************************************)
(* Friendship between users.  One document per pair of users holds the     *)
(* status of their relation.  Each of the five intents reads the status,   *)
(* decides, and then puts a status without looking at it again: db.update  *)
(* retries on conflicts, but the decision is not taken anew.               *)
(*                                                                         *)
(* User documents are identified by numbers, whose order stands for the    *)
(* order of the ids that the relation documents are named after.           *)
(***************************************************************************)
EXTENDS Integers, FiniteSets

CONSTANTS
    Ids,        \* ids of the documents of the users database
    Calls,      \* slots for the requests the server handles at a time
    MaxSerial,  \* bounds on the requests in a behaviour: handled one at a time...
    MaxRace     \* ... or interleaved

ASSUME SocialAssumption == Ids \subseteq Nat /\ MaxSerial \in Nat /\ MaxRace \in Nat

VARIABLES
    regime,     \* "serial": a request starts when the previous has ended; "race": they interleave
    begun,      \* how many requests were received
    calls,      \* the requests in flight
    accounts,   \* type of each document of the users database
    relations,  \* relation documents
    posts,      \* notifications that listeners have still to write, emits being unawaited
    wishes,     \* auxiliary: <<u, v>> when u asked for the friendship of v, until one of them ends it
    everWished  \* auxiliary: the same, never forgotten

relationVars == <<regime, begun, calls, accounts, relations, posts, wishes, everWished>>

-----------------------------------------------------------------------------
(* Relation documents *)

RelationIds == {p \in Ids \X Ids : p[1] < p[2]}
RelationStatuses == {"friends", "a-requested", "b-requested", "none"}
NoRelation == [status |-> "absent", rev |-> 0]

RelationId(u, v) == IF u < v THEN <<u, v>> ELSE <<v, u>>

UserRelativeSwapped(u, v, status) ==  \* mutant: the order of the ids is mistaken
    CASE status = "friends" -> "friends"
      [] status = "a-requested" -> IF u < v THEN "otherRequested" ELSE "userRequested"
      [] status = "b-requested" -> IF u < v THEN "userRequested" ELSE "otherRequested"
      [] OTHER -> "none"

\* The status of a document as the user sees it.
UserRelative(u, v, status) ==
    CASE status = "friends" -> "friends"
      [] status = "a-requested" -> IF u < v THEN "userRequested" ELSE "otherRequested"
      [] status = "b-requested" -> IF u < v THEN "otherRequested" ELSE "userRequested"
      [] OTHER -> "none"

GetRelationStatus(u, v) == UserRelative(u, v, relations[RelationId(u, v)].status)

RequestedStatus(u, v) == IF u < v THEN "a-requested" ELSE "b-requested"

\* The statuses that show the relation of a user in the view byStatus.
Live(status) == status \in {"friends", "a-requested", "b-requested"}
UserRelations(u) ==
    {p \in RelationIds : u \in {p[1], p[2]} /\ Live(relations[p].status)}
UserFriends(u) == {v \in Ids \ {u} : GetRelationStatus(u, v) = "friends"}

-----------------------------------------------------------------------------
(* Requests *)

Idle == [op |-> "idle"]
Intents == {"request", "cancel", "accept", "discard", "unfriend"}

Quiet == posts = {} /\ \A c \in Calls : calls[c] = Idle

\* Under "serial" a request also waits for the listeners of the previous one.
MayBegin(c) ==
    /\ calls[c] = Idle
    /\ begun < IF regime = "serial" THEN MaxSerial ELSE MaxRace
    /\ regime = "serial" => Quiet
Begin(c, call) ==
    /\ MayBegin(c)
    /\ begun' = begun + 1
    /\ calls' = [calls EXCEPT ![c] = call]
Continue(c, call) == calls' = [calls EXCEPT ![c] = call] /\ UNCHANGED begun
End(c) == Continue(c, Idle)

\* The status that the intent of u puts once it has read a relative status.
Applies(intent, status) ==
    \/ intent = "request" /\ status \in {"none", "otherRequested"}
    \/ intent = "cancel" /\ status = "userRequested"
    \/ intent = "unfriend" /\ status # "none"
    \/ intent \in {"accept", "discard"} /\ status = "otherRequested"
DecidedByRequester(intent, u, v, status) ==  \* mutant: a crossed request only replaces the other
    IF intent = "request" THEN RequestedStatus(u, v)
    ELSE IF intent = "accept" THEN "friends" ELSE "none"
Decided(intent, u, v, status) ==
    CASE intent \in {"cancel", "unfriend", "discard"} -> "none"
      [] intent = "request" /\ status = "none" -> RequestedStatus(u, v)
      [] OTHER -> "friends"

\* Revisions matter to those who delete documents that they have read before: they
\* are counted during deletions only.
NextRev(rev) == IF \E c \in Calls : calls[c].op = "delete" THEN rev + 1 ELSE rev
PutStatus(u, v, status) ==
    relations' = [relations EXCEPT ![RelationId(u, v)] = [status |-> status, rev |-> NextRev(@.rev)]]

\* Those who get a notification: the other user when a request is accepted, both
\* users when their requests crossed.
Notified(intent, u, v, status) ==
    CASE Decided(intent, u, v, status) # "friends" -> {}
      [] intent = "accept" -> {[user |-> v, subject |-> u]}
      [] OTHER -> {[user |-> v, subject |-> u], [user |-> u, subject |-> v]}

\* A logged in user sends a request about another one; "request" first
\* loads the other user, to refuse the ids of documents that are not users.
RelationBegin(c, intent, u, v) ==
    /\ accounts[u] = "user" /\ u # v
    /\ accounts[v] # "nobody"
    /\ IF intent = "request"
       THEN /\ accounts[v] = "user"
            /\ Begin(c, [op |-> "relation", step |-> "read", intent |-> intent, u |-> u, v |-> v])
       ELSE /\ Applies(intent, GetRelationStatus(u, v))
            /\ Begin(c, [op |-> "relation", step |-> "put", intent |-> intent, u |-> u, v |-> v,
                         status |-> GetRelationStatus(u, v)])
    /\ everWished' = IF intent \in {"request", "accept"} THEN everWished \cup {<<u, v>>}
                     ELSE everWished
    /\ UNCHANGED <<regime, accounts, relations, posts, wishes>>

RelationRead(c) ==
    LET k == calls[c] IN
    /\ k.op = "relation" /\ k.step = "read"
    /\ IF Applies(k.intent, GetRelationStatus(k.u, k.v))
       THEN Continue(c, [op |-> "relation", step |-> "put", intent |-> k.intent, u |-> k.u,
                         v |-> k.v, status |-> GetRelationStatus(k.u, k.v)])
       ELSE End(c)
    /\ UNCHANGED <<regime, accounts, relations, posts, wishes, everWished>>

WishesAfter(u, v, status) ==
    IF status = "none" THEN wishes \ {<<u, v>>, <<v, u>>} ELSE wishes \cup {<<u, v>>}

RelationPut(c) ==
    LET k == calls[c]
        status == Decided(k.intent, k.u, k.v, k.status)
    IN  /\ k.op = "relation" /\ k.step = "put"
        /\ PutStatus(k.u, k.v, status)
        /\ posts' = posts \cup Notified(k.intent, k.u, k.v, k.status)
        /\ wishes' = WishesAfter(k.u, k.v, status)
        /\ End(c)
        /\ UNCHANGED <<regime, accounts, everWished>>

RelationsNext ==
    \E c \in Calls :
        \/ \E intent \in Intents, u, v \in Ids : RelationBegin(c, intent, u, v)
        \/ RelationRead(c)
        \/ RelationPut(c)

-----------------------------------------------------------------------------

\* Two friends have both asked for it, by a request, an invitation or an acceptance,
\* however the requests interleave (controllers/relations/lib/solve_intent.ts).
FriendshipIsMutual ==
    \A p \in RelationIds : relations[p].status = "friends" =>
        <<p[1], p[2]>> \in everWished /\ <<p[2], p[1]>> \in everWished

\* When requests are handled one at a time, the status of a relation says who
\* wishes it: both, one of them, or nobody.
RelationsFollowWishes ==
    regime = "serial" =>
        \A p \in RelationIds :
            LET status == relations[p].status
                a == <<p[1], p[2]>> \in wishes
                b == <<p[2], p[1]>> \in wishes
            IN  /\ status = "friends" <=> a /\ b
                /\ status = "a-requested" <=> a /\ ~b
                /\ status = "b-requested" <=> b /\ ~a
====
