------------------------------ MODULE SerialProofs ------------------------------
(* Relations, invitations and deletions when the server handles one request at a time *)
(* (behaviours that begin as serial): a request then finds, when it writes, what it   *)
(* has read, and the notifications it has posted are written before the next one.     *)
EXTENDS SocialProofs
-----------------------------------------------------------------------------
(* One request at a time *)

\* What a request in flight knows, nothing having interleaved with it.
RelationKnows(c) ==
    calls[c].op = "relation" =>
        /\ calls[c].u \in Ids /\ calls[c].v \in Ids /\ calls[c].u # calls[c].v
        /\ calls[c].intent \in Intents /\ accounts[calls[c].u] = "user"
        /\ calls[c].intent = "request" => accounts[calls[c].v] = "user"
        /\ calls[c].step = "put" => /\ calls[c].status = GetRelationStatus(calls[c].u, calls[c].v)
                                    /\ Applies(calls[c].intent, calls[c].status)

InviteKnows(c) ==
    calls[c].op = "invite" =>
        /\ calls[c].u \in Ids /\ accounts[calls[c].u] = "user" /\ calls[c].p \in Persons
        /\ ByEmail("user", calls[c].p) = {}
        /\ calls[c].step = "write" =>
              /\ DOMAIN calls[c].able = {i \in ByEmail("invited", calls[c].p) : CanBeInvited(calls[c].u, i)}
              /\ IF ByEmail("invited", calls[c].p) = {} THEN calls[c].able = <<>>
                 ELSE DOMAIN calls[c].able # {}

ConvertKnows(c) ==
    calls[c].op = "signup" =>
        /\ calls[c].step = "post" => ByEmail("invited", calls[c].p) = {}
        /\ calls[c].step = "convert" =>
              /\ DOMAIN calls[c] = {"op", "step", "i", "friends"}
              /\ calls[c].i \in Ids /\ accounts[calls[c].i] = "user"
              /\ calls[c].friends \subseteq inviters[calls[c].i]
              /\ \A u \in calls[c].friends : ~Live(relations[RelationId(u, calls[c].i)].status)

DeletionKnows(c) ==
    calls[c].op = "delete" =>
        /\ "relations" \notin calls[c].left => UserRelations(calls[c].u) = {}
        /\ "notifications" \notin calls[c].left => BySubject(calls[c].u) = {}
        /\ "relations" \in DOMAIN calls[c].found \cap calls[c].left =>
              calls[c].found["relations"] = {<<p, relations[p].rev>> : p \in UserRelations(calls[c].u)}
        /\ "notifications" \in DOMAIN calls[c].found \cap calls[c].left =>
              calls[c].found["notifications"] = BySubject(calls[c].u)

CallKnows(c) == RelationKnows(c) /\ InviteKnows(c) /\ ConvertKnows(c) /\ DeletionKnows(c)

OneAtATime ==
    /\ \A c, d \in Calls : calls[c] # Idle /\ calls[d] # Idle => c = d
    /\ posts # {} => \A c \in Calls : calls[c] = Idle

\* The documents of the users database: who invites whom, who has relations.
DocumentsInv ==
    /\ DOMAIN inviters = Ids /\ DOMAIN groupInviter = Ids /\ DOMAIN relations = RelationIds
    /\ \A p \in RelationIds : relations[p].status \in RelationStatuses \cup {"absent"}
    /\ \A i \in Ids : accounts[i] \in {"nobody", "invited", "user", "deleted"}
    /\ \A i \in Ids : inviters[i] \subseteq {u \in Ids \ {i} : Registered(u)}
    /\ \A i \in Ids : groupInviter[i] \in inviters[i] \cup {NoId}
    /\ \A i \in Ids : accounts[i] = "nobody" => inviters[i] = {}
    /\ \A i \in Ids : ~Registered(i) => UserRelations(i) = {}
    /\ \A i, j \in Ids : accounts[i] = "invited" /\ accounts[j] = "invited" /\ person[i] = person[j]
                           => i = j

\* Deleted, and nothing has still to be done for them.
Gone(u) == accounts[u] = "deleted" /\ ~BeingDeleted(u) /\ \A i \in Ids : u \notin inviters[i]
GoneInv ==
    \A u \in Ids : Gone(u) => /\ \A n \in notifications \cup posts : u \notin {n.user, n.subject}
                              /\ UserRelations(u) = {}

\* An invitation that was accepted is kept by the document of the person, then by the
\* conversion, then in the requests.
PromiseHolds(m) ==
    /\ m.u \in Ids /\ m.p \in Persons
    /\ \E j \in Ids : person[j] = m.p /\ accounts[j] # "nobody"
    /\ \A j \in Ids : accounts[j] = "invited" /\ person[j] = m.p
                      /\ (\A i \in Ids : Registered(i) => person[i] # m.p)
                        => m.u \in inviters[j] /\ groupInviter[j] # m.u
    /\ \A i \in Ids : accounts[i] = "user" /\ person[i] = m.p
                        => \/ <<m.u, i>> \in everWished
                           \/ \E c \in Calls : /\ calls[c].op = "signup" /\ calls[c].step = "convert"
                                               /\ calls[c].i = i /\ m.u \in calls[c].friends
PromisesInv == \A m \in promised : ~m.group => PromiseHolds(m)

WishesInv ==
    \A p \in RelationIds :
        /\ relations[p].status = "friends" <=> <<p[1], p[2]>> \in wishes /\ <<p[2], p[1]>> \in wishes
        /\ relations[p].status = "a-requested" <=> <<p[1], p[2]>> \in wishes /\ <<p[2], p[1]>> \notin wishes
        /\ relations[p].status = "b-requested" <=> <<p[2], p[1]>> \in wishes /\ <<p[1], p[2]>> \notin wishes

SerialParts ==
    /\ OneAtATime
    /\ \A c \in Calls : CallKnows(c)
    /\ DocumentsInv
    /\ GoneInv
    /\ PromisesInv
    /\ WishesInv
SerialInv == regime = "serial" => SerialParts

-----------------------------------------------------------------------------
(* What the steps have in common *)

LEMMA IdleOp == Idle.op = "idle"
BY DEF Idle

\* A request in flight is the only one, and no listener has still to run.
LEMMA Alone ==
    ASSUME OneAtATime, NEW c \in Calls, calls[c].op # "idle"
    PROVE  posts = {} /\ \A d \in Calls \ {c} : calls[d] = Idle
BY IdleOp DEF OneAtATime

\* A request begins when there is none, and no listener has still to run.
LEMMA BeginsAlone ==
    ASSUME NEW c \in Calls, NEW k, Begin(c, k), regime = "serial", DOMAIN calls = Calls
    PROVE  posts = {} /\ Becomes(c, k) /\ \A d \in Calls : calls[d] = Idle
BY DEF Begin, MayBegin, Quiet, Becomes

\* The others being idle, only the request that moves knows something.
LEMMA OneKnows ==
    ASSUME NEW c \in Calls, NEW k, Becomes(c, k), \A d \in Calls \ {c} : calls[d] = Idle,
           posts' = {} \/ k = Idle, k.op # "idle" => CallKnows(c)'
    PROVE  OneAtATime' /\ \A d \in Calls : CallKnows(d)'
<1>1. calls'[c] = k /\ \A d \in Calls \ {c} : calls'[d] = Idle
  BY DEF Becomes
<1>2. OneAtATime'
  BY <1>1 DEF OneAtATime
<1>3. ASSUME NEW d \in Calls, calls'[d].op = "idle" PROVE CallKnows(d)'
  BY <1>3 DEF CallKnows, RelationKnows, InviteKnows, ConvertKnows, DeletionKnows
<1>4. ASSUME NEW d \in Calls PROVE CallKnows(d)'
  <2>1. CASE d = c
    BY <1>1, <1>3, <2>1
  <2>2. CASE d # c
    BY <1>1, <1>3, <2>2, IdleOp
  <2> QED
    BY <2>1, <2>2
<1> QED
  BY <1>2, <1>4

\* A request other than a deletion moves without writing anything, unless it is a wish.
LEMMA SerialKept ==
    ASSUME SerialParts, AccountsInv, NEW c \in Calls, NEW k, Becomes(c, k),
           \A d \in Calls \ {c} : calls[d] = Idle, posts = {},
           UNCHANGED <<accounts, relations, posts, wishes, person, inviters, groupInviter, promised,
                       notifications>>,
           everWished \subseteq everWished',
           calls[c].op # "delete", k.op # "delete",
           calls[c].op = "signup" /\ calls[c].step = "convert" => calls[c].friends = {},
           k.op # "idle" => CallKnows(c)'
    PROVE  SerialParts'
<1>1. calls'[c] = k /\ \A d \in Calls \ {c} : calls'[d] = calls[d]
  BY DEF Becomes
<1>2. OneAtATime' /\ \A d \in Calls : CallKnows(d)'
  BY OneKnows
<1>3. DocumentsInv'
  BY DEF SerialParts, DocumentsInv, Registered, UserRelations
<1>4. GoneInv'
  <2>1. \A u \in Ids : BeingDeleted(u)' <=> BeingDeleted(u)
    BY <1>1 DEF BeingDeleted
  <2> QED
    BY <2>1 DEF SerialParts, GoneInv, Gone, UserRelations
<1>5. ASSUME NEW m \in promised, ~m.group PROVE PromiseHolds(m)'
  <2>1. PromiseHolds(m)
    BY <1>5 DEF SerialParts, PromisesInv
  <2>2. \A i \in Ids : (\E d \in Calls : /\ calls[d].op = "signup" /\ calls[d].step = "convert"
                                         /\ calls[d].i = i /\ m.u \in calls[d].friends)
            => \E d \in Calls : /\ calls'[d].op = "signup" /\ calls'[d].step = "convert"
                                /\ calls'[d].i = i /\ m.u \in calls'[d].friends
    BY <1>1
  <2> QED
    BY <2>1, <2>2 DEF PromiseHolds, Registered
<1>6. WishesInv'
  BY DEF SerialParts, WishesInv
<1> QED
  BY <1>2, <1>3, <1>4, <1>5, <1>6 DEF SerialParts, PromisesInv

-----------------------------------------------------------------------------
(* Requests that begin or read *)

\* What a request of a relation knows when it has read the status, or has still to.
LEMMA RelationReads ==
    ASSUME NEW c \in Calls, NEW k, Becomes(c, k), UNCHANGED <<accounts, relations>>,
           k.op = "relation", k.u \in Ids, k.v \in Ids, k.u # k.v, k.intent \in Intents,
           accounts[k.u] = "user", k.intent = "request" => accounts[k.v] = "user",
           k.step = "put" => k.status = GetRelationStatus(k.u, k.v) /\ Applies(k.intent, k.status)
    PROVE  CallKnows(c)'
<1>1. calls'[c] = k
  BY DEF Becomes
<1>2. InviteKnows(c)' /\ ConvertKnows(c)' /\ DeletionKnows(c)'
  BY <1>1 DEF InviteKnows, ConvertKnows, DeletionKnows
<1>3. RelationKnows(c)'
  BY <1>1 DEF RelationKnows, GetRelationStatus
<1> QED
  BY <1>2, <1>3 DEF CallKnows

LEMMA SerialRelationBegin ==
    ASSUME SerialParts, AccountsInv, regime = "serial", NEW c \in Calls, NEW intent \in Intents,
           NEW u \in Ids, NEW v \in Ids, RelationBegin(c, intent, u, v),
           UNCHANGED <<invitationVars, accountVars>>
    PROVE  SerialParts'
<1>0. /\ UNCHANGED <<accounts, relations, posts, wishes, person, inviters, groupInviter, promised,
                     notifications>>
      /\ everWished \subseteq everWished' /\ u # v /\ accounts[u] = "user" /\ DOMAIN calls = Calls
  BY DEF RelationBegin, invitationVars, accountVars, AccountsInv
<1>1. CASE intent = "request"
  <2> DEFINE k == [op |-> "relation", step |-> "read", intent |-> intent, u |-> u, v |-> v]
  <2>1. Begin(c, k) /\ accounts[v] = "user"
    BY <1>1 DEF RelationBegin
  <2>2. k.op = "relation" /\ k.step = "read" /\ k.intent = intent /\ k.u = u /\ k.v = v
    OBVIOUS
  <2> HIDE DEF k
  <2>3. posts = {} /\ Becomes(c, k) /\ \A d \in Calls : calls[d] = Idle
    BY <1>0, <2>1, BeginsAlone
  <2>4. CallKnows(c)'
    BY <1>0, <2>1, <2>2, <2>3, RelationReads
  <2> QED
    BY <1>0, <2>2, <2>3, <2>4, SerialKept, IdleOp
<1>2. CASE intent # "request"
  <2> DEFINE k == [op |-> "relation", step |-> "put", intent |-> intent, u |-> u, v |-> v,
                   status |-> GetRelationStatus(u, v)]
  <2>1. Begin(c, k) /\ Applies(intent, GetRelationStatus(u, v))
    BY <1>2 DEF RelationBegin
  <2>2. k.op = "relation" /\ k.step = "put" /\ k.intent = intent /\ k.u = u /\ k.v = v
        /\ k.status = GetRelationStatus(u, v)
    OBVIOUS
  <2> HIDE DEF k
  <2>3. posts = {} /\ Becomes(c, k) /\ \A d \in Calls : calls[d] = Idle
    BY <1>0, <2>1, BeginsAlone
  <2>4. CallKnows(c)'
    BY <1>0, <1>2, <2>1, <2>2, <2>3, RelationReads
  <2> QED
    BY <1>0, <2>2, <2>3, <2>4, SerialKept, IdleOp
<1> QED
  BY <1>1, <1>2

LEMMA SerialRelationRead ==
    ASSUME SerialParts, AccountsInv, NEW c \in Calls, RelationRead(c),
           UNCHANGED <<invitationVars, accountVars>>
    PROVE  SerialParts'
<1>0. /\ UNCHANGED <<accounts, relations, posts, wishes, person, inviters, groupInviter, promised,
                     notifications, everWished>>
      /\ calls[c].op = "relation" /\ DOMAIN calls = Calls
  BY DEF RelationRead, invitationVars, accountVars, AccountsInv
<1>1. posts = {} /\ \A d \in Calls \ {c} : calls[d] = Idle
  BY <1>0, Alone DEF SerialParts
<1>2. /\ calls[c].u \in Ids /\ calls[c].v \in Ids /\ calls[c].u # calls[c].v
      /\ calls[c].intent \in Intents /\ accounts[calls[c].u] = "user"
      /\ calls[c].intent = "request" => accounts[calls[c].v] = "user"
  BY <1>0 DEF SerialParts, CallKnows, RelationKnows
<1>3. CASE calls' = [calls EXCEPT ![c] = Idle]
  <2>1. Becomes(c, Idle)
    BY <1>0, <1>3 DEF Becomes
  <2> QED
    BY <1>0, <1>1, <2>1, SerialKept, IdleOp
<1>4. CASE ~(calls' = [calls EXCEPT ![c] = Idle])
  <2> DEFINE status == GetRelationStatus(calls[c].u, calls[c].v)
             k == [op |-> "relation", step |-> "put", intent |-> calls[c].intent, u |-> calls[c].u,
                   v |-> calls[c].v, status |-> status]
  <2>1. Becomes(c, k) /\ Applies(calls[c].intent, status)
    BY <1>0, <1>4 DEF RelationRead, Becomes, Continue, End
  <2>2. k.op = "relation" /\ k.step = "put" /\ k.intent = calls[c].intent /\ k.u = calls[c].u
        /\ k.v = calls[c].v /\ k.status = status
    OBVIOUS
  <2> HIDE DEF k
  <2>4. CallKnows(c)'
    BY <1>0, <1>2, <2>1, <2>2, RelationReads
  <2> QED
    BY <1>0, <1>1, <2>1, <2>2, <2>4, SerialKept
<1> QED
  BY <1>3, <1>4

LEMMA SerialInviteBegin ==
    ASSUME SerialParts, AccountsInv, regime = "serial", NEW c \in Calls, NEW u \in Ids,
           NEW p \in Persons, NEW toGroup \in BOOLEAN, InviteBegin(c, u, p, toGroup),
           UNCHANGED accountVars
    PROVE  SerialParts'
<1>0. /\ UNCHANGED <<accounts, relations, posts, wishes, person, inviters, groupInviter, promised,
                     notifications>>
      /\ everWished \subseteq everWished' /\ accounts[u] = "user" /\ person[u] # p /\ DOMAIN calls = Calls
  BY DEF InviteBegin, accountVars, AccountsInv
<1>1. CASE ByEmail("user", p) = {}
  <2> DEFINE k == InviteBase(u, p, toGroup)
  <2>1. Begin(c, k)
    BY <1>1 DEF InviteBegin
  <2>2. k.op = "invite" /\ k.step = "known" /\ k.u = u /\ k.p = p
    BY DEF InviteBase
  <2> HIDE DEF k
  <2>3. posts = {} /\ Becomes(c, k) /\ \A d \in Calls : calls[d] = Idle
    BY <1>0, <2>1, BeginsAlone
  <2>4. CallKnows(c)'
    <3>1. calls'[c] = k
      BY <2>3 DEF Becomes
    <3> QED
      BY <1>0, <1>1, <2>2, <3>1
      DEF CallKnows, RelationKnows, InviteKnows, ConvertKnows, DeletionKnows, ByEmail
  <2> QED
    BY <1>0, <2>2, <2>3, <2>4, SerialKept, IdleOp
<1>2. CASE ByEmail("user", p) # {}
  <2>0. PICK v \in ByEmail("user", p) :
            Begin(c, [op |-> "relation", step |-> "read", intent |-> "request", u |-> u, v |-> v])
    BY <1>2 DEF InviteBegin
  <2> DEFINE k == [op |-> "relation", step |-> "read", intent |-> "request", u |-> u, v |-> v]
  <2>1. v \in Ids /\ accounts[v] = "user" /\ u # v
    BY <1>0 DEF ByEmail
  <2>2. k.op = "relation" /\ k.step = "read" /\ k.intent = "request" /\ k.u = u /\ k.v = v
        /\ "request" \in Intents
    BY DEF Intents
  <2> HIDE DEF k
  <2>3. posts = {} /\ Becomes(c, k) /\ \A d \in Calls : calls[d] = Idle
    BY <1>0, <2>0, BeginsAlone DEF k
  <2>4. CallKnows(c)'
    BY <1>0, <2>1, <2>2, <2>3, RelationReads
  <2> QED
    BY <1>0, <2>2, <2>3, <2>4, SerialKept, IdleOp
<1> QED
  BY <1>1, <1>2

LEMMA SerialInviteRead ==
    ASSUME SerialParts, AccountsInv, NEW c \in Calls, InviteRead(c), UNCHANGED accountVars
    PROVE  SerialParts'
<1>0. /\ UNCHANGED <<accounts, relations, posts, wishes, person, inviters, groupInviter, promised,
                     notifications, everWished>>
      /\ stopEmails' = stopEmails /\ calls[c].op = "invite" /\ DOMAIN calls = Calls
  BY DEF InviteRead, invitationVars, accountVars, AccountsInv
<1>1. posts = {} /\ \A d \in Calls \ {c} : calls[d] = Idle
  BY <1>0, Alone DEF SerialParts
<1>2. /\ calls[c].u \in Ids /\ accounts[calls[c].u] = "user" /\ calls[c].p \in Persons
      /\ ByEmail("user", calls[c].p) = {}
  BY <1>0 DEF SerialParts, CallKnows, InviteKnows
<1> DEFINE known == ByEmail("invited", calls[c].p)
           able == {i \in known : CanBeInvited(calls[c].u, i)}
<1>3. CASE known # {} /\ able = {}
  <2>1. Becomes(c, Idle)
    BY <1>0, <1>3 DEF InviteRead, End, Continue, Becomes
  <2> QED
    BY <1>0, <1>1, <2>1, SerialKept, IdleOp
<1>4. CASE ~(known # {} /\ able = {})
  <2> DEFINE k == [op |-> "invite", step |-> "write", u |-> calls[c].u, p |-> calls[c].p,
                   group |-> calls[c].group, able |-> [i \in able |-> Copy(i)]]
  <2>1. Becomes(c, k)
    BY <1>0, <1>4 DEF InviteRead, Becomes, Continue
  <2>2. k.op = "invite" /\ k.step = "write" /\ k.u = calls[c].u /\ k.p = calls[c].p
        /\ DOMAIN k.able = able /\ (known = {} => k.able = <<>>)
    OBVIOUS
  <2> HIDE DEF k
  <2>3. calls'[c] = k
    BY <2>1 DEF Becomes
  <2>4. InviteKnows(c)'
    BY <1>0, <1>2, <1>4, <2>2, <2>3 DEF InviteKnows, ByEmail, CanBeInvited
  <2>5. CallKnows(c)'
    BY <2>2, <2>3, <2>4 DEF CallKnows, RelationKnows, ConvertKnows, DeletionKnows
  <2> QED
    BY <1>0, <1>1, <2>1, <2>2, <2>5, SerialKept
<1> QED
  BY <1>3, <1>4

LEMMA SerialSignUpBegin ==
    ASSUME SerialParts, AccountsInv, regime = "serial", NEW c \in Calls, NEW p \in Persons,
           SignUpBegin(c, p)
    PROVE  SerialParts'
<1>0. /\ UNCHANGED <<accounts, relations, posts, wishes, person, inviters, groupInviter, promised,
                     notifications, everWished>>
      /\ DOMAIN calls = Calls
  BY DEF SignUpBegin, invitationVars, AccountsInv
<1> DEFINE k == [op |-> "signup", step |-> "invitation", p |-> p]
<1>1. k.op = "signup" /\ k.step = "invitation" /\ Begin(c, k)
  BY DEF SignUpBegin
<1> HIDE DEF k
<1>2. posts = {} /\ Becomes(c, k) /\ \A d \in Calls : calls[d] = Idle
  BY <1>0, <1>1, BeginsAlone
<1>3. CallKnows(c)'
  BY <1>1, <1>2 DEF Becomes, CallKnows, RelationKnows, InviteKnows, ConvertKnows, DeletionKnows
<1> QED
  BY <1>0, <1>1, <1>2, <1>3, SerialKept, IdleOp

LEMMA SerialSignUpInvitation ==
    ASSUME SerialParts, AccountsInv, NEW c \in Calls, SignUpInvitation(c)
    PROVE  SerialParts'
<1>0. /\ UNCHANGED <<accounts, relations, posts, wishes, person, inviters, groupInviter, promised,
                     notifications, everWished>>
      /\ calls[c].op = "signup" /\ calls[c].step = "invitation" /\ DOMAIN calls = Calls
  BY DEF SignUpInvitation, invitationVars, accountVars, AccountsInv
<1>1. posts = {} /\ \A d \in Calls \ {c} : calls[d] = Idle
  BY <1>0, Alone DEF SerialParts
<1>2. PICK k : /\ Becomes(c, k) /\ k.op = "signup" /\ k.step \in {"post", "put"}
               /\ k.step = "post" => k.p = calls[c].p /\ ByEmail("invited", calls[c].p) = {}
  <2> DEFINE known == ByEmail("invited", calls[c].p)
             first == CHOOSE i \in known : \A j \in known : i <= j
             post == [op |-> "signup", step |-> "post", p |-> calls[c].p]
             put == [op |-> "signup", step |-> "put", p |-> calls[c].p, i |-> first, copy |-> Copy(first)]
  <2>1. /\ known = {} => Becomes(c, post)
        /\ known # {} => Becomes(c, put)
    BY <1>0 DEF SignUpInvitation, Continue, Becomes
  <2>2. /\ post.op = "signup" /\ post.step = "post" /\ post.p = calls[c].p
        /\ put.op = "signup" /\ put.step = "put"
    OBVIOUS
  <2> HIDE DEF post, put
  <2> QED
    BY <2>1, <2>2
<1>3. CallKnows(c)'
  <2>1. calls'[c] = k
    BY <1>2 DEF Becomes
  <2>2. ConvertKnows(c)'
    BY <1>0, <1>2, <2>1 DEF ConvertKnows, ByEmail
  <2> QED
    BY <1>2, <2>1, <2>2 DEF CallKnows, RelationKnows, InviteKnows, DeletionKnows
<1> QED
  BY <1>0, <1>1, <1>2, <1>3, SerialKept

-----------------------------------------------------------------------------
(* The put of a status *)

LEMMA RelationIdIs ==
    ASSUME NEW u \in Ids, NEW v \in Ids, u # v
    PROVE  /\ RelationId(u, v) \in RelationIds
           /\ {RelationId(u, v)[1], RelationId(u, v)[2]} = {u, v}
           /\ \A p \in RelationIds : {p[1], p[2]} = {u, v} => p = RelationId(u, v)
BY SocialAssumption DEF RelationId, RelationIds

\* The intents that are not requests need a relation.
LEMMA AppliesToLive ==
    ASSUME NEW u \in Ids, NEW v \in Ids, u # v, NEW intent \in Intents, intent # "request",
           Applies(intent, GetRelationStatus(u, v))
    PROVE  Live(relations[RelationId(u, v)].status)
BY DEF Applies, Intents, GetRelationStatus, UserRelative, Live

\* The wishes that a put leaves are what its status says.
LEMMA WishesFollow ==
    ASSUME WishesInv, NEW u \in Ids, NEW v \in Ids, u # v,
           NEW status \in {"none", "friends", RequestedStatus(u, v)},
           relations'[RelationId(u, v)].status = status,
           \A p \in RelationIds \ {RelationId(u, v)} : relations'[p] = relations[p],
           wishes' = WishesAfter(u, v, status),
           status = "friends" => <<v, u>> \in wishes,
           status = RequestedStatus(u, v) => <<v, u>> \notin wishes
    PROVE  WishesInv'
<1>1. ASSUME NEW p \in RelationIds
      PROVE  /\ relations'[p].status = "friends" <=> <<p[1], p[2]>> \in wishes' /\ <<p[2], p[1]>> \in wishes'
             /\ relations'[p].status = "a-requested" <=> <<p[1], p[2]>> \in wishes' /\ <<p[2], p[1]>> \notin wishes'
             /\ relations'[p].status = "b-requested" <=> <<p[2], p[1]>> \in wishes' /\ <<p[1], p[2]>> \notin wishes'
  <2>1. CASE p # RelationId(u, v)
    <3>1. {p[1], p[2]} # {u, v}
      BY <2>1, RelationIdIs
    <3>2. <<p[1], p[2]>> \notin {<<u, v>>, <<v, u>>} /\ <<p[2], p[1]>> \notin {<<u, v>>, <<v, u>>}
      BY <3>1
    <3>3. /\ <<p[1], p[2]>> \in wishes' <=> <<p[1], p[2]>> \in wishes
          /\ <<p[2], p[1]>> \in wishes' <=> <<p[2], p[1]>> \in wishes
      BY <3>2 DEF WishesAfter
    <3> QED
      BY <2>1, <3>3 DEF WishesInv
  <2>2. CASE p = RelationId(u, v) /\ u < v
    <3>1. p[1] = u /\ p[2] = v /\ RequestedStatus(u, v) = "a-requested"
      BY <2>2 DEF RelationId, RequestedStatus
    <3> QED
      BY <2>2, <3>1 DEF WishesAfter
  <2>3. CASE p = RelationId(u, v) /\ ~(u < v)
    <3>1. p[1] = v /\ p[2] = u /\ RequestedStatus(u, v) = "b-requested"
      BY <2>3 DEF RelationId, RequestedStatus
    <3> QED
      BY <2>3, <3>1 DEF WishesAfter
  <2> QED
    BY <2>1, <2>2, <2>3
<1> QED
  BY <1>1 DEF WishesInv

\* What the wishes were when a status is decided.
LEMMA DecidedWishes ==
    ASSUME WishesInv, NEW u \in Ids, NEW v \in Ids, u # v, NEW intent \in Intents,
           Applies(intent, GetRelationStatus(u, v)),
           NEW status, status = Decided(intent, u, v, GetRelationStatus(u, v))
    PROVE  /\ status \in {"none", "friends", RequestedStatus(u, v)}
           /\ status = "friends" => <<v, u>> \in wishes
           /\ status = RequestedStatus(u, v) => <<v, u>> \notin wishes
<1> DEFINE q == RelationId(u, v)
<1>1. /\ q \in RelationIds
      /\ q[1] = IF u < v THEN u ELSE v
      /\ q[2] = IF u < v THEN v ELSE u
  BY RelationIdIs DEF RelationId
<1>2. GetRelationStatus(u, v) = "otherRequested" => <<v, u>> \in wishes
  BY <1>1 DEF GetRelationStatus, UserRelative, WishesInv
<1>3. GetRelationStatus(u, v) = "none" => <<v, u>> \notin wishes
  BY <1>1 DEF GetRelationStatus, UserRelative, WishesInv
<1>4. RequestedStatus(u, v) \in {"a-requested", "b-requested"}
  BY DEF RequestedStatus
<1> QED
  BY <1>2, <1>3, <1>4 DEF Applies, Decided, Intents

LEMMA SerialRelationPut ==
    ASSUME SerialParts, AccountsInv, NEW c \in Calls, RelationPut(c),
           UNCHANGED <<invitationVars, accountVars>>
    PROVE  SerialParts'
<1> DEFINE u == calls[c].u
           v == calls[c].v
           q == RelationId(u, v)
           status == Decided(calls[c].intent, u, v, calls[c].status)
<1>0. /\ UNCHANGED <<accounts, person, inviters, groupInviter, promised, notifications, everWished>>
      /\ calls[c].op = "relation" /\ calls[c].step = "put" /\ DOMAIN calls = Calls
      /\ wishes' = WishesAfter(u, v, status)
      /\ posts' = posts \cup Notified(calls[c].intent, u, v, calls[c].status)
      /\ Becomes(c, Idle)
  BY DEF RelationPut, invitationVars, accountVars, AccountsInv, End, Continue, Becomes
<1>1. posts = {} /\ \A d \in Calls \ {c} : calls[d] = Idle
  BY <1>0, Alone DEF SerialParts
<1>2. /\ u \in Ids /\ v \in Ids /\ u # v /\ calls[c].intent \in Intents /\ accounts[u] = "user"
      /\ calls[c].intent = "request" => accounts[v] = "user"
      /\ calls[c].status = GetRelationStatus(u, v) /\ Applies(calls[c].intent, calls[c].status)
  BY <1>0 DEF SerialParts, CallKnows, RelationKnows
<1>3. /\ DOMAIN relations' = RelationIds /\ relations'[q].status = status
      /\ \A p \in RelationIds \ {q} : relations'[p] = relations[p]
  BY <1>2, RelationIdIs DEF RelationPut, PutStatus, SerialParts, DocumentsInv
<1>4. /\ status \in {"none", "friends", RequestedStatus(u, v)}
      /\ status = "friends" => <<v, u>> \in wishes
      /\ status = RequestedStatus(u, v) => <<v, u>> \notin wishes
  BY <1>2, DecidedWishes DEF SerialParts
<1>5. accounts[v] = "user" \/ v \in {w \in Ids : UserRelations(w) # {}}
  <2>1. ASSUME calls[c].intent # "request" PROVE q \in UserRelations(v)
    BY <1>2, <2>1, AppliesToLive, RelationIdIs DEF UserRelations
  <2> QED
    BY <1>2, <2>1
<1>6. Registered(u) /\ Registered(v)
  BY <1>2, <1>5 DEF SerialParts, DocumentsInv, Registered
<1>7. ~Gone(u) /\ ~Gone(v)
  BY <1>2, <1>5 DEF SerialParts, GoneInv, Gone
<1>8. posts' \subseteq {[user |-> v, subject |-> u], [user |-> u, subject |-> v]}
  BY <1>0, <1>1 DEF Notified
<1> HIDE DEF u, v, q, status
<1>9. \A w \in Ids \ {u, v} : UserRelations(w)' = UserRelations(w)
  BY <1>2, <1>3, RelationIdIs DEF UserRelations, q
<1>10. OneAtATime' /\ \A d \in Calls : CallKnows(d)'
  BY <1>0, <1>1, OneKnows, IdleOp
<1>11. DocumentsInv'
  <2>1. \A p \in RelationIds : relations'[p].status \in RelationStatuses \cup {"absent"}
    BY <1>3, <1>4 DEF SerialParts, DocumentsInv, RelationStatuses, RequestedStatus
  <2>2. \A i \in Ids : ~Registered(i)' => UserRelations(i)' = {}
    BY <1>0, <1>6, <1>9 DEF SerialParts, DocumentsInv, Registered
  <2> QED
    BY <1>0, <1>3, <2>1, <2>2 DEF SerialParts, DocumentsInv, Registered
<1>12. GoneInv'
  <2>1. \A w \in Ids : Gone(w)' => Gone(w)
    BY <1>0 DEF Gone, BeingDeleted, Becomes
  <2>2. ASSUME NEW w \in Ids, Gone(w)'
        PROVE  /\ \A n \in notifications' \cup posts' : w \notin {n.user, n.subject}
               /\ UserRelations(w)' = {}
    <3>1. Gone(w) /\ w # u /\ w # v
      BY <1>7, <2>1, <2>2
    <3> QED
      BY <1>0, <1>8, <1>9, <3>1 DEF SerialParts, GoneInv
  <2> QED
    BY <2>2 DEF GoneInv
<1>13. ASSUME NEW m \in promised, ~m.group PROVE PromiseHolds(m)'
  <2>1. PromiseHolds(m)
    BY <1>13 DEF SerialParts, PromisesInv
  <2> QED
    BY <1>0, <2>1 DEF PromiseHolds, Registered, Becomes
<1>14. WishesInv'
  BY <1>0, <1>2, <1>3, <1>4, WishesFollow DEF SerialParts, q
<1> QED
  BY <1>0, <1>10, <1>11, <1>12, <1>13, <1>14 DEF SerialParts, PromisesInv

-----------------------------------------------------------------------------
(* Invitations and sign ups *)

\* The documents that an invitation of p by u writes: those of p that were invited, or
\* one that was free.
Writes(u, p, toGroup, docs) ==
    /\ docs \subseteq Ids
    /\ AddInviter(u, toGroup, docs)
    /\ DOMAIN accounts' = Ids /\ DOMAIN person' = Ids
    /\ \A i \in Ids \ docs : accounts'[i] = accounts[i] /\ person'[i] = person[i]
    /\ \A i \in docs : accounts'[i] = "invited" /\ person'[i] = p /\ u \notin inviters[i]
    /\ IF ByEmail("invited", p) # {}
       THEN \A i \in docs : accounts[i] = "invited" /\ person[i] = p
       ELSE \E i \in Ids : docs = {i} /\ accounts[i] = "nobody"
    /\ promised' # promised => /\ promised' = promised \cup {[u |-> u, p |-> p, group |-> toGroup]}
                               /\ docs # {}

LEMMA InviteWrites ==
    ASSUME SerialParts, AccountsInv, NEW c \in Calls, InviteWrite(c)
    PROVE  \E docs \in SUBSET Ids : Writes(calls[c].u, calls[c].p, calls[c].group, docs)
<1> DEFINE u == calls[c].u
           p == calls[c].p
           able == DOMAIN calls[c].able
           new == [u |-> u, p |-> p, group |-> calls[c].group]
<1>0. calls[c].op = "invite" /\ calls[c].step = "write" /\ DOMAIN accounts = Ids /\ DOMAIN person = Ids
  BY DEF InviteWrite, AccountsInv
<1>1. /\ able = {i \in ByEmail("invited", p) : CanBeInvited(u, i)}
      /\ IF ByEmail("invited", p) = {} THEN calls[c].able = <<>> ELSE able # {}
  BY <1>0 DEF SerialParts, CallKnows, InviteKnows
<1>2. CASE ByEmail("invited", p) # {}
  <2>1. able # {} /\ calls[c].able # <<>>
    BY <1>1, <1>2
  <2> DEFINE docs == {i \in able : Copy(i) = calls[c].able[i]}
  <2>2. /\ AddInviter(u, calls[c].group, docs) /\ UNCHANGED <<accounts, person>>
        /\ promised' # promised => promised' = promised \cup {new} /\ docs = able
    BY <2>1 DEF InviteWrite
  <2>3. \A i \in able : i \in Ids /\ accounts[i] = "invited" /\ person[i] = p /\ u \notin inviters[i]
    BY <1>1 DEF ByEmail, CanBeInvited
  <2>4. docs \subseteq able
    OBVIOUS
  <2> HIDE DEF docs
  <2>5. Writes(u, p, calls[c].group, docs)
    BY <1>0, <1>2, <2>1, <2>2, <2>3, <2>4 DEF Writes
  <2> QED
    BY <2>3, <2>4, <2>5
<1>3. CASE ByEmail("invited", p) = {}
  <2>1. PICK i \in Free : /\ accounts' = [accounts EXCEPT ![i] = "invited"]
                          /\ person' = [person EXCEPT ![i] = p]
                          /\ AddInviter(u, calls[c].group, {i})
                          /\ promised' = promised \cup {new}
    BY <1>1, <1>3 DEF InviteWrite
  <2>2. i \in Ids /\ accounts[i] = "nobody" /\ inviters[i] = {}
    BY DEF Free, SerialParts, DocumentsInv
  <2>3. Writes(u, p, calls[c].group, {i})
    BY <1>0, <1>3, <2>1, <2>2 DEF Writes
  <2> QED
    BY <2>2, <2>3
<1> QED
  BY <1>2, <1>3

LEMMA SerialInviteWrite ==
    ASSUME SerialParts, AccountsInv, NoId \notin Ids, NEW c \in Calls, InviteWrite(c), UNCHANGED accountVars
    PROVE  SerialParts'
<1> DEFINE u == calls[c].u
           p == calls[c].p
           toGroup == calls[c].group
           new == [u |-> u, p |-> p, group |-> toGroup]
<1>0. /\ UNCHANGED <<relations, posts, wishes, notifications, everWished, stopEmails>>
      /\ calls[c].op = "invite" /\ calls[c].step = "write" /\ DOMAIN calls = Calls
      /\ Becomes(c, Idle)
  BY DEF InviteWrite, accountVars, AccountsInv, End, Continue, Becomes
<1>1. posts = {} /\ \A d \in Calls \ {c} : calls[d] = Idle
  BY <1>0, Alone DEF SerialParts
<1>2. /\ u \in Ids /\ accounts[u] = "user" /\ p \in Persons
      /\ \A i \in Ids : ~(accounts[i] = "user" /\ person[i] = p)
  BY <1>0 DEF SerialParts, CallKnows, InviteKnows, ByEmail
<1>3. PICK docs \in SUBSET Ids : Writes(u, p, toGroup, docs)
  BY InviteWrites
<1>4. /\ DOMAIN accounts' = Ids /\ DOMAIN person' = Ids
      /\ \A i \in Ids \ docs : accounts'[i] = accounts[i] /\ person'[i] = person[i]
      /\ \A i \in docs : accounts'[i] = "invited" /\ person'[i] = p /\ u \notin inviters[i]
      /\ \A i \in docs : accounts[i] = "nobody" \/ (accounts[i] = "invited" /\ person[i] = p)
      /\ (\E i \in Ids : accounts[i] = "invited" /\ person[i] = p)
            => \A i \in docs : accounts[i] = "invited" /\ person[i] = p
      /\ ~(\E i \in Ids : accounts[i] = "invited" /\ person[i] = p)
            => \E i \in Ids : docs = {i} /\ accounts[i] = "nobody"
  BY <1>3 DEF Writes, ByEmail
<1>5. /\ DOMAIN inviters' = Ids /\ DOMAIN groupInviter' = Ids
      /\ \A i \in Ids : inviters'[i] = IF i \in docs THEN inviters[i] \cup {u} ELSE inviters[i]
      /\ \A i \in Ids : groupInviter'[i] = IF i \in docs /\ toGroup THEN u ELSE groupInviter[i]
  BY <1>3 DEF Writes, AddInviter
<1>6. promised' # promised => promised' = promised \cup {new} /\ docs # {}
  BY <1>3 DEF Writes
<1> HIDE DEF u, p, toGroup, new
<1>7. \A i \in Ids : (Registered(i)' <=> Registered(i)) /\ (accounts'[i] = "deleted" <=> accounts[i] = "deleted")
                     /\ (accounts'[i] = "user" <=> accounts[i] = "user")
                     /\ (accounts[i] # "nobody" => accounts'[i] = accounts[i] /\ person'[i] = person[i])
  BY <1>4 DEF Registered
<1>8. OneAtATime' /\ \A d \in Calls : CallKnows(d)'
  BY <1>0, <1>1, OneKnows, IdleOp
<1>9. \A i, j \in Ids : accounts'[i] = "invited" /\ accounts'[j] = "invited" /\ person'[i] = person'[j]
                           => i = j
  BY <1>4 DEF SerialParts, DocumentsInv
<1>10. DocumentsInv'
  <2>1. \A i \in Ids : inviters'[i] \subseteq {w \in Ids \ {i} : Registered(w)'}
    BY <1>2, <1>4, <1>5, <1>7 DEF SerialParts, DocumentsInv, Registered
  <2>2. \A i \in Ids : groupInviter'[i] \in inviters'[i] \cup {NoId}
    BY <1>5 DEF SerialParts, DocumentsInv
  <2>3. \A i \in Ids : /\ accounts'[i] \in {"nobody", "invited", "user", "deleted"}
                       /\ accounts'[i] = "nobody" => inviters'[i] = {}
    BY <1>4, <1>5 DEF SerialParts, DocumentsInv
  <2>4. \A i \in Ids : ~Registered(i)' => UserRelations(i)' = {}
    BY <1>0, <1>7 DEF SerialParts, DocumentsInv, UserRelations
  <2> QED
    BY <1>0, <1>5, <1>9, <2>1, <2>2, <2>3, <2>4 DEF SerialParts, DocumentsInv, Registered
<1>11. GoneInv'
  <2>1. \A w \in Ids : Gone(w)' => Gone(w)
    BY <1>0, <1>5, <1>7 DEF Gone, BeingDeleted, Becomes
  <2> QED
    BY <1>0, <2>1 DEF SerialParts, GoneInv, UserRelations
<1>12. ASSUME NEW m \in promised, ~m.group PROVE PromiseHolds(m)'
  <2>1. PromiseHolds(m)
    BY <1>12 DEF SerialParts, PromisesInv
  <2>2. \E j \in Ids : person'[j] = m.p /\ accounts'[j] # "nobody"
    BY <1>7, <2>1 DEF PromiseHolds
  <2>3. ASSUME NEW j \in Ids, accounts'[j] = "invited", person'[j] = m.p,
               \A i \in Ids : Registered(i)' => person'[i] # m.p
        PROVE  m.u \in inviters'[j] /\ groupInviter'[j] # m.u
    <3>1. \A i \in Ids : Registered(i) => person[i] # m.p
      BY <1>7, <2>3 DEF Registered
    <3>2. accounts[j] = "invited" /\ person[j] = m.p
      <4>1. \E i \in Ids : accounts[i] = "invited" /\ person[i] = m.p
        BY <2>1, <3>1 DEF PromiseHolds, Registered, SerialParts, DocumentsInv
      <4> QED
        BY <1>4, <2>3, <4>1
    <3>3. m.u \in inviters[j] /\ groupInviter[j] # m.u
      BY <2>1, <3>1, <3>2 DEF PromiseHolds
    <3> QED
      BY <1>4, <1>5, <3>3
  <2>4. ASSUME NEW i \in Ids, accounts'[i] = "user", person'[i] = m.p
        PROVE  \/ <<m.u, i>> \in everWished'
               \/ \E d \in Calls : /\ calls'[d].op = "signup" /\ calls'[d].step = "convert"
                                   /\ calls'[d].i = i /\ m.u \in calls'[d].friends
    BY <1>0, <1>7, <2>1, <2>4 DEF PromiseHolds, Becomes
  <2> QED
    BY <2>1, <2>2, <2>3, <2>4 DEF PromiseHolds
<1>13. ASSUME promised' # promised, ~toGroup, NEW m, m = new PROVE PromiseHolds(m)'
  <2>1. m.u = u /\ m.p = p
    BY <1>13 DEF new
  <2>2. PICK j \in docs : TRUE
    BY <1>6, <1>13
  <2>3. /\ j \in Ids /\ person'[j] = p /\ accounts'[j] = "invited" /\ u \in inviters'[j]
    BY <1>4, <1>5
  <2>4. groupInviter'[j] # u
    <3>1. groupInviter[j] \in inviters[j] \cup {NoId} /\ u \notin inviters[j]
      BY <1>4, <2>3 DEF SerialParts, DocumentsInv
    <3> QED
      BY <1>2, <1>5, <1>13, <2>3, <3>1
  <2>5. \A i \in Ids : accounts'[i] = "invited" /\ person'[i] = p => i = j
    BY <1>9, <2>3
  <2>6. \A i \in Ids : ~(accounts'[i] = "user" /\ person'[i] = p)
    BY <1>2, <1>7
  <2> QED
    BY <1>2, <2>1, <2>3, <2>4, <2>5, <2>6 DEF PromiseHolds
<1>14. WishesInv'
  BY <1>0 DEF SerialParts, WishesInv
<1>15. ASSUME NEW m \in promised', ~m.group PROVE PromiseHolds(m)'
  <2>1. CASE m \in promised
    BY <1>12, <1>15, <2>1
  <2>2. CASE m \notin promised
    <3>1. m = new /\ promised' # promised
      BY <1>6, <2>2
    <3>2. ~toGroup
      BY <1>15, <3>1 DEF new
    <3> QED
      BY <1>13, <3>1, <3>2
  <2> QED
    BY <2>1, <2>2
<1> QED
  BY <1>8, <1>10, <1>11, <1>14, <1>15 DEF SerialParts, PromisesInv

\* A document becomes the account of the person that signs up.
LEMMA SerialAccount ==
    ASSUME SerialParts, AccountsInv, NEW c \in Calls, calls[c].op = "signup", calls[c].step # "convert",
           posts = {}, \A d \in Calls \ {c} : calls[d] = Idle,
           UNCHANGED <<relations, posts, wishes, everWished, inviters, groupInviter, promised,
                       notifications>>,
           NEW i \in Ids, ~Registered(i), accounts' = [accounts EXCEPT ![i] = "user"],
           DOMAIN person' = Ids, \A j \in Ids \ {i} : person'[j] = person[j],
           accounts[i] # "nobody" => person'[i] = person[i],
           \A j \in Ids : Registered(j) => person[j] # person'[i],
           NEW k, Becomes(c, k), k = Idle \/ k.op = "signup",
           k.op # "idle" => CallKnows(c)',
           accounts[i] = "nobody" => ByEmail("invited", person'[i]) = {},
           accounts[i] # "nobody" => /\ k.op = "signup" /\ k.step = "convert" /\ k.i = i
                                     /\ k.friends = FriendInviters(i)
    PROVE  SerialParts'
<1>0. /\ calls'[c] = k /\ \A d \in Calls \ {c} : calls'[d] = calls[d]
      /\ DOMAIN accounts' = Ids /\ accounts'[i] = "user"
      /\ \A j \in Ids \ {i} : accounts'[j] = accounts[j]
      /\ k.op # "delete"
  BY IdleOp DEF AccountsInv, Becomes
<1>1. OneAtATime' /\ \A d \in Calls : CallKnows(d)'
  BY OneKnows
<1>2. \A j \in Ids : Registered(j) => Registered(j)' /\ accounts'[j] = accounts[j] /\ person'[j] = person[j]
  BY <1>0 DEF Registered
<1>3. DocumentsInv'
  <2>1. \A j \in Ids : UserRelations(j)' = UserRelations(j)
    BY DEF UserRelations
  <2> QED
    BY <1>0, <1>2, <2>1 DEF SerialParts, DocumentsInv
<1>4. GoneInv'
  <2>1. \A w \in Ids : Gone(w)' => Gone(w)
    BY <1>0 DEF Gone, BeingDeleted
  <2> QED
    BY <2>1 DEF SerialParts, GoneInv, UserRelations
<1>5. ASSUME NEW m \in promised, ~m.group PROVE PromiseHolds(m)'
  <2>1. PromiseHolds(m)
    BY <1>5 DEF SerialParts, PromisesInv
  <2>2. \E j \in Ids : person'[j] = m.p /\ accounts'[j] # "nobody"
    BY <1>0, <2>1 DEF PromiseHolds
  <2>3. ASSUME NEW j \in Ids, accounts'[j] = "invited", person'[j] = m.p,
               \A h \in Ids : Registered(h)' => person'[h] # m.p
        PROVE  m.u \in inviters'[j] /\ groupInviter'[j] # m.u
    BY <1>0, <1>2, <2>1, <2>3 DEF PromiseHolds
  <2>4. ASSUME NEW j \in Ids, accounts'[j] = "user", person'[j] = m.p
        PROVE  \/ <<m.u, j>> \in everWished'
               \/ \E d \in Calls : /\ calls'[d].op = "signup" /\ calls'[d].step = "convert"
                                   /\ calls'[d].i = j /\ m.u \in calls'[d].friends
    <3>1. CASE j # i
      BY <1>0, <2>1, <2>4, <3>1, IdleOp DEF PromiseHolds
    <3>2. CASE j = i /\ accounts[i] # "nobody"
      <4>1. accounts[i] = "invited" /\ person[i] = m.p
        BY <2>4, <3>2 DEF SerialParts, DocumentsInv, Registered
      <4>2. m.u \in inviters[i] /\ groupInviter[i] # m.u
        BY <2>1, <4>1 DEF PromiseHolds
      <4> QED
        BY <1>0, <3>2, <4>2 DEF FriendInviters
    <3>3. CASE j = i /\ accounts[i] = "nobody"
      BY <2>1, <2>4, <3>3 DEF PromiseHolds, ByEmail, SerialParts, DocumentsInv, Registered
    <3> QED
      BY <3>1, <3>2, <3>3
  <2> QED
    BY <2>1, <2>2, <2>3, <2>4 DEF PromiseHolds
<1>6. WishesInv'
  BY DEF SerialParts, WishesInv
<1> QED
  BY <1>1, <1>3, <1>4, <1>5, <1>6 DEF SerialParts, PromisesInv

LEMMA SerialSignUpWrite ==
    ASSUME SerialParts, AccountsInv, NEW c \in Calls, SignUpWrite(c)
    PROVE  SerialParts'
<1>0. /\ UNCHANGED <<relations, posts, wishes, everWished, inviters, groupInviter, promised,
                     notifications>>
      /\ calls[c].op = "signup" /\ calls[c].step \in {"post", "put"} /\ DOMAIN calls = Calls
      /\ DOMAIN accounts = Ids /\ DOMAIN person = Ids
  BY DEF SignUpWrite, accountVars, AccountsInv
<1>1. posts = {} /\ \A d \in Calls \ {c} : calls[d] = Idle
  BY <1>0, Alone DEF SerialParts
<1>2. /\ \A i \in Ids : Registered(i) => person[i] # calls[c].p
      /\ calls[c].step = "put" => calls[c].i \in Ids /\ accounts[calls[c].i] # "nobody"
                                  /\ person[calls[c].i] = calls[c].p /\ calls[c].copy.type = "invited"
      /\ calls[c].step = "post" => ByEmail("invited", calls[c].p) = {}
  BY <1>0 DEF AccountsInv, SignUpHolds, SigningUp, SerialParts, CallKnows, ConvertKnows
<1>3. CASE UNCHANGED <<accounts, person>> /\ calls' = [calls EXCEPT ![c] = Idle]
  <2>1. Becomes(c, Idle)
    BY <1>0, <1>3 DEF Becomes
  <2> QED
    BY <1>0, <1>1, <1>3, <2>1, SerialKept, IdleOp
<1>4. ASSUME NEW i \in Free, calls[c].step = "post", accounts' = [accounts EXCEPT ![i] = "user"],
             person' = [person EXCEPT ![i] = calls[c].p], calls' = [calls EXCEPT ![c] = Idle]
      PROVE  SerialParts'
  <2>1. i \in Ids /\ accounts[i] = "nobody" /\ ~Registered(i)
    BY DEF Free, Registered
  <2>2. Becomes(c, Idle) /\ person'[i] = calls[c].p /\ DOMAIN person' = Ids
        /\ \A j \in Ids \ {i} : person'[j] = person[j]
    BY <1>0, <1>4, <2>1 DEF Becomes
  <2> QED
    BY <1>0, <1>1, <1>2, <1>4, <2>1, <2>2, SerialAccount, IdleOp
<1>5. ASSUME calls[c].step = "put", Copy(calls[c].i) = calls[c].copy, UNCHANGED person,
             accounts' = [accounts EXCEPT ![calls[c].i] = "user"],
             calls' = [calls EXCEPT ![c] = [op |-> "signup", step |-> "convert", i |-> calls[c].i,
                                            friends |-> FriendInviters(calls[c].i)]]
      PROVE  SerialParts'
  <2>0. PICK i \in Ids : i = calls[c].i
    BY <1>2, <1>5
  <2> DEFINE k == [op |-> "signup", step |-> "convert", i |-> i, friends |-> FriendInviters(i)]
  <2>1. accounts[i] = "invited" /\ ~Registered(i)
    <3>1. Copy(i).type = accounts[i]
      BY DEF Copy
    <3> QED
      BY <1>2, <1>5, <2>0, <3>1 DEF Registered
  <2>2. Becomes(c, k)
    BY <1>0, <1>5, <2>0 DEF Becomes
  <2>3. k.op = "signup" /\ k.step = "convert" /\ k.i = i /\ k.friends = FriendInviters(i)
        /\ DOMAIN k = {"op", "step", "i", "friends"}
    OBVIOUS
  <2> HIDE DEF k
  <2>4. \A u \in FriendInviters(i) : /\ u \in inviters[i] /\ u \in Ids /\ u # i
                                     /\ ~Live(relations[RelationId(u, i)].status)
    <3>1. \A u \in FriendInviters(i) : u \in inviters[i] /\ u \in Ids /\ u # i
      BY DEF FriendInviters, SerialParts, DocumentsInv
    <3>2. UserRelations(i) = {}
      BY <2>1 DEF SerialParts, DocumentsInv
    <3>3. \A u \in Ids \ {i} : ~Live(relations[RelationId(u, i)].status)
      BY <3>2, RelationIdIs DEF UserRelations
    <3> QED
      BY <3>1, <3>3
  <2>5. CallKnows(c)'
    <3>1. calls'[c] = k /\ accounts'[i] = "user"
      BY <1>0, <1>5, <2>0, <2>2 DEF Becomes
    <3>2. ConvertKnows(c)'
      BY <1>0, <2>3, <2>4, <3>1 DEF ConvertKnows
    <3> QED
      BY <2>3, <3>1, <3>2 DEF CallKnows, RelationKnows, InviteKnows, DeletionKnows
  <2> QED
    BY <1>0, <1>1, <1>2, <1>5, <2>0, <2>1, <2>2, <2>3, <2>5, SerialAccount
<1> QED
  BY <1>3, <1>4, <1>5 DEF SignUpWrite, End, Continue

LEMMA SerialSignUpConvert ==
    ASSUME SerialParts, AccountsInv, NEW c \in Calls, SignUpConvert(c)
    PROVE  SerialParts'
<1>0. /\ UNCHANGED <<accounts, posts, person, inviters, groupInviter, promised, notifications>>
      /\ calls[c].op = "signup" /\ calls[c].step = "convert" /\ DOMAIN calls = Calls
  BY DEF SignUpConvert, accountVars, AccountsInv
<1>1. posts = {} /\ \A d \in Calls \ {c} : calls[d] = Idle
  BY <1>0, Alone DEF SerialParts
<1>2. CASE calls[c].friends = {}
  <2>1. Becomes(c, Idle) /\ UNCHANGED <<relations, wishes, everWished>>
    BY <1>0, <1>2 DEF SignUpConvert, End, Continue, Becomes
  <2> QED
    BY <1>0, <1>1, <1>2, <2>1, SerialKept, IdleOp
<1>3. ASSUME NEW u \in calls[c].friends, ConvertFriendInvitation(u, calls[c].i),
             calls' = [calls EXCEPT ![c] = [calls[c] EXCEPT !.friends = @ \ {u}]]
      PROVE  SerialParts'
  <2>0. PICK i \in Ids : i = calls[c].i
    BY <1>0 DEF SerialParts, CallKnows, ConvertKnows
  <2>1. /\ accounts[i] = "user" /\ calls[c].friends \subseteq inviters[i]
        /\ \A w \in calls[c].friends : ~Live(relations[RelationId(w, i)].status)
        /\ DOMAIN calls[c] = {"op", "step", "i", "friends"}
    BY <1>0, <2>0 DEF SerialParts, CallKnows, ConvertKnows
  <2>2. /\ \A w \in calls[c].friends : w \in Ids /\ w # i
        /\ u \in Ids /\ u # i /\ Registered(u) /\ Registered(i)
    BY <2>1 DEF SerialParts, DocumentsInv, Registered
  <2> DEFINE status == RequestedStatus(u, i)
             q == RelationId(u, i)
             k == [calls[c] EXCEPT !.friends = @ \ {u}]
  <2>3. k.op = "signup" /\ k.step = "convert" /\ k.i = i /\ k.friends = calls[c].friends \ {u}
        /\ DOMAIN k = {"op", "step", "i", "friends"} /\ Becomes(c, k)
    BY <1>0, <1>3, <2>0, <2>1 DEF Becomes
  <2>4. /\ DOMAIN relations' = RelationIds /\ relations'[q].status = status
        /\ \A p \in RelationIds \ {q} : relations'[p] = relations[p]
        /\ wishes' = WishesAfter(u, i, status) /\ everWished' = everWished \cup {<<u, i>>}
    BY <1>3, <2>0, <2>2, RelationIdIs DEF ConvertFriendInvitation, PutStatus, SerialParts, DocumentsInv
  <2>5. status \in {"a-requested", "b-requested"}
    BY DEF RequestedStatus
  <2> HIDE DEF status, q, k
  <2>6. <<i, u>> \notin wishes
    <3>1. q \in RelationIds /\ (<<i, u>> = <<q[1], q[2]>> \/ <<i, u>> = <<q[2], q[1]>>)
      BY <2>2, RelationIdIs DEF RelationId, q
    <3>2. ~Live(relations[q].status)
      BY <2>1 DEF q
    <3>3. /\ relations[q].status # "friends" /\ relations[q].status # "a-requested"
          /\ relations[q].status # "b-requested"
      BY <3>2 DEF Live
    <3>4. <<q[1], q[2]>> \notin wishes /\ <<q[2], q[1]>> \notin wishes
      BY <3>1, <3>3 DEF SerialParts, WishesInv
    <3> QED
      BY <3>1, <3>4
  <2>7. WishesInv'
    BY <2>2, <2>4, <2>5, <2>6, WishesFollow DEF SerialParts, status, q
  <2>8. \A w \in Ids \ {u, i} : UserRelations(w)' = UserRelations(w)
    BY <2>2, <2>4, RelationIdIs DEF UserRelations, q
  <2>9. DocumentsInv'
    <3>1. \A p \in RelationIds : relations'[p].status \in RelationStatuses \cup {"absent"}
      BY <2>4, <2>5 DEF SerialParts, DocumentsInv, RelationStatuses
    <3>2. \A j \in Ids : ~Registered(j)' => UserRelations(j)' = {}
      BY <1>0, <2>2, <2>8 DEF SerialParts, DocumentsInv, Registered
    <3> QED
      BY <1>0, <2>4, <3>1, <3>2 DEF SerialParts, DocumentsInv, Registered
  <2>10. GoneInv'
    <3>1. ~Gone(u) /\ ~Gone(i)
      BY <2>1 DEF Gone
    <3>2. \A w \in Ids : Gone(w)' => Gone(w)
      BY <1>0, <2>3 DEF Gone, BeingDeleted, Becomes
    <3>3. ASSUME NEW w \in Ids, Gone(w)'
          PROVE  /\ \A n \in notifications' \cup posts' : w \notin {n.user, n.subject}
                 /\ UserRelations(w)' = {}
      <4>1. Gone(w) /\ w # u /\ w # i
        BY <3>1, <3>2, <3>3
      <4> QED
        BY <1>0, <2>8, <4>1 DEF SerialParts, GoneInv
    <3> QED
      BY <3>3 DEF GoneInv
  <2>11. ASSUME NEW m \in promised, ~m.group PROVE PromiseHolds(m)'
    <3>1. PromiseHolds(m)
      BY <2>11 DEF SerialParts, PromisesInv
    <3>2. ASSUME NEW j \in Ids, accounts[j] = "user", person[j] = m.p
          PROVE  \/ <<m.u, j>> \in everWished'
                 \/ \E d \in Calls : /\ calls'[d].op = "signup" /\ calls'[d].step = "convert"
                                     /\ calls'[d].i = j /\ m.u \in calls'[d].friends
      <4>1. CASE <<m.u, j>> \in everWished
        BY <2>4, <4>1
      <4>2. CASE <<m.u, j>> \notin everWished
        <5>1. PICK d \in Calls : /\ calls[d].op = "signup" /\ calls[d].step = "convert"
                                 /\ calls[d].i = j /\ m.u \in calls[d].friends
          BY <3>1, <3>2, <4>2 DEF PromiseHolds
        <5>2. d = c /\ j = i
          BY <1>1, <2>0, <5>1, IdleOp
        <5>3. m.u = u \/ m.u \in k.friends
          BY <2>3, <5>1, <5>2
        <5> QED
          BY <2>3, <2>4, <5>2, <5>3 DEF Becomes
      <4> QED
        BY <4>1, <4>2
    <3> QED
      BY <1>0, <3>1, <3>2 DEF PromiseHolds, Registered
  <2>12. ConvertKnows(c)'
    <3>1. \A w \in calls[c].friends \ {u} : RelationId(w, i) \in RelationIds \ {q}
      BY <2>2, RelationIdIs DEF q
    <3>2. \A w \in k.friends : ~Live(relations'[RelationId(w, i)].status)
      BY <2>1, <2>3, <2>4, <3>1
    <3>3. calls'[c] = k
      BY <2>3 DEF Becomes
    <3> QED
      BY <1>0, <2>1, <2>3, <3>2, <3>3 DEF ConvertKnows
  <2>13. CallKnows(c)'
    BY <2>3, <2>12 DEF CallKnows, RelationKnows, InviteKnows, DeletionKnows, Becomes
  <2>14. OneAtATime' /\ \A d \in Calls : CallKnows(d)'
    BY <1>0, <1>1, <2>3, <2>13, OneKnows
  <2> QED
    BY <1>0, <2>7, <2>9, <2>10, <2>11, <2>14 DEF SerialParts, PromisesInv
<1> QED
  BY <1>2, <1>3 DEF SignUpConvert, Continue

-----------------------------------------------------------------------------
(* Steps that no request makes *)

LEMMA SerialStopEmails ==
    ASSUME SerialParts, regime = "serial", NEW p \in Persons, StopEmails(p), UNCHANGED accountVars
    PROVE  SerialParts'
<1>1. /\ UNCHANGED <<relationVars, person, inviters, groupInviter, promised, accountVars>>
      /\ \A c \in Calls : calls[c] = Idle
  BY DEF StopEmails, Quiet
<1>2. \A c \in Calls : CallKnows(c)'
  BY <1>1, IdleOp
  DEF CallKnows, RelationKnows, InviteKnows, ConvertKnows, DeletionKnows, relationVars
<1> QED
  BY <1>1, <1>2 DEF SerialParts, OneAtATime, DocumentsInv, GoneInv, PromisesInv, WishesInv, Registered,
     UserRelations, Gone, BeingDeleted, PromiseHolds, relationVars, accountVars

LEMMA SerialSame ==
    ASSUME SerialParts, UNCHANGED <<relationVars, invitationVars, notifications>>
    PROVE  SerialParts'
<1>1. ASSUME NEW c \in Calls PROVE CallKnows(c)'
  BY DEF SerialParts, CallKnows, RelationKnows, InviteKnows, ConvertKnows, DeletionKnows, relationVars,
     invitationVars, GetRelationStatus, ByEmail, CanBeInvited, UserRelations, BySubject
<1> QED
  BY <1>1 DEF SerialParts, OneAtATime, DocumentsInv, GoneInv, PromisesInv, WishesInv, Registered,
     UserRelations, Gone, BeingDeleted, PromiseHolds, relationVars, invitationVars

LEMMA SerialCreateNotification ==
    ASSUME SerialParts, CreateNotification
    PROVE  SerialParts'
<1>1. /\ UNCHANGED <<calls, accounts, relations, wishes, everWished, invitationVars>>
      /\ notifications' \cup posts' = notifications \cup posts /\ posts' \subseteq posts /\ posts # {}
  BY DEF CreateNotification
<1>2. \A c \in Calls : calls[c] = Idle
  BY <1>1 DEF SerialParts, OneAtATime
<1>3. \A c \in Calls : CallKnows(c)'
  BY <1>1, <1>2, IdleOp
  DEF CallKnows, RelationKnows, InviteKnows, ConvertKnows, DeletionKnows
<1> QED
  BY <1>1, <1>2, <1>3 DEF SerialParts, OneAtATime, DocumentsInv, GoneInv, PromisesInv, WishesInv,
     Registered, UserRelations, Gone, BeingDeleted, PromiseHolds, invitationVars

-----------------------------------------------------------------------------
(* Deletions *)

LEMMA SerialDeletionBegin ==
    ASSUME SerialParts, AccountsInv, regime = "serial", NEW c \in Calls, NEW u \in Ids,
           DeletionBegin(c, u)
    PROVE  SerialParts'
<1> DEFINE k == [op |-> "delete", u |-> u, found |-> [x \in {} |-> {}], left |-> CleanUps, failed |-> FALSE]
<1>0. /\ UNCHANGED <<relations, posts, wishes, everWished, notifications, invitationVars>>
      /\ Begin(c, k) /\ DOMAIN calls = Calls
      /\ accounts[u] = "user" /\ DOMAIN accounts' = Ids /\ accounts'[u] = "deleted"
      /\ \A i \in Ids \ {u} : accounts'[i] = accounts[i]
  BY DEF DeletionBegin, AccountsInv
<1>1. k.op = "delete" /\ k.u = u /\ k.left = CleanUps /\ DOMAIN k.found = {}
  OBVIOUS
<1> HIDE DEF k
<1>2. posts = {} /\ Becomes(c, k) /\ \A d \in Calls : calls[d] = Idle
  BY <1>0, BeginsAlone
<1>3. calls'[c] = k /\ \A d \in Calls \ {c} : calls'[d] = calls[d]
  BY <1>2 DEF Becomes
<1>4. CallKnows(c)'
  BY <1>1, <1>3 DEF CallKnows, RelationKnows, InviteKnows, ConvertKnows, DeletionKnows, CleanUps
<1>5. OneAtATime' /\ \A d \in Calls : CallKnows(d)'
  BY <1>0, <1>2, <1>4, OneKnows
<1>6. \A i \in Ids : (Registered(i)' <=> Registered(i)) /\ (accounts'[i] = "user" => accounts[i] = "user")
                     /\ (accounts[i] # "user" => accounts'[i] = accounts[i])
  BY <1>0 DEF Registered
<1>7. DocumentsInv'
  <2>1. \A i \in Ids : UserRelations(i)' = UserRelations(i)
    BY <1>0 DEF UserRelations
  <2> QED
    BY <1>0, <1>6, <2>1 DEF SerialParts, DocumentsInv, invitationVars
<1>8. GoneInv'
  <2>1. ASSUME NEW w \in Ids, Gone(w)' PROVE Gone(w)
    <3>1. w # u
      BY <1>1, <1>3, <2>1 DEF Gone, BeingDeleted
    <3> QED
      BY <1>0, <1>2, <2>1, <3>1, IdleOp DEF Gone, BeingDeleted, invitationVars
  <2> QED
    BY <1>0, <2>1 DEF SerialParts, GoneInv, UserRelations
<1>9. ASSUME NEW m \in promised, ~m.group PROVE PromiseHolds(m)'
  <2>1. PromiseHolds(m)
    BY <1>9 DEF SerialParts, PromisesInv
  <2>2. \A i \in Ids : accounts'[i] = "user" /\ person[i] = m.p => <<m.u, i>> \in everWished
    BY <1>2, <1>6, <2>1, IdleOp DEF PromiseHolds
  <2> QED
    BY <1>0, <1>6, <2>1, <2>2 DEF PromiseHolds, invitationVars
<1> QED
  BY <1>0, <1>5, <1>7, <1>8, <1>9 DEF SerialParts, PromisesInv, WishesInv, invitationVars

\* A deletion goes on, or ends with nothing left about the user.
LEMMA SerialDeletes ==
    ASSUME SerialParts, AccountsInv, NEW c \in Calls, calls[c].op = "delete", NEW k, Becomes(c, k),
           UNCHANGED <<accounts, posts, everWished, invitationVars>>,
           notifications' \subseteq notifications, DOMAIN relations' = RelationIds,
           \A p \in RelationIds : relations'[p] = relations[p] \/ relations'[p].status = "absent",
           WishesInv',
           \/ k.op = "delete" /\ k.u = calls[c].u /\ DeletionKnows(c)'
           \/ k = Idle /\ UserRelations(calls[c].u) = {} /\ BySubject(calls[c].u) = {}
    PROVE  SerialParts'
<1>0. calls'[c] = k /\ \A d \in Calls \ {c} : calls'[d] = calls[d]
  BY DEF Becomes
<1>1. posts = {} /\ \A d \in Calls \ {c} : calls[d] = Idle
  BY Alone DEF SerialParts
<1>2. OneAtATime' /\ \A d \in Calls : CallKnows(d)'
  <2>1. k.op # "idle" => CallKnows(c)'
    BY <1>0, IdleOp DEF CallKnows, RelationKnows, InviteKnows, ConvertKnows
  <2> QED
    BY <1>1, <2>1, OneKnows
<1>3. \A w \in Ids : UserRelations(w)' \subseteq UserRelations(w)
  BY DEF UserRelations, Live
<1>4. DocumentsInv'
  <2>1. \A p \in RelationIds : relations'[p].status \in RelationStatuses \cup {"absent"}
    BY DEF SerialParts, DocumentsInv
  <2>2. \A i \in Ids : ~Registered(i)' => UserRelations(i)' = {}
    BY <1>3 DEF SerialParts, DocumentsInv, Registered
  <2> QED
    BY <2>1, <2>2 DEF SerialParts, DocumentsInv, Registered, invitationVars
<1>5. GoneInv'
  <2>1. ASSUME NEW w \in Ids, Gone(w)'
        PROVE  /\ \A n \in notifications \cup posts : w \notin {n.user, n.subject}
               /\ UserRelations(w) = {}
    <3>1. CASE w = calls[c].u
      <4>1. k = Idle
        BY <1>0, <2>1, <3>1 DEF Gone, BeingDeleted
      <4>2. UserRelations(w) = {} /\ BySubject(w) = {}
        BY <3>1, <4>1, IdleOp
      <4> QED
        BY <1>1, <4>2 DEF BySubject
    <3>2. CASE w # calls[c].u
      <4>1. Gone(w)
        BY <1>0, <1>1, <2>1, <3>2, IdleOp DEF Gone, BeingDeleted, invitationVars
      <4> QED
        BY <4>1 DEF SerialParts, GoneInv
    <3> QED
      BY <3>1, <3>2
  <2>2. ASSUME NEW w \in Ids, Gone(w)'
        PROVE  /\ \A n \in notifications' \cup posts' : w \notin {n.user, n.subject}
               /\ UserRelations(w)' = {}
    BY <1>3, <2>1, <2>2
  <2> QED
    BY <2>2 DEF GoneInv
<1>6. ASSUME NEW m \in promised, ~m.group PROVE PromiseHolds(m)'
  <2>1. PromiseHolds(m)
    BY <1>6 DEF SerialParts, PromisesInv
  <2>2. \A i \in Ids : accounts[i] = "user" /\ person[i] = m.p => <<m.u, i>> \in everWished
    BY <1>1, <2>1, IdleOp DEF PromiseHolds
  <2> QED
    BY <2>1, <2>2 DEF PromiseHolds, Registered, invitationVars
<1> QED
  BY <1>2, <1>4, <1>5, <1>6 DEF SerialParts, PromisesInv, invitationVars

\* What a deletion in flight is made of.
LEMMA DeletionIs ==
    ASSUME AccountsInv, SerialParts, NEW c \in Calls, calls[c].op = "delete"
    PROVE  /\ DOMAIN calls[c] = {"op", "u", "found", "left", "failed"} /\ DOMAIN calls = Calls
           /\ "relations" \notin calls[c].left => UserRelations(calls[c].u) = {}
           /\ "notifications" \notin calls[c].left => BySubject(calls[c].u) = {}
           /\ "relations" \in DOMAIN calls[c].found \cap calls[c].left =>
                 calls[c].found["relations"] = {<<p, relations[p].rev>> : p \in UserRelations(calls[c].u)}
           /\ "notifications" \in DOMAIN calls[c].found \cap calls[c].left =>
                 calls[c].found["notifications"] = BySubject(calls[c].u)
BY DEF AccountsInv, DeletionHolds, SerialParts, CallKnows, DeletionKnows

LEMMA SerialDeletionFind ==
    ASSUME SerialParts, AccountsInv, NEW c \in Calls, NEW what \in CleanUps, DeletionFind(c, what)
    PROVE  SerialParts'
<1> DEFINE u == calls[c].u
           f == [x \in DOMAIN calls[c].found \cup {what} |->
                   IF x \in DOMAIN calls[c].found THEN calls[c].found[x]
                   ELSE IF x = "relations" THEN {<<p, relations[p].rev>> : p \in UserRelations(u)}
                   ELSE BySubject(u)]
           k == [calls[c] EXCEPT !.found = f]
<1>0. /\ UNCHANGED <<accounts, relations, posts, wishes, everWished, notifications, invitationVars>>
      /\ calls[c].op = "delete" /\ what \in {"relations", "notifications"}
      /\ calls' = [calls EXCEPT ![c] = k]
  BY DEF DeletionFind, accountVars, Deleting, Continue, CleanUps
<1>1. /\ DOMAIN calls[c] = {"op", "u", "found", "left", "failed"} /\ DOMAIN calls = Calls
      /\ "relations" \notin calls[c].left => UserRelations(u) = {}
      /\ "notifications" \notin calls[c].left => BySubject(u) = {}
      /\ "relations" \in DOMAIN calls[c].found \cap calls[c].left =>
            calls[c].found["relations"] = {<<p, relations[p].rev>> : p \in UserRelations(u)}
      /\ "notifications" \in DOMAIN calls[c].found \cap calls[c].left =>
            calls[c].found["notifications"] = BySubject(u)
  BY <1>0, DeletionIs
<1>2. k.op = "delete" /\ k.u = u /\ k.left = calls[c].left /\ k.found = f /\ Becomes(c, k)
  BY <1>0, <1>1 DEF Becomes
<1>3. /\ "relations" \in DOMAIN f \cap k.left =>
            f["relations"] = {<<p, relations[p].rev>> : p \in UserRelations(u)}
      /\ "notifications" \in DOMAIN f \cap k.left => f["notifications"] = BySubject(u)
  BY <1>0, <1>1, <1>2
<1> HIDE DEF f, k
<1>4. DeletionKnows(c)'
  <2>1. calls'[c] = k
    BY <1>2 DEF Becomes
  <2> QED
    BY <1>0, <1>1, <1>2, <1>3, <2>1 DEF DeletionKnows, UserRelations, BySubject
<1> QED
  BY <1>0, <1>2, <1>4, SerialDeletes DEF SerialParts, DocumentsInv, WishesInv

\* A clean-up is done, and what it found was all that there was.
LEMMA SerialCleaned ==
    ASSUME SerialParts, AccountsInv, NEW c \in Calls, Deleting(c), NEW k, Becomes(c, k),
           k.op = "delete", k.u = calls[c].u, k.found = calls[c].found, NEW what \in CleanUps,
           k.left = calls[c].left \ {what},
           UNCHANGED <<accounts, posts, everWished, invitationVars>>,
           notifications' \subseteq notifications, DOMAIN relations' = RelationIds,
           \A p \in RelationIds : relations'[p] = relations[p] \/ relations'[p].status = "absent",
           WishesInv',
           IF what = "relations"
           THEN \A p \in UserRelations(calls[c].u) : relations'[p].status = "absent"
           ELSE relations' = relations,
           IF what = "notifications" THEN notifications' = notifications \ BySubject(calls[c].u)
           ELSE notifications' = notifications
    PROVE  SerialParts'
<1>0. calls[c].op = "delete" /\ calls'[c] = k
  BY DEF Deleting, Becomes
<1> DEFINE u == calls[c].u
<1>1. /\ "relations" \notin calls[c].left => UserRelations(u) = {}
      /\ "notifications" \notin calls[c].left => BySubject(u) = {}
      /\ "relations" \in DOMAIN calls[c].found \cap calls[c].left =>
            calls[c].found["relations"] = {<<p, relations[p].rev>> : p \in UserRelations(u)}
      /\ "notifications" \in DOMAIN calls[c].found \cap calls[c].left =>
            calls[c].found["notifications"] = BySubject(u)
  BY <1>0, DeletionIs
<1>2. /\ "relations" \notin k.left =>
           {p \in RelationIds : u \in {p[1], p[2]} /\ Live(relations'[p].status)} = {}
      /\ "notifications" \notin k.left => {n \in notifications' : n.user = u \/ n.subject = u} = {}
  <2>1. ASSUME "relations" \notin k.left
        PROVE  {p \in RelationIds : u \in {p[1], p[2]} /\ Live(relations'[p].status)} = {}
    <3>1. \A p \in RelationIds : u \in {p[1], p[2]} /\ Live(relations'[p].status) => p \in UserRelations(u)
      BY DEF UserRelations, Live
    <3>2. CASE what = "relations"
      BY <3>1, <3>2 DEF Live
    <3>3. CASE what # "relations"
      BY <1>1, <2>1, <3>1, <3>3
    <3> QED
      BY <3>2, <3>3
  <2>2. ASSUME "notifications" \notin k.left
        PROVE  {n \in notifications' : n.user = u \/ n.subject = u} = {}
    BY <1>1, <2>2 DEF BySubject
  <2> QED
    BY <2>1, <2>2
<1>3. /\ "relations" \in DOMAIN k.found \cap k.left => what # "relations"
      /\ "notifications" \in DOMAIN k.found \cap k.left => what # "notifications"
  OBVIOUS
<1>4. DeletionKnows(c)'
  <2>1. "relations" \in DOMAIN k.found \cap k.left =>
           k.found["relations"] = {<<p, relations'[p].rev>> : p \in
              {p \in RelationIds : u \in {p[1], p[2]} /\ Live(relations'[p].status)}}
    BY <1>1, <1>3 DEF UserRelations
  <2>2. "notifications" \in DOMAIN k.found \cap k.left =>
           k.found["notifications"] = {n \in notifications' : n.user = u \/ n.subject = u}
    BY <1>1, <1>3 DEF BySubject
  <2> QED
    BY <1>0, <1>2, <2>1, <2>2 DEF DeletionKnows, UserRelations, BySubject
<1> QED
  BY <1>0, <1>4, SerialDeletes

LEMMA SerialDeleteRelations ==
    ASSUME SerialParts, AccountsInv, NEW c \in Calls, DeleteRelations(c)
    PROVE  SerialParts'
<1> DEFINE u == calls[c].u
           same(p) == <<p, relations[p].rev>> \in calls[c].found["relations"]
           k == [calls[c] EXCEPT !.left = @ \ {"relations"}]
<1>0. /\ UNCHANGED <<accounts, posts, everWished, notifications, invitationVars>>
      /\ Deleting(c) /\ calls[c].op = "delete" /\ "relations" \in calls[c].left \cap DOMAIN calls[c].found
      /\ relations' = [p \in RelationIds |->
                          IF same(p) THEN [NoRelation EXCEPT !.rev = relations[p].rev + 1]
                          ELSE relations[p]]
      /\ wishes' = {w \in wishes : ~same(RelationId(w[1], w[2]))}
      /\ calls' = [calls EXCEPT ![c] = k]
  BY DEF DeleteRelations, Deleting, Cleaned, Continue
<1>1. /\ DOMAIN calls[c] = {"op", "u", "found", "left", "failed"} /\ DOMAIN calls = Calls
      /\ calls[c].found["relations"] = {<<p, relations[p].rev>> : p \in UserRelations(u)}
  BY <1>0, DeletionIs
<1>2. /\ k.op = "delete" /\ k.u = u /\ k.found = calls[c].found /\ k.left = calls[c].left \ {"relations"}
      /\ Becomes(c, k)
  BY <1>0, <1>1 DEF Becomes
<1>3. \A p \in RelationIds : same(p) <=> p \in UserRelations(u)
  BY <1>1
<1> HIDE DEF same, k
<1>4. /\ DOMAIN relations' = RelationIds
      /\ \A p \in RelationIds : IF p \in UserRelations(u) THEN relations'[p].status = "absent"
                                ELSE relations'[p] = relations[p]
  BY <1>0, <1>3 DEF NoRelation
<1>5. WishesInv'
  <2>1. ASSUME NEW p \in RelationIds
        PROVE  RelationId(p[1], p[2]) = p /\ RelationId(p[2], p[1]) = p
    <3>1. PICK a \in Ids, b \in Ids : p = <<a, b>> /\ a < b
      BY DEF RelationIds
    <3> QED
      BY <3>1, SocialAssumption DEF RelationId
  <2>2. ASSUME NEW p \in RelationIds
        PROVE  /\ <<p[1], p[2]>> \in wishes' <=> <<p[1], p[2]>> \in wishes /\ ~same(p)
               /\ <<p[2], p[1]>> \in wishes' <=> <<p[2], p[1]>> \in wishes /\ ~same(p)
    BY <1>0, <2>1
  <2> QED
    BY <1>3, <1>4, <2>2 DEF SerialParts, WishesInv
<1>6. /\ \A p \in RelationIds : relations'[p] = relations[p] \/ relations'[p].status = "absent"
      /\ \A p \in UserRelations(calls[c].u) : relations'[p].status = "absent"
      /\ notifications' = notifications /\ "relations" \in CleanUps
  BY <1>0, <1>4 DEF UserRelations, CleanUps
<1> QED
  BY <1>0, <1>2, <1>4, <1>5, <1>6, SerialCleaned

LEMMA SerialCleanOthers ==
    ASSUME SerialParts, AccountsInv, NEW c \in Calls,
           DeleteNotifications(c) \/ \E what \in CleanUps : CleanOther(c, what)
    PROVE  SerialParts'
<1>0. /\ UNCHANGED <<accounts, relations, posts, wishes, everWished, invitationVars>>
      /\ Deleting(c) /\ calls[c].op = "delete"
  BY DEF DeleteNotifications, CleanOther, Deleting
<1>1. WishesInv' /\ DOMAIN relations' = RelationIds
  BY <1>0 DEF SerialParts, DocumentsInv, WishesInv
<1>2. DOMAIN calls[c] = {"op", "u", "found", "left", "failed"} /\ DOMAIN calls = Calls
  BY <1>0, DeletionIs
<1>3. CASE DeleteNotifications(c)
  <2> DEFINE k == [calls[c] EXCEPT !.left = @ \ {"notifications"}]
  <2>1. /\ "notifications" \in calls[c].left \cap DOMAIN calls[c].found
        /\ notifications' = notifications \ calls[c].found["notifications"]
        /\ Becomes(c, k)
    BY <1>2, <1>3 DEF DeleteNotifications, Cleaned, Continue, Becomes
  <2>2. k.op = "delete" /\ k.u = calls[c].u /\ k.found = calls[c].found
        /\ k.left = calls[c].left \ {"notifications"}
    BY <1>0, <1>2
  <2>3. calls[c].found["notifications"] = BySubject(calls[c].u)
    BY <1>0, <2>1, DeletionIs
  <2> HIDE DEF k
  <2> QED
    BY <1>0, <1>1, <2>1, <2>2, <2>3, SerialCleaned DEF CleanUps
<1>4. ASSUME NEW what \in CleanUps, CleanOther(c, what) PROVE SerialParts'
  <2>1. what \notin {"relations", "notifications"} /\ notifications' = notifications
    BY <1>4 DEF CleanOther, Others
  <2>2. PICK k : /\ Becomes(c, k) /\ k.op = "delete" /\ k.u = calls[c].u
                 /\ k.found = calls[c].found /\ k.left = calls[c].left \ {what}
    <3> DEFINE done == [calls[c] EXCEPT !.left = @ \ {what}]
               failed == [calls[c] EXCEPT !.left = @ \ {what}, !.failed = TRUE]
    <3>1. Becomes(c, done) \/ Becomes(c, failed)
      BY <1>2, <1>4 DEF CleanOther, Cleaned, Continue, Becomes
    <3>2. /\ done.op = "delete" /\ done.u = calls[c].u
          /\ done.found = calls[c].found /\ done.left = calls[c].left \ {what}
      BY <1>0, <1>2
    <3>3. /\ failed.op = "delete" /\ failed.u = calls[c].u
          /\ failed.found = calls[c].found /\ failed.left = calls[c].left \ {what}
      BY <1>0, <1>2
    <3> HIDE DEF done, failed
    <3> QED
      BY <3>1, <3>2, <3>3
  <2> QED
    BY <1>0, <1>1, <2>1, <2>2, SerialCleaned
<1> QED
  BY <1>3, <1>4

LEMMA SerialDeletionEnd ==
    ASSUME SerialParts, AccountsInv, NEW c \in Calls, DeletionEnd(c)
    PROVE  SerialParts'
<1>0. /\ UNCHANGED <<accounts, relations, posts, wishes, everWished, notifications, invitationVars>>
      /\ calls[c].op = "delete" /\ calls[c].left = {} /\ Becomes(c, Idle)
  BY DEF DeletionEnd, Deleting, End, Continue, Becomes, AccountsInv
<1>1. UserRelations(calls[c].u) = {} /\ BySubject(calls[c].u) = {}
  BY <1>0, DeletionIs
<1> QED
  BY <1>0, <1>1, SerialDeletes DEF SerialParts, DocumentsInv, WishesInv

-----------------------------------------------------------------------------

LEMMA SerialInvInit == SocialInit => SerialInv
<1> SUFFICES ASSUME SocialInit PROVE SerialParts
  BY DEF SerialInv
<1>1. OneAtATime /\ \A c \in Calls : CallKnows(c)
  BY IdleOp
  DEF SocialInit, OneAtATime, CallKnows, RelationKnows, InviteKnows, ConvertKnows, DeletionKnows
<1>2. \A p \in RelationIds : relations[p].status = "absent"
  BY DEF SocialInit, NoRelation
<1>3. DocumentsInv
  BY <1>2 DEF SocialInit, DocumentsInv, UserRelations, Live
<1>4. GoneInv /\ PromisesInv /\ WishesInv
  BY <1>2 DEF SocialInit, GoneInv, Gone, PromisesInv, WishesInv
<1> QED
  BY <1>1, <1>3, <1>4 DEF SerialParts

LEMMA SerialInvNext == SerialInv /\ AccountsInv /\ [SocialNext]_socialVars => SerialInv'
<1>0. ASSUME SerialInv, AccountsInv, [SocialNext]_socialVars PROVE regime' = regime
  BY <1>0 DEF SocialNext, socialVars, relationVars, RelationsNext, RelationBegin, RelationRead,
     RelationPut, InvitationsNext, InviteBegin, InviteRead, InviteWrite, StopEmails, SignUpSteps,
     SignUpInvitation, SignUpWrite, SignUpConvert, DeletionSteps, DeletionFind, CleanOther,
     DeleteRelations, DeleteNotifications, DeletionEnd, SignUpBegin, DeletionBegin, Unlock,
     CreateNotification
<1> SUFFICES ASSUME SerialParts, AccountsInv, regime = "serial", [SocialNext]_socialVars
             PROVE  SerialParts'
  BY <1>0 DEF SerialInv
<1>1. CASE UNCHANGED socialVars
  BY <1>1, SerialSame DEF socialVars, accountVars
<1>2. CASE RelationsNext /\ UNCHANGED <<invitationVars, accountVars>>
  BY <1>2, SerialRelationBegin, SerialRelationRead, SerialRelationPut DEF RelationsNext
<1>3. CASE InvitationsNext /\ UNCHANGED accountVars
  BY <1>3, SerialInviteBegin, SerialInviteRead, SerialInviteWrite, SerialStopEmails, NoIdAssumption
  DEF InvitationsNext
<1>4. ASSUME NEW c \in Calls, SignUpSteps(c) PROVE SerialParts'
  BY <1>4, SerialSignUpInvitation, SerialSignUpWrite, SerialSignUpConvert DEF SignUpSteps
<1>5. ASSUME NEW c \in Calls, DeletionSteps(c) PROVE SerialParts'
  BY <1>5, SerialDeletionFind, SerialDeleteRelations, SerialCleanOthers, SerialDeletionEnd
  DEF DeletionSteps
<1>6. ASSUME NEW c \in Calls, NEW p \in Persons, SignUpBegin(c, p) PROVE SerialParts'
  BY <1>6, SerialSignUpBegin
<1>7. ASSUME NEW c \in Calls, NEW u \in Ids, DeletionBegin(c, u) PROVE SerialParts'
  BY <1>7, SerialDeletionBegin
<1>8. ASSUME NEW p \in Persons, Unlock(p) PROVE SerialParts'
  BY <1>8, SerialSame DEF Unlock
<1>9. CASE CreateNotification
  BY <1>9, SerialCreateNotification
<1> QED
  BY <1>1, <1>2, <1>3, <1>4, <1>5, <1>6, <1>7, <1>8, <1>9 DEF SocialNext

LEMMA SerialInvariant == SocialSpec => [](AccountsInv /\ SerialInv)
<1>1. SocialInit => AccountsInv /\ SerialInv
  BY AccountsInvInit, SerialInvInit
<1>2. AccountsInv /\ SerialInv /\ [SocialNext]_socialVars => (AccountsInv /\ SerialInv)'
  BY AccountsInvNext, SerialInvNext
<1> QED
  BY <1>1, <1>2, PTL DEF SocialSpec

\* When requests are handled one at a time, a relation says who wishes it, whatever the
\* requests, the conversions of invitations and the deletions that came before
\* (controllers/relations/lib/solve_intent.ts).
THEOREM RelationsSayWhoWishes == SocialSpec => []RelationsFollowWishes
<1>1. AccountsInv /\ SerialInv => RelationsFollowWishes
  BY DEF SerialInv, SerialParts, WishesInv, RelationsFollowWishes
<1> QED
  BY <1>1, SerialInvariant, PTL

\* When requests are handled one at a time, no invitation that was accepted is lost: the
\* document of the person collects it, sign up converts it
\* (controllers/invitations/lib/invitations.ts, convertInvitations).
THEOREM NoInvitationIsLost == SocialSpec => []InvitationsBecomeRequests
<1>1. AccountsInv /\ SerialInv => InvitationsBecomeRequests
  <2> SUFFICES ASSUME SerialParts, NEW m \in promised, NEW i \in Ids,
                      ~m.group, accounts[i] = "user", person[i] = m.p, ~Signing(m.p)
               PROVE  <<m.u, i>> \in everWished
    BY DEF SerialInv, InvitationsBecomeRequests
  <2>1. \/ <<m.u, i>> \in everWished
        \/ \E c \in Calls : /\ calls[c].op = "signup" /\ calls[c].step = "convert"
                            /\ calls[c].i = i /\ m.u \in calls[c].friends
    BY DEF SerialParts, PromisesInv, PromiseHolds
  <2> QED
    BY <2>1 DEF Signing
<1> QED
  BY <1>1, SerialInvariant, PTL

\* When requests are handled one at a time, the deletion of a user who invited nobody
\* leaves no relation and no notification about the user, and none comes later
\* (controllers/user/lib/delete_user_and_cleanup.ts).
THEOREM DeletedUsersLeaveNothing == SocialSpec => []NothingLeftOfDeleted
<1>1. AccountsInv /\ SerialInv => NothingLeftOfDeleted
  <2> SUFFICES ASSUME SerialParts, NEW u \in Ids,
                      accounts[u] = "deleted" /\ ~BeingDeleted(u) /\ (\A i \in Ids : u \notin inviters[i])
               PROVE  /\ \A n \in notifications : u \notin {n.user, n.subject}
                      /\ \A p \in RelationIds :
                           u \in {p[1], p[2]} => relations[p].status \in {"none", "absent"}
    BY DEF SerialInv, NothingLeftOfDeleted
  <2>1. (\A n \in notifications : u \notin {n.user, n.subject}) /\ UserRelations(u) = {}
    BY DEF SerialParts, GoneInv, Gone
  <2>2. \A p \in RelationIds : ~Live(relations[p].status) => relations[p].status \in {"none", "absent"}
    BY DEF SerialParts, DocumentsInv, RelationStatuses, Live
  <2> QED
    BY <2>1, <2>2 DEF UserRelations
<1> QED
  BY <1>1, SerialInvariant, PTL
=============================================================================
