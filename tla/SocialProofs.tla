------------------------------ MODULE SocialProofs ------------------------------
(* Friends have both asked for it, two accounts never have the same username, and a *)
(* deletion undoes all that it has to, for any number of users, requests in flight, *)
(* invitations, sign ups and deletions.                                             *)
EXTENDS Accounts, TLAPS, WellFoundedInduction

\* What an intent that has been decided on knows: the user wished for it, and so did the
\* other one if the status read was a request of the other.
CallIsWished(k) ==
    k.op = "relation" =>
        /\ k.u \in Ids /\ k.v \in Ids /\ k.u # k.v /\ k.intent \in Intents
        /\ k.intent \in {"request", "accept"} => <<k.u, k.v>> \in everWished
        /\ k.step = "put" => /\ Applies(k.intent, k.status)
                             /\ k.status = "otherRequested" => <<k.v, k.u>> \in everWished

\* A status tells no more than what was ever wished.
StatusIsWished(p) ==
    /\ relations[p].status \in {"friends", "a-requested"} => <<p[1], p[2]>> \in everWished
    /\ relations[p].status \in {"friends", "b-requested"} => <<p[2], p[1]>> \in everWished

AskedInv ==
    /\ DOMAIN calls = Calls /\ DOMAIN relations = RelationIds
    /\ \A c \in Calls : CallIsWished(calls[c])
    /\ \A p \in RelationIds : StatusIsWished(p)

-----------------------------------------------------------------------------

\* A status that the user sees as the request of the other one is one.
LEMMA OtherRequestedIsWished ==
    ASSUME AskedInv, NEW u \in Ids, NEW v \in Ids, u # v,
           GetRelationStatus(u, v) = "otherRequested"
    PROVE  <<v, u>> \in everWished
<1>1. u < v \/ v < u
  BY SocialAssumption
<1>2. CASE u < v
  <2>1. <<u, v>> \in RelationIds /\ relations[<<u, v>>].status = "b-requested"
    BY <1>2 DEF GetRelationStatus, UserRelative, RelationId, RelationIds
  <2> QED BY <2>1 DEF AskedInv, StatusIsWished
<1>3. CASE v < u
  <2>1. ~(u < v)
    BY <1>3, SocialAssumption
  <2>2. <<v, u>> \in RelationIds /\ relations[<<v, u>>].status = "a-requested"
    BY <1>3, <2>1 DEF GetRelationStatus, UserRelative, RelationId, RelationIds
  <2> QED BY <2>2 DEF AskedInv, StatusIsWished
<1> QED BY <1>1, <1>2, <1>3

\* What the puts of statuses preserve: a status is put when it was wished.
LEMMA PutIsWished ==
    ASSUME AskedInv, NEW u, NEW v, NEW status, PutStatus(u, v, status),
           everWished \subseteq everWished',
           status \in {"none", "friends", RequestedStatus(u, v)},
           status # "none" => <<u, v>> \in everWished',
           status = "friends" => <<v, u>> \in everWished'
    PROVE  DOMAIN relations' = RelationIds /\ \A p \in RelationIds : StatusIsWished(p)'
<1>1. DOMAIN relations' = RelationIds
  BY DEF PutStatus, AskedInv
<1>2. ASSUME NEW p \in RelationIds PROVE StatusIsWished(p)'
  <2>1. CASE p = RelationId(u, v)
    <3>1. relations'[p].status = status
      BY <2>1 DEF PutStatus, AskedInv
    <3>2. (u < v /\ p[1] = u /\ p[2] = v) \/ (~(u < v) /\ p[1] = v /\ p[2] = u)
      BY <2>1 DEF RelationId
    <3> QED BY <3>1, <3>2 DEF StatusIsWished, RequestedStatus
  <2>2. CASE p # RelationId(u, v)
    <3>1. relations'[p] = relations[p]
      BY <2>2 DEF PutStatus, AskedInv
    <3> QED BY <3>1 DEF StatusIsWished, AskedInv
  <2> QED BY <2>1, <2>2
<1> QED BY <1>1, <1>2

\* A step that leaves relations alone, whose new calls are wished.
LEMMA SameRelations ==
    ASSUME AskedInv, UNCHANGED relations, everWished \subseteq everWished',
           DOMAIN calls' = Calls,
           NEW d \in Calls, \A c \in Calls \ {d} : calls'[c] = calls[c],
           CallIsWished(calls[d])'
    PROVE  AskedInv'
<1>1. ASSUME NEW c \in Calls PROVE CallIsWished(calls[c])'
  <2>1. CASE c # d
    BY <2>1 DEF AskedInv, CallIsWished
  <2> QED BY <2>1
<1>2. ASSUME NEW p \in RelationIds PROVE StatusIsWished(p)'
  BY DEF AskedInv, StatusIsWished
<1> QED BY <1>1, <1>2 DEF AskedInv

-----------------------------------------------------------------------------
(* The actions, one lemma for each module *)

LEMMA RelationsKeepAskedInv ==
    ASSUME AskedInv, RelationsNext
    PROVE  AskedInv'
<1>1. ASSUME NEW c \in Calls, NEW intent \in Intents, NEW u \in Ids, NEW v \in Ids,
             RelationBegin(c, intent, u, v)
      PROVE  AskedInv'
  <2>1. UNCHANGED relations /\ everWished \subseteq everWished'
        /\ (intent \in {"request", "accept"} => <<u, v>> \in everWished') /\ u # v
    BY <1>1 DEF RelationBegin
  <2>2. CASE intent = "request"
    <3>1. calls' = [calls EXCEPT ![c] = [op |-> "relation", step |-> "read", intent |-> intent, u |-> u, v |-> v]]
      BY <1>1, <2>2 DEF RelationBegin, Begin
    <3>2. CallIsWished(calls[c])'
      BY <2>1, <3>1 DEF CallIsWished, AskedInv
    <3> QED BY <2>1, <3>1, <3>2, SameRelations DEF AskedInv
  <2>3. CASE intent # "request"
    <3> DEFINE status == GetRelationStatus(u, v)
    <3>1. calls' = [calls EXCEPT ![c] = [op |-> "relation", step |-> "put", intent |-> intent, u |-> u,
                                         v |-> v, status |-> status]]
          /\ Applies(intent, status)
      BY <1>1, <2>3 DEF RelationBegin, Begin
    <3>2. status = "otherRequested" => <<v, u>> \in everWished'
      BY <2>1, OtherRequestedIsWished
    <3>3. CallIsWished(calls[c])'
      <4> HIDE DEF status
      <4> QED BY <2>1, <3>1, <3>2 DEF CallIsWished, AskedInv, Applies
    <3> QED BY <2>1, <3>1, <3>3, SameRelations DEF AskedInv
  <2> QED BY <2>2, <2>3
<1>2. ASSUME NEW c \in Calls, RelationRead(c)
      PROVE  AskedInv'
  <2> DEFINE k == calls[c]
             status == GetRelationStatus(k.u, k.v)
  <2>1. UNCHANGED <<relations, everWished>> /\ k.op = "relation"
    BY <1>2 DEF RelationRead
  <2>2. CallIsWished(k)
    BY DEF AskedInv
  <2>3. CASE Applies(k.intent, status)
    <3>1. calls' = [calls EXCEPT ![c] = [op |-> "relation", step |-> "put", intent |-> k.intent,
                                         u |-> k.u, v |-> k.v, status |-> status]]
      BY <1>2, <2>3 DEF RelationRead, Continue
    <3>2. status = "otherRequested" => <<k.v, k.u>> \in everWished
      BY <2>1, <2>2, OtherRequestedIsWished DEF CallIsWished
    <3>3. CallIsWished(calls[c])'
      <4> HIDE DEF status
      <4> QED BY <2>1, <2>2, <2>3, <3>1, <3>2 DEF CallIsWished, AskedInv, Applies
    <3> QED BY <2>1, <3>1, <3>3, SameRelations DEF AskedInv
  <2>4. CASE ~Applies(k.intent, status)
    <3>1. calls' = [calls EXCEPT ![c] = Idle]
      BY <1>2, <2>4 DEF RelationRead, Continue, End
    <3>2. CallIsWished(calls[c])'
      BY <3>1 DEF CallIsWished, AskedInv, Idle
    <3> QED BY <2>1, <3>1, <3>2, SameRelations DEF AskedInv
  <2> QED BY <2>3, <2>4
<1>3. ASSUME NEW c \in Calls, RelationPut(c)
      PROVE  AskedInv'
  <2> DEFINE k == calls[c]
             status == Decided(k.intent, k.u, k.v, k.status)
  <2>1. k.op = "relation" /\ k.step = "put" /\ PutStatus(k.u, k.v, status) /\ everWished' = everWished
        /\ calls' = [calls EXCEPT ![c] = Idle]
    BY <1>3 DEF RelationPut, End, Continue
  <2>2. CallIsWished(k)
    BY DEF AskedInv
  <2>3. \/ status = "none"
        \/ k.intent = "request" /\ status = RequestedStatus(k.u, k.v)
        \/ k.intent \in {"request", "accept"} /\ k.status = "otherRequested" /\ status = "friends"
    BY <2>1, <2>2 DEF CallIsWished, Applies, Decided, Intents
  <2>4. DOMAIN relations' = RelationIds /\ \A p \in RelationIds : StatusIsWished(p)'
    <3>1. status \in {"none", "friends", RequestedStatus(k.u, k.v)}
      BY <2>3
    <3>2. status # "none" => <<k.u, k.v>> \in everWished'
      BY <2>1, <2>2, <2>3 DEF CallIsWished
    <3>3. status = "friends" => <<k.v, k.u>> \in everWished'
      BY <2>1, <2>2, <2>3 DEF CallIsWished, RequestedStatus
    <3> HIDE DEF status
    <3> QED BY <2>1, <3>1, <3>2, <3>3, PutIsWished
  <2>5. ASSUME NEW d \in Calls PROVE CallIsWished(calls[d])'
    BY <2>1 DEF AskedInv, CallIsWished, Idle
  <2>6. DOMAIN calls' = Calls
    BY <2>1 DEF AskedInv
  <2> QED BY <2>4, <2>5, <2>6 DEF AskedInv
<1> QED BY <1>1, <1>2, <1>3 DEF RelationsNext

\* A call that is no intent is wished; one that puts no status leaves the relations.
LEMMA OtherCall ==
    ASSUME AskedInv, NEW d \in Calls, NEW k, k.op # "relation",
           calls' = [calls EXCEPT ![d] = k], UNCHANGED <<relations, everWished>>
    PROVE  AskedInv'
<1>1. CallIsWished(calls[d])'
  BY DEF CallIsWished, AskedInv
<1> QED BY <1>1, SameRelations DEF AskedInv

LEMMA InvitationsKeepAskedInv ==
    ASSUME AskedInv, InvitationsNext
    PROVE  AskedInv'
<1>1. ASSUME NEW c \in Calls, NEW u \in Ids, NEW p \in Persons, NEW toGroup \in BOOLEAN,
             InviteBegin(c, u, p, toGroup)
      PROVE  AskedInv'
  <2>1. CASE ByEmail("user", p) = {}
    <3>1. calls' = [calls EXCEPT ![c] = InviteBase(u, p, toGroup)] /\ UNCHANGED <<relations, everWished>>
      BY <1>1, <2>1 DEF InviteBegin, Begin
    <3>2. InviteBase(u, p, toGroup).op # "relation"
      BY DEF InviteBase
    <3> QED BY <3>1, <3>2, OtherCall
  <2>2. CASE ByEmail("user", p) # {}
    <3>1. PICK v \in ByEmail("user", p) :
             /\ calls' = [calls EXCEPT ![c] = [op |-> "relation", step |-> "read", intent |-> "request",
                                               u |-> u, v |-> v]]
             /\ everWished' = everWished \cup {<<u, v>>}
      BY <1>1, <2>2 DEF InviteBegin, Begin
    <3>2. v \in Ids /\ u # v /\ UNCHANGED relations
      BY <1>1 DEF ByEmail, InviteBegin
    <3>3. CallIsWished(calls[c])'
      BY <3>1, <3>2 DEF CallIsWished, AskedInv, Intents
    <3> QED BY <3>1, <3>2, <3>3, SameRelations DEF AskedInv
  <2> QED BY <2>1, <2>2
<1>2. ASSUME NEW c \in Calls, InviteRead(c)
      PROVE  AskedInv'
  <2>1. PICK k : k.op # "relation" /\ calls' = [calls EXCEPT ![c] = k]
    BY <1>2 DEF InviteRead, End, Continue, Idle
  <2> QED BY <1>2, <2>1, OtherCall DEF InviteRead
<1>3. ASSUME NEW c \in Calls, InviteWrite(c)
      PROVE  AskedInv'
  <2>1. Idle.op # "relation" /\ calls' = [calls EXCEPT ![c] = Idle] /\ UNCHANGED <<relations, everWished>>
    BY <1>3 DEF InviteWrite, End, Continue, Idle
  <2> QED BY <2>1, OtherCall
<1>4. ASSUME NEW p \in Persons, StopEmails(p)
      PROVE  AskedInv'
  BY <1>4 DEF StopEmails, relationVars, AskedInv, CallIsWished, StatusIsWished
<1> QED BY <1>1, <1>2, <1>3, <1>4 DEF InvitationsNext

\* A step of a deletion leaves the requests of others as they are; relations are only
\* taken away.
LEMMA DeleteKeepsAskedInv ==
    ASSUME AskedInv, NEW c \in Calls, DeleteRelations(c)
    PROVE  AskedInv'
<1>1. /\ calls' = [calls EXCEPT ![c] = [calls[c] EXCEPT !.left = @ \ {"relations"}]]
      /\ everWished' = everWished /\ DOMAIN relations' = RelationIds /\ calls[c].op = "delete"
  BY DEF DeleteRelations, Cleaned, Continue, Deleting
<1>2. ASSUME NEW p \in RelationIds PROVE StatusIsWished(p)'
  <2>1. relations'[p].status = "absent" \/ relations'[p] = relations[p]
    BY DEF DeleteRelations, NoRelation
  <2> QED BY <1>1, <2>1 DEF AskedInv, StatusIsWished
<1>3. ASSUME NEW d \in Calls PROVE CallIsWished(calls[d])'
  <2>1. calls'[d] = calls[d] \/ calls'[d].op = "delete"
    BY <1>1 DEF AskedInv
  <2> QED BY <1>1, <2>1 DEF AskedInv, CallIsWished
<1>4. DOMAIN calls' = Calls
  BY <1>1 DEF AskedInv
<1> QED BY <1>1, <1>2, <1>3, <1>4 DEF AskedInv

\* Converting an invitation puts the request of the inviter, who then wishes for it.
LEMMA ConvertKeepsAskedInv ==
    ASSUME AskedInv, NEW c \in Calls, SignUpConvert(c)
    PROVE  AskedInv'
<1> DEFINE k == calls[c]
<1>1. CASE k.friends = {} /\ calls' = [calls EXCEPT ![c] = Idle] /\ UNCHANGED <<relations, everWished>>
  BY <1>1, OtherCall DEF Idle
<1>2. ASSUME NEW u \in k.friends, ConvertFriendInvitation(u, k.i),
             calls' = [calls EXCEPT ![c] = [k EXCEPT !.friends = @ \ {u}]], k.op = "signup"
      PROVE  AskedInv'
  <2>1. /\ PutStatus(u, k.i, RequestedStatus(u, k.i))
        /\ everWished' = everWished \cup {<<u, k.i>>}
    BY <1>2 DEF ConvertFriendInvitation
  <2>2. RequestedStatus(u, k.i) # "friends"
    BY DEF RequestedStatus
  <2>3. DOMAIN relations' = RelationIds /\ \A p \in RelationIds : StatusIsWished(p)'
    BY <2>1, <2>2, PutIsWished
  <2>4. ASSUME NEW d \in Calls PROVE CallIsWished(calls[d])'
    <3>1. calls'[d] = calls[d] \/ calls'[d].op = "signup"
      BY <1>2 DEF AskedInv
    <3> QED BY <2>1, <3>1 DEF AskedInv, CallIsWished
  <2>5. DOMAIN calls' = Calls
    BY <1>2 DEF AskedInv
  <2> QED BY <2>3, <2>4, <2>5 DEF AskedInv
<1> QED BY <1>1, <1>2 DEF SignUpConvert, End, Continue

LEMMA AccountsKeepAskedInv ==
    ASSUME AskedInv, NEW c \in Calls,
           \/ SignUpSteps(c) \/ DeletionSteps(c)
           \/ \E p \in Persons : SignUpBegin(c, p)
           \/ \E u \in Ids : DeletionBegin(c, u)
    PROVE  AskedInv'
<1>1. ASSUME NEW p \in Persons, SignUpBegin(c, p) PROVE AskedInv'
  <2>1. calls' = [calls EXCEPT ![c] = [op |-> "signup", step |-> "invitation", p |-> p]]
        /\ UNCHANGED <<relations, everWished>>
    BY <1>1 DEF SignUpBegin, Begin
  <2> QED BY <2>1, OtherCall
<1>2. ASSUME SignUpInvitation(c) PROVE AskedInv'
  <2>1. PICK k : k.op # "relation" /\ calls' = [calls EXCEPT ![c] = k]
    BY <1>2 DEF SignUpInvitation, Continue
  <2> QED BY <1>2, <2>1, OtherCall DEF SignUpInvitation
<1>3. ASSUME SignUpWrite(c) PROVE AskedInv'
  <2>1. PICK k : k.op # "relation" /\ calls' = [calls EXCEPT ![c] = k]
    BY <1>3 DEF SignUpWrite, End, Continue, Idle
  <2> QED BY <1>3, <2>1, OtherCall DEF SignUpWrite
<1>4. ASSUME NEW u \in Ids, DeletionBegin(c, u) PROVE AskedInv'
  <2>1. PICK k : k.op # "relation" /\ calls' = [calls EXCEPT ![c] = k]
    BY <1>4 DEF DeletionBegin, Begin
  <2> QED BY <1>4, <2>1, OtherCall DEF DeletionBegin
<1>5. ASSUME NEW what \in CleanUps, DeletionFind(c, what) PROVE AskedInv'
  <2>1. PICK found : calls' = [calls EXCEPT ![c] = [calls[c] EXCEPT !.found = found]]
    BY <1>5 DEF DeletionFind, Continue
  <2>2. [calls[c] EXCEPT !.found = found].op # "relation"
    BY <1>5 DEF DeletionFind, Deleting
  <2> QED BY <1>5, <2>1, <2>2, OtherCall DEF DeletionFind
<1>6. ASSUME NEW what \in CleanUps, CleanOther(c, what) PROVE AskedInv'
  <2> DEFINE left == calls[c].left \ {what}
  <2>1. \/ calls' = [calls EXCEPT ![c] = [calls[c] EXCEPT !.left = left]]
        \/ calls' = [calls EXCEPT ![c] = [calls[c] EXCEPT !.left = left, !.failed = TRUE]]
    BY <1>6 DEF CleanOther, Cleaned, Continue
  <2>2. /\ [calls[c] EXCEPT !.left = left].op # "relation"
        /\ [calls[c] EXCEPT !.left = left, !.failed = TRUE].op # "relation"
    BY <1>6 DEF CleanOther, Deleting
  <2> QED BY <1>6, <2>1, <2>2, OtherCall DEF CleanOther
<1>7. ASSUME DeleteNotifications(c) PROVE AskedInv'
  <2> DEFINE left == calls[c].left \ {"notifications"}
  <2>1. calls' = [calls EXCEPT ![c] = [calls[c] EXCEPT !.left = left]]
    BY <1>7 DEF DeleteNotifications, Cleaned, Continue
  <2>2. [calls[c] EXCEPT !.left = left].op # "relation"
    BY <1>7 DEF DeleteNotifications, Deleting
  <2> QED BY <1>7, <2>1, <2>2, OtherCall DEF DeleteNotifications
<1>8. ASSUME DeletionEnd(c) PROVE AskedInv'
  <2>1. PICK k : k.op # "relation" /\ calls' = [calls EXCEPT ![c] = k]
    BY <1>8 DEF DeletionEnd, End, Continue, Idle
  <2> QED BY <1>8, <2>1, OtherCall DEF DeletionEnd
<1> QED BY <1>1, <1>2, <1>3, <1>4, <1>5, <1>6, <1>7, <1>8, ConvertKeepsAskedInv, DeleteKeepsAskedInv
        DEF SignUpSteps, DeletionSteps

-----------------------------------------------------------------------------

\* However the requests of users, invitations, sign ups and deletions interleave, two
\* friends have both asked for it: the put of an acceptance looks at nothing, but
\* the status that it was decided on was the request of the other
\* (controllers/relations/lib/solve_intent.ts).
THEOREM FriendsBothAsked == SocialSpec => []FriendshipIsMutual
<1>1. SocialInit => AskedInv
  BY DEF SocialInit, AskedInv, CallIsWished, StatusIsWished, Idle, NoRelation
<1>2. AskedInv /\ [SocialNext]_socialVars => AskedInv'
  <2> SUFFICES ASSUME AskedInv, [SocialNext]_socialVars PROVE AskedInv'
    OBVIOUS
  <2>1. CASE UNCHANGED socialVars
    BY <2>1 DEF socialVars, relationVars, AskedInv, CallIsWished, StatusIsWished
  <2>2. ASSUME NEW p \in Persons, Unlock(p) PROVE AskedInv'
    BY <2>2 DEF Unlock, relationVars, AskedInv, CallIsWished, StatusIsWished
  <2>3. CASE CreateNotification
    BY <2>3 DEF CreateNotification, AskedInv, CallIsWished, StatusIsWished
  <2> QED BY <2>1, <2>2, <2>3, RelationsKeepAskedInv, InvitationsKeepAskedInv, AccountsKeepAskedInv
          DEF SocialNext
<1>3. AskedInv => FriendshipIsMutual
  BY DEF AskedInv, StatusIsWished, FriendshipIsMutual
<1> QED BY <1>1, <1>2, <1>3, PTL DEF SocialSpec

-----------------------------------------------------------------------------
(* Sign ups and deletions, whatever interleaves with them *)

Registered(i) == accounts[i] \in {"user", "deleted"}
SigningUp(k) == k.op = "signup" /\ k.step \in {"invitation", "post", "put"}

\* The lock of a username is held from the check that nobody has it to the write of the
\* account; an invitation that becomes the account is of the same person.
SignUpHolds(c) ==
    SigningUp(calls[c]) =>
        /\ calls[c].p \in locked
        /\ \A i \in Ids : Registered(i) => person[i] # calls[c].p
        /\ \A d \in Calls : SigningUp(calls[d]) /\ calls[d].p = calls[c].p => d = c
        /\ calls[c].step = "put" =>
              /\ calls[c].i \in Ids /\ accounts[calls[c].i] # "nobody"
              /\ person[calls[c].i] = calls[c].p /\ calls[c].copy.type = "invited"

\* The clean-ups of a deletion are to do, done, or failed.
DeletionHolds(c) ==
    calls[c].op = "delete" =>
        /\ DOMAIN calls[c] = {"op", "u", "found", "left", "failed"}
        /\ calls[c].u \in Ids /\ accounts[calls[c].u] = "deleted"
        /\ calls[c].left \subseteq CleanUps
        /\ calls[c].failed \in BOOLEAN
        /\ calls[c].failed => calls[c].left \cap Others = {}
        /\ purged[calls[c].u] = (CleanUps \ calls[c].left) \ (IF calls[c].failed THEN Others ELSE {})
        /\ \A d \in Calls : calls[d].op = "delete" /\ calls[d].u = calls[c].u => d = c

AccountsInv ==
    /\ DOMAIN calls = Calls /\ DOMAIN accounts = Ids /\ DOMAIN person = Ids /\ DOMAIN purged = Ids
    /\ \A c \in Calls : SignUpHolds(c)
    /\ OneAccountPerUsername
    /\ \A c \in Calls : DeletionHolds(c)
    /\ \A u \in Ids : accounts[u] # "deleted" => purged[u] = {}
    /\ DeletionIsComplete

LEMMA AccountsInvSame ==
    ASSUME AccountsInv, UNCHANGED <<calls, accounts, person, purged, locked>>
    PROVE  AccountsInv'
BY DEF AccountsInv, SignUpHolds, SigningUp, Registered, DeletionHolds, OneAccountPerUsername,
       DeletionIsComplete, BeingDeleted

\* The step changes call c into k.
Becomes(c, k) ==
    DOMAIN calls' = Calls /\ calls'[c] = k /\ \A d \in Calls \ {c} : calls'[d] = calls[d]

\* Steps that touch no account, but for the creation of invitations, and no deletion.
LEMMA AccountsInvKept ==
    ASSUME AccountsInv, UNCHANGED <<purged, locked>>, DOMAIN accounts' = Ids, DOMAIN person' = Ids,
           \A i \in Ids : \/ accounts'[i] = accounts[i] /\ person'[i] = person[i]
                          \/ accounts[i] = "nobody" /\ accounts'[i] = "invited",
           NEW c \in Calls, NEW k, Becomes(c, k), calls[c].op # "delete", k.op # "delete",
           SigningUp(k) =>
              /\ SigningUp(calls[c]) /\ k.p = calls[c].p
              /\ k.step = "put" => /\ k.i \in Ids /\ accounts[k.i] # "nobody"
                                   /\ person[k.i] = k.p /\ k.copy.type = "invited"
    PROVE  AccountsInv'
<1>0. /\ DOMAIN calls' = Calls /\ calls'[c] = k /\ \A d \in Calls \ {c} : calls'[d] = calls[d]
  BY DEF Becomes
<1>1. \A i \in Ids : Registered(i)' <=> Registered(i)
  BY DEF Registered
<1>2. \A i \in Ids : accounts[i] # "nobody" => accounts'[i] = accounts[i] /\ person'[i] = person[i]
  OBVIOUS
<1>3. ASSUME NEW d \in Calls PROVE SignUpHolds(d)'
  <2>1. \A e \in Calls : SigningUp(calls'[e]) => SigningUp(calls[e]) /\ calls'[e].p = calls[e].p
    BY <1>0
  <2>2. ASSUME SigningUp(calls'[d])
        PROVE  /\ calls'[d].p \in locked'
               /\ \A i \in Ids : accounts'[i] \in {"user", "deleted"} => person'[i] # calls'[d].p
               /\ \A e \in Calls : SigningUp(calls'[e]) /\ calls'[e].p = calls'[d].p => e = d
    BY <1>1, <1>2, <2>1, <2>2 DEF AccountsInv, SignUpHolds, Registered
  <2>3. ASSUME SigningUp(calls'[d]), calls'[d].step = "put"
        PROVE  /\ calls'[d].i \in Ids /\ accounts'[calls'[d].i] # "nobody"
               /\ person'[calls'[d].i] = calls'[d].p /\ calls'[d].copy.type = "invited"
    BY <1>0, <1>2, <2>3 DEF AccountsInv, SignUpHolds
  <2> QED
    BY <2>2, <2>3 DEF SignUpHolds, SigningUp, Registered
<1>4. OneAccountPerUsername'
  BY <1>1, <1>2 DEF AccountsInv, OneAccountPerUsername, Registered
<1>5. ASSUME NEW d \in Calls PROVE DeletionHolds(d)'
  BY <1>0, <1>2 DEF AccountsInv, DeletionHolds
<1>6. DeletionIsComplete'
  <2>1. \A u \in Ids : BeingDeleted(u) => BeingDeleted(u)'
    BY <1>0 DEF BeingDeleted
  <2> QED
    BY <1>2, <2>1 DEF AccountsInv, DeletionIsComplete
<1>7. \A u \in Ids : accounts'[u] # "deleted" => purged'[u] = {}
  BY DEF AccountsInv
<1> QED
  BY <1>0, <1>3, <1>4, <1>5, <1>6, <1>7 DEF AccountsInv

LEMMA RelationsKeepAccounts ==
    ASSUME AccountsInv, RelationsNext, UNCHANGED <<invitationVars, accountVars>>
    PROVE  AccountsInv'
<1>0. /\ accounts' = accounts /\ person' = person /\ UNCHANGED <<purged, locked>>
      /\ DOMAIN accounts = Ids /\ DOMAIN person = Ids
  BY DEF RelationsNext, RelationBegin, RelationRead, RelationPut, invitationVars, accountVars,
     AccountsInv
<1>1. PICK c \in Calls : \/ \E intent \in Intents, u, v \in Ids : RelationBegin(c, intent, u, v)
                         \/ RelationRead(c) \/ RelationPut(c)
  BY DEF RelationsNext
<1>2. calls[c].op # "delete"
  BY <1>1 DEF RelationBegin, Begin, MayBegin, RelationRead, RelationPut, Idle
<1>3. Becomes(c, calls'[c]) /\ calls'[c].op \notin {"delete", "signup"}
  BY <1>1 DEF RelationBegin, Begin, RelationRead, RelationPut, End, Continue, Idle, AccountsInv, Becomes
<1> QED
  BY <1>0, <1>2, <1>3, AccountsInvKept DEF SigningUp

LEMMA InvitationsKeepAccounts ==
    ASSUME AccountsInv, InvitationsNext, UNCHANGED accountVars
    PROVE  AccountsInv'
<1>0. /\ UNCHANGED <<purged, locked>> /\ DOMAIN accounts = Ids /\ DOMAIN person = Ids
  BY DEF accountVars, AccountsInv
<1>1. ASSUME NEW c \in Calls, NEW u \in Ids, NEW p \in Persons, NEW toGroup \in BOOLEAN,
             InviteBegin(c, u, p, toGroup)
      PROVE  AccountsInv'
  <2>1. calls[c].op # "delete" /\ UNCHANGED <<accounts, person>>
    BY <1>1 DEF InviteBegin, Begin, MayBegin, Idle
  <2>2. Becomes(c, calls'[c]) /\ calls'[c].op \notin {"delete", "signup"}
    BY <1>1 DEF InviteBegin, Begin, InviteBase, AccountsInv, Becomes
  <2> QED
    BY <1>0, <2>1, <2>2, AccountsInvKept DEF SigningUp
<1>2. ASSUME NEW c \in Calls, InviteRead(c) PROVE AccountsInv'
  <2>1. calls[c].op # "delete" /\ UNCHANGED <<accounts, person>>
    BY <1>2 DEF InviteRead, invitationVars
  <2>2. Becomes(c, calls'[c]) /\ calls'[c].op \notin {"delete", "signup"}
    BY <1>2 DEF InviteRead, End, Continue, Idle, AccountsInv, Becomes
  <2> QED
    BY <1>0, <2>1, <2>2, AccountsInvKept DEF SigningUp
<1>3. ASSUME NEW c \in Calls, InviteWrite(c) PROVE AccountsInv'
  <2>1. calls[c].op # "delete" /\ Becomes(c, Idle) /\ Idle.op \notin {"delete", "signup"}
    BY <1>3 DEF InviteWrite, End, Continue, Idle, AccountsInv, Becomes
  <2>2. /\ DOMAIN accounts' = Ids /\ DOMAIN person' = Ids
        /\ \A i \in Ids : \/ accounts'[i] = accounts[i] /\ person'[i] = person[i]
                          \/ accounts[i] = "nobody" /\ accounts'[i] = "invited"
    BY <1>0, <1>3 DEF InviteWrite, Free
  <2> QED
    BY <1>0, <2>1, <2>2, AccountsInvKept DEF SigningUp
<1>4. ASSUME NEW p \in Persons, StopEmails(p) PROVE AccountsInv'
  BY <1>0, <1>4, AccountsInvSame DEF StopEmails, relationVars
<1> QED
  BY <1>1, <1>2, <1>3, <1>4 DEF InvitationsNext

-----------------------------------------------------------------------------

LEMMA SignUpBeginKeeps ==
    ASSUME AccountsInv, NEW c \in Calls, NEW p \in Persons, SignUpBegin(c, p)
    PROVE  AccountsInv'
<1> DEFINE k == [op |-> "signup", step |-> "invitation", p |-> p]
<1>0. /\ Becomes(c, k) /\ calls[c] = Idle /\ Idle.op = "idle"
      /\ UNCHANGED <<accounts, person, purged>> /\ locked' = locked \cup {p} /\ p \notin locked
      /\ \A i \in Ids : Registered(i) => person[i] # p
  BY DEF SignUpBegin, Begin, MayBegin, AccountsInv, Becomes, Idle, invitationVars, Registered
<1> HIDE DEF k
<1>k. k.op = "signup" /\ k.p = p /\ k.step = "invitation"
  BY DEF k
<1>1. ASSUME NEW d \in Calls PROVE SignUpHolds(d)'
  <2>1. CASE d = c
    BY <1>0, <1>k, <2>1 DEF AccountsInv, SignUpHolds, SigningUp, Registered, Becomes
  <2>2. CASE d # c
    BY <1>0, <1>k, <2>2 DEF AccountsInv, SignUpHolds, SigningUp, Registered, Becomes
  <2> QED
    BY <2>1, <2>2
<1>2. ASSUME NEW d \in Calls PROVE DeletionHolds(d)'
  BY <1>0, <1>k DEF AccountsInv, DeletionHolds, Becomes
<1>3. OneAccountPerUsername' /\ DeletionIsComplete'
  BY <1>0, <1>k DEF AccountsInv, OneAccountPerUsername, DeletionIsComplete, BeingDeleted, Becomes
<1> QED
  BY <1>0, <1>1, <1>2, <1>3 DEF AccountsInv, Becomes

\* A set of numbers has a least one.
LEMMA Least ==
    ASSUME NEW T, T \subseteq Nat, T # {}
    PROVE  \E i \in T : \A j \in T : i <= j
<1> DEFINE Less == OpToRel(<, Nat)
<1>1. IsWellFoundedOn(Less, Nat)
  BY NatLessThanWellFounded
<1> HIDE DEF Less
<1>2. PICK i \in T : \A j \in T : <<j, i>> \notin Less
  BY <1>1, WFMin
<1>3. \A j \in T : ~(j < i)
  BY <1>2 DEF Less, OpToRel
<1> QED
  BY <1>3

LEMMA SignUpInvitationKeeps ==
    ASSUME AccountsInv, NEW c \in Calls, SignUpInvitation(c)
    PROVE  AccountsInv'
<1> DEFINE known == ByEmail("invited", calls[c].p)
           first == CHOOSE i \in known : \A j \in known : i <= j
<1>0. calls[c].op = "signup" /\ calls[c].step = "invitation"
      /\ UNCHANGED <<accounts, person, purged, locked>> /\ DOMAIN accounts = Ids /\ DOMAIN person = Ids
  BY DEF SignUpInvitation, AccountsInv, invitationVars, accountVars
<1>1. CASE known = {}
  <2> DEFINE k == [op |-> "signup", step |-> "post", p |-> calls[c].p]
  <2>1. Becomes(c, k)
    BY <1>1 DEF SignUpInvitation, Continue, AccountsInv, Becomes
  <2> QED
    BY <1>0, <2>1, AccountsInvKept DEF SigningUp
<1>2. CASE known # {}
  <2> DEFINE k == [op |-> "signup", step |-> "put", p |-> calls[c].p, i |-> first, copy |-> Copy(first)]
  <2>1. Becomes(c, k)
    BY <1>2 DEF SignUpInvitation, Continue, AccountsInv, Becomes
  <2>2. first \in known
    BY <1>2, Least, SocialAssumption DEF ByEmail
  <2>3. first \in Ids /\ accounts[first] = "invited" /\ person[first] = calls[c].p
    BY <2>2 DEF ByEmail
  <2>4. k.i = first /\ k.p = calls[c].p /\ k.copy.type = "invited" /\ k.op = "signup"
    BY <2>3 DEF Copy
  <2> HIDE DEF k, first
  <2> QED
    BY <1>0, <2>1, <2>3, <2>4, AccountsInvKept DEF SigningUp
<1> QED
  BY <1>1, <1>2

LEMMA SignUpWriteKeeps ==
    ASSUME AccountsInv, NEW c \in Calls, SignUpWrite(c)
    PROVE  AccountsInv'
<1> DEFINE k == calls[c]
<1>0. /\ UNCHANGED <<purged, locked>> /\ DOMAIN accounts = Ids /\ DOMAIN person = Ids
      /\ SigningUp(k) /\ k.op = "signup" /\ DOMAIN calls = Calls
  BY DEF SignUpWrite, AccountsInv, accountVars, SigningUp
<1>1. /\ \A i \in Ids : Registered(i) => person[i] # k.p
      /\ \A d \in Calls : SigningUp(calls[d]) /\ calls[d].p = k.p => d = c
      /\ k.step = "put" => /\ k.i \in Ids /\ accounts[k.i] # "nobody"
                           /\ person[k.i] = k.p /\ k.copy.type = "invited"
  BY <1>0 DEF AccountsInv, SignUpHolds
<1>2. CASE UNCHANGED <<accounts, person>> /\ calls' = [calls EXCEPT ![c] = Idle]
  <2>1. Becomes(c, Idle) /\ Idle.op = "idle"
    BY <1>0, <1>2 DEF Becomes, Idle
  <2> QED
    BY <1>0, <1>2, <2>1, AccountsInvKept DEF SigningUp
\* The account is written: nobody else was signing up with its username.
<1>3. ASSUME NEW i \in Ids, accounts[i] \in {"nobody", "invited"}, person'[i] = k.p,
             accounts' = [accounts EXCEPT ![i] = "user"], DOMAIN person' = Ids,
             \A j \in Ids \ {i} : person'[j] = person[j], accounts[i] = "invited" => person'[i] = person[i],
             NEW new, Becomes(c, new), ~SigningUp(new), new.op # "delete"
      PROVE  AccountsInv'
  <2>1. /\ DOMAIN accounts' = Ids /\ accounts'[i] = "user"
        /\ \A j \in Ids \ {i} : accounts'[j] = accounts[j]
    BY <1>0, <1>3
  <2>2. ASSUME NEW d \in Calls PROVE SignUpHolds(d)'
    <3>1. \A e \in Calls : SigningUp(calls'[e]) => e # c /\ SigningUp(calls[e]) /\ calls'[e] = calls[e]
                                                  /\ calls[e].p # k.p
      BY <1>1, <1>3 DEF Becomes
    <3>2. ASSUME SigningUp(calls'[d])
          PROVE  /\ calls'[d].p \in locked'
                 /\ \A j \in Ids : accounts'[j] \in {"user", "deleted"} => person'[j] # calls'[d].p
                 /\ \A e \in Calls : SigningUp(calls'[e]) /\ calls'[e].p = calls'[d].p => e = d
      BY <1>0, <1>3, <2>1, <3>1, <3>2 DEF AccountsInv, SignUpHolds, Registered
    <3>3. ASSUME SigningUp(calls'[d]), calls'[d].step = "put"
          PROVE  /\ calls'[d].i \in Ids /\ accounts'[calls'[d].i] # "nobody"
                 /\ person'[calls'[d].i] = calls'[d].p /\ calls'[d].copy.type = "invited"
      BY <1>3, <2>1, <3>1, <3>3 DEF AccountsInv, SignUpHolds
    <3> QED
      BY <3>2, <3>3 DEF SignUpHolds, SigningUp, Registered
  <2>3. OneAccountPerUsername'
    BY <1>1, <1>3, <2>1 DEF AccountsInv, OneAccountPerUsername, Registered
  <2>4. ASSUME NEW d \in Calls PROVE DeletionHolds(d)'
    BY <1>0, <1>3, <2>1 DEF AccountsInv, DeletionHolds, Becomes
  <2>5. DeletionIsComplete'
    <3>1. \A u \in Ids : BeingDeleted(u) => BeingDeleted(u)'
      BY <1>0, <1>3 DEF BeingDeleted, Becomes
    <3> QED
      BY <1>0, <2>1, <3>1 DEF AccountsInv, DeletionIsComplete
  <2> QED
    BY <1>0, <1>3, <2>1, <2>2, <2>3, <2>4, <2>5 DEF AccountsInv, Becomes
<1>4. ASSUME NEW i \in Free, k.step = "post", accounts' = [accounts EXCEPT ![i] = "user"],
             person' = [person EXCEPT ![i] = k.p], calls' = [calls EXCEPT ![c] = Idle]
      PROVE  AccountsInv'
  <2>1. i \in Ids /\ accounts[i] = "nobody"
    BY DEF Free
  <2>2. Becomes(c, Idle) /\ ~SigningUp(Idle) /\ Idle.op # "delete"
    BY <1>0, <1>4 DEF Becomes, Idle, SigningUp
  <2> QED
    BY <1>0, <1>3, <1>4, <2>1, <2>2
<1>5. ASSUME k.step = "put", Copy(k.i) = k.copy, UNCHANGED person,
             accounts' = [accounts EXCEPT ![k.i] = "user"],
             calls' = [calls EXCEPT ![c] = [op |-> "signup", step |-> "convert", i |-> k.i,
                                            friends |-> FriendInviters(k.i)]]
      PROVE  AccountsInv'
  <2> DEFINE new == [op |-> "signup", step |-> "convert", i |-> k.i, friends |-> FriendInviters(k.i)]
  <2>1. k.i \in Ids /\ accounts[k.i] = "invited" /\ person[k.i] = k.p
    <3>1. Copy(k.i).type = accounts[k.i]
      BY DEF Copy
    <3> QED
      BY <1>1, <1>5, <3>1
  <2>2. Becomes(c, new) /\ ~SigningUp(new) /\ new.op # "delete"
    BY <1>0, <1>5 DEF Becomes, SigningUp
  <2> HIDE DEF new
  <2> QED
    BY <1>0, <1>3, <1>5, <2>1, <2>2
<1> QED
  BY <1>2, <1>4, <1>5 DEF SignUpWrite, End, Continue

LEMMA SignUpConvertKeeps ==
    ASSUME AccountsInv, NEW c \in Calls, SignUpConvert(c)
    PROVE  AccountsInv'
<1>0. /\ UNCHANGED <<accounts, person, purged, locked>> /\ DOMAIN accounts = Ids /\ DOMAIN person = Ids
      /\ calls[c].op = "signup" /\ calls[c].step = "convert" /\ DOMAIN calls = Calls
  BY DEF SignUpConvert, AccountsInv, accountVars
<1>1. CASE calls' = [calls EXCEPT ![c] = Idle]
  <2>1. Becomes(c, Idle) /\ Idle.op = "idle"
    BY <1>0, <1>1 DEF Becomes, Idle
  <2> QED
    BY <1>0, <2>1, AccountsInvKept DEF SigningUp
<1>2. ASSUME NEW left, calls' = [calls EXCEPT ![c] = [calls[c] EXCEPT !.friends = left]]
      PROVE  AccountsInv'
  <2> DEFINE k == [calls[c] EXCEPT !.friends = left]
  <2>1. Becomes(c, k) /\ k.op = "signup" /\ k.step = "convert"
    BY <1>0, <1>2 DEF Becomes
  <2> HIDE DEF k
  <2> QED
    BY <1>0, <2>1, AccountsInvKept DEF SigningUp
<1> QED
  BY <1>1, <1>2 DEF SignUpConvert, End, Continue

LEMMA UnlockKeeps ==
    ASSUME AccountsInv, NEW p \in Persons, Unlock(p)
    PROVE  AccountsInv'
<1>1. UNCHANGED <<calls, accounts, person, purged>> /\ locked' = locked \ {p}
  BY DEF Unlock, relationVars, invitationVars
<1>2. \A c \in Calls : SigningUp(calls[c]) => calls[c].p # p
  BY DEF Unlock, SigningUp, AccountsInv, SignUpHolds
<1>3. ASSUME NEW c \in Calls PROVE SignUpHolds(c)'
  BY <1>1, <1>2 DEF AccountsInv, SignUpHolds, SigningUp, Registered
<1>4. \A c \in Calls : DeletionHolds(c)'
  BY <1>1 DEF AccountsInv, DeletionHolds
<1> QED
  BY <1>1, <1>3, <1>4 DEF AccountsInv, OneAccountPerUsername, DeletionIsComplete, BeingDeleted

LEMMA DeletionBeginKeeps ==
    ASSUME AccountsInv, NEW c \in Calls, NEW u \in Ids, DeletionBegin(c, u)
    PROVE  AccountsInv'
<1> DEFINE k == [op |-> "delete", u |-> u, found |-> [x \in {} |-> {}], left |-> CleanUps, failed |-> FALSE]
<1>0. /\ Becomes(c, k) /\ calls[c] = Idle /\ Idle.op = "idle"
      /\ UNCHANGED <<person, purged, locked>>
      /\ accounts[u] = "user" /\ DOMAIN accounts' = Ids /\ accounts'[u] = "deleted"
      /\ \A i \in Ids \ {u} : accounts'[i] = accounts[i]
  BY DEF DeletionBegin, Begin, MayBegin, AccountsInv, Becomes, Idle, invitationVars
<1>k. /\ k.op = "delete" /\ k.u = u /\ k.left = CleanUps /\ k.failed = FALSE
      /\ DOMAIN k = {"op", "u", "found", "left", "failed"}
  OBVIOUS
<1> HIDE DEF k
<1>1. /\ DOMAIN calls' = Calls /\ calls'[c] = k /\ \A d \in Calls \ {c} : calls'[d] = calls[d]
      /\ \A i \in Ids : Registered(i)' <=> Registered(i)
  BY <1>0 DEF Becomes, Registered
<1>2. ASSUME NEW d \in Calls PROVE SignUpHolds(d)'
  <2>1. ASSUME d # c, SigningUp(calls[d])
        PROVE  /\ calls[d].p \in locked'
               /\ \A i \in Ids : Registered(i)' => person'[i] # calls[d].p
               /\ \A e \in Calls : SigningUp(calls'[e]) /\ calls'[e].p = calls[d].p => e = d
    BY <1>0, <1>1, <1>k, <2>1 DEF AccountsInv, SignUpHolds, SigningUp
  <2>2. ASSUME d # c, SigningUp(calls[d]), calls[d].step = "put"
        PROVE  /\ calls[d].i \in Ids /\ accounts'[calls[d].i] # "nobody"
               /\ person'[calls[d].i] = calls[d].p /\ calls[d].copy.type = "invited"
    BY <1>0, <2>2 DEF AccountsInv, SignUpHolds
  <2>3. SigningUp(calls'[d]) => d # c /\ calls'[d] = calls[d]
    BY <1>1, <1>k DEF SigningUp
  <2> QED
    BY <2>1, <2>2, <2>3 DEF SignUpHolds, SigningUp
<1>3. \A d \in Calls : calls[d].op = "delete" => d # c /\ calls[d].u # u
  BY <1>0 DEF AccountsInv, DeletionHolds
<1>4. ASSUME NEW d \in Calls PROVE DeletionHolds(d)'
  <2>1. CASE d = c
    <3>1. purged'[u] = (CleanUps \ k.left) \ (IF k.failed THEN Others ELSE {})
      BY <1>0, <1>k DEF AccountsInv
    <3> QED
      BY <1>0, <1>1, <1>3, <1>k, <2>1, <3>1 DEF DeletionHolds
  <2>2. CASE d # c
    BY <1>0, <1>1, <1>3, <1>k, <2>2 DEF AccountsInv, DeletionHolds
  <2> QED
    BY <2>1, <2>2
<1>5. OneAccountPerUsername'
  BY <1>0, <1>1 DEF AccountsInv, OneAccountPerUsername, Registered
<1>6. DeletionIsComplete'
  BY <1>0, <1>1, <1>k DEF AccountsInv, DeletionIsComplete, BeingDeleted
<1>7. \A i \in Ids : accounts'[i] # "deleted" => purged'[i] = {}
  BY <1>0 DEF AccountsInv
<1> QED
  BY <1>0, <1>1, <1>2, <1>4, <1>5, <1>6, <1>7 DEF AccountsInv

\* A deletion goes on: what is left, what has been cleaned and what has failed agree.
LEMMA DeletionGoesOn ==
    ASSUME AccountsInv, NEW c \in Calls, Deleting(c), UNCHANGED <<accounts, person, locked>>,
           NEW k, Becomes(c, k), k.op = "delete", k.u = calls[c].u,
           DOMAIN k = {"op", "u", "found", "left", "failed"},
           k.left \subseteq CleanUps, k.failed \in BOOLEAN,
           k.failed => k.left \cap Others = {},
           DOMAIN purged' = Ids, \A u \in Ids \ {calls[c].u} : purged'[u] = purged[u],
           purged'[k.u] = (CleanUps \ k.left) \ (IF k.failed THEN Others ELSE {})
    PROVE  AccountsInv'
<1>1. /\ DOMAIN calls' = Calls /\ calls'[c] = k /\ \A d \in Calls \ {c} : calls'[d] = calls[d]
      /\ calls[c].op = "delete"
  BY DEF Becomes, Deleting
<1>2. calls[c].u \in Ids /\ accounts[calls[c].u] = "deleted"
  BY <1>1 DEF AccountsInv, DeletionHolds
<1>3. ASSUME NEW d \in Calls PROVE SignUpHolds(d)'
  BY <1>1 DEF AccountsInv, SignUpHolds, SigningUp, Registered
<1>4. \A d \in Calls : (calls'[d].op = "delete" <=> calls[d].op = "delete")
                       /\ (calls[d].op = "delete" => calls'[d].u = calls[d].u)
  BY <1>1
<1>5. ASSUME NEW d \in Calls PROVE DeletionHolds(d)'
  <2>1. CASE d = c
    BY <1>1, <1>2, <1>4, <2>1 DEF AccountsInv, DeletionHolds
  <2>2. CASE d # c
    <3>1. calls[d].op = "delete" => calls[d].u \in Ids \ {calls[c].u}
      BY <1>1, <2>2 DEF AccountsInv, DeletionHolds
    <3> QED
      BY <1>1, <1>4, <2>2, <3>1 DEF AccountsInv, DeletionHolds
  <2> QED
    BY <2>1, <2>2
<1>6. OneAccountPerUsername'
  BY DEF AccountsInv, OneAccountPerUsername
<1>7. DeletionIsComplete'
  <2>1. \A u \in Ids : u = calls[c].u \/ BeingDeleted(u) => BeingDeleted(u)'
    BY <1>1, <1>4 DEF BeingDeleted
  <2> QED
    BY <2>1 DEF AccountsInv, DeletionIsComplete
<1>8. \A u \in Ids : accounts'[u] # "deleted" => purged'[u] = {}
  BY <1>2 DEF AccountsInv
<1> QED
  BY <1>1, <1>3, <1>5, <1>6, <1>7, <1>8 DEF AccountsInv

LEMMA DeletionFindKeeps ==
    ASSUME AccountsInv, NEW c \in Calls, NEW what \in CleanUps, DeletionFind(c, what)
    PROVE  AccountsInv'
<1>0. /\ UNCHANGED <<accounts, person, locked, purged>> /\ DOMAIN purged = Ids
      /\ Deleting(c) /\ DOMAIN calls = Calls
  BY DEF DeletionFind, AccountsInv, invitationVars, accountVars
<1>1. PICK f : calls' = [calls EXCEPT ![c] = [calls[c] EXCEPT !.found = f]]
  BY DEF DeletionFind, Continue
<1> DEFINE k == [calls[c] EXCEPT !.found = f]
<1>2. DOMAIN k = DOMAIN calls[c] /\ \A x \in DOMAIN calls[c] \ {"found"} : k[x] = calls[c][x]
  OBVIOUS
<1>3. Becomes(c, k)
  BY <1>0, <1>1 DEF Becomes
<1>4. /\ DOMAIN calls[c] = {"op", "u", "found", "left", "failed"} /\ calls[c].op = "delete"
      /\ calls[c].left \subseteq CleanUps /\ calls[c].failed \in BOOLEAN
      /\ calls[c].failed => calls[c].left \cap Others = {}
      /\ purged[calls[c].u] = (CleanUps \ calls[c].left) \ (IF calls[c].failed THEN Others ELSE {})
  BY <1>0 DEF AccountsInv, DeletionHolds, Deleting
<1> HIDE DEF k
<1>5. k.op = calls[c].op /\ k.u = calls[c].u /\ k.left = calls[c].left /\ k.failed = calls[c].failed
  BY <1>2, <1>4
<1> QED
  BY <1>0, <1>2, <1>3, <1>4, <1>5, DeletionGoesOn

LEMMA CleanedKeeps ==
    ASSUME AccountsInv, NEW c \in Calls, Deleting(c), NEW what \in calls[c].left, Cleaned(c, what),
           UNCHANGED <<accounts, person, locked>>
    PROVE  AccountsInv'
<1>4. /\ DOMAIN calls[c] = {"op", "u", "found", "left", "failed"} /\ calls[c].op = "delete"
      /\ calls[c].left \subseteq CleanUps /\ calls[c].failed \in BOOLEAN
      /\ calls[c].failed => calls[c].left \cap Others = {}
      /\ purged[calls[c].u] = (CleanUps \ calls[c].left) \ (IF calls[c].failed THEN Others ELSE {})
      /\ calls[c].u \in Ids
  BY DEF AccountsInv, DeletionHolds, Deleting
<1> DEFINE k == [calls[c] EXCEPT !.left = @ \ {what}]
<1>1. Becomes(c, k)
  BY DEF Cleaned, Continue, AccountsInv, Becomes
<1>2. DOMAIN k = DOMAIN calls[c] /\ k.op = calls[c].op /\ k.u = calls[c].u
      /\ k.left = calls[c].left \ {what} /\ k.failed = calls[c].failed
  BY <1>4
<1> HIDE DEF k
<1>3. /\ DOMAIN purged' = Ids /\ \A u \in Ids \ {calls[c].u} : purged'[u] = purged[u]
      /\ purged'[calls[c].u] = purged[calls[c].u] \cup {what}
  BY <1>4 DEF Cleaned, AccountsInv
<1>5. purged'[k.u] = (CleanUps \ k.left) \ (IF k.failed THEN Others ELSE {})
  <2>1. CASE calls[c].failed
    <3>1. what \notin Others
      BY <1>4, <2>1
    <3> QED
      BY <1>2, <1>3, <1>4, <2>1, <3>1
  <2>2. CASE ~calls[c].failed
    BY <1>2, <1>3, <1>4, <2>2
  <2> QED
    BY <2>1, <2>2
<1> QED
  BY <1>1, <1>2, <1>3, <1>4, <1>5, DeletionGoesOn

LEMMA CleanOtherKeeps ==
    ASSUME AccountsInv, NEW c \in Calls, NEW what \in CleanUps, CleanOther(c, what)
    PROVE  AccountsInv'
<1>0. /\ UNCHANGED <<accounts, person, locked>> /\ Deleting(c) /\ what \in calls[c].left \cap Others
  BY DEF CleanOther, invitationVars
<1>1. CASE Cleaned(c, what)
  BY <1>0, <1>1, CleanedKeeps
<1>2. CASE /\ Continue(c, [calls[c] EXCEPT !.left = @ \ {what}, !.failed = TRUE])
           /\ UNCHANGED purged
  <2>4. /\ DOMAIN calls[c] = {"op", "u", "found", "left", "failed"} /\ calls[c].op = "delete"
        /\ calls[c].left \subseteq CleanUps /\ calls[c].failed \in BOOLEAN
        /\ calls[c].failed => calls[c].left \cap Others = {}
        /\ purged[calls[c].u] = (CleanUps \ calls[c].left) \ (IF calls[c].failed THEN Others ELSE {})
        /\ calls[c].u \in Ids /\ DOMAIN purged = Ids
    BY <1>0 DEF AccountsInv, DeletionHolds, Deleting
  <2> DEFINE k == [calls[c] EXCEPT !.left = @ \ {what}, !.failed = TRUE]
  <2>1. Becomes(c, k)
    BY <1>2 DEF Continue, AccountsInv, Becomes
  <2>2. DOMAIN k = DOMAIN calls[c] /\ k.op = calls[c].op /\ k.u = calls[c].u
        /\ k.left = calls[c].left \ {what} /\ k.failed = TRUE
    BY <2>4
  <2> HIDE DEF k
  <2>3. Others = {what}
    BY <1>0 DEF Others
  <2>5. ~calls[c].failed
    BY <1>0, <2>4
  <2>6. purged'[k.u] = (CleanUps \ k.left) \ (IF k.failed THEN Others ELSE {})
    BY <1>0, <1>2, <2>2, <2>3, <2>4, <2>5
  <2> QED
    BY <1>0, <1>2, <2>1, <2>2, <2>3, <2>4, <2>6, DeletionGoesOn
<1> QED
  BY <1>1, <1>2 DEF CleanOther

LEMMA DeletionEndKeeps ==
    ASSUME AccountsInv, NEW c \in Calls, DeletionEnd(c)
    PROVE  AccountsInv'
<1> DEFINE u == calls[c].u
<1>0. /\ UNCHANGED <<accounts, person, locked>> /\ calls[c].op = "delete" /\ calls[c].left = {}
      /\ Becomes(c, Idle) /\ Idle.op = "idle" /\ DOMAIN accounts = Ids /\ DOMAIN person = Ids
  BY DEF DeletionEnd, invitationVars, Deleting, End, Continue, Becomes, AccountsInv, Idle
<1>1. /\ u \in Ids /\ accounts[u] = "deleted" /\ calls[c].failed \in BOOLEAN
      /\ purged[u] = CleanUps \ (IF calls[c].failed THEN Others ELSE {})
      /\ \A d \in Calls : calls[d].op = "delete" /\ calls[d].u = u => d = c
  BY <1>0 DEF AccountsInv, DeletionHolds
<1>2. /\ DOMAIN purged' = Ids /\ \A v \in Ids \ {u} : purged'[v] = purged[v]
      /\ purged'[u] = IF calls[c].failed THEN purged[u] ELSE purged[u] \cup {"items"}
  BY <1>1 DEF DeletionEnd, AccountsInv
<1>3. DOMAIN calls' = Calls /\ calls'[c] = Idle /\ \A d \in Calls \ {c} : calls'[d] = calls[d]
  BY <1>0 DEF Becomes
<1>4. ASSUME NEW d \in Calls PROVE SignUpHolds(d)'
  BY <1>0, <1>3 DEF AccountsInv, SignUpHolds, SigningUp, Registered
<1>5. ASSUME NEW d \in Calls PROVE DeletionHolds(d)'
  <2>1. CASE d = c
    BY <1>0, <1>3, <2>1 DEF DeletionHolds
  <2>2. CASE d # c
    <3>1. calls[d].op = "delete" => calls[d].u \in Ids \ {u}
      BY <1>1, <2>2 DEF AccountsInv, DeletionHolds
    <3> QED
      BY <1>0, <1>2, <1>3, <2>2, <3>1 DEF AccountsInv, DeletionHolds
  <2> QED
    BY <2>1, <2>2
<1>6. OneAccountPerUsername'
  BY <1>0 DEF AccountsInv, OneAccountPerUsername
<1>7. DeletionIsComplete'
  <2>1. \/ purged'[u] = CleanUps \cup {"items"}
        \/ "items" \notin purged'[u] /\ ~(Others \subseteq purged'[u])
    <3>1. "elsewhere" \in Others /\ "items" \notin CleanUps
      BY DEF Others, CleanUps
    <3> QED
      BY <1>1, <1>2, <3>1
  <2>2. \A v \in Ids \ {u} : BeingDeleted(v) => BeingDeleted(v)'
    BY <1>0, <1>3 DEF BeingDeleted
  <2> QED
    BY <1>0, <1>2, <2>1, <2>2 DEF AccountsInv, DeletionIsComplete
<1>8. \A v \in Ids : accounts'[v] # "deleted" => purged'[v] = {}
  BY <1>0, <1>1, <1>2 DEF AccountsInv
<1> QED
  BY <1>0, <1>2, <1>3, <1>4, <1>5, <1>6, <1>7, <1>8 DEF AccountsInv

LEMMA AccountsInvInit == SocialInit => AccountsInv
<1> SUFFICES ASSUME SocialInit PROVE AccountsInv
  OBVIOUS
<1>1. \A c \in Calls : calls[c].op = "idle"
  BY DEF SocialInit, Idle
<1>2. \A i \in Ids : accounts[i] # "deleted" /\ person[i] = NoPerson /\ purged[i] = {}
  BY DEF SocialInit
<1> QED
  BY <1>1, <1>2 DEF SocialInit, AccountsInv, SignUpHolds, SigningUp, DeletionHolds,
     OneAccountPerUsername, DeletionIsComplete

LEMMA AccountsInvNext == AccountsInv /\ [SocialNext]_socialVars => AccountsInv'
<1> SUFFICES ASSUME AccountsInv, [SocialNext]_socialVars PROVE AccountsInv'
  OBVIOUS
<1>1. CASE UNCHANGED socialVars
  BY <1>1, AccountsInvSame DEF socialVars, relationVars, invitationVars, accountVars
<1>2. CASE RelationsNext /\ UNCHANGED <<invitationVars, accountVars>>
  BY <1>2, RelationsKeepAccounts
<1>3. CASE InvitationsNext /\ UNCHANGED accountVars
  BY <1>3, InvitationsKeepAccounts
<1>4. ASSUME NEW c \in Calls, SignUpSteps(c) PROVE AccountsInv'
  BY <1>4, SignUpInvitationKeeps, SignUpWriteKeeps, SignUpConvertKeeps DEF SignUpSteps
<1>5. ASSUME NEW c \in Calls, DeletionSteps(c) PROVE AccountsInv'
  <2>1. CASE DeleteRelations(c)
    BY <2>1, CleanedKeeps DEF DeleteRelations, invitationVars
  <2>2. CASE DeleteNotifications(c)
    BY <2>2, CleanedKeeps DEF DeleteNotifications, invitationVars
  <2> QED
    BY <1>5, <2>1, <2>2, DeletionFindKeeps, CleanOtherKeeps, DeletionEndKeeps DEF DeletionSteps
<1>6. ASSUME NEW c \in Calls, NEW p \in Persons, SignUpBegin(c, p) PROVE AccountsInv'
  BY <1>6, SignUpBeginKeeps
<1>7. ASSUME NEW c \in Calls, NEW u \in Ids, DeletionBegin(c, u) PROVE AccountsInv'
  BY <1>7, DeletionBeginKeeps
<1>8. ASSUME NEW p \in Persons, Unlock(p) PROVE AccountsInv'
  BY <1>8, UnlockKeeps
<1>9. CASE CreateNotification
  BY <1>9, AccountsInvSame DEF CreateNotification, invitationVars
<1> QED
  BY <1>1, <1>2, <1>3, <1>4, <1>5, <1>6, <1>7, <1>8, <1>9 DEF SocialNext

\* However sign ups, invitations and deletions interleave, no two accounts have the same
\* username (controllers/user/lib/prevent_multi_accounts_creation.ts).
THEOREM UsernamesAreUnique == SocialSpec => []OneAccountPerUsername
<1>1. SocialInit => AccountsInv
  BY AccountsInvInit
<1>2. AccountsInv /\ [SocialNext]_socialVars => AccountsInv'
  BY AccountsInvNext
<1>3. AccountsInv => OneAccountPerUsername
  BY DEF AccountsInv
<1> QED
  BY <1>1, <1>2, <1>3, PTL DEF SocialSpec

\* Whatever interleaves with the clean-ups of a deletion, its items are deleted after
\* everything else and only when nothing has failed
\* (controllers/user/lib/delete_user_and_cleanup.ts).
THEOREM DeletionsAreComplete == SocialSpec => []DeletionIsComplete
<1>1. SocialInit => AccountsInv
  BY AccountsInvInit
<1>2. AccountsInv /\ [SocialNext]_socialVars => AccountsInv'
  BY AccountsInvNext
<1>3. AccountsInv => DeletionIsComplete
  BY DEF AccountsInv
<1> QED
  BY <1>1, <1>2, <1>3, PTL DEF SocialSpec
=============================================================================
