--------------------------------- MODULE Accounts ---------------------------------
(***************************************************************************)
(* The life of accounts: sign up, which converts the invitations of the    *)
(* new user, and deletion, which cleans what other components keep about   *)
(* the deleted user.  Groups, transactions, shelves and listings have      *)
(* modules of their own: their clean-ups are here one step, that may fail; *)
(* those of relations and notifications are detailed.                      *)
(***************************************************************************)
EXTENDS Invitations

CONSTANT NoId   \* no document: the document has no inviter to the group

ASSUME NoIdAssumption == NoId \notin Ids

VARIABLES
    locked,         \* usernames of the accounts being created
    notifications,  \* "friendAcceptedRequest" notifications: who gets it, about whom
    purged          \* what the deletion of each account has cleaned

accountVars == <<locked, notifications, purged>>
socialVars == <<relationVars, invitationVars, accountVars>>

-----------------------------------------------------------------------------
(* Sign up *)

SignUpBeginUnlocked(c, p) ==  \* mutant: the username is not locked
    /\ \A i \in Ids : accounts[i] \in {"user", "deleted"} => person[i] # p
    /\ Begin(c, [op |-> "signup", step |-> "invitation", p |-> p])
    /\ UNCHANGED <<regime, accounts, relations, posts, wishes, everWished, notifications, purged>>
    /\ UNCHANGED <<invitationVars, locked>>

\* The username is locked, then its availability is read: the documents of deleted
\* users keep their usernames.
SignUpBegin(c, p) ==
    /\ p \notin locked
    /\ locked' = locked \cup {p}
    /\ \A i \in Ids : accounts[i] \in {"user", "deleted"} => person[i] # p
    /\ Begin(c, [op |-> "signup", step |-> "invitation", p |-> p])
    /\ UNCHANGED <<regime, accounts, relations, posts, wishes, everWished, notifications, purged>>
    /\ UNCHANGED invitationVars

\* findInvitationByEmail takes the first of the documents of the email; the password
\* is hashed before the document is written.
SignUpInvitation(c) ==
    LET k == calls[c]
        known == ByEmail("invited", k.p)
        first == CHOOSE i \in known : \A j \in known : i <= j
    IN  /\ k.op = "signup" /\ k.step = "invitation"
        /\ Continue(c, IF known = {}
                       THEN [op |-> "signup", step |-> "post", p |-> k.p]
                       ELSE [op |-> "signup", step |-> "put", p |-> k.p, i |-> first,
                             copy |-> Copy(first)])
        /\ UNCHANGED <<regime, accounts, relations, posts, wishes, everWished>>
        /\ UNCHANGED <<invitationVars, accountVars>>

\* No invitation: a new document.  An invitation: its document becomes the user's,
\* unless somebody has changed it meanwhile, in which case the sign up fails.
SignUpWrite(c) ==
    LET k == calls[c] IN
    /\ k.op = "signup" /\ k.step \in {"post", "put"}
    /\ \/ /\ k.step = "post"
          /\ \E i \in Free :
                /\ accounts' = [accounts EXCEPT ![i] = "user"]
                /\ person' = [person EXCEPT ![i] = k.p]
                /\ End(c)
       \/ /\ k.step = "put" /\ Copy(k.i) = k.copy
          /\ accounts' = [accounts EXCEPT ![k.i] = "user"]
          /\ Continue(c, [op |-> "signup", step |-> "convert", i |-> k.i,
                          friends |-> FriendInviters(k.i)])
          /\ UNCHANGED person
       \/ /\ k.step = "put" /\ Copy(k.i) # k.copy
          /\ End(c)
          /\ UNCHANGED <<accounts, person>>
    /\ UNCHANGED <<regime, relations, posts, wishes, everWished, inviters, groupInviter, stopEmails,
                   promised>>
    /\ UNCHANGED accountVars

\* convertInvitations: the puts run in any order (the group invitation is an action of
\* Groups).
SignUpConvert(c) ==
    LET k == calls[c] IN
    /\ k.op = "signup" /\ k.step = "convert"
    /\ \/ \E u \in k.friends :
             /\ ConvertFriendInvitation(u, k.i)
             /\ Continue(c, [k EXCEPT !.friends = @ \ {u}])
       \/ /\ k.friends = {}
          /\ End(c)
          /\ UNCHANGED <<relations, wishes, everWished>>
    /\ UNCHANGED <<regime, accounts, posts, person, inviters, groupInviter, stopEmails, promised>>
    /\ UNCHANGED accountVars

\* The timeout of the lock, far longer than a sign up.
Unlock(p) ==
    /\ p \in locked
    /\ \A c \in Calls : calls[c].op = "signup" /\ calls[c].step \in {"invitation", "post", "put"} =>
          (IF calls[c].step = "put" THEN person[calls[c].i] ELSE calls[c].p) # p
    /\ locked' = locked \ {p}
    /\ UNCHANGED <<relationVars, invitationVars, notifications, purged>>

-----------------------------------------------------------------------------
(* Notifications *)

\* The listener of 'notify:friend:request:accepted'.
CreateNotification ==
    /\ \E n \in posts : posts' = posts \ {n} /\ notifications' = notifications \cup {n}
    /\ UNCHANGED <<regime, begun, calls, accounts, relations, wishes, everWished, locked, purged>>
    /\ UNCHANGED invitationVars

BySubjectOnly(u) ==  \* mutant: the view is not indexed by the subjects
    {n \in notifications : n.user = u}
BySubject(u) == {n \in notifications : n.user = u \/ n.subject = u}

-----------------------------------------------------------------------------
(* Deletion *)

Others == {"elsewhere"}   \* groups, transactions, shelves and listings
CleanUps == {"relations", "notifications"} \cup Others

DeletionBegin(c, u) ==
    /\ accounts[u] = "user"
    /\ accounts' = [accounts EXCEPT ![u] = "deleted"]
    /\ Begin(c, [op |-> "delete", u |-> u, found |-> [x \in {} |-> {}], left |-> CleanUps, failed |-> FALSE])
    /\ UNCHANGED <<regime, relations, posts, wishes, everWished, locked, notifications, purged>>
    /\ UNCHANGED invitationVars

Deleting(c) == calls[c].op = "delete"

\* The clean-ups run in parallel.  Relations and notifications are found by a view...
DeletionFind(c, what) ==
    LET k == calls[c] IN
    /\ Deleting(c) /\ what \in k.left \ DOMAIN k.found /\ what \notin Others
    /\ Continue(c, [k EXCEPT !.found =
          [x \in DOMAIN @ \cup {what} |->
             IF x \in DOMAIN @ THEN @[x]
             ELSE IF x = "relations" THEN {<<p, relations[p].rev>> : p \in UserRelations(k.u)}
             ELSE BySubject(k.u)]])
    /\ UNCHANGED <<regime, accounts, relations, posts, wishes, everWished>>
    /\ UNCHANGED <<invitationVars, accountVars>>

Cleaned(c, what) ==
    /\ Continue(c, [calls[c] EXCEPT !.left = @ \ {what}])
    /\ purged' = [purged EXCEPT ![calls[c].u] = @ \cup {what}]

\* ... and what was found is deleted by bulk, except the relations that have changed.
DeleteRelations(c) ==
    LET k == calls[c]
        same(p) == <<p, relations[p].rev>> \in k.found["relations"]
    IN  /\ Deleting(c) /\ "relations" \in k.left \cap DOMAIN k.found
        /\ relations' = [p \in RelationIds |->
                            IF same(p) THEN [NoRelation EXCEPT !.rev = relations[p].rev + 1]
                            ELSE relations[p]]
        /\ wishes' = {w \in wishes : ~same(RelationId(w[1], w[2]))}
        /\ Cleaned(c, "relations")
        /\ UNCHANGED <<regime, accounts, posts, everWished, locked, notifications>>
        /\ UNCHANGED invitationVars

DeleteNotifications(c) ==
    /\ Deleting(c) /\ "notifications" \in calls[c].left \cap DOMAIN calls[c].found
    /\ notifications' = notifications \ calls[c].found["notifications"]
    /\ Cleaned(c, "notifications")
    /\ UNCHANGED <<regime, accounts, relations, posts, wishes, everWished, locked>>
    /\ UNCHANGED invitationVars

\* The clean-up of another component: it ends, or fails.
CleanOther(c, what) ==
    /\ Deleting(c) /\ what \in calls[c].left \cap Others
    /\ \/ Cleaned(c, what)
       \/ /\ Continue(c, [calls[c] EXCEPT !.left = @ \ {what}, !.failed = TRUE])
          /\ UNCHANGED purged
    /\ UNCHANGED <<regime, accounts, relations, posts, wishes, everWished, locked, notifications>>
    /\ UNCHANGED invitationVars

DeletionEndUnawaited(c) ==  \* mutant: the items do not wait for the other clean-ups
    /\ Deleting(c)
    /\ purged' = [purged EXCEPT ![calls[c].u] = @ \cup {"items"}]
    /\ End(c)
    /\ UNCHANGED <<regime, accounts, relations, posts, wishes, everWished, locked, notifications>>
    /\ UNCHANGED invitationVars

\* The items come last, and only when nothing has failed.
DeletionEnd(c) ==
    /\ Deleting(c) /\ calls[c].left = {}
    /\ purged' = IF calls[c].failed THEN purged
                 ELSE [purged EXCEPT ![calls[c].u] = @ \cup {"items"}]
    /\ End(c)
    /\ UNCHANGED <<regime, accounts, relations, posts, wishes, everWished, locked, notifications>>
    /\ UNCHANGED invitationVars

-----------------------------------------------------------------------------
(* Specification *)

\* The members of the group are users, the other documents are still to be created.
SocialInit ==
    /\ regime \in {"serial", "race"}
    /\ begun = 0
    /\ calls = [c \in Calls |-> Idle]
    /\ accounts = [i \in Ids |-> IF i \in Members THEN "user" ELSE "nobody"]
    /\ relations = [p \in RelationIds |-> NoRelation]
    /\ posts = {} /\ wishes = {} /\ everWished = {}
    /\ person = [i \in Ids |-> NoPerson]
    /\ inviters = [i \in Ids |-> {}]
    /\ groupInviter = [i \in Ids |-> NoId]
    /\ stopEmails = [i \in Ids |-> FALSE]
    /\ promised = {}
    /\ locked = {} /\ notifications = {}
    /\ purged = [i \in Ids |-> {}]

SignUpSteps(c) == SignUpInvitation(c) \/ SignUpWrite(c) \/ SignUpConvert(c)
DeletionSteps(c) ==
    \/ \E what \in CleanUps : DeletionFind(c, what) \/ CleanOther(c, what)
    \/ DeleteRelations(c) \/ DeleteNotifications(c) \/ DeletionEnd(c)

SocialNext ==
    \/ RelationsNext /\ UNCHANGED <<invitationVars, accountVars>>
    \/ InvitationsNext /\ UNCHANGED accountVars
    \/ \E c \in Calls : SignUpSteps(c) \/ DeletionSteps(c)
    \/ \E c \in Calls, p \in Persons : SignUpBegin(c, p)
    \/ \E c \in Calls, u \in Ids : DeletionBegin(c, u)
    \/ \E p \in Persons : Unlock(p)
    \/ CreateNotification

SocialSpec == SocialInit /\ [][SocialNext]_socialVars

-----------------------------------------------------------------------------
(* Properties *)

Signing(p) ==
    \E c \in Calls :
        calls[c].op = "signup" /\ (IF calls[c].step \in {"put", "convert"} THEN person[calls[c].i]
                                  ELSE calls[c].p) = p
BeingDeleted(u) == \E c \in Calls : calls[c].op = "delete" /\ calls[c].u = u

\* However sign ups interleave, no two accounts have the same username, deleted ones
\* included (controllers/user/lib/prevent_multi_accounts_creation.ts).
OneAccountPerUsername ==
    \A i, j \in Ids :
        i # j /\ accounts[i] \in {"user", "deleted"} /\ accounts[j] \in {"user", "deleted"}
            /\ person[i] # NoPerson => person[i] # person[j]

\* When requests are handled one at a time, every invitation to become friends that was
\* accepted has become a request to the invited person once signed up
\* (controllers/invitations/lib/invitations.ts, convertInvitations).
InvitationsBecomeRequests ==
    regime = "serial" =>
        \A m \in promised, i \in Ids :
            ~m.group /\ accounts[i] = "user" /\ person[i] = m.p /\ ~Signing(m.p)
                => <<m.u, i>> \in everWished

\* When requests are handled one at a time, nothing is left of the relations and of the
\* notifications of a deleted user, unless the user had invited somebody, whose sign up
\* asks for the friendship of the deleted user's inviters without looking at them
\* (controllers/user/lib/delete_user_and_cleanup.ts).
NothingLeftOfDeleted ==
    regime = "serial" =>
        \A u \in Ids :
            accounts[u] = "deleted" /\ ~BeingDeleted(u) /\ (\A i \in Ids : u \notin inviters[i])
                => /\ \A n \in notifications : u \notin {n.user, n.subject}
                   /\ \A p \in RelationIds :
                        u \in {p[1], p[2]} => relations[p].status \in {"none", "absent"}

\* A deletion that is over has deleted the items after everything else, unless the
\* clean-up of another component has failed, which leaves the items
\* (controllers/user/lib/delete_user_and_cleanup.ts).
DeletionIsComplete ==
    \A u \in Ids :
        accounts[u] = "deleted" /\ ~BeingDeleted(u)
            => \/ purged[u] = CleanUps \cup {"items"}
               \/ "items" \notin purged[u] /\ ~(Others \subseteq purged[u])
====
