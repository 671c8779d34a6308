------------------------------- MODULE Invitations -------------------------------
(***************************************************************************)
(* Invitations by email.  A document of type 'invited' collects, for an    *)
(* email, those who invited its owner; the document becomes the user       *)
(* document at sign up, and the invitations that it kept become friendship *)
(* requests and invitations to the group.                                  *)
(*                                                                         *)
(* A person stands for its email and its username; there is one group, of  *)
(* which some users are members.  A call invites one email.                *)
(***************************************************************************)
EXTENDS Relations

CONSTANTS
    Persons,    \* emails
    NoPerson,
    Members     \* ids of the members of the group, who may invite to it

VARIABLES
    person,         \* email of each document
    inviters,       \* keys of the attribute `inviters` of each document
    groupInviter,   \* attribute `invitersGroups` of each document: its last inviter to the group
    stopEmails,     \* documents that refuse emails
    promised        \* auxiliary: the invitations that were accepted: who, to whom, as friend or to the group

invitationVars == <<person, inviters, groupInviter, stopEmails, promised>>

-----------------------------------------------------------------------------
(* The 'invited' documents *)

Free == {i \in Ids : accounts[i] = "nobody"}
ByEmail(type, p) == {i \in Ids : accounts[i] = type /\ person[i] = p}

\* A copy of a document: the one in the database has not changed since, that is
\* its _rev is the same, when it is still equal to the copy.
Copy(i) == [type |-> accounts[i], inviters |-> inviters[i], group |-> groupInviter[i],
            stop |-> stopEmails[i]]

\* The group is not looked for in the attribute that addInviter writes: nothing
\* prevents two members from inviting the same email to the group.
CanBeInvited(u, i) == ~stopEmails[i] /\ u \notin inviters[i]

InviteBase(u, p, toGroup) == [op |-> "invite", step |-> "known", u |-> u, p |-> p, group |-> toGroup]

FriendInvitersOfFriendsOnly(i) ==  \* mutant: an invitation to the group replaces the others
    IF groupInviter[i] \in inviters[i] THEN {} ELSE inviters[i]

\* Those who invited to the group are not those who invited as friends.
FriendInviters(i) == inviters[i] \ {groupInviter[i]}

-----------------------------------------------------------------------------
(* Requests *)

\* by-emails: the group and the users who have this email are loaded first.  A user
\* who has the email gets a friendship request (or an invitation to the group, an
\* action of Groups).
InviteBegin(c, u, p, toGroup) ==
    /\ accounts[u] = "user" /\ person[u] # p
    /\ toGroup => u \in Members
    /\ IF ByEmail("user", p) = {}
       THEN Begin(c, InviteBase(u, p, toGroup)) /\ UNCHANGED everWished
       ELSE \E v \in ByEmail("user", p) :
              /\ ~toGroup
              /\ Begin(c, [op |-> "relation", step |-> "read", intent |-> "request",
                           u |-> u, v |-> v])
              /\ everWished' = everWished \cup {<<u, v>>}
    /\ UNCHANGED <<regime, accounts, relations, posts, wishes, person, inviters, groupInviter,
                   stopEmails, promised>>

\* The 'invited' documents of the email, to which this inviter can be added.
InviteRead(c) ==
    LET k == calls[c]
        known == ByEmail("invited", k.p)
        able == {i \in known : CanBeInvited(k.u, i)}
    IN  /\ k.op = "invite" /\ k.step = "known"
        /\ IF known # {} /\ able = {} THEN End(c)
           ELSE Continue(c, [op |-> "invite", step |-> "write", u |-> k.u, p |-> k.p,
                             group |-> k.group, able |-> [i \in able |-> Copy(i)]])
        /\ UNCHANGED <<regime, accounts, relations, posts, wishes, everWished>>
        /\ UNCHANGED invitationVars

\* addInviter, as bulk writes it: a document that has changed since it was read is left
\* as it is, and the call then fails although it has written the others.
AddInviter(u, toGroup, docs) ==
    /\ inviters' = [i \in Ids |-> IF i \in docs THEN inviters[i] \cup {u} ELSE inviters[i]]
    /\ groupInviter' = [i \in Ids |-> IF i \in docs /\ toGroup THEN u ELSE groupInviter[i]]

InviteWrite(c) ==
    LET k == calls[c]
        unchanged == {i \in DOMAIN k.able : Copy(i) = k.able[i]}
    IN  /\ k.op = "invite" /\ k.step = "write"
        /\ IF k.able # <<>>
           THEN /\ AddInviter(k.u, k.group, unchanged)
                /\ UNCHANGED <<accounts, person>>
           ELSE \E i \in Free :
                  /\ accounts' = [accounts EXCEPT ![i] = "invited"]
                  /\ person' = [person EXCEPT ![i] = k.p]
                  /\ AddInviter(k.u, k.group, {i})
        /\ promised' = IF k.able # <<>> /\ unchanged # DOMAIN k.able THEN promised
                       ELSE promised \cup {[u |-> k.u, p |-> k.p, group |-> k.group]}
        /\ everWished' = everWished
        /\ End(c)
        /\ UNCHANGED <<regime, relations, posts, wishes, stopEmails>>

\* stopInvitationEmails: the owner of the email asks for no more invitations.
StopEmails(p) ==
    /\ regime = "serial" => Quiet
    /\ \E i \in ByEmail("invited", p) :
          /\ ~stopEmails[i]
          /\ stopEmails' = [stopEmails EXCEPT ![i] = TRUE]
    /\ UNCHANGED <<relationVars, person, inviters, groupInviter, promised>>

-----------------------------------------------------------------------------
(* What sign up does with the invitations of the new user *)

\* One conversion: makeRequest puts the status without reading it.
ConvertFriendInvitation(u, new) ==
    /\ PutStatus(u, new, RequestedStatus(u, new))
    /\ wishes' = WishesAfter(u, new, RequestedStatus(u, new))
    /\ everWished' = everWished \cup {<<u, new>>}

InvitationsNext ==
    \/ \E c \in Calls :
          \/ \E u \in Ids, p \in Persons, toGroup \in BOOLEAN : InviteBegin(c, u, p, toGroup)
          \/ InviteRead(c)
          \/ InviteWrite(c)
    \/ \E p \in Persons : StopEmails(p)
====
