--------------------------------- MODULE Groups ---------------------------------
(***************************************************************************)
(* The memberships of a group.  A membership request first validates the   *)
(* rights of its author on one copy of the group per check, then, through  *)
(* retryOnConflict, reads the group again and applies the action to that   *)
(* copy: nothing but the action's own checks is evaluated on the copy that *)
(* is written.  The deletion of an emptied group is a listener of          *)
(* 'group:leave', and the deletion of an account removes the user from the *)
(* group with a put that is not retried.                                   *)
(***************************************************************************)
EXTENDS Naturals, FiniteSets

CONSTANTS
    Users,
    GroupCalls, \* slots for the requests the server handles at a time
    Promoted,   \* how many members replace the last admin when an account is deleted
    MaxHooks    \* bound on the deletion checks in progress

ASSUME BoundsAssumption == Promoted \in Nat \ {0} /\ MaxHooks \in Nat \ {0}

VARIABLES
    group,      \* the document of the group
    groupCalls, \* the membership requests in flight
    deleted,    \* the deleted accounts
    purges,     \* how far the deletion of each account has cleaned the group
    hooks,      \* the runs of deleteGroupIfEmpty, by the database call they wait for
    asked,      \* auxiliary: who asked to be in the group, or accepted to
    welcomed    \* auxiliary: whom the group invited, accepted, or let in as an open group

vars == <<group, groupCalls, deleted, purges, hooks, asked, welcomed>>

-----------------------------------------------------------------------------
(* The document *)

Roles == {"admins", "members", "invited", "declined", "requested"}
Group == [Roles -> SUBSET Users]
NoGroup == [r \in Roles |-> {}]

\* The group document, with the settings that the actions read.
GroupDoc == [exists : BOOLEAN, open : BOOLEAN, lists : Group]

In(u, roles) == \E r \in roles : u \in group.lists[r]
Member(u) == In(u, {"admins", "members"})

\* moveMembership, once the membership was found in the list it leaves.
Moved(u, from, to) ==
    [r \in Roles |-> IF r = to THEN group.lists[r] \cup {u}
                     ELSE IF r = from THEN group.lists[r] \ {u} ELSE group.lists[r]]
Added(u, to) == Moved(u, "nowhere", to)
Removed(u, from) == Moved(u, from, "nowhere")

-----------------------------------------------------------------------------
(* Requests *)

MembershipActions ==
    {"invite", "accept", "decline", "request", "cancelRequest", "acceptRequest", "refuseRequest",
     "makeAdmin", "kick", "leave"}
Actions == MembershipActions \cup {"updateSettings"}

\* The actions about another user than the author of the request.
OnOthers == {"invite", "acceptRequest", "refuseRequest", "makeAdmin", "kick"}

\* The checks of the validation that need a copy of the group: one of the author,
\* for some actions a second one, each on its own copy.
Checks(action) ==
    IF action \in {"acceptRequest", "refuseRequest", "kick", "leave"} THEN {"author", "second"}
    ELSE {"author"}

AuthorAllowed(action, u) ==
    CASE action \in {"invite", "leave"} -> Member(u)
      [] action \in {"accept", "decline"} -> In(u, {"invited"})
      [] action = "request" -> ~In(u, {"admins", "members", "requested"})
      [] action = "cancelRequest" -> In(u, {"requested"})
      [] OTHER -> In(u, {"admins"})

\* userCanLeaveGroup
CanLeave(u) ==
    In(u, {"admins"}) => ~(Cardinality(group.lists["admins"]) = 1 /\ group.lists["members"] # {})

SecondAllowed(action, u, v) ==
    CASE action \in {"acceptRequest", "refuseRequest"} -> In(v, {"requested"})
      [] action = "kick" -> ~In(v, {"admins"})
      [] OTHER -> CanLeave(u)

Allowed(check, call) ==
    IF check = "author" THEN AuthorAllowed(call.action, call.user)
    ELSE SecondAllowed(call.action, call.user, call.target)

NoGroupCall == [action |-> "none"]
Call == [action : Actions, user : Users, target : Users, checks : SUBSET {"author", "second"}]

\* Mutant: a kick takes the user from whichever list of members they are in.
FromAnyRole(action, u) ==
    CASE action \in {"accept", "decline"} -> "invited"
      [] action \in {"cancelRequest", "acceptRequest", "refuseRequest"} -> "requested"
      [] action = "makeAdmin" -> "members"
      [] action \in {"kick", "leave"} -> IF In(u, {"admins"}) THEN "admins" ELSE "members"

\* The membership list that an action takes the user from, when it is found there.
From(action, u) ==
    CASE action \in {"accept", "decline"} -> "invited"
      [] action \in {"cancelRequest", "acceptRequest", "refuseRequest"} -> "requested"
      [] action \in {"makeAdmin", "kick"} -> "members"
      [] action = "leave" -> IF In(u, {"admins"}) THEN "admins" ELSE "members"

To(action) ==
    CASE action \in {"accept", "acceptRequest"} -> "members"
      [] action = "decline" -> "declined"
      [] action = "makeAdmin" -> "admins"
      [] OTHER -> "nowhere"

\* The user whose membership an action changes.
Subject(call) == IF call.action \in OnOthers THEN call.target ELSE call.user

\* Mutant: an invitation only looks for members.
AppliesToNonMembers(call) ==
    LET u == Subject(call)
    IN  CASE call.action = "invite" -> ~In(u, {"admins", "members"})
          [] call.action = "request" -> ~In(u, {"admins", "members", "requested"})
          [] OTHER -> u \in group.lists[From(call.action, u)]

\* groupMembershipActions: whether the action does not throw, and the lists after it.
ActionApplies(call) ==
    LET u == Subject(call)
    IN  CASE call.action = "invite" -> ~In(u, Roles \ {"requested"})
          [] call.action = "request" -> ~In(u, {"admins", "members", "requested"})
          [] OTHER -> u \in group.lists[From(call.action, u)]

\* Mutant: a request to join a closed group is accepted at once.
ResultAlwaysOpen(call) ==
    LET u == Subject(call)
    IN  CASE call.action = "invite" ->
               IF In(u, {"requested"}) THEN Moved(u, "requested", "members") ELSE Added(u, "invited")
          [] call.action = "request" ->
               IF In(u, {"invited"}) THEN Moved(u, "invited", "members") ELSE Added(u, "members")
          [] OTHER -> Moved(u, From(call.action, u), To(call.action))

Result(call) ==
    LET u == Subject(call)
    IN  CASE call.action = "invite" ->
               IF In(u, {"requested"}) THEN Moved(u, "requested", "members") ELSE Added(u, "invited")
          [] call.action = "request" ->
               IF In(u, {"invited"}) THEN Moved(u, "invited", "members")
               ELSE IF In(u, {"declined"}) THEN Moved(u, "declined", "members")
               ELSE Added(u, IF group.open THEN "members" ELSE "requested")
          [] OTHER -> Moved(u, From(call.action, u), To(call.action))

\* Who has consented to what once the lists are `lists`: leaving forgets it.
Consents(call, lists) ==
    LET u == Subject(call)
        out == \A r \in Roles : u \notin lists[r]
    IN  /\ asked' = IF out THEN asked \ {u}
                    ELSE IF call.action \in {"accept", "request"} THEN asked \cup {u} ELSE asked
        /\ welcomed' = IF out THEN welcomed \ {u}
                       ELSE IF \/ call.action \in {"invite", "acceptRequest"}
                               \/ call.action = "request" /\ group.open
                       THEN welcomed \cup {u} ELSE welcomed

-----------------------------------------------------------------------------
(* A purge is `fresh` while nobody has written the group since it was read. *)

Purges == {"none", "due", "fresh", "stale"}
Stale(p) == [u \in Users |-> IF p[u] = "fresh" THEN "stale" ELSE p[u]]

Hooks == {"get", "delete"}
RoomForHook == hooks["get"] + hooks["delete"] < MaxHooks

Init ==
    /\ \E creator \in Users :
          /\ group \in [exists : {TRUE}, open : BOOLEAN,
                        lists : {[r \in Roles |-> IF r = "admins" THEN {creator} ELSE {}]}]
          /\ asked = {creator}
          /\ welcomed = {creator}
    /\ groupCalls = [c \in GroupCalls |-> NoGroupCall]
    /\ deleted = {}
    /\ purges = [u \in Users |-> "none"]
    /\ hooks = [h \in Hooks |-> 0]

\* The request comes in and one of its checks passes, the first to be answered.  A
\* request whose first check fails has changed nothing.
StartCall(c, action, u, v, check) ==
    LET call == [action |-> action, user |-> u, target |-> v, checks |-> Checks(action) \ {check}]
    IN  /\ groupCalls[c] = NoGroupCall
        /\ group.exists
        /\ u \notin deleted
        /\ action \notin OnOthers => v = u
        /\ action = "invite" => v \notin deleted
        /\ check \in Checks(action)
        /\ Allowed(check, call)
        /\ groupCalls' = [groupCalls EXCEPT ![c] = call]
        /\ UNCHANGED <<group, deleted, purges, hooks, asked, welcomed>>

\* The second check of membershipValidations, on the group as it now is.  A check
\* that fails, or a group that is not found, ends the request.
Validate(c, check) ==
    LET call == groupCalls[c]
    IN  /\ call # NoGroupCall
        /\ check \in call.checks
        /\ groupCalls' = [groupCalls EXCEPT ![c] =
              IF group.exists /\ Allowed(check, call)
              THEN [call EXCEPT !.checks = @ \ {check}] ELSE NoGroupCall]
        /\ UNCHANGED <<group, deleted, purges, hooks, asked, welcomed>>

Ready(c) == groupCalls[c] # NoGroupCall /\ groupCalls[c].checks = {}

\* _groupAction: the get, the action and the put retried until they do not
\* conflict, hence one step.
GroupAction(c) ==
    LET call == groupCalls[c]
        lists == Result(call)
    IN  /\ Ready(c)
        /\ call.action \in MembershipActions
        /\ group.exists
        /\ ActionApplies(call)
        /\ call.action = "leave" => RoomForHook
        /\ group' = [group EXCEPT !.lists = lists]
        /\ Consents(call, lists)
        /\ hooks' = IF call.action = "leave" THEN [hooks EXCEPT !["get"] = @ + 1] ELSE hooks
        /\ purges' = Stale(purges)
        /\ groupCalls' = [groupCalls EXCEPT ![c] = NoGroupCall]
        /\ UNCHANGED deleted

\* The membership is not where the action looks for it, or the group is gone.
GroupActionThrows(c) ==
    /\ Ready(c)
    /\ group.exists => groupCalls[c].action \in MembershipActions /\ ~ActionApplies(groupCalls[c])
    /\ groupCalls' = [groupCalls EXCEPT ![c] = NoGroupCall]
    /\ UNCHANGED <<group, deleted, purges, hooks, asked, welcomed>>

\* update-settings of the attribute `open`, by an admin when the rights were checked.
\* A conflict fails the request, which has then changed nothing: a get and a put
\* that succeed are one step.
UpdateOpen(c) ==
    /\ Ready(c)
    /\ groupCalls[c].action = "updateSettings"
    /\ group.exists
    /\ group' = [group EXCEPT !.open = ~@]
    /\ purges' = Stale(purges)
    /\ groupCalls' = [groupCalls EXCEPT ![c] = NoGroupCall]
    /\ UNCHANGED <<deleted, hooks, asked, welcomed>>

-----------------------------------------------------------------------------
(* The deletion of an emptied group *)

\* deleteGroupIfEmpty reads the group, and nothing else decides of its deletion.
CheckIfEmpty ==
    /\ hooks["get"] > 0
    /\ hooks' = [h \in Hooks |->
          IF h = "get" THEN hooks[h] - 1
          ELSE IF group.exists /\ group.lists["admins"] = {} THEN hooks[h] + 1 ELSE hooks[h]]
    /\ UNCHANGED <<group, groupCalls, deleted, purges, asked, welcomed>>

\* Mutant: a group that was not found empty is deleted.
DeleteGroupUnasked ==
    /\ hooks' = [hooks EXCEPT !["delete"] = @ - 1]
    /\ group' = [group EXCEPT !.exists = FALSE, !.lists = NoGroup]
    /\ purges' = Stale(purges)
    /\ asked' = {}
    /\ welcomed' = {}
    /\ UNCHANGED <<groupCalls, deleted>>

DeleteGroup ==
    /\ hooks["delete"] > 0
    /\ hooks' = [hooks EXCEPT !["delete"] = @ - 1]
    /\ group' = [group EXCEPT !.exists = FALSE, !.lists = NoGroup]
    /\ purges' = Stale(purges)
    /\ asked' = {}
    /\ welcomed' = {}
    /\ UNCHANGED <<groupCalls, deleted>>

-----------------------------------------------------------------------------
(* The deletion of an account *)

\* softDeleteById
DeleteAccount(u) ==
    /\ u \notin deleted
    /\ deleted' = deleted \cup {u}
    /\ purges' = [purges EXCEPT ![u] = "due"]
    /\ UNCHANGED <<group, groupCalls, hooks, asked, welcomed>>

\* getGroupsWhereUserHasAnyRole
FindGroup(u) ==
    /\ purges[u] = "due"
    /\ purges' = [purges EXCEPT ![u] = IF In(u, Roles) THEN "fresh" ELSE "none"]
    /\ UNCHANGED <<group, groupCalls, deleted, hooks, asked, welcomed>>

\* removeUserFromGroupDoc: the last admin is replaced by the members of longest
\* standing; who they are is a matter of clock that the model leaves open.
WithoutUser(u, seniors) ==
    [r \in Roles |->
        CASE r = "admins" -> (group.lists[r] \ {u}) \cup seniors
          [] r = "members" -> group.lists[r] \ ({u} \cup seniors)
          [] OTHER -> group.lists[r] \ {u}]

Seniors(u, seniors) ==
    LET others == group.lists["members"] \ {u}
    IN  IF group.lists["admins"] \subseteq {u}
        THEN /\ seniors \subseteq others
             /\ IF Cardinality(others) <= Promoted THEN seniors = others
                ELSE Cardinality(seniors) = Promoted
        ELSE seniors = {}

\* Mutant: 'group:leave' is not emitted.
RemoveUserSilently(u) ==
    /\ purges[u] = "fresh"
    /\ \E seniors \in SUBSET Users :
          /\ Seniors(u, seniors)
          /\ group' = [group EXCEPT !.lists = WithoutUser(u, seniors)]
    /\ purges' = Stale([purges EXCEPT ![u] = "none"])
    /\ asked' = asked \ {u}
    /\ welcomed' = welcomed \ {u}
    /\ UNCHANGED <<groupCalls, deleted, hooks>>

RemoveUser(u) ==
    /\ purges[u] = "fresh"
    /\ RoomForHook
    /\ \E seniors \in SUBSET Users :
          /\ Seniors(u, seniors)
          /\ group' = [group EXCEPT !.lists = WithoutUser(u, seniors)]
    /\ hooks' = [hooks EXCEPT !["get"] = @ + 1]
    /\ purges' = Stale([purges EXCEPT ![u] = "none"])
    /\ asked' = asked \ {u}
    /\ welcomed' = welcomed \ {u}
    /\ UNCHANGED <<groupCalls, deleted>>

\* The put answers 409: the user stays in the group.
RemoveUserFails(u) ==
    /\ purges[u] = "stale"
    /\ purges' = [purges EXCEPT ![u] = "none"]
    /\ UNCHANGED <<group, groupCalls, deleted, hooks, asked, welcomed>>

-----------------------------------------------------------------------------
Handle(c) ==
    \/ \E check \in {"author", "second"} : Validate(c, check)
    \/ GroupAction(c)
    \/ GroupActionThrows(c)
    \/ UpdateOpen(c)

Purge(u) == FindGroup(u) \/ RemoveUser(u) \/ RemoveUserFails(u)

Next ==
    \/ \E c \in GroupCalls, action \in Actions, u, v \in Users, check \in {"author", "second"} :
          StartCall(c, action, u, v, check)
    \/ \E c \in GroupCalls : Handle(c)
    \/ CheckIfEmpty
    \/ DeleteGroup
    \/ \E u \in Users : DeleteAccount(u)
    \/ \E u \in Users : Purge(u)

\* The database answers and the process keeps running: what has started ends.
Fairness ==
    /\ \A c \in GroupCalls : WF_vars(Handle(c))
    /\ WF_vars(CheckIfEmpty)
    /\ WF_vars(DeleteGroup)
    /\ \A u \in Users : WF_vars(Purge(u))

Spec == Init /\ [][Next]_vars
FairSpec == Spec /\ Fairness

-----------------------------------------------------------------------------
(* Properties *)

\* Every document, request and counter has its type.
TypeOK ==
    /\ group \in GroupDoc
    /\ groupCalls \in [GroupCalls -> Call \cup {NoGroupCall}]
    /\ deleted \subseteq Users
    /\ purges \in [Users -> Purges]
    /\ hooks \in [Hooks -> Nat]
    /\ asked \subseteq Users
    /\ welcomed \subseteq Users

\* A user is in one list of the group at most, however the requests that add and
\* move memberships interleave.
OneRole == \A r, s \in Roles : r # s => group.lists[r] \cap group.lists[s] = {}

\* Nobody is in the group without having asked or accepted, nor without the group
\* having invited or accepted them (an open group accepts everyone): both, since
\* they were last out of it.
MutualConsent ==
    /\ group.lists["admins"] \cup group.lists["members"] \subseteq asked \cap welcomed
    /\ group.lists["invited"] \cup group.lists["declined"] \subseteq welcomed
    /\ group.lists["requested"] \subseteq asked

\* An admin only loses that role by leaving, by the deletion of the account, or with
\* the group: a kick validated before the promotion does not reach them.
AdminsLeaveByThemselves ==
    [][\A u \in group.lists["admins"] \ group'.lists["admins"] :
          \/ \E c \in GroupCalls : Ready(c) /\ groupCalls[c].action = "leave" /\ groupCalls[c].user = u
          \/ purges[u] = "fresh" /\ purges'[u] = "none"
          \/ ~group'.exists]_vars

\* A group that its last admin leaves is deleted, unless it gets admins again.
EmptyGroupIsDeleted == (group.lists["admins"] = {}) ~> (~group.exists \/ group.lists["admins"] # {})

\* "An admin can't leave a group if there are still members so, if there are no
\* admins, there should be no members too."
NoMembersWithoutAdmin == group.lists["admins"] = {} => group.lists["members"] = {}
=============================================================================
