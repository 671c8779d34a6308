------------------------------ MODULE GroupsProofs ------------------------------
(***************************************************************************)
(* The safety of the memberships of a group, for any users, any number of  *)
(* requests in flight and any number of members promoted.                  *)
(***************************************************************************)
EXTENDS Groups, TLAPS

\* The lists between which each action moves its subject.
Path(call, from, to) ==
    /\ from = "admins" => call.action = "leave" /\ Subject(call) = call.user
    /\ to \in {"admins", "members"} =>
          \/ from = "members"
          \/ from = "requested" /\ call.action \in {"invite", "acceptRequest"}
          \/ from \in {"invited", "declined"} /\ call.action \in {"accept", "request"}
          \/ from = "nowhere" /\ call.action = "request" /\ group.open
    /\ to = "invited" => call.action = "invite"
    /\ to = "declined" => from = "invited"
    /\ to = "requested" => call.action = "request"

\* A membership request that applies takes its subject from one list to another,
\* or adds them to a list when they are in none; nobody else moves.
LEMMA ResultMoves ==
    ASSUME NEW call \in Call, call.action \in MembershipActions, ActionApplies(call), OneRole
    PROVE  \E from, to \in Roles \cup {"nowhere"} :
              /\ Result(call) = Moved(Subject(call), from, to)
              /\ from # to
              /\ \A r \in Roles : Subject(call) \in group.lists[r] <=> r = from
              /\ Path(call, from, to)
  <1> DEFINE u == Subject(call)
  <1>0. /\ call.action \in MembershipActions /\ "nowhere" \notin Roles
        /\ \A r, s \in Roles : r # s => ~(u \in group.lists[r] /\ u \in group.lists[s])
    BY DEF OneRole, Roles
  <1>1. CASE call.action = "invite"
    <2>1. CASE In(u, {"requested"})
      <3>1. u \in group.lists["requested"]
        BY <2>1 DEF In
      <3>2. Result(call) = Moved(u, "requested", "members")
        BY <1>1, <2>1 DEF Result
      <3> QED
        BY <1>0, <1>1, <3>1, <3>2 DEF Roles, Path
    <2>2. CASE ~In(u, {"requested"})
      <3>1. \A r \in Roles : u \notin group.lists[r]
        BY <1>1, <2>2 DEF ActionApplies, In
      <3>2. Result(call) = Moved(u, "nowhere", "invited")
        BY <1>1, <2>2 DEF Result, Added
      <3> QED
        BY <1>0, <1>1, <3>1, <3>2 DEF Roles, Path
    <2> QED
      BY <2>1, <2>2
  <1>2. CASE call.action = "request"
    <2>0. u \notin group.lists["admins"] /\ u \notin group.lists["members"] /\ u \notin group.lists["requested"]
      BY <1>2 DEF ActionApplies, In
    <2>1. CASE In(u, {"invited"})
      <3>1. u \in group.lists["invited"]
        BY <2>1 DEF In
      <3>2. Result(call) = Moved(u, "invited", "members")
        BY <1>2, <2>1 DEF Result
      <3> QED
        BY <1>0, <1>2, <3>1, <3>2 DEF Roles, Path
    <2>2. CASE ~In(u, {"invited"}) /\ In(u, {"declined"})
      <3>1. u \in group.lists["declined"]
        BY <2>2 DEF In
      <3>2. Result(call) = Moved(u, "declined", "members")
        BY <1>2, <2>2 DEF Result
      <3> QED
        BY <1>0, <1>2, <3>1, <3>2 DEF Roles, Path
    <2>3. CASE ~In(u, {"invited"}) /\ ~In(u, {"declined"})
      <3> DEFINE to == IF group.open THEN "members" ELSE "requested"
      <3>1. \A r \in Roles : u \notin group.lists[r]
        BY <2>0, <2>3 DEF In, Roles
      <3>2. Result(call) = Moved(u, "nowhere", to)
        BY <1>2, <2>3 DEF Result, Added
      <3>3. to \in Roles /\ Path(call, "nowhere", to)
        BY <1>2 DEF Roles, Path
      <3> HIDE DEF to
      <3> QED
        BY <1>0, <1>2, <3>1, <3>2, <3>3
    <2> QED
      BY <2>1, <2>2, <2>3
  <1>3. CASE call.action \notin {"invite", "request"}
    <2> DEFINE from == From(call.action, u)
               to == To(call.action)
    <2>1. u \in group.lists[from] /\ Result(call) = Moved(u, from, to)
      BY <1>3 DEF ActionApplies, Result
    <2>2. from \in Roles /\ to \in Roles \cup {"nowhere"} /\ from # to
      BY <1>0, <1>3 DEF From, To, Roles, MembershipActions
    <2>3. Path(call, from, to)
      BY <1>0, <1>3 DEF Path, From, To, MembershipActions, Subject, OnOthers
    <2> HIDE DEF from, to
    <2> QED
      BY <1>0, <2>1, <2>2, <2>3
  <1> QED
    BY <1>1, <1>2, <1>3
-----------------------------------------------------------------------------
(* Types *)

\* The document and the lists after a membership request.
LEMMA MovedType ==
    ASSUME group.lists \in Group, NEW u \in Users, NEW from, NEW to
    PROVE  Moved(u, from, to) \in Group
  <1>1. \A r \in Roles : Moved(u, from, to)[r] \in SUBSET Users
    BY DEF Moved, Group
  <1> QED
    BY <1>1 DEF Moved, Group

LEMMA GroupActionTyped ==
    ASSUME TypeOK, OneRole, NEW c \in GroupCalls, GroupAction(c)
    PROVE  TypeOK'
  <1> DEFINE call == groupCalls[c]
             u == Subject(call)
  <1>1. call \in Call /\ call.action \in MembershipActions /\ ActionApplies(call)
    BY DEF GroupAction, Ready, TypeOK
  <1>2. u \in Users
    BY <1>1 DEF Subject, Call
  <1>3. group.lists \in Group
    BY DEF TypeOK, GroupDoc
  <1>4. Result(call) \in Group
    BY <1>1, <1>2, <1>3, ResultMoves, MovedType
  <1>5. group' \in GroupDoc
    BY <1>4 DEF GroupAction, TypeOK, GroupDoc
  <1>6. groupCalls' \in [GroupCalls -> Call \cup {NoGroupCall}]
    BY DEF GroupAction, TypeOK
  <1>7. purges' \in [Users -> Purges]
    BY DEF GroupAction, TypeOK, Stale, Purges
  <1>8. hooks' \in [Hooks -> Nat]
    BY DEF GroupAction, TypeOK, Hooks
  <1>9. asked' \subseteq Users /\ welcomed' \subseteq Users
    BY <1>2 DEF GroupAction, Consents, TypeOK
  <1> QED
    BY <1>5, <1>6, <1>7, <1>8, <1>9 DEF GroupAction, TypeOK

LEMMA RemoveUserTyped ==
    ASSUME TypeOK, NEW v \in Users, RemoveUser(v)
    PROVE  TypeOK'
  <1>1. PICK seniors \in SUBSET Users : group' = [group EXCEPT !.lists = WithoutUser(v, seniors)]
    BY DEF RemoveUser
  <1>2. group.lists \in Group
    BY DEF TypeOK, GroupDoc
  <1>3. WithoutUser(v, seniors) \in Group
    <2>1. \A r \in Roles : WithoutUser(v, seniors)[r] \in SUBSET Users
      BY <1>2 DEF WithoutUser, Group
    <2> QED
      BY <2>1 DEF WithoutUser, Group
  <1>4. group' \in GroupDoc
    BY <1>1, <1>3 DEF TypeOK, GroupDoc
  <1>5. purges' \in [Users -> Purges]
    BY DEF RemoveUser, TypeOK, Stale, Purges
  <1>6. hooks' \in [Hooks -> Nat]
    BY DEF RemoveUser, TypeOK, Hooks
  <1>7. asked' \subseteq Users /\ welcomed' \subseteq Users
    BY DEF RemoveUser, TypeOK
  <1> QED
    BY <1>4, <1>5, <1>6, <1>7 DEF RemoveUser, TypeOK

\* Every step keeps the types.
LEMMA Typed ==
    ASSUME TypeOK, OneRole, [Next]_vars
    PROVE  TypeOK'
  <1>1. ASSUME NEW c \in GroupCalls, NEW action \in Actions, NEW u \in Users, NEW v \in Users,
               NEW check \in {"author", "second"}, StartCall(c, action, u, v, check)
        PROVE  TypeOK'
    <2>1. Checks(action) \ {check} \in SUBSET {"author", "second"}
      BY DEF Checks
    <2> HIDE DEF Checks
    <2>2. [action |-> action, user |-> u, target |-> v, checks |-> Checks(action) \ {check}] \in Call
      BY <2>1 DEF Call
    <2> QED
      BY <1>1, <2>2 DEF StartCall, TypeOK
  <1>2. ASSUME NEW c \in GroupCalls, NEW check \in {"author", "second"}, Validate(c, check)
        PROVE  TypeOK'
    <2>1. groupCalls[c] \in Call
      BY <1>2 DEF Validate, TypeOK
    <2>2. [groupCalls[c] EXCEPT !.checks = @ \ {check}] \in Call
      BY <2>1 DEF Call
    <2> QED
      BY <1>2, <2>2 DEF Validate, TypeOK
  <1>3. ASSUME NEW c \in GroupCalls, GroupAction(c) PROVE TypeOK'
    BY <1>3, GroupActionTyped
  <1>4. ASSUME NEW c \in GroupCalls, GroupActionThrows(c) PROVE TypeOK'
    BY <1>4 DEF GroupActionThrows, TypeOK
  <1>5. ASSUME NEW c \in GroupCalls, UpdateOpen(c) PROVE TypeOK'
    <2>1. group' \in GroupDoc
      BY <1>5 DEF UpdateOpen, TypeOK, GroupDoc
    <2>2. purges' \in [Users -> Purges]
      BY <1>5 DEF UpdateOpen, TypeOK, Stale, Purges
    <2> QED
      BY <1>5, <2>1, <2>2 DEF UpdateOpen, TypeOK
  <1>6. CASE CheckIfEmpty
    <2>1. hooks' \in [Hooks -> Nat]
      BY <1>6 DEF CheckIfEmpty, TypeOK, Hooks
    <2> QED
      BY <1>6, <2>1 DEF CheckIfEmpty, TypeOK
  <1>7. CASE DeleteGroup
    <2>1. NoGroup \in Group
      BY DEF NoGroup, Group
    <2>2. group' \in GroupDoc
      BY <1>7, <2>1 DEF DeleteGroup, TypeOK, GroupDoc
    <2>3. purges' \in [Users -> Purges]
      BY <1>7 DEF DeleteGroup, TypeOK, Stale, Purges
    <2>4. hooks' \in [Hooks -> Nat]
      BY <1>7 DEF DeleteGroup, TypeOK, Hooks
    <2> QED
      BY <1>7, <2>2, <2>3, <2>4 DEF DeleteGroup, TypeOK
  <1>8. ASSUME NEW u \in Users, DeleteAccount(u) PROVE TypeOK'
    BY <1>8 DEF DeleteAccount, TypeOK, Purges
  <1>9. ASSUME NEW u \in Users, FindGroup(u) PROVE TypeOK'
    BY <1>9 DEF FindGroup, TypeOK, Purges
  <1>10. ASSUME NEW u \in Users, RemoveUser(u) PROVE TypeOK'
    BY <1>10, RemoveUserTyped
  <1>11. ASSUME NEW u \in Users, RemoveUserFails(u) PROVE TypeOK'
    BY <1>11 DEF RemoveUserFails, TypeOK, Purges
  <1>12. CASE UNCHANGED vars
    BY <1>12 DEF vars, TypeOK
  <1> QED
    BY <1>1, <1>2, <1>3, <1>4, <1>5, <1>6, <1>7, <1>8, <1>9, <1>10, <1>11, <1>12
       DEF Next, Handle, Purge

-----------------------------------------------------------------------------
(* One role *)

LEMMA GroupActionOneRole ==
    ASSUME TypeOK, OneRole, NEW c \in GroupCalls, GroupAction(c)
    PROVE  OneRole'
  <1> DEFINE call == groupCalls[c]
             u == Subject(call)
  <1>1. call \in Call /\ call.action \in MembershipActions /\ ActionApplies(call)
    BY DEF GroupAction, Ready, TypeOK
  <1>2. PICK from, to \in Roles \cup {"nowhere"} :
           /\ Result(call) = Moved(u, from, to)
           /\ from # to
           /\ \A r \in Roles : u \in group.lists[r] <=> r = from
    BY <1>1, ResultMoves
  <1>3. group'.lists = Moved(u, from, to)
    BY <1>2 DEF GroupAction, TypeOK, GroupDoc
  <1>4. \A r \in Roles : group'.lists[r] =
              IF r = to THEN group.lists[r] \cup {u}
              ELSE IF r = from THEN group.lists[r] \ {u} ELSE group.lists[r]
    BY <1>3 DEF Moved
  <1> HIDE DEF u
  <1>5. ASSUME NEW r \in Roles, NEW s \in Roles, r # s
        PROVE  group'.lists[r] \cap group'.lists[s] = {}
    <2>1. group.lists[r] \cap group.lists[s] = {}
      BY <1>5 DEF OneRole
    <2> QED
      BY <1>2, <1>4, <1>5, <2>1
  <1> QED
    BY <1>5 DEF OneRole

LEMMA RemoveUserOneRole ==
    ASSUME TypeOK, OneRole, NEW v \in Users, RemoveUser(v)
    PROVE  OneRole'
  <1>1. PICK seniors \in SUBSET Users :
           Seniors(v, seniors) /\ group' = [group EXCEPT !.lists = WithoutUser(v, seniors)]
    BY DEF RemoveUser
  <1>2. seniors \subseteq group.lists["members"] \ {v}
    BY <1>1 DEF Seniors
  <1>3. group'.lists = WithoutUser(v, seniors)
    BY <1>1 DEF TypeOK, GroupDoc
  <1>4. ASSUME NEW r \in Roles, NEW s \in Roles, r # s
        PROVE  group'.lists[r] \cap group'.lists[s] = {}
    <2>1. /\ group.lists[r] \cap group.lists[s] = {}
          /\ r # "members" => group.lists[r] \cap group.lists["members"] = {}
          /\ s # "members" => group.lists[s] \cap group.lists["members"] = {}
      BY <1>4 DEF OneRole, Roles
    <2> QED
      BY <1>2, <1>3, <1>4, <2>1 DEF WithoutUser
  <1> QED
    BY <1>4 DEF OneRole

LEMMA OneRoleKept ==
    ASSUME TypeOK, OneRole, [Next]_vars
    PROVE  OneRole'
  <1>1. ASSUME NEW c \in GroupCalls, GroupAction(c) PROVE OneRole'
    BY <1>1, GroupActionOneRole
  <1>2. ASSUME NEW u \in Users, RemoveUser(u) PROVE OneRole'
    BY <1>2, RemoveUserOneRole
  <1>3. ASSUME NEW c \in GroupCalls, UpdateOpen(c) PROVE OneRole'
    BY <1>3 DEF UpdateOpen, TypeOK, GroupDoc, OneRole
  <1>4. CASE DeleteGroup
    <2>1. group'.lists = NoGroup
      BY <1>4 DEF DeleteGroup, TypeOK, GroupDoc
    <2> QED
      BY <2>1 DEF NoGroup, OneRole
  <1>5. CASE UNCHANGED group
    BY <1>5 DEF OneRole
  <1> QED
    BY <1>1, <1>2, <1>3, <1>4, <1>5
       DEF Next, Handle, Purge, vars, StartCall, Validate, GroupActionThrows, CheckIfEmpty,
           DeleteAccount, FindGroup, RemoveUserFails

LEMMA Start == Init => TypeOK /\ OneRole
  <1> SUFFICES ASSUME Init PROVE TypeOK /\ OneRole
    OBVIOUS
  <1>1. PICK creator \in Users :
           /\ group \in [exists : {TRUE}, open : BOOLEAN,
                        lists : {[r \in Roles |-> IF r = "admins" THEN {creator} ELSE {}]}]
           /\ asked = {creator}
           /\ welcomed = {creator}
    BY DEF Init
  <1>2. group.lists = [r \in Roles |-> IF r = "admins" THEN {creator} ELSE {}]
    BY <1>1
  <1>3. group.lists \in Group
    BY <1>2 DEF Group
  <1>4. group \in GroupDoc
    BY <1>1, <1>3 DEF GroupDoc
  <1>5. /\ groupCalls \in [GroupCalls -> Call \cup {NoGroupCall}]
        /\ deleted \subseteq Users
        /\ purges \in [Users -> Purges]
        /\ hooks \in [Hooks -> Nat]
    BY DEF Init, Purges
  <1>6. TypeOK
    BY <1>1, <1>4, <1>5 DEF TypeOK
  <1>7. OneRole
    BY <1>2 DEF OneRole
  <1> QED
    BY <1>6, <1>7

\* The model keeps its types, and no user is ever in two lists of a group: every
\* action that adds a membership looks through all of them on the copy it writes.
THEOREM SingleRole == Spec => [](TypeOK /\ OneRole)
  <1>1. Init => TypeOK /\ OneRole
    BY Start
  <1>2. TypeOK /\ OneRole /\ [Next]_vars => (TypeOK /\ OneRole)'
    BY Typed, OneRoleKept
  <1> QED
    BY <1>1, <1>2, PTL DEF Spec

\* Whatever requests, deletions of accounts and listeners do, the lists of the group, the
\* calls and the clean-ups in flight are of the types the code gives them.
THEOREM Typing == Spec => []TypeOK
  BY SingleRole, PTL

-----------------------------------------------------------------------------
(* Consent *)

LEMMA GroupActionConsent ==
    ASSUME TypeOK, OneRole, MutualConsent, NEW c \in GroupCalls, GroupAction(c)
    PROVE  MutualConsent'
  <1> DEFINE call == groupCalls[c]
             u == Subject(call)
             lists == Result(call)
  <1>1. call \in Call /\ call.action \in MembershipActions /\ ActionApplies(call)
    BY DEF GroupAction, Ready, TypeOK
  <1>2. PICK from, to \in Roles \cup {"nowhere"} :
           /\ lists = Moved(u, from, to)
           /\ from # to
           /\ \A r \in Roles : u \in group.lists[r] <=> r = from
           /\ Path(call, from, to)
    BY <1>1, ResultMoves
  <1>3. group'.lists = lists
    BY DEF GroupAction, TypeOK, GroupDoc
  <1>4. \A r \in Roles : lists[r] =
              IF r = to THEN group.lists[r] \cup {u}
              ELSE IF r = from THEN group.lists[r] \ {u} ELSE group.lists[r]
    BY <1>2 DEF Moved
  <1>5. Consents(call, lists)
    BY DEF GroupAction
  <1>6. asked \ {u} \subseteq asked' /\ welcomed \ {u} \subseteq welcomed'
    BY <1>5 DEF Consents
  <1> HIDE DEF lists, u
  <1>7. /\ to \in {"admins", "members"} => u \in asked' /\ u \in welcomed'
        /\ to \in {"invited", "declined"} => u \in welcomed'
        /\ to = "requested" => u \in asked'
    <2>1. CASE to \in Roles
      <3>1. ~(\A r \in Roles : u \notin lists[r])
        BY <1>4, <2>1
      <3>2. /\ asked' = IF call.action \in {"accept", "request"} THEN asked \cup {u} ELSE asked
            /\ welcomed' = IF \/ call.action \in {"invite", "acceptRequest"}
                              \/ call.action = "request" /\ group.open
                           THEN welcomed \cup {u} ELSE welcomed
        BY <1>5, <3>1 DEF Consents, u
      <3>3. /\ from \in {"admins", "members"} => u \in asked /\ u \in welcomed
            /\ from \in {"invited", "declined"} => u \in welcomed
            /\ from = "requested" => u \in asked
        BY <1>2 DEF MutualConsent, Roles
      <3> QED
        BY <1>2, <3>2, <3>3 DEF Path
    <2> QED
      BY <2>1 DEF Roles
  <1>8. /\ \A w \in lists["admins"] \cup lists["members"] : w \in asked' /\ w \in welcomed'
        /\ \A w \in lists["invited"] \cup lists["declined"] : w \in welcomed'
        /\ \A w \in lists["requested"] : w \in asked'
    <2>1. \A r \in Roles : \A w \in lists[r] :
             (r = to /\ w = u) \/ (w # u /\ w \in group.lists[r])
      BY <1>2, <1>4
    <2> QED
      BY <1>6, <1>7, <2>1 DEF MutualConsent, Roles
  <1> QED
    BY <1>3, <1>8 DEF MutualConsent

LEMMA RemoveUserConsent ==
    ASSUME TypeOK, MutualConsent, NEW v \in Users, RemoveUser(v)
    PROVE  MutualConsent'
  <1>1. PICK seniors \in SUBSET Users :
           Seniors(v, seniors) /\ group' = [group EXCEPT !.lists = WithoutUser(v, seniors)]
    BY DEF RemoveUser
  <1>2. seniors \subseteq group.lists["members"] \ {v}
    BY <1>1 DEF Seniors
  <1>3. group'.lists = WithoutUser(v, seniors)
    BY <1>1 DEF TypeOK, GroupDoc
  <1>4. /\ group'.lists["admins"] \subseteq (group.lists["admins"] \cup group.lists["members"]) \ {v}
        /\ group'.lists["members"] \subseteq group.lists["members"] \ {v}
        /\ \A r \in {"invited", "declined", "requested"} : group'.lists[r] = group.lists[r] \ {v}
    BY <1>2, <1>3 DEF WithoutUser, Roles
  <1>5. asked' = asked \ {v} /\ welcomed' = welcomed \ {v}
    BY DEF RemoveUser
  <1> QED
    BY <1>4, <1>5 DEF MutualConsent

LEMMA ConsentKept ==
    ASSUME TypeOK, OneRole, MutualConsent, [Next]_vars
    PROVE  MutualConsent'
  <1>1. ASSUME NEW c \in GroupCalls, GroupAction(c) PROVE MutualConsent'
    BY <1>1, GroupActionConsent
  <1>2. ASSUME NEW u \in Users, RemoveUser(u) PROVE MutualConsent'
    BY <1>2, RemoveUserConsent
  <1>3. ASSUME NEW c \in GroupCalls, UpdateOpen(c) PROVE MutualConsent'
    BY <1>3 DEF UpdateOpen, TypeOK, GroupDoc, MutualConsent
  <1>4. CASE DeleteGroup
    <2>1. group'.lists = NoGroup
      BY <1>4 DEF DeleteGroup, TypeOK, GroupDoc
    <2> QED
      BY <2>1 DEF NoGroup, MutualConsent, Roles
  <1>5. CASE UNCHANGED <<group, asked, welcomed>>
    BY <1>5 DEF MutualConsent
  <1> QED
    BY <1>1, <1>2, <1>3, <1>4, <1>5
       DEF Next, Handle, Purge, vars, StartCall, Validate, GroupActionThrows, CheckIfEmpty,
           DeleteAccount, FindGroup, RemoveUserFails

LEMMA StartConsent == Init => MutualConsent
  BY DEF Init, MutualConsent, Roles

\* Nobody is in a group that did not want them, or without wanting it, whatever
\* changed between the validation of a request and its action.
THEOREM ConsentIsMutual == Spec => []MutualConsent
  <1>1. Init => MutualConsent
    BY StartConsent
  <1>2. TypeOK /\ OneRole /\ MutualConsent /\ [Next]_vars => MutualConsent'
    BY ConsentKept
  <1> QED
    BY <1>1, <1>2, SingleRole, PTL DEF Spec

-----------------------------------------------------------------------------
(* Admins *)

LEMMA GroupActionAdmins ==
    ASSUME TypeOK, OneRole, NEW c \in GroupCalls, GroupAction(c),
           NEW v \in group.lists["admins"] \ group'.lists["admins"]
    PROVE  Ready(c) /\ groupCalls[c].action = "leave" /\ groupCalls[c].user = v
  <1> DEFINE call == groupCalls[c]
             u == Subject(call)
  <1>1. call \in Call /\ call.action \in MembershipActions /\ ActionApplies(call) /\ Ready(c)
    BY DEF GroupAction, Ready, TypeOK
  <1>2. PICK from, to \in Roles \cup {"nowhere"} :
           /\ Result(call) = Moved(u, from, to)
           /\ from # to
           /\ Path(call, from, to)
    BY <1>1, ResultMoves
  <1>3. group'.lists = Moved(u, from, to)
    BY <1>2 DEF GroupAction, TypeOK, GroupDoc
  <1> HIDE DEF u
  <1>4. from = "admins" /\ v = u
    BY <1>3 DEF Moved, Roles
  <1> QED
    BY <1>1, <1>2, <1>4 DEF Path, u

LEMMA AdminsStep ==
    ASSUME TypeOK, OneRole, [Next]_vars
    PROVE  [\A u \in group.lists["admins"] \ group'.lists["admins"] :
              \/ \E c \in GroupCalls : Ready(c) /\ groupCalls[c].action = "leave" /\ groupCalls[c].user = u
              \/ purges[u] = "fresh" /\ purges'[u] = "none"
              \/ ~group'.exists]_vars
  <1> SUFFICES ASSUME NEW u \in group.lists["admins"] \ group'.lists["admins"]
               PROVE  \/ \E c \in GroupCalls : Ready(c) /\ groupCalls[c].action = "leave" /\ groupCalls[c].user = u
                      \/ purges[u] = "fresh" /\ purges'[u] = "none"
                      \/ ~group'.exists
    OBVIOUS
  <1>1. ASSUME NEW c \in GroupCalls, GroupAction(c)
        PROVE  Ready(c) /\ groupCalls[c].action = "leave" /\ groupCalls[c].user = u
    BY <1>1, GroupActionAdmins
  <1>2. ASSUME NEW v \in Users, RemoveUser(v)
        PROVE  purges[u] = "fresh" /\ purges'[u] = "none"
    <2>1. PICK seniors \in SUBSET Users : group' = [group EXCEPT !.lists = WithoutUser(v, seniors)]
      BY <1>2 DEF RemoveUser
    <2>2. group'.lists = WithoutUser(v, seniors)
      BY <2>1 DEF TypeOK, GroupDoc
    <2>3. u = v
      BY <2>2 DEF WithoutUser, Roles
    <2>4. purges'[v] = "none"
      BY <1>2 DEF RemoveUser, Stale, TypeOK
    <2> QED
      BY <1>2, <2>3, <2>4 DEF RemoveUser
  <1>3. ASSUME NEW c \in GroupCalls, UpdateOpen(c) PROVE FALSE
    BY <1>3 DEF UpdateOpen, TypeOK, GroupDoc
  <1>4. CASE DeleteGroup
    BY <1>4 DEF DeleteGroup, TypeOK, GroupDoc
  <1>5. CASE UNCHANGED group
    BY <1>5
  <1> QED
    BY <1>1, <1>2, <1>3, <1>4, <1>5
       DEF Next, Handle, Purge, vars, StartCall, Validate, GroupActionThrows, CheckIfEmpty,
           DeleteAccount, FindGroup, RemoveUserFails

\* No request of others makes an admin lose that role.
THEOREM AdminsAreSafe == Spec => AdminsLeaveByThemselves
  <1>1. TypeOK /\ OneRole /\ [Next]_vars =>
           [\A u \in group.lists["admins"] \ group'.lists["admins"] :
              \/ \E c \in GroupCalls : Ready(c) /\ groupCalls[c].action = "leave" /\ groupCalls[c].user = u
              \/ purges[u] = "fresh" /\ purges'[u] = "none"
              \/ ~group'.exists]_vars
    BY AdminsStep
  <1> QED
    BY <1>1, SingleRole, PTL DEF Spec, AdminsLeaveByThemselves
=============================================================================
