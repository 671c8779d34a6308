------------------------------- MODULE Visibility -------------------------------
(* Who sees a document (lib/visibility). Two ways of deciding: the views are queried *)
(* with the keys that the owner allows to the reader, and documents found otherwise  *)
(* are filtered one by one. Both read the friends and the groups as they are now,    *)
(* and the keys of the document as they were when it was written.                    *)
EXTENDS Naturals, FiniteSets

CONSTANTS Owners, Viewers, Circles, Anonymous, MaxChanges
People == Owners \cup Viewers
Keywords == {"public", "friends", "groups"}
ASSUME KeysAssumption == Circles \cap (Keywords \cup {"private"}) = {} /\ Anonymous \notin People

VARIABLES
    visibility,     \* [Owners -> the keys of a document of theirs: keywords, groups]
    members,        \* [Circles -> members and admins of each group, {} once deleted]
    friendships,    \* set of pairs {u, v}
    changes

vvars == <<visibility, members, friendships, changes>>

VisibilityInit ==
    /\ visibility = [u \in Owners |-> {}]
    /\ members = [g \in Circles |-> {}]
    /\ friendships = {}
    /\ changes = 0

GetGroupsIds(u) == {g \in Circles : u \in members[g]}
AreFriends(u, v) == {u, v} \in friendships
GetSharedGroupsIds(u, v) == GetGroupsIds(u) \cap GetGroupsIds(v)
GetUserGroupsCoMembers(u) == (UNION {members[g] : g \in GetGroupsIds(u)}) \ {u}

\* A mutant: the key 'groups' is never allowed.
GetAllowedVisibilityKeysByGroup(owner, reader) ==
    IF owner = reader THEN {"private"}
    ELSE {"public"} \cup {key \in {"friends"} : reader # Anonymous /\ AreFriends(owner, reader)}
                    \cup (IF reader = Anonymous THEN {} ELSE GetSharedGroupsIds(owner, reader))

\* The keys under which the documents of a user can be asked for by a reader. Every
\* document is in the views under the key 'private' too.
GetAllowedVisibilityKeys(owner, reader) ==
    IF owner = reader THEN {"private"}
    ELSE IF reader = Anonymous THEN {"public"}
    ELSE {"public"} \cup {key \in {"friends"} : AreFriends(owner, reader)}
                    \cup {key \in {"groups"} : GetSharedGroupsIds(owner, reader) # {}}
                    \cup GetSharedGroupsIds(owner, reader)

InViews(owner, reader) == (visibility[owner] \cup {"private"}) \cap GetAllowedVisibilityKeys(owner, reader) # {}

\* filterVisibleDocs looks for the reader in the groups of the keys, and not for the
\* owner; on the key of a deleted group it throws, whatever the other documents are.
GroupKeys(keys) == keys \cap Circles
IsVisible(owner, reader) ==
    \/ owner = reader
    \/ "public" \in visibility[owner]
    \/ reader # Anonymous /\ \/ "groups" \in visibility[owner] /\ owner \in GetUserGroupsCoMembers(reader)
                             \/ "friends" \in visibility[owner] /\ AreFriends(owner, reader)
                             \/ \E g \in GroupKeys(visibility[owner]) : reader \in members[g]

\* validateVisibilityKeys: the groups of the keys are groups of the owner.
Changing == changes < MaxChanges /\ changes' = changes + 1

SetVisibility(u, keys) ==
    /\ Changing
    /\ GroupKeys(keys) \subseteq GetGroupsIds(u)
    /\ visibility' = [visibility EXCEPT ![u] = keys]
    /\ UNCHANGED <<members, friendships>>

\* Memberships and friendships change beside (modules Groups and Relations): a group
\* begins with its creator and is deleted with its last member.
JoinGroup(u, g) ==
    /\ Changing
    /\ u \notin members[g]
    /\ members' = [members EXCEPT ![g] = @ \cup {u}]
    /\ UNCHANGED <<visibility, friendships>>

LeaveGroup(u, g) ==
    /\ Changing
    /\ u \in members[g]
    /\ members' = [members EXCEPT ![g] = @ \ {u}]
    /\ UNCHANGED <<visibility, friendships>>

UpdateFriendship(u, v) ==
    /\ Changing
    /\ u # v
    /\ friendships' = IF AreFriends(u, v) THEN friendships \ {{u, v}} ELSE friendships \cup {{u, v}}
    /\ UNCHANGED <<visibility, members>>

VisibilityNext ==
    \/ \E u \in Owners, keys \in SUBSET (Keywords \cup Circles) : SetVisibility(u, keys)
    \/ \E u \in People, g \in Circles : JoinGroup(u, g) \/ LeaveGroup(u, g)
    \/ \E u, v \in People : UpdateFriendship(u, v)

VisibilitySpec == VisibilityInit /\ [][VisibilityNext]_vvars

-----------------------------------------------------------------------------

\* A document is found by a query of its owner's documents exactly when it passes the
\* filter, whatever the memberships and the friendships have become, as long as its
\* owner has not left a group of its keys.
ViewsAgreeWithFilter ==
    \A owner \in Owners, reader \in People \cup {Anonymous} :
        GroupKeys(visibility[owner]) \subseteq GetGroupsIds(owner)
            => (InViews(owner, reader) <=> IsVisible(owner, reader))
=============================================================================
