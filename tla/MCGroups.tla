------------------------------- MODULE MCGroups -------------------------------
(* Small instances of Groups for TLC. *)
EXTENDS Groups, TLC

Symmetric == Permutations(Users) \cup Permutations(GroupCalls)

\* The workload of the runs about races between membership requests: no settings,
\* no deleted accounts.
RaceNext ==
    \/ \E c \in GroupCalls, action \in MembershipActions, u, v \in Users, check \in {"author", "second"} :
          StartCall(c, action, u, v, check)
    \/ \E c \in GroupCalls : Handle(c)
    \/ CheckIfEmpty
    \/ DeleteGroup

RaceSpec == Init /\ [][RaceNext]_vars

\* The workload of the run about the end of a group: the requests that make it grow
\* and shrink, one at a time, its setting and the deletion of accounts.
LifeNext ==
    \/ \E c \in GroupCalls, action \in {"request", "makeAdmin", "leave", "updateSettings"}, u, v \in Users,
          check \in {"author", "second"} : StartCall(c, action, u, v, check)
    \/ \E c \in GroupCalls : Handle(c)
    \/ \E u \in Users : DeleteAccount(u) \/ Purge(u)
    \/ CheckIfEmpty
    \/ DeleteGroup

LifeSpec == Init /\ [][LifeNext]_vars /\ Fairness
=============================================================================
