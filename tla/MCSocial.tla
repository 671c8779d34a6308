------------------------------- MODULE MCSocial -------------------------------
(* Relations, invitations and accounts on the one hand, the membership requests of a *)
(* group on the other hand: a behaviour is one of the two, and leaves the other one  *)
(* at its initial state.                                                             *)
EXTENDS Accounts, MCGroups

VARIABLE subject    \* what a behaviour is about

MCInit ==
    /\ SocialInit /\ Init
    /\ \/ subject = "relations" /\ ~group.open
       \/ subject = "group" /\ regime = "race"

MCNext ==
    /\ subject' = subject
    /\ \/ subject = "relations" /\ SocialNext /\ UNCHANGED vars
       \/ subject = "group" /\ RaceNext /\ UNCHANGED socialVars

MCSpec == MCInit /\ [][MCNext]_<<subject, socialVars, vars>>
=============================================================================
