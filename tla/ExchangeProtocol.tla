---------------------------- MODULE ExchangeProtocol ----------------------------
(***************************************************************************)
(* What the exchange of items promises to the users, with every decision   *)
(* taken in one step: who has an item, the deals about it, and the         *)
(* transfers that confirmed deals still owe.  Transactions, handling one   *)
(* request at a time, implements this specification.                       *)
(***************************************************************************)
CONSTANTS Users, Items, Deals, None

VARIABLES
    custody,    \* the owner of each item, None once it is deleted
    deal,       \* the deals: item, owner, requester, kind and state
    owed        \* the deals confirmed whose item is still to move

vars == <<custody, deal, owed>>

Kinds == {"giving", "lending", "selling"}
Init == custody \in [Items -> Users] /\ deal = [d \in Deals |-> None] /\ owed = {}

Made(d) == deal[d] # None

\* The deals that hold item i: agreed and not yet handed over, or lent and not yet
\* returned.
Holders(i) ==
    {d \in Deals : /\ Made(d)
                   /\ deal[d].item = i
                   /\ \/ deal[d].state = "accepted"
                      \/ deal[d].state = "confirmed" /\ deal[d].kind = "lending"}

Open(d) == deal[d].state \in {"requested", "accepted"} \/ d \in Holders(deal[d].item)

\* One asks for an item that is free, once, and never for one's own.
Ask(d, i, o, r, k) ==
    /\ ~Made(d)
    /\ o # r
    /\ Holders(i) = {}
    /\ \A e \in Deals : Made(e) /\ deal[e].item = i /\ r \in {deal[e].owner, deal[e].requester}
                         => ~Open(e)
    /\ deal' = [deal EXCEPT ![d] =
          [item |-> i, owner |-> o, requester |-> r, kind |-> k, state |-> "requested"]]
    /\ UNCHANGED <<custody, owed>>

Becomes(d, s) == deal' = [deal EXCEPT ![d].state = s]

Accept(d) ==
    /\ deal[d].state = "requested"
    /\ Holders(deal[d].item) = {}
    /\ Becomes(d, "accepted")
    /\ UNCHANGED <<custody, owed>>

Decline(d) == deal[d].state = "requested" /\ Becomes(d, "declined") /\ UNCHANGED <<custody, owed>>

\* The reception of an item given or sold makes a transfer owed.
Confirm(d) ==
    /\ deal[d].state = "accepted"
    /\ Becomes(d, "confirmed")
    /\ owed' = IF deal[d].kind = "lending" THEN owed ELSE owed \cup {d}
    /\ UNCHANGED custody

Return(d) ==
    /\ deal[d].state = "confirmed"
    /\ deal[d].kind = "lending"
    /\ Becomes(d, "returned")
    /\ UNCHANGED <<custody, owed>>

\* Either party may leave, up to and after the reception.
Cancel(d) ==
    /\ deal[d].state \in {"requested", "accepted", "confirmed"}
    /\ Becomes(d, "cancelled")
    /\ UNCHANGED <<custody, owed>>

\* An item moves from the owner of a deal that owes it to its requester, once.
Transfer(d) ==
    /\ d \in owed
    /\ custody[deal[d].item] = deal[d].owner
    /\ custody' = [custody EXCEPT ![deal[d].item] = deal[d].requester]
    /\ owed' = owed \ {d}
    /\ UNCHANGED deal

\* A transfer may fail, and is then never made.
Fail(d) == d \in owed /\ owed' = owed \ {d} /\ UNCHANGED <<custody, deal>>

Remove(i) ==
    /\ custody[i] # None
    /\ custody' = [custody EXCEPT ![i] = None]
    /\ UNCHANGED <<deal, owed>>

Next ==
    \/ \E d \in Deals, i \in Items, o, r \in Users, k \in Kinds : Ask(d, i, o, r, k)
    \/ \E d \in Deals : /\ Made(d)
                        /\ \/ Accept(d) \/ Decline(d) \/ Confirm(d) \/ Return(d) \/ Cancel(d)
                           \/ Transfer(d) \/ Fail(d)
    \/ \E i \in Items : Remove(i)

Spec == Init /\ [][Next]_vars
=============================================================================
