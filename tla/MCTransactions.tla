----------------------------- MODULE MCTransactions -----------------------------
(* Small instances of Transactions for TLC. *)
EXTENDS Transactions, TLC

\* Transactions and call slots are interchangeable, and so are users: no property
\* of the safety runs tells them apart.
Symmetric == Permutations(Users) \cup Permutations(TransactionIds) \cup Permutations(Calls)

\* The workload of the runs about races: items to give, given again by those who
\* received them; no messages (they only touch the read states).
RaceInit == Init /\ \A i \in Items : items[i].transaction = "giving" /\ items[i].visibility = "shared"

RaceNext ==
    \/ \E c \in Calls : Request(c) \/ Update(c) \/ CancelAll(c)
    \/ \E m \in moves : ChangeItemOwner(m)
    \/ \E u \in Users, i \in Items : items[i].visibility = "private" /\ EditItem(u, i, "giving", "shared")

RaceSpec == RaceInit /\ [][RaceNext]_vars

\* The workload of the serial runs: two users talk about the first request only,
\* until it is answered, and everything else happens at any time.
Talk ==
    \E t \in TransactionIds :
        /\ Exists(t) /\ transactions[t].state = "requested"
        /\ \A s \in TransactionIds \ {t} : ~Exists(s)
        /\ \E u \in Users : MarkAsRead(u, t) \/ \E c \in Calls : StartMessage(c, u, t)

SerialNext ==
    \/ \E c \in Calls : Request(c) \/ Update(c) \/ CancelAll(c) \/ PostMessage(c)
                        \/ UpdateReadForNewMessage(c)
    \/ Talk
    \/ \E m \in moves : ChangeItemOwner(m)
    \/ OwnerWrites

SerialSpec == Init /\ [][SerialNext]_vars
=============================================================================
