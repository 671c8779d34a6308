------------------------------ MODULE OrderedLists ------------------------------
(* What the lists of inventaire promise: sequences of elements, each an entity with *)
(* an identity of its own, to which one appends, from which one removes, and where   *)
(* an element can be moved to a position. No ordinals here.                          *)
EXTENDS Naturals, Sequences, SequencesExt

CONSTANTS Lists, Uris, Ids

VARIABLES
    content,        \* [Lists -> sequences of [id, uri]]
    asked           \* the position that the last request asked for, or 0

Has(s, uri) == \E i \in DOMAIN s : s[i].uri = uri

Begin == content = [l \in Lists |-> <<>>] /\ asked = 0

\* Each operator relates the lists c before a request to the lists d after it.

\* The uris that the list does not have yet come at its end, in the order given.
Appended(c, d, l, uris) ==
    LET new == SelectSeq(uris, LAMBDA x : ~Has(c[l], x))
    IN \E ids \in [DOMAIN new -> Ids] :
         d = [c EXCEPT ![l] = @ \o [i \in DOMAIN new |-> [id |-> ids[i], uri |-> new[i]]]]

\* One element of each of these entities goes, the others keep their order.
Dropped(c, d, l, uris) ==
    \E gone \in SUBSET {i \in DOMAIN c[l] : c[l][i].uri \in uris} :
        /\ \A uri \in uris : Has(c[l], uri) => \E i \in gone : c[l][i].uri = uri
        /\ \A i, j \in gone : c[l][i].uri = c[l][j].uri => i = j
        /\ d = [c EXCEPT ![l] = FoldLeftDomain(LAMBDA s, i : IF i \in gone THEN s ELSE Append(s, @[i]), <<>>, @)]

\* The i-th element takes the k-th place, or the last one when there are less.
Moved(c, d, l, i, position) ==
    LET k == IF position > Len(c[l]) THEN Len(c[l]) ELSE position
    IN d = [c EXCEPT ![l] = InsertAt(RemoveAt(@, i), k, @[i])]

\* An element goes to the end of another list, which does not have its entity.
Transferred(c, d, l, i, m) ==
    /\ m # l /\ ~Has(c[m], c[l][i].uri)
    /\ d = [c EXCEPT ![l] = RemoveAt(@, i), ![m] = Append(@, c[l][i])]

\* Lists are deleted, and their elements with them.
Cleared(c, d, ls) == d = [l \in Lists |-> IF l \in ls THEN <<>> ELSE c[l]]

\* An entity is merged into another one, and its elements follow it where they are.
Substituted(c, d, from, to) ==
    d = [l \in Lists |-> [i \in DOMAIN c[l] |->
           IF c[l][i].uri = from THEN [c[l][i] EXCEPT !.uri = to] ELSE c[l][i]]]

Evolves(c, d, k) ==
    \/ \E l \in Lists : \E x, y \in Uris : Appended(c, d, l, <<x>>) \/ (x # y /\ Appended(c, d, l, <<x, y>>))
    \/ \E l \in Lists : \E uris \in SUBSET Uris : Dropped(c, d, l, uris)
    \/ \E l \in Lists : \E i \in DOMAIN c[l] : k > 0 /\ Moved(c, d, l, i, k)
    \/ \E l, m \in Lists : \E i \in DOMAIN c[l] : Transferred(c, d, l, i, m)
    \/ \E ls \in SUBSET Lists : Cleared(c, d, ls)
    \/ \E from, to \in Uris : Substituted(c, d, from, to)

Evolve == \E c \in {content}, d \in {content'} : d = c \/ Evolves(c, d, asked')

OrderedSpec == Begin /\ [][Evolve]_<<content, asked>>
=============================================================================
