-------------------------------- MODULE Listings --------------------------------
(* The lists of entities of inventaire (controllers/listings) and their elements,   *)
(* one document each. An element holds its list, its entity and an ordinal, and the *)
(* order of a list is that of the ordinals of its elements. The requests of a       *)
(* creator come one at a time.                                                      *)
EXTENDS Ordinals, FiniteSets

CONSTANTS Creators, Lists, Uris, Ids, NoOne, MaxListWrites
ASSUME IdsAssumption == Ids \subseteq Nat

VARIABLES
    listings,       \* [Lists -> creator, or NoOne before the creation and after the deletion]
    elements,       \* set of documents [id, list, uri, ordinal]
    usedIds,        \* identifiers of elements that exist or existed
    asked,          \* the position asked for by the last request, 0 when it asked for none
    listWrites      \* requests that changed something

lvars == <<listings, elements, usedIds, asked, listWrites>>

ListingsInit ==
    /\ listings = [l \in Lists |-> NoOne]
    /\ elements = {}
    /\ usedIds = {}
    /\ asked = 0
    /\ listWrites = 0

-----------------------------------------------------------------------------

\* The view byListingAndOrdinal: ordered by ordinal, then by document id.
GetElementsByListing(l) ==
    SetToSortSeq({e \in elements : e.list = l},
                 LAMBDA e, f : Precedes(e.ordinal, f.ordinal) \/ (e.ordinal = f.ordinal /\ e.id < f.id))

\* keyBy keeps, of the elements with one uri, the last one.
FilterFoundElementsUris(ordered, uris) ==
    {ordered[i] : i \in {i \in DOMAIN ordered : /\ ordered[i].uri \in uris
                                                /\ \A j \in DOMAIN ordered : j > i => ordered[j].uri # ordered[i].uri}}

\* The ordinals of the elements created together: each one after the previous ones.
NewOrdinals(ordinals, n) ==
    LET next[i \in 1..n] == GetNextHighestOrdinal(ordinals \cup {next[j] : j \in 1..(i - 1)})
    IN next

Asking(position) == listWrites < MaxListWrites /\ listWrites' = listWrites + 1 /\ asked' = position

CreateListing(user, l) ==
    /\ Asking(0)
    /\ listings[l] = NoOne /\ \A e \in elements : e.list # l
    /\ listings' = [listings EXCEPT ![l] = user]
    /\ UNCHANGED <<elements, usedIds>>

\* add-elements: the uris that the list already has are only reported.
AddListingElements(user, l, uris) ==
    LET ordered == GetElementsByListing(l)
        found == FilterFoundElementsUris(ordered, Range(uris))
        notFoundUris == SelectSeq(uris, LAMBDA uri : uri \notin {e.uri : e \in found})
        ordinals == NewOrdinals({e.ordinal : e \in Range(ordered)}, Len(notFoundUris))
        Free(n) == CHOOSE S \in SUBSET (Ids \ usedIds) : Cardinality(S) = n /\ \A i \in S, j \in Ids \ usedIds : j < i => j \in S
        ids == SetToSortSeq(Free(Len(notFoundUris)), LAMBDA i, j : i < j)
    IN /\ Asking(0)
       /\ listings[l] = user
       /\ notFoundUris # <<>> /\ Cardinality(Ids \ usedIds) >= Len(notFoundUris)
       /\ elements' = elements \cup {[id |-> ids[i], list |-> l, uri |-> notFoundUris[i], ordinal |-> ordinals[i]]
                                       : i \in DOMAIN notFoundUris}
       /\ usedIds' = usedIds \cup Range(ids)
       /\ UNCHANGED listings

RemoveListingElements(user, l, uris) ==
    LET found == FilterFoundElementsUris(GetElementsByListing(l), uris)
    IN /\ Asking(0)
       /\ listings[l] = user
       /\ found # {}
       /\ elements' = elements \ found
       /\ UNCHANGED <<listings, usedIds>>

\* update-element with an ordinal: the element moves within its list. When no new
\* ordinal is found, there is "nothing to update".
MoveElement(user, e, ordinal) ==
    LET newOrdinal == FindNewOrdinal(e.id, GetElementsByListing(e.list), ordinal)
    IN /\ Asking(ordinal)
       /\ listings[e.list] = user
       /\ newOrdinal # NoOrdinal
       /\ elements' = (elements \ {e}) \cup {[e EXCEPT !.ordinal = newOrdinal]}
       /\ UNCHANGED <<listings, usedIds>>

\* update-element with a list: the element goes to the end of the recipient list.
\* Without an ordinal for it there, it would keep the one it had in its former list.
MoveToListing(user, e, recipient) ==
    LET ordered == GetElementsByListing(recipient)
        newOrdinal == FindNewOrdinal(e.id, ordered, Len(ordered) + 1)
    IN /\ Asking(0)
       /\ listings[e.list] = user /\ listings[recipient] = user
       /\ e.list # recipient
       /\ FilterFoundElementsUris(ordered, {e.uri}) = {}
       /\ elements' = (elements \ {e}) \cup
            {[e EXCEPT !.list = recipient, !.ordinal = IF newOrdinal = NoOrdinal THEN e.ordinal ELSE newOrdinal]}
       /\ UNCHANGED <<listings, usedIds>>

\* delete: the lists and their elements, by two bulk deletions.
DeleteListings(user, ls) ==
    /\ Asking(0)
    /\ \A l \in ls : listings[l] = user
    /\ listings' = [l \in Lists |-> IF l \in ls THEN NoOne ELSE listings[l]]
    /\ elements' = {e \in elements : e.list \notin ls}
    /\ UNCHANGED usedIds

\* The lists of a deleted account.
DeleteUserListingsAndElements(user) ==
    LET owned == {l \in Lists : listings[l] = user}
    IN owned # {} /\ DeleteListings(user, owned)

\* A merge of entities: the elements follow (the previous uris, kept for a revert of
\* the merge, are in the module Catalogue).
UpdateElementsUrisAfterMerge(currentUri, newUri) ==
    /\ Asking(0)
    /\ currentUri # newUri /\ \E e \in elements : e.uri = currentUri
    /\ elements' = {IF e.uri = currentUri THEN [e EXCEPT !.uri = newUri] ELSE e : e \in elements}
    /\ UNCHANGED <<listings, usedIds>>

ListingsNext ==
    \/ \E user \in Creators :
         \/ \E l \in Lists : CreateListing(user, l)
         \/ \E l \in Lists : \E uris \in {<<x, y>> : x, y \in Uris} : uris[1] # uris[2] /\ AddListingElements(user, l, uris)
         \/ \E l \in Lists : \E uri \in Uris : AddListingElements(user, l, <<uri>>)
         \/ \E l \in Lists : \E uris \in SUBSET Uris : RemoveListingElements(user, l, uris)
         \/ \E e \in elements : \E ordinal \in 1..(Cardinality(elements) + 2) : MoveElement(user, e, ordinal)
         \/ \E e \in elements : \E recipient \in Lists : MoveToListing(user, e, recipient)
         \/ \E ls \in SUBSET Lists : ls # {} /\ DeleteListings(user, ls)
         \/ DeleteUserListingsAndElements(user)
    \/ \E from, to \in Uris : UpdateElementsUrisAfterMerge(from, to)

ListingsSpec == ListingsInit /\ [][ListingsNext]_lvars

-----------------------------------------------------------------------------

\* The elements of a list sorted by their ordinals are the sequence the user made:
\* ordinals found between, before and after others put every element where it was asked.
Ordered == INSTANCE OrderedLists WITH
    content <- [l \in Lists |-> [i \in DOMAIN GetElementsByListing(l) |->
                   [id |-> GetElementsByListing(l)[i].id, uri |-> GetElementsByListing(l)[i].uri]]]

\* As numbers in base 36, the ordinals of elements that are moved to the end of their list
\* again and again grow past what a double can hold.
HighestOrdinalsAreExact ==
    \A e \in elements : (\A f \in elements : f.list = e.list => ~Precedes(e.ordinal, f.ordinal)) => IsExact(e.ordinal)

\* As long as they do not, requests handled one after the other implement ordered lists:
\* what is appended comes last, what is moved takes the position asked, and nothing else
\* changes its place.
ImplementsOrderedLists == [][HighestOrdinalsAreExact => Ordered!Evolve]_lvars

\* tests/unit/libs/find_ordinal.ts:49: "should find an ordinal above the one passed": an
\* element added to a list comes after all those it has.
NextOrdinalIsAbove ==
    \A e \in elements :
        \A o \in {GetNextHighestOrdinal({f.ordinal : f \in {f \in elements : f.list = e.list}})} : Precedes(e.ordinal, o)
=============================================================================
