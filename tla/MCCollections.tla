----------------------------- MODULE MCCollections -----------------------------
(* What a user keeps and shows, in one run of three independent parts: a behaviour  *)
(* is one of the inventory, of the lists, or of the visibility of a document, and   *)
(* leaves the other two at their initial state.                                     *)
EXTENDS Inventory, Listings, Visibility, TLC

VARIABLE part   \* the part a behaviour is about

\* The ordinals of a list of two elements after n requests, each of which moves the first
\* element to the last place: they get one digit longer each time. (The singletons make
\* TLC compute each value once.)
AfterMove(ordinals) ==
    <<ordinals[2], FindNewOrdinal(1, [i \in 1..2 |-> [id |-> i, ordinal |-> ordinals[i]]], 2)>>
Moved[n \in 0..8] ==
    IF n = 0 THEN << <<1>>, <<1, 1>> >>
    ELSE CHOOSE ordinals \in {AfterMove(before) : before \in {Moved[n - 1]}} : TRUE

\* A list whose ordinals are about to pass what a double can hold.
MovedList ==
    LET ordinals == Moved[8]
        list == CHOOSE l \in Lists : TRUE
        uris == CHOOSE s \in [1..2 -> Uris] : s[1] # s[2]
    IN /\ listings = [l \in Lists |-> IF l = list THEN CHOOSE user \in Creators : TRUE ELSE NoOne]
       /\ elements = {[id |-> i, list |-> list, uri |-> uris[i], ordinal |-> ordinals[i]] : i \in 1..2}
       /\ usedIds = {1, 2}
       /\ asked = 0 /\ listWrites = 0

CollectionsInit ==
    /\ part \in {"inventory", "listings", "movedList", "visibility"}
    /\ InventoryInit /\ VisibilityInit
    /\ IF part = "movedList" THEN MovedList ELSE ListingsInit

\* Documents, users and requests of the inventory are interchangeable.
Symmetric == Permutations(Requests) \cup Permutations(Items) \cup Permutations(Shelves) \cup Permutations(Users)

CollectionsNext ==
    /\ part' = part
    /\ \/ part = "inventory" /\ InventoryNext /\ UNCHANGED <<lvars, vvars>>
       \/ part \in {"listings", "movedList"} /\ ListingsNext /\ UNCHANGED <<ivars, vvars>>
       \/ part = "visibility" /\ VisibilityNext /\ UNCHANGED <<ivars, lvars>>

CollectionsSpec == CollectionsInit /\ [][CollectionsNext]_<<part, ivars, lvars, vvars>>
=============================================================================
