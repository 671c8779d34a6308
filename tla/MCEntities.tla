------------------------------ MODULE MCEntities ------------------------------
(* Small instances of Entities for TLC. *)
EXTENDS Entities, TLC

Symmetric ==
    Permutations(Langs) \cup Permutations(Labels) \cup Permutations(Users \ Dataadmins)
        \cup Permutations(Dataadmins) \cup Permutations(Entities) \cup Permutations(Calls)
=============================================================================
