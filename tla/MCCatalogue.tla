------------------------------- MODULE MCCatalogue -------------------------------
(* Works with an author, with two of them, and with none, and two editions. *)
EXTENDS Catalogue

CONSTANTS w1, w2, w3, x1, x2, e1, e2

NoClaims == [e \in Entities |-> {}]
MCCatalogues ==
    {[claims |-> [NoClaims EXCEPT ![w1] = {x1}, ![w2] = {x1, x2}, ![e1] = {w1}, ![e2] = {w3}],
      uses |-> [item |-> w1, element |-> w2]]}
=============================================================================
