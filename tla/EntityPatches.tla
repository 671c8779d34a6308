----------------------------- MODULE EntityPatches -----------------------------
(***************************************************************************)
(* The JSON patches that the history of an entity is made of: how they are *)
(* computed, applied, inverted and counted.  jiff, the library that does   *)
(* it, is external and modelled from the operations that the tests of the  *)
(* patches show and from its use in models/patch.ts.                       *)
(*                                                                         *)
(* The versioned part of a document is reduced to its labels and to its    *)
(* redirection.  Claims are never edited here, and follow the labels: both *)
(* go when the entity becomes a redirection.                               *)
(***************************************************************************)
EXTENDS Naturals, FiniteSets

CONSTANTS
    Entities,
    Langs,      \* the languages of the labels
    Labels,     \* the texts of the labels
    None        \* an attribute that a document does not have

-----------------------------------------------------------------------------
(* Documents *)

LabelMaps == [Langs -> Labels \cup {None}]
NoLabels == [l \in Langs |-> None]

\* A document without labels is not one with the labels of a map, and the paths of the labels
\* are not those of the other attributes.
ASSUME PatchesAssumption ==
    /\ None \notin LabelMaps /\ None \notin Labels /\ None \notin Entities
    /\ "labels" \notin Langs /\ "redirect" \notin Langs

\* The versioned attributes of an entity or, without labels, of a redirection.
Docs == [labels : LabelMaps \cup {None}, redirect : Entities \cup {None}]

ASSUME NoDocAssumption == None \notin Docs

Blank == [labels |-> NoLabels, redirect |-> None]
IsRedirection(doc) == doc.redirect # None
RedirectionTo(e) == [labels |-> None, redirect |-> e]

-----------------------------------------------------------------------------
(* Operations *)

\* The operations on one path.  With from = None it is an add; with to = None a test of
\* the former value and a remove; otherwise a test and a replace.
Change(path, from, to) == [path |-> path, from |-> from, to |-> to]

Changes ==
    LET values == LabelMaps \cup Labels \cup Entities \cup {None}
    IN  [path : Langs \cup {"labels", "redirect"}, from : values, to : values]

ChangesIn(path, from, to) == IF from = to THEN {} ELSE {Change(path, from, to)}

LabelChanges(before, after) == UNION {ChangesIn(l, before[l], after[l]) : l \in Langs}

\* jiff.diff on two documents.  The labels are compared one by one when both documents
\* have some; otherwise they come or go as a whole.
Diff(before, after) ==
    (IF before.labels # None /\ after.labels # None THEN LabelChanges(before.labels, after.labels)
     ELSE ChangesIn("labels", before.labels, after.labels))
    \cup ChangesIn("redirect", before.redirect, after.redirect)

\* How many operations a list of changes amounts to.
Length(ops) == Cardinality(ops) + Cardinality({c \in ops : c.from # None})

\* jiff.inverse.
Inverse(ops) == {Change(c.path, c.to, c.from) : c \in ops}

\* Whether jiff.patch accepts the operations: a test fails when the value is another one,
\* an add replaces a value silently but needs the parent object.
Applies(ops, doc) ==
    \A c \in ops :
        CASE c.path = "labels" -> c.from # None => doc.labels = c.from
          [] c.path = "redirect" -> c.from # None => doc.redirect = c.from
          [] OTHER -> doc.labels # None /\ (c.from # None => doc.labels[c.path] = c.from)

\* What the operations leave of the value of a path.
Result(ops, path, value) ==
    IF \E c \in ops : c.path = path THEN (CHOOSE c \in ops : c.path = path).to ELSE value

\* jiff.patch, once it accepts the operations.
Apply(ops, doc) ==
    [labels |-> IF (\E c \in ops : c.path = "labels") \/ doc.labels = None
                THEN Result(ops, "labels", doc.labels)
                ELSE [l \in Langs |-> Result(ops, l, doc.labels[l])],
     redirect |-> Result(ops, "redirect", doc.redirect)]

\* fixOperation: before a value is removed, it is looked for where it stands, a label in
\* itself, and that throws on labels that would be removed as a whole.
RemovesLabels(ops) == \E c \in ops : c.path = "labels" /\ c.to = None

\* revertPatch: the operations of a patch, undone on a document.  Those that gave labels back
\* to a redirection never are.
Reverts(ops, doc) == Applies(Inverse(ops), doc) /\ ~RemovesLabels(Inverse(ops))
Reverted(ops, doc) == Apply(Inverse(ops), doc)

\* validateInvEntity, for the entities whose type has labels.
IsValidEntity(doc) == doc.labels # None /\ doc.labels # NoLabels

-----------------------------------------------------------------------------
(* Histories *)

\* addVersionsSnapshots: the document after each version, from the patches of a history
\* in the order of their versions; None from the first patch that does not apply.
Snapshots(history, last) ==
    LET after[v \in 1..last] ==
            IF v = 1 THEN Blank
            ELSE IF history[v] = None THEN after[v - 1]
            ELSE IF after[v - 1] # None /\ Applies(history[v].ops, after[v - 1])
                 THEN Apply(history[v].ops, after[v - 1])
                 ELSE None
    IN  after

\* The versions that have a patch.
Patched(history) == {v \in DOMAIN history : history[v] # None}

\* getEntityLastPatches, with its default limit of one patch.
LastPatched(history) == CHOOSE v \in Patched(history) : \A w \in Patched(history) : w <= v
=============================================================================
