---------------------------- MODULE EntitiesProofs ----------------------------
(***************************************************************************)
(* What the edition of entities guarantees for any entities, users, labels *)
(* and requests in flight: patches go back and forth between the documents *)
(* they were computed from, and an edition only changes what its request   *)
(* asks for, on the document that is current when it is put.  With one     *)
(* request at a time, histories can be replayed, redirections end, and     *)
(* merges lose nothing.                                                    *)
(***************************************************************************)
EXTENDS Entities, WellFoundedInduction, TLAPS

-----------------------------------------------------------------------------
(* Patches *)

\* jiff.diff and jiff.inverse on the labels: inverting the differences gives those of the
\* opposite direction.
LEMMA InverseOfDiff ==
    ASSUME NEW before \in Docs, NEW after \in Docs
    PROVE  Inverse(Diff(before, after)) = Diff(after, before)
  <1>1. \A path, x, y : Inverse(ChangesIn(path, x, y)) = ChangesIn(path, y, x)
    <2>1. \A path, x, y : Inverse({Change(path, x, y)}) = {Change(path, y, x)}
      BY DEF Inverse, Change
    <2>2. Inverse({}) = {}
      BY DEF Inverse
    <2> QED
      BY <2>1, <2>2 DEF ChangesIn
  <1>2. Inverse(LabelChanges(before.labels, after.labels)) = LabelChanges(after.labels, before.labels)
    <2> DEFINE forth(l) == ChangesIn(l, before.labels[l], after.labels[l])
               back(l) == ChangesIn(l, after.labels[l], before.labels[l])
    <2>1. \A l \in Langs : Inverse(forth(l)) = back(l)
      BY <1>1
    <2>2. Inverse(UNION {forth(l) : l \in Langs}) = UNION {Inverse(forth(l)) : l \in Langs}
      BY DEF Inverse
    <2> QED
      BY <2>1, <2>2 DEF LabelChanges
  <1>3. \A S, T : Inverse(S \cup T) = Inverse(S) \cup Inverse(T)
    BY DEF Inverse
  <1> QED
    BY <1>1, <1>2, <1>3 DEF Diff

\* getPatchDiff and jiff.patch: the differences between two documents apply to the first
\* one, and give the second one.
LEMMA DiffApplies ==
    ASSUME NEW before \in Docs, NEW after \in Docs
    PROVE  Applies(Diff(before, after), before) /\ Apply(Diff(before, after), before) = after
  <1> DEFINE ops == Diff(before, after)
  <1>0. /\ before.labels \in LabelMaps \cup {None} /\ after.labels \in LabelMaps \cup {None}
        /\ before = [labels |-> before.labels, redirect |-> before.redirect]
        /\ after = [labels |-> after.labels, redirect |-> after.redirect]
    BY DEF Docs
  <1>1. \A path, x, y : \A c \in ChangesIn(path, x, y) :
            c.path = path /\ c.from = x /\ c.to = y /\ x # y
    BY DEF ChangesIn, Change
  <1>2. CASE before.labels # None /\ after.labels # None
    <2>1. ops = LabelChanges(before.labels, after.labels) \cup ChangesIn("redirect", before.redirect, after.redirect)
      BY <1>2 DEF Diff
    <2>2. \A c \in ops :
             \/ \E l \in Langs : c = Change(l, before.labels[l], after.labels[l])
             \/ c = Change("redirect", before.redirect, after.redirect)
      BY <2>1 DEF LabelChanges, ChangesIn
    <2>3. \A l \in Langs : before.labels[l] # after.labels[l] => Change(l, before.labels[l], after.labels[l]) \in ops
      BY <2>1 DEF LabelChanges, ChangesIn
    <2>4. before.redirect # after.redirect => Change("redirect", before.redirect, after.redirect) \in ops
      BY <2>1 DEF ChangesIn
    <2> HIDE DEF ops
    <2>5. Applies(ops, before)
      BY <1>2, <2>2, PatchesAssumption DEF Applies, Change
    <2>6. \A l \in Langs : Result(ops, l, before.labels[l]) = after.labels[l]
      <3> TAKE l \in Langs
      <3>1. \A c \in ops : c.path = l => c = Change(l, before.labels[l], after.labels[l])
        BY <2>2, PatchesAssumption DEF Change
      <3>2. before.labels[l] # after.labels[l] => \E c \in ops : c.path = l
        BY <2>3 DEF Change
      <3> QED
        BY <3>1, <3>2 DEF Result, Change
    <2>7. Result(ops, "redirect", before.redirect) = after.redirect
      <3>1. \A c \in ops : c.path = "redirect" => c = Change("redirect", before.redirect, after.redirect)
        BY <2>2, PatchesAssumption DEF Change
      <3> QED
        BY <2>4, <3>1 DEF Result, Change
    <2>8. ~\E c \in ops : c.path = "labels"
      BY <2>2, PatchesAssumption DEF Change
    <2>9. after.labels = [l \in Langs |-> after.labels[l]]
      BY <1>0, <1>2 DEF LabelMaps
    <2> QED
      BY <1>0, <1>2, <2>5, <2>6, <2>7, <2>8, <2>9 DEF Apply, ops
  <1>3. CASE ~(before.labels # None /\ after.labels # None)
    <2>1. ops = ChangesIn("labels", before.labels, after.labels) \cup ChangesIn("redirect", before.redirect, after.redirect)
      BY <1>3 DEF Diff
    <2>2. \A c \in ops :
             \/ c = Change("labels", before.labels, after.labels)
             \/ c = Change("redirect", before.redirect, after.redirect)
      BY <2>1 DEF ChangesIn
    <2>3. before.labels # after.labels => Change("labels", before.labels, after.labels) \in ops
      BY <2>1 DEF ChangesIn
    <2>4. before.redirect # after.redirect => Change("redirect", before.redirect, after.redirect) \in ops
      BY <2>1 DEF ChangesIn
    <2> HIDE DEF ops
    <2>5. Applies(ops, before)
      BY <2>2 DEF Applies, Change
    <2>6. Result(ops, "labels", before.labels) = after.labels
      BY <2>2, <2>3 DEF Result, Change
    <2>7. Result(ops, "redirect", before.redirect) = after.redirect
      BY <2>2, <2>4 DEF Result, Change
    <2>8. (\E c \in ops : c.path = "labels") \/ before.labels = None
      BY <1>3, <2>3 DEF Change
    <2> QED
      BY <1>0, <2>5, <2>6, <2>7, <2>8 DEF Apply, ops
  <1> QED
    BY <1>2, <1>3

\* The patch of a version goes back and forth: it replays the version from the one before,
\* as addVersionsSnapshots does, and revertPatch undoes it, unless it gave a document the
\* labels that it did not have, as reverting a merge does: that cannot be reverted.
THEOREM PatchRoundTrip ==
    ASSUME NEW before \in Docs, NEW after \in Docs
    PROVE  LET ops == Diff(before, after)
           IN  /\ Applies(ops, before) /\ Apply(ops, before) = after
               /\ Reverts(ops, after) <=> (before.labels = None => after.labels = None)
               /\ Reverted(ops, after) = before
  <1> DEFINE ops == Diff(before, after)
             back == Diff(after, before)
  <1>1. Inverse(ops) = back /\ Applies(back, after) /\ Apply(back, after) = before
    BY DiffApplies, InverseOfDiff
  <1>2. RemovesLabels(back) <=> before.labels = None /\ after.labels # None
    <2>1. \A path, x, y : \A c \in ChangesIn(path, x, y) : c = Change(path, x, y) /\ x # y
      BY DEF ChangesIn
    <2>2. CASE before.labels # None /\ after.labels # None
      <3>1. \A c \in back : \/ \E l \in Langs : c = Change(l, after.labels[l], before.labels[l])
                            \/ c = Change("redirect", after.redirect, before.redirect)
        <4>1. back = LabelChanges(after.labels, before.labels) \cup ChangesIn("redirect", after.redirect, before.redirect)
          BY <2>2 DEF Diff
        <4> HIDE DEF back
        <4> QED
          BY <4>1 DEF LabelChanges, ChangesIn
      <3> HIDE DEF back
      <3>2. \A c \in back : c.path # "labels"
        BY <3>1, PatchesAssumption DEF Change
      <3> QED
        BY <2>2, <3>2 DEF RemovesLabels
    <2>3. CASE ~(before.labels # None /\ after.labels # None)
      <3>1. back = ChangesIn("labels", after.labels, before.labels) \cup ChangesIn("redirect", after.redirect, before.redirect)
        BY <2>3 DEF Diff
      <3>2. \A c \in ChangesIn("redirect", after.redirect, before.redirect) : c.path = "redirect"
        BY DEF ChangesIn, Change
      <3>3. (\E c \in ChangesIn("labels", after.labels, before.labels) : c.path = "labels" /\ c.to = None)
              <=> (before.labels = None /\ after.labels # None)
        <4>1. \A x, y : x # y => ChangesIn("labels", x, y) = {Change("labels", x, y)}
          BY DEF ChangesIn
        <4>2. \A x : ChangesIn("labels", x, x) = {}
          BY DEF ChangesIn
        <4>3. \A x, y : Change("labels", x, y).path = "labels" /\ Change("labels", x, y).to = y
          BY DEF Change
        <4>4. CASE after.labels = before.labels
          BY <4>2, <4>4
        <4>5. CASE after.labels # before.labels
          BY <4>1, <4>3, <4>5
        <4> QED
          BY <4>4, <4>5
      <3> QED
        BY <3>1, <3>2, <3>3 DEF RemovesLabels
    <2> QED
      BY <2>2, <2>3
  <1> HIDE DEF ops, back
  <1>3. Reverts(ops, after) <=> (before.labels = None => after.labels = None)
    <2>1. Reverts(ops, after) <=> ~RemovesLabels(back)
      BY <1>1, Zenon DEF Reverts
    <2> QED
      BY <1>2, <2>1
  <1>4. Reverted(ops, after) = before
    BY <1>1 DEF Reverted
  <1> QED
    BY <1>3, <1>4, DiffApplies DEF ops

\* revertPatch on any document: whatever it changes is what an operation of the patch had
\* changed, and is what was there before that operation.
LEMMA RevertedUndoes ==
    ASSUME NEW doc, NEW ops, Reverted(ops, doc).labels # None
    PROVE  \A d \in Diff(doc, Reverted(ops, doc)) : \E c \in ops : Undoes(c, d, Reverted(ops, doc))
  <1> DEFINE after == Reverted(ops, doc)
  <1>1. \A path, value : (\E c \in Inverse(ops) : c.path = path) =>
            \E c \in ops : c.path = path /\ c.from = Result(Inverse(ops), path, value)
    <2> TAKE path, value
    <2> HAVE \E c \in Inverse(ops) : c.path = path
    <2> DEFINE c == CHOOSE c \in Inverse(ops) : c.path = path
    <2>1. c \in Inverse(ops) /\ c.path = path
      OBVIOUS
    <2>2. Result(Inverse(ops), path, value) = c.to
      BY DEF Result
    <2> HIDE DEF c
    <2>3. PICK d \in ops : c = Change(d.path, d.to, d.from)
      BY <2>1 DEF Inverse
    <2> QED
      BY <2>1, <2>2, <2>3 DEF Change
  <1>2. \A path, value : Result(Inverse(ops), path, value) # value =>
            \E c \in ops : c.path = path /\ c.from = Result(Inverse(ops), path, value)
    BY <1>1 DEF Result
  <1>3. after.redirect = Result(Inverse(ops), "redirect", doc.redirect)
    BY DEF Reverted, Apply
  <1>4. CASE (\E c \in Inverse(ops) : c.path = "labels") \/ doc.labels = None
    <2>1. after.labels = Result(Inverse(ops), "labels", doc.labels)
      BY <1>4 DEF Reverted, Apply
    <2> HIDE DEF after
    <2>2. doc.labels # after.labels => \E c \in ops : c.path = "labels" /\ c.from = after.labels
      BY <1>2, <2>1
    <2>3. \A d \in Diff(doc, after) :
             \/ doc.labels # after.labels
             \/ d.path = "redirect" /\ d.to = after.redirect /\ doc.redirect # after.redirect
      BY DEF Diff, LabelChanges, ChangesIn, Change
    <2>4. \A d \in Diff(doc, after) : \E c \in ops : Undoes(c, d, after)
      BY <1>2, <1>3, <2>2, <2>3 DEF Undoes
    <2> QED
      BY <2>4 DEF after
  <1>5. CASE ~((\E c \in Inverse(ops) : c.path = "labels") \/ doc.labels = None)
    <2>1. after.labels = [l \in Langs |-> Result(Inverse(ops), l, doc.labels[l])]
      BY <1>5 DEF Reverted, Apply
    <2>2. after.labels # None
      OBVIOUS
    <2> HIDE DEF after
    <2>3. \A d \in Diff(doc, after) :
             \/ d.path = "redirect" /\ d.to = after.redirect /\ doc.redirect # after.redirect
             \/ \E l \in Langs : d.path = l /\ d.to = after.labels[l] /\ doc.labels[l] # after.labels[l]
      BY <1>5, <2>2 DEF Diff, LabelChanges, ChangesIn, Change
    <2>4. \A l \in Langs : after.labels[l] = Result(Inverse(ops), l, doc.labels[l])
      BY <2>1
    <2>5. \A d \in Diff(doc, after) : \E c \in ops : d.path = c.path /\ d.to = c.from
      BY <1>2, <1>3, <2>3, <2>4
    <2>6. \A d \in Diff(doc, after) : \E c \in ops : Undoes(c, d, after)
      BY <2>5 DEF Undoes
    <2> QED
      BY <2>6 DEF after
  <1> QED
    BY <1>4, <1>5

-----------------------------------------------------------------------------
(* Versions *)

\* A nonempty set of versions has a last one.
LEMMA LastVersion ==
    ASSUME NEW S, S \subseteq Versions, S # {}
    PROVE  \E v \in S : \A w \in S : w <= v
  <1> DEFINE n == MaxCalls + 1
             D == {n - v : v \in S}
             R == {p \in Nat \X Nat : p[1] < p[2]}
  <1>1. IsWellFoundedOn(R, Nat)
    BY Zenon, NatLessThanWellFounded DEF OpToRel
  <1>2. \A v \in S : n - v \in Nat /\ v \in Int
    BY EntitiesAssumption DEF Versions
  <1> HIDE DEF n
  <1>3. D \subseteq Nat /\ D # {}
    BY <1>2
  <1>4. PICK x \in D : \A y \in D : ~(<<y, x>> \in R)
    <2> HIDE DEF D, R
    <2> QED
      BY <1>1, <1>3, WFMin
  <1>5. PICK v \in S : x = n - v
    OBVIOUS
  <1>6. n \in Int
    BY EntitiesAssumption DEF n
  <1>7. ASSUME NEW w \in S PROVE w <= v
    <2>1. n - w \in D /\ n - w \in Nat /\ n - v \in Nat
      BY <1>2
    <2>2. ~(n - w < n - v)
      BY <2>1, <1>4, <1>5
    <2> QED
      BY <2>1, <2>2, <1>2, <1>6
  <1> QED
    BY <1>7

\* findVersionBeforeRedirect returns no redirection.
LEMMA BeforeRedirectIsAnEntity ==
    ASSUME NEW history, DOMAIN history = Versions, BeforeRedirect(history) # None
    PROVE  ~IsRedirection(BeforeRedirect(history))
  <1> DEFINE after == Snapshots(history, MaxCalls + 1)
             entityVersions == {v \in Patched(history) : after[v] # None /\ ~IsRedirection(after[v])}
             last == CHOOSE v \in entityVersions : \A w \in entityVersions : w <= v
  <1>1. entityVersions # {} /\ BeforeRedirect(history) = after[last]
    BY DEF BeforeRedirect
  <1>2. entityVersions \subseteq Versions
    BY DEF Patched
  <1>3. last \in entityVersions
    <2> HIDE DEF entityVersions
    <2> QED
      BY <1>1, <1>2, LastVersion
  <1> HIDE DEF last
  <1> QED
    BY <1>1, <1>3

-----------------------------------------------------------------------------
(* Requests *)

\* A request has all of its fields, whatever is in them.
IsRequest(call) ==
    DOMAIN call = {"op", "pc", "user", "entity", "arg", "doc", "version", "update", "last"}

\* A request that holds a document to be put.
HoldsDoc(call) == call.pc = "put" \/ (call.pc = "patches" /\ call.op = "restore")

\* Either the document was put again since the request has read it, and the version tells,
\* or the request holds the current document.
HoldsVersion(call) ==
    /\ call.version <= versions[call.entity]
    /\ call.version = versions[call.entity] => call.doc = docs[call.entity]

\* The invariant of a request about an entity (and it is about one, but for the target
\* of a redirection, whose type is not followed here).
RequestInv(call) ==
    /\ call.pc = "patches" => call.op \in {"revert", "revertMerge", "revertTarget", "restore"}
    /\ call.entity \in Entities =>
        /\ HoldsDoc(call) => call.version \in Nat /\ HoldsVersion(call)
        /\ call.pc = "put" => OnlyItsOwnEdit(call, call.doc, call.update)
        /\ call.pc = "read" /\ call.op = "revertMerge" => ~IsRedirection(call.arg)

Shapes ==
    /\ docs = [e \in Entities |-> docs[e]]
    /\ versions \in [Entities -> Nat]
    /\ DOMAIN patches = Entities
    /\ \A e \in Entities : DOMAIN patches[e] = Versions
    /\ calls = [c \in Calls |-> calls[c]]
    /\ \A c \in Calls : IsRequest(calls[c])

EditInv == Shapes /\ \A c \in Calls : RequestInv(calls[c])

\* What an operation computes from the documents of a moment is its own edit of them.
LEMMA UpdateIsItsOwn ==
    ASSUME NEW call, RequestInv(call), call.pc = "read", call.entity \in Entities, Update(call) # None
    PROVE  OnlyItsOwnEdit(call, docs[call.entity], Update(call))
  <1> DEFINE doc == docs[call.entity]
  <1>1. CASE call.op = "label"
    <2>1. Update(call) = Labelled(doc, call.arg.lang, call.arg.text)
      BY <1>1 DEF Update
    <2>2. ~IsRedirection(doc) /\ Update(call) = [doc EXCEPT !.labels[call.arg.lang] = call.arg.text]
      BY <2>1 DEF Labelled
    <2> QED
      BY <1>1, <2>2 DEF OnlyItsOwnEdit
  <1>2. CASE call.op = "merge"
    <2>1. Update(call) = Merged(docs[call.arg], doc)
      BY <1>2 DEF Update
    <2>2. Update(call).labels = Filled(doc.labels, docs[call.arg].labels)
      BY <2>1 DEF Merged
    <2>3. \A l \in Langs : doc.labels[l] # None => Update(call).labels[l] = doc.labels[l]
      BY <2>2 DEF Filled
    <2> QED
      BY <1>2, <2>3 DEF OnlyItsOwnEdit
  <1>3. CASE call.op = "redirect"
    BY <1>3 DEF Update, OnlyItsOwnEdit, RedirectionTo
  <1>4. CASE call.op = "revertMerge"
    BY <1>4 DEF Update, OnlyItsOwnEdit, RequestInv
  <1>5. CASE call.op = "revert"
    <2>1. Update(call) = Undone(doc, call.arg)
      BY <1>5 DEF Update
    <2>2. Update(call) = Reverted(call.arg.ops, doc) /\ Update(call).labels # None
      BY <2>1 DEF Undone, IsValidEntity
    <2>3. \A d \in Diff(doc, Update(call)) : \E c \in call.arg.ops : Undoes(c, d, Update(call))
      BY <2>2, RevertedUndoes
    <2> QED
      BY <1>5, <2>3 DEF OnlyItsOwnEdit
  <1>6. CASE call.op \notin {"label", "merge", "redirect", "revertMerge", "revert"}
    BY <1>6 DEF OnlyItsOwnEdit
  <1> QED
    BY <1>1, <1>2, <1>3, <1>4, <1>5, <1>6

\* A step that puts no document, and takes one request to another one that is sound.
LEMMA GotoKeepsEditInv ==
    ASSUME EditInv, NEW c \in Calls, NEW call, IsRequest(call), RequestInv(call), Goto(c, call),
           UNCHANGED <<docs, versions>>,
           DOMAIN patches' = Entities, \A e \in Entities : DOMAIN patches'[e] = Versions
    PROVE  EditInv'
  <1>1. calls' = [d \in Calls |-> IF d = c THEN call ELSE calls[d]]
    BY DEF EditInv, Shapes, Goto
  <1>2. Shapes'
    BY <1>1 DEF EditInv, Shapes, IsRequest
  <1>3. ASSUME NEW d \in Calls PROVE RequestInv(calls[d])'
    <2>1. RequestInv(calls'[d])
      BY <1>1 DEF EditInv
    <2> QED
      BY <2>1 DEF RequestInv, HoldsVersion, HoldsDoc, OnlyItsOwnEdit
  <1> QED
    BY <1>2, <1>3 DEF EditInv

\* A step that puts a document makes the other requests on it hold an old version.
LEMMA SaveKeepsEditInv ==
    ASSUME EditInv, NEW c \in Calls, NEW call, IsRequest(call), call.pc \in {"idle", "patch"}, Goto(c, call),
           NEW e, NEW user, NEW doc, Save(e, user, doc), UNCHANGED patches
    PROVE  EditInv'
  <1>1. calls' = [d \in Calls |-> IF d = c THEN call ELSE calls[d]]
    BY DEF EditInv, Shapes, Goto
  <1>2. /\ docs' = [f \in Entities |-> IF f = e THEN doc ELSE docs[f]]
        /\ versions' = [f \in Entities |-> IF f = e THEN versions[f] + 1 ELSE versions[f]]
        /\ versions \in [Entities -> Nat]
    BY DEF EditInv, Shapes, Save
  <1>3. Shapes'
    BY <1>1, <1>2 DEF EditInv, Shapes, IsRequest
  <1>4. ASSUME NEW d \in Calls PROVE RequestInv(calls[d])'
    <2>1. CASE d = c
      BY <1>1, <2>1 DEF RequestInv, HoldsDoc
    <2>2. CASE d # c
      <3> DEFINE other == calls[d]
      <3>1. calls'[d] = other /\ RequestInv(other)
        BY <1>1, <2>2 DEF EditInv
      <3>2. ASSUME other.entity \in Entities, HoldsDoc(other) PROVE HoldsVersion(other)'
        <4>1. other.version \in Nat /\ HoldsVersion(other) /\ versions[other.entity] \in Nat
          BY <1>2, <3>1, <3>2 DEF RequestInv
        <4>2. CASE other.entity = e
          <5>1. versions'[other.entity] = versions[other.entity] + 1
            BY <1>2, <3>2, <4>2
          <5> QED
            BY <1>1, <2>2, <4>1, <5>1 DEF HoldsVersion
        <4>3. CASE other.entity # e
          BY <1>1, <1>2, <2>2, <3>2, <4>1, <4>3 DEF HoldsVersion
        <4> QED
          BY <4>2, <4>3
      <3> QED
        BY <3>1, <3>2 DEF RequestInv, HoldsDoc, OnlyItsOwnEdit
    <2> QED
      BY <2>1, <2>2
  <1> QED
    BY <1>3, <1>4 DEF EditInv

\* A request that starts, or starts again, has read nothing.
LEMMA StartedRequest ==
    ASSUME NEW op, NEW pc, NEW user, NEW entity, NEW arg,
           pc \in {"idle", "read", "patches"}, pc = "patches" => op \in {"revert", "revertMerge", "revertTarget"},
           pc = "read" /\ op = "revertMerge" /\ entity \in Entities => ~IsRedirection(arg)
    PROVE  LET call == Request(op, pc, user, entity, arg) IN IsRequest(call) /\ RequestInv(call)
  <1> DEFINE call == Request(op, pc, user, entity, arg)
  <1>1. IsRequest(call)
    BY DEF IsRequest, Request
  <1>2. call.op = op /\ call.pc = pc /\ call.entity = entity /\ call.arg = arg
    BY DEF Request
  <1> HIDE DEF call
  <1>3. RequestInv(call)
    BY <1>2 DEF RequestInv, HoldsDoc
  <1> QED
    BY <1>1, <1>3 DEF call

LEMMA IdleRequest == IsRequest(Idle) /\ RequestInv(Idle) /\ Idle.pc = "idle"
  <1>1. IsRequest(Idle) /\ Idle.pc = "idle"
    BY DEF Idle, Request, IsRequest
  <1> QED
    BY <1>1 DEF RequestInv, HoldsDoc

\* A request at a stage where it holds no document and is about to read none.
LEMMA LaterRequest ==
    ASSUME NEW call, IsRequest(call), call.pc \in {"idle", "patch", "post", "delete", "rewrite"}
    PROVE  RequestInv(call)
  BY DEF RequestInv, HoldsDoc

\* Putting keeps what a request is about.
LEMMA PuttingRequest ==
    ASSUME NEW call, IsRequest(call), NEW doc, NEW version, NEW update
    PROVE  LET next == Putting(call, doc, version, update)
           IN  /\ IsRequest(next) /\ next.op = call.op /\ next.pc = "put" /\ next.entity = call.entity
               /\ next.arg = call.arg /\ next.doc = doc /\ next.version = version /\ next.update = update
  BY DEF IsRequest, Putting

\* getEntityById and the update computed from it.
LEMMA ReadKeepsEditInv ==
    ASSUME EditInv, NEW c \in Calls, Read(c)
    PROVE  EditInv'
  <1> DEFINE call == calls[c]
             doc == docs[call.entity]
             version == versions[call.entity]
  <1>0. /\ IsRequest(call) /\ RequestInv(call) /\ call.pc = "read"
        /\ UNCHANGED <<docs, versions, patches>>
        /\ DOMAIN patches' = Entities /\ \A e \in Entities : DOMAIN patches'[e] = Versions
    BY DEF EditInv, Shapes, Read, At
  <1>1. call.entity \in Entities => version \in Nat /\ version <= version
    BY DEF EditInv, Shapes
  <1>3. CASE call.op = "restore"
    <2> DEFINE next == [Putting(call, doc, version, None) EXCEPT !.pc = "patches"]
    <2>1. Goto(c, next)
      BY <1>3 DEF Read
    <2>2. /\ IsRequest(next) /\ next.entity = call.entity /\ next.op = "restore" /\ next.doc = doc
          /\ next.version = version /\ next.pc = "patches"
      BY <1>0, <1>3 DEF IsRequest, Putting
    <2> HIDE DEF next
    <2>3. RequestInv(next)
      BY <1>1, <2>2 DEF RequestInv, HoldsVersion
    <2> QED
      BY <1>0, <2>1, <2>2, <2>3, GotoKeepsEditInv
  <1>4. CASE call.op # "restore" /\ Update(call) = None
    <2>1. Goto(c, Idle)
      BY <1>4 DEF Read
    <2> QED
      BY <1>0, <2>1, IdleRequest, GotoKeepsEditInv
  <1>5. CASE /\ call.op # "restore" /\ Update(call) # None
             /\ call.op = "merge" /\ Update(call) = doc
    <2>1. Goto(c, Redirecting(call))
      BY <1>5 DEF Read
    <2>2. IsRequest(Redirecting(call)) /\ RequestInv(Redirecting(call))
      BY StartedRequest DEF Redirecting
    <2> QED
      BY <1>0, <2>1, <2>2, GotoKeepsEditInv
  <1>6. CASE /\ call.op # "restore" /\ Update(call) # None
             /\ ~(call.op = "merge" /\ Update(call) = doc)
    <2> DEFINE next == Putting(call, doc, version, Update(call))
    <2>1. Goto(c, next)
      BY <1>6 DEF Read
    <2>2. /\ IsRequest(next) /\ next.entity = call.entity /\ next.op = call.op /\ next.arg = call.arg
          /\ next.doc = doc /\ next.version = version /\ next.update = Update(call) /\ next.pc = "put"
      BY <1>0, PuttingRequest
    <2>3. call.entity \in Entities => OnlyItsOwnEdit(call, doc, Update(call))
      BY <1>0, <1>6, UpdateIsItsOwn
    <2> HIDE DEF next
    <2>4. RequestInv(next)
      BY <1>1, <2>2, <2>3 DEF RequestInv, HoldsVersion, HoldsDoc, OnlyItsOwnEdit
    <2> QED
      BY <1>0, <2>1, <2>2, <2>4, GotoKeepsEditInv
  <1> QED
    BY <1>3, <1>4, <1>5, <1>6

\* getPatchesByEntityId or getPatchById.
LEMMA ReadPatchesKeepsEditInv ==
    ASSUME EditInv, NEW c \in Calls, ReadPatches(c)
    PROVE  EditInv'
  <1> DEFINE call == calls[c]
             history == patches[call.entity]
             Reading(op, arg) == IF arg = None THEN Idle ELSE Request(op, "read", call.user, call.entity, arg)
  <1>0. /\ IsRequest(call) /\ RequestInv(call) /\ call.pc = "patches"
        /\ UNCHANGED <<docs, versions, patches>>
        /\ DOMAIN patches' = Entities /\ \A e \in Entities : DOMAIN patches'[e] = Versions
    BY DEF EditInv, Shapes, ReadPatches, At
  <1> SUFFICES \E next : Goto(c, next) /\ IsRequest(next) /\ RequestInv(next)
    BY <1>0, GotoKeepsEditInv
  <1>1. \A arg : IsRequest(Reading("revert", arg)) /\ RequestInv(Reading("revert", arg))
    BY IdleRequest, StartedRequest
  <1>2. CASE call.op = "revert"
    <2>1. Goto(c, Reading("revert", history[call.arg]))
      BY <1>2 DEF ReadPatches
    <2> QED
      BY <1>1, <2>1
  <1>3. CASE call.op = "revertMerge"
    <2> DEFINE before == BeforeRedirect(history)
    <2>1. Goto(c, Reading("revertMerge", before))
      BY <1>3 DEF ReadPatches
    <2>2. before # None /\ call.entity \in Entities => ~IsRedirection(before)
      BY BeforeRedirectIsAnEntity DEF EditInv, Shapes
    <2> HIDE DEF before
    <2>3. IsRequest(Reading("revertMerge", before)) /\ RequestInv(Reading("revertMerge", before))
      BY <2>2, IdleRequest, StartedRequest
    <2> QED
      BY <2>1, <2>3
  <1>4. CASE call.op = "revertTarget"
    <2>1. Goto(c, Reading("revert", MergePatch(history, call.arg)))
      BY <1>4 DEF ReadPatches
    <2> QED
      BY <1>1, <2>1
  <1>5. CASE call.op = "restore"
    <2> DEFINE update == Restored(call.doc, history, call.arg)
               next == Putting(call, call.doc, call.version, update)
    <2>1. Goto(c, Idle) \/ Goto(c, next)
      BY <1>5 DEF ReadPatches
    <2> HIDE DEF update
    <2>2. /\ IsRequest(next) /\ next.entity = call.entity /\ next.op = "restore" /\ next.doc = call.doc
          /\ next.version = call.version /\ next.pc = "put"
      BY <1>0, <1>5, PuttingRequest
    <2> HIDE DEF next
    <2>3. RequestInv(next)
      BY <1>0, <1>5, <2>2 DEF RequestInv, HoldsVersion, HoldsDoc, OnlyItsOwnEdit
    <2> QED
      BY <2>1, <2>2, <2>3, IdleRequest
  <1> QED
    BY <1>0, <1>2, <1>3, <1>4, <1>5 DEF RequestInv

\* putInvEntityUpdate, up to the put.
LEMMA PutKeepsEditInv ==
    ASSUME EditInv, NEW c \in Calls, Put(c)
    PROVE  EditInv'
  <1> DEFINE call == calls[c]
  <1>0. /\ IsRequest(call) /\ UNCHANGED patches
        /\ DOMAIN patches' = Entities /\ \A e \in Entities : DOMAIN patches'[e] = Versions
    BY DEF EditInv, Shapes, Put
  <1>1. CASE InConflict(call)
    <2>1. UNCHANGED <<docs, versions>> /\ ((Goto(c, Retry(call)) /\ call.op \in Retried) \/ Goto(c, Idle))
      BY <1>1 DEF Put
    <2>2. call.op \in Retried => IsRequest(Retry(call)) /\ RequestInv(Retry(call))
      BY StartedRequest DEF Retry, Retried
    <2> QED
      BY <1>0, <2>1, <2>2, IdleRequest, GotoKeepsEditInv
  <1>2. CASE ~InConflict(call)
    <2> DEFINE next == IF NewOps(call) = {} THEN Idle ELSE [call EXCEPT !.pc = "patch"]
    <2>1. Save(call.entity, call.user, call.update) /\ Goto(c, next)
      BY <1>2 DEF Put
    <2>2. IsRequest(next) /\ next.pc \in {"idle", "patch"}
      BY <1>0, IdleRequest DEF IsRequest
    <2> HIDE DEF next
    <2> QED
      BY <1>0, <2>1, <2>2, SaveKeepsEditInv
  <1> QED
    BY <1>1, <1>2

\* The steps of createPatch hold no document that is yet to be put.
LEMMA ContinuationKeepsRequestInv ==
    ASSUME NEW call PROVE IsRequest(Continuation(call)) /\ RequestInv(Continuation(call))
  <1>1. IsRequest(Redirecting(call)) /\ RequestInv(Redirecting(call))
    BY StartedRequest DEF Redirecting
  <1>2. IsRequest(RevertingTarget(call)) /\ RequestInv(RevertingTarget(call))
    BY StartedRequest DEF RevertingTarget
  <1> QED
    BY <1>1, <1>2, IdleRequest DEF Continuation

LEMMA PatchStepsKeepEditInv ==
    ASSUME EditInv, NEW c \in Calls, ReadLastPatch(c) \/ PostPatch(c) \/ FoldPatch(c)
    PROVE  EditInv'
  <1> DEFINE call == calls[c]
  <1>0. /\ IsRequest(call) /\ DOMAIN patches = Entities
        /\ \A e \in Entities : DOMAIN patches[e] = Versions
        /\ UNCHANGED <<docs, versions>>
    BY DEF EditInv, Shapes, ReadLastPatch, PostPatch, FoldPatch
  <1>1. \A v, patch : Write(call, v, patch) =>
            DOMAIN patches' = Entities /\ \A e \in Entities : DOMAIN patches'[e] = Versions
    BY <1>0 DEF Write
  <1>2. UNCHANGED patches => DOMAIN patches' = Entities /\ \A e \in Entities : DOMAIN patches'[e] = Versions
    BY <1>0
  <1>3. CASE ReadLastPatch(c)
    <2> DEFINE last == IF Plan(call) = "post" THEN None
                       ELSE [version |-> Previous(call), patch |-> patches[call.entity][Previous(call)]]
               next == [call EXCEPT !.pc = Plan(call), !.last = last]
    <2>1. Goto(c, next) /\ UNCHANGED patches
      BY <1>3 DEF ReadLastPatch
    <2>2. Plan(call) \in {"post", "delete", "rewrite"}
      BY DEF Plan
    <2> HIDE DEF last
    <2>3. IsRequest(next) /\ next.pc \in {"post", "delete", "rewrite"}
      BY <1>0, <2>2 DEF IsRequest
    <2> HIDE DEF next
    <2> QED
      BY <1>0, <1>2, <2>1, <2>3, LaterRequest, GotoKeepsEditInv
  <1>4. CASE PostPatch(c)
    <2>1. Goto(c, Continuation(call)) /\ \E v, patch : Write(call, v, patch)
      BY <1>4 DEF PostPatch
    <2> QED
      BY <1>0, <1>1, <2>1, ContinuationKeepsRequestInv, GotoKeepsEditInv
  <1>5. CASE FoldPatch(c)
    <2> DEFINE next == [call EXCEPT !.pc = "post", !.last = None]
    <2>1. \/ Goto(c, next) /\ UNCHANGED patches
          \/ Goto(c, Continuation(call)) /\ \E v, patch : Write(call, v, patch)
      BY <1>5 DEF FoldPatch
    <2>2. IsRequest(next) /\ next.pc = "post"
      BY <1>0 DEF IsRequest
    <2> HIDE DEF next
    <2>3. RequestInv(next)
      BY <2>2, LaterRequest
    <2> QED
      BY <1>0, <1>1, <1>2, <2>1, <2>2, <2>3, ContinuationKeepsRequestInv, GotoKeepsEditInv
  <1> QED
    BY <1>3, <1>4, <1>5

\* The arrival of a request, and the post of a new entity.
LEMMA ArrivalsKeepEditInv ==
    ASSUME EditInv, NEW c \in Calls, NEW user, NEW e,
           \/ \E labels \in LabelMaps : Create(c, user, e, labels)
           \/ \E l \in Langs, text \in Labels \cup {None} : UpdateLabel(c, user, e, l, text)
           \/ \E from \in Entities : Merge(c, user, from, e)
           \/ RevertMerge(c, user, e)
           \/ \E v \in Versions : RevertEdit(c, user, e, v) \/ RestoreVersion(c, user, e, v)
    PROVE  EditInv'
  <1>1. ASSUME NEW labels \in LabelMaps, Create(c, user, e, labels) PROVE EditInv'
    <2> DEFINE doc == [labels |-> labels, redirect |-> None]
               next == [Putting(Request("create", "put", user, e, None), Blank, 1, doc) EXCEPT !.pc = "patch"]
    <2>1. Save(e, user, doc) /\ Goto(c, next) /\ UNCHANGED patches
      BY <1>1 DEF Create
    <2>2. IsRequest(next) /\ next.pc = "patch"
      BY DEF IsRequest, Putting, Request
    <2> HIDE DEF next
    <2> QED
      BY <2>1, <2>2, SaveKeepsEditInv
  <1>2. ASSUME NEW op, NEW pc, NEW arg, Accept(c, Request(op, pc, user, e, arg)),
               \/ pc = "read" /\ op \in {"label", "merge", "restore"}
               \/ pc = "patches" /\ op \in {"revert", "revertMerge"}
        PROVE  EditInv'
    <2>1. IsRequest(Request(op, pc, user, e, arg)) /\ RequestInv(Request(op, pc, user, e, arg))
      BY <1>2, StartedRequest
    <2>2. /\ Goto(c, Request(op, pc, user, e, arg)) /\ UNCHANGED <<docs, versions>>
          /\ DOMAIN patches' = Entities /\ \A f \in Entities : DOMAIN patches'[f] = Versions
      BY <1>2 DEF Accept, EditInv, Shapes
    <2> QED
      BY <2>1, <2>2, GotoKeepsEditInv
  <1>3. ASSUME NEW l \in Langs, NEW text \in Labels \cup {None}, UpdateLabel(c, user, e, l, text) PROVE EditInv'
    <2>1. Accept(c, Request("label", "read", user, e, [lang |-> l, text |-> text]))
      BY <1>3 DEF UpdateLabel
    <2> QED
      BY <1>2, <2>1
  <1>4. ASSUME NEW from \in Entities, Merge(c, user, from, e) PROVE EditInv'
    <2>1. Accept(c, Request("merge", "read", user, e, from))
      BY <1>4 DEF Merge
    <2> QED
      BY <1>2, <2>1
  <1>5. CASE RevertMerge(c, user, e)
    BY <1>2, <1>5 DEF RevertMerge
  <1>6. ASSUME NEW v \in Versions, RevertEdit(c, user, e, v) PROVE EditInv'
    BY <1>2, <1>6 DEF RevertEdit
  <1>7. ASSUME NEW v \in Versions, RestoreVersion(c, user, e, v) PROVE EditInv'
    <2>1. Accept(c, Request("restore", "read", user, e, v))
      BY <1>7 DEF RestoreVersion
    <2> QED
      BY <1>2, <2>1
  <1> QED
    BY <1>1, <1>3, <1>4, <1>5, <1>6, <1>7

-----------------------------------------------------------------------------
(* The edits of the requests *)

LEMMA InitEditInv == Init => EditInv
  <1> SUFFICES ASSUME Init PROVE EditInv
    OBVIOUS
  <1>1. Shapes
    BY IdleRequest DEF Init, Shapes, NoHistory
  <1>2. \A c \in Calls : RequestInv(calls[c])
    BY IdleRequest DEF Init
  <1> QED
    BY <1>1, <1>2 DEF EditInv

LEMMA NextEditInv == EditInv /\ [Next]_vars => EditInv'
  <1> SUFFICES ASSUME EditInv, [Next]_vars PROVE EditInv'
    OBVIOUS
  <1>1. CASE Next
    <2>1. PICK c \in Calls :
             \/ Step(c)
             \/ \E user \in Users, e \in Entities :
                   \/ \E labels \in LabelMaps : Create(c, user, e, labels)
                   \/ \E l \in Langs, text \in Labels \cup {None} : UpdateLabel(c, user, e, l, text)
                   \/ \E from \in Entities : Merge(c, user, from, e)
                   \/ RevertMerge(c, user, e)
                   \/ \E v \in Versions : RevertEdit(c, user, e, v) \/ RestoreVersion(c, user, e, v)
      BY <1>1 DEF Next
    <2>2. CASE Step(c)
      BY <2>2, ReadKeepsEditInv, ReadPatchesKeepsEditInv, PutKeepsEditInv, PatchStepsKeepEditInv DEF Step
    <2> QED
      BY <2>1, <2>2, ArrivalsKeepEditInv
  <1>2. CASE UNCHANGED vars
    <2>1. UNCHANGED <<docs, versions, patches, calls>>
      BY <1>2 DEF vars
    <2> QED
      BY <2>1 DEF EditInv, Shapes, RequestInv, HoldsVersion, HoldsDoc, OnlyItsOwnEdit, IsRequest
  <1> QED
    BY <1>1, <1>2

\* The step of a request that puts a document is the put of an edit of the current one.
LEMMA PutIsItsOwn ==
    ASSUME EditInv, Next, NEW c \in Calls, At(c, "put"),
           docs'[calls[c].entity] # docs[calls[c].entity], calls'[c] # calls[c]
    PROVE  OnlyItsOwnEdit(calls[c], docs[calls[c].entity], docs'[calls[c].entity])
  <1> DEFINE call == calls[c]
  <1>1. \A d, next : Goto(d, next) => d = c
    BY DEF Goto, EditInv, Shapes
  <1>2. Put(c)
    <2>1. calls[c] # Idle /\ call.pc = "put"
      BY IdleRequest DEF At
    <2>2. \A d, next : ~(Begin(d) /\ Goto(d, next))
      BY <1>1, <2>1 DEF Begin
    <2>3. \A d, next : ~Accept(d, next)
      BY <2>2 DEF Accept
    <2>4. PICK d \in Calls : Step(d)
      BY <2>2, <2>3 DEF Next, Create, UpdateLabel, Merge, RevertMerge, RevertEdit, RestoreVersion
    <2>5. docs' # docs
      OBVIOUS
    <2>6. Put(d)
      BY <2>4, <2>5 DEF Step, Read, ReadPatches, ReadLastPatch, PostPatch, FoldPatch
    <2>7. \E next : Goto(d, next)
      BY <2>6 DEF Put
    <2> QED
      BY <1>1, <2>6, <2>7
  <1>3. ~InConflict(call) /\ Save(call.entity, call.user, call.update)
    BY <1>2 DEF Put
  <1>4. docs' = [docs EXCEPT ![call.entity] = call.update] /\ docs = [e \in Entities |-> docs[e]]
    BY <1>3 DEF Save, EditInv, Shapes
  <1>5. call.entity \in Entities /\ docs'[call.entity] = call.update
    BY <1>4
  <1>6. RequestInv(call) /\ call.pc = "put"
    BY DEF EditInv, At
  <1>7. call.doc = docs[call.entity]
    BY <1>3, <1>5, <1>6 DEF RequestInv, HoldsDoc, HoldsVersion, InConflict
  <1> QED
    BY <1>5, <1>6, <1>7 DEF RequestInv

\* However many requests interleave with it, an edition changes the document that is current
\* at its put by what its request asked for, and by nothing else.
THEOREM EditsStayTheirOwn == Spec => EditsAreTheirOwn
  <1>1. Init => EditInv
    BY InitEditInv
  <1>2. EditInv /\ [Next]_vars => EditInv'
    BY NextEditInv
  <1>3. EditInv /\ [Next]_vars =>
          [\A c \in Calls :
             At(c, "put") /\ docs'[calls[c].entity] # docs[calls[c].entity] /\ calls'[c] # calls[c] =>
                 OnlyItsOwnEdit(calls[c], docs[calls[c].entity], docs'[calls[c].entity])]_vars
    BY PutIsItsOwn
  <1> QED
    BY <1>1, <1>2, <1>3, PTL DEF Spec, EditsAreTheirOwn

-----------------------------------------------------------------------------
(* Histories that can be replayed *)

\* The version that no request goes beyond.
LastOne == MaxCalls + 1

\* The documents that are ever put: an entity with labels, or a redirection.
GoodDocs ==
    {doc \in Docs : IF doc.labels = None THEN doc.redirect # None ELSE doc.redirect = None /\ doc.labels # NoLabels}

\* The documents after each version, with the patches that lead from one to the next.
Replays(history, after) ==
    /\ after \in [1..LastOne -> GoodDocs \cup {Blank}]
    /\ after[1] = Blank
    /\ \A v \in Versions :
          IF history[v] = None THEN after[v] = after[v - 1]
          ELSE after[v] \in GoodDocs /\ history[v].ops = Diff(after[v - 1], after[v])

LEMMA FirstVersion ==
    ASSUME NEW S, S \subseteq 1..LastOne, S # {}
    PROVE  \E v \in S : \A w \in S : v <= w
  <1> DEFINE R == {p \in Nat \X Nat : p[1] < p[2]}
  <1>1. IsWellFoundedOn(R, Nat)
    BY Zenon, NatLessThanWellFounded DEF OpToRel
  <1>2. S \subseteq Nat
    BY EntitiesAssumption DEF LastOne
  <1>3. PICK v \in S : \A w \in S : ~(<<w, v>> \in R)
    <2> HIDE DEF R
    <2> QED
      BY <1>1, <1>2, WFMin
  <1>4. \A w \in S : ~(w < v)
    BY <1>2, <1>3
  <1> QED
    BY <1>2, <1>4

LEMMA VersionsAre ==
    /\ LastOne \in Nat \ {0} /\ Versions = 2..LastOne
    /\ \A v \in Versions : v \in 1..LastOne /\ v - 1 \in 1..LastOne
    /\ \A v \in 1..LastOne : v = 1 \/ v \in Versions
  BY EntitiesAssumption DEF LastOne, Versions

LEMMA GoodDocsAreDocs ==
    /\ Blank \in Docs /\ GoodDocs \subseteq Docs /\ Blank \notin GoodDocs
    /\ None \notin GoodDocs \cup {Blank}
  BY PatchesAssumption, NoDocAssumption DEF Blank, Docs, GoodDocs, NoLabels, LabelMaps

\* addVersionsSnapshots finds the documents that the patches were computed from.
LEMMA SnapshotsReplay ==
    ASSUME NEW history, NEW after, Replays(history, after)
    PROVE  Snapshots(history, LastOne) = after
  <1> DEFINE Stage(g, v) ==
                IF v = 1 THEN Blank
                ELSE IF history[v] = None THEN g[v - 1]
                ELSE IF g[v - 1] # None /\ Applies(history[v].ops, g[v - 1])
                     THEN Apply(history[v].ops, g[v - 1])
                     ELSE None
             IsReplay(g) == g = [v \in 1..LastOne |-> Stage(g, v)]
  <1>1. ASSUME NEW v \in 1..LastOne
        PROVE  after[v] = Stage(after, v)
    <2>1. CASE v = 1
      BY <2>1 DEF Replays
    <2>2. CASE v \in Versions /\ history[v] = None
      BY <2>2, VersionsAre DEF Replays
    <2>3. CASE v \in Versions /\ history[v] # None
      <3>1. /\ after[v] \in Docs /\ after[v - 1] \in Docs /\ after[v - 1] # None
            /\ history[v].ops = Diff(after[v - 1], after[v])
        BY <2>3, VersionsAre, GoodDocsAreDocs DEF Replays
      <3>2. Applies(history[v].ops, after[v - 1]) /\ Apply(history[v].ops, after[v - 1]) = after[v]
        BY <3>1, DiffApplies
      <3> QED
        BY <2>3, <3>1, <3>2, VersionsAre
    <2> QED
      BY <2>1, <2>2, <2>3, VersionsAre
  <1>2. IsReplay(after)
    <2>1. after = [v \in 1..LastOne |-> after[v]]
      BY DEF Replays
    <2> QED
      BY <1>1, <2>1
  <1> DEFINE snapshots == Snapshots(history, LastOne)
  <1>3. IsReplay(snapshots)
    <2>1. snapshots = CHOOSE g : IsReplay(g)
      BY DEF Snapshots
    <2> HIDE DEF snapshots, IsReplay
    <2> QED
      BY <1>2, <2>1
  <1>4. \A v \in 1..LastOne : snapshots[v] = after[v]
    <2> SUFFICES ASSUME ~ \A v \in 1..LastOne : snapshots[v] = after[v]
                 PROVE  FALSE
      OBVIOUS
    <2> DEFINE D == {v \in 1..LastOne : snapshots[v] # after[v]}
    <2>1. PICK v \in D : \A w \in D : v <= w
      <3>1. D \subseteq 1..LastOne /\ D # {}
        OBVIOUS
      <3> HIDE DEF D
      <3> QED
        BY <3>1, FirstVersion
    <2>2. snapshots[v] = Stage(snapshots, v) /\ after[v] = Stage(after, v)
      <3> HIDE DEF Stage, snapshots
      <3> QED
        BY <1>2, <1>3
    <2>3. v # 1 => snapshots[v - 1] = after[v - 1]
      <3>1. v # 1 => v - 1 \in 1..LastOne /\ ~(v <= v - 1)
        BY VersionsAre
      <3> QED
        BY <2>1, <3>1
    <2>4. Stage(snapshots, v) = Stage(after, v)
      <3> HIDE DEF snapshots
      <3> QED
        BY <2>3
    <2> QED
      BY <2>2, <2>4
  <1>5. snapshots = [v \in 1..LastOne |-> snapshots[v]] /\ after = [v \in 1..LastOne |-> after[v]]
    <2> HIDE DEF snapshots, Stage
    <2> QED
      BY <1>3 DEF Replays
  <1> HIDE DEF snapshots
  <1>6. snapshots = after
    BY <1>4, <1>5
  <1> QED
    BY <1>6 DEF snapshots

\* Without patches after a version, the document stays what it was.
LEMMA StaysAfterLastPatch ==
    ASSUME NEW history, NEW after, Replays(history, after), NEW p \in 1..LastOne,
           \A v \in Versions : history[v] # None => v <= p
    PROVE  \A v \in p..LastOne : after[v] = after[p]
  <1> SUFFICES ASSUME ~ \A v \in p..LastOne : after[v] = after[p]
               PROVE  FALSE
    OBVIOUS
  <1> DEFINE D == {v \in p..LastOne : after[v] # after[p]}
  <1>1. D \subseteq 1..LastOne /\ D # {}
    BY VersionsAre
  <1>2. PICK v \in D : \A w \in D : v <= w
    <2> HIDE DEF D
    <2> QED
      BY <1>1, FirstVersion
  <1>3. /\ v \in Int /\ p \in Int /\ v >= p /\ v # p
        /\ v \in 1..LastOne /\ v \in p..LastOne
    BY <1>2, VersionsAre
  <1>4. v \in Versions /\ v - 1 \in p..LastOne /\ ~(v <= v - 1) /\ ~(v <= p)
    BY <1>3, VersionsAre
  <1>5. after[v - 1] = after[p]
    BY <1>2, <1>4
  <1>6. history[v] = None
    BY <1>4
  <1> QED
    BY <1>2, <1>4, <1>5, <1>6 DEF Replays

\* restoreVersion finds the document that a version had, unless a patch after it does not
\* revert.
LEMMA RestoredReplays ==
    ASSUME NEW history, DOMAIN history = Versions, NEW after, Replays(history, after), NEW version \in Versions
    PROVE  Restored(after[LastOne], history, version) \in {after[version], None}
  <1> DEFINE doc == after[LastOne]
             Stage(g, v) ==
                IF v = LastOne THEN doc
                ELSE IF history[v + 1] = None THEN g[v + 1]
                ELSE IF g[v + 1] # None /\ Reverts(history[v + 1].ops, g[v + 1])
                     THEN Reverted(history[v + 1].ops, g[v + 1])
                     ELSE None
             IsReplay(g) == g = [v \in version..LastOne |-> Stage(g, v)]
             before == CHOOSE g : IsReplay(g)
             Blocked(v) == \E w \in Versions : w > v /\ history[w] # None /\ ~Reverts(history[w].ops, after[w])
             back == [v \in version..LastOne |-> IF Blocked(v) THEN None ELSE after[v]]
  <1>0. /\ version \in Nat /\ LastOne \in Nat /\ version <= LastOne /\ version \in 1..LastOne
        /\ LastOne \in version..LastOne /\ version..LastOne \subseteq Versions
        /\ \A v \in version..LastOne : v \in 1..LastOne /\ (v = LastOne \/ (v + 1 \in Versions /\ v + 1 \in version..LastOne))
    BY VersionsAre
  <1>1. ASSUME NEW v \in version..LastOne
        PROVE  back[v] = Stage(back, v)
    <2>0. back[v] = IF Blocked(v) THEN None ELSE after[v]
      OBVIOUS
    <2>1. CASE v = LastOne
      <3>1. \A w \in Versions : w <= v
        BY <2>1, VersionsAre
      <3>2. ~Blocked(v)
        BY <1>0, <2>1, <3>1, VersionsAre
      <3> QED
        BY <2>0, <2>1, <3>2
    <2>2. CASE v # LastOne
      <3>1. v + 1 \in Versions /\ v + 1 \in version..LastOne /\ v \in 1..LastOne /\ (v + 1) - 1 = v
        BY <2>2, <1>0
      <3>2. back[v + 1] = IF Blocked(v + 1) THEN None ELSE after[v + 1]
        BY <3>1
      <3>3. Blocked(v) <=> Blocked(v + 1) \/ (history[v + 1] # None /\ ~Reverts(history[v + 1].ops, after[v + 1]))
        <4>1. \A w \in Versions : w > v <=> w > v + 1 \/ w = v + 1
          BY <3>1, VersionsAre
        <4> QED
          BY <3>1, <4>1
      <3> HIDE DEF Blocked
      <3>4. CASE history[v + 1] = None
        <4>1. after[v + 1] = after[v]
          BY <3>1, <3>4 DEF Replays
        <4> HIDE DEF back
        <4> QED
          BY <2>0, <2>2, <3>2, <3>3, <3>4, <4>1
      <3>5. CASE history[v + 1] # None
        <4>1. /\ after[v + 1] \in Docs /\ after[v] \in Docs /\ after[v + 1] # None
              /\ history[v + 1].ops = Diff(after[v], after[v + 1])
          BY <3>1, <3>5, <1>0, GoodDocsAreDocs DEF Replays
        <4>2. Reverted(history[v + 1].ops, after[v + 1]) = after[v]
          BY <4>1, PatchRoundTrip
        <4> HIDE DEF back
        <4> QED
          BY <2>0, <2>2, <3>2, <3>3, <3>5, <4>1, <4>2
      <3> QED
        BY <3>4, <3>5
    <2> QED
      BY <2>1, <2>2
  <1>2. IsReplay(back)
    <2>1. back = [v \in version..LastOne |-> back[v]]
      OBVIOUS
    <2> HIDE DEF back, Stage
    <2> QED
      BY <1>1, <2>1
  <1>3. IsReplay(before)
    <2> HIDE DEF back, IsReplay
    <2> QED
      BY <1>2
  <1>4. \A v \in version..LastOne : before[v] = back[v]
    <2> SUFFICES ASSUME ~ \A v \in version..LastOne : before[v] = back[v]
                 PROVE  FALSE
      OBVIOUS
    <2> DEFINE D == {v \in version..LastOne : before[v] # back[v]}
    <2>0. LastOne \notin D
      <3>1. before[LastOne] = Stage(before, LastOne) /\ back[LastOne] = Stage(back, LastOne)
        <4> HIDE DEF Stage, before, back
        <4> QED
          BY <1>0, <1>2, <1>3
      <3> QED
        BY <3>1
    <2>1. PICK v \in D : \A w \in D : w <= v
      <3>1. D \subseteq Versions /\ D # {}
        BY <1>0
      <3> HIDE DEF D
      <3> QED
        BY <3>1, LastVersion
    <2>2. before[v] = Stage(before, v) /\ back[v] = Stage(back, v)
      <3> HIDE DEF Stage, before, back
      <3> QED
        BY <1>2, <1>3, <2>1
    <2>3. v # LastOne /\ v \in version..LastOne
      BY <2>0, <2>1
    <2>4. before[v + 1] = back[v + 1]
      <3>1. v + 1 \in version..LastOne /\ ~(v + 1 <= v)
        BY <1>0, <2>3
      <3> HIDE DEF before, back
      <3> QED
        BY <2>1, <3>1
    <2>5. Stage(before, v) = Stage(back, v)
      <3> HIDE DEF before, back
      <3> QED
        BY <2>4
    <2> QED
      BY <2>1, <2>2, <2>5
  <1>5. before[version] \in {after[version], None}
    <2> HIDE DEF before
    <2> QED
      BY <1>0, <1>4
  <1>6. Restored(doc, history, version) \in {before[version], None}
    BY DEF Restored, LastOne
  <1> QED
    BY <1>5, <1>6

\* A history that leads to a document, in which each patch tells of a version that its author
\* has put, at the latest as the given version.
IsHistory(history, doc, version, puts) ==
    \E after :
        /\ Replays(history, after)
        /\ after[LastOne] = doc
        /\ \A v \in Versions : history[v] # None =>
              \E w \in v..version : puts[w] = [user |-> history[v].user, doc |-> after[v]]

EntityDocs == {doc \in GoodDocs : ~IsRedirection(doc)}

LEMMA EntityDocsAre ==
    /\ \A doc \in EntityDocs : doc \in GoodDocs /\ doc.labels # None /\ doc.labels \in LabelMaps /\ doc.redirect = None
    /\ \A doc \in GoodDocs \cup {Blank} : IsValidEntity(doc) => doc \in EntityDocs
    /\ \A doc \in GoodDocs : doc \in Docs /\ (doc.labels = None <=> IsRedirection(doc)) /\ (IsRedirection(doc) \/ IsValidEntity(doc))
  BY PatchesAssumption DEF EntityDocs, GoodDocs, Docs, IsRedirection, IsValidEntity, Blank

LEMMA EmptyDiff ==
    ASSUME NEW before \in Docs, NEW after \in Docs, Diff(before, after) = {}
    PROVE  before = after
  <1>1. Apply({}, before) = before
    <2>1. before = [labels |-> before.labels, redirect |-> before.redirect] /\ before.labels \in LabelMaps \cup {None}
      BY DEF Docs
    <2>2. \A path, value : Result({}, path, value) = value
      BY DEF Result
    <2>3. before.labels # None => before.labels = [l \in Langs |-> before.labels[l]]
      BY <2>1 DEF LabelMaps
    <2> QED
      BY <2>1, <2>2, <2>3 DEF Apply
  <1> QED
    BY <1>1, DiffApplies

\* What the requests read from the history of an entity.
LEMMA ReadsOfHistory ==
    ASSUME NEW history, DOMAIN history = Versions, NEW doc, NEW version, NEW puts, IsHistory(history, doc, version, puts)
    PROVE  /\ Snapshots(history, LastOne)[LastOne] = doc
           /\ \A v \in Versions : history[v] # None =>
                 \E w \in v..version : puts[w] = [user |-> history[v].user, doc |-> Snapshots(history, LastOne)[v]]
           /\ \A v \in Versions : Restored(doc, history, v) \in EntityDocs \cup {None}
           /\ BeforeRedirect(history) \in EntityDocs \cup {None}
           /\ \A v \in Versions : history[v] # None =>
                 \E x, y \in GoodDocs \cup {Blank} : history[v].ops = Diff(x, y)
  <1>1. PICK after : /\ Replays(history, after) /\ after[LastOne] = doc
                     /\ \A v \in Versions : history[v] # None =>
                           \E w \in v..version : puts[w] = [user |-> history[v].user, doc |-> after[v]]
    BY DEF IsHistory
  <1>2. Snapshots(history, LastOne) = after
    BY <1>1, SnapshotsReplay
  <1>3. ASSUME NEW v \in Versions PROVE Restored(doc, history, v) \in EntityDocs \cup {None}
    <2>1. Restored(doc, history, v) \in {after[v], None}
      BY <1>1, RestoredReplays
    <2>2. Restored(doc, history, v) # None => IsValidEntity(Restored(doc, history, v))
      BY DEF Restored
    <2>3. after[v] \in GoodDocs \cup {Blank}
      BY <1>1, VersionsAre DEF Replays
    <2> QED
      BY <2>1, <2>2, <2>3, EntityDocsAre
  <1>4. BeforeRedirect(history) \in EntityDocs \cup {None}
    <2> SUFFICES ASSUME BeforeRedirect(history) # None PROVE BeforeRedirect(history) \in EntityDocs
      OBVIOUS
    <2>1. PICK v \in Versions : history[v] # None /\ BeforeRedirect(history) = after[v] /\ ~IsRedirection(after[v])
      <3> DEFINE entityVersions == {v \in Patched(history) : after[v] # None /\ ~IsRedirection(after[v])}
                 last == CHOOSE v \in entityVersions : \A w \in entityVersions : w <= v
      <3>1. entityVersions # {} /\ BeforeRedirect(history) = after[last]
        BY <1>2 DEF BeforeRedirect, LastOne
      <3>2. entityVersions \subseteq Versions
        BY DEF Patched
      <3>3. last \in entityVersions
        <4> HIDE DEF entityVersions
        <4> QED
          BY <3>1, <3>2, LastVersion
      <3>4. last \in Versions /\ history[last] # None /\ ~IsRedirection(after[last])
        <4> HIDE DEF last
        <4> QED
          BY <3>3 DEF Patched
      <3> QED
        BY <3>1, <3>4
    <2>2. after[v] \in GoodDocs
      BY <1>1, <2>1 DEF Replays
    <2> QED
      BY <2>1, <2>2 DEF EntityDocs
  <1>5. ASSUME NEW v \in Versions, history[v] # None
        PROVE  \E x, y \in GoodDocs \cup {Blank} : history[v].ops = Diff(x, y)
    <2>1. /\ after[v - 1] \in GoodDocs \cup {Blank} /\ after[v] \in GoodDocs \cup {Blank}
          /\ history[v].ops = Diff(after[v - 1], after[v])
      BY <1>1, <1>5, VersionsAre DEF Replays
    <2> QED
      BY <2>1
  <1> QED
    BY <1>1, <1>2, <1>3, <1>4, <1>5

\* A put leaves the history as it was.
LEMMA PutKeepsHistory ==
    ASSUME NEW history, NEW doc, NEW version \in Nat, NEW puts, DOMAIN puts = Versions, NEW put,
           IsHistory(history, doc, version, puts)
    PROVE  IsHistory(history, doc, version + 1, [puts EXCEPT ![version + 1] = put])
  <1> DEFINE new == [puts EXCEPT ![version + 1] = put]
  <1>1. PICK after : /\ Replays(history, after) /\ after[LastOne] = doc
                     /\ \A v \in Versions : history[v] # None =>
                           \E w \in v..version : puts[w] = [user |-> history[v].user, doc |-> after[v]]
    BY DEF IsHistory
  <1>2. ASSUME NEW v \in Versions, history[v] # None
        PROVE  \E w \in v..(version + 1) : new[w] = [user |-> history[v].user, doc |-> after[v]]
    <2>1. PICK w \in v..version : puts[w] = [user |-> history[v].user, doc |-> after[v]]
      BY <1>1, <1>2
    <2>2. w \in v..(version + 1) /\ w # version + 1
      BY VersionsAre
    <2>3. new[w] = puts[w]
      BY <2>2
    <2> QED
      BY <2>1, <2>2, <2>3
  <1> HIDE DEF new
  <1>3. IsHistory(history, doc, version + 1, new)
    BY <1>1, <1>2 DEF IsHistory
  <1> QED
    BY <1>3 DEF new

\* A history whose last patch is p, and leads from the version before it to an update.
LEMMA WriteExtendsHistory ==
    ASSUME NEW history, DOMAIN history = Versions, NEW after, Replays(history, after), NEW version \in Nat, NEW puts,
           NEW p \in Versions, \A v \in Versions : history[v] # None => v <= p,
           \A v \in Versions : history[v] # None =>
              \E w \in v..version : puts[w] = [user |-> history[v].user, doc |-> after[v]],
           NEW update \in GoodDocs, NEW patch,
           \/ patch = None /\ after[p - 1] = update
           \/ patch # None /\ patch.ops = Diff(after[p - 1], update)
                /\ p <= version /\ puts[version] = [user |-> patch.user, doc |-> update]
    PROVE  IsHistory([history EXCEPT ![p] = patch], update, version, puts)
  <1> DEFINE new == [history EXCEPT ![p] = patch]
             then == [v \in 1..LastOne |-> IF v < p THEN after[v] ELSE update]
  <1>0. /\ p \in Nat /\ LastOne \in Nat /\ p <= LastOne /\ p - 1 < p /\ ~(1 >= p) /\ ~(LastOne < p)
        /\ 1 \in 1..LastOne /\ LastOne \in 1..LastOne /\ p \in 1..LastOne /\ p - 1 \in 1..LastOne
        /\ \A v \in Versions : v \in Nat /\ v \in 1..LastOne /\ v - 1 \in 1..LastOne
                               /\ (v < p => v - 1 < p) /\ (v > p => ~(v - 1 < p))
    BY VersionsAre
  <1>1. /\ \A v \in Versions : v # p => new[v] = history[v]
        /\ new[p] = patch
    OBVIOUS
  <1> HIDE DEF new
  <1>2. Replays(new, then)
    <2>1. then \in [1..LastOne -> GoodDocs \cup {Blank}] /\ then[1] = Blank
      BY <1>0 DEF Replays
    <2>2. ASSUME NEW v \in Versions, v < p
          PROVE  IF new[v] = None THEN then[v] = then[v - 1]
                 ELSE then[v] \in GoodDocs /\ new[v].ops = Diff(then[v - 1], then[v])
      <3>1. new[v] = history[v] /\ then[v] = after[v] /\ then[v - 1] = after[v - 1]
        BY <1>0, <1>1, <2>2
      <3> QED
        BY <3>1 DEF Replays
    <2>3. CASE TRUE
      <3>1. then[p] = update /\ then[p - 1] = after[p - 1]
        BY <1>0
      <3>2. IF new[p] = None THEN then[p] = then[p - 1]
            ELSE then[p] \in GoodDocs /\ new[p].ops = Diff(then[p - 1], then[p])
        BY <1>1, <3>1
      <3>3. ASSUME NEW v \in Versions, v > p
            PROVE  IF new[v] = None THEN then[v] = then[v - 1]
                   ELSE then[v] \in GoodDocs /\ new[v].ops = Diff(then[v - 1], then[v])
        <4>1. new[v] = None
          BY <1>0, <1>1, <3>3
        <4>2. then[v] = update /\ then[v - 1] = update
          BY <1>0, <3>3
        <4> QED
          BY <4>1, <4>2
      <3>4. \A v \in Versions : v < p \/ v = p \/ v > p
        BY <1>0
      <3> HIDE DEF then
      <3> QED
        BY <2>1, <2>2, <3>2, <3>3, <3>4 DEF Replays
    <2> QED
      BY <2>3
  <1>3. then[LastOne] = update
    BY <1>0
  <1>4. ASSUME NEW v \in Versions, new[v] # None
        PROVE  \E w \in v..version : puts[w] = [user |-> new[v].user, doc |-> then[v]]
    <2>1. CASE v = p
      <3>1. patch # None /\ then[v] = update /\ new[v] = patch /\ version \in v..version
        BY <1>0, <1>1, <1>4, <2>1
      <3> QED
        BY <3>1
    <2>2. CASE v # p
      <3>1. new[v] = history[v] /\ v < p
        BY <1>0, <1>1, <1>4, <2>2
      <3>2. then[v] = after[v]
        BY <1>0, <3>1
      <3> HIDE DEF then
      <3> QED
        BY <1>4, <3>1, <3>2
    <2> QED
      BY <2>1, <2>2
  <1> HIDE DEF then
  <1>5. IsHistory(new, update, version, puts)
    BY <1>2, <1>3, <1>4 DEF IsHistory
  <1> QED
    BY <1>5 DEF new

LEMMA DiffIsTyped ==
    ASSUME NEW before \in Docs, NEW after \in Docs
    PROVE  Diff(before, after) \subseteq Changes
  <1>1. /\ before.labels \in LabelMaps \cup {None} /\ after.labels \in LabelMaps \cup {None}
        /\ before.redirect \in Entities \cup {None} /\ after.redirect \in Entities \cup {None}
    BY DEF Docs
  <1>2. ChangesIn("labels", before.labels, after.labels) \subseteq Changes
    BY <1>1 DEF ChangesIn, Change, Changes
  <1>3. ChangesIn("redirect", before.redirect, after.redirect) \subseteq Changes
    BY <1>1 DEF ChangesIn, Change, Changes
  <1>4. before.labels # None /\ after.labels # None => LabelChanges(before.labels, after.labels) \subseteq Changes
    <2> SUFFICES ASSUME before.labels # None, after.labels # None, NEW l \in Langs
                 PROVE  ChangesIn(l, before.labels[l], after.labels[l]) \subseteq Changes
      BY DEF LabelChanges
    <2>1. before.labels[l] \in Labels \cup {None} /\ after.labels[l] \in Labels \cup {None}
      BY <1>1 DEF LabelMaps
    <2> QED
      BY <2>1 DEF ChangesIn, Change, Changes
  <1> QED
    BY <1>2, <1>3, <1>4 DEF Diff

\* createPatch, when the patch of the update is posted.
LEMMA PostExtendsHistory ==
    ASSUME NEW history, DOMAIN history = Versions, NEW doc, NEW version \in Nat, NEW puts,
           version + 1 \in Versions, IsHistory(history, doc, version + 1, puts),
           \A v \in Versions : history[v] # None => v <= version,
           NEW update \in GoodDocs, NEW patch, patch # None, patch.ops = Diff(doc, update),
           puts[version + 1] = [user |-> patch.user, doc |-> update]
    PROVE  IsHistory([history EXCEPT ![version + 1] = patch], update, version + 1, puts)
  <1>1. PICK after : /\ Replays(history, after) /\ after[LastOne] = doc
                     /\ \A v \in Versions : history[v] # None =>
                           \E w \in v..(version + 1) : puts[w] = [user |-> history[v].user, doc |-> after[v]]
    BY DEF IsHistory
  <1>2. /\ version \in 1..LastOne /\ LastOne \in version..LastOne /\ (version + 1) - 1 = version
        /\ version + 1 \in Nat /\ \A v \in Versions : v <= version => v <= version + 1
    BY VersionsAre
  <1>3. after[version] = doc
    BY <1>1, <1>2, StaysAfterLastPatch
  <1> DEFINE p == version + 1
  <1>4. p \in Versions /\ p \in Nat /\ p <= p /\ after[p - 1] = doc /\ \A v \in Versions : history[v] # None => v <= p
    BY <1>2, <1>3
  <1> HIDE DEF p
  <1>5. IsHistory([history EXCEPT ![p] = patch], update, p, puts)
    <2>1. \A v \in Versions : history[v] # None =>
              \E w \in v..p : puts[w] = [user |-> history[v].user, doc |-> after[v]]
      BY <1>1 DEF p
    <2>2. puts[p] = [user |-> patch.user, doc |-> update]
      BY DEF p
    <2>3. /\ patch # None /\ patch.ops = Diff(after[p - 1], update)
          /\ p <= p /\ puts[p] = [user |-> patch.user, doc |-> update]
      BY <1>4, <2>2
    <2> QED
      BY <1>1, <1>4, <2>1, <2>3, WriteExtendsHistory
  <1> QED
    BY <1>5 DEF p

\* The last patch, reverted from the document that the history leads to.
LEMMA RevertsLastPatch ==
    ASSUME NEW history, NEW doc, NEW version, NEW puts, IsHistory(history, doc, version, puts),
           NEW p \in Versions, history[p] # None, \A v \in Versions : history[v] # None => v <= p
    PROVE  \E after :
              /\ Replays(history, after)
              /\ Reverted(history[p].ops, doc) = after[p - 1] /\ after[p - 1] \in Docs
              /\ \A v \in Versions : history[v] # None =>
                    \E w \in v..version : puts[w] = [user |-> history[v].user, doc |-> after[v]]
  <1>1. PICK after : /\ Replays(history, after) /\ after[LastOne] = doc
                     /\ \A v \in Versions : history[v] # None =>
                           \E w \in v..version : puts[w] = [user |-> history[v].user, doc |-> after[v]]
    BY DEF IsHistory
  <1>2. p \in 1..LastOne /\ p - 1 \in 1..LastOne /\ LastOne \in p..LastOne
    BY VersionsAre
  <1>3. after[p] = doc
    BY <1>1, <1>2, StaysAfterLastPatch
  <1>4. after[p] \in Docs /\ after[p - 1] \in Docs /\ history[p].ops = Diff(after[p - 1], after[p])
    BY <1>1, <1>2, GoodDocsAreDocs DEF Replays
  <1>5. Reverted(history[p].ops, doc) = after[p - 1]
    BY <1>3, <1>4, PatchRoundTrip
  <1> QED
    BY <1>1, <1>4, <1>5

\* createPatch, when the last patch is rewritten, or deleted as nothing remains of it.
LEMMA FoldExtendsHistory ==
    ASSUME NEW history, DOMAIN history = Versions, NEW doc, NEW version \in Nat, NEW puts,
           IsHistory(history, doc, version, puts),
           NEW p \in Versions, p <= version, history[p] # None, \A v \in Versions : history[v] # None => v <= p,
           NEW update \in GoodDocs, NEW patch,
           LET ops == Diff(Reverted(history[p].ops, doc), update)
           IN  \/ patch = None /\ ops = {}
               \/ patch # None /\ patch.ops = ops /\ puts[version] = [user |-> patch.user, doc |-> update]
    PROVE  IsHistory([history EXCEPT ![p] = patch], update, version, puts)
  <1>1. PICK after : /\ Replays(history, after)
                     /\ Reverted(history[p].ops, doc) = after[p - 1] /\ after[p - 1] \in Docs
                     /\ \A v \in Versions : history[v] # None =>
                           \E w \in v..version : puts[w] = [user |-> history[v].user, doc |-> after[v]]
    BY RevertsLastPatch
  <1>2. \/ patch = None /\ after[p - 1] = update
        \/ patch # None /\ patch.ops = Diff(after[p - 1], update)
             /\ p <= version /\ puts[version] = [user |-> patch.user, doc |-> update]
    BY <1>1, EmptyDiff, GoodDocsAreDocs
  <1> QED
    BY <1>1, <1>2, WriteExtendsHistory

\* _revertFromPatchDoc: the reversal of a patch leaves an entity, or is refused.
LEMMA UndoneIsAnEntity ==
    ASSUME NEW doc \in GoodDocs, NEW patch, NEW x \in GoodDocs \cup {Blank}, NEW y \in GoodDocs \cup {Blank},
           patch.ops = Diff(x, y)
    PROVE  Undone(doc, patch) \in EntityDocs \cup {None}
  <1> DEFINE ops == Diff(y, x)
  <1> SUFFICES ASSUME Applies(ops, doc), IsValidEntity(Apply(ops, doc))
               PROVE  Apply(ops, doc) \in EntityDocs
    BY InverseOfDiff, GoodDocsAreDocs DEF Undone, Reverts, Reverted
  <1>0. /\ \A d \in GoodDocs \cup {Blank} : /\ d.labels \in LabelMaps \cup {None} /\ d.redirect \in Entities \cup {None}
                                            /\ (d.labels = None <=> d.redirect # None)
        /\ doc \in GoodDocs \cup {Blank}
        /\ None \notin LabelMaps /\ None \notin Entities
    BY PatchesAssumption DEF GoodDocs, Docs, Blank, NoLabels, LabelMaps
  <1> DEFINE result == Apply(ops, doc)
  <1>1. result.labels # None /\ result.labels # NoLabels
    BY DEF IsValidEntity
  <1> SUFFICES result.labels \in LabelMaps /\ result.redirect = None
    <2>1. result = [labels |-> result.labels, redirect |-> result.redirect]
      BY DEF Apply
    <2> HIDE DEF result
    <2>2. result \in EntityDocs
      BY <1>1, <2>1 DEF EntityDocs, GoodDocs, Docs, IsRedirection
    <2> QED
      BY <2>2 DEF result
  <1>2. \A path, from, to : \A c \in ChangesIn(path, from, to) : c = Change(path, from, to) /\ from # to
    BY DEF ChangesIn
  <1>3. \A path, from, to : from # to => Change(path, from, to) \in ChangesIn(path, from, to)
    BY DEF ChangesIn
  <1>4. CASE x.labels # None /\ y.labels # None
    <2>1. ops = LabelChanges(y.labels, x.labels)
      <3>1. x.redirect = None /\ y.redirect = None
        BY <1>0, <1>4
      <3> QED
        BY <1>4, <3>1 DEF Diff, ChangesIn
    <2>2. \A c \in ops : \E l \in Langs : c = Change(l, y.labels[l], x.labels[l])
      BY <1>2, <2>1 DEF LabelChanges
    <2>3. \A c \in ops : c.path \in Langs /\ c.path # "labels" /\ c.path # "redirect" /\ c.to \in Labels \cup {None}
      <3>1. \A l \in Langs : x.labels[l] \in Labels \cup {None}
        BY <1>0, <1>4 DEF LabelMaps
      <3> QED
        BY <2>2, <3>1, PatchesAssumption DEF Change
    <2> HIDE DEF ops
    <2>4. result.redirect = doc.redirect
      BY <2>3 DEF Apply, Result
    <2>5. doc.labels # None
      BY <1>1, <2>3 DEF Apply, Result
    <2>6. result.labels = [l \in Langs |-> Result(ops, l, doc.labels[l])]
      BY <2>3, <2>5 DEF Apply
    <2>7. \A l \in Langs : Result(ops, l, doc.labels[l]) \in Labels \cup {None}
      <3> TAKE l \in Langs
      <3>1. doc.labels[l] \in Labels \cup {None}
        BY <1>0, <2>5 DEF LabelMaps
      <3>2. (\E c \in ops : c.path = l) => (CHOOSE c \in ops : c.path = l) \in ops
        OBVIOUS
      <3> QED
        BY <2>3, <3>1, <3>2 DEF Result
    <2> HIDE DEF result
    <2> QED
      BY <1>0, <2>4, <2>5, <2>6, <2>7 DEF LabelMaps
  <1>5. CASE ~(x.labels # None /\ y.labels # None)
    <2>1. ops = ChangesIn("labels", y.labels, x.labels) \cup ChangesIn("redirect", y.redirect, x.redirect)
      BY <1>5 DEF Diff
    <2>2. \A c \in ops :
             \/ c = Change("labels", y.labels, x.labels) /\ y.labels # x.labels
             \/ c = Change("redirect", y.redirect, x.redirect) /\ y.redirect # x.redirect
      BY <1>2, <2>1
    <2>3. /\ y.labels # x.labels => Change("labels", y.labels, x.labels) \in ops
          /\ y.redirect # x.redirect => Change("redirect", y.redirect, x.redirect) \in ops
      BY <1>3, <2>1
    <2> HIDE DEF ops
    <2>4. result.labels = Result(ops, "labels", doc.labels) \/ (y.labels = x.labels /\ doc.labels # None)
      BY <2>3 DEF Apply, Change
    <2>5. y.labels # x.labels => Result(ops, "labels", doc.labels) = x.labels
      BY <2>2, <2>3 DEF Result, Change
    <2>6. y.labels = x.labels => Result(ops, "labels", doc.labels) = doc.labels
      BY <2>2 DEF Result, Change
    <2>7. y.redirect # x.redirect => Result(ops, "redirect", doc.redirect) = x.redirect
      BY <2>2, <2>3 DEF Result, Change
    <2>8. y.redirect = x.redirect => Result(ops, "redirect", doc.redirect) = doc.redirect
      BY <2>2 DEF Result, Change
    <2>9. result.redirect = Result(ops, "redirect", doc.redirect)
      BY DEF Apply
    <2>10. y.redirect # x.redirect => (y.redirect # None => doc.redirect = y.redirect)
      BY <2>3 DEF Applies, Change
    <2>11. CASE y.labels # x.labels
      <3>1. result.labels = x.labels
        BY <2>4, <2>5, <2>11
      <3>2. x.labels # None /\ y.labels = None /\ x.redirect = None /\ y.redirect # None
        BY <1>0, <1>1, <1>5, <3>1
      <3> HIDE DEF result
      <3> QED
        BY <1>0, <2>7, <2>9, <3>1, <3>2
    <2>12. CASE y.labels = x.labels
      <3>1. y.labels = None /\ x.labels = None /\ y.redirect # None
        BY <1>0, <1>5, <2>12
      <3>2. doc.labels # None /\ doc.redirect = None
        <4>1. doc.labels # None
          BY <1>1, <2>4, <2>6, <2>12
        <4> QED
          BY <1>0, <4>1
      <3>3. y.redirect = x.redirect
        BY <2>10, <3>1, <3>2
      <3>4. ops = {}
        BY <2>2, <2>12, <3>3
      <3>5. result.labels = [l \in Langs |-> doc.labels[l]]
        BY <3>2, <3>4 DEF Apply, Result
      <3>6. result.redirect = None
        BY <2>8, <2>9, <3>2, <3>3
      <3> HIDE DEF result
      <3> QED
        BY <1>0, <3>2, <3>5, <3>6 DEF LabelMaps
    <2> QED
      BY <2>11, <2>12
  <1> QED
    BY <1>4, <1>5

-----------------------------------------------------------------------------
(* One request at a time *)

\* The server handles one request at a time.
OneCall == \A c, d \in Calls : c = d

\* The steps of createPatch: the document is put, and its patch is still to come.
Writing == {"patch", "post", "delete", "rewrite"}

\* A document has at least the labels of another one.
Covers(doc, other) == \A l \in Langs : other.labels[l] # None => doc.labels[l] # None

\* The documents, the patches and the bounds on the versions.
DatabasesInv ==
    /\ DOMAIN log = Entities
    /\ \A e \in Entities : DOMAIN log[e] = Versions
    /\ count \in 0..MaxCalls
    /\ \A e \in Entities :
          /\ docs[e] \in GoodDocs \cup {None}
          /\ \A v \in Versions :
                /\ patches[e][v] \in Patches \cup {None}
                /\ patches[e][v] # None => Exists(e) /\ v <= versions[e]
          /\ 1 <= versions[e] /\ versions[e] <= count + 1
          /\ ~Exists(e) => versions[e] = 1

\* Whom a request is from, and about which entity.
StageInv(call) ==
    /\ call.op \in Operations /\ call.pc \in Steps
    /\ call.pc # "idle" =>
          call.user \in Users /\ call.entity \in Entities /\ (call.op = "revertTarget" \/ Exists(call.entity))
    /\ call.op = "revertTarget" => call.pc = "patches"
    /\ call.pc \in {"read", "put"} =>
          call.op \in {"label", "merge", "redirect", "revertMerge", "revert", "restore"}

\* What the argument of a request is when it still needs it.
ArgumentInv(call) ==
    /\ call.op = "label" /\ call.pc = "read" => call.arg.lang \in Langs /\ call.arg.text \in Labels \cup {None}
    /\ call.op \in {"merge", "redirect"} => call.arg \in Entities /\ call.arg # call.entity /\ Exists(call.arg)
    /\ call.op = "merge" /\ call.pc \in {"put"} \cup Writing =>
          ~IsRedirection(call.update) /\ ~IsRedirection(docs[call.arg]) /\ Covers(call.update, docs[call.arg])
    /\ call.op = "redirect" /\ call.pc \in {"read", "put"} =>
          /\ ~IsRedirection(docs[call.arg])
          /\ ~IsRedirection(docs[call.entity]) => Covers(docs[call.arg], docs[call.entity])
    /\ call.op = "revertMerge" /\ call.pc = "read" => call.arg \in EntityDocs
    /\ call.op = "revertMerge" /\ call.pc \in {"put"} \cup Writing => IsRedirection(call.doc)
    /\ call.op = "revert" /\ call.pc = "patches" => call.arg \in Versions
    /\ call.op = "revert" /\ call.pc = "read" =>
          \E x, y \in GoodDocs \cup {Blank} : call.arg.ops = Diff(x, y)
    /\ call.op = "restore" => call.arg \in Versions

\* A request holds the current document until it puts it, and the update is an entity, or the
\* redirection of one.
PutInv(call) ==
    /\ HoldsDoc(call) => call.doc = docs[call.entity] /\ call.version = versions[call.entity]
    /\ call.pc = "put" =>
          IF call.op = "redirect" THEN call.update = RedirectionTo(call.arg) /\ ~IsRedirection(call.doc)
          ELSE call.update \in EntityDocs

\* The patches of the edited entity lead to the document that the update has replaced.
WritingInv(call) ==
    call.pc \in Writing =>
        /\ call.version \in Nat \ {0} /\ versions[call.entity] = call.version + 1
        /\ docs[call.entity] = call.update
        /\ log[call.entity][call.version + 1] = [user |-> call.user, doc |-> call.update]
        /\ \A v \in Versions : patches[call.entity][v] # None => v <= call.version
        /\ IsHistory(patches[call.entity], call.doc, versions[call.entity], log[call.entity])

\* The patch to be folded is the last one.
FoldingInv(call) ==
    call.pc \in {"delete", "rewrite"} =>
        /\ call.last.version \in Versions
        /\ call.last.patch # None /\ call.last.patch = patches[call.entity][call.last.version]
        /\ \A v \in Versions : patches[call.entity][v] # None => v <= call.last.version
        /\ call.last.patch.user = call.user
        /\ call.pc = "delete" => Aggregated(call, call.last.patch) = {}

CallInv(call) ==
    StageInv(call) /\ ArgumentInv(call) /\ PutInv(call) /\ WritingInv(call) /\ FoldingInv(call)

\* The entities that a request has still to put.
StillToPut(call) ==
    {e \in Entities :
        \/ call.pc \in {"read", "patches", "put"} /\ e = call.entity
        \/ call.op = "merge" /\ e = call.arg
        \/ call.op = "revertMerge" /\ call.pc \in {"read", "patches"} /\ e = docs[call.entity].redirect
        \/ call.op = "revertMerge" /\ call.pc \in {"put"} \cup Writing /\ e = call.doc.redirect}

\* A request puts an entity at most once.
Budget(call, requests) == \A e \in StillToPut(call) : versions[e] <= requests

\* The patches of an entity that is not being edited lead to its document.
HistoriesInv ==
    \A e \in Entities :
        Exists(e) /\ (\A c \in Calls : calls[c].pc \in Writing => calls[c].entity # e) =>
            IsHistory(patches[e], docs[e], versions[e], log[e])

SerialInv ==
    /\ EditInv /\ DatabasesInv
    /\ \A c \in Calls : CallInv(calls[c]) /\ (calls[c].pc # "idle" => Budget(calls[c], count))
    /\ HistoriesInv
    /\ NoCircularRedirection

LEMMA IdleIsSound == CallInv(Idle) /\ Idle.pc = "idle" /\ Idle.op = "none" /\ Idle.user = None
  BY DEF CallInv, StageInv, ArgumentInv, PutInv, WritingInv, FoldingInv, Idle, Request, Operations, Steps, HoldsDoc, Writing

\* A step that changes no database and takes the only request to another one that is sound.
LEMMA GotoKeepsSerialInv ==
    ASSUME OneCall, SerialInv, EditInv', NEW c \in Calls, NEW next, Goto(c, next),
           UNCHANGED <<docs, versions, patches, log>>, CallInv(next),
           count' \in {count, count + 1} /\ count' <= MaxCalls,
           next.pc # "idle" => Budget(next, count'),
           next.pc \in Writing <=> calls[c].pc \in Writing,
           next.pc \in Writing => next.entity = calls[c].entity
    PROVE  SerialInv'
  <1>1. calls'[c] = next /\ \A d \in Calls : d = c
    BY DEF OneCall, SerialInv, EditInv, Shapes, Goto
  <1>2. DatabasesInv'
    <2>1. count \in Nat /\ count' \in 0..MaxCalls /\ count + 1 <= count' + 1 /\ MaxCalls \in Nat
      BY EntitiesAssumption DEF SerialInv, DatabasesInv
    <2>2. \A e \in Entities : versions[e] \in Nat /\ versions[e] <= count' + 1
      BY <2>1 DEF SerialInv, DatabasesInv, EditInv, Shapes
    <2> QED
      BY <2>1, <2>2 DEF SerialInv, DatabasesInv, Exists
  <1>3. CallInv(next)'
    BY DEF CallInv, StageInv, ArgumentInv, PutInv, WritingInv, FoldingInv, HoldsDoc, Exists, Aggregated
  <1>4. next.pc # "idle" => Budget(next, count)'
    BY DEF Budget, StillToPut
  <1>5. HistoriesInv'
    BY <1>1 DEF SerialInv, HistoriesInv, Exists
  <1>6. NoCircularRedirection'
    BY DEF SerialInv, NoCircularRedirection, Exists
  <1>7. \A d \in Calls : CallInv(calls[d])' /\ (calls'[d].pc # "idle" => Budget(calls[d], count)')
    <2> SUFFICES CallInv(calls[c])' /\ (calls'[c].pc # "idle" => Budget(calls[c], count)')
      BY <1>1
    <2>1. CallInv(calls[c])'
      BY <1>1, <1>3 DEF CallInv, StageInv, ArgumentInv, PutInv, WritingInv, FoldingInv, HoldsDoc, Exists, Aggregated
    <2>2. calls'[c].pc # "idle" => Budget(calls[c], count)'
      BY <1>1, <1>4 DEF Budget, StillToPut
    <2> QED
      BY <2>1, <2>2
  <1> QED
    BY <1>2, <1>5, <1>6, <1>7 DEF SerialInv

\* No chain of redirections is closed by the put of a document: the entity it redirects to is
\* another one, which is no redirection.
LEMMA SaveKeepsNoCircularRedirection ==
    ASSUME SerialInv, NEW e \in Entities, NEW update,
           docs'[e] = update, \A f \in Entities \ {e} : docs'[f] = docs[f],
           IsRedirection(update) =>
              update.redirect # e /\ ~(Exists(update.redirect) /\ IsRedirection(docs[update.redirect]))
    PROVE  NoCircularRedirection'
  <1> SUFFICES ASSUME NEW group \in (SUBSET Entities) \ {{}}
               PROVE  \E f \in group : docs'[f] # None => docs'[f].redirect \notin group
    BY DEF NoCircularRedirection, Exists
  <1>0. None \notin group
    BY PatchesAssumption
  <1>1. CASE e \notin group
    <2>1. PICK f \in group : Exists(f) => docs[f].redirect \notin group
      BY DEF SerialInv, NoCircularRedirection
    <2> QED
      BY <1>1, <2>1 DEF Exists
  <1>2. CASE e \in group /\ update.redirect \notin group
    BY <1>2
  <1>3. CASE e \in group /\ update.redirect \in group
    <2>1. IsRedirection(update) /\ update.redirect # e
      BY <1>0, <1>3 DEF IsRedirection
    <2>2. docs'[update.redirect] = docs[update.redirect]
      BY <1>3, <2>1
    <2>3. docs[update.redirect] # None => docs[update.redirect].redirect \notin group
      BY <1>0, <2>1 DEF IsRedirection, Exists
    <2> QED
      BY <1>3, <2>2, <2>3
  <1> QED
    BY <1>1, <1>2, <1>3

\* A put, after which the patch of the update is to be written unless nothing has changed.
LEMMA SaveKeepsSerialInv ==
    ASSUME OneCall, SerialInv, EditInv', NEW c \in Calls, calls[c].pc \notin Writing, NEW next, Goto(c, next),
           NEW e \in Entities, NEW user \in Users, NEW update \in GoodDocs, NEW doc, Save(e, user, update),
           UNCHANGED patches,
           count' \in {count, count + 1}, count' <= MaxCalls, versions[e] <= count',
           IsHistory(patches[e], doc, versions[e], log[e]),
           IsRedirection(update) =>
              update.redirect # e /\ ~(Exists(update.redirect) /\ IsRedirection(docs[update.redirect])),
           \/ next = Idle /\ update = doc
           \/ /\ next.op \in Operations \ {"revertTarget"} /\ next.pc = "patch" /\ next.user = user /\ next.entity = e
              /\ next.doc = doc /\ next.version = versions[e] /\ next.update = update
              /\ next.op \in {"merge", "redirect"} => next.arg \in Entities /\ next.arg # e /\ Exists(next.arg)
              /\ next.op = "merge" =>
                    /\ ~IsRedirection(update) /\ ~IsRedirection(docs[next.arg]) /\ Covers(update, docs[next.arg])
                    /\ versions[next.arg] <= count'
              /\ next.op = "revertMerge" =>
                    /\ IsRedirection(doc) /\ doc.redirect # e
                    /\ doc.redirect \in Entities => versions[doc.redirect] <= count'
              /\ next.op = "restore" => next.arg \in Versions
    PROVE  SerialInv'
  <1> DEFINE version == versions[e]
             put == [user |-> user, doc |-> update]
  <1>1. calls'[c] = next /\ \A d \in Calls : d = c
    BY DEF OneCall, SerialInv, EditInv, Shapes, Goto
  <1>2. /\ version \in Nat /\ 1 <= version /\ version + 1 \in Versions /\ version <= version + 1
        /\ count' \in 0..MaxCalls /\ count + 1 <= count' + 1 /\ version + 1 <= count' + 1 /\ 1 <= version + 1
    BY EntitiesAssumption DEF SerialInv, DatabasesInv, EditInv, Shapes, Versions
  <1>3. /\ docs'[e] = update /\ versions'[e] = version + 1
        /\ log' = [log EXCEPT ![e][version + 1] = put]
        /\ \A f \in Entities \ {e} : docs'[f] = docs[f] /\ versions'[f] = versions[f]
    BY DEF Save, SerialInv, EditInv, Shapes
  <1>4. /\ log'[e] = [log[e] EXCEPT ![version + 1] = put] /\ log'[e][version + 1] = put
        /\ \A f \in Entities \ {e} : log'[f] = log[f]
        /\ DOMAIN log' = Entities /\ \A f \in Entities : DOMAIN log'[f] = Versions
    BY <1>2, <1>3 DEF SerialInv, DatabasesInv
  <1>5. update # None
    BY GoodDocsAreDocs
  <1>6. IsHistory(patches'[e], doc, versions'[e], log'[e])
    <2>1. DOMAIN log[e] = Versions
      BY DEF SerialInv, DatabasesInv
    <2> HIDE DEF version, put
    <2>2. IsHistory(patches[e], doc, version + 1, [log[e] EXCEPT ![version + 1] = put])
      BY <1>2, <2>1, PutKeepsHistory DEF version
    <2> QED
      BY <1>3, <1>4, <2>2
  <1>7. DatabasesInv'
    <2>1. ASSUME NEW f \in Entities
          PROVE  /\ docs'[f] \in GoodDocs \cup {None}
                 /\ \A v \in Versions :
                       /\ patches'[f][v] \in Patches \cup {None}
                       /\ patches'[f][v] # None => docs'[f] # None /\ v <= versions'[f]
                 /\ 1 <= versions'[f] /\ versions'[f] <= count' + 1
                 /\ docs'[f] = None => versions'[f] = 1
      <3>1. CASE f = e
        <4>1. \A v \in Versions : patches[e][v] # None => v <= version + 1
          BY <1>2, VersionsAre DEF SerialInv, DatabasesInv
        <4> HIDE DEF version
        <4> QED
          BY <1>2, <1>3, <1>5, <3>1, <4>1 DEF SerialInv, DatabasesInv
      <3>2. CASE f # e
        <4>1. versions[f] \in Nat /\ versions[f] <= count + 1 /\ count \in Nat
          BY DEF SerialInv, DatabasesInv, EditInv, Shapes
        <4>2. versions[f] <= count' + 1
          BY <1>2, <4>1
        <4> QED
          BY <1>3, <3>2, <4>2 DEF SerialInv, DatabasesInv, Exists
      <3> QED
        BY <3>1, <3>2
    <2> QED
      BY <1>2, <1>4, <2>1 DEF DatabasesInv, Exists
  <1>8. NoCircularRedirection'
    BY <1>3, SaveKeepsNoCircularRedirection
  <1>9. HistoriesInv'
    <2> SUFFICES ASSUME NEW f \in Entities, docs'[f] # None, ~(next.pc \in Writing /\ next.entity = f)
                 PROVE  IsHistory(patches'[f], docs'[f], versions'[f], log'[f])
      BY <1>1 DEF HistoriesInv, Exists
    <2>1. CASE f = e
      <3>1. update = doc
        BY <2>1 DEF Writing
      <3> QED
        BY <1>3, <1>6, <2>1, <3>1
    <2>2. CASE f # e
      <3>1. IsHistory(patches[f], docs[f], versions[f], log[f])
        BY <1>1, <1>3, <2>2 DEF SerialInv, HistoriesInv, Exists
      <3> QED
        BY <1>3, <1>4, <2>2, <3>1
    <2> QED
      BY <2>1, <2>2
  <1>10. CallInv(calls[c])' /\ (calls'[c].pc # "idle" => Budget(calls[c], count)')
    <2>1. CASE next = Idle
      BY <1>1, <2>1, IdleIsSound DEF CallInv, StageInv, ArgumentInv, PutInv, WritingInv, FoldingInv, HoldsDoc, Writing
    <2>2. CASE next # Idle
      <3>0. /\ next.op \in Operations \ {"revertTarget"} /\ next.pc = "patch" /\ next.user = user /\ next.entity = e
            /\ next.doc = doc /\ next.version = versions[e] /\ next.update = update
        BY <2>2
      <3>1. StageInv(calls[c])'
        BY <1>1, <1>3, <1>5, <3>0 DEF StageInv, Steps, Exists
      <3>2. ArgumentInv(calls[c])'
        BY <1>1, <1>3, <2>2, <3>0 DEF ArgumentInv, Exists, Writing
      <3>3. PutInv(calls[c])' /\ FoldingInv(calls[c])'
        BY <1>1, <3>0 DEF PutInv, HoldsDoc, FoldingInv
      <3>4. WritingInv(calls[c])'
        <4>1. \A v \in Versions : patches[e][v] # None => v <= version
          BY DEF SerialInv, DatabasesInv
        <4> HIDE DEF version
        <4> QED
          BY <1>1, <1>2, <1>3, <1>4, <1>6, <3>0, <4>1 DEF WritingInv, version
      <3>5. Budget(calls[c], count)'
        <4> SUFFICES ASSUME NEW f \in Entities,
                            (next.op = "merge" /\ f = next.arg) \/ (next.op = "revertMerge" /\ f = doc.redirect)
                     PROVE  versions'[f] <= count'
          BY <1>1, <3>0 DEF Budget, StillToPut
        <4> QED
          BY <1>3, <2>2
      <3> QED
        BY <3>1, <3>2, <3>3, <3>4, <3>5 DEF CallInv
    <2> QED
      BY <2>1, <2>2
  <1>11. \A d \in Calls : CallInv(calls[d])' /\ (calls'[d].pc # "idle" => Budget(calls[d], count)')
    BY <1>1, <1>10
  <1> QED
    BY <1>7, <1>8, <1>9, <1>11 DEF SerialInv

\* The documents of a moment give updates that are entities, or the redirection to one that
\* has the labels of the redirected one.
LEMMA UpdateIsSound ==
    ASSUME SerialInv, NEW call, CallInv(call), call.pc = "read", call.op # "restore", Update(call) # None
    PROVE  /\ call.op = "redirect" => Update(call) = RedirectionTo(call.arg) /\ ~IsRedirection(docs[call.entity])
           /\ call.op # "redirect" => Update(call) \in EntityDocs
           /\ call.op = "merge" =>
                 /\ ~IsRedirection(docs[call.arg]) /\ Covers(Update(call), docs[call.arg])
                 /\ ~IsRedirection(docs[call.entity])
           /\ call.op = "revertMerge" => IsRedirection(docs[call.entity])
  <1> DEFINE doc == docs[call.entity]
  <1>0. /\ call.op \in {"label", "merge", "redirect", "revertMerge", "revert"}
        /\ doc \in GoodDocs /\ ArgumentInv(call)
    BY DEF CallInv, StageInv, Exists, SerialInv, DatabasesInv
  <1>1. \A d \in GoodDocs : ~IsRedirection(d) =>
            d.labels \in LabelMaps /\ d.labels # NoLabels /\ d.redirect = None /\ d.labels # None
            /\ d = [labels |-> d.labels, redirect |-> d.redirect]
    BY PatchesAssumption DEF GoodDocs, Docs, IsRedirection
  <1>2. \A labels : labels \in LabelMaps /\ labels # NoLabels => [labels |-> labels, redirect |-> None] \in EntityDocs
    BY PatchesAssumption DEF EntityDocs, GoodDocs, Docs, IsRedirection
  <1>3. CASE call.op = "label"
    <2> DEFINE labels == [doc.labels EXCEPT ![call.arg.lang] = call.arg.text]
    <2>1. Update(call) = Labelled(doc, call.arg.lang, call.arg.text)
      BY <1>3 DEF Update
    <2>2. /\ ~IsRedirection(doc) /\ labels # NoLabels
          /\ Update(call) = [doc EXCEPT !.labels[call.arg.lang] = call.arg.text]
      BY <2>1 DEF Labelled
    <2>3. doc.labels \in LabelMaps /\ doc.redirect = None /\ doc = [labels |-> doc.labels, redirect |-> None]
      BY <1>0, <1>1, <2>2
    <2>4. labels \in LabelMaps
      BY <1>0, <1>3, <2>3 DEF ArgumentInv, LabelMaps
    <2>5. Update(call) = [labels |-> labels, redirect |-> None]
      BY <2>2, <2>3
    <2> HIDE DEF labels
    <2> QED
      BY <1>2, <1>3, <2>2, <2>4, <2>5
  <1>4. CASE call.op = "merge"
    <2> DEFINE from == docs[call.arg]
               labels == Filled(doc.labels, from.labels)
    <2>1. Update(call) = Merged(from, doc)
      BY <1>4 DEF Update
    <2>2. ~IsRedirection(doc) /\ ~IsRedirection(from) /\ Update(call) = [labels |-> labels, redirect |-> None]
      BY <2>1 DEF Merged
    <2>3. from \in GoodDocs
      BY <1>0, <1>4 DEF ArgumentInv, SerialInv, DatabasesInv, Exists
    <2>4. from.labels \in LabelMaps /\ doc.labels \in LabelMaps /\ doc.labels # NoLabels
      BY <1>0, <1>1, <2>2, <2>3
    <2>5. labels \in LabelMaps
      BY <2>4 DEF Filled, LabelMaps
    <2>6. labels # NoLabels
      <3>1. PICK l \in Langs : doc.labels[l] # None
        BY <2>4 DEF LabelMaps, NoLabels
      <3>2. labels[l] # None
        BY <3>1 DEF Filled
      <3> QED
        BY <3>2 DEF NoLabels
    <2>7. \A l \in Langs : from.labels[l] # None => labels[l] # None
      BY DEF Filled
    <2> HIDE DEF labels, from
    <2>8. Covers(Update(call), from)
      BY <2>2, <2>7 DEF Covers
    <2> QED
      BY <1>2, <1>4, <2>2, <2>5, <2>6, <2>8 DEF from
  <1>5. CASE call.op = "redirect"
    BY <1>5 DEF Update
  <1>6. CASE call.op = "revertMerge"
    BY <1>0, <1>6 DEF Update, ArgumentInv, CallInv
  <1>7. CASE call.op = "revert"
    <2>1. Update(call) = Undone(doc, call.arg)
      BY <1>7 DEF Update
    <2>2. PICK x, y \in GoodDocs \cup {Blank} : call.arg.ops = Diff(x, y)
      BY <1>0, <1>7 DEF ArgumentInv
    <2>3. Update(call) \in EntityDocs \cup {None}
      BY <1>0, <2>1, <2>2, UndoneIsAnEntity
    <2> QED
      BY <1>7, <2>3
  <1> QED
    BY <1>0, <1>3, <1>4, <1>5, <1>6, <1>7

\* getEntityById and the update computed from it.
LEMMA ReadKeepsSerialInv ==
    ASSUME OneCall, SerialInv, EditInv', NEW c \in Calls, Read(c)
    PROVE  SerialInv'
  <1> DEFINE call == calls[c]
             doc == docs[call.entity]
             version == versions[call.entity]
  <1>0. /\ IsRequest(call) /\ CallInv(call) /\ call.pc = "read" /\ Budget(call, count)
        /\ UNCHANGED <<docs, versions, patches, log, count>> /\ call.pc \notin Writing
        /\ count' \in {count, count + 1} /\ count' <= MaxCalls /\ call.entity \in Entities
    BY EntitiesAssumption DEF SerialInv, EditInv, Shapes, Read, At, Writing, CallInv, StageInv, DatabasesInv
  <1> SUFFICES \E next : /\ Goto(c, next) /\ CallInv(next) /\ next.pc \notin Writing
                         /\ next.pc # "idle" => Budget(next, count)
    BY <1>0, GotoKeepsSerialInv
  <1>1. StageInv(call) /\ ArgumentInv(call)
    BY <1>0 DEF CallInv
  <1>2. CASE call.op = "restore"
    <2> DEFINE next == [Putting(call, doc, version, None) EXCEPT !.pc = "patches"]
    <2>1. Goto(c, next)
      BY <1>2 DEF Read
    <2>2. /\ IsRequest(next) /\ next.entity = call.entity /\ next.op = "restore" /\ next.doc = doc
          /\ next.version = version /\ next.pc = "patches" /\ next.user = call.user /\ next.arg = call.arg
      BY <1>0, <1>2 DEF IsRequest, Putting
    <2> HIDE DEF next
    <2>3. CallInv(next)
      BY <1>0, <1>1, <1>2, <2>2 DEF CallInv, StageInv, ArgumentInv, PutInv, WritingInv, FoldingInv, HoldsDoc, Writing, Steps, Operations
    <2>4. Budget(next, count)
      BY <1>0, <1>2, <2>2 DEF Budget, StillToPut
    <2> QED
      BY <2>1, <2>2, <2>3, <2>4 DEF Writing
  <1>3. CASE call.op # "restore" /\ Update(call) = None
    <2>1. Goto(c, Idle)
      BY <1>3 DEF Read
    <2> QED
      BY <2>1, IdleIsSound DEF Writing
  <1>4. CASE /\ call.op # "restore" /\ Update(call) # None
             /\ call.op = "merge" /\ Update(call) = doc
    <2> DEFINE next == Redirecting(call)
    <2>1. Goto(c, next)
      BY <1>4 DEF Read
    <2>2. /\ next.op = "redirect" /\ next.pc = "read" /\ next.user = call.user
          /\ next.entity = call.arg /\ next.arg = call.entity
      BY DEF Redirecting, Request
    <2>3. ~IsRedirection(doc) /\ Covers(doc, docs[call.arg])
      BY <1>0, <1>4, UpdateIsSound
    <2>4. call.arg \in Entities /\ call.arg # call.entity /\ Exists(call.arg) /\ Exists(call.entity)
      BY <1>0, <1>1, <1>4 DEF ArgumentInv, StageInv
    <2> HIDE DEF next
    <2>5. CallInv(next)
      BY <1>0, <1>1, <2>2, <2>3, <2>4 DEF CallInv, StageInv, ArgumentInv, PutInv, WritingInv, FoldingInv, HoldsDoc, Writing, Steps, Operations
    <2>6. Budget(next, count)
      BY <1>0, <1>4, <2>2 DEF Budget, StillToPut
    <2> QED
      BY <2>1, <2>2, <2>5, <2>6 DEF Writing
  <1>5. CASE /\ call.op # "restore" /\ Update(call) # None
             /\ ~(call.op = "merge" /\ Update(call) = doc)
    <2> DEFINE next == Putting(call, doc, version, Update(call))
    <2>1. Goto(c, next)
      BY <1>5 DEF Read
    <2>2. /\ next.entity = call.entity /\ next.op = call.op /\ next.arg = call.arg /\ next.user = call.user
          /\ next.doc = doc /\ next.version = version /\ next.update = Update(call) /\ next.pc = "put"
      BY <1>0 DEF IsRequest, Putting
    <2>3. /\ call.op = "redirect" => Update(call) = RedirectionTo(call.arg) /\ ~IsRedirection(doc)
          /\ call.op # "redirect" => Update(call) \in EntityDocs
          /\ call.op = "merge" =>
                ~IsRedirection(docs[call.arg]) /\ Covers(Update(call), docs[call.arg])
          /\ call.op = "revertMerge" => IsRedirection(doc)
      BY <1>0, <1>5, UpdateIsSound
    <2> HIDE DEF next
    <2>4. CallInv(next)
      BY <1>0, <1>1, <1>5, <2>2, <2>3 DEF CallInv, StageInv, ArgumentInv, PutInv, WritingInv, FoldingInv, HoldsDoc, Writing, Steps, Operations, EntityDocs
    <2>5. Budget(next, count)
      BY <1>0, <1>5, <2>2 DEF Budget, StillToPut
    <2> QED
      BY <2>1, <2>2, <2>4, <2>5 DEF Writing
  <1> QED
    BY <1>2, <1>3, <1>4, <1>5

\* getPatchesByEntityId or getPatchById.
LEMMA ReadPatchesKeepsSerialInv ==
    ASSUME OneCall, SerialInv, EditInv', NEW c \in Calls, ReadPatches(c)
    PROVE  SerialInv'
  <1> DEFINE call == calls[c]
             history == patches[call.entity]
             Reading(op, arg) == IF arg = None THEN Idle ELSE Request(op, "read", call.user, call.entity, arg)
  <1>0. /\ IsRequest(call) /\ CallInv(call) /\ RequestInv(call) /\ call.pc = "patches" /\ Budget(call, count)
        /\ UNCHANGED <<docs, versions, patches, log, count>> /\ call.pc \notin Writing
        /\ count' \in {count, count + 1} /\ count' <= MaxCalls
        /\ call.entity \in Entities /\ call.user \in Users
    BY EntitiesAssumption DEF SerialInv, EditInv, Shapes, ReadPatches, At, Writing, CallInv, StageInv, DatabasesInv
  <1> SUFFICES \E next : /\ Goto(c, next) /\ CallInv(next) /\ next.pc \notin Writing
                         /\ next.pc # "idle" => Budget(next, count)
    BY <1>0, GotoKeepsSerialInv
  <1>1. StageInv(call) /\ ArgumentInv(call) /\ PutInv(call)
    BY <1>0 DEF CallInv
  <1>2. DOMAIN history = Versions /\ \A v \in Versions : history[v] # None => Exists(call.entity)
    BY <1>0 DEF SerialInv, EditInv, Shapes, DatabasesInv
  <1>3. Exists(call.entity) => IsHistory(history, docs[call.entity], versions[call.entity], log[call.entity])
    BY <1>0 DEF OneCall, SerialInv, HistoriesInv
  <1>4. ASSUME NEW v \in Versions
        PROVE  /\ CallInv(Reading("revert", history[v])) /\ Reading("revert", history[v]).pc \notin Writing
               /\ Reading("revert", history[v]).pc # "idle" => Budget(Reading("revert", history[v]), count)
    <2>1. CASE history[v] = None
      BY <2>1, IdleIsSound DEF Writing
    <2>2. CASE history[v] # None
      <3> DEFINE next == Request("revert", "read", call.user, call.entity, history[v])
      <3>1. /\ next.op = "revert" /\ next.pc = "read" /\ next.user = call.user
            /\ next.entity = call.entity /\ next.arg = history[v]
        BY DEF Request
      <3>2. Exists(call.entity) /\ \E x, y \in GoodDocs \cup {Blank} : history[v].ops = Diff(x, y)
        BY <1>2, <1>3, <2>2, ReadsOfHistory
      <3> HIDE DEF next
      <3>3. CallInv(next)
        BY <1>0, <3>1, <3>2 DEF CallInv, StageInv, ArgumentInv, PutInv, WritingInv, FoldingInv, HoldsDoc, Writing, Steps, Operations
      <3>4. Budget(next, count)
        BY <1>0, <3>1 DEF Budget, StillToPut
      <3> QED
        BY <2>2, <3>1, <3>3, <3>4 DEF Writing, next
    <2> QED
      BY <2>1, <2>2
  <1>5. CASE call.op = "revert"
    <2>1. Goto(c, Reading("revert", history[call.arg]))
      BY <1>5 DEF ReadPatches
    <2>2. call.arg \in Versions
      BY <1>0, <1>1, <1>5 DEF ArgumentInv
    <2> HIDE DEF Reading
    <2> QED
      BY <1>4, <2>1, <2>2
  <1>6. CASE call.op = "revertMerge"
    <2> DEFINE before == BeforeRedirect(history)
    <2>1. Goto(c, Reading("revertMerge", before))
      BY <1>6 DEF ReadPatches
    <2>2. Exists(call.entity) /\ before \in EntityDocs \cup {None}
      BY <1>1, <1>0, <1>2, <1>3, <1>6, ReadsOfHistory DEF StageInv
    <2> HIDE DEF before
    <2>3. CASE before = None
      BY <2>1, <2>3, IdleIsSound DEF Writing
    <2>4. CASE before # None
      <3> DEFINE next == Request("revertMerge", "read", call.user, call.entity, before)
      <3>1. /\ next.op = "revertMerge" /\ next.pc = "read" /\ next.user = call.user
            /\ next.entity = call.entity /\ next.arg = before
        BY DEF Request
      <3>2. Goto(c, next)
        BY <2>1, <2>4
      <3> HIDE DEF next
      <3>3. CallInv(next)
        BY <1>0, <2>2, <2>4, <3>1 DEF CallInv, StageInv, ArgumentInv, PutInv, WritingInv, FoldingInv, HoldsDoc, Writing, Steps, Operations
      <3>4. StillToPut(next) \subseteq StillToPut(call)
        BY <1>0, <1>6, <3>1 DEF StillToPut, Writing
      <3>5. Budget(next, count)
        BY <1>0, <3>4 DEF Budget
      <3> QED
        BY <3>1, <3>2, <3>3, <3>5 DEF Writing
    <2> QED
      BY <2>3, <2>4
  <1>7. CASE call.op = "revertTarget"
    <2> DEFINE merges == {v \in Patched(history) : history[v].context = [kind |-> "mergeFrom", of |-> call.arg]}
               first == CHOOSE v \in merges : \A w \in merges : v <= w
    <2>1. Goto(c, Reading("revert", MergePatch(history, call.arg)))
      BY <1>7 DEF ReadPatches
    <2>2. MergePatch(history, call.arg) = IF merges = {} THEN None ELSE history[first]
      BY DEF MergePatch
    <2>3. CASE merges = {}
      BY <2>1, <2>2, <2>3, IdleIsSound DEF Writing
    <2>4. CASE merges # {}
      <3>1. merges \subseteq Versions /\ Versions \subseteq 1..LastOne
        BY <1>2, VersionsAre DEF Patched
      <3>2. first \in merges
        <4> HIDE DEF merges
        <4> QED
          BY <2>4, <3>1, FirstVersion
      <3>3. first \in Versions
        <4> HIDE DEF first, merges
        <4> QED
          BY <3>1, <3>2
      <3>4. Goto(c, Reading("revert", history[first]))
        BY <2>1, <2>2, <2>4
      <3> HIDE DEF Reading, first, merges
      <3> QED
        BY <1>4, <3>3, <3>4
    <2> QED
      BY <2>3, <2>4
  <1>8. CASE call.op = "restore"
    <2> DEFINE update == Restored(call.doc, history, call.arg)
               next == Putting(call, call.doc, call.version, update)
    <2>1. Goto(c, IF update = None THEN Idle ELSE next)
      BY <1>8 DEF ReadPatches
    <2>2. /\ call.doc = docs[call.entity] /\ call.version = versions[call.entity]
          /\ call.arg \in Versions /\ Exists(call.entity)
      BY <1>0, <1>1, <1>8 DEF PutInv, ArgumentInv, StageInv, HoldsDoc
    <2>3. update \in EntityDocs \cup {None}
      BY <1>2, <1>3, <2>2, ReadsOfHistory
    <2> HIDE DEF update
    <2>4. CASE update = None
      BY <2>1, <2>4, IdleIsSound DEF Writing
    <2>5. CASE update # None
      <3>1. /\ next.entity = call.entity /\ next.op = "restore" /\ next.doc = call.doc /\ next.user = call.user
            /\ next.version = call.version /\ next.pc = "put" /\ next.update = update /\ next.arg = call.arg
        BY <1>0, <1>8, PuttingRequest DEF IsRequest, Putting
      <3>2. Goto(c, next)
        BY <2>1, <2>5
      <3> HIDE DEF next
      <3>3. CallInv(next)
        BY <1>0, <2>2, <2>3, <2>5, <3>1 DEF CallInv, StageInv, ArgumentInv, PutInv, WritingInv, FoldingInv, HoldsDoc, Writing, Steps, Operations
      <3>4. Budget(next, count)
        BY <1>0, <1>8, <3>1 DEF Budget, StillToPut
      <3> QED
        BY <3>1, <3>2, <3>3, <3>4 DEF Writing
    <2> QED
      BY <2>4, <2>5
  <1> QED
    BY <1>0, <1>5, <1>6, <1>7, <1>8 DEF RequestInv

\* putInvEntityUpdate, up to the put: nothing conflicts with it.
LEMMA PutKeepsSerialInv ==
    ASSUME OneCall, SerialInv, EditInv', NEW c \in Calls, Put(c)
    PROVE  SerialInv'
  <1> DEFINE call == calls[c]
             e == call.entity
             doc == docs[e]
             next == IF NewOps(call) = {} THEN Idle ELSE [call EXCEPT !.pc = "patch"]
  <1>0. /\ IsRequest(call) /\ CallInv(call) /\ call.pc = "put" /\ Budget(call, count)
        /\ UNCHANGED <<patches, count>> /\ call.pc \notin Writing
        /\ count' \in {count, count + 1} /\ count' <= MaxCalls
        /\ e \in Entities /\ call.user \in Users /\ Exists(e)
    BY EntitiesAssumption DEF SerialInv, EditInv, Shapes, Put, At, Writing, CallInv, StageInv, DatabasesInv
  <1>1. StageInv(call) /\ ArgumentInv(call) /\ PutInv(call)
    BY <1>0 DEF CallInv
  <1>2. /\ call.doc = doc /\ call.version = versions[e] /\ doc \in GoodDocs
        /\ IF call.op = "redirect" THEN call.update = RedirectionTo(call.arg) /\ ~IsRedirection(call.doc)
           ELSE call.update \in EntityDocs
    BY <1>0, <1>1 DEF PutInv, HoldsDoc, SerialInv, DatabasesInv, Exists
  <1>3. call.update \in GoodDocs
    <2>1. call.op = "redirect" => call.arg \in Entities /\ None \notin Entities
      BY <1>1, PatchesAssumption DEF ArgumentInv
    <2> QED
      BY <1>2, <2>1, EntityDocsAre DEF RedirectionTo, GoodDocs, Docs
  <1>4. Save(e, call.user, call.update) /\ Goto(c, next)
    BY <1>2 DEF Put, InConflict
  <1>5. IsHistory(patches[e], doc, versions[e], log[e])
    BY <1>0 DEF OneCall, SerialInv, HistoriesInv
  <1>6. IsRedirection(call.update) =>
          /\ call.update.redirect # e
          /\ ~(Exists(call.update.redirect) /\ IsRedirection(docs[call.update.redirect]))
    <2>1. call.op = "redirect" => call.arg # e /\ ~IsRedirection(docs[call.arg])
      BY <1>0, <1>1 DEF ArgumentInv
    <2> QED
      BY <1>2, <2>1 DEF RedirectionTo, EntityDocs
  <1>7. versions[e] <= count'
    BY <1>0 DEF Budget, StillToPut
  <1>8. CASE NewOps(call) = {}
    <2>1. next = Idle /\ call.update = doc
      BY <1>2, <1>3, <1>8, EmptyDiff, GoodDocsAreDocs DEF NewOps
    <2> HIDE DEF next
    <2> QED
      BY <1>0, <1>3, <1>4, <1>5, <1>6, <1>7, <2>1, SaveKeepsSerialInv
  <1>9. CASE NewOps(call) # {}
    <2>1. /\ next.op = call.op /\ next.pc = "patch" /\ next.user = call.user /\ next.entity = e
          /\ next.doc = doc /\ next.version = versions[e] /\ next.update = call.update /\ next.arg = call.arg
      BY <1>0, <1>2, <1>9 DEF IsRequest
    <2> HIDE DEF next
    <2>2. /\ next.op \in Operations \ {"revertTarget"}
          /\ next.op \in {"merge", "redirect"} => next.arg \in Entities /\ next.arg # e /\ Exists(next.arg)
          /\ next.op = "restore" => next.arg \in Versions
      BY <1>0, <1>1, <2>1 DEF StageInv, ArgumentInv
    <2>3. next.op = "merge" =>
            /\ ~IsRedirection(call.update) /\ ~IsRedirection(docs[next.arg]) /\ Covers(call.update, docs[next.arg])
            /\ versions[next.arg] <= count'
      BY <1>0, <1>1, <2>1, <2>2 DEF ArgumentInv, Budget, StillToPut
    <2>4. next.op = "revertMerge" =>
            /\ IsRedirection(doc) /\ doc.redirect # e
            /\ doc.redirect \in Entities => versions[doc.redirect] <= count'
      <3> SUFFICES ASSUME next.op = "revertMerge"
                   PROVE  /\ IsRedirection(doc) /\ doc.redirect # e
                          /\ doc.redirect \in Entities => versions[doc.redirect] <= count'
        OBVIOUS
      <3>1. IsRedirection(doc)
        BY <1>0, <1>1, <1>2, <2>1 DEF ArgumentInv
      <3>2. doc.redirect # e
        <4>1. {e} \in (SUBSET Entities) \ {{}}
          BY <1>0
        <4> QED
          BY <1>0, <4>1 DEF SerialInv, NoCircularRedirection
      <3>3. doc.redirect \in Entities => versions[doc.redirect] <= count'
        BY <1>0, <1>2, <2>1 DEF Budget, StillToPut
      <3> QED
        BY <3>1, <3>2, <3>3
    <2> QED
      BY <1>0, <1>3, <1>4, <1>5, <1>6, <1>7, <2>1, <2>2, <2>3, <2>4, SaveKeepsSerialInv
  <1> QED
    BY <1>8, <1>9

\* createPatch, up to the read of the last patch.
LEMMA ReadLastPatchKeepsSerialInv ==
    ASSUME OneCall, SerialInv, EditInv', NEW c \in Calls, ReadLastPatch(c)
    PROVE  SerialInv'
  <1> DEFINE call == calls[c]
             history == patches[call.entity]
             previous == history[Previous(call)]
             last == IF Plan(call) = "post" THEN None ELSE [version |-> Previous(call), patch |-> previous]
             next == [call EXCEPT !.pc = Plan(call), !.last = last]
  <1>0. /\ IsRequest(call) /\ CallInv(call) /\ call.pc = "patch" /\ call.pc \in Writing /\ Budget(call, count)
        /\ UNCHANGED <<docs, versions, patches, log, count>> /\ Goto(c, next)
        /\ count' \in {count, count + 1} /\ count' <= MaxCalls /\ call.entity \in Entities
        /\ DOMAIN history = Versions
    BY EntitiesAssumption DEF SerialInv, EditInv, Shapes, ReadLastPatch, At, Writing, CallInv, StageInv, DatabasesInv
  <1>1. StageInv(call) /\ ArgumentInv(call) /\ WritingInv(call)
    BY <1>0 DEF CallInv
  <1>2. /\ next.op = call.op /\ next.pc = Plan(call) /\ next.user = call.user /\ next.entity = call.entity
        /\ next.arg = call.arg /\ next.doc = call.doc /\ next.version = call.version /\ next.update = call.update
        /\ next.last = last
    BY <1>0 DEF IsRequest
  <1>3. Plan(call) \in {"post", "delete", "rewrite"}
    BY DEF Plan
  <1>4. Plan(call) # "post" =>
          /\ last.version \in Versions /\ last.patch # None /\ last.patch = history[last.version]
          /\ \A v \in Versions : history[v] # None => v <= last.version
          /\ last.patch.user = call.user
          /\ Plan(call) = "delete" => Aggregated(call, last.patch) = {}
    <2> SUFFICES ASSUME Plan(call) # "post"
                 PROVE  /\ Previous(call) \in Versions /\ previous # None
                        /\ \A v \in Versions : history[v] # None => v <= Previous(call)
                        /\ previous.user = call.user
                        /\ Plan(call) = "delete" => Aggregated(call, previous) = {}
      OBVIOUS
    <2>1. HasPreviousVersions(call) /\ Foldable(call, previous)
      BY DEF Plan
    <2>2. Plan(call) = "delete" => Aggregated(call, previous) = {}
      BY DEF Plan
    <2>3. Patched(history) \subseteq Versions /\ Patched(history) # {}
      BY <1>0, <2>1 DEF Patched, HasPreviousVersions
    <2>4. Previous(call) \in Patched(history) /\ \A w \in Patched(history) : w <= Previous(call)
      BY <2>3, LastVersion DEF Previous, LastPatched
    <2> HIDE DEF history
    <2>5. Previous(call) \in Versions /\ previous # None /\ \A v \in Versions : history[v] # None => v <= Previous(call)
      BY <1>0, <2>4 DEF Patched, history
    <2> QED
      BY <2>1, <2>2, <2>5 DEF Foldable
  <1> HIDE DEF last
  <1> HIDE DEF next
  <1>5. CallInv(next)
    <2>1. StageInv(next) /\ PutInv(next)
      BY <1>0, <1>1, <1>2, <1>3 DEF StageInv, PutInv, HoldsDoc, Steps
    <2>2. ArgumentInv(next)
      BY <1>0, <1>1, <1>2, <1>3 DEF ArgumentInv, Writing
    <2>3. WritingInv(next)
      BY <1>0, <1>1, <1>2 DEF WritingInv
    <2>4. FoldingInv(next)
      BY <1>2, <1>3, <1>4 DEF FoldingInv, Aggregated
    <2> QED
      BY <2>1, <2>2, <2>3, <2>4 DEF CallInv
  <1>6. Budget(next, count)
    <2>1. StillToPut(next) \subseteq StillToPut(call)
      BY <1>0, <1>2, <1>3 DEF StillToPut, Writing
    <2> QED
      BY <1>0, <2>1 DEF Budget
  <1> QED
    BY <1>0, <1>2, <1>3, <1>5, <1>6, GotoKeepsSerialInv DEF Writing

\* createPatch, when the patch of the update is written: the request goes on with its next edition.
LEMMA WriteKeepsSerialInv ==
    ASSUME OneCall, SerialInv, EditInv', NEW c \in Calls, calls[c].pc \in Writing, Goto(c, Continuation(calls[c])),
           UNCHANGED <<docs, versions, log, count>>,
           NEW v \in Versions, v <= versions[calls[c].entity], NEW patch \in Patches \cup {None}, Write(calls[c], v, patch),
           IsHistory([patches[calls[c].entity] EXCEPT ![v] = patch], calls[c].update, versions[calls[c].entity], log[calls[c].entity])
    PROVE  SerialInv'
  <1> DEFINE call == calls[c]
             e == call.entity
             next == Continuation(call)
  <1>0. /\ CallInv(call) /\ Budget(call, count) /\ e \in Entities /\ call.user \in Users
        /\ StageInv(call) /\ ArgumentInv(call) /\ WritingInv(call) /\ Exists(e)
    <2>1. CallInv(call) /\ call.pc # "idle" /\ call.pc # "patches"
      BY DEF SerialInv, Writing
    <2>2. StageInv(call) /\ ArgumentInv(call) /\ WritingInv(call)
      BY <2>1 DEF CallInv
    <2> QED
      BY <2>1, <2>2 DEF SerialInv, StageInv
  <1>1. calls'[c] = next /\ \A d \in Calls : d = c
    BY DEF OneCall, SerialInv, EditInv, Shapes, Goto
  <1>2. /\ patches'[e] = [patches[e] EXCEPT ![v] = patch] /\ \A f \in Entities \ {e} : patches'[f] = patches[f]
        /\ docs[e] = call.update
    BY <1>0 DEF Write, WritingInv, SerialInv, EditInv, Shapes
  <1>3. DatabasesInv'
    <2>1. ASSUME NEW f \in Entities, NEW w \in Versions
          PROVE  patches'[f][w] \in Patches \cup {None} /\ (patches'[f][w] # None => Exists(f) /\ w <= versions[f])
      <3>1. patches[f][w] \in Patches \cup {None} /\ (patches[f][w] # None => Exists(f) /\ w <= versions[f])
        BY DEF SerialInv, DatabasesInv
      <3>2. f = e /\ w = v => patches'[f][w] = patch
        BY <1>2 DEF SerialInv, EditInv, Shapes
      <3>3. ~(f = e /\ w = v) => patches'[f][w] = patches[f][w]
        BY <1>2 DEF SerialInv, EditInv, Shapes
      <3> QED
        BY <1>0, <3>1, <3>2, <3>3
    <2> QED
      BY <2>1 DEF SerialInv, DatabasesInv, Exists
  <1>4. CallInv(next) /\ next.pc \notin Writing
    <2>1. CASE call.op = "merge"
      <3>1. next = Redirecting(call)
        BY <2>1 DEF Continuation
      <3>2. /\ next.op = "redirect" /\ next.pc = "read" /\ next.user = call.user
            /\ next.entity = call.arg /\ next.arg = e
        BY <3>1 DEF Redirecting, Request
      <3>3. /\ call.arg \in Entities /\ call.arg # e /\ Exists(call.arg)
            /\ ~IsRedirection(docs[e]) /\ Covers(docs[e], docs[call.arg])
        BY <1>0, <1>2, <2>1 DEF ArgumentInv
      <3> HIDE DEF next
      <3> QED
        BY <1>0, <3>2, <3>3 DEF CallInv, StageInv, ArgumentInv, PutInv, WritingInv, FoldingInv, HoldsDoc, Writing, Steps, Operations
    <2>2. CASE call.op = "revertMerge"
      <3>1. next = RevertingTarget(call)
        BY <2>2 DEF Continuation
      <3>2. /\ next.op = "revertTarget" /\ next.pc = "patches" /\ next.user = call.user
            /\ next.entity = call.doc.redirect /\ next.arg = e
        BY <3>1 DEF RevertingTarget, Request
      <3>3. call.doc \in Docs
        <4>1. IsHistory(patches[e], call.doc, versions[e], log[e])
          BY <1>0 DEF WritingInv
        <4> QED
          BY <4>1, VersionsAre, GoodDocsAreDocs DEF IsHistory, Replays
      <3>4. call.doc.redirect \in Entities
        BY <1>0, <2>2, <3>3 DEF ArgumentInv, IsRedirection, Docs
      <3> HIDE DEF next
      <3> QED
        BY <1>0, <3>2, <3>4 DEF CallInv, StageInv, ArgumentInv, PutInv, WritingInv, FoldingInv, HoldsDoc, Writing, Steps, Operations
    <2>3. CASE call.op \notin {"merge", "revertMerge"}
      BY <2>3, IdleIsSound DEF Continuation, Writing
    <2> QED
      BY <2>1, <2>2, <2>3
  <1>5. next.pc # "idle" => Budget(next, count)
    <2>1. CASE call.op = "merge"
      <3>1. StillToPut(next) \subseteq StillToPut(call)
        BY <1>0, <2>1 DEF StillToPut, Continuation, Redirecting, Request, Writing
      <3> QED
        BY <1>0, <3>1 DEF Budget
    <2>2. CASE call.op = "revertMerge"
      <3>1. StillToPut(next) \subseteq StillToPut(call)
        BY <1>0, <2>2 DEF StillToPut, Continuation, RevertingTarget, Request, Writing
      <3> QED
        BY <1>0, <3>1 DEF Budget
    <2>3. CASE call.op \notin {"merge", "revertMerge"}
      BY <2>3, IdleIsSound DEF Continuation
    <2> QED
      BY <2>1, <2>2, <2>3
  <1> HIDE DEF next
  <1>6. HistoriesInv'
    <2> SUFFICES ASSUME NEW f \in Entities, Exists(f)
                 PROVE  IsHistory(patches'[f], docs[f], versions[f], log[f])
      BY DEF HistoriesInv, Exists
    <2>1. CASE f = e
      BY <1>2, <2>1
    <2>2. CASE f # e
      <3>1. \A d \in Calls : calls[d].pc \in Writing => calls[d].entity # f
        BY <1>1, <2>2
      <3> QED
        BY <1>2, <2>2, <3>1 DEF SerialInv, HistoriesInv
    <2> QED
      BY <2>1, <2>2
  <1>7. NoCircularRedirection'
    BY DEF SerialInv, NoCircularRedirection, Exists
  <1>8. CallInv(calls[c])' /\ (calls'[c].pc # "idle" => Budget(calls[c], count)')
    <2>1. StageInv(calls[c])' /\ ArgumentInv(calls[c])' /\ PutInv(calls[c])'
      BY <1>1, <1>4 DEF CallInv, StageInv, ArgumentInv, PutInv, HoldsDoc, Exists
    <2>2. WritingInv(calls[c])' /\ FoldingInv(calls[c])'
      BY <1>1, <1>4 DEF WritingInv, FoldingInv, Writing
    <2>3. calls'[c].pc # "idle" => Budget(calls[c], count)'
      BY <1>1, <1>5 DEF Budget, StillToPut
    <2> QED
      BY <2>1, <2>2, <2>3 DEF CallInv
  <1>9. \A d \in Calls : CallInv(calls[d])' /\ (calls'[d].pc # "idle" => Budget(calls[d], count)')
    BY <1>1, <1>8
  <1> QED
    BY <1>3, <1>6, <1>7, <1>9 DEF SerialInv

\* The contexts of the patches name what they come from.
LEMMA ContextIsTyped ==
    ASSUME NEW call, ArgumentInv(call)
    PROVE  Context(call) \in Contexts \cup {None}
  BY DEF Context, Contexts, ArgumentInv

LEMMA PostPatchKeepsSerialInv ==
    ASSUME OneCall, SerialInv, EditInv', NEW c \in Calls, PostPatch(c)
    PROVE  SerialInv'
  <1> DEFINE call == calls[c]
             e == call.entity
             v == call.version + 1
             patch == Patch(call.user, NewOps(call), Context(call), 1)
  <1>0. /\ CallInv(call) /\ call.pc = "post" /\ call.pc \in Writing
        /\ UNCHANGED <<docs, versions, log, count>> /\ Goto(c, Continuation(call)) /\ Write(call, v, patch)
    BY DEF SerialInv, PostPatch, At, Writing
  <1>1. StageInv(call) /\ ArgumentInv(call) /\ WritingInv(call) /\ e \in Entities /\ call.user \in Users /\ Exists(e)
    BY <1>0 DEF CallInv, StageInv
  <1>2. /\ call.version \in Nat \ {0} /\ versions[e] = v /\ docs[e] = call.update
        /\ log[e][v] = [user |-> call.user, doc |-> call.update]
        /\ \A w \in Versions : patches[e][w] # None => w <= call.version
        /\ IsHistory(patches[e], call.doc, v, log[e])
    BY <1>0, <1>1 DEF WritingInv
  <1>3. v \in Versions /\ v <= v
    BY <1>1, <1>2, EntitiesAssumption DEF SerialInv, DatabasesInv, Versions
  <1>4. call.update \in GoodDocs /\ call.doc \in Docs /\ call.update \in Docs
    BY <1>1, <1>2, VersionsAre, GoodDocsAreDocs DEF SerialInv, DatabasesInv, Exists, IsHistory, Replays
  <1>5. patch \in Patches /\ patch # None /\ patch.ops = Diff(call.doc, call.update) /\ patch.user = call.user
    BY <1>1, <1>4, ContextIsTyped, DiffIsTyped, NoPatchAssumption DEF Patch, Patches, NewOps
  <1> HIDE DEF patch
  <1>6. DOMAIN patches[e] = Versions
    BY <1>1 DEF SerialInv, EditInv, Shapes
  <1>7. IsHistory([patches[e] EXCEPT ![v] = patch], call.update, v, log[e])
    BY <1>2, <1>3, <1>4, <1>5, <1>6, PostExtendsHistory
  <1> HIDE DEF v
  <1> QED
    BY <1>0, <1>2, <1>3, <1>5, <1>7, WriteKeepsSerialInv

LEMMA FoldPatchKeepsSerialInv ==
    ASSUME OneCall, SerialInv, EditInv', NEW c \in Calls, FoldPatch(c)
    PROVE  SerialInv'
  <1> DEFINE call == calls[c]
             e == call.entity
             last == call.last
             p == last.version
             patch == IF call.pc = "delete" THEN None
                      ELSE [last.patch EXCEPT !.ops = Aggregated(call, last.patch), !.rev = @ + 1]
  <1>0. /\ CallInv(call) /\ call.pc \in {"delete", "rewrite"} /\ call.pc \in Writing
        /\ UNCHANGED <<docs, versions, log, count>>
    BY DEF SerialInv, FoldPatch, Writing
  <1>1. /\ StageInv(call) /\ ArgumentInv(call) /\ WritingInv(call) /\ FoldingInv(call)
        /\ e \in Entities /\ call.user \in Users /\ Exists(e)
    BY <1>0 DEF CallInv, StageInv
  <1>2. /\ p \in Versions /\ last.patch # None /\ last.patch = patches[e][p]
        /\ \A v \in Versions : patches[e][v] # None => v <= p
        /\ last.patch.user = call.user
        /\ call.pc = "delete" => Aggregated(call, last.patch) = {}
    BY <1>0, <1>1 DEF FoldingInv
  <1>3. Goto(c, Continuation(call)) /\ Write(call, p, patch)
    BY <1>2 DEF FoldPatch
  <1>4. /\ versions[e] \in Nat /\ docs[e] = call.update
        /\ log[e][versions[e]] = [user |-> call.user, doc |-> call.update]
        /\ IsHistory(patches[e], call.doc, versions[e], log[e])
    BY <1>0, <1>1 DEF WritingInv, SerialInv, EditInv, Shapes
  <1>5. p <= versions[e] /\ last.patch \in Patches /\ DOMAIN patches[e] = Versions
    BY <1>1, <1>2 DEF SerialInv, DatabasesInv, EditInv, Shapes
  <1>6. call.update \in GoodDocs /\ call.doc \in Docs /\ call.update \in Docs
    BY <1>1, <1>4, VersionsAre, GoodDocsAreDocs DEF SerialInv, DatabasesInv, Exists, IsHistory, Replays
  <1>7. Aggregated(call, last.patch) = Diff(Reverted(patches[e][p].ops, call.doc), call.update)
    BY <1>2 DEF Aggregated
  <1>8. Aggregated(call, last.patch) \subseteq Changes
    <2>1. Reverted(patches[e][p].ops, call.doc) \in Docs
      BY <1>2, <1>4, RevertsLastPatch
    <2> QED
      BY <1>6, <1>7, <2>1, DiffIsTyped
  <1>9. /\ patch \in Patches \cup {None}
        /\ \/ patch = None /\ Aggregated(call, last.patch) = {}
           \/ patch # None /\ patch.ops = Aggregated(call, last.patch) /\ patch.user = call.user
    <2>1. CASE call.pc = "delete"
      BY <1>2, <2>1
    <2>2. CASE call.pc # "delete"
      <3>1. patch \in Patches /\ patch.ops = Aggregated(call, last.patch) /\ patch.user = last.patch.user
        <4> DEFINE old == last.patch
                   ops == Aggregated(call, old)
        <4>1. /\ old = [user |-> old.user, ops |-> old.ops, context |-> old.context, rev |-> old.rev]
              /\ old.user \in Users /\ old.context \in Contexts \cup {None} /\ old.rev \in Nat
          BY <1>5 DEF Patches
        <4>2. patch = [user |-> old.user, ops |-> ops, context |-> old.context, rev |-> old.rev + 1]
          <5>1. patch = [old EXCEPT !.ops = ops, !.rev = @ + 1]
            BY <2>2
          <5> HIDE DEF old, ops, patch
          <5> QED
            BY <4>1, <5>1
        <4>3. ops \in SUBSET Changes /\ old.rev + 1 \in Nat
          BY <1>8, <4>1
        <4> HIDE DEF old, ops, patch
        <4>4. patch \in Patches /\ patch.ops = ops /\ patch.user = old.user
          BY <4>1, <4>2, <4>3 DEF Patches
        <4> QED
          BY <4>4 DEF old, ops
      <3> QED
        BY <1>2, <3>1, NoPatchAssumption
    <2> QED
      BY <2>1, <2>2
  <1> HIDE DEF patch
  <1>10. IsHistory([patches[e] EXCEPT ![p] = patch], call.update, versions[e], log[e])
    <2>1. \/ patch = None /\ Diff(Reverted(patches[e][p].ops, call.doc), call.update) = {}
          \/ /\ patch # None /\ patch.ops = Diff(Reverted(patches[e][p].ops, call.doc), call.update)
             /\ log[e][versions[e]] = [user |-> patch.user, doc |-> call.update]
      BY <1>4, <1>7, <1>9
    <2>2. patches[e][p] # None
      BY <1>2
    <2> HIDE DEF p, last
    <2> QED
      BY <1>2, <1>4, <1>5, <1>6, <2>1, <2>2, FoldExtendsHistory
  <1> QED
    BY <1>0, <1>2, <1>3, <1>5, <1>9, <1>10, WriteKeepsSerialInv

\* createInvEntity: a new entity has no patch yet.
LEMMA CreateKeepsSerialInv ==
    ASSUME OneCall, SerialInv, EditInv', NEW c \in Calls, NEW user \in Users, NEW e \in Entities,
           NEW labels \in LabelMaps, Create(c, user, e, labels)
    PROVE  SerialInv'
  <1> DEFINE doc == [labels |-> labels, redirect |-> None]
             next == [Putting(Request("create", "put", user, e, None), Blank, 1, doc) EXCEPT !.pc = "patch"]
  <1>1. /\ Begin(c) /\ ~Exists(e) /\ IsValidEntity(doc) /\ Save(e, user, doc) /\ Goto(c, next) /\ UNCHANGED patches
    BY DEF Create
  <1>2. /\ next.op = "create" /\ next.pc = "patch" /\ next.user = user /\ next.entity = e
        /\ next.doc = Blank /\ next.version = 1 /\ next.update = doc
    BY DEF Putting, Request
  <1>3. doc \in GoodDocs /\ ~IsRedirection(doc)
    BY <1>1, PatchesAssumption DEF IsValidEntity, GoodDocs, Docs, IsRedirection
  <1> HIDE DEF doc
  <1> HIDE DEF next
  <1>4. versions[e] = 1 /\ \A v \in Versions : patches[e][v] = None
    BY <1>1 DEF SerialInv, DatabasesInv
  <1>5. IsHistory(patches[e], Blank, versions[e], log[e])
    <2> DEFINE after == [v \in 1..LastOne |-> Blank]
    <2>1. Replays(patches[e], after) /\ after[LastOne] = Blank
      BY <1>4, VersionsAre DEF Replays
    <2> QED
      BY <1>4, <2>1 DEF IsHistory
  <1>6. /\ calls[c].pc \notin Writing /\ count' \in {count, count + 1} /\ count' <= MaxCalls /\ versions[e] <= count'
    BY <1>1, <1>4, IdleIsSound, EntitiesAssumption DEF Begin, Writing, SerialInv, DatabasesInv
  <1>7. next.op \in Operations \ {"revertTarget"} /\ next.op \notin {"merge", "redirect", "revertMerge", "restore"}
    BY <1>2 DEF Operations
  <1> QED
    BY <1>1, <1>2, <1>3, <1>4, <1>5, <1>6, <1>7, SaveKeepsSerialInv

\* The arrival of a request about an existing entity.
LEMMA AcceptKeepsSerialInv ==
    ASSUME OneCall, SerialInv, EditInv', NEW c \in Calls, NEW op \in {"label", "merge", "revertMerge", "revert", "restore"},
           NEW user \in Users, NEW e \in Entities, NEW arg,
           NEW pc, IF op \in {"revert", "revertMerge"} THEN pc = "patches" ELSE pc = "read",
           Accept(c, Request(op, pc, user, e, arg)),
           op = "label" => arg.lang \in Langs /\ arg.text \in Labels \cup {None},
           op = "merge" => arg \in Entities /\ arg # e /\ Exists(arg),
           op \in {"revert", "restore"} => arg \in Versions
    PROVE  SerialInv'
  <1> DEFINE next == Request(op, pc, user, e, arg)
  <1>1. /\ Begin(c) /\ Goto(c, next) /\ UNCHANGED <<docs, versions, patches, log>> /\ Exists(next.entity)
    BY DEF Accept
  <1>2. next.op = op /\ next.pc = pc /\ next.user = user /\ next.entity = e /\ next.arg = arg
    BY DEF Request
  <1> HIDE DEF next
  <1>3. CallInv(next)
    BY <1>1, <1>2 DEF CallInv, StageInv, ArgumentInv, PutInv, WritingInv, FoldingInv, HoldsDoc, Writing, Steps, Operations
  <1>4. /\ calls[c].pc \notin Writing /\ next.pc \notin Writing
        /\ count' \in {count, count + 1} /\ count' <= MaxCalls
    BY <1>1, <1>2, IdleIsSound, EntitiesAssumption DEF Begin, Writing, SerialInv, DatabasesInv
  <1>5. Budget(next, count')
    BY <1>1 DEF Begin, Budget, StillToPut, SerialInv, DatabasesInv
  <1> QED
    BY <1>1, <1>3, <1>4, <1>5, GotoKeepsSerialInv

LEMMA InitSerialInv == Init => SerialInv
  <1> SUFFICES ASSUME Init PROVE SerialInv
    OBVIOUS
  <1>1. EditInv
    BY InitEditInv
  <1>2. DatabasesInv
    BY VersionsAre, EntitiesAssumption DEF Init, DatabasesInv, NoHistory, Exists
  <1>3. \A c \in Calls : CallInv(calls[c]) /\ calls[c].pc = "idle"
    BY IdleIsSound DEF Init
  <1>4. HistoriesInv /\ NoCircularRedirection
    BY DEF Init, HistoriesInv, NoCircularRedirection, Exists
  <1> QED
    BY <1>1, <1>2, <1>3, <1>4 DEF SerialInv

LEMMA NextSerialInv ==
    ASSUME OneCall, SerialInv, [Next]_vars PROVE SerialInv'
  <1>0. EditInv'
    BY NextEditInv DEF SerialInv
  <1>1. CASE Next
    <2>1. PICK c \in Calls :
             \/ Step(c)
             \/ \E user \in Users, e \in Entities :
                   \/ \E labels \in LabelMaps : Create(c, user, e, labels)
                   \/ \E l \in Langs, text \in Labels \cup {None} : UpdateLabel(c, user, e, l, text)
                   \/ \E from \in Entities : Merge(c, user, from, e)
                   \/ RevertMerge(c, user, e)
                   \/ \E v \in Versions : RevertEdit(c, user, e, v) \/ RestoreVersion(c, user, e, v)
      BY <1>1 DEF Next
    <2>2. CASE Step(c)
      BY <1>0, <2>2, ReadKeepsSerialInv, ReadPatchesKeepsSerialInv, PutKeepsSerialInv, ReadLastPatchKeepsSerialInv,
         PostPatchKeepsSerialInv, FoldPatchKeepsSerialInv DEF Step
    <2>3. ASSUME NEW user \in Users, NEW e \in Entities, NEW labels \in LabelMaps, Create(c, user, e, labels)
          PROVE  SerialInv'
      BY <1>0, <2>3, CreateKeepsSerialInv
    <2>4. ASSUME NEW user \in Users, NEW e \in Entities, NEW l \in Langs, NEW text \in Labels \cup {None},
                 UpdateLabel(c, user, e, l, text)
          PROVE  SerialInv'
      <3> DEFINE arg == [lang |-> l, text |-> text]
      <3>1. Accept(c, Request("label", "read", user, e, arg)) /\ arg.lang \in Langs /\ arg.text \in Labels \cup {None}
        BY <2>4 DEF UpdateLabel
      <3> HIDE DEF arg
      <3> QED
        BY <1>0, <3>1, AcceptKeepsSerialInv
    <2>5. ASSUME NEW user \in Users, NEW e \in Entities, NEW from \in Entities, Merge(c, user, from, e)
          PROVE  SerialInv'
      <3>1. Accept(c, Request("merge", "read", user, e, from)) /\ from # e /\ Exists(from)
        BY <2>5 DEF Merge
      <3> QED
        BY <1>0, <3>1, AcceptKeepsSerialInv
    <2>6. ASSUME NEW user \in Users, NEW e \in Entities, RevertMerge(c, user, e)
          PROVE  SerialInv'
      <3>1. Accept(c, Request("revertMerge", "patches", user, e, None))
        BY <2>6 DEF RevertMerge
      <3> QED
        BY <1>0, <3>1, AcceptKeepsSerialInv
    <2>7. ASSUME NEW user \in Users, NEW e \in Entities, NEW v \in Versions, RevertEdit(c, user, e, v)
          PROVE  SerialInv'
      <3>1. Accept(c, Request("revert", "patches", user, e, v))
        BY <2>7 DEF RevertEdit
      <3> QED
        BY <1>0, <3>1, AcceptKeepsSerialInv
    <2>8. ASSUME NEW user \in Users, NEW e \in Entities, NEW v \in Versions, RestoreVersion(c, user, e, v)
          PROVE  SerialInv'
      <3>1. Accept(c, Request("restore", "read", user, e, v))
        BY <2>8 DEF RestoreVersion
      <3> QED
        BY <1>0, <3>1, AcceptKeepsSerialInv
    <2> QED
      BY <2>1, <2>2, <2>3, <2>4, <2>5, <2>6, <2>7, <2>8
  <1>2. CASE UNCHANGED vars
    <2>1. UNCHANGED <<docs, versions, patches, calls, count, log>>
      BY <1>2 DEF vars
    <2>2. DatabasesInv' /\ HistoriesInv' /\ NoCircularRedirection'
      BY <2>1 DEF SerialInv, DatabasesInv, HistoriesInv, NoCircularRedirection, Exists
    <2>3. ASSUME NEW c \in Calls PROVE CallInv(calls[c])' /\ (calls'[c].pc # "idle" => Budget(calls[c], count)')
      BY <2>1 DEF SerialInv, CallInv, StageInv, ArgumentInv, PutInv, WritingInv, FoldingInv, HoldsDoc, Exists, Aggregated,
                  Budget, StillToPut
    <2> QED
      BY <1>0, <2>2, <2>3 DEF SerialInv
  <1> QED
    BY <1>1, <1>2

\* A merge turns the merged entity into a redirection when its target has its labels.
LEMMA RedirectionsLoseNothing ==
    ASSUME OneCall, SerialInv, Next, NEW e \in Entities,
           Exists(e), ~IsRedirection(docs[e]), IsRedirection(docs'[e])
    PROVE  LET target == docs[docs'[e].redirect]
           IN  \A l \in Langs : docs[e].labels[l] # None => target.labels # None /\ target.labels[l] # None
  <1>0. docs = [f \in Entities |-> docs[f]]
    BY DEF SerialInv, EditInv, Shapes
  <1>1. docs' # docs
    OBVIOUS
  <1>2. PICK c \in Calls :
           Put(c) \/ \E user \in Users, f \in Entities, labels \in LabelMaps : Create(c, user, f, labels)
    <2>1. \A c, call : ~Accept(c, call)
      BY <1>1 DEF Accept
    <2>2. \A c : Step(c) => Put(c)
      BY <1>1 DEF Step, Read, ReadPatches, ReadLastPatch, PostPatch, FoldPatch
    <2>3. \A c, user, f :
            /\ \A l, text : ~UpdateLabel(c, user, f, l, text)
            /\ \A from : ~Merge(c, user, from, f)
            /\ ~RevertMerge(c, user, f)
            /\ \A v : ~RevertEdit(c, user, f, v) /\ ~RestoreVersion(c, user, f, v)
      BY <2>1 DEF UpdateLabel, Merge, RevertMerge, RevertEdit, RestoreVersion
    <2> QED
      BY <2>2, <2>3 DEF Next
  <1>3. CASE Put(c)
    <2> DEFINE call == calls[c]
    <2>1. Save(call.entity, call.user, call.update) /\ call.pc = "put"
      BY <1>1, <1>3 DEF Put, At
    <2>2. StageInv(call) /\ ArgumentInv(call) /\ PutInv(call)
      BY DEF SerialInv, CallInv
    <2>3. docs' = [docs EXCEPT ![call.entity] = call.update]
      BY <2>1 DEF Save
    <2>4. call.entity = e /\ docs'[e] = call.update
      BY <1>0, <2>3
    <2>5. call.op = "redirect" /\ call.update = RedirectionTo(call.arg)
      BY <2>1, <2>2, <2>4 DEF PutInv, EntityDocs
    <2>6. /\ call.arg \in Entities /\ Exists(call.arg) /\ ~IsRedirection(docs[call.arg])
          /\ Covers(docs[call.arg], docs[e])
      BY <2>1, <2>2, <2>4, <2>5 DEF ArgumentInv
    <2>7. docs[call.arg].labels # None
      BY <2>6, EntityDocsAre DEF SerialInv, DatabasesInv, Exists
    <2>8. docs'[e].redirect = call.arg
      BY <2>4, <2>5 DEF RedirectionTo
    <2> QED
      BY <2>6, <2>7, <2>8 DEF Covers
  <1>4. ASSUME NEW user \in Users, NEW f \in Entities, NEW labels \in LabelMaps, Create(c, user, f, labels)
        PROVE  FALSE
    <2>1. ~Exists(f) /\ docs' = [docs EXCEPT ![f] = [labels |-> labels, redirect |-> None]]
      BY <1>4 DEF Create, Save
    <2> QED
      BY <1>0, <2>1
  <1> QED
    BY <1>2, <1>3, <1>4

LEMMA SerialInvHolds == ASSUME OneCall PROVE Spec => []SerialInv
  <1>1. Init => SerialInv
    BY InitSerialInv
  <1>2. SerialInv /\ [Next]_vars => SerialInv'
    BY NextSerialInv
  <1> QED
    BY <1>1, <1>2, PTL DEF Spec

\* Handled one at a time, requests leave every document an entity with labels or a redirection,
\* and give patches to existing versions only.
THEOREM Typing == ASSUME OneCall PROVE Spec => []TypeOK
  <1>1. SerialInv => TypeOK
    <2> SUFFICES ASSUME SerialInv PROVE TypeOK
      OBVIOUS
    <2>1. ASSUME NEW e \in Entities
          PROVE  /\ Exists(e) => docs[e] \in Docs /\ (IsRedirection(docs[e]) \/ IsValidEntity(docs[e]))
                 /\ Exists(e) => (docs[e].labels = None <=> IsRedirection(docs[e]))
                 /\ versions[e] \in 1..(MaxCalls + 1)
                 /\ \A v \in Patched(patches[e]) :
                       v <= versions[e] /\ patches[e][v].user \in Users /\ patches[e][v].context \in Contexts \cup {None}
      <3>1. Exists(e) => docs[e] \in GoodDocs
        BY DEF SerialInv, DatabasesInv, Exists
      <3>2. versions[e] \in 1..(MaxCalls + 1)
        BY EntitiesAssumption DEF SerialInv, DatabasesInv, EditInv, Shapes
      <3>3. \A v \in Patched(patches[e]) : v <= versions[e] /\ patches[e][v] \in Patches
        BY DEF SerialInv, DatabasesInv, EditInv, Shapes, Patched
      <3> QED
        BY <3>1, <3>2, <3>3, EntityDocsAre DEF Patches
    <2> QED
      BY <2>1 DEF TypeOK, SerialInv, DatabasesInv, CallInv, StageInv
  <1> QED
    BY <1>1, SerialInvHolds, PTL

\* Whatever patches were rewritten, deleted or reverted, the history of an entity can be
\* replayed up to its document, and tells of versions that the authors of the patches have put.
THEOREM HistoriesAreReplayable == ASSUME OneCall PROVE Spec => []HistoryIsReplayable
  <1>1. SerialInv => HistoryIsReplayable
    <2> SUFFICES ASSUME SerialInv, Nobody, NEW e \in Entities, Exists(e)
                 PROVE  LET after == Snapshots(patches[e], MaxCalls + 1)
                        IN  /\ after[MaxCalls + 1] = docs[e]
                            /\ \A v \in Patched(patches[e]) : \E w \in v..versions[e] :
                                  log[e][w] = [user |-> patches[e][v].user, doc |-> after[v]]
      BY DEF HistoryIsReplayable
    <2>1. IsHistory(patches[e], docs[e], versions[e], log[e])
      BY IdleIsSound DEF SerialInv, HistoriesInv, Nobody, Writing
    <2>2. DOMAIN patches[e] = Versions
      BY DEF SerialInv, EditInv, Shapes
    <2> QED
      BY <2>1, <2>2, ReadsOfHistory DEF Patched, LastOne
  <1> QED
    BY <1>1, SerialInvHolds, PTL

\* Merges and their reversals never make entities redirect in a circle.
THEOREM RedirectionsEnd == ASSUME OneCall PROVE Spec => []NoCircularRedirection
  <1>1. SerialInv => NoCircularRedirection
    BY DEF SerialInv
  <1> QED
    BY <1>1, SerialInvHolds, PTL

\* A merged entity becomes a redirection once its target has a label in all of its languages.
THEOREM MergesLoseNothing == ASSUME OneCall PROVE Spec => MergeLosesNothing
  <1>1. OneCall /\ SerialInv /\ [Next]_vars =>
          [\A e \in Entities :
             Exists(e) /\ ~IsRedirection(docs[e]) /\ IsRedirection(docs'[e]) =>
                 LET target == docs[docs'[e].redirect]
                 IN  \A l \in Langs : docs[e].labels[l] # None => target.labels # None /\ target.labels[l] # None]_vars
    BY RedirectionsLoseNothing
  <1> QED
    BY <1>1, SerialInvHolds, PTL DEF Spec, MergeLosesNothing
=============================================================================
