------------------------------- MODULE Entities -------------------------------
(***************************************************************************)
(* The edition of local entities with its history: labels, merges, and     *)
(* what undoes them (revert-edit, restore-version, revert-merge).  Every   *)
(* edition reads the document, puts it back under CouchDB's optimistic     *)
(* locking, and only then writes the patch of that version in another      *)
(* database, where the patch may be folded into the previous one of the    *)
(* same user.  A merge is two such editions, on two documents, and nothing *)
(* undoes the first one when the second one fails.                         *)
(***************************************************************************)
EXTENDS EntityPatches

CONSTANTS
    Users,
    Dataadmins, \* the users who may revert merges
    Calls,      \* slots for the requests the server handles at a time
    MaxCalls    \* bound on the number of requests

ASSUME EntitiesAssumption == Dataadmins \subseteq Users /\ MaxCalls \in Nat

VARIABLES
    docs,       \* the versioned part of the documents of the entities database
    versions,   \* the versions of the documents
    patches,    \* the patches database: for each entity, the patch of each version
    calls,      \* the requests in flight
    count,      \* auxiliary: how many requests were started
    log         \* auxiliary: who put which document as each version

vars == <<docs, versions, patches, calls, count, log>>

-----------------------------------------------------------------------------
(* Records *)

\* A request puts each entity at most once, and a creation puts the version 2.
Versions == 2..(MaxCalls + 1)

Contexts == [kind : {"mergeFrom"}, of : Entities] \cup [kind : {"revertPatch", "restoredPatch"}, of : {None}]
NoHistory == [v \in Versions |-> None]

Patch(user, ops, context, rev) == [user |-> user, ops |-> ops, context |-> context, rev |-> rev]

Patches == [user : Users, ops : SUBSET Changes, context : Contexts \cup {None}, rev : Nat]

\* A version without patch is not one with a patch.
ASSUME NoPatchAssumption == None \notin Patches

\* A request about to do its next database call (pc).  The edited entity is `entity`, and
\* `arg` says what to do of it: the label to set, the entity to merge in it, the entity it
\* redirects to, the document to put back, the patch to revert, the version to restore.
\* Then what it has read and computed: the document and its version, the update to put, and
\* the last patch.
Request(op, pc, user, entity, arg) ==
    [op |-> op, pc |-> pc, user |-> user, entity |-> entity, arg |-> arg,
     doc |-> None, version |-> 1, update |-> None, last |-> None]

Idle == Request("none", "idle", None, None, None)

\* The same request, once it knows the update to put on the document that it has read.
Putting(call, doc, version, update) ==
    [call EXCEPT !.pc = "put", !.doc = doc, !.version = version, !.update = update]

Goto(c, call) == calls' = [calls EXCEPT ![c] = call]
At(c, pc) == calls[c].pc = pc

\* The second edition of a merge: turnIntoRedirectionOrLocalLayer, on the merged entity.
Redirecting(call) == Request("redirect", "read", call.user, call.arg, call.entity)

\* revertMergePatch: the last edition of a reverted merge, on the target of the redirection.
RevertingTarget(call) == Request("revertTarget", "patches", call.user, call.doc.redirect, call.entity)

\* What is left to do once an edition is over.
Continuation(call) ==
    CASE call.op = "merge" -> Redirecting(call)
      [] call.op = "revertMerge" -> RevertingTarget(call)
      [] OTHER -> Idle

\* The operations wrapped in retryOnConflict.
Retried == {"label", "revert"}

-----------------------------------------------------------------------------
(* Updates: the document to put, or None when the operation is refused *)

\* Mutant: the last label may be deleted.
LabelledWithoutCheck(doc, lang, text) ==
    IF IsRedirection(doc) \/ doc.labels[lang] = text THEN None
    ELSE [doc EXCEPT !.labels[lang] = text]

\* setEntityDocLabel, and deleteLabel when the text is None.
Labelled(doc, lang, text) ==
    IF \/ IsRedirection(doc)
       \/ doc.labels[lang] = text
       \/ [doc.labels EXCEPT ![lang] = text] = NoLabels
    THEN None
    ELSE [doc EXCEPT !.labels[lang] = text]

\* The labels of a map, and those of another one in the languages that it misses.
Filled(labels, others) == [l \in Langs |-> IF labels[l] = None THEN others[l] ELSE labels[l]]

\* Mutant: a redirection is a possible target of a merge.
MergedIntoAny(from, to) ==
    IF IsRedirection(from) THEN None
    ELSE IF IsRedirection(to) THEN to
    ELSE [labels |-> Filled(to.labels, from.labels), redirect |-> None]

\* Mutant: the labels of the target come first, and only for its own languages.
MergedKeepingLangs(from, to) == IF IsRedirection(from) \/ IsRedirection(to) THEN None ELSE to

\* mergeEntitiesDocs: the labels of `from` fill those that `to` does not have.
Merged(from, to) ==
    IF IsRedirection(from) \/ IsRedirection(to) THEN None
    ELSE [labels |-> Filled(to.labels, from.labels), redirect |-> None]

\* _revertFromPatchDoc.
Undone(doc, patch) ==
    IF Reverts(patch.ops, doc) /\ IsValidEntity(Reverted(patch.ops, doc)) THEN Reverted(patch.ops, doc)
    ELSE None

\* The update of a request that is about to read its document.
Update(call) ==
    LET doc == docs[call.entity]
    IN  CASE call.op = "label" -> Labelled(doc, call.arg.lang, call.arg.text)
          [] call.op = "merge" -> Merged(docs[call.arg], doc)
          [] call.op = "redirect" -> IF IsRedirection(doc) THEN None ELSE RedirectionTo(call.arg)
          [] call.op = "revertMerge" -> IF IsRedirection(doc) THEN call.arg ELSE None
          [] call.op = "revert" -> Undone(doc, call.arg)

\* restoreVersion: the patches after a version, reverted from the last one.  With nothing
\* to revert, the update is the very document that was read, which is refused.
Restored(doc, history, version) ==
    LET last == MaxCalls + 1
        before[v \in version..last] ==
            IF v = last THEN doc
            ELSE IF history[v + 1] = None THEN before[v + 1]
            ELSE IF before[v + 1] # None /\ Reverts(history[v + 1].ops, before[v + 1])
                 THEN Reverted(history[v + 1].ops, before[v + 1])
                 ELSE None
    IN  IF (\E v \in Patched(history) : v > version) /\ before[version] # None
           /\ IsValidEntity(before[version])
        THEN before[version] ELSE None

\* findVersionBeforeRedirect, on the snapshots of the patches.
BeforeRedirect(history) ==
    LET after == Snapshots(history, MaxCalls + 1)
        entityVersions == {v \in Patched(history) : after[v] # None /\ ~IsRedirection(after[v])}
    IN  IF after[MaxCalls + 1] = None \/ ~IsRedirection(after[MaxCalls + 1]) \/ entityVersions = {} THEN None
        ELSE after[CHOOSE v \in entityVersions : \A w \in entityVersions : w <= v]

\* The oldest patch that merged an entity.
MergePatch(history, from) ==
    LET merges == {v \in Patched(history) : history[v].context = [kind |-> "mergeFrom", of |-> from]}
    IN  IF merges = {} THEN None ELSE history[CHOOSE v \in merges : \A w \in merges : v <= w]

-----------------------------------------------------------------------------
(* createPatch: what to do of the patch of an update *)

\* The context that each operation passes.
Context(call) ==
    CASE call.op = "merge" -> [kind |-> "mergeFrom", of |-> call.arg]
      [] call.op = "revert" -> [kind |-> "revertPatch", of |-> None]
      [] call.op = "restore" -> [kind |-> "restoredPatch", of |-> None]
      [] OTHER -> None

\* Mutant: the previous patch may be anyone's.
FoldableForAnyone(call, previous) == previous.context = None /\ Reverts(previous.ops, call.doc)

\* Whether the previous patch can make room for the new one: same user, nothing special,
\* and an effect that can be reverted.
Foldable(call, previous) ==
    /\ previous.user = call.user
    /\ previous.context = None
    /\ Reverts(previous.ops, call.doc)

\* The operations of the previous patch and of the new one, as one patch.
Aggregated(call, previous) == Diff(Reverted(previous.ops, call.doc), call.update)

NewOps(call) == Diff(call.doc, call.update)

\* Whether a request updates a version that has a predecessor.
HasPreviousVersions(call) == call.op # "create" /\ Patched(patches[call.entity]) # {}

Previous(call) == LastPatched(patches[call.entity])

\* What the new patch becomes, given the last one.
Plan(call) ==
    LET previous == patches[call.entity][Previous(call)]
    IN  IF ~HasPreviousVersions(call) \/ ~Foldable(call, previous) THEN "post"
        ELSE IF Aggregated(call, previous) = {} THEN "delete"
        ELSE IF Length(Aggregated(call, previous)) < Length(previous.ops) + Length(NewOps(call)) THEN "rewrite"
        ELSE "post"

-----------------------------------------------------------------------------
(* Steps *)

Init ==
    /\ docs = [e \in Entities |-> None]
    /\ versions = [e \in Entities |-> 1]
    /\ patches = [e \in Entities |-> NoHistory]
    /\ calls = [c \in Calls |-> Idle]
    /\ count = 0
    /\ log = [e \in Entities |-> NoHistory]

\* db.put or db.post of a document, and beforeEntityDocSave, which increments its version.
Save(e, user, doc) ==
    LET version == versions[e] + 1
    IN  /\ docs' = [docs EXCEPT ![e] = doc]
        /\ versions' = [versions EXCEPT ![e] = version]
        /\ log' = [log EXCEPT ![e][version] = [user |-> user, doc |-> doc]]

Exists(e) == docs[e] # None

Begin(c) == calls[c] = Idle /\ count < MaxCalls /\ count' = count + 1

\* createInvEntity, up to its post: nobody knows the entity before.
Create(c, user, e, labels) ==
    LET doc == [labels |-> labels, redirect |-> None]
    IN  /\ Begin(c)
        /\ ~Exists(e)
        /\ IsValidEntity(doc)
        /\ Save(e, user, doc)
        /\ Goto(c, [Putting(Request("create", "put", user, e, None), Blank, 1, doc) EXCEPT !.pc = "patch"])
        /\ UNCHANGED patches

Accept(c, call) ==
    /\ Begin(c)
    /\ Exists(call.entity)
    /\ Goto(c, call)
    /\ UNCHANGED <<docs, versions, patches, log>>

\* updateInvLabel, and remove_label when the text is None.
UpdateLabel(c, user, e, l, text) ==
    Accept(c, Request("label", "read", user, e, [lang |-> l, text |-> text]))

\* mergeEntities, for two local entities.  The controller has checked both entities on
\* copies of its own; mergeInvEntities checks them again.  The users who are not data
\* admins merge too, when the labels match: here anyone does.
Merge(c, user, from, to) ==
    /\ from # to
    /\ Exists(from)
    /\ Accept(c, Request("merge", "read", user, to, from))

RevertMerge(c, user, e) ==
    user \in Dataadmins /\ Accept(c, Request("revertMerge", "patches", user, e, None))

\* The patch of the version may be missing.
RevertEdit(c, user, e, v) == Accept(c, Request("revert", "patches", user, e, v))

\* Only the number of the version matters, be it a version of the entity or not.
RestoreVersion(c, user, e, v) == Accept(c, Request("restore", "read", user, e, v))

\* getEntityById, or getEntitiesByIds for a merge, and the update computed from it.  A
\* merge that brings nothing skips its first edition.
Read(c) ==
    LET call == calls[c]
        doc == docs[call.entity]
        version == versions[call.entity]
    IN  /\ At(c, "read")
        /\ IF call.op = "restore" THEN Goto(c, [Putting(call, doc, version, None) EXCEPT !.pc = "patches"])
           ELSE IF Update(call) = None THEN Goto(c, Idle)
           ELSE IF call.op = "merge" /\ Update(call) = doc THEN Goto(c, Redirecting(call))
           ELSE Goto(c, Putting(call, doc, version, Update(call)))
        /\ UNCHANGED <<docs, versions, patches, count, log>>

\* getPatchesByEntityId or getPatchById, and what each operation makes of the patches.
ReadPatches(c) ==
    LET call == calls[c]
        history == patches[call.entity]
        Reading(op, arg) == IF arg = None THEN Idle ELSE Request(op, "read", call.user, call.entity, arg)
    IN  /\ At(c, "patches")
        /\ CASE call.op = "revert" -> Goto(c, Reading("revert", history[call.arg]))
             [] call.op = "revertMerge" -> Goto(c, Reading("revertMerge", BeforeRedirect(history)))
             [] call.op = "revertTarget" -> Goto(c, Reading("revert", MergePatch(history, call.arg)))
             [] call.op = "restore" ->
                  LET update == Restored(call.doc, history, call.arg)
                  IN  Goto(c, IF update = None THEN Idle ELSE Putting(call, call.doc, call.version, update))
        /\ UNCHANGED <<docs, versions, patches, count, log>>

\* Mutant: the revision of the document is not checked.
NeverInConflict(call) == FALSE

\* Whether the document was put again since the request read it.
InConflict(call) == versions[call.entity] # call.version

\* Mutant: a retried update is put again as it was.
PutAgain(call) == call

\* A retried operation starts again from the read of the document.
Retry(call) == Request(call.op, "read", call.user, call.entity, call.arg)

\* putInvEntityUpdate, up to the put.  An update without changes is put, then refused
\* when its patch turns out to be empty.
Put(c) ==
    LET call == calls[c]
    IN  /\ At(c, "put")
        /\ IF InConflict(call)
           THEN /\ Goto(c, IF call.op \in Retried THEN Retry(call) ELSE Idle)
                /\ UNCHANGED <<docs, versions, log>>
           ELSE /\ Save(call.entity, call.user, call.update)
                /\ Goto(c, IF NewOps(call) = {} THEN Idle ELSE [call EXCEPT !.pc = "patch"])
        /\ UNCHANGED <<patches, count>>

\* createPatch, up to the read of the last patch.
ReadLastPatch(c) ==
    LET call == calls[c]
        last == IF Plan(call) = "post" THEN None
                ELSE [version |-> Previous(call), patch |-> patches[call.entity][Previous(call)]]
    IN  /\ At(c, "patch")
        /\ Goto(c, [call EXCEPT !.pc = Plan(call), !.last = last])
        /\ UNCHANGED <<docs, versions, patches, count, log>>

Write(call, v, patch) == patches' = [patches EXCEPT ![call.entity][v] = patch]

PostPatch(c) ==
    LET call == calls[c]
    IN  /\ At(c, "post")
        /\ Write(call, call.version + 1, Patch(call.user, NewOps(call), Context(call), 1))
        /\ Goto(c, Continuation(call))
        /\ UNCHANGED <<docs, versions, count, log>>

\* deletePatch and updatePreviousPatch: a conflict falls back to a new patch.
FoldPatch(c) ==
    LET call == calls[c]
        last == call.last
        patch == last.patch
    IN  /\ calls[c].pc \in {"delete", "rewrite"}
        /\ IF patches[call.entity][last.version] # patch
           THEN Goto(c, [call EXCEPT !.pc = "post", !.last = None]) /\ UNCHANGED patches
           ELSE /\ Write(call, last.version,
                         IF call.pc = "delete" THEN None
                         ELSE [patch EXCEPT !.ops = Aggregated(call, patch), !.rev = @ + 1])
                /\ Goto(c, Continuation(call))
        /\ UNCHANGED <<docs, versions, count, log>>

Step(c) == Read(c) \/ ReadPatches(c) \/ Put(c) \/ ReadLastPatch(c) \/ PostPatch(c) \/ FoldPatch(c)

Next ==
    \E c \in Calls :
        \/ Step(c)
        \/ \E user \in Users, e \in Entities :
              \/ \E labels \in LabelMaps : Create(c, user, e, labels)
              \/ \E l \in Langs, text \in Labels \cup {None} : UpdateLabel(c, user, e, l, text)
              \/ \E from \in Entities : Merge(c, user, from, e)
              \/ RevertMerge(c, user, e)
              \/ \E v \in Versions : RevertEdit(c, user, e, v) \/ RestoreVersion(c, user, e, v)

\* A request that the server has accepted goes on.
Fairness == \A c \in Calls : WF_vars(Step(c))

Spec == Init /\ [][Next]_vars /\ Fairness

-----------------------------------------------------------------------------
(* Properties *)

Operations ==
    {"none", "create", "label", "merge", "redirect", "revertMerge", "revertTarget", "revert", "restore"}
Steps == {"idle", "read", "patches", "put", "patch", "post", "delete", "rewrite"}

\* Every document is an entity with at least one label or a redirection, never both
\* (assertions of models/entity.ts), and has a version and patches of its versions only.
TypeOK ==
    /\ \A e \in Entities :
          /\ Exists(e) => docs[e] \in Docs /\ (IsRedirection(docs[e]) \/ IsValidEntity(docs[e]))
          /\ Exists(e) => (docs[e].labels = None <=> IsRedirection(docs[e]))
          /\ versions[e] \in 1..(MaxCalls + 1)
          /\ \A v \in Patched(patches[e]) :
                v <= versions[e] /\ patches[e][v].user \in Users /\ patches[e][v].context \in Contexts \cup {None}
    /\ \A c \in Calls : calls[c].op \in Operations /\ calls[c].pc \in Steps
    /\ count \in 0..MaxCalls

Nobody == \A c \in Calls : calls[c] = Idle

\* The history of an entity can be replayed (addVersionsSnapshots), up to its present
\* document, and each of its versions is one that the author of the patch has put.  The
\* patches that were rewritten, deleted or are missing never show in it.
HistoryIsReplayable ==
    Nobody => \A e \in Entities : Exists(e) =>
        LET after == Snapshots(patches[e], MaxCalls + 1)
        IN  /\ after[MaxCalls + 1] = docs[e]
            /\ \A v \in Patched(patches[e]) : \E w \in v..versions[e] :
                  log[e][w] = [user |-> patches[e][v].user, doc |-> after[v]]

\* No entity redirects, through others, to itself.
NoCircularRedirection ==
    \A group \in (SUBSET Entities) \ {{}} :
        \E e \in group : Exists(e) => docs[e].redirect \notin group

\* An entity becomes a redirection once its target has a label in all of its languages:
\* merging loses nothing but the labels that the target already had.
MergeLosesNothing ==
    [][\A e \in Entities :
         Exists(e) /\ ~IsRedirection(docs[e]) /\ IsRedirection(docs'[e]) =>
             LET target == docs[docs'[e].redirect]
             IN  \A l \in Langs : docs[e].labels[l] # None => target.labels # None /\ target.labels[l] # None]_vars

\* A difference is what is left of a path by the reversal of an operation on that path, or
\* on the whole labels.
Undoes(c, d, after) ==
    (d.path = c.path /\ d.to = c.from) \/ (c.path = "labels" /\ c.from = after.labels)

\* What an operation may do of the document that it puts, whoever else has put it since
\* the request came.
OnlyItsOwnEdit(call, before, after) ==
    CASE call.op = "label" ->
           ~IsRedirection(before) /\ after = [before EXCEPT !.labels[call.arg.lang] = call.arg.text]
      [] call.op = "merge" -> \A l \in Langs : before.labels[l] # None => after.labels[l] = before.labels[l]
      [] call.op = "redirect" -> ~IsRedirection(before) /\ after.redirect = call.arg
      [] call.op = "revertMerge" -> IsRedirection(before) /\ ~IsRedirection(after)
      [] call.op = "revert" -> \A d \in Diff(before, after) : \E c \in call.arg.ops : Undoes(c, d, after)
      [] OTHER -> TRUE

\* The put of an edition changes what its request asked for, and nothing that another
\* request has put in the meantime.
EditsAreTheirOwn ==
    [][\A c \in Calls :
         At(c, "put") /\ docs'[calls[c].entity] # docs[calls[c].entity] /\ calls'[c] # calls[c] =>
             OnlyItsOwnEdit(calls[c], docs[calls[c].entity], docs'[calls[c].entity])]_vars

\* Every request ends, the ones retried on conflicts included.
RequestsEnd == \A c \in Calls : ~At(c, "idle") ~> At(c, "idle")

\* Reverting a merge gives the merged entity its last labels back
\* (tests/api/entities/merge/revert_merge.test.ts).
RevertMergeRestores ==
    [][\A c \in Calls :
         LET e == calls[c].entity
             entityVersions == {v \in Versions : log[e][v] # None /\ ~IsRedirection(log[e][v].doc)}
         IN  At(c, "put") /\ calls[c].op = "revertMerge" /\ docs'[e] # docs[e] =>
                 docs'[e] = log[e][CHOOSE v \in entityVersions : \A w \in entityVersions : w <= v].doc]_vars
=============================================================================
