-------------------------------- MODULE Catalogue --------------------------------
(***************************************************************************)
(* Claims between entities, and everything that refers to entities: items, *)
(* elements of listings, and the tasks of those who curate the catalogue.  *)
(* A merge redirects all of them; reverting it takes back, from the        *)
(* patches that it left, what it had redirected.                           *)
(*                                                                         *)
(* A request is one step: it applies, in the order of the code, functions  *)
(* from a state of the databases to the next one, and stops at the first   *)
(* that fails, what was written before being kept.  (How the put of a      *)
(* document and that of its patch interleave with others is in Entities.)  *)
(* The listeners of the events that it emitted are steps of their own.     *)
(*                                                                         *)
(* Works refer to their authors (wdt:P50) and editions to their works      *)
(* (wdt:P629).                                                             *)
(***************************************************************************)
EXTENDS Naturals, Sequences, FiniteSets, SequencesExt

CONSTANTS
    Authors, Works, Editions,   \* the entities
    NoEntity,
    Catalogues,                 \* what there may be to begin with: claims, and the entities in use
    MaxRequests, MaxHistory,    \* bounds on the requests of a behaviour, on them with the puts left without a patch,
    MaxEdits, MaxTasks          \* on the claims that they edit one by one, and on the tasks

Entities == Authors \cup Works \cup Editions
Uses == {"item", "element"}

\* What the claims of an entity may refer to.
ValidValues(e) == IF e \in Works THEN Authors ELSE IF e \in Editions THEN Works ELSE {}

ASSUME EntitiesAssumption ==
    /\ IsFiniteSet(Entities) /\ NoEntity \notin Entities
    /\ Authors \cap Works = {} /\ Authors \cap Editions = {} /\ Works \cap Editions = {}

\* Entities are created with valid claims, and editions with a work.
ASSUME CataloguesAssumption ==
    \A c \in Catalogues :
        /\ \A e \in Entities : c.claims[e] \subseteq ValidValues(e) /\ (e \in Editions => c.claims[e] # {})
        /\ \A u \in Uses : c.uses[u] \in Entities

VARIABLES
    db,         \* the databases
    folded,     \* the puts that have no patch of their own, or that lost it: <<i, e>> for the i-th of e
    radio,      \* events whose listeners have not run yet
    requests,   \* how many requests were handled
    undo        \* auxiliary: what the last request did, when the next one may undo it

catalogueVars == <<db, folded, radio, requests, undo>>

-----------------------------------------------------------------------------
(* The databases *)

SameType(a, b) == \E T \in {Authors, Works, Editions} : a \in T /\ b \in T

\* Arrays of claims are bags: how many times each value is there.
Bag(values) == [e \in Entities |-> IF e \in values THEN 1 ELSE 0]
NoRefs == Bag({})
Refers(refs, e) == refs[e] > 0
Values(refs) == {e \in Entities : Refers(refs, e)}
Plus(refs, added) == [e \in Entities |-> refs[e] + added[e]]
Minus(refs, removed) == [e \in Entities |-> refs[e] - removed[e]]

\* What is read of an entity follows the redirections.
Resolved(docs, e) ==
    LET resolved[d \in Entities] == IF docs[d].type = "redirect" THEN resolved[docs[d].to] ELSE d
    IN  resolved[e]

IsEntity(s, e) == s.docs[e].type = "entity"

\* View byClaimValue: the entities, neither redirected nor removed, that refer to another.
ClaimedBy(s, e) == {d \in Entities : IsEntity(s, d) /\ Refers(s.docs[d].refs, e)}

Fail(s) == [s EXCEPT !.ok = FALSE]
Emit(s, kind, es) == [s EXCEPT !.events = @ \cup {[kind |-> kind, of |-> e] : e \in es}]

\* Documents are put one by one, or several at once: patches has one function per put,
\* from the documents to what their patches are when they are not folded; before has the
\* versions that they replace.
Patch(kind, from, removed, added, deletedClaims) ==
    [kind |-> kind, from |-> from, removed |-> removed, added |-> added, deletedClaims |-> deletedClaims]
ClaimsPatch(kind, from, removed, added) == Patch(kind, from, removed, added, {})
Mark(kind) == Patch(kind, NoEntity, NoRefs, NoRefs, {})
Only(d, x) == [e \in {d} |-> x]
Has(puts, d, kind) == d \in DOMAIN puts /\ puts[d].kind = kind
HasFrom(puts, d, kind, from) == Has(puts, d, kind) /\ puts[d].from = from

Version(doc) == [type |-> doc.type, refs |-> doc.refs]
Write(s, docs, puts) ==
    [s EXCEPT !.docs = docs, !.patches = Append(@, puts),
              !.before = Append(@, [d \in DOMAIN puts |-> Version(s.docs[d])])]

Patched(refs, patch) == Plus(Minus(refs, patch.removed), patch.added)
PutAll(s, puts) ==
    LET put(d) == [s.docs[d] EXCEPT !.refs = Patched(@, puts[d])]
    IN  IF DOMAIN puts = {} THEN s
        ELSE Write(s, [d \in Entities |-> IF d \in DOMAIN puts THEN put(d) ELSE s.docs[d]], puts)

\* validateRequiredPropertiesValues: an edition keeps a work.
CanPut(s, d, patch) == d \in Editions => Values(Patched(s.docs[d].refs, patch)) # {}
PutClaims(s, d, patch) == IF CanPut(s, d, patch) THEN PutAll(s, Only(d, patch)) ELSE Fail(s)
PutType(s, d, type, kind) == Write(s, [s.docs EXCEPT ![d].type = type], Only(d, Mark(kind)))

\* The puts of an entity that still have a patch.
Posted(s, e) == {i \in DOMAIN s.patches : e \in DOMAIN s.patches[i] /\ <<i, e>> \notin folded}
LastOf(S) == CHOOSE i \in S : \A j \in S : j <= i

-----------------------------------------------------------------------------
(* Claims *)

\* updateInvClaim
CanUpdateClaim(s, d, removed, added) ==
    /\ IsEntity(s, d)
    /\ \A e \in removed : Refers(s.docs[d].refs, e)
    /\ \A e \in added : ~Refers(s.docs[d].refs, e)
UpdateInvClaim(s, d, removed, added) ==
    IF CanUpdateClaim(s, d, removed, added)
    THEN PutClaims(s, d, ClaimsPatch("edit", NoEntity, Bag(removed), Bag(added))) ELSE Fail(s)

AllOf(refs, e) == [NoRefs EXCEPT ![e] = refs[e]]

\* redirectClaims: all at once, and every time that the value is there.
RedirectClaims(s, from, to) ==
    LET redirected(d) == LET refs == s.docs[d].refs
                         IN  ClaimsPatch("redirectClaims", from, AllOf(refs, from),
                                         IF Refers(refs, to) THEN NoRefs ELSE Bag({to}))
    IN  PutAll(s, [d \in ClaimedBy(s, from) |-> redirected(d)])

\* revertFromPatchDoc: what the patch added must be there; what it removed comes back,
\* be it there or not.  A removed placeholder still has claims, a redirection has none.
Reverting(patch) == ClaimsPatch("revert", NoEntity, patch.added, patch.removed)
CanRevert(s, d, patch) ==
    /\ s.docs[d].type # "redirect"
    /\ \A e \in Entities : patch.added[e] <= s.docs[d].refs[e]
    /\ IsEntity(s, d) => CanPut(s, d, Reverting(patch))

-----------------------------------------------------------------------------
(* Removed placeholders *)

ToPlaceholders(s, removed, deletedClaims) ==
    IF removed = {} THEN s
    ELSE Emit(Write(s, [e \in Entities |-> IF e \in removed THEN [s.docs[e] EXCEPT !.type = "removed"] ELSE s.docs[e]],
                    [e \in removed |-> Patch("deletion", NoEntity, NoRefs, NoRefs, deletedClaims)]),
              "entity:remove", removed)

\* removePlaceholder: the claims first, then the entity.  The entity is one that CanBeRemoved:
\* no edition is left without a work.
RemovePlaceholder(s, e) ==
    LET subjects == ClaimedBy(s, e)
        unclaimed == [d \in subjects |-> ClaimsPatch("edit", NoEntity, AllOf(s.docs[d].refs, e), NoRefs)]
    IN  ToPlaceholders(PutAll(s, unclaimed), {e}, subjects)

\* findDeletionPatch: the last one of the entity, or 0.
LastDeletion(s, e) ==
    LET found == {i \in Posted(s, e) : Has(s.patches[i], e, "deletion")}
    IN  IF found = {} THEN 0 ELSE LastOf(found)

\* recoverDeletedClaims: a subject that was edited since keeps the claims it has.  It is read
\* through the redirections, and then edited itself.
RecoverDeletedClaims(s, e, i) ==
    LET read(d) == Resolved(s.docs, d)
        edited(d) == \E j \in (i + 1)..Len(s.patches) : read(d) \in DOMAIN s.patches[j]
        recovered == {d \in s.patches[i][e].deletedClaims : Values(s.docs[read(d)].refs) = {} \/ ~edited(d)}
    IN  IF i = 0 THEN s
        ELSE IF \A d \in recovered : CanUpdateClaim(s, d, {}, {e})
             THEN PutAll(s, [d \in recovered |-> ClaimsPatch("edit", NoEntity, NoRefs, Bag({e}))]) ELSE Fail(s)

\* Mutant: the claims deleted with the placeholder are forgotten.
RecoverAlone(s, e) ==
    IF ~s.ok \/ s.docs[e].type # "removed" THEN s
    ELSE Emit(PutType(s, e, "entity", "recovery"), "entity:recover", {e})

\* recoverPlaceholder, with the last deletion patch.
RecoverPlaceholder(s, e) ==
    LET recovered == RecoverDeletedClaims(PutType(s, e, "entity", "recovery"), e, LastDeletion(s, e))
    IN  IF ~s.ok \/ s.docs[e].type # "removed" THEN s
        ELSE IF ~CanPut(s, e, Mark("recovery")) THEN Fail(s)
        ELSE IF recovered.ok THEN Emit(recovered, "entity:recover", {e}) ELSE recovered

\* recoverPlaceholders: in turn, until one fails.
RecoverPlaceholders(s, es) ==
    LET after[i \in 0..Len(es)] == IF i = 0 THEN s ELSE RecoverPlaceholder(after[i - 1], es[i])
    IN  after[Len(es)]

-----------------------------------------------------------------------------
(* Items and elements of listings: the entity of each, and those it had before *)

Moved(use, from, to) ==
    IF use.uri = from THEN [use EXCEPT !.uri = to, !.previous = <<from>> \o @] ELSE use

\* Mutant: only the items that are still where the merge took them.
MovedBackToFirst(use, e) ==
    IF use.previous # <<>> /\ Head(use.previous) = e THEN [use EXCEPT !.uri = e, !.previous = Tail(@)] ELSE use

\* updateItemsEntityAfterMergeRevert: what the entity was merged into is forgotten.
MovedBack(use, e) ==
    LET found == {i \in DOMAIN use.previous : use.previous[i] = e}
        index == CHOOSE i \in found : \A j \in found : i <= j
    IN  IF found = {} THEN use
        ELSE [use EXCEPT !.uri = e, !.previous = SubSeq(@, index + 1, Len(@))]

PropagateToSocialCore(s, from, to) ==
    [s EXCEPT !.uses = [u \in Uses |-> Moved(@[u], from, to)]]
PropagateRevertToSocialCore(s, e) == [s EXCEPT !.uses = [u \in Uses |-> MovedBack(@[u], e)]]

-----------------------------------------------------------------------------
(* Merges *)

\* mergeInvEntities: values of an author property may be placeholders, a work that has none is given
\* the first one; an edition is given all the works that it has not.
GivenClaims(s, from, to) ==
    LET new == Values(s.docs[from].refs) \ Values(s.docs[to].refs)
    IN  IF to \in Editions \/ new = {} THEN {new}
        ELSE IF Values(s.docs[to].refs) = {} THEN {{e} : e \in new} ELSE {{}}
MergeClaims(s, from, to, given) ==
    IF given = {} THEN s ELSE PutAll(s, Only(to, ClaimsPatch("mergeFrom", from, NoRefs, Bag(given))))

\* The authors that only the merged work refers to.
Isolated(s, from) ==
    {e \in Values(s.docs[from].refs) \cap Authors : ClaimedBy(s, e) \subseteq {from} /\ IsEntity(s, e)}

TurnIntoRedirection(s, from, to) ==
    LET isolated == Isolated(s, from)
        removed == ToPlaceholders(s, isolated, {})
        doc == [s.docs[from] EXCEPT !.type = "redirect", !.to = to, !.gone = SetToSeq(isolated)]
    IN  Write(removed, [removed.docs EXCEPT ![from] = doc], Only(from, Mark("redirection")))

MergeEntities(s, from, to, given) ==
    LET redirected == TurnIntoRedirection(MergeClaims(s, from, to, given), from, to)
    IN  Emit(RedirectClaims(PropagateToSocialCore(redirected, from, to), from, to), "entity:merge", {from})

\* revertMergePatch: the first patch of a merge from this entity, if any.
RevertMergePatch(s, from, to) ==
    LET merges == {i \in Posted(s, to) : HasFrom(s.patches[i], to, "mergeFrom", from)}
        first == CHOOSE i \in merges : \A j \in merges : i <= j
        patch == s.patches[first][to]
    IN  IF merges = {} \/ s.docs[to].type = "redirect" THEN s
        ELSE IF CanRevert(s, to, patch) THEN PutAll(s, Only(to, Reverting(patch))) ELSE Fail(s)

\* revertClaimsRedirections: the failure of one patch does not stop the others.  Those of
\* one redirection are about different documents.
RevertRedirected(s, puts, from) ==
    LET redirected == {d \in DOMAIN puts : HasFrom(puts, d, "redirectClaims", from)}
        reverted == {d \in redirected : CanRevert(s, d, puts[d])}
    IN  IF redirected = {} THEN s
        ELSE [PutAll(s, [d \in reverted |-> Reverting(puts[d])]) EXCEPT !.ok = @ /\ reverted = redirected]
RevertClaimsRedirections(s, from) ==
    LET posted(i) == [d \in {d \in DOMAIN s.patches[i] : <<i, d>> \notin folded} |-> s.patches[i][d]]
        after[i \in 0..Len(s.patches)] == IF i = 0 THEN s ELSE RevertRedirected(after[i - 1], posted(i), from)
    IN  after[Len(s.patches)]

\* findVersionBeforeRedirect: the last of the versions that the patches lead to, but for
\* redirections.  They end before the puts that have a patch.
VersionsBefore(s, e) == {i \in Posted(s, e) : s.before[i][e].type # "redirect"}

\* revertMerge: when the entity has but one patch, no version comes before the redirection.
RevertMergeEntities(s, from) ==
    LET doc == s.docs[from]
        version == s.before[LastOf(VersionsBefore(s, from))][from]
        restored == Write(s, [s.docs EXCEPT ![from] = [type |-> version.type, refs |-> version.refs, to |-> NoEntity, gone |-> <<>>]],
                          Only(from, Mark("restoration")))
        recovered == RecoverPlaceholders(restored, doc.gone)
        separated == IF recovered.ok THEN RevertMergePatch(recovered, from, doc.to) ELSE recovered
        reverted == IF separated.ok THEN RevertClaimsRedirections(separated, from) ELSE separated
    IN  IF VersionsBefore(s, from) = {} THEN Fail(s)
        ELSE IF reverted.ok THEN Emit(reverted, "entity:revert:merge", {from})
        ELSE [reverted EXCEPT !.halfway = TRUE]

-----------------------------------------------------------------------------
(* Tasks *)

Task(type, suspect, suggestion) == [type |-> type, suspect |-> suspect, suggestion |-> suggestion, state |-> "none"]
LiveTasks(s, e) == {t \in s.tasks : t.suspect = e /\ t.state = "none"}

WithState(s, selected, state) ==
    [s EXCEPT !.tasks = (@ \ selected) \cup {[t EXCEPT !.state = state] : t \in selected}]

\* Mutant: the tasks are found by the entity that they suggest.
ArchiveTasksOfSuggestion(s, e) == WithState(s, {t \in s.tasks : t.suggestion = e /\ t.state = "none"}, "processed")

ArchiveTasks(s, e) == WithState(s, LiveTasks(s, e), "processed")
RevertArchive(s, e) == WithState(s, {t \in s.tasks : t.suspect = e /\ t.state = "processed"}, "none")

\* A task that is already there only gets another reporter.
CreateMergeTask(s, from, to) ==
    IF \E t \in LiveTasks(s, from) : t.suggestion = to THEN s
    ELSE [s EXCEPT !.tasks = @ \cup {Task("merge", from, to)}]
CreateDeleteTask(s, e) ==
    IF LiveTasks(s, e) # {} THEN s ELSE [s EXCEPT !.tasks = @ \cup {Task("delete", e, NoEntity)}]

\* verifyThatEntitiesCanBeRemoved: what is used cannot be removed.
CanBeRemoved(s, e) ==
    /\ \A d1, d2 \in ClaimedBy(s, e) : d1 = d2 /\ s.docs[d1].refs[e] = 1
    /\ ClaimedBy(s, e) \cap Editions = {}
    /\ \A u \in Uses : s.uses[u].uri # e

-----------------------------------------------------------------------------
(* createPatch: patches that are folded into the previous one of the same user *)

NewPuts(s) == UNION {{i} \X DOMAIN s.patches[i] : i \in DOMAIN s.patches \ DOMAIN db.patches}

\* The patches without context, but the one that gives a redirection its claims back, which
\* never reverts (see EntityPatches).
Foldable == {"edit", "recovery", "redirection"}

\* The version that a put leaves.
VersionAfter(s, i, e) ==
    LET next == {j \in DOMAIN s.patches : j > i /\ e \in DOMAIN s.patches[j]}
    IN  IF next = {} THEN Version(s.docs[e]) ELSE s.before[CHOOSE j \in next : \A k \in next : j <= k][e]

\* What becomes of a patch that should be folded, knowing the puts that have none so far.
\* When nothing is left of both patches the previous one is deleted, otherwise it is
\* rewritten.  That of the creation of the entity comes before them all.
FoldedWith(s, without, i, e) ==
    LET posted == {j \in DOMAIN s.patches : j < i /\ e \in DOMAIN s.patches[j] /\ <<j, e>> \notin without}
        last == LastOf(posted)
    IN  IF posted = {} THEN {<<i, e>>}
        ELSE IF s.patches[last][e].kind \notin Foldable THEN {}
        ELSE IF s.before[last][e] = VersionAfter(s, i, e) THEN {<<i, e>>, <<last, e>>}
        ELSE {<<i, e>>}

\* Put after put.
FoldPuts(s, folding) ==
    LET after[i \in 0..Len(s.patches)] ==
            IF i = 0 THEN folded
            ELSE after[i - 1] \cup UNION {FoldedWith(s, after[i - 1], i, e) : e \in {e \in Entities : <<i, e>> \in folding}}
    IN  after[Len(s.patches)]

-----------------------------------------------------------------------------
(* Requests and listeners *)

NoUndo == [by |-> "nothing", of |-> NoEntity, docs |-> <<>>]
Settled == [db EXCEPT !.ok = TRUE, !.events = {}]

\* Nothing in a request reads the patches that it leaves: whether they are folded is decided
\* once all its puts are known.  Any may be, whenever its user made the previous one, and the
\* operations on the rest of the document (labels, other claims) make one patch shorter than
\* two.  What a request did can only be undone if it left its patches.
Handle(s, remembered) ==
    /\ requests' = requests + 1
    /\ db' = [s EXCEPT !.events = {}]
    /\ radio' = s.events
    /\ \E folding \in SUBSET NewPuts(s) :
        requests' + Cardinality(folded \cup folding) <= MaxHistory /\ folded' = FoldPuts(s, folding)
    /\ undo' = IF remembered.by # "undone" /\ NewPuts(s) \cap folded' # {} THEN NoUndo ELSE remembered

\* The claims as the reversals should restore them.
Claims(s) == [e \in Entities |-> [type |-> s.docs[e].type, refs |-> s.docs[e].refs]]
First(s, kind, from) == \A i \in DOMAIN s.patches : \A d \in DOMAIN s.patches[i] : ~HasFrom(s.patches[i], d, kind, from)
Undoing(by, e) == IF undo.by = by /\ undo.of = e THEN [undo EXCEPT !.by = "undone"] ELSE NoUndo

Suggest(s) == Cardinality(s.tasks) <= MaxTasks /\ Handle(s, NoUndo)

UpdateClaim(d, removed, added) ==
    /\ removed # added
    /\ Cardinality({i \in DOMAIN db.patches : \E e \in Entities : Has(db.patches[i], e, "edit")}) < MaxEdits
    /\ \A e \in added : Resolved(db.docs, e) \in ValidValues(d)
    /\ UpdateInvClaim(Settled, d, removed, added).ok
    /\ Handle(UpdateInvClaim(Settled, d, removed, added), NoUndo)

\* The controller reads both entities through the redirections, and refuses the entities
\* that refer to one another.  Users who are not data admins merge the entities whose labels
\* match; otherwise they suggest the merge.
Merge(from, to) ==
    /\ from # to /\ SameType(from, to)
    /\ db.docs[from].type # "redirect" /\ db.docs[to].type # "redirect"
    /\ \/ /\ IsEntity(db, from) /\ IsEntity(db, to)
          /\ \E given \in GivenClaims(db, from, to) :
                Handle(MergeEntities(Settled, from, to, given),
                       IF First(db, "redirectClaims", from) /\ First(db, "mergeFrom", from)
                       THEN [by |-> "merge", of |-> from, docs |-> Claims(db)] ELSE NoUndo)
       \/ Suggest(CreateMergeTask(Settled, from, to))

RevertMerge(from) ==
    /\ db.docs[from].type = "redirect"
    /\ Handle(RevertMergeEntities(Settled, from), Undoing("merge", from))

\* delete: data admins remove the entity; the others too, when nothing refers to it and it
\* refers to nothing, otherwise they suggest it.
Delete(e) ==
    /\ db.docs[e].type # "redirect" /\ CanBeRemoved(db, e)
    /\ \/ /\ IsEntity(db, e)
          /\ Handle(RemovePlaceholder(Settled, e),
                    [by |-> "delete", of |-> e, docs |-> Claims(db)])
       \/ /\ ClaimedBy(db, e) # {} \/ Values(db.docs[e].refs) # {}
          /\ Suggest(CreateDeleteTask(Settled, e))

Recover(e) ==
    /\ db.docs[e].type = "removed"
    /\ Handle(RecoverPlaceholder(Settled, e), Undoing("delete", e))

\* A data admin closes a task.
UpdateTask(t) == t.state = "none" /\ Handle(WithState(Settled, {t}, "dismissed"), NoUndo)

\* The listeners of tasks/hooks.ts and propagate_redirection.ts.
Listen(event) ==
    /\ radio' = radio \ {event}
    /\ db' = CASE event.kind \in {"entity:merge", "entity:remove"} -> ArchiveTasks(db, event.of)
               [] event.kind = "entity:recover" -> RevertArchive(db, event.of)
               [] event.kind = "entity:revert:merge" ->
                    PropagateRevertToSocialCore(RevertArchive(db, event.of), event.of)
    /\ UNCHANGED <<folded, requests, undo>>

Doc(claims) == [type |-> "entity", refs |-> Bag(claims), to |-> NoEntity, gone |-> <<>>]
Database(c) ==
    [docs |-> [e \in Entities |-> Doc(c.claims[e])], patches |-> <<>>, before |-> <<>>, tasks |-> {},
     uses |-> [u \in Uses |-> [uri |-> c.uses[u], previous |-> <<>>, origin |-> c.uses[u]]],
     ok |-> TRUE, events |-> {}, halfway |-> FALSE]

CatalogueInit ==
    /\ \E c \in Catalogues : db = Database(c)
    /\ folded = {} /\ radio = {} /\ requests = 0 /\ undo = NoUndo

Requests ==
    \/ \E d \in Entities : \E removed, added \in {{}} \cup {{e} : e \in ValidValues(d)} : UpdateClaim(d, removed, added)
    \/ \E from, to \in Entities : Merge(from, to)
    \/ \E e \in Entities : RevertMerge(e) \/ Delete(e) \/ Recover(e)
    \/ \E t \in db.tasks : UpdateTask(t)

\* Requests are handled one at a time, after the listeners of the previous one.
CatalogueNext ==
    \/ radio = {} /\ requests < MaxRequests /\ Requests
    \/ \E event \in radio : Listen(event)

CatalogueSpec == CatalogueInit /\ [][CatalogueNext]_catalogueVars

-----------------------------------------------------------------------------
(* Properties *)

\* Items and elements stay on what their entity has become, through any chain of merges and
\* of reverted merges, as long as no reversal failed half way, before
\* it told them (controllers/items/lib/update_entity.ts, controllers/entities/lib/propagate_redirection.ts).
UsesFollowTheirEntity ==
    radio = {} /\ ~db.halfway => \A u \in Uses : db.uses[u].uri = Resolved(db.docs, db.uses[u].origin)

\* Once the listeners have run, no live task is about a redirected entity
\* (controllers/tasks/hooks.ts).
NoTaskOnRedirection ==
    radio = {} => \A t \in db.tasks : t.state = "none" => db.docs[t.suspect].type # "redirect"

\* The first merge of an entity, or its removal, is entirely undone by its reversal, when
\* nothing happens in between and none of its patches was folded into a previous one: every
\* claim is back, and every removed author
\* (controllers/entities/lib/revert_merge.ts, placeholders.ts).
ReversalsRestore == undo.by = "undone" => db.ok /\ Claims(db) = undo.docs

\* No claim has the same value twice (models/entity.ts).
NoDuplicateClaim == \A d, e \in Entities : db.docs[d].refs[e] <= 1
====
