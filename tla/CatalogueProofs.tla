----------------------------- MODULE CatalogueProofs -----------------------------
(***************************************************************************)
(* What the catalogue guarantees for any authors, works, editions, tasks   *)
(* and requests.  The first half follows a request through the functions   *)
(* that it applies: the databases stay sound (Good), and only merges and   *)
(* their reversals change where entities are redirected to (Keeps).  Then  *)
(* tasks are archived, items and elements stay on what their entity has    *)
(* become, and what a merge or a removal did is found in the patches that  *)
(* it left, and entirely undone.                                           *)
(***************************************************************************)
EXTENDS Catalogue, FiniteSetTheorems, WellFoundedInduction, TLAPS

-----------------------------------------------------------------------------
(* The databases that the requests go through *)

Refs == [Entities -> Nat]
Types == {"entity", "removed", "redirect"}
Documents == [type : Types, refs : Refs, to : Entities \cup {NoEntity}, gone : Seq(Entities)]
PatchKinds ==
    {"edit", "mergeFrom", "redirectClaims", "revert", "deletion", "recovery", "redirection", "restoration"}
Patches ==
    [kind : PatchKinds, from : Entities \cup {NoEntity}, removed : Refs, added : Refs, deletedClaims : SUBSET Entities]
Puts == UNION {[D -> Patches] : D \in SUBSET Entities}
TaskSet ==
    [type : {"merge", "delete"}, suspect : Entities, suggestion : Entities \cup {NoEntity},
     state : {"none", "processed", "dismissed"}]
UseSet == [uri : Entities, previous : Seq(Entities), origin : Entities]
Recoveries == {"entity:recover", "entity:revert:merge"}
EventSet == [kind : {"entity:merge", "entity:remove"} \cup Recoveries, of : Entities]

Versions == [type : Types, refs : Refs]
Replacements == UNION {[D -> Versions] : D \in SUBSET Entities}

States ==
    [docs : [Entities -> Documents], patches : Seq(Puts), before : Seq(Replacements), tasks : SUBSET TaskSet, uses : [Uses -> UseSet],
     ok : BOOLEAN, events : SUBSET EventSet, halfway : BOOLEAN]

\* Claims of d, present or in a patch, have values that they may have.
Valid(d, refs) == refs \in Refs /\ \A e \in Entities : refs[e] # 0 => e \in ValidValues(d)
ValidPatch(d, patch) ==
    Valid(d, patch.removed) /\ Valid(d, patch.added) /\ \A x \in patch.deletedClaims : d \in ValidValues(x)

\* What is there in every document.
GoodDoc(d, doc) ==
    /\ Valid(d, doc.refs)
    /\ doc.type = "redirect" => doc.to \in Entities
    /\ d \in Editions /\ doc.type # "removed" => Values(doc.refs) # {}
GoodPuts(puts) == puts \in Puts /\ \A d \in DOMAIN puts : ValidPatch(d, puts[d])
GoodVersion(d, version) ==
    Valid(d, version.refs) /\ (d \in Editions /\ version.type # "removed" => Values(version.refs) # {})

\* The versions that the puts replaced are there, and sound.
GoodBefore(s) ==
    /\ Len(s.before) = Len(s.patches)
    /\ \A i \in DOMAIN s.before :
        DOMAIN s.before[i] = DOMAIN s.patches[i] /\ \A d \in DOMAIN s.before[i] : GoodVersion(d, s.before[i][d])

Good(s) ==
    /\ s \in States
    /\ \A d \in Entities : GoodDoc(d, s.docs[d])
    /\ \A i \in DOMAIN s.patches : GoodPuts(s.patches[i])
    /\ GoodBefore(s)
    /\ \A v \in s.events : v.kind \in Recoveries => s.docs[v.of].type # "redirect"

\* What the requests leave alone, but merges and their reversals: where entities are redirected to.
Keeps(s, t) ==
    /\ t.tasks = s.tasks /\ t.uses = s.uses /\ t.halfway = s.halfway
    /\ \A d \in Entities : (t.docs[d].type = "redirect" <=> s.docs[d].type = "redirect") /\ t.docs[d].to = s.docs[d].to

\* What leaves redirections alone, twice, leaves them alone; so does what does nothing.
LEMMA KeepsTransitive ==
    ASSUME NEW s, NEW t, NEW u, Keeps(s, t), Keeps(t, u)
    PROVE  Keeps(s, u)
  BY DEF Keeps

LEMMA KeepsItself ==
    ASSUME NEW s
    PROVE  Keeps(s, s)
  BY DEF Keeps

-----------------------------------------------------------------------------
(* Bags of claims *)

\* How many times a value is in the bag of a set, in the empty bag, and in what a redirection
\* takes.
LEMMA Bags ==
    /\ \A S : Bag(S) \in Refs /\ \A e \in Entities : Bag(S)[e] = IF e \in S THEN 1 ELSE 0
    /\ NoRefs \in Refs /\ \A e \in Entities : NoRefs[e] = 0
    /\ \A refs \in Refs : \A e \in Entities :
        AllOf(refs, e) \in Refs /\ \A x \in Entities : AllOf(refs, e)[x] = IF x = e THEN refs[e] ELSE 0
  BY DEF Bag, Refs, NoRefs, AllOf

\* Bags of valid values are valid.
LEMMA ValidBags ==
    ASSUME NEW d \in Entities
    PROVE  /\ Valid(d, NoRefs)
           /\ \A S : S \subseteq ValidValues(d) => Valid(d, Bag(S))
           /\ \A refs : \A e \in Entities : Valid(d, refs) => Valid(d, AllOf(refs, e))
  <1>1. Valid(d, NoRefs)
    BY Bags DEF Valid
  <1>2. ASSUME NEW S, S \subseteq ValidValues(d)
        PROVE  Valid(d, Bag(S))
    BY <1>2, Bags DEF Valid
  <1>3. ASSUME NEW refs, NEW e \in Entities, Valid(d, refs)
        PROVE  Valid(d, AllOf(refs, e))
    <2>1. refs \in Refs /\ (refs[e] # 0 => e \in ValidValues(d))
      BY <1>3 DEF Valid
    <2>2. AllOf(refs, e) \in Refs /\ \A x \in Entities : AllOf(refs, e)[x] = IF x = e THEN refs[e] ELSE 0
      BY <2>1, Bags
    <2> QED
      BY <2>1, <2>2 DEF Valid
  <1> QED
    BY <1>1, <1>2, <1>3

\* The values of a bag are those that are there.
LEMMA ValuesAre ==
    ASSUME NEW refs \in Refs
    PROVE  \A e \in Entities : e \in Values(refs) <=> refs[e] # 0
  BY DEF Values, Refers, Refs

\* A patch that removes no more than what is there makes a bag, whose counts are the expected ones.
LEMMA PatchedIs ==
    ASSUME NEW refs \in Refs, NEW patch \in Patches, \A e \in Entities : patch.removed[e] <= refs[e]
    PROVE  /\ Patched(refs, patch) \in Refs
           /\ \A e \in Entities : Patched(refs, patch)[e] = refs[e] - patch.removed[e] + patch.added[e]
  BY DEF Patched, Plus, Minus, Refs, Patches

\* A valid patch keeps claims valid.
LEMMA ValidPatched ==
    ASSUME NEW d \in Entities, NEW refs, Valid(d, refs), NEW patch \in Patches, ValidPatch(d, patch),
           \A e \in Entities : patch.removed[e] <= refs[e]
    PROVE  Valid(d, Patched(refs, patch))
  <1>1. refs \in Refs
    BY DEF Valid
  <1>2. ASSUME NEW e \in Entities, Patched(refs, patch)[e] # 0
        PROVE  e \in ValidValues(d)
    <2>1. /\ patch.removed[e] \in Nat /\ patch.added[e] \in Nat /\ refs[e] \in Nat
          /\ patch.removed[e] <= refs[e]
      BY <1>1 DEF Patches, Refs
    <2>2. refs[e] # 0 \/ patch.added[e] # 0
      BY <1>1, <1>2, <2>1, PatchedIs
    <2> QED
      BY <2>2 DEF Valid, ValidPatch
  <1> QED
    BY <1>1, <1>2, PatchedIs DEF Valid

-----------------------------------------------------------------------------
(* Puts *)

\* The patches that are appended keep those that were there.
LEMMA Appended ==
    ASSUME NEW s, Good(s), NEW puts, GoodPuts(puts)
    PROVE  /\ Append(s.patches, puts) \in Seq(Puts)
           /\ Len(s.patches) \in Nat /\ DOMAIN s.patches = 1..Len(s.patches)
           /\ DOMAIN Append(s.patches, puts) = 1..(Len(s.patches) + 1)
           /\ Append(s.patches, puts)[Len(s.patches) + 1] = puts
           /\ \A i \in DOMAIN s.patches : Append(s.patches, puts)[i] = s.patches[i]
           /\ \A i \in DOMAIN Append(s.patches, puts) : GoodPuts(Append(s.patches, puts)[i])
  <1>1. s.patches \in Seq(Puts) /\ puts \in Puts
    BY DEF Good, States, GoodPuts
  <1>2. /\ Append(s.patches, puts) \in Seq(Puts)
        /\ Len(s.patches) \in Nat /\ DOMAIN s.patches = 1..Len(s.patches)
        /\ DOMAIN Append(s.patches, puts) = 1..(Len(s.patches) + 1)
        /\ Append(s.patches, puts)[Len(s.patches) + 1] = puts
        /\ \A i \in DOMAIN s.patches : Append(s.patches, puts)[i] = s.patches[i]
    BY <1>1
  <1> QED
    BY <1>2 DEF Good

\* What PutAll may put.
Puttable(s, puts) ==
    /\ GoodPuts(puts)
    /\ \A d \in DOMAIN puts :
        /\ \A e \in Entities : puts[d].removed[e] <= s.docs[d].refs[e]
        /\ d \in Editions /\ s.docs[d].type # "removed" => Values(Patched(s.docs[d].refs, puts[d])) # {}

PutDocs(s, puts) ==
    [d \in Entities |-> IF d \in DOMAIN puts THEN [s.docs[d] EXCEPT !.refs = Patched(@, puts[d])] ELSE s.docs[d]]

Replaced(s, puts) == [d \in DOMAIN puts |-> Version(s.docs[d])]

\* A write changes the documents, and appends the patches and the versions that they replace.
LEMMA WriteIs ==
    ASSUME NEW s \in States, NEW docs, NEW puts, NEW t, t = Write(s, docs, puts)
    PROVE  /\ t.docs = docs /\ t.patches = Append(s.patches, puts) /\ t.before = Append(s.before, Replaced(s, puts))
           /\ t.tasks = s.tasks /\ t.uses = s.uses /\ t.ok = s.ok /\ t.events = s.events /\ t.halfway = s.halfway
           /\ (docs \in [Entities -> Documents] /\ Append(s.patches, puts) \in Seq(Puts)
               /\ Append(s.before, Replaced(s, puts)) \in Seq(Replacements)) => t \in States
  <1> DEFINE patches == Append(s.patches, puts)
             before == Append(s.before, Replaced(s, puts))
  <1>1. t = [s EXCEPT !.docs = docs, !.patches = patches, !.before = before]
    BY DEF Write, Replaced, States
  <1> HIDE DEF patches, before
  <1>2. /\ t.docs = docs /\ t.patches = patches /\ t.before = before
        /\ t.tasks = s.tasks /\ t.uses = s.uses /\ t.ok = s.ok /\ t.events = s.events /\ t.halfway = s.halfway
        /\ docs \in [Entities -> Documents] /\ patches \in Seq(Puts) /\ before \in Seq(Replacements) => t \in States
    BY <1>1 DEF States
  <1> QED
    BY <1>2 DEF patches, before

\* A put of several documents is such a write, unless there are none.
LEMMA PutAllWrites ==
    ASSUME NEW s, NEW puts, DOMAIN puts # {}
    PROVE  PutAll(s, puts) = Write(s, PutDocs(s, puts), puts)
  BY DEF PutAll, PutDocs

LEMMA PutAllIs ==
    ASSUME NEW s \in States, NEW puts
    PROVE  /\ DOMAIN puts = {} => PutAll(s, puts) = s
           /\ DOMAIN puts # {} =>
                /\ PutAll(s, puts).docs = PutDocs(s, puts)
                /\ PutAll(s, puts).patches = Append(s.patches, puts)
                /\ PutAll(s, puts).before = Append(s.before, Replaced(s, puts))
           /\ PutAll(s, puts).tasks = s.tasks /\ PutAll(s, puts).uses = s.uses
           /\ PutAll(s, puts).ok = s.ok /\ PutAll(s, puts).events = s.events /\ PutAll(s, puts).halfway = s.halfway
  <1>1. CASE DOMAIN puts = {}
    BY <1>1 DEF PutAll
  <1>2. CASE DOMAIN puts # {}
    <2> DEFINE t == PutAll(s, puts)
               docs == PutDocs(s, puts)
    <2>1. t = Write(s, docs, puts)
      BY <1>2, PutAllWrites
    <2> HIDE DEF t, docs
    <2> QED
      BY <1>2, <2>1, WriteIs DEF t, docs
  <1> QED
    BY <1>1, <1>2

\* The patches of a put, and the documents of a good state, are typed and valid.
LEMMA PutsAre ==
    ASSUME NEW puts, GoodPuts(puts)
    PROVE  /\ DOMAIN puts \subseteq Entities
           /\ \A d \in DOMAIN puts : puts[d] \in Patches /\ ValidPatch(d, puts[d])
  BY DEF GoodPuts, Puts

LEMMA GoodDocs ==
    ASSUME NEW s, Good(s), NEW d \in Entities
    PROVE  /\ s.docs[d] \in Documents /\ GoodDoc(d, s.docs[d])
           /\ s.docs[d].refs \in Refs /\ Valid(d, s.docs[d].refs)
  BY DEF Good, States, Documents, GoodDoc

\* Documents stay sound under patches that may be put; only their claims change.
LEMMA PutDocsAre ==
    ASSUME NEW s, Good(s), NEW puts, Puttable(s, puts)
    PROVE  /\ PutDocs(s, puts) \in [Entities -> Documents]
           /\ \A d \in Entities : GoodDoc(d, PutDocs(s, puts)[d])
           /\ \A d \in Entities :
                /\ PutDocs(s, puts)[d].type = s.docs[d].type
                /\ PutDocs(s, puts)[d].to = s.docs[d].to /\ PutDocs(s, puts)[d].gone = s.docs[d].gone
                /\ PutDocs(s, puts)[d].refs = IF d \in DOMAIN puts THEN Patched(s.docs[d].refs, puts[d]) ELSE s.docs[d].refs
  <1>1. ASSUME NEW d \in Entities
        PROVE  /\ PutDocs(s, puts)[d] \in Documents
               /\ GoodDoc(d, PutDocs(s, puts)[d])
               /\ PutDocs(s, puts)[d].type = s.docs[d].type
               /\ PutDocs(s, puts)[d].to = s.docs[d].to /\ PutDocs(s, puts)[d].gone = s.docs[d].gone
               /\ PutDocs(s, puts)[d].refs = IF d \in DOMAIN puts THEN Patched(s.docs[d].refs, puts[d]) ELSE s.docs[d].refs
    <2>1. CASE d \notin DOMAIN puts
      BY <2>1, GoodDocs DEF PutDocs
    <2>2. CASE d \in DOMAIN puts
      <3> DEFINE refs == Patched(s.docs[d].refs, puts[d])
      <3>1. /\ s.docs[d] \in Documents /\ GoodDoc(d, s.docs[d]) /\ s.docs[d].refs \in Refs
            /\ Valid(d, s.docs[d].refs)
        BY GoodDocs
      <3>2. puts[d] \in Patches /\ ValidPatch(d, puts[d])
        BY <2>2, PutsAre DEF Puttable
      <3>3. refs \in Refs /\ Valid(d, refs)
        BY <2>2, <3>1, <3>2, ValidPatched DEF Puttable, Valid
      <3>4. PutDocs(s, puts)[d] = [s.docs[d] EXCEPT !.refs = refs]
        BY <2>2 DEF PutDocs
      <3>5. d \in Editions /\ s.docs[d].type # "removed" => Values(refs) # {}
        BY <2>2 DEF Puttable
      <3> HIDE DEF refs
      <3>6. [s.docs[d] EXCEPT !.refs = refs] \in Documents
        BY <3>1, <3>3 DEF Documents
      <3>7. /\ PutDocs(s, puts)[d].type = s.docs[d].type /\ PutDocs(s, puts)[d].refs = refs
            /\ PutDocs(s, puts)[d].to = s.docs[d].to /\ PutDocs(s, puts)[d].gone = s.docs[d].gone
        BY <3>1, <3>4 DEF Documents
      <3> QED
        BY <2>2, <3>1, <3>3, <3>4, <3>5, <3>6, <3>7 DEF GoodDoc, refs
    <2> QED
      BY <2>1, <2>2
  <1>2. PutDocs(s, puts) = [d \in Entities |-> PutDocs(s, puts)[d]]
    BY DEF PutDocs
  <1> QED
    BY <1>1, <1>2

\* The versions replaced by a put of good documents are sound.
LEMMA ReplacedAre ==
    ASSUME NEW s, Good(s), NEW puts, GoodPuts(puts)
    PROVE  /\ Replaced(s, puts) \in Replacements /\ DOMAIN Replaced(s, puts) = DOMAIN puts
           /\ \A d \in DOMAIN puts : GoodVersion(d, Replaced(s, puts)[d])
  <1>1. DOMAIN puts \in SUBSET Entities
    BY PutsAre
  <1>2. ASSUME NEW d \in DOMAIN puts
        PROVE  Version(s.docs[d]) \in Versions /\ GoodVersion(d, Version(s.docs[d]))
    <2>1. s.docs[d] \in Documents /\ GoodDoc(d, s.docs[d])
      BY <1>1, GoodDocs
    <2> QED
      BY <2>1 DEF Version, Versions, Documents, GoodDoc, GoodVersion
  <1>3. Replaced(s, puts) \in [DOMAIN puts -> Versions]
    BY <1>2 DEF Replaced
  <1> QED
    BY <1>1, <1>2, <1>3 DEF Replaced, Replacements

\* A write of valid patches and sound documents leaves a good state, when what its events say still holds.
LEMMA WriteGood ==
    ASSUME NEW s, Good(s), NEW docs \in [Entities -> Documents], NEW puts, GoodPuts(puts),
           \A d \in Entities : GoodDoc(d, docs[d]),
           \A v \in s.events : v.kind \in Recoveries => docs[v.of].type # "redirect",
           NEW t, t = Write(s, docs, puts)
    PROVE  Good(t)
  <1> DEFINE patches == Append(s.patches, puts)
             replaced == Replaced(s, puts)
             before == Append(s.before, replaced)
  <1>1. /\ s \in States /\ s.before \in Seq(Replacements) /\ s.patches \in Seq(Puts) /\ puts \in Puts
        /\ Len(s.before) = Len(s.patches)
        /\ \A i \in DOMAIN s.before :
            DOMAIN s.before[i] = DOMAIN s.patches[i] /\ \A d \in DOMAIN s.before[i] : GoodVersion(d, s.before[i][d])
    BY DEF Good, States, GoodPuts, GoodBefore
  <1>2. /\ replaced \in Replacements /\ DOMAIN replaced = DOMAIN puts
        /\ \A d \in DOMAIN puts : GoodVersion(d, replaced[d])
    BY ReplacedAre
  <1>3. /\ patches \in Seq(Puts)
        /\ \A i \in DOMAIN patches : GoodPuts(patches[i])
    BY Appended
  <1> HIDE DEF replaced
  <1>4. before \in Seq(Replacements) /\ Len(before) = Len(patches) /\ DOMAIN before = 1..(Len(s.patches) + 1)
    BY <1>1, <1>2
  <1>5. /\ Len(s.patches) \in Nat
        /\ before[Len(s.patches) + 1] = replaced /\ patches[Len(s.patches) + 1] = puts
        /\ \A i \in 1..Len(s.patches) : before[i] = s.before[i] /\ patches[i] = s.patches[i] /\ i \in DOMAIN s.before
    BY <1>1, <1>2
  <1>6. /\ t.docs = docs /\ t.patches = patches /\ t.before = before
        /\ t.events = s.events
        /\ t \in States
    BY <1>1, <1>3, <1>4, WriteIs DEF replaced
  <1> HIDE DEF patches, before
  <1>7. ASSUME NEW i \in DOMAIN before
        PROVE  DOMAIN before[i] = DOMAIN patches[i] /\ \A d \in DOMAIN before[i] : GoodVersion(d, before[i][d])
    <2>1. CASE i = Len(s.patches) + 1
      BY <1>2, <1>5, <2>1
    <2>2. CASE i # Len(s.patches) + 1
      <3>1. i \in 1..Len(s.patches)
        BY <1>4, <1>5, <2>2
      <3> QED
        BY <1>1, <1>5, <3>1
    <2> QED
      BY <2>1, <2>2
  <1>8. GoodBefore(t)
    BY <1>4, <1>6, <1>7 DEF GoodBefore
  <1> QED
    BY <1>3, <1>6, <1>8 DEF Good

\* PutAll keeps a good state good, and the redirections what they are.
LEMMA PutAllGood ==
    ASSUME NEW s, Good(s), NEW puts, Puttable(s, puts)
    PROVE  Good(PutAll(s, puts)) /\ Keeps(s, PutAll(s, puts))
  <1>1. CASE DOMAIN puts = {}
    BY <1>1, PutAllIs, KeepsItself DEF Good
  <1>2. CASE DOMAIN puts # {}
    <2> DEFINE t == PutAll(s, puts)
               docs == PutDocs(s, puts)
    <2>1. s \in States /\ GoodPuts(puts)
      BY DEF Good, Puttable
    <2>2. t.docs = docs /\ t.tasks = s.tasks /\ t.uses = s.uses /\ t.halfway = s.halfway
      BY <1>2, <2>1, PutAllIs
    <2>7. t = Write(s, docs, puts)
      BY <1>2, PutAllWrites
    <2>3. /\ docs \in [Entities -> Documents] /\ \A d \in Entities : GoodDoc(d, docs[d])
          /\ \A d \in Entities : docs[d].type = s.docs[d].type /\ docs[d].to = s.docs[d].to
      BY PutDocsAre
    <2> HIDE DEF t, docs
    <2>4. \A v \in s.events : v.kind \in Recoveries => docs[v.of].type # "redirect"
      <3>1. \A v \in s.events : v.of \in Entities
        BY <2>1 DEF States, EventSet
      <3> QED
        BY <2>3, <3>1 DEF Good
    <2>5. Good(t)
      BY <2>1, <2>3, <2>4, <2>7, WriteGood
    <2>6. Keeps(s, t)
      BY <2>2, <2>3 DEF Keeps
    <2> QED
      BY <2>5, <2>6 DEF t
  <1> QED
    BY <1>1, <1>2

\* The listeners of a reversal are told of an entity that is not a redirection.
LEMMA EventsAre ==
    ASSUME NEW s, Good(s)
    PROVE  \A v \in s.events :
                v.of \in Entities /\ (v.kind \in Recoveries => s.docs[v.of].type # "redirect")
  BY DEF Good, States, EventSet

\* A failure writes nothing.
LEMMA FailGood ==
    ASSUME NEW s, Good(s)
    PROVE  /\ Good(Fail(s)) /\ Keeps(s, Fail(s)) /\ ~Fail(s).ok
           /\ Fail(s).docs = s.docs /\ Fail(s).patches = s.patches /\ Fail(s).events = s.events
  <1> DEFINE t == Fail(s)
  <1>1. /\ t \in States /\ t.docs = s.docs /\ t.patches = s.patches /\ t.before = s.before /\ t.events = s.events /\ ~t.ok
        /\ t.tasks = s.tasks /\ t.uses = s.uses /\ t.halfway = s.halfway
    BY DEF Good, States, Fail
  <1> HIDE DEF t
  <1>2. Good(t) /\ Keeps(s, t)
    BY <1>1 DEF Good, GoodBefore, Keeps
  <1> QED
    BY <1>1, <1>2 DEF t

\* An event about entities that are not redirections leaves the state good.
LEMMA EmitGood ==
    ASSUME NEW s, Good(s), NEW kind \in {"entity:merge", "entity:remove"} \cup Recoveries, NEW es \in SUBSET Entities,
           kind \in Recoveries => \A e \in es : s.docs[e].type # "redirect"
    PROVE  /\ Good(Emit(s, kind, es)) /\ Keeps(s, Emit(s, kind, es))
           /\ Emit(s, kind, es).docs = s.docs /\ Emit(s, kind, es).patches = s.patches /\ Emit(s, kind, es).ok = s.ok
           /\ Emit(s, kind, es).before = s.before
           /\ Emit(s, kind, es).events = s.events \cup {[kind |-> kind, of |-> e] : e \in es}
  <1> DEFINE t == Emit(s, kind, es)
             added == {[kind |-> kind, of |-> e] : e \in es}
  <1>1. /\ added \subseteq EventSet
        /\ \A v \in added : v.kind \in Recoveries => s.docs[v.of].type # "redirect"
    BY DEF EventSet
  <1> HIDE DEF added
  <1>2. t = [s EXCEPT !.events = @ \cup added]
    BY DEF Emit, added
  <1>3. s.events \in SUBSET EventSet
    BY DEF Good, States
  <1> HIDE DEF t
  <1>4. /\ t \in States /\ t.docs = s.docs /\ t.patches = s.patches /\ t.events = s.events \cup added /\ t.ok = s.ok
        /\ t.tasks = s.tasks /\ t.uses = s.uses /\ t.halfway = s.halfway /\ t.before = s.before
    BY <1>1, <1>2, <1>3 DEF Good, States
  <1>5. Good(t) /\ Keeps(s, t)
    BY <1>1, <1>4 DEF Good, GoodBefore, Keeps
  <1> QED
    BY <1>4, <1>5 DEF t, added

\* The put of one document is a function with one patch.
LEMMA PutsOfOne ==
    ASSUME NEW d \in Entities, NEW patch \in Patches
    PROVE  /\ DOMAIN Only(d, patch) = {d} /\ Only(d, patch)[d] = patch
           /\ Only(d, patch) \in Puts
           /\ ValidPatch(d, patch) => GoodPuts(Only(d, patch))
  <1>1. DOMAIN Only(d, patch) = {d} /\ Only(d, patch)[d] = patch
    BY DEF Only
  <1>2. Only(d, patch) \in [{d} -> Patches] /\ {d} \in SUBSET Entities
    BY DEF Only
  <1>3. Only(d, patch) \in Puts
    <2> HIDE DEF Only
    <2> QED
      BY <1>2 DEF Puts
  <1> QED
    BY <1>1, <1>3 DEF GoodPuts

\* The fields of a patch, and its types.
LEMMA PatchesAre ==
    ASSUME NEW kind \in PatchKinds, NEW from \in Entities \cup {NoEntity}, NEW removed \in Refs, NEW added \in Refs
    PROVE  /\ \A deleted \in SUBSET Entities :
                /\ Patch(kind, from, removed, added, deleted) \in Patches
                /\ Patch(kind, from, removed, added, deleted).kind = kind
                /\ Patch(kind, from, removed, added, deleted).removed = removed
                /\ Patch(kind, from, removed, added, deleted).added = added
                /\ Patch(kind, from, removed, added, deleted).deletedClaims = deleted
           /\ ClaimsPatch(kind, from, removed, added) \in Patches
           /\ ClaimsPatch(kind, from, removed, added).kind = kind
           /\ ClaimsPatch(kind, from, removed, added).from = from
           /\ ClaimsPatch(kind, from, removed, added).removed = removed
           /\ ClaimsPatch(kind, from, removed, added).added = added
           /\ \A d \in Entities : Valid(d, removed) /\ Valid(d, added) => ValidPatch(d, ClaimsPatch(kind, from, removed, added))
  BY DEF Patch, ClaimsPatch, Patches, ValidPatch

\* A put that changes no claim has a valid patch.
LEMMA Marks ==
    ASSUME NEW kind \in PatchKinds, NEW d \in Entities
    PROVE  /\ Mark(kind) \in Patches /\ Mark(kind).kind = kind /\ ValidPatch(d, Mark(kind))
           /\ GoodPuts(Only(d, Mark(kind)))
           /\ DOMAIN Only(d, Mark(kind)) = {d} /\ Only(d, Mark(kind))[d] = Mark(kind)
  <1>1. Mark(kind) \in Patches /\ Mark(kind).kind = kind /\ ValidPatch(d, Mark(kind))
    BY Bags, ValidBags DEF Mark, Patch, Patches, ValidPatch
  <1> QED
    BY <1>1, PutsOfOne

EntityDocs(s, recovered) ==
    [e \in Entities |-> IF e \in recovered THEN [s.docs[e] EXCEPT !.type = "entity"] ELSE s.docs[e]]

\* A recovery is a put of the type, and of nothing else.
LEMMA PutTypeGood ==
    ASSUME NEW s, Good(s), NEW d \in Entities, NEW kind \in PatchKinds, s.docs[d].type = "removed",
           d \in Editions => Values(s.docs[d].refs) # {},
           NEW t, t = PutType(s, d, "entity", kind)
    PROVE  /\ Good(t) /\ Keeps(s, t)
           /\ t.docs = EntityDocs(s, {d})
           /\ t.patches = Append(s.patches, Only(d, Mark(kind)))
           /\ t.ok = s.ok /\ t.events = s.events
  <1> DEFINE doc == [s.docs[d] EXCEPT !.type = "entity"]
             docs == EntityDocs(s, {d})
             puts == Only(d, Mark(kind))
  <1>1. s \in States /\ s.docs \in [Entities -> Documents] /\ s.docs[d] \in Documents
    BY DEF Good, States
  <1>2. doc \in Documents /\ doc.type = "entity" /\ doc.refs = s.docs[d].refs /\ doc.to = s.docs[d].to
    BY <1>1 DEF Documents, Types
  <1>3. t = Write(s, docs, puts)
    <2>1. [s.docs EXCEPT ![d].type = "entity"] = docs
      BY <1>1 DEF EntityDocs
    <2> QED
      BY <2>1 DEF PutType
  <1>4. /\ docs \in [Entities -> Documents]
        /\ \A e \in Entities : docs[e] = IF e = d THEN doc ELSE s.docs[e]
    BY <1>1, <1>2 DEF EntityDocs
  <1> HIDE DEF doc
  <1>5. GoodPuts(puts)
    BY Marks
  <1> HIDE DEF docs, puts
  <1>6. /\ t.docs = docs /\ t.patches = Append(s.patches, puts)
        /\ t.tasks = s.tasks /\ t.uses = s.uses /\ t.ok = s.ok /\ t.events = s.events /\ t.halfway = s.halfway
    BY <1>1, <1>3, WriteIs
  <1>7. \A e \in Entities : GoodDoc(e, docs[e])
    BY <1>2, <1>4, GoodDocs DEF GoodDoc
  <1>8. \A v \in s.events : v.kind \in Recoveries => docs[v.of].type # "redirect"
    BY <1>2, <1>4, EventsAre
  <1>9. Good(t)
    BY <1>3, <1>4, <1>5, <1>7, <1>8, WriteGood
  <1>10. Keeps(s, t)
    BY <1>2, <1>4, <1>6 DEF Keeps
  <1> QED
    BY <1>6, <1>9, <1>10 DEF docs, puts

Deletions(removed, deletedClaims) == [e \in removed |-> Patch("deletion", NoEntity, NoRefs, NoRefs, deletedClaims)]

\* The deletions of several entities at once, with the claims deleted for each.
LEMMA DeletionsAre ==
    ASSUME NEW removed \in SUBSET Entities, NEW deleted \in SUBSET Entities,
           \A e \in removed : \A x \in deleted : e \in ValidValues(x)
    PROVE  /\ GoodPuts(Deletions(removed, deleted)) /\ DOMAIN Deletions(removed, deleted) = removed
           /\ \A e \in removed :
                /\ Deletions(removed, deleted)[e].kind = "deletion"
                /\ Deletions(removed, deleted)[e].deletedClaims = deleted
  <1> DEFINE deletion == Patch("deletion", NoEntity, NoRefs, NoRefs, deleted)
  <1>1. deletion \in Patches /\ deletion.kind = "deletion" /\ deletion.deletedClaims = deleted
    <2>1. NoRefs \in Refs
      BY Bags
    <2> QED
      BY <2>1 DEF Patch, Patches, PatchKinds
  <1>2. \A e \in removed : ValidPatch(e, deletion)
    BY ValidBags DEF Patch, ValidPatch
  <1> HIDE DEF deletion
  <1>3. Deletions(removed, deleted) = [e \in removed |-> deletion]
    BY DEF Deletions, deletion
  <1>4. [e \in removed |-> deletion] \in Puts
    BY <1>1 DEF Puts
  <1> QED
    BY <1>1, <1>2, <1>3, <1>4 DEF GoodPuts

PlaceholderDocs(s, removed) ==
    [e \in Entities |-> IF e \in removed THEN [s.docs[e] EXCEPT !.type = "removed"] ELSE s.docs[e]]

Removable(s, removed, deleted) ==
    /\ removed \in SUBSET Entities /\ removed # {} /\ deleted \in SUBSET Entities
    /\ \A e \in removed : s.docs[e].type = "entity"
    /\ \A e \in removed : \A x \in deleted : e \in ValidValues(x)

\* Entities that become placeholders keep the state good: only their types change, and no reversal
\* is announced.
LEMMA ToPlaceholdersGood ==
    ASSUME NEW s, Good(s), NEW removed, NEW deleted, Removable(s, removed, deleted), NEW t, t = ToPlaceholders(s, removed, deleted)
    PROVE  /\ Good(t) /\ Keeps(s, t)
           /\ t.docs = PlaceholderDocs(s, removed)
           /\ t.patches = Append(s.patches, Deletions(removed, deleted))
           /\ t.ok = s.ok
           /\ \A v \in t.events : v \in s.events \/ v.kind \notin Recoveries
  <1> DEFINE docs == PlaceholderDocs(s, removed)
             puts == Deletions(removed, deleted)
             u == Write(s, docs, puts)
  <1>0. s.docs \in [Entities -> Documents] /\ s \in States
    BY DEF Good, States
  <1> USE DEF Removable
  <1>1. \A e \in Entities :
          /\ docs[e] \in Documents /\ docs[e].refs = s.docs[e].refs /\ docs[e].to = s.docs[e].to
          /\ docs[e].type = IF e \in removed THEN "removed" ELSE s.docs[e].type
    BY <1>0 DEF Documents, Types, PlaceholderDocs
  <1>2. docs \in [Entities -> Documents]
    BY <1>1 DEF PlaceholderDocs
  <1>3. GoodPuts(puts)
    BY DeletionsAre
  <1>4. t = Emit(u, "entity:remove", removed)
    BY DEF ToPlaceholders, Deletions, PlaceholderDocs
  <1> HIDE DEF docs, puts
  <1>5. /\ u.docs = docs /\ u.patches = Append(s.patches, puts)
        /\ u.tasks = s.tasks /\ u.uses = s.uses /\ u.ok = s.ok /\ u.events = s.events /\ u.halfway = s.halfway
    BY <1>0, WriteIs
  <1>6. \A e \in Entities : GoodDoc(e, docs[e])
    BY <1>1, GoodDocs DEF GoodDoc
  <1>7. \A v \in s.events : v.kind \in Recoveries => docs[v.of].type # "redirect"
    BY <1>1, EventsAre
  <1>8. Good(u)
    BY <1>2, <1>3, <1>6, <1>7, WriteGood
  <1> HIDE DEF u
  <1>9. Keeps(s, u)
    BY <1>1, <1>5 DEF Keeps
  <1>10. "entity:remove" \notin Recoveries
    BY DEF Recoveries
  <1>11. /\ Good(t) /\ Keeps(u, t) /\ t.docs = u.docs /\ t.patches = u.patches /\ t.ok = u.ok
         /\ t.events = u.events \cup {[kind |-> "entity:remove", of |-> e] : e \in removed}
    BY <1>4, <1>8, <1>10, EmitGood
  <1>12. Keeps(s, t)
    BY <1>9, <1>11, KeepsTransitive
  <1>13. \A v \in t.events : v \in s.events \/ v.kind \notin Recoveries
    BY <1>5, <1>10, <1>11
  <1>14. t.docs = docs /\ t.patches = Append(s.patches, puts) /\ t.ok = s.ok
    BY <1>5, <1>11
  <1> QED
    BY <1>4, <1>11, <1>12, <1>13, <1>14 DEF docs, puts

-----------------------------------------------------------------------------
(* Claims *)

\* Claims go from editions to works and from works to authors, so that entities of one type never
\* refer to one another.
LEMMA ValidValuesAre ==
    /\ \A d \in Entities : ValidValues(d) \subseteq Entities /\ d \notin ValidValues(d)
    /\ \A d1, d2 \in Entities : SameType(d1, d2) => ValidValues(d1) = ValidValues(d2)
    /\ \A d, e1, e2 \in Entities : SameType(e1, e2) /\ e1 \in ValidValues(d) => e2 \in ValidValues(d)
    /\ \A d1, d2, e \in Entities : d1 \in ValidValues(e) /\ SameType(d1, d2) => ~SameType(e, d2)
    /\ \A d, e1, e2 \in Entities : e1 \in ValidValues(d) /\ e2 \in ValidValues(d) => SameType(e1, e2)
    /\ \A d \in Entities : SameType(d, d)
  BY EntitiesAssumption DEF Entities, ValidValues, SameType

\* The put of a claim is refused, or leaves a good state.
LEMMA CannotPutGood ==
    ASSUME NEW s, Good(s), NEW d \in Entities, NEW patch \in Patches, ValidPatch(d, patch),
           \A e \in Entities : patch.removed[e] <= s.docs[d].refs[e]
    PROVE  /\ CanPut(s, d, patch) => Puttable(s, Only(d, patch))
           /\ Good(PutClaims(s, d, patch)) /\ Keeps(s, PutClaims(s, d, patch))
           /\ PutClaims(s, d, patch).events = s.events
  <1>1. CanPut(s, d, patch) => Puttable(s, Only(d, patch))
    <2> DEFINE puts == Only(d, patch)
    <2>1. DOMAIN puts = {d} /\ puts[d] = patch /\ GoodPuts(puts)
      BY PutsOfOne
    <2> HIDE DEF puts
    <2>2. CanPut(s, d, patch) => Puttable(s, puts)
      BY <2>1 DEF Puttable, CanPut
    <2> QED
      BY <2>2 DEF puts
  <1>2. PutAll(s, Only(d, patch)).events = s.events
    BY PutAllIs DEF Good
  <1> QED
    BY <1>1, <1>2, PutAllGood, FailGood DEF PutClaims

\* The edition of a claim leaves a good state, whether it is refused or not.
LEMMA UpdateInvClaimGood ==
    ASSUME NEW s, Good(s), NEW d \in Entities,
           NEW removed \in SUBSET ValidValues(d), NEW added \in SUBSET ValidValues(d)
    PROVE  /\ Good(UpdateInvClaim(s, d, removed, added)) /\ Keeps(s, UpdateInvClaim(s, d, removed, added))
           /\ UpdateInvClaim(s, d, removed, added).events = s.events
  <1> DEFINE patch == ClaimsPatch("edit", NoEntity, Bag(removed), Bag(added))
  <1>1. patch \in Patches /\ patch.removed = Bag(removed) /\ ValidPatch(d, patch)
    <2>1. Bag(removed) \in Refs /\ Bag(added) \in Refs /\ Valid(d, Bag(removed)) /\ Valid(d, Bag(added))
      BY Bags, ValidBags
    <2> QED
      BY <2>1, PatchesAre DEF PatchKinds
  <1>2. ASSUME CanUpdateClaim(s, d, removed, added), NEW e \in Entities
        PROVE  patch.removed[e] <= s.docs[d].refs[e]
    <2>1. s.docs[d].refs[e] \in Nat
      BY GoodDocs DEF Refs
    <2>2. patch.removed[e] = IF e \in removed THEN 1 ELSE 0
      BY <1>1, Bags
    <2>3. e \in removed => s.docs[d].refs[e] > 0
      BY <1>2 DEF CanUpdateClaim, Refers
    <2> QED
      BY <2>1, <2>2, <2>3
  <1>3. UpdateInvClaim(s, d, removed, added) =
            IF CanUpdateClaim(s, d, removed, added) THEN PutClaims(s, d, patch) ELSE Fail(s)
    BY DEF UpdateInvClaim
  <1> HIDE DEF patch
  <1>4. CASE CanUpdateClaim(s, d, removed, added)
    <2>1. \A e \in Entities : patch.removed[e] <= s.docs[d].refs[e]
      BY <1>2, <1>4
    <2>2. /\ Good(PutClaims(s, d, patch)) /\ Keeps(s, PutClaims(s, d, patch))
          /\ PutClaims(s, d, patch).events = s.events
      BY <1>1, <2>1, CannotPutGood
    <2> QED
      BY <1>3, <1>4, <2>2
  <1> QED
    BY <1>3, <1>4, FailGood

\* What refers to an entity is an entity that may refer to it.
LEMMA ClaimedAre ==
    ASSUME NEW s, Good(s), NEW e \in Entities
    PROVE  \A d \in ClaimedBy(s, e) :
                /\ d \in Entities /\ s.docs[d].type = "entity" /\ s.docs[d].refs[e] # 0 /\ e \in ValidValues(d)
                /\ s.docs[d].refs \in Refs
  <1> TAKE d \in ClaimedBy(s, e)
  <1>1. d \in Entities /\ s.docs[d].type = "entity" /\ s.docs[d].refs[e] > 0
    BY DEF ClaimedBy, IsEntity, Refers
  <1>2. s.docs[d].refs \in Refs /\ Valid(d, s.docs[d].refs)
    BY <1>1, GoodDocs
  <1> QED
    BY <1>1, <1>2 DEF Valid, Refs

\* A function of patches, one for each of some documents.
LEMMA PutsOfSome ==
    ASSUME NEW D \in SUBSET Entities, NEW puts, puts = [d \in D |-> puts[d]],
           \A d \in D : puts[d] \in Patches /\ ValidPatch(d, puts[d])
    PROVE  GoodPuts(puts) /\ DOMAIN puts = D
  <1>1. DOMAIN puts = D
    OBVIOUS
  <1>2. puts \in [D -> Patches]
    OBVIOUS
  <1> QED
    BY <1>1, <1>2 DEF GoodPuts, Puts

Redirected(refs, from, to) ==
    ClaimsPatch("redirectClaims", from, AllOf(refs, from), IF Refers(refs, to) THEN NoRefs ELSE Bag({to}))

\* A redirected claim: the former value leaves as many times as it was there, the new one is there.
LEMMA RedirectedIs ==
    ASSUME NEW d \in Entities, NEW refs, Valid(d, refs), NEW from \in ValidValues(d), NEW to \in ValidValues(d), from # to
    PROVE  LET patch == Redirected(refs, from, to)
           IN  /\ patch \in Patches /\ ValidPatch(d, patch)
               /\ patch.kind = "redirectClaims" /\ patch.from = from
               /\ \A e \in Entities : patch.removed[e] = IF e = from THEN refs[e] ELSE 0
               /\ \A e \in Entities : patch.added[e] = IF e = to /\ refs[to] = 0 THEN 1 ELSE 0
               /\ \A e \in Entities : patch.removed[e] <= refs[e]
               /\ \A e \in Entities : Patched(refs, patch)[e] =
                    IF e = from THEN 0 ELSE IF e = to /\ refs[to] = 0 THEN 1 ELSE refs[e]
               /\ Values(Patched(refs, patch)) # {}
  <1> DEFINE removed == AllOf(refs, from)
             added == IF Refers(refs, to) THEN NoRefs ELSE Bag({to})
             patch == Redirected(refs, from, to)
  <1>1. /\ refs \in Refs /\ from \in Entities /\ to \in Entities
        /\ \A e \in Entities : refs[e] \in Nat
    BY ValidValuesAre DEF Valid, Refs
  <1>2. removed \in Refs /\ Valid(d, removed) /\ \A e \in Entities : removed[e] = IF e = from THEN refs[e] ELSE 0
    <2>1. removed \in Refs /\ \A e \in Entities : removed[e] = IF e = from THEN refs[from] ELSE 0
      BY <1>1, Bags
    <2>2. Valid(d, removed)
      BY <1>1, ValidBags
    <2> QED
      BY <2>1, <2>2
  <1>3. NoRefs \in Refs /\ Bag({to}) \in Refs /\ Valid(d, NoRefs) /\ Valid(d, Bag({to}))
    BY Bags, ValidBags
  <1>4. \A e \in Entities : Bag({to})[e] = (IF e = to THEN 1 ELSE 0) /\ NoRefs[e] = 0
    BY Bags
  <1>5. added \in Refs /\ Valid(d, added) /\ \A e \in Entities : added[e] = IF e = to /\ refs[to] = 0 THEN 1 ELSE 0
    BY <1>1, <1>3, <1>4 DEF Refers
  <1>6. patch = ClaimsPatch("redirectClaims", from, removed, added)
    BY DEF Redirected
  <1> HIDE DEF removed, added, patch
  <1>7. /\ patch \in Patches /\ ValidPatch(d, patch) /\ patch.kind = "redirectClaims" /\ patch.from = from
        /\ patch.removed = removed /\ patch.added = added
    BY <1>1, <1>2, <1>5, <1>6, PatchesAre DEF PatchKinds
  <1>8. \A e \in Entities : patch.removed[e] <= refs[e]
    BY <1>1, <1>2, <1>7
  <1>9. /\ Patched(refs, patch) \in Refs
        /\ \A e \in Entities : Patched(refs, patch)[e] = refs[e] - patch.removed[e] + patch.added[e]
    BY <1>1, <1>7, <1>8, PatchedIs
  <1>10. \A e \in Entities : Patched(refs, patch)[e] =
            IF e = from THEN 0 ELSE IF e = to /\ refs[to] = 0 THEN 1 ELSE refs[e]
    BY <1>1, <1>2, <1>5, <1>7, <1>9
  <1>11. to \in Values(Patched(refs, patch))
    BY <1>1, <1>9, <1>10, ValuesAre
  <1> QED
    BY <1>2, <1>5, <1>7, <1>8, <1>10, <1>11 DEF patch

RedirectedPuts(s, from, to) == [d \in ClaimedBy(s, from) |-> Redirected(s.docs[d].refs, from, to)]

\* The redirection of claims is one put of all that refers to the merged entity, which loses no
\* edition its work.
LEMMA RedirectClaimsIs ==
    ASSUME NEW s, Good(s), NEW from \in Entities, NEW to \in Entities, from # to, SameType(from, to)
    PROVE  /\ RedirectClaims(s, from, to) = PutAll(s, RedirectedPuts(s, from, to))
           /\ Puttable(s, RedirectedPuts(s, from, to))
           /\ DOMAIN RedirectedPuts(s, from, to) = ClaimedBy(s, from)
  <1> DEFINE puts == RedirectedPuts(s, from, to)
  <1>1. RedirectClaims(s, from, to) = PutAll(s, puts)
    BY DEF RedirectClaims, RedirectedPuts, Redirected
  <1>2. puts = [d \in ClaimedBy(s, from) |-> puts[d]] /\ \A d \in ClaimedBy(s, from) : puts[d] = Redirected(s.docs[d].refs, from, to)
    BY DEF RedirectedPuts
  <1> HIDE DEF puts
  <1>3. \A d \in ClaimedBy(s, from) : d \in Entities /\ from \in ValidValues(d) /\ to \in ValidValues(d)
    BY ClaimedAre, ValidValuesAre
  <1>4. \A d \in ClaimedBy(s, from) :
            /\ puts[d] \in Patches /\ ValidPatch(d, puts[d])
            /\ \A e \in Entities : puts[d].removed[e] <= s.docs[d].refs[e]
            /\ Values(Patched(s.docs[d].refs, puts[d])) # {}
    BY <1>2, <1>3, RedirectedIs, GoodDocs
  <1>5. GoodPuts(puts) /\ DOMAIN puts = ClaimedBy(s, from)
    <2>1. ClaimedBy(s, from) \in SUBSET Entities
      BY <1>3
    <2> QED
      BY <1>2, <1>4, <2>1, PutsOfSome
  <1>6. Puttable(s, puts)
    BY <1>4, <1>5 DEF Puttable
  <1> QED
    BY <1>1, <1>5, <1>6 DEF puts

LEMMA RedirectClaimsGood ==
    ASSUME NEW s, Good(s), NEW from \in Entities, NEW to \in Entities, from # to, SameType(from, to)
    PROVE  /\ Good(RedirectClaims(s, from, to)) /\ Keeps(s, RedirectClaims(s, from, to))
           /\ RedirectClaims(s, from, to).ok = s.ok /\ RedirectClaims(s, from, to).events = s.events
  BY RedirectClaimsIs, PutAllGood, PutAllIs DEF Good

-----------------------------------------------------------------------------
(* Removed placeholders *)

UnclaimedPuts(s, e) == [d \in ClaimedBy(s, e) |-> ClaimsPatch("edit", NoEntity, AllOf(s.docs[d].refs, e), NoRefs)]

\* The claims about a removed entity can all be taken away when no edition refers to it.
LEMMA UnclaimedAre ==
    ASSUME NEW s, Good(s), NEW e \in Entities, ClaimedBy(s, e) \cap Editions = {}
    PROVE  /\ Puttable(s, UnclaimedPuts(s, e)) /\ DOMAIN UnclaimedPuts(s, e) = ClaimedBy(s, e)
           /\ \A d \in ClaimedBy(s, e) : \A x \in Entities :
                Patched(s.docs[d].refs, UnclaimedPuts(s, e)[d])[x] = IF x = e THEN 0 ELSE s.docs[d].refs[x]
           /\ \A d \in ClaimedBy(s, e) : UnclaimedPuts(s, e)[d].kind = "edit"
  <1> DEFINE puts == UnclaimedPuts(s, e)
  <1>1. /\ puts = [d \in ClaimedBy(s, e) |-> puts[d]]
        /\ \A d \in ClaimedBy(s, e) : puts[d] = ClaimsPatch("edit", NoEntity, AllOf(s.docs[d].refs, e), NoRefs)
    BY DEF UnclaimedPuts
  <1> HIDE DEF puts
  <1>2. ASSUME NEW d \in ClaimedBy(s, e)
        PROVE  /\ d \in Entities
               /\ puts[d] \in Patches /\ ValidPatch(d, puts[d]) /\ puts[d].kind = "edit"
               /\ \A x \in Entities : puts[d].removed[x] <= s.docs[d].refs[x]
               /\ \A x \in Entities : Patched(s.docs[d].refs, puts[d])[x] = IF x = e THEN 0 ELSE s.docs[d].refs[x]
    <2> DEFINE refs == s.docs[d].refs
               removed == AllOf(refs, e)
    <2>1. d \in Entities /\ refs \in Refs /\ Valid(d, refs) /\ \A x \in Entities : refs[x] \in Nat
      BY ClaimedAre, GoodDocs DEF Refs
    <2>2. removed \in Refs /\ Valid(d, removed) /\ \A x \in Entities : removed[x] = IF x = e THEN refs[x] ELSE 0
      BY <2>1, Bags, ValidBags
    <2>3. NoRefs \in Refs /\ Valid(d, NoRefs) /\ \A x \in Entities : NoRefs[x] = 0
      BY <2>1, Bags, ValidBags
    <2>4. puts[d] = ClaimsPatch("edit", NoEntity, removed, NoRefs)
      BY <1>1
    <2> HIDE DEF removed, refs
    <2>5. /\ puts[d] \in Patches /\ ValidPatch(d, puts[d]) /\ puts[d].kind = "edit"
          /\ puts[d].removed = removed /\ puts[d].added = NoRefs
      <3>1. "edit" \in PatchKinds /\ NoEntity \in Entities \cup {NoEntity}
        BY DEF PatchKinds
      <3> QED
        BY <2>1, <2>2, <2>3, <2>4, <3>1, PatchesAre
    <2>6. \A x \in Entities : puts[d].removed[x] <= refs[x]
      BY <2>1, <2>2, <2>5
    <2>7. \A x \in Entities : Patched(refs, puts[d])[x] = refs[x] - puts[d].removed[x] + puts[d].added[x]
      BY <2>1, <2>5, <2>6, PatchedIs
    <2>8. \A x \in Entities : Patched(refs, puts[d])[x] = IF x = e THEN 0 ELSE refs[x]
      BY <2>1, <2>2, <2>3, <2>5, <2>7
    <2> QED
      BY <2>1, <2>5, <2>6, <2>8 DEF refs
  <1>3. ClaimedBy(s, e) \in SUBSET Entities
    BY <1>2
  <1>4. GoodPuts(puts) /\ DOMAIN puts = ClaimedBy(s, e)
    BY <1>1, <1>2, <1>3, PutsOfSome
  <1>5. Puttable(s, puts)
    BY <1>2, <1>4 DEF Puttable
  <1> QED
    BY <1>2, <1>4, <1>5 DEF puts

\* A removal clears the claims about the entity, then makes a placeholder of it.
LEMMA RemovePlaceholderGood ==
    ASSUME NEW s, Good(s), NEW e \in Entities, IsEntity(s, e), CanBeRemoved(s, e)
    PROVE  LET u == PutAll(s, UnclaimedPuts(s, e))
               t == RemovePlaceholder(s, e)
           IN  /\ Good(u) /\ Good(t) /\ Keeps(s, t) /\ t.ok = s.ok
               /\ t.docs = PlaceholderDocs(u, {e})
               /\ t.patches = Append(u.patches, Deletions({e}, ClaimedBy(s, e)))
               /\ \A v \in t.events : v \in s.events \/ v.kind \notin Recoveries
  <1> DEFINE u == PutAll(s, UnclaimedPuts(s, e))
             t == RemovePlaceholder(s, e)
  <1>1. Puttable(s, UnclaimedPuts(s, e))
    BY UnclaimedAre DEF CanBeRemoved
  <1>2. Good(u) /\ Keeps(s, u)
    BY <1>1, PutAllGood
  <1>3. u.ok = s.ok /\ u.events = s.events
    BY PutAllIs DEF Good
  <1>4. t = ToPlaceholders(u, {e}, ClaimedBy(s, e))
    BY DEF RemovePlaceholder, UnclaimedPuts
  <1>5. u.docs[e].type = "entity"
    <2>1. CASE DOMAIN UnclaimedPuts(s, e) = {}
      BY <2>1, PutAllIs DEF IsEntity, Good
    <2>2. CASE DOMAIN UnclaimedPuts(s, e) # {}
      <3>1. u.docs = PutDocs(s, UnclaimedPuts(s, e))
        BY <2>2, PutAllIs DEF Good
      <3> QED
        BY <1>1, <3>1, PutDocsAre DEF IsEntity
    <2> QED
      BY <2>1, <2>2
  <1>6. ClaimedBy(s, e) \in SUBSET Entities /\ \A x \in ClaimedBy(s, e) : e \in ValidValues(x)
    BY ClaimedAre
  <1> HIDE DEF u, t
  <1>7. /\ Good(t) /\ Keeps(u, t) /\ t.ok = u.ok
        /\ t.docs = PlaceholderDocs(u, {e})
        /\ t.patches = Append(u.patches, Deletions({e}, ClaimedBy(s, e)))
        /\ \A v \in t.events : v \in u.events \/ v.kind \notin Recoveries
    <2>1. {e} \in SUBSET Entities /\ {e} # {} /\ \A x \in {e} : u.docs[x].type = "entity"
      BY <1>5
    <2> DEFINE deleted == ClaimedBy(s, e)
               removed == {e}
    <2>2. Removable(u, removed, deleted) /\ t = ToPlaceholders(u, removed, deleted)
      BY <1>4, <1>6, <2>1 DEF Removable
    <2> HIDE DEF deleted, removed
    <2>3. /\ Good(t) /\ Keeps(u, t) /\ t.ok = u.ok
          /\ t.docs = PlaceholderDocs(u, removed)
          /\ t.patches = Append(u.patches, Deletions(removed, deleted))
          /\ \A v \in t.events : v \in u.events \/ v.kind \notin Recoveries
      BY <1>2, <2>2, ToPlaceholdersGood
    <2> QED
      BY <2>3 DEF deleted, removed
  <1>8. Keeps(s, t)
    BY <1>2, <1>7, KeepsTransitive
  <1> QED
    BY <1>2, <1>3, <1>7, <1>8 DEF u, t

-----------------------------------------------------------------------------
(* Recoveries *)

\* A set of indexes has a first and a last one.
LEMMA FirstIndex ==
    ASSUME NEW S, NEW n \in Nat, S \subseteq 0..n, S # {}
    PROVE  \E i \in S : \A j \in S : i <= j
  <1> DEFINE R == {p \in Nat \X Nat : p[1] < p[2]}
  <1>1. IsWellFoundedOn(R, Nat)
    BY Zenon, NatLessThanWellFounded DEF OpToRel
  <1>2. S \subseteq Nat
    OBVIOUS
  <1>3. PICK i \in S : \A j \in S : ~(<<j, i>> \in R)
    <2> HIDE DEF R
    <2> QED
      BY <1>1, <1>2, WFMin
  <1>4. \A j \in S : ~(j < i)
    BY <1>2, <1>3
  <1> QED
    BY <1>2, <1>4

LEMMA LastOfIndexes ==
    ASSUME NEW S, NEW n \in Nat, S \subseteq 0..n, S # {}
    PROVE  \E i \in S : \A j \in S : j <= i
  <1> DEFINE D == {n - i : i \in S}
  <1>1. D \subseteq 0..n /\ D # {}
    <2>1. \A i \in 0..n : n - i \in 0..n
      OBVIOUS
    <2>2. D \subseteq 0..n
      BY <2>1
    <2>3. PICK i \in S : TRUE
      OBVIOUS
    <2>4. n - i \in D
      OBVIOUS
    <2> QED
      BY <2>2, <2>4
  <1>2. PICK x \in D : \A y \in D : x <= y
    <2> HIDE DEF D
    <2> QED
      BY <1>1, FirstIndex
  <1>3. PICK i \in S : x = n - i
    OBVIOUS
  <1>4. ASSUME NEW j \in S PROVE j <= i
    <2>1. n - j \in D
      OBVIOUS
    <2>2. n - i <= n - j
      BY <1>2, <1>3, <2>1
    <2> QED
      BY <2>2
  <1> QED
    BY <1>4

\* What holds at first, and at every index when it holds at the one before, holds everywhere.
LEMMA Stepwise ==
    ASSUME NEW n \in Nat, NEW D, 0 \in D, \A i \in 1..n : i - 1 \in D => i \in D
    PROVE  \A i \in 0..n : i \in D
  <1> SUFFICES ASSUME ~ \A i \in 0..n : i \in D
               PROVE  FALSE
    OBVIOUS
  <1> DEFINE S == {i \in 0..n : i \notin D}
  <1>1. PICK i \in S : \A j \in S : i <= j
    <2>1. S \subseteq 0..n /\ S # {}
      OBVIOUS
    <2> HIDE DEF S
    <2> QED
      BY <2>1, FirstIndex
  <1>2. i \in 1..n /\ i - 1 \in 0..n /\ ~(i <= i - 1)
    OBVIOUS
  <1>3. i - 1 \in D
    BY <1>1, <1>2
  <1> QED
    BY <1>2, <1>3

DeletionsOf(s, e) == {i \in Posted(s, e) : Has(s.patches[i], e, "deletion")}

\* The last deletion of an entity that still has its patch, if any.
LEMMA DeletionIs ==
    ASSUME NEW s, Good(s), NEW e \in Entities
    PROVE  \/ LastDeletion(s, e) = 0 /\ DeletionsOf(s, e) = {}
           \/ /\ LastDeletion(s, e) \in DOMAIN s.patches /\ Has(s.patches[LastDeletion(s, e)], e, "deletion")
              /\ \A i \in DeletionsOf(s, e) : i <= LastDeletion(s, e)
  <1> DEFINE found == DeletionsOf(s, e)
             last == LastDeletion(s, e)
  <1>1. last = IF found = {} THEN 0 ELSE CHOOSE i \in found : \A j \in found : j <= i
    BY DEF LastDeletion, LastOf, DeletionsOf
  <1>2. s.patches \in Seq(Puts) /\ Len(s.patches) \in Nat /\ DOMAIN s.patches = 1..Len(s.patches)
    BY DEF Good, States
  <1>3. found \subseteq 1..Len(s.patches) /\ found \subseteq DOMAIN s.patches
    BY <1>2 DEF DeletionsOf, Posted
  <1>4. \A i \in found : Has(s.patches[i], e, "deletion")
    BY DEF DeletionsOf
  <1> HIDE DEF last, found
  <1>5. (found = {} /\ last = 0) \/ (last \in found /\ \A j \in found : j <= last)
    <2>1. found # {} => \E i \in found : \A j \in found : j <= i
      <3>1. found \subseteq 0..Len(s.patches)
        BY <1>2, <1>3
      <3> QED
        BY <1>2, <3>1, LastOfIndexes
    <2> QED
      BY <1>1, <2>1
  <1> QED
    BY <1>3, <1>4, <1>5 DEF last, found

RecoveredPuts(recovered, e) == [d \in recovered |-> ClaimsPatch("edit", NoEntity, NoRefs, Bag({e}))]
Recoverable(recovered, e) == recovered \in SUBSET Entities /\ \A d \in recovered : e \in ValidValues(d)

\* The claims deleted with an entity can be given back to what may refer to it.
LEMMA RecoveredAre ==
    ASSUME NEW s, Good(s), NEW e \in Entities, NEW recovered, Recoverable(recovered, e)
    PROVE  /\ Puttable(s, RecoveredPuts(recovered, e)) /\ DOMAIN RecoveredPuts(recovered, e) = recovered
           /\ \A d \in recovered : \A x \in Entities :
                Patched(s.docs[d].refs, RecoveredPuts(recovered, e)[d])[x] = s.docs[d].refs[x] + (IF x = e THEN 1 ELSE 0)
  <1> DEFINE puts == RecoveredPuts(recovered, e)
             patch == ClaimsPatch("edit", NoEntity, NoRefs, Bag({e}))
  <1>1. /\ puts = [d \in recovered |-> puts[d]]
        /\ \A d \in recovered : puts[d] = patch
    BY DEF RecoveredPuts
  <1>2. /\ NoRefs \in Refs /\ Bag({e}) \in Refs
        /\ \A x \in Entities : NoRefs[x] = 0 /\ Bag({e})[x] = IF x = e THEN 1 ELSE 0
    BY Bags
  <1>3. \A d \in recovered : Valid(d, NoRefs) /\ Valid(d, Bag({e}))
    BY ValidBags DEF Recoverable
  <1>4. /\ patch \in Patches /\ patch.removed = NoRefs /\ patch.added = Bag({e})
        /\ \A d \in recovered : ValidPatch(d, patch)
    <2>1. patch \in Patches /\ patch.removed = NoRefs /\ patch.added = Bag({e})
      BY <1>2 DEF ClaimsPatch, Patch, Patches, PatchKinds
    <2>2. \A d \in recovered : ValidPatch(d, patch)
      BY <1>3 DEF ClaimsPatch, Patch, ValidPatch
    <2> QED
      BY <2>1, <2>2
  <1> HIDE DEF puts, patch
  <1>5. GoodPuts(puts) /\ DOMAIN puts = recovered
    BY <1>1, <1>4, PutsOfSome DEF Recoverable
  <1>6. ASSUME NEW d \in recovered
        PROVE  /\ \A x \in Entities : puts[d].removed[x] <= s.docs[d].refs[x]
               /\ \A x \in Entities : Patched(s.docs[d].refs, puts[d])[x] = s.docs[d].refs[x] + (IF x = e THEN 1 ELSE 0)
               /\ Values(Patched(s.docs[d].refs, puts[d])) # {}
    <2> DEFINE refs == s.docs[d].refs
    <2>1. refs \in Refs /\ \A x \in Entities : refs[x] \in Nat
      BY GoodDocs DEF Recoverable, Refs
    <2> HIDE DEF refs
    <2>2. puts[d] = patch
      BY <1>1
    <2>3. \A x \in Entities : patch.removed[x] <= refs[x]
      BY <1>2, <1>4, <2>1
    <2>4. /\ Patched(refs, patch) \in Refs
          /\ \A x \in Entities : Patched(refs, patch)[x] = refs[x] - patch.removed[x] + patch.added[x]
      BY <1>4, <2>1, <2>3, PatchedIs
    <2>5. ASSUME NEW x \in Entities
          PROVE  Patched(refs, patch)[x] = refs[x] + (IF x = e THEN 1 ELSE 0)
      <3>1. patch.removed[x] = 0 /\ patch.added[x] = IF x = e THEN 1 ELSE 0
        BY <1>2, <1>4
      <3>2. Patched(refs, patch)[x] = refs[x] - patch.removed[x] + patch.added[x] /\ refs[x] \in Nat
        BY <2>1, <2>4
      <3> QED
        BY <3>1, <3>2
    <2>6. e \in Values(Patched(refs, patch))
      BY <2>1, <2>4, <2>5, ValuesAre
    <2> QED
      BY <2>2, <2>3, <2>5, <2>6 DEF refs
  <1>7. Puttable(s, puts)
    BY <1>5, <1>6 DEF Puttable
  <1> QED
    BY <1>5, <1>6, <1>7 DEF puts

Subjects(s, e, i) ==
    {d \in s.patches[i][e].deletedClaims :
        \/ Values(s.docs[Resolved(s.docs, d)].refs) = {}
        \/ ~\E j \in (i + 1)..Len(s.patches) : Resolved(s.docs, d) \in DOMAIN s.patches[j]}

\* Subjects of a deletion may refer to the entity.
LEMMA SubjectsAre ==
    ASSUME NEW s, Good(s), NEW e \in Entities, NEW i \in DOMAIN s.patches, Has(s.patches[i], e, "deletion")
    PROVE  Recoverable(Subjects(s, e, i), e)
  <1>1. e \in DOMAIN s.patches[i]
    BY DEF Has
  <1>2. s.patches[i][e] \in Patches /\ ValidPatch(e, s.patches[i][e])
    BY <1>1, PutsAre DEF Good
  <1> QED
    BY <1>2 DEF Subjects, Recoverable, ValidPatch, Patches

\* Deleted claims all come back, or the recovery fails.
LEMMA RecoverDeletedClaimsIs ==
    ASSUME NEW s, NEW e, NEW i, i # 0
    PROVE  /\ (\A d \in Subjects(s, e, i) : CanUpdateClaim(s, d, {}, {e}))
                => RecoverDeletedClaims(s, e, i) = PutAll(s, RecoveredPuts(Subjects(s, e, i), e))
           /\ ~(\A d \in Subjects(s, e, i) : CanUpdateClaim(s, d, {}, {e}))
                => RecoverDeletedClaims(s, e, i) = Fail(s)
  BY DEF RecoverDeletedClaims, RecoveredPuts, Subjects

LEMMA RecoverDeletedClaimsGood ==
    ASSUME NEW s, Good(s), NEW e \in Entities, NEW i,
           i = 0 \/ (i \in DOMAIN s.patches /\ Has(s.patches[i], e, "deletion"))
    PROVE  /\ Good(RecoverDeletedClaims(s, e, i)) /\ Keeps(s, RecoverDeletedClaims(s, e, i))
           /\ RecoverDeletedClaims(s, e, i).events = s.events
  <1> DEFINE t == RecoverDeletedClaims(s, e, i)
             puts == RecoveredPuts(Subjects(s, e, i), e)
  <1>1. CASE i = 0
    <2>1. t = s
      BY <1>1 DEF RecoverDeletedClaims
    <2> QED
      BY <2>1, KeepsItself
  <1>2. CASE i # 0
    <2>1. Puttable(s, puts)
      BY <1>2, SubjectsAre, RecoveredAre
    <2>2. t = PutAll(s, puts) \/ t = Fail(s)
      BY <1>2, RecoverDeletedClaimsIs
    <2>3. s \in States
      BY DEF Good
    <2> HIDE DEF t, puts
    <2>4. Good(t) /\ Keeps(s, t) /\ t.events = s.events
      BY <2>1, <2>2, <2>3, PutAllGood, PutAllIs, FailGood
    <2> QED
      BY <2>4 DEF t
  <1> QED
    BY <1>1, <1>2

\* The outcomes of a recovery: nothing, a refusal of the entity, a failure of its claims, or
\* success.
LEMMA RecoverPlaceholderIs ==
    ASSUME NEW s, NEW e
    PROVE  LET u == PutType(s, e, "entity", "recovery")
               w == RecoverDeletedClaims(u, e, LastDeletion(s, e))
               t == RecoverPlaceholder(s, e)
           IN  /\ ~s.ok \/ s.docs[e].type # "removed" => t = s
               /\ s.ok /\ s.docs[e].type = "removed" /\ ~CanPut(s, e, Mark("recovery")) => t = Fail(s)
               /\ s.ok /\ s.docs[e].type = "removed" /\ CanPut(s, e, Mark("recovery")) /\ ~w.ok => t = w
               /\ s.ok /\ s.docs[e].type = "removed" /\ CanPut(s, e, Mark("recovery")) /\ w.ok
                    => t = Emit(w, "entity:recover", {e})
  BY DEF RecoverPlaceholder

\* A patch without claims changes none.
LEMMA Unpatched ==
    ASSUME NEW refs \in Refs, NEW kind
    PROVE  Patched(refs, Mark(kind)) = refs /\ \A e \in Entities : Mark(kind).removed[e] <= refs[e]
  <1>1. Mark(kind).removed = NoRefs /\ Mark(kind).added = NoRefs
    BY DEF Mark, Patch
  <1>2. \A e \in Entities : NoRefs[e] = 0
    BY Bags
  <1>3. Patched(refs, Mark(kind)) = [e \in Entities |-> refs[e] - NoRefs[e] + NoRefs[e]]
    BY <1>1 DEF Patched, Plus, Minus
  <1>4. \A e \in Entities : refs[e] - NoRefs[e] + NoRefs[e] = refs[e] /\ NoRefs[e] <= refs[e]
    BY <1>2 DEF Refs
  <1> QED
    BY <1>1, <1>3, <1>4 DEF Refs

\* A recovery leaves a good state, whatever its outcome.
LEMMA RecoverPlaceholderGood ==
    ASSUME NEW s, Good(s), NEW e \in Entities
    PROVE  Good(RecoverPlaceholder(s, e)) /\ Keeps(s, RecoverPlaceholder(s, e))
  <1> DEFINE u == PutType(s, e, "entity", "recovery")
             w == RecoverDeletedClaims(u, e, LastDeletion(s, e))
             t == RecoverPlaceholder(s, e)
  <1>1. CASE s.ok /\ s.docs[e].type = "removed" /\ CanPut(s, e, Mark("recovery"))
    <2>1. e \in Editions => Values(s.docs[e].refs) # {}
      BY <1>1, Unpatched, GoodDocs DEF CanPut
    <2>2. "recovery" \in PatchKinds
      BY DEF PatchKinds
    <2>3. /\ Good(u) /\ Keeps(s, u) /\ u.docs = EntityDocs(s, {e})
          /\ u.patches = Append(s.patches, Only(e, Mark("recovery")))
      BY <1>1, <2>1, <2>2, PutTypeGood
    <2>4. u.docs[e].type = "entity"
      BY <2>3, GoodDocs DEF EntityDocs, Documents
    <2>5. GoodPuts(Only(e, Mark("recovery")))
      BY <2>2, Marks
    <2>6. LastDeletion(s, e) = 0 \/ (LastDeletion(s, e) \in DOMAIN u.patches /\ Has(u.patches[LastDeletion(s, e)], e, "deletion"))
      BY <2>3, <2>5, DeletionIs, Appended
    <2>7. ~w.ok => t = w
      BY <1>1, RecoverPlaceholderIs
    <2>8. w.ok => t = Emit(w, "entity:recover", {e})
      BY <1>1, RecoverPlaceholderIs
    <2> HIDE DEF u
    <2>9. Good(w) /\ Keeps(u, w)
      BY <2>3, <2>6, RecoverDeletedClaimsGood
    <2> HIDE DEF w, t
    <2>10. w.docs[e].type # "redirect"
      BY <2>4, <2>9 DEF Keeps
    <2>11. Good(Emit(w, "entity:recover", {e})) /\ Keeps(w, Emit(w, "entity:recover", {e}))
      <3>1. "entity:recover" \in {"entity:merge", "entity:remove"} \cup Recoveries /\ {e} \in SUBSET Entities
        BY DEF Recoveries
      <3>2. \A x \in {e} : w.docs[x].type # "redirect"
        BY <2>10
      <3> QED
        BY <2>9, <3>1, <3>2, EmitGood
    <2>12. Good(t) /\ Keeps(s, t)
      <3>1. Good(t) /\ Keeps(w, t)
        BY <2>7, <2>8, <2>9, <2>11, KeepsItself
      <3> QED
        BY <2>3, <2>9, <3>1, KeepsTransitive
    <2> QED
      BY <2>12 DEF t
  <1>2. CASE ~(s.ok /\ s.docs[e].type = "removed" /\ CanPut(s, e, Mark("recovery")))
    <2>1. t = s \/ t = Fail(s)
      BY <1>2, RecoverPlaceholderIs
    <2> QED
      BY <2>1, FailGood, KeepsItself
  <1> QED
    BY <1>1, <1>2

IsStep(step, S, n) == step \in [S \X (1..n) -> S]
IsIteration(f, S, n, x, step) == f \in [0..n -> S] /\ f[0] = x /\ \A i \in 1..n : f[i] = step[<<f[i - 1], i>>]

\* A function that is computed step by step, from its value at 0.
LEMMA Iterates ==
    ASSUME NEW n \in Nat, NEW S, NEW x \in S, NEW step, IsStep(step, S, n)
    PROVE  \E f : IsIteration(f, S, n, x, step)
  <1> DEFINE Computed(m) == \E f \in [0..m -> S] : f[0] = x /\ \A i \in 1..m : f[i] = step[<<f[i - 1], i>>]
             D == {m \in 0..n : Computed(m)}
  <1> USE DEF IsStep
  <1>1. 0 \in D
    <2> DEFINE f == [i \in 0..0 |-> x]
    <2>1. f \in [0..0 -> S] /\ f[0] = x /\ \A i \in 1..0 : f[i] = step[<<f[i - 1], i>>]
      OBVIOUS
    <2> HIDE DEF f
    <2>2. Computed(0)
      BY <2>1
    <2> QED
      BY <2>2
  <1>2. ASSUME NEW m \in 1..n, m - 1 \in D
        PROVE  m \in D
    <2>1. PICK f \in [0..(m - 1) -> S] : f[0] = x /\ \A i \in 1..(m - 1) : f[i] = step[<<f[i - 1], i>>]
      BY <1>2
    <2> DEFINE g == [i \in 0..m |-> IF i = m THEN step[<<f[m - 1], m>>] ELSE f[i]]
    <2>2. m \in Nat /\ m # 0 /\ m - 1 \in 0..(m - 1) /\ \A i \in 0..m : i = m \/ i \in 0..(m - 1)
      OBVIOUS
    <2>3. f[m - 1] \in S /\ step[<<f[m - 1], m>>] \in S
      BY <2>2
    <2>4. g \in [0..m -> S]
      BY <2>2, <2>3
    <2>5. ASSUME NEW i \in 1..m
          PROVE  g[i] = step[<<g[i - 1], i>>]
      <3>1. i - 1 \in 0..m /\ i - 1 # m /\ i \in 0..m /\ g[i - 1] = f[i - 1]
        OBVIOUS
      <3>2. CASE i = m
        BY <3>1, <3>2
      <3>3. CASE i # m
        <4>1. i \in 1..(m - 1) /\ g[i] = f[i]
          BY <3>1, <3>3
        <4> QED
          BY <2>1, <3>1, <4>1
      <3> QED
        BY <3>2, <3>3
    <2>6. g[0] = x
      BY <2>1, <2>2
    <2> HIDE DEF g
    <2>7. Computed(m)
      BY <2>4, <2>5, <2>6
    <2> QED
      BY <2>7
  <1> HIDE DEF D
  <1>3. n \in D
    BY <1>1, <1>2, Stepwise
  <1> QED
    BY <1>3 DEF D, IsIteration

GoodStates == {s \in States : Good(s)}

\* Good states are a set, of which recursive functions take their values.
LEMMA GoodStatesAre == \A s : s \in GoodStates <=> Good(s)
  BY DEF GoodStates, Good

IsRecovery(after, s, es) ==
    after[0] = s /\ \A i \in 1..Len(es) : after[i] = RecoverPlaceholder(after[i - 1], es[i])

\* The recovery of several placeholders is computed one after the other, and keeps the state good.
LEMMA RecoverPlaceholdersRuns ==
    ASSUME NEW s, Good(s), NEW es \in Seq(Entities)
    PROVE  \E after : IsRecovery(after, s, es) /\ RecoverPlaceholders(s, es) = after[Len(es)]
  <1> DEFINE n == Len(es)
             IsRun(g) == g = [i \in 0..n |-> IF i = 0 THEN s ELSE RecoverPlaceholder(g[i - 1], es[i])]
             run == CHOOSE g : IsRun(g)
             step == [p \in GoodStates \X (1..n) |-> RecoverPlaceholder(p[1], es[p[2]])]
  <1>1. n \in Nat /\ \A i \in 1..n : es[i] \in Entities
    OBVIOUS
  <1> HIDE DEF n
  <1>2. RecoverPlaceholders(s, es) = run[n]
    BY DEF RecoverPlaceholders, n
  <1>3. \A u \in GoodStates : \A i \in 1..n : RecoverPlaceholder(u, es[i]) \in GoodStates
    BY <1>1, GoodStatesAre, RecoverPlaceholderGood
  <1>4. IsStep(step, GoodStates, n)
    BY <1>3 DEF IsStep
  <1>5. \A u \in GoodStates : \A i \in 1..n : step[<<u, i>>] = RecoverPlaceholder(u, es[i])
    OBVIOUS
  <1> HIDE DEF step
  <1>6. s \in GoodStates
    BY GoodStatesAre
  <1>7. PICK f : IsIteration(f, GoodStates, n, s, step)
    <2>1. n \in Nat
      BY <1>1
    <2> QED
      BY <1>4, <1>6, <2>1, Iterates
  <1>8. \A i \in 1..n : f[i] = RecoverPlaceholder(f[i - 1], es[i])
    <2>1. \A i \in 1..n : f[i - 1] \in GoodStates
      BY <1>1, <1>7 DEF IsIteration
    <2> QED
      BY <1>5, <1>7, <2>1 DEF IsIteration
  <1>9. IsRun(f)
    <2>1. f = [i \in 0..n |-> f[i]]
      BY <1>7 DEF IsIteration
    <2>2. \A i \in 0..n : f[i] = IF i = 0 THEN s ELSE RecoverPlaceholder(f[i - 1], es[i])
      <3>1. \A i \in 0..n : i = 0 \/ i \in 1..n
        BY <1>1
      <3> QED
        BY <1>7, <1>8, <3>1 DEF IsIteration
    <2> QED
      BY <2>1, <2>2
  <1>10. IsRun(run)
    <2> HIDE DEF IsRun
    <2> QED
      BY <1>9
  <1> HIDE DEF run
  <1>11. run[0] = s /\ \A i \in 1..n : run[i] = RecoverPlaceholder(run[i - 1], es[i])
    <2>1. 0 \in 0..n /\ \A i \in 1..n : i \in 0..n /\ i # 0
      BY <1>1
    <2> QED
      BY <1>10, <2>1
  <1> QED
    BY <1>2, <1>11 DEF IsRecovery, n

LEMMA RecoverPlaceholdersGood ==
    ASSUME NEW s, Good(s), NEW es \in Seq(Entities)
    PROVE  Good(RecoverPlaceholders(s, es)) /\ Keeps(s, RecoverPlaceholders(s, es))
  <1>1. PICK after : IsRecovery(after, s, es) /\ RecoverPlaceholders(s, es) = after[Len(es)]
    BY RecoverPlaceholdersRuns
  <1> DEFINE n == Len(es)
             D == {i \in 0..n : Good(after[i]) /\ Keeps(s, after[i])}
  <1>2. n \in Nat /\ \A i \in 1..n : es[i] \in Entities
    OBVIOUS
  <1>3. 0 \in D
    BY <1>1, <1>2, KeepsItself DEF IsRecovery
  <1>4. ASSUME NEW i \in 1..n, i - 1 \in D
        PROVE  i \in D
    <2>1. Good(after[i - 1]) /\ Keeps(s, after[i - 1]) /\ i \in 0..n
      BY <1>2, <1>4
    <2>2. after[i] = RecoverPlaceholder(after[i - 1], es[i])
      BY <1>1 DEF IsRecovery
    <2>3. Good(after[i]) /\ Keeps(after[i - 1], after[i])
      BY <1>2, <2>1, <2>2, RecoverPlaceholderGood
    <2> QED
      BY <2>1, <2>3, KeepsTransitive
  <1>5. n \in D
    <2>1. n \in Nat /\ \A i \in 1..n : i - 1 \in D => i \in D
      BY <1>2, <1>4
    <2> HIDE DEF D, n
    <2>2. \A i \in 0..n : i \in D
      BY <1>3, <2>1, Stepwise
    <2> QED
      BY <2>1, <2>2
  <1> QED
    BY <1>1, <1>5

-----------------------------------------------------------------------------
(* Reversals of patches *)

\* The reversal of a valid patch is one.
LEMMA RevertingIs ==
    ASSUME NEW d \in Entities, NEW patch \in Patches, ValidPatch(d, patch)
    PROVE  /\ Reverting(patch) \in Patches /\ ValidPatch(d, Reverting(patch))
           /\ Reverting(patch).kind = "revert"
           /\ Reverting(patch).removed = patch.added /\ Reverting(patch).added = patch.removed
  <1>1. patch.added \in Refs /\ patch.removed \in Refs
    BY DEF Patches
  <1>2. /\ Reverting(patch) \in Patches /\ Reverting(patch).kind = "revert"
        /\ Reverting(patch).removed = patch.added /\ Reverting(patch).added = patch.removed
        /\ Reverting(patch).deletedClaims = {}
    BY <1>1 DEF Reverting, ClaimsPatch, Patch, Patches, PatchKinds
  <1> QED
    BY <1>2 DEF ValidPatch

\* Patches whose reversal is allowed can be reverted by one put.
LEMMA RevertedAre ==
    ASSUME NEW s, Good(s), NEW puts, GoodPuts(puts), NEW D, D \subseteq DOMAIN puts,
           \A d \in D : CanRevert(s, d, puts[d]), NEW back, back = [d \in D |-> Reverting(puts[d])]
    PROVE  Puttable(s, back) /\ DOMAIN back = D
  <1>1. ASSUME NEW d \in D
        PROVE  /\ d \in Entities /\ puts[d] \in Patches /\ ValidPatch(d, puts[d])
               /\ back[d] \in Patches /\ ValidPatch(d, back[d])
               /\ back[d] = Reverting(puts[d]) /\ back[d].removed = puts[d].added
    BY PutsAre, RevertingIs
  <1>2. GoodPuts(back) /\ DOMAIN back = D
    <2>1. D \in SUBSET Entities /\ back = [d \in D |-> back[d]]
      BY <1>1
    <2> QED
      BY <1>1, <2>1, PutsOfSome
  <1>3. ASSUME NEW d \in D
        PROVE  /\ \A e \in Entities : back[d].removed[e] <= s.docs[d].refs[e]
               /\ d \in Editions /\ s.docs[d].type # "removed" => Values(Patched(s.docs[d].refs, back[d])) # {}
    <2>1. CanRevert(s, d, puts[d])
      OBVIOUS
    <2>2. s.docs[d].type \in Types
      BY <1>1, GoodDocs DEF Documents
    <2> QED
      BY <1>1, <2>1, <2>2 DEF CanRevert, CanPut, IsEntity, Types
  <1> QED
    BY <1>2, <1>3 DEF Puttable

MergesOf(s, from, to) == {i \in Posted(s, to) : HasFrom(s.patches[i], to, "mergeFrom", from)}

\* The reversal of a merge reverts the first patch of that merge on the target, or fails, or finds
\* none.
LEMMA RevertMergePatchIs ==
    ASSUME NEW s, Good(s), NEW from, NEW to \in Entities
    PROVE  \/ RevertMergePatch(s, from, to) = s /\ (MergesOf(s, from, to) = {} \/ s.docs[to].type = "redirect")
           \/ \E first \in MergesOf(s, from, to) :
                /\ \A j \in MergesOf(s, from, to) : first <= j
                /\ RevertMergePatch(s, from, to) =
                        IF CanRevert(s, to, s.patches[first][to])
                        THEN PutAll(s, Only(to, Reverting(s.patches[first][to]))) ELSE Fail(s)
  <1> DEFINE merges == MergesOf(s, from, to)
             first == CHOOSE i \in merges : \A j \in merges : i <= j
  <1>1. s.patches \in Seq(Puts) /\ Len(s.patches) \in Nat /\ DOMAIN s.patches = 1..Len(s.patches)
    BY DEF Good, States
  <1>2. merges \subseteq 0..Len(s.patches)
    BY <1>1 DEF MergesOf, Posted
  <1>3. RevertMergePatch(s, from, to) =
            IF merges = {} \/ s.docs[to].type = "redirect" THEN s
            ELSE IF CanRevert(s, to, s.patches[first][to])
                 THEN PutAll(s, Only(to, Reverting(s.patches[first][to]))) ELSE Fail(s)
    BY DEF RevertMergePatch, MergesOf
  <1> HIDE DEF merges
  <1>4. merges # {} => first \in merges /\ \A j \in merges : first <= j
    <2>1. merges # {} => \E i \in merges : \A j \in merges : i <= j
      BY <1>1, <1>2, FirstIndex
    <2> QED
      BY <2>1
  <1> HIDE DEF first
  <1> QED
    BY <1>3, <1>4 DEF merges

LEMMA RevertMergePatchGood ==
    ASSUME NEW s, Good(s), NEW from, NEW to \in Entities
    PROVE  Good(RevertMergePatch(s, from, to)) /\ Keeps(s, RevertMergePatch(s, from, to))
  <1> DEFINE t == RevertMergePatch(s, from, to)
  <1>1. CASE t = s
    BY <1>1, KeepsItself
  <1>2. ASSUME NEW first \in MergesOf(s, from, to),
               t = IF CanRevert(s, to, s.patches[first][to])
                   THEN PutAll(s, Only(to, Reverting(s.patches[first][to]))) ELSE Fail(s)
        PROVE  Good(t) /\ Keeps(s, t)
    <2> DEFINE puts == s.patches[first]
               back == Only(to, Reverting(puts[to]))
    <2>1. GoodPuts(puts) /\ {to} \subseteq DOMAIN puts
      BY DEF MergesOf, Posted, HasFrom, Has, Good
    <2>2. (t = PutAll(s, back) /\ CanRevert(s, to, puts[to])) \/ t = Fail(s)
      BY <1>2
    <2>3. back = [d \in {to} |-> Reverting(puts[d])]
      BY DEF Only
    <2> HIDE DEF t, puts, back
    <2>4. CanRevert(s, to, puts[to]) => Puttable(s, back)
      <3> DEFINE D == {to}
      <3>1. ASSUME CanRevert(s, to, puts[to])
            PROVE  D \subseteq DOMAIN puts /\ (\A d \in D : CanRevert(s, d, puts[d])) /\ back = [d \in D |-> Reverting(puts[d])]
        BY <2>1, <2>3, <3>1
      <3> HIDE DEF D
      <3> QED
        BY <2>1, <3>1, RevertedAre
    <2> QED
      BY <2>2, <2>4, PutAllGood, FailGood
  <1> QED
    BY <1>1, <1>2, RevertMergePatchIs

RedirectedIn(puts, from) == {d \in DOMAIN puts : HasFrom(puts, d, "redirectClaims", from)}
RevertedIn(s, puts, from) == {d \in RedirectedIn(puts, from) : CanRevert(s, d, puts[d])}
RevertedPuts(s, puts, from) == [d \in RevertedIn(s, puts, from) |-> Reverting(puts[d])]

\* The reversal of the patches of one redirection is the put of those that can be reverted.
LEMMA RevertRedirectedIs ==
    ASSUME NEW s, Good(s), NEW puts, GoodPuts(puts), NEW from
    PROVE  /\ Puttable(s, RevertedPuts(s, puts, from)) /\ DOMAIN RevertedPuts(s, puts, from) = RevertedIn(s, puts, from)
           /\ RedirectedIn(puts, from) = {} => RevertRedirected(s, puts, from) = s
           /\ RedirectedIn(puts, from) # {} => RevertRedirected(s, puts, from) =
                [PutAll(s, RevertedPuts(s, puts, from)) EXCEPT !.ok = @ /\ RevertedIn(s, puts, from) = RedirectedIn(puts, from)]
  <1>1. /\ RedirectedIn(puts, from) = {} => RevertRedirected(s, puts, from) = s
        /\ RedirectedIn(puts, from) # {} => RevertRedirected(s, puts, from) =
                [PutAll(s, RevertedPuts(s, puts, from)) EXCEPT !.ok = @ /\ RevertedIn(s, puts, from) = RedirectedIn(puts, from)]
    BY DEF RevertRedirected, RedirectedIn, RevertedIn, RevertedPuts
  <1>2. /\ RevertedIn(s, puts, from) \subseteq DOMAIN puts
        /\ \A d \in RevertedIn(s, puts, from) : CanRevert(s, d, puts[d])
    BY DEF RedirectedIn, RevertedIn
  <1>3. RevertedPuts(s, puts, from) = [d \in RevertedIn(s, puts, from) |-> Reverting(puts[d])]
    BY DEF RevertedPuts
  <1> QED
    BY <1>1, <1>2, <1>3, RevertedAre

\* The outcome of a request says nothing of the databases.
LEMMA WithOk ==
    ASSUME NEW s, Good(s), NEW ok \in BOOLEAN, NEW t, t = [s EXCEPT !.ok = ok]
    PROVE  Good(t) /\ Keeps(s, t) /\ t.ok = ok /\ t.docs = s.docs /\ t.patches = s.patches /\ t.events = s.events
  <1>1. /\ t \in States /\ t.docs = s.docs /\ t.patches = s.patches /\ t.events = s.events /\ t.ok = ok
        /\ t.tasks = s.tasks /\ t.uses = s.uses /\ t.halfway = s.halfway /\ t.before = s.before
    BY DEF Good, States
  <1>2. Good(t) /\ Keeps(s, t)
    BY <1>1 DEF Good, GoodBefore, Keeps
  <1> QED
    BY <1>1, <1>2

\* It leaves a good state, even when some of them fail.
LEMMA RevertRedirectedGood ==
    ASSUME NEW s, Good(s), NEW puts, GoodPuts(puts), NEW from
    PROVE  Good(RevertRedirected(s, puts, from)) /\ Keeps(s, RevertRedirected(s, puts, from))
  <1> DEFINE u == PutAll(s, RevertedPuts(s, puts, from))
             t == RevertRedirected(s, puts, from)
             all == RevertedIn(s, puts, from) = RedirectedIn(puts, from)
  <1>1. CASE RedirectedIn(puts, from) = {}
    BY <1>1, RevertRedirectedIs, KeepsItself
  <1>2. CASE RedirectedIn(puts, from) # {}
    <2>1. Good(u) /\ Keeps(s, u)
      BY RevertRedirectedIs, PutAllGood
    <2>2. t = [u EXCEPT !.ok = u.ok /\ all]
      BY <1>2, RevertRedirectedIs
    <2>3. (u.ok /\ all) \in BOOLEAN
      OBVIOUS
    <2> HIDE DEF u, t, all
    <2>4. Good(t) /\ Keeps(u, t)
      BY <2>1, <2>2, <2>3, WithOk
    <2>5. Good(t) /\ Keeps(s, t)
      BY <2>1, <2>4, KeepsTransitive
    <2> QED
      BY <2>5 DEF t
  <1> QED
    BY <1>1, <1>2

PostedIn(s, i) == [d \in {d \in DOMAIN s.patches[i] : <<i, d>> \notin folded} |-> s.patches[i][d]]

\* What is posted of a valid put is one.
LEMMA PostedAre ==
    ASSUME NEW s, NEW i, GoodPuts(s.patches[i])
    PROVE  GoodPuts(PostedIn(s, i))
  <1> DEFINE puts == s.patches[i]
             D == {d \in DOMAIN puts : <<i, d>> \notin folded}
  <1>1. DOMAIN puts \subseteq Entities /\ \A d \in DOMAIN puts : puts[d] \in Patches /\ ValidPatch(d, puts[d])
    BY PutsAre
  <1>2. PostedIn(s, i) = [d \in D |-> puts[d]] /\ D \in SUBSET Entities /\ D \subseteq DOMAIN puts
    BY <1>1 DEF PostedIn
  <1> HIDE DEF D, puts
  <1>3. [d \in D |-> puts[d]] \in Puts
    BY <1>1, <1>2 DEF Puts
  <1> QED
    BY <1>1, <1>2, <1>3 DEF GoodPuts

IsReversal(after, s, from) ==
    after[0] = s /\ \A i \in 1..Len(s.patches) : after[i] = RevertRedirected(after[i - 1], PostedIn(s, i), from)

\* Redirections are reverted one after the other, and the state stays good.
LEMMA RevertClaimsRedirectionsRuns ==
    ASSUME NEW s, Good(s), NEW from
    PROVE  \E after : IsReversal(after, s, from) /\ RevertClaimsRedirections(s, from) = after[Len(s.patches)]
  <1> DEFINE n == Len(s.patches)
             IsRun(g) == g = [i \in 0..n |-> IF i = 0 THEN s ELSE RevertRedirected(g[i - 1], PostedIn(s, i), from)]
             run == CHOOSE g : IsRun(g)
             step == [p \in GoodStates \X (1..n) |-> RevertRedirected(p[1], PostedIn(s, p[2]), from)]
  <1>1. n \in Nat /\ \A i \in 1..n : GoodPuts(PostedIn(s, i))
    <2>1. s.patches \in Seq(Puts)
      BY DEF Good, States
    <2> QED
      BY <2>1, PostedAre DEF Good
  <1> HIDE DEF n
  <1>2. RevertClaimsRedirections(s, from) = run[n]
    BY DEF RevertClaimsRedirections, PostedIn, n
  <1>3. \A u \in GoodStates : \A i \in 1..n : RevertRedirected(u, PostedIn(s, i), from) \in GoodStates
    BY <1>1, GoodStatesAre, RevertRedirectedGood
  <1>4. IsStep(step, GoodStates, n)
    BY <1>3 DEF IsStep
  <1>5. \A u \in GoodStates : \A i \in 1..n : step[<<u, i>>] = RevertRedirected(u, PostedIn(s, i), from)
    OBVIOUS
  <1> HIDE DEF step
  <1>6. s \in GoodStates
    BY GoodStatesAre
  <1>7. PICK f : IsIteration(f, GoodStates, n, s, step)
    <2>1. n \in Nat
      BY <1>1
    <2> QED
      BY <1>4, <1>6, <2>1, Iterates
  <1>8. \A i \in 1..n : f[i] = RevertRedirected(f[i - 1], PostedIn(s, i), from)
    <2>1. \A i \in 1..n : f[i - 1] \in GoodStates
      BY <1>1, <1>7 DEF IsIteration
    <2> QED
      BY <1>5, <1>7, <2>1 DEF IsIteration
  <1>9. IsRun(f)
    <2>1. f = [i \in 0..n |-> f[i]]
      BY <1>7 DEF IsIteration
    <2>2. \A i \in 0..n : f[i] = IF i = 0 THEN s ELSE RevertRedirected(f[i - 1], PostedIn(s, i), from)
      <3>1. \A i \in 0..n : i = 0 \/ i \in 1..n
        BY <1>1
      <3> QED
        BY <1>7, <1>8, <3>1 DEF IsIteration
    <2> QED
      BY <2>1, <2>2
  <1>10. IsRun(run)
    <2> HIDE DEF IsRun
    <2> QED
      BY <1>9
  <1> HIDE DEF run
  <1>11. run[0] = s /\ \A i \in 1..n : run[i] = RevertRedirected(run[i - 1], PostedIn(s, i), from)
    <2>1. 0 \in 0..n /\ \A i \in 1..n : i \in 0..n /\ i # 0
      BY <1>1
    <2> QED
      BY <1>10, <2>1
  <1> QED
    BY <1>2, <1>11 DEF IsReversal, n

LEMMA RevertClaimsRedirectionsGood ==
    ASSUME NEW s, Good(s), NEW from
    PROVE  Good(RevertClaimsRedirections(s, from)) /\ Keeps(s, RevertClaimsRedirections(s, from))
  <1>1. PICK after : IsReversal(after, s, from) /\ RevertClaimsRedirections(s, from) = after[Len(s.patches)]
    BY RevertClaimsRedirectionsRuns
  <1> DEFINE n == Len(s.patches)
             D == {i \in 0..n : Good(after[i]) /\ Keeps(s, after[i])}
  <1>2. n \in Nat /\ \A i \in 1..n : GoodPuts(PostedIn(s, i))
    <2>1. s.patches \in Seq(Puts)
      BY DEF Good, States
    <2> QED
      BY <2>1, PostedAre DEF Good
  <1>3. 0 \in D
    BY <1>1, <1>2, KeepsItself DEF IsReversal
  <1>4. ASSUME NEW i \in 1..n, i - 1 \in D
        PROVE  i \in D
    <2>1. Good(after[i - 1]) /\ Keeps(s, after[i - 1]) /\ i \in 0..n
      BY <1>2, <1>4
    <2>2. after[i] = RevertRedirected(after[i - 1], PostedIn(s, i), from)
      BY <1>1 DEF IsReversal
    <2>3. Good(after[i]) /\ Keeps(after[i - 1], after[i])
      BY <1>2, <2>1, <2>2, RevertRedirectedGood
    <2> QED
      BY <2>1, <2>3, KeepsTransitive
  <1>5. n \in D
    <2>1. n \in Nat /\ \A i \in 1..n : i - 1 \in D => i \in D
      BY <1>2, <1>4
    <2> HIDE DEF D, n
    <2>2. \A i \in 0..n : i \in D
      BY <1>3, <2>1, Stepwise
    <2> QED
      BY <2>1, <2>2
  <1> QED
    BY <1>1, <1>5

-----------------------------------------------------------------------------
(* Merges *)

\* The sequence of a finite set has each member once.
LEMMA SequenceOfSet ==
    ASSUME NEW S \in SUBSET Entities
    PROVE  /\ SetToSeq(S) \in Seq(Entities)
           /\ \A i \in 1..Len(SetToSeq(S)) : SetToSeq(S)[i] \in S
           /\ \A i, j \in 1..Len(SetToSeq(S)) : SetToSeq(S)[i] = SetToSeq(S)[j] => i = j
           /\ \A e \in S : \E i \in 1..Len(SetToSeq(S)) : SetToSeq(S)[i] = e
  <1> DEFINE n == Cardinality(S)
             f == SetToSeq(S)
  <1>1. IsFiniteSet(S)
    BY EntitiesAssumption, FS_Subset
  <1>2. n \in Nat /\ ExistsBijection(1..n, S)
    BY <1>1, FS_CardinalityType
  <1>3. PICK g : g \in Bijection(1..n, S)
    BY <1>2 DEF ExistsBijection
  <1>4. g \in [1..n -> S] /\ IsInjective(g)
    BY <1>3 DEF Bijection, Injection, IsInjective
  <1> HIDE DEF n
  <1>5. f \in [1..n -> S] /\ IsInjective(f)
    BY <1>4 DEF SetToSeq, n
  <1> HIDE DEF f
  <1>6. f \in Injection(1..n, S)
    BY <1>5 DEF Injection, IsInjective
  <1>7. Cardinality(1..n) = Cardinality(S)
    BY <1>2, FS_Interval DEF n
  <1>8. f \in Surjection(1..n, S)
    BY <1>1, <1>6, <1>7, FS_Injection
  <1>9. f \in Seq(Entities) /\ Len(f) = n
    BY <1>2, <1>5
  <1>10. \A e \in S : \E i \in 1..n : f[i] = e
    BY <1>8 DEF Surjection
  <1> QED
    BY <1>5, <1>9, <1>10 DEF f, IsInjective

Mergeable(s, from, to, given) ==
    /\ Good(s) /\ s.events = {} /\ s.ok
    /\ from \in Entities /\ to \in Entities /\ from # to /\ SameType(from, to)
    /\ IsEntity(s, from) /\ IsEntity(s, to)
    /\ given \subseteq ValidValues(to) /\ \A e \in given : s.docs[to].refs[e] = 0

\* The claims that the target of a merge is given are valid ones that it has not.
LEMMA GivenClaimsAre ==
    ASSUME NEW s, Good(s), NEW from \in Entities, NEW to \in Entities, SameType(from, to),
           NEW given \in GivenClaims(s, from, to)
    PROVE  given \subseteq ValidValues(to) /\ \A e \in given : s.docs[to].refs[e] = 0
  <1> DEFINE new == Values(s.docs[from].refs) \ Values(s.docs[to].refs)
  <1>1. /\ \A e \in Entities : e \in Values(s.docs[from].refs) <=> s.docs[from].refs[e] # 0
        /\ \A e \in Entities : e \in Values(s.docs[to].refs) <=> s.docs[to].refs[e] # 0
        /\ Values(s.docs[from].refs) \subseteq Entities
    BY GoodDocs, ValuesAre DEF Values
  <1>2. \A e \in new : e \in ValidValues(from) /\ s.docs[to].refs[e] = 0
    BY <1>1, GoodDocs DEF Valid
  <1>3. given \subseteq new
    BY DEF GivenClaims
  <1> QED
    BY <1>2, <1>3, ValidValuesAre

GivenPatch(from, given) == ClaimsPatch("mergeFrom", from, NoRefs, Bag(given))

\* Their patch only adds, each value once.
LEMMA GivenPatchIs ==
    ASSUME NEW s, NEW from, NEW to, NEW given, Mergeable(s, from, to, given)
    PROVE  /\ GivenPatch(from, given) \in Patches /\ ValidPatch(to, GivenPatch(from, given))
           /\ GivenPatch(from, given).kind = "mergeFrom" /\ GivenPatch(from, given).from = from
           /\ \A e \in Entities : GivenPatch(from, given).removed[e] = 0
           /\ \A e \in Entities : GivenPatch(from, given).added[e] = IF e \in given THEN 1 ELSE 0
           /\ Puttable(s, Only(to, GivenPatch(from, given)))
           /\ \A e \in Entities : Patched(s.docs[to].refs, GivenPatch(from, given))[e] =
                s.docs[to].refs[e] + (IF e \in given THEN 1 ELSE 0)
  <1> DEFINE patch == GivenPatch(from, given)
             refs == s.docs[to].refs
  <1>1. Good(s) /\ from \in Entities /\ to \in Entities /\ given \subseteq ValidValues(to) /\ IsEntity(s, to)
    BY DEF Mergeable
  <1>2. refs \in Refs /\ Valid(to, refs) /\ GoodDoc(to, s.docs[to]) /\ \A e \in Entities : refs[e] \in Nat
    BY <1>1, GoodDocs DEF Refs
  <1>3. NoRefs \in Refs /\ Bag(given) \in Refs /\ Valid(to, NoRefs) /\ Valid(to, Bag(given))
    BY <1>1, Bags, ValidBags
  <1>4. \A e \in Entities : NoRefs[e] = 0 /\ Bag(given)[e] = IF e \in given THEN 1 ELSE 0
    BY Bags
  <1>5. /\ patch \in Patches /\ patch.kind = "mergeFrom" /\ patch.from = from
        /\ patch.removed = NoRefs /\ patch.added = Bag(given) /\ patch.deletedClaims = {}
    BY <1>1, <1>3 DEF GivenPatch, ClaimsPatch, Patch, Patches, PatchKinds
  <1> HIDE DEF patch
  <1>6. ValidPatch(to, patch)
    BY <1>3, <1>5 DEF ValidPatch
  <1> HIDE DEF refs
  <1>7. \A e \in Entities : patch.removed[e] <= refs[e]
    BY <1>2, <1>4, <1>5
  <1>8. /\ Patched(refs, patch) \in Refs
        /\ \A e \in Entities : Patched(refs, patch)[e] = refs[e] - patch.removed[e] + patch.added[e]
    BY <1>2, <1>5, <1>7, PatchedIs
  <1>9. ASSUME NEW e \in Entities
        PROVE  Patched(refs, patch)[e] = refs[e] + (IF e \in given THEN 1 ELSE 0)
    <2>1. patch.removed[e] = 0 /\ patch.added[e] = IF e \in given THEN 1 ELSE 0
      BY <1>4, <1>5
    <2> QED
      BY <1>2, <1>8, <2>1
  <1>10. to \in Editions => Values(Patched(refs, patch)) # {}
    <2>1. to \in Editions => Values(refs) # {}
      BY <1>1, <1>2 DEF GoodDoc, IsEntity, refs
    <2>2. \A e \in Entities : e \in Values(refs) => e \in Values(Patched(refs, patch))
      BY <1>2, <1>8, <1>9, ValuesAre
    <2> QED
      BY <2>1, <2>2 DEF Values
  <1>11. Puttable(s, Only(to, patch))
    <2>1. CanPut(s, to, patch)
      BY <1>10 DEF CanPut, refs
    <2> QED
      BY <1>1, <1>5, <1>6, <1>7, <2>1, CannotPutGood DEF refs
  <1> QED
    BY <1>4, <1>5, <1>6, <1>9, <1>11 DEF patch, refs

\* A put, document by document.
LEMMA PutAllDocs ==
    ASSUME NEW s, Good(s), NEW puts, Puttable(s, puts)
    PROVE  \A d \in Entities :
                /\ PutAll(s, puts).docs[d].type = s.docs[d].type
                /\ PutAll(s, puts).docs[d].to = s.docs[d].to /\ PutAll(s, puts).docs[d].gone = s.docs[d].gone
                /\ d \notin DOMAIN puts => PutAll(s, puts).docs[d].refs = s.docs[d].refs
                /\ d \in DOMAIN puts => PutAll(s, puts).docs[d].refs = Patched(s.docs[d].refs, puts[d])
  <1>1. CASE DOMAIN puts = {}
    BY <1>1, PutAllIs DEF Good
  <1>2. CASE DOMAIN puts # {}
    BY <1>2, PutAllIs, PutDocsAre DEF Good
  <1> QED
    BY <1>1, <1>2

\* The first step of a merge: the target is given claims.
LEMMA MergeClaimsIs ==
    ASSUME NEW s, NEW from, NEW to, NEW given, Mergeable(s, from, to, given), NEW t, t = MergeClaims(s, from, to, given)
    PROVE  /\ Good(t) /\ Keeps(s, t) /\ t.ok = s.ok /\ t.events = s.events
           /\ \A d \in Entities : t.docs[d].type = s.docs[d].type /\ t.docs[d].gone = s.docs[d].gone
           /\ \A d \in Entities : d # to => t.docs[d].refs = s.docs[d].refs
           /\ \A e \in Entities : t.docs[to].refs[e] = s.docs[to].refs[e] + (IF e \in given THEN 1 ELSE 0)
           /\ given = {} => t.patches = s.patches
           /\ given # {} => t.patches = Append(s.patches, Only(to, GivenPatch(from, given)))
  <1>1. Good(s) /\ s \in States /\ to \in Entities
    BY DEF Mergeable, Good
  <1>2. CASE given = {}
    <2>1. t = s
      BY <1>2 DEF MergeClaims
    <2>2. \A e \in Entities : s.docs[to].refs[e] = s.docs[to].refs[e] + 0
      BY <1>1, GoodDocs DEF Refs
    <2> QED
      BY <1>1, <1>2, <2>1, <2>2, KeepsItself
  <1>3. CASE given # {}
    <2> DEFINE puts == Only(to, GivenPatch(from, given))
    <2>1. t = PutAll(s, puts)
      BY <1>3 DEF MergeClaims, GivenPatch
    <2>2. Puttable(s, puts)
      BY GivenPatchIs
    <2>3. DOMAIN puts = {to} /\ DOMAIN puts # {} /\ puts[to] = GivenPatch(from, given)
      BY DEF Only
    <2> HIDE DEF puts
    <2>4. Good(t) /\ Keeps(s, t)
      BY <1>1, <2>1, <2>2, PutAllGood
    <2>5. t.ok = s.ok /\ t.events = s.events /\ t.patches = Append(s.patches, puts)
      BY <1>1, <2>1, <2>3, PutAllIs
    <2>6. \A d \in Entities :
            /\ t.docs[d].type = s.docs[d].type /\ t.docs[d].gone = s.docs[d].gone
            /\ d # to => t.docs[d].refs = s.docs[d].refs
            /\ d = to => t.docs[d].refs = Patched(s.docs[d].refs, puts[d])
      BY <1>1, <2>1, <2>2, <2>3, PutAllDocs
    <2>7. \A e \in Entities : t.docs[to].refs[e] = s.docs[to].refs[e] + (IF e \in given THEN 1 ELSE 0)
      BY <1>1, <2>3, <2>6, GivenPatchIs
    <2> QED
      BY <1>3, <2>4, <2>5, <2>6, <2>7 DEF puts
  <1> QED
    BY <1>2, <1>3

\* An appended sequence of puts, by index.
LEMMA AppendIs ==
    ASSUME NEW p \in Seq(Puts), NEW puts \in Puts, NEW q, q = Append(p, puts)
    PROVE  /\ q \in Seq(Puts) /\ Len(p) \in Nat /\ Len(q) = Len(p) + 1
           /\ DOMAIN p = 1..Len(p) /\ DOMAIN q = 1..(Len(p) + 1)
           /\ q[Len(p) + 1] = puts /\ \A i \in 1..Len(p) : q[i] = p[i]
  OBVIOUS

\* The last put of an entity, after the first n ones, replaced that version.
LastPut(s, e, n, version) ==
    \E i \in DOMAIN s.patches :
        /\ i > n /\ e \in DOMAIN s.patches[i] /\ s.before[i][e] = version
        /\ \A j \in DOMAIN s.patches : e \in DOMAIN s.patches[j] => j <= i

Posts(s, t, puts) == t.patches = Append(s.patches, puts) /\ t.before = Append(s.before, Replaced(s, puts))

LEMMA PostsAre ==
    ASSUME NEW s, Good(s), NEW puts, GoodPuts(puts), NEW t, Posts(s, t, puts)
    PROVE  /\ Len(s.patches) \in Nat /\ DOMAIN s.patches = 1..Len(s.patches) /\ DOMAIN t.patches = 1..(Len(s.patches) + 1)
           /\ \A i \in 1..Len(s.patches) : t.patches[i] = s.patches[i] /\ t.before[i] = s.before[i]
           /\ t.patches[Len(s.patches) + 1] = puts /\ t.before[Len(s.patches) + 1] = Replaced(s, puts)
  <1> DEFINE replaced == Replaced(s, puts)
  <1>1. /\ s.patches \in Seq(Puts) /\ s.before \in Seq(Replacements) /\ Len(s.before) = Len(s.patches) /\ puts \in Puts
        /\ replaced \in Replacements
    BY ReplacedAre DEF Good, States, GoodBefore, GoodPuts
  <1>2. t.patches = Append(s.patches, puts) /\ t.before = Append(s.before, replaced)
    BY DEF Posts
  <1> HIDE DEF replaced
  <1>3. /\ \A i \in 1..Len(s.before) : t.before[i] = s.before[i]
        /\ t.before[Len(s.before) + 1] = replaced
    BY <1>1, <1>2
  <1> QED
    BY <1>1, <1>2, <1>3, AppendIs DEF replaced

\* A put of the entity is now the last one; one of others is not.
LEMMA LastPutFirst ==
    ASSUME NEW s, Good(s), NEW puts, GoodPuts(puts), NEW t, Posts(s, t, puts),
           NEW e \in DOMAIN puts, NEW n \in Nat, n <= Len(s.patches)
    PROVE  LastPut(t, e, n, Version(s.docs[e]))
  <1> DEFINE i == Len(s.patches) + 1
  <1>1. /\ Len(s.patches) \in Nat /\ DOMAIN t.patches = 1..i /\ t.patches[i] = puts /\ t.before[i] = Replaced(s, puts)
    BY PostsAre
  <1>2. i \in DOMAIN t.patches /\ i > n /\ \A j \in DOMAIN t.patches : j <= i
    BY <1>1
  <1>3. t.before[i][e] = Version(s.docs[e])
    BY <1>1 DEF Replaced
  <1> HIDE DEF i
  <1> QED
    BY <1>1, <1>2, <1>3 DEF LastPut

LEMMA LastPutKept ==
    ASSUME NEW s, Good(s), NEW puts, GoodPuts(puts), NEW t, Posts(s, t, puts),
           NEW e, e \notin DOMAIN puts, NEW n \in Nat, NEW version, LastPut(s, e, n, version)
    PROVE  LastPut(t, e, n, version)
  <1> DEFINE m == Len(s.patches)
  <1>1. /\ m \in Nat /\ DOMAIN s.patches = 1..m /\ DOMAIN t.patches = 1..(m + 1) /\ t.patches[m + 1] = puts
        /\ \A i \in 1..m : t.patches[i] = s.patches[i] /\ t.before[i] = s.before[i]
    BY PostsAre
  <1> HIDE DEF m
  <1>2. PICK i \in 1..m :
            /\ i > n /\ e \in DOMAIN s.patches[i] /\ s.before[i][e] = version
            /\ \A j \in 1..m : e \in DOMAIN s.patches[j] => j <= i
    BY <1>1 DEF LastPut
  <1>3. t.patches[i] = s.patches[i] /\ t.before[i] = s.before[i]
    BY <1>1
  <1>5. i \in 1..(m + 1)
    BY <1>1
  <1>4. ASSUME NEW j \in 1..(m + 1), e \in DOMAIN t.patches[j]
        PROVE  j <= i
    <2>1. j # m + 1
      BY <1>1, <1>4
    <2>2. j \in 1..m
      BY <1>1, <2>1
    <2> QED
      BY <1>1, <1>2, <1>4, <2>2
  <1> QED
    BY <1>1, <1>2, <1>3, <1>4, <1>5 DEF LastPut

\* The authors that are removed with a merge are entities of another type than those merged.
LEMMA IsolatedAre ==
    ASSUME NEW s, Good(s), NEW from \in Entities
    PROVE  /\ Isolated(s, from) \in SUBSET Entities
           /\ \A e \in Isolated(s, from) : e \in Authors /\ e \in ValidValues(from) /\ s.docs[e].type = "entity"
  <1>1. \A e \in Values(s.docs[from].refs) : e \in Entities /\ s.docs[from].refs[e] # 0
    BY GoodDocs, ValuesAre DEF Values
  <1> QED
    BY <1>1, GoodDocs DEF Isolated, Valid, IsEntity

Redirecting(s, from, to) ==
    Good(s) /\ s.events = {} /\ from \in Entities /\ to \in Entities /\ from # to /\ SameType(from, to) /\ IsEntity(s, from)

\* The second: isolated authors become placeholders, and the source a redirection that lists them.
LEMMA TurnIntoRedirectionIs ==
    ASSUME NEW s, NEW from, NEW to, Redirecting(s, from, to), NEW t, t = TurnIntoRedirection(s, from, to),
           NEW isolated, isolated = Isolated(s, from)
    PROVE  /\ Good(t) /\ t.tasks = s.tasks /\ t.uses = s.uses /\ t.halfway = s.halfway /\ t.ok = s.ok
           /\ \A v \in t.events : v.kind \notin Recoveries
           /\ \A d \in Entities :
                /\ t.docs[d].refs = s.docs[d].refs
                /\ t.docs[d].type = IF d = from THEN "redirect" ELSE IF d \in isolated THEN "removed" ELSE s.docs[d].type
                /\ t.docs[d].to = IF d = from THEN to ELSE s.docs[d].to
                /\ t.docs[d].gone = IF d = from THEN SetToSeq(isolated) ELSE s.docs[d].gone
           /\ isolated = {} => t.patches = Append(s.patches, Only(from, Mark("redirection")))
           /\ isolated # {} => t.patches =
                Append(Append(s.patches, Deletions(isolated, {})), Only(from, Mark("redirection")))
           /\ \A n \in 0..Len(s.patches) : LastPut(t, from, n, Version(s.docs[from]))
  <1> DEFINE u == ToPlaceholders(s, isolated, {})
             doc == [s.docs[from] EXCEPT !.type = "redirect", !.to = to, !.gone = SetToSeq(isolated)]
             docs == [u.docs EXCEPT ![from] = doc]
             puts == Only(from, Mark("redirection"))
  <1>1. /\ Good(s) /\ s \in States /\ s.events = {} /\ from \in Entities /\ to \in Entities
        /\ s.docs[from].type = "entity"
    BY DEF Redirecting, Good, IsEntity
  <1>2. /\ isolated \in SUBSET Entities /\ from \notin isolated
        /\ \A e \in isolated : s.docs[e].type = "entity"
    BY <1>1, IsolatedAre, ValidValuesAre
  <1>3. /\ Good(u) /\ Keeps(s, u) /\ u.ok = s.ok
        /\ \A v \in u.events : v.kind \notin Recoveries
        /\ \A d \in Entities :
            /\ u.docs[d].refs = s.docs[d].refs /\ u.docs[d].to = s.docs[d].to /\ u.docs[d].gone = s.docs[d].gone
            /\ u.docs[d].type = IF d \in isolated THEN "removed" ELSE s.docs[d].type
        /\ isolated = {} => u.patches = s.patches
        /\ isolated # {} => u.patches = Append(s.patches, Deletions(isolated, {}))
    <2>1. CASE isolated = {}
      <3>1. u = s
        BY <2>1 DEF ToPlaceholders
      <3> QED
        BY <1>1, <2>1, <3>1, KeepsItself
    <2>2. CASE isolated # {}
      <3>1. Removable(s, isolated, {})
        BY <1>2, <2>2 DEF Removable
      <3>2. /\ Good(u) /\ Keeps(s, u) /\ u.ok = s.ok /\ u.docs = PlaceholderDocs(s, isolated)
            /\ u.patches = Append(s.patches, Deletions(isolated, {}))
            /\ \A v \in u.events : v \in s.events \/ v.kind \notin Recoveries
        BY <1>1, <3>1, ToPlaceholdersGood
      <3> HIDE DEF u
      <3>3. \A d \in Entities :
            /\ u.docs[d].refs = s.docs[d].refs /\ u.docs[d].to = s.docs[d].to /\ u.docs[d].gone = s.docs[d].gone
            /\ u.docs[d].type = IF d \in isolated THEN "removed" ELSE s.docs[d].type
        BY <1>1, <3>2, GoodDocs DEF PlaceholderDocs, Documents
      <3> QED
        BY <1>1, <2>2, <3>2, <3>3
    <2> QED
      BY <2>1, <2>2
  <1>4. SetToSeq(isolated) \in Seq(Entities)
    BY <1>2, SequenceOfSet
  <1>5. /\ doc \in Documents /\ doc.type = "redirect" /\ doc.to = to /\ doc.gone = SetToSeq(isolated)
        /\ doc.refs = s.docs[from].refs
    BY <1>1, <1>4, GoodDocs DEF Documents, Types
  <1>6. GoodDoc(from, doc)
    BY <1>1, <1>5, GoodDocs DEF GoodDoc
  <1>7. u \in States /\ t = Write(u, docs, puts)
    BY <1>3 DEF TurnIntoRedirection, Good
  <1> HIDE DEF u, doc
  <1>8. /\ docs \in [Entities -> Documents]
        /\ \A d \in Entities : docs[d] = IF d = from THEN doc ELSE u.docs[d]
    <2>1. u.docs \in [Entities -> Documents]
      BY <1>3 DEF Good, States
    <2> QED
      BY <1>5, <2>1
  <1>9. GoodPuts(puts)
    BY <1>1, Marks DEF PatchKinds
  <1> HIDE DEF docs, puts
  <1>10. /\ t.docs = docs /\ t.patches = Append(u.patches, puts) /\ t.before = Append(u.before, Replaced(u, puts))
         /\ t.tasks = u.tasks /\ t.uses = u.uses /\ t.ok = u.ok /\ t.events = u.events /\ t.halfway = u.halfway
    BY <1>7, WriteIs
  <1>11. \A d \in Entities : GoodDoc(d, docs[d])
    BY <1>3, <1>6, <1>8, GoodDocs
  <1>12. Good(t)
    BY <1>3, <1>7, <1>8, <1>9, <1>11, WriteGood
  <1>13. t.tasks = s.tasks /\ t.uses = s.uses /\ t.halfway = s.halfway /\ t.ok = s.ok
    BY <1>3, <1>10 DEF Keeps
  <1>14. \A d \in Entities :
                /\ t.docs[d].refs = s.docs[d].refs
                /\ t.docs[d].type = IF d = from THEN "redirect" ELSE IF d \in isolated THEN "removed" ELSE s.docs[d].type
                /\ t.docs[d].to = IF d = from THEN to ELSE s.docs[d].to
                /\ t.docs[d].gone = IF d = from THEN SetToSeq(isolated) ELSE s.docs[d].gone
    BY <1>3, <1>5, <1>8, <1>10
  <1>15. ASSUME NEW n \in 0..Len(s.patches)
         PROVE  LastPut(t, from, n, Version(s.docs[from]))
    <2>1. from \in DOMAIN puts
      BY DEF puts, Only
    <2>2. n \in Nat /\ n <= Len(u.patches)
      <3>1. s.patches \in Seq(Puts) /\ Len(s.patches) \in Nat
        BY <1>1 DEF Good, States
      <3>3. Deletions(isolated, {}) \in Puts
        BY <1>2, DeletionsAre DEF GoodPuts
      <3>2. isolated # {} => Len(u.patches) = Len(s.patches) + 1
        BY <1>3, <3>1, <3>3, AppendIs
      <3> QED
        BY <1>3, <3>1, <3>2
    <2>3. LastPut(t, from, n, Version(u.docs[from]))
      BY <1>3, <1>9, <1>10, <2>1, <2>2, LastPutFirst DEF Posts
    <2>4. Version(u.docs[from]) = Version(s.docs[from])
      BY <1>1, <1>2, <1>3 DEF Version
    <2> QED
      BY <2>3, <2>4
  <1> QED
    BY <1>3, <1>10, <1>12, <1>13, <1>14, <1>15 DEF puts

\* The third: uses move.
LEMMA PropagateToSocialCoreIs ==
    ASSUME NEW s, Good(s), NEW from \in Entities, NEW to \in Entities, NEW t, t = PropagateToSocialCore(s, from, to)
    PROVE  /\ Good(t) /\ t.docs = s.docs /\ t.patches = s.patches /\ t.tasks = s.tasks /\ t.ok = s.ok
           /\ t.events = s.events /\ t.halfway = s.halfway /\ t.before = s.before
           /\ \A u \in Uses : t.uses[u] = Moved(s.uses[u], from, to)
  <1> DEFINE uses == [u \in Uses |-> Moved(s.uses[u], from, to)]
  <1>1. s \in States /\ s.uses \in [Uses -> UseSet]
    BY DEF Good, States
  <1>2. t = [s EXCEPT !.uses = uses]
    BY <1>1 DEF PropagateToSocialCore, States
  <1>3. ASSUME NEW use \in UseSet
        PROVE  Moved(use, from, to) \in UseSet
    <2>1. use.previous \in Seq(Entities) /\ <<from>> \o use.previous \in Seq(Entities)
      BY DEF UseSet
    <2> QED
      BY <2>1 DEF Moved, UseSet
  <1>4. uses \in [Uses -> UseSet]
    BY <1>1, <1>3
  <1> HIDE DEF uses
  <1>5. /\ t \in States /\ t.docs = s.docs /\ t.patches = s.patches /\ t.tasks = s.tasks /\ t.ok = s.ok
        /\ t.events = s.events /\ t.halfway = s.halfway /\ t.uses = uses /\ t.before = s.before
    BY <1>1, <1>2, <1>4 DEF States
  <1>6. Good(t)
    BY <1>5 DEF Good, GoodBefore
  <1> QED
    BY <1>5, <1>6 DEF uses

\* The patches that a merge leaves.
MergePatches(s, t, from, to, given, isolated) ==
    /\ Len(s.patches) <= Len(t.patches)
    /\ \A i \in 1..Len(s.patches) : t.patches[i] = s.patches[i]
    /\ \A i \in (Len(s.patches) + 1)..Len(t.patches) :
        \/ given # {} /\ i = Len(s.patches) + 1 /\ t.patches[i] = Only(to, GivenPatch(from, given))
        \/ isolated # {} /\ t.patches[i] = Deletions(isolated, {})
        \/ t.patches[i] = Only(from, Mark("redirection"))
        \/ ClaimedBy(s, from) # {} /\ i = Len(t.patches) /\ t.patches[i] = RedirectedPuts(s, from, to)
    /\ given # {} =>
        /\ Len(s.patches) + 1 <= Len(t.patches)
        /\ t.patches[Len(s.patches) + 1] = Only(to, GivenPatch(from, given))
    /\ isolated # {} =>
        \E i \in (Len(s.patches) + 1)..Len(t.patches) : t.patches[i] = Deletions(isolated, {})
    /\ ClaimedBy(s, from) # {} =>
        Len(s.patches) + 1 <= Len(t.patches) /\ t.patches[Len(t.patches)] = RedirectedPuts(s, from, to)

\* The patches are those of the steps of the merge, in their order.
LEMMA MergePatchesAre ==
    ASSUME NEW s, NEW t, NEW from, NEW to, NEW given, NEW isolated, NEW p0 \in Seq(Puts), NEW p1, NEW p2, NEW p3, NEW p4,
           Only(to, GivenPatch(from, given)) \in Puts, Deletions(isolated, {}) \in Puts,
           Only(from, Mark("redirection")) \in Puts, RedirectedPuts(s, from, to) \in Puts,
           s.patches = p0, t.patches = p4,
           given = {} => p1 = p0, given # {} => p1 = Append(p0, Only(to, GivenPatch(from, given))),
           isolated = {} => p2 = p1, isolated # {} => p2 = Append(p1, Deletions(isolated, {})),
           p3 = Append(p2, Only(from, Mark("redirection"))),
           ClaimedBy(s, from) = {} => p4 = p3, ClaimedBy(s, from) # {} => p4 = Append(p3, RedirectedPuts(s, from, to))
    PROVE  MergePatches(s, t, from, to, given, isolated)
  <1> DEFINE n == Len(p0)
             A == Only(to, GivenPatch(from, given))
             B == Deletions(isolated, {})
             C == Only(from, Mark("redirection"))
             D == RedirectedPuts(s, from, to)
             S == ClaimedBy(s, from)
  <1>1. /\ p1 \in Seq(Puts) /\ n \in Nat /\ n <= Len(p1) /\ Len(p1) <= n + 1 /\ Len(p1) \in Nat
        /\ given = {} => Len(p1) = n
        /\ given # {} => Len(p1) = n + 1 /\ p1[n + 1] = A
        /\ \A i \in 1..n : p1[i] = p0[i]
    <2> HIDE DEF A, B, C, D, S
    <2>1. CASE given = {}
      BY <2>1
    <2>2. CASE given # {}
      <3>1. p1 = Append(p0, A) /\ A \in Puts
        BY <2>2 DEF A
      <3> QED
        BY <2>2, <3>1, AppendIs
    <2> QED
      BY <2>1, <2>2
  <1> HIDE DEF n, A, B, C, D, S
  <1>2. /\ p2 \in Seq(Puts) /\ Len(p2) \in Nat /\ Len(p1) <= Len(p2)
        /\ isolated = {} => p2 = p1
        /\ isolated # {} => Len(p2) = Len(p1) + 1 /\ p2[Len(p1) + 1] = B
        /\ \A i \in 1..Len(p1) : p2[i] = p1[i]
    <2>1. CASE isolated = {}
      BY <1>1, <2>1
    <2>2. CASE isolated # {}
      <3>1. p2 = Append(p1, B) /\ B \in Puts
        BY <2>2 DEF B
      <3> QED
        BY <1>1, <2>2, <3>1, AppendIs
    <2> QED
      BY <2>1, <2>2
  <1>3. /\ p3 \in Seq(Puts) /\ Len(p3) \in Nat /\ Len(p3) = Len(p2) + 1 /\ p3[Len(p2) + 1] = C
        /\ \A i \in 1..Len(p2) : p3[i] = p2[i]
    BY <1>2, AppendIs DEF C
  <1>4. /\ p4 \in Seq(Puts) /\ Len(p4) \in Nat /\ Len(p3) <= Len(p4)
        /\ S = {} => p4 = p3
        /\ S # {} => Len(p4) = Len(p3) + 1 /\ p4[Len(p3) + 1] = D
        /\ \A i \in 1..Len(p3) : p4[i] = p3[i]
    <2>1. CASE S = {}
      BY <1>3, <2>1 DEF S
    <2>2. CASE S # {}
      <3>1. p4 = Append(p3, D)
        BY <2>2 DEF S, D
      <3> QED
        BY <1>3, <2>2, <3>1, AppendIs DEF D
    <2> QED
      BY <2>1, <2>2
  <1>5. \A i \in 1..n : p4[i] = p0[i]
    <2> DEFINE n1 == Len(p1)
               n2 == Len(p2)
               n3 == Len(p3)
    <2>1. /\ n \in Nat /\ n1 \in Nat /\ n2 \in Nat /\ n3 \in Nat
          /\ n <= n1 /\ n1 <= n2 /\ n3 = n2 + 1
      BY <1>1, <1>2, <1>3
    <2>2. /\ \A i \in 1..n : p1[i] = p0[i]
          /\ \A i \in 1..n1 : p2[i] = p1[i]
          /\ \A i \in 1..n2 : p3[i] = p2[i]
          /\ \A i \in 1..n3 : p4[i] = p3[i]
      BY <1>1, <1>2, <1>3, <1>4
    <2> HIDE DEF n1, n2, n3
    <2>3. \A i \in 1..n : i \in 1..n1 /\ i \in 1..n2 /\ i \in 1..n3
      BY <2>1
    <2> QED
      BY <2>2, <2>3
  <1>6. n <= Len(p4)
    BY <1>1, <1>2, <1>3, <1>4
  <1>7. ASSUME NEW i \in (n + 1)..Len(p4)
        PROVE  \/ given # {} /\ i = n + 1 /\ p4[i] = A
               \/ isolated # {} /\ p4[i] = B
               \/ p4[i] = C
               \/ S # {} /\ i = Len(p4) /\ p4[i] = D
    <2>1. CASE i <= Len(p1)
      <3>1. given # {} /\ i = n + 1 /\ i \in 1..Len(p1) /\ i \in 1..Len(p2) /\ i \in 1..Len(p3)
        BY <1>1, <1>2, <1>3, <2>1
      <3> QED
        BY <1>1, <1>2, <1>3, <1>4, <3>1
    <2>2. CASE i > Len(p1) /\ i <= Len(p2)
      <3>1. isolated # {} /\ i = Len(p1) + 1 /\ i \in 1..Len(p2) /\ i \in 1..Len(p3)
        BY <1>1, <1>2, <1>3, <2>2
      <3> QED
        BY <1>2, <1>3, <1>4, <3>1
    <2>3. CASE i > Len(p2) /\ i <= Len(p3)
      <3>1. i = Len(p2) + 1 /\ i \in 1..Len(p3)
        BY <1>2, <1>3, <2>3
      <3> QED
        BY <1>3, <1>4, <3>1
    <2>4. CASE i > Len(p3)
      <3>1. S # {} /\ i = Len(p3) + 1 /\ i = Len(p4)
        BY <1>3, <1>4, <2>4
      <3> QED
        BY <1>4, <3>1
    <2> QED
      BY <1>1, <1>2, <1>3, <2>1, <2>2, <2>3, <2>4
  <1>8. given # {} => n + 1 <= Len(p4) /\ p4[n + 1] = A
    <2>1. given # {} => n + 1 \in 1..Len(p1) /\ n + 1 \in 1..Len(p2) /\ n + 1 \in 1..Len(p3) /\ n + 1 <= Len(p4)
      BY <1>1, <1>2, <1>3, <1>4
    <2> QED
      BY <1>1, <1>2, <1>3, <1>4, <2>1
  <1>9. isolated # {} => \E i \in (n + 1)..Len(p4) : p4[i] = B
    <2>1. isolated # {} => Len(p1) + 1 \in 1..Len(p2) /\ Len(p1) + 1 \in 1..Len(p3) /\ Len(p1) + 1 \in (n + 1)..Len(p4)
      BY <1>1, <1>2, <1>3, <1>4
    <2> QED
      BY <1>2, <1>3, <1>4, <2>1
  <1>10. S # {} => n + 1 <= Len(p4) /\ p4[Len(p4)] = D
    BY <1>1, <1>2, <1>3, <1>4
  <1> QED
    BY <1>5, <1>6, <1>7, <1>8, <1>9, <1>10 DEF MergePatches, n, A, B, C, D, S

\* What a merge leaves of the claims.
Merged(s, t, from, to, given, isolated) ==
    /\ isolated \in SUBSET Entities /\ from \notin isolated /\ to \notin isolated /\ isolated \cap Editions = {}
    /\ \A e \in isolated : s.docs[e].type = "entity"
    /\ \A d \in Entities :
        /\ t.docs[d].type = IF d = from THEN "redirect" ELSE IF d \in isolated THEN "removed" ELSE s.docs[d].type
        /\ t.docs[d].to = IF d = from THEN to ELSE s.docs[d].to
        /\ t.docs[d].gone = IF d = from THEN SetToSeq(isolated) ELSE s.docs[d].gone
    /\ \A e \in Entities : t.docs[to].refs[e] = s.docs[to].refs[e] + (IF e \in given THEN 1 ELSE 0)
    /\ \A d \in ClaimedBy(s, from) :
        /\ d # from /\ d # to /\ d \notin isolated
        /\ t.docs[d].refs = Patched(s.docs[d].refs, Redirected(s.docs[d].refs, from, to))
    /\ \A d \in Entities : d \notin ClaimedBy(s, from) /\ d # to => t.docs[d].refs = s.docs[d].refs
    /\ MergePatches(s, t, from, to, given, isolated)
    /\ LastPut(t, from, Len(s.patches), Version(s.docs[from]))

\* A merge never fails once it is accepted, moves the uses, redirects the claims and tells its
\* listeners.
LEMMA MergeEntitiesIs ==
    ASSUME NEW s, NEW from, NEW to, NEW given, Mergeable(s, from, to, given), NEW t, t = MergeEntities(s, from, to, given)
    PROVE  /\ Good(t) /\ t.tasks = s.tasks /\ t.halfway = s.halfway /\ t.ok = s.ok
           /\ \A u \in Uses : t.uses[u] = Moved(s.uses[u], from, to)
           /\ [kind |-> "entity:merge", of |-> from] \in t.events /\ \A v \in t.events : v.kind \notin Recoveries
           /\ \E isolated : Merged(s, t, from, to, given, isolated)
  <1> DEFINE s1 == MergeClaims(s, from, to, given)
             isolated == Isolated(s1, from)
             s2 == TurnIntoRedirection(s1, from, to)
             s3 == PropagateToSocialCore(s2, from, to)
             puts == RedirectedPuts(s3, from, to)
             s4 == RedirectClaims(s3, from, to)
             S == ClaimedBy(s, from)
  <1>1. /\ Good(s) /\ s.events = {} /\ from \in Entities /\ to \in Entities /\ from # to /\ SameType(from, to)
        /\ s.docs[from].type = "entity" /\ s.docs[to].type = "entity" /\ given \subseteq ValidValues(to)
    BY DEF Mergeable, IsEntity
  <1>2. t = Emit(s4, "entity:merge", {from})
    BY DEF MergeEntities
  <1>3. /\ Good(s1) /\ Keeps(s, s1) /\ s1.ok = s.ok /\ s1.events = s.events
        /\ \A d \in Entities : s1.docs[d].type = s.docs[d].type /\ s1.docs[d].gone = s.docs[d].gone
        /\ \A d \in Entities : d # to => s1.docs[d].refs = s.docs[d].refs
        /\ \A e \in Entities : s1.docs[to].refs[e] = s.docs[to].refs[e] + (IF e \in given THEN 1 ELSE 0)
        /\ given = {} => s1.patches = s.patches
        /\ given # {} => s1.patches = Append(s.patches, Only(to, GivenPatch(from, given)))
    BY MergeClaimsIs
  <1> HIDE DEF s1
  <1>4. Redirecting(s1, from, to)
    BY <1>1, <1>3 DEF Redirecting, IsEntity
  <1>5. /\ isolated \in SUBSET Entities
        /\ \A e \in isolated : e \in Authors /\ e \in ValidValues(from) /\ s1.docs[e].type = "entity"
    BY <1>1, <1>3, IsolatedAre
  <1> HIDE DEF isolated
  <1>6. /\ Good(s2) /\ s2.tasks = s1.tasks /\ s2.uses = s1.uses /\ s2.halfway = s1.halfway /\ s2.ok = s1.ok
        /\ \A v \in s2.events : v.kind \notin Recoveries
        /\ \A d \in Entities :
            /\ s2.docs[d].refs = s1.docs[d].refs
            /\ s2.docs[d].type = IF d = from THEN "redirect" ELSE IF d \in isolated THEN "removed" ELSE s1.docs[d].type
            /\ s2.docs[d].to = IF d = from THEN to ELSE s1.docs[d].to
            /\ s2.docs[d].gone = IF d = from THEN SetToSeq(isolated) ELSE s1.docs[d].gone
        /\ isolated = {} => s2.patches = Append(s1.patches, Only(from, Mark("redirection")))
        /\ isolated # {} => s2.patches =
                Append(Append(s1.patches, Deletions(isolated, {})), Only(from, Mark("redirection")))
        /\ \A n \in 0..Len(s1.patches) : LastPut(s2, from, n, Version(s1.docs[from]))
    BY <1>4, TurnIntoRedirectionIs DEF isolated
  <1> HIDE DEF s2
  <1>7. /\ Good(s3) /\ s3.docs = s2.docs /\ s3.patches = s2.patches /\ s3.tasks = s2.tasks /\ s3.ok = s2.ok
        /\ s3.events = s2.events /\ s3.halfway = s2.halfway /\ s3.before = s2.before
        /\ \A u \in Uses : s3.uses[u] = Moved(s2.uses[u], from, to)
    BY <1>1, <1>6, PropagateToSocialCoreIs
  <1> HIDE DEF s3
  <1>8. /\ s4 = PutAll(s3, puts) /\ Puttable(s3, puts) /\ DOMAIN puts = ClaimedBy(s3, from)
        /\ Good(s4) /\ Keeps(s3, s4) /\ s4.ok = s3.ok /\ s4.events = s3.events
    BY <1>1, <1>7, RedirectClaimsIs, RedirectClaimsGood
  <1>9. S \subseteq Entities /\ \A d \in S : d # from /\ d # to /\ d \notin isolated /\ d \notin ValidValues(from)
    <2>1. S \subseteq Entities /\ \A d \in S : from \in ValidValues(d) /\ to \in ValidValues(d)
      BY <1>1, ClaimedAre, ValidValuesAre
    <2>2. \A d \in S : d # from /\ d # to
      BY <1>1, <2>1, ValidValuesAre
    <2>3. \A d \in S : d \notin ValidValues(from)
      BY <1>1, <2>1, EntitiesAssumption DEF ValidValues, Entities
    <2> QED
      BY <1>5, <2>1, <2>2, <2>3
  <1>10. to \notin isolated /\ from \notin isolated
    BY <1>1, <1>5, ValidValuesAre
  <1>11. ClaimedBy(s3, from) = S
    <2>1. ASSUME NEW d \in Entities
          PROVE  d \in ClaimedBy(s3, from) <=> d \in S
      <3>1. d \in S => s3.docs[d].type = "entity" /\ s3.docs[d].refs = s.docs[d].refs
        BY <1>3, <1>6, <1>7, <1>9 DEF ClaimedBy, IsEntity
      <3>2. d \in ClaimedBy(s3, from) => from \in ValidValues(d) /\ s3.docs[d].type = "entity"
        BY <1>1, <1>7, ClaimedAre
      <3>3. d \in ClaimedBy(s3, from) => d # from /\ d # to
        BY <1>1, <3>2, ValidValuesAre
      <3>4. d \in ClaimedBy(s3, from) => s.docs[d].type = "entity" /\ s3.docs[d].refs = s.docs[d].refs
        BY <1>3, <1>6, <1>7, <3>2, <3>3
      <3> QED
        BY <3>1, <3>4 DEF ClaimedBy, IsEntity
    <2> QED
      BY <2>1 DEF ClaimedBy
  <1>12. puts = RedirectedPuts(s, from, to)
    <2>1. \A d \in S : s3.docs[d].refs = s.docs[d].refs
      BY <1>3, <1>6, <1>7, <1>9
    <2> QED
      BY <1>11, <2>1 DEF RedirectedPuts
  <1>13. \A d \in S : puts[d] = Redirected(s.docs[d].refs, from, to)
    BY <1>12 DEF RedirectedPuts
  <1> HIDE DEF puts, s4, S
  <1>14. \A d \in Entities :
            /\ s4.docs[d].type = s3.docs[d].type
            /\ s4.docs[d].to = s3.docs[d].to /\ s4.docs[d].gone = s3.docs[d].gone
            /\ d \notin S => s4.docs[d].refs = s3.docs[d].refs
            /\ d \in S => s4.docs[d].refs = Patched(s3.docs[d].refs, puts[d])
    BY <1>7, <1>8, <1>11, PutAllDocs
  <1>15. /\ Good(t) /\ Keeps(s4, t) /\ t.docs = s4.docs /\ t.patches = s4.patches /\ t.ok = s4.ok /\ t.before = s4.before
         /\ t.events = s4.events \cup {[kind |-> "entity:merge", of |-> e] : e \in {from}}
    <2>1. "entity:merge" \in {"entity:merge", "entity:remove"} \cup Recoveries /\ "entity:merge" \notin Recoveries
      BY DEF Recoveries
    <2>2. {from} \in SUBSET Entities
      BY <1>1
    <2> QED
      BY <1>2, <1>8, <2>1, <2>2, EmitGood
  <1>16. \A d \in Entities :
            /\ t.docs[d].type = IF d = from THEN "redirect" ELSE IF d \in isolated THEN "removed" ELSE s.docs[d].type
            /\ t.docs[d].to = IF d = from THEN to ELSE s.docs[d].to
            /\ t.docs[d].gone = IF d = from THEN SetToSeq(isolated) ELSE s.docs[d].gone
    BY <1>3, <1>6, <1>7, <1>14, <1>15 DEF Keeps
  <1>17. \A e \in Entities : t.docs[to].refs[e] = s.docs[to].refs[e] + (IF e \in given THEN 1 ELSE 0)
    BY <1>1, <1>3, <1>6, <1>7, <1>9, <1>14, <1>15
  <1>18. \A d \in S :
            /\ d # from /\ d # to /\ d \notin isolated
            /\ t.docs[d].refs = Patched(s.docs[d].refs, Redirected(s.docs[d].refs, from, to))
    BY <1>3, <1>6, <1>7, <1>9, <1>13, <1>14, <1>15
  <1>19. \A d \in Entities : d \notin S /\ d # to => t.docs[d].refs = s.docs[d].refs
    BY <1>3, <1>6, <1>7, <1>14, <1>15
  <1>20. MergePatches(s, t, from, to, given, isolated)
    <2>1. s \in States /\ s.patches \in Seq(Puts) /\ s3 \in States
      BY <1>1, <1>7 DEF Good, States
    <2>2. /\ Only(to, GivenPatch(from, given)) \in Puts /\ Deletions(isolated, {}) \in Puts
          /\ Only(from, Mark("redirection")) \in Puts /\ RedirectedPuts(s, from, to) \in Puts
      <3>1. Only(to, GivenPatch(from, given)) \in Puts
        BY GivenPatchIs DEF Puttable, GoodPuts
      <3>2. Deletions(isolated, {}) \in Puts
        BY <1>5, DeletionsAre DEF GoodPuts
      <3>3. Only(from, Mark("redirection")) \in Puts
        BY <1>1, Marks DEF GoodPuts, PatchKinds
      <3>4. RedirectedPuts(s, from, to) \in Puts
        BY <1>8, <1>12 DEF Puttable, GoodPuts
      <3> QED
        BY <3>1, <3>2, <3>3, <3>4
    <2>3. /\ S = {} => t.patches = s3.patches
          /\ S # {} => t.patches = Append(s3.patches, puts)
      BY <1>8, <1>11, <1>15, <2>1, PutAllIs
    <2> DEFINE p1 == s1.patches
               p2 == IF isolated = {} THEN p1 ELSE Append(p1, Deletions(isolated, {}))
               p3 == Append(p2, Only(from, Mark("redirection")))
    <2>4. s3.patches = p3
      BY <1>6, <1>7
    <2>5. /\ isolated = {} => p2 = p1
          /\ isolated # {} => p2 = Append(p1, Deletions(isolated, {}))
          /\ p3 = Append(p2, Only(from, Mark("redirection")))
      OBVIOUS
    <2>6. /\ given = {} => p1 = s.patches
          /\ given # {} => p1 = Append(s.patches, Only(to, GivenPatch(from, given)))
      BY <1>3
    <2> HIDE DEF p1, p2, p3
    <2>7. /\ ClaimedBy(s, from) = {} => t.patches = p3
          /\ ClaimedBy(s, from) # {} => t.patches = Append(p3, RedirectedPuts(s, from, to))
      BY <1>12, <2>3, <2>4 DEF S
    <2> QED
      BY <2>1, <2>2, <2>5, <2>6, <2>7, MergePatchesAre
  <1>21. isolated \cap Editions = {}
    BY <1>5, EntitiesAssumption
  <1>22. \A e \in isolated : s.docs[e].type = "entity"
    BY <1>3, <1>5
  <1>27. LastPut(t, from, Len(s.patches), Version(s.docs[from]))
    <2> DEFINE n == Len(s.patches)
               version == Version(s.docs[from])
    <2>1. n \in Nat /\ n \in 0..Len(s1.patches)
      <3>1. s.patches \in Seq(Puts) /\ Len(s.patches) \in Nat /\ Only(to, GivenPatch(from, given)) \in Puts
        BY <1>1, GivenPatchIs DEF Good, States, Puttable, GoodPuts
      <3>2. given # {} => Len(s1.patches) = Len(s.patches) + 1
        BY <1>3, <3>1, AppendIs
      <3> QED
        BY <1>3, <3>1, <3>2
    <2>2. Version(s1.docs[from]) = version
      BY <1>1, <1>3 DEF Version
    <2> HIDE DEF n, version
    <2>3. LastPut(s3, from, n, version)
      BY <1>6, <1>7, <2>1, <2>2 DEF LastPut
    <2>4. CASE S = {}
      <3>1. s4 = s3
        BY <1>7, <1>8, <1>11, <2>4, PutAllIs DEF Good
      <3>2. t.patches = s3.patches /\ t.before = s3.before
        BY <1>15, <3>1
      <3> QED
        BY <2>3, <3>2 DEF LastPut, n, version
    <2>5. CASE S # {}
      <3>1. t.patches = Append(s3.patches, puts) /\ t.before = Append(s3.before, Replaced(s3, puts))
        BY <1>7, <1>8, <1>11, <1>15, <2>5, PutAllIs DEF Good
      <3>2. GoodPuts(puts) /\ from \notin DOMAIN puts
        BY <1>8, <1>9, <1>11 DEF Puttable
      <3> QED
        BY <1>7, <2>1, <2>3, <3>1, <3>2, LastPutKept DEF n, version, Posts
    <2> QED
      BY <2>4, <2>5
  <1>23. Merged(s, t, from, to, given, isolated)
    BY <1>5, <1>10, <1>16, <1>17, <1>18, <1>19, <1>20, <1>21, <1>22, <1>27 DEF Merged, S
  <1>24. t.tasks = s.tasks /\ t.halfway = s.halfway /\ t.ok = s.ok
    BY <1>3, <1>6, <1>7, <1>8, <1>15 DEF Keeps
  <1>25. \A u \in Uses : t.uses[u] = Moved(s.uses[u], from, to)
    BY <1>3, <1>6, <1>7, <1>8, <1>15 DEF Keeps
  <1>26. [kind |-> "entity:merge", of |-> from] \in t.events /\ \A v \in t.events : v.kind \notin Recoveries
    BY <1>6, <1>7, <1>8, <1>15 DEF Recoveries
  <1> QED
    BY <1>15, <1>23, <1>24, <1>25, <1>26

-----------------------------------------------------------------------------
(* Reverted merges *)

\* The first step of a reversal: the entity gets back the last version before the redirection.
VersionBefore(s, e) == s.before[LastOf(VersionsBefore(s, e))][e]

\* That version, if any, is sound.
LEMMA VersionsAre ==
    ASSUME NEW s, Good(s), NEW e \in Entities, VersionsBefore(s, e) # {}
    PROVE  /\ LastOf(VersionsBefore(s, e)) \in VersionsBefore(s, e)
           /\ \A i \in VersionsBefore(s, e) : i <= LastOf(VersionsBefore(s, e))
           /\ VersionBefore(s, e) \in Versions /\ VersionBefore(s, e).type # "redirect"
           /\ GoodVersion(e, VersionBefore(s, e))
  <1> DEFINE found == VersionsBefore(s, e)
             last == LastOf(found)
  <1>1. /\ s.patches \in Seq(Puts) /\ Len(s.patches) \in Nat /\ DOMAIN s.patches = 1..Len(s.patches)
        /\ s.before \in Seq(Replacements) /\ DOMAIN s.before = DOMAIN s.patches
        /\ \A i \in DOMAIN s.before :
            DOMAIN s.before[i] = DOMAIN s.patches[i] /\ \A d \in DOMAIN s.before[i] : GoodVersion(d, s.before[i][d])
    BY DEF Good, States, GoodBefore
  <1>2. found \subseteq 0..Len(s.patches)
    BY <1>1 DEF VersionsBefore, Posted
  <1>3. \A i \in found : i \in DOMAIN s.before /\ e \in DOMAIN s.before[i] /\ s.before[i][e].type # "redirect"
    BY <1>1 DEF VersionsBefore, Posted
  <1> HIDE DEF found
  <1>4. \E i \in found : \A j \in found : j <= i
    BY <1>1, <1>2, LastOfIndexes DEF found
  <1>5. last \in found /\ \A i \in found : i <= last
    BY <1>4 DEF LastOf
  <1>6. VersionBefore(s, e) = s.before[last][e]
    BY DEF VersionBefore, found
  <1> HIDE DEF last
  <1>7. s.before[last] \in Replacements
    BY <1>1, <1>3, <1>5
  <1>8. s.before[last][e] \in Versions
    BY <1>3, <1>5, <1>7 DEF Replacements
  <1> QED
    BY <1>1, <1>3, <1>5, <1>6, <1>8 DEF found, last

RestoredDoc(version) == [type |-> version.type, refs |-> version.refs, to |-> NoEntity, gone |-> <<>>]
Restored(s, from) ==
    Write(s, [s.docs EXCEPT ![from] = RestoredDoc(VersionBefore(s, from))], Only(from, Mark("restoration")))

\* Nothing else changes.
LEMMA RestoredIs ==
    ASSUME NEW s, Good(s), NEW from \in Entities, s.docs[from].type = "redirect", VersionsBefore(s, from) # {},
           NEW t, t = Restored(s, from)
    PROVE  /\ Good(t) /\ t.tasks = s.tasks /\ t.uses = s.uses /\ t.halfway = s.halfway /\ t.ok = s.ok /\ t.events = s.events
           /\ \A d \in Entities : d # from => t.docs[d] = s.docs[d]
           /\ t.docs[from].refs = VersionBefore(s, from).refs /\ t.docs[from].type = VersionBefore(s, from).type
           /\ t.docs[from].type # "redirect"
           /\ t.patches = Append(s.patches, Only(from, Mark("restoration")))
  <1> DEFINE version == VersionBefore(s, from)
             doc == RestoredDoc(version)
             docs == [s.docs EXCEPT ![from] = doc]
             puts == Only(from, Mark("restoration"))
  <1>1. s \in States /\ s.docs \in [Entities -> Documents]
    BY DEF Good, States
  <1>2. version \in Versions /\ version.type # "redirect" /\ GoodVersion(from, version)
    BY VersionsAre
  <1>3. t = Write(s, docs, puts)
    BY DEF Restored
  <1> HIDE DEF version
  <1>4. doc \in Documents /\ doc.type = version.type /\ doc.refs = version.refs /\ GoodDoc(from, doc)
    <2>1. <<>> \in Seq(Entities)
      OBVIOUS
    <2> QED
      BY <1>2, <2>1 DEF RestoredDoc, Documents, Versions, Types, GoodVersion, GoodDoc
  <1> HIDE DEF doc
  <1>5. /\ docs \in [Entities -> Documents]
        /\ \A d \in Entities : docs[d] = IF d = from THEN doc ELSE s.docs[d]
    BY <1>1, <1>4
  <1>6. GoodPuts(puts)
    BY Marks DEF PatchKinds
  <1> HIDE DEF docs, puts
  <1>7. /\ t.docs = docs /\ t.patches = Append(s.patches, puts)
        /\ t.tasks = s.tasks /\ t.uses = s.uses /\ t.ok = s.ok /\ t.events = s.events /\ t.halfway = s.halfway
    BY <1>1, <1>3, WriteIs
  <1>8. \A d \in Entities : GoodDoc(d, docs[d])
    BY <1>4, <1>5, GoodDocs
  <1>9. \A v \in s.events : v.kind \in Recoveries => docs[v.of].type # "redirect"
    BY <1>2, <1>4, <1>5, EventsAre
  <1>10. Good(t)
    BY <1>3, <1>5, <1>6, <1>8, <1>9, WriteGood
  <1> QED
    BY <1>2, <1>4, <1>5, <1>7, <1>10 DEF puts, version

\* A reversal that failed is remembered, and writes nothing more.
LEMMA Halfway ==
    ASSUME NEW s, Good(s), NEW t, t = [s EXCEPT !.halfway = TRUE]
    PROVE  Good(t) /\ t.docs = s.docs /\ t.tasks = s.tasks /\ t.uses = s.uses /\ t.halfway = TRUE
  <1>1. /\ t \in States /\ t.docs = s.docs /\ t.patches = s.patches /\ t.before = s.before /\ t.events = s.events
        /\ t.tasks = s.tasks /\ t.uses = s.uses /\ t.halfway = TRUE
    <2>1. s \in States
      BY DEF Good
    <2> QED
      BY <2>1 DEF States
  <1> QED
    BY <1>1 DEF Good, GoodBefore

\* A reversal that finds a version to restore only ends one redirection, and tells its listeners
\* unless it stopped half way.
LEMMA RevertMergeEntitiesGood ==
    ASSUME NEW s, Good(s), NEW from \in Entities, s.docs[from].type = "redirect", VersionsBefore(s, from) # {},
           NEW t, t = RevertMergeEntities(s, from)
    PROVE  /\ Good(t) /\ t.tasks = s.tasks /\ t.uses = s.uses
           /\ t.docs[from].type # "redirect"
           /\ \A d \in Entities \ {from} :
                (t.docs[d].type = "redirect" <=> s.docs[d].type = "redirect") /\ t.docs[d].to = s.docs[d].to
           /\ ~t.halfway => ~s.halfway /\ [kind |-> "entity:revert:merge", of |-> from] \in t.events
  <1> DEFINE to == s.docs[from].to
             gone == s.docs[from].gone
             restored == Restored(s, from)
             recovered == RecoverPlaceholders(restored, gone)
             separated == IF recovered.ok THEN RevertMergePatch(recovered, from, to) ELSE recovered
             reverted == IF separated.ok THEN RevertClaimsRedirections(separated, from) ELSE separated
  <1>1. t = IF reverted.ok THEN Emit(reverted, "entity:revert:merge", {from}) ELSE [reverted EXCEPT !.halfway = TRUE]
    BY DEF RevertMergeEntities, Restored, RestoredDoc, VersionBefore
  <1>2. to \in Entities /\ gone \in Seq(Entities)
    BY GoodDocs DEF GoodDoc, Documents
  <1> HIDE DEF to, gone
  <1>3. /\ Good(restored) /\ restored.tasks = s.tasks /\ restored.uses = s.uses /\ restored.halfway = s.halfway
        /\ \A d \in Entities : d # from => restored.docs[d] = s.docs[d]
        /\ restored.docs[from].type # "redirect"
    BY RestoredIs
  <1> HIDE DEF restored
  <1>4. Good(recovered) /\ Keeps(restored, recovered)
    BY <1>2, <1>3, RecoverPlaceholdersGood
  <1> HIDE DEF recovered
  <1>5. Good(separated) /\ Keeps(recovered, separated)
    BY <1>2, <1>4, RevertMergePatchGood, KeepsItself
  <1> HIDE DEF separated
  <1>6. Good(reverted) /\ Keeps(separated, reverted)
    BY <1>5, RevertClaimsRedirectionsGood, KeepsItself
  <1> HIDE DEF reverted
  <1>7. Keeps(restored, reverted)
    BY <1>4, <1>5, <1>6, KeepsTransitive
  <1>8. /\ reverted.docs[from].type # "redirect"
        /\ \A d \in Entities \ {from} :
                (reverted.docs[d].type = "redirect" <=> s.docs[d].type = "redirect") /\ reverted.docs[d].to = s.docs[d].to
        /\ reverted.tasks = s.tasks /\ reverted.uses = s.uses /\ reverted.halfway = s.halfway
    BY <1>3, <1>7 DEF Keeps
  <1>9. CASE reverted.ok
    <2> DEFINE kind == "entity:revert:merge"
    <2>1. t = Emit(reverted, kind, {from})
      BY <1>1, <1>9
    <2>2. /\ kind \in {"entity:merge", "entity:remove"} \cup Recoveries /\ {from} \in SUBSET Entities
          /\ \A e \in {from} : reverted.docs[e].type # "redirect"
      BY <1>8 DEF Recoveries
    <2> HIDE DEF kind
    <2>3. /\ Good(t) /\ Keeps(reverted, t) /\ t.docs = reverted.docs
          /\ t.events = reverted.events \cup {[kind |-> kind, of |-> e] : e \in {from}}
      BY <1>6, <2>1, <2>2, EmitGood
    <2>4. [kind |-> kind, of |-> from] \in t.events
      BY <2>3
    <2> QED
      BY <1>8, <2>3, <2>4 DEF Keeps, kind
  <1>10. CASE ~reverted.ok
    <2>1. t = [reverted EXCEPT !.halfway = TRUE]
      BY <1>1, <1>10
    <2>2. Good(t) /\ t.docs = reverted.docs /\ t.tasks = reverted.tasks /\ t.uses = reverted.uses /\ t.halfway = TRUE
      BY <1>6, <2>1, Halfway
    <2> QED
      BY <1>8, <2>2
  <1> QED
    BY <1>9, <1>10

-----------------------------------------------------------------------------
(* Redirections end *)

\* What an entity leads to, through redirections.
Closed(docs, C) == C \subseteq Entities /\ \A e \in C : docs[e].type = "redirect" => docs[e].to \in C
Ends(docs, e) ==
    {x \in Entities : docs[x].type # "redirect" /\ \A C \in SUBSET Entities : Closed(docs, C) /\ e \in C => x \in C}

\* A redirection leads where its target leads, and another entity to itself.
LEMMA EndsAre ==
    ASSUME NEW docs, NEW e \in Entities, \A d \in Entities : docs[d].type = "redirect" => docs[d].to \in Entities
    PROVE  /\ docs[e].type = "redirect" => Ends(docs, e) = Ends(docs, docs[e].to)
           /\ docs[e].type # "redirect" => Ends(docs, e) = {e}
  <1>1. ASSUME docs[e].type = "redirect"
        PROVE  Ends(docs, e) = Ends(docs, docs[e].to)
    <2>1. ASSUME NEW x \in Ends(docs, e)
          PROVE  x \in Ends(docs, docs[e].to)
      <3>1. x \in Entities /\ docs[x].type # "redirect" /\ \A C \in SUBSET Entities : Closed(docs, C) /\ e \in C => x \in C
        BY DEF Ends
      <3>2. ASSUME NEW C \in SUBSET Entities, Closed(docs, C), docs[e].to \in C
            PROVE  x \in C
        <4>1. Closed(docs, C \cup {e}) /\ C \cup {e} \in SUBSET Entities
          BY <3>2 DEF Closed
        <4>2. x \in C \cup {e}
          BY <3>1, <4>1
        <4> QED
          BY <1>1, <3>1, <4>2
      <3> QED
        BY <3>1, <3>2 DEF Ends
    <2>2. ASSUME NEW x \in Ends(docs, docs[e].to)
          PROVE  x \in Ends(docs, e)
      BY <1>1 DEF Ends, Closed
    <2> QED
      BY <2>1, <2>2
  <1>2. ASSUME docs[e].type # "redirect"
        PROVE  Ends(docs, e) = {e}
    <2>1. Closed(docs, {e})
      BY <1>2 DEF Closed
    <2>2. \A x \in Ends(docs, e) : x \in {e}
      BY <2>1 DEF Ends
    <2>3. e \in Ends(docs, e)
      BY <1>2 DEF Ends
    <2> QED
      BY <2>2, <2>3
  <1> QED
    BY <1>1, <1>2

\* Reads follow redirections.
LEMMA ResolvedIs ==
    ASSUME NEW docs, NEW e \in Entities, \A d \in Entities : docs[d].type = "redirect" => docs[d].to \in Entities
    PROVE  Resolved(docs, e) = IF docs[e].type = "redirect" THEN Resolved(docs, docs[e].to) ELSE e
  <1> DEFINE IsResolved(r) == r = [d \in Entities |-> IF docs[d].type = "redirect" THEN r[docs[d].to] ELSE d]
             ends == [d \in Entities |-> CHOOSE x : x \in Ends(docs, d)]
             resolved == CHOOSE r : IsResolved(r)
  <1>1. \A d \in Entities : Resolved(docs, d) = resolved[d]
    BY DEF Resolved
  <1>2. IsResolved(ends)
    <2>1. ASSUME NEW d \in Entities
          PROVE  ends[d] = IF docs[d].type = "redirect" THEN ends[docs[d].to] ELSE d
      <3>1. CASE docs[d].type = "redirect"
        <4>1. docs[d].to \in Entities /\ Ends(docs, d) = Ends(docs, docs[d].to)
          BY <3>1, EndsAre
        <4> QED
          BY <3>1, <4>1
      <3>2. CASE docs[d].type # "redirect"
        <4>1. Ends(docs, d) = {d}
          BY <3>2, EndsAre
        <4> QED
          BY <3>2, <4>1
      <3> QED
        BY <3>1, <3>2
    <2> QED
      BY <2>1
  <1>3. IsResolved(resolved)
    <2> HIDE DEF IsResolved
    <2> QED
      BY <1>2
  <1> HIDE DEF resolved
  <1>4. resolved[e] = IF docs[e].type = "redirect" THEN resolved[docs[e].to] ELSE e
    BY <1>3
  <1> QED
    BY <1>1, <1>4

-----------------------------------------------------------------------------
(* Requests *)

\* The databases are sound, and the listeners that wait are told of what can be there.
CatalogueGood ==
    /\ Good(db) /\ radio \in SUBSET EventSet
    /\ \A v \in radio : v.kind \in Recoveries => db.docs[v.of].type # "redirect"

\* What a request does to tasks, uses and redirections: nothing but for its tasks, nothing at all,
\* a merge, or the reversal of one.
Tasked ==
    /\ db'.docs = db.docs /\ db'.uses = db.uses /\ db'.halfway = db.halfway
    /\ \A t \in db'.tasks : t \in db.tasks \/ t.state # "none" \/ db.docs[t.suspect].type # "redirect"
Quiet == Keeps(db, db')
Merging(from, to) ==
    /\ from \in Entities /\ to \in Entities /\ from # to
    /\ db.docs[from].type # "redirect" /\ db.docs[to].type # "redirect"
    /\ db'.tasks = db.tasks /\ db'.halfway = db.halfway
    /\ \A u \in Uses : db'.uses[u] = Moved(db.uses[u], from, to)
    /\ \A d \in Entities : db'.docs[d].type = "redirect" <=> d = from \/ db.docs[d].type = "redirect"
    /\ \A d \in Entities : db'.docs[d].to = IF d = from THEN to ELSE db.docs[d].to
    /\ [kind |-> "entity:merge", of |-> from] \in radio'
Separating(from) ==
    /\ from \in Entities /\ db'.tasks = db.tasks /\ db'.uses = db.uses
    /\ db'.docs[from].type # "redirect"
    /\ \A d \in Entities \ {from} :
        (db'.docs[d].type = "redirect" <=> db.docs[d].type = "redirect") /\ db'.docs[d].to = db.docs[d].to
    /\ ~db'.halfway => ~db.halfway /\ [kind |-> "entity:revert:merge", of |-> from] \in radio'

\* A request begins with what the previous one left.
LEMMA SettledIs ==
    ASSUME Good(db), NEW s, s = Settled
    PROVE  /\ Good(s) /\ s.docs = db.docs /\ s.patches = db.patches /\ s.tasks = db.tasks /\ s.uses = db.uses
           /\ s.halfway = db.halfway /\ s.ok = TRUE /\ s.events = {} /\ s.before = db.before
  <1>1. /\ s \in States /\ s.docs = db.docs /\ s.patches = db.patches /\ s.tasks = db.tasks /\ s.uses = db.uses
        /\ s.halfway = db.halfway /\ s.ok = TRUE /\ s.events = {} /\ s.before = db.before
    BY DEF Good, States, Settled
  <1> QED
    BY <1>1 DEF Good, GoodBefore

\* The end of a request.
LEMMA HandleIs ==
    ASSUME NEW s, Good(s), NEW remembered, Handle(s, remembered)
    PROVE  /\ CatalogueGood' /\ radio' = s.events
           /\ undo' = remembered \/ undo' = NoUndo
           /\ db'.docs = s.docs /\ db'.patches = s.patches /\ db'.tasks = s.tasks /\ db'.uses = s.uses
           /\ db'.halfway = s.halfway /\ db'.ok = s.ok /\ db'.before = s.before
  <1>1. db' = [s EXCEPT !.events = {}] /\ radio' = s.events /\ (undo' = remembered \/ undo' = NoUndo)
    BY DEF Handle
  <1>2. /\ db' \in States /\ db'.docs = s.docs /\ db'.patches = s.patches /\ db'.tasks = s.tasks /\ db'.uses = s.uses
        /\ db'.halfway = s.halfway /\ db'.ok = s.ok /\ db'.events = {} /\ s.events \in SUBSET EventSet
        /\ db'.before = s.before
    BY <1>1 DEF Good, States
  <1>3. Good(db')
    BY <1>2 DEF Good, GoodBefore
  <1>4. \A v \in s.events : v.kind \in Recoveries => s.docs[v.of].type # "redirect"
    BY DEF Good
  <1> QED
    BY <1>1, <1>2, <1>3, <1>4 DEF CatalogueGood

\* Requests that keep what refers to entities.
LEMMA KeptIs ==
    ASSUME Good(db), NEW s, Good(s), Keeps(Settled, s), NEW remembered, Handle(s, remembered)
    PROVE  CatalogueGood' /\ Quiet
  <1>1. CatalogueGood' /\ db'.docs = s.docs /\ db'.tasks = s.tasks /\ db'.uses = s.uses /\ db'.halfway = s.halfway
    BY HandleIs
  <1>2. /\ s.tasks = db.tasks /\ s.uses = db.uses /\ s.halfway = db.halfway
        /\ \A d \in Entities :
            (s.docs[d].type = "redirect" <=> db.docs[d].type = "redirect") /\ s.docs[d].to = db.docs[d].to
    BY SettledIs DEF Keeps
  <1> QED
    BY <1>1, <1>2 DEF Quiet, Keeps

\* Tasks are no part of what makes a state good.
LEMMA WithTasks ==
    ASSUME NEW s, Good(s), NEW tasks \in SUBSET TaskSet, NEW t, t = [s EXCEPT !.tasks = tasks]
    PROVE  /\ Good(t) /\ t.docs = s.docs /\ t.patches = s.patches /\ t.tasks = tasks /\ t.uses = s.uses
           /\ t.halfway = s.halfway /\ t.ok = s.ok /\ t.events = s.events /\ t.before = s.before
  <1>1. /\ t \in States /\ t.docs = s.docs /\ t.patches = s.patches /\ t.tasks = tasks /\ t.uses = s.uses
        /\ t.halfway = s.halfway /\ t.ok = s.ok /\ t.events = s.events /\ t.before = s.before
    BY DEF Good, States
  <1> QED
    BY <1>1 DEF Good, GoodBefore

\* Only the selected tasks change their state.
LEMMA WithStateIs ==
    ASSUME NEW s, Good(s), NEW selected \in SUBSET s.tasks, NEW state \in {"none", "processed", "dismissed"},
           NEW t, t = WithState(s, selected, state)
    PROVE  /\ Good(t) /\ t.docs = s.docs /\ t.patches = s.patches /\ t.uses = s.uses
           /\ t.halfway = s.halfway /\ t.ok = s.ok /\ t.events = s.events /\ t.before = s.before
           /\ \A x \in t.tasks : x \in s.tasks \ selected \/ (x.state = state /\ \E y \in selected : x.suspect = y.suspect)
  <1> DEFINE changed == {[y EXCEPT !.state = state] : y \in selected}
             tasks == (s.tasks \ selected) \cup changed
  <1>1. s.tasks \in SUBSET TaskSet
    BY DEF Good, States
  <1>2. \A y \in selected : /\ [y EXCEPT !.state = state] \in TaskSet /\ [y EXCEPT !.state = state].state = state
                            /\ [y EXCEPT !.state = state].suspect = y.suspect
    BY <1>1 DEF TaskSet
  <1>3. changed \in SUBSET TaskSet /\ \A x \in changed : x.state = state /\ \E y \in selected : x.suspect = y.suspect
    BY <1>2
  <1>4. t = [s EXCEPT !.tasks = tasks]
    BY DEF WithState
  <1> HIDE DEF changed
  <1>5. tasks \in SUBSET TaskSet /\ \A x \in tasks : x \in s.tasks \ selected \/ x \in changed
    BY <1>1, <1>3
  <1> HIDE DEF tasks
  <1> QED
    BY <1>3, <1>4, <1>5, WithTasks

\* A suggestion adds at most a task, about an entity that is not a redirection.
LEMMA SuggestIs ==
    ASSUME Good(db), NEW task \in TaskSet, db.docs[task.suspect].type # "redirect",
           NEW s, s = Settled \/ s = [Settled EXCEPT !.tasks = @ \cup {task}], Suggest(s)
    PROVE  CatalogueGood' /\ Tasked
  <1> DEFINE settled == Settled
             tasks == IF s = settled THEN settled.tasks ELSE settled.tasks \cup {task}
  <1>1. /\ Good(settled) /\ settled.docs = db.docs /\ settled.tasks = db.tasks /\ settled.uses = db.uses
        /\ settled.halfway = db.halfway
    BY SettledIs
  <1>2. Handle(s, NoUndo)
    BY DEF Suggest
  <1>3. s = settled \/ s = [settled EXCEPT !.tasks = settled.tasks \cup {task}]
    OBVIOUS
  <1> HIDE DEF settled
  <1>4. settled.tasks \cup {task} \in SUBSET TaskSet
    BY <1>1 DEF Good, States
  <1>5. /\ Good(s) /\ s.docs = db.docs /\ s.uses = db.uses /\ s.halfway = db.halfway
        /\ s.tasks \subseteq db.tasks \cup {task}
    <2>1. CASE s = settled
      BY <1>1, <2>1
    <2>2. CASE s = [settled EXCEPT !.tasks = settled.tasks \cup {task}]
      BY <1>1, <1>4, <2>2, WithTasks
    <2> QED
      BY <1>3, <2>1, <2>2
  <1>6. CatalogueGood' /\ db'.docs = s.docs /\ db'.tasks = s.tasks /\ db'.uses = s.uses /\ db'.halfway = s.halfway
    BY <1>2, <1>5, HandleIs
  <1> QED
    BY <1>5, <1>6 DEF Tasked

\* Editions of claims, merges, reversals, removals, recoveries and closings of tasks, each as one
\* of the four kinds above.
LEMMA UpdateClaimIs ==
    ASSUME Good(db), NEW d \in Entities, NEW removed \in SUBSET ValidValues(d), NEW added \in SUBSET ValidValues(d),
           UpdateClaim(d, removed, added)
    PROVE  CatalogueGood' /\ Quiet
  <1> DEFINE s == Settled
             t == UpdateInvClaim(s, d, removed, added)
  <1>1. Good(s) /\ Handle(t, NoUndo)
    BY SettledIs DEF UpdateClaim
  <1> HIDE DEF s
  <1>2. Good(t) /\ Keeps(s, t)
    BY <1>1, UpdateInvClaimGood
  <1> HIDE DEF t
  <1> QED
    BY <1>1, <1>2, KeptIs DEF s

LEMMA MergeIs ==
    ASSUME Good(db), NEW from \in Entities, NEW to \in Entities, Merge(from, to)
    PROVE  CatalogueGood' /\ (Tasked \/ Merging(from, to))
  <1>1. from # to /\ SameType(from, to) /\ db.docs[from].type # "redirect" /\ db.docs[to].type # "redirect"
    BY DEF Merge
  <1> DEFINE s == Settled
  <1>2. /\ Good(s) /\ s.docs = db.docs /\ s.patches = db.patches /\ s.tasks = db.tasks /\ s.uses = db.uses
        /\ s.halfway = db.halfway /\ s.ok = TRUE /\ s.events = {}
    BY SettledIs
  <1>3. ASSUME IsEntity(db, from), IsEntity(db, to), NEW given \in GivenClaims(db, from, to), NEW remembered,
               Handle(MergeEntities(Settled, from, to, given), remembered)
        PROVE  CatalogueGood' /\ Merging(from, to)
    <2> DEFINE t == MergeEntities(s, from, to, given)
    <2>1. Handle(t, remembered)
      BY <1>3
    <2> HIDE DEF s
    <2>2. GivenClaims(s, from, to) = GivenClaims(db, from, to)
      BY <1>2 DEF GivenClaims
    <2>3. Mergeable(s, from, to, given)
      BY <1>1, <1>2, <1>3, <2>2, GivenClaimsAre DEF Mergeable, IsEntity
    <2> HIDE DEF t
    <2>4. /\ Good(t) /\ t.tasks = s.tasks /\ t.halfway = s.halfway
          /\ \A u \in Uses : t.uses[u] = Moved(s.uses[u], from, to)
          /\ [kind |-> "entity:merge", of |-> from] \in t.events
      BY <2>3, MergeEntitiesIs DEF t
    <2>5. PICK isolated : Merged(s, t, from, to, given, isolated)
      BY <2>3, MergeEntitiesIs DEF t
    <2>6. \A d \in Entities :
            /\ t.docs[d].type = "redirect" <=> d = from \/ s.docs[d].type = "redirect"
            /\ t.docs[d].to = IF d = from THEN to ELSE s.docs[d].to
      BY <2>5 DEF Merged
    <2>7. /\ CatalogueGood' /\ radio' = t.events /\ db'.docs = t.docs /\ db'.tasks = t.tasks /\ db'.uses = t.uses
          /\ db'.halfway = t.halfway
      BY <2>1, <2>4, HandleIs
    <2> QED
      BY <1>1, <1>2, <2>4, <2>6, <2>7 DEF Merging
  <1>4. ASSUME Suggest(CreateMergeTask(Settled, from, to))
        PROVE  CatalogueGood' /\ Tasked
    <2> DEFINE task == Task("merge", from, to)
               t == CreateMergeTask(s, from, to)
    <2>1. task \in TaskSet /\ task.suspect = from
      BY DEF Task, TaskSet
    <2>2. t = s \/ t = [s EXCEPT !.tasks = @ \cup {task}]
      BY DEF CreateMergeTask
    <2> HIDE DEF task, t
    <2>3. Suggest(t)
      BY <1>4 DEF t
    <2> QED
      BY <1>1, <2>1, <2>2, <2>3, SuggestIs
  <1> QED
    BY <1>3, <1>4 DEF Merge

LEMMA RevertMergeIs ==
    ASSUME Good(db), NEW from \in Entities, RevertMerge(from)
    PROVE  CatalogueGood' /\ (Quiet \/ Separating(from))
  <1> DEFINE s == Settled
             t == RevertMergeEntities(s, from)
             remembered == Undoing("merge", from)
  <1>1. /\ Good(s) /\ s.docs = db.docs /\ s.tasks = db.tasks /\ s.uses = db.uses /\ s.halfway = db.halfway
        /\ db.docs[from].type = "redirect" /\ Handle(t, remembered)
    BY SettledIs DEF RevertMerge
  <1>2. CASE VersionsBefore(s, from) = {}
    <2>1. t = Fail(s)
      BY <1>2 DEF RevertMergeEntities
    <2> HIDE DEF s, t, remembered
    <2>2. Good(t) /\ Keeps(s, t)
      BY <1>1, <2>1, FailGood
    <2> QED
      BY <1>1, <2>2, KeptIs DEF s
  <1>3. CASE VersionsBefore(s, from) # {}
    <2> HIDE DEF s, remembered
    <2>1. /\ Good(t) /\ t.tasks = s.tasks /\ t.uses = s.uses
          /\ t.docs[from].type # "redirect"
          /\ \A d \in Entities \ {from} :
                  (t.docs[d].type = "redirect" <=> s.docs[d].type = "redirect") /\ t.docs[d].to = s.docs[d].to
          /\ ~t.halfway => ~s.halfway /\ [kind |-> "entity:revert:merge", of |-> from] \in t.events
      BY <1>1, <1>3, RevertMergeEntitiesGood
    <2> HIDE DEF t
    <2>2. /\ CatalogueGood' /\ radio' = t.events /\ db'.docs = t.docs /\ db'.tasks = t.tasks /\ db'.uses = t.uses
          /\ db'.halfway = t.halfway
      BY <1>1, <2>1, HandleIs
    <2> QED
      BY <1>1, <2>1, <2>2 DEF Separating
  <1> QED
    BY <1>2, <1>3

LEMMA DeleteIs ==
    ASSUME Good(db), NEW e \in Entities, Delete(e)
    PROVE  CatalogueGood' /\ (Tasked \/ Quiet)
  <1> DEFINE s == Settled
  <1>1. /\ Good(s) /\ s.docs = db.docs /\ s.patches = db.patches /\ s.tasks = db.tasks /\ s.uses = db.uses
        /\ s.halfway = db.halfway
    BY SettledIs
  <1>2. db.docs[e].type # "redirect" /\ CanBeRemoved(db, e)
    BY DEF Delete
  <1>3. ASSUME IsEntity(db, e), NEW remembered, Handle(RemovePlaceholder(Settled, e), remembered)
        PROVE  CatalogueGood' /\ Quiet
    <2> DEFINE t == RemovePlaceholder(s, e)
    <2>1. Handle(t, remembered)
      BY <1>3
    <2> HIDE DEF s
    <2>2. IsEntity(s, e) /\ CanBeRemoved(s, e)
      BY <1>1, <1>2, <1>3 DEF IsEntity, CanBeRemoved, ClaimedBy
    <2>3. Good(t) /\ Keeps(s, t)
      BY <1>1, <2>2, RemovePlaceholderGood
    <2> HIDE DEF t
    <2> QED
      BY <2>1, <2>3, KeptIs DEF s
  <1>4. ASSUME Suggest(CreateDeleteTask(Settled, e))
        PROVE  CatalogueGood' /\ Tasked
    <2> DEFINE task == Task("delete", e, NoEntity)
               t == CreateDeleteTask(s, e)
    <2>1. task \in TaskSet /\ task.suspect = e
      BY DEF Task, TaskSet
    <2>2. t = s \/ t = [s EXCEPT !.tasks = @ \cup {task}]
      BY DEF CreateDeleteTask
    <2> HIDE DEF task, t
    <2>3. Suggest(t)
      BY <1>4 DEF t
    <2> QED
      BY <1>2, <2>1, <2>2, <2>3, SuggestIs
  <1> QED
    BY <1>3, <1>4 DEF Delete

LEMMA RecoverIs ==
    ASSUME Good(db), NEW e \in Entities, Recover(e)
    PROVE  CatalogueGood' /\ Quiet
  <1> DEFINE s == Settled
             t == RecoverPlaceholder(s, e)
             remembered == Undoing("delete", e)
  <1>1. Good(s) /\ Handle(t, remembered)
    BY SettledIs DEF Recover
  <1> HIDE DEF s, remembered
  <1>2. Good(t) /\ Keeps(s, t)
    BY <1>1, RecoverPlaceholderGood
  <1> HIDE DEF t
  <1> QED
    BY <1>1, <1>2, KeptIs DEF s

LEMMA UpdateTaskIs ==
    ASSUME Good(db), NEW task \in db.tasks, UpdateTask(task)
    PROVE  CatalogueGood' /\ Tasked
  <1> DEFINE s == Settled
             t == WithState(s, {task}, "dismissed")
  <1>1. /\ Good(s) /\ s.docs = db.docs /\ s.tasks = db.tasks /\ s.uses = db.uses /\ s.halfway = db.halfway
        /\ Handle(t, NoUndo)
    BY SettledIs DEF UpdateTask
  <1> HIDE DEF s
  <1>2. /\ Good(t) /\ t.docs = s.docs /\ t.uses = s.uses /\ t.halfway = s.halfway
        /\ \A x \in t.tasks : x \in s.tasks \ {task} \/ x.state = "dismissed"
    BY <1>1, WithStateIs
  <1> HIDE DEF t
  <1>3. CatalogueGood' /\ db'.docs = t.docs /\ db'.tasks = t.tasks /\ db'.uses = t.uses /\ db'.halfway = t.halfway
    BY <1>1, <1>2, HandleIs
  <1> QED
    BY <1>1, <1>2, <1>3 DEF Tasked

\* Whatever the request.
LEMMA RequestsAre ==
    ASSUME Good(db), Requests
    PROVE  CatalogueGood' /\ (Tasked \/ Quiet \/ (\E from, to \in Entities : Merging(from, to)) \/ \E from \in Entities : Separating(from))
  <1>1. ASSUME NEW d \in Entities, NEW removed \in {{}} \cup {{e} : e \in ValidValues(d)},
               NEW added \in {{}} \cup {{e} : e \in ValidValues(d)}, UpdateClaim(d, removed, added)
        PROVE  CatalogueGood' /\ Quiet
    <2>1. removed \in SUBSET ValidValues(d) /\ added \in SUBSET ValidValues(d)
      OBVIOUS
    <2> QED
      BY <1>1, <2>1, UpdateClaimIs
  <1>2. ASSUME NEW from \in Entities, NEW to \in Entities, Merge(from, to)
        PROVE  CatalogueGood' /\ (Tasked \/ Merging(from, to))
    BY <1>2, MergeIs
  <1>3. ASSUME NEW e \in Entities, RevertMerge(e)
        PROVE  CatalogueGood' /\ (Quiet \/ Separating(e))
    BY <1>3, RevertMergeIs
  <1>4. ASSUME NEW e \in Entities, Delete(e) \/ Recover(e)
        PROVE  CatalogueGood' /\ (Tasked \/ Quiet)
    BY <1>4, DeleteIs, RecoverIs
  <1>5. ASSUME NEW t \in db.tasks, UpdateTask(t)
        PROVE  CatalogueGood' /\ Tasked
    BY <1>5, UpdateTaskIs
  <1> QED
    BY <1>1, <1>2, <1>3, <1>4, <1>5 DEF Requests
-----------------------------------------------------------------------------
(* Items and elements: where they are, and where they were *)

\* The entities of a use, from the one it is on to the one it was created with.
At(use, i) == IF i = 0 THEN use.uri ELSE use.previous[i]

\* The entities of a use are entities.
LEMMA UsesAre ==
    ASSUME NEW use \in UseSet
    PROVE  Len(use.previous) \in Nat /\ \A i \in 0..Len(use.previous) : At(use, i) \in Entities
  <1>1. use.previous \in Seq(Entities) /\ use.uri \in Entities
    BY DEF UseSet
  <1>2. Len(use.previous) \in Nat /\ \A i \in 1..Len(use.previous) : use.previous[i] \in Entities
    BY <1>1
  <1> QED
    BY <1>1, <1>2 DEF At

\* A use that moves has a longer path.
LEMMA MovedIs ==
    ASSUME NEW use \in UseSet, NEW from \in Entities, NEW to \in Entities, NEW w, w = Moved(use, from, to)
    PROVE  /\ use.uri # from => w = use
           /\ use.uri = from =>
                /\ w \in UseSet /\ w.origin = use.origin /\ Len(w.previous) = Len(use.previous) + 1
                /\ At(w, 0) = to /\ \A i \in 0..Len(use.previous) : At(w, i + 1) = At(use, i)
  <1>1. CASE use.uri # from
    BY <1>1 DEF Moved
  <1>2. CASE use.uri = from
    <2> DEFINE previous == <<from>> \o use.previous
    <2>1. use.previous \in Seq(Entities) /\ Len(use.previous) \in Nat
      BY DEF UseSet
    <2>2. /\ previous \in Seq(Entities) /\ Len(previous) = Len(use.previous) + 1 /\ previous[1] = from
          /\ \A i \in 1..Len(use.previous) : previous[i + 1] = use.previous[i]
      BY <2>1
    <2>3. w = [use EXCEPT !.uri = to, !.previous = previous]
      BY <1>2 DEF Moved
    <2> HIDE DEF previous
    <2>4. w \in UseSet /\ w.origin = use.origin /\ w.uri = to /\ w.previous = previous
      BY <2>2, <2>3 DEF UseSet
    <2>5. ASSUME NEW i \in 0..Len(use.previous)
          PROVE  At(w, i + 1) = At(use, i)
      <3>1. CASE i = 0
        BY <1>2, <2>2, <2>4, <3>1 DEF At
      <3>2. CASE i # 0
        <4>1. i \in 1..Len(use.previous) /\ i + 1 # 0
          BY <2>1, <3>2
        <4> QED
          BY <2>2, <2>4, <3>2, <4>1 DEF At
      <3> QED
        BY <3>1, <3>2
    <2> QED
      BY <1>2, <2>2, <2>4, <2>5 DEF At
  <1> QED
    BY <1>1, <1>2

\* What the use became after an entity is forgotten.
IsCut(use, e, w, n) ==
    /\ At(use, n) = e /\ Len(w.previous) = Len(use.previous) - n
    /\ \A i \in 0..Len(w.previous) : At(w, i) = At(use, n + i)

\* A use that moves back loses the end of its path, up to the entity that is back.
LEMMA MovedBackIs ==
    ASSUME NEW use \in UseSet, NEW e \in Entities, NEW w, w = MovedBack(use, e)
    PROVE  /\ w \in UseSet /\ w.origin = use.origin
           /\ \/ w = use /\ \A i \in 1..Len(use.previous) : At(use, i) # e
              \/ \E n \in 1..Len(use.previous) : IsCut(use, e, w, n)
  <1> DEFINE previous == use.previous
             found == {i \in DOMAIN previous : previous[i] = e}
             index == CHOOSE i \in found : \A j \in found : i <= j
             rest == SubSeq(previous, index + 1, Len(previous))
  <1>1. previous \in Seq(Entities) /\ Len(previous) \in Nat /\ DOMAIN previous = 1..Len(previous)
    BY DEF UseSet
  <1>2. CASE found = {}
    <2>1. w = use
      BY <1>2 DEF MovedBack
    <2>2. \A i \in 1..Len(previous) : At(use, i) # e
      BY <1>1, <1>2 DEF At
    <2> QED
      BY <2>1, <2>2
  <1>3. CASE found # {}
    <2>1. index \in found
      <3>1. found \subseteq 0..Len(previous)
        BY <1>1
      <3>2. \E i \in found : \A j \in found : i <= j
        <4> HIDE DEF found
        <4> QED
          BY <1>1, <1>3, <3>1, FirstIndex
      <3> HIDE DEF found
      <3> QED
        BY <3>2
    <2>2. w = [use EXCEPT !.uri = e, !.previous = rest]
      BY <1>3 DEF MovedBack
    <2> HIDE DEF index
    <2>3. index \in 1..Len(previous) /\ previous[index] = e
      BY <1>1, <2>1
    <2>4. /\ rest \in Seq(Entities) /\ Len(rest) = Len(previous) - index
          /\ \A i \in 1..Len(rest) : rest[i] = previous[index + i]
      BY <1>1, <2>3
    <2> HIDE DEF rest, found
    <2>5. w \in UseSet /\ w.origin = use.origin /\ w.uri = e /\ w.previous = rest
      BY <2>2, <2>4 DEF UseSet
    <2>6. ASSUME NEW i \in 0..Len(rest)
          PROVE  At(w, i) = At(use, index + i)
      <3>1. CASE i = 0
        BY <2>3, <2>5, <3>1 DEF At
      <3>2. CASE i # 0
        <4>1. i \in 1..Len(rest) /\ index + i # 0
          BY <1>1, <2>3, <2>4, <3>2
        <4> QED
          BY <2>4, <2>5, <3>2, <4>1 DEF At
      <3> QED
        BY <3>1, <3>2
    <2>7. At(use, index) = e
      BY <2>3 DEF At
    <2>8. IsCut(use, e, w, index)
      BY <2>4, <2>5, <2>6, <2>7 DEF IsCut
    <2> QED
      BY <2>3, <2>5, <2>8
  <1> QED
    BY <1>2, <1>3

\* The reversal of a merge moves all the uses back.
LEMMA PropagateRevertIs ==
    ASSUME NEW s, Good(s), NEW e \in Entities, NEW t, t = PropagateRevertToSocialCore(s, e)
    PROVE  /\ Good(t) /\ t.docs = s.docs /\ t.patches = s.patches /\ t.tasks = s.tasks /\ t.ok = s.ok
           /\ t.events = s.events /\ t.halfway = s.halfway /\ t.before = s.before
           /\ \A u \in Uses : t.uses[u] = MovedBack(s.uses[u], e)
  <1> DEFINE uses == [u \in Uses |-> MovedBack(s.uses[u], e)]
  <1>1. s \in States /\ s.uses \in [Uses -> UseSet]
    BY DEF Good, States
  <1>2. t = [s EXCEPT !.uses = uses]
    BY <1>1 DEF PropagateRevertToSocialCore, States
  <1>3. uses \in [Uses -> UseSet]
    BY <1>1, MovedBackIs
  <1> HIDE DEF uses
  <1>4. /\ t \in States /\ t.docs = s.docs /\ t.patches = s.patches /\ t.tasks = s.tasks /\ t.ok = s.ok
        /\ t.events = s.events /\ t.halfway = s.halfway /\ t.uses = uses /\ t.before = s.before
    BY <1>1, <1>2, <1>3 DEF States
  <1>5. Good(t)
    BY <1>4 DEF Good, GoodBefore
  <1> QED
    BY <1>4, <1>5 DEF uses

-----------------------------------------------------------------------------
(* Listeners *)

\* A listener changes tasks and uses only; the one of a merge, or of a removal, leaves no live task.
LEMMA ListenIs ==
    ASSUME CatalogueGood, NEW event \in radio, Listen(event)
    PROVE  /\ CatalogueGood' /\ event \in EventSet /\ radio' = radio \ {event} /\ undo' = undo
           /\ db'.docs = db.docs /\ db'.patches = db.patches /\ db'.ok = db.ok /\ db'.halfway = db.halfway
           /\ db'.before = db.before /\ folded' = folded
           /\ event.kind # "entity:revert:merge" => db'.uses = db.uses
           /\ event.kind = "entity:revert:merge" => \A u \in Uses : db'.uses[u] = MovedBack(db.uses[u], event.of)
           /\ event.kind \notin Recoveries =>
                \A t \in db'.tasks : t.state = "none" => t \in db.tasks /\ t.suspect # event.of
           /\ event.kind \in Recoveries =>
                \A t \in db'.tasks : t \in db.tasks \/ t.suspect = event.of
  <1>1. /\ Good(db) /\ event \in EventSet /\ event.of \in Entities
        /\ event.kind \in {"entity:merge", "entity:remove", "entity:recover", "entity:revert:merge"}
        /\ radio' = radio \ {event} /\ undo' = undo /\ folded' = folded
    BY DEF CatalogueGood, EventSet, Listen, Recoveries
  <1>2. CASE event.kind \in {"entity:merge", "entity:remove"}
    <2> DEFINE live == LiveTasks(db, event.of)
    <2>1. db' = WithState(db, live, "processed")
      BY <1>2 DEF Listen, ArchiveTasks
    <2>2. live \in SUBSET db.tasks /\ \A t \in db.tasks \ live : t.state = "none" => t.suspect # event.of
      BY DEF LiveTasks
    <2>3. event.kind \notin Recoveries /\ event.kind # "entity:revert:merge"
      BY <1>2 DEF Recoveries
    <2> HIDE DEF live
    <2>4. /\ Good(db') /\ db'.docs = db.docs /\ db'.patches = db.patches /\ db'.uses = db.uses
          /\ db'.halfway = db.halfway /\ db'.ok = db.ok /\ db'.before = db.before
          /\ \A x \in db'.tasks : x \in db.tasks \ live \/ x.state = "processed"
      BY <1>1, <2>1, <2>2, WithStateIs
    <2> QED
      BY <1>1, <2>2, <2>3, <2>4 DEF CatalogueGood
  <1>3. CASE event.kind \in Recoveries
    <2> DEFINE archived == {t \in db.tasks : t.suspect = event.of /\ t.state = "processed"}
               s == WithState(db, archived, "none")
    <2>1. archived \in SUBSET db.tasks /\ \A t \in archived : t.suspect = event.of
      OBVIOUS
    <2>2. s = RevertArchive(db, event.of)
      BY DEF RevertArchive
    <2>3. /\ event.kind = "entity:recover" => db' = s
          /\ event.kind = "entity:revert:merge" => db' = PropagateRevertToSocialCore(s, event.of)
      BY <2>2 DEF Listen
    <2> HIDE DEF archived
    <2>4. /\ Good(s) /\ s.docs = db.docs /\ s.patches = db.patches /\ s.uses = db.uses
          /\ s.halfway = db.halfway /\ s.ok = db.ok /\ s.before = db.before
          /\ \A x \in s.tasks : x \in db.tasks \/ x.suspect = event.of
      BY <1>1, <2>1, WithStateIs
    <2> HIDE DEF s
    <2>5. CASE event.kind = "entity:recover"
      BY <1>1, <1>3, <2>3, <2>4, <2>5 DEF CatalogueGood
    <2>6. CASE event.kind = "entity:revert:merge"
      <3>1. /\ Good(db') /\ db'.docs = s.docs /\ db'.patches = s.patches /\ db'.tasks = s.tasks /\ db'.ok = s.ok
            /\ db'.halfway = s.halfway /\ db'.before = s.before
            /\ \A u \in Uses : db'.uses[u] = MovedBack(s.uses[u], event.of)
        BY <1>1, <2>3, <2>4, <2>6, PropagateRevertIs
      <3> QED
        BY <1>1, <1>3, <2>4, <2>6, <3>1 DEF CatalogueGood
    <2> QED
      BY <1>3, <2>5, <2>6 DEF Recoveries
  <1> QED
    BY <1>1, <1>2, <1>3 DEF Recoveries

-----------------------------------------------------------------------------
(* Invariants *)

\* A live task about a redirection has a listener waiting.
TasksInv ==
    \A t \in db.tasks : t.state = "none" /\ db.docs[t.suspect].type = "redirect" =>
        [kind |-> "entity:merge", of |-> t.suspect] \in radio

\* From where it is, a use goes back to its origin through entities that were merged each into the
\* previous one, and are still redirected to it unless a listener is about to move it back.
Follows(use, docs, events) ==
    LET n == Len(use.previous)
    IN  /\ At(use, n) = use.origin
        /\ docs[At(use, 0)].type # "redirect"
        /\ \A i, j \in 0..n : At(use, i) = At(use, j) => i = j
        /\ \A i \in 1..n :
            \/ docs[At(use, i)].type = "redirect" /\ docs[At(use, i)].to = At(use, i - 1)
            \/ [kind |-> "entity:revert:merge", of |-> At(use, i)] \in events
UsesInv == ~db.halfway => \A u \in Uses : Follows(db.uses[u], db.docs, radio)

\* Tasks and uses are typed.
LEMMA TypesOfTasks ==
    ASSUME Good(db)
    PROVE  /\ \A t \in db.tasks : t.suspect \in Entities
           /\ \A u \in Uses : db.uses[u] \in UseSet
  BY DEF Good, States, TaskSet

\* Only a merge makes a redirection of an entity that was not one, and it announces it; its
\* listener archives the tasks.
LEMMA TasksInvKept ==
    ASSUME CatalogueGood, TasksInv, [CatalogueNext]_catalogueVars
    PROVE  TasksInv'
  <1>1. CASE radio = {} /\ Requests
    <2>1. \A t \in db.tasks : t.suspect \in Entities /\ (t.state = "none" => db.docs[t.suspect].type # "redirect")
      BY <1>1, TypesOfTasks DEF CatalogueGood, TasksInv
    <2>2. ASSUME Tasked PROVE TasksInv'
      BY <2>1, <2>2 DEF TasksInv, Tasked
    <2>3. ASSUME Quiet PROVE TasksInv'
      BY <2>1, <2>3 DEF TasksInv, Quiet, Keeps
    <2>4. ASSUME NEW from, NEW to, Merging(from, to) PROVE TasksInv'
      BY <2>1, <2>4 DEF TasksInv, Merging
    <2>5. ASSUME NEW from, Separating(from) PROVE TasksInv'
      BY <2>1, <2>5 DEF TasksInv, Separating
    <2> QED
      BY <1>1, <2>2, <2>3, <2>4, <2>5, RequestsAre DEF CatalogueGood
  <1>2. ASSUME NEW event \in radio, Listen(event)
        PROVE  TasksInv'
    <2>1. /\ event \in EventSet /\ radio' = radio \ {event} /\ db'.docs = db.docs
          /\ event.kind \notin Recoveries =>
                \A t \in db'.tasks : t.state = "none" => t \in db.tasks /\ t.suspect # event.of
          /\ event.kind \in Recoveries =>
                \A t \in db'.tasks : t \in db.tasks \/ t.suspect = event.of
      BY <1>2, ListenIs
    <2>2. CASE event.kind \in Recoveries
      <3>1. db.docs[event.of].type # "redirect"
        BY <2>2 DEF CatalogueGood
      <3>2. \A e : event # [kind |-> "entity:merge", of |-> e]
        BY <2>2 DEF Recoveries
      <3> QED
        BY <2>1, <2>2, <3>1, <3>2 DEF TasksInv
    <2>3. CASE event.kind \notin Recoveries
      BY <2>1, <2>3 DEF TasksInv
    <2> QED
      BY <2>2, <2>3
  <1>3. CASE UNCHANGED catalogueVars
    BY <1>3 DEF catalogueVars, TasksInv
  <1> QED
    BY <1>1, <1>2, <1>3 DEF CatalogueNext

\* Requests and listeners leave the databases sound.
LEMMA CatalogueGoodKept ==
    ASSUME CatalogueGood, [CatalogueNext]_catalogueVars
    PROVE  CatalogueGood'
  <1>1. CASE UNCHANGED catalogueVars
    BY <1>1 DEF catalogueVars, CatalogueGood
  <1> QED
    BY <1>1, RequestsAre, ListenIs DEF CatalogueNext, CatalogueGood

\* The invariants hold at first: nothing is redirected.
LEMMA CatalogueGoodFirst ==
    ASSUME CatalogueInit
    PROVE  CatalogueGood /\ TasksInv /\ UsesInv
  <1>1. PICK c \in Catalogues : db = Database(c)
    BY DEF CatalogueInit
  <1>2. radio = {}
    BY DEF CatalogueInit
  <1>3. /\ \A e \in Entities : c.claims[e] \subseteq ValidValues(e) /\ (e \in Editions => c.claims[e] # {})
        /\ \A u \in Uses : c.uses[u] \in Entities
    BY CataloguesAssumption
  <1>4. ASSUME NEW e \in Entities
        PROVE  Doc(c.claims[e]) \in Documents /\ GoodDoc(e, Doc(c.claims[e])) /\ Doc(c.claims[e]).type = "entity"
    <2> DEFINE doc == Doc(c.claims[e])
               refs == Bag(c.claims[e])
    <2>1. refs \in Refs /\ Valid(e, refs) /\ \A x \in Entities : refs[x] = IF x \in c.claims[e] THEN 1 ELSE 0
      BY <1>3, Bags, ValidBags
    <2>2. doc = [type |-> "entity", refs |-> refs, to |-> NoEntity, gone |-> <<>>]
      BY DEF Doc
    <2>3. e \in Editions => Values(refs) # {}
      <3>1. c.claims[e] \subseteq Entities
        BY <1>3 DEF ValidValues, Entities
      <3> HIDE DEF refs
      <3> QED
        BY <1>3, <2>1, <3>1, ValuesAre
    <2> HIDE DEF doc, refs
    <2>4. doc \in Documents /\ doc.type = "entity" /\ doc.refs = refs
      BY <2>1, <2>2 DEF Documents, Types
    <2> QED
      BY <2>1, <2>3, <2>4 DEF GoodDoc, doc
  <1>5. /\ db.docs = [e \in Entities |-> Doc(c.claims[e])] /\ db.patches = <<>> /\ db.before = <<>> /\ db.tasks = {}
        /\ db.uses = [u \in Uses |-> [uri |-> c.uses[u], previous |-> <<>>, origin |-> c.uses[u]]]
        /\ db.ok = TRUE /\ db.events = {} /\ db.halfway = FALSE
        /\ db = [docs |-> db.docs, patches |-> db.patches, before |-> db.before, tasks |-> db.tasks, uses |-> db.uses,
                 ok |-> db.ok, events |-> db.events, halfway |-> db.halfway]
    BY <1>1 DEF Database
  <1>6. db.docs \in [Entities -> Documents] /\ db.uses \in [Uses -> UseSet]
    BY <1>3, <1>4, <1>5 DEF UseSet
  <1>7. db \in States
    <2>1. <<>> \in Seq(Puts) /\ <<>> \in Seq(Replacements)
      OBVIOUS
    <2> QED
      BY <1>5, <1>6, <2>1 DEF States
  <1>8. CatalogueGood
    <2>1. GoodBefore(db)
      BY <1>5 DEF GoodBefore
    <2> QED
      BY <1>2, <1>4, <1>5, <1>7, <2>1 DEF CatalogueGood, Good
  <1>9. TasksInv
    BY <1>5 DEF TasksInv
  <1>10. ASSUME NEW u \in Uses
         PROVE  Follows(db.uses[u], db.docs, radio)
    <2>1. /\ db.uses[u].previous = <<>> /\ db.uses[u].uri = db.uses[u].origin /\ db.uses[u].uri \in Entities
      BY <1>3, <1>5
    <2>2. Len(db.uses[u].previous) = 0 /\ db.docs[db.uses[u].uri].type # "redirect"
      BY <1>4, <1>5, <2>1
    <2> QED
      BY <2>1, <2>2 DEF Follows, At
  <1> QED
    BY <1>8, <1>9, <1>10 DEF UsesInv

\* Through any merges, reversals, removals and suggestions, no live task is about a redirection
\* once the listeners have run (controllers/tasks/hooks.ts).
THEOREM TasksAreArchived == CatalogueSpec => []NoTaskOnRedirection
  <1> DEFINE Inv == CatalogueGood /\ TasksInv
  <1>1. CatalogueInit => Inv
    BY CatalogueGoodFirst
  <1>2. Inv /\ [CatalogueNext]_catalogueVars => Inv'
    BY CatalogueGoodKept, TasksInvKept
  <1>3. Inv => NoTaskOnRedirection
    BY DEF TasksInv, NoTaskOnRedirection
  <1> QED
    BY <1>1, <1>2, <1>3, PTL DEF CatalogueSpec
\* The path of a use that did not move, when what was redirected still is, to the same entities.
LEMMA StillFollows ==
    ASSUME NEW use \in UseSet, NEW docs, Follows(use, docs, {}), NEW events, NEW docs1,
           docs1[use.uri].type # "redirect",
           \A d \in Entities :
                docs[d].type = "redirect" =>
                    \/ docs1[d].type = "redirect" /\ docs1[d].to = docs[d].to
                    \/ [kind |-> "entity:revert:merge", of |-> d] \in events
    PROVE  Follows(use, docs1, events)
  <1>1. Len(use.previous) \in Nat /\ \A i \in 0..Len(use.previous) : At(use, i) \in Entities
    BY UsesAre
  <1>2. \A i \in 1..Len(use.previous) : At(use, i) \in Entities
    BY <1>1
  <1> QED
    BY <1>2 DEF Follows, At

\* A use on the merged entity moves to the target: the path starts there, and goes on through the
\* new redirection.
LEMMA FollowsMerge ==
    ASSUME NEW use \in UseSet, NEW docs, Follows(use, docs, {}), NEW events, NEW docs1,
           NEW from \in Entities, NEW to \in Entities, use.uri = from, from # to,
           docs[from].type # "redirect", docs[to].type # "redirect",
           \A d \in Entities : docs1[d].type = "redirect" <=> d = from \/ docs[d].type = "redirect",
           \A d \in Entities : docs1[d].to = IF d = from THEN to ELSE docs[d].to
    PROVE  Follows(Moved(use, from, to), docs1, events)
  <1> DEFINE w == Moved(use, from, to)
             n == Len(use.previous)
  <1>1. /\ n \in Nat /\ \A i \in 0..n : At(use, i) \in Entities
        /\ At(use, n) = use.origin /\ At(use, 0) = from
    BY UsesAre DEF Follows, At
  <1>2. /\ w.origin = use.origin /\ Len(w.previous) = n + 1
        /\ At(w, 0) = to /\ \A i \in 0..n : At(w, i + 1) = At(use, i)
    BY MovedIs
  <1> HIDE DEF w, n
  <1>3. /\ \A i, j \in 0..n : At(use, i) = At(use, j) => i = j
        /\ \A i \in 1..n : docs[At(use, i)].type = "redirect" /\ docs[At(use, i)].to = At(use, i - 1)
    BY DEF Follows, n
  <1>4. \A i \in 0..n : At(use, i) # to
    <2>1. ASSUME NEW i \in 0..n PROVE At(use, i) # to
      <3>1. CASE i = 0
        BY <1>1, <3>1
      <3>2. CASE i \in 1..n
        BY <1>3, <3>2
      <3> QED
        BY <1>1, <3>1, <3>2
    <2> QED
      BY <2>1
  <1>5. At(w, n + 1) = w.origin
    BY <1>1, <1>2
  <1>6. docs1[At(w, 0)].type # "redirect"
    BY <1>2
  <1>7. \A i \in 1..(n + 1) : i - 1 \in 0..n /\ At(w, i) = At(use, i - 1)
    <2>1. \A i \in 1..(n + 1) : i - 1 \in 0..n /\ (i - 1) + 1 = i
      BY <1>1
    <2> QED
      BY <1>2, <2>1
  <1>8. ASSUME NEW i \in 0..(n + 1), NEW j \in 0..(n + 1), At(w, i) = At(w, j)
        PROVE  i = j
    <2>1. CASE i = 0 /\ j = 0
      BY <2>1
    <2>2. CASE i = 0 /\ j # 0
      <3>1. j \in 1..(n + 1)
        BY <2>2
      <3> QED
        BY <1>2, <1>4, <1>7, <1>8, <2>2, <3>1
    <2>3. CASE i # 0 /\ j = 0
      <3>1. i \in 1..(n + 1)
        BY <2>3
      <3> QED
        BY <1>2, <1>4, <1>7, <1>8, <2>3, <3>1
    <2>4. CASE i # 0 /\ j # 0
      <3>1. i \in 1..(n + 1) /\ j \in 1..(n + 1)
        BY <2>4
      <3>2. i - 1 = j - 1
        BY <1>3, <1>7, <1>8, <3>1
      <3> QED
        BY <3>1, <3>2
    <2> QED
      BY <2>1, <2>2, <2>3, <2>4
  <1>9. ASSUME NEW i \in 1..(n + 1)
        PROVE  docs1[At(w, i)].type = "redirect" /\ docs1[At(w, i)].to = At(w, i - 1)
    <2>1. CASE i = 1
      BY <1>1, <1>2, <1>7, <2>1
    <2>2. CASE i # 1
      <3>1. i - 1 \in 1..n /\ i - 1 \in 1..(n + 1) /\ i - 1 \in 0..n
        BY <1>1, <2>2
      <3>2. At(w, i) = At(use, i - 1) /\ At(w, i - 1) = At(use, (i - 1) - 1)
        BY <1>7, <3>1
      <3>3. docs[At(use, i - 1)].type = "redirect" /\ docs[At(use, i - 1)].to = At(use, (i - 1) - 1)
        BY <1>3, <3>1
      <3> QED
        BY <1>1, <3>1, <3>2, <3>3
    <2> QED
      BY <2>1, <2>2
  <1> QED
    BY <1>2, <1>5, <1>6, <1>8, <1>9 DEF Follows, w

\* The listener of a reversal cuts the path at the entity that is back, where it starts now.
LEMMA FollowsRevert ==
    ASSUME NEW use \in UseSet, NEW docs, NEW events, NEW event \in events, Follows(use, docs, events),
           NEW e \in Entities, event = [kind |-> "entity:revert:merge", of |-> e], docs[e].type # "redirect"
    PROVE  Follows(MovedBack(use, e), docs, events \ {event})
  <1> DEFINE w == MovedBack(use, e)
             n == Len(use.previous)
             rest == events \ {event}
             Back(x, i) == docs[At(x, i)].type = "redirect" /\ docs[At(x, i)].to = At(x, i - 1)
             Told(x, i, E) == [kind |-> "entity:revert:merge", of |-> At(x, i)] \in E
  <1>1. /\ n \in Nat /\ At(use, n) = use.origin /\ docs[At(use, 0)].type # "redirect"
        /\ \A i, j \in 0..n : At(use, i) = At(use, j) => i = j
        /\ \A i \in 1..n : Back(use, i) \/ Told(use, i, events)
    BY UsesAre DEF Follows
  <1>2. \A i : At(use, i) # e => (Told(use, i, events) => Told(use, i, rest))
    OBVIOUS
  <1> HIDE DEF n
  <1>6. w = MovedBack(use, e) /\ n = Len(use.previous)
    BY DEF n
  <1> HIDE DEF w
  <1>3. /\ w.origin = use.origin
        /\ \/ w = use /\ \A i \in 1..n : At(use, i) # e
           \/ \E k \in 1..n : IsCut(use, e, w, k)
    BY <1>6, MovedBackIs
  <1>4. ASSUME w = use, \A i \in 1..n : At(use, i) # e
        PROVE  Follows(w, docs, rest)
    <2>1. \A i \in 1..n : Back(use, i) \/ Told(use, i, rest)
      BY <1>1, <1>2, <1>4
    <2> HIDE DEF rest
    <2> QED
      BY <1>1, <1>4, <1>6, <2>1 DEF Follows
  <1>5. ASSUME NEW k \in 1..n, IsCut(use, e, w, k)
        PROVE  Follows(w, docs, rest)
    <2> DEFINE m == n - k
    <2>6. At(use, k) = e /\ Len(w.previous) = m /\ \A i \in 0..m : At(w, i) = At(use, k + i)
      BY <1>5, <1>6 DEF IsCut
    <2>1. m \in Nat /\ \A i \in 0..m : k + i \in 0..n /\ At(w, i) = At(use, k + i)
      BY <1>1, <2>6
    <2>2. At(w, m) = w.origin
      <3>1. m \in 0..m /\ k + m = n
        BY <1>1, <2>1
      <3> QED
        BY <1>1, <1>3, <2>1, <3>1
    <2>3. docs[At(w, 0)].type # "redirect"
      <3>1. 0 \in 0..m /\ k + 0 = k
        BY <1>1, <2>1
      <3> QED
        BY <2>1, <2>6, <3>1
    <2>4. ASSUME NEW i \in 0..m, NEW j \in 0..m, At(w, i) = At(w, j)
          PROVE  i = j
      <3>1. k + i = k + j
        BY <1>1, <2>1, <2>4
      <3> QED
        BY <3>1
    <2>5. ASSUME NEW i \in 1..m
          PROVE  Back(w, i) \/ Told(w, i, rest)
      <3>1. i \in 0..m /\ i - 1 \in 0..m /\ k + i \in 1..n /\ k + i # k /\ k + (i - 1) = (k + i) - 1 /\ k \in 0..n /\ k + i \in 0..n
        BY <1>1, <2>1
      <3>2. At(w, i) = At(use, k + i) /\ At(w, i - 1) = At(use, (k + i) - 1)
        BY <2>1, <3>1
      <3>3. At(use, k + i) # e
        BY <1>1, <2>6, <3>1
      <3>4. Back(use, k + i) \/ Told(use, k + i, rest)
        BY <1>1, <1>2, <3>1, <3>3
      <3> QED
        BY <3>2, <3>4
    <2> HIDE DEF rest
    <2> QED
      BY <2>2, <2>3, <2>4, <2>5, <2>6 DEF Follows
  <1>7. Follows(w, docs, rest)
    BY <1>3, <1>4, <1>5
  <1> QED
    BY <1>6, <1>7

\* Paths are kept by every step that does not leave a reversal half way.
LEMMA UsesInvKept ==
    ASSUME CatalogueGood, UsesInv, [CatalogueNext]_catalogueVars
    PROVE  UsesInv'
  <1>1. Good(db) /\ \A u \in Uses : db.uses[u] \in UseSet /\ db.uses[u].uri \in Entities
    BY TypesOfTasks DEF CatalogueGood, UseSet
  <1>2. CASE radio = {} /\ Requests
    <2> SUFFICES ASSUME ~db'.halfway, NEW u \in Uses
                 PROVE  Follows(db'.uses[u], db'.docs, radio')
      BY DEF UsesInv
    <2>1. ~db.halfway => Follows(db.uses[u], db.docs, {})
      BY <1>2 DEF UsesInv
    <2>2. Follows(db.uses[u], db.docs, {}) => db.docs[db.uses[u].uri].type # "redirect"
      BY DEF Follows, At
    <2>3. ASSUME Tasked PROVE Follows(db'.uses[u], db'.docs, radio')
      BY <1>1, <2>1, <2>2, <2>3, StillFollows DEF Tasked
    <2>4. ASSUME Quiet PROVE Follows(db'.uses[u], db'.docs, radio')
      BY <1>1, <2>1, <2>2, <2>4, StillFollows DEF Quiet, Keeps
    <2>5. ASSUME NEW from, NEW to, Merging(from, to) PROVE Follows(db'.uses[u], db'.docs, radio')
      <3> DEFINE use == db.uses[u]
      <3>1. /\ from \in Entities /\ to \in Entities /\ from # to
            /\ db.docs[from].type # "redirect" /\ db.docs[to].type # "redirect"
            /\ ~db.halfway /\ db'.uses[u] = Moved(use, from, to)
            /\ \A d \in Entities : db'.docs[d].type = "redirect" <=> d = from \/ db.docs[d].type = "redirect"
            /\ \A d \in Entities : db'.docs[d].to = IF d = from THEN to ELSE db.docs[d].to
        BY <2>5 DEF Merging
      <3>2. use \in UseSet /\ use.uri \in Entities /\ Follows(use, db.docs, {}) /\ db.docs[use.uri].type # "redirect"
        BY <1>1, <2>1, <2>2, <3>1
      <3> HIDE DEF use
      <3>3. CASE use.uri = from
        BY <3>1, <3>2, <3>3, FollowsMerge
      <3>4. CASE use.uri # from
        <4>1. Moved(use, from, to) = use
          BY <3>1, <3>2, <3>4, MovedIs
        <4>2. db'.docs[use.uri].type # "redirect"
          BY <3>1, <3>2, <3>4
        <4>3. \A d \in Entities : db.docs[d].type = "redirect" =>
                    db'.docs[d].type = "redirect" /\ db'.docs[d].to = db.docs[d].to
          BY <3>1
        <4>4. Follows(use, db'.docs, radio')
          BY <3>2, <4>2, <4>3, StillFollows
        <4> QED
          BY <3>1, <4>1, <4>4
      <3> QED
        BY <3>3, <3>4
    <2>6. ASSUME NEW from, Separating(from) PROVE Follows(db'.uses[u], db'.docs, radio')
      <3>1. /\ from \in Entities /\ db'.uses = db.uses /\ db'.docs[from].type # "redirect"
            /\ \A d \in Entities \ {from} :
                (db'.docs[d].type = "redirect" <=> db.docs[d].type = "redirect") /\ db'.docs[d].to = db.docs[d].to
            /\ ~db.halfway /\ [kind |-> "entity:revert:merge", of |-> from] \in radio'
        BY <2>6 DEF Separating
      <3>2. Follows(db.uses[u], db.docs, {}) /\ db'.docs[db.uses[u].uri].type # "redirect"
        BY <1>1, <2>1, <2>2, <3>1
      <3>3. \A d \in Entities : db.docs[d].type = "redirect" =>
                \/ db'.docs[d].type = "redirect" /\ db'.docs[d].to = db.docs[d].to
                \/ [kind |-> "entity:revert:merge", of |-> d] \in radio'
        BY <3>1
      <3>4. Follows(db.uses[u], db'.docs, radio')
        BY <1>1, <3>2, <3>3, StillFollows
      <3> QED
        BY <3>1, <3>4
    <2> QED
      BY <1>1, <1>2, <2>3, <2>4, <2>5, <2>6, RequestsAre
  <1>3. ASSUME NEW event \in radio, Listen(event)
        PROVE  UsesInv'
    <2> SUFFICES ASSUME ~db'.halfway, NEW u \in Uses
                 PROVE  Follows(db'.uses[u], db'.docs, radio')
      BY DEF UsesInv
    <2>1. /\ event \in EventSet /\ radio' = radio \ {event} /\ db'.docs = db.docs /\ db'.halfway = db.halfway
          /\ event.kind # "entity:revert:merge" => db'.uses = db.uses
          /\ event.kind = "entity:revert:merge" => db'.uses[u] = MovedBack(db.uses[u], event.of)
      BY <1>3, ListenIs
    <2>2. Follows(db.uses[u], db.docs, radio)
      BY <2>1 DEF UsesInv
    <2>3. CASE event.kind = "entity:revert:merge"
      <3>1. event = [kind |-> "entity:revert:merge", of |-> event.of] /\ event.of \in Entities
        BY <2>1, <2>3 DEF EventSet
      <3>2. db.docs[event.of].type # "redirect"
        BY <2>3 DEF CatalogueGood, Recoveries
      <3> QED
        BY <1>1, <2>1, <2>2, <2>3, <3>1, <3>2, FollowsRevert
    <2>4. CASE event.kind # "entity:revert:merge"
      <3>1. \A e : [kind |-> "entity:revert:merge", of |-> e] \in radio => [kind |-> "entity:revert:merge", of |-> e] \in radio'
        BY <2>1, <2>4
      <3> QED
        BY <2>1, <2>2, <2>4, <3>1 DEF Follows
    <2> QED
      BY <2>3, <2>4
  <1>4. CASE UNCHANGED catalogueVars
    BY <1>4 DEF catalogueVars, UsesInv
  <1> QED
    BY <1>2, <1>3, <1>4 DEF CatalogueNext

\* Where a path leads.
LEMMA PathsResolve ==
    ASSUME Good(db), NEW use \in UseSet, Follows(use, db.docs, {})
    PROVE  use.uri = Resolved(db.docs, use.origin)
  <1> DEFINE n == Len(use.previous)
             D == {i \in 0..n : Resolved(db.docs, At(use, i)) = use.uri}
  <1>1. /\ n \in Nat /\ \A i \in 0..n : At(use, i) \in Entities
        /\ At(use, n) = use.origin /\ At(use, 0) = use.uri /\ db.docs[use.uri].type # "redirect"
        /\ \A i \in 1..n : db.docs[At(use, i)].type = "redirect" /\ db.docs[At(use, i)].to = At(use, i - 1)
    BY UsesAre DEF Follows, At
  <1>2. \A d \in Entities : db.docs[d].type = "redirect" => db.docs[d].to \in Entities
    BY GoodDocs DEF GoodDoc
  <1> HIDE DEF n
  <1>3. 0 \in D
    <2>1. 0 \in 0..n
      BY <1>1
    <2> QED
      BY <1>1, <1>2, <2>1, ResolvedIs
  <1>4. ASSUME NEW i \in 1..n, i - 1 \in D
        PROVE  i \in D
    <2>1. i \in 0..n
      BY <1>1
    <2>2. At(use, i) \in Entities
      BY <1>1, <2>1
    <2> DEFINE docs == db.docs
               x == At(use, i)
    <2>3. docs[x].type = "redirect" /\ docs[x].to = At(use, i - 1)
      BY <1>1
    <2>4. Resolved(docs, x) = Resolved(docs, docs[x].to)
      BY <1>2, <2>2, <2>3, ResolvedIs
    <2> QED
      BY <1>4, <2>1, <2>3, <2>4
  <1>5. n \in 0..n /\ n \in D
    <2>1. \A i \in 1..n : i - 1 \in D => i \in D
      BY <1>4
    <2>2. n \in 0..n
      BY <1>1
    <2> HIDE DEF D
    <2> QED
      BY <1>1, <1>3, <2>1, <2>2, Stepwise
  <1> QED
    BY <1>1, <1>5

\* Through any chain of merges and of reverted merges, items and elements are on what their
\* entity has become, when the listeners have run and no reversal failed half way.
THEOREM UsesAreOnTheirEntity == CatalogueSpec => []UsesFollowTheirEntity
  <1> DEFINE Inv == CatalogueGood /\ UsesInv
  <1>1. CatalogueInit => Inv
    BY CatalogueGoodFirst
  <1>2. Inv /\ [CatalogueNext]_catalogueVars => Inv'
    BY CatalogueGoodKept, UsesInvKept
  <1>3. Inv => UsesFollowTheirEntity
    <2> SUFFICES ASSUME Inv, radio = {}, ~db.halfway, NEW u \in Uses
                 PROVE  db.uses[u].uri = Resolved(db.docs, db.uses[u].origin)
      BY DEF UsesFollowTheirEntity
    <2>1. Good(db) /\ db.uses[u] \in UseSet /\ Follows(db.uses[u], db.docs, {})
      BY TypesOfTasks DEF CatalogueGood, UsesInv
    <2> QED
      BY <2>1, PathsResolve
  <1> QED
    BY <1>1, <1>2, <1>3, PTL DEF CatalogueSpec
-----------------------------------------------------------------------------
(* What a reversal finds in the patches *)

\* Nothing was put since but edits, recoveries, restorations and reversals.
Prolongs(p, q) ==
    /\ Len(p) <= Len(q)
    /\ \A i \in 1..Len(p) : q[i] = p[i]
    /\ \A i \in (Len(p) + 1)..Len(q) : \A d \in DOMAIN q[i] :
            q[i][d].kind \notin {"mergeFrom", "redirectClaims", "deletion"}

LEMMA ProlongsItself ==
    ASSUME NEW p \in Seq(Puts)
    PROVE  Prolongs(p, p)
  BY DEF Prolongs

LEMMA ProlongsTransitive ==
    ASSUME NEW p \in Seq(Puts), NEW q \in Seq(Puts), NEW r \in Seq(Puts), Prolongs(p, q), Prolongs(q, r)
    PROVE  Prolongs(p, r)
  <1>1. Len(p) \in Nat /\ Len(q) \in Nat /\ Len(r) \in Nat /\ Len(p) <= Len(q) /\ Len(q) <= Len(r)
    BY DEF Prolongs
  <1>2. \A i \in 1..Len(p) : r[i] = p[i]
    <2>1. \A i \in 1..Len(p) : i \in 1..Len(q)
      BY <1>1
    <2> QED
      BY <2>1 DEF Prolongs
  <1>3. ASSUME NEW i \in (Len(p) + 1)..Len(r), NEW d \in DOMAIN r[i]
        PROVE  r[i][d].kind \notin {"mergeFrom", "redirectClaims", "deletion"}
    <2>1. CASE i <= Len(q)
      <3>1. i \in 1..Len(q) /\ i \in (Len(p) + 1)..Len(q)
        BY <1>1, <2>1
      <3>2. r[i] = q[i]
        BY <3>1 DEF Prolongs
      <3> QED
        BY <3>1, <3>2 DEF Prolongs
    <2>2. CASE ~(i <= Len(q))
      <3>1. i \in (Len(q) + 1)..Len(r)
        BY <1>1, <2>2
      <3> QED
        BY <3>1 DEF Prolongs
    <2> QED
      BY <2>1, <2>2
  <1> QED
    BY <1>1, <1>2, <1>3 DEF Prolongs

LEMMA ProlongsBy ==
    ASSUME NEW p \in Seq(Puts), NEW puts \in Puts,
           \A d \in DOMAIN puts : puts[d].kind \notin {"mergeFrom", "redirectClaims", "deletion"},
           NEW q, q = Append(p, puts)
    PROVE  Prolongs(p, q)
  <1>1. /\ Len(p) \in Nat /\ Len(q) = Len(p) + 1
        /\ q[Len(p) + 1] = puts /\ \A i \in 1..Len(p) : q[i] = p[i]
    BY AppendIs
  <1>2. \A i \in (Len(p) + 1)..Len(q) : i = Len(p) + 1
    BY <1>1
  <1> QED
    BY <1>1, <1>2 DEF Prolongs

\* The entity was last removed with no claim, by a put that has its patch.
BareDeletion(p, e) ==
    \E k \in 1..Len(p) :
        /\ Has(p[k], e, "deletion") /\ p[k][e].deletedClaims = {} /\ <<k, e>> \notin folded
        /\ \A j \in 1..Len(p) : Has(p[j], e, "deletion") => j <= k

\* The last deletion of an entity is still the last one after such puts.
LEMMA BareDeletionProlonged ==
    ASSUME NEW p \in Seq(Puts), NEW q \in Seq(Puts), Prolongs(p, q), NEW e, BareDeletion(p, e)
    PROVE  BareDeletion(q, e)
  <1>1. PICK k \in 1..Len(p) :
            /\ Has(p[k], e, "deletion") /\ p[k][e].deletedClaims = {} /\ <<k, e>> \notin folded
            /\ \A j \in 1..Len(p) : Has(p[j], e, "deletion") => j <= k
    BY DEF BareDeletion
  <1>2. Len(p) \in Nat /\ Len(q) \in Nat /\ Len(p) <= Len(q)
    BY DEF Prolongs
  <1>3. k \in 1..Len(q) /\ q[k] = p[k]
    BY <1>2 DEF Prolongs
  <1>4. ASSUME NEW j \in 1..Len(q), Has(q[j], e, "deletion")
        PROVE  j <= k
    <2>1. j \in 1..Len(p)
      <3>1. ASSUME j \notin 1..Len(p) PROVE FALSE
        <4>1. j \in (Len(p) + 1)..Len(q)
          BY <1>2, <3>1
        <4> QED
          BY <1>4, <4>1 DEF Prolongs, Has
      <3> QED
        BY <3>1
    <2>2. q[j] = p[j]
      BY <2>1 DEF Prolongs
    <2> QED
      BY <1>1, <1>4, <2>1, <2>2
  <1> QED
    BY <1>1, <1>3, <1>4 DEF BareDeletion

\* The patches of a good state.
LEMMA PatchesOf ==
    ASSUME NEW s, Good(s)
    PROVE  /\ s.patches \in Seq(Puts) /\ Len(s.patches) \in Nat /\ DOMAIN s.patches = 1..Len(s.patches)
           /\ \A i \in 1..Len(s.patches) : GoodPuts(s.patches[i])
  <1>1. s.patches \in Seq(Puts)
    BY DEF Good, States
  <1> QED
    BY <1>1 DEF Good

-----------------------------------------------------------------------------
(* Removed authors come back *)

\* An author that was removed with a merge comes back without any claim to give back, hence without
\* failing.
LEMMA RecoverBare ==
    ASSUME NEW s, Good(s), s.ok, NEW e \in Entities, s.docs[e].type = "removed", e \notin Editions,
           BareDeletion(s.patches, e), NEW t, t = RecoverPlaceholder(s, e)
    PROVE  /\ Good(t) /\ t.ok
           /\ \A d \in Entities :
                /\ t.docs[d].refs = s.docs[d].refs
                /\ t.docs[d].type = IF d = e THEN "entity" ELSE s.docs[d].type
           /\ Prolongs(s.patches, t.patches)
  <1> DEFINE u == PutType(s, e, "entity", "recovery")
             k == LastDeletion(s, e)
             w == RecoverDeletedClaims(u, e, k)
             puts == Only(e, Mark("recovery"))
  <1>1. /\ s.patches \in Seq(Puts) /\ Len(s.patches) \in Nat /\ DOMAIN s.patches = 1..Len(s.patches)
    BY PatchesOf
  <1>2. /\ Good(u) /\ u.docs = EntityDocs(s, {e}) /\ u.patches = Append(s.patches, puts) /\ u.ok = s.ok
    <2> DEFINE kind == "recovery"
    <2>1. kind \in PatchKinds
      BY DEF PatchKinds
    <2>2. u = PutType(s, e, "entity", kind) /\ puts = Only(e, Mark(kind))
      OBVIOUS
    <2> HIDE DEF kind, u, puts
    <2> QED
      BY <2>1, <2>2, PutTypeGood
  <1>3. k \in DOMAIN s.patches /\ s.patches[k][e].deletedClaims = {}
    <2>1. PICK j \in 1..Len(s.patches) :
            /\ Has(s.patches[j], e, "deletion") /\ s.patches[j][e].deletedClaims = {} /\ <<j, e>> \notin folded
            /\ \A i \in 1..Len(s.patches) : Has(s.patches[i], e, "deletion") => i <= j
      BY DEF BareDeletion
    <2>4. j \in DeletionsOf(s, e)
      BY <1>1, <2>1 DEF DeletionsOf, Posted, Has
    <2>2. k \in DOMAIN s.patches /\ Has(s.patches[k], e, "deletion") /\ j <= k
      BY <2>4, DeletionIs
    <2> HIDE DEF k
    <2>3. j = k
      <3>1. j <= k /\ k <= j
        BY <1>1, <2>1, <2>2
      <3> QED
        BY <1>1, <2>2, <3>1
    <2> QED
      BY <2>1, <2>2, <2>3
  <1>4. puts \in Puts /\ \A d \in DOMAIN puts : puts[d].kind = "recovery"
    <2> DEFINE kind == "recovery"
    <2>1. kind \in PatchKinds
      BY DEF PatchKinds
    <2>2. puts = Only(e, Mark(kind))
      OBVIOUS
    <2> HIDE DEF kind, puts
    <2>3. GoodPuts(puts) /\ DOMAIN puts = {e} /\ puts[e].kind = kind
      BY <2>1, <2>2, Marks
    <2> QED
      BY <2>3 DEF GoodPuts, kind
  <1>5. t = IF w.ok THEN Emit(w, "entity:recover", {e}) ELSE w
    <2>1. CanPut(s, e, Mark("recovery"))
      BY DEF CanPut
    <2> QED
      BY <2>1, RecoverPlaceholderIs
  <1> HIDE DEF u, k, puts
  <1>6. u.patches[k] = s.patches[k]
    BY <1>1, <1>2, <1>3, <1>4, AppendIs
  <1>7. w = u
    <2>1. Subjects(u, e, k) = {}
      BY <1>3, <1>6 DEF Subjects
    <2>2. k # 0
      BY <1>1, <1>3
    <2>3. w = PutAll(u, RecoveredPuts({}, e))
      BY <2>1, <2>2, RecoverDeletedClaimsIs
    <2>4. DOMAIN RecoveredPuts({}, e) = {}
      BY DEF RecoveredPuts
    <2>5. u \in States
      BY <1>2 DEF Good
    <2> QED
      BY <2>3, <2>4, <2>5, PutAllIs
  <1> HIDE DEF w
  <1>8. /\ Good(t) /\ t.docs = u.docs /\ t.patches = u.patches /\ t.ok = u.ok
    <2> DEFINE kind == "entity:recover"
               es == {e}
    <2>1. t = Emit(u, kind, es)
      BY <1>2, <1>5, <1>7
    <2>2. \A x \in es : u.docs[x].type # "redirect"
      BY <1>2, GoodDocs DEF EntityDocs, Documents
    <2>3. kind \in {"entity:merge", "entity:remove"} \cup Recoveries /\ es \in SUBSET Entities
      BY DEF Recoveries
    <2>4. Good(u)
      BY <1>2
    <2> HIDE DEF kind
    <2>5. /\ Good(Emit(u, kind, es)) /\ Emit(u, kind, es).docs = u.docs
          /\ Emit(u, kind, es).patches = u.patches /\ Emit(u, kind, es).ok = u.ok
      BY <2>2, <2>3, <2>4, EmitGood
    <2> QED
      BY <2>1, <2>5
  <1>9. Prolongs(s.patches, t.patches)
    BY <1>1, <1>2, <1>4, <1>8, ProlongsBy
  <1>10. \A d \in Entities :
                /\ t.docs[d].refs = s.docs[d].refs
                /\ t.docs[d].type = IF d = e THEN "entity" ELSE s.docs[d].type
    BY <1>2, <1>8, GoodDocs DEF EntityDocs, Documents
  <1> QED
    BY <1>2, <1>8, <1>9, <1>10

\* After i of the entities es were recovered.
Recovered(s, x, es, i) ==
    /\ Good(x) /\ x.ok /\ Prolongs(s.patches, x.patches)
    /\ \A d \in Entities :
        /\ x.docs[d].refs = s.docs[d].refs
        /\ x.docs[d].type = IF \E j \in 1..i : es[j] = d THEN "entity" ELSE s.docs[d].type

Bare(s, isolated) ==
    /\ Good(s) /\ s.ok /\ isolated \in SUBSET Entities /\ isolated \cap Editions = {}
    /\ \A e \in isolated : s.docs[e].type = "removed" /\ BareDeletion(s.patches, e)

\* All of them come back, in turn.
LEMMA RecoverIsolated ==
    ASSUME NEW s, NEW isolated, Bare(s, isolated), NEW t, t = RecoverPlaceholders(s, SetToSeq(isolated))
    PROVE  /\ Good(t) /\ t.ok /\ Prolongs(s.patches, t.patches)
           /\ \A d \in Entities :
                /\ t.docs[d].refs = s.docs[d].refs
                /\ t.docs[d].type = IF d \in isolated THEN "entity" ELSE s.docs[d].type
  <1> DEFINE es == SetToSeq(isolated)
             n == Len(es)
  <1>9. /\ Good(s) /\ s.ok /\ isolated \in SUBSET Entities /\ isolated \cap Editions = {}
        /\ \A e \in isolated : s.docs[e].type = "removed" /\ BareDeletion(s.patches, e)
    BY DEF Bare
  <1>1. /\ es \in Seq(Entities) /\ n \in Nat
        /\ \A i \in 1..n : es[i] \in isolated /\ es[i] \in Entities
        /\ \A i, j \in 1..n : es[i] = es[j] => i = j
        /\ \A e \in isolated : \E i \in 1..n : es[i] = e
    BY <1>9, SequenceOfSet
  <1> HIDE DEF es
  <1>2. PICK after : IsRecovery(after, s, es) /\ t = after[n]
    BY <1>1, <1>9, RecoverPlaceholdersRuns DEF es
  <1>3. after[0] = s /\ \A i \in 1..n : after[i] = RecoverPlaceholder(after[i - 1], es[i])
    BY <1>2 DEF IsRecovery
  <1> HIDE DEF n
  <1> DEFINE D == {i \in 0..n : Recovered(s, after[i], es, i)}
  <1>4. 0 \in D
    <2>1. Prolongs(s.patches, s.patches)
      BY <1>9, PatchesOf, ProlongsItself
    <2>2. 0 \in 0..n /\ ~\E j \in 1..0 : TRUE
      BY <1>1
    <2> QED
      BY <1>3, <1>9, <2>1, <2>2 DEF Recovered
  <1>5. ASSUME NEW i \in 1..n, i - 1 \in D
        PROVE  i \in D
    <2> DEFINE x == after[i - 1]
               y == after[i]
    <2>1. /\ i \in 0..n /\ i \in Nat /\ Good(x) /\ x.ok /\ Prolongs(s.patches, x.patches)
          /\ \A d \in Entities :
                /\ x.docs[d].refs = s.docs[d].refs
                /\ x.docs[d].type = IF \E j \in 1..(i - 1) : es[j] = d THEN "entity" ELSE s.docs[d].type
      BY <1>1, <1>5 DEF Recovered
    <2>2. y = RecoverPlaceholder(x, es[i])
      BY <1>3
    <2> HIDE DEF x, y
    <2>3. es[i] \in Entities /\ es[i] \in isolated /\ es[i] \notin Editions
      BY <1>1, <1>9
    <2>4. x.docs[es[i]].type = "removed"
      <3>1. \A j \in 1..(i - 1) : j \in 1..n /\ j # i
        BY <1>1
      <3>2. ~\E j \in 1..(i - 1) : es[j] = es[i]
        BY <1>1, <3>1
      <3> QED
        BY <1>9, <2>1, <2>3, <3>2
    <2>5. BareDeletion(x.patches, es[i])
      BY <1>9, <2>1, <2>3, PatchesOf, BareDeletionProlonged
    <2>6. /\ Good(y) /\ y.ok /\ Prolongs(x.patches, y.patches)
          /\ \A d \in Entities :
                /\ y.docs[d].refs = x.docs[d].refs
                /\ y.docs[d].type = IF d = es[i] THEN "entity" ELSE x.docs[d].type
      BY <2>1, <2>2, <2>3, <2>4, <2>5, RecoverBare
    <2>7. Prolongs(s.patches, y.patches)
      BY <1>9, <2>1, <2>6, PatchesOf, ProlongsTransitive
    <2>8. \A d \in Entities : (\E j \in 1..i : es[j] = d) <=> (d = es[i] \/ \E j \in 1..(i - 1) : es[j] = d)
      <3>1. \A j : j \in 1..i <=> j = i \/ j \in 1..(i - 1)
        BY <2>1, <1>1
      <3> QED
        BY <3>1
    <2>9. Recovered(s, y, es, i)
      BY <2>1, <2>6, <2>7, <2>8 DEF Recovered
    <2> QED
      BY <2>1, <2>9 DEF y
  <1>6. n \in D
    <2>1. \A i \in 1..n : i - 1 \in D => i \in D
      BY <1>5
    <2>2. n \in 0..n
      BY <1>1
    <2> HIDE DEF D
    <2> QED
      BY <1>1, <1>4, <2>1, <2>2, Stepwise
  <1>7. Recovered(s, t, es, n)
    BY <1>2, <1>6 DEF n
  <1>8. \A d \in Entities : (\E j \in 1..n : es[j] = d) <=> d \in isolated
    BY <1>1
  <1> QED
    BY <1>7, <1>8 DEF Recovered
-----------------------------------------------------------------------------
(* Claims come back *)

\* The reversal of the claims that the target was given.
LEMMA RevertGiven ==
    ASSUME NEW s0, NEW from, NEW to, NEW given, Mergeable(s0, from, to, given),
           NEW s, Good(s), s.ok, s.docs[to].type = "entity",
           \A e \in Entities : s.docs[to].refs[e] = s0.docs[to].refs[e] + (IF e \in given THEN 1 ELSE 0),
           \A i \in MergesOf(s, from, to) : given # {} /\ s.patches[i] = Only(to, GivenPatch(from, given)),
           given # {} => MergesOf(s, from, to) # {},
           NEW t, t = RevertMergePatch(s, from, to)
    PROVE  /\ Good(t) /\ t.ok /\ Prolongs(s.patches, t.patches)
           /\ \A d \in Entities : t.docs[d].type = s.docs[d].type
           /\ \A d \in Entities : d # to => t.docs[d].refs = s.docs[d].refs
           /\ \A e \in Entities : t.docs[to].refs[e] = s0.docs[to].refs[e]
  <1>1. /\ Good(s0) /\ from \in Entities /\ to \in Entities /\ s0.docs[to].type = "entity"
        /\ s0.docs[to].refs \in Refs /\ s.docs[to].refs \in Refs /\ \A e \in Entities : s0.docs[to].refs[e] \in Nat
        /\ GoodDoc(to, s0.docs[to])
    BY GoodDocs DEF Mergeable, IsEntity, Refs
  <1>2. CASE MergesOf(s, from, to) = {}
    <2>1. t = s
      BY <1>1, <1>2, RevertMergePatchIs
    <2>2. \A e \in Entities : e \notin given
      BY <1>2
    <2> QED
      BY <1>1, <2>1, <2>2, PatchesOf, ProlongsItself
  <1>3. CASE MergesOf(s, from, to) # {}
    <2> DEFINE patch == GivenPatch(from, given)
               back == Reverting(patch)
               refs == s.docs[to].refs
               puts == Only(to, back)
    <2>1. /\ patch \in Patches /\ ValidPatch(to, patch)
          /\ \A e \in Entities : patch.removed[e] = 0
          /\ \A e \in Entities : patch.added[e] = IF e \in given THEN 1 ELSE 0
      BY GivenPatchIs
    <2> HIDE DEF patch
    <2>2. PICK first \in MergesOf(s, from, to) :
            t = IF CanRevert(s, to, s.patches[first][to])
                THEN PutAll(s, Only(to, Reverting(s.patches[first][to]))) ELSE Fail(s)
      BY <1>1, <1>3, RevertMergePatchIs
    <2>3. s.patches[first][to] = patch
      <3>1. s.patches[first] = Only(to, patch)
        BY DEF patch
      <3>2. Only(to, patch)[to] = patch
        BY <1>1, <2>1, PutsOfOne
      <3> QED
        BY <3>1, <3>2
    <2>4. t = IF CanRevert(s, to, patch) THEN PutAll(s, puts) ELSE Fail(s)
      BY <2>2, <2>3
    <2>5. /\ back \in Patches /\ ValidPatch(to, back) /\ back.kind = "revert"
          /\ back.removed = patch.added /\ back.added = patch.removed
      BY <1>1, <2>1, RevertingIs
    <2> HIDE DEF back
    <2>6. \A e \in Entities : back.removed[e] <= refs[e]
      BY <1>1, <2>1, <2>5
    <2>7. /\ Patched(refs, back) \in Refs
          /\ \A e \in Entities : Patched(refs, back)[e] = s0.docs[to].refs[e]
      <3>1. \A e \in Entities : Patched(refs, back)[e] = refs[e] - back.removed[e] + back.added[e]
        BY <1>1, <2>5, <2>6, PatchedIs
      <3> QED
        BY <1>1, <2>1, <2>5, <2>6, <3>1, PatchedIs
    <2> HIDE DEF refs
    <2>8. to \in Editions => Values(Patched(refs, back)) # {}
      <3>1. \A e \in Entities : e \in Values(Patched(refs, back)) <=> e \in Values(s0.docs[to].refs)
        BY <1>1, <2>7, ValuesAre
      <3>2. to \in Editions => \E e \in Entities : e \in Values(s0.docs[to].refs)
        BY <1>1 DEF GoodDoc, Values
      <3> QED
        BY <3>1, <3>2
    <2>9. CanRevert(s, to, patch)
      BY <2>1, <2>5, <2>6, <2>8 DEF CanRevert, CanPut, back, refs
    <2>10. Puttable(s, puts) /\ DOMAIN puts = {to} /\ puts[to] = back /\ puts \in Puts
      <3>1. DOMAIN puts = {to} /\ puts[to] = back /\ puts \in Puts /\ GoodPuts(puts)
        BY <1>1, <2>5, PutsOfOne
      <3> HIDE DEF puts
      <3> QED
        BY <2>6, <2>8, <3>1 DEF Puttable, refs
    <2> HIDE DEF puts
    <2>11. t = PutAll(s, puts)
      BY <2>4, <2>9
    <2>12. s \in States /\ s.patches \in Seq(Puts)
      BY PatchesOf DEF Good
    <2>13. t.patches = Append(s.patches, puts) /\ t.ok = s.ok /\ Good(t)
      <3>1. DOMAIN puts # {}
        BY <2>10
      <3>2. t.patches = Append(s.patches, puts) /\ t.ok = s.ok
        <4>1. PutAll(s, puts).patches = Append(s.patches, puts) /\ PutAll(s, puts).ok = s.ok
          BY <2>12, <3>1, PutAllIs
        <4> QED
          BY <2>11, <4>1
      <3> QED
        BY <2>10, <2>11, <3>2, PutAllGood
    <2>14. Prolongs(s.patches, t.patches)
      BY <2>5, <2>10, <2>12, <2>13, ProlongsBy
    <2>15. \A d \in Entities :
                /\ t.docs[d].type = s.docs[d].type
                /\ d # to => t.docs[d].refs = s.docs[d].refs
                /\ d = to => t.docs[d].refs = Patched(refs, back)
      BY <2>10, <2>11, PutAllDocs DEF refs
    <2> QED
      BY <1>1, <2>7, <2>13, <2>14, <2>15
  <1> QED
    BY <1>2, <1>3

\* The reversal of the redirections of claims that one merge did.
LEMMA RevertRedirectedOnce ==
    ASSUME NEW s0, NEW from, NEW to, NEW given, Mergeable(s0, from, to, given),
           NEW s, Good(s), s.ok,
           \A d \in ClaimedBy(s0, from) :
                /\ s.docs[d].type = "entity"
                /\ s.docs[d].refs = Patched(s0.docs[d].refs, Redirected(s0.docs[d].refs, from, to)),
           NEW t, t = RevertRedirected(s, RedirectedPuts(s0, from, to), from)
    PROVE  /\ Good(t) /\ t.ok
           /\ \A d \in Entities : t.docs[d].type = s.docs[d].type
           /\ \A d \in Entities \ ClaimedBy(s0, from) : t.docs[d].refs = s.docs[d].refs
           /\ \A d \in ClaimedBy(s0, from) : t.docs[d].refs = s0.docs[d].refs
  <1> DEFINE S == ClaimedBy(s0, from)
             puts == RedirectedPuts(s0, from, to)
             back == RevertedPuts(s, puts, from)
  <1>1. /\ Good(s0) /\ from \in Entities /\ to \in Entities /\ from # to /\ SameType(from, to)
    BY DEF Mergeable
  <1>2. Puttable(s0, puts) /\ GoodPuts(puts) /\ DOMAIN puts = S
    BY <1>1, RedirectClaimsIs DEF Puttable
  <1>3. \A d \in S : puts[d] = Redirected(s0.docs[d].refs, from, to)
    BY DEF RedirectedPuts
  <1>4. ASSUME NEW d \in S
        PROVE  /\ HasFrom(puts, d, "redirectClaims", from) /\ CanRevert(s, d, puts[d])
               /\ Patched(s.docs[d].refs, Reverting(puts[d])) = s0.docs[d].refs
    <2> DEFINE refs0 == s0.docs[d].refs
               patch == Redirected(refs0, from, to)
               refs == Patched(refs0, patch)
               undone == Reverting(patch)
    <2>1. /\ d \in Entities /\ s0.docs[d].type = "entity" /\ from \in ValidValues(d) /\ to \in ValidValues(d)
          /\ Valid(d, refs0) /\ refs0 \in Refs /\ \A e \in Entities : refs0[e] \in Nat
          /\ refs0[from] # 0 /\ GoodDoc(d, s0.docs[d])
      BY <1>1, ClaimedAre, ValidValuesAre, GoodDocs DEF Refs
    <2>2. /\ patch \in Patches /\ ValidPatch(d, patch)
          /\ patch.kind = "redirectClaims" /\ patch.from = from
          /\ \A e \in Entities : patch.removed[e] = IF e = from THEN refs0[e] ELSE 0
          /\ \A e \in Entities : patch.added[e] = IF e = to /\ refs0[to] = 0 THEN 1 ELSE 0
          /\ \A e \in Entities : refs[e] = IF e = from THEN 0 ELSE IF e = to /\ refs0[to] = 0 THEN 1 ELSE refs0[e]
      BY <1>1, <2>1, RedirectedIs
    <2>3. s.docs[d].refs = refs /\ refs \in Refs /\ s.docs[d].type = "entity"
      BY <2>1, GoodDocs
    <2> HIDE DEF patch, refs
    <2>4. /\ undone \in Patches /\ undone.removed = patch.added /\ undone.added = patch.removed
      BY <2>1, <2>2, RevertingIs
    <2>5. \A e \in Entities : undone.removed[e] <= refs[e]
      BY <1>1, <2>1, <2>2, <2>4
    <2>6. /\ Patched(refs, undone) \in Refs
          /\ \A e \in Entities : Patched(refs, undone)[e] = refs[e] - undone.removed[e] + undone.added[e]
      BY <2>3, <2>4, <2>5, PatchedIs
    <2>7. \A e \in Entities : Patched(refs, undone)[e] = refs0[e]
      BY <1>1, <2>1, <2>2, <2>4, <2>6
    <2> HIDE DEF refs0, undone
    <2>8. Patched(refs, undone) = refs0
      BY <2>1, <2>6, <2>7 DEF Refs
    <2>9. puts[d] = patch
      BY <1>3 DEF patch, refs0
    <2>10. d \in Editions => Values(refs0) # {}
      BY <2>1 DEF GoodDoc, refs0
    <2>11. CanRevert(s, d, patch)
      BY <2>3, <2>4, <2>5, <2>8, <2>10 DEF CanRevert, CanPut, undone
    <2>12. HasFrom(puts, d, "redirectClaims", from)
      BY <1>2, <2>2, <2>9 DEF HasFrom, Has
    <2> QED
      BY <2>3, <2>8, <2>9, <2>11, <2>12 DEF undone, refs0
  <1>5. RedirectedIn(puts, from) = S /\ RevertedIn(s, puts, from) = S
    BY <1>2, <1>4 DEF RedirectedIn, RevertedIn
  <1> HIDE DEF puts
  <1>6. /\ Puttable(s, back) /\ DOMAIN back = S
        /\ \A d \in S : back[d] = Reverting(puts[d])
    BY <1>2, <1>5, RevertRedirectedIs DEF RevertedPuts
  <1>7. t = RevertRedirected(s, puts, from)
    BY DEF puts
  <1> HIDE DEF back
  <1>8. CASE S = {}
    <2>1. t = s
      BY <1>2, <1>5, <1>7, <1>8, RevertRedirectedIs
    <2> QED
      BY <1>8, <2>1
  <1>9. CASE S # {}
    <2> DEFINE u == PutAll(s, back)
    <2>1. t = [u EXCEPT !.ok = @ /\ RevertedIn(s, puts, from) = RedirectedIn(puts, from)]
      BY <1>2, <1>5, <1>7, <1>9, RevertRedirectedIs DEF back
    <2>2. Good(u) /\ u.ok
      BY <1>6, PutAllGood, PutAllIs DEF Good
    <2>3. \A d \in Entities :
                /\ u.docs[d].type = s.docs[d].type
                /\ d \notin S => u.docs[d].refs = s.docs[d].refs
                /\ d \in S => u.docs[d].refs = Patched(s.docs[d].refs, back[d])
      BY <1>6, PutAllDocs
    <2> HIDE DEF u
    <2>4. t = [u EXCEPT !.ok = TRUE]
      BY <1>5, <2>1, <2>2
    <2>5. Good(t) /\ t.ok /\ t.docs = u.docs
      BY <2>2, <2>4, WithOk
    <2>6. S \subseteq Entities
      BY <1>1, ClaimedAre
    <2> HIDE DEF S
    <2>7. \A d \in S : t.docs[d].refs = s0.docs[d].refs
      BY <1>4, <1>6, <2>3, <2>5, <2>6
    <2>8. /\ \A d \in Entities : t.docs[d].type = s.docs[d].type
          /\ \A d \in Entities \ S : t.docs[d].refs = s.docs[d].refs
      BY <2>3, <2>5
    <2> QED
      BY <2>5, <2>7, <2>8 DEF S
  <1> QED
    BY <1>8, <1>9

\* The state has what one merge redirected, and no other patch that redirects claims.
RedirectedAt(s0, s, k, from, to) ==
    /\ Good(s) /\ s.ok /\ k \in 0..Len(s.patches)
    /\ \A d \in ClaimedBy(s0, from) :
        /\ s.docs[d].type = "entity"
        /\ s.docs[d].refs = Patched(s0.docs[d].refs, Redirected(s0.docs[d].refs, from, to))
    /\ \A i \in 1..Len(s.patches) : i # k => RedirectedIn(PostedIn(s, i), from) = {}
    /\ k = 0 => ClaimedBy(s0, from) = {}
    /\ k # 0 => PostedIn(s, k) = RedirectedPuts(s0, from, to)

\* Reverting all the redirections finds those of this merge only.
LEMMA RevertAllRedirected ==
    ASSUME NEW s0, NEW from, NEW to, NEW given, Mergeable(s0, from, to, given),
           NEW s, NEW k, RedirectedAt(s0, s, k, from, to), NEW t, t = RevertClaimsRedirections(s, from)
    PROVE  /\ Good(t) /\ t.ok
           /\ \A d \in Entities : t.docs[d].type = s.docs[d].type
           /\ \A d \in Entities \ ClaimedBy(s0, from) : t.docs[d].refs = s.docs[d].refs
           /\ \A d \in ClaimedBy(s0, from) : t.docs[d].refs = s0.docs[d].refs
  <1> DEFINE n == Len(s.patches)
             z == RevertRedirected(s, RedirectedPuts(s0, from, to), from)
  <1>11. /\ Good(s) /\ s.ok /\ k \in 0..Len(s.patches)
         /\ \A d \in ClaimedBy(s0, from) :
                /\ s.docs[d].type = "entity"
                /\ s.docs[d].refs = Patched(s0.docs[d].refs, Redirected(s0.docs[d].refs, from, to))
         /\ \A i \in 1..Len(s.patches) : i # k => RedirectedIn(PostedIn(s, i), from) = {}
         /\ k = 0 => ClaimedBy(s0, from) = {}
         /\ k # 0 => PostedIn(s, k) = RedirectedPuts(s0, from, to)
    BY DEF RedirectedAt
  <1>1. n \in Nat /\ \A i \in 1..n : GoodPuts(PostedIn(s, i))
    BY <1>11, PatchesOf, PostedAre
  <1> HIDE DEF n
  <1>2. PICK after : IsReversal(after, s, from) /\ t = after[n]
    BY <1>11, RevertClaimsRedirectionsRuns DEF n
  <1>3. after[0] = s /\ \A i \in 1..n : after[i] = RevertRedirected(after[i - 1], PostedIn(s, i), from)
    BY <1>2 DEF IsReversal, n
  <1>4. /\ Good(z) /\ z.ok
        /\ \A d \in Entities : z.docs[d].type = s.docs[d].type
        /\ \A d \in Entities \ ClaimedBy(s0, from) : z.docs[d].refs = s.docs[d].refs
        /\ \A d \in ClaimedBy(s0, from) : z.docs[d].refs = s0.docs[d].refs
    BY <1>11, RevertRedirectedOnce
  <1> HIDE DEF z
  <1>5. k \in 0..n /\ \A i \in 1..n : i # k => RedirectedIn(PostedIn(s, i), from) = {}
    BY <1>11 DEF n
  <1> DEFINE D == {i \in 0..n : after[i] = IF k # 0 /\ k <= i THEN z ELSE s}
  <1>6. 0 \in D
    BY <1>1, <1>3, <1>5
  <1>7. ASSUME NEW i \in 1..n, i - 1 \in D
        PROVE  i \in D
    <2>1. i \in 0..n /\ after[i] = RevertRedirected(after[i - 1], PostedIn(s, i), from)
      BY <1>1, <1>3
    <2>2. CASE i = k
      <3>1. after[i - 1] = s /\ k # 0
        BY <1>1, <1>5, <1>7, <2>2
      <3>2. after[i] = z
        BY <1>11, <2>1, <2>2, <3>1 DEF z
      <3>3. k <= i
        BY <1>1, <2>2
      <3> QED
        BY <2>1, <3>1, <3>2, <3>3
    <2>3. CASE i # k
      <3>1. RedirectedIn(PostedIn(s, i), from) = {} /\ GoodPuts(PostedIn(s, i))
        BY <1>1, <1>5, <2>3
      <3>2. after[i - 1] = s \/ after[i - 1] = z
        BY <1>7
      <3>3. after[i] = after[i - 1]
        BY <1>4, <1>11, <2>1, <3>1, <3>2, RevertRedirectedIs
      <3>4. k <= i <=> k <= i - 1
        BY <1>1, <1>5, <2>3
      <3> QED
        BY <1>7, <2>1, <3>3, <3>4
    <2> QED
      BY <2>2, <2>3
  <1>8. n \in D
    <2>1. \A i \in 1..n : i - 1 \in D => i \in D
      BY <1>7
    <2>2. n \in 0..n
      BY <1>1
    <2> HIDE DEF D
    <2> QED
      BY <1>1, <1>6, <2>1, <2>2, Stepwise
  <1>9. t = IF k # 0 THEN z ELSE s
    BY <1>1, <1>2, <1>5, <1>8
  <1>10. ClaimedBy(s0, from) \subseteq Entities
    BY DEF ClaimedBy
  <1> QED
    BY <1>4, <1>9, <1>10, <1>11
-----------------------------------------------------------------------------
(* A merge, reverted *)

\* What the four kinds of puts of a merge are.
LEMMA GivenPuts ==
    ASSUME NEW from, NEW to, NEW given, NEW puts, puts = Only(to, GivenPatch(from, given))
    PROVE  DOMAIN puts = {to} /\ puts[to].kind = "mergeFrom" /\ HasFrom(puts, to, "mergeFrom", from)
  BY DEF Only, GivenPatch, ClaimsPatch, Patch, HasFrom, Has

LEMMA RedirectionPuts ==
    ASSUME NEW from, NEW puts, puts = Only(from, Mark("redirection"))
    PROVE  DOMAIN puts = {from} /\ puts[from].kind = "redirection"
  BY DEF Only, Mark, Patch

LEMMA RedirectedClaimsPuts ==
    ASSUME NEW s, NEW from, NEW to, NEW puts, puts = RedirectedPuts(s, from, to)
    PROVE  DOMAIN puts = ClaimedBy(s, from) /\ \A d \in ClaimedBy(s, from) : puts[d].kind = "redirectClaims"
  BY DEF RedirectedPuts, Redirected, ClaimsPatch, Patch

LEMMA BareDeletions ==
    ASSUME NEW isolated, NEW puts, puts = Deletions(isolated, {})
    PROVE  DOMAIN puts = isolated /\ \A d \in isolated : puts[d].kind = "deletion" /\ puts[d].deletedClaims = {}
  BY DEF Deletions, Patch

\* The patches of a first merge, and what was put since.
MergedPatches(s0, s, p, from, to, given, isolated) ==
    /\ Mergeable(s0, from, to, given) /\ First(s0, "redirectClaims", from) /\ First(s0, "mergeFrom", from)
    /\ MergePatches(s0, s, from, to, given, isolated) /\ Good(s) /\ isolated \in SUBSET Entities
    /\ p \in Seq(Puts) /\ Prolongs(s.patches, p)

\* What was put since has its patches.
Unfolded(s0, s, without) ==
    \A i \in DOMAIN s.patches : i > Len(s0.patches) => \A d \in DOMAIN s.patches[i] : <<i, d>> \notin without

\* Where a patch of the merge is.
LEMMA MergedPatchesAre ==
    ASSUME NEW s0, NEW s, NEW p, NEW from, NEW to, NEW given, NEW isolated,
           MergedPatches(s0, s, p, from, to, given, isolated), NEW i \in 1..Len(p), NEW d \in DOMAIN p[i]
    PROVE  /\ HasFrom(p[i], d, "mergeFrom", from) =>
                i = Len(s0.patches) + 1 /\ given # {} /\ d = to /\ p[i] = Only(to, GivenPatch(from, given))
           /\ HasFrom(p[i], d, "redirectClaims", from) =>
                i = Len(s.patches) /\ ClaimedBy(s0, from) # {} /\ p[i] = RedirectedPuts(s0, from, to)
           /\ p[i][d].kind = "deletion" /\ i > Len(s0.patches) => p[i][d].deletedClaims = {}
  <1> DEFINE n == Len(s0.patches)
             m == Len(s.patches)
  <1>1. /\ n \in Nat /\ m \in Nat /\ Len(p) \in Nat /\ m <= Len(p) /\ n <= m
        /\ DOMAIN s0.patches = 1..n
    BY PatchesOf DEF MergedPatches, Mergeable, MergePatches, Prolongs
  <1> HIDE DEF n, m
  <1>2. CASE i > m
    <2>1. i \in (m + 1)..Len(p)
      BY <1>1, <1>2
    <2> QED
      BY <2>1 DEF MergedPatches, Prolongs, m, HasFrom, Has
  <1>3. CASE i <= n
    <2>1. i \in 1..n /\ i \in 1..m
      BY <1>1, <1>3
    <2>2. p[i] = s.patches[i] /\ s.patches[i] = s0.patches[i]
      BY <2>1 DEF MergedPatches, Prolongs, MergePatches, n, m
    <2>3. ~HasFrom(p[i], d, "mergeFrom", from) /\ ~HasFrom(p[i], d, "redirectClaims", from)
      BY <1>1, <2>1, <2>2 DEF MergedPatches, First
    <2> QED
      BY <1>1, <1>3, <2>3 DEF n
  <1>4. CASE i <= m /\ ~(i <= n)
    <2>1. i \in 1..m /\ i \in (n + 1)..m
      BY <1>1, <1>4
    <2>2. p[i] = s.patches[i]
      BY <2>1 DEF MergedPatches, Prolongs, m
    <2>3. \/ given # {} /\ i = n + 1 /\ p[i] = Only(to, GivenPatch(from, given))
          \/ isolated # {} /\ p[i] = Deletions(isolated, {})
          \/ p[i] = Only(from, Mark("redirection"))
          \/ ClaimedBy(s0, from) # {} /\ i = m /\ p[i] = RedirectedPuts(s0, from, to)
      BY <2>1, <2>2 DEF MergedPatches, MergePatches, n, m
    <2>4. Mergeable(s0, from, to, given)
      BY DEF MergedPatches
    <2>5. CASE given # {} /\ i = n + 1 /\ p[i] = Only(to, GivenPatch(from, given))
      <3>1. d = to /\ p[i][d].kind = "mergeFrom"
        <4> DEFINE puts == p[i]
        <4>1. puts = Only(to, GivenPatch(from, given)) /\ d \in DOMAIN puts
          BY <2>5
        <4> HIDE DEF puts
        <4>2. DOMAIN puts = {to} /\ puts[to].kind = "mergeFrom"
          BY <4>1 DEF Only, GivenPatch, ClaimsPatch, Patch
        <4>3. d = to
          BY <4>1, <4>2
        <4> QED
          BY <4>2, <4>3 DEF puts
      <3> QED
        BY <2>5, <3>1 DEF n, HasFrom, Has
    <2>6. CASE p[i] = Deletions(isolated, {})
      <3>1. d \in isolated /\ p[i][d].kind = "deletion" /\ p[i][d].deletedClaims = {}
        BY <2>6, BareDeletions
      <3> QED
        BY <3>1 DEF HasFrom, Has
    <2>7. CASE p[i] = Only(from, Mark("redirection"))
      <3>1. d = from /\ p[i][d].kind = "redirection"
        <4> DEFINE puts == p[i]
        <4>1. puts = Only(from, Mark("redirection")) /\ d \in DOMAIN puts
          BY <2>7
        <4> HIDE DEF puts
        <4>2. DOMAIN puts = {from} /\ puts[from].kind = "redirection"
          BY <4>1, RedirectionPuts
        <4>3. d = from
          BY <4>1, <4>2
        <4> QED
          BY <4>2, <4>3 DEF puts
      <3> QED
        BY <3>1 DEF HasFrom, Has
    <2>8. CASE ClaimedBy(s0, from) # {} /\ i = m /\ p[i] = RedirectedPuts(s0, from, to)
      <3>1. p[i][d].kind = "redirectClaims"
        BY <2>8, RedirectedClaimsPuts
      <3> QED
        BY <2>8, <3>1 DEF m, HasFrom, Has
    <2> QED
      BY <2>3, <2>5, <2>6, <2>7, <2>8
  <1> QED
    BY <1>1, <1>2, <1>3, <1>4

\* The authors removed with the merge were removed with no claim, and not since.
LEMMA IsolatedAreBare ==
    ASSUME NEW s0, NEW s, NEW from, NEW to, NEW given, NEW isolated,
           MergedPatches(s0, s, s.patches, from, to, given, isolated), Unfolded(s0, s, folded), NEW e \in isolated
    PROVE  BareDeletion(s.patches, e)
  <1> DEFINE p == s.patches
             m == Len(p)
             K == {i \in 1..m : Has(p[i], e, "deletion")}
  <1>1. m \in Nat /\ Len(s0.patches) \in Nat
    BY PatchesOf DEF MergedPatches, Mergeable
  <1>2. PICK i \in (Len(s0.patches) + 1)..m : p[i] = Deletions(isolated, {})
    BY DEF MergedPatches, MergePatches
  <1>3. i \in K
    <2>1. Mergeable(s0, from, to, given) /\ i \in 1..m
      BY <1>1, <1>2 DEF MergedPatches
    <2> QED
      BY <1>2, <2>1, BareDeletions DEF Has
  <1>4. PICK k \in K : \A j \in K : j <= k
    <2>1. K \subseteq 0..m /\ K # {}
      BY <1>1, <1>3
    <2> HIDE DEF K
    <2> QED
      BY <1>1, <2>1, LastOfIndexes
  <1>5. k \in 1..m /\ Has(p[k], e, "deletion") /\ i <= k
    BY <1>3, <1>4
  <1>6. p[k][e].deletedClaims = {}
    <2>1. k > Len(s0.patches) /\ e \in DOMAIN p[k] /\ p[k][e].kind = "deletion"
      BY <1>1, <1>2, <1>5 DEF Has
    <2> QED
      BY <1>5, <2>1, MergedPatchesAre
  <1>7. \A j \in 1..m : Has(p[j], e, "deletion") => j <= k
    BY <1>4
  <1>8. <<k, e>> \notin folded
    <2>1. DOMAIN p = 1..m /\ k > Len(s0.patches) /\ e \in DOMAIN p[k]
      BY <1>1, <1>2, <1>5, PatchesOf DEF MergedPatches, Has
    <2> QED
      BY <1>5, <2>1 DEF Unfolded
  <1> QED
    BY <1>5, <1>6, <1>7, <1>8 DEF BareDeletion

\* The claims are those of the types and of the values.
LEMMA SameClaims ==
    ASSUME NEW s, Good(s), NEW t, Good(t), \A d \in Entities : t.docs[d].type = s.docs[d].type,
           \A d, e \in Entities : t.docs[d].refs[e] = s.docs[d].refs[e]
    PROVE  Claims(t) = Claims(s)
  <1>1. \A d \in Entities : t.docs[d].refs = s.docs[d].refs
    <2>1. ASSUME NEW d \in Entities PROVE t.docs[d].refs = s.docs[d].refs
      <3>1. t.docs[d].refs \in [Entities -> Nat] /\ s.docs[d].refs \in [Entities -> Nat]
        BY GoodDocs DEF Refs
      <3> QED
        BY <3>1
    <2> QED
      BY <2>1
  <1> QED
    BY <1>1 DEF Claims

\* The redirection is an entity again.
LEMMA RestoredProlongs ==
    ASSUME NEW s, Good(s), NEW from \in Entities, NEW p, p = Append(s.patches, Only(from, Mark("restoration")))
    PROVE  p \in Seq(Puts) /\ Prolongs(s.patches, p)
  <1> DEFINE puts == Only(from, Mark("restoration"))
             kind == "restoration"
  <1>1. kind \in PatchKinds /\ kind \notin {"mergeFrom", "redirectClaims", "deletion"}
    BY DEF PatchKinds
  <1>2. puts = Only(from, Mark(kind)) /\ p = Append(s.patches, puts)
    OBVIOUS
  <1> HIDE DEF kind, puts
  <1>3. DOMAIN puts = {from} /\ puts[from].kind = kind /\ GoodPuts(puts)
    BY <1>1, <1>2, Marks
  <1>4. puts \in Puts /\ s.patches \in Seq(Puts)
    BY <1>3, PatchesOf DEF GoodPuts
  <1>5. p \in Seq(Puts)
    BY <1>2, <1>4, AppendIs
  <1>6. \A d \in DOMAIN puts : puts[d].kind \notin {"mergeFrom", "redirectClaims", "deletion"}
    BY <1>1, <1>3
  <1> QED
    BY <1>2, <1>4, <1>5, <1>6, ProlongsBy

\* The last put of an entity that has its patch replaced the version to restore.
LEMMA LastPutIsBefore ==
    ASSUME NEW s0, Good(s0), NEW s, Good(s), NEW from \in Entities, s0.docs[from].type = "entity",
           Unfolded(s0, s, folded), LastPut(s, from, Len(s0.patches), Version(s0.docs[from]))
    PROVE  VersionsBefore(s, from) # {} /\ VersionBefore(s, from) = Version(s0.docs[from])
  <1>1. PICK i \in DOMAIN s.patches :
            /\ i > Len(s0.patches) /\ from \in DOMAIN s.patches[i] /\ s.before[i][from] = Version(s0.docs[from])
            /\ \A j \in DOMAIN s.patches : from \in DOMAIN s.patches[j] => j <= i
    BY DEF LastPut
  <1>2. <<i, from>> \notin folded
    BY <1>1 DEF Unfolded
  <1>3. i \in VersionsBefore(s, from)
    BY <1>1, <1>2 DEF VersionsBefore, Posted, Version
  <1> DEFINE last == LastOf(VersionsBefore(s, from))
  <1>4. last \in DOMAIN s.patches /\ from \in DOMAIN s.patches[last] /\ i <= last
    BY <1>3, VersionsAre DEF VersionsBefore, Posted
  <1>5. DOMAIN s.patches = 1..Len(s.patches) /\ Len(s.patches) \in Nat
    BY PatchesOf
  <1> HIDE DEF last
  <1>6. last = i
    <2>1. last <= i
      BY <1>1, <1>4
    <2> QED
      BY <1>1, <1>4, <1>5, <2>1
  <1> QED
    BY <1>1, <1>3, <1>6 DEF VersionBefore, last

\* A first merge that is reverted leaves every claim as it was.
LEMMA RevertedMergeRestores ==
    ASSUME NEW s0, NEW s, NEW from, NEW to, NEW given, NEW isolated,
           MergedPatches(s0, s, s.patches, from, to, given, isolated), Merged(s0, s, from, to, given, isolated),
           Unfolded(s0, s, folded), s.ok, NEW t, t = RevertMergeEntities(s, from)
    PROVE  t.ok /\ Claims(t) = Claims(s0)
  <1> DEFINE r == Restored(s, from)
             x == RecoverPlaceholders(r, s.docs[from].gone)
             y == IF x.ok THEN RevertMergePatch(x, from, s.docs[from].to) ELSE x
             z == IF y.ok THEN RevertClaimsRedirections(y, from) ELSE y
             S == ClaimedBy(s0, from)
  <1>1. /\ Mergeable(s0, from, to, given) /\ Good(s) /\ Good(s0)
        /\ from \in Entities /\ to \in Entities /\ from # to
        /\ s0.docs[from].type = "entity" /\ s0.docs[to].type = "entity"
    BY DEF MergedPatches, Mergeable, IsEntity
  <1>2. /\ isolated \in SUBSET Entities /\ from \notin isolated /\ to \notin isolated /\ isolated \cap Editions = {}
        /\ \A e \in isolated : s0.docs[e].type = "entity"
        /\ \A d \in Entities :
            s.docs[d].type = IF d = from THEN "redirect" ELSE IF d \in isolated THEN "removed" ELSE s0.docs[d].type
        /\ s.docs[from].to = to /\ s.docs[from].gone = SetToSeq(isolated)
        /\ \A e \in Entities : s.docs[to].refs[e] = s0.docs[to].refs[e] + (IF e \in given THEN 1 ELSE 0)
        /\ \A d \in S :
            /\ d # from /\ d # to /\ d \notin isolated
            /\ s.docs[d].refs = Patched(s0.docs[d].refs, Redirected(s0.docs[d].refs, from, to))
        /\ \A d \in Entities : d \notin S /\ d # to => s.docs[d].refs = s0.docs[d].refs
    BY <1>1 DEF Merged
  <1>3. S \subseteq Entities /\ \A d \in S : s0.docs[d].type = "entity"
    BY DEF ClaimedBy, IsEntity
  <1>20. VersionsBefore(s, from) # {} /\ VersionBefore(s, from) = Version(s0.docs[from])
    <2>1. LastPut(s, from, Len(s0.patches), Version(s0.docs[from]))
      BY DEF Merged
    <2> QED
      BY <1>1, <2>1, LastPutIsBefore
  <1>4. t = IF z.ok THEN Emit(z, "entity:revert:merge", {from}) ELSE [z EXCEPT !.halfway = TRUE]
    BY <1>20 DEF RevertMergeEntities, Restored, RestoredDoc, VersionBefore
  <1>5. /\ Good(r) /\ r.ok
        /\ \A d \in Entities :
            /\ r.docs[d].refs = s.docs[d].refs
            /\ r.docs[d].type = IF d = from THEN "entity" ELSE s.docs[d].type
        /\ r.patches = Append(s.patches, Only(from, Mark("restoration")))
    <2>1. s.docs[from].type = "redirect"
      BY <1>1, <1>2
    <2>4. r = Restored(s, from)
      OBVIOUS
    <2> HIDE DEF r, S
    <2>5. Good(s) /\ from \in Entities /\ VersionsBefore(s, from) # {}
      BY <1>1, <1>20
    <2>2. /\ Good(r) /\ r.ok = s.ok /\ \A d \in Entities : d # from => r.docs[d] = s.docs[d]
          /\ r.docs[from].refs = VersionBefore(s, from).refs /\ r.docs[from].type = VersionBefore(s, from).type
          /\ r.patches = Append(s.patches, Only(from, Mark("restoration")))
      <3>1. Good(r) /\ r.ok = s.ok
        BY <2>1, <2>4, <2>5, RestoredIs
      <3>2. r.patches = Append(s.patches, Only(from, Mark("restoration")))
        BY <2>1, <2>4, <2>5, RestoredIs
      <3>3. r.docs[from].refs = VersionBefore(s, from).refs /\ r.docs[from].type = VersionBefore(s, from).type
        BY <2>1, <2>4, <2>5, RestoredIs
      <3>4. \A d \in Entities : d # from => r.docs[d] = s.docs[d]
        BY <2>1, <2>4, <2>5, RestoredIs
      <3> QED
        BY <3>1, <3>2, <3>3, <3>4
    <2>3. VersionBefore(s, from).refs = s.docs[from].refs /\ VersionBefore(s, from).type = "entity"
      <3>1. from \notin S
        BY <1>2
      <3> QED
        BY <1>1, <1>2, <1>20, <3>1 DEF Version
    <2> QED
      BY <2>2, <2>3
  <1>6. Prolongs(s.patches, r.patches)
    BY <1>1, <1>5, RestoredProlongs
  <1>7. x = RecoverPlaceholders(r, SetToSeq(isolated))
    BY <1>2
  <1> HIDE DEF r, x, S
  <1>8. /\ Good(x) /\ x.ok /\ Prolongs(r.patches, x.patches)
        /\ \A d \in Entities :
            /\ x.docs[d].refs = r.docs[d].refs
            /\ x.docs[d].type = IF d \in isolated THEN "entity" ELSE r.docs[d].type
    <2>1. ASSUME NEW e \in isolated
          PROVE  r.docs[e].type = "removed" /\ BareDeletion(r.patches, e)
      <3>1. e \in Entities /\ e # from
        BY <1>2
      <3>2. BareDeletion(s.patches, e)
        BY IsolatedAreBare
      <3> QED
        BY <1>1, <1>2, <1>5, <1>6, <3>1, <3>2, PatchesOf, BareDeletionProlonged
    <2> QED
      <3>1. Bare(r, isolated)
        BY <1>2, <1>5, <2>1 DEF Bare
      <3> QED
        BY <1>7, <3>1, RecoverIsolated
  <1>9. \A d \in Entities : x.docs[d].refs = s.docs[d].refs /\ x.docs[d].type = s0.docs[d].type
    BY <1>1, <1>2, <1>5, <1>8
  <1>10. MergedPatches(s0, s, x.patches, from, to, given, isolated)
    <2>1. x.patches \in Seq(Puts) /\ Prolongs(s.patches, x.patches)
      BY <1>1, <1>5, <1>6, <1>8, PatchesOf, ProlongsTransitive
    <2> QED
      BY <2>1 DEF MergedPatches
  <1>11. y = RevertMergePatch(x, from, to)
    BY <1>2, <1>8
  <1> HIDE DEF y
  <1>12. /\ Good(y) /\ y.ok /\ Prolongs(x.patches, y.patches)
         /\ \A d \in Entities : y.docs[d].type = x.docs[d].type
         /\ \A d \in Entities : d # to => y.docs[d].refs = x.docs[d].refs
         /\ \A e \in Entities : y.docs[to].refs[e] = s0.docs[to].refs[e]
    <2>1. DOMAIN x.patches = 1..Len(x.patches) /\ Len(x.patches) \in Nat /\ Len(s0.patches) \in Nat
      BY <1>1, <1>8, PatchesOf
    <2>2. \A i \in MergesOf(x, from, to) : given # {} /\ x.patches[i] = Only(to, GivenPatch(from, given))
      <3>1. \A i \in MergesOf(x, from, to) : i \in 1..Len(x.patches) /\ to \in DOMAIN x.patches[i] /\ HasFrom(x.patches[i], to, "mergeFrom", from)
        BY <2>1 DEF MergesOf, Posted, HasFrom, Has
      <3> QED
        BY <1>10, <3>1, MergedPatchesAre
    <2>3. given # {} => MergesOf(x, from, to) # {}
      <3> SUFFICES ASSUME given # {} PROVE MergesOf(x, from, to) # {}
        OBVIOUS
      <3> DEFINE i == Len(s0.patches) + 1
      <3>1. i <= Len(s.patches) /\ s.patches[i] = Only(to, GivenPatch(from, given)) /\ Len(s.patches) \in Nat
        BY <1>1, PatchesOf DEF MergedPatches, MergePatches
      <3>2. Len(s.patches) <= Len(x.patches) /\ \A j \in 1..Len(s.patches) : x.patches[j] = s.patches[j]
        BY <1>10 DEF MergedPatches, Prolongs
      <3>3. i \in 1..Len(x.patches) /\ x.patches[i] = Only(to, GivenPatch(from, given))
        BY <2>1, <3>1, <3>2
      <3>5. i \in DOMAIN s.patches /\ i > Len(s0.patches)
        BY <1>1, <2>1, <3>1, PatchesOf
      <3> HIDE DEF i
      <3>7. s.patches[i] = Only(to, GivenPatch(from, given))
        BY <3>1 DEF i
      <3>4. HasFrom(x.patches[i], to, "mergeFrom", from) /\ to \in DOMAIN x.patches[i] /\ to \in DOMAIN s.patches[i]
        <4> DEFINE puts == x.patches[i]
        <4>1. puts = Only(to, GivenPatch(from, given))
          BY <3>3
        <4> HIDE DEF puts
        <4>2. HasFrom(puts, to, "mergeFrom", from) /\ to \in DOMAIN puts
          <5>1. HasFrom(puts, to, "mergeFrom", from)
            BY <4>1, GivenPuts
          <5> QED
            BY <5>1 DEF HasFrom, Has
        <4>3. s.patches[i] = puts
          BY <3>7, <4>1
        <4> QED
          BY <4>2, <4>3 DEF puts
      <3>6. <<i, to>> \notin folded
        BY <3>4, <3>5 DEF Unfolded
      <3> QED
        BY <2>1, <3>3, <3>4, <3>6 DEF MergesOf, Posted
    <2>4. x.docs[to].type = "entity" /\ \A e \in Entities : x.docs[to].refs[e] = s0.docs[to].refs[e] + (IF e \in given THEN 1 ELSE 0)
      BY <1>1, <1>2, <1>9
    <2> QED
      BY <1>1, <1>8, <1>11, <2>2, <2>3, <2>4, RevertGiven
  <1>13. MergedPatches(s0, s, y.patches, from, to, given, isolated)
    <2>1. y.patches \in Seq(Puts) /\ Prolongs(s.patches, y.patches)
      BY <1>1, <1>8, <1>10, <1>12, PatchesOf, ProlongsTransitive DEF MergedPatches
    <2> QED
      BY <2>1, <1>10 DEF MergedPatches
  <1>14. z = RevertClaimsRedirections(y, from)
    BY <1>12
  <1> HIDE DEF z
  <1>15. /\ Good(z) /\ z.ok
         /\ \A d \in Entities : z.docs[d].type = y.docs[d].type
         /\ \A d \in Entities \ S : z.docs[d].refs = y.docs[d].refs
         /\ \A d \in S : z.docs[d].refs = s0.docs[d].refs
    <2> DEFINE m == Len(s.patches)
               k == IF S = {} THEN 0 ELSE m
    <2>1. /\ DOMAIN y.patches = 1..Len(y.patches) /\ Len(y.patches) \in Nat /\ m \in Nat /\ m <= Len(y.patches)
          /\ Len(s0.patches) \in Nat
      BY <1>1, <1>12, <1>13, PatchesOf DEF MergedPatches, Prolongs
    <2>2. \A i \in 1..Len(y.patches) : i # k => RedirectedIn(PostedIn(y, i), from) = {}
      <3>1. ASSUME NEW i \in 1..Len(y.patches), NEW d \in RedirectedIn(PostedIn(y, i), from)
            PROVE  i = k
        <4>1. d \in DOMAIN y.patches[i] /\ HasFrom(y.patches[i], d, "redirectClaims", from)
          BY DEF RedirectedIn, PostedIn, HasFrom, Has
        <4>2. i = Len(s.patches) /\ ClaimedBy(s0, from) # {}
          BY <1>13, <4>1, MergedPatchesAre
        <4> QED
          BY <4>2 DEF S
      <3> HIDE DEF k
      <3> QED
        BY <3>1
    <2>3. S # {} => m >= 1 /\ s.patches[m] = RedirectedPuts(s0, from, to)
      BY <2>1 DEF S, MergedPatches, MergePatches
    <2>4. S # {} => m \in 1..Len(y.patches) /\ y.patches[m] = RedirectedPuts(s0, from, to)
      <3>1. S # {} => m \in 1..m /\ m \in 1..Len(y.patches)
        BY <2>1, <2>3
      <3> QED
        BY <1>13, <2>3, <3>1 DEF MergedPatches, Prolongs
    <2>7. S # {} => PostedIn(y, m) = RedirectedPuts(s0, from, to)
      <3> SUFFICES ASSUME S # {} PROVE PostedIn(y, m) = RedirectedPuts(s0, from, to)
        OBVIOUS
      <3> DEFINE puts == RedirectedPuts(s0, from, to)
      <3>1. m \in 1..m /\ m \in DOMAIN s.patches /\ m > Len(s0.patches) /\ y.patches[m] = puts /\ s.patches[m] = puts
        BY <1>1, <2>1, <2>3, <2>4, PatchesOf DEF S, MergedPatches, MergePatches
      <3>2. \A d \in DOMAIN puts : <<m, d>> \notin folded
        BY <3>1 DEF Unfolded
      <3>3. puts = [d \in DOMAIN puts |-> puts[d]]
        BY DEF RedirectedPuts
      <3> HIDE DEF puts, m
      <3>4. {d \in DOMAIN puts : <<m, d>> \notin folded} = DOMAIN puts
        BY <3>2
      <3> QED
        BY <3>1, <3>3, <3>4 DEF PostedIn, puts
    <2>5. /\ k \in 0..Len(y.patches) /\ (k = 0 => S = {}) /\ (k # 0 => PostedIn(y, k) = RedirectedPuts(s0, from, to))
      BY <2>1, <2>3, <2>7
    <2> HIDE DEF k, m
    <2>6. \A d \in S :
            /\ y.docs[d].type = "entity"
            /\ y.docs[d].refs = Patched(s0.docs[d].refs, Redirected(s0.docs[d].refs, from, to))
      BY <1>2, <1>3, <1>9, <1>12
    <2> QED
      <3>1. RedirectedAt(s0, y, k, from, to)
        BY <1>12, <2>2, <2>5, <2>6 DEF RedirectedAt, S
      <3> QED
        BY <1>1, <1>14, <3>1, RevertAllRedirected DEF S
  <1>16. Good(t) /\ t.ok /\ t.docs = z.docs
    <2> DEFINE kind == "entity:revert:merge"
               es == {from}
    <2>1. t = Emit(z, kind, es)
      BY <1>4, <1>15
    <2>2. \A e \in es : z.docs[e].type # "redirect"
      BY <1>1, <1>9, <1>12, <1>15
    <2>3. kind \in {"entity:merge", "entity:remove"} \cup Recoveries /\ es \in SUBSET Entities
      BY <1>1 DEF Recoveries
    <2>4. Good(z)
      BY <1>15
    <2> HIDE DEF kind
    <2>5. Good(Emit(z, kind, es)) /\ Emit(z, kind, es).docs = z.docs /\ Emit(z, kind, es).ok = z.ok
      BY <2>2, <2>3, <2>4, EmitGood
    <2> QED
      BY <1>15, <2>1, <2>5
  <1>17. \A d \in Entities : t.docs[d].type = s0.docs[d].type
    BY <1>9, <1>12, <1>15, <1>16
  <1>18. ASSUME NEW d \in Entities, NEW e \in Entities
         PROVE  t.docs[d].refs[e] = s0.docs[d].refs[e]
    <2>1. CASE d \in S
      BY <1>15, <1>16, <2>1
    <2>2. CASE d \notin S /\ d = to
      BY <1>12, <1>15, <1>16, <2>2
    <2>3. CASE d \notin S /\ d # to
      BY <1>2, <1>9, <1>12, <1>15, <1>16, <2>3
    <2> QED
      BY <2>1, <2>2, <2>3
  <1> QED
    BY <1>1, <1>16, <1>17, <1>18, SameClaims
-----------------------------------------------------------------------------
(* A removal, undone *)

\* What a removal leaves of the claims.
Cleared(s0, s, e) ==
    /\ Good(s0) /\ e \in Entities /\ s0.docs[e].type = "entity"
    /\ \A d \in ClaimedBy(s0, e) : s0.docs[d].refs[e] = 1
    /\ \A d \in Entities : s.docs[d].type = IF d = e THEN "removed" ELSE s0.docs[d].type
    /\ \A d, x \in Entities : s.docs[d].refs[x] = IF d \in ClaimedBy(s0, e) /\ x = e THEN 0 ELSE s0.docs[d].refs[x]
    /\ Len(s.patches) # 0 /\ s.patches[Len(s.patches)] = Deletions({e}, ClaimedBy(s0, e))

\* A removal leaves its deletion as the last put, with the subjects whose claims it took.
LEMMA RemovePlaceholderClears ==
    ASSUME NEW s, Good(s), NEW e \in Entities, IsEntity(s, e), CanBeRemoved(s, e), NEW t, t = RemovePlaceholder(s, e)
    PROVE  Good(t) /\ Cleared(s, t, e)
  <1> DEFINE C == ClaimedBy(s, e)
             puts == UnclaimedPuts(s, e)
             u == PutAll(s, puts)
             deletions == Deletions({e}, C)
  <1>1. /\ Puttable(s, puts) /\ DOMAIN puts = C
        /\ \A d \in C : \A x \in Entities : Patched(s.docs[d].refs, puts[d])[x] = IF x = e THEN 0 ELSE s.docs[d].refs[x]
    BY UnclaimedAre DEF CanBeRemoved
  <1>2. Good(u) /\ Good(t) /\ t.docs = PlaceholderDocs(u, {e}) /\ t.patches = Append(u.patches, deletions)
    BY RemovePlaceholderGood
  <1>3. \A d \in Entities :
            /\ u.docs[d].type = s.docs[d].type
            /\ d \notin C => u.docs[d].refs = s.docs[d].refs
            /\ d \in C => u.docs[d].refs = Patched(s.docs[d].refs, puts[d])
    BY <1>1, PutAllDocs
  <1>4. C \subseteq Entities /\ \A d \in C : e \in ValidValues(d)
    BY ClaimedAre
  <1>5. deletions \in Puts
    <2> DEFINE removed == {e}
    <2>1. removed \in SUBSET Entities /\ C \in SUBSET Entities /\ \A y \in removed : \A d \in C : y \in ValidValues(d)
      BY <1>4
    <2> HIDE DEF removed, C
    <2>2. GoodPuts(Deletions(removed, C))
      BY <2>1, DeletionsAre
    <2> QED
      BY <2>2 DEF GoodPuts, removed
  <1> HIDE DEF u, puts, C, deletions
  <1>6. \A d \in Entities : t.docs[d].refs = u.docs[d].refs /\ t.docs[d].type = IF d = e THEN "removed" ELSE u.docs[d].type
    BY <1>2, GoodDocs DEF PlaceholderDocs, Documents
  <1>7. /\ Len(t.patches) # 0 /\ t.patches[Len(t.patches)] = deletions
    <2>1. u.patches \in Seq(Puts) /\ Len(u.patches) \in Nat
      BY <1>2, PatchesOf
    <2>2. Len(t.patches) = Len(u.patches) + 1 /\ t.patches[Len(u.patches) + 1] = deletions
      BY <1>2, <1>5, <2>1, AppendIs
    <2> QED
      BY <2>1, <2>2
  <1>8. \A d \in C : s.docs[d].refs[e] = 1
    BY DEF CanBeRemoved, C
  <1>9. \A d, x \in Entities : t.docs[d].refs[x] = IF d \in C /\ x = e THEN 0 ELSE s.docs[d].refs[x]
    BY <1>1, <1>3, <1>6
  <1> QED
    BY <1>2, <1>3, <1>6, <1>7, <1>8, <1>9 DEF Cleared, C, deletions, IsEntity

\* The removal of an entity that is recovered leaves every claim as it was.
LEMMA RecoveredRestores ==
    ASSUME NEW s0, NEW s, NEW e, Cleared(s0, s, e), <<Len(s.patches), e>> \notin folded, Good(s), s.ok,
           NEW t, t = RecoverPlaceholder(s, e)
    PROVE  t.ok /\ Claims(t) = Claims(s0)
  <1> DEFINE C == ClaimedBy(s0, e)
             m == Len(s.patches)
             u == PutType(s, e, "entity", "recovery")
             k == LastDeletion(s, e)
             w == RecoverDeletedClaims(u, e, k)
             puts == Only(e, Mark("recovery"))
  <1>1. /\ Good(s0) /\ e \in Entities /\ s0.docs[e].type = "entity"
        /\ \A d \in C : s0.docs[d].refs[e] = 1
        /\ \A d \in Entities : s.docs[d].type = IF d = e THEN "removed" ELSE s0.docs[d].type
        /\ \A d, x \in Entities : s.docs[d].refs[x] = IF d \in C /\ x = e THEN 0 ELSE s0.docs[d].refs[x]
        /\ m # 0 /\ s.patches[m] = Deletions({e}, C)
    BY DEF Cleared
  <1>2. C \subseteq Entities /\ \A d \in C : s0.docs[d].type = "entity" /\ d # e /\ e \in ValidValues(d)
    BY <1>1, ClaimedAre, ValidValuesAre
  <1>3. s.patches \in Seq(Puts) /\ m \in 1..m /\ m \in Nat /\ DOMAIN s.patches = 1..m
    BY <1>1, PatchesOf
  <1>4. e \in Editions => Values(s.docs[e].refs) # {}
    <2>1. \A x \in Entities : s.docs[e].refs[x] = s0.docs[e].refs[x]
      BY <1>1, <1>2
    <2>2. \A x \in Entities : x \in Values(s.docs[e].refs) <=> x \in Values(s0.docs[e].refs)
      BY <1>1, <2>1, GoodDocs, ValuesAre
    <2>3. e \in Editions => \E x \in Entities : x \in Values(s0.docs[e].refs)
      BY <1>1, GoodDocs DEF GoodDoc, Values
    <2> QED
      BY <2>2, <2>3
  <1>5. CanPut(s, e, Mark("recovery"))
    BY <1>1, <1>4, Unpatched, GoodDocs DEF CanPut
  <1>6. s.docs[e].type = "removed"
    BY <1>1
  <1>7. t = IF w.ok THEN Emit(w, "entity:recover", {e}) ELSE w
    BY <1>5, <1>6, RecoverPlaceholderIs
  <1> HIDE DEF C, m
  <1>8. /\ Good(u) /\ u.docs = EntityDocs(s, {e}) /\ u.patches = Append(s.patches, puts) /\ u.ok = s.ok
        /\ puts \in Puts /\ DOMAIN puts = {e}
    <2> DEFINE kind == "recovery"
    <2>1. kind \in PatchKinds
      BY DEF PatchKinds
    <2>2. u = PutType(s, e, "entity", kind) /\ puts = Only(e, Mark(kind))
      OBVIOUS
    <2> HIDE DEF kind, u, puts
    <2>3. /\ Good(u) /\ u.docs = EntityDocs(s, {e}) /\ u.patches = Append(s.patches, Only(e, Mark(kind))) /\ u.ok = s.ok
      <3>1. e \in Entities
        BY <1>1
      <3> QED
        BY <1>4, <1>6, <2>1, <2>2, <3>1, PutTypeGood
    <2>4. GoodPuts(puts) /\ DOMAIN puts = {e}
      BY <1>1, <2>1, <2>2, Marks
    <2> QED
      BY <2>2, <2>3, <2>4 DEF GoodPuts
  <1>9. Has(s.patches[m], e, "deletion") /\ s.patches[m][e].deletedClaims = C
    BY <1>1 DEF Has, Deletions, Patch
  <1>10. k = m
    <2>3. m \in DeletionsOf(s, e)
      BY <1>3, <1>9 DEF DeletionsOf, Posted, Has
    <2>1. k \in DOMAIN s.patches /\ m <= k
      BY <1>1, <1>3, <2>3, DeletionIs
    <2> HIDE DEF k
    <2>2. m <= k /\ k <= m /\ k \in Nat
      BY <1>3, <1>9, <2>1
    <2> QED
      BY <1>3, <2>2
  <1> HIDE DEF u, puts, k
  <1>11. /\ Len(u.patches) = m + 1 /\ u.patches[m] = s.patches[m] /\ u.patches[m + 1] = puts
    BY <1>3, <1>8, AppendIs DEF m
  <1>12. \A d \in Entities : u.docs[d].refs = s.docs[d].refs /\ u.docs[d].type = s0.docs[d].type
    BY <1>1, <1>8, GoodDocs DEF EntityDocs, Documents
  <1>13. \A d \in C : Resolved(u.docs, d) = d
    <2>1. \A d \in Entities : u.docs[d].type = "redirect" => u.docs[d].to \in Entities
      BY <1>8, GoodDocs DEF GoodDoc
    <2>2. \A d \in C : d \in Entities /\ u.docs[d].type # "redirect"
      BY <1>2, <1>12
    <2> DEFINE docs == u.docs
    <2> HIDE DEF docs
    <2>3. \A d \in C : Resolved(docs, d) = d
      BY <2>1, <2>2, ResolvedIs DEF docs
    <2> QED
      BY <2>3 DEF docs
  <1>14. Subjects(u, e, k) = C
    <2>1. u.patches[m][e].deletedClaims = C
      BY <1>9, <1>11
    <2>2. \A j \in (m + 1)..Len(u.patches) : u.patches[j] = puts
      BY <1>3, <1>11
    <2>3. \A d \in C : ~\E j \in (m + 1)..Len(u.patches) : Resolved(u.docs, d) \in DOMAIN u.patches[j]
      BY <1>2, <1>8, <1>13, <2>2
    <2> QED
      BY <1>10, <2>1, <2>3 DEF Subjects
  <1>15. \A d \in C : CanUpdateClaim(u, d, {}, {e})
    <2>1. \A d \in C : u.docs[d].type = "entity" /\ u.docs[d].refs[e] = 0
      BY <1>1, <1>2, <1>12
    <2> QED
      BY <2>1 DEF CanUpdateClaim, IsEntity, Refers
  <1> DEFINE back == RecoveredPuts(C, e)
  <1>16. w = PutAll(u, back)
    <2>1. k # 0
      BY <1>1, <1>3, <1>10
    <2> QED
      BY <1>14, <1>15, <2>1, RecoverDeletedClaimsIs
  <1>17. /\ Puttable(u, back) /\ DOMAIN back = C
         /\ \A d \in C : \A x \in Entities : Patched(u.docs[d].refs, back[d])[x] = u.docs[d].refs[x] + (IF x = e THEN 1 ELSE 0)
    <2>1. Recoverable(C, e)
      BY <1>2 DEF Recoverable
    <2> QED
      BY <1>1, <1>8, <2>1, RecoveredAre
  <1> HIDE DEF w, back
  <1>18. Good(w) /\ w.ok = u.ok
    BY <1>8, <1>16, <1>17, PutAllGood, PutAllIs DEF Good
  <1>19. \A d \in Entities :
            /\ w.docs[d].type = u.docs[d].type
            /\ d \notin C => w.docs[d].refs = u.docs[d].refs
            /\ d \in C => w.docs[d].refs = Patched(u.docs[d].refs, back[d])
    BY <1>8, <1>16, <1>17, PutAllDocs
  <1>20. Good(t) /\ t.ok /\ t.docs = w.docs
    <2> DEFINE kind == "entity:recover"
               es == {e}
    <2>1. t = Emit(w, kind, es)
      BY <1>7, <1>8, <1>18
    <2>2. \A y \in es : w.docs[y].type # "redirect"
      BY <1>1, <1>12, <1>19
    <2>3. kind \in {"entity:merge", "entity:remove"} \cup Recoveries /\ es \in SUBSET Entities
      BY <1>1 DEF Recoveries
    <2>4. Good(w)
      BY <1>18
    <2> HIDE DEF kind
    <2>5. Good(Emit(w, kind, es)) /\ Emit(w, kind, es).docs = w.docs /\ Emit(w, kind, es).ok = w.ok
      BY <2>2, <2>3, <2>4, EmitGood
    <2> QED
      BY <1>8, <1>18, <2>1, <2>5
  <1>21. ASSUME NEW d \in Entities, NEW x \in Entities
         PROVE  t.docs[d].refs[x] = s0.docs[d].refs[x]
    <2>1. CASE d \notin C
      BY <1>1, <1>12, <1>19, <1>20, <2>1
    <2>2. CASE d \in C
      <3>1. t.docs[d].refs[x] = s.docs[d].refs[x] + (IF x = e THEN 1 ELSE 0)
        BY <1>12, <1>17, <1>19, <1>20, <2>2
      <3>2. s0.docs[d].refs[x] \in Nat
        BY <1>1, GoodDocs DEF Refs
      <3> QED
        BY <1>1, <2>2, <3>1, <3>2
    <2> QED
      BY <2>1, <2>2
  <1>22. \A d \in Entities : t.docs[d].type = s0.docs[d].type
    BY <1>12, <1>19, <1>20
  <1> QED
    BY <1>1, <1>20, <1>21, <1>22, SameClaims
-----------------------------------------------------------------------------
(* What the last request did, and what its reversal does *)

\* The databases are those that a first merge of an entity left, or its removal, from claims that are told.
\* The puts without a patch are older.
AfterMerge(s, without, from, docs) ==
    \E s0, to, given, isolated :
        /\ MergedPatches(s0, s, s.patches, from, to, given, isolated) /\ Merged(s0, s, from, to, given, isolated)
        /\ Unfolded(s0, s, without)
        /\ docs = Claims(s0)
AfterDelete(s, without, e, docs) ==
    \E s0 : Cleared(s0, s, e) /\ <<Len(s.patches), e>> \notin without /\ docs = Claims(s0)

UndoInv ==
    /\ undo = [by |-> undo.by, of |-> undo.of, docs |-> undo.docs]
    /\ undo.by = "merge" => AfterMerge(db, folded, undo.of, undo.docs)
    /\ undo.by = "delete" => AfterDelete(db, folded, undo.of, undo.docs)
    /\ undo.by = "undone" => db.ok /\ Claims(db) = undo.docs

\* These say nothing of tasks, uses and events.
LEMMA SameAfter ==
    ASSUME NEW s, NEW t, Good(t), t.docs = s.docs, t.patches = s.patches, t.before = s.before,
           NEW without, NEW e, NEW docs
    PROVE  /\ AfterMerge(s, without, e, docs) => AfterMerge(t, without, e, docs)
           /\ AfterDelete(s, without, e, docs) => AfterDelete(t, without, e, docs)
           /\ Claims(t) = Claims(s)
  <1>1. ASSUME AfterMerge(s, without, e, docs) PROVE AfterMerge(t, without, e, docs)
    <2>1. PICK s0, to, given, isolated :
            /\ MergedPatches(s0, s, s.patches, e, to, given, isolated) /\ Merged(s0, s, e, to, given, isolated)
            /\ Unfolded(s0, s, without)
            /\ docs = Claims(s0)
      BY <1>1 DEF AfterMerge
    <2>2. MergePatches(s0, s, e, to, given, isolated) => MergePatches(s0, t, e, to, given, isolated)
      BY DEF MergePatches
    <2>3. MergedPatches(s0, t, t.patches, e, to, given, isolated)
      BY <2>1, <2>2 DEF MergedPatches
    <2>6. LastPut(s, e, Len(s0.patches), Version(s0.docs[e])) => LastPut(t, e, Len(s0.patches), Version(s0.docs[e]))
      BY DEF LastPut
    <2>4. Merged(s0, t, e, to, given, isolated)
      BY <2>1, <2>2, <2>6 DEF Merged
    <2>5. Unfolded(s0, t, without)
      BY <2>1 DEF Unfolded
    <2> QED
      BY <2>1, <2>3, <2>4, <2>5 DEF AfterMerge
  <1>2. AfterDelete(s, without, e, docs) => AfterDelete(t, without, e, docs)
    BY DEF AfterDelete, Cleared
  <1>3. Claims(t) = Claims(s)
    BY DEF Claims
  <1> QED
    BY <1>1, <1>2, <1>3

\* Most requests leave nothing to undo.
LEMMA NothingToUndo ==
    ASSUME undo' = NoUndo
    PROVE  UndoInv'
  BY DEF UndoInv, NoUndo

\* What a request did can be undone when what it put has its patches.
LEMMA HandleUndo ==
    ASSUME NEW s, NEW remembered, remembered.by # "undone", Handle(s, remembered)
    PROVE  \/ undo' = NoUndo
           \/ /\ undo' = remembered
              /\ \A i \in DOMAIN s.patches : i \notin DOMAIN db.patches =>
                    \A d \in DOMAIN s.patches[i] : <<i, d>> \notin folded'
  <1>1. undo' = IF NewPuts(s) \cap folded' # {} THEN NoUndo ELSE remembered
    BY DEF Handle
  <1>2. ASSUME NEW i \in DOMAIN s.patches, i \notin DOMAIN db.patches, NEW d \in DOMAIN s.patches[i]
        PROVE  <<i, d>> \in NewPuts(s)
    <2>1. <<i, d>> \in {i} \X DOMAIN s.patches[i] /\ i \in DOMAIN s.patches \ DOMAIN db.patches
      BY <1>2
    <2> QED
      BY <2>1 DEF NewPuts
  <1> QED
    BY <1>1, <1>2

\* A merge leaves what a merge leaves; a removal, what a removal leaves.
LEMMA MergeUndo ==
    ASSUME Good(db), NEW from \in Entities, NEW to \in Entities, Merge(from, to)
    PROVE  UndoInv'
  <1>1. from # to /\ SameType(from, to)
    BY DEF Merge
  <1> DEFINE s == Settled
             remembered == [by |-> "merge", of |-> from, docs |-> Claims(db)]
             firstly == First(db, "redirectClaims", from) /\ First(db, "mergeFrom", from)
  <1>2. /\ Good(s) /\ s.docs = db.docs /\ s.patches = db.patches /\ s.ok = TRUE /\ s.events = {}
    BY SettledIs
  <1>3. ASSUME IsEntity(db, from), IsEntity(db, to), NEW given \in GivenClaims(db, from, to),
               Handle(MergeEntities(Settled, from, to, given), IF firstly THEN remembered ELSE NoUndo)
        PROVE  UndoInv'
    <2> DEFINE t == MergeEntities(s, from, to, given)
    <2>1. Handle(t, IF firstly THEN remembered ELSE NoUndo)
      BY <1>3
    <2> HIDE DEF s
    <2>2. GivenClaims(s, from, to) = GivenClaims(db, from, to)
      BY <1>2 DEF GivenClaims
    <2>3. Mergeable(s, from, to, given)
      BY <1>1, <1>2, <1>3, <2>2, GivenClaimsAre DEF Mergeable, IsEntity
    <2> HIDE DEF t
    <2>4. Good(t)
      BY <2>3, MergeEntitiesIs DEF t
    <2>5. PICK isolated : Merged(s, t, from, to, given, isolated)
      BY <2>3, MergeEntitiesIs DEF t
    <2>6. /\ Good(db') /\ db'.docs = t.docs /\ db'.patches = t.patches /\ db'.before = t.before
          /\ undo' = NoUndo \/ undo' = (IF firstly THEN remembered ELSE NoUndo)
      BY <2>1, <2>4, HandleIs DEF CatalogueGood
    <2>7. CASE firstly /\ undo' # NoUndo
      <3>1. First(s, "redirectClaims", from) /\ First(s, "mergeFrom", from) /\ Claims(s) = Claims(db)
        BY <1>2, <2>7 DEF First, Claims
      <3>2. t.patches \in Seq(Puts) /\ Prolongs(t.patches, t.patches)
        BY <2>4, PatchesOf, ProlongsItself
      <3>3. MergedPatches(s, t, t.patches, from, to, given, isolated)
        BY <2>3, <2>4, <2>5, <3>1, <3>2 DEF MergedPatches, Merged
      <3>7. Unfolded(s, t, folded')
        <4>1. Handle(t, remembered) /\ remembered.by # "undone"
          BY <2>1, <2>7
        <4>2. \A i \in DOMAIN t.patches : i \notin DOMAIN db.patches =>
                    \A d \in DOMAIN t.patches[i] : <<i, d>> \notin folded'
          BY <2>7, <4>1, HandleUndo
        <4>3. \A i \in DOMAIN t.patches : i > Len(s.patches) => i \notin DOMAIN db.patches
          <5>1. Len(s.patches) \in Nat /\ DOMAIN db.patches = 1..Len(s.patches)
            BY <1>2, PatchesOf
          <5> QED
            BY <5>1
        <4> QED
          BY <4>2, <4>3 DEF Unfolded
      <3>4. AfterMerge(t, folded', from, Claims(db))
        BY <2>4, <2>5, <3>1, <3>3, <3>7 DEF AfterMerge
      <3>5. AfterMerge(db', folded', from, Claims(db))
        BY <2>6, <3>4, SameAfter
      <3>6. /\ undo' = [by |-> undo'.by, of |-> undo'.of, docs |-> undo'.docs]
            /\ undo'.by = "merge" /\ undo'.of = from /\ undo'.docs = Claims(db)
        BY <2>6, <2>7
      <3> QED
        BY <3>5, <3>6 DEF UndoInv
    <2>8. CASE undo' = NoUndo
      BY <2>8, NothingToUndo
    <2> QED
      BY <2>6, <2>7, <2>8
  <1>4. ASSUME Suggest(CreateMergeTask(Settled, from, to))
        PROVE  UndoInv'
    BY <1>4, NothingToUndo DEF Suggest, Handle
  <1> QED
    BY <1>3, <1>4 DEF Merge

\* A put only adds patches.
LEMMA UnclaimedPatches ==
    ASSUME NEW s, Good(s), NEW e \in Entities
    PROVE  Len(s.patches) <= Len(PutAll(s, UnclaimedPuts(s, e)).patches)
  <1> DEFINE puts == UnclaimedPuts(s, e)
             u == PutAll(s, puts)
  <1>1. s \in States /\ s.patches \in Seq(Puts) /\ Len(s.patches) \in Nat
    BY PatchesOf DEF Good
  <1> HIDE DEF puts
  <1>2. u.patches = s.patches \/ u.patches = Append(s.patches, puts)
    BY <1>1, PutAllIs
  <1> HIDE DEF u
  <1>3. Len(s.patches) <= Len(u.patches)
    BY <1>1, <1>2
  <1> QED
    BY <1>3 DEF u, puts

LEMMA DeleteUndo ==
    ASSUME Good(db), NEW e \in Entities, Delete(e)
    PROVE  UndoInv'
  <1> DEFINE s == Settled
             remembered == [by |-> "delete", of |-> e, docs |-> Claims(db)]
  <1>1. /\ Good(s) /\ s.docs = db.docs /\ s.patches = db.patches /\ s.uses = db.uses
    BY SettledIs
  <1>2. CanBeRemoved(db, e)
    BY DEF Delete
  <1>3. ASSUME IsEntity(db, e), Handle(RemovePlaceholder(Settled, e), remembered)
        PROVE  UndoInv'
    <2> DEFINE t == RemovePlaceholder(s, e)
    <2>1. Handle(t, remembered)
      BY <1>3
    <2> HIDE DEF s
    <2>2. IsEntity(s, e) /\ CanBeRemoved(s, e)
      BY <1>1, <1>2, <1>3 DEF IsEntity, CanBeRemoved, ClaimedBy
    <2>3. Good(t) /\ Cleared(s, t, e)
      BY <1>1, <2>2, RemovePlaceholderClears
    <2>7. Len(t.patches) \in DOMAIN t.patches /\ Len(t.patches) \notin DOMAIN db.patches
      <3> DEFINE u == PutAll(s, UnclaimedPuts(s, e))
                 deletions == Deletions({e}, ClaimedBy(s, e))
      <3>1. Good(u) /\ t.patches = Append(u.patches, deletions)
        BY <1>1, <2>2, RemovePlaceholderGood
      <3>2. Len(s.patches) <= Len(u.patches)
        BY <1>1, <2>2, UnclaimedPatches
      <3> HIDE DEF u, t, deletions
      <3>3. u.patches \in Seq(Puts) /\ Len(u.patches) \in Nat /\ Len(t.patches) = Len(u.patches) + 1
        BY <2>3, <3>1, PatchesOf
      <3>4. /\ Len(s.patches) \in Nat /\ DOMAIN db.patches = 1..Len(s.patches)
            /\ Len(t.patches) \in Nat /\ DOMAIN t.patches = 1..Len(t.patches)
        BY <1>1, <2>3, PatchesOf
      <3> QED
        BY <3>2, <3>3, <3>4
    <2> HIDE DEF t
    <2>4. /\ Good(db') /\ db'.docs = t.docs /\ db'.patches = t.patches /\ db'.before = t.before
          /\ undo' = remembered \/ undo' = NoUndo
      BY <2>1, <2>3, HandleIs DEF CatalogueGood
    <2>5. Claims(s) = Claims(db)
      BY <1>1 DEF Claims
    <2>9. CASE undo' # NoUndo
      <3>1. <<Len(t.patches), e>> \notin folded'
        <4>1. remembered.by # "undone"
          OBVIOUS
        <4>2. \A i \in DOMAIN t.patches : i \notin DOMAIN db.patches =>
                    \A d \in DOMAIN t.patches[i] : <<i, d>> \notin folded'
          BY <2>1, <2>9, <4>1, HandleUndo
        <4>3. e \in DOMAIN t.patches[Len(t.patches)]
          BY <2>3 DEF Cleared, Deletions
        <4>4. Len(t.patches) \in DOMAIN t.patches /\ Len(t.patches) \notin DOMAIN db.patches
          BY <2>7
        <4> QED
          BY <4>2, <4>3, <4>4
      <3>2. AfterDelete(t, folded', e, Claims(db))
        BY <2>3, <2>5, <3>1 DEF AfterDelete
      <3>3. AfterDelete(db', folded', e, Claims(db))
        BY <2>4, <3>2, SameAfter
      <3>4. /\ undo' = [by |-> undo'.by, of |-> undo'.of, docs |-> undo'.docs]
            /\ undo'.by = "delete" /\ undo'.of = e /\ undo'.docs = Claims(db)
        BY <2>4, <2>9
      <3> QED
        BY <3>3, <3>4 DEF UndoInv
    <2>10. CASE undo' = NoUndo
      BY <2>10, NothingToUndo
    <2> QED
      BY <2>9, <2>10
  <1>4. ASSUME Suggest(CreateDeleteTask(Settled, e))
        PROVE  UndoInv'
    BY <1>4, NothingToUndo DEF Suggest, Handle
  <1> QED
    BY <1>3, <1>4 DEF Delete

\* A reversal of what the last request did, from the databases that it left.
LEMMA UndoneIs ==
    ASSUME UndoInv, NEW by \in {"merge", "delete"}, NEW e, undo' = Undoing(by, e) \/ undo' = NoUndo,
           undo.by = by /\ undo.of = e => db'.ok /\ Claims(db') = undo.docs
    PROVE  UndoInv'
  <1>3. CASE undo' = NoUndo
    BY <1>3, NothingToUndo
  <1>1. CASE undo.by = by /\ undo.of = e /\ undo' # NoUndo
    <2> DEFINE docs == undo.docs
               of == undo.of
    <2>1. undo' = [undo EXCEPT !.by = "undone"]
      BY <1>1 DEF Undoing
    <2>2. undo = [by |-> undo.by, of |-> of, docs |-> docs]
      BY DEF UndoInv
    <2>3. undo' = [by |-> "undone", of |-> of, docs |-> docs]
      BY <2>1, <2>2
    <2>4. db'.ok /\ Claims(db') = docs
      BY <1>1
    <2> HIDE DEF docs, of
    <2> QED
      BY <2>3, <2>4 DEF UndoInv
  <1>2. CASE ~(undo.by = by /\ undo.of = e)
    BY <1>2, NothingToUndo DEF Undoing
  <1> QED
    BY <1>1, <1>2, <1>3

\* The reversal of the last request gives back what it changed.
LEMMA RevertMergeUndo ==
    ASSUME Good(db), UndoInv, NEW from \in Entities, RevertMerge(from)
    PROVE  UndoInv'
  <1> DEFINE s == Settled
             t == RevertMergeEntities(s, from)
             remembered == Undoing("merge", from)
  <1>1. /\ Good(s) /\ s.docs = db.docs /\ s.patches = db.patches /\ s.ok = TRUE
        /\ db.docs[from].type = "redirect" /\ Handle(t, remembered)
    BY SettledIs DEF RevertMerge
  <1> HIDE DEF s
  <1>5. s.before = db.before
    BY SettledIs DEF s
  <1>2. Good(t)
    <2>1. CASE VersionsBefore(s, from) = {}
      <3>1. t = Fail(s)
        BY <2>1 DEF RevertMergeEntities
      <3> QED
        BY <1>1, <3>1, FailGood
    <2>2. CASE VersionsBefore(s, from) # {}
      BY <1>1, <2>2, RevertMergeEntitiesGood
    <2> QED
      BY <2>1, <2>2
  <1> HIDE DEF t
  <1>3. db'.docs = t.docs /\ db'.ok = t.ok /\ (undo' = remembered \/ undo' = NoUndo)
    BY <1>1, <1>2, HandleIs
  <1>4. ASSUME undo.by = "merge", undo.of = from
        PROVE  db'.ok /\ Claims(db') = undo.docs
    <2>1. AfterMerge(s, folded, from, undo.docs)
      BY <1>1, <1>4, <1>5, SameAfter DEF UndoInv
    <2>2. PICK s0, to, given, isolated :
            /\ MergedPatches(s0, s, s.patches, from, to, given, isolated) /\ Merged(s0, s, from, to, given, isolated)
            /\ Unfolded(s0, s, folded)
            /\ undo.docs = Claims(s0)
      BY <2>1 DEF AfterMerge
    <2>3. t.ok /\ Claims(t) = Claims(s0)
      BY <1>1, <2>2, RevertedMergeRestores DEF t
    <2> QED
      BY <1>3, <2>2, <2>3 DEF Claims
  <1> QED
    BY <1>3, <1>4, UndoneIs

LEMMA RecoverUndo ==
    ASSUME Good(db), UndoInv, NEW e \in Entities, Recover(e)
    PROVE  UndoInv'
  <1> DEFINE s == Settled
             t == RecoverPlaceholder(s, e)
             remembered == Undoing("delete", e)
  <1>1. /\ Good(s) /\ s.docs = db.docs /\ s.patches = db.patches /\ s.before = db.before /\ s.ok = TRUE
        /\ Handle(t, remembered)
    BY SettledIs DEF Recover
  <1> HIDE DEF s
  <1>2. Good(t)
    BY <1>1, RecoverPlaceholderGood
  <1> HIDE DEF t
  <1>3. db'.docs = t.docs /\ db'.ok = t.ok /\ (undo' = remembered \/ undo' = NoUndo)
    BY <1>1, <1>2, HandleIs
  <1>4. ASSUME undo.by = "delete", undo.of = e
        PROVE  db'.ok /\ Claims(db') = undo.docs
    <2>1. AfterDelete(s, folded, e, undo.docs)
      BY <1>1, <1>4, SameAfter DEF UndoInv
    <2>2. PICK s0 : Cleared(s0, s, e) /\ <<Len(s.patches), e>> \notin folded /\ undo.docs = Claims(s0)
      BY <2>1 DEF AfterDelete
    <2>3. t.ok /\ Claims(t) = Claims(s0)
      BY <1>1, <2>2, RecoveredRestores DEF t
    <2> QED
      BY <1>3, <2>2, <2>3 DEF Claims
  <1> QED
    BY <1>3, <1>4, UndoneIs

\* Listeners change nothing that a reversal reads, and requests leave what they should.
LEMMA UndoInvKept ==
    ASSUME CatalogueGood, UndoInv, [CatalogueNext]_catalogueVars
    PROVE  UndoInv'
  <1>1. CASE Requests
    <2>1. ASSUME NEW d, NEW removed, NEW added, UpdateClaim(d, removed, added)
          PROVE  UndoInv'
      BY <2>1, NothingToUndo DEF UpdateClaim, Handle
    <2>2. ASSUME NEW t, UpdateTask(t)
          PROVE  UndoInv'
      BY <2>2, NothingToUndo DEF UpdateTask, Handle
    <2> QED
      BY <1>1, <2>1, <2>2, MergeUndo, RevertMergeUndo, DeleteUndo, RecoverUndo DEF Requests, CatalogueGood
  <1>2. ASSUME NEW event \in radio, Listen(event)
        PROVE  UndoInv'
    <2>1. /\ Good(db') /\ db'.docs = db.docs /\ db'.patches = db.patches /\ db'.before = db.before /\ db'.ok = db.ok
          /\ undo' = undo /\ folded' = folded
      BY <1>2, ListenIs DEF CatalogueGood
    <2> QED
      BY <2>1, SameAfter DEF UndoInv
  <1>3. CASE UNCHANGED catalogueVars
    BY <1>3 DEF catalogueVars, UndoInv
  <1> QED
    BY <1>1, <1>2, <1>3 DEF CatalogueNext

\* The first merge of an entity, or its removal, is entirely undone by the reversal that follows
\* it: it does not fail, and the type and the claims of every entity are what they were, those
\* of the authors removed with the merge included.
THEOREM ReversalsUndo == CatalogueSpec => []ReversalsRestore
  <1> DEFINE Inv == CatalogueGood /\ UndoInv
  <1>1. CatalogueInit => Inv
    <2> SUFFICES ASSUME CatalogueInit PROVE Inv
      OBVIOUS
    <2>1. CatalogueGood
      BY CatalogueGoodFirst
    <2>2. undo = NoUndo
      BY DEF CatalogueInit
    <2> QED
      BY <2>1, <2>2 DEF UndoInv, NoUndo
  <1>2. Inv /\ [CatalogueNext]_catalogueVars => Inv'
    BY CatalogueGoodKept, UndoInvKept
  <1>3. Inv => ReversalsRestore
    BY DEF UndoInv, ReversalsRestore
  <1> QED
    BY <1>1, <1>2, <1>3, PTL DEF CatalogueSpec
=============================================================================
