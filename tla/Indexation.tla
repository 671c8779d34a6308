------------------------------ MODULE Indexation ------------------------------
(* Elasticsearch kept in sync with CouchDB (lib/follow.ts, db/elasticsearch): changes *)
(* are received in order, documents are formatted by asynchronous functions, gathered *)
(* in batches, and posted. The sequence number of the last change received is saved   *)
(* with a delay, and is where the next process starts. Local layers of Wikidata       *)
(* entities are indexed with the entity instead, by a persisted queue of jobs.        *)
EXTENDS Naturals, Sequences, FiniteSets

CONSTANTS
    Docs,           \* documents of a followed database
    Layers,         \* local layers of Wikidata entities
    Nothing, MaxSeq, MaxGap, MaxRetries, MaxCrashes, MaxFailures
ASSUME DocsAssumption == Layers \subseteq Docs
ASSUME NothingAssumption == Nothing \notin Nat

VARIABLES
    couch,          \* [Docs -> [seq of its last change, kept: it is to be in the index]]
    following,      \* the last sequence number received; Nothing while the process is down
    lastSeq,        \* [saved, waiting: the one that waits for the debounced write, or Nothing]
    formatting,     \* operations [doc, seq, kept] in formatters
    batch, posts,   \* the operations gathered, the batches being posted
    index,          \* [Docs -> seq of the indexed version, 0 if not indexed]; that of a layer
                    \* is in the document of its Wikidata entity
    jobs, job,      \* jobs [doc, id, tries] in LevelDB, the one being worked on or Nothing
    amiss,          \* documents of which the indexation was lost: by a failure, an inversion,
                    \* a cache miss, or the deletion of a layer
    indexBudget     \* [crashes, failures]

xvars == <<couch, following, lastSeq, formatting, batch, posts, index, jobs, job, amiss, indexBudget>>

IndexationInit ==
    /\ couch = [d \in Docs |-> [seq |-> 0, kept |-> FALSE]]
    /\ following = 0
    /\ lastSeq = [saved |-> 0, waiting |-> Nothing]
    /\ formatting = {} /\ batch = <<>> /\ posts = <<>>
    /\ index = [d \in Docs |-> 0]
    /\ jobs = {} /\ job = Nothing
    /\ amiss = {}
    /\ indexBudget = [crashes |-> 0, failures |-> 0]

-----------------------------------------------------------------------------

DbLastSeq == CHOOSE n \in {couch[d].seq : d \in Docs} : \A d \in Docs : couch[d].seq <= n
Operation(d) == [doc |-> d, seq |-> couch[d].seq, kept |-> couch[d].kept]
Ops(ops) == {ops[i] : i \in DOMAIN ops}
InFlight(d) ==
    \E o \in formatting \cup Ops(batch) \cup UNION {Ops(posts[i]) : i \in DOMAIN posts} : o.doc = d

Running == following # Nothing
Fails == indexBudget.failures < MaxFailures /\ indexBudget' = [indexBudget EXCEPT !.failures = @ + 1]

\* A document of the database is written, or takes a form that is not indexed (deleted,
\* removed placeholder, redirection, or a type without index).
WriteDoc(d, kept) ==
    /\ DbLastSeq < MaxSeq
    /\ couch' = [couch EXCEPT ![d] = [seq |-> DbLastSeq + 1, kept |-> kept]]
    /\ UNCHANGED <<following, lastSeq, formatting, batch, posts, index, jobs, job, amiss, indexBudget>>

\* The feed has one change per document, the last one. The sequence number is handed to
\* the debounced setLastSeq first. A document that shouldBeDeindexed joins the batch at
\* once, be it a layer: the document of its Wikidata entity is left as it is.
ReceiveChange(d) ==
    /\ Running
    /\ couch[d].seq > following
    /\ \A e \in Docs : couch[e].seq <= following \/ couch[e].seq >= couch[d].seq
    /\ following' = couch[d].seq
    /\ lastSeq' = [lastSeq EXCEPT !.waiting = couch[d].seq]
    /\ \/ /\ ~couch[d].kept
          /\ batch' = Append(batch, Operation(d))
          /\ amiss' = IF d \in Layers \/ \E o \in formatting : o.doc = d THEN amiss \cup {d}
                      ELSE IF InFlight(d) THEN amiss ELSE amiss \ {d}
          /\ UNCHANGED <<formatting, jobs>>
       \/ /\ couch[d].kept /\ d \in Layers
          /\ jobs' = jobs \cup {[doc |-> d, id |-> couch[d].seq, tries |-> 0]}
          /\ UNCHANGED <<formatting, batch, amiss>>
       \/ /\ d \notin Layers                       \* the format of what is not kept gives nothing
          /\ formatting' = formatting \cup {Operation(d)}
          /\ amiss' = IF InFlight(d) THEN amiss ELSE amiss \ {d}
          /\ UNCHANGED <<batch, jobs>>
    /\ UNCHANGED <<couch, posts, index, job, indexBudget>>

SaveLastSeq ==
    /\ Running /\ lastSeq.waiting # Nothing
    /\ lastSeq' = [saved |-> lastSeq.waiting, waiting |-> Nothing]
    /\ UNCHANGED <<couch, following, formatting, batch, posts, index, jobs, job, amiss, indexBudget>>

\* Formatters end in any order.
Formatted(o) ==
    /\ o \in formatting
    /\ formatting' = formatting \ {o}
    /\ batch' = Append(batch, o)
    /\ amiss' = IF \E p \in formatting : p.doc = o.doc /\ p.seq < o.seq THEN amiss \cup {o.doc} ELSE amiss
    /\ UNCHANGED <<couch, following, lastSeq, posts, index, jobs, job, indexBudget>>

\* A formatter makes requests, and nothing waits for it: its failure is that of the change.
FormatFails(o) ==
    /\ Fails
    /\ o \in formatting
    /\ formatting' = formatting \ {o}
    /\ amiss' = amiss \cup {o.doc}
    /\ UNCHANGED <<couch, following, lastSeq, batch, posts, index, jobs, job>>

\* A mutant: the batch is emptied once posted.
PostThenReset ==
    /\ batch # <<>>
    /\ \/ posts' = Append(posts, batch) /\ UNCHANGED batch
       \/ posts # <<>> /\ batch' = <<>> /\ UNCHANGED posts
    /\ UNCHANGED <<couch, following, lastSeq, formatting, index, jobs, job, amiss, indexBudget>>

\* Throttled, or at once when the batch is large.
PostAndReset ==
    /\ batch # <<>>
    /\ posts' = Append(posts, batch)
    /\ batch' = <<>>
    /\ UNCHANGED <<couch, following, lastSeq, formatting, index, jobs, job, amiss, indexBudget>>

Without(i) == SubSeq(posts, 1, i - 1) \o SubSeq(posts, i + 1, Len(posts))

\* A deletion is one from the index of local entities, which has no layer.
Changes(o, d) == o.doc = d /\ (o.kept \/ d \notin Layers)

\* The operations of a post are applied in their order; the posts in any order.
PostSucceeds(i) ==
    LET ops == posts[i]
        On(d) == {n \in DOMAIN ops : Changes(ops[n], d)}
        Last(d) == CHOOSE n \in On(d) : \A m \in On(d) : m <= n
    IN /\ index' = [d \in Docs |-> IF On(d) = {} THEN index[d]
                                   ELSE IF ops[Last(d)].kept THEN ops[Last(d)].seq ELSE 0]
       /\ amiss' = amiss \cup {o.doc : o \in {o \in Ops(ops) : \E j \in 1..(i - 1) : \E p \in Ops(posts[j]) : p.doc = o.doc}}
       /\ posts' = Without(i)
       /\ UNCHANGED <<couch, following, lastSeq, formatting, batch, jobs, job, indexBudget>>

\* A failed post is logged, and the batch is lost.
PostFails(i) ==
    /\ Fails
    /\ posts' = Without(i)
    /\ amiss' = amiss \cup {o.doc : o \in Ops(posts[i])}
    /\ UNCHANGED <<couch, following, lastSeq, formatting, batch, index, jobs, job>>

-----------------------------------------------------------------------------
\* wikidata_entities_indexation_queue: one job at a time; a job stays in LevelDB until
\* its worker has succeeded, or failed for good.

\* A Wikidata entity aggregated with its layer, if it has one.
Aggregated(d) == [doc |-> d, seq |-> IF couch[d].kept THEN couch[d].seq ELSE 0, kept |-> TRUE]

\* The worker reads the entity, of which it is supposed that Wikidata has it.
StartJob(j) ==
    /\ Running /\ job = Nothing /\ j \in jobs
    /\ job' = [job |-> j, read |-> Aggregated(j.doc)]
    /\ UNCHANGED <<couch, following, lastSeq, formatting, batch, posts, index, jobs, amiss, indexBudget>>

Ended(j) == jobs' = jobs \ {j} /\ job' = Nothing

\* An entity indexed recently with the same revisions is skipped, and one that is not in
\* the cache, of which nothing is requested (dry); others are formatted, and join the batch.
EndJob ==
    /\ job # Nothing
    /\ Ended(job.job)
    /\ \/ /\ index[job.read.doc] = job.read.seq
          /\ UNCHANGED <<batch, amiss>>
       \/ /\ batch' = batch
          /\ amiss' = amiss \cup {job.read.doc}
       \/ /\ batch' = Append(batch, job.read)
          /\ amiss' = IF InFlight(job.read.doc) \/ job.read # Operation(job.read.doc) THEN amiss
                      ELSE amiss \ {job.read.doc}
    /\ UNCHANGED <<couch, following, lastSeq, formatting, posts, index, indexBudget>>

\* level-jobs tries again, until maxRetries.
FailJob ==
    /\ job # Nothing /\ Fails
    /\ IF job.job.tries < MaxRetries
       THEN jobs' = (jobs \ {job.job}) \cup {[job.job EXCEPT !.tries = @ + 1]} /\ UNCHANGED amiss
       ELSE jobs' = jobs \ {job.job} /\ amiss' = amiss \cup {job.read.doc}
    /\ job' = Nothing
    /\ UNCHANGED <<couch, following, lastSeq, formatting, batch, posts, index>>

-----------------------------------------------------------------------------

\* What was received and not yet indexed is gone with the process, unless a post arrived
\* just before.
Crash ==
    /\ Running
    /\ indexBudget.crashes < MaxCrashes
    /\ indexBudget' = [indexBudget EXCEPT !.crashes = @ + 1]
    /\ following' = Nothing
    /\ lastSeq' = [lastSeq EXCEPT !.waiting = Nothing]
    /\ amiss' = amiss \cup {d \in Docs : InFlight(d)}
    /\ formatting' = {} /\ batch' = <<>> /\ posts' = <<>> /\ job' = Nothing
    /\ UNCHANGED <<couch, index, jobs>>

\* initFollow: from the saved sequence number, unless it is too far beyond.
StartServer ==
    LET gap == DbLastSeq > lastSeq.saved + MaxGap
        since == IF gap THEN DbLastSeq ELSE lastSeq.saved
    IN /\ ~Running
       /\ following' = since
       /\ lastSeq' = [lastSeq EXCEPT !.waiting = since]
       /\ amiss' = IF gap THEN amiss \cup {d \in Docs : couch[d].seq > lastSeq.saved} ELSE amiss
       /\ UNCHANGED <<couch, formatting, batch, posts, index, jobs, job, indexBudget>>

IndexationNext ==
    \/ \E d \in Docs : ReceiveChange(d) \/ \E kept \in BOOLEAN : WriteDoc(d, kept)
    \/ \E o \in formatting : Formatted(o) \/ FormatFails(o)
    \/ \E i \in DOMAIN posts : PostSucceeds(i) \/ PostFails(i)
    \/ \E j \in jobs : StartJob(j)
    \/ PostAndReset \/ SaveLastSeq \/ EndJob \/ FailJob \/ Crash \/ StartServer

IndexationSpec == IndexationInit /\ [][IndexationNext]_xvars

-----------------------------------------------------------------------------

Settled == Running /\ following = DbLastSeq /\ formatting = {} /\ batch = <<>> /\ posts = <<>> /\ jobs = {}
Indexed(d) == index[d] = IF couch[d].kept THEN couch[d].seq ELSE 0

\* When all changes were received and processed, the index has the last version of every
\* document: no interleaving of changes, formatters, batches, saves and jobs loses one. But
\* for the documents amiss, until they are indexed again: those of which a crash, a failed
\* formatter, post or job, or an inversion of formatters or posts undid the indexation;
\* layers of an entity that was not in the cache, or which got a form that is not indexed,
\* as the document of the Wikidata entity keeps what they had brought.
IndexFollowsChanges == Settled => \A d \in Docs \ amiss : Indexed(d)

\* follow.ts:59: "It won't miss any changes as CouchDB will send everything that happened
\* since the last saved sequence number": a restart loses no change.
RestartMissesNoChange == Settled => \A d \in Docs : Indexed(d)
=============================================================================
