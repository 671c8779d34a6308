------------------------------ MODULE PartsProofs ------------------------------
(* The parts of the run of that name, whose properties hold for any number of their  *)
(* actors and documents, and whatever the bounds: each section has the invariant of  *)
(* one part, which shares nothing with the others.                                   *)
EXTENDS Indexation, OutgoingRequests, SessionKeys, RelationsCache, FederatedMerges, GroupedCache, TransactionEmails,
        PublicActivities, TLAPS, FiniteSetTheorems, WellFoundedInduction

(* GroupedCache. *)

\* A reader that joined a request has its key in it, and joined before its results were
\* read: the request that is gathered is none of those that were sent.
ReaderIsServed(r) ==
    /\ readers[r].step \in {"checking", "grouped"} =>
          readers[r].key \in Keys /\ readers[r].since \in Nat /\ readers[r].since <= remote[readers[r].key]
    /\ readers[r].step = "grouped" =>
          /\ readers[r].number \in Nat /\ readers[r].number <= group.number
          /\ readers[r].number = group.number => readers[r].key \in group.keys
          /\ \A q \in sent : q.number = readers[r].number =>
                /\ readers[r].key \in q.keys
                /\ q.results # NotCached => readers[r].since <= q.results[readers[r].key]
    /\ readers[r].step = "answered" =>
          readers[r].answer \in Nat /\ readers[r].since \in Nat /\ readers[r].since <= readers[r].answer

RequestIsSent(q) ==
    /\ q.number \in Nat /\ q.number < group.number
    /\ q.keys \subseteq Keys
    /\ q.results # NotCached => q.results \in [q.keys -> Nat]

ServedInv ==
    /\ remote \in [Keys -> Nat]
    /\ group \in [keys : SUBSET Keys, number : Nat]
    /\ DOMAIN readers = Readers
    /\ \A q \in sent : RequestIsSent(q)
    /\ \A r \in Readers : ReaderIsServed(r)

-----------------------------------------------------------------------------

\* A reader that becomes another record, while requests, group and source stay.
LEMMA ReaderMoves ==
    ASSUME ServedInv, NEW r \in Readers, NEW reader, readers' = [readers EXCEPT ![r] = reader],
           UNCHANGED <<remote, sent>>,
           group' \in [keys : SUBSET Keys, number : Nat], group'.number = group.number,
           group.keys \subseteq group'.keys,
           ReaderIsServed(r)'
    PROVE  ServedInv'
<1>1. ASSUME NEW x \in Readers PROVE ReaderIsServed(x)'
  <2>1. CASE x # r
    BY <2>1 DEF ServedInv, ReaderIsServed
  <2> QED BY <2>1
<1>2. ASSUME NEW q \in sent' PROVE RequestIsSent(q)'
  BY <1>2 DEF ServedInv, RequestIsSent
<1> QED BY <1>1, <1>2 DEF ServedInv

\* A reader joins the group that is gathered, and no request that was sent.
LEMMA Joins ==
    ASSUME ServedInv, NEW r \in Readers, NEW k \in Keys, NEW since \in Nat, since <= remote[k],
           readers' = [readers EXCEPT ![r] = [step |-> "grouped", key |-> k, since |-> since,
                                              number |-> group.number, answer |-> NotCached]],
           group' = [group EXCEPT !.keys = @ \cup {k}],
           UNCHANGED <<remote, sent>>
    PROVE  ServedInv'
<1>1. group' \in [keys : SUBSET Keys, number : Nat] /\ group'.number = group.number
      /\ group.keys \subseteq group'.keys /\ k \in group'.keys
  BY DEF ServedInv
<1>2. \A q \in sent : q.number # group.number
  BY DEF ServedInv, RequestIsSent
<1>3. ReaderIsServed(r)'
  BY <1>1, <1>2 DEF ServedInv, ReaderIsServed
<1> QED BY <1>1, <1>3, ReaderMoves

LEMMA ServedInvStep == ServedInv /\ [GroupedCacheNext]_cvars => ServedInv'
<1> SUFFICES ASSUME ServedInv, [GroupedCacheNext]_cvars PROVE ServedInv'
  OBVIOUS
<1>1. ASSUME NEW k \in Keys, EditRemote(k) PROVE ServedInv'
  <2>1. /\ remote' \in [Keys -> Nat] /\ \A x \in Keys : remote[x] \in Nat /\ remote[x] <= remote'[x]
        /\ UNCHANGED <<group, sent, readers>>
    BY <1>1 DEF EditRemote, ServedInv
  <2>2. ASSUME NEW r \in Readers PROVE ReaderIsServed(r)'
    <3>1. readers[r].step \in {"checking", "grouped"} => readers[r].since <= remote'[readers[r].key]
      BY <2>1 DEF ServedInv, ReaderIsServed
    <3> QED BY <2>1, <3>1 DEF ServedInv, ReaderIsServed
  <2> QED BY <2>1, <2>2 DEF ServedInv, RequestIsSent
<1>2. ASSUME NEW r \in Readers, NEW k \in Keys, NEW refresh \in BOOLEAN, Get(r, k, refresh) PROVE ServedInv'
  <2>1. remote[k] \in Nat /\ UNCHANGED <<remote, sent>>
    BY <1>2 DEF Get, ServedInv
  <2>2. CASE refresh
    <3>1. /\ readers' = [readers EXCEPT ![r] = [step |-> "grouped", key |-> k, since |-> remote[k],
                                                number |-> group.number, answer |-> NotCached]]
          /\ group' = [group EXCEPT !.keys = @ \cup {k}]
      BY <1>2, <2>2 DEF Get, Joined
    <3>2. remote[k] <= remote[k]
      BY <2>1
    <3> DEFINE since == remote[k]
    <3>3. since \in Nat /\ since <= remote[k] /\ UNCHANGED <<remote, sent>>
      BY <2>1, <3>2
    <3>4. /\ readers' = [readers EXCEPT ![r] = [step |-> "grouped", key |-> k, since |-> since,
                                                number |-> group.number, answer |-> NotCached]]
          /\ group' = [group EXCEPT !.keys = @ \cup {k}]
      BY <3>1
    <3> HIDE DEF since
    <3> QED BY <3>3, <3>4, Joins
  <2>3. CASE ~refresh
    <3>1. /\ readers' = [readers EXCEPT ![r] = [step |-> "checking", key |-> k, since |-> remote[k],
                                                number |-> 0, answer |-> NotCached]]
          /\ group' = group
      BY <1>2, <2>3 DEF Get, Done
    <3>2. ReaderIsServed(r)'
      BY <2>1, <3>1 DEF ServedInv, ReaderIsServed
    <3> QED BY <2>1, <3>1, <3>2, ReaderMoves DEF ServedInv
  <2> QED BY <2>2, <2>3
<1>3. ASSUME NEW r \in Readers, CheckCache(r) PROVE ServedInv'
  <2> DEFINE k == readers[r].key
             since == readers[r].since
  <2>1. UNCHANGED <<remote, sent>> /\ k \in Keys /\ since \in Nat /\ since <= remote[k]
    BY <1>3 DEF CheckCache, ServedInv, ReaderIsServed
  <2>2. CASE cache[k] = NotCached
    <3>1. /\ readers' = [readers EXCEPT ![r] = [step |-> "grouped", key |-> k, since |-> since,
                                                number |-> group.number, answer |-> NotCached]]
          /\ group' = [group EXCEPT !.keys = @ \cup {k}]
      BY <1>3, <2>2 DEF CheckCache, Joined
    <3> HIDE DEF k, since
    <3> QED BY <2>1, <3>1, Joins
  <2>3. CASE cache[k] # NotCached
    <3>1. readers' = [readers EXCEPT ![r] = Done] /\ group' = group
      BY <1>3, <2>3 DEF CheckCache
    <3>2. ReaderIsServed(r)'
      BY <3>1 DEF ServedInv, ReaderIsServed, Done
    <3> QED BY <2>1, <3>1, <3>2, ReaderMoves DEF ServedInv
  <2> QED BY <2>2, <2>3
<1>4. ASSUME NEW r \in Readers, Populate(r) PROVE ServedInv'
  <2>1. readers' = [readers EXCEPT ![r] = Done] /\ UNCHANGED <<remote, group, sent>>
    BY <1>4 DEF Populate
  <2>2. ReaderIsServed(r)'
    BY <2>1 DEF ServedInv, ReaderIsServed, Done
  <2> QED BY <2>1, <2>2, ReaderMoves DEF ServedInv
<1>5. ASSUME DoGroupedRequest PROVE ServedInv'
  <2>1. /\ sent' = sent \cup {[number |-> group.number, keys |-> group.keys, results |-> NotCached]}
        /\ group' = [keys |-> {}, number |-> group.number + 1]
        /\ UNCHANGED <<remote, readers>>
    BY <1>5 DEF DoGroupedRequest
  <2>2. ASSUME NEW q \in sent' PROVE RequestIsSent(q)'
    BY <2>1 DEF ServedInv, RequestIsSent
  <2>3. ASSUME NEW r \in Readers PROVE ReaderIsServed(r)'
    BY <2>1 DEF ServedInv, ReaderIsServed
  <2> QED BY <2>1, <2>2, <2>3 DEF ServedInv
<1>6. ASSUME NEW request \in sent, ReadRemote(request) PROVE ServedInv'
  <2> DEFINE read == [request EXCEPT !.results = [k \in request.keys |-> remote[k]]]
  <2>1. sent' = (sent \ {request}) \cup {read} /\ UNCHANGED <<remote, group, readers>>
    BY <1>6 DEF ReadRemote
  <2>2. read.number = request.number /\ read.keys = request.keys
        /\ (read.results # NotCached => read.results = [k \in request.keys |-> remote[k]])
    OBVIOUS
  <2>3. ASSUME NEW q \in sent' PROVE RequestIsSent(q)'
    <3> HIDE DEF read
    <3> QED BY <2>1, <2>2 DEF ServedInv, RequestIsSent
  <2>4. ASSUME NEW r \in Readers PROVE ReaderIsServed(r)'
    <3> HIDE DEF read
    <3> QED BY <2>1, <2>2 DEF ServedInv, ReaderIsServed
  <2> QED BY <2>1, <2>3, <2>4 DEF ServedInv
<1>7. ASSUME NEW request \in sent, ResolveGroup(request) PROVE ServedInv'
  <2>1. sent' = sent \ {request} /\ UNCHANGED <<remote, group>> /\ request.results # NotCached
        /\ DOMAIN readers' = Readers
    BY <1>7 DEF ResolveGroup
  <2>2. ASSUME NEW r \in Readers PROVE ReaderIsServed(r)'
    <3>1. CASE r \notin Waiting(request)
      <4>1. readers'[r] = readers[r]
        BY <1>7, <3>1 DEF ResolveGroup
      <4> QED BY <2>1, <4>1 DEF ServedInv, ReaderIsServed
    <3>2. CASE r \in Waiting(request)
      <4> DEFINE answer == request.results[readers[r].key]
      <4>1. readers[r].key \in request.keys /\ readers[r].since \in Nat /\ answer \in Nat
            /\ readers[r].since <= answer
        BY <2>1, <3>2 DEF Waiting, ServedInv, ReaderIsServed, RequestIsSent
      <4>2. readers'[r] = [readers[r] EXCEPT !.step = "answered", !.answer = answer]
        BY <1>7, <3>2, <4>1 DEF ResolveGroup
      <4>3. readers'[r].since = readers[r].since
            /\ ("answer" \in DOMAIN readers[r] => readers'[r].answer = answer)
        BY <4>2
      <4> HIDE DEF answer
      <4> QED BY <4>1, <4>2, <4>3 DEF ReaderIsServed
    <3> QED BY <3>1, <3>2
  <2>3. ASSUME NEW q \in sent' PROVE RequestIsSent(q)'
    BY <2>1 DEF ServedInv, RequestIsSent
  <2> QED BY <2>1, <2>2, <2>3 DEF ServedInv
<1>8. ASSUME NEW request \in sent, RejectGroup(request) PROVE ServedInv'
  <2>1. sent' \subseteq sent /\ UNCHANGED <<remote, group>> /\ DOMAIN readers' = Readers
        /\ \A r \in Readers : readers'[r] \in {Done, readers[r]}
    BY <1>8 DEF RejectGroup
  <2>2. ASSUME NEW r \in Readers PROVE ReaderIsServed(r)'
    BY <2>1 DEF ServedInv, ReaderIsServed, Done
  <2> QED BY <2>1, <2>2 DEF ServedInv, RequestIsSent
<1>9. CASE WriteCache
  BY <1>9 DEF WriteCache, ServedInv, ReaderIsServed, RequestIsSent
<1>10. ASSUME NEW k \in Keys, Expire(k) PROVE ServedInv'
  BY <1>10 DEF Expire, ServedInv, ReaderIsServed, RequestIsSent
<1>11. CASE UNCHANGED cvars
  BY <1>11 DEF cvars, ServedInv, ReaderIsServed, RequestIsSent
<1> QED BY <1>1, <1>2, <1>3, <1>4, <1>5, <1>6, <1>7, <1>8, <1>9, <1>10, <1>11 DEF GroupedCacheNext

-----------------------------------------------------------------------------

\* A fetched value is at least as recent as the call that asked for it: a call never
\* joins a request that was already sent (lib/request_grouper.ts, where the group
\* is reset before its request is made).
THEOREM FetchedIsRecent == GroupedCacheSpec => []FetchedEntitiesAreRecent
<1>1. GroupedCacheInit => ServedInv
  BY DEF GroupedCacheInit, ServedInv, ReaderIsServed, Done
<1>2. ServedInv => FetchedEntitiesAreRecent
  BY NotCachedAssumption DEF ServedInv, ReaderIsServed, FetchedEntitiesAreRecent
<1> QED BY <1>1, <1>2, ServedInvStep, PTL DEF GroupedCacheSpec

-----------------------------------------------------------------------------
(* Indexation. *)

Op == [doc : Docs, seq : Nat, kept : BOOLEAN]

\* The batches in flight in the order of their operations, the one being gathered last.
Gathered == Append(posts, batch)
Follows(j, m, i, n) == i < j \/ (i = j /\ n < m)
Lacks(bs, d) == \A i \in DOMAIN bs : \A n \in DOMAIN bs[i] : ~Changes(bs[i][n], d)
LastOf(bs, d, i, n) ==
    Changes(bs[i][n], d) /\ \A j \in DOMAIN bs : \A m \in DOMAIN bs[j] : Follows(j, m, i, n) => ~Changes(bs[j][m], d)

\* All the operations that change document d are c, or none is, or all those after one that is c.
AllAre(bs, d, c) == \A i \in DOMAIN bs : \A n \in DOMAIN bs[i] : Changes(bs[i][n], d) => bs[i][n] = c
NoneIs(bs, d, c) == \A i \in DOMAIN bs : \A n \in DOMAIN bs[i] : Changes(bs[i][n], d) => bs[i][n] # c
FromThen(bs, d, c) ==
    \A i, j \in DOMAIN bs : \A n \in DOMAIN bs[i], m \in DOMAIN bs[j] :
        Changes(bs[i][n], d) /\ Changes(bs[j][m], d) /\ Follows(j, m, i, n) /\ bs[i][n] = c => bs[j][m] = c

\* Sequence numbers: each is that of one change, and those received are not beyond the last one.
Reached(n) == n \in Nat /\ \E d \in Docs : n <= couch[d].seq
SeqsInv ==
    /\ couch \in [Docs -> [seq : Nat, kept : BOOLEAN]]
    /\ \E m \in Docs : \A d \in Docs : couch[d].seq <= couch[m].seq
    /\ \A d, e \in Docs : couch[d].seq = couch[e].seq /\ couch[d].seq # 0 => d = e
    /\ lastSeq \in [saved : Nat, waiting : Nat \cup {Nothing}] /\ Reached(lastSeq.saved)
    /\ Running => /\ Reached(following) /\ lastSeq.saved <= following
                  /\ lastSeq.waiting # Nothing => lastSeq.waiting <= following

\* An operation in flight is about the last version of its document or an older one.
OpHolds(o) ==
    o \in Op /\ o.seq <= couch[o.doc].seq /\ (o.seq = couch[o.doc].seq => o = Operation(o.doc))
FlightInv ==
    /\ posts \in Seq(Seq(Op)) /\ batch \in Seq(Op) /\ index \in [Docs -> Nat]
    /\ \A o \in formatting : OpHolds(o) /\ o.doc \notin Layers
    /\ \A i \in DOMAIN Gathered : \A n \in DOMAIN Gathered[i] : OpHolds(Gathered[i][n])
    /\ ~Running => formatting = {} /\ batch = <<>> /\ posts = <<>> /\ job = Nothing

\* The index has the last version of a layer.
LayerIndexed(d) == index[d] = couch[d].seq /\ index[d] # 0

\* The job being worked on has read the version of its change or a later one. If there is
\* another version since, no operation is about it, and a change or a job will tell it.
JobHolds ==
    /\ job.job \in jobs /\ job.read.doc = job.job.doc /\ OpHolds(job.read) /\ job.read.kept
    /\ job.job.id = couch[job.read.doc].seq => job.read = Operation(job.read.doc)
    /\ job.read # Operation(job.read.doc) =>
          /\ ~LayerIndexed(job.read.doc) /\ NoneIs(Gathered, job.read.doc, Operation(job.read.doc))
          /\ \/ couch[job.read.doc].seq > following
             \/ \E j \in jobs \ {job.job} : j.doc = job.read.doc /\ j.id = couch[j.doc].seq
             \/ job.read.doc \in amiss

\* Once an operation is about the last version of a layer, those that follow are too; also
\* once this version is in the index, unless posts were inverted.
LayerHolds(d) ==
    /\ index[d] <= couch[d].seq /\ (LayerIndexed(d) => couch[d].kept)
    /\ FromThen(Gathered, d, Operation(d))
    /\ d \notin amiss /\ LayerIndexed(d) => AllAre(Gathered, d, Operation(d))

\* A job is that of a version to be indexed.
IsJob(j) ==
    /\ j \in [doc : Layers, id : Nat \ {0}, tries : Nat] /\ j.id <= couch[j.doc].seq
    /\ j.id = couch[j.doc].seq => couch[j.doc].kept

LayersInv ==
    /\ \A j \in jobs : IsJob(j)
    /\ job # Nothing => JobHolds
    /\ \A d \in Layers : LayerHolds(d)

\* The change of a document is still to come, or has a job, or is in a formatter, or is the
\* last one in the batches, or is in the index; that of a layer out of the index is to come or amiss.
From == IF Running THEN following ELSE lastSeq.saved
HasJob(d) == \E j \in jobs : j.doc = d /\ j.id = couch[d].seq
LastIsCurrent(bs, d) ==
    /\ \A i \in DOMAIN bs : \A n \in DOMAIN bs[i] : LastOf(bs, d, i, n) => bs[i][n] = Operation(d)
    /\ Lacks(bs, d) => Indexed(d)
Followed(d) ==
    \/ couch[d].seq > From
    \/ HasJob(d)
    \/ Operation(d) \in formatting
    \/ (\A o \in formatting : o.doc # d) /\ LastIsCurrent(Gathered, d)

OutInv == \A d \in Layers : couch[d].kept \/ couch[d].seq = 0 \/ couch[d].seq > From \/ d \in amiss
IndexInv == SeqsInv /\ FlightInv /\ LayersInv /\ OutInv /\ \A d \in Docs \ amiss : Followed(d)

-----------------------------------------------------------------------------

LEMMA Appended ==
    ASSUME NEW S, NEW s \in Seq(S), NEW e \in S
    PROVE  /\ DOMAIN Append(s, e) = 1..(Len(s) + 1) /\ Append(s, e)[Len(s) + 1] = e
           /\ \A i \in DOMAIN s : Append(s, e)[i] = s[i]
OBVIOUS

LEMMA GatheredIs ==
    ASSUME FlightInv
    PROVE  /\ Gathered \in Seq(Seq(Op)) /\ Len(posts) \in Nat /\ Len(batch) \in Nat
           /\ DOMAIN Gathered = 1..(Len(posts) + 1) /\ DOMAIN posts = 1..Len(posts)
           /\ Gathered[Len(posts) + 1] = batch /\ DOMAIN batch = 1..Len(batch)
           /\ \A i \in DOMAIN posts : Gathered[i] = posts[i]
           /\ \A i \in DOMAIN Gathered : Gathered[i] \in Seq(Op)
BY DEF FlightInv, Gathered

\* Nothing in flight is about a document that is not in flight.
LEMMA NotInFlight ==
    ASSUME FlightInv, NEW d, ~InFlight(d)
    PROVE  Lacks(Gathered, d) /\ \A o \in formatting : o.doc # d
<1>1. \A o \in formatting \cup Ops(batch) \cup UNION {Ops(posts[i]) : i \in DOMAIN posts} : o.doc # d
  BY DEF InFlight
<1>2. ASSUME NEW i \in DOMAIN Gathered, NEW n \in DOMAIN Gathered[i]
      PROVE  Gathered[i][n].doc # d
  <2>1. CASE i = Len(posts) + 1
    BY <1>1, <2>1, GatheredIs DEF Ops
  <2>2. CASE i \in DOMAIN posts
    <3>1. Gathered[i] = posts[i] /\ Gathered[i][n] \in Ops(posts[i])
      BY <2>2, GatheredIs DEF Ops
    <3>. QED BY <1>1, <2>2, <3>1
  <2>. QED BY <2>1, <2>2, GatheredIs
<1>. QED BY <1>1, <1>2 DEF Lacks, Changes

-----------------------------------------------------------------------------

\* Operation o is added after those of the last batch.
GrownBy(bs, cs, o, l, k) ==
    /\ l \in DOMAIN bs /\ DOMAIN cs = DOMAIN bs /\ DOMAIN bs \subseteq Nat /\ \A i \in DOMAIN bs : i <= l
    /\ \A i \in DOMAIN bs : i # l => cs[i] = bs[i]
    /\ DOMAIN cs[l] = DOMAIN bs[l] \cup {k} /\ k \in Nat /\ DOMAIN bs[l] \subseteq Nat
    /\ \A n \in DOMAIN bs[l] : n < k /\ cs[l][n] = bs[l][n]
    /\ cs[l][k] = o

LEMMA BatchGrows ==
    ASSUME FlightInv, NEW o \in Op, batch' = Append(batch, o), posts' = posts
    PROVE  batch' \in Seq(Op) /\ GrownBy(Gathered, Gathered', o, Len(posts) + 1, Len(batch) + 1)
<1>1. batch' \in Seq(Op) /\ Gathered' = Append(posts, Append(batch, o))
  BY DEF Gathered, FlightInv
<1>2. DOMAIN Gathered' = 1..(Len(posts) + 1) /\ Gathered'[Len(posts) + 1] = Append(batch, o)
      /\ \A i \in DOMAIN posts : Gathered'[i] = posts[i]
  <2>1. posts \in Seq(Seq(Op)) /\ Append(batch, o) \in Seq(Op)
    BY DEF FlightInv
  <2>2. PICK b, T : b = Append(batch, o) /\ T = Seq(Op)
    OBVIOUS
  <2>4. posts \in Seq(T) /\ b \in T
    BY <2>1, <2>2
  <2>3. /\ DOMAIN Append(posts, b) = 1..(Len(posts) + 1) /\ Append(posts, b)[Len(posts) + 1] = b
        /\ \A i \in DOMAIN posts : Append(posts, b)[i] = posts[i]
    BY <2>4, Appended
  <2>. QED BY <1>1, <2>2, <2>3
<1>3. DOMAIN Append(batch, o) = 1..(Len(batch) + 1) /\ Append(batch, o)[Len(batch) + 1] = o
      /\ \A n \in DOMAIN batch : Append(batch, o)[n] = batch[n]
  BY GatheredIs DEF FlightInv
<1>. QED BY <1>1, <1>2, <1>3, GatheredIs DEF GrownBy

\* What the new operation changes.
LEMMA Growth ==
    ASSUME NEW bs, NEW cs, NEW o, NEW l, NEW k, GrownBy(bs, cs, o, l, k)
    PROVE  /\ \A i \in DOMAIN cs : \A n \in DOMAIN cs[i] :
                 \/ i \in DOMAIN bs /\ n \in DOMAIN bs[i] /\ cs[i][n] = bs[i][n] /\ Follows(l, k, i, n)
                 \/ i = l /\ n = k
           /\ l \in DOMAIN cs /\ k \in DOMAIN cs[l] /\ cs[l][k] = o
           /\ \A i \in DOMAIN bs : \A n \in DOMAIN bs[i] : i \in DOMAIN cs /\ n \in DOMAIN cs[i] /\ cs[i][n] = bs[i][n]
<1>1. ASSUME NEW i \in DOMAIN bs, NEW n \in DOMAIN bs[i]
      PROVE  i \in DOMAIN cs /\ n \in DOMAIN cs[i] /\ cs[i][n] = bs[i][n] /\ Follows(l, k, i, n)
  <2>1. CASE i = l
    BY <2>1 DEF GrownBy, Follows
  <2>2. CASE i # l
    BY <2>2 DEF GrownBy, Follows
  <2>. QED BY <2>1, <2>2
<1>2. ASSUME NEW i \in DOMAIN cs, NEW n \in DOMAIN cs[i], ~(i = l /\ n = k)
      PROVE  i \in DOMAIN bs /\ n \in DOMAIN bs[i]
  BY <1>2 DEF GrownBy
<1>. QED BY <1>1, <1>2 DEF GrownBy

LEMMA GrowthOfOthers ==
    ASSUME NEW bs, NEW cs, NEW o, NEW l, NEW k, GrownBy(bs, cs, o, l, k), NEW d, ~Changes(o, d)
    PROVE  /\ \A i \in DOMAIN cs : \A n \in DOMAIN cs[i] : LastOf(cs, d, i, n) =>
                 i \in DOMAIN bs /\ n \in DOMAIN bs[i] /\ LastOf(bs, d, i, n) /\ cs[i][n] = bs[i][n]
           /\ Lacks(cs, d) => Lacks(bs, d)
           /\ \A c : FromThen(bs, d, c) => FromThen(cs, d, c)
           /\ \A c : AllAre(bs, d, c) => AllAre(cs, d, c)
           /\ \A c : NoneIs(bs, d, c) => NoneIs(cs, d, c)
<1>1. /\ \A i \in DOMAIN cs : \A n \in DOMAIN cs[i] : Changes(cs[i][n], d) =>
            i \in DOMAIN bs /\ n \in DOMAIN bs[i] /\ cs[i][n] = bs[i][n]
      /\ \A i \in DOMAIN bs : \A n \in DOMAIN bs[i] : i \in DOMAIN cs /\ n \in DOMAIN cs[i] /\ cs[i][n] = bs[i][n]
  BY Growth
<1>2. \A i \in DOMAIN cs : \A n \in DOMAIN cs[i] : LastOf(cs, d, i, n) =>
         i \in DOMAIN bs /\ n \in DOMAIN bs[i] /\ LastOf(bs, d, i, n) /\ cs[i][n] = bs[i][n]
  BY <1>1 DEF LastOf
<1>3. \A c : FromThen(bs, d, c) => FromThen(cs, d, c)
  BY <1>1 DEF FromThen
<1>4. Lacks(cs, d) => Lacks(bs, d)
  BY <1>1 DEF Lacks
<1>5. \A c : AllAre(bs, d, c) => AllAre(cs, d, c)
  BY <1>1 DEF AllAre
<1>6. \A c : NoneIs(bs, d, c) => NoneIs(cs, d, c)
  BY <1>1 DEF NoneIs
<1>. QED BY <1>2, <1>3, <1>4, <1>5, <1>6

LEMMA GrowthOfItself ==
    ASSUME NEW bs, NEW cs, NEW o, NEW l, NEW k, GrownBy(bs, cs, o, l, k), NEW d, Changes(o, d)
    PROVE  /\ \A i \in DOMAIN cs : \A n \in DOMAIN cs[i] : LastOf(cs, d, i, n) => cs[i][n] = o
           /\ ~Lacks(cs, d)
           /\ \A c : FromThen(bs, d, c) /\ (o = c \/ NoneIs(bs, d, c)) => FromThen(cs, d, c)
           /\ AllAre(bs, d, o) => AllAre(cs, d, o)
<1>1. l \in DOMAIN cs /\ k \in DOMAIN cs[l] /\ cs[l][k] = o
  BY Growth
<1>2. \A i \in DOMAIN cs : \A n \in DOMAIN cs[i] : LastOf(cs, d, i, n) => cs[i][n] = o
  BY <1>1, Growth DEF LastOf
<1>3. ~Lacks(cs, d)
  BY <1>1 DEF Lacks
<1>4. ASSUME NEW c, FromThen(bs, d, c), o = c \/ NoneIs(bs, d, c)
      PROVE  FromThen(cs, d, c)
  <2>. SUFFICES ASSUME NEW i \in DOMAIN cs, NEW j \in DOMAIN cs, NEW n \in DOMAIN cs[i], NEW m \in DOMAIN cs[j],
                       Changes(cs[i][n], d), Changes(cs[j][m], d), Follows(j, m, i, n), cs[i][n] = c
                PROVE  cs[j][m] = c
    BY DEF FromThen
  <2>1. i \in DOMAIN bs /\ n \in DOMAIN bs[i] /\ cs[i][n] = bs[i][n]
    <3>1. ~(i = l /\ n = k)
      <4>. SUFFICES ASSUME i = l, n = k PROVE FALSE
        OBVIOUS
      <4>1. l \in Nat /\ k \in Nat /\ j \in Nat /\ j <= l
        BY DEF GrownBy
      <4>2. j = l /\ k < m
        BY <4>1 DEF Follows
      <4>3. m \in DOMAIN bs[l] \/ m = k
        BY <4>2 DEF GrownBy
      <4>. QED BY <4>1, <4>2, <4>3 DEF GrownBy
    <3>. QED BY <3>1, Growth
  <2>2. CASE j = l /\ m = k
    BY <1>1, <1>4, <2>1, <2>2 DEF NoneIs
  <2>3. CASE j \in DOMAIN bs /\ m \in DOMAIN bs[j] /\ cs[j][m] = bs[j][m]
    BY <1>4, <2>1, <2>3 DEF FromThen
  <2>. QED BY <2>2, <2>3, Growth
<1>5. AllAre(bs, d, o) => AllAre(cs, d, o)
  BY Growth DEF AllAre
<1>. QED BY <1>2, <1>3, <1>4, <1>5

-----------------------------------------------------------------------------

\* A set of numbers up to n has a greatest one.
LEMMA Greatest ==
    ASSUME NEW n \in Nat, NEW S, S \subseteq 1..n, S # {}
    PROVE  \E v \in S : \A w \in S : w <= v
<1>. DEFINE D == {n - v : v \in S}
            R == {p \in Nat \X Nat : p[1] < p[2]}
<1>1. IsWellFoundedOn(R, Nat)
  BY Zenon, NatLessThanWellFounded DEF OpToRel
<1>2. \A v \in S : n - v \in Nat /\ v \in Int
  OBVIOUS
<1>3. D \subseteq Nat /\ D # {}
  BY <1>2
<1>4. PICK x \in D : \A y \in D : ~(<<y, x>> \in R)
  <2>. HIDE DEF D, R
  <2>. QED BY <1>1, <1>3, WFMin
<1>5. PICK v \in S : x = n - v
  OBVIOUS
<1>6. ASSUME NEW w \in S PROVE w <= v
  <2>1. n - w \in D /\ n - w \in Nat /\ n - v \in Nat
    BY <1>2
  <2>2. ~(n - w < n - v)
    BY <2>1, <1>4, <1>5
  <2>. QED BY <2>1, <2>2, <1>2
<1>. QED BY <1>6

\* The last operation of a batch that changes a document.
ChangesIn(ops, d) == {n \in DOMAIN ops : Changes(ops[n], d)}
LastIn(ops, d) == CHOOSE n \in ChangesIn(ops, d) : \A m \in ChangesIn(ops, d) : m <= n
LEMMA LastInIs ==
    ASSUME NEW ops \in Seq(Op), NEW d, ChangesIn(ops, d) # {}
    PROVE  /\ LastIn(ops, d) \in DOMAIN ops /\ Changes(ops[LastIn(ops, d)], d)
           /\ \A m \in DOMAIN ops : Changes(ops[m], d) => m <= LastIn(ops, d)
<1>1. ChangesIn(ops, d) \subseteq 1..Len(ops) /\ Len(ops) \in Nat
  BY DEF ChangesIn
<1>2. \E n \in ChangesIn(ops, d) : \A m \in ChangesIn(ops, d) : m <= n
  BY <1>1, Greatest
<1>3. LastIn(ops, d) \in ChangesIn(ops, d) /\ \A m \in ChangesIn(ops, d) : m <= LastIn(ops, d)
  BY <1>2 DEF LastIn
<1>. QED BY <1>3 DEF ChangesIn

\* Batch k is taken out of those in flight.
Beyond(k, i) == IF i < k THEN i ELSE i + 1
Back(k, i) == IF i < k THEN i ELSE i - 1
TakenFrom(bs, cs, k, l) ==
    /\ l \in Nat /\ k \in 1..l
    /\ DOMAIN bs = 1..(l + 1) /\ DOMAIN cs = 1..l
    /\ \A i \in 1..l : cs[i] = bs[Beyond(k, i)]
    /\ \A i \in 1..(l + 1) : DOMAIN bs[i] \subseteq Nat

LEMMA PostsWithout ==
    ASSUME FlightInv, NEW k \in DOMAIN posts, posts' = Without(k), batch' = batch
    PROVE  posts' \in Seq(Seq(Op)) /\ TakenFrom(Gathered, Gathered', k, Len(posts))
<1>. PICK T : T = Seq(Op)
  OBVIOUS
<1>1. posts \in Seq(T) /\ batch \in T /\ k \in 1..Len(posts) /\ Len(posts) \in Nat
  BY DEF FlightInv
<1>2. SubSeq(posts, 1, k - 1) \in Seq(T) /\ Len(SubSeq(posts, 1, k - 1)) = k - 1
      /\ \A i \in 1..(k - 1) : SubSeq(posts, 1, k - 1)[i] = posts[i]
  BY <1>1
<1>3. SubSeq(posts, k + 1, Len(posts)) \in Seq(T) /\ Len(SubSeq(posts, k + 1, Len(posts))) = Len(posts) - k
      /\ \A i \in 1..(Len(posts) - k) : SubSeq(posts, k + 1, Len(posts))[i] = posts[k + i]
  BY <1>1
<1>4. PICK a, b : a = SubSeq(posts, 1, k - 1) /\ b = SubSeq(posts, k + 1, Len(posts))
  OBVIOUS
<1>5. posts' = a \o b
  BY <1>4 DEF Without
<1>6. /\ posts' \in Seq(T) /\ Len(posts') = Len(posts) - 1
      /\ \A i \in 1..(k - 1) : posts'[i] = posts[i]
      /\ \A i \in k..(Len(posts) - 1) : posts'[i] = posts[i + 1]
  <2>1. a \in Seq(T) /\ b \in Seq(T) /\ Len(a) = k - 1 /\ Len(b) = Len(posts) - k
    BY <1>2, <1>3, <1>4
  <2>2. posts' \in Seq(T) /\ Len(posts') = Len(a) + Len(b)
        /\ (\A i \in 1..Len(a) : posts'[i] = a[i])
        /\ \A i \in (Len(a) + 1)..(Len(a) + Len(b)) : posts'[i] = b[i - Len(a)]
    BY <1>5, <2>1
  <2>3. ASSUME NEW i \in k..(Len(posts) - 1) PROVE posts'[i] = posts[i + 1]
    <3>1. i \in (Len(a) + 1)..(Len(a) + Len(b)) /\ i - Len(a) = i - (k - 1)
      BY <2>1, <1>1
    <3>2. posts'[i] = b[i - (k - 1)]
      BY <2>2, <3>1
    <3>3. i - (k - 1) \in 1..(Len(posts) - k) /\ k + (i - (k - 1)) = i + 1
      BY <1>1
    <3>4. b[i - (k - 1)] = posts[k + (i - (k - 1))]
      BY <3>3, <1>3, <1>4
    <3>. QED BY <3>2, <3>3, <3>4
  <2>4. ASSUME NEW i \in 1..(k - 1) PROVE posts'[i] = posts[i]
    <3>1. i \in 1..Len(a)
      BY <2>1
    <3>. QED BY <1>2, <1>4, <2>2, <3>1
  <2>5. Len(posts') = Len(posts) - 1
    BY <1>1, <2>1, <2>2
  <2>. QED BY <2>2, <2>3, <2>4, <2>5
<1>7. /\ DOMAIN Gathered' = 1..Len(posts) /\ Gathered'[Len(posts)] = batch
      /\ \A i \in 1..(Len(posts) - 1) : Gathered'[i] = posts'[i]
  <2>1. Gathered' = Append(posts', batch)
    BY DEF Gathered
  <2>2. DOMAIN posts' = 1..(Len(posts) - 1) /\ Len(posts') + 1 = Len(posts)
    BY <1>1, <1>6
  <2>. QED BY <1>1, <1>6, <2>1, <2>2, Appended
<1>8. ASSUME NEW i \in 1..Len(posts) PROVE Gathered'[i] = Gathered[Beyond(k, i)]
  <2>1. CASE i < k
    <3>1. Beyond(k, i) = i /\ i \in DOMAIN posts /\ i \in 1..(k - 1) /\ i \in 1..(Len(posts) - 1)
      BY <1>1, <2>1, GatheredIs DEF Beyond
    <3>. QED BY <3>1, <1>6, <1>7, GatheredIs
  <2>2. CASE k <= i /\ i < Len(posts)
    <3>1. Beyond(k, i) = i + 1 /\ i + 1 \in DOMAIN posts /\ i \in k..(Len(posts) - 1) /\ i \in 1..(Len(posts) - 1)
      BY <1>1, <2>2, GatheredIs DEF Beyond
    <3>. QED BY <3>1, <1>6, <1>7, GatheredIs
  <2>3. CASE i = Len(posts)
    BY <1>1, <1>7, <2>3, GatheredIs DEF Beyond
  <2>. QED BY <1>1, <2>1, <2>2, <2>3
<1>9. \A i \in 1..(Len(posts) + 1) : DOMAIN Gathered[i] \subseteq Nat
  <2>. SUFFICES ASSUME NEW i \in 1..(Len(posts) + 1) PROVE DOMAIN Gathered[i] \subseteq Nat
    OBVIOUS
  <2>1. Gathered[i] \in Seq(Op)
    BY GatheredIs
  <2>. QED BY <2>1
<1>. QED BY <1>1, <1>6, <1>7, <1>8, <1>9, GatheredIs DEF TakenFrom

LEMMA Taking ==
    ASSUME NEW bs, NEW cs, NEW k, NEW l, TakenFrom(bs, cs, k, l)
    PROVE  /\ \A i \in DOMAIN cs : Beyond(k, i) \in DOMAIN bs /\ cs[i] = bs[Beyond(k, i)] /\ Beyond(k, i) # k
           /\ \A i \in DOMAIN bs : i # k => Back(k, i) \in DOMAIN cs /\ cs[Back(k, i)] = bs[i] /\ Beyond(k, Back(k, i)) = i
           /\ \A i, j \in DOMAIN cs : \A n, m : Follows(j, m, i, n) <=> Follows(Beyond(k, j), m, Beyond(k, i), n)
<1>1. \A i \in DOMAIN cs : Beyond(k, i) \in DOMAIN bs /\ cs[i] = bs[Beyond(k, i)] /\ Beyond(k, i) # k
  BY DEF TakenFrom, Beyond
<1>2. ASSUME NEW i \in DOMAIN bs, i # k
      PROVE  Back(k, i) \in DOMAIN cs /\ Beyond(k, Back(k, i)) = i
  BY <1>2 DEF TakenFrom, Beyond, Back
<1>3. ASSUME NEW i \in DOMAIN cs, NEW j \in DOMAIN cs, NEW n, NEW m
      PROVE  Follows(j, m, i, n) <=> Follows(Beyond(k, j), m, Beyond(k, i), n)
  <2>1. i \in Nat /\ j \in Nat /\ k \in Nat
    BY DEF TakenFrom
  <2>2. (i < j <=> Beyond(k, i) < Beyond(k, j)) /\ (i = j <=> Beyond(k, i) = Beyond(k, j))
    BY <2>1 DEF Beyond
  <2>. QED BY <2>2 DEF Follows
<1>. QED BY <1>1, <1>2, <1>3

LEMMA TakingKeeps ==
    ASSUME NEW bs, NEW cs, NEW k, NEW l, TakenFrom(bs, cs, k, l), NEW d
    PROVE  /\ \A c : FromThen(bs, d, c) => FromThen(cs, d, c)
           /\ \A c : AllAre(bs, d, c) => AllAre(cs, d, c)
           /\ \A c : NoneIs(bs, d, c) => NoneIs(cs, d, c)
<1>1. \A c : FromThen(bs, d, c) => FromThen(cs, d, c)
  BY Taking DEF FromThen
<1>2. \A c : AllAre(bs, d, c) => AllAre(cs, d, c)
  BY Taking DEF AllAre
<1>3. \A c : NoneIs(bs, d, c) => NoneIs(cs, d, c)
  BY Taking DEF NoneIs
<1>. QED BY <1>1, <1>2, <1>3

\* The last operation about a document is the same when the batch taken out has none, or
\* when those before it have none.
LEMMA TakingLast ==
    ASSUME NEW bs, NEW cs, NEW k, NEW l, TakenFrom(bs, cs, k, l), NEW d,
           \/ \A m \in DOMAIN bs[k] : ~Changes(bs[k][m], d)
           \/ \A j \in 1..(k - 1) : \A m \in DOMAIN bs[j] : ~Changes(bs[j][m], d),
           NEW i \in DOMAIN cs, NEW n \in DOMAIN cs[i], LastOf(cs, d, i, n)
    PROVE  LastOf(bs, d, Beyond(k, i), n)
<1>1. Changes(cs[i][n], d) /\ \A j \in DOMAIN cs : \A m \in DOMAIN cs[j] : Follows(j, m, i, n) => ~Changes(cs[j][m], d)
  BY DEF LastOf
<1>2. Beyond(k, i) \in DOMAIN bs /\ cs[i] = bs[Beyond(k, i)]
  BY Taking
<1>3. ASSUME NEW j \in DOMAIN bs, NEW m \in DOMAIN bs[j], Follows(j, m, Beyond(k, i), n)
      PROVE  ~Changes(bs[j][m], d)
  <2>1. CASE j # k
    <3>1. Back(k, j) \in DOMAIN cs /\ cs[Back(k, j)] = bs[j] /\ Beyond(k, Back(k, j)) = j
      BY <2>1, Taking
    <3>2. Follows(Back(k, j), m, i, n)
      BY <1>3, <3>1, Taking
    <3>. QED BY <1>1, <3>1, <3>2
  <2>2. CASE j = k /\ \A p \in DOMAIN bs[k] : ~Changes(bs[k][p], d)
    BY <2>2
  <2>3. CASE j = k /\ \A p \in 1..(k - 1) : \A q \in DOMAIN bs[p] : ~Changes(bs[p][q], d)
    <3>1. Beyond(k, i) # k /\ i \in Nat /\ k \in Nat /\ i >= 1
      <4>1. Beyond(k, i) # k
        BY Taking
      <4>2. i \in Nat /\ k \in Nat /\ i >= 1
        BY DEF TakenFrom
      <4>. QED BY <4>1, <4>2
    <3>2. Beyond(k, i) < k
      BY <1>3, <2>3, <3>1 DEF Follows, Beyond
    <3>3. Beyond(k, i) \in 1..(k - 1)
      BY <3>1, <3>2 DEF Beyond
    <3>. QED BY <1>1, <1>2, <2>3, <3>3
  <2>. QED BY <2>1, <2>2, <2>3
<1>. QED BY <1>1, <1>2, <1>3 DEF LastOf

LEMMA TakingLacks ==
    ASSUME NEW bs, NEW cs, NEW k, NEW l, TakenFrom(bs, cs, k, l), NEW d, Lacks(cs, d)
    PROVE  /\ (\A m \in DOMAIN bs[k] : ~Changes(bs[k][m], d)) => Lacks(bs, d)
           /\ \A n \in DOMAIN bs[k] : Changes(bs[k][n], d) /\ (\A m \in DOMAIN bs[k] : Changes(bs[k][m], d) => m <= n)
                 => LastOf(bs, d, k, n)
<1>1. \A j \in DOMAIN bs : \A m \in DOMAIN bs[j] : Changes(bs[j][m], d) => j = k
  BY Taking DEF Lacks
<1>2. ASSUME NEW n \in DOMAIN bs[k], Changes(bs[k][n], d), \A m \in DOMAIN bs[k] : Changes(bs[k][m], d) => m <= n
      PROVE  LastOf(bs, d, k, n)
  <2>1. k \in Nat /\ DOMAIN bs[k] \subseteq Nat
    BY DEF TakenFrom
  <2>. QED BY <1>1, <1>2, <2>1 DEF LastOf, Follows
<1>. QED BY <1>1, <1>2 DEF Lacks

-----------------------------------------------------------------------------

LEMMA LastSeqIs ==
    ASSUME SeqsInv
    PROVE  /\ DbLastSeq \in Nat /\ \A d \in Docs : couch[d].seq <= DbLastSeq
           /\ \E m \in Docs : couch[m].seq = DbLastSeq
           /\ \A n : Reached(n) => n <= DbLastSeq
<1>1. PICK m \in Docs : \A d \in Docs : couch[d].seq <= couch[m].seq
  BY DEF SeqsInv
<1>2. \E n \in {couch[d].seq : d \in Docs} : \A d \in Docs : couch[d].seq <= n
  BY <1>1
<1>3. DbLastSeq \in {couch[d].seq : d \in Docs} /\ \A d \in Docs : couch[d].seq <= DbLastSeq
  BY <1>2 DEF DbLastSeq
<1>4. DbLastSeq \in Nat /\ \A d \in Docs : couch[d].seq \in Nat
  BY <1>3 DEF SeqsInv
<1>. QED BY <1>3, <1>4 DEF Reached

LEMMA OperationHolds ==
    ASSUME SeqsInv, NEW d \in Docs
    PROVE  OpHolds(Operation(d)) /\ Operation(d).doc = d /\ Operation(d).seq = couch[d].seq
BY DEF SeqsInv, OpHolds, Operation, Op

LEMMA OutGoesOn ==
    ASSUME OutInv, UNCHANGED <<couch, From>>, \A d \in Layers : d \in amiss => couch[d].kept \/ d \in amiss'
    PROVE  OutInv'
BY DEF OutInv

LEMMA InitIndex ==
    ASSUME IndexationInit, Docs # {}
    PROVE  IndexInv
<1>1. posts \in Seq(Seq(Op)) /\ batch \in Seq(Op) /\ Gathered = << <<>> >>
  BY DEF IndexationInit, Gathered
<1>2. SeqsInv
  BY DEF IndexationInit, SeqsInv, Reached, Running
<1>3. FlightInv
  BY <1>1 DEF IndexationInit, FlightInv, Running
<1>4. LayersInv
  BY <1>1, DocsAssumption DEF IndexationInit, LayersInv, LayerHolds, FromThen, AllAre, LayerIndexed
<1>5. ASSUME NEW d \in Docs PROVE Followed(d)
  BY <1>1 DEF IndexationInit, Followed, LastIsCurrent, Indexed
<1>6. OutInv
  BY DocsAssumption DEF IndexationInit, OutInv
<1>. QED BY <1>2, <1>3, <1>4, <1>5, <1>6 DEF IndexInv

LEMMA WriteDocKeeps ==
    ASSUME IndexInv, NEW d \in Docs, NEW kept \in BOOLEAN, WriteDoc(d, kept)
    PROVE  IndexInv'
<1>. USE DEF IndexInv
<1>1. /\ couch' = [couch EXCEPT ![d] = [seq |-> DbLastSeq + 1, kept |-> kept]]
      /\ UNCHANGED <<following, lastSeq, formatting, batch, posts, index, jobs, job, amiss>>
  BY DEF WriteDoc
<1>2. /\ couch \in [Docs -> [seq : Nat, kept : BOOLEAN]] /\ couch' \in [Docs -> [seq : Nat, kept : BOOLEAN]]
      /\ couch'[d].seq = DbLastSeq + 1 /\ \A e \in Docs \ {d} : couch'[e] = couch[e]
      /\ \A e \in Docs : couch[e].seq \in Nat /\ couch'[e].seq \in Nat
      /\ DbLastSeq \in Nat /\ \A e \in Docs : couch[e].seq <= DbLastSeq
  BY <1>1, LastSeqIs DEF SeqsInv
<1>3. \A n : Reached(n) => n <= DbLastSeq /\ Reached(n)'
  BY <1>2, LastSeqIs DEF Reached
<1>4. SeqsInv'
  <2>1. \E m \in Docs : \A e \in Docs : couch'[e].seq <= couch'[m].seq
    BY <1>2
  <2>2. \A e, f \in Docs : couch'[e].seq = couch'[f].seq /\ couch'[e].seq # 0 => e = f
    BY <1>2 DEF SeqsInv
  <2>3. Running' <=> Running
    BY <1>1 DEF Running
  <2>. QED BY <1>1, <1>2, <1>3, <2>1, <2>2, <2>3 DEF SeqsInv
<1>5. \A o : OpHolds(o) => OpHolds(o)'
  BY <1>2 DEF OpHolds, Op, Operation
<1>6. Gathered' = Gathered /\ From' = From /\ (Running' <=> Running)
  BY <1>1 DEF Gathered, From, Running
<1>7. FlightInv'
  BY <1>1, <1>5, <1>6 DEF FlightInv
<1>8. LayersInv'
  <2>0. \A e \in Docs \ {d} : Operation(e)' = Operation(e) /\ (LayerIndexed(e)' <=> LayerIndexed(e))
    BY <1>1, <1>2 DEF Operation, LayerIndexed
  <2>1. NoneIs(Gathered, d, Operation(d)') /\ Operation(d)'.seq = DbLastSeq + 1
    <3>1. Operation(d)'.seq = DbLastSeq + 1
      BY <1>2 DEF Operation
    <3>2. ASSUME NEW i \in DOMAIN Gathered, NEW n \in DOMAIN Gathered[i]
          PROVE  Gathered[i][n] # Operation(d)'
      <4>1. OpHolds(Gathered[i][n])
        BY DEF FlightInv
      <4>2. Gathered[i][n].seq <= DbLastSeq /\ Gathered[i][n].seq \in Nat
        BY <1>2, <4>1 DEF OpHolds, Op
      <4>. QED BY <1>2, <3>1, <4>2
    <3>. QED BY <3>1, <3>2 DEF NoneIs
  <2>2. ASSUME job # Nothing PROVE JobHolds'
    <3>1. JobHolds /\ Running /\ job.read.doc \in Docs /\ IsJob(job.job) /\ job.job.doc = job.read.doc
          /\ index[job.read.doc] <= couch[job.read.doc].seq
      BY <2>2, DocsAssumption DEF LayersInv, FlightInv, JobHolds, OpHolds, Op, LayerHolds, IsJob
    <3>2. CASE job.read.doc = d
      <4>1. couch'[d].seq > following
        BY <1>2, <1>3, <3>1 DEF SeqsInv, Reached
      <4>2. job.job.id # couch'[d].seq
        BY <1>2, <3>1, <3>2 DEF IsJob
      <4>3. ~LayerIndexed(d)'
        BY <1>1, <1>2, <3>1, <3>2 DEF LayerIndexed, FlightInv
      <4>. QED BY <1>1, <1>5, <1>6, <2>1, <3>1, <3>2, <4>1, <4>2, <4>3 DEF JobHolds
    <3>3. CASE job.read.doc # d
      <4>1. couch'[job.read.doc] = couch[job.read.doc]
        BY <1>2, <3>1, <3>3
      <4>. QED BY <1>1, <1>5, <1>6, <2>0, <3>1, <3>3, <4>1 DEF JobHolds
    <3>. QED BY <3>2, <3>3
  <2>3. ASSUME NEW l \in Layers PROVE LayerHolds(l)'
    <3>1. l \in Docs /\ LayerHolds(l) /\ index[l] \in Nat /\ index'[l] = index[l]
      BY <1>1, DocsAssumption DEF LayersInv, FlightInv
    <3>2. CASE l = d
      <4>1. index[d] < couch'[d].seq /\ ~LayerIndexed(d)'
        BY <1>1, <1>2, <3>1, <3>2 DEF LayerHolds, LayerIndexed
      <4>2. FromThen(Gathered, d, Operation(d)')
        BY <2>1 DEF NoneIs, FromThen
      <4>. QED BY <1>2, <1>6, <3>1, <3>2, <4>1, <4>2 DEF LayerHolds
    <3>3. CASE l # d
      <4>1. couch'[l] = couch[l]
        BY <1>2, <3>1, <3>3
      <4>. QED BY <1>1, <1>6, <2>0, <3>1, <3>3, <4>1 DEF LayerHolds
    <3>. QED BY <3>2, <3>3
  <2>4. ASSUME NEW j \in jobs PROVE IsJob(j)'
    <3>1. IsJob(j) /\ j.doc \in Docs /\ j.id \in Nat
      BY DocsAssumption DEF LayersInv, IsJob
    <3>2. CASE j.doc = d
      BY <1>2, <3>1, <3>2 DEF IsJob
    <3>3. CASE j.doc # d
      BY <1>2, <3>1, <3>3 DEF IsJob
    <3>. QED BY <3>2, <3>3
  <2>. QED BY <1>1, <2>2, <2>3, <2>4 DEF LayersInv
<1>10. From <= DbLastSeq /\ From \in Nat
  BY <1>3 DEF From, SeqsInv, Reached
<1>11. OutInv'
  <2>. SUFFICES ASSUME NEW e \in Layers
                PROVE  couch'[e].kept \/ couch'[e].seq = 0 \/ couch'[e].seq > From \/ e \in amiss
    BY <1>1, <1>6 DEF OutInv
  <2>1. CASE e = d
    BY <1>2, <1>10, <2>1
  <2>2. CASE e # d
    BY <1>2, <2>2, DocsAssumption DEF OutInv
  <2>. QED BY <2>1, <2>2
<1>9. ASSUME NEW e \in Docs \ amiss PROVE Followed(e)'
  <2>1. CASE e = d
    BY <1>2, <1>6, <1>10, <2>1 DEF Followed
  <2>2. CASE e # d
    <3>1. couch'[e] = couch[e]
      BY <1>2, <2>2
    <3>. QED BY <1>1, <1>6, <3>1 DEF Followed, HasJob, Operation, LastIsCurrent, Indexed
  <2>. QED BY <2>1, <2>2
<1>. QED BY <1>1, <1>4, <1>7, <1>8, <1>9, <1>11

\* What the operation added to the batch changes, when the database and the index are the same.
LEMMA GrowthKeeps ==
    ASSUME IndexInv, UNCHANGED <<couch, index>>, NEW o, OpHolds(o), NEW l, NEW k,
           GrownBy(Gathered, Gathered', o, l, k)
    PROVE  /\ \A i \in DOMAIN Gathered' : \A n \in DOMAIN Gathered'[i] : OpHolds(Gathered[i][n])'
           /\ \A d \in Docs : ~Changes(o, d) /\ LastIsCurrent(Gathered, d) => LastIsCurrent(Gathered, d)'
           /\ \A d \in Docs : Changes(o, d) /\ o = Operation(d) => LastIsCurrent(Gathered, d)'
           /\ \A d \in Layers : ~Changes(o, d) /\ (d \in amiss => d \in amiss') => LayerHolds(d)'
<1>1. \A p : OpHolds(p) => OpHolds(p)'
  BY DEF OpHolds, Operation
<1>2. \A i \in DOMAIN Gathered' : \A n \in DOMAIN Gathered'[i] : OpHolds(Gathered[i][n])'
  <2>. SUFFICES ASSUME NEW i \in DOMAIN Gathered', NEW n \in DOMAIN Gathered'[i]
                PROVE  OpHolds(Gathered'[i][n])
    BY <1>1
  <2>. QED BY Growth DEF IndexInv, FlightInv
<1>3. \A d : Operation(d)' = Operation(d) /\ (Indexed(d)' <=> Indexed(d)) /\ (LayerIndexed(d)' <=> LayerIndexed(d))
  BY DEF Operation, Indexed, LayerIndexed
<1>4. ASSUME NEW d \in Docs, ~Changes(o, d), LastIsCurrent(Gathered, d)
      PROVE  LastIsCurrent(Gathered, d)'
  BY <1>3, <1>4, GrowthOfOthers DEF LastIsCurrent
<1>5. ASSUME NEW d \in Docs, Changes(o, d), o = Operation(d)
      PROVE  LastIsCurrent(Gathered, d)'
  BY <1>3, <1>5, GrowthOfItself DEF LastIsCurrent
<1>6. ASSUME NEW d \in Layers, ~Changes(o, d), d \in amiss => d \in amiss'
      PROVE  LayerHolds(d)'
  <2>1. LayerHolds(d)
    BY DEF IndexInv, LayersInv
  <2>2. FromThen(Gathered', d, Operation(d))
    BY <1>6, <2>1, GrowthOfOthers DEF LayerHolds
  <2>3. AllAre(Gathered, d, Operation(d)) => AllAre(Gathered', d, Operation(d))
    BY <1>6, GrowthOfOthers
  <2>. QED BY <1>3, <1>6, <2>1, <2>2, <2>3 DEF LayerHolds
<1>. QED BY <1>2, <1>4, <1>5, <1>6

LEMMA JobIsOnLayer ==
    ASSUME IndexInv, job # Nothing
    PROVE  /\ JobHolds /\ Running /\ job.job \in jobs /\ job.read.doc \in Layers /\ job.read.doc \in Docs
           /\ job.read.seq \in Nat /\ job.job.id \in Nat /\ job.job.doc = job.read.doc /\ OpHolds(job.read)
           /\ Changes(job.read, job.read.doc) /\ IsJob(job.job)
<1>1. JobHolds /\ Running
  BY DEF IndexInv, LayersInv, FlightInv
<1>2. job.job \in jobs /\ job.read.doc = job.job.doc /\ OpHolds(job.read) /\ job.read.kept
  BY <1>1 DEF JobHolds
<1>3. IsJob(job.job)
  BY <1>2 DEF IndexInv, LayersInv
<1>. QED BY <1>1, <1>2, <1>3, DocsAssumption DEF OpHolds, Op, IsJob, Changes

\* The job being worked on when operations about other documents are added, and other jobs.
LEMMA JobGoesOn ==
    ASSUME IndexInv, job # Nothing, UNCHANGED <<couch, index, job>>, jobs \subseteq jobs',
           job.read.doc \in amiss => job.read.doc \in amiss',
           \/ Gathered' = Gathered
           \/ \E o, l, k : GrownBy(Gathered, Gathered', o, l, k) /\ ~Changes(o, job.read.doc),
           \/ couch[job.read.doc].seq > following'
           \/ ~(couch[job.read.doc].seq > following)
           \/ job.read.doc \in amiss'
           \/ \E j \in jobs' \ {job.job} : j.doc = job.read.doc /\ j.id = couch[j.doc].seq
    PROVE  JobHolds'
<1>. PICK d : d = job.read.doc
  OBVIOUS
<1>1. JobHolds /\ job'.job = job.job /\ job'.read = job.read
  BY JobIsOnLayer
<1>2. \A e : Operation(e)' = Operation(e) /\ (LayerIndexed(e)' <=> LayerIndexed(e))
  BY DEF Operation, LayerIndexed
<1>3. OpHolds(job.read)'
  BY <1>1 DEF JobHolds, OpHolds, Operation
<1>4. NoneIs(Gathered, d, Operation(d)) => NoneIs(Gathered', d, Operation(d))
  BY GrowthOfOthers
<1>5. ASSUME job.read # Operation(d)
      PROVE  \/ couch[d].seq > following'
             \/ \E j \in jobs' \ {job.job} : j.doc = d /\ j.id = couch[j.doc].seq
             \/ d \in amiss'
  <2>1. \/ couch[d].seq > following
        \/ \E j \in jobs \ {job.job} : j.doc = d /\ j.id = couch[j.doc].seq
        \/ d \in amiss
    BY <1>1, <1>5 DEF JobHolds
  <2>. QED BY <2>1
<1>6. /\ job'.job \in jobs' /\ job'.read.doc = job'.job.doc /\ job'.read.kept
      /\ job'.job.id = couch'[d].seq => job'.read = Operation(d)
  BY <1>1 DEF JobHolds
<1>7. job.read # Operation(d) => ~LayerIndexed(d) /\ NoneIs(Gathered', d, Operation(d))
  BY <1>1, <1>4 DEF JobHolds
<1>. QED BY <1>1, <1>2, <1>3, <1>5, <1>6, <1>7 DEF JobHolds

LEMMA ReceiveChangeKeeps ==
    ASSUME IndexInv, NEW d \in Docs, ReceiveChange(d)
    PROVE  IndexInv'
<1>. USE DEF IndexInv
<1>1. /\ Running /\ following' = couch[d].seq /\ lastSeq' = [lastSeq EXCEPT !.waiting = couch[d].seq]
      /\ couch[d].seq > following
      /\ \A e \in Docs : couch[e].seq <= following \/ couch[e].seq >= couch[d].seq
      /\ UNCHANGED <<couch, posts, index, job>>
  BY DEF ReceiveChange
<1>2. /\ \A e \in Docs : couch[e] \in [seq : Nat, kept : BOOLEAN] /\ couch[e].seq \in Nat
      /\ following \in Nat /\ lastSeq.saved \in Nat /\ lastSeq.saved <= following
  BY <1>1 DEF SeqsInv, Reached
<1>3. \A e \in Docs \ {d} : couch[e].seq > following => couch[e].seq > following'
  BY <1>1, <1>2 DEF SeqsInv
<1>4. Running' /\ From' = couch[d].seq /\ From = following
  BY <1>1, <1>2, NothingAssumption DEF Running, From
<1>5. SeqsInv'
  <2>1. lastSeq' \in [saved : Nat, waiting : Nat \cup {Nothing}] /\ lastSeq'.saved = lastSeq.saved
        /\ lastSeq'.waiting = couch[d].seq
    BY <1>1, <1>2 DEF SeqsInv
  <2>2. Reached(following)' /\ Reached(lastSeq.saved)'
    BY <1>1, <1>2, <2>1 DEF SeqsInv, Reached
  <2>. QED BY <1>1, <1>2, <1>4, <2>1, <2>2 DEF SeqsInv
<1>6. \A o : OpHolds(o) => OpHolds(o)'
  BY <1>1 DEF OpHolds, Operation
<1>7. \A e : Operation(e)' = Operation(e) /\ (Indexed(e)' <=> Indexed(e)) /\ (LayerIndexed(e)' <=> LayerIndexed(e))
  BY <1>1 DEF Operation, Indexed, LayerIndexed
<1>8. OpHolds(Operation(d)) /\ Operation(d) \in Op /\ Operation(d).doc = d /\ Operation(d).kept = couch[d].kept
  BY OperationHolds DEF OpHolds, Operation
<1>13. OutInv'
  <2>1. d \in Layers /\ ~couch[d].kept => d \in amiss'
    BY DEF ReceiveChange
  <2>2. \A e \in Docs \ {d} : e \in amiss => e \in amiss'
    BY DEF ReceiveChange
  <2>3. ASSUME NEW e \in Layers
        PROVE  couch[e].kept \/ couch[e].seq = 0 \/ couch[e].seq > following' \/ e \in amiss'
    BY <1>3, <1>4, <2>1, <2>2, DocsAssumption DEF OutInv
  <2>. QED BY <1>1, <1>4, <2>3 DEF OutInv
<1>9. CASE couch[d].kept /\ d \in Layers
  <2>. PICK new : new = [doc |-> d, id |-> couch[d].seq, tries |-> 0]
    OBVIOUS
  <2>1. jobs' = jobs \cup {new} /\ UNCHANGED <<formatting, batch, amiss>>
    BY <1>9 DEF ReceiveChange
  <2>2. Gathered' = Gathered
    BY <1>1, <2>1 DEF Gathered
  <2>3. FlightInv'
    BY <1>1, <1>4, <1>6, <2>1, <2>2 DEF FlightInv
  <2>4. \A j \in jobs' : IsJob(j)'
    <3>1. couch[d].seq # 0
      BY <1>1, <1>2
    <3>2. IsJob(new)'
      BY <1>1, <1>2, <1>9, <3>1 DEF IsJob
    <3>3. \A j \in jobs : IsJob(j)'
      BY <1>1 DEF LayersInv, IsJob
    <3>4. \A j \in jobs' : j = new \/ j \in jobs
      BY <2>1
    <3>5. ASSUME NEW j \in jobs' PROVE IsJob(j)'
      <4>1. CASE j = new
        BY <3>2, <4>1
      <4>2. CASE j \in jobs
        BY <3>3, <4>2
      <4>. QED BY <3>4, <4>1, <4>2
    <3>. QED BY <3>5
  <2>5. ASSUME job # Nothing PROVE JobHolds'
    <3>1. JobHolds /\ job.read.doc \in Docs /\ IsJob(job.job) /\ OpHolds(job.read) /\ job.read.seq \in Nat
      BY <2>5, JobIsOnLayer
    <3>2. CASE job.read.doc = d /\ job.job.id = couch[d].seq
      <4>1. job.read = Operation(d)
        BY <3>1, <3>2 DEF JobHolds
      <4>2. /\ OpHolds(job.read)' /\ job'.job = job.job /\ job'.read = job.read
            /\ job.job \in jobs' /\ job.read.doc = job.job.doc /\ job.read.kept
        BY <1>1, <1>6, <2>1, <3>1 DEF JobHolds
      <4>. QED BY <1>7, <3>2, <4>1, <4>2 DEF JobHolds
    <3>3. CASE job.read.doc = d /\ job.job.id # couch[d].seq
      <4>1. new \in jobs' /\ new # job.job /\ new.doc = d /\ new.id = couch[new.doc].seq
        BY <2>1, <3>3
      <4>. QED BY <1>1, <2>1, <2>2, <2>5, <3>3, <4>1, JobGoesOn
    <3>4. CASE job.read.doc # d
      <4>1. couch[job.read.doc].seq > following => couch[job.read.doc].seq > following'
        BY <1>3, <3>1, <3>4
      <4>. QED BY <1>1, <2>1, <2>2, <2>5, <4>1, JobGoesOn
    <3>. QED BY <3>2, <3>3, <3>4
  <2>6. LayersInv'
    <3>1. \A e \in Layers : LayerHolds(e)'
      BY <1>1, <1>7, <2>1, <2>2 DEF LayersInv, LayerHolds
    <3>. QED BY <1>1, <2>4, <2>5, <3>1 DEF LayersInv
  <2>7. ASSUME NEW e \in Docs \ amiss PROVE Followed(e)'
    <3>1. CASE e = d
      <4>1. new \in jobs' /\ new.doc = d /\ new.id = couch'[d].seq
        BY <1>1, <2>1
      <4>2. HasJob(d)'
        BY <4>1 DEF HasJob
      <4>. QED BY <3>1, <4>2 DEF Followed
    <3>2. CASE e # d
      BY <1>1, <1>3, <1>4, <1>7, <2>1, <2>2, <3>2 DEF Followed, HasJob, LastIsCurrent
    <3>. QED BY <3>1, <3>2
  <2>. QED BY <1>5, <1>13, <2>1, <2>3, <2>6, <2>7
<1>10. ASSUME jobs' = jobs, \A l \in Layers : l \in amiss => l \in amiss', d \in Layers => d \in amiss',
              \/ Gathered' = Gathered
              \/ \E l, k : GrownBy(Gathered, Gathered', Operation(d), l, k) /\ \A e \in Layers : ~Changes(Operation(d), e)
       PROVE  LayersInv'
  <2>1. \A e \in Layers : LayerHolds(e)'
    <3>1. CASE Gathered' = Gathered
      BY <1>1, <1>7, <1>10, <3>1 DEF LayersInv, LayerHolds
    <3>2. CASE \E l, k : GrownBy(Gathered, Gathered', Operation(d), l, k) /\ \A e \in Layers : ~Changes(Operation(d), e)
      BY <1>1, <1>8, <1>10, <3>2, GrowthKeeps
    <3>. QED BY <1>10, <3>1, <3>2
  <2>2. ASSUME job # Nothing PROVE JobHolds'
    <3>1. job.read.doc \in Docs /\ job.read.doc \in Layers
      BY <2>2, JobIsOnLayer
    <3>2. job.read.doc \in amiss' \/ (couch[job.read.doc].seq > following => couch[job.read.doc].seq > following')
      BY <1>3, <1>10, <3>1
    <3>. QED BY <1>1, <1>10, <2>2, <3>1, <3>2, JobGoesOn
  <2>3. \A j \in jobs' : IsJob(j)'
    BY <1>1, <1>10 DEF LayersInv, IsJob
  <2>. QED BY <1>1, <1>10, <2>1, <2>2, <2>3 DEF LayersInv
<1>11. CASE /\ d \notin Layers /\ formatting' = formatting \cup {Operation(d)}
            /\ amiss' = IF InFlight(d) THEN amiss ELSE amiss \ {d}
            /\ UNCHANGED <<batch, jobs>>
  <2>1. /\ formatting' = formatting \cup {Operation(d)}
        /\ amiss' = IF InFlight(d) THEN amiss ELSE amiss \ {d}
        /\ UNCHANGED <<batch, jobs>>
    BY <1>11
  <2>2. Gathered' = Gathered
    BY <1>1, <2>1 DEF Gathered
  <2>3. LayersInv'
    BY <1>10, <1>11, <2>1, <2>2
  <2>4. FlightInv'
    BY <1>1, <1>4, <1>6, <1>8, <1>11, <2>1, <2>2 DEF FlightInv
  <2>5. ASSUME NEW e \in Docs \ amiss' PROVE Followed(e)'
    <3>1. CASE e = d
      BY <1>7, <2>1, <3>1 DEF Followed
    <3>2. CASE e # d
      BY <1>1, <1>3, <1>4, <1>7, <1>8, <2>1, <2>2, <2>5, <3>2 DEF Followed, HasJob, LastIsCurrent
    <3>. QED BY <3>1, <3>2
  <2>. QED BY <1>5, <1>13, <2>3, <2>4, <2>5
<1>12. CASE /\ ~couch[d].kept /\ batch' = Append(batch, Operation(d))
            /\ amiss' = IF d \in Layers \/ \E o \in formatting : o.doc = d THEN amiss \cup {d}
                        ELSE IF InFlight(d) THEN amiss ELSE amiss \ {d}
            /\ UNCHANGED <<formatting, jobs>>
  <2>1. /\ batch' = Append(batch, Operation(d))
        /\ amiss' = IF d \in Layers \/ \E o \in formatting : o.doc = d THEN amiss \cup {d}
                    ELSE IF InFlight(d) THEN amiss ELSE amiss \ {d}
        /\ UNCHANGED <<formatting, jobs>>
    BY <1>12
  <2>2. batch' \in Seq(Op) /\ \E l, k : GrownBy(Gathered, Gathered', Operation(d), l, k)
    BY <1>1, <1>8, <2>1, BatchGrows
  <2>0. \A e \in Layers : ~Changes(Operation(d), e)
    BY <1>8, <1>12 DEF Changes
  <2>3. LayersInv'
    BY <1>10, <2>0, <2>1, <2>2
  <2>4. PICK l, k : GrownBy(Gathered, Gathered', Operation(d), l, k)
    BY <2>2
  <2>5. FlightInv'
    <3>1. \A i \in DOMAIN Gathered' : \A n \in DOMAIN Gathered'[i] : OpHolds(Gathered[i][n])'
      BY <1>1, <1>8, <2>4, GrowthKeeps
    <3>. QED BY <1>1, <1>4, <1>6, <2>1, <2>2, <3>1 DEF FlightInv
  <2>6. ASSUME NEW e \in Docs \ amiss' PROVE Followed(e)'
    <3>1. CASE e = d
      <4>0. d \notin Layers /\ \A o \in formatting : o.doc # d
        BY <2>1, <2>6, <3>1
      <4>1. LastIsCurrent(Gathered, d)'
        <5>1. Changes(Operation(d), d)
          BY <1>8, <4>0 DEF Changes
        <5>. QED BY <1>1, <1>8, <2>4, <5>1, GrowthKeeps
      <4>. QED BY <2>1, <3>1, <4>0, <4>1 DEF Followed
    <3>2. CASE e # d
      <4>0. ~Changes(Operation(d), e)
        BY <1>8, <3>2 DEF Changes
      <4>1. LastIsCurrent(Gathered, e) => LastIsCurrent(Gathered, e)'
        BY <1>1, <1>8, <2>4, <4>0, GrowthKeeps
      <4>2. Followed(e)
        BY <2>1, <2>6, <3>2
      <4>. QED BY <1>1, <1>3, <1>4, <1>7, <2>1, <3>2, <4>1, <4>2 DEF Followed, HasJob
    <3>. QED BY <3>1, <3>2
  <2>. QED BY <1>5, <1>13, <2>3, <2>5, <2>6
<1>. QED BY <1>9, <1>11, <1>12 DEF ReceiveChange

LEMMA SaveLastSeqKeeps ==
    ASSUME IndexInv, SaveLastSeq
    PROVE  IndexInv'
<1>. USE DEF IndexInv
<1>1. /\ Running /\ lastSeq.waiting # Nothing /\ lastSeq' = [saved |-> lastSeq.waiting, waiting |-> Nothing]
      /\ UNCHANGED <<couch, following, formatting, batch, posts, index, jobs, job, amiss>>
  BY DEF SaveLastSeq
<1>2. Gathered' = Gathered /\ Running' /\ From' = From
  BY <1>1 DEF Gathered, Running, From
<1>3. SeqsInv'
  <2>1. lastSeq.waiting \in Nat /\ lastSeq.waiting <= following /\ following \in Nat
    BY <1>1 DEF SeqsInv, Reached
  <2>2. Reached(following)' /\ Reached(lastSeq.saved)'
    BY <1>1, <2>1 DEF SeqsInv, Reached
  <2>. QED BY <1>1, <1>2, <2>1, <2>2 DEF SeqsInv
<1>4. FlightInv'
  BY <1>1, <1>2 DEF FlightInv, OpHolds, Operation
<1>5. LayersInv'
  BY <1>1, <1>2 DEF LayersInv, LayerHolds, LayerIndexed, IsJob, JobHolds, OpHolds, Operation
<1>6. ASSUME NEW d \in Docs \ amiss PROVE Followed(d)'
  BY <1>1, <1>2 DEF Followed, HasJob, LastIsCurrent, Operation, Indexed
<1>7. OutInv'
  BY <1>1, <1>2, OutGoesOn
<1>. QED BY <1>1, <1>3, <1>4, <1>5, <1>6, <1>7

LEMMA FormattedKeeps ==
    ASSUME IndexInv, NEW o \in formatting, Formatted(o)
    PROVE  IndexInv'
<1>. USE DEF IndexInv
<1>1. /\ formatting' = formatting \ {o} /\ batch' = Append(batch, o)
      /\ amiss' = IF \E p \in formatting : p.doc = o.doc /\ p.seq < o.seq THEN amiss \cup {o.doc} ELSE amiss
      /\ UNCHANGED <<couch, following, lastSeq, posts, index, jobs, job>>
  BY DEF Formatted
<1>2. OpHolds(o) /\ o \in Op /\ o.doc \in Docs /\ o.doc \notin Layers /\ Running
  BY DEF FlightInv, OpHolds, Op
<1>3. batch' \in Seq(Op) /\ \E l, k : GrownBy(Gathered, Gathered', o, l, k)
  BY <1>1, <1>2, BatchGrows
<1>4. PICK l, k : GrownBy(Gathered, Gathered', o, l, k)
  BY <1>3
<1>5. \A e : Operation(e)' = Operation(e) /\ (Indexed(e)' <=> Indexed(e))
  BY <1>1 DEF Operation, Indexed
<1>6. From' = From /\ Running' /\ \A p : OpHolds(p) => OpHolds(p)'
  BY <1>1, <1>2 DEF From, Running, OpHolds, Operation
<1>7. SeqsInv'
  BY <1>1 DEF SeqsInv, Reached, Running
<1>8. FlightInv'
  <2>1. \A i \in DOMAIN Gathered' : \A n \in DOMAIN Gathered'[i] : OpHolds(Gathered[i][n])'
    BY <1>1, <1>2, <1>4, GrowthKeeps
  <2>. QED BY <1>1, <1>3, <1>6, <2>1 DEF FlightInv
<1>9. LayersInv'
  <2>1. \A e \in Layers : LayerHolds(e)'
    BY <1>1, <1>2, <1>4, GrowthKeeps DEF Changes
  <2>2. ASSUME job # Nothing PROVE JobHolds'
    <3>1. ~Changes(o, job.read.doc)
      BY <1>2, <2>2, JobIsOnLayer DEF Changes
    <3>. QED BY <1>1, <1>4, <2>2, <3>1, JobGoesOn
  <2>. QED BY <1>1, <2>1, <2>2 DEF LayersInv, IsJob
<1>10. ASSUME NEW e \in Docs \ amiss' PROVE Followed(e)'
  <2>0. e \notin amiss /\ Followed(e)
    BY <1>1, <1>10
  <2>1. CASE e = o.doc /\ o = Operation(e)
    <3>0. Changes(o, e)
      BY <1>2, <2>1 DEF Changes
    <3>1. LastIsCurrent(Gathered, e)'
      BY <1>1, <1>2, <1>4, <2>1, <3>0, GrowthKeeps
    <3>2. ASSUME NEW p \in formatting, p # o PROVE p.doc # e
      <4>. SUFFICES ASSUME p.doc = e PROVE FALSE
        OBVIOUS
      <4>1. OpHolds(p) /\ ~(p.seq < o.seq)
        BY <1>1, <1>10, <2>1 DEF FlightInv
      <4>2. p.seq \in Nat /\ o.seq \in Nat /\ o.seq = couch[e].seq /\ p.seq <= couch[e].seq
        BY <1>2, <2>1, <4>1 DEF OpHolds, Op, Operation
      <4>3. p.seq = couch[p.doc].seq
        BY <4>1, <4>2
      <4>. QED BY <2>1, <3>2, <4>1, <4>3 DEF OpHolds
    <3>. QED BY <1>1, <3>1, <3>2 DEF Followed
  <2>2. CASE e = o.doc /\ o # Operation(e)
    BY <1>1, <1>5, <1>6, <2>0, <2>2 DEF Followed, HasJob
  <2>3. CASE e # o.doc
    <3>1. LastIsCurrent(Gathered, e) => LastIsCurrent(Gathered, e)'
      BY <1>1, <1>2, <1>4, <2>3, GrowthKeeps DEF Changes
    <3>2. Operation(e) # o
      BY <2>3 DEF Operation
    <3>. QED BY <1>1, <1>5, <1>6, <2>0, <2>3, <3>1, <3>2 DEF Followed, HasJob
  <2>. QED BY <2>1, <2>2, <2>3
<1>11. OutInv'
  BY <1>1, <1>6, OutGoesOn
<1>. QED BY <1>7, <1>8, <1>9, <1>10, <1>11

LEMMA FormatFailsKeeps ==
    ASSUME IndexInv, NEW o \in formatting, FormatFails(o)
    PROVE  IndexInv'
<1>. USE DEF IndexInv
<1>1. /\ formatting' = formatting \ {o} /\ amiss' = amiss \cup {o.doc}
      /\ UNCHANGED <<couch, following, lastSeq, batch, posts, index, jobs, job>>
  BY DEF FormatFails
<1>2. Gathered' = Gathered /\ From' = From /\ (Running' <=> Running)
  BY <1>1 DEF Gathered, From, Running
<1>3. SeqsInv'
  BY <1>1 DEF SeqsInv, Reached, Running
<1>4. FlightInv'
  BY <1>1, <1>2 DEF FlightInv, OpHolds, Operation
<1>5. LayersInv'
  BY <1>1, <1>2 DEF LayersInv, LayerHolds, LayerIndexed, IsJob, JobHolds, OpHolds, Operation
<1>6. ASSUME NEW d \in Docs \ amiss' PROVE Followed(d)'
  <2>1. Followed(d) /\ d # o.doc
    BY <1>1, <1>6
  <2>2. Operation(d) # o
    BY <2>1 DEF Operation
  <2>. QED BY <1>1, <1>2, <2>1, <2>2 DEF Followed, HasJob, LastIsCurrent, Operation, Indexed
<1>7. OutInv'
  BY <1>1, <1>2, OutGoesOn
<1>. QED BY <1>3, <1>4, <1>5, <1>6, <1>7

LEMMA PostAndResetKeeps ==
    ASSUME IndexInv, PostAndReset
    PROVE  IndexInv'
<1>. USE DEF IndexInv
<1>1. /\ batch # <<>> /\ posts' = Append(posts, batch) /\ batch' = <<>>
      /\ UNCHANGED <<couch, following, lastSeq, formatting, index, jobs, job, amiss>>
  BY DEF PostAndReset
<1>2. posts' = Gathered /\ Gathered' = Append(Gathered, <<>>)
  BY <1>1 DEF Gathered
<1>3. posts' \in Seq(Seq(Op)) /\ batch' \in Seq(Op)
  BY <1>1, <1>2, GatheredIs
<1>4. /\ DOMAIN Gathered' = 1..(Len(Gathered) + 1) /\ DOMAIN Gathered = 1..Len(Gathered) /\ Len(Gathered) \in Nat
      /\ \A i \in DOMAIN Gathered : Gathered'[i] = Gathered[i]
      /\ Gathered'[Len(Gathered) + 1] = <<>>
  <2>. PICK T : T = Seq(Op)
    OBVIOUS
  <2>1. Gathered \in Seq(T) /\ <<>> \in T
    BY GatheredIs
  <2>2. DOMAIN Gathered = 1..Len(Gathered) /\ Len(Gathered) \in Nat
    BY <2>1
  <2>. QED BY <1>2, <2>1, <2>2, Appended
<1>5. /\ \A i \in DOMAIN Gathered' : \A n \in DOMAIN Gathered'[i] :
            i \in DOMAIN Gathered /\ n \in DOMAIN Gathered[i] /\ Gathered'[i] = Gathered[i]
      /\ \A i \in DOMAIN Gathered : i \in DOMAIN Gathered' /\ Gathered'[i] = Gathered[i]
  <2>1. ASSUME NEW i \in DOMAIN Gathered', NEW n \in DOMAIN Gathered'[i] PROVE i \in DOMAIN Gathered
    BY <1>4
  <2>. QED BY <1>4, <2>1
<1>6. From' = From /\ (Running' <=> Running) /\ Running /\ \A p : OpHolds(p) => OpHolds(p)'
  BY <1>1 DEF From, Running, OpHolds, Operation, FlightInv
<1>7. SeqsInv'
  BY <1>1 DEF SeqsInv, Reached, Running
<1>8. FlightInv'
  BY <1>1, <1>3, <1>5, <1>6 DEF FlightInv
<1>9. \A d, c : /\ FromThen(Gathered, d, c) => FromThen(Gathered', d, c)
                /\ AllAre(Gathered, d, c) => AllAre(Gathered', d, c)
                /\ NoneIs(Gathered, d, c) => NoneIs(Gathered', d, c)
  BY <1>5 DEF FromThen, AllAre, NoneIs
<1>10. \A d : LastIsCurrent(Gathered, d) => LastIsCurrent(Gathered, d)'
  <2>. SUFFICES ASSUME NEW d, LastIsCurrent(Gathered, d) PROVE LastIsCurrent(Gathered, d)'
    OBVIOUS
  <2>1. \A i \in DOMAIN Gathered' : \A n \in DOMAIN Gathered'[i] :
          LastOf(Gathered', d, i, n) => LastOf(Gathered, d, i, n)
    BY <1>5 DEF LastOf
  <2>2. Lacks(Gathered', d) => Lacks(Gathered, d)
    BY <1>5 DEF Lacks
  <2>. QED BY <1>1, <1>5, <2>1, <2>2 DEF LastIsCurrent, Operation, Indexed
<1>11. LayersInv'
  <2>1. job # Nothing => JobHolds'
    BY <1>1, <1>6, <1>9 DEF LayersInv, JobHolds, LayerIndexed, Operation
  <2>2. \A d \in Layers : LayerHolds(d)'
    BY <1>1, <1>9 DEF LayersInv, LayerHolds, LayerIndexed, Operation
  <2>. QED BY <1>1, <2>1, <2>2 DEF LayersInv, IsJob
<1>12. ASSUME NEW d \in Docs \ amiss PROVE Followed(d)'
  BY <1>1, <1>6, <1>10 DEF Followed, HasJob, Operation
<1>13. OutInv'
  BY <1>1, <1>6, OutGoesOn
<1>. QED BY <1>1, <1>7, <1>8, <1>11, <1>12, <1>13

LEMMA StartJobKeeps ==
    ASSUME IndexInv, NEW j \in jobs, StartJob(j)
    PROVE  IndexInv'
<1>. USE DEF IndexInv
<1>1. /\ Running /\ job' = [job |-> j, read |-> Aggregated(j.doc)]
      /\ UNCHANGED <<couch, following, lastSeq, formatting, batch, posts, index, jobs, amiss>>
  BY DEF StartJob
<1>2. Gathered' = Gathered /\ Running' /\ From' = From /\ \A p : OpHolds(p) => OpHolds(p)'
  BY <1>1 DEF Gathered, Running, From, OpHolds, Operation
<1>3. j.doc \in Layers /\ j.doc \in Docs /\ IsJob(j) /\ LayerHolds(j.doc)
  BY DocsAssumption DEF LayersInv, IsJob
<1>4. /\ couch[j.doc] \in [seq : Nat, kept : BOOLEAN] /\ j.id \in Nat \ {0} /\ j.id <= couch[j.doc].seq
      /\ j.id = couch[j.doc].seq => couch[j.doc].kept
  BY <1>3 DEF IsJob, SeqsInv
<1>5. /\ OpHolds(Aggregated(j.doc)) /\ Aggregated(j.doc).kept /\ Aggregated(j.doc).doc = j.doc
      /\ couch[j.doc].kept => Aggregated(j.doc) = Operation(j.doc)
  <2>1. CASE couch[j.doc].kept
    <3>1. Aggregated(j.doc) = Operation(j.doc) /\ Operation(j.doc).kept
      BY <1>4, <2>1 DEF Aggregated, Operation
    <3>. QED BY <1>3, <3>1, OperationHolds
  <2>2. CASE ~couch[j.doc].kept
    <3>1. Aggregated(j.doc) = [doc |-> j.doc, seq |-> 0, kept |-> TRUE]
      BY <2>2 DEF Aggregated
    <3>2. couch[j.doc].seq \in Nat \ {0}
      BY <1>4
    <3>. QED BY <1>3, <2>2, <3>1, <3>2 DEF OpHolds, Op
  <2>. QED BY <2>1, <2>2
<1>6. job'.job = j /\ job'.read = Aggregated(j.doc)
  BY <1>1
<1>7. JobHolds'
  <2>1. /\ Operation(j.doc)' = Operation(j.doc) /\ (LayerIndexed(j.doc)' <=> LayerIndexed(j.doc))
        /\ OpHolds(Aggregated(j.doc))'
    BY <1>1, <1>5 DEF Operation, LayerIndexed, OpHolds, Aggregated
  <2>2. CASE couch[j.doc].kept
    BY <1>1, <1>2, <1>5, <1>6, <2>1, <2>2 DEF JobHolds
  <2>3. CASE ~couch[j.doc].kept
    <3>1. ~LayerIndexed(j.doc) /\ NoneIs(Gathered, j.doc, Operation(j.doc))
      <4>1. ~Operation(j.doc).kept /\ ~LayerIndexed(j.doc)
        BY <1>3, <2>3 DEF LayerHolds, Operation
      <4>. QED BY <1>3, <4>1 DEF NoneIs, Changes
    <3>2. couch[j.doc].seq > following \/ j.doc \in amiss
      BY <1>1, <1>3, <1>4, <2>3 DEF OutInv, From
    <3>. QED BY <1>1, <1>2, <1>4, <1>5, <1>6, <2>1, <2>3, <3>1, <3>2 DEF JobHolds
  <2>. QED BY <2>2, <2>3
<1>8. SeqsInv'
  BY <1>1 DEF SeqsInv, Reached, Running
<1>9. FlightInv'
  BY <1>1, <1>2 DEF FlightInv
<1>10. LayersInv'
  BY <1>1, <1>2, <1>7 DEF LayersInv, LayerHolds, LayerIndexed, IsJob, Operation
<1>11. ASSUME NEW d \in Docs \ amiss PROVE Followed(d)'
  BY <1>1, <1>2 DEF Followed, HasJob, LastIsCurrent, Operation, Indexed
<1>12. OutInv'
  BY <1>1, <1>2, OutGoesOn
<1>. QED BY <1>1, <1>8, <1>9, <1>10, <1>11, <1>12

\* A batch in flight is taken out: it is the last with an operation about a document, or
\* nothing changes for this document.
LEMMA TakingBatch ==
    ASSUME IndexInv, NEW k \in DOMAIN posts, posts' = Without(k), UNCHANGED <<batch, couch, formatting, following, lastSeq, jobs, job>>,
           index' \in [Docs -> Nat], \A d \in Docs : d \in amiss => d \in amiss'
    PROVE  /\ SeqsInv' /\ FlightInv'
           /\ OutInv' /\ \A j \in jobs' : IsJob(j)'
           /\ job # Nothing =>
                 (job.read = Operation(job.read.doc) \/ ~LayerIndexed(job.read.doc)' => JobHolds')
           /\ \A d \in Docs \ amiss' :
                 (\A m \in DOMAIN posts[k] : ~Changes(posts[k][m], d)) /\ index'[d] = index[d] => Followed(d)'
<1>. USE DEF IndexInv
<1>1. posts' \in Seq(Seq(Op)) /\ TakenFrom(Gathered, Gathered', k, Len(posts))
  BY PostsWithout
<1>2. From' = From /\ (Running' <=> Running) /\ \A p : OpHolds(p) => OpHolds(p)'
  BY DEF From, Running, OpHolds, Operation
<1>3. SeqsInv'
  BY DEF SeqsInv, Reached, Running
<1>4. FlightInv'
  <2>1. \A i \in DOMAIN Gathered' : \A n \in DOMAIN Gathered'[i] : OpHolds(Gathered'[i][n])
    <3>. SUFFICES ASSUME NEW i \in DOMAIN Gathered', NEW n \in DOMAIN Gathered'[i]
                  PROVE  OpHolds(Gathered'[i][n])
      OBVIOUS
    <3>1. Beyond(k, i) \in DOMAIN Gathered /\ Gathered'[i] = Gathered[Beyond(k, i)]
      BY <1>1, Taking
    <3>. QED BY <3>1 DEF FlightInv
  <2>2. \A i \in DOMAIN Gathered' : \A n \in DOMAIN Gathered'[i] : OpHolds(Gathered[i][n])'
    BY <1>2, <2>1
  <2>3. Running
    BY DEF FlightInv
  <2>. QED BY <1>1, <1>2, <2>2, <2>3 DEF FlightInv
<1>5. ASSUME job # Nothing, job.read = Operation(job.read.doc) \/ ~LayerIndexed(job.read.doc)'
      PROVE  JobHolds'
  <2>1. JobHolds /\ job.read.doc \in Docs
    BY <1>5, JobIsOnLayer
  <2>2. PICK d, c : d = job.read.doc /\ c = Operation(d)
    OBVIOUS
  <2>3. NoneIs(Gathered, d, c) => NoneIs(Gathered', d, c)
    BY <1>1, TakingKeeps
  <2>4. Operation(d)' = c /\ OpHolds(job.read)'
    BY <1>2, <2>1, <2>2 DEF Operation, JobHolds
  <2>5. job.read # c => /\ ~LayerIndexed(d)' /\ NoneIs(Gathered', d, c)
                        /\ \/ couch[d].seq > following
                           \/ \E j \in jobs \ {job.job} : j.doc = d /\ j.id = couch[j.doc].seq
                           \/ d \in amiss
    BY <1>5, <2>1, <2>2, <2>3 DEF JobHolds
  <2>6. /\ job.job \in jobs /\ d = job.job.doc /\ job.read.kept
        /\ job.job.id = couch[d].seq => job.read = c
    BY <2>1, <2>2 DEF JobHolds
  <2>. QED BY <2>1, <2>2, <2>4, <2>5, <2>6 DEF JobHolds
<1>6. ASSUME NEW d \in Docs \ amiss', \A m \in DOMAIN posts[k] : ~Changes(posts[k][m], d), index'[d] = index[d]
      PROVE  Followed(d)'
  <2>1. Followed(d)
    BY <1>6
  <2>2. \A m \in DOMAIN Gathered[k] : ~Changes(Gathered[k][m], d)
    BY <1>6, GatheredIs
  <2>3. \A i \in DOMAIN Gathered' : \A n \in DOMAIN Gathered'[i] : LastOf(Gathered', d, i, n) =>
           LastOf(Gathered, d, Beyond(k, i), n)
    BY <1>1, <2>2, TakingLast
  <2>4. \A i \in DOMAIN Gathered' : Beyond(k, i) \in DOMAIN Gathered /\ Gathered'[i] = Gathered[Beyond(k, i)]
    BY <1>1, Taking
  <2>5. Lacks(Gathered', d) => Lacks(Gathered, d)
    BY <1>1, <2>2, TakingLacks
  <2>6. LastIsCurrent(Gathered, d) => LastIsCurrent(Gathered, d)'
    BY <1>6, <2>3, <2>4, <2>5 DEF LastIsCurrent, Operation, Indexed
  <2>. QED BY <1>2, <2>1, <2>6 DEF Followed, HasJob, Operation
<1>7. OutInv' /\ \A j \in jobs' : IsJob(j)'
  BY <1>2, OutGoesOn, DocsAssumption DEF LayersInv, IsJob
<1>. QED BY <1>3, <1>4, <1>5, <1>6, <1>7

LEMMA PostFailsKeeps ==
    ASSUME IndexInv, NEW k \in DOMAIN posts, PostFails(k)
    PROVE  IndexInv'
<1>1. /\ posts' = Without(k) /\ amiss' = amiss \cup {o.doc : o \in Ops(posts[k])}
      /\ UNCHANGED <<couch, following, lastSeq, formatting, batch, index, jobs, job>>
  BY DEF PostFails
<1>2. index' \in [Docs -> Nat]
  BY <1>1 DEF IndexInv, FlightInv
<1>3. \A d \in Docs : d \in amiss => d \in amiss'
  BY <1>1
<1>4. TakenFrom(Gathered, Gathered', k, Len(posts))
  BY <1>1, PostsWithout DEF IndexInv
<1>5. job # Nothing => job.read = Operation(job.read.doc) \/ ~LayerIndexed(job.read.doc)'
  BY <1>1, JobIsOnLayer DEF JobHolds, LayerIndexed
<1>6. \A d \in Layers : LayerHolds(d)'
  <2>. SUFFICES ASSUME NEW d \in Layers PROVE LayerHolds(d)'
    OBVIOUS
  <2>1. LayerHolds(d)
    BY DEF IndexInv, LayersInv
  <2>2. Operation(d)' = Operation(d) /\ (LayerIndexed(d)' <=> LayerIndexed(d))
    BY <1>1 DEF Operation, LayerIndexed
  <2>3. FromThen(Gathered', d, Operation(d)) /\ (AllAre(Gathered, d, Operation(d)) => AllAre(Gathered', d, Operation(d)))
    BY <1>4, <2>1, TakingKeeps DEF LayerHolds
  <2>. QED BY <1>1, <1>3, <2>1, <2>2, <2>3 DEF LayerHolds
<1>7. ASSUME NEW d \in Docs \ amiss', NEW m \in DOMAIN posts[k]
      PROVE  ~Changes(posts[k][m], d)
  BY <1>1, <1>7 DEF Ops, Changes
<1>8. \A d \in Docs \ amiss' : Followed(d)'
  BY <1>1, <1>2, <1>3, <1>7, TakingBatch
<1>. QED BY <1>1, <1>2, <1>3, <1>5, <1>6, <1>8, TakingBatch DEF IndexInv, LayersInv

LEMMA PostSucceedsKeeps ==
    ASSUME IndexInv, NEW k \in DOMAIN posts, PostSucceeds(k)
    PROVE  IndexInv'
<1>. DEFINE ops == posts[k]
            Has(d) == ChangesIn(ops, d) # {}
            op(d) == ops[LastIn(ops, d)]
<1>1. /\ index' = [d \in Docs |-> IF ChangesIn(ops, d) = {} THEN index[d]
                                  ELSE IF op(d).kept THEN op(d).seq ELSE 0]
      /\ amiss' = amiss \cup {o.doc : o \in {o \in Ops(ops) : \E j \in 1..(k - 1) : \E p \in Ops(posts[j]) : p.doc = o.doc}}
      /\ posts' = Without(k)
      /\ UNCHANGED <<couch, following, lastSeq, formatting, batch, jobs, job>>
  BY DEF PostSucceeds, ChangesIn, LastIn
<1>2. /\ ops \in Seq(Op) /\ ops = Gathered[k] /\ k \in DOMAIN Gathered /\ k \in Nat
      /\ \A m \in DOMAIN ops : OpHolds(ops[m])
  <2>1. k \in Nat
    BY DEF IndexInv, FlightInv
  <2>. QED BY <2>1, GatheredIs DEF IndexInv, FlightInv
<1>3. TakenFrom(Gathered, Gathered', k, Len(posts))
  BY <1>1, PostsWithout DEF IndexInv
<1>4. ASSUME NEW d \in Docs, Has(d)
      PROVE  /\ LastIn(ops, d) \in DOMAIN ops /\ Changes(op(d), d) /\ OpHolds(op(d)) /\ op(d).seq \in Nat
             /\ \A m \in DOMAIN ops : Changes(ops[m], d) => m <= LastIn(ops, d)
             /\ index'[d] = IF op(d).kept THEN op(d).seq ELSE 0
             /\ d \notin amiss' => \A j \in 1..(k - 1) : \A m \in DOMAIN Gathered[j] : ~Changes(Gathered[j][m], d)
  <2>1. /\ LastIn(ops, d) \in DOMAIN ops /\ Changes(op(d), d)
        /\ \A m \in DOMAIN ops : Changes(ops[m], d) => m <= LastIn(ops, d)
    BY <1>2, <1>4, LastInIs
  <2>2. OpHolds(op(d)) /\ op(d).seq \in Nat
    BY <1>2, <2>1 DEF OpHolds, Op
  <2>3. index'[d] = IF op(d).kept THEN op(d).seq ELSE 0
    BY <1>1, <1>4
  <2>4. ASSUME d \notin amiss', NEW j \in 1..(k - 1), NEW m \in DOMAIN Gathered[j]
        PROVE  ~Changes(Gathered[j][m], d)
    <3>1. j \in DOMAIN posts /\ Gathered[j] = posts[j]
      BY <1>2, GatheredIs DEF IndexInv
    <3>2. posts[j][m] \in Ops(posts[j])
      BY <3>1 DEF Ops
    <3>3. op(d) \in Ops(ops) /\ op(d).doc = d
      BY <2>1 DEF Ops, Changes
    <3>. QED BY <1>1, <2>4, <3>1, <3>2, <3>3 DEF Changes
  <2>. QED BY <2>1, <2>2, <2>3, <2>4
<1>5. ASSUME NEW d \in Docs, ~Has(d)
      PROVE  index'[d] = index[d] /\ \A m \in DOMAIN ops : ~Changes(ops[m], d)
  BY <1>1, <1>5 DEF ChangesIn
<1>. HIDE DEF ops, Has, op
<1>6. index' \in [Docs -> Nat]
  <2>1. \A d \in Docs : index'[d] \in Nat
    <3>. SUFFICES ASSUME NEW d \in Docs PROVE index'[d] \in Nat
      OBVIOUS
    <3>1. index[d] \in Nat
      BY DEF IndexInv, FlightInv
    <3>. QED BY <1>4, <1>5, <3>1
  <2>. QED BY <1>1, <2>1
<1>7. \A d \in Docs : d \in amiss => d \in amiss'
  BY <1>1
<1>8. ASSUME NEW d \in Docs, Has(d), LayerIndexed(d)'
      PROVE  op(d) = Operation(d) /\ op(d).kept
  <2>1. op(d).kept /\ op(d).seq = couch[d].seq
    BY <1>1, <1>4, <1>8 DEF LayerIndexed
  <2>2. op(d).doc = d
    BY <1>4, <1>8 DEF Changes
  <2>. QED BY <1>4, <1>8, <2>1, <2>2 DEF OpHolds
<1>9. job # Nothing => job.read = Operation(job.read.doc) \/ ~LayerIndexed(job.read.doc)'
  <2>. SUFFICES ASSUME job # Nothing, job.read # Operation(job.read.doc), LayerIndexed(job.read.doc)'
                PROVE  FALSE
    OBVIOUS
  <2>1. PICK d \in Docs : d = job.read.doc
    BY JobIsOnLayer
  <2>2. ~LayerIndexed(d) /\ NoneIs(Gathered, d, Operation(d))
    BY <2>1, JobIsOnLayer DEF JobHolds
  <2>5. LayerIndexed(d)'
    BY <1>1, <2>1
  <2>3. Has(d)
    BY <1>1, <1>5, <2>2, <2>5 DEF LayerIndexed
  <2>4. op(d) = Operation(d) /\ Changes(op(d), d) /\ LastIn(ops, d) \in DOMAIN Gathered[k] /\ op(d) = Gathered[k][LastIn(ops, d)]
    BY <1>2, <1>4, <1>8, <2>3, <2>5 DEF op
  <2>. QED BY <1>2, <2>2, <2>4 DEF NoneIs
<1>10. ASSUME NEW d \in Layers PROVE LayerHolds(d)'
  <2>1. LayerHolds(d) /\ d \in Docs /\ index[d] \in Nat /\ couch[d].seq \in Nat /\ couch'[d] = couch[d]
        /\ Operation(d)' = Operation(d)
    BY <1>1, DocsAssumption DEF IndexInv, LayersInv, FlightInv, SeqsInv, Operation
  <2>2. FromThen(Gathered', d, Operation(d))
    BY <1>3, <2>1, TakingKeeps DEF LayerHolds
  <2>3. index'[d] <= couch[d].seq /\ (LayerIndexed(d)' => couch[d].kept)
    <3>1. CASE Has(d)
      <4>1. op(d).doc = d
        BY <1>4, <2>1, <3>1 DEF Changes
      <4>2. index'[d] <= couch[d].seq
        BY <1>4, <2>1, <3>1, <4>1 DEF OpHolds
      <4>. QED BY <1>8, <2>1, <3>1, <4>2 DEF Operation
    <3>2. CASE ~Has(d)
      BY <1>5, <2>1, <3>2 DEF LayerHolds, LayerIndexed
    <3>. QED BY <3>1, <3>2
  <2>4. ASSUME d \notin amiss', LayerIndexed(d)' PROVE AllAre(Gathered', d, Operation(d))
    <3>1. CASE ~Has(d)
      <4>1. d \notin amiss /\ LayerIndexed(d)
        BY <1>5, <1>7, <2>1, <2>4, <3>1 DEF LayerIndexed
      <4>. QED BY <1>3, <2>1, <4>1, TakingKeeps DEF LayerHolds
    <3>2. CASE Has(d)
      <4>. SUFFICES ASSUME NEW i \in DOMAIN Gathered', NEW n \in DOMAIN Gathered'[i], Changes(Gathered'[i][n], d)
                    PROVE  Gathered'[i][n] = Operation(d)
        BY DEF AllAre
      <4>1. Beyond(k, i) \in DOMAIN Gathered /\ Gathered'[i] = Gathered[Beyond(k, i)] /\ Beyond(k, i) # k
        BY <1>3, Taking
      <4>2. Beyond(k, i) \notin 1..(k - 1)
        BY <1>4, <2>1, <2>4, <3>2, <4>1
      <4>3. Beyond(k, i) \in Nat /\ Beyond(k, i) >= 1
        BY <1>3, <4>1 DEF TakenFrom
      <4>4. k < Beyond(k, i)
        BY <1>2, <4>1, <4>2, <4>3
      <4>5. LastIn(ops, d) \in DOMAIN Gathered[k] /\ op(d) = Gathered[k][LastIn(ops, d)] /\ Changes(op(d), d)
        BY <1>2, <1>4, <2>1, <3>2 DEF op
      <4>6. Follows(Beyond(k, i), n, k, LastIn(ops, d))
        BY <4>4 DEF Follows
      <4>7. op(d) = Operation(d)
        BY <1>8, <2>1, <2>4, <3>2
      <4>8. FromThen(Gathered, d, Operation(d))
        BY <2>1 DEF LayerHolds
      <4>. QED BY <1>2, <4>1, <4>5, <4>6, <4>7, <4>8 DEF FromThen
    <3>. QED BY <3>1, <3>2
  <2>. QED BY <2>1, <2>2, <2>3, <2>4 DEF LayerHolds
<1>11. ASSUME NEW d \in Docs \ amiss' PROVE Followed(d)'
  <2>1. CASE ~Has(d)
    BY <1>1, <1>5, <1>6, <1>7, <2>1, TakingBatch DEF ops
  <2>2. CASE Has(d)
    <3>1. d \notin amiss /\ Followed(d)
      BY <1>7 DEF IndexInv
    <3>2. \A i \in DOMAIN Gathered' : \A n \in DOMAIN Gathered'[i] : LastOf(Gathered', d, i, n) =>
             LastOf(Gathered, d, Beyond(k, i), n)
      BY <1>3, <1>4, <2>2, TakingLast
    <3>3. \A i \in DOMAIN Gathered' : Beyond(k, i) \in DOMAIN Gathered /\ Gathered'[i] = Gathered[Beyond(k, i)]
      BY <1>3, Taking
    <3>4. Lacks(Gathered', d) => LastOf(Gathered, d, k, LastIn(ops, d)) /\ LastIn(ops, d) \in DOMAIN Gathered[k]
      BY <1>2, <1>3, <1>4, <2>2, TakingLacks DEF op
    <3>5. LastIsCurrent(Gathered, d) => LastIsCurrent(Gathered, d)'
      <4>. SUFFICES ASSUME LastIsCurrent(Gathered, d) PROVE LastIsCurrent(Gathered, d)'
        OBVIOUS
      <4>1. \A i \in DOMAIN Gathered' : \A n \in DOMAIN Gathered'[i] : LastOf(Gathered', d, i, n) => Gathered'[i][n] = Operation(d)
        BY <3>2, <3>3 DEF LastIsCurrent
      <4>2. ASSUME Lacks(Gathered', d) PROVE Indexed(d)'
        <5>1. op(d) = Operation(d)
          BY <1>2, <3>4, <4>2 DEF LastIsCurrent, op
        <5>. QED BY <1>1, <1>4, <2>2, <5>1 DEF Indexed, Operation
      <4>. QED BY <1>1, <4>1, <4>2 DEF LastIsCurrent, Operation
    <3>6. From' = From
      BY <1>1 DEF From, Running
    <3>. QED BY <1>1, <3>1, <3>5, <3>6 DEF Followed, HasJob, Operation
  <2>. QED BY <2>1, <2>2
<1>. QED BY <1>1, <1>6, <1>7, <1>9, <1>10, <1>11, TakingBatch DEF IndexInv, LayersInv

LEMMA EndJobKeeps ==
    ASSUME IndexInv, EndJob
    PROVE  IndexInv'
<1>0. PICK o, d, c : o = job.read /\ d = job.read.doc /\ c = Operation(d)
  OBVIOUS
<1>1. /\ job # Nothing /\ jobs' = jobs \ {job.job} /\ job' = Nothing
      /\ UNCHANGED <<couch, following, lastSeq, formatting, posts, index>>
  BY DEF EndJob, Ended
<1>2. /\ JobHolds /\ Running /\ job.job \in jobs /\ d \in Layers /\ d \in Docs /\ Changes(o, d)
      /\ IsJob(job.job) /\ job.job.doc = d /\ OpHolds(o) /\ o \in Op /\ o.doc = d /\ o.kept
  BY <1>0, <1>1, JobIsOnLayer DEF OpHolds, JobHolds
<1>3. \/ index[d] = o.seq /\ UNCHANGED <<batch, amiss>>
      \/ UNCHANGED batch /\ amiss' = amiss \cup {d}
      \/ batch' = Append(batch, o) /\ amiss' = IF InFlight(d) \/ o # c THEN amiss ELSE amiss \ {d}
  BY <1>0 DEF EndJob
<1>4. From' = From /\ Running' /\ (\A p : OpHolds(p) => OpHolds(p)')
      /\ \A e : Operation(e)' = Operation(e) /\ (Indexed(e)' <=> Indexed(e)) /\ (LayerIndexed(e)' <=> LayerIndexed(e))
  BY <1>1, <1>2 DEF From, Running, OpHolds, Operation, Indexed, LayerIndexed
<1>5. SeqsInv'
  BY <1>1 DEF SeqsInv, Reached, Running, IndexInv
<1>6. \A j \in jobs' : IsJob(j)'
  BY <1>1 DEF LayersInv, IndexInv, IsJob
<1>7. ASSUME NEW e, HasJob(e), ~HasJob(e)'
      PROVE  e = d /\ o = c /\ couch[d].kept /\ couch[d].seq # 0
  <2>1. PICK j \in jobs : j.doc = e /\ j.id = couch[e].seq
    BY <1>7 DEF HasJob
  <2>2. j = job.job
    BY <1>1, <1>7, <2>1 DEF HasJob
  <2>3. e = d /\ job.job.id = couch[d].seq
    BY <1>2, <2>1, <2>2
  <2>. QED BY <1>0, <1>2, <2>3 DEF JobHolds, IsJob
<1>8. o # c => /\ ~LayerIndexed(d) /\ NoneIs(Gathered, d, c)
               /\ couch[d].seq > following \/ HasJob(d)' \/ d \in amiss
  BY <1>0, <1>1, <1>2 DEF JobHolds, HasJob
<1>9. LayerHolds(d) /\ c.kept = couch[d].kept /\ c.doc = d /\ c.seq = couch[d].seq
  BY <1>0, <1>2 DEF IndexInv, LayersInv, Operation
<1>10. OutInv'
  BY <1>0, <1>1, <1>2, <1>3, <1>4, <1>9, OutGoesOn DEF IndexInv
<1>11. ASSUME UNCHANGED batch
       PROVE  /\ Gathered' = Gathered /\ FlightInv'
              /\ \A e \in Docs : LastIsCurrent(Gathered, e)' <=> LastIsCurrent(Gathered, e)
              /\ (\A e \in amiss : e \in amiss') => LayersInv'
  <2>1. Gathered' = Gathered
    BY <1>1, <1>11 DEF Gathered
  <2>2. FlightInv'
    BY <1>1, <1>4, <1>11, <2>1 DEF FlightInv, IndexInv
  <2>3. ASSUME \A e \in amiss : e \in amiss' PROVE LayersInv'
    <3>1. \A e \in Layers : LayerHolds(e)'
      BY <1>1, <1>4, <2>1, <2>3 DEF LayersInv, LayerHolds, IndexInv
    <3>. QED BY <1>1, <1>6, <3>1 DEF LayersInv
  <2>4. \A e \in Docs : LastIsCurrent(Gathered, e)' <=> LastIsCurrent(Gathered, e)
    BY <1>4, <2>1 DEF LastIsCurrent
  <2>. QED BY <2>1, <2>2, <2>3, <2>4
<1>12. CASE index[d] = o.seq /\ UNCHANGED <<batch, amiss>>
  <2>1. ASSUME HasJob(d), ~HasJob(d)', d \notin amiss
        PROVE  LastIsCurrent(Gathered, d) /\ \A p \in formatting : p.doc # d
    <3>1. LayerIndexed(d) /\ Indexed(d)
      BY <1>7, <1>9, <1>12, <2>1 DEF LayerIndexed, Indexed
    <3>2. AllAre(Gathered, d, Operation(d))
      BY <1>9, <2>1, <3>1 DEF LayerHolds
    <3>3. LastIsCurrent(Gathered, d)
      BY <3>1, <3>2 DEF LastIsCurrent, LastOf, AllAre
    <3>4. \A p \in formatting : p.doc # d
      BY <1>2 DEF IndexInv, FlightInv
    <3>. QED BY <3>3, <3>4
  <2>2. ASSUME NEW e \in Docs \ amiss PROVE Followed(e)'
    <3>1. Followed(e)
      BY DEF IndexInv
    <3>2. CASE HasJob(e) /\ ~HasJob(e)'
      BY <1>1, <1>7, <1>11, <1>12, <2>1, <2>2, <3>2 DEF Followed
    <3>3. CASE HasJob(e) => HasJob(e)'
      BY <1>1, <1>4, <1>11, <1>12, <3>1, <3>3 DEF Followed
    <3>. QED BY <3>2, <3>3
  <2>. QED BY <1>5, <1>10, <1>11, <1>12, <2>2 DEF IndexInv
<1>13. CASE UNCHANGED batch /\ amiss' = amiss \cup {d}
  <2>1. ASSUME NEW e \in Docs \ amiss' PROVE Followed(e)'
    <3>1. Followed(e) /\ e # d
      BY <1>13, <2>1 DEF IndexInv
    <3>2. HasJob(e) => HasJob(e)'
      BY <1>7, <3>1
    <3>. QED BY <1>1, <1>4, <1>11, <1>13, <3>1, <3>2 DEF Followed
  <2>. QED BY <1>5, <1>10, <1>11, <1>13, <2>1 DEF IndexInv
<1>14. CASE batch' = Append(batch, o) /\ amiss' = IF InFlight(d) \/ o # c THEN amiss ELSE amiss \ {d}
  <2>1. batch' \in Seq(Op) /\ \E l, k : GrownBy(Gathered, Gathered', o, l, k)
    BY <1>1, <1>2, <1>14, BatchGrows DEF IndexInv
  <2>2. PICK l, k : GrownBy(Gathered, Gathered', o, l, k)
    BY <2>1
  <2>3. FlightInv'
    <3>1. \A i \in DOMAIN Gathered' : \A n \in DOMAIN Gathered'[i] : OpHolds(Gathered[i][n])'
      BY <1>1, <1>2, <2>2, GrowthKeeps
    <3>. QED BY <1>1, <1>4, <2>1, <3>1 DEF FlightInv, IndexInv
  <2>4. LayerHolds(d)'
    <3>1. FromThen(Gathered, d, c) /\ (d \notin amiss /\ LayerIndexed(d) => AllAre(Gathered, d, c))
      BY <1>0, <1>9 DEF LayerHolds
    <3>2. FromThen(Gathered', d, c)
      BY <1>2, <1>8, <2>2, <3>1, GrowthOfItself
    <3>3. ASSUME d \notin amiss', LayerIndexed(d) PROVE AllAre(Gathered', d, c)
      <4>1. o = c
        BY <1>8, <3>3
      <4>2. AllAre(Gathered, d, c)
        <5>1. CASE d \notin amiss
          BY <3>1, <3>3, <5>1
        <5>2. CASE ~InFlight(d)
          BY <5>2, NotInFlight DEF IndexInv, Lacks, AllAre
        <5>. QED BY <1>14, <3>3, <5>1, <5>2
      <4>. QED BY <1>2, <2>2, <4>1, <4>2, GrowthOfItself
    <3>. QED BY <1>0, <1>1, <1>4, <1>9, <3>2, <3>3 DEF LayerHolds
  <2>5. LayersInv'
    <3>1. ASSUME NEW e \in Layers \ {d} PROVE LayerHolds(e)'
      <4>1. ~Changes(o, e) /\ (e \in amiss => e \in amiss')
        BY <1>2, <1>14, <3>1 DEF Changes
      <4>. QED BY <1>1, <1>2, <2>2, <4>1, GrowthKeeps
    <3>. QED BY <1>1, <1>6, <2>4, <3>1 DEF LayersInv
  <2>6. ASSUME NEW e \in Docs \ amiss' PROVE Followed(e)'
    <3>1. CASE e = d /\ o = c
      <4>1. LastIsCurrent(Gathered, d)'
        BY <1>0, <1>1, <1>2, <2>2, <3>1, GrowthKeeps
      <4>2. \A p \in formatting : p.doc # d
        BY <1>2 DEF IndexInv, FlightInv
      <4>. QED BY <1>1, <3>1, <4>1, <4>2 DEF Followed
    <3>2. CASE e = d /\ o # c
      BY <1>1, <1>2, <1>4, <1>8, <1>14, <2>6, <3>2 DEF Followed, From
    <3>3. CASE e # d
      <4>1. Followed(e) /\ (HasJob(e) => HasJob(e)')
        BY <1>7, <1>14, <2>6, <3>3 DEF IndexInv
      <4>2. LastIsCurrent(Gathered, e) => LastIsCurrent(Gathered, e)'
        BY <1>1, <1>2, <2>2, <3>3, GrowthKeeps DEF Changes
      <4>. QED BY <1>1, <1>4, <4>1, <4>2 DEF Followed
    <3>. QED BY <3>1, <3>2, <3>3
  <2>. QED BY <1>5, <1>10, <2>3, <2>5, <2>6 DEF IndexInv
<1>. QED BY <1>3, <1>12, <1>13, <1>14

LEMMA FailJobKeeps ==
    ASSUME IndexInv, FailJob
    PROVE  IndexInv'
<1>. DEFINE again == [job.job EXCEPT !.tries = @ + 1]
<1>1. /\ job # Nothing /\ job' = Nothing
      /\ UNCHANGED <<couch, following, lastSeq, formatting, batch, posts, index>>
      /\ \/ jobs' = (jobs \ {job.job}) \cup {again} /\ UNCHANGED amiss
         \/ jobs' = jobs \ {job.job} /\ amiss' = amiss \cup {job.read.doc}
  BY DEF FailJob
<1>2. /\ JobHolds /\ Running /\ job.job \in jobs /\ job.read.doc \in Layers
      /\ job.job.doc = job.read.doc /\ job.job \in [doc : Layers, id : Nat, tries : Nat]
  BY <1>1, JobIsOnLayer DEF IsJob
<1>3. again \in [doc : Layers, id : Nat, tries : Nat] /\ again.doc = job.job.doc /\ again.id = job.job.id
  BY <1>2
<1>. HIDE DEF again
<1>4. Gathered' = Gathered /\ From' = From /\ Running' /\ \A p : OpHolds(p) => OpHolds(p)'
  BY <1>1, <1>2 DEF Gathered, From, Running, OpHolds, Operation
<1>5. SeqsInv'
  BY <1>1 DEF SeqsInv, Reached, Running, IndexInv
<1>6. FlightInv'
  BY <1>1, <1>4 DEF FlightInv, IndexInv
<1>7. LayersInv'
  <2>1. IsJob(job.job) /\ job.job.id \in Nat \ {0}
    BY <1>1, JobIsOnLayer DEF IsJob
  <2>2. IsJob(again)
    BY <1>2, <1>3, <2>1 DEF IsJob
  <2>3. \A j \in jobs' : IsJob(j)'
    BY <1>1, <2>2 DEF LayersInv, IndexInv, IsJob
  <2>4. \A d \in Layers : LayerHolds(d)'
    BY <1>1, <1>4 DEF LayersInv, LayerHolds, LayerIndexed, Operation, IndexInv
  <2>. QED BY <1>1, <2>3, <2>4 DEF LayersInv
<1>8. ASSUME NEW d \in Docs \ amiss' PROVE Followed(d)'
  <2>1. Followed(d)
    BY <1>1 DEF IndexInv
  <2>2. HasJob(d) => HasJob(d)'
    BY <1>1, <1>2, <1>3, <1>8 DEF HasJob
  <2>. QED BY <1>1, <1>4, <2>1, <2>2 DEF Followed, LastIsCurrent, Operation, Indexed
<1>9. OutInv'
  BY <1>1, <1>4, OutGoesOn DEF IndexInv
<1>. QED BY <1>5, <1>6, <1>7, <1>8, <1>9 DEF IndexInv

LEMMA CrashKeeps ==
    ASSUME IndexInv, Crash
    PROVE  IndexInv'
<1>1. /\ Running /\ following' = Nothing /\ lastSeq' = [lastSeq EXCEPT !.waiting = Nothing]
      /\ amiss' = amiss \cup {d \in Docs : InFlight(d)}
      /\ formatting' = {} /\ batch' = <<>> /\ posts' = <<>> /\ job' = Nothing
      /\ UNCHANGED <<couch, index, jobs>>
  BY DEF Crash
<1>2. ~Running' /\ lastSeq' \in [saved : Nat, waiting : Nat \cup {Nothing}] /\ lastSeq'.saved = lastSeq.saved
  BY <1>1 DEF Running, IndexInv, SeqsInv
<1>3. posts' \in Seq(Seq(Op)) /\ batch' \in Seq(Op) /\ Gathered' = << <<>> >>
  BY <1>1 DEF Gathered
<1>4. SeqsInv'
  BY <1>1, <1>2 DEF SeqsInv, Reached, IndexInv
<1>5. FlightInv'
  BY <1>1, <1>2, <1>3 DEF FlightInv, IndexInv
<1>6. LayersInv'
  BY <1>1, <1>3 DEF LayersInv, LayerHolds, FromThen, AllAre, LayerIndexed, IsJob, IndexInv
<1>7. ASSUME NEW d \in Docs \ amiss' PROVE Followed(d)'
  <2>1. Followed(d) /\ ~InFlight(d) /\ Lacks(Gathered, d) /\ \A o \in formatting : o.doc # d
    BY <1>1, <1>7, NotInFlight DEF IndexInv
  <2>2. Operation(d) \notin formatting
    BY <2>1 DEF Operation
  <2>3. couch[d].seq > From => couch[d].seq > lastSeq.saved
    BY <1>1 DEF From, IndexInv, SeqsInv, Reached
  <2>4. LastIsCurrent(Gathered, d) => LastIsCurrent(Gathered, d)'
    BY <1>1, <1>3, <2>1 DEF LastIsCurrent, Lacks, Indexed
  <2>. QED BY <1>1, <1>2, <2>1, <2>2, <2>3, <2>4 DEF Followed, HasJob, From
<1>8. OutInv'
  <2>1. From' <= From /\ From \in Nat /\ From' \in Nat
    BY <1>1, <1>2 DEF From, IndexInv, SeqsInv, Reached
  <2>2. \A d \in Layers : couch[d].seq \in Nat
    BY DocsAssumption DEF IndexInv, SeqsInv
  <2>. QED BY <1>1, <2>1, <2>2 DEF OutInv, IndexInv
<1>. QED BY <1>4, <1>5, <1>6, <1>7, <1>8 DEF IndexInv

LEMMA StartServerKeeps ==
    ASSUME IndexInv, StartServer
    PROVE  IndexInv'
<1>. DEFINE gap == DbLastSeq > lastSeq.saved + MaxGap
            since == IF gap THEN DbLastSeq ELSE lastSeq.saved
<1>1. /\ ~Running /\ following' = since /\ lastSeq' = [lastSeq EXCEPT !.waiting = since]
      /\ amiss' = IF gap THEN amiss \cup {d \in Docs : couch[d].seq > lastSeq.saved} ELSE amiss
      /\ UNCHANGED <<couch, formatting, batch, posts, index, jobs, job>>
  BY DEF StartServer
<1>2. /\ lastSeq.saved \in Nat /\ lastSeq.saved <= DbLastSeq /\ Reached(lastSeq.saved)
      /\ Reached(DbLastSeq) /\ DbLastSeq \in Nat
  BY LastSeqIs DEF IndexInv, SeqsInv, Reached
<1>3. Reached(since) /\ since \in Nat /\ lastSeq.saved <= since /\ Running'
  BY <1>1, <1>2, NothingAssumption DEF Running
<1>4. lastSeq' \in [saved : Nat, waiting : Nat \cup {Nothing}] /\ lastSeq'.saved = lastSeq.saved /\ lastSeq'.waiting = since
  BY <1>1, <1>3 DEF IndexInv, SeqsInv
<1>5. Gathered' = Gathered /\ job = Nothing /\ From = lastSeq.saved /\ From' = since
  BY <1>1, <1>3 DEF Gathered, From, IndexInv, FlightInv
<1>6. SeqsInv'
  <2>1. Reached(following)' /\ Reached(lastSeq.saved)'
    BY <1>1, <1>2, <1>3, <1>4 DEF Reached
  <2>. QED BY <1>1, <1>3, <1>4, <2>1 DEF IndexInv, SeqsInv
<1>7. FlightInv'
  BY <1>1, <1>3, <1>5 DEF FlightInv, OpHolds, Operation, IndexInv
<1>8. LayersInv'
  BY <1>1, <1>5 DEF LayersInv, LayerHolds, LayerIndexed, Operation, IsJob, IndexInv
<1>9. ASSUME NEW d \in Docs \ amiss' PROVE Followed(d)'
  <2>1. d \notin amiss /\ Followed(d)
    BY <1>1, <1>9 DEF IndexInv
  <2>2. couch[d].seq > From => couch[d].seq > since
    BY <1>1, <1>5, <1>9
  <2>. QED BY <1>1, <1>5, <2>1, <2>2 DEF Followed, HasJob, LastIsCurrent, Operation, Indexed
<1>10. OutInv'
  <2>. SUFFICES ASSUME NEW d \in Layers
                PROVE  couch[d].kept \/ couch[d].seq = 0 \/ couch[d].seq > since \/ d \in amiss'
    BY <1>1, <1>5 DEF OutInv
  <2>1. couch[d].kept \/ couch[d].seq = 0 \/ couch[d].seq > lastSeq.saved \/ d \in amiss
    BY <1>5 DEF OutInv, IndexInv
  <2>. QED BY <1>1, <2>1, DocsAssumption
<1>. QED BY <1>6, <1>7, <1>8, <1>9, <1>10 DEF IndexInv

LEMMA SameIndexation ==
    ASSUME IndexInv, UNCHANGED xvars
    PROVE  IndexInv'
<1>1. Gathered' = Gathered /\ From' = From /\ (Running' <=> Running)
  BY DEF xvars, Gathered, From, Running
<1>2. SeqsInv'
  BY <1>1 DEF xvars, IndexInv, SeqsInv, Reached
<1>3. FlightInv'
  BY <1>1 DEF xvars, IndexInv, FlightInv, OpHolds, Operation
<1>4. LayersInv'
  BY <1>1 DEF xvars, IndexInv, LayersInv, LayerHolds, LayerIndexed, IsJob, JobHolds, OpHolds, Operation
<1>5. \A d \in Docs \ amiss' : Followed(d)'
  BY <1>1 DEF xvars, IndexInv, Followed, HasJob, LastIsCurrent, Operation, Indexed
<1>6. OutInv'
  BY <1>1, OutGoesOn DEF xvars, IndexInv
<1>. QED BY <1>2, <1>3, <1>4, <1>5, <1>6 DEF IndexInv

LEMMA NextIndex ==
    ASSUME IndexInv, [IndexationNext]_xvars
    PROVE  IndexInv'
BY WriteDocKeeps, ReceiveChangeKeeps, SaveLastSeqKeeps, FormattedKeeps, FormatFailsKeeps, PostAndResetKeeps, PostSucceedsKeeps,
   PostFailsKeeps, StartJobKeeps, EndJobKeeps, FailJobKeeps, CrashKeeps, StartServerKeeps, SameIndexation
   DEF IndexationNext

LEMMA IndexInvSuffices ==
    ASSUME IndexInv
    PROVE  IndexFollowsChanges
<1>. SUFFICES ASSUME Settled, NEW d \in Docs \ amiss PROVE Indexed(d)
  BY DEF IndexFollowsChanges
<1>1. Running /\ following = DbLastSeq /\ formatting = {} /\ batch = <<>> /\ posts = <<>> /\ jobs = {}
  BY DEF Settled
<1>2. Gathered = << <<>> >>
  BY <1>1 DEF Gathered
<1>3. ~(couch[d].seq > From)
  BY <1>1, LastSeqIs DEF From, IndexInv, SeqsInv
<1>4. LastIsCurrent(Gathered, d)
  BY <1>1, <1>3 DEF IndexInv, Followed, HasJob
<1>. QED BY <1>2, <1>4 DEF LastIsCurrent, Lacks

\* Whatever changes, formatters, batches, saves, jobs, failures and crashes interleave, a
\* document is indexed at rest as it is in the database, unless one of the causes recorded
\* in amiss undid it.
THEOREM ChangesAreIndexed == IndexationSpec => []IndexFollowsChanges
<1>1. CASE Docs = {}
  <2>1. IndexFollowsChanges
    BY <1>1 DEF IndexFollowsChanges
  <2>. QED BY <2>1, PTL
<1>2. CASE Docs # {}
  <2>1. IndexationInit => IndexInv
    BY <1>2, InitIndex
  <2>. QED BY <2>1, NextIndex, IndexInvSuffices, PTL DEF IndexationSpec
<1>. QED BY <1>1, <1>2

-----------------------------------------------------------------------------
(* SessionKeys. *)

\* Two keys that follow each other, or the first one alone.
Pair(ks, a, b) ==
    ks = {a, b} /\ a \in Nat /\ b \in Nat /\ (IF a = b THEN a = 0 ELSE a + CookieMaxAge + Shortly < b)

\* The keys of the other server are those of the file, or older ones.
FollowingKeys(a, b, c, d) ==
    /\ Pair(keys.following, c, d)
    /\ d = b \/ d = a \/ d + CookieMaxAge + Shortly < a
    /\ \A k \in {c, d} : k \in {a, b} \/ k < a
    /\ keyTimers.following # NoTimer =>
          keyTimers.following \in Nat /\ time <= keyTimers.following
          /\ keyTimers.following <= d + CookieMaxAge + Shortly + LaterOn

\* The leading server has the keys of the file, except while a new one is not in it yet.
LeadingKeys(a, b) ==
    /\ leadingIsUp /\ ~unsaved => keys.leading = {a, b}
    /\ unsaved => /\ leadingIsUp /\ keys.leading = {b, time} /\ b + CookieMaxAge + Shortly < time
                  /\ keyTimers.leading = NoTimer

\* A session outlives none of its keys: it is over, or its key is not followed by two others.
SessionIsKept(s, a, b) ==
    /\ s.timestamp \in Nat /\ s.timestamp <= time /\ s.maxAge \in Int /\ s.maxAge <= CookieMaxAge
    /\ \/ s.timestamp + s.maxAge < time
       \/ s.key = b
       \/ s.key = a /\ s.timestamp + s.maxAge <= b + CookieMaxAge
       \/ unsaved /\ s.key = time

KeysInv(a, b) ==
    /\ time \in Nat /\ unsaved \in BOOLEAN /\ leadingIsUp \in BOOLEAN
    /\ DOMAIN keys = {"leading", "following"} /\ DOMAIN keyTimers = {"leading", "following"}
    /\ Pair(keysFile, a, b) /\ b <= time
    /\ LeadingKeys(a, b)
    /\ \E c, d \in Nat : FollowingKeys(a, b, c, d)
    /\ \A s \in sessions : SessionIsKept(s, a, b)

-----------------------------------------------------------------------------

LEMMA NewestOfPair ==
    ASSUME NEW ks, NEW a, NEW b, Pair(ks, a, b)
    PROVE  Newest(ks) = b
<1>1. a <= b
  BY TimesAssumption DEF Pair
<1>. QED BY <1>1 DEF Pair, Newest

LEMMA CardinalityOfTwo ==
    ASSUME NEW a, NEW b
    PROVE  IsFiniteSet({a, b}) /\ (a # b => Cardinality({a, b}) = 2)
<1>1. {a, b} = {b} \cup {a}
  OBVIOUS
<1>2. IsFiniteSet({b}) /\ Cardinality({b}) = 1
  BY FS_Singleton
<1>. QED BY <1>1, <1>2, FS_AddElement

\* The newest two of a pair and older keys are this pair.
LEMMA CleanupKeepsPair ==
    ASSUME NEW ks, NEW a \in Nat, NEW b \in Nat, a < b, a \in ks, b \in ks, IsFiniteSet(ks),
           \A k \in ks : k \in Nat /\ (k = a \/ k = b \/ k < a)
    PROVE  Cleanup(ks) = {a, b}
<1>1. Cardinality({j \in ks : j > b}) < 2
  <2>1. \A j \in ks : ~ j > b
    OBVIOUS
  <2>2. {j \in ks : j > b} = {}
    BY <2>1
  <2>. QED BY <2>2, FS_EmptySet
<1>2. Cardinality({j \in ks : j > a}) < 2
  <2>1. \A j \in ks : j > a <=> j = b
    OBVIOUS
  <2>2. {j \in ks : j > a} = {b}
    BY <2>1
  <2>. QED BY <2>2, FS_Singleton
<1>3. ASSUME NEW k \in ks, k < a
      PROVE  ~ Cardinality({j \in ks : j > k}) < 2
  <2>. PICK newer : newer = {j \in ks : j > k}
    OBVIOUS
  <2>1. {a, b} \subseteq newer /\ newer \subseteq ks
    BY <1>3
  <2>2. IsFiniteSet(newer)
    BY <2>1, FS_Subset
  <2>3. Cardinality(newer) \in Nat
    BY <2>2, FS_CardinalityType
  <2>4. Cardinality({a, b}) = 2
    BY CardinalityOfTwo
  <2>5. Cardinality({a, b}) <= Cardinality(newer)
    BY <2>1, <2>2, FS_Subset
  <2>. QED BY <2>3, <2>4, <2>5
<1>. QED BY <1>1, <1>2, <1>3 DEF Cleanup

LEMMA CleanupOfZero ==
    Cleanup({0}) = {0}
<1>1. {j \in {0} : j > 0} = {}
  OBVIOUS
<1>. QED BY <1>1, FS_EmptySet DEF Cleanup

\* What the leading server keeps when it makes a key.
LEMMA CleanupAfterPair ==
    ASSUME NEW ks, NEW a, NEW b, Pair(ks, a, b), NEW k \in Nat, b < k
    PROVE  Cleanup(ks \cup {k}) = {b, k}
<1>1. a \in Nat /\ b \in Nat /\ a <= b /\ ks \cup {k} = {a, b} \cup {k}
  BY TimesAssumption DEF Pair
<1>2. IsFiniteSet(ks \cup {k})
  BY <1>1, CardinalityOfTwo, FS_AddElement
<1>. QED BY <1>1, <1>2, CleanupKeepsPair

\* What the other server keeps when it reads the file.
LEMMA FollowingReadsPair ==
    ASSUME NEW a \in Nat, NEW b \in Nat, NEW c \in Nat, NEW d \in Nat, Pair(keysFile, a, b), FollowingKeys(a, b, c, d)
    PROVE  Cleanup(keys.following \cup keysFile) = keysFile
<1>. PICK ks : ks = keys.following \cup keysFile
  OBVIOUS
<1>1. ks = {c, d} \cup {a, b} /\ keysFile = {a, b}
  BY DEF Pair, FollowingKeys
<1>2. CASE a = b
  <2>1. ks = {0} /\ keysFile = {0}
    BY <1>1, <1>2 DEF Pair, FollowingKeys
  <2>. QED BY <2>1, CleanupOfZero
<1>3. CASE a # b
  <2>1. a < b
    BY <1>3, TimesAssumption DEF Pair
  <2>2. \A k \in ks : k \in Nat /\ (k = a \/ k = b \/ k < a)
    BY <1>1 DEF FollowingKeys
  <2>3. IsFiniteSet(ks)
    <3>1. ks = ({c, d} \cup {a}) \cup {b}
      BY <1>1
    <3>2. IsFiniteSet({c, d} \cup {a})
      BY CardinalityOfTwo, FS_AddElement
    <3>. QED BY <3>1, <3>2, FS_AddElement
  <2>. QED BY <1>1, <2>1, <2>2, <2>3, CleanupKeepsPair
<1>. QED BY <1>2, <1>3

LEMMA InitKeys ==
    ASSUME SessionKeysInit
    PROVE  KeysInv(0, 0)
<1>1. {0, 0} = {0}
  OBVIOUS
<1>2. FollowingKeys(0, 0, 0, 0)
  BY <1>1, TimesAssumption DEF SessionKeysInit, FollowingKeys, Pair, Min2
<1>3. Pair(keysFile, 0, 0) /\ LeadingKeys(0, 0) /\ time = 0 /\ sessions = {}
  BY <1>1 DEF SessionKeysInit, Pair, LeadingKeys
<1>4. DOMAIN keys = {"leading", "following"} /\ DOMAIN keyTimers = {"leading", "following"}
  BY DEF SessionKeysInit
<1>5. unsaved \in BOOLEAN /\ leadingIsUp \in BOOLEAN
  BY DEF SessionKeysInit
<1>. QED BY <1>2, <1>3, <1>4, <1>5 DEF KeysInv

-----------------------------------------------------------------------------

\* A new key, made when the newest one has lived half of its life.
LEMMA CheckKeepsKeys ==
    ASSUME NEW a \in Nat, NEW b \in Nat, KeysInv(a, b), CheckState
    PROVE  KeysInv(a, b)'
<1>1. leadingIsUp /\ ~unsaved /\ keys.leading = {a, b} /\ Pair(keys.leading, a, b) /\ keyTimers.leading = time
  BY TimesAssumption DEF KeysInv, CheckState, LeadingKeys, Pair
<1>2. Newest(keys.leading) = b
  BY <1>1, NewestOfPair
<1>3. UNCHANGED <<time, keysFile, leadingIsUp, sessions>>
  BY DEF CheckState
<1>4. keys'.following = keys.following /\ keyTimers'.following = keyTimers.following
      /\ DOMAIN keys' = {"leading", "following"} /\ DOMAIN keyTimers' = {"leading", "following"}
  BY DEF CheckState, KeysInv
<1>5. CASE TimeUntilEndOfNewestKeyHalfLife(keys.leading) < 0
  <2>1. b + CookieMaxAge + Shortly < time
    BY <1>2, <1>5, TimesAssumption DEF TimeUntilEndOfNewestKeyHalfLife, KeysInv
  <2>2. Cleanup(keys.leading \cup {time}) = {b, time}
    BY <1>1, <2>1, TimesAssumption, CleanupAfterPair DEF KeysInv
  <2>3. unsaved' /\ keys'.leading = {b, time} /\ keyTimers'.leading = NoTimer
    BY <1>5, <2>2 DEF CheckState, KeysInv
  <2>4. \A s \in sessions : SessionIsKept(s, a, b)'
    BY <1>1, <1>3, <2>3 DEF KeysInv, SessionIsKept
  <2>. QED BY <1>1, <1>3, <1>4, <2>1, <2>3, <2>4 DEF KeysInv, LeadingKeys, FollowingKeys, Pair
<1>6. CASE ~ TimeUntilEndOfNewestKeyHalfLife(keys.leading) < 0
  <2>1. UNCHANGED <<keys, unsaved>>
    BY <1>6 DEF CheckState
  <2>. QED BY <1>1, <1>3, <1>4, <2>1 DEF KeysInv, LeadingKeys, FollowingKeys, Pair, SessionIsKept
<1>. QED BY <1>5, <1>6

\* The new key is written: the file forgets the oldest one, whose sessions are over.
LEMMA SaveKeepsKeys ==
    ASSUME NEW a \in Nat, NEW b \in Nat, KeysInv(a, b), SaveKeysToDisk
    PROVE  KeysInv(b, time)'
<1>1. /\ leadingIsUp /\ unsaved /\ keys.leading = {b, time} /\ b + CookieMaxAge + Shortly < time
      /\ keysFile' = {b, time} /\ ~unsaved' /\ unsaved' \in BOOLEAN
      /\ UNCHANGED <<time, keys, leadingIsUp, sessions>>
  BY DEF KeysInv, SaveKeysToDisk, LeadingKeys
<1>2. DOMAIN keyTimers' = {"leading", "following"} /\ keyTimers'.following = keyTimers.following
  BY DEF SaveKeysToDisk, KeysInv
<1>3. time \in Nat /\ a <= b /\ Pair(keysFile, a, b)
  BY TimesAssumption DEF KeysInv, Pair
<1>4. PICK c \in Nat, d \in Nat : FollowingKeys(a, b, c, d)
  BY DEF KeysInv
<1>5. Pair(keysFile, b, time)'
  BY <1>1, <1>3, TimesAssumption DEF Pair
<1>6. FollowingKeys(b, time, c, d)'
  <2>1. c <= d /\ (d = b \/ d + CookieMaxAge + Shortly < b)
    BY <1>3, <1>4, TimesAssumption DEF FollowingKeys, Pair
  <2>2. \A k \in {c, d} : k \in {b, time} \/ k < b
    BY <2>1, TimesAssumption
  <2>3. (Pair(keys.following, c, d))'
    BY <1>1, <1>4 DEF FollowingKeys, Pair
  <2>. QED BY <1>1, <1>2, <1>4, <2>1, <2>2, <2>3 DEF FollowingKeys
<1>7. ASSUME NEW s \in sessions
      PROVE  SessionIsKept(s, b, time)'
  BY <1>1, <1>3, TimesAssumption DEF KeysInv, SessionIsKept
<1>8. LeadingKeys(b, time)'
  BY <1>1 DEF LeadingKeys
<1>. QED BY <1>1, <1>2, <1>3, <1>5, <1>6, <1>7, <1>8 DEF KeysInv

LEMMA UpdateKeepsKeys ==
    ASSUME NEW a \in Nat, NEW b \in Nat, KeysInv(a, b), UpdateKeysFromFile
    PROVE  KeysInv(a, b)'
<1>1. /\ UNCHANGED <<time, keysFile, unsaved, leadingIsUp, sessions>>
      /\ keys'.leading = keys.leading /\ keyTimers'.leading = keyTimers.leading
      /\ DOMAIN keys' = {"leading", "following"} /\ DOMAIN keyTimers' = {"leading", "following"}
  BY DEF UpdateKeysFromFile, KeysInv
<1>2. Cleanup(keys.following \cup keysFile) = keysFile
  BY FollowingReadsPair DEF KeysInv
<1>3. Pair(keysFile, a, b) /\ Newest(keysFile) = b /\ keysFile = {a, b} /\ a <= b /\ time \in Nat
  <2>1. Pair(keysFile, a, b) /\ time \in Nat
    BY DEF KeysInv
  <2>2. Newest(keysFile) = b
    BY <2>1, NewestOfPair
  <2>. QED BY <2>1, <2>2, TimesAssumption DEF Pair
<1>4. keys'.following = keysFile
  BY <1>2 DEF UpdateKeysFromFile, KeysInv
<1>. PICK left : left = TimeUntilEndOfNewestKeyHalfLife(keysFile)
  OBVIOUS
<1>5. left = b + CookieMaxAge - time + Shortly
  BY <1>3 DEF TimeUntilEndOfNewestKeyHalfLife
<1>6. keyTimers'.following = IF left < 0 THEN NoTimer ELSE time + Min2(OneDay, left + LaterOn)
  BY <1>2 DEF UpdateKeysFromFile, KeysInv
<1>7. keyTimers'.following # NoTimer =>
          keyTimers'.following \in Nat /\ time <= keyTimers'.following
          /\ keyTimers'.following <= b + CookieMaxAge + Shortly + LaterOn
  BY <1>3, <1>5, <1>6, TimesAssumption DEF Min2
<1>8. FollowingKeys(a, b, a, b)'
  BY <1>1, <1>3, <1>4, <1>7 DEF FollowingKeys, Pair
<1>. QED BY <1>1, <1>8 DEF KeysInv, LeadingKeys, SessionIsKept, Pair

\* A key that was not saved is lost, with its sessions.
LEMMA StopKeepsKeys ==
    ASSUME NEW a \in Nat, NEW b \in Nat, KeysInv(a, b), StopLeadingServer
    PROVE  KeysInv(a, b)'
<1>1. /\ ~leadingIsUp' /\ leadingIsUp' \in BOOLEAN /\ ~unsaved' /\ unsaved' \in BOOLEAN
      /\ UNCHANGED <<time, keys, keysFile>> /\ keyTimers'.following = keyTimers.following
      /\ DOMAIN keyTimers' = {"leading", "following"}
      /\ \A s \in sessions' : s \in sessions /\ (s.key \in keysFile \/ ~unsaved)
  BY DEF StopLeadingServer, KeysInv
<1>2. \A s \in sessions' : SessionIsKept(s, a, b)'
  BY <1>1, TimesAssumption DEF KeysInv, SessionIsKept, LeadingKeys, Pair
<1>. QED BY <1>1, <1>2 DEF KeysInv, LeadingKeys, FollowingKeys, Pair

LEMMA StartKeepsKeys ==
    ASSUME NEW a \in Nat, NEW b \in Nat, KeysInv(a, b), StartLeadingServer
    PROVE  KeysInv(a, b)'
<1>1. /\ leadingIsUp' /\ leadingIsUp' \in BOOLEAN
      /\ UNCHANGED <<time, keysFile, unsaved, sessions>>
      /\ keys'.following = keys.following /\ keys'.leading = keysFile /\ keyTimers'.following = keyTimers.following
      /\ DOMAIN keys' = {"leading", "following"} /\ DOMAIN keyTimers' = {"leading", "following"}
  BY DEF StartLeadingServer, KeysInv
<1>2. ~unsaved
  BY DEF StartLeadingServer, KeysInv, LeadingKeys
<1>. QED BY <1>1, <1>2 DEF KeysInv, LeadingKeys, FollowingKeys, Pair, SessionIsKept

LEMMA TimeKeepsKeys ==
    ASSUME NEW a \in Nat, NEW b \in Nat, KeysInv(a, b), PassTime
    PROVE  KeysInv(a, b)'
<1>1. /\ time' = time + 1 /\ ~unsaved /\ keyTimers.following # time
      /\ UNCHANGED <<keys, keysFile, unsaved, keyTimers, leadingIsUp, sessions>>
  BY DEF PassTime
<1>2. \A s \in sessions : SessionIsKept(s, a, b)'
  BY <1>1, TimesAssumption DEF KeysInv, SessionIsKept
<1>. QED BY <1>1, <1>2 DEF KeysInv, LeadingKeys, FollowingKeys, Pair

\* A key that signs now is the newest, or has been followed by one key less than a life of
\* a cookie ago, or the server that uses it gives no time to its sessions.
LEMMA SignedIsKept ==
    ASSUME NEW a \in Nat, NEW b \in Nat, KeysInv(a, b), NEW server \in {"leading", "following"}, CanSign(server),
           NEW timestamp \in Nat, timestamp <= time
    PROVE  SessionIsKept(SignedBy(server, timestamp), a, b)
<1>. PICK s : s = SignedBy(server, timestamp)
  OBVIOUS
<1>1. /\ s.timestamp = timestamp /\ s.key = Newest(keys[server])
      /\ s.maxAge = IF server = "leading" THEN CookieMaxAge
                    ELSE IF keyTimers.following # NoTimer THEN CookieMaxAge - LaterOn ELSE -1
  BY DEF SignedBy
<1>2. s.maxAge \in Int /\ s.maxAge <= CookieMaxAge /\ time \in Nat /\ b <= time
  BY <1>1, TimesAssumption DEF KeysInv
<1>3. CASE server = "leading"
  <2>1. CASE unsaved
    <3>1. Pair(keys.leading, b, time)
      BY <2>1, TimesAssumption DEF KeysInv, LeadingKeys, Pair
    <3>. QED BY <1>1, <1>2, <1>3, <2>1, <3>1, NewestOfPair DEF SessionIsKept
  <2>2. CASE ~unsaved
    <3>1. Pair(keys.leading, a, b)
      BY <1>3, <2>2 DEF KeysInv, LeadingKeys, Pair, CanSign
    <3>. QED BY <1>1, <1>2, <1>3, <3>1, NewestOfPair DEF SessionIsKept
  <2>. QED BY <2>1, <2>2
<1>4. CASE server = "following"
  <2>1. PICK c \in Nat, d \in Nat : FollowingKeys(a, b, c, d)
    BY DEF KeysInv
  <2>2. s.key = d
    BY <1>1, <1>4, <2>1, NewestOfPair DEF FollowingKeys
  <2>3. CASE keyTimers.following = NoTimer
    BY <1>1, <1>2, <1>4, <2>3 DEF SessionIsKept
  <2>4. CASE keyTimers.following # NoTimer
    <3>1. s.maxAge = CookieMaxAge - LaterOn /\ time <= d + CookieMaxAge + Shortly + LaterOn
      BY <1>1, <1>2, <1>4, <2>1, <2>4, TimesAssumption DEF FollowingKeys
    <3>2. (a = b /\ a = 0) \/ a + CookieMaxAge + Shortly < b
      BY DEF KeysInv, Pair
    <3>3. d = b \/ d = a \/ d + CookieMaxAge + Shortly < a
      BY <2>1 DEF FollowingKeys
    <3>4. CASE d = b
      BY <1>1, <1>2, <2>2, <3>4 DEF SessionIsKept
    <3>5. CASE d = a /\ a # b
      <4>1. timestamp + s.maxAge <= b + CookieMaxAge
        BY <1>2, <3>1, <3>2, <3>5, TimesAssumption
      <4>. QED BY <1>1, <1>2, <2>2, <3>5, <4>1 DEF SessionIsKept
    <3>6. CASE d + CookieMaxAge + Shortly < a
      <4>1. timestamp + s.maxAge < time
        BY <1>2, <3>1, <3>2, <3>6, TimesAssumption
      <4>. QED BY <1>1, <1>2, <4>1 DEF SessionIsKept
    <3>. QED BY <3>3, <3>4, <3>5, <3>6
  <2>. QED BY <2>3, <2>4
<1>. QED BY <1>3, <1>4

LEMMA SigningKeepsKeys ==
    ASSUME NEW a \in Nat, NEW b \in Nat, KeysInv(a, b), NEW server \in {"leading", "following"},
           OpenSession(server) \/ \E s \in sessions : UseSession(server, s)
    PROVE  KeysInv(a, b)'
<1>1. PICK timestamp \in Nat : /\ timestamp <= time /\ CanSign(server)
                               /\ sessions' = {SignedBy(server, timestamp)}
                               /\ UNCHANGED <<time, keys, keysFile, unsaved, keyTimers, leadingIsUp>>
  BY DEF OpenSession, UseSession, KeysInv, SessionIsKept
<1>2. SessionIsKept(SignedBy(server, timestamp), a, b)
  BY <1>1, SignedIsKept
<1>. HIDE DEF SignedBy
<1>3. \A s \in sessions' : SessionIsKept(s, a, b)'
  BY <1>1, <1>2 DEF SessionIsKept
<1>. QED BY <1>1, <1>3 DEF KeysInv, LeadingKeys, FollowingKeys, Pair

-----------------------------------------------------------------------------

KeysAreKept == \E a, b \in Nat : KeysInv(a, b)

LEMMA NextKeys ==
    ASSUME KeysAreKept, [SessionKeysNext]_kvars
    PROVE  KeysAreKept'
<1>1. PICK a \in Nat, b \in Nat : KeysInv(a, b)
  BY DEF KeysAreKept
<1>2. CASE SaveKeysToDisk
  <2>1. KeysInv(b, time)' /\ time' \in Nat /\ time' = time
    BY <1>1, <1>2, SaveKeepsKeys DEF KeysInv, SaveKeysToDisk
  <2>. QED BY <2>1 DEF KeysAreKept
<1>3. CASE UNCHANGED kvars
  BY <1>1, <1>3 DEF kvars, KeysAreKept, KeysInv, LeadingKeys, FollowingKeys, Pair, SessionIsKept
<1>4. CASE CheckState \/ UpdateKeysFromFile \/ StopLeadingServer \/ StartLeadingServer \/ PassTime
  <2>1. KeysInv(a, b)'
    BY <1>1, <1>4, CheckKeepsKeys, UpdateKeepsKeys, StopKeepsKeys, StartKeepsKeys, TimeKeepsKeys
  <2>. QED BY <2>1 DEF KeysAreKept
<1>5. ASSUME NEW server \in {"leading", "following"},
             OpenSession(server) \/ \E s \in sessions : UseSession(server, s)
      PROVE  KeysAreKept'
  <2>1. KeysInv(a, b)'
    BY <1>1, <1>5, SigningKeepsKeys
  <2>. QED BY <2>1 DEF KeysAreKept
<1>. QED BY <1>2, <1>3, <1>4, <1>5 DEF SessionKeysNext

\* Whatever the times, the rotations, the stops of the leading server and the delay of the
\* other one, a session lives for the maximum age of its cookie: keys are more than that
\* age apart, and each is kept until two others have followed it.
THEOREM SessionsOutliveNoKey == SessionKeysSpec => []SessionsLiveCookieMaxAge
<1>1. SessionKeysInit => KeysAreKept
  BY InitKeys DEF KeysAreKept
<1>2. KeysAreKept => SessionsLiveCookieMaxAge
  BY TimesAssumption DEF KeysAreKept, KeysInv, LeadingKeys, Pair, SessionIsKept, SessionsLiveCookieMaxAge
<1>. QED BY <1>1, <1>2, NextKeys, PTL DEF SessionKeysSpec

-----------------------------------------------------------------------------
(* RelationsCache. *)

RelationsTypes ==
    /\ hour \in Nat
    /\ claimed \subseteq Works /\ queryService \subseteq Works
    /\ editedAt \in [Works -> Nat]
    /\ relations \in [Works -> Nat \cup {Never}]
    /\ expirations \subseteq [work : Works, at : Nat]

\* The query service has seen an edit once its lag is over.
ServiceCatchesUp == \A w \in Works : (w \in claimed <=> w \in queryService) \/ hour <= editedAt[w] + QueryServiceLag

\* An expiration is the one of the temporary relation of a claim.
ExpirationsFollow ==
    /\ \A e \in expirations : e.work \in claimed /\ relations[e.work] = e.at /\ e.at = editedAt[e.work] + Ttl
    /\ \A e \in expiring : e \in expirations \/ e.work \notin claimed

\* The answer about the author has the work, and the cached one too.
InAnswers(w) ==
    w \in queryService /\ (KeyOf("author_works") \in DOMAIN cached => w \in cached[KeyOf("author_works")])

\* A claim without a temporary relation, or whose relation is being deleted, needs none.
NoRelationIsNeeded ==
    \A w \in claimed : relations[w] = Never \/ (\E e \in expiring : e.work = w) => InAnswers(w)

RelationsInv ==
    RelationsTypes /\ ServiceCatchesUp /\ ExpirationsFollow /\ NoRelationIsNeeded

LEMMA InitRelations ==
    ASSUME RelationsCacheInit
    PROVE  RelationsInv
BY LagAssumption DEF RelationsCacheInit, RelationsInv, RelationsTypes, ServiceCatchesUp, ExpirationsFollow, NoRelationIsNeeded

LEMMA AddKeepsRelations ==
    ASSUME RelationsInv, NEW w \in Works, AddWdClaim(w)
    PROVE  RelationsInv'
<1>. USE DEF RelationsInv
<1>1. /\ w \notin claimed /\ (\A e \in expiring : e.work # w)
      /\ claimed' = claimed \cup {w}
      /\ relations' = [relations EXCEPT ![w] = hour + Ttl]
      /\ expirations' = expirations \cup {[work |-> w, at |-> hour + Ttl]}
      /\ editedAt' = [editedAt EXCEPT ![w] = hour]
      /\ UNCHANGED <<hour, queryService, expiring, cached>>
  BY DEF AddWdClaim, Editing
<1>2. hour + Ttl \in Nat /\ hour + Ttl # Never
  BY LagAssumption DEF RelationsTypes
<1>3. RelationsTypes'
  <2>1. [work |-> w, at |-> hour + Ttl] \in [work : Works, at : Nat]
    BY <1>2
  <2>. QED BY <1>1, <1>2, <2>1 DEF RelationsTypes
<1>4. ServiceCatchesUp'
  BY <1>1, LagAssumption DEF ServiceCatchesUp, RelationsTypes
<1>5. ExpirationsFollow'
  BY <1>1 DEF ExpirationsFollow, RelationsTypes
<1>6. NoRelationIsNeeded'
  BY <1>1, <1>2 DEF NoRelationIsNeeded, InAnswers, RelationsTypes
<1>. QED BY <1>3, <1>4, <1>5, <1>6

LEMMA RemoveKeepsRelations ==
    ASSUME RelationsInv, NEW w \in Works, RemoveWdClaim(w)
    PROVE  RelationsInv'
<1>. USE DEF RelationsInv
<1>1. /\ claimed' = claimed \ {w}
      /\ relations' = [relations EXCEPT ![w] = Never]
      /\ expirations' = expirations \ {[work |-> w, at |-> relations[w]]}
      /\ editedAt' = [editedAt EXCEPT ![w] = hour]
      /\ UNCHANGED <<hour, queryService, expiring, cached>>
  BY DEF RemoveWdClaim, Editing
<1>2. \A e \in expirations' : e \in expirations /\ e.work # w
  BY <1>1 DEF ExpirationsFollow, RelationsTypes
<1>3. RelationsTypes'
  BY <1>1 DEF RelationsTypes
<1>4. ServiceCatchesUp'
  BY <1>1, LagAssumption DEF ServiceCatchesUp, RelationsTypes
<1>5. ExpirationsFollow'
  BY <1>1, <1>2 DEF ExpirationsFollow, RelationsTypes
<1>6. NoRelationIsNeeded'
  BY <1>1 DEF NoRelationIsNeeded, InAnswers, RelationsTypes
<1>. QED BY <1>3, <1>4, <1>5, <1>6

\* A relation expires after the query service has seen its edit, and the cached answer
\* goes away before the relation.
LEMMA ExpirationKeepsRelations ==
    ASSUME RelationsInv, InvalidateQueries \/ DeleteExpired
    PROVE  RelationsInv'
<1>. USE DEF RelationsInv
<1>1. CASE InvalidateQueries
  <2>1. /\ expiring' = {e \in expirations : e.at < hour}
        /\ UNCHANGED <<hour, claimed, queryService, editedAt, relations, expirations>>
        /\ KeyOf("author_works") \notin DOMAIN cached'
    BY <1>1 DEF InvalidateQueries, Restrict, GetQueriesKeys, KeyOf
  <2>2. \A e \in expiring' : e.work \in queryService
    BY <2>1, LagAssumption DEF ExpirationsFollow, ServiceCatchesUp, RelationsTypes
  <2>. QED BY <2>1, <2>2 DEF RelationsTypes, ServiceCatchesUp, ExpirationsFollow, NoRelationIsNeeded, InAnswers
<1>2. CASE DeleteExpired
  <2>1. /\ relations' = [w \in Works |-> IF \E e \in expiring : e.work = w THEN Never ELSE relations[w]]
        /\ expirations' = expirations \ expiring /\ expiring' = {}
        /\ UNCHANGED <<hour, claimed, queryService, editedAt, cached>>
    BY <1>2 DEF DeleteExpired
  <2>2. ASSUME NEW e \in expirations'
        PROVE  relations'[e.work] = relations[e.work]
    <3>1. e.work \in Works
      BY <2>1 DEF RelationsTypes
    <3>2. ASSUME NEW d \in expiring, d.work = e.work
          PROVE  FALSE
      <4>1. d \in expirations /\ e \in expirations /\ d.at = e.at
        BY <2>1, <3>2 DEF ExpirationsFollow
      <4>2. d = e
        BY <3>2, <4>1 DEF RelationsTypes
      <4>. QED BY <2>1, <4>2
    <3>. QED BY <2>1, <3>1, <3>2
  <2>3. RelationsTypes'
    BY <2>1 DEF RelationsTypes
  <2>. QED BY <2>1, <2>2, <2>3 DEF RelationsTypes, ServiceCatchesUp, ExpirationsFollow, NoRelationIsNeeded, InAnswers
<1>. QED BY <1>1, <1>2

LEMMA NextRelations ==
    ASSUME RelationsInv, [RelationsCacheNext]_rvars
    PROVE  RelationsInv'
<1>. USE DEF RelationsInv
<1>1. ASSUME NEW w \in Works, QueryServiceUpdates(w)
      PROVE  RelationsInv'
  BY <1>1 DEF QueryServiceUpdates, RelationsTypes, ServiceCatchesUp, ExpirationsFollow, NoRelationIsNeeded, InAnswers
<1>2. ASSUME NEW query \in {"author_works", "reverse-claims"}, PopulateQuery(query)
      PROVE  RelationsInv'
  <2>1. UNCHANGED <<hour, claimed, queryService, editedAt, relations, expirations, expiring>>
    BY <1>2 DEF PopulateQuery
  <2>2. \A k \in DOMAIN cached' : cached'[k] = queryService \/ (k \in DOMAIN cached /\ cached'[k] = cached[k])
    BY <1>2 DEF PopulateQuery
  <2>. QED BY <2>1, <2>2 DEF RelationsTypes, ServiceCatchesUp, ExpirationsFollow, NoRelationIsNeeded, InAnswers
<1>3. CASE HourPasses
  <2>1. ServiceCatchesUp'
    BY <1>3, LagAssumption DEF HourPasses, ServiceCatchesUp, RelationsTypes
  <2>. QED BY <1>3, <2>1 DEF HourPasses, RelationsTypes, ExpirationsFollow, NoRelationIsNeeded, InAnswers
<1>4. CASE UNCHANGED rvars
  BY <1>4 DEF rvars, RelationsTypes, ServiceCatchesUp, ExpirationsFollow, NoRelationIsNeeded, InAnswers
<1>. QED BY <1>1, <1>2, <1>3, <1>4, AddKeepsRelations, RemoveKeepsRelations, ExpirationKeepsRelations
         DEF RelationsCacheNext

\* For any number of works, of edits and of cached answers, a work linked to its author is
\* in the list of the author's works from its edition on: its temporary relation outlives
\* the lag of the query service, and the answers cached during that lag go away before it.
THEOREM AuthorsHaveTheirRecentWorks == RelationsCacheSpec => []AuthorWorksHaveRecentEdits
<1>1. RelationsInv => AuthorWorksHaveRecentEdits
  BY DEF RelationsInv, RelationsTypes, NoRelationIsNeeded, InAnswers, AuthorWorksHaveRecentEdits, Listed, GetCachedRelations
<1>. QED BY <1>1, InitRelations, NextRelations, PTL DEF RelationsCacheSpec

-----------------------------------------------------------------------------
(* FederatedMerges. *)

Documents == [id : Nat, attempts : Nat]

FederatedTypes ==
    /\ redirected \in BOOLEAN /\ missed \in BOOLEAN
    /\ mergesBudget \in [{"merges", "failures", "subscriptions"} -> Nat]
    /\ subscriptions \subseteq Documents
    /\ notifications \subseteq [subscription : Documents, received : BOOLEAN]
    /\ handlers \in [Handlers -> {"idle", "propagate", "subscribe", "post"}]
    /\ item \in [moved : BOOLEAN, previous : BOOLEAN]

AllIdle == handlers = [h \in Handlers |-> "idle"]

\* A subscription that will be posted the revert, or is being so.
WillBeNotified(s) == s \in subscriptions /\ (s.attempts > 0 \/ [subscription |-> s, received |-> FALSE] \in notifications)

\* Of the revert, as long as its notification was not received.
RevertIsOnItsWay == (\A n \in notifications : ~n.received) /\ \E s \in subscriptions : WillBeNotified(s)

FederatedInv ==
    /\ FederatedTypes
    /\ item.moved => item.previous
    /\ ~redirected /\ ~missed => AllIdle /\ (item.moved => RevertIsOnItsWay)

LEMMA InitFederated ==
    ASSUME FederatedInit
    PROVE  FederatedInv
<1>1. mergesBudget \in [{"merges", "failures", "subscriptions"} -> Nat]
  BY DEF FederatedInit
<1>2. item \in [moved : BOOLEAN, previous : BOOLEAN] /\ ~item.moved
  BY DEF FederatedInit
<1>. QED BY <1>1, <1>2 DEF FederatedInit, FederatedInv, FederatedTypes, AllIdle

LEMMA CountsInBudget ==
    ASSUME FederatedInv, NEW counter \in {"merges", "failures", "subscriptions"}, NEW max, Counts(counter, max)
    PROVE  mergesBudget' \in [{"merges", "failures", "subscriptions"} -> Nat]
BY DEF FederatedInv, FederatedTypes, Counts

\* A failed notification is planned again, or given up.
LEMMA FailureIsPlannedAgain ==
    ASSUME FederatedInv, NEW n \in notifications, RecordNotificationFailure(n)
    PROVE  FederatedInv'
<1>. PICK failed : failed = [n.subscription EXCEPT !.attempts = @ + 1]
  OBVIOUS
<1>1. n.subscription \in Documents /\ n \in [subscription : Documents, received : BOOLEAN]
  BY DEF FederatedInv, FederatedTypes
<1>2. failed \in Documents /\ failed.attempts > 0
  BY <1>1 DEF Documents
<1>3. /\ notifications' = notifications \ {n}
      /\ UNCHANGED <<redirected, handlers, item>>
      /\ \/ /\ subscriptions' = (subscriptions \ {n.subscription}) \cup {failed} /\ UNCHANGED missed
            /\ n.subscription \in subscriptions
         \/ /\ subscriptions' = subscriptions \ {n.subscription} /\ missed' = TRUE
         \/ /\ n.subscription \notin subscriptions /\ UNCHANGED <<subscriptions, missed>>
  <2>1. CASE n.subscription \in subscriptions /\ n.subscription.attempts = MaxNotifyAttempts
    BY <2>1 DEF RecordNotificationFailure, FederatedInv, FederatedTypes
  <2>2. CASE n.subscription \in subscriptions /\ n.subscription.attempts # MaxNotifyAttempts
    BY <2>2 DEF RecordNotificationFailure, FederatedInv, FederatedTypes
  <2>3. CASE n.subscription \notin subscriptions
    BY <2>3 DEF RecordNotificationFailure
  <2>. QED BY <2>1, <2>2, <2>3
<1>4. mergesBudget' \in [{"merges", "failures", "subscriptions"} -> Nat]
  BY CountsInBudget DEF RecordNotificationFailure, NetworkFails
<1>5. FederatedTypes'
  BY <1>2, <1>3, <1>4 DEF FederatedInv, FederatedTypes
<1>6. ASSUME ~redirected, ~missed', item.moved
      PROVE  RevertIsOnItsWay'
  <2>1. ~missed
    BY <1>3, <1>6 DEF FederatedInv, FederatedTypes
  <2>2. PICK s \in subscriptions : WillBeNotified(s)
    BY <1>6, <2>1 DEF FederatedInv, RevertIsOnItsWay
  <2>3. CASE s = n.subscription
    BY <1>2, <1>3, <1>6, <2>3 DEF WillBeNotified, RevertIsOnItsWay, FederatedInv
  <2>4. CASE s # n.subscription
    <3>1. [subscription |-> s, received |-> FALSE] # n
      BY <2>4
    <3>2. s \in subscriptions' /\ (\A m \in notifications' : ~m.received)
      BY <1>3, <1>6, <2>1, <2>4 DEF RevertIsOnItsWay, FederatedInv
    <3>3. WillBeNotified(s)'
      BY <1>3, <2>2, <3>1, <3>2 DEF WillBeNotified
    <3>. QED BY <3>2, <3>3 DEF RevertIsOnItsWay
  <2>. QED BY <2>3, <2>4
<1>7. ~missed' => ~missed
  BY <1>3 DEF FederatedInv, FederatedTypes
<1>. QED BY <1>3, <1>5, <1>6, <1>7 DEF FederatedInv, AllIdle

LEMMA NextFederated ==
    ASSUME FederatedInv, [FederatedNext]_fvars
    PROVE  FederatedInv'
<1>. USE DEF FederatedInv
<1>1. CASE Merge
  BY <1>1, CountsInBudget DEF Merge, FederatedTypes
<1>2. CASE RevertMerge
  <2>1. FederatedTypes'
    <3>1. notifications' \subseteq [subscription : Documents, received : BOOLEAN]
      <4>1. \A s \in subscriptions : [subscription |-> s, received |-> FALSE] \in [subscription : Documents, received : BOOLEAN]
        BY DEF FederatedTypes
      <4>2. \A n \in notifications' : n \in notifications \/ \E s \in subscriptions : n = [subscription |-> s, received |-> FALSE]
        BY <1>2 DEF RevertMerge
      <4>3. notifications \subseteq [subscription : Documents, received : BOOLEAN]
        BY DEF FederatedTypes
      <4>. QED BY <4>1, <4>2, <4>3, Zenon
    <3>2. missed' \in BOOLEAN
      <4>1. item.moved \in BOOLEAN
        BY DEF FederatedTypes
      <4>2. CASE item.moved /\ subscriptions = {}
        BY <1>2, <4>2 DEF RevertMerge
      <4>3. CASE ~(item.moved /\ subscriptions = {})
        BY <1>2, <4>3 DEF RevertMerge
      <4>. QED BY <4>2, <4>3
    <3>. QED BY <1>2, <3>1, <3>2 DEF RevertMerge, FederatedTypes
  <2>2. ASSUME ~missed'
        PROVE  AllIdle' /\ (item.moved => RevertIsOnItsWay')
    <3>1. /\ AllIdle /\ notifications = {} /\ UNCHANGED <<handlers, subscriptions, item>>
          /\ notifications' = {[subscription |-> s, received |-> FALSE] : s \in subscriptions}
          /\ item.moved => subscriptions # {}
      BY <1>2, <2>2 DEF RevertMerge, AllIdle
    <3>2. \A n \in notifications' : ~n.received
      BY <3>1
    <3>3. \A s \in subscriptions' : WillBeNotified(s)'
      BY <3>1 DEF WillBeNotified
    <3>. QED BY <3>1, <3>2, <3>3 DEF AllIdle, RevertIsOnItsWay
  <2>. QED BY <1>2, <2>1, <2>2 DEF RevertMerge
<1>3. ASSUME NEW n \in notifications, ReceiveRevert(n)
      PROVE  FederatedInv'
  <2>1. [n EXCEPT !.received = TRUE] \in [subscription : Documents, received : BOOLEAN]
    BY DEF FederatedTypes
  <2>2. ~item'.moved /\ item' \in [moved : BOOLEAN, previous : BOOLEAN]
    BY <1>3 DEF ReceiveRevert, FederatedTypes
  <2>. QED BY <1>3, <2>1, <2>2 DEF ReceiveRevert, FederatedTypes, AllIdle
<1>4. ASSUME NEW n \in notifications, Acknowledge(n)
      PROVE  FederatedInv'
  BY <1>4 DEF Acknowledge, FederatedTypes, AllIdle, RevertIsOnItsWay
<1>5. ASSUME NEW n \in notifications, RecordNotificationFailure(n)
      PROVE  FederatedInv'
  BY <1>5, FailureIsPlannedAgain
<1>6. ASSUME NEW s \in subscriptions, RetryFailedNotification(s)
      PROVE  FederatedInv'
  <2>1. [subscription |-> s, received |-> FALSE] \in [subscription : Documents, received : BOOLEAN]
    BY DEF FederatedTypes
  <2>. QED BY <1>6, <2>1 DEF RetryFailedNotification, FederatedTypes, AllIdle, RevertIsOnItsWay, WillBeNotified
<1>7. ASSUME NEW h \in Handlers, LearnRedirection(h)
      PROVE  FederatedInv'
  BY <1>7 DEF LearnRedirection, HandlerGoes, FederatedTypes
<1>8. ASSUME NEW h \in Handlers, handlers[h] # "idle", FederatedTypes', item'.moved => item'.previous,
             UNCHANGED <<redirected, missed>>
      PROVE  FederatedInv'
  BY <1>8 DEF AllIdle, FederatedTypes
<1>9. ASSUME NEW h \in Handlers, PropagateRedirectionToSocialCore(h)
      PROVE  FederatedInv'
  <2>1. item' \in [moved : BOOLEAN, previous : BOOLEAN] /\ item'.previous
    BY <1>9 DEF PropagateRedirectionToSocialCore, FederatedTypes
  <2>. QED BY <1>8, <1>9, <2>1 DEF PropagateRedirectionToSocialCore, HandlerGoes, FederatedTypes
<1>10. ASSUME NEW h \in Handlers, SubscribeToRevert(h)
       PROVE  FederatedInv'
  BY <1>8, <1>10 DEF SubscribeToRevert, HandlerGoes, FederatedTypes
<1>11. ASSUME NEW h \in Handlers, PostSubscription(h)
       PROVE  FederatedInv'
  <2>1. [id |-> mergesBudget.subscriptions + 1, attempts |-> 0] \in Documents
    BY DEF FederatedTypes, Documents
  <2>. QED BY <1>8, <1>11, <2>1, CountsInBudget DEF PostSubscription, HandlerGoes, FederatedTypes
<1>12. ASSUME NEW h \in Handlers, FailToSubscribe(h)
       PROVE  FederatedInv'
  BY <1>8, <1>12, CountsInBudget DEF FailToSubscribe, NetworkFails, HandlerGoes, FederatedTypes
<1>13. CASE UNCHANGED fvars
  BY <1>13 DEF fvars, FederatedTypes, AllIdle, RevertIsOnItsWay, WillBeNotified
<1>. QED BY <1>1, <1>2, <1>3, <1>4, <1>5, <1>6, <1>7, <1>9, <1>10, <1>11, <1>12, <1>13 DEF FederatedNext

\* Any number of merges, subscriptions, lost notifications and retries leave no item on the
\* target of a merge that was reverted, once all notifications were delivered.
THEOREM RevertsAreDelivered == FederatedSpec => []RevertsReachOtherInstances
<1>1. FederatedInv => RevertsReachOtherInstances
  BY DEF FederatedInv, FederatedTypes, Documents, AllIdle, RevertIsOnItsWay, WillBeNotified, RevertsReachOtherInstances
<1>. QED BY <1>1, InitFederated, NextFederated, PTL DEF FederatedSpec

-----------------------------------------------------------------------------
(* TransactionEmails. *)

MailTypes ==
    /\ unread \in Parties \cup {Nobody}
    /\ DOMAIN listeners = Listeners
    /\ excused \in BOOLEAN
    /\ \A s \in senders : s = [key |-> s.key, step |-> s.step, to |-> s.to, of |-> s.of]

Handled == \E l \in Listeners : listeners[l] # "free"

\* An email that is not built yet, or that was built for what its party has not read.
Tells(s) == s.step = "build" \/ (s.step = "send" /\ s.to = unread /\ s.of = update)

\* A key that no one is about to delete before an email tells the last update.
Tellable(k) == k \in waiting \ deletions /\ \A s \in senders : s.key = k => Tells(s)

MailInv ==
    /\ MailTypes
    /\ unread # Nobody => Handled \/ (\E k \in waiting : Tellable(k)) \/ unread \in announced \/ excused

LEMMA InitMail ==
    ASSUME MailInit
    PROVE  MailInv
BY DEF MailInit, MailInv, MailTypes

\* What is still to be told stays so, unless a listener handles the event or the email is lost.
LEMMA TellingGoesOn ==
    ASSUME MailInv, MailTypes', UNCHANGED <<unread, update>>,
           Handled => Handled' \/ excused' \/ \E k \in waiting' : Tellable(k)',
           excused => excused', announced \subseteq announced',
           \A k \in waiting : Tellable(k) => Tellable(k)' \/ unread \in announced' \/ excused'
    PROVE  MailInv'
BY DEF MailInv, Tellable

LEMMA NextMail ==
    ASSUME MailInv, [MailNext]_mailVars
    PROVE  MailInv'
<1>. USE DEF MailInv
<1>1. ASSUME NEW party \in Parties, MarkTransactionAsRead(party)
      PROVE  MailInv'
  BY <1>1 DEF MarkTransactionAsRead, MailTypes
<1>2. ASSUME NEW party \in Parties, NEW l \in Listeners, UpdateTransaction(party, l)
      PROVE  MailInv'
  <2>1. unread' \in Parties
    BY <1>2 DEF UpdateTransaction, Parties
  <2>2. MailTypes'
    BY <1>2, <2>1 DEF UpdateTransaction, MailTypes
  <2>3. Handled'
    BY <1>2 DEF UpdateTransaction, MailTypes, Handled
  <2>. QED BY <2>2, <2>3
<1>3. ASSUME NEW l \in Listeners, AddToWaitingList(l)
      PROVE  MailInv'
  <2>1. MailTypes'
    BY <1>3 DEF AddToWaitingList, MailTypes
  <2>2. Handled'
    BY <1>3 DEF AddToWaitingList, MailTypes, Handled
  <2>. QED BY <2>1, <2>2
<1>4. ASSUME NEW l \in Listeners, CreateNewWaiter(l)
      PROVE  MailInv'
  <2>1. PICK k \in NewKeys : waiting' = waiting \cup {k}
    BY <1>4 DEF CreateNewWaiter
  <2>2. Tellable(k)'
    BY <1>4, <2>1 DEF CreateNewWaiter, NewKeys, Tellable
  <2>3. MailTypes'
    BY <1>4 DEF CreateNewWaiter, MailTypes
  <2>. QED BY <2>1, <2>2, <2>3
<1>5. ASSUME NEW k \in deletions, DeleteWaiter(k)
      PROVE  MailInv'
  BY <1>5, TellingGoesOn DEF DeleteWaiter, MailTypes, Handled, Tellable, Tells
<1>6. CASE Crawl
  <2>1. \A s \in senders' : s \in senders \/ (s.step = "build" /\ s = [key |-> s.key, step |-> s.step, to |-> s.to, of |-> s.of])
    BY <1>6 DEF Crawl
  <2>2. MailTypes'
    BY <1>6, <2>1 DEF Crawl, MailTypes
  <2>. QED BY <1>6, <2>1, <2>2, TellingGoesOn DEF Crawl, Handled, Tellable, Tells
<1>7. ASSUME NEW s \in senders, BuildTransactionEmail(s)
      PROVE  MailInv'
  <2>. PICK step : step = IF unread = Nobody THEN "delete" ELSE "send"
    OBVIOUS
  <2>. PICK t : t = [s EXCEPT !.step = step, !.to = unread, !.of = update]
    OBVIOUS
  <2>1. t = [key |-> s.key, step |-> step, to |-> unread, of |-> update]
    <3>1. s = [key |-> s.key, step |-> s.step, to |-> s.to, of |-> s.of]
      BY DEF MailTypes
    <3>2. DOMAIN s = {"key", "step", "to", "of"}
      BY <3>1
    <3>. QED BY <3>2
  <2>2. senders' = (senders \ {s}) \cup {t}
    BY <1>7 DEF BuildTransactionEmail, Advances
  <2>3. MailTypes'
    BY <1>7, <2>1, <2>2 DEF BuildTransactionEmail, MailTypes
  <2>4. CASE unread = Nobody
    BY <1>7, <2>3, <2>4 DEF BuildTransactionEmail
  <2>5. CASE unread # Nobody
    BY <1>7, <2>1, <2>2, <2>3, <2>5, TellingGoesOn DEF BuildTransactionEmail, Handled, Tellable, Tells
  <2>. QED BY <2>4, <2>5
<1>8. ASSUME NEW s \in senders, FailToBuild(s)
      PROVE  MailInv'
  BY <1>8, TellingGoesOn DEF FailToBuild, MailTypes, Handled, Tellable, Tells
<1>9. ASSUME NEW s \in senders, SendMail(s)
      PROVE  MailInv'
  <2>. PICK t : t = [s EXCEPT !.step = "delete"]
    OBVIOUS
  <2>1. t = [key |-> s.key, step |-> "delete", to |-> s.to, of |-> s.of]
    BY DEF MailTypes
  <2>2. senders' = (senders \ {s}) \cup {t} /\ s.step = "send"
    BY <1>9 DEF SendMail, Advances
  <2>3. MailTypes'
    BY <1>9, <2>1, <2>2 DEF SendMail, MailTypes
  <2>4. CASE unread = Nobody
    BY <1>9, <2>3, <2>4 DEF SendMail
  <2>5. ASSUME unread # Nobody, NEW k \in waiting, Tellable(k)
        PROVE  Tellable(k)' \/ unread \in announced' \/ excused'
    <3>1. CASE s.key = k
      BY <1>9, <2>2, <2>5, <3>1 DEF SendMail, Tellable, Tells, MailTypes
    <3>2. CASE s.key # k
      BY <1>9, <2>1, <2>2, <2>5, <3>2 DEF SendMail, Tellable, Tells
    <3>. QED BY <3>1, <3>2
  <2>6. UNCHANGED <<unread, update, waiting, listeners>>
    BY <1>9 DEF SendMail
  <2>7. (excused => excused') /\ announced \subseteq announced'
    <3>1. CASE UNCHANGED <<excused, mailFailures>> /\ announced' = announced \cup {p \in Parties : p = s.to /\ s.of = update}
      BY <3>1
    <3>2. CASE UNCHANGED announced /\ excused' = (excused \/ s.of = update)
      BY <3>2 DEF MailTypes
    <3>. QED BY <1>9, <3>1, <3>2 DEF SendMail
  <2>. QED BY <2>3, <2>4, <2>5, <2>6, <2>7, TellingGoesOn DEF Handled
<1>10. ASSUME NEW s \in senders, DeleteSent(s)
       PROVE  MailInv'
  <2>1. /\ s.step = "delete" /\ waiting' = waiting \ {s.key} /\ senders' = senders \ {s}
        /\ UNCHANGED <<update, unread, listeners, deletions, announced, excused>>
    BY <1>10 DEF DeleteSent, DeleteKeys
  <2>2. \A k \in waiting : Tellable(k) => k # s.key /\ Tellable(k)'
    BY <2>1 DEF Tellable, Tells
  <2>. QED BY <2>1, <2>2, TellingGoesOn DEF MailTypes, Handled
<1>11. CASE RestartServer
  BY <1>11, TellingGoesOn DEF RestartServer, MailTypes, Handled, Tellable
<1>12. CASE NextPeriod
  BY <1>12, TellingGoesOn DEF NextPeriod, MailTypes, Handled, Tellable, Tells
<1>13. CASE UNCHANGED mailVars
  BY <1>13, TellingGoesOn DEF mailVars, MailTypes, Handled, Tellable, Tells
<1>. QED BY <1>1, <1>2, <1>3, <1>4, <1>5, <1>6, <1>7, <1>8, <1>9, <1>10, <1>11, <1>12, <1>13 DEF MailNext

\* Whatever the number of updates and of listeners, the last update of a transaction is on
\* its way to the party who has not read it: the key that tells it is not deleted by the
\* listener of another event without being replaced, nor by an email about an older update.
THEOREM UpdatesReachTheirParty == MailSpec => []UnreadUpdatesReachTheirParty
<1>1. MailInv => UnreadUpdatesReachTheirParty
  BY DEF MailInv, Handled, Tellable, Tells, UnreadUpdatesReachTheirParty
<1>. QED BY <1>1, InitMail, NextMail, PTL DEF MailSpec

-----------------------------------------------------------------------------
(* PublicActivities. *)

\* The types of what the activities are computed from, and what is in the past.
Publishing ==
    [step : {"none", "last", "create", "read", "post"}, since : Nat, until : Nat, items : SUBSET Books,
     poolActivities : BOOLEAN]
Profile == [fediversable : BOOLEAN, poolActivities : BOOLEAN]
ActivityTypes ==
    /\ date \in Nat \ {0}
    /\ created \in [Books -> Nat \cup {Absent}]
    /\ \A b \in Books : created[b] \in Nat => 0 < created[b] /\ created[b] <= date
    /\ stored \subseteq Books /\ \A b \in stored : created[b] \in Nat
    /\ activities \subseteq [since : Nat, until : 0..date]
    /\ publishing \in Publishing /\ profile \in Profile
    /\ debounced \in BOOLEAN /\ lapsed \in BOOLEAN

\* The last activity has the greatest end.
LastOne(a) == a \in activities /\ \A c \in activities : c.until <= a.until

\* Windows do not overlap, and leave out nothing but their ends.
WindowsFollow ==
    /\ activities = {} \/ \E a \in activities : LastOne(a)
    /\ \A a, c \in activities : a = c \/ a.until <= c.since \/ c.until <= a.since
    /\ \A t \in Nat \ (Untils \cup {0}) :
          (\E a \in activities : t < a.until) => \E a \in activities : a.since < t /\ t < a.until

\* An item that no window reaches yet has its activity coming.
ActivityIsComing ==
    \A b \in stored :
        \/ debounced \/ publishing.step \in {"last", "create"} \/ lapsed
        \/ \E a \in activities : created[b] <= a.until

\* Notes are those of different windows, and so will be the one that is being made, which
\* may still bring the items that its window has and no note does.
NotesInv ==
    /\ \A n \in notes : \A b \in n.items : b \in stored /\ Within(b, n)
    /\ \A n \in notes : \E a \in activities : a.since = n.since /\ a.until = n.until
    /\ \A m, n \in notes : m.since = n.since /\ m.until = n.until => m = n
    /\ Noting => /\ \E a \in activities : a.since = publishing.since /\ a.until = publishing.until
                 /\ \A n \in notes : n.until <= publishing.since
    /\ publishing.step = "post" => \A b \in publishing.items : b \in stored /\ Within(b, publishing)
    /\ publishing.step = "post" => publishing.items # {}

Noted(b) == b \in unnoted \/ \E n \in notes : b \in n.items
WillBeNoted(b) == Noting /\ Within(b, publishing) /\ (publishing.step = "post" => b \in publishing.items)
WindowsAreNoted == \A b \in stored : (\E a \in activities : Within(b, a)) => Noted(b) \/ WillBeNoted(b)

ActivitiesInv ==
    /\ ActivityTypes
    /\ WindowsFollow
    /\ publishing.step = "create" => publishing.since = LastActivity
    /\ ActivityIsComing
    /\ NotesInv /\ WindowsAreNoted

\* The end of the last activity, by which the code finds where to start the next window.
LEMMA LastActivityIsLast ==
    ASSUME ActivityTypes, activities = {} \/ \E a \in activities : LastOne(a)
    PROVE  /\ LastActivity \in Nat /\ LastActivity <= date
           /\ \A a \in activities : a.until <= LastActivity
           /\ activities # {} => LastActivity \in Untils
           /\ activities = {} => LastActivity = 0
<1>1. CASE activities = {}
  BY <1>1 DEF LastActivity, Untils, ActivityTypes
<1>2. CASE activities # {}
  <2>1. PICK a : LastOne(a)
    BY <1>2
  <2>2. \E t \in Untils : \A u \in Untils : t >= u
    <3>1. a.until \in Untils /\ \A u \in Untils : a.until >= u
      BY <2>1 DEF LastOne, Untils, ActivityTypes
    <3>. QED BY <3>1
  <2>3. LastActivity \in Untils /\ \A u \in Untils : LastActivity >= u
    BY <1>2, <2>2 DEF LastActivity
  <2>4. Untils \subseteq 0..date
    BY DEF Untils, ActivityTypes
  <2>. QED BY <1>2, <2>3, <2>4 DEF Untils, ActivityTypes
<1>. QED BY <1>1, <1>2

LEMMA CalmIs == Calm \in Publishing /\ Calm.step = "none" /\ Calm.items = {}
BY DEF Calm, Publishing

\* What the step of the activity being created is not.
LEMMA StepIs ==
    /\ publishing.step \in {"none", "last", "create"} => ~Noting /\ publishing.step # "post"
    /\ publishing.step \in {"read", "post"} => Noting /\ publishing.step \notin {"last", "create"}
BY DEF Noting

LEMMA InitActivities ==
    ASSUME PublicInit
    PROVE  ActivitiesInv
<1>1. ActivityTypes
  <2>1. \A b \in Books : created[b] \notin Nat
    BY AbsentAssumption DEF PublicInit
  <2>2. publishing \in Publishing
    BY CalmIs DEF PublicInit
  <2>3. created \in [Books -> Nat \cup {Absent}]
    BY DEF PublicInit
  <2>4. activities \subseteq [since : Nat, until : 0..date] /\ stored \subseteq Books
    BY DEF PublicInit
  <2>5. debounced \in BOOLEAN /\ lapsed \in BOOLEAN /\ profile \in Profile
    BY DEF PublicInit, Profile
  <2>6. date \in Nat \ {0} /\ \A b \in stored : created[b] \in Nat
    BY DEF PublicInit
  <2>7. \A b \in Books : created[b] \in Nat => 0 < created[b] /\ created[b] <= date
    BY <2>1
  <2>. QED BY <2>2, <2>3, <2>4, <2>5, <2>6, <2>7 DEF ActivityTypes
<1>2. WindowsFollow /\ ActivityIsComing /\ WindowsAreNoted
  BY DEF PublicInit, WindowsFollow, ActivityIsComing, Untils, WindowsAreNoted
<1>3. publishing.step = "none" /\ notes = {}
  BY CalmIs DEF PublicInit
<1>4. NotesInv
  BY <1>3, StepIs DEF NotesInv
<1>. QED BY <1>1, <1>2, <1>3, <1>4 DEF ActivitiesInv

\* The windows do not change with the other variables.
LEMMA WindowsGoOn ==
    ASSUME WindowsFollow, UNCHANGED activities
    PROVE  WindowsFollow' /\ UNCHANGED <<Untils, LastActivity>>
BY DEF WindowsFollow, LastOne, Untils, LastActivity

\* The notes go on when the books they have stay as they are, and the one being made too.
LEMMA NotesGoOn ==
    ASSUME ActivitiesInv, UNCHANGED <<activities, notes>>, stored \subseteq stored',
           \A b \in stored : created'[b] = created[b],
           \/ publishing' = publishing
           \/ publishing'.step \in {"none", "last", "create"}
    PROVE  NotesInv'
<1>1. \A b \in stored : \A w : Within(b, w)' <=> created[b] > w'.since /\ created[b] < w'.until
  BY DEF Within
<1>2. \A n \in notes : \A b \in n.items : b \in stored' /\ created'[b] > n.since /\ created'[b] < n.until
  BY DEF ActivitiesInv, NotesInv, Within
<1>3. CASE publishing' = publishing
  <2>1. Noting' <=> Noting
    BY <1>3 DEF Noting
  <2>2. publishing.step = "post" => \A b \in publishing.items :
           b \in stored' /\ created'[b] > publishing.since /\ created'[b] < publishing.until
    BY DEF ActivitiesInv, NotesInv, Within
  <2>. QED BY <1>2, <1>3, <2>1, <2>2 DEF ActivitiesInv, NotesInv, Within
<1>4. CASE publishing'.step \in {"none", "last", "create"}
  <2>1. ~Noting' /\ publishing'.step # "post"
    BY <1>4 DEF Noting
  <2>. QED BY <1>2, <2>1 DEF ActivitiesInv, NotesInv, Within
<1>. QED BY <1>3, <1>4

\* A book is dated before it is stored.
LEMMA CreateBookKeeps ==
    ASSUME ActivitiesInv, NEW b \in Books, CreateBook(b)
    PROVE  ActivitiesInv'
<1>1. /\ created[b] = Absent /\ created' = [created EXCEPT ![b] = date]
      /\ UNCHANGED <<date, stored, activities, notes, debounced, publishing, profile, lapsed, unnoted, switches>>
  BY DEF CreateBook
<1>2. b \notin stored /\ \A c \in stored : created'[c] = created[c]
  BY <1>1, AbsentAssumption DEF ActivitiesInv, ActivityTypes
<1>3. ActivityTypes'
  BY <1>1, <1>2 DEF ActivitiesInv, ActivityTypes
<1>4. ActivityIsComing'
  BY <1>1, <1>2 DEF ActivitiesInv, ActivityIsComing
<1>5. NotesInv'
  BY <1>1, <1>2, NotesGoOn
<1>6. WindowsAreNoted'
  BY <1>1, <1>2 DEF ActivitiesInv, WindowsAreNoted, Noted, WillBeNoted, Within, Noting
<1>. QED BY <1>1, <1>3, <1>4, <1>5, <1>6, WindowsGoOn DEF ActivitiesInv

\* A book that is stored too late for the note of its window is left out of it.
LEMMA StoreBookKeeps ==
    ASSUME ActivitiesInv, NEW b \in Books, StoreBook(b)
    PROVE  ActivitiesInv'
<1>1. /\ created[b] # Absent /\ stored' = stored \cup {b} /\ debounced' = TRUE
      /\ unnoted' = IF NotedBefore(b) THEN unnoted \cup {b} ELSE unnoted
      /\ UNCHANGED <<date, created, activities, notes, publishing, profile, lapsed, switches>>
  BY DEF StoreBook
<1>2. ActivityTypes'
  BY <1>1 DEF ActivitiesInv, ActivityTypes
<1>3. ActivityIsComing'
  BY <1>1 DEF ActivityIsComing
<1>4. NotesInv'
  BY <1>1, NotesGoOn
<1>5. WindowsAreNoted'
  <2>. SUFFICES ASSUME NEW c \in stored', NEW a \in activities, Within(c, a) PROVE Noted(c)' \/ WillBeNoted(c)'
    BY <1>1 DEF WindowsAreNoted, Within
  <2>0. WillBeNoted(c)' <=> WillBeNoted(c)
    BY <1>1 DEF WillBeNoted, Noting, Within
  <2>1. CASE c \in stored
    BY <1>1, <2>0, <2>1 DEF ActivitiesInv, WindowsAreNoted, Noted
  <2>2. CASE c = b /\ NotedBefore(b)
    BY <1>1, <2>2 DEF Noted
  <2>3. CASE c = b /\ ~NotedBefore(b)
    BY <2>0, <2>3 DEF NotedBefore, WillBeNoted, Noting
  <2>. QED BY <1>1, <2>1, <2>2, <2>3
<1>. QED BY <1>1, <1>2, <1>3, <1>4, <1>5, WindowsGoOn DEF ActivitiesInv

LEMMA FindUserKeeps ==
    ASSUME ActivitiesInv, FindUser
    PROVE  ActivitiesInv'
<1>1. /\ publishing = Calm /\ debounced' = FALSE /\ lapsed' = (lapsed \/ ~profile.fediversable)
      /\ publishing' = IF profile.fediversable
                       THEN [Calm EXCEPT !.step = "last", !.poolActivities = profile.poolActivities] ELSE Calm
      /\ UNCHANGED <<date, created, stored, activities, notes, profile, unnoted, switches>>
  BY DEF FindUser
<1>2. /\ publishing' \in Publishing /\ publishing'.step \in {"none", "last"}
      /\ profile.fediversable => publishing'.step = "last"
  BY <1>1 DEF ActivitiesInv, ActivityTypes, Calm, Publishing, Profile
<1>3. ActivityTypes'
  BY <1>1, <1>2 DEF ActivitiesInv, ActivityTypes, Profile
<1>4. ActivityIsComing'
  BY <1>1, <1>2 DEF ActivityIsComing
<1>5. NotesInv'
  BY <1>1, <1>2, NotesGoOn
<1>6. WindowsAreNoted'
  BY <1>1, StepIs, CalmIs DEF ActivitiesInv, WindowsAreNoted, Noted, WillBeNoted, Within
<1>. QED BY <1>1, <1>2, <1>3, <1>4, <1>5, <1>6, WindowsGoOn DEF ActivitiesInv

LEMMA FindLastActivityKeeps ==
    ASSUME ActivitiesInv, FindLastActivity
    PROVE  ActivitiesInv'
<1>1. /\ publishing.step = "last" /\ publishing' = [publishing EXCEPT !.step = "create", !.since = LastActivity]
      /\ UNCHANGED <<date, created, stored, activities, notes, debounced, profile, lapsed, unnoted, switches>>
  BY DEF FindLastActivity
<1>2. LastActivity \in Nat
  BY LastActivityIsLast DEF ActivitiesInv, WindowsFollow
<1>3. publishing' \in Publishing /\ publishing'.step = "create" /\ publishing'.since = LastActivity
  BY <1>1, <1>2 DEF ActivitiesInv, ActivityTypes, Publishing
<1>4. ActivityTypes'
  BY <1>1, <1>3 DEF ActivitiesInv, ActivityTypes
<1>5. ActivityIsComing'
  BY <1>1, <1>3 DEF ActivityIsComing
<1>6. NotesInv'
  BY <1>1, <1>3, NotesGoOn
<1>7. WindowsAreNoted'
  BY <1>1, StepIs DEF ActivitiesInv, WindowsAreNoted, Noted, WillBeNoted, Within
<1>. QED BY <1>1, <1>3, <1>4, <1>5, <1>6, <1>7, WindowsGoOn DEF ActivitiesInv

\* A new activity takes everything from the end of the last one.
LEMMA CreateActivityKeeps ==
    ASSUME ActivitiesInv, CreateActivity
    PROVE  ActivitiesInv'
<1>. PICK new : new = [since |-> publishing.since, until |-> date]
  OBVIOUS
<1>1. /\ publishing.step = "create"
      /\ activities' = activities \cup {new} /\ publishing' = [publishing EXCEPT !.step = "read", !.until = date]
      /\ publishing.since = LastActivity
      /\ lapsed' = FALSE /\ UNCHANGED <<date, created, stored, notes, debounced, profile, unnoted, switches>>
  BY DEF CreateActivity, ActivitiesInv
<1>2. /\ LastActivity \in Nat /\ LastActivity <= date
      /\ \A a \in activities : a.until <= LastActivity
      /\ activities # {} => LastActivity \in Untils
      /\ activities = {} => LastActivity = 0
  BY LastActivityIsLast DEF ActivitiesInv, WindowsFollow
<1>3. new.since = LastActivity /\ new.until = date /\ date \in Nat
  BY <1>1 DEF ActivitiesInv, ActivityTypes
<1>7. /\ publishing' \in Publishing /\ publishing'.step = "read"
      /\ publishing'.since = new.since /\ publishing'.until = new.until /\ Noting'
  <2>1. /\ publishing' \in Publishing /\ publishing'.step = "read"
        /\ publishing'.since = publishing.since /\ publishing'.until = date
    BY <1>1, <1>3 DEF ActivitiesInv, ActivityTypes, Publishing
  <2>. QED BY <1>1, <1>3, <2>1 DEF Noting
<1>4. ActivityTypes'
  <2>1. new \in [since : Nat, until : 0..date]
    BY <1>2, <1>3
  <2>. QED BY <1>1, <1>7, <2>1 DEF ActivitiesInv, ActivityTypes
<1>5. WindowsFollow'
  <2>1. LastOne(new)'
    BY <1>1, <1>2, <1>3 DEF LastOne, ActivitiesInv, ActivityTypes
  <2>2. \A a, c \in activities' : a = c \/ a.until <= c.since \/ c.until <= a.since
    BY <1>1, <1>2, <1>3 DEF ActivitiesInv, WindowsFollow
  <2>3. ASSUME NEW t \in Nat \ (Untils' \cup {0}), NEW a \in activities', t < a.until
        PROVE  \E c \in activities' : c.since < t /\ t < c.until
    <3>1. Untils' = Untils \cup {date}
      BY <1>1, <1>3 DEF Untils
    <3>2. CASE t < LastActivity
      <4>1. \E c \in activities : t < c.until
        BY <1>2, <3>2 DEF Untils
      <4>. QED BY <1>1, <3>1, <4>1, <2>3 DEF ActivitiesInv, WindowsFollow
    <3>3. CASE t > LastActivity
      <4>1. a = new
        BY <1>1, <1>2, <2>3, <3>3 DEF ActivitiesInv, ActivityTypes
      <4>. QED BY <1>1, <1>3, <2>3, <3>3, <4>1
    <3>4. t # LastActivity
      BY <1>2, <2>3, <3>1
    <3>. QED BY <1>2, <3>2, <3>3, <3>4
  <2>. QED BY <2>1, <2>2, <2>3, <1>1 DEF WindowsFollow
<1>6. ActivityIsComing'
  BY <1>1, <1>3 DEF ActivityIsComing, ActivitiesInv, ActivityTypes
<1>8. NotesInv'
  <2>1. \A n \in notes : n.until <= LastActivity
    BY <1>2 DEF ActivitiesInv, NotesInv
  <2>2. \A n \in notes : \E a \in activities' : a.since = n.since /\ a.until = n.until
    BY <1>1 DEF ActivitiesInv, NotesInv
  <2>3. \E a \in activities' : a.since = publishing'.since /\ a.until = publishing'.until
    BY <1>1, <1>7
  <2>4. \A n \in notes : \A b \in n.items : b \in stored' /\ Within(b, n)'
    BY <1>1 DEF ActivitiesInv, NotesInv, Within
  <2>. QED BY <1>1, <1>3, <1>7, <2>1, <2>2, <2>3, <2>4 DEF ActivitiesInv, NotesInv
<1>9. WindowsAreNoted'
  <2>. SUFFICES ASSUME NEW b \in stored, NEW a \in activities', Within(b, a)' PROVE Noted(b)' \/ WillBeNoted(b)'
    BY <1>1 DEF WindowsAreNoted
  <2>1. CASE a \in activities
    BY <1>1, <2>1, StepIs DEF ActivitiesInv, WindowsAreNoted, Noted, WillBeNoted, Within
  <2>2. CASE a = new
    BY <1>7, <2>2 DEF WillBeNoted, Within
  <2>. QED BY <1>1, <2>1, <2>2
<1>. QED BY <1>4, <1>5, <1>6, <1>7, <1>8, <1>9 DEF ActivitiesInv

\* All the items that the window has then, or none when there is none.
LEMMA ReadItemsKeeps ==
    ASSUME ActivitiesInv, ReadItems
    PROVE  ActivitiesInv'
<1>. PICK items : items = {b \in stored : Within(b, publishing)}
  OBVIOUS
<1>1. /\ publishing.step = "read"
      /\ publishing' = IF items = {} THEN Calm ELSE [publishing EXCEPT !.step = "post", !.items = items]
      /\ UNCHANGED <<date, created, stored, activities, notes, debounced, profile, lapsed, unnoted, switches>>
  BY DEF ReadItems
<1>2. /\ publishing' \in Publishing /\ publishing'.step \in {"none", "post"}
      /\ items = {} => publishing'.step = "none"
      /\ items # {} => /\ publishing'.step = "post" /\ publishing'.items = items
                       /\ publishing'.since = publishing.since /\ publishing'.until = publishing.until
  BY <1>1, CalmIs DEF ActivitiesInv, ActivityTypes, Publishing
<1>3. ActivityTypes'
  BY <1>1, <1>2 DEF ActivitiesInv, ActivityTypes
<1>4. ActivityIsComing'
  BY <1>1, StepIs DEF ActivitiesInv, ActivityIsComing
<1>5. NotesInv'
  <2>1. CASE items = {}
    BY <1>1, <1>2, <2>1, NotesGoOn
  <2>2. CASE items # {}
    <3>1. Noting /\ Noting'
      BY <1>1, <1>2, <2>2 DEF Noting
    <3>2. \A b \in items : b \in stored' /\ Within(b, publishing)'
      BY <1>1, <1>2, <2>2 DEF Within
    <3>3. \A n \in notes : \A b \in n.items : b \in stored' /\ Within(b, n)'
      BY <1>1 DEF ActivitiesInv, NotesInv, Within
    <3>. QED BY <1>1, <1>2, <2>2, <3>1, <3>2, <3>3 DEF ActivitiesInv, NotesInv
  <2>. QED BY <2>1, <2>2
<1>6. WindowsAreNoted'
  <2>. SUFFICES ASSUME NEW b \in stored, NEW a \in activities, Within(b, a) PROVE Noted(b)' \/ WillBeNoted(b)'
    BY <1>1 DEF WindowsAreNoted, Within
  <2>1. CASE Noted(b)
    BY <1>1, <2>1 DEF Noted
  <2>2. CASE WillBeNoted(b)
    <3>1. b \in items
      BY <2>2 DEF WillBeNoted
    <3>. QED BY <1>1, <1>2, <2>2, <3>1 DEF WillBeNoted, Noting, Within
  <2>. QED BY <2>1, <2>2 DEF ActivitiesInv, WindowsAreNoted
<1>. QED BY <1>1, <1>2, <1>3, <1>4, <1>5, <1>6, WindowsGoOn DEF ActivitiesInv

\* The note has no other of its window before it.
LEMMA PostNoteKeeps ==
    ASSUME ActivitiesInv, PostNote
    PROVE  ActivitiesInv'
<1>1. /\ publishing.step = "post" /\ publishing' = Calm
      /\ UNCHANGED <<date, created, stored, activities, debounced, profile, lapsed, switches>>
  BY DEF PostNote
<1>2. PICK items \in Postable(publishing.items) :
          /\ notes' = notes \cup {[since |-> publishing.since, until |-> publishing.until, items |-> items]}
          /\ unnoted' = unnoted \cup (publishing.items \ items)
  BY DEF PostNote
<1>. PICK new : new = [since |-> publishing.since, until |-> publishing.until, items |-> items]
  OBVIOUS
<1>3. /\ notes' = notes \cup {new} /\ new.since = publishing.since /\ new.until = publishing.until /\ new.items = items
      /\ items \subseteq publishing.items
  BY <1>2 DEF Postable
<1>4. publishing'.step = "none" /\ publishing' \in Publishing
  BY <1>1, CalmIs
<1>5. ActivityTypes'
  BY <1>1, <1>4 DEF ActivitiesInv, ActivityTypes
<1>6. ActivityIsComing'
  BY <1>1, StepIs DEF ActivitiesInv, ActivityIsComing
<1>7. NotesInv'
  <2>1. Noting /\ ~Noting' /\ publishing'.step # "post"
    BY <1>1, <1>4 DEF Noting
  <2>2. PICK b \in publishing.items : b \in stored /\ Within(b, publishing)
    BY <1>1 DEF ActivitiesInv, NotesInv
  <2>3. created[b] \in Nat /\ publishing.since \in Nat /\ publishing.until \in Nat
    BY <2>2 DEF ActivitiesInv, ActivityTypes, Publishing
  <2>4. publishing.since < publishing.until
    BY <2>2, <2>3 DEF Within
  <2>5. \A n \in notes : n.until <= publishing.since
    BY <2>1 DEF ActivitiesInv, NotesInv
  <2>6. \A n \in notes : ~(n.since = new.since /\ n.until = new.until)
    BY <1>3, <2>3, <2>4, <2>5
  <2>7. \A m, n \in notes' : m.since = n.since /\ m.until = n.until => m = n
    BY <1>3, <2>6 DEF ActivitiesInv, NotesInv
  <2>8. \A n \in notes' : \A c \in n.items : c \in stored' /\ Within(c, n)'
    BY <1>1, <1>3 DEF ActivitiesInv, NotesInv, Within
  <2>9. \A n \in notes' : \E a \in activities' : a.since = n.since /\ a.until = n.until
    BY <1>1, <1>3, <2>1 DEF ActivitiesInv, NotesInv
  <2>. QED BY <2>1, <2>7, <2>8, <2>9 DEF NotesInv
<1>8. WindowsAreNoted'
  <2>. SUFFICES ASSUME NEW b \in stored, NEW a \in activities, Within(b, a) PROVE Noted(b)'
    BY <1>1 DEF WindowsAreNoted, Within
  <2>1. CASE Noted(b)
    BY <1>2, <1>3, <2>1 DEF Noted
  <2>2. CASE WillBeNoted(b)
    <3>1. b \in publishing.items
      BY <1>1, <2>2 DEF WillBeNoted
    <3>. QED BY <1>2, <1>3, <3>1 DEF Noted
  <2>. QED BY <2>1, <2>2 DEF ActivitiesInv, WindowsAreNoted
<1>. QED BY <1>1, <1>4, <1>5, <1>6, <1>7, <1>8, WindowsGoOn DEF ActivitiesInv

\* The note that was being made is lost, and the activity, if it was not created yet.
LEMMA AbandonedKeeps ==
    ASSUME ActivitiesInv, Abandoned, UNCHANGED <<stored, activities, notes>>,
           \A b \in stored : created'[b] = created[b]
    PROVE  /\ publishing' \in Publishing /\ publishing'.step = "none"
           /\ NotesInv' /\ WindowsAreNoted'
<1>1. publishing' = Calm /\ unnoted' = unnoted \cup {b \in stored : Noting /\ Within(b, publishing)}
  BY DEF Abandoned
<1>2. publishing' \in Publishing /\ publishing'.step = "none"
  BY <1>1, CalmIs
<1>3. NotesInv'
  BY <1>2, NotesGoOn
<1>4. WindowsAreNoted'
  <2>. SUFFICES ASSUME NEW b \in stored, NEW a \in activities, Within(b, a) PROVE Noted(b)'
    BY DEF WindowsAreNoted, Within
  <2>1. Noted(b) \/ WillBeNoted(b)
    BY DEF ActivitiesInv, WindowsAreNoted
  <2>. QED BY <1>1, <2>1 DEF Noted, WillBeNoted
<1>. QED BY <1>2, <1>3, <1>4

LEMMA PublishingFailsKeeps ==
    ASSUME ActivitiesInv, PublishingFails
    PROVE  ActivitiesInv'
<1>1. /\ Abandoned /\ lapsed' = (lapsed \/ ~Noting)
      /\ UNCHANGED <<date, created, stored, activities, notes, debounced, profile>>
  BY DEF PublishingFails
<1>2. publishing' \in Publishing /\ publishing'.step = "none" /\ NotesInv' /\ WindowsAreNoted'
  BY <1>1, AbandonedKeeps
<1>3. ActivityTypes'
  BY <1>1, <1>2 DEF ActivitiesInv, ActivityTypes
<1>4. ActivityIsComing'
  BY <1>1, StepIs DEF ActivitiesInv, ActivityIsComing
<1>. QED BY <1>1, <1>2, <1>3, <1>4, WindowsGoOn DEF ActivitiesInv

LEMMA RestartActivitiesKeeps ==
    ASSUME ActivitiesInv, RestartActivities
    PROVE  ActivitiesInv'
<1>1. /\ created' = [b \in Books |-> IF b \in stored THEN created[b] ELSE Absent] /\ debounced' = FALSE
      /\ Abandoned /\ lapsed' = (lapsed \/ debounced \/ (publishing # Calm /\ ~Noting))
      /\ UNCHANGED <<date, stored, activities, notes, profile>>
  BY DEF RestartActivities
<1>2. /\ created' \in [Books -> Nat \cup {Absent}]
      /\ \A b \in Books : created'[b] \in Nat => created'[b] = created[b]
      /\ \A b \in stored : created'[b] = created[b]
  BY <1>1, AbsentAssumption DEF ActivitiesInv, ActivityTypes
<1>3. publishing' \in Publishing /\ publishing'.step = "none" /\ NotesInv' /\ WindowsAreNoted'
  BY <1>1, <1>2, AbandonedKeeps
<1>4. ActivityTypes'
  BY <1>1, <1>2, <1>3 DEF ActivitiesInv, ActivityTypes
<1>5. ActivityIsComing'
  BY <1>1, <1>2, StepIs, CalmIs DEF ActivitiesInv, ActivityIsComing
<1>. QED BY <1>1, <1>3, <1>4, <1>5, WindowsGoOn DEF ActivitiesInv

\* The other steps leave the activities and the notes as they are.
LEMMA NextActivities ==
    ASSUME ActivitiesInv, [PublicNext]_pvars
    PROVE  ActivitiesInv'
<1>1. ASSUME UNCHANGED <<created, stored, activities, notes, publishing, unnoted, debounced, lapsed>>, ActivityTypes'
      PROVE  ActivitiesInv'
  <2>1. NotesInv'
    BY <1>1, NotesGoOn
  <2>2. WindowsAreNoted'
    BY <1>1 DEF ActivitiesInv, WindowsAreNoted, Noted, WillBeNoted, Within, Noting
  <2>3. ActivityIsComing'
    BY <1>1 DEF ActivitiesInv, ActivityIsComing
  <2>. QED BY <1>1, <2>1, <2>2, <2>3, WindowsGoOn DEF ActivitiesInv
<1>2. ASSUME NEW setting \in {"fediversable", "poolActivities"}, NEW value \in BOOLEAN, SetSetting(setting, value)
      PROVE  ActivitiesInv'
  <2>1. profile' = [profile EXCEPT ![setting] = value] /\ profile \in Profile
        /\ UNCHANGED <<date, created, stored, activities, notes, debounced, publishing, lapsed, unnoted>>
    BY <1>2 DEF SetSetting, ActivitiesInv, ActivityTypes
  <2>2. profile' \in Profile
    <3>1. CASE setting = "fediversable"
      BY <2>1, <3>1 DEF Profile
    <3>2. CASE setting = "poolActivities"
      BY <2>1, <3>2 DEF Profile
    <3>. QED BY <3>1, <3>2
  <2>3. ActivityTypes'
    BY <2>1, <2>2 DEF ActivitiesInv, ActivityTypes
  <2>. QED BY <1>1, <2>1, <2>3
<1>3. CASE PassDate
  BY <1>1, <1>3 DEF PassDate, ActivitiesInv, ActivityTypes
<1>4. CASE UNCHANGED pvars
  BY <1>1, <1>4 DEF pvars, ActivitiesInv, ActivityTypes
<1>. QED BY <1>2, <1>3, <1>4, CreateBookKeeps, StoreBookKeeps, FindUserKeeps, FindLastActivityKeeps, CreateActivityKeeps,
            ReadItemsKeeps, PostNoteKeeps, PublishingFailsKeeps, RestartActivitiesKeeps DEF PublicNext

\* Whatever the updates, the restarts, the errors and the changes of the settings, no item
\* is in two notes or two windows, and a quiet timer leaves no item out of the windows of
\* the activities, nor of the notes but for what unnoted records: the window of an activity
\* starts where the last one ended, and its items are read after it was created.
THEOREM ItemsAreAnnouncedOnce == PublicSpec => []EachItemIsAnnouncedOnce
<1>1. ActivitiesInv => EachItemIsAnnouncedOnce
  <2> SUFFICES ASSUME ActivitiesInv, NEW b \in stored
      PROVE  /\ \A m, n \in notes : b \in m.items /\ b \in n.items => m = n
             /\ \A a, c \in activities : Within(b, a) /\ Within(b, c) => a = c
             /\ Quiet /\ created[b] \notin Untils =>
                   /\ \E a \in activities : Within(b, a)
                   /\ b \in unnoted \/ \E n \in notes : b \in n.items
    BY DEF EachItemIsAnnouncedOnce
  <2>1. created[b] \in Nat /\ 0 < created[b]
    BY DEF ActivitiesInv, ActivityTypes
  <2>2. \A a, c \in activities : Within(b, a) /\ Within(b, c) => a = c
    BY <2>1 DEF ActivitiesInv, ActivityTypes, WindowsFollow, Within
  <2>3. ASSUME NEW m \in notes, NEW n \in notes, b \in m.items, b \in n.items
        PROVE  m = n
    <3>1. PICK a \in activities : a.since = m.since /\ a.until = m.until
      BY DEF ActivitiesInv, NotesInv
    <3>2. PICK c \in activities : c.since = n.since /\ c.until = n.until
      BY DEF ActivitiesInv, NotesInv
    <3>3. Within(b, a) /\ Within(b, c)
      BY <2>3, <3>1, <3>2 DEF ActivitiesInv, NotesInv, Within
    <3>. QED BY <2>2, <3>1, <3>2, <3>3 DEF ActivitiesInv, NotesInv
  <2>4. ASSUME Quiet, created[b] \notin Untils
        PROVE  /\ \E a \in activities : Within(b, a)
               /\ b \in unnoted \/ \E n \in notes : b \in n.items
    <3>0. ~debounced /\ publishing.step = "none" /\ ~lapsed /\ ~Noting
      BY <2>4, CalmIs, StepIs DEF Quiet
    <3>1. PICK a \in activities : created[b] <= a.until
      BY <3>0 DEF ActivitiesInv, ActivityIsComing
    <3>2. created[b] < a.until
      BY <2>1, <2>4, <3>1 DEF ActivitiesInv, ActivityTypes, Untils
    <3>3. \E c \in activities : Within(b, c)
      BY <2>1, <2>4, <3>2 DEF ActivitiesInv, WindowsFollow, Within
    <3>. QED BY <3>0, <3>3 DEF ActivitiesInv, WindowsAreNoted, Noted, WillBeNoted
  <2>. QED BY <2>2, <2>3, <2>4
<1>. QED BY <1>1, InitActivities, NextActivities, PTL DEF PublicSpec

-----------------------------------------------------------------------------
(* OutgoingRequests. *)

\* A ban is no longer than what the bans since the first failure explain.
BanIsEarned(b) ==
    /\ b.banTime \in Nat /\ b.expire \in Nat /\ b.failingSince \in Nat
    /\ b.failingSince + b.banTime <= b.expire
    /\ BaseBanTime + (BanTimeIncreaseFactor - 1) * (b.expire - b.failingSince) >= BanTimeIncreaseFactor * b.banTime

BansInv ==
    /\ clock \in Nat
    /\ ban # None => BanIsEarned(ban)
    /\ savedBan # None => BanIsEarned(savedBan)

\* A first ban, and one that comes after the former one has expired.
LEMMA FirstBanIsEarned ==
    ASSUME NEW moment \in Nat
    PROVE  BanIsEarned([banTime |-> BaseBanTime, expire |-> moment + BaseBanTime, failingSince |-> moment])
<1>1. BaseBanTime + (BanTimeIncreaseFactor - 1) * BaseBanTime = BanTimeIncreaseFactor * BaseBanTime
  BY BanTimesAssumption
<1>2. moment + BaseBanTime - moment = BaseBanTime
  BY BanTimesAssumption
<1>. QED BY <1>1, <1>2, BanTimesAssumption DEF BanIsEarned

LEMMA NextBanIsEarned ==
    ASSUME NEW b, BanIsEarned(b), NEW moment \in Nat, b.expire <= moment,
           NEW length \in Nat, length <= b.banTime * BanTimeIncreaseFactor
    PROVE  BanIsEarned([banTime |-> length, expire |-> moment + length, failingSince |-> b.failingSince])
<1>. DEFINE g == BanTimeIncreaseFactor - 1
            d == b.expire - b.failingSince
            e == moment + length - b.failingSince
<1>1. g \in Nat /\ d \in Nat /\ e \in Nat /\ d + length <= e /\ BanTimeIncreaseFactor \in Nat /\ BaseBanTime \in Nat
  BY BanTimesAssumption DEF BanIsEarned
<1>2. g * d + g * length <= g * e
  <2>1. PICK x \in Nat : e = d + length + x
    <3>1. e - (d + length) \in Nat /\ e = d + length + (e - (d + length))
      BY <1>1
    <3>. QED BY <3>1
  <2>2. g * e = g * d + g * length + g * x /\ g * x \in Nat
    BY <1>1, <2>1
  <2>3. g * d \in Nat /\ g * length \in Nat
    BY <1>1
  <2>. HIDE DEF g, d, e
  <2>. QED BY <2>2, <2>3
<1>3. BanTimeIncreaseFactor * length = g * length + length
  BY <1>1
<1>4. BaseBanTime + g * d >= length
  <2>1. BaseBanTime + g * d >= BanTimeIncreaseFactor * b.banTime
    BY DEF BanIsEarned
  <2>2. BanTimeIncreaseFactor * b.banTime = b.banTime * BanTimeIncreaseFactor
    BY <1>1 DEF BanIsEarned
  <2>3. BanTimeIncreaseFactor * b.banTime \in Nat /\ g * d \in Nat
    BY <1>1 DEF BanIsEarned
  <2>. HIDE DEF g, d
  <2>. QED BY <2>1, <2>2, <2>3, <1>1
<1>5. BaseBanTime + g * e >= BanTimeIncreaseFactor * length
  <2>1. g * d \in Nat /\ g * length \in Nat /\ g * e \in Nat
    BY <1>1
  <2>. HIDE DEF g, d, e
  <2>. QED BY <1>1, <1>2, <1>3, <1>4, <2>1
<1>. QED BY <1>1, <1>5 DEF BanIsEarned

LEMMA NextBans ==
    ASSUME BansInv, [OutgoingNext]_ovars
    PROVE  BansInv'
<1>. USE DEF BansInv
<1>1. ASSUME NEW c \in Calls, DeclareHostError(c)
      PROVE  BansInv'
  <2>1. CASE Banned
    BY <1>1, <2>1 DEF DeclareHostError
  <2>2. CASE ~Banned /\ ban = None
    <3>1. ban' = [banTime |-> BaseBanTime, expire |-> clock + BaseBanTime, failingSince |-> clock]
      BY <1>1, <2>2, BanTimesAssumption DEF DeclareHostError
    <3>. QED BY <1>1, <3>1, FirstBanIsEarned DEF DeclareHostError
  <2>3. CASE ~Banned /\ ban # None
    <3>. DEFINE increased == ban.banTime * BanTimeIncreaseFactor
                length == IF increased < MaxBanTime THEN increased ELSE MaxBanTime
    <3>1. ban' = [banTime |-> length, expire |-> clock + length, failingSince |-> ban.failingSince]
      BY <1>1, <2>3 DEF DeclareHostError
    <3>2. increased \in Nat
      BY <2>3, BanTimesAssumption DEF BanIsEarned
    <3>3. length \in Nat /\ length <= increased
      BY <3>2, BanTimesAssumption
    <3>4. ban.expire <= clock
      BY <2>3 DEF Banned, BanIsEarned
    <3>5. BanIsEarned(ban')
      BY <3>1, <3>3, <3>4, <2>3, NextBanIsEarned
    <3>. QED BY <1>1, <3>5 DEF DeclareHostError
  <2>. QED BY <2>1, <2>2, <2>3
<1>2. ASSUME NEW c \in Calls,
             Request(c) \/ HeldRequest(c) \/ RequestAgain(c) \/ ResetBanData(c) \/ FailWithoutBan(c) \/ RetryLater(c)
      PROVE  BansInv'
  BY <1>2 DEF Request, HeldRequest, RequestAgain, ResetBanData, FailWithoutBan, RetryLater
<1>3. ASSUME NEW c \in Calls, NEW retryAfter \in 1..2, WaitAfterTooManyRequests(c, retryAfter)
      PROVE  BansInv'
  BY <1>3 DEF WaitAfterTooManyRequests
<1>4. CASE Tick \/ Backup \/ RestoreNonExpiredBans
  BY <1>4 DEF Tick, Backup, RestoreNonExpiredBans
<1>5. CASE UNCHANGED ovars
  BY <1>5 DEF ovars
<1>. QED BY <1>1, <1>2, <1>3, <1>4, <1>5 DEF OutgoingNext

\* However many requests fail together, are retried or wait for the host, and whatever is
\* lost and restored by restarts, a ban is no longer than the outage explains.
THEOREM BansAreEarned == OutgoingSpec => []BansReflectOutages
<1>1. OutgoingInit => BansInv
  BY DEF OutgoingInit, BansInv
<1>2. BansInv => BansReflectOutages
  BY DEF BansInv, BanIsEarned, BansReflectOutages
<1>. QED BY <1>1, <1>2, NextBans, PTL DEF OutgoingSpec
=============================================================================
