------------------------- MODULE EventIngestionProofs -------------------------
(***************************************************************************)
(* Proofs about EventMemoryService: for every world of records, every way  *)
(* of cutting them into batches and any number of replays, a subject has   *)
(* one current entry of each type, and what is retrieved fills the budget  *)
(* in order of priority; and if records bring ids of their own, each is    *)
(* ingested once, none is dropped and no replay brings an old state back.  *)
(***************************************************************************)
EXTENDS EventIngestion, SequenceLemmas

Types == {"decision", "unresolved_issue", "task_state", "artifact_reference", "observation",
          "user_preference", "goal", "user_fact"}
EntryRecord == [type: Types, subject: STRING, event: Nat, tokens: Nat,
                status: {"active", "superseded"}]
Ids == {"event", "agent"} \X Nat

(* The part of the service that a batch changes.                           *)
Service == [entries: Seq(EntryRecord), processed: SUBSET Ids]

EventTypeOK ==
  /\ policy \in DOMAIN Records
  /\ happened \in Seq(Record)
  /\ [entries |-> entries, processed |-> processed] \in Service
  /\ delivered \subseteq 1..Len(happened)

-----------------------------------------------------------------------------
(* One event.                                                              *)

SameSlot(d, e) == d.subject = e.subject /\ d.type = e.type

(* At most one active entry of a subject and type; and whatever an entry   *)
(* says, an active one that is not older speaks for its subject and type.  *)
OneActive(es) ==
  \A j, k \in 1..Len(es) :
    es[j].status = "active" /\ es[k].status = "active" /\ SameSlot(es[j], es[k]) => j = k

AlwaysCurrent(es) ==
  \A k \in 1..Len(es) : \E j \in k..Len(es) :
    es[j].status = "active" /\ SameSlot(es[j], es[k])

Slots(es) == OneActive(es) /\ AlwaysCurrent(es)

(* Every record is classified as one of the eight entry types.             *)
LEMMA ClassifyType ==
  ASSUME NEW r
  PROVE  Classify(r) \in Types
<1>1. AgentType(r) \in Types
  BY DEF AgentType, Types
<1>2. ChatType(r) \in Types
  BY DEF ChatType, Types
<1>3. QED
  BY <1>1, <1>2 DEF Classify

(* What storing a record does to the entries.                              *)
Stored(es, r, n, new) ==
  /\ new \in Seq(EntryRecord)
  /\ Len(new) = Len(es) + 1
  /\ new[Len(es) + 1] = Entry(r, n)
  /\ \A k \in 1..Len(es) :
       /\ new[k].event = es[k].event /\ SameSlot(new[k], es[k])
       /\ new[k].status = IF es[k].subject = r.subject /\ es[k].type = Classify(r)
                          THEN "superseded" ELSE es[k].status

(* What _supersede_prior and append leave behind: the active entries of    *)
(* the record's subject and type are superseded, all others stay, the new  *)
(* one is last.                                                            *)
LEMMA StoringSupersedes ==
  ASSUME NEW es \in Seq(EntryRecord), NEW r \in Record, NEW n \in Nat
  PROVE  Stored(es, r, n, Append(SupersedePrior(es, r), Entry(r, n)))
<1> DEFINE N == Len(es)
           old == SupersedePrior(es, r)
<1>1. N \in Nat /\ DOMAIN es = 1..N
  OBVIOUS
<1>2. Entry(r, n) \in EntryRecord
  BY ClassifyType DEF Entry, EntryRecord, Record
<1>3. ASSUME NEW k \in 1..N
      PROVE  /\ old[k] \in EntryRecord
             /\ old[k].event = es[k].event /\ SameSlot(old[k], es[k])
             /\ old[k].status = IF es[k].subject = r.subject /\ es[k].type = Classify(r)
                                THEN "superseded" ELSE es[k].status
  <2>1. es[k] \in EntryRecord
    BY <1>1
  <2>2. old[k] = IF es[k].status = "active" /\ es[k].subject = r.subject
                      /\ es[k].type = Classify(r)
                 THEN [es[k] EXCEPT !.status = "superseded"] ELSE es[k]
    BY <1>1 DEF SupersedePrior
  <2>3. QED
    BY <2>1, <2>2 DEF EntryRecord, SameSlot
<1>4. old \in Seq(EntryRecord) /\ Len(old) = N
  <2>1. old = [k \in 1..N |-> old[k]]
    BY <1>1 DEF SupersedePrior
  <2> HIDE DEF old
  <2>2. QED
    BY <1>1, <1>3, <2>1
<1> HIDE DEF old
<1>5. QED
  BY <1>1, <1>2, <1>3, <1>4 DEF Stored, old

(* Storing a record keeps one active entry per subject and type, and one   *)
(* that is not older than any entry of them.                               *)
LEMMA StoringKeepsSlots ==
  ASSUME NEW es \in Seq(EntryRecord), Slots(es), NEW r, NEW n, NEW new,
         Stored(es, r, n, new)
  PROVE  Slots(new)
<1> DEFINE N == Len(es)
<1>1. /\ N \in Nat /\ Len(new) = N + 1
      /\ new[N + 1].status = "active" /\ new[N + 1].subject = r.subject
      /\ new[N + 1].type = Classify(r)
  BY DEF Stored, Entry
<1>2. \A k \in 1..N : /\ SameSlot(new[k], es[k])
                      /\ new[k].status = IF es[k].subject = r.subject /\ es[k].type = Classify(r)
                                         THEN "superseded" ELSE es[k].status
  BY DEF Stored
<1>3. OneActive(es) /\ AlwaysCurrent(es)
  BY DEF Slots
<1> HIDE DEF N
<1>4. ASSUME NEW j \in 1..(N + 1), NEW k \in 1..(N + 1),
             new[j].status = "active", new[k].status = "active", SameSlot(new[j], new[k])
      PROVE  j = k
  <2>1. CASE j \in 1..N /\ k \in 1..N
    BY <1>2, <1>3, <1>4, <2>1 DEF OneActive, SameSlot, N
  <2>2. CASE j = N + 1 /\ k \in 1..N
    BY <1>1, <1>2, <1>4, <2>2 DEF SameSlot
  <2>3. CASE k = N + 1 /\ j \in 1..N
    BY <1>1, <1>2, <1>4, <2>3 DEF SameSlot
  <2>4. QED
    BY <1>1, <2>1, <2>2, <2>3
<1>5. ASSUME NEW k \in 1..(N + 1)
      PROVE  \E j \in k..(N + 1) : new[j].status = "active" /\ SameSlot(new[j], new[k])
  <2>1. CASE k = N + 1
    BY <1>1, <2>1 DEF SameSlot
  <2>2. CASE k \in 1..N
    <3>1. PICK j \in k..N : es[j].status = "active" /\ SameSlot(es[j], es[k])
      BY <1>3, <2>2 DEF AlwaysCurrent, N
    <3>2. j \in 1..N /\ j \in k..(N + 1) /\ N + 1 \in k..(N + 1)
      BY <1>1, <2>2, <3>1
    <3>3. CASE es[j].subject = r.subject /\ es[j].type = Classify(r)
      BY <1>1, <1>2, <2>2, <3>1, <3>2, <3>3 DEF SameSlot
    <3>4. CASE ~(es[j].subject = r.subject /\ es[j].type = Classify(r))
      BY <1>2, <2>2, <3>1, <3>2, <3>4 DEF SameSlot
    <3>5. QED
      BY <3>3, <3>4
  <2>3. QED
    BY <1>1, <2>1, <2>2
<1>6. QED
  BY <1>1, <1>4, <1>5 DEF Slots, OneActive, AlwaysCurrent

(* Ingesting one record, whether stored or dropped as a replay, keeps the  *)
(* service well-typed and its subjects with one current entry.             *)
LEMMA IngestType ==
  ASSUME NEW s \in Service, NEW n \in Nat, happened[n] \in Record, NEW id \in Ids
  PROVE  /\ Ingest(s, id, n) \in Service
         /\ Slots(s.entries) => Slots(Ingest(s, id, n).entries)
<1> DEFINE r == happened[n]
           new == Append(SupersedePrior(s.entries, r), Entry(r, n))
<1>1. s.entries \in Seq(EntryRecord) /\ s.processed \in SUBSET Ids
      /\ s = [entries |-> s.entries, processed |-> s.processed]
  BY DEF Service
<1>2. Stored(s.entries, r, n, new)
  BY <1>1, StoringSupersedes
<1>3. new \in Seq(EntryRecord) /\ (Slots(s.entries) => Slots(new))
  <2>1. new \in Seq(EntryRecord)
    BY <1>2 DEF Stored
  <2> HIDE DEF new, r
  <2>2. Slots(s.entries) => Slots(new)
    BY <1>1, <1>2, StoringKeepsSlots
  <2>3. QED
    BY <2>1, <2>2
<1>4. Ingest(s, id, n) \in {s, [entries |-> s.entries, processed |-> s.processed \cup {id}],
                            [entries |-> new, processed |-> s.processed \cup {id}]}
  BY <1>1 DEF Ingest
<1> HIDE DEF new
<1>5. QED
  BY <1>1, <1>3, <1>4 DEF Service

(* What ingestion has made of the records numbered in D, if each brings an *)
(* id of its own.                                                          *)
Describes(e, n) == e.event = n /\ e.subject = happened[n].subject
                   /\ e.type = Classify(happened[n])

Accounted(s, D) ==
  /\ s.processed = {<<"event", n>> : n \in D}
  /\ \A k \in 1..Len(s.entries) : \E n \in D :
       ShouldStore(happened[n]) /\ Describes(s.entries[k], n)
  /\ \A j, k \in 1..Len(s.entries) : s.entries[j].event = s.entries[k].event => j = k
  /\ \A n \in D : ShouldStore(happened[n]) =>
       \E k \in 1..Len(s.entries) : s.entries[k].event = n

(* Ingesting a record with an id of its own accounts for it, as stored now *)
(* or before; all other records stay accounted for.                        *)
LEMMA IngestAccounts ==
  ASSUME NEW s \in Service, NEW D \in SUBSET Nat, Accounted(s, D),
         NEW n \in Nat, happened[n] \in Record
  PROVE  Accounted(Ingest(s, <<"event", n>>, n), D \cup {n})
<1> DEFINE id == <<"event", n>>
           r == happened[n]
           es == s.entries
           new == Append(SupersedePrior(es, r), Entry(r, n))
           N == Len(es)
<1>1. es \in Seq(EntryRecord) /\ N \in Nat /\ s.processed \in SUBSET Ids
      /\ s = [entries |-> es, processed |-> s.processed]
  BY DEF Service
<1>2. id \in s.processed <=> n \in D
  BY DEF Accounted
<1>3. CASE n \in D
  <2>1. Ingest(s, id, n) = s /\ D \cup {n} = D
    BY <1>2, <1>3 DEF Ingest
  <2>2. QED
    BY <2>1
<1>4. CASE n \notin D /\ ~ShouldStore(r)
  <2>1. Ingest(s, id, n) = [entries |-> es, processed |-> s.processed \cup {id}]
    BY <1>1, <1>2, <1>4 DEF Ingest
  <2>2. s.processed \cup {id} = {<<"event", m>> : m \in D \cup {n}}
    BY DEF Accounted
  <2>3. /\ Ingest(s, id, n).entries = es
        /\ Ingest(s, id, n).processed = {<<"event", m>> : m \in D \cup {n}}
    BY <2>1, <2>2
  <2> HIDE DEF id
  <2>4. QED
    BY <1>4, <2>3 DEF Accounted, id
<1>5. CASE n \notin D /\ ShouldStore(r)
  <2>1. Ingest(s, id, n) = [entries |-> new, processed |-> s.processed \cup {id}]
    BY <1>1, <1>2, <1>5 DEF Ingest
  <2>2. Stored(es, r, n, new)
    BY <1>1, StoringSupersedes
  <2> HIDE DEF new, es
  <2>3. /\ Len(new) = N + 1 /\ Describes(new[N + 1], n)
        /\ \A k \in 1..N : new[k].event = es[k].event /\ SameSlot(new[k], es[k])
    BY <2>2 DEF Stored, Entry, Describes
  <2>4. \A k \in 1..N : \E m \in D : ShouldStore(happened[m]) /\ Describes(new[k], m)
    <3> TAKE k \in 1..N
    <3>1. PICK m \in D : ShouldStore(happened[m]) /\ Describes(es[k], m)
      BY DEF Accounted, es, N
    <3>2. Describes(new[k], m)
      BY <2>3, <3>1 DEF Describes, SameSlot
    <3>3. QED
      BY <3>1, <3>2
  <2>5. \A k \in 1..N : new[k].event # n
    BY <1>5, <2>4 DEF Describes
  <2> HIDE DEF N
  <2>6. ASSUME NEW j \in 1..(N + 1), NEW k \in 1..(N + 1), new[j].event = new[k].event
        PROVE  j = k
    <3>1. CASE j \in 1..N /\ k \in 1..N
      BY <2>3, <2>6, <3>1 DEF Accounted, es, N
    <3>2. CASE j = N + 1 \/ k = N + 1
      <4>1. new[N + 1].event = n
        BY <2>3 DEF Describes
      <4>2. j \notin 1..N /\ k \notin 1..N
        BY <2>5, <2>6, <3>2, <4>1
      <4>3. QED
        BY <1>1, <4>2
    <3>3. QED
      BY <1>1, <3>1, <3>2
  <2>7. \A k \in 1..(N + 1) : \E m \in D \cup {n} :
          ShouldStore(happened[m]) /\ Describes(new[k], m)
    <3>1. \A k \in 1..(N + 1) : k \in 1..N \/ k = N + 1
      BY <1>1
    <3>2. QED
      BY <1>5, <2>3, <2>4, <3>1
  <2>8. \A m \in D \cup {n} : ShouldStore(happened[m]) =>
          \E k \in 1..(N + 1) : new[k].event = m
    <3>1. \A k \in 1..N : k \in 1..(N + 1)
      BY <1>1
    <3>2. N + 1 \in 1..(N + 1) /\ new[N + 1].event = n
      BY <1>1, <2>3 DEF Describes
    <3>3. \A m \in D : ShouldStore(happened[m]) => \E k \in 1..N : es[k].event = m
      BY DEF Accounted, es, N
    <3>4. QED
      BY <2>3, <3>1, <3>2, <3>3
  <2>9. s.processed \cup {id} = {<<"event", m>> : m \in D \cup {n}}
    BY DEF Accounted
  <2> DEFINE t == Ingest(s, id, n)
  <2>10. t.entries = new /\ t.processed = s.processed \cup {id}
    BY <2>1
  <2> HIDE DEF t
  <2>11. Accounted(t, D \cup {n})
    BY <2>3, <2>6, <2>7, <2>8, <2>9, <2>10 DEF Accounted
  <2>12. QED
    BY <2>11 DEF t
<1>6. QED
  BY <1>3, <1>4, <1>5

-----------------------------------------------------------------------------
(* A batch is one event after the other.                                   *)

BatchSteps(h, first, last) ==
  /\ h \in [0..(last - first + 1) -> Service]
  /\ h[0] = [entries |-> entries, processed |-> processed]
  /\ h[last - first + 1] = [entries |-> entries', processed |-> processed']
  /\ \A k \in 1..(last - first + 1) :
       h[k] = Ingest(h[k - 1], EventId(k, first + k - 1), first + k - 1)

(* One call of ingest_events is an ingestion of each of its records in     *)
(* turn: the table of the states in between.                               *)
LEMMA BatchesStepByStep ==
  ASSUME EventTypeOK, NEW first \in 1..Len(happened), NEW last \in first..Len(happened),
         IngestEvents(first, last)
  PROVE  \E h : BatchSteps(h, first, last)
<1> DEFINE N == last - first + 1
           in == [k \in 1..(last - first + 1) |-> k]
           R == Service
           base == [entries |-> entries, processed |-> processed]
           Body(s, k) == Ingest(s, EventId(k, first + k - 1), first + k - 1)
           step == [p \in R \X (1..N) |-> Body(p[1], p[2])]
           Eq(g) == g = [t \in SUBSET DOMAIN in |->
                           IF t = {} THEN base ELSE Body(g[t \ {Max(t)}], in[Max(t)])]
           g == CHOOSE f : Eq(f)
           after == FoldLeft(LAMBDA s, k : Ingest(s, EventId(k, first + k - 1), first + k - 1),
                             base, in)
<1>1. N \in Nat /\ first \in Nat /\ last \in Nat /\ Len(happened) \in Nat
      /\ happened \in Seq(Record)
  BY DEF EventTypeOK
<1>2. DOMAIN in = 1..N /\ \A k \in 1..N : in[k] = k
  OBVIOUS
<1>3. after = g[DOMAIN in]
  BY DEF FoldLeft, MapThenFoldSet
<1>4. base \in R
  BY DEF EventTypeOK
<1>5. entries' = after.entries /\ processed' = after.processed
  BY DEF IngestEvents
<1>6. \A s \in R, k \in 1..N : Body(s, k) \in R
  <2> TAKE s \in R, k \in 1..N
  <2>1. first + k - 1 \in 1..Len(happened) /\ k \in Nat
    BY <1>1
  <2>2. happened[first + k - 1] \in Record /\ first + k - 1 \in Nat
    BY <1>1, <2>1
  <2>3. EventId(k, first + k - 1) \in Ids
    BY <2>1, <2>2 DEF EventId, Ids
  <2>4. QED
    BY <2>2, <2>3, IngestType
<1> HIDE DEF in, N, base, g, after, Body
<1>7. IsStep(step, R, N) /\ \A s \in R, k \in 1..N : step[<<s, k>>] = Body(s, k)
  BY <1>6 DEF IsStep
<1> HIDE DEF step
<1>8. Recurses(g, R, base, N, step)
  <2>1. PICK f : f \in [SUBSET (1..N) -> R] /\ Recurses(f, R, base, N, step)
    BY <1>1, <1>4, <1>7, SubsetRecursion
  <2>2. \A t \in SUBSET (1..N) : t # {} => /\ Max(t) \in 1..N
                                           /\ t \ {Max(t)} \in SUBSET (1..N)
    BY <1>1, MaxOfInterval
  <2> DEFINE Table(q) == [t \in SUBSET (1..N) |->
                              IF t = {} THEN base ELSE Body(q[t \ {Max(t)}], Max(t))]
  <2>3. \A q : Eq(q) <=> q = Table(q)
    <3>1. \A q : \A t \in SUBSET (1..N) : t # {} =>
            Body(q[t \ {Max(t)}], in[Max(t)]) = Body(q[t \ {Max(t)}], Max(t))
      BY <1>2, <2>2
    <3>2. QED
      BY <1>2, <3>1
  <2>4. f = Table(f)
    BY <1>7, <2>1, <2>2 DEF Recurses
  <2> HIDE DEF Eq
  <2>5. Eq(g)
    BY <2>3, <2>4 DEF g
  <2>6. g = Table(g)
    BY <2>3, <2>5
  <2>7. QED
    BY <1>7, <2>2, <2>6 DEF Recurses
<1>9. PICK h : IsTable(h, R, base, N, step) /\ h[N] = g[1..N]
  BY <1>1, <1>4, <1>7, <1>8, FoldTable
<1>10. h \in [0..N -> Service] /\ h[0] = base /\ h[N] = after
  BY <1>2, <1>3, <1>9 DEF IsTable
<1>11. ASSUME NEW k \in 1..N PROVE h[k] = Body(h[k - 1], k)
  <2>1. k - 1 \in 0..N
    BY <1>1
  <2>2. QED
    BY <1>7, <1>9, <1>10, <2>1 DEF IsTable
<1>12. after = [entries |-> entries', processed |-> processed']
  <2>1. after \in Service
    BY <1>1, <1>10
  <2>2. QED
    BY <1>5, <2>1 DEF Service
<1>13. QED
  BY <1>10, <1>11, <1>12 DEF BatchSteps, N, base, Body

-----------------------------------------------------------------------------
(* The inductive invariant, and its second part for records that bring ids *)
(* of their own.                                                           *)

SlotsInv == EventTypeOK /\ Slots(entries)

Ingested == [entries |-> entries, processed |-> processed]

AccountedInv == EventTypeOK /\ Accounted(Ingested, delivered)

(* Before anything happened both invariants hold.                          *)
LEMMA InitEstablishesInv ==
  ASSUME Init
  PROVE  SlotsInv /\ AccountedInv
<1>1. /\ happened = <<>> /\ entries = <<>> /\ processed = {} /\ delivered = {}
  BY DEF Init
<1>2. EventTypeOK
  BY <1>1 DEF EventTypeOK, Service, Init
<1>3. Slots(entries)
  BY <1>1 DEF Slots, OneActive, AlwaysCurrent
<1>4. Accounted(Ingested, delivered)
  BY <1>1 DEF Accounted, Ingested
<1>5. QED
  BY <1>2, <1>3, <1>4 DEF SlotsInv, AccountedInv

(* The world goes on.                                                      *)
LEMMA HappensKeepsInv ==
  ASSUME EventAssumption, EventTypeOK,
         NEW r \in Records[policy], Happens(r)
  PROVE  /\ EventTypeOK'
         /\ Slots(entries) => Slots(entries)'
         /\ Accounted(Ingested, delivered) => Accounted(Ingested, delivered)'
<1>1. r \in Record
  BY DEF EventAssumption, EventTypeOK
<1>2. /\ happened \in Seq(Record) /\ Len(happened) \in Nat
      /\ delivered \subseteq 1..Len(happened)
  BY DEF EventTypeOK
<1>3. /\ happened' = Append(happened, r)
      /\ UNCHANGED <<policy, entries, processed, delivered>>
  BY DEF Happens
<1>4. /\ happened' \in Seq(Record) /\ Len(happened') = Len(happened) + 1
      /\ \A n \in 1..Len(happened) : happened'[n] = happened[n]
  BY <1>1, <1>2, <1>3
<1>5. EventTypeOK'
  BY <1>2, <1>3, <1>4 DEF EventTypeOK
<1>6. ASSUME Accounted(Ingested, delivered)
      PROVE  Accounted(Ingested, delivered)'
  <2>1. \A n \in delivered :
          /\ happened'[n] = happened[n]
          /\ Classify(happened[n])' = Classify(happened[n])
          /\ ShouldStore(happened[n])' = ShouldStore(happened[n])
    BY <1>2, <1>3, <1>4 DEF Classify, ShouldStore
  <2>2. Ingested' = Ingested /\ delivered' = delivered
    BY <1>3 DEF Ingested
  <2>3. \A n \in delivered, k \in 1..Len(Ingested.entries) :
          Describes(Ingested.entries[k], n) => Describes(Ingested.entries[k], n)'
    BY <2>1, <2>2 DEF Describes
  <2>4. QED
    BY <1>6, <2>1, <2>2, <2>3 DEF Accounted
<1>7. QED
  BY <1>3, <1>5, <1>6

(* A batch.                                                                *)
LEMMA BatchKeepsSlots ==
  ASSUME EventTypeOK, NEW first \in 1..Len(happened), NEW last \in first..Len(happened),
         IngestEvents(first, last)
  PROVE  /\ EventTypeOK'
         /\ Slots(entries) => Slots(entries)'
<1> DEFINE N == last - first + 1
<1>1. PICK h : BatchSteps(h, first, last)
  BY BatchesStepByStep
<1>2. /\ N \in Nat /\ first \in Nat /\ last \in Nat /\ Len(happened) \in Nat
      /\ happened \in Seq(Record)
  BY DEF EventTypeOK
<1>3. /\ h \in [0..N -> Service]
      /\ h[0].entries = entries
      /\ h[N].entries = entries' /\ h[N] = [entries |-> entries', processed |-> processed']
      /\ \A k \in 1..N : h[k] = Ingest(h[k - 1], EventId(k, first + k - 1), first + k - 1)
  BY <1>1 DEF BatchSteps
<1> HIDE DEF N
<1>4. EventTypeOK'
  <2>1. [entries |-> entries', processed |-> processed'] \in Service
    BY <1>2, <1>3
  <2>2. UNCHANGED <<policy, happened>> /\ delivered' = delivered \cup first..last
    BY DEF IngestEvents
  <2>3. first..last \subseteq 1..Len(happened)
    BY <1>2
  <2>4. QED
    BY <2>1, <2>2, <2>3 DEF EventTypeOK
<1>5. ASSUME Slots(entries) PROVE Slots(entries')
  <2> DEFINE S == {k \in 0..N : Slots(h[k].entries)}
  <2>1. 0 \in S
    BY <1>2, <1>3, <1>5
  <2>2. ASSUME NEW k \in 1..N, k - 1 \in S PROVE k \in S
    <3>1. k \in 0..N /\ first + k - 1 \in 1..Len(happened) /\ k \in Nat
      BY <1>2 DEF N
    <3>2. h[k - 1] \in Service /\ Slots(h[k - 1].entries)
      BY <1>3, <2>2
    <3>3. happened[first + k - 1] \in Record /\ first + k - 1 \in Nat
      BY <1>2, <3>1
    <3>4. EventId(k, first + k - 1) \in Ids
      BY <3>1, <3>3 DEF EventId, Ids
    <3>5. Slots(Ingest(h[k - 1], EventId(k, first + k - 1), first + k - 1).entries)
      BY <3>2, <3>3, <3>4, IngestType
    <3>6. QED
      BY <1>3, <3>1, <3>5
  <2> HIDE DEF S, N
  <2>3. \A k \in 0..N : k \in S
    BY <1>2, <2>1, <2>2, Induction
  <2>4. N \in S
    BY <1>2, <2>3
  <2>5. QED
    BY <1>3, <2>4 DEF S
<1>6. QED
  BY <1>4, <1>5

(* If records have ids of their own, a batch accounts for all its records, *)
(* replayed ones included.                                                 *)
LEMMA BatchKeepsAccounts ==
  ASSUME EventTypeOK, GivenIds = TRUE, Accounted(Ingested, delivered),
         NEW first \in 1..Len(happened), NEW last \in first..Len(happened),
         IngestEvents(first, last)
  PROVE  Accounted(Ingested, delivered)'
<1> DEFINE N == last - first + 1
           D(k) == delivered \cup first..(first + k - 1)
<1>1. PICK h : BatchSteps(h, first, last)
  BY BatchesStepByStep
<1>2. /\ N \in Nat /\ first \in Nat /\ last \in Nat /\ Len(happened) \in Nat
      /\ happened \in Seq(Record) /\ delivered \in SUBSET Nat
  BY DEF EventTypeOK
<1>3. /\ h \in [0..N -> Service]
      /\ h[0] = Ingested /\ h[N] = Ingested'
      /\ \A k \in 1..N : h[k] = Ingest(h[k - 1], <<"event", first + k - 1>>, first + k - 1)
  BY <1>1 DEF BatchSteps, Ingested, EventId
<1>4. D(0) = delivered /\ D(N) = delivered \cup first..last
  BY <1>2
<1>5. \A k \in 1..N : D(k) = D(k - 1) \cup {first + k - 1} /\ D(k - 1) \in SUBSET Nat
  BY <1>2
<1> HIDE DEF N, D
<1> DEFINE S == {k \in 0..N : Accounted(h[k], D(k))}
<1>6. 0 \in S
  BY <1>2, <1>3, <1>4
<1>7. ASSUME NEW k \in 1..N, k - 1 \in S PROVE k \in S
  <2>1. k \in 0..N /\ first + k - 1 \in 1..Len(happened)
    BY <1>2 DEF N
  <2>2. h[k - 1] \in Service /\ Accounted(h[k - 1], D(k - 1))
    BY <1>3, <1>7
  <2>3. happened[first + k - 1] \in Record /\ first + k - 1 \in Nat
    BY <1>2, <2>1
  <2>4. Accounted(Ingest(h[k - 1], <<"event", first + k - 1>>, first + k - 1),
                  D(k - 1) \cup {first + k - 1})
    BY <1>5, <2>2, <2>3, IngestAccounts
  <2>5. QED
    BY <1>3, <1>5, <2>1, <2>4
<1> HIDE DEF S
<1>8. \A k \in 0..N : k \in S
  BY <1>2, <1>6, <1>7, Induction
<1>9. Accounted(Ingested', delivered')
  <2>1. N \in S
    BY <1>2, <1>8
  <2>2. Accounted(h[N], D(N))
    BY <2>1 DEF S
  <2>3. delivered' = delivered \cup first..last
    BY DEF IngestEvents
  <2>4. QED
    BY <1>3, <1>4, <2>2, <2>3
<1>10. UNCHANGED <<policy, happened>>
  BY DEF IngestEvents
<1>11. \A s, E : Accounted(s, E) => Accounted(s, E)'
  BY <1>10 DEF Accounted, Describes, ShouldStore, Classify
<1>12. QED
  BY <1>9, <1>11

(* A step of Next is the world's or a batch.                               *)
LEMMA StepsOfService ==
  ASSUME EventTypeOK, [Next]_vars
  PROVE  \/ \E r \in Records[policy] : Happens(r)
         \/ \E first \in 1..Len(happened) : \E last \in first..Len(happened) :
              IngestEvents(first, last)
         \/ UNCHANGED vars
<1>1. ASSUME NEW first \in DOMAIN happened, NEW last \in DOMAIN happened,
             first <= last, IngestEvents(first, last)
      PROVE  first \in 1..Len(happened) /\ last \in first..Len(happened)
  BY <1>1 DEF EventTypeOK
<1>2. QED
  BY <1>1 DEF Next

(* Every step of the world, and every batch, keeps one current entry per   *)
(* subject and type.                                                       *)
LEMMA NextKeepsSlotsInv ==
  ASSUME EventAssumption, SlotsInv, [Next]_vars
  PROVE  SlotsInv'
<1>1. ASSUME NEW r \in Records[policy], Happens(r) PROVE SlotsInv'
  BY <1>1, HappensKeepsInv DEF SlotsInv
<1>2. ASSUME NEW first \in 1..Len(happened), NEW last \in first..Len(happened),
             IngestEvents(first, last)
      PROVE  SlotsInv'
  BY <1>2, BatchKeepsSlots DEF SlotsInv
<1>3. CASE UNCHANGED vars
  BY <1>3 DEF vars, SlotsInv, EventTypeOK
<1>4. QED
  BY <1>1, <1>2, <1>3, StepsOfService DEF SlotsInv

(* Every step keeps the delivered records accounted for, if records have   *)
(* ids of their own.                                                       *)
LEMMA NextKeepsAccountedInv ==
  ASSUME EventAssumption, GivenIds = TRUE, AccountedInv, [Next]_vars
  PROVE  AccountedInv'
<1>1. ASSUME NEW r \in Records[policy], Happens(r) PROVE AccountedInv'
  BY <1>1, HappensKeepsInv DEF AccountedInv
<1>2. ASSUME NEW first \in 1..Len(happened), NEW last \in first..Len(happened),
             IngestEvents(first, last)
      PROVE  AccountedInv'
  BY <1>2, BatchKeepsSlots, BatchKeepsAccounts DEF AccountedInv
<1>3. CASE UNCHANGED vars
  BY <1>3 DEF vars, AccountedInv, EventTypeOK, Accounted, Ingested, Describes, ShouldStore,
              Classify
<1>4. QED
  BY <1>1, <1>2, <1>3, StepsOfService DEF AccountedInv

-----------------------------------------------------------------------------
(* However the records are cut into batches and repeated, the entries stay *)
(* well-typed, with one active entry per subject and type that is not      *)
(* older than the others.                                                  *)
THEOREM SlotsInvariant == Spec => []SlotsInv
<1>1. Init => SlotsInv
  BY InitEstablishesInv
<1>2. SlotsInv /\ [Next]_vars => SlotsInv'
  BY EventAssumption, NextKeepsSlotsInv
<1>3. QED
  BY <1>1, <1>2, PTL DEF Spec

(* If records have ids of their own, exactly the delivered records are     *)
(* processed, each of them that is worth storing has one entry, and no     *)
(* other entry exists.                                                     *)
LEMMA AccountedInvariant ==
  ASSUME GivenIds = TRUE
  PROVE  Spec => []AccountedInv
<1>1. Init => AccountedInv
  BY InitEstablishesInv
<1>2. AccountedInv /\ [Next]_vars => AccountedInv'
  BY EventAssumption, NextKeepsAccountedInv
<1>3. QED
  BY <1>1, <1>2, PTL DEF Spec

(* A subject has at most one current entry of each type, with ids of the   *)
(* records or of the adapter, however batches are cut and replayed.        *)
THEOREM OneCurrentEntry == Spec => []OneActivePerSubject
<1>1. SlotsInv => OneActivePerSubject
  <2> SUFFICES ASSUME SlotsInv, NEW j \in Active, NEW k \in Active,
                      entries[j].subject = entries[k].subject, entries[j].type = entries[k].type
               PROVE  j = k
    BY DEF OneActivePerSubject
  <2>1. entries \in Seq(EntryRecord)
    BY DEF SlotsInv, EventTypeOK, Service
  <2>2. j \in 1..Len(entries) /\ k \in 1..Len(entries)
    BY <2>1 DEF Active
  <2>3. QED
    BY <2>2 DEF SlotsInv, Slots, OneActive, SameSlot, Active
<1>2. QED
  BY <1>1, SlotsInvariant, PTL

(* "Stable event ids make ingestion idempotent": a record with an id of    *)
(* its own yields one entry, however often its trace is replayed and       *)
(* whatever else a batch holds.                                            *)
THEOREM ReplaysAreIdempotent ==
  ASSUME GivenIds = TRUE
  PROVE  Spec => []IngestedOnce
<1>1. AccountedInv => IngestedOnce
  <2> SUFFICES ASSUME AccountedInv PROVE IngestedOnce
    OBVIOUS
  <2>1. DOMAIN entries = 1..Len(entries)
    <3>1. entries \in Seq(EntryRecord)
      BY DEF AccountedInv, EventTypeOK, Service
    <3>2. QED
      BY <3>1
  <2>2. QED
    BY <2>1 DEF AccountedInv, Accounted, Ingested, IngestedOnce
<1>2. QED
  BY <1>1, AccountedInvariant, PTL

(* Ingestion drops replays and what the policy rejects, and nothing else.  *)
THEOREM NoRecordDropped ==
  ASSUME GivenIds = TRUE
  PROVE  Spec => []NothingDropped
<1>1. AccountedInv => NothingDropped
  <2> SUFFICES ASSUME AccountedInv PROVE NothingDropped
    OBVIOUS
  <2>1. DOMAIN entries = 1..Len(entries)
    <3>1. entries \in Seq(EntryRecord)
      BY DEF AccountedInv, EventTypeOK, Service
    <3>2. QED
      BY <3>1
  <2>2. QED
    BY <2>1 DEF AccountedInv, Accounted, Ingested, NothingDropped
<1>2. QED
  BY <1>1, AccountedInvariant, PTL

(* A replay of old records does not bring an old state back: the current   *)
(* entry of a subject and type is the latest of the delivered records,     *)
(* provided that those stored were first delivered in order.               *)
THEOREM CurrentEntryIsLatest ==
  ASSUME GivenIds = TRUE
  PROVE  Spec => []CurrentIsLatest
<1>1. SlotsInv /\ AccountedInv => CurrentIsLatest
  <2> SUFFICES ASSUME SlotsInv, AccountedInv, InOrder, NEW n \in delivered,
                      ShouldStore(happened[n])
               PROVE  \E k \in Active : /\ entries[k].subject = happened[n].subject
                                        /\ entries[k].type = Classify(happened[n])
                                        /\ entries[k].event >= n
    BY DEF CurrentIsLatest
  <2>1. entries \in Seq(EntryRecord) /\ Len(entries) \in Nat /\ n \in Nat
    BY DEF SlotsInv, EventTypeOK, Service
  <2>2. DOMAIN entries = 1..Len(entries)
    BY <2>1
  <2>3. PICK k \in 1..Len(entries) : entries[k].event = n
    BY DEF AccountedInv, Accounted, Ingested
  <2>4. PICK m \in delivered : Describes(entries[k], m)
    BY DEF AccountedInv, Accounted, Ingested
  <2>5. entries[k].subject = happened[n].subject /\ entries[k].type = Classify(happened[n])
    BY <2>3, <2>4 DEF Describes
  <2>6. PICK j \in k..Len(entries) :
          entries[j].status = "active" /\ SameSlot(entries[j], entries[k])
    BY DEF SlotsInv, Slots, AlwaysCurrent
  <2>7. j \in 1..Len(entries) /\ j \in Active
    BY <2>1, <2>2, <2>3, <2>6 DEF Active
  <2>8. entries[j].event >= n
    <3>1. CASE j = k
      BY <2>1, <2>3, <3>1
    <3>2. CASE j > k
      <4>1. entries[k].event < entries[j].event
        BY <2>2, <2>7, <3>2 DEF InOrder
      <4>2. entries[j] \in EntryRecord
        BY <2>1, <2>7
      <4>3. QED
        BY <2>1, <2>3, <4>1, <4>2 DEF EntryRecord
    <3>3. QED
      BY <2>1, <2>6, <3>1, <3>2
  <2>9. QED
    BY <2>5, <2>6, <2>7, <2>8 DEF SameSlot
<1>2. QED
  BY <1>1, SlotsInvariant, AccountedInvariant, PTL

-----------------------------------------------------------------------------
(* retrieve_memory: the candidates in order, and the loop that fills the   *)
(* budget with them.                                                       *)

(* What an entry costs, and what it is ranked by.                          *)
Costs == [k \in 1..Len(entries) |-> entries[k].tokens]
Keys == [k \in 1..Len(entries) |-> Priority(entries[k].type)]

(* Costs and keys of entries, and what can be listed of them.              *)
LEMMA EntriesAreCosted ==
  ASSUME EventTypeOK, NEW scope
  PROVE  /\ Len(entries) \in Nat /\ DOMAIN entries = 1..Len(entries)
         /\ Costs \in [1..Len(entries) -> Nat] /\ Keys \in [1..Len(entries) -> Int]
         /\ Candidates(scope) \in SUBSET (1..Len(entries))
         /\ \A K \in SUBSET (1..Len(entries)) : IsFiniteSet(K)
<1>1. entries \in Seq(EntryRecord)
  BY DEF EventTypeOK, Service
<1>2. Len(entries) \in Nat /\ DOMAIN entries = 1..Len(entries)
  BY <1>1
<1>3. \A k \in 1..Len(entries) : entries[k].tokens \in Nat
  <2> TAKE k \in 1..Len(entries)
  <2>1. entries[k] \in EntryRecord
    BY <1>1
  <2>2. QED
    BY <2>1 DEF EntryRecord
<1>4. \A type : Priority(type) \in Int
  <2>1. \A type : AgentPriority(type) \in Int /\ ChatPriority(type) \in Int
    BY DEF AgentPriority, ChatPriority
  <2>2. QED
    BY <2>1 DEF Priority
<1>5. ASSUME NEW K \in SUBSET (1..Len(entries)) PROVE IsFiniteSet(K)
  <2>1. IsFiniteSet(1..Len(entries))
    <3>1. 1 \in Int /\ Len(entries) \in Int
      BY <1>2
    <3>2. QED
      BY <3>1, FS_Interval
  <2>2. QED
    BY <2>1, FS_Subset
<1>6. QED
  BY <1>2, <1>3, <1>4, <1>5 DEF Costs, Keys, Candidates, Active

(* The sorted candidates: all active entries, each once.                   *)
LEMMA RankedEntries ==
  ASSUME EventTypeOK, NEW scope
  PROVE  /\ Lists(Ranked(scope), Candidates(scope))
         /\ \A i, j \in 1..Cardinality(Candidates(scope)) :
              i < j => Before(Ranked(scope)[i], Ranked(scope)[j])
         /\ \A j, k \in Candidates(scope) : Before(j, k) => j # k /\ ~Before(k, j)
<1> DEFINE K == Candidates(scope)
           R == {p \in K \X K : Before(p[1], p[2])}
           list == Ranked(scope)
<1>1. /\ Len(entries) \in Nat /\ Keys \in [1..Len(entries) -> Int]
      /\ K \in SUBSET (1..Len(entries)) /\ IsFiniteSet(K)
  BY EntriesAreCosted
<1>2. \A j, k \in K : j \in Int /\ k \in Int /\ Keys[j] \in Int /\ Keys[k] \in Int
  BY <1>1
<1>3. \A j, k \in K : Before(j, k) <=> Keys[j] > Keys[k] \/ (Keys[j] = Keys[k] /\ j < k)
  <2> TAKE j, k \in K
  <2>1. Keys[j] = Priority(entries[j].type) /\ Keys[k] = Priority(entries[k].type)
    BY <1>1 DEF Keys
  <2>2. QED
    BY <2>1 DEF Before
<1> HIDE DEF K
<1>4. \A j, k \in K : <<j, k>> \in R <=> Before(j, k)
  OBVIOUS
<1> HIDE DEF R
<1>5. Orders(R, K)
  <2>1. \A j \in K : ~Before(j, j)
    BY <1>2, <1>3
  <2>2. ASSUME NEW i \in K, NEW j \in K, NEW k \in K, Before(i, j), Before(j, k)
        PROVE  Before(i, k)
    BY <1>2, <1>3, <2>2
  <2>3. \A j, k \in K : j # k => Before(j, k) \/ Before(k, j)
    BY <1>2, <1>3
  <2>4. QED
    BY <1>4, <2>1, <2>2, <2>3 DEF Orders
<1>6. \A x \in K : {y \in K : Before(y, x)} = Under(R, K, x)
  BY <1>4 DEF Under
<1>7. list = [i \in 1..Cardinality(K) |->
                CHOOSE x \in K : Cardinality({y \in K : Before(y, x)}) = i - 1]
  BY DEF Ranked, Sorted, K
<1>8. \A i \in 1..Cardinality(K) : \E x \in K : Cardinality({y \in K : Before(y, x)}) = i - 1
  <2>1. \A i \in 1..Cardinality(K) : \E x \in K : Cardinality(Under(R, K, x)) = i - 1
    BY <1>1, <1>5, SortedPlaces
  <2>2. QED
    BY <1>6, <2>1
<1> HIDE DEF list
<1>9. \A i \in 1..Cardinality(K) :
        list[i] \in K /\ Cardinality({y \in K : Before(y, list[i])}) = i - 1
  BY <1>7, <1>8
<1>10. list \in [1..Cardinality(K) -> K]
  BY <1>7, <1>9
<1>11. \A i \in 1..Cardinality(K) : Cardinality(Under(R, K, list[i])) = i - 1
  BY <1>6, <1>9
<1>12. /\ Lists(list, K)
       /\ \A i, j \in 1..Cardinality(K) : i < j => <<list[i], list[j]>> \in R
  BY <1>1, <1>5, <1>10, <1>11, SortedPlaces
<1>13. \A i, j \in 1..Cardinality(K) : i < j => Before(list[i], list[j])
  BY <1>4, <1>10, <1>12
<1>14. \A j, k \in K : Before(j, k) => j # k /\ ~Before(k, j)
  BY <1>2, <1>3
<1>15. QED
  BY <1>12, <1>13, <1>14 DEF K, list

(* The sum that RetrievalFillsBudget takes over a set of entries.          *)
TokensOf(ks) == FoldLeft(LAMBDA sum, k : sum + entries[k].tokens, 0, SetToSeq(ks))

(* The tokens of a set of entries.                                         *)
LEMMA TokensWeigh ==
  ASSUME EventTypeOK, NEW w, Weighs(w, Costs, Len(entries)),
         NEW K \in SUBSET (1..Len(entries))
  PROVE  TokensOf(K) = w[K]
<1> DEFINE N == Cardinality(K)
           R == Nat
           base == 0
           s == SetToSeq(K)
           Cost(i) == entries[s[i]].tokens
           step == [q \in R \X (1..N) |-> q[1] + Cost(q[2])]
           Eq(g) == g = [t \in SUBSET DOMAIN s |->
                           IF t = {} THEN base ELSE g[t \ {Max(t)}] + Cost(Max(t))]
           g == CHOOSE f : Eq(f)
<1>1. /\ Lists(s, K) /\ Costs \in [1..Len(entries) -> Nat] /\ Len(entries) \in Nat
      /\ N \in Nat /\ s \in [1..N -> K]
  <2>1. Costs \in [1..Len(entries) -> Nat] /\ Len(entries) \in Nat /\ IsFiniteSet(K)
    BY EntriesAreCosted
  <2>2. Lists(s, K)
    BY <2>1, SetToSeqLists
  <2>3. QED
    BY <2>1, <2>2 DEF Lists
<1>2. DOMAIN s = 1..N
  BY <1>1
<1>3. TokensOf(K) = g[DOMAIN s]
  BY DEF TokensOf, FoldLeft, MapThenFoldSet
<1>4. base \in R
  OBVIOUS
<1>5. \A i \in 1..N : Cost(i) = Costs[s[i]] /\ Cost(i) \in Nat
  <2> TAKE i \in 1..N
  <2>1. s[i] \in 1..Len(entries)
    <3>1. s[i] \in K
      BY <1>1
    <3>2. QED
      BY <3>1
  <2>2. Costs[s[i]] = entries[s[i]].tokens /\ Costs[s[i]] \in Nat
    BY <1>1, <2>1 DEF Costs
  <2>3. QED
    BY <2>2
<1> HIDE DEF N, g, s, Cost
<1>6. IsStep(step, R, N) /\ \A r \in R, i \in 1..N : step[<<r, i>>] = r + Cost(i)
  <2>1. \A r \in Nat, i \in 1..N : r + Cost(i) \in Nat
    BY <1>5
  <2>2. QED
    BY <2>1 DEF IsStep
<1> HIDE DEF step, R, base
<1>7. Recurses(g, R, base, N, step)
  <2>1. PICK f : f \in [SUBSET (1..N) -> R] /\ Recurses(f, R, base, N, step)
    BY <1>1, <1>4, <1>6, SubsetRecursion
  <2>2. \A t \in SUBSET (1..N) : t # {} => /\ Max(t) \in 1..N
                                           /\ t \ {Max(t)} \in SUBSET (1..N)
    BY <1>1, MaxOfInterval
  <2> DEFINE Table(q) == [t \in SUBSET (1..N) |->
                            IF t = {} THEN base ELSE q[t \ {Max(t)}] + Cost(Max(t))]
  <2>3. \A q : Eq(q) <=> q = Table(q)
    BY <1>2
  <2>4. f = Table(f)
    <3>1. f = [t \in SUBSET (1..N) |-> f[t]]
      BY <2>1
    <3>2. ASSUME NEW t \in SUBSET (1..N)
          PROVE  f[t] = IF t = {} THEN base ELSE f[t \ {Max(t)}] + Cost(Max(t))
      <4>1. CASE t = {}
        BY <2>1, <4>1 DEF Recurses
      <4>2. CASE t # {}
        <5>1. Max(t) \in 1..N /\ f[t \ {Max(t)}] \in R
          BY <2>1, <2>2, <4>2
        <5>2. f[t] = step[<<f[t \ {Max(t)}], Max(t)>>]
          BY <2>1, <4>2, <5>1 DEF Recurses
        <5>3. QED
          BY <1>6, <4>2, <5>1, <5>2
      <4>3. QED
        BY <4>1, <4>2
    <3>3. QED
      BY <3>1, <3>2
  <2> HIDE DEF Eq
  <2>5. Eq(g)
    BY <2>3, <2>4 DEF g
  <2>6. g = Table(g)
    BY <2>3, <2>5
  <2>7. QED
    BY <1>6, <2>2, <2>6 DEF Recurses
<1>8. PICK h : IsTable(h, R, base, N, step) /\ h[N] = g[1..N]
  BY <1>1, <1>4, <1>6, <1>7, FoldTable
<1>9. h \in [0..N -> R] /\ h[0] = base /\ h[N] = TokensOf(K)
  BY <1>2, <1>3, <1>8 DEF IsTable
<1>10. ASSUME NEW i \in 1..N PROVE h[i] = h[i - 1] + Costs[s[i]]
  <2>1. h[i - 1] \in R
    BY <1>1, <1>9, i - 1 \in 0..N
  <2>2. h[i] = h[i - 1] + Cost(i)
    BY <1>6, <1>8, <2>1 DEF IsTable
  <2>3. QED
    BY <1>5, <2>2
<1>11. h[Cardinality(K)] = w[K]
  <2>1. h[0] = 0
    BY <1>9 DEF base
  <2>2. \A i \in 1..Cardinality(K) : h[i] = h[i - 1] + Costs[s[i]]
    BY <1>10 DEF N
  <2>3. QED
    BY <1>1, <2>1, <2>2, ListSum
<1>12. QED
  BY <1>9, <1>11 DEF N

(* The states of the loop of retrieve_memory, one per candidate.           *)
LoopStates == [chosen: SUBSET (1..Len(entries)), used: Nat, full: BOOLEAN]

(* A candidate that fits is taken and paid for, any other changes nothing. *)
LEMMA TakingStaysTyped ==
  ASSUME EventTypeOK, NEW s \in LoopStates, NEW k \in 1..Len(entries)
  PROVE  /\ TakeIfFits(s, k) \in LoopStates
         /\ s.used + Costs[k] > Budget => TakeIfFits(s, k) = s
         /\ ~(s.used + Costs[k] > Budget) =>
              /\ TakeIfFits(s, k).chosen = s.chosen \cup {k}
              /\ TakeIfFits(s, k).used = s.used + Costs[k]
<1>1. Costs[k] = entries[k].tokens /\ Costs[k] \in Nat
  BY EntriesAreCosted DEF Costs
<1>2. /\ s.chosen \in SUBSET (1..Len(entries)) /\ s.used \in Nat /\ s.full \in BOOLEAN
      /\ s = [chosen |-> s.chosen, used |-> s.used, full |-> s.full]
  BY DEF LoopStates
<1>3. CASE s.used + Costs[k] > Budget
  BY <1>1, <1>3 DEF TakeIfFits
<1>4. CASE ~(s.used + Costs[k] > Budget)
  <2> DEFINE t == [s EXCEPT !.chosen = @ \cup {k}, !.used = @ + entries[k].tokens]
  <2>1. TakeIfFits(s, k) = t
    BY <1>1, <1>4 DEF TakeIfFits
  <2>2. t.chosen = s.chosen \cup {k} /\ t.used = s.used + Costs[k]
    BY <1>1 DEF LoopStates
  <2>3. t \in LoopStates
    <3>1. s.chosen \cup {k} \in SUBSET (1..Len(entries)) /\ s.used + entries[k].tokens \in Nat
      BY <1>1, <1>2
    <3>2. s \in [chosen: SUBSET (1..Len(entries)), used: Nat, full: BOOLEAN]
      BY DEF LoopStates
    <3>3. QED
      BY <3>1, <3>2 DEF LoopStates
  <2> HIDE DEF t
  <2>4. QED
    BY <1>4, <2>1, <2>2, <2>3
<1>5. QED
  BY <1>3, <1>4

(* Retrieved is what the loop has after the last candidate.                *)
IsLoop(scope, h, m) ==
  /\ h \in [0..m -> LoopStates]
  /\ h[0].chosen = {} /\ h[0].used = 0
  /\ h[m] = Retrieved(scope)
  /\ \A i \in 1..m : h[i] = TakeIfFits(h[i - 1], Ranked(scope)[i])

(* The fold of Retrieved passes through such states.                       *)
LEMMA RetrievedIsLoop ==
  ASSUME EventTypeOK, NEW scope
  PROVE  \E h : IsLoop(scope, h, Cardinality(Candidates(scope)))
<1> DEFINE N == Cardinality(Candidates(scope))
           R == LoopStates
           base == [chosen |-> {}, used |-> 0, full |-> FALSE]
           s == Ranked(scope)
           step == [q \in R \X (1..N) |-> TakeIfFits(q[1], s[q[2]])]
           Eq(g) == g = [t \in SUBSET DOMAIN s |->
                           IF t = {} THEN base ELSE TakeIfFits(g[t \ {Max(t)}], s[Max(t)])]
           g == CHOOSE f : Eq(f)
<1>1. /\ N \in Nat /\ s \in [1..N -> Candidates(scope)]
      /\ Candidates(scope) \in SUBSET (1..Len(entries))
  BY EntriesAreCosted, RankedEntries DEF Lists
<1>2. DOMAIN s = 1..N
  BY <1>1
<1>3. Retrieved(scope) = g[DOMAIN s]
  BY DEF Retrieved, FoldLeft, MapThenFoldSet
<1>4. base \in R /\ base.chosen = {} /\ base.used = 0
  BY DEF LoopStates
<1>5. \A i \in 1..N : s[i] \in 1..Len(entries)
  BY <1>1
<1> HIDE DEF N, g, s
<1>6. IsStep(step, R, N) /\ \A r \in R, i \in 1..N : step[<<r, i>>] = TakeIfFits(r, s[i])
  <2>1. \A r \in R, i \in 1..N : TakeIfFits(r, s[i]) \in R
    BY <1>5, TakingStaysTyped
  <2> HIDE DEF R
  <2>2. QED
    BY <2>1 DEF IsStep
<1> HIDE DEF step, R, base
<1>7. Recurses(g, R, base, N, step)
  <2>1. PICK f : f \in [SUBSET (1..N) -> R] /\ Recurses(f, R, base, N, step)
    BY <1>1, <1>4, <1>6, SubsetRecursion
  <2>2. \A t \in SUBSET (1..N) : t # {} => /\ Max(t) \in 1..N
                                           /\ t \ {Max(t)} \in SUBSET (1..N)
    BY <1>1, MaxOfInterval
  <2> DEFINE Table(q) == [t \in SUBSET (1..N) |->
                            IF t = {} THEN base ELSE TakeIfFits(q[t \ {Max(t)}], s[Max(t)])]
  <2>3. \A q : Eq(q) <=> q = Table(q)
    BY <1>2
  <2>4. f = Table(f)
    <3>1. f = [t \in SUBSET (1..N) |-> f[t]]
      BY <2>1
    <3>2. ASSUME NEW t \in SUBSET (1..N)
          PROVE  f[t] = IF t = {} THEN base ELSE TakeIfFits(f[t \ {Max(t)}], s[Max(t)])
      <4>1. CASE t = {}
        BY <2>1, <4>1 DEF Recurses
      <4>2. CASE t # {}
        <5>1. Max(t) \in 1..N /\ f[t \ {Max(t)}] \in R
          BY <2>1, <2>2, <4>2
        <5>2. f[t] = step[<<f[t \ {Max(t)}], Max(t)>>]
          BY <2>1, <4>2, <5>1 DEF Recurses
        <5>3. QED
          BY <1>6, <4>2, <5>1, <5>2
      <4>3. QED
        BY <4>1, <4>2
    <3>3. QED
      BY <3>1, <3>2
  <2> HIDE DEF Eq
  <2>5. Eq(g)
    BY <2>3, <2>4 DEF g
  <2>6. g = Table(g)
    BY <2>3, <2>5
  <2>7. QED
    BY <1>6, <2>2, <2>6 DEF Recurses
<1>8. PICK h : IsTable(h, R, base, N, step) /\ h[N] = g[1..N]
  BY <1>1, <1>4, <1>6, <1>7, FoldTable
<1>9. h \in [0..N -> R] /\ h[0] = base /\ h[N] = Retrieved(scope)
  BY <1>2, <1>3, <1>8 DEF IsTable
<1>10. ASSUME NEW i \in 1..N PROVE h[i] = TakeIfFits(h[i - 1], s[i])
  <2>1. h[i - 1] \in R
    BY <1>1, <1>9, i - 1 \in 0..N
  <2>2. QED
    BY <1>6, <1>8, <2>1 DEF IsTable
<1>11. IsLoop(scope, h, N)
  BY <1>4, <1>9, <1>10 DEF IsLoop, R, s
<1>12. QED
  BY <1>11 DEF N

-----------------------------------------------------------------------------
(* What the loop has looked at, and what it knows after i candidates: what *)
(* it used is what the chosen weigh, which fits the budget, and each one   *)
(* left out was too large for what the ones ahead of it had left.          *)
Looked(scope, i) == {Ranked(scope)[j] : j \in 1..i}

Filled(scope, h, w, i) ==
  /\ h[i].chosen \subseteq Looked(scope, i)
  /\ h[i].used = w[h[i].chosen] /\ h[i].used <= Budget
  /\ \A j \in 1..i : Ranked(scope)[j] \notin h[i].chosen =>
       w[h[i].chosen \cap Looked(scope, j - 1)] + Costs[Ranked(scope)[j]] > Budget

(* It knows so at the end of the loop.                                     *)
LEMMA LoopFills ==
  ASSUME EventTypeOK, NEW scope, NEW w, Weighs(w, Costs, Len(entries)),
         NEW h, IsLoop(scope, h, Cardinality(Candidates(scope)))
  PROVE  Filled(scope, h, w, Cardinality(Candidates(scope)))
<1> DEFINE m == Cardinality(Candidates(scope))
           S == {i \in 0..m : Filled(scope, h, w, i)}
<1>1. /\ m \in Nat /\ Ranked(scope) \in [1..m -> Candidates(scope)]
      /\ \A i, j \in 1..m : Ranked(scope)[i] = Ranked(scope)[j] => i = j
      /\ Candidates(scope) \in SUBSET (1..Len(entries))
  BY EntriesAreCosted, RankedEntries DEF Lists
<1>2. \A i \in 1..m : Ranked(scope)[i] \in 1..Len(entries)
  BY <1>1
<1>3. /\ h \in [0..m -> LoopStates] /\ h[0].chosen = {} /\ h[0].used = 0
      /\ \A i \in 1..m : h[i] = TakeIfFits(h[i - 1], Ranked(scope)[i])
  BY DEF IsLoop
<1>4. /\ w \in [SUBSET (1..Len(entries)) -> Nat] /\ w[{}] = 0
      /\ \A K \in SUBSET (1..Len(entries)) : \A x \in (1..Len(entries)) \ K :
           w[K \cup {x}] = w[K] + Costs[x]
  BY DEF Weighs
<1>5. Budget \in Nat
  BY EventAssumption
<1> HIDE DEF m
<1>6. 0 \in S
  <2>1. 0 \in 0..m /\ \A j \in 1..0 : FALSE
    BY <1>1
  <2>2. 0 <= Budget
    BY <1>5
  <2>3. Filled(scope, h, w, 0)
    BY <1>3, <1>4, <2>1, <2>2 DEF Filled
  <2>4. QED
    BY <2>1, <2>3
<1>7. ASSUME NEW i \in 1..m, i - 1 \in S PROVE i \in S
  <2> DEFINE k == Ranked(scope)[i]
             c == h[i - 1].chosen
             d == h[i].chosen
  <2>1. /\ i \in 0..m /\ i - 1 \in 0..m /\ i \in 1..i
        /\ \A j \in 1..i : j \in 1..m /\ (j # i => j \in 1..(i - 1))
    BY <1>1
  <2>2. Filled(scope, h, w, i - 1)
    BY <1>7
  <2>3. h[i - 1] \in LoopStates /\ k \in 1..Len(entries) /\ h[i] = TakeIfFits(h[i - 1], k)
    BY <1>2, <1>3, <2>1
  <2>4. Costs[k] \in Nat
    BY <2>3, EntriesAreCosted
  <2>5. c \in SUBSET (1..Len(entries)) /\ h[i - 1].used \in Nat
    BY <2>3 DEF LoopStates
  <2>6. Looked(scope, i) = Looked(scope, i - 1) \cup {k}
    <3>1. 1..i = (1..(i - 1)) \cup {i}
      BY <1>1
    <3>2. QED
      BY <3>1 DEF Looked
  <2>7. \A j \in 1..i : k \notin Looked(scope, j - 1)
    <3> TAKE j \in 1..i
    <3>1. \A l \in 1..(j - 1) : l \in 1..m /\ l # i
      BY <1>1
    <3>2. QED
      BY <1>1, <3>1 DEF Looked
  <2>8. c \subseteq Looked(scope, i - 1) /\ k \notin c
    <3>1. c \subseteq Looked(scope, i - 1)
      BY <2>2 DEF Filled
    <3>2. QED
      BY <2>1, <2>7, <3>1
  <2>9. h[i - 1].used = w[c] /\ h[i - 1].used <= Budget
    BY <2>2 DEF Filled
  <2>10. \A j \in 1..(i - 1) : Ranked(scope)[j] \notin c =>
           w[c \cap Looked(scope, j - 1)] + Costs[Ranked(scope)[j]] > Budget
    BY <2>2 DEF Filled
  <2> HIDE DEF k, c
  <2>11. CASE h[i - 1].used + Costs[k] > Budget
    <3>1. h[i] = h[i - 1] /\ d = c
      BY <2>3, <2>11, TakingStaysTyped DEF c
    <3>2. c \cap Looked(scope, i - 1) = c
      BY <2>8
    <3>3. ASSUME NEW j \in 1..i, Ranked(scope)[j] \notin d
          PROVE  w[d \cap Looked(scope, j - 1)] + Costs[Ranked(scope)[j]] > Budget
      <4>1. CASE j = i
        BY <2>9, <2>11, <3>1, <3>2, <4>1 DEF k
      <4>2. CASE j # i
        BY <2>1, <2>10, <3>1, <3>3, <4>2
      <4>3. QED
        BY <4>1, <4>2
    <3>4. d \subseteq Looked(scope, i) /\ h[i].used = w[d] /\ h[i].used <= Budget
      BY <2>6, <2>8, <2>9, <3>1
    <3>5. Filled(scope, h, w, i)
      BY <3>3, <3>4 DEF Filled
    <3>6. QED
      BY <2>1, <3>5
  <2>12. CASE ~(h[i - 1].used + Costs[k] > Budget)
    <3>1. d = c \cup {k} /\ h[i].used = h[i - 1].used + Costs[k]
      BY <2>3, <2>12, TakingStaysTyped DEF c
    <3>2. w[c \cup {k}] = w[c] + Costs[k]
      BY <1>4, <2>3, <2>5, <2>8
    <3>3. ASSUME NEW j \in 1..i, Ranked(scope)[j] \notin d
          PROVE  w[d \cap Looked(scope, j - 1)] + Costs[Ranked(scope)[j]] > Budget
      <4>1. j # i /\ Ranked(scope)[j] \notin c
        BY <3>1, <3>3 DEF k
      <4>2. j \in 1..(i - 1)
        BY <2>1, <4>1
      <4>3. d \cap Looked(scope, j - 1) = c \cap Looked(scope, j - 1)
        BY <2>7, <3>1
      <4>4. QED
        BY <2>10, <4>1, <4>2, <4>3
    <3>4. d \subseteq Looked(scope, i)
      BY <2>6, <2>8, <3>1
    <3>5. h[i].used = w[d] /\ h[i].used <= Budget
      BY <1>5, <2>4, <2>5, <2>9, <2>12, <3>1, <3>2
    <3>6. Filled(scope, h, w, i)
      BY <3>3, <3>4, <3>5 DEF Filled
    <3>7. QED
      BY <2>1, <3>6
  <2>13. QED
    BY <2>11, <2>12
<1> HIDE DEF S
<1>8. \A i \in 0..m : i \in S
  BY <1>1, <1>6, <1>7, Induction
<1>9. m \in S
  BY <1>1, <1>8
<1>10. QED
  BY <1>9 DEF S, m

(* The chosen entries are current, fit the budget, and leave out only what *)
(* does not fit behind those ahead of it.                                  *)
LEMMA RetrievalFills ==
  ASSUME EventTypeOK
  PROVE  RetrievalFillsBudget
<1> SUFFICES ASSUME NEW scope \in Scopes
             PROVE  LET chosen == Retrieved(scope).chosen
                    IN  /\ chosen \subseteq Candidates(scope) /\ TokensOf(chosen) <= Budget
                        /\ \A k \in Candidates(scope) \ chosen :
                             TokensOf({j \in chosen : Before(j, k)}) + entries[k].tokens > Budget
  BY DEF RetrievalFillsBudget, TokensOf
<1> DEFINE m == Cardinality(Candidates(scope))
           chosen == Retrieved(scope).chosen
<1>1. /\ Len(entries) \in Nat /\ DOMAIN entries = 1..Len(entries)
      /\ Costs \in [1..Len(entries) -> Nat] /\ Candidates(scope) \in SUBSET (1..Len(entries))
  BY EntriesAreCosted
<1>2. PICK w : Weighs(w, Costs, Len(entries))
  BY <1>1, WeightsExist
<1>3. PICK h : IsLoop(scope, h, m)
  BY RetrievedIsLoop
<1>4. Filled(scope, h, w, m)
  BY <1>2, <1>3, LoopFills
<1>5. h[m] = Retrieved(scope)
  BY <1>3 DEF IsLoop
<1>6. /\ m \in Nat /\ Ranked(scope) \in [1..m -> Candidates(scope)]
      /\ \A k \in Candidates(scope) : \E i \in 1..m : Ranked(scope)[i] = k
      /\ \A i, j \in 1..m : i < j => Before(Ranked(scope)[i], Ranked(scope)[j])
      /\ \A j, k \in Candidates(scope) : Before(j, k) => j # k /\ ~Before(k, j)
  BY RankedEntries DEF Lists
<1> HIDE DEF m
<1>7. /\ chosen \subseteq Looked(scope, m)
      /\ w[chosen] <= Budget
      /\ \A j \in 1..m : Ranked(scope)[j] \notin chosen =>
           w[chosen \cap Looked(scope, j - 1)] + Costs[Ranked(scope)[j]] > Budget
  BY <1>4, <1>5 DEF Filled
<1>8. Looked(scope, m) \subseteq Candidates(scope)
  BY <1>6 DEF Looked
<1> HIDE DEF chosen
<1>9. chosen \subseteq Candidates(scope) /\ chosen \in SUBSET (1..Len(entries))
  BY <1>1, <1>7, <1>8
<1>10. TokensOf(chosen) <= Budget
  <2>1. TokensOf(chosen) = w[chosen]
    BY <1>2, <1>9, TokensWeigh
  <2>2. QED
    BY <1>7, <2>1
<1>11. ASSUME NEW k \in Candidates(scope) \ chosen
       PROVE  TokensOf({j \in chosen : Before(j, k)}) + entries[k].tokens > Budget
  <2>1. PICK i \in 1..m : Ranked(scope)[i] = k
    BY <1>6
  <2>2. {j \in chosen : Before(j, k)} = chosen \cap Looked(scope, i - 1)
    <3>1. ASSUME NEW j \in chosen PROVE Before(j, k) <=> j \in Looked(scope, i - 1)
      <4>1. PICK l \in 1..m : Ranked(scope)[l] = j
        BY <1>6, <1>9
      <4>2. l # i /\ l \in Int /\ i \in Int
        BY <1>6, <1>11, <2>1, <4>1
      <4>3. CASE l < i
        <5>1. Before(j, k)
          BY <1>6, <2>1, <4>1, <4>3
        <5>2. l \in 1..(i - 1)
          BY <1>6, <4>3
        <5>3. QED
          BY <4>1, <5>1, <5>2 DEF Looked
      <4>4. CASE i < l
        <5>1. Before(k, j)
          BY <1>6, <2>1, <4>1, <4>4
        <5>2. ~Before(j, k)
          BY <1>6, <1>9, <1>11, <5>1
        <5>3. ASSUME NEW q \in 1..(i - 1), Ranked(scope)[q] = j PROVE FALSE
          <6>1. q \in 1..m /\ q < i
            BY <1>6
          <6>2. Before(j, k)
            BY <1>6, <2>1, <5>3, <6>1
          <6>3. QED
            BY <5>2, <6>2
        <5>4. j \notin Looked(scope, i - 1)
          BY <5>3 DEF Looked
        <5>5. QED
          BY <5>2, <5>4
      <4>5. QED
        BY <4>2, <4>3, <4>4
    <3>2. QED
      BY <3>1
  <2>3. TokensOf(chosen \cap Looked(scope, i - 1)) = w[chosen \cap Looked(scope, i - 1)]
    <3>1. chosen \cap Looked(scope, i - 1) \in SUBSET (1..Len(entries))
      BY <1>9
    <3>2. QED
      BY <1>2, <3>1, TokensWeigh
  <2>4. Costs[k] = entries[k].tokens
    BY <1>1 DEF Costs
  <2>5. w[chosen \cap Looked(scope, i - 1)] + Costs[k] > Budget
    BY <1>7, <1>11, <2>1
  <2>6. QED
    BY <2>2, <2>3, <2>4, <2>5
<1>12. QED
  BY <1>9, <1>10, <1>11 DEF chosen

(* What is retrieved for a scope is current, of that scope, fits the       *)
(* budget, and an entry left out has no room behind those ranked ahead.    *)
THEOREM RetrievalUsesBudget == Spec => []RetrievalFillsBudget
<1>1. SlotsInv => RetrievalFillsBudget
  BY RetrievalFills DEF SlotsInv
<1>2. QED
  BY <1>1, SlotsInvariant, PTL

=============================================================================
