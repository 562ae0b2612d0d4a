--------------------------- MODULE MemoryOpsProofs ---------------------------
(***************************************************************************)
(* Lemmas about one op on a store: what Memory._apply_one preserves, for   *)
(* every store and every op, accepted or rejected.                         *)
(***************************************************************************)
EXTENDS MemoryOps, TLAPS

(* Put replaces or inserts one entry and leaves the others alone.          *)
LEMMA PutEntry ==
  ASSUME NEW s, IsStore(s), NEW i \in Id, NEW e \in Entry
  PROVE  /\ DOMAIN Put(s.entries, i, e) = DOMAIN s.entries \cup {i}
         /\ Put(s.entries, i, e)[i] = e
         /\ \A j \in DOMAIN s.entries \ {i} :
              Put(s.entries, i, e)[j] = s.entries[j]
         /\ IsStore([s EXCEPT !.entries = Put(s.entries, i, e)])
<1>1. /\ DOMAIN Put(s.entries, i, e) = DOMAIN s.entries \cup {i}
      /\ Put(s.entries, i, e)[i] = e
      /\ \A j \in DOMAIN s.entries \ {i} :
           Put(s.entries, i, e)[j] = s.entries[j]
  BY DEF Put
<1>2. Put(s.entries, i, e) \in [DOMAIN s.entries \cup {i} -> Entry]
  BY DEF Put, IsStore
<1>3. DOMAIN s.entries \cup {i} \subseteq Id
  BY DEF IsStore
<1>4. [s EXCEPT !.entries = Put(s.entries, i, e)].entries = Put(s.entries, i, e)
  BY DEF IsStore
<1>5. QED
  BY <1>1, <1>2, <1>3, <1>4 DEF IsStore

(* The next id of a section is an id, and no entry of the store has it.    *)
LEMMA NextIdFresh ==
  ASSUME NEW s, IsStore(s), IdsIssued(s), NEW sec \in Sections
  PROVE  /\ NextId(s, sec) \in Id
         /\ ~Holds(s, NextId(s, sec))
         /\ Number(NextId(s, sec)) = s.counters[sec] + 1
         /\ SectionOf(NextId(s, sec)) = sec
<1>1. s.counters[sec] \in Nat
  BY DEF IsStore
<1>2. NextId(s, sec) \in Id
  BY <1>1 DEF NextId, Id
<1>3. Number(NextId(s, sec)) = s.counters[sec] + 1 /\ SectionOf(NextId(s, sec)) = sec
  BY DEF NextId, Number, SectionOf
<1>4. QED
  BY <1>1, <1>2, <1>3 DEF IdsIssued, Holds

(* The three ops that change a store keep it a store.                      *)
LEMMA AfterOpType ==
  ASSUME NEW s, IsStore(s), NEW op \in Op
  PROVE  IsStore(AfterOp(s, op))
<1>1. CASE op.kind = "ADD"
  <2>1. op.section \in Sections /\ op.text \in Texts /\ op.prov \in SUBSET TurnIds
    BY <1>1 DEF Op, PlainOps
  <2>2. s.counters[op.section] \in Nat
    BY <2>1 DEF IsStore
  <2>3. NextId(s, op.section) \in Id
    BY <2>1, <2>2 DEF NextId, Id
  <2> DEFINE e == [text |-> op.text, prov |-> op.prov, status |-> "active"]
             r == [s EXCEPT !.entries = Put(s.entries, NextId(s, op.section), e)]
  <2>4. e \in Entry
    BY <2>1 DEF Entry
  <2>5. IsStore(r)
    BY <2>3, <2>4, PutEntry
  <2>6. /\ Added(s, op).entries = r.entries
        /\ Added(s, op) \in [entries: {r.entries}, counters: [Sections -> Nat],
                             narrative: Narratives]
    <3>1. [s.counters EXCEPT ![op.section] = @ + 1] \in [Sections -> Nat]
      BY <2>1, <2>2 DEF IsStore
    <3>2. Added(s, op) = [s EXCEPT !.entries = r.entries,
                             !.counters = [s.counters EXCEPT ![op.section] = @ + 1]]
      BY DEF Added, IsStore
    <3>3. s \in [entries: {s.entries}, counters: [Sections -> Nat],
                 narrative: Narratives]
      BY DEF IsStore
    <3> HIDE DEF r
    <3>4. QED
      BY <3>1, <3>2, <3>3
  <2> HIDE DEF r
  <2>7. /\ DOMAIN Added(s, op).entries \subseteq Id
        /\ Added(s, op).entries \in [DOMAIN Added(s, op).entries -> Entry]
        /\ Added(s, op) \in [entries: {Added(s, op).entries},
                             counters: [Sections -> Nat], narrative: Narratives]
    BY <2>5, <2>6 DEF IsStore
  <2>8. QED
    BY <1>1, <2>7 DEF AfterOp, Updatable, IsStore
<1>2. CASE Updatable(s, op)
  <2>1. /\ op.id \in DOMAIN s.entries
        /\ op.id \in Id
        /\ op.text \in Texts
        /\ op.prov \in SUBSET TurnIds
        /\ op.sortable \in BOOLEAN
    BY <1>2 DEF Op, PlainOps, Updatable, ActiveIds
  <2> DEFINE e == [s.entries[op.id] EXCEPT
                     !.text = op.text,
                     !.prov = IF op.sortable THEN @ \cup op.prov ELSE @]
  <2>2. s.entries[op.id] \in Entry
    BY <2>1 DEF IsStore
  <2>3. e \in Entry
    BY <2>1, <2>2 DEF Entry
  <2>4. IsStore(Updated(s, op))
    BY <2>1, <2>3, PutEntry DEF Updated
  <2>5. QED
    BY <1>2, <2>4 DEF AfterOp, Updatable
<1>3. CASE op.kind = "SUPERSEDE" /\ Holds(s, op.id)
  <2>1. op.id \in DOMAIN s.entries /\ op.id \in Id
    BY <1>3 DEF Holds, IsStore
  <2>2. s.entries[op.id] \in Entry
    BY <2>1 DEF IsStore
  <2>3. [s.entries[op.id] EXCEPT !.status = "superseded"] \in Entry
    BY <2>2 DEF Entry
  <2>4. IsStore(Superseded(s, op))
    BY <2>1, <2>3, PutEntry DEF Superseded
  <2>5. QED
    BY <1>3, <2>4 DEF AfterOp, Updatable
<1>4. CASE ~(op.kind = "ADD") /\ ~Updatable(s, op)
             /\ ~(op.kind = "SUPERSEDE" /\ Holds(s, op.id))
  BY <1>4 DEF AfterOp
<1>5. QED
  BY <1>1, <1>2, <1>3, <1>4

(* One op extends a store: it adds under a fresh id, rewords an active     *)
(* entry, supersedes, or does nothing; and it issues the ids it uses.      *)
LEMMA AfterOpExtends ==
  ASSUME NEW s, IsStore(s), IdsIssued(s), NEW op \in Op
  PROVE  Extends(s, AfterOp(s, op)) /\ IdsIssued(AfterOp(s, op))
<1> DEFINE r == AfterOp(s, op)
<1>0. \A sec \in Sections : s.counters[sec] \in Nat
  BY DEF IsStore
<1>1. \A i \in DOMAIN s.entries : SectionOf(i) \in Sections /\ Number(i) \in Nat
  BY DEF IsStore, Id, SectionOf, Number
<1>2. CASE op.kind = "ADD"
  <2>1. op.section \in Sections /\ op.text \in Texts /\ op.prov \in SUBSET TurnIds
    BY <1>2 DEF Op, PlainOps
  <2> DEFINE n == NextId(s, op.section)
             e == [text |-> op.text, prov |-> op.prov, status |-> "active"]
  <2>2. /\ n \in Id /\ n \notin DOMAIN s.entries
        /\ Number(n) = s.counters[op.section] + 1 /\ SectionOf(n) = op.section
    BY <2>1, NextIdFresh DEF Holds
  <2>3. e \in Entry
    BY <2>1 DEF Entry
  <2>4. /\ r.entries = Put(s.entries, n, e)
        /\ r.counters = [s.counters EXCEPT ![op.section] = @ + 1]
    BY <1>2, <2>1 DEF AfterOp, Added, Updatable, IsStore
  <2> HIDE DEF n, e, r
  <2>5. /\ DOMAIN r.entries = DOMAIN s.entries \cup {n}
        /\ \A j \in DOMAIN s.entries : r.entries[j] = s.entries[j]
    BY <2>2, <2>3, <2>4 DEF Put
  <2>6. /\ \A sec \in Sections : s.counters[sec] <= r.counters[sec]
        /\ r.counters[op.section] = s.counters[op.section] + 1
    BY <1>0, <2>1, <2>4 DEF IsStore
  <2>7. IdsIssued(r)
    <3> SUFFICES ASSUME NEW i \in DOMAIN r.entries
                 PROVE  Number(i) <= r.counters[SectionOf(i)]
      BY DEF IdsIssued
    <3>1. CASE i = n
      BY <1>0, <2>1, <2>2, <2>6, <3>1
    <3>2. CASE i \in DOMAIN s.entries
      <4>1. Number(i) <= s.counters[SectionOf(i)]
        BY <3>2 DEF IdsIssued
      <4>2. /\ s.counters[SectionOf(i)] <= r.counters[SectionOf(i)]
            /\ s.counters[SectionOf(i)] \in Nat
            /\ r.counters[SectionOf(i)] \in Nat
        BY <1>0, <1>1, <2>1, <2>4, <2>6, <3>2 DEF IsStore
      <4>3. QED
        BY <1>1, <3>2, <4>1, <4>2
    <3>3. QED
      BY <2>5, <3>1, <3>2
  <2>8. Extends(s, r)
    <3>1. \A i \in DOMAIN r.entries \ DOMAIN s.entries :
            Number(i) > s.counters[SectionOf(i)]
      BY <1>0, <2>1, <2>2, <2>5
    <3>2. QED
      BY <2>5, <2>6, <3>1 DEF Extends, Evolves
  <2>9. QED
    BY <2>7, <2>8 DEF r
<1>3. CASE Updatable(s, op) \/ (op.kind = "SUPERSEDE" /\ Holds(s, op.id))
  <2>1. op.id \in DOMAIN s.entries /\ op.id \in Id
    BY <1>3 DEF Updatable, ActiveIds, Holds, IsStore
  <2>2. s.entries[op.id] \in Entry
    BY <2>1 DEF IsStore
  <2>3. PICK e \in Entry : /\ r = [s EXCEPT !.entries = Put(s.entries, op.id, e)]
                           /\ Evolves(s.entries[op.id], e)
    <3>1. CASE Updatable(s, op)
      <4> DEFINE e == [s.entries[op.id] EXCEPT
                         !.text = op.text,
                         !.prov = IF op.sortable THEN @ \cup op.prov ELSE @]
      <4>1. /\ op.text \in Texts /\ op.prov \in SUBSET TurnIds
            /\ op.sortable \in BOOLEAN
            /\ s.entries[op.id].status = "active"
        BY <3>1 DEF Op, PlainOps, Updatable, ActiveIds
      <4>2. e \in Entry /\ s.entries[op.id].prov \subseteq e.prov
        BY <2>2, <4>1 DEF Entry
      <4>3. r = [s EXCEPT !.entries = Put(s.entries, op.id, e)]
        BY <3>1 DEF AfterOp, Updated, Updatable
      <4>4. QED
        BY <4>1, <4>2, <4>3 DEF Evolves
    <3>2. CASE op.kind = "SUPERSEDE" /\ Holds(s, op.id)
      <4> DEFINE e == [s.entries[op.id] EXCEPT !.status = "superseded"]
      <4>1. e \in Entry /\ s.entries[op.id].prov \subseteq e.prov
        BY <2>2 DEF Entry
      <4>2. s.entries[op.id].status = "active" \/ s.entries[op.id] = e
        BY <2>2 DEF Entry
      <4>3. r = [s EXCEPT !.entries = Put(s.entries, op.id, e)]
        BY <3>2 DEF AfterOp, Superseded, Updatable
      <4>4. QED
        BY <4>1, <4>2, <4>3 DEF Evolves
    <3>3. QED
      BY <1>3, <3>1, <3>2
  <2> HIDE DEF r
  <2>4. r.entries = Put(s.entries, op.id, e) /\ r.counters = s.counters
    BY <2>3 DEF IsStore
  <2>5. /\ DOMAIN r.entries = DOMAIN s.entries
        /\ \A j \in DOMAIN s.entries : Evolves(s.entries[j], r.entries[j])
    BY <2>1, <2>3, <2>4 DEF Evolves, Put
  <2>6. IdsIssued(r)
    BY <2>4, <2>5 DEF IdsIssued
  <2>7. Extends(s, r)
    BY <1>0, <2>4, <2>5 DEF Extends
  <2>8. QED
    BY <2>6, <2>7 DEF r
<1>4. CASE ~(op.kind = "ADD") /\ ~Updatable(s, op)
             /\ ~(op.kind = "SUPERSEDE" /\ Holds(s, op.id))
  <2>1. r = s
    BY <1>4 DEF AfterOp
  <2>2. QED
    BY <1>0, <2>1 DEF Extends, Evolves
<1>5. QED
  BY <1>2, <1>3, <1>4

(* Extending is a preorder on stores.                                      *)
LEMMA ExtendsReflexive ==
  ASSUME NEW s, IsStore(s)
  PROVE  Extends(s, s)
BY DEF Extends, Evolves, IsStore

(* Extensions compose, so a batch of ops is one extension.                 *)
LEMMA ExtendsTransitive ==
  ASSUME NEW s, NEW u, NEW v, IsStore(s), IsStore(u), IsStore(v),
         Extends(s, u), Extends(u, v)
  PROVE  Extends(s, v)
<1>1. \A i \in DOMAIN v.entries : SectionOf(i) \in Sections /\ Number(i) \in Nat
  BY DEF IsStore, Id, SectionOf, Number
<1>2. \A sec \in Sections : s.counters[sec] \in Nat /\ u.counters[sec] \in Nat
                              /\ v.counters[sec] \in Nat
  BY DEF IsStore
<1>3. \A i \in DOMAIN v.entries \ DOMAIN s.entries :
        Number(i) > s.counters[SectionOf(i)]
  BY <1>1, <1>2 DEF Extends
<1>4. \A i \in DOMAIN s.entries : Evolves(s.entries[i], v.entries[i])
  BY DEF Extends, Evolves
<1>5. QED
  BY <1>2, <1>3, <1>4 DEF Extends

(* A rejected op, even one that leaves a new text behind, takes nothing    *)
(* away from the stores that extend the one it was applied to.             *)
LEMMA RejectedOpKeepsExtensions ==
  ASSUME NEW s, NEW u, IsStore(s), IsStore(u), NEW op \in Op,
         ~Accepted(s, op), Extends(s, u)
  PROVE  Extends(AfterOp(s, op), u)
<1>1. CASE ~Updatable(s, op)
  <2>1. AfterOp(s, op) = s
    BY <1>1 DEF AfterOp, Accepted
  <2>2. QED
    BY <2>1
<1>2. CASE Updatable(s, op)
  <2>1. /\ op.id \in DOMAIN s.entries /\ op.id \in Id
        /\ op.text \in Texts
        /\ op.sortable = FALSE
        /\ op.kind = "UPDATE"
        /\ s.entries[op.id].status = "active"
    BY <1>2 DEF Op, PlainOps, Updatable, ActiveIds, Accepted
  <2>2. s.entries[op.id] \in Entry
    BY <2>1 DEF IsStore
  <2> DEFINE e == [s.entries[op.id] EXCEPT
                     !.text = op.text,
                     !.prov = IF op.sortable THEN @ \cup op.prov ELSE @]
             r == AfterOp(s, op)
  <2>3. e \in Entry /\ e.status = "active" /\ e.prov = s.entries[op.id].prov
    BY <2>1, <2>2 DEF Entry
  <2>4. r = [s EXCEPT !.entries = Put(s.entries, op.id, e)]
    BY <1>2, <2>1 DEF AfterOp, Updated
  <2> HIDE DEF e, r
  <2>5. r.entries = Put(s.entries, op.id, e) /\ r.counters = s.counters
    BY <2>4 DEF IsStore
  <2>6. /\ DOMAIN r.entries = DOMAIN s.entries
        /\ r.entries[op.id] = e
        /\ \A j \in DOMAIN s.entries \ {op.id} : r.entries[j] = s.entries[j]
    BY <2>1, <2>3, <2>5 DEF Put
  <2>7. s.entries[op.id].prov \subseteq u.entries[op.id].prov
    BY <2>1 DEF Extends, Evolves
  <2>8. \A j \in DOMAIN r.entries : Evolves(r.entries[j], u.entries[j])
    BY <2>1, <2>3, <2>6, <2>7 DEF Extends, Evolves
  <2>9. QED
    BY <2>5, <2>6, <2>8 DEF Extends, r
<1>3. QED
  BY <1>1, <1>2
=============================================================================
