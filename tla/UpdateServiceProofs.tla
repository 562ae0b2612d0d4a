------------------------- MODULE UpdateServiceProofs -------------------------
(***************************************************************************)
(* Proofs about StructuredMemoryService with its compactor: a compaction   *)
(* loses no provenance, changes no history and reissues no id - as long as *)
(* compactions do not run beside other threads, for which there is a       *)
(* counterexample; beside others only turns committed between copy and     *)
(* install are lost.  They hold for any number of sections, texts, turns   *)
(* and edits, the last one for any number of threads.                      *)
(***************************************************************************)
EXTENDS UpdateService, MemoryOpsProofs, SequenceLemmas

(* No thread compacts while another one works on the memory.               *)
Alone == ~CompactorOn \/ \A t, u \in Threads : t = u

-----------------------------------------------------------------------------
(* What a compaction makes of the memory.                                  *)

(* The text of an added entry is the one of a superseded entry that none   *)
(* of the others superseded with it is newer than.                         *)
KeepsLatestValue(old, new) ==
  LET sources == {i \in ActiveIds(old) : Holds(new, i) /\ i \notin ActiveIds(new)}
      added == DOMAIN new.entries \ DOMAIN old.entries
  IN  \A i \in added : sources # {} =>
        \E j \in sources :
          /\ old.entries[j].text = new.entries[i].text
          /\ \A k \in sources : LastTurn(old.entries[k]) <= LastTurn(old.entries[j])

(* Entries that remain active are as they were, superseded ones all stay,  *)
(* and what is new has a new id.                                           *)
CompactsTo(old, new) ==
  /\ IsStore(new) /\ IdsIssued(new)
  /\ \A sec \in Sections : old.counters[sec] <= new.counters[sec]
  /\ \A i \in DOMAIN new.entries \ DOMAIN old.entries :
       Number(i) > old.counters[SectionOf(i)]
  /\ \A i \in DOMAIN old.entries \ ActiveIds(old) :
       Holds(new, i) /\ new.entries[i] = old.entries[i]
  /\ \A i \in DOMAIN old.entries \cap ActiveIds(new) : new.entries[i] = old.entries[i]
  /\ ProvenanceOf(old.entries) \subseteq ProvenanceOf(new.entries)
  /\ KeepsLatestValue(old, new)

(* A candidate that was detected in s, or in a memory s was compacted      *)
(* from: its ids are issued, and if still active as the candidate saw them.*)
IsCandidate(c) ==
  /\ DOMAIN c.entries \subseteq Id
  /\ c.entries \in [DOMAIN c.entries -> Entry]

Fits(c, s) ==
  \A i \in DOMAIN c.entries :
    /\ Number(i) <= s.counters[SectionOf(i)]
    /\ i \in ActiveIds(s) => s.entries[i] = c.entries[i]

-----------------------------------------------------------------------------
(* The inductive invariant.                                                *)

IsJob(j) == j \in [queue: {j.queue}, active: {j.active}, applied: BOOLEAN, rejected: BOOLEAN]

ServiceTypeOK ==
  /\ IsStore(live) /\ IdsIssued(live)
  /\ revision \in Nat
  /\ pending \in 1..(MaxTurns + 1)
  /\ turn \in [Threads -> 0..MaxTurns]
  /\ pc \in [Threads -> {"idle", "editing", "check", "compacting", "install"}]
  /\ DOMAIN trial = Threads
  /\ base \in [Threads -> Nat]
  /\ DOMAIN job = Threads /\ \A t \in Threads : IsJob(job[t])

(* A trial whose revision check would pass was copied from the memory as   *)
(* it is, and only adds to it.                                             *)
EditsExtend(t) ==
  pc[t] = "editing" =>
    /\ turn[t] \in TurnIds
    /\ IsStore(trial[t]) /\ IdsIssued(trial[t])
    /\ base[t] <= revision
    /\ base[t] = revision => Extends(live, trial[t])

(* The candidates of a compaction fit the memory, and its copy too.        *)
CompactionFits(t) ==
  pc[t] \in {"compacting", "install"} =>
    /\ CompactorOn
    /\ \A c \in job[t].queue : IsCandidate(c) /\ Fits(c, live)
    /\ pc[t] = "install" => CompactsTo(live, trial[t])

(* Turns that left the conversation are cited.                             *)
Covered == recorded \subseteq ProvenanceOf(live.entries)

ServiceInv ==
  /\ ServiceTypeOK
  /\ \A t \in Threads : EditsExtend(t) /\ CompactionFits(t)
  /\ Covered

-----------------------------------------------------------------------------
(* The latest entry of a candidate.                                        *)

(* The last turn an entry cites is one of the turns, or -1 if there is     *)
(* none.                                                                   *)
LEMMA LastTurnType ==
  ASSUME NEW e \in Entry
  PROVE  LastTurn(e) \in Int /\ LastTurn(e) <= MaxTurns
<1> DEFINE T == e.prov \cup {-1}
<1>1. e.prov \subseteq 1..MaxTurns /\ MaxTurns \in Nat
  BY ServiceAssumption DEF Entry
<1>2. T \in SUBSET Int /\ T # {} /\ \A n \in T : n <= MaxTurns
  BY <1>1
<1> HIDE DEF T
<1>3. Max(T) \in T /\ Max(T) \in Int
  <2>1. MaxTurns \in Int
    BY <1>1
  <2>2. QED
    BY <1>2, <2>1, MaxOfBounded
<1>4. QED
  BY <1>2, <1>3 DEF LastTurn, T

(* i wins over j: by its last turn, then by its prefix, then by number.    *)
Wins(es, i, j) ==
  \/ LastTurn(es[j]) < LastTurn(es[i])
  \/ LastTurn(es[j]) = LastTurn(es[i]) /\ IdAtMost(j, i)

(* Among entries whose ids are issued there is one that wins over all      *)
(* others, whatever order the ids have as strings; no other one is newer.  *)
LEMMA LatestIsLatest ==
  ASSUME NEW es, DOMAIN es \subseteq Id, es \in [DOMAIN es -> Entry], DOMAIN es # {},
         NEW counters \in [Sections -> Nat],
         \A i \in DOMAIN es : Number(i) <= counters[SectionOf(i)]
  PROVE  /\ Latest(es) \in DOMAIN es
         /\ \A j \in DOMAIN es : LastTurn(es[j]) <= LastTurn(es[Latest(es)])
<1> DEFINE D == DOMAIN es
           turns == {LastTurn(es[i]) : i \in D}
           D1 == {i \in D : LastTurn(es[i]) = Max(turns)}
           orders == {PrefixOrder[SectionOf(i)] : i \in D1}
           D2 == {i \in D1 : PrefixOrder[SectionOf(i)] = Max(orders)}
           numbers == {Number(i) : i \in D2}
<1>1. \A i \in D : SectionOf(i) \in Sections /\ Number(i) \in Nat
  BY DEF Id, SectionOf, Number
<1>2. \A i \in D : LastTurn(es[i]) \in Int /\ LastTurn(es[i]) <= MaxTurns
  BY LastTurnType
<1>3. Max(turns) \in turns /\ Max(turns) \in Int /\ \A x \in turns : x <= Max(turns)
  <2>1. turns \in SUBSET Int /\ turns # {} /\ \A x \in turns : x <= MaxTurns
    BY <1>2
  <2>2. MaxTurns \in Int
    BY ServiceAssumption
  <2> HIDE DEF turns
  <2>3. QED
    BY <2>1, <2>2, MaxOfBounded
<1>4. D1 # {} /\ \A j \in D : LastTurn(es[j]) <= Max(turns)
  BY <1>3
<1>5. /\ Cardinality(Sections) \in Nat
      /\ PrefixOrder \in [Sections -> 1..Cardinality(Sections)]
      /\ \A x, y \in Sections : PrefixOrder[x] = PrefixOrder[y] => x = y
  BY ServiceAssumption, FS_CardinalityType DEF Injection, IsInjective
<1>6. /\ Max(orders) \in orders /\ Max(orders) \in Int
      /\ \A x \in orders : x <= Max(orders)
  <2>1. /\ orders \in SUBSET Int /\ orders # {}
        /\ \A x \in orders : x <= Cardinality(Sections)
    <3>1. D1 # {} /\ \A i \in D1 : PrefixOrder[SectionOf(i)] \in 1..Cardinality(Sections)
      BY <1>1, <1>4, <1>5
    <3> HIDE DEF D1
    <3>2. QED
      BY <1>5, <3>1
  <2> HIDE DEF orders
  <2>2. QED
    BY <1>5, <2>1, MaxOfBounded
<1>7. D2 # {} /\ \A j \in D1 : PrefixOrder[SectionOf(j)] <= Max(orders)
  BY <1>6
<1>8. PICK sec \in Sections : \A i \in D2 : SectionOf(i) = sec
  BY <1>1, <1>5, <1>7
<1>9. Max(numbers) \in numbers /\ \A x \in numbers : x <= Max(numbers)
  <2>1. /\ numbers \in SUBSET Int /\ numbers # {}
        /\ \A x \in numbers : x <= counters[sec]
    <3>1. D2 # {} /\ \A i \in D2 : Number(i) \in Nat /\ Number(i) <= counters[sec]
      BY <1>1, <1>7, <1>8
    <3> HIDE DEF D2
    <3>2. QED
      BY <3>1
  <2>2. counters[sec] \in Int
    OBVIOUS
  <2> HIDE DEF numbers
  <2>3. QED
    BY <2>1, <2>2, MaxOfBounded
<1>10. PICK i \in D2 : \A j \in D2 : Number(j) <= Number(i)
  BY <1>9
<1>11. \A j \in D : Wins(es, i, j)
  <2> TAKE j \in D
  <2>1. i \in D /\ LastTurn(es[i]) = Max(turns) /\ PrefixOrder[SectionOf(i)] = Max(orders)
    OBVIOUS
  <2>2. CASE j \notin D1
    <3>1. LastTurn(es[j]) < LastTurn(es[i])
      BY <1>2, <1>3, <1>4, <2>1, <2>2
    <3>2. QED
      BY <3>1 DEF Wins
  <2>3. CASE j \in D1 /\ j \notin D2
    <3>1. PrefixOrder[SectionOf(j)] < PrefixOrder[SectionOf(i)]
      <4>1. /\ PrefixOrder[SectionOf(j)] # Max(orders) /\ PrefixOrder[SectionOf(j)] <= Max(orders)
            /\ PrefixOrder[SectionOf(j)] \in 1..Cardinality(Sections)
        BY <1>1, <1>5, <1>7, <2>3
      <4> HIDE DEF orders
      <4>2. QED
        BY <1>5, <1>6, <2>1, <4>1
    <3>2. QED
      BY <2>1, <2>3, <3>1 DEF Wins, IdAtMost
  <2>4. CASE j \in D2
    BY <1>8, <1>10, <2>1, <2>4 DEF Wins, IdAtMost
  <2>5. QED
    BY <2>2, <2>3, <2>4
<1>12. Latest(es) \in D /\ \A j \in D : Wins(es, Latest(es), j)
  BY <1>10, <1>11 DEF Latest, Wins
<1>13. QED
  BY <1>2, <1>12 DEF Wins

-----------------------------------------------------------------------------
(* Compacting a candidate.                                                 *)

(* The entries that remain of s once c's sources are superseded.           *)
Settled(s, c) ==
  DropSources([i \in DOMAIN s.entries |->
                 IF i \in DOMAIN c.entries THEN [s.entries[i] EXCEPT !.status = "superseded"]
                                            ELSE s.entries[i]], c)

(* Sources are superseded, or dropped by a rollup; all others stay.        *)
LEMMA SettledEntries ==
  ASSUME NEW s, IsStore(s), NEW c, DOMAIN c.entries \subseteq ActiveIds(s)
  PROVE  LET ids == DOMAIN c.entries
             H == Settled(s, c)
         IN  /\ DOMAIN H = IF c.reason = "rollup" THEN DOMAIN s.entries \ ids
                                                 ELSE DOMAIN s.entries
             /\ \A i \in DOMAIN H :
                  /\ H[i] \in Entry /\ H[i].prov = s.entries[i].prov
                  /\ H[i].status = IF i \in ids THEN "superseded" ELSE s.entries[i].status
                  /\ i \notin ids => H[i] = s.entries[i]
<1> DEFINE ids == DOMAIN c.entries
           F == [i \in DOMAIN s.entries |->
                   IF i \in ids THEN [s.entries[i] EXCEPT !.status = "superseded"]
                               ELSE s.entries[i]]
           H == Settled(s, c)
<1>1. \A i \in DOMAIN s.entries : s.entries[i] \in Entry
  BY DEF IsStore
<1>2. \A i \in DOMAIN s.entries :
        /\ F[i] \in Entry /\ F[i].prov = s.entries[i].prov
        /\ F[i].status = IF i \in ids THEN "superseded" ELSE s.entries[i].status
        /\ i \notin ids => F[i] = s.entries[i]
  BY <1>1 DEF Entry
<1>3. DOMAIN F = DOMAIN s.entries
  OBVIOUS
<1>4. H = DropSources(F, c)
  BY DEF Settled
<1> HIDE DEF F, H
<1>5. /\ DOMAIN H = IF c.reason = "rollup" THEN DOMAIN s.entries \ ids ELSE DOMAIN s.entries
      /\ \A i \in DOMAIN H : H[i] = F[i] /\ i \in DOMAIN s.entries
  BY <1>3, <1>4 DEF DropSources, Restrict
<1>6. QED
  BY <1>2, <1>5 DEF H

(* A valid candidate is replaced by one entry under a fresh id, which      *)
(* cites what its sources cite.                                            *)
LEMMA CompactedShape ==
  ASSUME NEW s, IsStore(s), IdsIssued(s), NEW c, IsCandidate(c),
         NEW text \in Texts, Valid(s, c, text)
  PROVE  LET r == Compacted(s, c, text)
             H == Settled(s, c)
         IN  /\ IsStore(r) /\ IdsIssued(r)
             /\ \A sec \in Sections : s.counters[sec] <= r.counters[sec]
             /\ Latest(c.entries) \in DOMAIN c.entries
             /\ \A j \in DOMAIN c.entries :
                  LastTurn(c.entries[j]) <= LastTurn(c.entries[Latest(c.entries)])
             /\ \E n \in Id :
                  /\ n \notin DOMAIN s.entries
                  /\ Number(n) > s.counters[SectionOf(n)]
                  /\ DOMAIN r.entries = DOMAIN H \cup {n}
                  /\ \A i \in DOMAIN H : r.entries[i] = H[i]
                  /\ r.entries[n] = [text |-> text, prov |-> ProvenanceOf(c.entries),
                                     status |-> "active"]
<1> DEFINE ids == DOMAIN c.entries
           H == Settled(s, c)
           sec == SectionOf(Latest(c.entries))
           prov == ProvenanceOf(c.entries)
           op == AddOp(sec, text, prov)
           r0 == [s EXCEPT !.entries = H]
           r == Compacted(s, c, text)
           e == [text |-> text, prov |-> prov, status |-> "active"]
           n == NextId(r0, sec)
<1>1. /\ ids \subseteq Id /\ ids \subseteq DOMAIN s.entries /\ ids \subseteq ActiveIds(s)
      /\ c.entries \in [ids -> Entry] /\ prov # {}
  BY DEF IsCandidate, Valid, ActiveIds
<1>2. ids # {}
  BY <1>1 DEF ProvenanceOf
<1>3. /\ Latest(c.entries) \in ids
      /\ \A j \in ids : LastTurn(c.entries[j]) <= LastTurn(c.entries[Latest(c.entries)])
  <2>1. s.counters \in [Sections -> Nat] /\ \A i \in ids : Number(i) <= s.counters[SectionOf(i)]
    BY <1>1 DEF IsStore, IdsIssued
  <2>2. QED
    BY <1>1, <1>2, <2>1, LatestIsLatest
<1>4. sec \in Sections /\ prov \in SUBSET TurnIds
  <2>1. sec \in Sections
    BY <1>1, <1>3 DEF Id, SectionOf
  <2>2. \A i \in ids : c.entries[i].prov \subseteq TurnIds
    BY <1>1 DEF Entry
  <2>3. QED
    BY <2>1, <2>2 DEF ProvenanceOf
<1> HIDE DEF sec, prov
<1>5. op \in Op /\ op.kind = "ADD" /\ op.section = sec /\ op.text = text /\ op.prov = prov
  BY <1>4 DEF Op, AddOp
<1>6. /\ DOMAIN H \subseteq DOMAIN s.entries
      /\ \A i \in DOMAIN H : H[i] \in Entry
      /\ H = [i \in DOMAIN H |-> H[i]]
  <2>1. DOMAIN H \subseteq DOMAIN s.entries /\ \A i \in DOMAIN H : H[i] \in Entry
    <3>1. /\ DOMAIN H = IF c.reason = "rollup" THEN DOMAIN s.entries \ ids ELSE DOMAIN s.entries
          /\ \A i \in DOMAIN H : H[i] \in Entry
      BY <1>1, SettledEntries
    <3> HIDE DEF H
    <3>2. QED
      BY <3>1
  <2>2. H = [i \in DOMAIN H |-> H[i]]
    BY DEF Settled, DropSources, Restrict
  <2>3. QED
    BY <2>1, <2>2
<1> HIDE DEF H
<1>7. /\ r0.entries = H /\ r0.counters = s.counters /\ r0.narrative = s.narrative
      /\ r0 \in [entries: {H}, counters: [Sections -> Nat], narrative: Narratives]
  BY DEF IsStore
<1>8. r = Added(r0, op)
  BY DEF Compacted, Settled, H, sec, prov
<1> HIDE DEF r0, r, op
<1>9. IsStore(r0) /\ IdsIssued(r0)
  <2>1. H \in [DOMAIN H -> Entry] /\ DOMAIN H \subseteq Id
    BY <1>6 DEF IsStore
  <2>2. IsStore(r0)
    BY <1>7, <2>1 DEF IsStore
  <2>3. QED
    BY <1>6, <1>7, <2>2 DEF IdsIssued
<1>10. r = AfterOp(r0, op)
  BY <1>5, <1>8 DEF AfterOp, Updatable
<1>11. IsStore(r) /\ IdsIssued(r) /\ Extends(r0, r)
  BY <1>5, <1>9, <1>10, AfterOpType, AfterOpExtends
<1>12. \A k \in Sections : s.counters[k] <= r.counters[k]
  BY <1>7, <1>11 DEF Extends
<1>13. /\ n \in Id /\ Number(n) = s.counters[sec] + 1 /\ SectionOf(n) = sec
       /\ s.counters[sec] \in Nat
  BY <1>4, <1>7 DEF NextId, Id, Number, SectionOf
<1>14. n \notin DOMAIN s.entries
  <2>1. \A i \in DOMAIN s.entries : Number(i) <= s.counters[SectionOf(i)]
    BY DEF IdsIssued
  <2> HIDE DEF n
  <2>2. QED
    BY <1>13, <2>1
<1>15. r.entries = Put(H, n, e)
  BY <1>5, <1>7, <1>8 DEF Added
<1> HIDE DEF n, e
<1>16. /\ DOMAIN r.entries = DOMAIN H \cup {n}
       /\ \A i \in DOMAIN H : r.entries[i] = H[i]
       /\ r.entries[n] = e
  BY <1>6, <1>14, <1>15 DEF Put
<1>17. Number(n) > s.counters[SectionOf(n)]
  BY <1>13
<1>18. QED
  BY <1>3, <1>11, <1>12, <1>13, <1>14, <1>16, <1>17 DEF H, r, e, prov

(* A valid candidate, however stale, leaves a store that cites all the     *)
(* store before cited.                                                     *)
LEMMA CompactionKeepsProvenance ==
  ASSUME NEW s, IsStore(s), IdsIssued(s), NEW c, IsCandidate(c),
         NEW text \in Texts, Valid(s, c, text)
  PROVE  LET r == Compacted(s, c, text)
         IN  /\ IsStore(r) /\ IdsIssued(r)
             /\ ProvenanceOf(s.entries) \subseteq ProvenanceOf(r.entries)
<1> DEFINE ids == DOMAIN c.entries
           H == Settled(s, c)
           r == Compacted(s, c, text)
<1>0. ids \subseteq ActiveIds(s)
  BY DEF Valid
<1>1. ProvenanceOf(Restrict(s.entries, ids)) \subseteq ProvenanceOf(c.entries)
  BY DEF Valid
<1>2. /\ DOMAIN H = IF c.reason = "rollup" THEN DOMAIN s.entries \ ids ELSE DOMAIN s.entries
      /\ \A i \in DOMAIN H :
           /\ H[i] \in Entry /\ H[i].prov = s.entries[i].prov
           /\ H[i].status = IF i \in ids THEN "superseded" ELSE s.entries[i].status
           /\ i \notin ids => H[i] = s.entries[i]
  BY <1>0, SettledEntries, ZenonT(40)
<1>3. \A i \in DOMAIN H : i \notin ids => H[i] = s.entries[i]
  <2> HIDE DEF H
  <2>1. QED
    BY <1>2
<1>4. PICK n \in Id :
        /\ DOMAIN r.entries = DOMAIN H \cup {n}
        /\ \A i \in DOMAIN H : r.entries[i] = H[i]
        /\ r.entries[n] = [text |-> text, prov |-> ProvenanceOf(c.entries),
                           status |-> "active"]
  BY CompactedShape
<1>5. IsStore(r) /\ IdsIssued(r)
  BY CompactedShape
<1> HIDE DEF H, r
<1>6. ProvenanceOf(s.entries) \subseteq ProvenanceOf(r.entries)
  <2> SUFFICES ASSUME NEW i \in DOMAIN s.entries
               PROVE  s.entries[i].prov \subseteq ProvenanceOf(r.entries)
    BY DEF ProvenanceOf
  <2>1. CASE i \in ids
    <3>1. s.entries[i].prov \subseteq ProvenanceOf(Restrict(s.entries, ids))
      BY <2>1 DEF ProvenanceOf, Restrict
    <3>2. n \in DOMAIN r.entries /\ r.entries[n].prov = ProvenanceOf(c.entries)
      BY <1>4
    <3>3. ProvenanceOf(c.entries) \subseteq ProvenanceOf(r.entries)
      <4> DEFINE P == ProvenanceOf(c.entries)
      <4> HIDE DEF P
      <4>1. r.entries[n].prov = P
        BY <3>2 DEF P
      <4>2. P \subseteq ProvenanceOf(r.entries)
        BY <3>2, <4>1 DEF ProvenanceOf
      <4>3. QED
        BY <4>2 DEF P
    <3>4. QED
      BY <1>1, <3>1, <3>3
  <2>2. CASE i \notin ids
    <3>1. i \in DOMAIN r.entries /\ r.entries[i] = s.entries[i]
      BY <1>2, <1>3, <1>4, <2>2
    <3>2. QED
      BY <3>1 DEF ProvenanceOf
  <2>3. QED
    BY <2>1, <2>2
<1>7. QED
  BY <1>5, <1>6 DEF r

(* A valid candidate that fits the memory is compacted: nothing but its    *)
(* sources is touched, all provenance stays, and a subject keeps the text  *)
(* of its latest turn.                                                     *)
LEMMA CompactionCompacts ==
  ASSUME NEW s, IsStore(s), IdsIssued(s), NEW c, IsCandidate(c), Fits(c, s),
         NEW text \in Texts, text \in CanonicalTexts(c), Valid(s, c, text)
  PROVE  CompactsTo(s, Compacted(s, c, text))
<1> DEFINE ids == DOMAIN c.entries
           H == Settled(s, c)
           r == Compacted(s, c, text)
<1>0. ids \subseteq ActiveIds(s)
  BY DEF Valid
<1>1. /\ ids \subseteq ActiveIds(s) /\ ids \subseteq DOMAIN s.entries
      /\ ProvenanceOf(Restrict(s.entries, ids)) \subseteq ProvenanceOf(c.entries)
      /\ \A i \in ids : c.entries[i] = s.entries[i]
  BY <1>0 DEF Valid, ActiveIds, Fits
<1>2. /\ DOMAIN H = IF c.reason = "rollup" THEN DOMAIN s.entries \ ids ELSE DOMAIN s.entries
      /\ \A i \in DOMAIN H :
           /\ H[i] \in Entry /\ H[i].prov = s.entries[i].prov
           /\ H[i].status = IF i \in ids THEN "superseded" ELSE s.entries[i].status
           /\ i \notin ids => H[i] = s.entries[i]
  BY <1>0, SettledEntries, ZenonT(40)
<1>3. \A i \in DOMAIN H :
        /\ H[i].prov = s.entries[i].prov
        /\ H[i].status = IF i \in ids THEN "superseded" ELSE s.entries[i].status
        /\ i \notin ids => H[i] = s.entries[i]
  <2> HIDE DEF H
  <2>1. QED
    BY <1>2
<1>4. PICK n \in Id :
        /\ n \notin DOMAIN s.entries
        /\ Number(n) > s.counters[SectionOf(n)]
        /\ DOMAIN r.entries = DOMAIN H \cup {n}
        /\ \A i \in DOMAIN H : r.entries[i] = H[i]
        /\ r.entries[n] = [text |-> text, prov |-> ProvenanceOf(c.entries),
                           status |-> "active"]
  BY CompactedShape
<1>5. /\ IsStore(r) /\ IdsIssued(r)
      /\ \A sec \in Sections : s.counters[sec] <= r.counters[sec]
      /\ Latest(c.entries) \in ids
      /\ \A j \in ids : LastTurn(c.entries[j]) <= LastTurn(c.entries[Latest(c.entries)])
  BY CompactedShape
<1> HIDE DEF H, r
<1>6. ASSUME NEW i \in DOMAIN r.entries \ DOMAIN s.entries
      PROVE  Number(i) > s.counters[SectionOf(i)]
  BY <1>2, <1>4, <1>6
<1>7. ASSUME NEW i \in DOMAIN s.entries \ ActiveIds(s)
      PROVE  Holds(r, i) /\ r.entries[i] = s.entries[i]
  <2>1. i \in DOMAIN H /\ i \notin ids
    BY <1>1, <1>2
  <2>2. QED
    BY <1>3, <1>4, <2>1 DEF Holds
<1>8. ASSUME NEW i \in DOMAIN s.entries \cap ActiveIds(r)
      PROVE  r.entries[i] = s.entries[i]
  <2>1. i \in DOMAIN H /\ r.entries[i] = H[i] /\ r.entries[i].status = "active"
    BY <1>4 DEF ActiveIds
  <2>2. QED
    BY <1>3, <2>1
<1>9. ProvenanceOf(s.entries) \subseteq ProvenanceOf(r.entries)
  BY CompactionKeepsProvenance DEF r
<1>10. KeepsLatestValue(s, r)
  <2> DEFINE sources == {i \in ActiveIds(s) : Holds(r, i) /\ i \notin ActiveIds(r)}
             j == Latest(c.entries)
  <2>1. ASSUME NEW i \in sources PROVE i \in ids /\ c.reason # "rollup"
    <3>1. i \in DOMAIN s.entries /\ s.entries[i].status = "active" /\ i \in DOMAIN H
          /\ r.entries[i] = H[i] /\ H[i].status # "active"
      BY <1>4 DEF ActiveIds, Holds
    <3>2. i \in ids
      BY <1>3, <3>1
    <3>3. QED
      BY <1>2, <3>1, <3>2
  <2>2. ASSUME NEW i \in DOMAIN r.entries \ DOMAIN s.entries, sources # {}
        PROVE  /\ j \in sources
               /\ s.entries[j].text = r.entries[i].text
               /\ \A k \in sources : LastTurn(s.entries[k]) <= LastTurn(s.entries[j])
    <3>1. c.reason # "rollup"
      BY <2>1, <2>2
    <3>2. j \in ids /\ j \in DOMAIN H /\ j \in ActiveIds(s)
      BY <1>1, <1>2, <1>5, <3>1
    <3>3. j \in DOMAIN r.entries /\ r.entries[j].status = "superseded"
      BY <1>3, <1>4, <3>2
    <3>4. j \in sources
      BY <3>2, <3>3 DEF Holds, ActiveIds
    <3>5. i = n /\ r.entries[i].text = text
      BY <1>2, <1>4, <2>2
    <3>6. text = c.entries[j].text
      BY <3>1 DEF CanonicalTexts
    <3>7. s.entries[j].text = r.entries[i].text
      BY <1>1, <3>2, <3>5, <3>6
    <3>8. \A k \in sources : LastTurn(s.entries[k]) <= LastTurn(s.entries[j])
      BY <1>1, <1>5, <2>1, <3>2
    <3>9. QED
      BY <3>4, <3>7, <3>8
  <2> HIDE DEF j
  <2>3. QED
    BY <2>2 DEF KeepsLatestValue
<1>11. QED
  BY <1>5, <1>6, <1>7, <1>8, <1>9, <1>10 DEF CompactsTo, r

(* Other candidates of the queue fit the compacted memory too.             *)
LEMMA CompactionKeepsFit ==
  ASSUME NEW s, NEW r, IsStore(s), CompactsTo(s, r), NEW c, IsCandidate(c), Fits(c, s)
  PROVE  Fits(c, r)
<1> SUFFICES ASSUME NEW i \in DOMAIN c.entries
             PROVE  /\ Number(i) <= r.counters[SectionOf(i)]
                    /\ i \in ActiveIds(r) => r.entries[i] = c.entries[i]
  BY DEF Fits
<1>1. SectionOf(i) \in Sections /\ Number(i) \in Nat /\ Number(i) <= s.counters[SectionOf(i)]
  BY DEF IsCandidate, Id, SectionOf, Number, Fits
<1>2. /\ s.counters[SectionOf(i)] \in Nat /\ r.counters[SectionOf(i)] \in Nat
      /\ s.counters[SectionOf(i)] <= r.counters[SectionOf(i)]
  BY <1>1 DEF IsStore, CompactsTo
<1>3. ASSUME i \in ActiveIds(r) PROVE r.entries[i] = c.entries[i]
  <2>1. i \in DOMAIN r.entries /\ r.entries[i].status = "active"
    BY <1>3 DEF ActiveIds
  <2>2. i \in DOMAIN s.entries
    BY <1>1, <1>2, <2>1 DEF CompactsTo
  <2>3. r.entries[i] = s.entries[i]
    BY <1>3, <2>2 DEF CompactsTo
  <2>4. i \in ActiveIds(s)
    BY <2>1, <2>2, <2>3 DEF ActiveIds
  <2>5. QED
    BY <2>3, <2>4 DEF Fits
<1>4. QED
  BY <1>1, <1>2, <1>3

(* Detected candidates show entries of the memory as they are.             *)
LEMMA CandidatesFit ==
  ASSUME IsStore(live), IdsIssued(live), NEW c \in Candidates
  PROVE  IsCandidate(c) /\ Fits(c, live)
<1>1. ASSUME NEW ids, ids \subseteq ActiveIds(live), NEW why, c = Candidate(live, ids, why)
      PROVE  IsCandidate(c) /\ Fits(c, live)
  <2>1. /\ DOMAIN c.entries = ids /\ c.entries = [i \in ids |-> live.entries[i]]
        /\ ids \subseteq DOMAIN live.entries
    BY <1>1 DEF Candidate, Restrict, ActiveIds
  <2>2. \A i \in ids : i \in Id /\ live.entries[i] \in Entry
    BY <2>1 DEF IsStore
  <2>3. IsCandidate(c)
    BY <2>1, <2>2 DEF IsCandidate
  <2>4. Fits(c, live)
    BY <2>1 DEF Fits, IdsIssued
  <2>5. QED
    BY <2>3, <2>4
<1>2. CASE c \in RollupCandidates(live)
  <2>1. PICK ids : ids \subseteq ActiveIds(live) /\ c = Candidate(live, ids, "rollup")
    <3> DEFINE all == {i \in ActiveIds(live) : SectionOf(i) = Progress}
    <3>1. \A chunk \in Chunks(all) : chunk \subseteq all
      BY DEF Chunks
    <3>2. \E chunk \in Chunks(all) : c = Candidate(live, chunk, "rollup")
      BY <1>2 DEF RollupCandidates
    <3>3. QED
      BY <3>1, <3>2
  <2>2. QED
    BY <1>1, <2>1
<1>3. CASE c \in SubjectCandidates(live)
  <2>1. PICK ids : ids \subseteq ActiveIds(live) /\ c = Candidate(live, ids, "subject")
    BY <1>3 DEF SubjectCandidates
  <2>2. QED
    BY <1>1, <2>1
<1>4. QED
  BY <1>2, <1>3 DEF Candidates

-----------------------------------------------------------------------------
(* Steps that leave the memory alone.                                      *)

ThreadInv(t) == EditsExtend(t) /\ CompactionFits(t)

(* A thread that does nothing in such a step.                              *)
LEMMA OthersKeepInv ==
  ASSUME NEW u \in Threads, ThreadInv(u), UNCHANGED <<live, revision>>,
         pc'[u] = pc[u], turn'[u] = turn[u], trial'[u] = trial[u],
         base'[u] = base[u], job'[u] = job[u]
  PROVE  ThreadInv(u)'
<1>1. EditsExtend(u)'
  BY DEF ThreadInv, EditsExtend
<1>2. CompactionFits(u)'
  BY DEF ThreadInv, CompactionFits
<1>3. QED
  BY <1>1, <1>2 DEF ThreadInv

(* A thread that has nothing of its own.                                   *)
LEMMA DoneKeepsInv ==
  ASSUME NEW u \in Threads, pc'[u] \in {"idle", "check"}
  PROVE  ThreadInv(u)'
BY DEF ThreadInv, EditsExtend, CompactionFits

(* Once a candidate is settled the others are left.                        *)
LEMMA SettleType ==
  ASSUME ServiceTypeOK, NEW t \in Threads, NEW c, NEW result, Settle(t, c, result)
  PROVE  /\ DOMAIN job' = Threads /\ \A u \in Threads : IsJob(job'[u])
         /\ job'[t].queue = job[t].queue \ {c}
         /\ \A u \in Threads \ {t} : job'[u] = job[u]
<1> DEFINE old == job[t]
<1>1. IsJob(old) /\ DOMAIN job = Threads /\ \A u \in Threads : IsJob(job[u])
  BY DEF ServiceTypeOK
<1> DEFINE p == old.applied \/ result = "applied"
           q == old.rejected \/ result = "rejected"
           new == [old EXCEPT !.queue = old.queue \ {c}, !.applied = p, !.rejected = q]
<1>2. job' = [job EXCEPT ![t] = new]
  BY <1>1 DEF Settle, IsJob
<1>3. new.queue = old.queue \ {c} /\ IsJob(new)
  <2>1. p \in BOOLEAN /\ q \in BOOLEAN
    OBVIOUS
  <2> HIDE DEF old, p, q
  <2>2. /\ new \in [queue: {old.queue \ {c}}, active: {old.active}, applied: BOOLEAN,
                    rejected: BOOLEAN]
        /\ new.queue = old.queue \ {c}
    BY <1>1, <2>1 DEF IsJob
  <2> HIDE DEF new
  <2>3. QED
    BY <2>2 DEF IsJob
<1> HIDE DEF new
<1>4. IsJob(job'[t]) /\ job'[t].queue = old.queue \ {c}
  BY <1>1, <1>2, <1>3
<1>5. \A u \in Threads \ {t} : job'[u] = job[u]
  BY <1>1, <1>2
<1>6. DOMAIN job' = Threads
  BY <1>1, <1>2
<1>7. QED
  BY <1>1, <1>4, <1>5, <1>6

(* A thread goes on with its turn or takes the next one.                   *)
LEMMA TakeTurnType ==
  ASSUME ServiceTypeOK, NEW t \in Threads, TakeTurn(t)
  PROVE  /\ turn' \in [Threads -> 0..MaxTurns] /\ turn'[t] \in TurnIds
         /\ pending' \in 1..(MaxTurns + 1)
         /\ \A u \in Threads \ {t} : turn'[u] = turn[u]
<1>1. /\ turn \in [Threads -> 0..MaxTurns] /\ pending \in 1..(MaxTurns + 1)
      /\ MaxTurns \in Nat /\ TurnIds = 1..MaxTurns
  BY ServiceAssumption DEF ServiceTypeOK
<1>2. CASE turn[t] # 0
  BY <1>1, <1>2 DEF TakeTurn
<1>3. CASE turn[t] = 0
  BY <1>1, <1>3 DEF TakeTurn
<1>4. QED
  BY <1>2, <1>3

(* prepare_update: the thread's copy is the memory as it is.               *)
LEMMA PrepareKeepsInv ==
  ASSUME ServiceInv, NEW t \in Threads, Prepare(t)
  PROVE  ServiceInv'
<1>1. ServiceTypeOK /\ Covered /\ \A u \in Threads : ThreadInv(u)
  BY DEF ServiceInv, ThreadInv
<1>2. /\ UNCHANGED <<live, revision, job, recorded>>
      /\ trial' = [trial EXCEPT ![t] = live]
      /\ base' = [base EXCEPT ![t] = revision] /\ pc' = [pc EXCEPT ![t] = "editing"]
  BY DEF Prepare, Become
<1>3. /\ turn' \in [Threads -> 0..MaxTurns] /\ turn'[t] \in TurnIds
      /\ pending' \in 1..(MaxTurns + 1)
      /\ \A u \in Threads \ {t} : turn'[u] = turn[u]
  BY <1>1, TakeTurnType DEF Prepare
<1>4. ServiceTypeOK'
  BY <1>1, <1>2, <1>3 DEF ServiceTypeOK
<1>5. ThreadInv(t)'
  <2>1. /\ pc'[t] = "editing" /\ trial'[t] = live'
        /\ base'[t] = revision' /\ revision' \in Nat /\ IsStore(live') /\ IdsIssued(live')
    BY <1>1, <1>2 DEF ServiceTypeOK
  <2>2. Extends(live', trial'[t])
    BY <2>1, ExtendsReflexive
  <2>3. QED
    BY <1>3, <2>1, <2>2 DEF ThreadInv, EditsExtend, CompactionFits
<1>6. ASSUME NEW u \in Threads \ {t} PROVE ThreadInv(u)'
  <2>1. /\ pc'[u] = pc[u] /\ trial'[u] = trial[u]
        /\ base'[u] = base[u]
    BY <1>1, <1>2 DEF ServiceTypeOK
  <2>2. QED
    BY <1>1, <1>2, <1>3, <2>1, OthersKeepInv
<1>7. Covered'
  BY <1>1, <1>2 DEF Covered
<1>8. QED
  BY <1>4, <1>5, <1>6, <1>7 DEF ServiceInv, ThreadInv

(* The ops of an update are ops.                                           *)
LEMMA UpdaterOpsAreOps ==
  ASSUME NEW t \in Threads, turn[t] \in TurnIds, IsStore(trial[t]), NEW op \in UpdaterOps(t)
  PROVE  op \in Op
<1>1. \A i \in DOMAIN trial[t].entries : i \in Id /\ trial[t].entries[i] \in Entry
  BY DEF IsStore
<1>2. ActiveIds(trial[t]) \subseteq DOMAIN trial[t].entries /\ {turn[t]} \in SUBSET TurnIds
  BY DEF ActiveIds
<1>3. \A i \in DOMAIN trial[t].entries :
        trial[t].entries[i].text \in Texts /\ trial[t].entries[i].prov \in SUBSET TurnIds
  BY <1>1 DEF Entry
<1>4. ASSUME NEW sec \in Sections, NEW x \in Texts PROVE AddOp(sec, x, {turn[t]}) \in Op
  BY <1>2 DEF Op, AddOp
<1> DEFINE Reworded(i, x) == UpdateOp(i, x, {turn[t]}, TRUE)
           Consolidated(i, j) ==
             UpdateOp(i, trial[t].entries[i].text, trial[t].entries[j].prov, TRUE)
<1>5. ASSUME NEW i \in DOMAIN trial[t].entries, NEW x \in Texts
      PROVE  Reworded(i, x) \in Op
  BY <1>1, <1>2 DEF Op, UpdateOp
<1>6. ASSUME NEW i \in ActiveIds(trial[t]), NEW j \in ActiveIds(trial[t])
      PROVE  Consolidated(i, j) \in Op
  BY <1>1, <1>2, <1>3 DEF Op, UpdateOp
<1>7. ASSUME NEW i \in ActiveIds(trial[t]) PROVE SupersedeOp(i) \in Op
  BY <1>1, <1>2 DEF Op, SupersedeOp
<1> HIDE DEF Op
<1> DEFINE adds == {AddOp(sec, x, {turn[t]}) : sec \in Sections, x \in Texts}
           rewordings == {Reworded(i, x) : i \in DOMAIN trial[t].entries, x \in Texts}
           consolidations == {Consolidated(i, j) : i, j \in ActiveIds(trial[t])}
           retirements == {SupersedeOp(i) : i \in ActiveIds(trial[t])}
<1>8. UpdaterOps(t) = adds \cup rewordings \cup consolidations \cup retirements
  BY DEF UpdaterOps
<1> HIDE DEF Reworded, Consolidated
<1>9. adds \subseteq Op
  BY <1>4
<1>10. rewordings \subseteq Op
  BY <1>5
<1>11. consolidations \subseteq Op
  BY <1>6
<1>12. retirements \subseteq Op
  BY <1>7
<1> HIDE DEF adds, rewordings, consolidations, retirements
<1>13. QED
  BY <1>8, <1>9, <1>10, <1>11, <1>12

(* One more op on the trial.                                               *)
LEMMA EditKeepsInv ==
  ASSUME ServiceInv, NEW t \in Threads, NEW op \in UpdaterOps(t), Edit(t, op)
  PROVE  ServiceInv'
<1>1. ServiceTypeOK /\ Covered /\ \A u \in Threads : ThreadInv(u)
  BY DEF ServiceInv, ThreadInv
<1>2. /\ UNCHANGED <<live, revision, pending, turn, pc, base, job, recorded>>
      /\ trial' = [trial EXCEPT ![t] = AfterOp(trial[t], op)]
      /\ pc[t] = "editing"
  BY DEF Edit
<1>3. /\ turn[t] \in TurnIds /\ IsStore(trial[t]) /\ IdsIssued(trial[t])
      /\ base[t] <= revision
      /\ base[t] = revision => Extends(live, trial[t])
  BY <1>1, <1>2 DEF ThreadInv, EditsExtend
<1>4. op \in Op
  BY <1>3, UpdaterOpsAreOps
<1>5. /\ trial'[t] = AfterOp(trial[t], op) /\ DOMAIN trial' = Threads
      /\ \A u \in Threads \ {t} : trial'[u] = trial[u]
  BY <1>1, <1>2 DEF ServiceTypeOK
<1>6. IsStore(trial'[t]) /\ IdsIssued(trial'[t]) /\ Extends(trial[t], trial'[t])
  BY <1>3, <1>4, <1>5, AfterOpType, AfterOpExtends
<1>7. ServiceTypeOK'
  BY <1>1, <1>2, <1>5 DEF ServiceTypeOK
<1>8. ThreadInv(t)'
  <2>1. base[t] = revision => Extends(live, trial'[t])
    BY <1>1, <1>3, <1>6, ExtendsTransitive DEF ServiceTypeOK
  <2>2. QED
    BY <1>2, <1>3, <1>6, <2>1 DEF ThreadInv, EditsExtend, CompactionFits
<1>9. ASSUME NEW u \in Threads \ {t} PROVE ThreadInv(u)'
  BY <1>1, <1>2, <1>5, OthersKeepInv
<1>10. Covered'
  BY <1>1, <1>2 DEF Covered
<1>11. QED
  BY <1>7, <1>8, <1>9, <1>10 DEF ServiceInv, ThreadInv

(* Forget leaves the other threads' copies alone.                          *)
LEMMA ForgetType ==
  ASSUME ServiceTypeOK, NEW t \in Threads, Forget(t)
  PROVE  /\ DOMAIN trial' = Threads
         /\ base' \in [Threads -> Nat]
         /\ \A u \in Threads \ {t} :
              /\ trial'[u] = trial[u] /\ base'[u] = base[u]
BY DEF Forget, ServiceTypeOK

(* Become moves one thread.                                                *)
LEMMA BecomeType ==
  ASSUME ServiceTypeOK, NEW t \in Threads,
         NEW state \in {"idle", "editing", "check", "compacting", "install"},
         Become(t, state)
  PROVE  /\ pc' \in [Threads -> {"idle", "editing", "check", "compacting", "install"}]
         /\ pc'[t] = state /\ \A u \in Threads \ {t} : pc'[u] = pc[u]
BY DEF Become, ServiceTypeOK

(* A turn that stays in the context.                                       *)
LEMMA NotCommittedKeepsInv ==
  ASSUME ServiceInv, NEW t \in Threads, NotCommitted(t)
  PROVE  ServiceInv'
<1>1. ServiceTypeOK /\ Covered /\ \A u \in Threads : ThreadInv(u)
  BY DEF ServiceInv, ThreadInv
<1>2. /\ UNCHANGED <<live, revision, pending, turn, job, recorded>>
      /\ Forget(t) /\ Become(t, "idle")
  BY DEF NotCommitted
<1>3. ServiceTypeOK'
  BY <1>1, <1>2, ForgetType, BecomeType DEF ServiceTypeOK
<1>4. ASSUME NEW u \in Threads PROVE ThreadInv(u)'
  <2>1. CASE u = t
    BY <1>1, <1>2, <2>1, BecomeType, DoneKeepsInv
  <2>2. CASE u # t
    BY <1>1, <1>2, <2>2, ForgetType, BecomeType, OthersKeepInv
  <2>3. QED
    BY <2>1, <2>2
<1>5. QED
  BY <1>1, <1>2, <1>3, <1>4 DEF ServiceInv, ThreadInv, Covered

(* maybe_compact without a compaction, and its start.                      *)
LEMMA CheckKeepsInv ==
  ASSUME ServiceInv, NEW t \in Threads, SkipCompaction(t) \/ StartCompaction(t)
  PROVE  ServiceInv'
<1>1. ServiceTypeOK /\ Covered /\ \A u \in Threads : ThreadInv(u)
  BY DEF ServiceInv, ThreadInv
<1>2. UNCHANGED <<live, revision, pending, turn, trial, base, recorded>>
  BY DEF SkipCompaction, StartCompaction
<1>3. CASE SkipCompaction(t)
  <2>1. Become(t, "idle") /\ UNCHANGED job
    BY <1>3 DEF SkipCompaction
  <2>2. ServiceTypeOK'
    BY <1>1, <1>2, <2>1, BecomeType DEF ServiceTypeOK
  <2>3. ASSUME NEW u \in Threads PROVE ThreadInv(u)'
    <3>1. CASE u = t
      BY <1>1, <2>1, <3>1, BecomeType, DoneKeepsInv
    <3>2. CASE u # t
      BY <1>1, <1>2, <2>1, <3>2, BecomeType, OthersKeepInv
    <3>3. QED
      BY <3>1, <3>2
  <2>4. QED
    BY <1>1, <1>2, <2>2, <2>3 DEF ServiceInv, ThreadInv, Covered
<1>4. CASE StartCompaction(t)
  <2> DEFINE new == [NoJob EXCEPT !.queue = Candidates, !.active = ActiveCount]
  <2>1. /\ Become(t, "compacting") /\ Candidates # {}
        /\ job' = [job EXCEPT ![t] = new]
    BY <1>4 DEF StartCompaction
  <2>2. IsJob(new) /\ new.queue = Candidates
    <3>1. /\ new \in [queue: {Candidates}, active: {ActiveCount}, applied: BOOLEAN,
                      rejected: BOOLEAN]
          /\ new.queue = Candidates
      BY DEF NoJob
    <3> HIDE DEF new
    <3>2. QED
      BY <3>1 DEF IsJob
  <2> HIDE DEF new
  <2>3. /\ DOMAIN job' = Threads /\ job'[t] = new
        /\ \A u \in Threads \ {t} : job'[u] = job[u] /\ IsJob(job[u])
    BY <1>1, <2>1 DEF ServiceTypeOK
  <2>4. ServiceTypeOK'
    <3>1. \A u \in Threads : IsJob(job'[u])
      BY <2>2, <2>3
    <3>2. QED
      BY <1>1, <1>2, <2>1, <2>3, <3>1, BecomeType DEF ServiceTypeOK
  <2>5. CompactorOn
    BY <2>1 DEF Candidates
  <2>6. ThreadInv(t)'
    <3>1. \A c \in Candidates : IsCandidate(c) /\ Fits(c, live)
      BY <1>1, CandidatesFit DEF ServiceTypeOK
    <3>2. pc'[t] = "compacting" /\ job'[t].queue = Candidates /\ live' = live
      BY <1>1, <1>2, <2>1, <2>2, <2>3, BecomeType
    <3>3. \A c \in job'[t].queue : IsCandidate(c) /\ Fits(c, live')
      BY <3>1, <3>2
    <3>4. QED
      BY <2>5, <3>2, <3>3 DEF ThreadInv, EditsExtend, CompactionFits
  <2>7. ASSUME NEW u \in Threads \ {t} PROVE ThreadInv(u)'
    BY <1>1, <1>2, <2>1, <2>3, BecomeType, OthersKeepInv
  <2>8. QED
    BY <1>1, <1>2, <2>4, <2>6, <2>7 DEF ServiceInv, ThreadInv, Covered
<1>5. QED
  BY <1>3, <1>4

-----------------------------------------------------------------------------
(* Steps that change the memory.                                           *)

(* What extends a store keeps the turns it cites.                          *)
LEMMA ExtendsKeepsProvenance ==
  ASSUME NEW s, NEW r, Extends(s, r)
  PROVE  ProvenanceOf(s.entries) \subseteq ProvenanceOf(r.entries)
<1> SUFFICES ASSUME NEW i \in DOMAIN s.entries
             PROVE  s.entries[i].prov \subseteq ProvenanceOf(r.entries)
  BY DEF ProvenanceOf
<1>1. i \in DOMAIN r.entries /\ s.entries[i].prov \subseteq r.entries[i].prov
  BY DEF Extends, Evolves
<1>2. QED
  BY <1>1 DEF ProvenanceOf

(* A thread beside one that commits or installs a compaction: the trial of *)
(* an update is based on an older revision, and compactions run alone.     *)
LEMMA OthersSurviveCommit ==
  ASSUME Alone, ServiceTypeOK, NEW t \in Threads, NEW u \in Threads \ {t}, ThreadInv(u),
         revision' = revision + 1,
         pc'[u] = pc[u], turn'[u] = turn[u], trial'[u] = trial[u],
         base'[u] = base[u], job'[u] = job[u]
  PROVE  ThreadInv(u)'
<1>1. EditsExtend(u)'
  BY DEF ThreadInv, EditsExtend, ServiceTypeOK
<1>2. ~CompactorOn
  BY DEF Alone
<1>3. CompactionFits(u)'
  BY <1>2 DEF ThreadInv, CompactionFits
<1>4. QED
  BY <1>1, <1>3 DEF ThreadInv

(* The turn leaves the context; the committed trial cites it or it never   *)
(* was recorded.                                                           *)
LEMMA CommitKeepsInv ==
  ASSUME Alone, ServiceInv, NEW t \in Threads, Commit(t)
  PROVE  ServiceInv'
<1>1. ServiceTypeOK /\ Covered /\ \A u \in Threads : ThreadInv(u)
  BY DEF ServiceInv, ThreadInv
<1>2. /\ pc[t] = "editing" /\ base[t] = revision
      /\ live' = trial[t] /\ revision' = revision + 1
      /\ recorded' = recorded \cup ({turn[t]} \cap ProvenanceOf(trial[t].entries))
      /\ turn' = [turn EXCEPT ![t] = 0]
      /\ UNCHANGED <<pending, job>>
      /\ Forget(t) /\ Become(t, "check")
  BY DEF Commit, Current, Install
<1>3. IsStore(live') /\ IdsIssued(live') /\ Extends(live, live')
  BY <1>1, <1>2 DEF ThreadInv, EditsExtend
<1>4. ServiceTypeOK'
  <2>1. revision' \in Nat /\ turn' \in [Threads -> 0..MaxTurns]
    BY <1>1, <1>2, ServiceAssumption DEF ServiceTypeOK
  <2>2. QED
    BY <1>1, <1>2, <1>3, <2>1, ForgetType, BecomeType DEF ServiceTypeOK
<1>5. ThreadInv(t)'
  BY <1>1, <1>2, BecomeType, DoneKeepsInv
<1>6. ASSUME NEW u \in Threads \ {t} PROVE ThreadInv(u)'
  <2>1. turn'[u] = turn[u] /\ job'[u] = job[u]
    BY <1>1, <1>2 DEF ServiceTypeOK
  <2>2. pc'[u] = pc[u]
    BY <1>1, <1>2, BecomeType
  <2>3. trial'[u] = trial[u] /\ base'[u] = base[u]
    BY <1>1, <1>2, ForgetType
  <2>4. QED
    BY <1>1, <1>2, <2>1, <2>2, <2>3, OthersSurviveCommit
<1>7. Covered'
  <2>1. ProvenanceOf(live.entries) \subseteq ProvenanceOf(live'.entries)
    BY <1>3, ExtendsKeepsProvenance
  <2>2. QED
    BY <1>1, <1>2, <2>1 DEF Covered
<1>8. QED
  BY <1>4, <1>5, <1>6, <1>7 DEF ServiceInv, ThreadInv

(* A candidate that is turned down.                                        *)
LEMMA RejectKeepsInv ==
  ASSUME ServiceInv, NEW t \in Threads, RejectCandidate(t)
  PROVE  ServiceInv'
<1>1. ServiceTypeOK /\ Covered /\ \A u \in Threads : ThreadInv(u)
  BY DEF ServiceInv, ThreadInv
<1>2. /\ UNCHANGED <<live, revision, pending, turn, pc, trial, base, recorded>>
      /\ pc[t] = "compacting"
  BY DEF RejectCandidate
<1>3. PICK c \in job[t].queue : Settle(t, c, "rejected")
  BY DEF RejectCandidate
<1>4. /\ DOMAIN job' = Threads /\ \A u \in Threads : IsJob(job'[u])
      /\ job'[t].queue = job[t].queue \ {c}
      /\ \A u \in Threads \ {t} : job'[u] = job[u]
  BY <1>1, <1>3, SettleType
<1>5. ServiceTypeOK'
  BY <1>1, <1>2, <1>4 DEF ServiceTypeOK
<1>6. ThreadInv(t)'
  <2>1. CompactorOn /\ \A d \in job'[t].queue : IsCandidate(d) /\ Fits(d, live)
    BY <1>1, <1>2, <1>4 DEF ThreadInv, CompactionFits
  <2>2. QED
    BY <1>2, <2>1 DEF ThreadInv, EditsExtend, CompactionFits
<1>7. ASSUME NEW u \in Threads \ {t} PROVE ThreadInv(u)'
  BY <1>1, <1>2, <1>4, OthersKeepInv
<1>8. QED
  BY <1>1, <1>2, <1>5, <1>6, <1>7 DEF ServiceInv, ThreadInv, Covered

(* The copy of the memory that a compaction will install.                  *)
LEMMA CopyKeepsInv ==
  ASSUME ServiceInv, NEW t \in Threads, CopyAndCompact(t)
  PROVE  ServiceInv'
<1>1. ServiceTypeOK /\ Covered /\ \A u \in Threads : ThreadInv(u)
  BY DEF ServiceInv, ThreadInv
<1>2. /\ UNCHANGED <<live, revision, pending, turn, base, recorded>>
      /\ pc[t] = "compacting" /\ Become(t, "install")
  BY DEF CopyAndCompact
<1>3. PICK c \in job[t].queue, text \in Texts :
        /\ text \in CanonicalTexts(c) /\ Valid(live, c, text)
        /\ trial' = [trial EXCEPT ![t] = Compacted(live, c, text)]
        /\ Settle(t, c, "applied")
  BY DEF CopyAndCompact
<1>4. /\ DOMAIN job' = Threads /\ \A u \in Threads : IsJob(job'[u])
      /\ job'[t].queue = job[t].queue \ {c}
      /\ \A u \in Threads \ {t} : job'[u] = job[u]
  BY <1>1, <1>3, SettleType
<1> DEFINE copy == Compacted(live, c, text)
<1>5. CompactsTo(live, copy)
  <2>1. IsCandidate(c) /\ Fits(c, live)
    BY <1>1, <1>2 DEF ThreadInv, CompactionFits
  <2>2. IsStore(live) /\ IdsIssued(live)
    BY <1>1 DEF ServiceTypeOK
  <2>3. QED
    BY <1>3, <2>1, <2>2, CompactionCompacts
<1> HIDE DEF copy
<1>6. /\ DOMAIN trial' = Threads /\ trial'[t] = copy
      /\ \A u \in Threads \ {t} : trial'[u] = trial[u]
  BY <1>1, <1>3 DEF ServiceTypeOK, copy
<1>7. ServiceTypeOK'
  BY <1>1, <1>2, <1>4, <1>6, BecomeType DEF ServiceTypeOK
<1>8. ThreadInv(t)'
  <2>1. CompactorOn /\ \A d \in job'[t].queue : IsCandidate(d) /\ Fits(d, live)
    BY <1>1, <1>2, <1>4 DEF ThreadInv, CompactionFits
  <2>2. pc'[t] = "install"
    BY <1>1, <1>2, BecomeType
  <2>3. QED
    BY <1>2, <1>5, <1>6, <2>1, <2>2 DEF ThreadInv, EditsExtend, CompactionFits
<1>9. ASSUME NEW u \in Threads \ {t} PROVE ThreadInv(u)'
  <2>1. pc'[u] = pc[u]
    BY <1>1, <1>2, BecomeType
  <2>2. QED
    BY <1>1, <1>2, <1>4, <1>6, <2>1, OthersKeepInv
<1>10. QED
  BY <1>1, <1>2, <1>7, <1>8, <1>9 DEF ServiceInv, ThreadInv, Covered

(* The copy becomes the memory; the rest of the queue still fits.          *)
LEMMA InstallKeepsInv ==
  ASSUME Alone, ServiceInv, NEW t \in Threads, InstallCompaction(t)
  PROVE  ServiceInv'
<1>1. ServiceTypeOK /\ Covered /\ \A u \in Threads : ThreadInv(u)
  BY DEF ServiceInv, ThreadInv
<1>2. /\ UNCHANGED <<revision, pending, turn, job, recorded>>
      /\ pc[t] = "install" /\ live' = trial[t]
      /\ Become(t, "compacting") /\ Forget(t)
  BY DEF InstallCompaction, ReplaceMemory
<1>3. /\ CompactorOn /\ CompactsTo(live, live')
      /\ \A c \in job[t].queue : IsCandidate(c) /\ Fits(c, live)
  BY <1>1, <1>2 DEF ThreadInv, CompactionFits
<1>4. IsStore(live') /\ IdsIssued(live') /\ IsStore(live)
  BY <1>1, <1>3 DEF CompactsTo, ServiceTypeOK
<1>5. ServiceTypeOK'
  BY <1>1, <1>2, <1>4, ForgetType, BecomeType DEF ServiceTypeOK
<1>6. ThreadInv(t)'
  <2>1. \A c \in job[t].queue : IsCandidate(c) /\ Fits(c, live')
    BY <1>3, <1>4, CompactionKeepsFit
  <2>2. pc'[t] = "compacting"
    BY <1>1, <1>2, BecomeType
  <2>3. QED
    BY <1>2, <1>3, <2>1, <2>2 DEF ThreadInv, EditsExtend, CompactionFits
<1>7. \A u \in Threads : u = t
  BY <1>3 DEF Alone
<1>8. Covered'
  BY <1>1, <1>2, <1>3 DEF Covered, CompactsTo
<1>9. QED
  BY <1>5, <1>6, <1>7, <1>8 DEF ServiceInv, ThreadInv

(* The compaction is over.                                                 *)
LEMMA FinishKeepsInv ==
  ASSUME ServiceInv, NEW t \in Threads, FinishCompaction(t)
  PROVE  ServiceInv'
<1>1. ServiceTypeOK /\ Covered /\ \A u \in Threads : ThreadInv(u)
  BY DEF ServiceInv, ThreadInv
<1>2. /\ UNCHANGED <<live, revision, pending, turn, trial, base, recorded>>
      /\ job' = [job EXCEPT ![t] = NoJob] /\ Become(t, "idle")
  BY DEF FinishCompaction
<1>3. /\ DOMAIN job' = Threads /\ \A u \in Threads : IsJob(job'[u])
      /\ \A u \in Threads \ {t} : job'[u] = job[u]
  <2>1. IsJob(NoJob)
    BY DEF IsJob, NoJob
  <2>2. QED
    BY <1>1, <1>2, <2>1 DEF ServiceTypeOK
<1>4. ServiceTypeOK'
  BY <1>1, <1>2, <1>3, BecomeType DEF ServiceTypeOK
<1>5. ASSUME NEW u \in Threads PROVE ThreadInv(u)'
  <2>1. CASE u = t
    BY <1>1, <1>2, <2>1, BecomeType, DoneKeepsInv
  <2>2. CASE u # t
    <3>1. pc'[u] = pc[u]
      BY <1>1, <1>2, <2>2, BecomeType
    <3>2. QED
      BY <1>1, <1>2, <1>3, <2>2, <3>1, OthersKeepInv
  <2>3. QED
    BY <2>1, <2>2
<1>6. QED
  BY <1>1, <1>2, <1>4, <1>5 DEF ServiceInv, ThreadInv, Covered

-----------------------------------------------------------------------------
(* The invariant.                                                          *)

(* A service starts with an empty memory.                                  *)
LEMMA InitService == Init => ServiceInv
<1> SUFFICES ASSUME Init PROVE ServiceInv
  OBVIOUS
<1>1. IsStore(EmptyStore) /\ IdsIssued(EmptyStore)
  <2>1. EmptyStore.entries \in [{} -> Entry]
    BY DEF EmptyStore
  <2>2. QED
    BY <2>1, NarrativeAssumption DEF EmptyStore, IsStore, IdsIssued
<1>2. IsJob(NoJob)
  BY DEF IsJob, NoJob
<1>3. ServiceTypeOK
  BY <1>1, <1>2, ServiceAssumption DEF Init, ServiceTypeOK
<1>4. \A t \in Threads : EditsExtend(t) /\ CompactionFits(t)
  BY DEF Init, EditsExtend, CompactionFits
<1>5. Covered
  BY DEF Init, Covered
<1>6. QED
  BY <1>3, <1>4, <1>5 DEF ServiceInv

(* Every step of the service keeps the invariant.                          *)
LEMMA NextService ==
  ASSUME Alone, ServiceInv, [Next]_vars
  PROVE  ServiceInv'
<1>1. CASE UNCHANGED vars
  BY <1>1 DEF vars, ServiceInv, ServiceTypeOK, EditsExtend, CompactionFits, Covered
<1>2. ASSUME NEW t \in Threads, Prepare(t) \/ NotCommitted(t) \/ Commit(t)
      PROVE  ServiceInv'
  BY <1>2, PrepareKeepsInv, NotCommittedKeepsInv, CommitKeepsInv
<1>3. ASSUME NEW t \in Threads, NEW op \in UpdaterOps(t), Edit(t, op)
      PROVE  ServiceInv'
  BY <1>3, EditKeepsInv
<1>4. ASSUME NEW t \in Threads,
             SkipCompaction(t) \/ StartCompaction(t) \/ RejectCandidate(t)
      PROVE  ServiceInv'
  BY <1>4, CheckKeepsInv, RejectKeepsInv
<1>5. ASSUME NEW t \in Threads,
             CopyAndCompact(t) \/ InstallCompaction(t) \/ FinishCompaction(t)
      PROVE  ServiceInv'
  BY <1>5, CopyKeepsInv, InstallKeepsInv, FinishKeepsInv
<1>6. QED
  BY <1>1, <1>2, <1>3, <1>4, <1>5 DEF Next

(* While compactions run alone, a trial that would pass the revision check *)
(* extends the memory, a compaction's copy keeps all it must keep, and no  *)
(* recorded turn is lost.                                                  *)
THEOREM ServiceInvariant ==
  ASSUME Alone
  PROVE  Spec => []ServiceInv
<1>1. ServiceInv /\ [Next]_vars => ServiceInv'
  BY NextService
<1>2. QED
  BY <1>1, InitService, PTL DEF Spec

(* A turn that an update recorded and that left the conversation is still  *)
(* cited after every later update and compaction.                          *)
THEOREM RecordedTurnsStayCovered ==
  ASSUME Alone
  PROVE  Spec => []RecordedTurnsCovered
<1>1. ServiceInv => RecordedTurnsCovered
  BY DEF ServiceInv, Covered, RecordedTurnsCovered
<1>2. QED
  BY <1>1, ServiceInvariant, PTL

-----------------------------------------------------------------------------
(* What a step may do to the memory.                                       *)

(* Only a commit and a compaction change it, and each in its own way.      *)
LEMMA LiveSteps ==
  ASSUME ServiceInv, [Next]_vars
  PROVE  \/ UNCHANGED live
         \/ Extends(live, live') /\ IdsIssued(live')
         \/ CompactorOn /\ CompactsTo(live, live')
<1>1. \A t \in Threads : ThreadInv(t)
  BY DEF ServiceInv, ThreadInv
<1>2. CASE UNCHANGED vars
  BY <1>2 DEF vars
<1>3. ASSUME NEW t \in Threads,
             \/ Prepare(t) \/ NotCommitted(t) \/ SkipCompaction(t) \/ StartCompaction(t)
             \/ RejectCandidate(t) \/ CopyAndCompact(t) \/ FinishCompaction(t)
             \/ \E op \in UpdaterOps(t) : Edit(t, op)
      PROVE  UNCHANGED live
  BY <1>3 DEF Prepare, NotCommitted, SkipCompaction, StartCompaction, RejectCandidate,
              CopyAndCompact, FinishCompaction, Edit
<1>4. ASSUME NEW t \in Threads, Commit(t)
      PROVE  Extends(live, live') /\ IdsIssued(live')
  BY <1>1, <1>4 DEF Commit, Current, Install, ThreadInv, EditsExtend
<1>5. ASSUME NEW t \in Threads, InstallCompaction(t)
      PROVE  CompactorOn /\ CompactsTo(live, live')
  BY <1>1, <1>5 DEF InstallCompaction, ReplaceMemory, ThreadInv, CompactionFits
<1>6. QED
  BY <1>2, <1>3, <1>4, <1>5 DEF Next

(* A superseded entry is history: no update and no compaction rewrites or  *)
(* drops it, not even a rollup, which drops the entries it summarises.     *)
THEOREM HistoryStaysFinal ==
  ASSUME Alone
  PROVE  Spec => HistoryIsFinal
<1>1. ASSUME ServiceInv, [Next]_vars, NEW i \in DOMAIN live.entries \ ActiveIds(live)
      PROVE  Holds(live', i) /\ live'.entries[i] = live.entries[i]
  <2>1. CASE UNCHANGED live
    BY <2>1 DEF Holds
  <2>2. CASE Extends(live, live')
    <3>1. live.entries[i].status # "active"
      BY DEF ActiveIds
    <3>2. QED
      BY <2>2, <3>1 DEF Extends, Evolves, Holds
  <2>3. CASE CompactsTo(live, live')
    BY <2>3 DEF CompactsTo
  <2>4. QED
    BY <1>1, <2>1, <2>2, <2>3, LiveSteps
<1>2. ServiceInv /\ [Next]_vars
      => [\A i \in DOMAIN live.entries \ ActiveIds(live) :
            Holds(live', i) /\ live'.entries[i] = live.entries[i]]_vars
  BY <1>1
<1>3. QED
  BY <1>2, ServiceInvariant, PTL DEF Spec, HistoryIsFinal

(* No update and no compaction lets a counter fall behind, or brings a     *)
(* dropped id back as another entry.                                       *)
THEOREM IdsAreNeverReissued ==
  ASSUME Alone
  PROVE  Spec => IdsNeverReissued
<1>1. ASSUME ServiceInv, [Next]_vars
      PROVE  /\ IdsIssued(live')
             /\ \A i \in DOMAIN live'.entries \ DOMAIN live.entries :
                  Number(i) > live.counters[SectionOf(i)]
  <2>1. CASE UNCHANGED live
    BY <1>1, <2>1 DEF ServiceInv, ServiceTypeOK, IdsIssued
  <2>2. CASE Extends(live, live') /\ IdsIssued(live')
    BY <2>2 DEF Extends
  <2>3. CASE CompactsTo(live, live')
    BY <2>3 DEF CompactsTo
  <2>4. QED
    BY <1>1, <2>1, <2>2, <2>3, LiveSteps
<1>2. ServiceInv /\ [Next]_vars
      => [/\ IdsIssued(live')
          /\ \A i \in DOMAIN live'.entries \ DOMAIN live.entries :
               Number(i) > live.counters[SectionOf(i)]]_vars
  BY <1>1
<1>3. QED
  BY <1>2, ServiceInvariant, PTL DEF Spec, IdsNeverReissued

(* What one installation does to the text of a subject.                    *)
InstallsLatestValue ==
  \A t \in Threads : InstallCompaction(t) => KeepsLatestValue(live, live')

(* The entry that stands for a subject after deterministic compaction says *)
(* what the source of the latest turn said.                                *)
THEOREM CompactionKeepsLatest ==
  ASSUME Alone
  PROVE  Spec => CompactionKeepsLatestValue
<1>1. ServiceInv => InstallsLatestValue
  <2> SUFFICES ASSUME ServiceInv, NEW t \in Threads, InstallCompaction(t)
               PROVE  KeepsLatestValue(live, live')
    BY DEF InstallsLatestValue
  <2>1. CompactsTo(live, live')
    BY DEF InstallCompaction, ReplaceMemory, ServiceInv, CompactionFits
  <2>2. QED
    BY <2>1 DEF CompactsTo
<1>2. ServiceInv /\ [Next]_vars => [InstallsLatestValue]_vars
  BY <1>1
<1>3. Spec => [][InstallsLatestValue]_vars
  BY <1>2, ServiceInvariant, PTL DEF Spec
<1>4. QED
  BY <1>3 DEF InstallsLatestValue, KeepsLatestValue, CompactionKeepsLatestValue

-----------------------------------------------------------------------------
(* Threads that compact beside others.                                     *)

(* The recorded turns that no race can have lost.                          *)
Safe == recorded \ raced

(* A trial whose revision check would pass cites the safe turns, though a  *)
(* compaction may have changed the memory since; so does the copy that a   *)
(* compaction will install.                                                *)
EditsKeepSafe(t) ==
  pc[t] = "editing" =>
    /\ turn[t] \in TurnIds
    /\ IsStore(trial[t]) /\ IdsIssued(trial[t])
    /\ base[t] <= revision
    /\ base[t] = revision => Safe \subseteq ProvenanceOf(trial[t].entries)

CompactionKeepsSafe(t) ==
  /\ pc[t] \in {"compacting", "install"} => \A c \in job[t].queue : IsCandidate(c)
  /\ pc[t] = "install" =>
       /\ IsStore(trial[t]) /\ IdsIssued(trial[t])
       /\ Safe \subseteq ProvenanceOf(trial[t].entries)

KeepsSafe(t) == EditsKeepSafe(t) /\ CompactionKeepsSafe(t)

RaceInv ==
  /\ ServiceTypeOK
  /\ \A t \in Threads : KeepsSafe(t)
  /\ OnlyRacesLoseTurns

(* A thread that does nothing while no update is committed.                *)
LEMMA OthersKeepSafe ==
  ASSUME NEW u \in Threads, KeepsSafe(u), UNCHANGED <<revision, recorded, raced>>,
         pc'[u] = pc[u], turn'[u] = turn[u], trial'[u] = trial[u],
         base'[u] = base[u], job'[u] = job[u]
  PROVE  KeepsSafe(u)'
<1>1. Safe' = Safe
  BY DEF Safe
<1>2. EditsKeepSafe(u)'
  BY <1>1 DEF KeepsSafe, EditsKeepSafe
<1>3. CompactionKeepsSafe(u)'
  BY <1>1 DEF KeepsSafe, CompactionKeepsSafe
<1>4. QED
  BY <1>2, <1>3 DEF KeepsSafe

(* A thread that has nothing of its own.                                   *)
LEMMA DoneKeepsSafe ==
  ASSUME NEW u \in Threads, pc'[u] \in {"idle", "check"}
  PROVE  KeepsSafe(u)'
BY DEF KeepsSafe, EditsKeepSafe, CompactionKeepsSafe

(* prepare_update copies a memory that cites the safe turns.               *)
LEMMA PrepareKeepsSafe ==
  ASSUME RaceInv, NEW t \in Threads, Prepare(t)
  PROVE  RaceInv'
<1>1. ServiceTypeOK /\ OnlyRacesLoseTurns /\ \A u \in Threads : KeepsSafe(u)
  BY DEF RaceInv
<1>2. /\ UNCHANGED <<live, revision, job, recorded, raced>>
      /\ trial' = [trial EXCEPT ![t] = live]
      /\ base' = [base EXCEPT ![t] = revision] /\ pc' = [pc EXCEPT ![t] = "editing"]
  BY DEF Prepare, Become
<1>3. /\ turn' \in [Threads -> 0..MaxTurns] /\ turn'[t] \in TurnIds
      /\ pending' \in 1..(MaxTurns + 1)
      /\ \A u \in Threads \ {t} : turn'[u] = turn[u]
  BY <1>1, TakeTurnType DEF Prepare
<1>4. ServiceTypeOK'
  BY <1>1, <1>2, <1>3 DEF ServiceTypeOK
<1>5. KeepsSafe(t)'
  <2>1. /\ pc'[t] = "editing" /\ trial'[t] = live /\ base'[t] = revision'
        /\ revision' \in Nat /\ IsStore(live) /\ IdsIssued(live)
    BY <1>1, <1>2 DEF ServiceTypeOK
  <2>2. Safe' \subseteq ProvenanceOf(live.entries)
    BY <1>1, <1>2 DEF Safe, OnlyRacesLoseTurns
  <2>3. QED
    BY <1>3, <2>1, <2>2 DEF KeepsSafe, EditsKeepSafe, CompactionKeepsSafe
<1>6. ASSUME NEW u \in Threads \ {t} PROVE KeepsSafe(u)'
  <2>1. pc'[u] = pc[u] /\ trial'[u] = trial[u] /\ base'[u] = base[u]
    BY <1>1, <1>2 DEF ServiceTypeOK
  <2>2. QED
    BY <1>1, <1>2, <1>3, <2>1, OthersKeepSafe
<1>7. OnlyRacesLoseTurns'
  BY <1>1, <1>2 DEF OnlyRacesLoseTurns
<1>8. QED
  BY <1>4, <1>5, <1>6, <1>7 DEF RaceInv

(* One more op on the trial loses none of what it cites.                   *)
LEMMA EditKeepsSafe ==
  ASSUME RaceInv, NEW t \in Threads, NEW op \in UpdaterOps(t), Edit(t, op)
  PROVE  RaceInv'
<1>1. ServiceTypeOK /\ OnlyRacesLoseTurns /\ \A u \in Threads : KeepsSafe(u)
  BY DEF RaceInv
<1>2. /\ UNCHANGED <<live, revision, pending, turn, pc, base, job, recorded, raced>>
      /\ trial' = [trial EXCEPT ![t] = AfterOp(trial[t], op)]
      /\ pc[t] = "editing"
  BY DEF Edit
<1>3. /\ turn[t] \in TurnIds /\ IsStore(trial[t]) /\ IdsIssued(trial[t])
      /\ base[t] <= revision
      /\ base[t] = revision => Safe \subseteq ProvenanceOf(trial[t].entries)
  BY <1>1, <1>2 DEF KeepsSafe, EditsKeepSafe
<1>4. /\ trial'[t] = AfterOp(trial[t], op) /\ DOMAIN trial' = Threads
      /\ \A u \in Threads \ {t} : trial'[u] = trial[u]
  BY <1>1, <1>2 DEF ServiceTypeOK
<1>5. IsStore(trial'[t]) /\ IdsIssued(trial'[t]) /\ Extends(trial[t], trial'[t])
  <2>1. op \in Op
    BY <1>3, UpdaterOpsAreOps
  <2>2. QED
    BY <1>3, <1>4, <2>1, AfterOpType, AfterOpExtends
<1>6. ServiceTypeOK'
  BY <1>1, <1>2, <1>4 DEF ServiceTypeOK
<1>7. KeepsSafe(t)'
  <2>1. ProvenanceOf(trial[t].entries) \subseteq ProvenanceOf(trial'[t].entries)
    BY <1>5, ExtendsKeepsProvenance
  <2>2. base[t] = revision => Safe' \subseteq ProvenanceOf(trial'[t].entries)
    BY <1>2, <1>3, <2>1 DEF Safe
  <2>3. QED
    BY <1>2, <1>3, <1>5, <2>2 DEF KeepsSafe, EditsKeepSafe, CompactionKeepsSafe
<1>8. ASSUME NEW u \in Threads \ {t} PROVE KeepsSafe(u)'
  BY <1>1, <1>2, <1>4, OthersKeepSafe
<1>9. OnlyRacesLoseTurns'
  BY <1>1, <1>2 DEF OnlyRacesLoseTurns
<1>10. QED
  BY <1>6, <1>7, <1>8, <1>9 DEF RaceInv

(* A turn that stays in the context.                                       *)
LEMMA NotCommittedKeepsSafe ==
  ASSUME RaceInv, NEW t \in Threads, NotCommitted(t)
  PROVE  RaceInv'
<1>1. ServiceTypeOK /\ OnlyRacesLoseTurns /\ \A u \in Threads : KeepsSafe(u)
  BY DEF RaceInv
<1>2. /\ UNCHANGED <<live, revision, pending, turn, job, recorded, raced>>
      /\ Forget(t) /\ Become(t, "idle")
  BY DEF NotCommitted
<1>3. ServiceTypeOK'
  BY <1>1, <1>2, ForgetType, BecomeType DEF ServiceTypeOK
<1>4. ASSUME NEW u \in Threads PROVE KeepsSafe(u)'
  <2>1. CASE u = t
    BY <1>1, <1>2, <2>1, BecomeType, DoneKeepsSafe
  <2>2. CASE u # t
    BY <1>1, <1>2, <2>2, ForgetType, BecomeType, OthersKeepSafe
  <2>3. QED
    BY <2>1, <2>2
<1>5. QED
  BY <1>1, <1>2, <1>3, <1>4 DEF RaceInv, OnlyRacesLoseTurns

(* A committed trial cites the safe turns and its own, and while another   *)
(* thread has a copy its own turn is not a safe one.                       *)
LEMMA CommitKeepsSafe ==
  ASSUME RaceInv, NEW t \in Threads, Commit(t)
  PROVE  RaceInv'
<1>1. ServiceTypeOK /\ \A u \in Threads : KeepsSafe(u)
  BY DEF RaceInv
<1>2. /\ pc[t] = "editing" /\ base[t] = revision
      /\ live' = trial[t] /\ revision' = revision + 1
      /\ recorded' = recorded \cup ({turn[t]} \cap ProvenanceOf(trial[t].entries))
      /\ raced' = IF \E u \in Threads : pc[u] = "install" THEN raced \cup {turn[t]}
                                                          ELSE raced
      /\ turn' = [turn EXCEPT ![t] = 0]
      /\ UNCHANGED <<pending, job>>
      /\ Forget(t) /\ Become(t, "check")
  BY DEF Commit, Current, Install
<1>3. /\ IsStore(trial[t]) /\ IdsIssued(trial[t])
      /\ Safe \subseteq ProvenanceOf(trial[t].entries)
  BY <1>1, <1>2 DEF KeepsSafe, EditsKeepSafe
<1>4. ServiceTypeOK'
  <2>1. revision' \in Nat /\ turn' \in [Threads -> 0..MaxTurns]
    BY <1>1, <1>2, ServiceAssumption DEF ServiceTypeOK
  <2>2. QED
    BY <1>1, <1>2, <1>3, <2>1, ForgetType, BecomeType DEF ServiceTypeOK
<1>5. /\ Safe' \subseteq Safe \cup ({turn[t]} \cap ProvenanceOf(trial[t].entries))
      /\ (\E u \in Threads : pc[u] = "install") => Safe' \subseteq Safe
  BY <1>2 DEF Safe
<1>6. ASSUME NEW u \in Threads PROVE KeepsSafe(u)'
  <2>1. CASE u = t
    BY <1>1, <1>2, <2>1, BecomeType, DoneKeepsSafe
  <2>2. CASE u # t
    <3>1. /\ pc'[u] = pc[u] /\ turn'[u] = turn[u] /\ trial'[u] = trial[u]
          /\ base'[u] = base[u] /\ job'[u] = job[u]
      BY <1>1, <1>2, <2>2, ForgetType, BecomeType DEF ServiceTypeOK
    <3>2. EditsKeepSafe(u)'
      <4>1. base[u] \in Nat /\ revision \in Nat /\ EditsKeepSafe(u)
        BY <1>1 DEF ServiceTypeOK, KeepsSafe
      <4>2. QED
        BY <1>2, <3>1, <4>1 DEF EditsKeepSafe
    <3>3. CompactionKeepsSafe(u)'
      BY <1>1, <1>5, <3>1 DEF KeepsSafe, CompactionKeepsSafe
    <3>4. QED
      BY <3>2, <3>3 DEF KeepsSafe
  <2>3. QED
    BY <2>1, <2>2
<1>7. OnlyRacesLoseTurns'
  BY <1>2, <1>3, <1>5 DEF OnlyRacesLoseTurns, Safe
<1>8. QED
  BY <1>4, <1>6, <1>7 DEF RaceInv

(* maybe_compact without a compaction, its start, a candidate that is      *)
(* turned down and the end of the compaction.                              *)
LEMMA CheckKeepsSafe ==
  ASSUME RaceInv, NEW t \in Threads,
         \/ SkipCompaction(t) \/ StartCompaction(t) \/ RejectCandidate(t)
         \/ FinishCompaction(t)
  PROVE  RaceInv'
<1>1. ServiceTypeOK /\ OnlyRacesLoseTurns /\ \A u \in Threads : KeepsSafe(u)
  BY DEF RaceInv
<1>2. UNCHANGED <<live, revision, pending, turn, trial, base, recorded, raced>>
  BY DEF SkipCompaction, StartCompaction, RejectCandidate, FinishCompaction
<1>3. SUFFICES
        /\ DOMAIN job' = Threads /\ \A u \in Threads : IsJob(job'[u])
        /\ \A u \in Threads \ {t} : job'[u] = job[u]
        /\ \A u \in Threads \ {t} : pc'[u] = pc[u]
        /\ pc' \in [Threads -> {"idle", "editing", "check", "compacting", "install"}]
        /\ \/ pc'[t] = "idle"
           \/ pc'[t] = "compacting" /\ \A c \in job'[t].queue : IsCandidate(c)
  <2>1. ASSUME NEW u \in Threads,
               \/ pc'[u] = "idle"
               \/ pc'[u] = "compacting" /\ \A c \in job'[u].queue : IsCandidate(c)
        PROVE  KeepsSafe(u)'
    BY <2>1 DEF KeepsSafe, EditsKeepSafe, CompactionKeepsSafe
  <2>2. ASSUME NEW u \in Threads \ {t} PROVE KeepsSafe(u)'
    BY <1>1, <1>2, <1>3, OthersKeepSafe
  <2>3. ServiceTypeOK'
    BY <1>1, <1>2, <1>3 DEF ServiceTypeOK
  <2>4. OnlyRacesLoseTurns'
    BY <1>1, <1>2 DEF OnlyRacesLoseTurns
  <2>5. QED
    BY <1>3, <2>1, <2>2, <2>3, <2>4 DEF RaceInv
<1>4. CASE SkipCompaction(t)
  <2>1. Become(t, "idle") /\ UNCHANGED job
    BY <1>4 DEF SkipCompaction
  <2>2. QED
    BY <1>1, <2>1, BecomeType DEF ServiceTypeOK
<1>5. CASE StartCompaction(t)
  <2> DEFINE new == [NoJob EXCEPT !.queue = Candidates, !.active = ActiveCount]
  <2>1. Become(t, "compacting") /\ job' = [job EXCEPT ![t] = new]
    BY <1>5 DEF StartCompaction
  <2>2. IsJob(new) /\ new.queue = Candidates
    <3>1. /\ new \in [queue: {Candidates}, active: {ActiveCount}, applied: BOOLEAN,
                      rejected: BOOLEAN]
          /\ new.queue = Candidates
      BY DEF NoJob
    <3> HIDE DEF new
    <3>2. QED
      BY <3>1 DEF IsJob
  <2>3. \A c \in Candidates : IsCandidate(c)
    BY <1>1, CandidatesFit DEF ServiceTypeOK
  <2> HIDE DEF new
  <2>4. /\ DOMAIN job' = Threads /\ job'[t] = new
        /\ \A u \in Threads \ {t} : job'[u] = job[u] /\ IsJob(job[u])
    BY <1>1, <2>1 DEF ServiceTypeOK
  <2>5. pc'[t] = "compacting" /\ \A c \in job'[t].queue : IsCandidate(c)
    BY <1>1, <2>1, <2>2, <2>3, <2>4, BecomeType
  <2>6. \A u \in Threads : IsJob(job'[u])
    BY <2>2, <2>4
  <2>7. QED
    BY <1>1, <2>1, <2>4, <2>5, <2>6, BecomeType
<1>6. CASE RejectCandidate(t)
  <2>1. pc[t] = "compacting" /\ UNCHANGED pc
    BY <1>6 DEF RejectCandidate
  <2>2. PICK c \in job[t].queue : Settle(t, c, "rejected")
    BY <1>6 DEF RejectCandidate
  <2>3. /\ DOMAIN job' = Threads /\ \A u \in Threads : IsJob(job'[u])
        /\ job'[t].queue = job[t].queue \ {c}
        /\ \A u \in Threads \ {t} : job'[u] = job[u]
    BY <1>1, <2>2, SettleType
  <2>4. \A d \in job'[t].queue : IsCandidate(d)
    BY <1>1, <2>1, <2>3 DEF KeepsSafe, CompactionKeepsSafe
  <2>5. QED
    BY <1>1, <2>1, <2>3, <2>4 DEF ServiceTypeOK
<1>7. CASE FinishCompaction(t)
  <2>1. job' = [job EXCEPT ![t] = NoJob] /\ Become(t, "idle")
    BY <1>7 DEF FinishCompaction
  <2>2. IsJob(NoJob)
    BY DEF IsJob, NoJob
  <2>3. /\ DOMAIN job' = Threads /\ \A u \in Threads : IsJob(job'[u])
        /\ \A u \in Threads \ {t} : job'[u] = job[u]
    BY <1>1, <2>1, <2>2 DEF ServiceTypeOK
  <2>4. QED
    BY <1>1, <2>1, <2>3, BecomeType
<1>8. QED
  BY <1>4, <1>5, <1>6, <1>7

(* The copy cites what the memory cites, whether or not the candidate is   *)
(* still what it was when it was detected.                                 *)
LEMMA CopyKeepsSafe ==
  ASSUME RaceInv, NEW t \in Threads, CopyAndCompact(t)
  PROVE  RaceInv'
<1>1. ServiceTypeOK /\ OnlyRacesLoseTurns /\ \A u \in Threads : KeepsSafe(u)
  BY DEF RaceInv
<1>2. /\ UNCHANGED <<live, revision, pending, turn, base, recorded, raced>>
      /\ pc[t] = "compacting" /\ Become(t, "install")
  BY DEF CopyAndCompact
<1>3. PICK c \in job[t].queue, text \in Texts :
        /\ Valid(live, c, text)
        /\ trial' = [trial EXCEPT ![t] = Compacted(live, c, text)]
        /\ Settle(t, c, "applied")
  BY DEF CopyAndCompact
<1>4. /\ DOMAIN job' = Threads /\ \A u \in Threads : IsJob(job'[u])
      /\ job'[t].queue = job[t].queue \ {c}
      /\ \A u \in Threads \ {t} : job'[u] = job[u]
  BY <1>1, <1>3, SettleType
<1> DEFINE copy == Compacted(live, c, text)
<1>5. /\ IsStore(copy) /\ IdsIssued(copy)
      /\ ProvenanceOf(live.entries) \subseteq ProvenanceOf(copy.entries)
  <2>1. IsCandidate(c)
    BY <1>1, <1>2 DEF KeepsSafe, CompactionKeepsSafe
  <2>2. IsStore(live) /\ IdsIssued(live)
    BY <1>1 DEF ServiceTypeOK
  <2>3. QED
    BY <1>3, <2>1, <2>2, CompactionKeepsProvenance
<1> HIDE DEF copy
<1>6. /\ DOMAIN trial' = Threads /\ trial'[t] = copy
      /\ \A u \in Threads \ {t} : trial'[u] = trial[u]
  BY <1>1, <1>3 DEF ServiceTypeOK, copy
<1>7. ServiceTypeOK'
  BY <1>1, <1>2, <1>4, <1>6, BecomeType DEF ServiceTypeOK
<1>8. KeepsSafe(t)'
  <2>1. \A d \in job'[t].queue : IsCandidate(d)
    BY <1>1, <1>2, <1>4 DEF KeepsSafe, CompactionKeepsSafe
  <2>2. pc'[t] = "install"
    BY <1>1, <1>2, BecomeType
  <2>3. Safe' \subseteq ProvenanceOf(copy.entries)
    BY <1>1, <1>2, <1>5 DEF Safe, OnlyRacesLoseTurns
  <2>4. QED
    BY <1>5, <1>6, <2>1, <2>2, <2>3 DEF KeepsSafe, EditsKeepSafe, CompactionKeepsSafe
<1>9. ASSUME NEW u \in Threads \ {t} PROVE KeepsSafe(u)'
  <2>1. pc'[u] = pc[u]
    BY <1>1, <1>2, BecomeType
  <2>2. QED
    BY <1>1, <1>2, <1>4, <1>6, <2>1, OthersKeepSafe
<1>10. QED
  BY <1>1, <1>2, <1>7, <1>8, <1>9 DEF RaceInv, OnlyRacesLoseTurns

(* An unchecked install brings the safe turns back with it.                *)
LEMMA InstallKeepsSafe ==
  ASSUME RaceInv, NEW t \in Threads, InstallCompaction(t)
  PROVE  RaceInv'
<1>1. ServiceTypeOK /\ \A u \in Threads : KeepsSafe(u)
  BY DEF RaceInv
<1>2. /\ UNCHANGED <<revision, pending, turn, job, recorded, raced>>
      /\ pc[t] = "install" /\ live' = trial[t]
      /\ Become(t, "compacting") /\ Forget(t)
  BY DEF InstallCompaction, ReplaceMemory
<1>3. /\ IsStore(trial[t]) /\ IdsIssued(trial[t])
      /\ Safe \subseteq ProvenanceOf(trial[t].entries)
      /\ \A c \in job[t].queue : IsCandidate(c)
  BY <1>1, <1>2 DEF KeepsSafe, CompactionKeepsSafe
<1>4. ServiceTypeOK'
  BY <1>1, <1>2, <1>3, ForgetType, BecomeType DEF ServiceTypeOK
<1>5. ASSUME NEW u \in Threads PROVE KeepsSafe(u)'
  <2>1. CASE u = t
    <3>1. pc'[u] = "compacting"
      BY <1>1, <1>2, <2>1, BecomeType
    <3>2. QED
      BY <1>2, <1>3, <2>1, <3>1 DEF KeepsSafe, EditsKeepSafe, CompactionKeepsSafe
  <2>2. CASE u # t
    BY <1>1, <1>2, <2>2, ForgetType, BecomeType, OthersKeepSafe
  <2>3. QED
    BY <2>1, <2>2
<1>6. OnlyRacesLoseTurns'
  BY <1>2, <1>3 DEF OnlyRacesLoseTurns, Safe
<1>7. QED
  BY <1>4, <1>5, <1>6 DEF RaceInv

(* Whatever threads update and compact at the same time, a recorded turn   *)
(* can be lost only if its commit fell between the copy and the install of *)
(* another thread's compaction.                                            *)
THEOREM OnlyRacesAreLost == Spec => []OnlyRacesLoseTurns
<1>1. Init => RaceInv
  <2> SUFFICES ASSUME Init PROVE RaceInv
    OBVIOUS
  <2>1. ServiceTypeOK
    BY InitService DEF ServiceInv
  <2>2. \A t \in Threads : KeepsSafe(t)
    BY DEF Init, KeepsSafe, EditsKeepSafe, CompactionKeepsSafe
  <2>3. OnlyRacesLoseTurns
    BY DEF Init, OnlyRacesLoseTurns
  <2>4. QED
    BY <2>1, <2>2, <2>3 DEF RaceInv
<1>2. RaceInv /\ [Next]_vars => RaceInv'
  <2> SUFFICES ASSUME RaceInv, [Next]_vars PROVE RaceInv'
    OBVIOUS
  <2>1. CASE UNCHANGED vars
    BY <2>1 DEF vars, RaceInv, ServiceTypeOK, KeepsSafe, EditsKeepSafe, CompactionKeepsSafe,
                Safe, OnlyRacesLoseTurns
  <2>2. ASSUME NEW t \in Threads, Prepare(t) \/ NotCommitted(t) \/ Commit(t)
        PROVE  RaceInv'
    BY <2>2, PrepareKeepsSafe, NotCommittedKeepsSafe, CommitKeepsSafe
  <2>3. ASSUME NEW t \in Threads, NEW op \in UpdaterOps(t), Edit(t, op)
        PROVE  RaceInv'
    BY <2>3, EditKeepsSafe
  <2>4. ASSUME NEW t \in Threads,
               \/ SkipCompaction(t) \/ StartCompaction(t) \/ RejectCandidate(t)
               \/ FinishCompaction(t)
        PROVE  RaceInv'
    BY <2>4, CheckKeepsSafe
  <2>5. ASSUME NEW t \in Threads, CopyAndCompact(t) \/ InstallCompaction(t)
        PROVE  RaceInv'
    BY <2>5, CopyKeepsSafe, InstallKeepsSafe
  <2>6. QED
    BY <2>1, <2>2, <2>3, <2>4, <2>5 DEF Next
<1>3. RaceInv => OnlyRacesLoseTurns
  BY DEF RaceInv
<1>4. QED
  BY <1>1, <1>2, <1>3, PTL DEF Spec
=============================================================================
