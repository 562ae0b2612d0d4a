-------------------------- MODULE MemoryStoreProofs --------------------------
(***************************************************************************)
(* Theorems about MemoryStore, for every number of threads, sections,      *)
(* texts and turns.  The inductive invariant is IInv.  The heart of its    *)
(* first part, Core, is that a trial whose revision check would pass       *)
(* extends the live memory, which is why installing it deletes nothing;    *)
(* the second, ReaderOK, is what a to_state half done knows of the memory. *)
(***************************************************************************)
EXTENDS MemoryStore, MemoryOpsProofs

(* A batch or an installation under the lock has already changed live, but *)
(* not the revision.                                                       *)
MidBatch == \E u \in Threads : \/ pc[u] = "applying" /\ applied[u]
                              \/ pc[u] \in Installing

Locking ==
  \A t \in Threads :
    lock = t <=> pc[t] \in {"applying", "atomic"} \cup Installing

BaseNotAhead == \A t \in Threads : pc[t] = "open" => base[t] <= revision

(* The trial of t is about to replace live, or would if it committed now.  *)
Current(t) == \/ pc[t] = "atomic"
              \/ pc[t] = "open" /\ base[t] = revision /\ ~MidBatch

TrialsExtend == \A t \in Threads : Current(t) => Extends(live, trial[t])

(* The entries come first of the three assignments.                        *)
EntriesInstalled ==
  \A t \in Threads : pc[t] \in Installing => live.entries = trial[t].entries

Core ==
  /\ TypeOK
  /\ IdsFresh
  /\ Locking
  /\ BaseNotAhead
  /\ TrialsExtend
  /\ EntriesInstalled

(* What to_state iterates lies between what was there when it began and    *)
(* what is there now, and so does every entry it has written.              *)
Follows(old, new) ==
  /\ DOMAIN old \subseteq DOMAIN new
  /\ \A i \in DOMAIN old : Evolves(old[i], new[i])

Between(before, e, now) ==
  /\ Evolves(before, e)
  /\ e.prov \subseteq now.prov
  /\ e.status = "superseded" => now.status = "superseded"

ReaderOK ==
  /\ saving = "idle" => orphan = NoDict /\ DOMAIN taken = {}
  /\ saving # "idle" =>
    /\ Follows(opened, Iterated)
    /\ Follows(Iterated, live.entries)
    /\ DOMAIN taken \subseteq DOMAIN opened
    /\ \A i \in DOMAIN taken : Between(opened[i], taken[i], live.entries[i])
    /\ saving \in {"narrative", "counters"} => DOMAIN taken = DOMAIN opened
    /\ saving \in {"provenance", "status"} => item \in DOMAIN taken

IInv == Core /\ ReaderOK

-----------------------------------------------------------------------------
(* The ops a batch is drawn from are ops.                                  *)
LEMMA OpsAreOps == Ops \subseteq Op
BY BoundsAssumption, SortableAssumption
DEF Ops, Op, AddOp, UpdateOp, SupersedeOp, PlainOps, Ids, Id

(* A new memory is a store without entries.                                *)
LEMMA EmptyStoreFacts ==
  IsStore(EmptyStore) /\ IdsIssued(EmptyStore) /\ IsDict(NoEntries)
<1>1. EmptyStore.entries \in [{} -> Entry]
  BY DEF EmptyStore
<1>2. IsStore(EmptyStore) /\ IdsIssued(EmptyStore)
  BY <1>1, NarrativeAssumption DEF EmptyStore, IsStore, IdsIssued
<1>3. IsDict(NoEntries)
  BY <1>1 DEF IsDict, NoEntries, EmptyStore
<1>4. QED
  BY <1>2, <1>3

(* A to_state that is over leaves its variables well typed.                *)
LEMMA StopSavingTypes ==
  ASSUME StopSaving
  PROVE  /\ saving' \in {"idle", "narrative", "counters"} \cup Iterating
         /\ IsDict(opened') /\ IsDict(taken')
         /\ orphan' = NoDict
         /\ item' \in Id \cup {NoItem}
         /\ told' \in Narratives
BY EmptyStoreFacts, NarrativeAssumption DEF StopSaving

(* Loading gives a store, keeps its entries, and makes its ids fresh.      *)
LEMMA LoadedFacts ==
  ASSUME IsStore(saved), NEW kept \in BOOLEAN,
         NEW counters \in [Sections -> 0..MaxId],
         \A sec \in Sections :
            LET numbers == LoadedNumbers(sec, IF kept THEN saved.counters[sec]
                                                      ELSE 0)
            IN  counters[sec] \in numbers /\ \A n \in numbers : n <= counters[sec]
  PROVE  LET s == [saved EXCEPT !.counters = counters]
         IN  IsStore(s) /\ IdsIssued(s) /\ s.entries = saved.entries
<1> DEFINE s == [saved EXCEPT !.counters = counters]
<1>1. /\ s.entries = saved.entries
      /\ s.counters = counters
      /\ s \in [entries: {s.entries}, counters: [Sections -> Nat],
                narrative: Narratives]
  BY BoundsAssumption DEF IsStore
<1> HIDE DEF s
<1>2. IsStore(s)
  BY <1>1 DEF IsStore
<1>3. IdsIssued(s)
  <2> SUFFICES ASSUME NEW i \in DOMAIN saved.entries
               PROVE  Number(i) <= counters[SectionOf(i)]
    BY <1>1 DEF IdsIssued
  <2>1. SectionOf(i) \in Sections
    BY DEF IsStore, Id, SectionOf
  <2>2. Number(i) \in LoadedNumbers(SectionOf(i),
                        IF kept THEN saved.counters[SectionOf(i)] ELSE 0)
    BY DEF LoadedNumbers
  <2>3. QED
    BY <2>1, <2>2
<1>4. QED
  BY <1>1, <1>2, <1>3 DEF s

-----------------------------------------------------------------------------
(* A new process satisfies the invariant.                                  *)
LEMMA InitCore == Init => Core
<1> SUFFICES ASSUME Init PROVE Core
  OBVIOUS
<1> USE EmptyStoreFacts DEF Init
<1>1. TypeOK
  BY NarrativeAssumption DEF TypeOK, NotSaving
<1>2. IdsFresh
  BY DEF IdsFresh
<1>3. Locking
  BY ThreadsAssumption DEF Locking, Installing
<1>4. BaseNotAhead /\ TrialsExtend /\ EntriesInstalled
  BY DEF BaseNotAhead, TrialsExtend, Current, EntriesInstalled, Installing
<1>5. QED
  BY <1>1, <1>2, <1>3, <1>4 DEF Core

(* What a step leaves to show once live and every trial are unchanged.     *)
LEMMA Unchanged == Core /\ UNCHANGED vars => Core'
BY DEF Core, vars, batch, disk, reader, TypeOK, IdsFresh, Locking, BaseNotAhead,
       TrialsExtend, Current, MidBatch, EntriesInstalled

(* While the lock is free, or held by a batch, nobody is installing.       *)
LEMMA HolderAlone ==
  ASSUME Core, NEW t \in Threads,
         lock = NoThread \/ pc[t] \in {"applying", "atomic"}
  PROVE  /\ \A u \in Threads : pc[u] \notin Installing
         /\ IsStore(live) /\ IdsIssued(live)
BY ThreadsAssumption DEF Core, Locking, Installing, IdsFresh, TypeOK

(* apply_ops takes a free lock: no batch was in progress, none has changed *)
(* anything yet.                                                           *)
LEMMA BeginApplyCore ==
  ASSUME Core, NEW t \in Threads, BeginApply(t)
  PROVE  Core'
<1>0. \A u \in Threads : pc'[u] \notin Installing /\ pc[u] \notin Installing
  BY HolderAlone DEF BeginApply, Become, Core, TypeOK, Installing
<1> USE DEF Core, BeginApply, Become, disk, reader
<1>1. TypeOK'
  BY DEF TypeOK
<1>2. IdsFresh' /\ EntriesInstalled'
  BY <1>0 DEF IdsFresh, EntriesInstalled
<1>3. Locking'
  BY ThreadsAssumption DEF Locking, TypeOK, Installing
<1>4. BaseNotAhead'
  BY DEF BaseNotAhead, TypeOK
<1>5. TrialsExtend'
  <2>1. ~MidBatch
    BY ThreadsAssumption DEF MidBatch, Locking, Installing
  <2>2. QED
    BY <1>0, <2>1 DEF TrialsExtend, Current, TypeOK
<1>6. QED
  BY <1>1, <1>2, <1>3, <1>4, <1>5

(* One op of a batch in place; a rejected one leaves the trials that       *)
(* extended the memory extensions of it.                                   *)
LEMMA ApplyInPlaceCore ==
  ASSUME Core, NEW t \in Threads, NEW op \in Ops, ApplyInPlace(t, op)
  PROVE  Core'
<1>0. op \in Op
  BY OpsAreOps
<1>1. IsStore(live) /\ IdsIssued(live) /\ \A u \in Threads : pc[u] \notin Installing
  BY HolderAlone DEF ApplyInPlace
<1> USE DEF Core, ApplyInPlace, Judge, disk, reader
<1>2. IsStore(live') /\ IdsIssued(live') /\ Extends(live, live')
  BY <1>0, <1>1, AfterOpType, AfterOpExtends
<1>3. TypeOK'
  BY <1>2 DEF TypeOK, Accepted
<1>4. IdsFresh'
  BY <1>2 DEF IdsFresh
<1>5. Locking' /\ BaseNotAhead' /\ EntriesInstalled'
  BY <1>1 DEF Locking, BaseNotAhead, EntriesInstalled
<1>6. TrialsExtend'
  <2> SUFFICES ASSUME NEW u \in Threads, Current(u)'
               PROVE  Extends(live', trial[u])
    BY DEF TrialsExtend
  <2>1. u # t /\ pc[u] # "atomic"
    BY ThreadsAssumption DEF Locking, Current, TypeOK
  <2>2. ~applied'[t] /\ ~Accepted(live, op)
    BY <2>1 DEF Current, MidBatch, TypeOK
  <2>3. Current(u)
    BY <2>1, <2>2 DEF Current, MidBatch, TypeOK
  <2>4. Extends(live, trial[u]) /\ IsStore(trial[u])
    BY <2>3 DEF TrialsExtend, TypeOK
  <2>5. QED
    BY <1>0, <1>1, <2>2, <2>4, RejectedOpKeepsExtensions
<1>7. QED
  BY <1>3, <1>4, <1>5, <1>6

(* The facts every step needs that ends the activity of one thread.        *)
LEMMA FinishTypes ==
  ASSUME Core, NEW t \in Threads, Finish(t)
  PROVE  /\ pc' \in [Threads -> {"idle", "applying", "atomic", "open"}
                                   \cup Installing]
         /\ trial' = [u \in Threads |-> trial'[u]]
         /\ \A u \in Threads : IsStore(trial'[u]) /\ IdsIssued(trial'[u])
         /\ base' \in [Threads -> Nat]
         /\ rejected' \in [Threads -> BOOLEAN]
         /\ applied' \in [Threads -> BOOLEAN]
         /\ snapshot' = [u \in Threads |-> snapshot'[u]]
         /\ \A u \in Threads : IsStore(snapshot'[u])
         /\ pc'[t] = "idle"
         /\ \A u \in Threads \ {t} :
              /\ pc'[u] = pc[u]
              /\ trial'[u] = trial[u]
              /\ base'[u] = base[u]
              /\ applied'[u] = applied[u]
<1>1. TypeOK /\ IdsFresh
  BY DEF Core
<1>2. \A u \in Threads : IsStore(trial'[u]) /\ IdsIssued(trial'[u])
  BY <1>1, EmptyStoreFacts DEF TypeOK, IdsFresh, Finish
<1>3. \A u \in Threads : IsStore(snapshot'[u])
  BY <1>1, EmptyStoreFacts DEF TypeOK, Finish
<1>4. QED
  BY <1>1, <1>2, <1>3 DEF TypeOK, Finish, Become

(* The batch ends; if it changed the memory the revision has moved.        *)
LEMMA EndApplyCore ==
  ASSUME Core, NEW t \in Threads, EndApply(t)
  PROVE  Core'
<1> USE DEF Core
<1>1. pc[t] = "applying" /\ Finish(t) /\ lock' = NoThread /\ live' = live
      /\ UNCHANGED <<disk, reader>>
      /\ revision' = IF applied[t] THEN revision + 1 ELSE revision
  BY DEF EndApply
<1>0. /\ IdsIssued(live)
      /\ \A u \in Threads : pc[u] \notin Installing /\ pc'[u] \notin Installing
  BY <1>1, HolderAlone, FinishTypes DEF Installing
<1>2. TypeOK'
  BY <1>1, FinishTypes DEF TypeOK, disk, reader
<1>3. IdsFresh' /\ EntriesInstalled'
  BY <1>0, <1>1, FinishTypes DEF IdsFresh, EntriesInstalled
<1>4. Locking'
  BY <1>1, FinishTypes, ThreadsAssumption DEF Locking, TypeOK, Installing
<1>5. BaseNotAhead'
  BY <1>1, FinishTypes DEF BaseNotAhead, TypeOK
<1>6. TrialsExtend'
  <2> SUFFICES ASSUME NEW u \in Threads, Current(u)'
               PROVE  Extends(live, trial'[u])
    BY <1>1 DEF TrialsExtend
  <2>1. u # t /\ pc'[u] = pc[u] /\ trial'[u] = trial[u] /\ base'[u] = base[u]
    BY <1>1, FinishTypes DEF Current
  <2>2. pc[u] = "open" /\ base[u] = revision'
    BY <1>1, <2>1 DEF Current, Locking
  <2>3. ~applied[t]
    BY <1>1, <2>2 DEF BaseNotAhead, TypeOK
  <2>4. ~MidBatch
    BY <1>0, <1>1, <2>3 DEF MidBatch, Locking
  <2>5. QED
    BY <1>1, <2>1, <2>2, <2>3, <2>4 DEF TrialsExtend, Current
<1>7. QED
  BY <1>2, <1>3, <1>4, <1>5, <1>6

(* CopyLive, shared by the two ways to start on a private copy.            *)
LEMMA CopyTypes ==
  ASSUME Core, NEW t \in Threads, CopyLive(t), lock = NoThread
  PROVE  /\ trial' = [u \in Threads |-> trial'[u]]
         /\ \A u \in Threads : IsStore(trial'[u]) /\ IdsIssued(trial'[u])
         /\ rejected' \in [Threads -> BOOLEAN]
         /\ applied' \in [Threads -> BOOLEAN]
         /\ snapshot' = [u \in Threads |-> snapshot'[u]]
         /\ \A u \in Threads : IsStore(snapshot'[u])
         /\ trial'[t] = live
         /\ \A u \in Threads \ {t} : trial'[u] = trial[u] /\ applied'[u] = applied[u]
<1>1. TypeOK /\ IdsFresh
  BY DEF Core
<1>2. \A u \in Threads : IsStore(trial'[u]) /\ IdsIssued(trial'[u])
  BY <1>1, HolderAlone DEF TypeOK, IdsFresh, CopyLive
<1>3. \A u \in Threads : IsStore(snapshot'[u])
  BY <1>1 DEF TypeOK, CopyLive
<1>4. QED
  BY <1>1, <1>2, <1>3 DEF TypeOK, CopyLive

(* apply_ops_atomically copies the memory under the lock.                  *)
LEMMA BeginAtomicCore ==
  ASSUME Core, NEW t \in Threads, BeginAtomic(t)
  PROVE  Core'
<1> USE DEF Core
<1>1. /\ pc[t] = "idle" /\ lock = NoThread /\ lock' = t /\ CopyLive(t)
      /\ pc' = [pc EXCEPT ![t] = "atomic"]
      /\ UNCHANGED <<live, revision, disk, reader, base>>
  BY DEF BeginAtomic, Become
<1>0. \A u \in Threads : pc[u] \notin Installing /\ pc'[u] \notin Installing
  BY <1>1, HolderAlone DEF Core, TypeOK, Installing
<1>2. TypeOK'
  BY <1>1, CopyTypes DEF TypeOK, disk, reader
<1>3. IdsFresh' /\ EntriesInstalled'
  BY <1>0, <1>1, CopyTypes DEF IdsFresh, EntriesInstalled
<1>4. Locking' /\ BaseNotAhead'
  BY <1>1, ThreadsAssumption DEF Locking, BaseNotAhead, TypeOK, Installing
<1>5. TrialsExtend'
  <2> SUFFICES ASSUME NEW u \in Threads, Current(u)'
               PROVE  Extends(live, trial'[u])
    BY <1>1 DEF TrialsExtend
  <2>1. CASE u = t
    BY <1>1, <2>1, CopyTypes, ExtendsReflexive DEF TypeOK
  <2>2. CASE u # t
    <3>1. ~MidBatch
      BY <1>0, <1>1, ThreadsAssumption DEF MidBatch, Locking
    <3>2. Current(u) /\ trial'[u] = trial[u]
      BY <1>1, <2>2, <3>1, CopyTypes DEF Current, TypeOK
    <3>3. QED
      BY <3>2 DEF TrialsExtend
  <2>3. QED
    BY <2>1, <2>2
<1>6. QED
  BY <1>2, <1>3, <1>4, <1>5

(* transaction_snapshot copies the memory and notes the revision.          *)
LEMMA TransactionSnapshotCore ==
  ASSUME Core, NEW t \in Threads, TransactionSnapshot(t)
  PROVE  Core'
<1> USE DEF Core
<1>1. /\ pc[t] = "idle" /\ lock = NoThread /\ CopyLive(t)
      /\ pc' = [pc EXCEPT ![t] = "open"]
      /\ base' = [base EXCEPT ![t] = revision]
      /\ UNCHANGED <<live, revision, lock, disk, reader>>
  BY DEF TransactionSnapshot, Become
<1>0. \A u \in Threads : pc[u] \notin Installing /\ pc'[u] \notin Installing
  BY <1>1, HolderAlone DEF Core, TypeOK, Installing
<1>2. TypeOK'
  BY <1>1, CopyTypes DEF TypeOK, disk, reader
<1>3. IdsFresh' /\ EntriesInstalled'
  BY <1>0, <1>1, CopyTypes DEF IdsFresh, EntriesInstalled
<1>4. Locking' /\ BaseNotAhead'
  BY <1>1, ThreadsAssumption DEF Locking, BaseNotAhead, TypeOK, Installing
<1>5. TrialsExtend'
  <2> SUFFICES ASSUME NEW u \in Threads, Current(u)'
               PROVE  Extends(live, trial'[u])
    BY <1>1 DEF TrialsExtend
  <2>1. CASE u = t
    BY <1>1, <2>1, CopyTypes, ExtendsReflexive DEF TypeOK
  <2>2. CASE u # t
    <3>1. ~MidBatch
      BY <1>0, <1>1, ThreadsAssumption DEF MidBatch, Locking
    <3>2. Current(u) /\ trial'[u] = trial[u]
      BY <1>1, <2>2, <3>1, CopyTypes DEF Current, TypeOK
    <3>3. QED
      BY <3>2 DEF TrialsExtend
  <2>3. QED
    BY <2>1, <2>2
<1>6. QED
  BY <1>2, <1>3, <1>4, <1>5

(* One op on a private copy extends what the copy extended.                *)
LEMMA ApplyOnCopyCore ==
  ASSUME Core, NEW t \in Threads, NEW op \in Ops, ApplyOnCopy(t, op)
  PROVE  Core'
<1> USE DEF Core
<1>1. /\ pc[t] \in {"atomic", "open"}
      /\ trial' = [trial EXCEPT ![t] = AfterOp(trial[t], op)]
      /\ Judge(t, Accepted(trial[t], op))
      /\ UNCHANGED <<live, revision, lock, disk, reader, pc, base, snapshot>>
  BY DEF ApplyOnCopy
<1>2. op \in Op /\ IsStore(trial[t]) /\ IdsIssued(trial[t]) /\ IsStore(live)
  BY OpsAreOps DEF TypeOK, IdsFresh
<1>3. /\ IsStore(AfterOp(trial[t], op)) /\ IdsIssued(AfterOp(trial[t], op))
      /\ Extends(trial[t], AfterOp(trial[t], op))
  BY <1>2, AfterOpType, AfterOpExtends
<1>4. /\ trial'[t] = AfterOp(trial[t], op)
      /\ \A u \in Threads \ {t} : trial'[u] = trial[u]
      /\ trial' = [u \in Threads |-> trial'[u]]
  BY <1>1 DEF TypeOK
<1>5. TypeOK'
  BY <1>1, <1>3, <1>4 DEF TypeOK, Judge, Accepted, disk, reader
<1>6. IdsFresh'
  BY <1>1, <1>3, <1>4 DEF IdsFresh
<1>7. Locking' /\ BaseNotAhead' /\ EntriesInstalled'
  <2>1. \A u \in Threads : pc'[u] \in Installing => trial'[u] = trial[u]
    BY <1>1, <1>4 DEF Installing
  <2>2. QED
    BY <1>1, <2>1 DEF Locking, BaseNotAhead, EntriesInstalled
<1>8. TrialsExtend'
  <2> SUFFICES ASSUME NEW u \in Threads, Current(u)'
               PROVE  Extends(live, trial'[u])
    BY <1>1 DEF TrialsExtend
  <2>1. Current(u)
    BY <1>1 DEF Current, MidBatch, Judge, TypeOK
  <2>2. Extends(live, trial[u])
    BY <2>1 DEF TrialsExtend
  <2>3. CASE u = t
    BY <1>2, <1>3, <1>4, <2>2, <2>3, ExtendsTransitive
  <2>4. QED
    BY <1>4, <2>2, <2>3
<1>9. QED
  BY <1>5, <1>6, <1>7, <1>8

(* The first assignment: the thread holds the lock until the third, so no  *)
(* trial based on the old revision can be committed.                       *)
LEMMA InstallEntriesCore ==
  ASSUME Core, NEW t \in Threads, InstallEntries(t), Extends(live, trial[t]),
         lock \in {t, NoThread}
  PROVE  Core'
<1> USE DEF Core
<1>1. /\ live' = [live EXCEPT !.entries = trial[t].entries]
      /\ pc' = [pc EXCEPT ![t] = "narrative"] /\ lock' = t
      /\ UNCHANGED <<revision, trial, base, rejected, applied, snapshot, disk,
                     saving, opened, taken, item, told>>
  BY DEF InstallEntries, Become
<1>2. /\ live'.entries = trial[t].entries /\ live'.counters = live.counters
      /\ IsStore(live')
  BY <1>1 DEF TypeOK, IsStore
<1>3. TypeOK'
  <2>1. IsDict(live.entries)
    BY DEF TypeOK, IsStore, IsDict
  <2>2. orphan' = orphan \/ (orphan' = <<live.entries>> /\ orphan'[1] = live.entries)
    BY DEF InstallEntries
  <2>3. (orphan = NoDict \/ (orphan = <<orphan[1]>> /\ IsDict(orphan[1])))'
    BY <2>1, <2>2 DEF TypeOK, IsDict
  <2>4. QED
    BY <1>1, <1>2, <2>3 DEF TypeOK, disk, Installing
<1>4. IdsFresh'
  BY <1>1 DEF IdsFresh, TypeOK, Installing
<1>5. Locking' /\ BaseNotAhead'
  BY <1>1, ThreadsAssumption DEF Locking, BaseNotAhead, TypeOK, Installing
<1>6. EntriesInstalled'
  <2>1. \A u \in Threads \ {t} : pc'[u] \notin Installing
    BY <1>1, ThreadsAssumption DEF Locking, TypeOK
  <2>2. QED
    BY <1>1, <1>2, <2>1 DEF EntriesInstalled
<1>7. TrialsExtend'
  <2>1. MidBatch'
    BY <1>1 DEF MidBatch, Installing, TypeOK
  <2>2. \A u \in Threads : pc'[u] # "atomic"
    BY <1>1, ThreadsAssumption DEF Locking, TypeOK
  <2>3. QED
    BY <2>1, <2>2 DEF TrialsExtend, Current
<1>8. QED
  BY <1>3, <1>4, <1>5, <1>6, <1>7

(* The second: the narrative.                                              *)
LEMMA InstallNarrativeCore ==
  ASSUME Core, NEW t \in Threads, InstallNarrative(t)
  PROVE  Core'
<1> USE DEF Core
<1>1. /\ live' = [live EXCEPT !.narrative = trial[t].narrative]
      /\ pc[t] = "narrative" /\ pc' = [pc EXCEPT ![t] = "counters"]
      /\ UNCHANGED <<revision, lock, trial, base, rejected, applied, snapshot,
                     disk, reader>>
  BY DEF InstallNarrative, Become
<1>2. /\ live'.entries = live.entries /\ live'.counters = live.counters
      /\ IsStore(live')
  <2>1. trial[t].narrative \in Narratives
    BY DEF TypeOK, IsStore
  <2>2. /\ live'.entries = live.entries /\ live'.counters = live.counters
        /\ live' \in [entries: {live.entries}, counters: [Sections -> Nat],
                      narrative: Narratives]
    BY <1>1, <2>1 DEF TypeOK, IsStore
  <2>3. QED
    BY <2>2 DEF TypeOK, IsStore
<1>3. TypeOK'
  BY <1>1, <1>2 DEF TypeOK, disk, reader, Installing
<1>4. IdsFresh'
  BY <1>1 DEF IdsFresh, TypeOK, Installing
<1>5. Locking' /\ BaseNotAhead'
  BY <1>1 DEF Locking, BaseNotAhead, TypeOK, Installing
<1>6. EntriesInstalled'
  BY <1>1, <1>2 DEF EntriesInstalled, TypeOK, Installing
<1>7. TrialsExtend'
  <2>1. MidBatch'
    BY <1>1 DEF MidBatch, Installing, TypeOK
  <2>2. \A u \in Threads : pc'[u] # "atomic"
    BY <1>1, ThreadsAssumption DEF Locking, TypeOK, Installing
  <2>3. QED
    BY <2>1, <2>2 DEF TrialsExtend, Current
<1>8. QED
  BY <1>3, <1>4, <1>5, <1>6, <1>7

(* The third, with the revision: the trials based on the old one are out.  *)
LEMMA InstallCountersCore ==
  ASSUME Core, NEW t \in Threads, InstallCounters(t)
  PROVE  Core'
<1> USE DEF Core
<1>1. /\ live' = [live EXCEPT !.counters = trial[t].counters]
      /\ pc[t] = "counters" /\ revision' = revision + 1
      /\ lock' = NoThread /\ Finish(t) /\ UNCHANGED <<disk, reader>>
  BY DEF InstallCounters
<1>2. /\ live'.entries = trial[t].entries /\ live'.counters = trial[t].counters
      /\ IsStore(live')
  <2>1. trial[t].counters \in [Sections -> Nat] /\ live.entries = trial[t].entries
    BY <1>1 DEF TypeOK, IsStore, EntriesInstalled, Installing
  <2>2. /\ live'.entries = live.entries /\ live'.counters = trial[t].counters
        /\ live' \in [entries: {live.entries}, counters: [Sections -> Nat],
                      narrative: Narratives]
    BY <1>1, <2>1 DEF TypeOK, IsStore
  <2>3. QED
    BY <2>1, <2>2 DEF TypeOK, IsStore
<1>3. IdsIssued(live')
  BY <1>2 DEF IdsIssued, IdsFresh
<1>4. \A u \in Threads : pc'[u] \notin Installing
  BY <1>1, FinishTypes, ThreadsAssumption DEF Locking, Installing
<1>5. TypeOK'
  BY <1>1, <1>2, FinishTypes DEF TypeOK, disk, reader
<1>6. IdsFresh' /\ EntriesInstalled'
  BY <1>3, <1>4, <1>1, FinishTypes DEF IdsFresh, EntriesInstalled
<1>7. Locking'
  BY <1>1, FinishTypes, ThreadsAssumption DEF Locking, TypeOK, Installing
<1>8. BaseNotAhead'
  BY <1>1, FinishTypes DEF BaseNotAhead, TypeOK
<1>9. TrialsExtend'
  <2> SUFFICES ASSUME NEW u \in Threads, Current(u)'
               PROVE  FALSE
    BY DEF TrialsExtend
  <2>1. u # t /\ pc'[u] = pc[u] /\ base'[u] = base[u]
    BY <1>1, FinishTypes DEF Current
  <2>2. pc[u] = "open" /\ base[u] = revision + 1
    BY <1>1, <2>1, ThreadsAssumption DEF Current, Locking, TypeOK, Installing
  <2>3. QED
    BY <2>2 DEF BaseNotAhead, TypeOK
<1>10. QED
  BY <1>5, <1>6, <1>7, <1>8, <1>9

(* Dropping a trial: nothing but the thread changes.                       *)
LEMMA DropCore ==
  ASSUME Core, NEW t \in Threads, Finish(t), UNCHANGED <<disk, reader>>,
         UNCHANGED <<live, revision>>, pc[t] \in {"atomic", "open"},
         lock' = IF lock = t THEN NoThread ELSE lock
  PROVE  Core'
<1> USE DEF Core
<1>0. \A u \in Threads : pc'[u] \in Installing <=> pc[u] \in Installing
  BY FinishTypes DEF Installing
<1>1. TypeOK'
  BY FinishTypes DEF TypeOK, disk, reader
<1>2. IdsFresh' /\ EntriesInstalled'
  <2>1. \A u \in Threads : pc[u] \in Installing => trial'[u] = trial[u]
    BY FinishTypes DEF Installing
  <2>2. QED
    BY <1>0, <2>1, FinishTypes DEF IdsFresh, EntriesInstalled
<1>3. Locking' /\ BaseNotAhead'
  BY FinishTypes, ThreadsAssumption DEF Locking, BaseNotAhead, TypeOK, Installing
<1>4. TrialsExtend'
  <2> SUFFICES ASSUME NEW u \in Threads, Current(u)'
               PROVE  Extends(live, trial'[u])
    BY DEF TrialsExtend
  <2>1. /\ u # t /\ pc'[u] = pc[u] /\ base'[u] = base[u]
        /\ trial'[u] = trial[u]
    BY FinishTypes DEF Current
  <2>2. MidBatch => MidBatch'
    BY FinishTypes DEF MidBatch, Installing
  <2>3. Current(u)
    BY <2>1, <2>2 DEF Current
  <2>4. QED
    BY <2>1, <2>3 DEF TrialsExtend
<1>5. QED
  BY <1>1, <1>2, <1>3, <1>4

(* The copy of an atomic batch is installed or dropped.                    *)
LEMMA EndAtomicCore ==
  ASSUME Core, NEW t \in Threads, EndAtomic(t)
  PROVE  Core'
<1>1. pc[t] = "atomic" /\ lock = t
  BY DEF Core, EndAtomic, Locking
<1>2. CASE rejected[t] \/ ~applied[t]
  BY <1>1, <1>2, DropCore DEF EndAtomic
<1>3. CASE ~(rejected[t] \/ ~applied[t])
  <2>1. InstallEntries(t)
    BY <1>3 DEF EndAtomic
  <2>2. Extends(live, trial[t])
    BY <1>1 DEF Core, TrialsExtend, Current
  <2>3. QED
    BY <1>1, <2>1, <2>2, InstallEntriesCore
<1>4. QED
  BY <1>2, <1>3

(* A trial that passes the revision check extends the memory it replaces.  *)
LEMMA CommitTrialCore ==
  ASSUME Core, NEW t \in Threads, CommitTrial(t)
  PROVE  Core'
<1>1. /\ pc[t] = "open" /\ lock = NoThread /\ base[t] = revision
      /\ InstallEntries(t)
  BY DEF CommitTrial
<1>2. ~MidBatch
  BY <1>1, ThreadsAssumption DEF Core, MidBatch, Locking
<1>3. Extends(live, trial[t])
  BY <1>1, <1>2 DEF Core, TrialsExtend, Current
<1>4. QED
  BY <1>1, <1>3, InstallEntriesCore

(* A dropped trial leaves nothing behind.                                  *)
LEMMA AbandonTrialCore ==
  ASSUME Core, NEW t \in Threads, AbandonTrial(t)
  PROVE  Core'
<1>1. /\ pc[t] = "open" /\ Finish(t)
      /\ UNCHANGED <<live, revision, lock, disk, reader>>
      /\ lock # t
  BY DEF Core, AbandonTrial, Locking, Installing
<1>2. QED
  BY <1>1, DropCore

(* set_narrative touches no entry, whoever holds the lock.                 *)
LEMMA SetNarrativeCore ==
  ASSUME Core, NEW n \in Narratives, SetNarrative(n)
  PROVE  Core'
<1> USE DEF Core
<1>1. /\ live' = [live EXCEPT !.narrative = n]
      /\ UNCHANGED <<revision, lock, batch, disk, reader>>
  BY DEF SetNarrative
<1>2. /\ live'.entries = live.entries /\ live'.counters = live.counters
      /\ live' \in [entries: {live.entries}, counters: [Sections -> Nat],
                    narrative: Narratives]
  BY <1>1 DEF TypeOK, IsStore
<1>3. IsStore(live')
  BY <1>2 DEF TypeOK, IsStore
<1>4. TypeOK' /\ Locking' /\ BaseNotAhead'
  BY <1>1, <1>3 DEF TypeOK, Locking, BaseNotAhead, batch, disk, reader
<1>5. IdsFresh' /\ EntriesInstalled'
  BY <1>1, <1>2 DEF IdsFresh, IdsIssued, EntriesInstalled, batch
<1>6. TrialsExtend'
  BY <1>1, <1>2 DEF TrialsExtend, Current, MidBatch, Extends, batch
<1>7. QED
  BY <1>4, <1>5, <1>6

(* to_state changes nothing but its own payload.                           *)
LEMMA ToStateCore == Core /\ ReaderOK /\ ToState => Core'
<1> SUFFICES ASSUME Core, ReaderOK, ToState PROVE Core'
  OBVIOUS
<1>0. saves' \in Nat
  BY DEF ToState, BeginSave, SaveText, SaveProvenance, SaveStatus, SaveRaises,
         EndLoop, SaveNarrative, SaveCounters, disk, Core, TypeOK
<1>1. UNCHANGED <<live, revision, lock, batch, incarnation>>
  BY DEF ToState, BeginSave, SaveText, SaveProvenance, SaveStatus, SaveRaises,
         EndLoop, SaveNarrative, SaveCounters, disk
<1>2. /\ IdsFresh' /\ Locking' /\ BaseNotAhead' /\ TrialsExtend'
      /\ EntriesInstalled'
  BY <1>1 DEF Core, batch, IdsFresh, Locking, BaseNotAhead, TrialsExtend, Current,
              MidBatch, EntriesInstalled
<1>3. /\ IsStore(saved)
      /\ saving \in {"idle", "narrative", "counters"} \cup Iterating
      /\ IsDict(opened) /\ IsDict(taken)
      /\ orphan = NoDict \/ (orphan = <<orphan[1]>> /\ IsDict(orphan[1]))
      /\ item \in Id \cup {NoItem} /\ told \in Narratives
      /\ IsStore(live)
  BY DEF Core, TypeOK
<1>4. IsDict(live.entries) /\ IsDict(Iterated)
  BY <1>3 DEF IsStore, IsDict, Iterated
<1>5. SUFFICES /\ IsStore(saved')
               /\ saving' \in {"idle", "narrative", "counters"} \cup Iterating
               /\ IsDict(opened') /\ IsDict(taken')
               /\ orphan' = NoDict \/ (orphan' = <<orphan'[1]>> /\ IsDict(orphan'[1]))
               /\ item' \in Id \cup {NoItem} /\ told' \in Narratives
  BY <1>0, <1>1, <1>2 DEF Core, TypeOK, batch
<1>6. CASE BeginSave
  BY <1>3, <1>4, <1>6 DEF BeginSave, disk, Iterating
<1>7. ASSUME NEW i \in DOMAIN Iterated, SaveText(i) PROVE IsDict(taken') /\ i \in Id
  BY <1>3, <1>4, <1>7 DEF SaveText, IsDict, Put
<1>8. CASE \E i \in DOMAIN Iterated : SaveText(i)
  BY <1>3, <1>7, <1>8 DEF SaveText, disk, Iterating
<1>9. ASSUME SaveProvenance \/ SaveStatus PROVE IsDict(taken')
  <2>1. item \in DOMAIN taken /\ item \in DOMAIN Iterated
    BY <1>9 DEF ReaderOK, Follows, SaveProvenance, SaveStatus
  <2>2. Iterated[item] \in Entry /\ taken[item] \in Entry
    BY <1>3, <1>4, <2>1 DEF IsDict
  <2>3. /\ [taken[item] EXCEPT !.prov = Iterated[item].prov] \in Entry
        /\ [taken[item] EXCEPT !.status = Iterated[item].status] \in Entry
    BY <2>2 DEF Entry
  <2>4. QED
    BY <1>3, <1>9, <2>1, <2>3 DEF SaveProvenance, SaveStatus, IsDict
<1>10. CASE SaveProvenance \/ SaveStatus
  BY <1>3, <1>9, <1>10 DEF SaveProvenance, SaveStatus, disk, Iterating
<1>11. CASE SaveRaises
  BY <1>3, <1>11, StopSavingTypes DEF SaveRaises, disk
<1>12. CASE EndLoop \/ SaveNarrative
  BY <1>3, <1>12 DEF EndLoop, SaveNarrative, disk, IsStore
<1>13. CASE SaveCounters
  <2>1. IsStore(saved')
    BY <1>3, <1>13 DEF SaveCounters, IsStore, IsDict
  <2>2. QED
    BY <1>13, <2>1, StopSavingTypes DEF SaveCounters
<1>14. QED
  BY <1>6, <1>8, <1>10, <1>11, <1>12, <1>13 DEF ToState

(* load_state repairs counters that the payload lost.                      *)
LEMMA RestartCore == Core /\ Restart => Core'
<1> SUFFICES ASSUME Core, Restart PROVE Core'
  OBVIOUS
<1> USE DEF Core
<1>1. IsStore(live') /\ IdsIssued(live')
  <2>1. IsStore(saved)
    BY DEF TypeOK
  <2>2. PICK kept \in BOOLEAN, counters \in [Sections -> 0..MaxId] :
          /\ \A sec \in Sections :
               LET numbers == LoadedNumbers(sec, IF kept THEN saved.counters[sec]
                                                         ELSE 0)
               IN  counters[sec] \in numbers /\ \A n \in numbers : n <= counters[sec]
          /\ live' = [saved EXCEPT !.counters = counters]
    BY DEF Restart
  <2>3. QED
    BY <2>1, <2>2, LoadedFacts
<1>2. TypeOK'
  BY <1>1, EmptyStoreFacts, StopSavingTypes DEF Restart, TypeOK
<1>3. IdsFresh'
  BY <1>1, EmptyStoreFacts DEF Restart, IdsFresh
<1>4. Locking' /\ BaseNotAhead' /\ TrialsExtend' /\ EntriesInstalled'
  BY ThreadsAssumption DEF Restart, Locking, BaseNotAhead, TrialsExtend, Current,
     EntriesInstalled, Installing
<1>5. QED
  BY <1>2, <1>3, <1>4

-----------------------------------------------------------------------------
(* Every step keeps the first part of the invariant.                       *)
LEMMA NextCore == IInv /\ [Next]_vars => Core'
<1> SUFFICES ASSUME Core, ReaderOK, [Next]_vars PROVE Core'
  BY DEF IInv
<1>1. CASE UNCHANGED vars
  BY <1>1, Unchanged
<1>2. ASSUME NEW t \in Threads, BeginApply(t) \/ EndApply(t)
      PROVE  Core'
  BY <1>2, BeginApplyCore, EndApplyCore
<1>3. ASSUME NEW t \in Threads, BeginAtomic(t) \/ EndAtomic(t)
      PROVE  Core'
  BY <1>3, BeginAtomicCore, EndAtomicCore
<1>4. ASSUME NEW t \in Threads, InstallNarrative(t) \/ InstallCounters(t)
      PROVE  Core'
  BY <1>4, InstallNarrativeCore, InstallCountersCore
<1>5. ASSUME NEW t \in Threads,
             TransactionSnapshot(t) \/ CommitTrial(t) \/ AbandonTrial(t)
      PROVE  Core'
  BY <1>5, TransactionSnapshotCore, CommitTrialCore, AbandonTrialCore
<1>6. ASSUME NEW t \in Threads, NEW op \in Ops,
             ApplyInPlace(t, op) \/ ApplyOnCopy(t, op)
      PROVE  Core'
  BY <1>6, ApplyInPlaceCore, ApplyOnCopyCore
<1>7. ASSUME NEW n \in Narratives, SetNarrative(n)
      PROVE  Core'
  BY <1>7, SetNarrativeCore
<1>8. CASE ToState \/ Restart
  BY <1>8, ToStateCore, RestartCore
<1>9. QED
  BY <1>1, <1>2, <1>3, <1>4, <1>5, <1>6, <1>7, <1>8 DEF Next

-----------------------------------------------------------------------------
(* What a to_state half done knows of the memory stays true.               *)

(* An entry that evolves twice has evolved.                                *)
LEMMA FollowsTransitive ==
  ASSUME NEW f, NEW g, NEW h, Follows(f, g), Follows(g, h)
  PROVE  Follows(f, h)
BY DEF Follows, Evolves

(* A dict that did not change follows itself.                              *)
LEMMA FollowsReflexive == \A f : Follows(f, f)
BY DEF Follows, Evolves

(* A store that extends another one has entries that follow.               *)
LEMMA ExtendsFollows ==
  ASSUME NEW s, NEW u, Extends(s, u)
  PROVE  Follows(s.entries, u.entries)
BY DEF Extends, Follows

(* A change of the memory that to_state does not notice.                   *)
LEMMA ReaderKept ==
  ASSUME ReaderOK, Follows(live.entries, live'.entries), UNCHANGED reader
  PROVE  ReaderOK'
<1> SUFFICES ASSUME saving # "idle"
             PROVE  /\ Follows(opened, Iterated')
                    /\ Follows(Iterated', live'.entries)
                    /\ \A i \in DOMAIN taken :
                         Between(opened[i], taken[i], live'.entries[i])
  BY DEF ReaderOK, reader
<1>1. /\ Follows(opened, Iterated) /\ Follows(Iterated, live.entries)
      /\ DOMAIN taken \subseteq DOMAIN opened
      /\ \A i \in DOMAIN taken : Between(opened[i], taken[i], live.entries[i])
  BY DEF ReaderOK
<1>2. Follows(opened, live'.entries) /\ Follows(Iterated, live'.entries)
  BY <1>1, FollowsTransitive
<1>3. Follows(opened, Iterated') /\ Follows(Iterated', live'.entries)
  BY <1>1, <1>2, FollowsReflexive DEF Iterated, reader
<1>4. DOMAIN taken \subseteq DOMAIN live.entries
  BY <1>1 DEF Follows
<1>5. \A i \in DOMAIN taken : Between(opened[i], taken[i], live'.entries[i])
  BY <1>1, <1>4 DEF Between, Follows, Evolves
<1>6. QED
  BY <1>3, <1>5

(* The dict to_state iterates is replaced under it: it keeps the old one,  *)
(* which the new one follows.                                              *)
LEMMA ReaderOrphaned ==
  ASSUME ReaderOK, NEW t \in Threads, InstallEntries(t),
         Follows(live.entries, live'.entries)
  PROVE  ReaderOK'
<1> SUFFICES ASSUME saving # "idle"
             PROVE  /\ Follows(opened, Iterated')
                    /\ Follows(Iterated', live'.entries)
                    /\ \A i \in DOMAIN taken :
                         Between(opened[i], taken[i], live'.entries[i])
  BY DEF ReaderOK, InstallEntries, Iterating
<1>1. /\ Follows(opened, Iterated) /\ Follows(Iterated, live.entries)
      /\ DOMAIN taken \subseteq DOMAIN opened
      /\ \A i \in DOMAIN taken : Between(opened[i], taken[i], live.entries[i])
  BY DEF ReaderOK
<1>2. /\ Follows(opened, live.entries) /\ Follows(opened, live'.entries)
      /\ Follows(Iterated, live'.entries)
  BY <1>1, FollowsTransitive
<1>3. Iterated' \in {Iterated, live.entries, live'.entries}
  BY DEF Iterated, InstallEntries, NoDict
<1>4. Follows(opened, Iterated') /\ Follows(Iterated', live'.entries)
  BY <1>1, <1>2, <1>3, FollowsReflexive
<1>5. DOMAIN taken \subseteq DOMAIN live.entries
  BY <1>1 DEF Follows
<1>6. \A i \in DOMAIN taken : Between(opened[i], taken[i], live'.entries[i])
  BY <1>1, <1>5 DEF Between, Follows, Evolves
<1>7. QED
  BY <1>4, <1>6

(* to_state's own steps: the size it remembers keeps the ids it writes     *)
(* those there were when it began.                                         *)
LEMMA ToStateReader == Core /\ ReaderOK /\ ToState => ReaderOK'
<1> SUFFICES ASSUME Core, ReaderOK, ToState PROVE ReaderOK'
  OBVIOUS
<1>1. UNCHANGED live
  BY DEF ToState, BeginSave, SaveText, SaveProvenance, SaveStatus, SaveRaises,
         EndLoop, SaveNarrative, SaveCounters
<1>2. CASE BeginSave
  BY <1>1, <1>2, FollowsReflexive DEF BeginSave, ReaderOK, Iterated
<1>3. ASSUME NEW i \in DOMAIN Iterated, SaveText(i)
      PROVE  ReaderOK'
  <2>1. /\ saving = "next" /\ saving' = "provenance" /\ item' = i
        /\ taken' = Put(taken, i, Iterated[i])
        /\ DOMAIN Iterated = DOMAIN opened
        /\ UNCHANGED <<opened, orphan>>
    BY <1>3 DEF SaveText, SizeKept
  <2>2. Between(opened[i], Iterated[i], live.entries[i])
    BY <2>1 DEF ReaderOK, Follows, Between, Evolves
  <2>3. \A j \in DOMAIN taken' : Between(opened[j], taken'[j], live.entries[j])
    BY <2>1, <2>2 DEF ReaderOK, Put
  <2>4. DOMAIN taken' \subseteq DOMAIN opened /\ i \in DOMAIN taken'
    BY <2>1 DEF ReaderOK, Put
  <2>5. Iterated' = Iterated
    BY <1>1, <2>1 DEF Iterated
  <2>6. QED
    BY <1>1, <2>1, <2>3, <2>4, <2>5 DEF ReaderOK
<1>4. CASE SaveProvenance \/ SaveStatus
  <2>1. /\ saving \in {"provenance", "status"} /\ saving' \in {"status", "next"}
        /\ DOMAIN taken' = DOMAIN taken
        /\ \A j \in DOMAIN taken \ {item} : taken'[j] = taken[j]
        /\ \/ taken'[item] = [taken[item] EXCEPT !.prov = Iterated[item].prov]
           \/ taken'[item] = [taken[item] EXCEPT !.status = Iterated[item].status]
        /\ saving' = "status" => item' = item
        /\ UNCHANGED <<opened, orphan>>
    BY <1>4 DEF SaveProvenance, SaveStatus, ReaderOK
  <2>2. /\ Follows(opened, Iterated) /\ Follows(Iterated, live.entries)
        /\ item \in DOMAIN taken /\ DOMAIN taken \subseteq DOMAIN opened
        /\ \A j \in DOMAIN taken : Between(opened[j], taken[j], live.entries[j])
    BY <2>1 DEF ReaderOK
  <2>3. /\ Evolves(opened[item], Iterated[item])
        /\ Evolves(Iterated[item], live.entries[item])
        /\ Between(opened[item], taken[item], live.entries[item])
    BY <2>2 DEF Follows
  <2>4. taken[item] \in Entry /\ Iterated[item] \in Entry
    <3>1. IsDict(taken) /\ IsDict(live.entries) /\ IsDict(Iterated)
      BY DEF Core, TypeOK, IsStore, IsDict, Iterated
    <3>2. QED
      BY <2>2, <3>1 DEF Follows, IsDict
  <2>5. Between(opened[item], taken'[item], live.entries[item])
    BY <2>1, <2>3, <2>4 DEF Between, Evolves, Entry
  <2>6. Iterated' = Iterated
    BY <1>1, <2>1 DEF Iterated
  <2>7. QED
    BY <1>1, <2>1, <2>2, <2>5, <2>6 DEF ReaderOK
<1>5. CASE SaveRaises \/ SaveCounters
  BY <1>5 DEF SaveRaises, SaveCounters, StopSaving, ReaderOK, NoEntries, EmptyStore
<1>6. CASE EndLoop
  <2>1. /\ saving = "next" /\ saving' = "narrative" /\ orphan' = NoDict
        /\ DOMAIN taken = DOMAIN opened
        /\ UNCHANGED <<opened, taken, item>>
    BY <1>6 DEF EndLoop, SizeKept
  <2>2. Iterated' = live.entries
    BY <1>1, <2>1 DEF Iterated
  <2>3. Follows(opened, live.entries)
    BY <2>1, FollowsTransitive DEF ReaderOK
  <2>4. QED
    BY <1>1, <2>1, <2>2, <2>3, FollowsReflexive DEF ReaderOK
<1>7. CASE SaveNarrative
  <2>1. Iterated' = Iterated
    BY <1>1, <1>7 DEF Iterated, SaveNarrative
  <2>2. QED
    BY <1>1, <1>7, <2>1 DEF SaveNarrative, ReaderOK
<1>8. QED
  BY <1>2, <1>3, <1>4, <1>5, <1>6, <1>7 DEF ToState

-----------------------------------------------------------------------------
(* What every step does to the memory.                                     *)

(* Within the life of a process entries only evolve; to_state notices      *)
(* nothing of it, unless its dict is replaced.                             *)
LEMMA NextFollows ==
  ASSUME Core, [Next]_vars, ~Restart, ~ToState
  PROVE  /\ Follows(live.entries, live'.entries)
         /\ UNCHANGED reader \/ \E t \in Threads : InstallEntries(t)
<1>1. CASE UNCHANGED vars
  BY <1>1, FollowsReflexive DEF vars
<1>2. ASSUME NEW t \in Threads,
             \/ BeginApply(t) \/ EndApply(t) \/ BeginAtomic(t)
             \/ TransactionSnapshot(t) \/ AbandonTrial(t)
             \/ \E op \in Ops : ApplyOnCopy(t, op)
      PROVE  UNCHANGED <<live, reader>>
  BY <1>2 DEF BeginApply, EndApply, BeginAtomic, TransactionSnapshot,
              AbandonTrial, ApplyOnCopy
<1>3. ASSUME NEW t \in Threads, NEW op \in Ops, ApplyInPlace(t, op)
      PROVE  Follows(live.entries, live'.entries) /\ UNCHANGED reader
  <2>1. live' = AfterOp(live, op) /\ IsStore(live) /\ IdsIssued(live)
    BY <1>3, HolderAlone DEF ApplyInPlace
  <2>2. Extends(live, live')
    BY <2>1, OpsAreOps, AfterOpExtends
  <2>3. QED
    BY <1>3, <2>2, ExtendsFollows DEF ApplyInPlace
<1>4. ASSUME NEW t \in Threads, EndAtomic(t) \/ CommitTrial(t)
      PROVE  \/ UNCHANGED <<live, reader>>
             \/ InstallEntries(t) /\ Follows(live.entries, live'.entries)
  <2>1. \/ UNCHANGED <<live, reader>>
        \/ InstallEntries(t) /\ Current(t)
    <3>1. CASE EndAtomic(t)
      BY <3>1 DEF EndAtomic, Current
    <3>2. CASE CommitTrial(t)
      <4>1. InstallEntries(t) /\ pc[t] = "open" /\ base[t] = revision /\ lock = NoThread
        BY <3>2 DEF CommitTrial
      <4>2. ~MidBatch
        BY <4>1, ThreadsAssumption DEF Core, MidBatch, Locking
      <4>3. QED
        BY <4>1, <4>2 DEF Current
    <3>3. QED
      BY <1>4, <3>1, <3>2
  <2>2. ASSUME InstallEntries(t), Current(t)
        PROVE  Follows(live.entries, live'.entries)
    <3>1. live'.entries = trial[t].entries
      BY <2>2 DEF InstallEntries, Core, TypeOK, IsStore
    <3>2. Extends(live, trial[t])
      BY <2>2 DEF Core, TrialsExtend
    <3>3. QED
      BY <3>1, <3>2, ExtendsFollows
  <2>3. QED
    BY <2>1, <2>2
<1>5. ASSUME NEW t \in Threads, InstallNarrative(t) \/ InstallCounters(t)
      PROVE  live'.entries = live.entries /\ UNCHANGED reader
  BY <1>5 DEF InstallNarrative, InstallCounters, Core, TypeOK, IsStore
<1>6. ASSUME NEW n \in Narratives, SetNarrative(n)
      PROVE  live'.entries = live.entries /\ UNCHANGED reader
  BY <1>6 DEF SetNarrative, Core, TypeOK, IsStore
<1>7. QED
  BY <1>1, <1>2, <1>3, <1>4, <1>5, <1>6, FollowsReflexive DEF Next

(* Every step keeps the second part of the invariant.                      *)
LEMMA NextReader == IInv /\ [Next]_vars => ReaderOK'
<1> SUFFICES ASSUME Core, ReaderOK, [Next]_vars PROVE ReaderOK'
  BY DEF IInv
<1>1. CASE Restart
  BY <1>1 DEF Restart, StopSaving, ReaderOK, NoEntries, EmptyStore
<1>2. CASE ToState
  BY <1>2, ToStateReader
<1>3. CASE ~Restart /\ ~ToState
  <2>1. /\ Follows(live.entries, live'.entries)
        /\ UNCHANGED reader \/ \E t \in Threads : InstallEntries(t)
    BY <1>3, NextFollows
  <2>2. QED
    BY <2>1, ReaderKept, ReaderOrphaned
<1>4. QED
  BY <1>1, <1>2, <1>3

(* The invariant holds at all times.                                       *)
LEMMA Invariance == Spec => []IInv
<1>1. Init => IInv
  BY InitCore DEF IInv, Init, NotSaving, ReaderOK, NoEntries, EmptyStore
<1>2. IInv /\ [Next]_vars => IInv'
  BY NextCore, NextReader DEF IInv
<1>3. QED
  BY <1>1, <1>2, PTL DEF Spec

(* Every variable keeps its type.                                          *)
THEOREM TypeCorrect == Spec => []TypeOK
<1>1. IInv => TypeOK
  BY DEF IInv, Core
<1>2. QED
  BY <1>1, Invariance, PTL

(* _next_id never hands out the id of an entry that is still there.        *)
THEOREM IdsStayFresh == Spec => []IdsFresh
<1>1. IInv => IdsFresh
  BY DEF IInv, Core
<1>2. QED
  BY <1>1, Invariance, PTL

(* Whatever commit_trial is about to install, it deletes no entry, revives *)
(* none, and keeps all provenance.                                         *)
THEOREM CommitsExtendLive == Spec => []CurrentTrialsExtendLive
<1>1. IInv => CurrentTrialsExtendLive
  <2> SUFFICES ASSUME IInv, NEW t \in Threads,
                      \/ pc[t] = "atomic"
                      \/ pc[t] = "open" /\ base[t] = revision /\ lock = NoThread
               PROVE  Extends(live, trial[t])
    BY DEF CurrentTrialsExtendLive
  <2>1. lock = NoThread => ~MidBatch
    BY ThreadsAssumption DEF IInv, Core, MidBatch, Locking, Installing
  <2>2. Current(t)
    BY <2>1 DEF Current
  <2>3. QED
    BY <2>2 DEF IInv, Core, TrialsExtend
<1>2. QED
  BY <1>1, Invariance, PTL

-----------------------------------------------------------------------------
(* Refinement: every step is an evolution, a step of a save, a reload or a *)
(* stutter of the memory the class docstring promises.                     *)

InstallingNow == \E t \in Threads : lock = t /\ pc[t] \in Installing

(* The memory shown has the entries and the narrative of the live one, and *)
(* counters that issued its ids.                                           *)
LEMMA ShownFacts ==
  Core => /\ Shown.entries = live.entries
          /\ IsStore(Shown) /\ IdsIssued(Shown)
<1> SUFFICES ASSUME Core
             PROVE  /\ Shown.entries = live.entries
                    /\ IsStore(Shown) /\ IdsIssued(Shown)
  OBVIOUS
<1>1. CASE InstallingNow
  <2>1. PICK t \in Threads : lock = t /\ pc[t] \in Installing
    BY <1>1 DEF InstallingNow
  <2>2. Shown = [live EXCEPT !.counters = trial[t].counters]
    BY <2>1 DEF Shown
  <2>3. /\ trial[t].counters \in [Sections -> Nat] /\ IdsIssued(trial[t])
        /\ trial[t].entries = live.entries /\ IsStore(live)
    BY <2>1 DEF Core, TypeOK, IsStore, IdsFresh, EntriesInstalled
  <2>4. /\ Shown.entries = live.entries /\ Shown.counters = trial[t].counters
        /\ Shown \in [entries: {live.entries}, counters: [Sections -> Nat],
                      narrative: Narratives]
    BY <2>2, <2>3 DEF IsStore
  <2>5. QED
    BY <2>3, <2>4 DEF IsStore, IdsIssued
<1>2. CASE ~InstallingNow
  <2>1. Shown = live
    BY <1>2 DEF Shown, InstallingNow
  <2>2. \A t \in Threads : pc[t] \notin Installing
    BY <1>2 DEF InstallingNow, Core, Locking
  <2>3. QED
    BY <2>1, <2>2 DEF Core, TypeOK, IdsFresh
<1>3. QED
  BY <1>1, <1>2

(* So does the memory shown after a step.                                  *)
LEMMA ShownFactsNext ==
  (Core => /\ Shown.entries = live.entries
           /\ IsStore(Shown) /\ IdsIssued(Shown))'
BY ShownFacts, PTL

(* What a step has to show to be an evolution.                             *)
LEMMA EvolveStep ==
  ASSUME Extends(Shown, Shown'), IdsIssued(Shown'), UNCHANGED <<disk, saving, opened>>
  PROVE  Living!Evolve
BY DEF Living!Evolve, Living!Extends, Living!Evolves, Living!IdsIssued,
       Living!Number, Living!SectionOf, Extends, Evolves, IdsIssued, Number,
       SectionOf, disk

(* Nobody installs before or after: the live memory is the one shown.      *)
LEMMA ShownIsLive ==
  ASSUME \A t \in Threads : pc[t] \notin Installing
  PROVE  Shown = live
BY DEF Shown

(* The first assignment is the evolution; the third shows nothing new.     *)
LEMMA InstallEntriesEvolves ==
  ASSUME Core, Core', NEW t \in Threads, InstallEntries(t), Extends(live, trial[t]),
         lock \in {t, NoThread}, pc[t] \in {"atomic", "open"}
  PROVE  Living!Evolve
<1>1. \A u \in Threads : pc[u] \notin Installing
  BY ThreadsAssumption DEF Core, Locking, Installing
<1>2. Shown = live
  BY <1>1, ShownIsLive
<1>3. /\ live' = [live EXCEPT !.entries = trial[t].entries]
      /\ lock' = t /\ pc'[t] = "narrative" /\ trial' = trial
      /\ UNCHANGED <<disk, saving, opened>>
  BY DEF InstallEntries, Become, Core, TypeOK
<1>4. Shown' = [live' EXCEPT !.counters = trial[t].counters]
  BY <1>3 DEF Shown, Installing
<1>5. Shown'.entries = trial[t].entries /\ Shown'.counters = trial[t].counters
  BY <1>3, <1>4 DEF Core, TypeOK, IsStore
<1>6. Extends(live, Shown')
  BY <1>5 DEF Extends
<1>7. IdsIssued(Shown')
  BY ShownFactsNext
<1>8. QED
  BY <1>2, <1>3, <1>6, <1>7, EvolveStep

(* A new narrative, installed or set, is an evolution that touches no      *)
(* entry.                                                                  *)
LEMMA SameEntriesEvolve ==
  ASSUME Core, Core', Shown'.entries = Shown.entries,
         Shown'.counters = Shown.counters, UNCHANGED <<disk, saving, opened>>
  PROVE  Living!Evolve
<1>1. IsStore(Shown) /\ IsStore(Shown') /\ IdsIssued(Shown')
  BY ShownFacts, ShownFactsNext
<1>2. Extends(Shown, Shown')
  BY <1>1, ExtendsReflexive DEF Extends
<1>3. QED
  BY <1>1, <1>2, EvolveStep

(* The steps of to_state: open, stutter, give up or save.                  *)
LEMMA ToStateRefines ==
  ASSUME Core, Core', ReaderOK, ToState
  PROVE  Living!Next \/ UNCHANGED Living!vars
<1>0. UNCHANGED <<live, revision, lock, batch, incarnation>> /\ UNCHANGED Shown
  BY DEF ToState, BeginSave, SaveText, SaveProvenance, SaveStatus, SaveRaises,
         EndLoop, SaveNarrative, SaveCounters, disk, Shown, batch
<1>1. CASE BeginSave
  <2>1. Shown.entries = live.entries
    BY ShownFacts
  <2>2. Living!Open
    BY <1>0, <1>1, <2>1 DEF BeginSave, Living!Open, disk
  <2>3. QED
    BY <2>2 DEF Living!Next
<1>2. CASE \/ \E i \in DOMAIN Iterated : SaveText(i)
           \/ SaveProvenance \/ SaveStatus \/ EndLoop \/ SaveNarrative
  BY <1>0, <1>2 DEF SaveText, SaveProvenance, SaveStatus, EndLoop, SaveNarrative,
     Living!vars, disk
<1>3. CASE SaveRaises
  <2>1. Living!GiveUp
    BY <1>0, <1>3 DEF SaveRaises, StopSaving, Living!GiveUp, disk
  <2>2. QED
    BY <2>1 DEF Living!Next
<1>4. CASE SaveCounters
  <2>1. /\ saving = "counters" /\ saving' = "idle" /\ saved'.entries = taken
    BY <1>4 DEF SaveCounters, StopSaving
  <2>2. /\ DOMAIN taken = DOMAIN opened /\ Shown.entries = live.entries
        /\ \A i \in DOMAIN taken : Between(opened[i], taken[i], live.entries[i])
    BY <2>1, ShownFacts DEF ReaderOK
  <2>3. Living!Save
    BY <1>0, <2>1, <2>2 DEF Living!Save, Living!Torn, Living!Evolves, Between, Evolves
  <2>4. QED
    BY <2>3 DEF Living!Next
<1>5. QED
  BY <1>1, <1>2, <1>3, <1>4 DEF ToState

(* Every step of the store is a step of the promise or a stutter.          *)
LEMMA StepRefines == IInv /\ IInv' /\ [Next]_vars => [Living!Next]_(Living!vars)
<1> SUFFICES ASSUME Core, Core', ReaderOK, [Next]_vars
             PROVE  Living!Next \/ UNCHANGED Living!vars
  BY DEF IInv
<1>1. CASE UNCHANGED vars
  BY <1>1 DEF vars, disk, reader, batch, Living!vars, Shown
<1>2. ASSUME NEW t \in Threads,
             BeginApply(t) \/ EndApply(t) \/ BeginAtomic(t) \/ TransactionSnapshot(t)
      PROVE  UNCHANGED Living!vars
  <2>1. /\ UNCHANGED <<live, disk, reader>>
        /\ lock = NoThread \/ pc[t] = "applying"
        /\ pc'[t] \notin Installing /\ \A u \in Threads \ {t} : pc'[u] = pc[u]
    BY <1>2 DEF BeginApply, EndApply, BeginAtomic, TransactionSnapshot, Finish,
       Become, Core, TypeOK, Installing
  <2>2. \A u \in Threads : pc[u] \notin Installing
    BY <2>1, HolderAlone
  <2>3. \A u \in Threads : pc'[u] \notin Installing
    BY <2>1, <2>2
  <2>4. Shown = live /\ Shown' = live'
    BY <2>2, <2>3 DEF Shown
  <2>5. QED
    BY <2>1, <2>4 DEF Living!vars, disk, reader
<1>3. ASSUME NEW t \in Threads, AbandonTrial(t) \/ \E op \in Ops : ApplyOnCopy(t, op)
      PROVE  UNCHANGED Living!vars
  <2>1. /\ UNCHANGED <<live, lock, disk, reader>>
        /\ pc[t] \in {"atomic", "open"} /\ pc'[t] \notin Installing
        /\ \A u \in Threads \ {t} : pc'[u] = pc[u] /\ trial'[u] = trial[u]
    BY <1>3 DEF AbandonTrial, ApplyOnCopy, Finish, Become, Core, TypeOK, Installing
  <2>2. \A u \in Threads : pc'[u] \in Installing <=> pc[u] \in Installing
    BY <2>1 DEF Installing
  <2>3. \A u \in Threads : pc[u] \in Installing => trial'[u] = trial[u]
    BY <2>1 DEF Installing
  <2>4. Shown' = Shown
    <3>1. CASE InstallingNow
      BY <2>1, <2>2, <2>3, <3>1 DEF Shown, InstallingNow
    <3>2. CASE ~InstallingNow
      BY <2>1, <2>2, <3>2 DEF Shown, InstallingNow
    <3>3. QED
      BY <3>1, <3>2
  <2>5. QED
    BY <2>1, <2>4 DEF Living!vars, disk, reader
<1>4. ASSUME NEW t \in Threads, NEW op \in Ops, ApplyInPlace(t, op)
      PROVE  Living!Evolve
  <2>1. /\ live' = AfterOp(live, op) /\ UNCHANGED <<disk, reader, pc>>
        /\ pc[t] = "applying"
    BY <1>4 DEF ApplyInPlace
  <2>2. /\ IsStore(live) /\ IdsIssued(live)
        /\ \A u \in Threads : pc[u] \notin Installing
    BY <2>1, HolderAlone
  <2>3. Shown = live /\ Shown' = live'
    BY <2>1, <2>2 DEF Shown
  <2>4. Extends(live, live') /\ IdsIssued(live')
    BY <2>1, <2>2, OpsAreOps, AfterOpExtends
  <2>5. QED
    BY <2>1, <2>3, <2>4, EvolveStep DEF reader
<1>5. ASSUME NEW t \in Threads, EndAtomic(t)
      PROVE  Living!Evolve \/ UNCHANGED Living!vars
  <2>1. pc[t] = "atomic" /\ lock = t
    BY <1>5 DEF EndAtomic, Core, Locking
  <2>2. CASE rejected[t] \/ ~applied[t]
    <3>1. /\ UNCHANGED <<live, disk, reader>> /\ pc'[t] \notin Installing
          /\ \A u \in Threads \ {t} : pc'[u] = pc[u]
      BY <1>5, <2>2 DEF EndAtomic, Finish, Become, Core, TypeOK, Installing
    <3>2. \A u \in Threads : pc[u] \notin Installing
      BY <2>1, HolderAlone
    <3>3. \A u \in Threads : pc'[u] \notin Installing
      BY <3>1, <3>2
    <3>4. Shown = live /\ Shown' = live'
      BY <3>2, <3>3 DEF Shown
    <3>5. QED
      BY <3>1, <3>4 DEF Living!vars, disk, reader
  <2>3. CASE ~(rejected[t] \/ ~applied[t])
    <3>1. InstallEntries(t)
      BY <1>5, <2>3 DEF EndAtomic
    <3>2. Extends(live, trial[t])
      BY <2>1 DEF Core, TrialsExtend, Current
    <3>3. QED
      BY <2>1, <3>1, <3>2, InstallEntriesEvolves
  <2>4. QED
    BY <2>2, <2>3
<1>6. ASSUME NEW t \in Threads, CommitTrial(t)
      PROVE  Living!Evolve
  <2>1. /\ pc[t] = "open" /\ lock = NoThread /\ base[t] = revision
        /\ InstallEntries(t)
    BY <1>6 DEF CommitTrial
  <2>2. ~MidBatch
    BY <2>1, ThreadsAssumption DEF Core, MidBatch, Locking
  <2>3. Extends(live, trial[t])
    BY <2>1, <2>2 DEF Core, TrialsExtend, Current
  <2>4. QED
    BY <2>1, <2>3, InstallEntriesEvolves
<1>7. ASSUME NEW t \in Threads, InstallNarrative(t)
      PROVE  Living!Evolve
  <2>1. /\ live' = [live EXCEPT !.narrative = trial[t].narrative]
        /\ pc[t] = "narrative" /\ pc'[t] = "counters" /\ lock = t
        /\ UNCHANGED <<lock, trial, disk, reader>>
    BY <1>7 DEF InstallNarrative, Become, Core, TypeOK, Locking, Installing
  <2>2. /\ Shown = [live EXCEPT !.counters = trial[t].counters]
        /\ Shown' = [live' EXCEPT !.counters = trial[t].counters]
    BY <2>1 DEF Shown, Installing
  <2>3. Shown'.entries = Shown.entries /\ Shown'.counters = Shown.counters
    BY <2>1, <2>2 DEF Core, TypeOK, IsStore
  <2>4. QED
    BY <2>1, <2>3, SameEntriesEvolve DEF reader
<1>8. ASSUME NEW t \in Threads, InstallCounters(t)
      PROVE  UNCHANGED Living!vars
  <2>1. /\ live' = [live EXCEPT !.counters = trial[t].counters]
        /\ pc[t] = "counters" /\ lock = t /\ lock' = NoThread
        /\ UNCHANGED <<disk, reader>>
    BY <1>8 DEF InstallCounters, Core, Locking, Installing
  <2>2. Shown = [live EXCEPT !.counters = trial[t].counters]
    BY <2>1 DEF Shown, Installing
  <2>3. Shown' = live'
    BY <2>1, ThreadsAssumption DEF Shown
  <2>4. QED
    BY <2>1, <2>2, <2>3 DEF Living!vars, disk, reader
<1>9. ASSUME NEW n \in Narratives, SetNarrative(n)
      PROVE  Living!Evolve
  <2>1. /\ live' = [live EXCEPT !.narrative = n] /\ UNCHANGED <<lock, pc, trial>>
        /\ UNCHANGED <<disk, reader>>
    BY <1>9 DEF SetNarrative, batch
  <2>2. Shown'.entries = Shown.entries /\ Shown'.counters = Shown.counters
    <3>1. CASE InstallingNow
      BY <2>1, <3>1 DEF Shown, InstallingNow, Core, TypeOK, IsStore
    <3>2. CASE ~InstallingNow
      BY <2>1, <3>2 DEF Shown, InstallingNow, Core, TypeOK, IsStore
    <3>3. QED
      BY <3>1, <3>2
  <2>3. QED
    BY <2>1, <2>2, SameEntriesEvolve DEF reader
<1>10. CASE Restart
  <2>1. live'.entries = saved.entries
    BY <1>10 DEF Restart, Core, TypeOK, IsStore
  <2>2. IdsIssued(Shown') /\ Shown'.entries = live'.entries
    BY ShownFactsNext
  <2>3. Living!Reload
    BY <1>10, <2>1, <2>2 DEF Restart, StopSaving, Living!Reload, Living!IdsIssued,
         Living!Number, Living!SectionOf, IdsIssued, Number, SectionOf
  <2>4. QED
    BY <2>3 DEF Living!Next
<1>11. QED
  BY <1>1, <1>2, <1>3, <1>4, <1>5, <1>6, <1>7, <1>8, <1>9, <1>10, ToStateRefines
  DEF Next, Living!Next

(* The locked, transactional store beside its unlocked readers implements  *)
(* the memory its docstring promises.                                      *)
THEOREM StoreImplementsSummary == Spec => ImplementsLivingSummary
<1>1. Init => Living!Init
  BY DEF Init, NotSaving, Installing, Shown, Living!Init, EmptyStore, Living!EmptyStore
<1>2. QED
  BY <1>1, StepRefines, Invariance, PTL DEF Spec, Living!Spec,
     ImplementsLivingSummary

-----------------------------------------------------------------------------
(* The revision check is exact when no malformed UPDATE reaches the store. *)

SnapshotsCurrent ==
  \A t \in Threads :
    pc[t] = "open" /\ base[t] = revision /\ ~MidBatch
    => /\ live.entries = snapshot[t].entries
       /\ live.counters = snapshot[t].counters

(* Without unsortable provenance a rejected op leaves no trace.            *)
LEMMA RejectedOpChangesNothing ==
  ASSUME NEW s, NEW op \in Ops, Sortable = {TRUE}, ~Accepted(s, op)
  PROVE  AfterOp(s, op) = s
<1>1. op.kind = "UPDATE" => op.sortable
  BY DEF Ops, AddOp, UpdateOp, SupersedeOp, PlainOps
<1>2. ~Updatable(s, op)
  BY <1>1 DEF Accepted, Updatable
<1>3. QED
  BY <1>2 DEF AfterOp, Accepted

(* A step that moves no revision a trial is based on, or the trial's own   *)
(* snapshot: what is left is that live is the same.                        *)
LEMMA NextSnapshots ==
  ASSUME Sortable = {TRUE}, Core, SnapshotsCurrent, [Next]_vars
  PROVE  SnapshotsCurrent'
<1> SUFFICES ASSUME NEW u \in Threads, (pc[u] = "open" /\ base[u] = revision
                                           /\ ~MidBatch)'
             PROVE  /\ live'.entries = snapshot'[u].entries
                    /\ live'.counters = snapshot'[u].counters
  BY DEF SnapshotsCurrent
<1> USE DEF SnapshotsCurrent
<1>1. CASE UNCHANGED vars
  BY <1>1 DEF vars, batch, MidBatch
<1>2. ASSUME NEW t \in Threads, BeginApply(t)
      PROVE  UNCHANGED <<live, snapshot>> /\ pc[u] = "open" /\ base[u] = revision
               /\ ~MidBatch
  BY <1>2, ThreadsAssumption DEF BeginApply, Become, Core, TypeOK, MidBatch, Locking,
     Installing
<1>3. ASSUME NEW t \in Threads, NEW op \in Ops, ApplyInPlace(t, op)
      PROVE  UNCHANGED <<live, snapshot>> /\ pc[u] = "open" /\ base[u] = revision
               /\ ~MidBatch
  <2>1. ~applied'[t] /\ ~Accepted(live, op) /\ ~MidBatch
    BY <1>3 DEF ApplyInPlace, Judge, MidBatch, Core, TypeOK
  <2>2. live' = live
    BY <1>3, <2>1, RejectedOpChangesNothing DEF ApplyInPlace
  <2>3. QED
    BY <1>3, <2>1, <2>2 DEF ApplyInPlace
<1>4. ASSUME NEW t \in Threads, Finish(t), UNCHANGED <<live, revision>>,
             pc[t] = "applying" => ~applied[t], pc[t] \notin Installing
      PROVE  /\ live' = live /\ snapshot'[u] = snapshot[u]
             /\ pc[u] = "open" /\ base[u] = revision /\ ~MidBatch
  <2>1. u # t
    BY <1>4, FinishTypes
  <2>2. pc'[u] = pc[u] /\ base'[u] = base[u] /\ snapshot'[u] = snapshot[u]
    BY <1>4, <2>1, FinishTypes DEF Finish, Core, TypeOK
  <2>3. ~MidBatch
    BY <1>4, FinishTypes DEF MidBatch, Installing
  <2>4. QED
    BY <1>4, <2>2, <2>3
<1>5. ASSUME NEW t \in Threads, Finish(t), revision' = revision + 1
      PROVE  FALSE
  <2>1. pc[u] = "open" /\ base[u] = revision + 1
    BY <1>5, FinishTypes
  <2>2. QED
    BY <2>1 DEF Core, BaseNotAhead, TypeOK
<1>6. ASSUME NEW t \in Threads, EndApply(t)
      PROVE  /\ live' = live /\ snapshot'[u] = snapshot[u]
             /\ pc[u] = "open" /\ base[u] = revision /\ ~MidBatch
  BY <1>4, <1>5, <1>6 DEF EndApply, Installing
<1>7. ASSUME NEW t \in Threads, EndAtomic(t) \/ CommitTrial(t) \/ AbandonTrial(t)
      PROVE  /\ live' = live /\ snapshot'[u] = snapshot[u]
             /\ pc[u] = "open" /\ base[u] = revision /\ ~MidBatch
  <2>1. ~InstallEntries(t)
    BY DEF InstallEntries, Become, MidBatch, Installing, Core, TypeOK
  <2>2. Finish(t) /\ UNCHANGED <<live, revision>> /\ pc[t] \in {"atomic", "open"}
    BY <1>7, <2>1 DEF EndAtomic, CommitTrial, AbandonTrial
  <2>3. QED
    BY <1>4, <2>2 DEF Installing
<1>7a. ASSUME NEW t \in Threads, InstallNarrative(t) \/ InstallCounters(t)
       PROVE  FALSE
  <2>1. CASE InstallNarrative(t)
    BY <2>1 DEF InstallNarrative, Become, MidBatch, Installing, Core, TypeOK
  <2>2. CASE InstallCounters(t)
    BY <1>5, <2>2 DEF InstallCounters
  <2>3. QED
    BY <1>7a, <2>1, <2>2
<1>8. ASSUME NEW t \in Threads, BeginAtomic(t) \/ TransactionSnapshot(t)
      PROVE  \/ snapshot'[u] = live /\ live' = live
             \/ /\ live' = live /\ snapshot'[u] = snapshot[u]
                /\ pc[u] = "open" /\ base[u] = revision /\ ~MidBatch
  <2>1. lock = NoThread /\ CopyLive(t) /\ UNCHANGED <<live, revision>>
    BY <1>8 DEF BeginAtomic, TransactionSnapshot
  <2>2. ~MidBatch
    BY <2>1, ThreadsAssumption DEF Core, MidBatch, Locking
  <2>3. CASE u = t
    BY <2>1, <2>3 DEF CopyLive, Core, TypeOK
  <2>4. CASE u # t
    BY <1>8, <2>1, <2>2, <2>4 DEF CopyLive, BeginAtomic, TransactionSnapshot,
       Become, Core, TypeOK
  <2>5. QED
    BY <2>3, <2>4
<1>9. ASSUME NEW t \in Threads, NEW op \in Ops, ApplyOnCopy(t, op)
      PROVE  UNCHANGED <<live, snapshot>> /\ pc[u] = "open" /\ base[u] = revision
               /\ ~MidBatch
  BY <1>9 DEF ApplyOnCopy, Judge, MidBatch, Core, TypeOK
<1>10. ASSUME NEW n \in Narratives, SetNarrative(n)
       PROVE  /\ live'.entries = live.entries /\ live'.counters = live.counters
              /\ snapshot' = snapshot /\ pc[u] = "open" /\ base[u] = revision
              /\ ~MidBatch
  BY <1>10 DEF SetNarrative, batch, MidBatch, Core, TypeOK, IsStore
<1>11. CASE ToState
  BY <1>11 DEF ToState, BeginSave, SaveText, SaveProvenance, SaveStatus, SaveRaises,
     EndLoop, SaveNarrative, SaveCounters, batch, MidBatch
<1>12. CASE Restart
  BY <1>12 DEF Restart
<1>13. CASE \E t \in Threads : BeginApply(t) \/ EndApply(t)
  BY <1>2, <1>6, <1>13
<1>14. CASE \E t \in Threads : BeginAtomic(t) \/ EndAtomic(t)
                               \/ TransactionSnapshot(t) \/ CommitTrial(t)
                               \/ AbandonTrial(t)
  BY <1>7, <1>8, <1>14
<1>15. CASE \E t \in Threads, op \in Ops : ApplyInPlace(t, op) \/ ApplyOnCopy(t, op)
  BY <1>3, <1>9, <1>15
<1>16. CASE \E n \in Narratives : SetNarrative(n)
  BY <1>10, <1>16
<1>16a. CASE \E t \in Threads : InstallNarrative(t) \/ InstallCounters(t)
  BY <1>7a, <1>16a
<1>17. QED
  BY <1>1, <1>11, <1>12, <1>13, <1>14, <1>15, <1>16, <1>16a DEF Next

(* commit_trial installs only on the memory its trial was copied from.     *)
THEOREM CommitsLoseNoUpdate ==
  ASSUME Sortable = {TRUE}
  PROVE  Spec => []NoLostUpdate
<1>1. Init => SnapshotsCurrent
  BY DEF Init, SnapshotsCurrent
<1>2. IInv /\ SnapshotsCurrent /\ [Next]_vars => SnapshotsCurrent'
  BY NextSnapshots DEF IInv
<1>3. IInv /\ SnapshotsCurrent => NoLostUpdate
  <2>1. IInv /\ lock = NoThread => ~MidBatch
    BY ThreadsAssumption DEF IInv, Core, MidBatch, Locking
  <2>2. QED
    BY <2>1 DEF SnapshotsCurrent, NoLostUpdate
<1>4. QED
  BY <1>1, <1>2, <1>3, Invariance, PTL DEF Spec
=============================================================================
