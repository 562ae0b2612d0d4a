---------------------------- MODULE UpdaterProofs ----------------------------
(***************************************************************************)
(* Proofs about the updater: what one update reports is what it did to its *)
(* trial, and a turn that is still in the conversation has left nothing in *)
(* the memory; what the prompt shows the model fills its budget, pinned    *)
(* entries first, holds an exact subject's entry and its predecessors, and *)
(* the filter of its answer keeps a reversal whole; and of the turns, the  *)
(* model reads the latest exchanges, none in part.  They hold for every    *)
(* set of turns, texts and model answers, any length of an answer, any     *)
(* number of turns and of retries, every memory and every budget.          *)
(***************************************************************************)
EXTENDS UpdateBatch, UpdatePrompt, MemoryOpsProofs, SequenceLemmas

(* The stores as a set, for a fold's results to range over.                *)
Stores == [entries   : UNION {[D -> Entry] : D \in SUBSET Id},
           counters  : [Sections -> Nat],
           narrative : Narratives]

(* The set of stores and the predicate agree.                              *)
LEMMA StoreSet ==
  ASSUME NEW s
  PROVE  s \in Stores <=> IsStore(s)
<1>1. ASSUME s \in Stores PROVE IsStore(s)
  <2>1. PICK D \in SUBSET Id : s.entries \in [D -> Entry]
    BY <1>1 DEF Stores
  <2>2. QED
    BY <1>1, <2>1 DEF Stores, IsStore
<1>2. ASSUME IsStore(s) PROVE s \in Stores
  <2>1. DOMAIN s.entries \in SUBSET Id /\ s.entries \in [DOMAIN s.entries -> Entry]
    BY <1>2 DEF IsStore
  <2>2. QED
    BY <1>2, <2>1 DEF Stores, IsStore
<1>3. QED
  BY <1>1, <1>2

-----------------------------------------------------------------------------
(* Batches of ops.                                                         *)

(* What a batch has come to after one more op.                             *)
Applied(r, op) == [store |-> AfterOp(r.store, op),
                   ok |-> r.ok /\ Accepted(r.store, op)]

(* The two fields of a batch after one more op.                            *)
LEMMA AppliedFields ==
  ASSUME NEW r, NEW op
  PROVE  /\ Applied(r, op).store = AfterOp(r.store, op)
         /\ Applied(r, op).ok \in BOOLEAN
         /\ r.ok = TRUE /\ Accepted(r.store, op) => Applied(r, op).ok = TRUE
BY DEF Applied

(* h[k] is what a batch has come to after its k-th op.                     *)
RunTable(h, s, ops) ==
  /\ h \in [0..Len(ops) -> [store: Stores, ok: BOOLEAN]]
  /\ h[0] = [store |-> s, ok |-> TRUE]
  /\ h[Len(ops)] = Run(s, ops)
  /\ \A k \in 1..Len(ops) : h[k] = Applied(h[k - 1], ops[k])

(* Running ops one after the other, as a table: what the store is, and     *)
(* whether all ops were accepted, after each of them.                      *)
LEMMA RunSteps ==
  ASSUME NEW s \in Stores, NEW ops \in Seq(Op)
  PROVE  \E h : RunTable(h, s, ops)
<1> DEFINE N == Len(ops)
           R == [store: Stores, ok: BOOLEAN]
           base == [store |-> s, ok |-> TRUE]
           step == [p \in R \X (1..N) |-> Applied(p[1], ops[p[2]])]
           Eq(g) == g = [t \in SUBSET DOMAIN ops |->
                           IF t = {} THEN base
                           ELSE Applied(g[t \ {Max(t)}], ops[Max(t)])]
           g == CHOOSE f : Eq(f)
<1>1. N \in Nat /\ DOMAIN ops = 1..N /\ \A k \in 1..N : ops[k] \in Op
  OBVIOUS
<1>2. base \in R
  OBVIOUS
<1>3. \A r \in R, k \in 1..N : Applied(r, ops[k]) \in R
  <2> SUFFICES ASSUME NEW r \in R, NEW k \in 1..N
               PROVE  Applied(r, ops[k]) \in R
    OBVIOUS
  <2>1. AfterOp(r.store, ops[k]) \in Stores
    BY <1>1, AfterOpType, StoreSet
  <2>2. QED
    BY <2>1 DEF Applied
<1>4. Run(s, ops) = g[DOMAIN ops]
  BY DEF Run, FoldLeft, MapThenFoldSet, Applied
<1> HIDE DEF R, base, N, g
<1>5. IsStep(step, R, N)
  BY <1>3 DEF IsStep
<1>6. \A r \in R, k \in 1..N : step[<<r, k>>] = Applied(r, ops[k])
  OBVIOUS
<1> HIDE DEF step
<1>7. Recurses(g, R, base, N, step)
  <2>1. PICK f : f \in [SUBSET (1..N) -> R] /\ Recurses(f, R, base, N, step)
    BY <1>1, <1>2, <1>5, SubsetRecursion
  <2>2. \A t \in SUBSET (1..N) : t # {} => /\ Max(t) \in 1..N
                                           /\ t \ {Max(t)} \in SUBSET (1..N)
    BY <1>1, MaxOfInterval
  <2>3. Eq(f)
    BY <1>1, <1>6, <2>1, <2>2 DEF Recurses
  <2>4. Eq(g)
    BY <2>3 DEF g
  <2>5. QED
    BY <1>1, <1>6, <2>2, <2>4 DEF Recurses
<1>8. PICK h : IsTable(h, R, base, N, step) /\ h[N] = g[1..N]
  BY <1>1, <1>2, <1>5, <1>7, FoldTable
<1>9. \A k \in 1..N : h[k] = Applied(h[k - 1], ops[k])
  <2> TAKE k \in 1..N
  <2>1. h[k - 1] \in R
    BY <1>1, <1>8 DEF IsTable
  <2>2. QED
    BY <1>6, <1>8, <2>1 DEF IsTable
<1>10. /\ h \in [0..N -> R] /\ h[0] = base
       /\ h[N] = Run(s, ops)
  BY <1>1, <1>4, <1>8 DEF IsTable
<1>11. RunTable(h, s, ops)
  BY <1>9, <1>10 DEF RunTable, N, R, base
<1>12. QED
  BY <1>11

(* Every op of Q takes a store of J to a store of J.                       *)
Preserves(Q, J) == \A u \in J, op \in Q : AfterOp(u, op) \in J
(* Each op of Q is accepted by each store of J.                            *)
AcceptedOn(Q, J) == \A u \in J, op \in Q : Accepted(u, op)

(* What every op of a batch preserves, the batch preserves; and a batch is *)
(* accepted if every op of it is on the stores it may meet.                *)
LEMMA RunPreserves ==
  ASSUME NEW J \in SUBSET Stores, NEW Q \in SUBSET Op, Preserves(Q, J),
         NEW s \in J, NEW ops \in Seq(Q)
  PROVE  /\ Run(s, ops).store \in J
         /\ AcceptedOn(Q, J) => Run(s, ops).ok = TRUE
<1> DEFINE N == Len(ops)
<1>1. N \in Nat /\ ops \in Seq(Op) /\ \A k \in 1..N : ops[k] \in Q
  OBVIOUS
<1>2. PICK h : RunTable(h, s, ops)
  BY <1>1, RunSteps
<1>3. /\ h[0] = [store |-> s, ok |-> TRUE] /\ h[N] = Run(s, ops)
      /\ \A k \in 1..N : h[k] = Applied(h[k - 1], ops[k])
  BY <1>2 DEF RunTable
<1> DEFINE T == {k \in 0..N : /\ h[k].store \in J
                              /\ AcceptedOn(Q, J) => h[k].ok = TRUE}
<1>4. 0 \in T
  BY <1>1, <1>3
<1>5. \A k \in 1..N : k - 1 \in T => k \in T
  <2> SUFFICES ASSUME NEW k \in 1..N, k - 1 \in T PROVE k \in T
    OBVIOUS
  <2>1. /\ h[k - 1].store \in J /\ ops[k] \in Q /\ k \in 0..N
        /\ AcceptedOn(Q, J) => h[k - 1].ok = TRUE
    BY <1>1
  <2>2. h[k] = Applied(h[k - 1], ops[k])
    BY <1>3
  <2>3. h[k].store \in J
    <3>1. h[k].store = AfterOp(h[k - 1].store, ops[k])
      BY <2>2 DEF Applied
    <3>2. QED
      BY <2>1, <3>1 DEF Preserves
  <2>4. AcceptedOn(Q, J) => h[k].ok = TRUE
    BY <2>1, <2>2, AppliedFields DEF AcceptedOn
  <2>5. QED
    BY <2>1, <2>3, <2>4
<1> HIDE DEF T, N
<1>6. \A k \in 0..N : k \in T
  BY <1>1, <1>4, <1>5, Induction
<1>7. N \in T
  BY <1>1, <1>6
<1>8. QED
  BY <1>3, <1>7 DEF T

(* Applying two batches one after the other is applying the one that joins *)
(* them.                                                                   *)
LEMMA RunConcatenation ==
  ASSUME NEW s \in Stores, NEW a \in Seq(Op), NEW b \in Seq(Op)
  PROVE  Run(s, a \o b).store = Run(Run(s, a).store, b).store
<1> DEFINE M == Len(a)
           N == Len(b)
           ab == a \o b
<1>1. /\ M \in Nat /\ N \in Nat /\ ab \in Seq(Op) /\ Len(ab) = M + N
      /\ \A k \in 1..M : ab[k] = a[k]
      /\ \A k \in 1..N : ab[M + k] = b[k]
  OBVIOUS
<1>2. PICK f : RunTable(f, s, a)
  BY RunSteps
<1>3. PICK h : RunTable(h, s, ab)
  BY <1>1, RunSteps
<1>4. Run(s, a).store \in Stores
  BY <1>1, <1>2 DEF RunTable
<1>5. PICK g : RunTable(g, Run(s, a).store, b)
  BY <1>4, RunSteps
<1>6. \A k \in 0..M : h[k].store = f[k].store
  <2> DEFINE T == {k \in 0..M : h[k].store = f[k].store}
  <2>1. 0 \in T
    BY <1>1, <1>2, <1>3 DEF RunTable
  <2>2. \A k \in 1..M : k - 1 \in T => k \in T
    <3> SUFFICES ASSUME NEW k \in 1..M, k - 1 \in T PROVE k \in T
      OBVIOUS
    <3>1. h[k - 1].store = f[k - 1].store /\ k \in 0..M /\ k \in 1..Len(ab)
      BY <1>1
    <3>2. h[k].store = AfterOp(h[k - 1].store, ab[k])
      <4>1. h[k] = Applied(h[k - 1], ab[k])
        BY <1>3, <3>1 DEF RunTable
      <4>2. QED
        BY <4>1 DEF Applied
    <3>3. f[k].store = AfterOp(f[k - 1].store, a[k])
      <4>1. f[k] = Applied(f[k - 1], a[k])
        BY <1>2 DEF RunTable
      <4>2. QED
        BY <4>1 DEF Applied
    <3>4. QED
      BY <1>1, <3>1, <3>2, <3>3
  <2> HIDE DEF T, M
  <2>3. \A k \in 0..M : k \in T
    BY <1>1, <2>1, <2>2, Induction
  <2>4. QED
    BY <2>3 DEF T
<1>7. h[M].store = Run(s, a).store
  BY <1>1, <1>2, <1>6 DEF RunTable
<1>8. \A k \in 0..N : h[M + k].store = g[k].store
  <2> DEFINE T == {k \in 0..N : h[M + k].store = g[k].store}
  <2>1. 0 \in T
    <3>1. M + 0 = M
      BY <1>1
    <3>2. g[0].store = Run(s, a).store
      BY <1>5 DEF RunTable
    <3>3. QED
      BY <1>1, <1>7, <3>1, <3>2
  <2>2. \A k \in 1..N : k - 1 \in T => k \in T
    <3> SUFFICES ASSUME NEW k \in 1..N, k - 1 \in T PROVE k \in T
      OBVIOUS
    <3>1. /\ h[M + (k - 1)].store = g[k - 1].store
          /\ k \in 0..N /\ M + k \in 1..Len(ab) /\ (M + k) - 1 = M + (k - 1)
      BY <1>1
    <3>2. h[M + k].store = AfterOp(h[M + (k - 1)].store, ab[M + k])
      <4>1. h[M + k] = Applied(h[(M + k) - 1], ab[M + k])
        BY <1>3, <3>1 DEF RunTable
      <4>2. h[M + k] = Applied(h[M + (k - 1)], ab[M + k])
        BY <3>1, <4>1
      <4>3. QED
        BY <4>2 DEF Applied
    <3>3. g[k].store = AfterOp(g[k - 1].store, b[k])
      <4>1. g[k] = Applied(g[k - 1], b[k])
        BY <1>5 DEF RunTable
      <4>2. QED
        BY <4>1 DEF Applied
    <3>4. QED
      BY <1>1, <3>1, <3>2, <3>3
  <2> HIDE DEF T, N
  <2>3. \A k \in 0..N : k \in T
    BY <1>1, <2>1, <2>2, Induction
  <2>4. QED
    BY <2>3 DEF T
<1>9. h[M + N].store = g[N].store
  BY <1>1, <1>8
<1>10. QED
  BY <1>1, <1>3, <1>5, <1>9 DEF RunTable

-----------------------------------------------------------------------------
(* The ops an update may report.                                           *)

(* The ADDs the extractor of status changes may give for some turns.       *)
AddsFor(ids) == {AddOp(StatusChanges, t, {n}) : t \in Texts, n \in ids}

(* The ADD of a turn's statement is one of the ADDs for a set of turns     *)
(* that has the turn.                                                      *)
LEMMA AddsForElements ==
  ASSUME NEW ids, NEW text \in Texts, NEW n \in ids
  PROVE  AddOp(StatusChanges, text, {n}) \in AddsFor(ids)
BY DEF AddsFor

(* The deterministic pass adds status changes that cite the turns it reads. *)
LEMMA DeterministicAdds ==
  ASSUME BatchAssumption, said \in [TurnIds -> TurnKinds],
         NEW s, NEW ids \in SUBSET TurnIds
  PROVE  DeterministicOps(s, ids) \in Seq(AddsFor(ids))
<1> DEFINE all == [n \in 1..MaxTurns |-> n]
           in == Keep(all, ids)
           N == Len(in)
           R == Seq(AddsFor(ids))
           base == <<>>
           Seen(ops, n) == \/ HasActiveText(s, StatusChanges, said[n].statement)
                           \/ \E k \in DOMAIN ops : ops[k].text = said[n].statement
           Body(ops, n) == IF said[n].statement = NoStatement \/ Seen(ops, n) THEN ops
                           ELSE Append(ops, AddOp(StatusChanges, said[n].statement, {n}))
           step == [p \in R \X (1..N) |-> Body(p[1], in[p[2]])]
           Eq(g) == g = [t \in SUBSET DOMAIN in |->
                           IF t = {} THEN base ELSE Body(g[t \ {Max(t)}], in[Max(t)])]
           g == CHOOSE f : Eq(f)
<1>1. in \in Seq(Nat) /\ \A k \in 1..Len(in) : in[k] \in ids
  <2>1. all \in Seq(Nat)
    BY DEF BatchAssumption
  <2> HIDE DEF all
  <2>2. ToSet(in) = ToSet(all) \cap ids
    BY <2>1, KeepElements
  <2>3. in \in Seq(Nat)
    BY <2>1, KeepSublist
  <2> HIDE DEF in
  <2>4. \A k \in 1..Len(in) : in[k] \in ToSet(in)
    BY <2>3 DEF ToSet
  <2>5. QED
    BY <2>2, <2>3, <2>4
<1>2. DeterministicOps(s, ids) = g[DOMAIN in]
  BY DEF DeterministicOps, FoldLeft, MapThenFoldSet
<1> HIDE DEF in
<1>3. N \in Nat /\ DOMAIN in = 1..N /\ \A k \in 1..N : in[k] \in ids
  BY <1>1
<1>4. base \in R
  OBVIOUS
<1>5. \A r \in R, k \in 1..N : Body(r, in[k]) \in R
  <2> SUFFICES ASSUME NEW r \in R, NEW k \in 1..N PROVE Body(r, in[k]) \in R
    OBVIOUS
  <2>1. in[k] \in TurnIds /\ in[k] \in ids
    BY <1>3
  <2>2. said[in[k]] \in TurnKind
    BY <2>1 DEF BatchAssumption
  <2>3. said[in[k]].statement \in Texts \cup {NoStatement}
    BY <2>2 DEF TurnKind
  <2>4. said[in[k]].statement # NoStatement
          => AddOp(StatusChanges, said[in[k]].statement, {in[k]}) \in AddsFor(ids)
    BY <2>1, <2>3, AddsForElements
  <2> HIDE DEF Seen
  <2>5. QED
    BY <2>4
<1> HIDE DEF R, base, N, Body, g
<1>6. IsStep(step, R, N)
  BY <1>5 DEF IsStep
<1>7. \A r \in R, k \in 1..N : step[<<r, k>>] = Body(r, in[k])
  OBVIOUS
<1> HIDE DEF step
<1>8. Recurses(g, R, base, N, step)
  <2>1. PICK f : f \in [SUBSET (1..N) -> R] /\ Recurses(f, R, base, N, step)
    BY <1>3, <1>4, <1>6, SubsetRecursion
  <2>2. \A t \in SUBSET (1..N) : t # {} => /\ Max(t) \in 1..N
                                           /\ t \ {Max(t)} \in SUBSET (1..N)
    BY <1>3, MaxOfInterval
  <2>3. Eq(f)
    BY <1>3, <1>7, <2>1, <2>2 DEF Recurses
  <2>4. Eq(g)
    BY <2>3 DEF g
  <2>5. QED
    BY <1>3, <1>7, <2>2, <2>4 DEF Recurses
<1>9. PICK h : IsTable(h, R, base, N, step) /\ h[N] = g[1..N]
  BY <1>3, <1>4, <1>6, <1>8, FoldTable
<1>10. h[N] \in R
  BY <1>3, <1>9 DEF IsTable
<1>11. QED
  BY <1>2, <1>3, <1>9, <1>10 DEF R

(* Ops that cite nothing outside P, and stores that do not.                *)
OpsCiting(P) == {op \in Op : op.kind \in {"ADD", "UPDATE"} => op.prov \subseteq P}

(* A store whose entries cite turns of P only, and the set of those        *)
(* stores.                                                                 *)
Cites(s, P) == \A i \in DOMAIN s.entries : s.entries[i].prov \subseteq P

StoresCiting(P) == {u \in Stores : Cites(u, P) /\ IsFiniteSet(DOMAIN u.entries)}

(* An op that cites turns of P leaves a store that cites turns of P.       *)
LEMMA AfterOpCites ==
  ASSUME NEW P, NEW u \in StoresCiting(P), NEW op \in OpsCiting(P)
  PROVE  AfterOp(u, op) \in StoresCiting(P)
<1>1. IsStore(u) /\ op \in Op /\ Cites(u, P) /\ IsFiniteSet(DOMAIN u.entries)
  BY StoreSet DEF StoresCiting, OpsCiting
<1>2. AfterOp(u, op) \in Stores
  BY <1>1, AfterOpType, StoreSet
<1>3. ASSUME NEW i, NEW e, e.prov \subseteq P,
             AfterOp(u, op).entries = Put(u.entries, i, e)
      PROVE  Cites(AfterOp(u, op), P) /\ IsFiniteSet(DOMAIN AfterOp(u, op).entries)
  <2>1. DOMAIN Put(u.entries, i, e) = DOMAIN u.entries \cup {i}
    BY DEF Put
  <2>2. IsFiniteSet(DOMAIN u.entries \cup {i})
    BY <1>1, FS_AddElement
  <2>3. \A j \in DOMAIN u.entries \cup {i} : Put(u.entries, i, e)[j].prov \subseteq P
    BY <1>1, <1>3 DEF Put, Cites
  <2>4. QED
    BY <1>3, <2>1, <2>2, <2>3 DEF Cites
<1>4. Cites(AfterOp(u, op), P) /\ IsFiniteSet(DOMAIN AfterOp(u, op).entries)
  <2>1. CASE op.kind = "ADD"
    <3>1. AfterOp(u, op).entries
            = Put(u.entries, NextId(u, op.section),
                  [text |-> op.text, prov |-> op.prov, status |-> "active"])
      BY <1>1, <2>1 DEF AfterOp, Added, Updatable, IsStore
    <3>2. op.prov \subseteq P
      BY <2>1 DEF OpsCiting
    <3>3. QED
      BY <1>3, <3>1, <3>2
  <2>2. CASE Updatable(u, op)
    <3> DEFINE e == [u.entries[op.id] EXCEPT
                       !.text = op.text,
                       !.prov = IF op.sortable THEN @ \cup op.prov ELSE @]
    <3>1. AfterOp(u, op).entries = Put(u.entries, op.id, e)
      BY <1>1, <2>2 DEF AfterOp, Updated, Updatable, IsStore
    <3>2. op.prov \subseteq P /\ op.id \in DOMAIN u.entries
      BY <2>2 DEF OpsCiting, Updatable, ActiveIds
    <3>3. u.entries[op.id] \in Entry /\ u.entries[op.id].prov \subseteq P
      BY <1>1, <3>2 DEF IsStore, Cites
    <3>4. e.prov \subseteq P
      BY <3>2, <3>3 DEF Entry
    <3> HIDE DEF e
    <3>5. QED
      BY <1>3, <3>1, <3>4
  <2>3. CASE op.kind = "SUPERSEDE" /\ Holds(u, op.id)
    <3> DEFINE e == [u.entries[op.id] EXCEPT !.status = "superseded"]
    <3>1. AfterOp(u, op).entries = Put(u.entries, op.id, e)
      BY <1>1, <2>3 DEF AfterOp, Superseded, Updatable, IsStore
    <3>2. u.entries[op.id] \in Entry /\ u.entries[op.id].prov \subseteq P
      BY <1>1, <2>3 DEF IsStore, Cites, Holds
    <3>3. e.prov \subseteq P
      BY <3>2 DEF Entry
    <3> HIDE DEF e
    <3>4. QED
      BY <1>3, <3>1, <3>3
  <2>4. CASE ~(op.kind = "ADD") /\ ~Updatable(u, op)
               /\ ~(op.kind = "SUPERSEDE" /\ Holds(u, op.id))
    <3>1. AfterOp(u, op) = u
      BY <2>4 DEF AfterOp
    <3>2. QED
      BY <1>1, <3>1
  <2>5. QED
    BY <2>1, <2>2, <2>3, <2>4
<1>5. QED
  BY <1>2, <1>4 DEF StoresCiting

(* A batch that cites only P leaves a store that cites only P.             *)
LEMMA RunCites ==
  ASSUME NEW P, NEW s \in StoresCiting(P), NEW ops \in Seq(OpsCiting(P))
  PROVE  Run(s, ops).store \in StoresCiting(P)
<1>1. StoresCiting(P) \in SUBSET Stores /\ OpsCiting(P) \in SUBSET Op
  BY DEF StoresCiting, OpsCiting
<1>2. Preserves(OpsCiting(P), StoresCiting(P))
  BY AfterOpCites DEF Preserves
<1>3. QED
  BY <1>1, <1>2, RunPreserves

(* A batch of ADDs is always accepted.                                     *)
LEMMA AddsAccepted ==
  ASSUME BatchAssumption, NEW s \in Stores, NEW ids \in SUBSET TurnIds,
         NEW ops \in Seq(AddsFor(ids))
  PROVE  Run(s, ops).ok = TRUE
<1>1. AddsFor(ids) \in SUBSET Op /\ \A op \in AddsFor(ids) : op.kind = "ADD"
  BY DEF AddsFor, AddOp, Op, BatchAssumption
<1>2. Preserves(AddsFor(ids), Stores)
  BY <1>1, AfterOpType, StoreSet DEF Preserves
<1>3. AcceptedOn(AddsFor(ids), Stores)
  BY <1>1 DEF AcceptedOn, Accepted
<1>4. QED
  BY <1>1, <1>2, <1>3, RunPreserves

(* A consolidation cites what the entries it merges cite, and each of its  *)
(* ops is accepted: the entry kept is active throughout, and the others    *)
(* stay where they are.                                                    *)
LEMMA ConsolidationRuns ==
  ASSUME NEW P, trial \in StoresCiting(P),
         NEW cluster \in SUBSET ActiveIds(trial), NEW keep \in cluster
  PROVE  /\ ConsolidationOps(keep, cluster) \in Seq(OpsCiting(P))
         /\ Run(trial, ConsolidationOps(keep, cluster)).ok = TRUE
<1> DEFINE merged == UNION {trial.entries[i].prov : i \in cluster}
           first == UpdateOp(keep, trial.entries[keep].text, merged, TRUE)
           rest == {SupersedeOp(i) : i \in cluster \ {keep}}
           Q == {first} \cup rest
           J == {u \in Stores : /\ cluster \subseteq DOMAIN u.entries
                                /\ u.entries[keep].status = "active"}
<1>1. /\ IsStore(trial) /\ Cites(trial, P) /\ IsFiniteSet(DOMAIN trial.entries)
      /\ trial \in Stores
  BY StoreSet DEF StoresCiting
<1>2. /\ cluster \subseteq DOMAIN trial.entries /\ cluster \subseteq Id
      /\ trial.entries[keep].status = "active"
      /\ \A i \in cluster : trial.entries[i] \in Entry
  BY <1>1 DEF ActiveIds, IsStore
<1>3. first \in OpsCiting(P)
  <2>1. keep \in Id /\ trial.entries[keep].text \in Texts
    BY <1>2 DEF Entry
  <2>2. merged \subseteq TurnIds
    BY <1>2 DEF Entry
  <2>3. merged \subseteq P
    BY <1>1, <1>2 DEF Cites
  <2> HIDE DEF merged
  <2>4. first \in Op /\ first.prov = merged
    BY <2>1, <2>2 DEF UpdateOp, Op
  <2>5. QED
    BY <2>3, <2>4 DEF OpsCiting
<1>4. \A op \in rest : \E i \in cluster \ {keep} :
         op.kind = "SUPERSEDE" /\ op.id = i /\ op \in OpsCiting(P)
  <2> SUFFICES ASSUME NEW i \in cluster \ {keep}
               PROVE  /\ SupersedeOp(i).kind = "SUPERSEDE" /\ SupersedeOp(i).id = i
                      /\ SupersedeOp(i) \in OpsCiting(P)
    OBVIOUS
  <2>1. SupersedeOp(i) \in Op
    BY <1>2 DEF SupersedeOp, Op
  <2>2. SupersedeOp(i).kind = "SUPERSEDE" /\ SupersedeOp(i).id = i
    BY DEF SupersedeOp
  <2>3. QED
    BY <2>1, <2>2 DEF OpsCiting
<1>5. IsFiniteSet(rest)
  <2> DEFINE others == cluster \ {keep}
             b == [i \in others |-> SupersedeOp(i)]
  <2>1. IsFiniteSet(others)
    BY <1>1, <1>2, FS_Subset
  <2>2. b \in Bijection(others, rest)
    <3>1. \A i, j : SupersedeOp(i) = SupersedeOp(j) => i = j
      BY DEF SupersedeOp
    <3>2. b \in [others -> rest] /\ \A i \in others : b[i] = SupersedeOp(i)
      OBVIOUS
    <3>3. \A op \in rest : \E i \in others : b[i] = op
      BY <3>2
    <3> HIDE DEF b, others, rest
    <3>4. QED
      BY <3>1, <3>2, <3>3 DEF Bijection, Injection, Surjection, IsInjective
  <2>3. QED
    BY <2>1, <2>2, FS_Bijection DEF ExistsBijection
<1>6. SetToSeq(rest) \in Seq(rest)
  BY <1>5, SetToSeqElements
<1>7. ConsolidationOps(keep, cluster) = <<first>> \o SetToSeq(rest)
  BY DEF ConsolidationOps
<1> HIDE DEF first, rest
<1>8. ConsolidationOps(keep, cluster) \in Seq(Q)
  BY <1>6, <1>7
<1>9. Q \subseteq OpsCiting(P)
  BY <1>3, <1>4
<1>10. /\ first.kind = "UPDATE" /\ first.id = keep /\ first.sortable = TRUE
  BY DEF first, UpdateOp
<1>11. ASSUME NEW u \in J, NEW op \in Q
       PROVE  Accepted(u, op) /\ AfterOp(u, op) \in J
  <2>1. /\ IsStore(u) /\ cluster \subseteq DOMAIN u.entries /\ op \in Op
        /\ u.entries[keep].status = "active" /\ keep \in DOMAIN u.entries
        /\ u.entries[keep] \in Entry
    BY <1>9, StoreSet DEF OpsCiting, IsStore
  <2>2. AfterOp(u, op) \in Stores
    BY <2>1, AfterOpType, StoreSet
  <2>3. CASE op = first
    <3>1. Updatable(u, op) /\ Accepted(u, op)
      BY <1>10, <2>1, <2>3 DEF Updatable, ActiveIds, Accepted
    <3> DEFINE e == [u.entries[op.id] EXCEPT
                       !.text = op.text,
                       !.prov = IF op.sortable THEN @ \cup op.prov ELSE @]
    <3>2. AfterOp(u, op).entries = Put(u.entries, keep, e)
      BY <1>10, <2>1, <2>3, <3>1 DEF AfterOp, Updated, Updatable, IsStore
    <3>3. e.status = "active"
      BY <1>10, <2>1, <2>3 DEF Entry
    <3> HIDE DEF e
    <3>4. /\ cluster \subseteq DOMAIN AfterOp(u, op).entries
          /\ AfterOp(u, op).entries[keep].status = "active"
      BY <2>1, <3>2, <3>3 DEF Put
    <3>5. QED
      BY <2>2, <3>1, <3>4
  <2>4. CASE op \in rest
    <3>1. PICK i \in cluster \ {keep} : op.kind = "SUPERSEDE" /\ op.id = i
      BY <1>4, <2>4
    <3>2. Accepted(u, op) /\ Holds(u, op.id)
      BY <2>1, <3>1 DEF Accepted, Holds
    <3> DEFINE e == [u.entries[op.id] EXCEPT !.status = "superseded"]
    <3>3. AfterOp(u, op).entries = Put(u.entries, i, e)
      BY <2>1, <3>1, <3>2 DEF AfterOp, Superseded, Updatable, IsStore
    <3> HIDE DEF e
    <3>4. /\ cluster \subseteq DOMAIN AfterOp(u, op).entries
          /\ AfterOp(u, op).entries[keep] = u.entries[keep]
      BY <2>1, <3>1, <3>3 DEF Put
    <3>5. QED
      BY <2>1, <2>2, <3>2, <3>4
  <2>5. QED
    BY <2>3, <2>4
<1>12. /\ J \in SUBSET Stores /\ Q \in SUBSET Op /\ trial \in J
       /\ Preserves(Q, J) /\ AcceptedOn(Q, J)
  <2>1. J \in SUBSET Stores /\ Q \in SUBSET Op /\ trial \in J
    BY <1>1, <1>2, <1>9 DEF OpsCiting
  <2> HIDE DEF J, Q
  <2>2. QED
    BY <1>11, <2>1 DEF Preserves, AcceptedOn
<1> HIDE DEF J, Q
<1>13. Run(trial, ConsolidationOps(keep, cluster)).ok = TRUE
  BY <1>8, <1>12, RunPreserves
<1>14. ConsolidationOps(keep, cluster) \in Seq(OpsCiting(P))
  BY <1>8, <1>9
<1>15. QED
  BY <1>13, <1>14

-----------------------------------------------------------------------------
(* The inductive invariant.                                                *)

(* The types of the variables of an update, with finite stores.            *)
UpdateTypeOK ==
  /\ said \in [TurnIds -> TurnKinds]
  /\ IsStore(live) /\ IsFiniteSet(DOMAIN live.entries)
  /\ IsStore(trial) /\ IsFiniteSet(DOMAIN trial.entries)
  /\ recorded \subseteq TurnIds
  /\ batch \subseteq TurnIds
  /\ pc \in {"idle", "asking", "consolidating", "verifying"}
  /\ applied \in Seq(Op)

(* The report explains the trial at every point of the update, not only    *)
(* once the model has answered: a rejected answer is rolled back to it.    *)
ReportExplainsEveryTrial == pc # "idle" => trial = Run(live, applied).store

(* Only recorded turns and, in the trial, those of the batch are cited.    *)
OnlyTurnsSeenCited == Cites(live, recorded) /\ Cites(trial, recorded \cup batch)

(* The inductive invariant of the update: see the README.                  *)
IInv == UpdateTypeOK /\ ReportExplainsEveryTrial /\ OnlyTurnsSeenCited

(* A new memory is a store without entries.                                *)
LEMMA EmptyStoreIsStore == IsStore(EmptyStore) /\ IsFiniteSet(DOMAIN EmptyStore.entries)
<1>1. DOMAIN EmptyStore.entries = {} /\ EmptyStore.entries \in [{} -> Entry]
  BY DEF EmptyStore
<1>2. IsFiniteSet({})
  BY FS_EmptySet
<1>3. EmptyStore \in [entries: {EmptyStore.entries}, counters: [Sections -> Nat],
                      narrative: Narratives]
  BY NarrativeAssumption DEF EmptyStore
<1>4. QED
  BY <1>1, <1>2, <1>3 DEF IsStore

(* The stores of the invariant, with the turns they may cite.              *)
LEMMA StoresOfIInv ==
  ASSUME IInv
  PROVE  live \in StoresCiting(recorded) /\ trial \in StoresCiting(recorded \cup batch)
BY StoreSet DEF IInv, UpdateTypeOK, OnlyTurnsSeenCited, StoresCiting

(* What cites only turns of T cites only turns of a larger set.            *)
LEMMA CitingIsMonotone ==
  ASSUME NEW P, NEW T \in SUBSET P
  PROVE  /\ StoresCiting(T) \subseteq StoresCiting(P)
         /\ Seq(OpsCiting(T)) \subseteq Seq(OpsCiting(P))
<1>1. OpsCiting(T) \subseteq OpsCiting(P)
  BY DEF OpsCiting
<1>2. StoresCiting(T) \subseteq StoresCiting(P)
  BY DEF StoresCiting, Cites
<1>3. QED
  BY <1>1, <1>2

(* Before the first update the invariant holds.                            *)
LEMMA InitEstablishesIInv == Init => IInv
<1> SUFFICES ASSUME Init PROVE IInv
  OBVIOUS
<1>1. UpdateTypeOK
  BY EmptyStoreIsStore DEF Init, UpdateTypeOK
<1>2. OnlyTurnsSeenCited
  BY DEF Init, OnlyTurnsSeenCited, Cites, EmptyStore
<1>3. ReportExplainsEveryTrial
  BY DEF Init, ReportExplainsEveryTrial
<1>4. QED
  BY <1>1, <1>2, <1>3 DEF IInv

(* The update is over: what is left is the memory, committed or not.       *)
LEMMA ReturnKeepsIInv ==
  ASSUME IInv, Return, said' = said, recorded' \in SUBSET TurnIds,
         live' \in StoresCiting(recorded')
  PROVE  IInv'
<1>1. /\ IsStore(live') /\ IsFiniteSet(DOMAIN live'.entries) /\ Cites(live', recorded')
  BY StoreSet DEF StoresCiting
<1>2. IsStore(trial') /\ IsFiniteSet(DOMAIN trial'.entries)
  BY EmptyStoreIsStore DEF Return
<1>3. UpdateTypeOK'
  BY <1>1, <1>2 DEF IInv, UpdateTypeOK, Return
<1>4. OnlyTurnsSeenCited'
  BY <1>1 DEF OnlyTurnsSeenCited, Cites, EmptyStore, Return
<1>5. ReportExplainsEveryTrial'
  BY DEF ReportExplainsEveryTrial, Return
<1>6. QED
  BY <1>3, <1>4, <1>5 DEF IInv

(* The update goes on, on a trial that the reported ops explain.           *)
LEMMA UpdateKeepsIInv ==
  ASSUME IInv, UNCHANGED <<said, live, recorded>>, batch' \in SUBSET TurnIds,
         pc' \in {"asking", "consolidating", "verifying"},
         applied' \in Seq(Op), trial' = Run(live, applied').store,
         trial' \in StoresCiting(recorded \cup batch')
  PROVE  IInv'
<1>1. /\ IsStore(trial') /\ IsFiniteSet(DOMAIN trial'.entries)
      /\ Cites(trial', recorded \cup batch')
  BY StoreSet DEF StoresCiting
<1>2. UpdateTypeOK'
  BY <1>1 DEF IInv, UpdateTypeOK
<1>3. OnlyTurnsSeenCited'
  BY <1>1 DEF IInv, OnlyTurnsSeenCited, Cites
<1>4. ReportExplainsEveryTrial'
  BY DEF ReportExplainsEveryTrial
<1>5. QED
  BY <1>2, <1>3, <1>4 DEF IInv

(* A failed attempt, whether it is retried or the last one, keeps the      *)
(* invariant: the next attempt starts from the trial and the ops it had    *)
(* before.                                                                 *)
LEMMA TryAgainKeepsIInv ==
  ASSUME IInv, pc = "asking", TryAgain(trial), UNCHANGED <<said, live, recorded>>
  PROVE  IInv'
<1>1. CASE RetriesLeft
  <2>1. trial' = trial /\ applied' = applied /\ batch' = batch /\ pc' = "asking"
    BY <1>1 DEF TryAgain
  <2>2. trial \in StoresCiting(recorded \cup batch)
    BY StoresOfIInv
  <2>3. applied \in Seq(Op) /\ batch \in SUBSET TurnIds /\ trial = Run(live, applied).store
    BY DEF IInv, UpdateTypeOK, ReportExplainsEveryTrial
  <2>4. QED
    BY <2>1, <2>2, <2>3, UpdateKeepsIInv
<1>2. CASE ~RetriesLeft
  <2>1. Return
    BY <1>2 DEF TryAgain
  <2>2. live' \in StoresCiting(recorded') /\ recorded' \in SUBSET TurnIds
    BY StoresOfIInv DEF IInv, UpdateTypeOK
  <2>3. QED
    BY <2>1, <2>2, ReturnKeepsIInv
<1>3. QED
  BY <1>1, <1>2

(* What is kept of an answer that may be applied.                          *)
LEMMA KeptOps ==
  ASSUME BatchAssumption, NEW answer \in Replies
  PROVE  /\ Kept(answer) \in Seq(Op)
         /\ Presentable(answer) => Kept(answer) \in Seq(OpsCiting(batch))
<1>1. answer \in Seq(Op)
  BY DEF Replies, SeqOf, BatchAssumption
<1>2. Kept(answer) \in Seq(Op)
  BY <1>1, KeepSublist DEF Kept
<1>3. ASSUME Presentable(answer) PROVE Kept(answer) \in Seq(OpsCiting(batch))
  <2>1. \A k \in 1..Len(Kept(answer)) : Kept(answer)[k] \in OpsCiting(batch)
    BY <1>2, <1>3 DEF Presentable, CitesBatch, OpsCiting
  <2> DEFINE r == Kept(answer)
  <2>2. r \in Seq(Op) /\ \A k \in 1..Len(r) : r[k] \in OpsCiting(batch)
    BY <1>2, <2>1
  <2> HIDE DEF r
  <2>3. r \in Seq(OpsCiting(batch))
    BY <2>2
  <2>4. QED
    BY <2>3 DEF r
<1>4. QED
  BY <1>2, <1>3

(* A batch applied on top of what was reported is reported after it.       *)
LEMMA AppendedRun ==
  ASSUME IInv, pc # "idle", NEW ops \in Seq(OpsCiting(recorded \cup batch)),
         Run(trial, ops).ok = TRUE,
         pc' \in {"asking", "consolidating", "verifying"},
         applied' = applied \o ops, trial' = ApplyAtomically(trial, ops).store,
         UNCHANGED <<said, live, recorded, batch>>
  PROVE  IInv'
<1>1. ops \in Seq(Op) /\ applied \in Seq(Op) /\ batch \in SUBSET TurnIds
  BY DEF IInv, UpdateTypeOK, OpsCiting
<1>2. trial' = Run(trial, ops).store
  BY DEF ApplyAtomically
<1>3. trial = Run(live, applied).store /\ live \in Stores
  BY StoresOfIInv DEF IInv, ReportExplainsEveryTrial, StoresCiting
<1>4. trial' = Run(live, applied \o ops).store
  BY <1>1, <1>2, <1>3, RunConcatenation
<1>5. trial' \in StoresCiting(recorded \cup batch)
  BY <1>2, StoresOfIInv, RunCites
<1>6. applied \o ops \in Seq(Op)
  BY <1>1
<1>7. QED
  BY <1>1, <1>4, <1>5, <1>6, UpdateKeepsIInv

(* Taking the snapshot and applying the deterministic ops to it keeps the  *)
(* invariant.                                                              *)
LEMMA PrepareKeepsIInv ==
  ASSUME BatchAssumption, IInv, Prepare
  PROVE  IInv'
<1>1. PICK ids \in SUBSET TurnIds : ids = batch'
  BY DEF Prepare
<1> DEFINE ops == DeterministicOps(live, ids)
<1>2. /\ applied' = ops
      /\ trial' = ApplyAtomically(live, ops).store
      /\ pc' \in {"asking", "consolidating", "verifying"}
      /\ UNCHANGED <<said, live, recorded>>
  BY <1>1 DEF Prepare
<1>3. ops \in Seq(AddsFor(ids))
  BY DeterministicAdds DEF IInv, UpdateTypeOK
<1> HIDE DEF ops
<1>4. AddsFor(ids) \subseteq OpsCiting(ids)
  BY DEF AddsFor, AddOp, OpsCiting, Op, BatchAssumption
<1>5. ops \in Seq(OpsCiting(ids)) /\ ops \in Seq(Op)
  BY <1>3, <1>4 DEF OpsCiting
<1>6. live \in StoresCiting(recorded) /\ live \in Stores
  BY StoresOfIInv DEF StoresCiting
<1>7. trial' = Run(live, ops).store
  BY <1>2, <1>3, <1>6, AddsAccepted DEF ApplyAtomically
<1>8. live \in StoresCiting(recorded \cup ids) /\ ops \in Seq(OpsCiting(recorded \cup ids))
  BY <1>5, <1>6, CitingIsMonotone
<1>9. trial' \in StoresCiting(recorded \cup ids)
  BY <1>7, <1>8, RunCites
<1>10. QED
  BY <1>1, <1>2, <1>5, <1>7, <1>9, UpdateKeepsIInv

(* A model answer whose ops are all accepted keeps the invariant: its ops  *)
(* go into the trial and into the report.                                  *)
LEMMA AnswerAppliedKeepsIInv ==
  ASSUME BatchAssumption, IInv, NEW answer \in Replies, AnswerApplied(answer)
  PROVE  IInv'
<1> DEFINE ops == Kept(answer)
<1>1. ops \in Seq(OpsCiting(batch))
  BY KeptOps DEF AnswerApplied
<1>2. ops \in Seq(OpsCiting(recorded \cup batch))
  BY <1>1, CitingIsMonotone
<1>3. Run(trial, ops).ok = TRUE
  <2>1. ops \in Seq(Op) /\ trial \in Stores
    BY KeptOps, StoresOfIInv DEF StoresCiting
  <2>2. PICK h : RunTable(h, trial, ops)
    BY <2>1, RunSteps
  <2>3. Run(trial, ops).ok \in BOOLEAN
    BY <2>1, <2>2 DEF RunTable
  <2>4. ApplyAtomically(trial, ops).ok = Run(trial, ops).ok
    BY <2>1, <2>2 DEF ApplyAtomically, RunTable
  <2>5. ApplyAtomically(trial, ops).ok
    BY DEF AnswerApplied
  <2>6. QED
    BY <2>3, <2>4, <2>5
<1>4. /\ pc # "idle" /\ pc' = "consolidating"
      /\ applied' = applied \o ops /\ trial' = ApplyAtomically(trial, ops).store
      /\ UNCHANGED <<said, live, recorded, batch>>
  BY DEF AnswerApplied
<1> HIDE DEF ops
<1>5. QED
  BY <1>2, <1>3, <1>4, AppendedRun

(* A rejected answer keeps the invariant: apply_ops_atomically discards    *)
(* its copy, and none of its ops is reported.                              *)
LEMMA AnswerRejectedKeepsIInv ==
  ASSUME BatchAssumption, IInv, NEW answer \in Replies, AnswerRejected(answer)
  PROVE  IInv'
<1>1. TryAgain(trial)
  <2>1. CASE ~ApplyAtomically(trial, Kept(answer)).ok
               /\ TryAgain(ApplyAtomically(trial, Kept(answer)).store)
    <3>1. Kept(answer) \in Seq(Op) /\ trial \in Stores
      BY KeptOps, StoresOfIInv DEF StoresCiting
    <3>2. PICK h : RunTable(h, trial, Kept(answer))
      BY <3>1, RunSteps
    <3>3. Run(trial, Kept(answer)) \in [store: Stores, ok: BOOLEAN]
      BY <3>1, <3>2 DEF RunTable
    <3>4. ApplyAtomically(trial, Kept(answer)).store = trial
      BY <2>1, <3>3 DEF ApplyAtomically
    <3>5. QED
      BY <2>1, <3>4
  <2>2. QED
    BY <2>1 DEF AnswerRejected
<1>2. pc = "asking" /\ UNCHANGED <<said, live, recorded>>
  BY DEF AnswerRejected
<1>3. QED
  BY <1>1, <1>2, TryAgainKeepsIInv

(* Consolidation keeps the invariant: the ops that merge a cluster into    *)
(* one entry are reported after the other ops.                             *)
LEMMA ConsolidateKeepsIInv ==
  ASSUME IInv, Consolidate
  PROVE  IInv'
<1>0. PICK cluster \in SUBSET ActiveIds(trial) : \E keep \in cluster :
        /\ applied' = applied \o ConsolidationOps(keep, cluster)
        /\ trial' = ApplyAtomically(trial, ConsolidationOps(keep, cluster)).store
  BY DEF Consolidate
<1>1. PICK keep \in cluster :
        /\ applied' = applied \o ConsolidationOps(keep, cluster)
        /\ trial' = ApplyAtomically(trial, ConsolidationOps(keep, cluster)).store
  BY <1>0
<1> DEFINE ops == ConsolidationOps(keep, cluster)
<1>2. /\ ops \in Seq(OpsCiting(recorded \cup batch))
      /\ Run(trial, ops).ok = TRUE
  BY StoresOfIInv, ConsolidationRuns
<1>3. /\ pc # "idle" /\ pc' = "verifying"
      /\ UNCHANGED <<said, live, recorded, batch>>
  BY DEF Consolidate
<1> HIDE DEF ops
<1>4. applied' = applied \o ops /\ trial' = ApplyAtomically(trial, ops).store
  BY <1>1 DEF ops
<1>5. QED
  BY <1>2, <1>3, <1>4, AppendedRun

(* Installing the trial keeps the invariant: it cites turns of the batch,  *)
(* which is recorded in the same step.                                     *)
LEMMA CommitKeepsIInv ==
  ASSUME IInv, Commit
  PROVE  IInv'
<1>1. recorded' \in SUBSET TurnIds /\ said' = said /\ Return
  BY DEF Commit, IInv, UpdateTypeOK
<1>2. live' \in StoresCiting(recorded')
  BY StoresOfIInv DEF Commit
<1>3. QED
  BY <1>1, <1>2, ReturnKeepsIInv

(* Every step keeps the invariant.                                         *)
LEMMA NextKeepsIInv ==
  ASSUME BatchAssumption, IInv, [Next]_vars
  PROVE  IInv'
<1>1. CASE Prepare
  BY <1>1, PrepareKeepsIInv
<1>2. CASE NoAnswer
  <2>1. pc = "asking" /\ TryAgain(trial) /\ UNCHANGED <<said, live, recorded>>
    BY <1>2 DEF NoAnswer
  <2>2. QED
    BY <2>1, TryAgainKeepsIInv
<1>3. ASSUME NEW answer \in Replies, AnswerApplied(answer) PROVE IInv'
  BY <1>3, AnswerAppliedKeepsIInv
<1>4. ASSUME NEW answer \in Replies, AnswerRejected(answer) PROVE IInv'
  BY <1>4, AnswerRejectedKeepsIInv
<1>5. CASE NothingToConsolidate
  <2>1. /\ trial' = trial /\ applied' = applied /\ batch' = batch
        /\ pc' = "verifying" /\ UNCHANGED <<said, live, recorded>>
    BY <1>5 DEF NothingToConsolidate, work
  <2>2. trial \in StoresCiting(recorded \cup batch)
    BY StoresOfIInv
  <2>3. applied \in Seq(Op) /\ batch \in SUBSET TurnIds /\ trial = Run(live, applied).store
    BY <1>5 DEF IInv, UpdateTypeOK, ReportExplainsEveryTrial, NothingToConsolidate
  <2>4. QED
    BY <2>1, <2>2, <2>3, UpdateKeepsIInv
<1>6. CASE Consolidate
  BY <1>6, ConsolidateKeepsIInv
<1>7. CASE Commit
  BY <1>7, CommitKeepsIInv
<1>8. CASE VerificationFails
  <2>1. Return /\ UNCHANGED <<said, live, recorded>>
    BY <1>8 DEF VerificationFails
  <2>2. live' \in StoresCiting(recorded') /\ recorded' \in SUBSET TurnIds
    BY <2>1, StoresOfIInv DEF IInv, UpdateTypeOK
  <2>3. QED
    BY <2>1, <2>2, ReturnKeepsIInv
<1>9. CASE UNCHANGED vars
  BY <1>9 DEF vars, work, IInv, UpdateTypeOK, OnlyTurnsSeenCited, Cites,
              ReportExplainsEveryTrial
<1>10. QED
  BY <1>1, <1>2, <1>3, <1>4, <1>5, <1>6, <1>7, <1>8, <1>9 DEF Next

-----------------------------------------------------------------------------
(* The invariant holds in every run of the update.                         *)
THEOREM UpdateInvariant == Spec => []IInv
<1>1. Init => IInv
  BY InitEstablishesIInv
<1>2. IInv /\ [Next]_vars => IInv'
  BY BatchAssumption, NextKeepsIInv
<1>3. QED
  BY <1>1, <1>2, PTL DEF Spec

(* PreparedUpdate.applied_ops, all the verifier sees of an update, is      *)
(* always what was done to the trial, in order: nothing of an answer that  *)
(* _update_trial rejected on the way is left in it, nothing is missing.    *)
THEOREM ReportAlwaysExplainsTrial == Spec => []ReportExplainsTrial
<1>1. IInv => ReportExplainsTrial
  BY DEF IInv, ReportExplainsEveryTrial, ReportExplainsTrial
<1>2. QED
  BY <1>1, UpdateInvariant, PTL

(* StructuredMemoryService.update leaves no trace of a turn in the memory  *)
(* unless it takes the turn out of the conversation: an update that failed *)
(* and is tried again later records nothing twice.                         *)
THEOREM FailedUpdatesLeaveNoTrace == Spec => []UncommittedTurnsLeaveNoTrace
<1>1. IInv => UncommittedTurnsLeaveNoTrace
  BY DEF IInv, OnlyTurnsSeenCited, Cites, UncommittedTurnsLeaveNoTrace
<1>2. QED
  BY <1>1, UpdateInvariant, PTL

-----------------------------------------------------------------------------
(* The prompt and the filter of the model's answer.                        *)

(* The length of a rendered memory.                                        *)
EntryRecord ==
  [section: {SectionTable[n].section : n \in DOMAIN SectionTable},
   chars: Nat, words: Text, subject: Subjects, typed: BOOLEAN, active: BOOLEAN, turn: Nat]

(* What it is to be one of the memories of UpdatePrompt.                   *)
LEMMA MemoryTypes ==
  ASSUME NEW m \in Memories
  PROVE  /\ m.entries \in Seq(EntryRecord) /\ m.narrative \in Nat
         /\ Len(m.entries) \in Nat /\ Ids(m) = 1..Len(m.entries)
         /\ \A i \in Ids(m) : m.entries[i] \in EntryRecord
         /\ LineChars(m) \in [1..Len(m.entries) -> Nat]
         /\ \A K \in SUBSET Ids(m) : IsFiniteSet(K) /\ Cardinality(K) \in Nat
<1>1. m.entries \in Seq(EntryRecord) /\ m.narrative \in Nat
  BY DEF Memories, EntryRecord
<1>2. Len(m.entries) \in Nat /\ Ids(m) = 1..Len(m.entries)
  BY <1>1 DEF Ids
<1>3. \A i \in Ids(m) : m.entries[i] \in EntryRecord
  BY <1>1, <1>2
<1>4. LineChars(m) \in [1..Len(m.entries) -> Nat]
  <2>1. \A i \in Ids(m) : m.entries[i].chars + 1 \in Nat
    <3>1. \A e \in EntryRecord : e.chars \in Nat
      BY DEF EntryRecord
    <3>2. QED
      BY <1>3, <3>1
  <2>2. QED
    BY <1>2, <2>1 DEF LineChars
<1>5. ASSUME NEW K \in SUBSET Ids(m) PROVE IsFiniteSet(K) /\ Cardinality(K) \in Nat
  <2>1. 1 \in Int /\ Len(m.entries) \in Int
    BY <1>2
  <2>2. IsFiniteSet(Ids(m))
    BY <1>2, <2>1, FS_Interval
  <2>3. QED
    BY <2>2, FS_Subset, FS_CardinalityType
<1>6. QED
  BY <1>1, <1>2, <1>3, <1>4, <1>5

(* Tokens grow with characters.                                            *)
LEMMA TokensGrow ==
  ASSUME NEW a \in Nat, NEW b \in Nat, a <= b
  PROVE  Tokens(a) \in Nat /\ Tokens(b) \in Nat /\ Tokens(a) <= Tokens(b)
<1>1. a \div 4 \in Nat /\ b \div 4 \in Nat /\ a \div 4 <= b \div 4
  OBVIOUS
<1>2. /\ Tokens(a) = IF 1 >= a \div 4 THEN 1 ELSE a \div 4
      /\ Tokens(b) = IF 1 >= b \div 4 THEN 1 ELSE b \div 4
  BY <1>1, MaxOfTwo DEF Tokens
<1>3. QED
  BY <1>1, <1>2

(* The sections of more entries are more, and render to more characters.   *)
Blocks(m, ids) == Cardinality({m.entries[i].section : i \in ids}) + Min({1, m.narrative})

(* More entries have at least as many headers.                             *)
LEMMA BlocksGrow ==
  ASSUME NEW m \in Memories, NEW L \in SUBSET Ids(m), NEW K \in SUBSET L
  PROVE  Blocks(m, K) \in Nat /\ Blocks(m, L) \in Nat /\ Blocks(m, K) <= Blocks(m, L)
<1> DEFINE SectionsOf(J) == {m.entries[i].section : i \in J}
<1>1. \A J \in SUBSET Ids(m) : IsFiniteSet(SectionsOf(J)) /\ Cardinality(SectionsOf(J)) \in Nat
  <2> TAKE J \in SUBSET Ids(m)
  <2> DEFINE f == [i \in J |-> m.entries[i].section]
  <2>1. IsFiniteSet(J)
    BY MemoryTypes
  <2>2. DOMAIN f = J /\ f = [i \in J |-> f[i]] /\ SectionsOf(J) = {f[i] : i \in J}
    OBVIOUS
  <2> HIDE DEF f, SectionsOf
  <2>3. QED
    BY <2>1, <2>2, ImageIsFinite
<1>2. SectionsOf(K) \in SUBSET SectionsOf(L)
  OBVIOUS
<1> HIDE DEF SectionsOf
<1>3. Cardinality(SectionsOf(K)) <= Cardinality(SectionsOf(L))
  BY <1>1, <1>2, FS_Subset
<1>4. Min({1, m.narrative}) \in Nat
  <2>1. m.narrative \in Nat
    BY MemoryTypes
  <2>2. QED
    BY <2>1, MinOfTwo
<1>5. /\ Blocks(m, K) = Cardinality(SectionsOf(K)) + Min({1, m.narrative})
      /\ Blocks(m, L) = Cardinality(SectionsOf(L)) + Min({1, m.narrative})
  BY DEF Blocks, SectionsOf
<1>6. K \in SUBSET Ids(m)
  OBVIOUS
<1>7. Cardinality(SectionsOf(K)) \in Nat /\ Cardinality(SectionsOf(L)) \in Nat
  BY <1>1, <1>6
<1>8. QED
  BY <1>3, <1>4, <1>5, <1>7

(* An answer's memory renders to at least as many tokens as a part of it.  *)
LEMMA RenderGrows ==
  ASSUME HeaderChars \in Nat, NEW m \in Memories,
         NEW L \in SUBSET {i \in Ids(m) : m.entries[i].active}, NEW K \in SUBSET L
  PROVE  /\ RenderTokens(m, K, FALSE) \in Nat /\ RenderTokens(m, L, FALSE) \in Nat
         /\ RenderTokens(m, K, FALSE) <= RenderTokens(m, L, FALSE)
<1> DEFINE Chars(J) == IF Blocks(m, J) = 0 THEN 0
                       ELSE Blocks(m, J) * HeaderChars + 2 * (Blocks(m, J) - 1)
                              + SumFunctionOnSet(LineChars(m), J)
                              + (IF m.narrative > 0 THEN m.narrative + 1 ELSE 0)
           extra == IF m.narrative > 0 THEN m.narrative + 1 ELSE 0
<1>1. /\ Len(m.entries) \in Nat /\ Ids(m) = 1..Len(m.entries)
      /\ LineChars(m) \in [1..Len(m.entries) -> Nat] /\ extra \in Nat
  BY MemoryTypes
<1>2. PICK w : Weighs(w, LineChars(m), Len(m.entries))
  BY <1>1, WeightsExist
<1>3. K \in SUBSET Ids(m) /\ L \in SUBSET Ids(m)
  OBVIOUS
<1>4. ASSUME NEW J \in SUBSET {i \in Ids(m) : m.entries[i].active}
      PROVE  RenderChars(m, J, FALSE) = Chars(J)
  <2>1. /\ {i \in J : m.entries[i].active} = J /\ J \cup {} = J
        /\ (IF FALSE THEN J \ J ELSE {}) = {}
    OBVIOUS
  <2>2. Cardinality({}) = 0 /\ Min({1, 0}) = 0
    BY FS_EmptySet, MinOfTwo
  <2>3. Min({1, m.narrative}) \in Nat
    BY MemoryTypes, MinOfTwo
  <2>4. Cardinality({m.entries[i].section : i \in J}) + Min({1, Cardinality({})})
          + Min({1, m.narrative}) = Blocks(m, J)
    <3>1. Blocks(m, J) \in Nat
      BY BlocksGrow
    <3> DEFINE a == Cardinality({m.entries[i].section : i \in J})
               b == Min({1, m.narrative})
    <3>2. IsFiniteSet({m.entries[i].section : i \in J}) /\ a \in Nat
      <4> DEFINE f == [i \in J |-> m.entries[i].section]
      <4>1. IsFiniteSet(J)
        BY MemoryTypes
      <4>2. DOMAIN f = J /\ f = [i \in J |-> f[i]]
            /\ {m.entries[i].section : i \in J} = {f[i] : i \in J}
        OBVIOUS
      <4> HIDE DEF f
      <4>3. QED
        BY <4>1, <4>2, ImageIsFinite
    <3>3. Blocks(m, J) = a + b
      BY DEF Blocks
    <3> HIDE DEF a, b
    <3>4. b \in Nat
      BY <2>3 DEF b
    <3>5. a + 0 + b = a + b
      BY <3>2, <3>4
    <3>6. QED
      BY <2>2, <3>3, <3>5 DEF a, b
  <2>5. QED
    BY <2>1, <2>4 DEF RenderChars
<1> DEFINE b == Blocks(m, K)
           d == Blocks(m, L) - Blocks(m, K)
<1>5. b \in Nat /\ d \in Nat /\ Blocks(m, L) = b + d
  BY BlocksGrow
<1>6. w[K] <= w[L] /\ w[K] \in Nat /\ w[L] \in Nat
  BY <1>1, <1>2, <1>3, WeightGrows
<1>7. SumFunctionOnSet(LineChars(m), K) = w[K] /\ SumFunctionOnSet(LineChars(m), L) = w[L]
  BY <1>1, <1>2, <1>3, SumIsWeight
<1> HIDE DEF b, d, extra
<1>8. b * HeaderChars \in Nat /\ d * HeaderChars \in Nat
      /\ (b + d) * HeaderChars = b * HeaderChars + d * HeaderChars
  BY <1>5
<1>9. /\ Chars(K) = IF b = 0 THEN 0 ELSE b * HeaderChars + 2 * (b - 1) + w[K] + extra
      /\ Chars(L) = IF b + d = 0 THEN 0
                    ELSE b * HeaderChars + d * HeaderChars + 2 * (b + d - 1) + w[L] + extra
  <2>1. Blocks(m, K) = b
    BY DEF b
  <2>2. QED
    BY <1>5, <1>7, <1>8, <2>1 DEF extra
<1> HIDE DEF Chars
<1>10. Chars(K) \in Nat /\ Chars(L) \in Nat /\ Chars(K) <= Chars(L)
  <2> DEFINE x == b * HeaderChars
             y == d * HeaderChars
  <2>1. x \in Nat /\ y \in Nat
    BY <1>8
  <2>2. /\ Chars(K) = IF b = 0 THEN 0 ELSE x + 2 * (b - 1) + w[K] + extra
        /\ Chars(L) = IF b + d = 0 THEN 0 ELSE x + y + 2 * (b + d - 1) + w[L] + extra
    BY <1>9
  <2> HIDE DEF x, y
  <2>3. extra \in Nat
    BY <1>1
  <2>4. QED
    BY <1>5, <1>6, <2>1, <2>2, <2>3
<1>11. K \in SUBSET {i \in Ids(m) : m.entries[i].active}
  OBVIOUS
<1>12. /\ RenderTokens(m, K, FALSE) = Tokens(Chars(K))
       /\ RenderTokens(m, L, FALSE) = Tokens(Chars(L))
  BY <1>4, <1>11 DEF RenderTokens
<1>13. QED
  BY <1>10, <1>12, TokensGrow

-----------------------------------------------------------------------------
(* The order of the candidates for an answer.                              *)
QuestionRecord == [words: Text, temporal: BOOLEAN, latest: BOOLEAN, budget: Budgets]

(* The ranks of the sections are numbers.                                  *)
LEMMA SectionsAreRanked ==
  /\ DOMAIN SectionTable = 1..10
  /\ \A n \in 1..10 : /\ SectionTable[n].priority \in Nat
                       /\ SectionTable[n].temporal \in Nat
                       /\ SectionTable[n].latest \in Nat
BY DEF SectionTable, Ranked

(* The sort key of an entry for a question, whose last component is the    *)
(* id.                                                                     *)
LEMMA AnswerKeys ==
  ASSUME NEW m \in Memories, NEW q \in QuestionRecord, NEW i \in Ids(m)
  PROVE  AnswerKey(m, q, i) \in [1..4 -> Int] /\ AnswerKey(m, q, i)[4] = i
<1> DEFINE e == m.entries[i]
<1>1. e \in EntryRecord /\ i \in Int
  BY MemoryTypes
<1> HIDE DEF e
<1>2. e.turn \in Nat /\ e.words \in Text
      /\ e.section \in {SectionTable[n].section : n \in DOMAIN SectionTable}
  BY <1>1 DEF EntryRecord
<1>3. Place(e.section) \in 1..10
  <2>1. \E n \in DOMAIN SectionTable : SectionTable[n].section = e.section
    BY <1>2
  <2>2. Place(e.section) \in DOMAIN SectionTable
    BY <2>1 DEF Place
  <2>3. QED
    BY <2>2, SectionsAreRanked
<1>4. Cardinality(q.words \cap e.words) \in Nat
  <2>1. IsFiniteSet(e.words)
    BY <1>2 DEF Text
  <2>2. IsFiniteSet(q.words \cap e.words)
    BY <2>1, FS_Subset
  <2>3. QED
    BY <2>2, FS_CardinalityType
<1>5. AnswerScore(e, q) \in Int
  <2> DEFINE row == SectionTable[Place(e.section)]
  <2>1. row.priority \in Int /\ row.temporal \in Int /\ row.latest \in Int
    BY <1>3, SectionsAreRanked
  <2>2. Min({e.turn, 1000}) \in Int
    BY <1>2, MinOfTwo
  <2> DEFINE a == IF q.temporal THEN row.temporal ELSE 0
             b == IF q.latest THEN row.latest ELSE 0
             c == Cardinality(q.words \cap e.words)
  <2>3. a \in Int /\ b \in Int /\ c \in Int
    BY <1>4, <2>1
  <2>4. AnswerScore(e, q) = 1000 * (row.priority + a + b + 12 * c) + Min({e.turn, 1000})
    BY DEF AnswerScore
  <2> HIDE DEF a, b, c, row
  <2>5. 1000 * (row.priority + a + b + 12 * c) \in Int
    BY <2>1, <2>3
  <2>6. QED
    BY <2>2, <2>4, <2>5
<1>6. AnswerKey(m, q, i) = <<-AnswerScore(e, q), Place(e.section), -e.turn, i>>
  BY DEF AnswerKey, e
<1>7. /\ -AnswerScore(e, q) \in Int /\ Place(e.section) \in Int /\ -e.turn \in Int
  BY <1>2, <1>3, <1>5
<1>8. QED
  BY <1>1, <1>6, <1>7

(* The candidates are the active entries, each once.                       *)
LEMMA CandidatesListed ==
  ASSUME NEW m \in Memories, NEW q \in QuestionRecord
  PROVE  Lists(AnswerCandidates(m, q), {i \in Ids(m) : m.entries[i].active})
<1> DEFINE K == {i \in Ids(m) : m.entries[i].active}
           key == [i \in K |-> AnswerKey(m, q, i)]
           R == {p \in K \X K : LexLess(key[p[1]], key[p[2]])}
           list == AnswerCandidates(m, q)
<1>1. \A x \in K : x \in Ids(m)
  OBVIOUS
<1>2. IsFiniteSet(K) /\ Cardinality(K) \in Nat
  BY MemoryTypes
<1>3. list = [i \in 1..Cardinality(K) |->
                CHOOSE x \in K : Cardinality({y \in K :
                  LexLess(AnswerKey(m, q, y), AnswerKey(m, q, x))}) = i - 1]
  BY DEF AnswerCandidates, Sorted
<1> HIDE DEF K, list
<1>4. \A x \in K : key[x] = AnswerKey(m, q, x) /\ key[x] \in [1..4 -> Int] /\ key[x][4] = x
  BY <1>1, AnswerKeys
<1>5. \A x, y \in K : <<x, y>> \in R <=> LexLess(key[x], key[y])
  OBVIOUS
<1>6. key \in [K -> [1..4 -> Int]]
  BY <1>4
<1> HIDE DEF R, key
<1>7. \A x, y \in K : <<x, y>> \in R <=>
        \E k \in 1..4 : key[x][k] < key[y][k] /\ \A j \in 1..(k - 1) : key[x][j] = key[y][j]
  <2>1. \A x \in K : DOMAIN key[x] = 1..4
    BY <1>6
  <2>2. QED
    BY <1>5, <2>1 DEF LexLess
<1>8. \A x, y \in K : key[x] = key[y] => x = y
  BY <1>4
<1>9. Orders(R, K)
  <2>1. Distinct(K, key) /\ ByKeys(R, K, key, 4)
    BY <1>7, <1>8 DEF Distinct, ByKeys
  <2>2. QED
    BY <1>6, <2>1, KeysOrder
<1>10. \A x \in K : {y \in K : LexLess(AnswerKey(m, q, y), AnswerKey(m, q, x))} = Under(R, K, x)
  BY <1>4, <1>5 DEF Under
<1>11. \A i \in 1..Cardinality(K) : \E x \in K : Cardinality(Under(R, K, x)) = i - 1
  BY <1>2, <1>9, SortedPlaces
<1>12. \A i \in 1..Cardinality(K) : list[i] \in K /\ Cardinality(Under(R, K, list[i])) = i - 1
  <2> TAKE i \in 1..Cardinality(K)
  <2> DEFINE At(x) == Cardinality({y \in K :
                        LexLess(AnswerKey(m, q, y), AnswerKey(m, q, x))}) = i - 1
  <2>1. \E x \in K : At(x)
    BY <1>10, <1>11
  <2>2. list[i] = CHOOSE x \in K : At(x)
    BY <1>3
  <2> HIDE DEF At
  <2>3. list[i] \in K /\ At(list[i])
    BY <2>1, <2>2
  <2>4. QED
    BY <1>10, <2>3 DEF At
<1>13. list \in [1..Cardinality(K) -> K]
  BY <1>3, <1>12
<1>14. Lists(list, K)
  BY <1>2, <1>9, <1>12, <1>13, SortedPlaces
<1>15. QED
  BY <1>14 DEF K, list

-----------------------------------------------------------------------------
(* The loop of select_with_scores, on sets of chosen entries.              *)
Actives(m) == {i \in Ids(m) : m.entries[i].active}
(* The pinned entries of a memory, and when a choice of entries is within  *)
(* a budget.                                                               *)
PinnedIds(m) == {i \in Ids(m) : m.entries[i].section \in Pinned}
Fits(m, ids, budget) == Within(RenderTokens(m, ids, FALSE), budget)

(* A list of candidates with every active entry, the pinned ones ahead.    *)
Claims(c, m) ==
  /\ c \in Seq(Actives(m)) /\ Len(c) \in Nat
  /\ \A i \in Actives(m) : \E k \in 1..Len(c) : c[k] = i
  /\ \A j, k \in 1..Len(c) : j < k /\ c[k] \in PinnedIds(m) => c[j] \in PinnedIds(m)

(* The candidates in the order of their claims are the active entries, the *)
(* pinned ones ahead of the others.                                        *)
LEMMA PinnedClaimFirst ==
  ASSUME NEW m \in Memories, NEW q \in QuestionRecord
  PROVE  Claims(ClaimOrder(m, q), m)
<1> DEFINE cand == AnswerCandidates(m, q)
           P == PinnedIds(m)
           U == Ids(m) \ P
           a == Keep(cand, P)
           b == Keep(cand, U)
           A == Actives(m)
<1>1. ClaimOrder(m, q) = a \o b
  BY DEF ClaimOrder, PinnedIds
<1>2. cand \in Seq(A) /\ \A x \in A : x \in ToSet(cand)
  <2>1. Lists(cand, A)
    BY CandidatesListed DEF Actives
  <2> HIDE DEF cand, A
  <2> DEFINE n == Cardinality(A)
  <2>2. n \in Nat /\ cand \in [1..n -> A] /\ \A x \in A : \E i \in 1..n : cand[i] = x
    BY <2>1 DEF Lists
  <2> HIDE DEF n
  <2>3. cand \in Seq(A) /\ Len(cand) = n /\ DOMAIN cand = 1..n
    BY <2>2
  <2>4. QED
    BY <2>2, <2>3 DEF ToSet
<1>3. A \subseteq Ids(m)
  BY DEF Actives
<1> HIDE DEF cand, P, A
<1>4. /\ a \in Seq(A) /\ b \in Seq(A)
      /\ ToSet(a) = ToSet(cand) \cap P /\ ToSet(b) = ToSet(cand) \cap U
  BY <1>2, KeepSublist, KeepElements
<1> HIDE DEF a, b
<1>5. a \o b \in Seq(A) /\ ToSet(a \o b) = ToSet(a) \cup ToSet(b)
  BY <1>4, ConcatElements
<1>6. Len(a) \in Nat /\ Len(b) \in Nat /\ Len(a \o b) = Len(a) + Len(b)
  BY <1>4
<1>7. \A k \in 1..Len(a) : (a \o b)[k] \in P
  <2> TAKE k \in 1..Len(a)
  <2>1. (a \o b)[k] = a[k] /\ a[k] \in ToSet(a)
    BY <1>4 DEF ToSet
  <2>2. QED
    BY <1>4, <2>1
<1>8. \A k \in (Len(a) + 1)..Len(a \o b) : (a \o b)[k] \notin P
  <2> TAKE k \in (Len(a) + 1)..Len(a \o b)
  <2>1. k - Len(a) \in 1..Len(b)
    BY <1>6
  <2>2. (a \o b)[k] = b[k - Len(a)]
    BY <1>4, <1>6
  <2>3. b[k - Len(a)] \in ToSet(b)
    BY <1>4, <2>1 DEF ToSet
  <2>4. QED
    BY <1>4, <2>2, <2>3
<1>9. \A x \in A : \E k \in 1..Len(a \o b) : (a \o b)[k] = x
  <2> TAKE x \in A
  <2>1. x \in ToSet(a \o b)
    BY <1>2, <1>3, <1>4, <1>5
  <2>2. QED
    BY <1>5, <2>1 DEF ToSet
<1> DEFINE c == a \o b
<1>10. \A j, k \in 1..Len(c) : j < k /\ c[k] \in P => c[j] \in P
  <2> TAKE j, k \in 1..Len(c)
  <2> HAVE j < k /\ c[k] \in P
  <2>1. ~(k \in (Len(a) + 1)..Len(c))
    BY <1>8
  <2>2. j \in 1..Len(a)
    BY <1>6, <2>1
  <2>3. QED
    BY <1>7, <2>2
<1>11. Len(c) \in Nat
  BY <1>6
<1> HIDE DEF c
<1>12. c \in Seq(A) /\ \A x \in A : \E k \in 1..Len(c) : c[k] = x
  BY <1>5, <1>9 DEF c
<1>13. Claims(c, m)
  BY <1>10, <1>11, <1>12 DEF Claims, A, P
<1>14. QED
  BY <1>1, <1>13 DEF c

(* One pass of the loop: a candidate is chosen if the memory then fits.    *)
Take(m, budget, chosen_, i) ==
  IF Within(RenderTokens(m, chosen_ \cup {i}, FALSE), budget) THEN chosen_ \cup {i} ELSE chosen_

(* h holds the states of that loop.                                        *)
IsSelection(h, c, m, q, budget) ==
  /\ h \in [0..Len(c) -> SUBSET Actives(m)]
  /\ h[0] = {} /\ h[Len(c)] = SelectForAnswer(m, q, budget)
  /\ \A k \in 1..Len(c) : h[k] = Take(m, budget, h[k - 1], c[k])

(* SelectForAnswer passes through such sets.                               *)
LEMMA SelectionIsLoop ==
  ASSUME NEW m \in Memories, NEW q \in QuestionRecord, NEW budget
  PROVE  \E h : IsSelection(h, ClaimOrder(m, q), m, q, budget)
<1> DEFINE s == ClaimOrder(m, q)
           N == Len(s)
           R == SUBSET Actives(m)
           base == {}
           Step(r, i) == Take(m, budget, r, i)
           step == [p \in R \X (1..N) |-> Step(p[1], s[p[2]])]
           Eq(g) == g = [t \in SUBSET DOMAIN s |->
                           IF t = {} THEN base ELSE Step(g[t \ {Max(t)}], s[Max(t)])]
           g == CHOOSE f : Eq(f)
<1>1. N \in Nat /\ s \in Seq(Actives(m))
  BY PinnedClaimFirst DEF Claims
<1>2. DOMAIN s = 1..N /\ \A i \in 1..N : s[i] \in Actives(m)
  BY <1>1
<1>3. SelectForAnswer(m, q, budget) = g[DOMAIN s]
  BY DEF SelectForAnswer, FoldLeft, MapThenFoldSet, Take
<1>4. base \in R
  OBVIOUS
<1>5. \A r \in R, i \in 1..N : Step(r, s[i]) \in R
  BY <1>2 DEF Take
<1> HIDE DEF N, g, s, Step
<1>6. IsStep(step, R, N) /\ \A r \in R, i \in 1..N : step[<<r, i>>] = Step(r, s[i])
  <2> HIDE DEF R
  <2>1. QED
    BY <1>5 DEF IsStep
<1> HIDE DEF step, R, base
<1>7. Recurses(g, R, base, N, step)
  <2>1. PICK f : f \in [SUBSET (1..N) -> R] /\ Recurses(f, R, base, N, step)
    BY <1>1, <1>4, <1>6, SubsetRecursion
  <2>2. \A t \in SUBSET (1..N) : t # {} => /\ Max(t) \in 1..N
                                           /\ t \ {Max(t)} \in SUBSET (1..N)
    BY <1>1, MaxOfInterval
  <2> DEFINE Table(p) == [t \in SUBSET (1..N) |->
                            IF t = {} THEN base ELSE Step(p[t \ {Max(t)}], s[Max(t)])]
  <2>3. \A p : Eq(p) <=> p = Table(p)
    BY <1>2
  <2>4. f = Table(f)
    <3>1. f = [t \in SUBSET (1..N) |-> f[t]]
      BY <2>1
    <3>2. ASSUME NEW t \in SUBSET (1..N)
          PROVE  f[t] = IF t = {} THEN base ELSE Step(f[t \ {Max(t)}], s[Max(t)])
      <4>1. CASE t = {}
        BY <2>1, <4>1 DEF Recurses
      <4>2. CASE t # {}
        <5>1. Max(t) \in 1..N /\ f[t \ {Max(t)}] \in R
          BY <2>1, <2>2, <4>2
        <5>2. f[t] = step[<<f[t \ {Max(t)}], Max(t)>>]
          BY <2>1, <4>2, <5>1 DEF Recurses
        <5>3. QED
          BY <1>6, <4>2, <5>1, <5>2
      <4>3. QED
        BY <4>1, <4>2
    <3>3. QED
      BY <3>1, <3>2
  <2> HIDE DEF Eq
  <2>5. Eq(g)
    BY <2>3, <2>4 DEF g
  <2>6. g = Table(g)
    BY <2>3, <2>5
  <2>7. QED
    BY <1>6, <2>2, <2>6 DEF Recurses
<1>8. PICK h : IsTable(h, R, base, N, step) /\ h[N] = g[1..N]
  BY <1>1, <1>4, <1>6, <1>7, FoldTable
<1>9. h \in [0..N -> R] /\ h[0] = base /\ h[N] = SelectForAnswer(m, q, budget)
  BY <1>2, <1>3, <1>8 DEF IsTable
<1>10. ASSUME NEW i \in 1..N PROVE h[i] = Step(h[i - 1], s[i])
  <2>1. h[i - 1] \in R
    BY <1>1, <1>9, i - 1 \in 0..N
  <2>2. QED
    BY <1>6, <1>8, <2>1 DEF IsTable
<1>11. IsSelection(h, s, m, q, budget)
  BY <1>9, <1>10 DEF IsSelection, R, base, N, Step
<1>12. QED
  BY <1>11 DEF s

(* What the loop knows after k candidates: what it chose is among them and *)
(* fits; what it passed over does not fit beside what is chosen, and if it *)
(* is pinned, not even beside the pinned entries chosen.                   *)
Passed(h, c, m, budget, k) ==
  /\ h[k] \subseteq {c[j] : j \in 1..k}
  /\ h[k] # {} => Fits(m, h[k], budget)
  /\ \A j \in 1..k : c[j] \notin h[k] =>
       /\ ~Fits(m, h[k] \cup {c[j]}, budget)
       /\ c[j] \in PinnedIds(m) => ~Fits(m, (h[k] \cap PinnedIds(m)) \cup {c[j]}, budget)

(* A part of what fits, fits.                                              *)
LEMMA FitsShrinks ==
  ASSUME HeaderChars \in Nat, NEW m \in Memories, NEW budget \in Budgets,
         NEW L \in SUBSET Actives(m), NEW K \in SUBSET L, Fits(m, L, budget)
  PROVE  Fits(m, K, budget)
<1>1. /\ RenderTokens(m, K, FALSE) \in Nat /\ RenderTokens(m, L, FALSE) \in Nat
      /\ RenderTokens(m, K, FALSE) <= RenderTokens(m, L, FALSE)
  BY RenderGrows DEF Actives
<1>2. CASE budget = NoBudget
  BY <1>2 DEF Fits, Within
<1>3. CASE budget # NoBudget
  <2>1. budget \in Nat /\ RenderTokens(m, L, FALSE) <= budget
    BY <1>3 DEF Fits, Within, Budgets
  <2>2. RenderTokens(m, K, FALSE) <= budget
    <3> DEFINE a == RenderTokens(m, K, FALSE)
               b == RenderTokens(m, L, FALSE)
    <3> HIDE DEF a, b
    <3>1. a \in Nat /\ b \in Nat /\ a <= b
      BY <1>1 DEF a, b
    <3>2. b <= budget
      BY <2>1 DEF b
    <3>3. a <= budget
      BY <2>1, <3>1, <3>2
    <3>4. QED
      BY <3>3 DEF a
  <2>3. QED
    BY <2>2 DEF Fits, Within
<1>4. QED
  BY <1>2, <1>3

(* At every pass, what the loop has skipped did not fit beside what was    *)
(* chosen ahead of it.                                                     *)
LEMMA LoopPasses ==
  ASSUME HeaderChars \in Nat, NEW m \in Memories, NEW budget \in Budgets,
         NEW q, NEW c, Claims(c, m), NEW h, IsSelection(h, c, m, q, budget)
  PROVE  Passed(h, c, m, budget, Len(c))
<1> DEFINE N == Len(c)
           A == Actives(m)
           P == PinnedIds(m)
           S == {k \in 0..N : Passed(h, c, m, budget, k)}
<1>1. N \in Nat /\ (\A k \in 1..N : c[k] \in A)
      /\ \A j, k \in 1..N : j < k /\ c[k] \in P => c[j] \in P
  BY DEF Claims
<1>2. /\ \A k \in 0..N : h[k] \in SUBSET A
      /\ h[0] = {} /\ \A k \in 1..N : h[k] = Take(m, budget, h[k - 1], c[k])
  BY DEF IsSelection
<1>3. 0 \in S
  BY <1>1, <1>2 DEF Passed
<1>4. ASSUME NEW k \in 1..N, k - 1 \in S PROVE k \in S
  <2> DEFINE old == h[k - 1]
             new == h[k]
             x == c[k]
  <2>1. k - 1 \in 0..N /\ k \in 0..N /\ 1..k = 1..(k - 1) \cup {k}
    BY <1>1
  <2>2. Passed(h, c, m, budget, k - 1)
    BY <1>4
  <2>3. old \in SUBSET A /\ new \in SUBSET A /\ x \in A
    BY <1>1, <1>2, <2>1
  <2>4. new = IF Fits(m, old \cup {x}, budget) THEN old \cup {x} ELSE old
    BY <1>2 DEF Take, Fits
  <2>5. \A j \in 1..(k - 1) : c[j] \notin old =>
          /\ ~Fits(m, old \cup {c[j]}, budget)
          /\ c[j] \in P => ~Fits(m, (old \cap P) \cup {c[j]}, budget)
    BY <2>2 DEF Passed
  <2>6. old \subseteq {c[j] : j \in 1..(k - 1)} /\ (old # {} => Fits(m, old, budget))
    BY <2>2 DEF Passed
  <2>7. new \subseteq {c[j] : j \in 1..k}
    BY <2>1, <2>4, <2>6
  <2>8. new # {} => Fits(m, new, budget)
    BY <2>4, <2>6
  <2>9. ASSUME NEW j \in 1..k, c[j] \notin new
        PROVE  /\ ~Fits(m, new \cup {c[j]}, budget)
               /\ c[j] \in P => ~Fits(m, (new \cap P) \cup {c[j]}, budget)
    <3>1. j \in 1..N /\ c[j] \in A
      BY <1>1
    <3>2. old \subseteq new /\ c[j] \notin old
      BY <2>4, <2>9
    <3>3. new \cup {c[j]} \in SUBSET A
      BY <2>3, <3>1
    <3>4. CASE j # k
      <4>1. j \in 1..(k - 1)
        BY <3>4
      <4>2. ~Fits(m, old \cup {c[j]}, budget)
        BY <2>5, <3>2, <4>1
      <4>3. old \cup {c[j]} \in SUBSET (new \cup {c[j]})
        BY <3>2
      <4>4. ~Fits(m, new \cup {c[j]}, budget)
        BY <3>3, <4>2, <4>3, FitsShrinks
      <4>5. ASSUME c[j] \in P PROVE ~Fits(m, (new \cap P) \cup {c[j]}, budget)
        <5>1. ~Fits(m, (old \cap P) \cup {c[j]}, budget)
          BY <2>5, <3>2, <4>1, <4>5
        <5>2. (old \cap P) \cup {c[j]} \in SUBSET ((new \cap P) \cup {c[j]})
          BY <3>2
        <5>3. (new \cap P) \cup {c[j]} \in SUBSET A
          BY <2>3, <3>1
        <5>4. QED
          BY <5>1, <5>2, <5>3, FitsShrinks
      <4>6. QED
        BY <4>4, <4>5
    <3>5. CASE j = k
      <4>1. new = old /\ ~Fits(m, old \cup {x}, budget)
        BY <2>4, <2>9, <3>5
      <4>2. ASSUME x \in P PROVE old \cap P = old
        <5>1. \A y \in old : y \in P
          <6> TAKE y \in old
          <6>1. PICK i \in 1..(k - 1) : y = c[i]
            BY <2>6
          <6>2. i \in 1..N /\ i < k
            BY <1>1, <6>1
          <6>3. QED
            BY <1>1, <4>2, <6>1, <6>2
        <5>2. QED
          BY <5>1
      <4>3. QED
        BY <3>5, <4>1, <4>2
    <3>6. QED
      BY <3>4, <3>5
  <2>10. Passed(h, c, m, budget, k)
    BY <2>7, <2>8, <2>9 DEF Passed
  <2>11. QED
    BY <2>1, <2>10
<1> HIDE DEF S
<1>5. \A k \in 0..N : k \in S
  BY <1>1, <1>3, <1>4, Induction
<1>6. N \in S
  BY <1>1, <1>5
<1>7. QED
  BY <1>6 DEF S

(* An answer's entries fill the budget, pinned ones first.                 *)
FillsPinnedFirst(m, ids, budget) ==
  /\ ids \subseteq Actives(m)
  /\ ids # {} => Fits(m, ids, budget)
  /\ \A i \in Actives(m) \ ids : ~Fits(m, ids \cup {i}, budget)
  /\ \A i \in (Actives(m) \cap PinnedIds(m)) \ ids :
       ~Fits(m, (ids \cap PinnedIds(m)) \cup {i}, budget)

(* What is shown for an answer is within the budget, no other entry would  *)
(* fit beside it, and no entry displaces a pinned one.                     *)
LEMMA AnswersFill ==
  ASSUME HeaderChars \in Nat, NEW m \in Memories, NEW q \in QuestionRecord
  PROVE  FillsPinnedFirst(m, SelectForAnswer(m, q, q.budget), q.budget)
<1> DEFINE c == ClaimOrder(m, q)
           sel == SelectForAnswer(m, q, q.budget)
           A == Actives(m)
           P == PinnedIds(m)
<1>1. Claims(c, m) /\ q.budget \in Budgets
  BY PinnedClaimFirst DEF QuestionRecord
<1>2. PICK h : IsSelection(h, c, m, q, q.budget)
  BY SelectionIsLoop
<1> HIDE DEF c
<1>3. Passed(h, c, m, q.budget, Len(c))
  BY <1>1, <1>2, LoopPasses
<1>4. h[Len(c)] = sel /\ sel \in SUBSET A
  BY <1>1, <1>2 DEF IsSelection, Claims
<1> HIDE DEF sel
<1>5. sel # {} => Fits(m, sel, q.budget)
  BY <1>3, <1>4 DEF Passed
<1>6. \A i \in A \ sel : /\ ~Fits(m, sel \cup {i}, q.budget)
                         /\ i \in P => ~Fits(m, (sel \cap P) \cup {i}, q.budget)
  <2> TAKE i \in A \ sel
  <2>1. PICK k \in 1..Len(c) : c[k] = i
    BY <1>1 DEF Claims
  <2>2. QED
    BY <1>3, <1>4, <2>1 DEF Passed
<1>7. QED
  BY <1>4, <1>5, <1>6 DEF FillsPinnedFirst, sel

(* The same, as UpdatePrompt states it.                                    *)
LEMMA FillingStated ==
  ASSUME \A k \in DOMAIN asked : FillsPinnedFirst(memory, chosen, asked[k].budget)
  PROVE  AnswerFillsBudgetPinnedFirst
<1> SUFFICES ASSUME NEW k \in DOMAIN asked
    PROVE LET budget  == asked[k].budget
              active  == {i \in Ids(memory) : memory.entries[i].active}
              pinned  == {i \in active : memory.entries[i].section \in Pinned}
              fit(ids) == Within(RenderTokens(memory, ids, FALSE), budget)
          IN  /\ chosen \subseteq active
              /\ chosen # {} => fit(chosen)
              /\ \A i \in active \ chosen : ~fit(chosen \cup {i})
              /\ \A i \in pinned \ chosen : ~fit((chosen \cap pinned) \cup {i})
  BY DEF AnswerFillsBudgetPinnedFirst
<1> DEFINE A == Actives(memory)
           P == PinnedIds(memory)
           pinned == {i \in A : memory.entries[i].section \in Pinned}
<1>1. FillsPinnedFirst(memory, chosen, asked[k].budget)
  OBVIOUS
<1>2. pinned = A \cap P
  BY DEF Actives, PinnedIds
<1>3. chosen \cap pinned = chosen \cap P
  BY <1>1, <1>2 DEF FillsPinnedFirst
<1>4. A = {i \in Ids(memory) : memory.entries[i].active}
  BY DEF Actives
<1> HIDE DEF A, P, pinned
<1>5. /\ chosen \subseteq A
      /\ chosen # {} => Fits(memory, chosen, asked[k].budget)
      /\ \A i \in A \ chosen : ~Fits(memory, chosen \cup {i}, asked[k].budget)
      /\ \A i \in pinned \ chosen : ~Fits(memory, (chosen \cap pinned) \cup {i}, asked[k].budget)
  BY <1>1, <1>2, <1>3 DEF FillsPinnedFirst, A, P
<1>6. QED
  BY <1>5 DEF Fits, A, pinned, Actives

-----------------------------------------------------------------------------
(* The types of the variables of an update, and what is still empty when.  *)
PromptTypeOK ==
  /\ turns \in Seq(TurnFields) /\ memory \in Memories /\ o \in Policies
  /\ stage \in {"gate", "turns", "entries", "migrating", "calling", "asking", "done"}
  /\ asked = <<>> \/ (stage = "done" /\ asked \in Seq(QuestionRecord) /\ Len(asked) = 1)

(* The migration of legacy entries gives one of the memories.              *)
LEMMA MigrationKeepsTypes ==
  ASSUME PromptTypeOK, MigrateEntries
  PROVE  memory' \in Memories
<1> DEFINE migrated == [i \in DOMAIN memory.entries |->
                          IF i \in Legacy THEN [memory.entries[i] EXCEPT !.typed = TRUE]
                          ELSE memory.entries[i]]
<1>1. memory' = [memory EXCEPT !.entries = migrated] \/ memory' = memory
  BY DEF MigrateEntries
<1>2. memory \in Memories
  BY DEF PromptTypeOK
<1>3. /\ memory.entries \in Seq(EntryRecord) /\ Len(memory.entries) \in Nat
      /\ DOMAIN memory.entries = 1..Len(memory.entries)
      /\ \A i \in DOMAIN memory.entries : memory.entries[i] \in EntryRecord
  BY <1>2, MemoryTypes DEF Ids
<1>4. \A e \in EntryRecord : [e EXCEPT !.typed = TRUE] \in EntryRecord
  BY DEF EntryRecord
<1>5. migrated \in Seq(EntryRecord)
  <2>1. \A i \in DOMAIN memory.entries :
          (IF i \in Legacy THEN [memory.entries[i] EXCEPT !.typed = TRUE]
           ELSE memory.entries[i]) \in EntryRecord
    BY <1>3, <1>4
  <2>2. migrated \in [1..Len(memory.entries) -> EntryRecord]
    BY <1>3, <2>1
  <2> HIDE DEF migrated
  <2>3. QED
    BY <1>3, <2>2
<1> HIDE DEF migrated
<1>6. [memory EXCEPT !.entries = migrated] \in Memories
  BY <1>2, <1>5 DEF Memories, EntryRecord
<1>7. QED
  BY <1>1, <1>2, <1>6

(* The types are kept by each stage of an update.                          *)
LEMMA NextKeepsPromptTypes ==
  ASSUME PromptAssumption, PromptTypeOK, [PromptNext]_promptVars
  PROVE  PromptTypeOK'
<1>1. CASE Decide
  BY <1>1 DEF Decide, PromptTypeOK
<1>2. CASE SelectTurns
  BY <1>2 DEF SelectTurns, PromptTypeOK
<1>3. CASE SelectEntries
  BY <1>3 DEF SelectEntries, PromptTypeOK
<1>4. CASE MigrateEntries
  <2>1. memory' \in Memories
    BY <1>4, MigrationKeepsTypes
  <2>2. QED
    BY <1>4, <2>1 DEF MigrateEntries, PromptTypeOK
<1>5. CASE TakeAnswer
  BY <1>5 DEF TakeAnswer, PromptTypeOK
<1>6. CASE Question
  <2>1. PICK q \in Questions : asked' = <<q>>
    BY <1>6 DEF Question
  <2>2. q \in QuestionRecord
    BY DEF PromptAssumption, QuestionRecord
  <2>3. asked' \in Seq(QuestionRecord) /\ Len(asked') = 1
    BY <2>1, <2>2
  <2>4. QED
    BY <1>6, <2>3 DEF Question, PromptTypeOK
<1>7. CASE UNCHANGED promptVars
  BY <1>7 DEF promptVars, PromptTypeOK
<1>8. QED
  BY <1>1, <1>2, <1>3, <1>4, <1>5, <1>6, <1>7 DEF PromptNext

(* And they hold of each scenario.                                         *)
LEMMA InitEstablishesPromptTypes ==
  ASSUME PromptAssumption, PromptInit
  PROVE  PromptTypeOK
<1>1. PICK scenario \in Scenarios :
        turns = scenario.turns /\ memory = scenario.memory /\ o = scenario.o
  BY DEF PromptInit
<1>2. scenario \in [turns: Seq(TurnFields), memory: Memories, o: Policies]
  BY DEF PromptAssumption
<1>3. turns \in Seq(TurnFields) /\ memory \in Memories /\ o \in Policies
  BY <1>1, <1>2
<1>4. QED
  BY <1>3 DEF PromptInit, PromptTypeOK

(* The variables of UpdatePrompt keep their types.                         *)
THEOREM PromptTypeCorrect == PromptSpec => []PromptTypeOK
<1>1. PromptInit => PromptTypeOK
  BY InitEstablishesPromptTypes, PromptAssumption
<1>2. PromptTypeOK /\ [PromptNext]_promptVars => PromptTypeOK'
  BY NextKeepsPromptTypes, PromptAssumption
<1>3. QED
  BY <1>1, <1>2, PTL DEF PromptSpec

(* "The prompt budget remains a hard upper bound": for any memory, budget, *)
(* section headers and question, the entries chosen fit, leave no room for *)
(* an entry left out, and no pinned one yields to an entry that is not.    *)
THEOREM AnswersFillBudgetPinnedFirst == PromptSpec => []AnswerFillsBudgetPinnedFirst
<1> DEFINE Filled == \A k \in DOMAIN asked : FillsPinnedFirst(memory, chosen, asked[k].budget)
<1>1. PromptInit => Filled
  BY DEF PromptInit
<1>2. ASSUME PromptTypeOK, [PromptNext]_promptVars, Filled
      PROVE  Filled'
  <2>1. CASE Question
    <3>1. PICK q \in Questions :
            asked' = <<q>> /\ chosen' = SelectForAnswer(memory, q, q.budget)
      BY <2>1 DEF Question
    <3>2. q \in QuestionRecord /\ memory \in Memories /\ memory' = memory /\ HeaderChars \in Nat
      BY <1>2, <2>1, PromptAssumption DEF PromptAssumption, QuestionRecord, Question, PromptTypeOK
    <3>3. DOMAIN asked' = {1} /\ asked'[1] = q
      BY <3>1
    <3>4. FillsPinnedFirst(memory, chosen', q.budget)
      BY <3>1, <3>2, AnswersFill
    <3>5. QED
      BY <3>2, <3>3, <3>4
  <2>2. CASE UNCHANGED <<memory, asked, chosen>>
    BY <1>2, <2>2
  <2>3. CASE MigrateEntries
    <3>1. asked' = <<>>
      BY <1>2, <2>3 DEF MigrateEntries, PromptTypeOK
    <3>2. QED
      BY <3>1
  <2>4. QED
    BY <1>2, <2>1, <2>2, <2>3
    DEF PromptNext, promptVars, Decide, SelectTurns, SelectEntries, TakeAnswer
<1>3. Filled => AnswerFillsBudgetPinnedFirst
  BY FillingStated
<1> HIDE DEF Filled
<1>4. QED
  BY <1>1, <1>2, <1>3, PromptTypeCorrect, PTL DEF PromptSpec

-----------------------------------------------------------------------------
(* The cap.                                                                *)
OpsOf(ops, kind) == {k \in DOMAIN ops : ops[k].kind = kind}

(* k is the first ADD of an answer.                                        *)
FirstAdd(ops, k) == k \in OpsOf(ops, "ADD") /\ \A j \in OpsOf(ops, "ADD") : k <= j

(* What _cap_ops keeps: a reversal whole, with its first ADD, or as many   *)
(* ops as allowed.                                                         *)
CapKeeps(ops, c) ==
  IF OpsOf(ops, "SUPERSEDE") # {} /\ OpsOf(ops, "ADD") # {}
    THEN /\ {ops[k] : k \in OpsOf(ops, "SUPERSEDE")} = {c[k] : k \in OpsOf(c, "SUPERSEDE")}
         /\ \E k \in DOMAIN ops : FirstAdd(ops, k) /\ ops[k] \in ToSet(c)
    ELSE Cardinality({k \in DOMAIN c : c[k].kind # "NOOP"}) <= o.maxOps

(* And what is applied of it: the same, unless that ADD is transient.      *)
AppliedWhole(ops, l) ==
  IF OpsOf(ops, "SUPERSEDE") # {} /\ OpsOf(ops, "ADD") # {}
    THEN /\ {ops[k] : k \in OpsOf(ops, "SUPERSEDE")} = {l[k] : k \in OpsOf(l, "SUPERSEDE")}
         /\ OpsOf(l, "ADD") = {} =>
              \E k \in DOMAIN ops : FirstAdd(ops, k) /\ Transient(ops[k])
    ELSE Cardinality({k \in DOMAIN l : l[k].kind # "NOOP"}) <= o.maxOps

(* A filter by kind keeps what has the kind, and nothing else.             *)
LEMMA KindsKept ==
  ASSUME NEW ops \in Seq(Ops), NEW kinds
  PROVE  /\ OfKind(ops, kinds) \in Seq(Ops)
         /\ ToSet(OfKind(ops, kinds)) = {op \in ToSet(ops) : op.kind \in kinds}
<1> DEFINE T == {op \in ToSet(ops) : op.kind \in kinds}
<1>1. ToSet(ops) \cap T = T
  OBVIOUS
<1> HIDE DEF T
<1>2. Keep(ops, T) \in Seq(Ops) /\ ToSet(Keep(ops, T)) = ToSet(ops) \cap T
  BY KeepSublist, KeepElements
<1>3. QED
  BY <1>1, <1>2 DEF OfKind, T

(* A list is one of its elements.                                          *)
LEMMA ListOfItself ==
  ASSUME NEW E, NEW ops \in Seq(E)
  PROVE  ops \in Seq(ToSet(ops))
<1>1. ops \in [1..Len(ops) -> ToSet(ops)] /\ Len(ops) \in Nat
  BY DEF ToSet
<1>2. QED
  BY <1>1

(* The first op a filter by kind keeps is the first of that kind.          *)
LEMMA FirstKept ==
  ASSUME NEW ops \in Seq(Ops), OfKind(ops, {"ADD"}) # <<>>
  PROVE  \E k \in DOMAIN ops : FirstAdd(ops, k) /\ OfKind(ops, {"ADD"})[1] = ops[k]
<1> DEFINE T == {op \in ToSet(ops) : op.kind \in {"ADD"}}
           r == Keep(ops, T)
<1>1. OfKind(ops, {"ADD"}) = r
  BY DEF OfKind
<1>2. \A k \in DOMAIN ops : ops[k] \in T <=> ops[k].kind = "ADD"
  BY DEF ToSet
<1> HIDE DEF T
<1>3. r \in Seq(Ops)
  BY KeepSublist
<1>4. PICK idx : Picks(r, idx, ops, T, Len(ops))
  BY KeepSublist
<1> HIDE DEF r
<1>5. Len(r) \in Nat /\ 1 \in 1..Len(r) /\ DOMAIN ops = 1..Len(ops) /\ Len(ops) \in Nat
  BY <1>1, <1>3
<1>6. idx[1] \in DOMAIN ops /\ r[1] = ops[idx[1]] /\ r[1] \in T
  BY <1>4, <1>5 DEF Picks
<1>7. ASSUME NEW j \in DOMAIN ops, ops[j].kind = "ADD" PROVE idx[1] <= j
  <2>1. PICK n \in 1..Len(r) : idx[n] = j
    BY <1>2, <1>4, <1>5, <1>7 DEF Picks
  <2>2. n = 1 \/ idx[1] < idx[n]
    <3>1. n = 1 \/ 1 < n
      BY <1>5, <2>1
    <3>2. QED
      BY <1>4, <1>5, <2>1, <3>1 DEF Picks
  <2>3. QED
    BY <1>5, <1>6, <2>1, <2>2
<1>8. QED
  BY <1>1, <1>2, <1>6, <1>7 DEF FirstAdd, OpsOf

(* The best ops are a list, no longer than allowed.                        *)
LEMMA BestAreFew ==
  ASSUME NEW ops \in Seq(Ops), o.maxOps \in Nat
  PROVE  LET c == BestOps(ops)
         IN  /\ Cardinality({k \in DOMAIN c : c[k].kind # "NOOP"}) <= o.maxOps
             /\ c \in Seq(ToSet(c))
<1> DEFINE actionable == OfKind(ops, {"ADD", "UPDATE", "SUPERSEDE"})
           ranked == Sorted(DOMAIN actionable, LAMBDA i, j :
                       LexLess(<<CapRank(actionable[i]), i>>, <<CapRank(actionable[j]), j>>))
           best == First(o.maxOps, ranked)
           kept == Sorted(ToSet(best), LAMBDA i, j : i < j)
<1>1. BestOps(ops) = IF Len(actionable) <= o.maxOps THEN ops
                     ELSE [k \in DOMAIN kept |-> actionable[kept[k]]]
  BY DEF BestOps
<1>2. actionable \in Seq(Ops) /\ Len(actionable) \in Nat
  BY KindsKept
<1>3. Cardinality({k \in DOMAIN ops : ops[k].kind # "NOOP"}) = Len(actionable)
  <2> DEFINE S == {op \in ToSet(ops) : op.kind \in {"ADD", "UPDATE", "SUPERSEDE"}}
  <2>1. Cardinality({k \in DOMAIN ops : ops[k] \in S}) = Len(Keep(ops, S))
    BY KeepCount
  <2>2. {k \in DOMAIN ops : ops[k] \in S} = {k \in DOMAIN ops : ops[k].kind # "NOOP"}
    <3>1. \A k \in DOMAIN ops : ops[k] \in ToSet(ops) /\ ops[k] \in Ops
      BY DEF ToSet
    <3>2. \A op \in Ops : op.kind \in {"ADD", "UPDATE", "SUPERSEDE", "NOOP"}
      BY DEF Ops
    <3>3. \A k \in DOMAIN ops : ops[k] \in S <=> ops[k].kind # "NOOP"
      BY <3>1, <3>2
    <3> HIDE DEF S
    <3>4. QED
      BY <3>3
  <2>3. QED
    BY <2>1, <2>2 DEF OfKind
<1>4. DOMAIN ranked = 1..Cardinality(DOMAIN actionable)
      /\ ranked = [i \in 1..Cardinality(DOMAIN actionable) |-> ranked[i]]
  <2> DEFINE Before(i, j) ==
               LexLess(<<CapRank(actionable[i]), i>>, <<CapRank(actionable[j]), j>>)
             Placed(i) == CHOOSE x \in DOMAIN actionable :
                            Cardinality({y \in DOMAIN actionable : Before(y, x)}) = i - 1
  <2>1. ranked = [i \in 1..Cardinality(DOMAIN actionable) |-> Placed(i)]
    BY DEF Sorted
  <2> HIDE DEF Placed, ranked
  <2>2. QED
    BY <2>1
<1>5. DOMAIN kept = 1..Cardinality(ToSet(best))
  BY DEF Sorted
<1>6. Cardinality(DOMAIN actionable) = Len(actionable)
  <2>1. DOMAIN actionable = 1..Len(actionable)
    BY <1>2
  <2>2. 1 \in Int /\ Len(actionable) \in Int
    BY <1>2
  <2>3. Cardinality(1..Len(actionable)) =
          IF 1 > Len(actionable) THEN 0 ELSE Len(actionable) - 1 + 1
    BY <2>2, FS_Interval
  <2>4. (IF 1 > Len(actionable) THEN 0 ELSE Len(actionable) - 1 + 1) = Len(actionable)
    BY <1>2
  <2>5. QED
    BY <2>1, <2>3, <2>4
<1> HIDE DEF actionable, ranked
<1>7. CASE Len(actionable) <= o.maxOps
  <2>1. BestOps(ops) = ops
    BY <1>1, <1>7
  <2>2. ops \in Seq(ToSet(ops))
    BY ListOfItself
  <2>3. QED
    BY <1>3, <1>7, <2>1, <2>2
<1>8. CASE ~(Len(actionable) <= o.maxOps)
  <2> DEFINE n == o.maxOps
             c == [k \in DOMAIN kept |-> actionable[kept[k]]]
  <2>1. Len(ranked) = Len(actionable)
    BY <1>2, <1>4, <1>6
  <2>2. Min({n, Len(ranked)}) = n
    BY <1>2, <1>8, <2>1, MinOfTwo
  <2>3. best = SubSeq(ranked, 1, n)
    BY <2>2 DEF First
  <2>4. best = [i \in 1..n |-> best[i]] /\ DOMAIN best = 1..n
    <3> DEFINE R == {ranked[i] : i \in 1..Len(actionable)}
    <3>1. ranked \in Seq(R)
      <4>1. ranked \in [1..Len(actionable) -> R]
        BY <1>4, <1>6
      <4>2. QED
        BY <1>2, <4>1
    <3> HIDE DEF R
    <3>2. n \in Nat /\ n <= Len(ranked) /\ Len(ranked) \in Nat
      BY <1>2, <1>8, <2>1
    <3>3. SubSeq(ranked, 1, n) \in Seq(R) /\ Len(SubSeq(ranked, 1, n)) = n
      BY <3>1, <3>2
    <3>4. QED
      BY <2>3, <3>3
  <2>5. Cardinality(ToSet(best)) \in Nat /\ Cardinality(ToSet(best)) <= n
    <3>1. n \in Nat
      OBVIOUS
    <3> HIDE DEF best, n
    <3>2. QED
      BY <2>4, <3>1, ElementsAreFew
  <2> DEFINE m == Cardinality(ToSet(best))
             T == {k \in DOMAIN c : c[k].kind # "NOOP"}
  <2>6. DOMAIN c = 1..m
    BY <1>5
  <2>15. c = [k \in 1..m |-> c[k]] /\ m \in Nat
    BY <2>5, <2>6
  <2> HIDE DEF best, c, kept
  <2>7. T \in SUBSET (1..m)
    BY <2>6
  <2>8. m \in Nat
    BY <2>5
  <2> HIDE DEF m
  <2>9. IsFiniteSet(1..m) /\ Cardinality(1..m) = m
    <3>1. 1 \in Int /\ m \in Int
      BY <2>8
    <3>2. IsFiniteSet(1..m) /\ Cardinality(1..m) = IF 1 > m THEN 0 ELSE m - 1 + 1
      BY <3>1, FS_Interval
    <3>3. (IF 1 > m THEN 0 ELSE m - 1 + 1) = m
      BY <2>8
    <3>4. QED
      BY <3>2, <3>3
  <2>10. Cardinality(T) <= m /\ Cardinality(T) \in Nat
    BY <2>7, <2>9, FS_Subset, FS_CardinalityType
  <2>11. m <= n
    BY <2>5 DEF m
  <2>12. Cardinality(T) <= n
    BY <2>8, <2>10, <2>11
  <2>13. BestOps(ops) = c
    BY <1>1, <1>8 DEF c
  <2>14. c \in Seq(ToSet(c))
    <3>1. c \in Seq({c[k] : k \in 1..m})
      <4>1. c \in [1..m -> {c[k] : k \in 1..m}]
        BY <2>15
      <4>2. QED
        BY <2>8, <4>1
    <3>2. QED
      BY <2>6, <3>1 DEF ToSet
  <2>16. QED
    BY <2>12, <2>13, <2>14 DEF n, T
<1>9. QED
  BY <1>7, <1>8

(* A reversal keeps every SUPERSEDE and an ADD, any other answer its limit.*)
LEMMA CapsHold ==
  ASSUME NEW ops \in Seq(Ops), o.maxOps \in Nat
  PROVE  CapKeeps(ops, CapOps(ops)) /\ CapOps(ops) \in Seq(ToSet(CapOps(ops)))
<1> DEFINE S == OfKind(ops, {"SUPERSEDE"})
           A == OfKind(ops, {"ADD"})
           c == CapOps(ops)
<1>9. A # <<>> => \E k \in DOMAIN ops : FirstAdd(ops, k) /\ A[1] = ops[k]
  BY FirstKept
<1>1. /\ S \in Seq(Ops) /\ ToSet(S) = {op \in ToSet(ops) : op.kind \in {"SUPERSEDE"}}
      /\ A \in Seq(Ops) /\ ToSet(A) = {op \in ToSet(ops) : op.kind \in {"ADD"}}
  BY KindsKept
<1>2. c = IF S # <<>> /\ A # <<>> THEN Append(S, A[1]) ELSE BestOps(ops)
  BY DEF CapOps
<1> HIDE DEF S, A, c
<1>3. \A s \in Seq(Ops) : s # <<>> <=> ToSet(s) # {}
  <2> TAKE s \in Seq(Ops)
  <2>1. s # <<>> <=> DOMAIN s # {}
    <3>1. (s = <<>> <=> Len(s) = 0) /\ DOMAIN s = 1..Len(s) /\ Len(s) \in Nat
      BY EmptySeq
    <3>2. \A n \in Nat : 1..n = {} <=> n = 0
      <4> TAKE n \in Nat
      <4>1. n # 0 => 1 \in 1..n
        OBVIOUS
      <4>2. n = 0 => 1..n = {}
        OBVIOUS
      <4>3. QED
        BY <4>1, <4>2
    <3>3. QED
      BY <3>1, <3>2
  <2>2. QED
    BY <2>1 DEF ToSet
<1>4. ToSet(ops) = {ops[k] : k \in DOMAIN ops}
  BY DEF ToSet
<1>5. /\ S # <<>> <=> OpsOf(ops, "SUPERSEDE") # {}
      /\ A # <<>> <=> OpsOf(ops, "ADD") # {}
  BY <1>1, <1>3, <1>4 DEF OpsOf
<1>6. CASE S # <<>> /\ A # <<>>
  <2>1. Len(S) \in Nat /\ Len(A) \in Nat /\ A[1] \in ToSet(A) /\ A[1].kind = "ADD"
    <3>1. 1 \in DOMAIN A
      BY <1>1, <1>6
    <3>2. A[1] \in ToSet(A)
      BY <3>1 DEF ToSet
    <3>3. QED
      BY <1>1, <3>2
  <2>2. /\ DOMAIN c = 1..(Len(S) + 1)
        /\ \A k \in 1..Len(S) : c[k] = S[k]
        /\ c[Len(S) + 1] = A[1]
    BY <1>1, <1>2, <1>6, <2>1
  <2>3. \A k \in 1..Len(S) : S[k] \in ToSet(S) /\ S[k].kind = "SUPERSEDE"
    BY <1>1 DEF ToSet
  <2>4. OpsOf(c, "SUPERSEDE") = 1..Len(S)
    <3>1. \A k \in 1..(Len(S) + 1) : k \in 1..Len(S) \/ k = Len(S) + 1
      BY <2>1
    <3>2. 1..Len(S) \subseteq 1..(Len(S) + 1)
      BY <2>1
    <3>3. QED
      BY <2>1, <2>2, <2>3, <3>1, <3>2 DEF OpsOf
  <2>5. {c[k] : k \in 1..Len(S)} = ToSet(S)
    BY <1>1, <2>2, SMTT(20) DEF ToSet
  <2>6. {ops[k] : k \in OpsOf(ops, "SUPERSEDE")} = ToSet(S)
    BY <1>1, <1>4 DEF OpsOf
  <2>7. A[1] \in ToSet(c)
    BY <2>1, <2>2 DEF ToSet
  <2>8. c \in Seq(ToSet(c))
    <3>1. A[1] \in Ops
      BY <1>1, <1>6
    <3>2. Append(S, A[1]) \in Seq(Ops)
      BY <1>1, <3>1
    <3>3. QED
      BY <1>2, <1>6, <3>2, ListOfItself
  <2>9. QED
    BY <1>5, <1>6, <1>9, <2>4, <2>5, <2>6, <2>7, <2>8 DEF CapKeeps, c
<1>7. CASE ~(S # <<>> /\ A # <<>>)
  <2>1. c = BestOps(ops)
    BY <1>2, <1>7
  <2>2. QED
    BY <1>5, <1>7, <2>1, BestAreFew DEF CapKeeps, c
<1>8. QED
  BY <1>6, <1>7

(* The suppression changes no SUPERSEDE, adds nothing, and drops no ADD but*)
(* a transient one.                                                        *)
LEMMA SuppressionKeeps ==
  ASSUME NEW ops \in Seq(Ops), NEW c, c \in Seq(ToSet(c)), o.maxOps \in Nat, CapKeeps(ops, c)
  PROVE  AppliedWhole(ops, Lasting(c))
<1> DEFINE T == {op \in ToSet(c) : op.kind # "NOOP" /\ ~Transient(op)}
           l == Keep(c, T)
<1>1. Lasting(c) = l
  BY DEF Lasting
<1>2. l \in Seq(ToSet(c)) /\ ToSet(l) = T
  <2>1. ToSet(c) \cap T = T
    OBVIOUS
  <2> HIDE DEF T
  <2>2. QED
    BY <2>1, KeepSublist, KeepElements
<1>3. \A op \in ToSet(c) : op.kind = "SUPERSEDE" => op \in T
  BY DEF Transient
<1>4. \A op \in ToSet(c) : op.kind = "ADD" => op \in T \/ Transient(op)
  OBVIOUS
<1>5. \A op \in T : op \in ToSet(c) /\ op.kind # "NOOP"
  OBVIOUS
<1>6. /\ IsFiniteSet({i \in DOMAIN c : c[i] \in T})
      /\ Cardinality({i \in DOMAIN c : c[i] \in T}) = Len(l)
  BY KeepCount
<1> HIDE DEF T, l
<1>7. \A s \in {c, l} : ToSet(s) = {s[k] : k \in DOMAIN s}
  BY DEF ToSet
<1>8. CASE OpsOf(ops, "SUPERSEDE") # {} /\ OpsOf(ops, "ADD") # {}
  <2>1. {c[k] : k \in OpsOf(c, "SUPERSEDE")} = {l[k] : k \in OpsOf(l, "SUPERSEDE")}
    <3>1. \A s \in {c, l} : {s[k] : k \in OpsOf(s, "SUPERSEDE")}
                              = {op \in ToSet(s) : op.kind = "SUPERSEDE"}
      BY <1>7 DEF OpsOf
    <3>2. {op \in ToSet(c) : op.kind = "SUPERSEDE"} = {op \in ToSet(l) : op.kind = "SUPERSEDE"}
      BY <1>2, <1>3, <1>5
    <3>3. QED
      BY <3>1, <3>2
  <2>2. PICK k \in DOMAIN ops : FirstAdd(ops, k) /\ ops[k] \in ToSet(c)
    BY <1>8 DEF CapKeeps
  <2>3. ops[k].kind = "ADD"
    BY <2>2 DEF FirstAdd, OpsOf
  <2>4. ops[k] \in T => OpsOf(l, "ADD") # {}
    BY <1>2, <1>7, <2>3 DEF OpsOf
  <2>5. QED
    BY <1>1, <1>4, <1>8, <2>1, <2>2, <2>3, <2>4 DEF AppliedWhole, CapKeeps
<1>9. CASE ~(OpsOf(ops, "SUPERSEDE") # {} /\ OpsOf(ops, "ADD") # {})
  <2> DEFINE C == {k \in DOMAIN c : c[k].kind # "NOOP"}
             D == {k \in DOMAIN l : l[k].kind # "NOOP"}
             K == {i \in DOMAIN c : c[i] \in T}
  <2>1. Cardinality(C) <= o.maxOps
    BY <1>9 DEF CapKeeps
  <2>2. Len(l) \in Nat /\ DOMAIN l = 1..Len(l) /\ Len(c) \in Nat /\ DOMAIN c = 1..Len(c)
    BY <1>2
  <2>3. ASSUME NEW n \in Nat PROVE IsFiniteSet(1..n) /\ Cardinality(1..n) = n
    <3>1. 1 \in Int /\ n \in Int
      OBVIOUS
    <3>4. IsFiniteSet(1..n) /\ Cardinality(1..n) = IF 1 > n THEN 0 ELSE n - 1 + 1
      BY <3>1, FS_Interval
    <3>2. (IF 1 > n THEN 0 ELSE n - 1 + 1) = n
      OBVIOUS
    <3>3. QED
      BY <3>4, <3>2
  <2>4. K \subseteq C /\ D \subseteq 1..Len(l) /\ C \subseteq 1..Len(c)
    BY <1>5, <2>2
  <2> HIDE DEF C, D, K
  <2>5. IsFiniteSet(C) /\ Cardinality(C) \in Nat /\ Cardinality(D) \in Nat
    BY <2>2, <2>3, <2>4, FS_Subset, FS_CardinalityType
  <2>6. Cardinality(D) <= Len(l)
    <3> DEFINE I == 1..Len(l)
    <3>1. IsFiniteSet(I) /\ Cardinality(I) = Len(l) /\ D \subseteq I
      BY <2>2, <2>3, <2>4
    <3> HIDE DEF I
    <3>2. QED
      BY <3>1, FS_Subset
  <2>7. Cardinality(K) <= Cardinality(C)
    BY <2>4, <2>5, FS_Subset
  <2>8. Cardinality(D) <= o.maxOps
    BY <1>6, <2>1, <2>2, <2>5, <2>6, <2>7 DEF K
  <2>9. QED
    BY <1>1, <1>9, <2>8 DEF AppliedWhole, D
<1>10. QED
  BY <1>8, <1>9

(* Before there is an answer nothing is broken.                            *)
LEMMA NoAnswerIsWhole ==
  PromptTypeOK /\ reply = <<>> /\ left = <<>> => AppliedWhole(reply, left)
<1> SUFFICES ASSUME PromptTypeOK, reply = <<>>, left = <<>>
             PROVE  AppliedWhole(reply, left)
  OBVIOUS
<1>1. o.maxOps \in Nat
  BY DEF PromptTypeOK, Policies
<1>2. OpsOf(reply, "ADD") = {} /\ {k \in DOMAIN left : left[k].kind # "NOOP"} = {}
  BY DEF OpsOf
<1>3. Cardinality({}) = 0
  BY FS_EmptySet
<1>4. QED
  BY <1>1, <1>2, <1>3 DEF AppliedWhole

(* "Conflict handling is exempt" from the limit of ops per batch and "UPDATE*)
(* and SUPERSEDE operations are never changed": for any answer, memory and *)
(* limit, of an answer that supersedes and adds every SUPERSEDE is applied,*)
(* and an ADD with them unless the first is transient; and what is applied *)
(* of any other answer keeps to the limit.                                 *)
THEOREM ReversalsAreWhole == PromptSpec => []ReversalsStayWhole
<1> DEFINE Whole == /\ o.chat => AppliedWhole(reply, left)
                    /\ stage \notin {"asking", "done"} => reply = <<>> /\ left = <<>>
<1>1. PromptTypeOK /\ reply = <<>> /\ left = <<>> => AppliedWhole(reply, left)
  BY NoAnswerIsWhole
<1>2. (PromptTypeOK /\ reply = <<>> /\ left = <<>> => AppliedWhole(reply, left))'
  BY <1>1, PTL
<1>3. PromptInit => Whole
  <2>1. PromptInit => PromptTypeOK
    BY InitEstablishesPromptTypes, PromptAssumption
  <2>2. QED
    BY <1>1, <2>1 DEF PromptInit
<1>4. ASSUME PromptTypeOK, PromptTypeOK', [PromptNext]_promptVars, Whole PROVE Whole'
  <2>1. CASE TakeAnswer
    <3>1. PICK ops \in Answers :
            /\ reply' = PolicyFilter(DropDuplicates(ops))
            /\ left' = Lasting(IF o.chat THEN CapOps(reply') ELSE reply')
      BY <2>1 DEF TakeAnswer
    <3>2. /\ o' = o /\ memory' = memory /\ turns' = turns /\ stage' = "asking"
          /\ o.maxOps \in Nat
      BY <1>4, <2>1 DEF TakeAnswer, PromptTypeOK, Policies
    <3>3. ASSUME o.chat PROVE AppliedWhole(reply, left)'
      <4>1. DropDuplicates(ops) \in Seq(Ops)
        BY PromptAssumption, KeepSublist DEF PromptAssumption, DropDuplicates
      <4>2. reply' \in Seq(Ops)
        BY <3>1, <3>3, <4>1, KeepSublist DEF PolicyFilter
      <4>3. CapKeeps(reply', CapOps(reply')) /\ CapOps(reply') \in Seq(ToSet(CapOps(reply')))
        BY <3>2, <4>2, CapsHold
      <4>4. AppliedWhole(reply', left')
        BY <3>1, <3>2, <3>3, <4>2, <4>3, SuppressionKeeps
      <4>5. \A op : Transient(op)' <=> Transient(op)
        BY <3>2 DEF Transient, Redundant, Unaccepted, ActiveIn, Ids, Users, Says
      <4>6. QED
        BY <3>2, <4>4, <4>5 DEF AppliedWhole
    <3>4. QED
      BY <3>2, <3>3
  <2>2. CASE UNCHANGED <<o, turns, memory, reply, left>>
             /\ (stage' \notin {"asking", "done"} => stage \notin {"asking", "done"})
    <3>1. \A op : Transient(op)' <=> Transient(op)
      BY <2>2 DEF Transient, Redundant, Unaccepted, ActiveIn, Ids, Users, Says
    <3>2. o' = o /\ reply' = reply /\ left' = left
      BY <2>2
    <3>3. AppliedWhole(reply, left) => AppliedWhole(reply, left)'
      BY <3>1, <3>2, SMTT(20) DEF AppliedWhole
    <3>4. QED
      BY <1>4, <2>2, <3>2, <3>3
  <2>3. CASE MigrateEntries
    <3>1. reply' = <<>> /\ left' = <<>>
      BY <1>4, <2>3 DEF MigrateEntries
    <3>2. AppliedWhole(reply, left)'
      BY <1>2, <1>4, <3>1
    <3>3. QED
      BY <3>1, <3>2
  <2>4. QED
    BY <1>4, <2>1, <2>2, <2>3
    DEF PromptNext, promptVars, Decide, SelectTurns, SelectEntries, Question
<1>5. Whole => ReversalsStayWhole
  BY DEF AppliedWhole, FirstAdd, OpsOf, ReversalsStayWhole
<1> HIDE DEF Whole
<1>6. QED
  BY <1>3, <1>4, <1>5, PromptTypeCorrect, PTL DEF PromptSpec

-----------------------------------------------------------------------------
(* The candidates for the prompt that updates.                             *)

(* The sort key of an entry for the update prompt, whose last component    *)
(* is the id.                                                              *)
LEMMA UpdateKeys ==
  ASSUME NEW m \in Memories, NEW words, NEW i \in Ids(m)
  PROVE  UpdateKey(m, words, i) \in [1..2 -> Int] /\ UpdateKey(m, words, i)[2] = i
<1> DEFINE e == m.entries[i]
<1>1. e \in EntryRecord /\ i \in Int
  BY MemoryTypes
<1> HIDE DEF e
<1>2. e.turn \in Nat /\ e.words \in Text
  BY <1>1 DEF EntryRecord
<1>3. Cardinality(e.words \cap words) \in Nat
  <2>1. IsFiniteSet(e.words)
    BY <1>2 DEF Text
  <2>2. IsFiniteSet(e.words \cap words)
    BY <2>1, FS_Subset
  <2>3. QED
    BY <2>2, FS_CardinalityType
<1>4. UpdateScore(e, words) \in Int
  <2>1. Min({e.turn, 1000}) \in Int
    BY <1>2, MinOfTwo
  <2> DEFINE a == IF e.active THEN 2000 ELSE 0
             c == Cardinality(e.words \cap words)
  <2>2. a \in Int /\ c \in Int
    BY <1>3
  <2>3. UpdateScore(e, words) = 3000 * c + a + Min({e.turn, 1000})
    BY DEF UpdateScore
  <2> HIDE DEF a, c
  <2>4. QED
    BY <2>1, <2>2, <2>3
<1>5. UpdateKey(m, words, i) = <<-UpdateScore(e, words), i>>
  BY DEF UpdateKey, e
<1>6. -UpdateScore(e, words) \in Int
  BY <1>4
<1>7. QED
  BY <1>1, <1>5, <1>6

(* The lexical matches in the order of their keys.                         *)
RankedLexical(m, words, subjects) ==
  Sorted(LexicalMatches(m, words, subjects),
         LAMBDA i, j : LexLess(UpdateKey(m, words, i), UpdateKey(m, words, j)))

(* Lexical candidates are ranked: every match, once.                       *)
LEMMA LexicalListed ==
  ASSUME NEW m \in Memories, NEW words, NEW subjects
  PROVE  Lists(RankedLexical(m, words, subjects), LexicalMatches(m, words, subjects))
<1> DEFINE K == LexicalMatches(m, words, subjects)
           key == [i \in K |-> UpdateKey(m, words, i)]
           R == {p \in K \X K : LexLess(key[p[1]], key[p[2]])}
           list == RankedLexical(m, words, subjects)
<1>1. \A x \in K : x \in Ids(m)
  BY DEF LexicalMatches
<1>2. IsFiniteSet(K) /\ Cardinality(K) \in Nat
  BY <1>1, MemoryTypes
<1>3. list = [i \in 1..Cardinality(K) |->
                CHOOSE x \in K : Cardinality({y \in K :
                  LexLess(UpdateKey(m, words, y), UpdateKey(m, words, x))}) = i - 1]
  BY DEF RankedLexical, Sorted
<1> HIDE DEF K, list
<1>4. \A x \in K : /\ key[x] = UpdateKey(m, words, x) /\ key[x] \in [1..2 -> Int]
                   /\ key[x][2] = x
  BY <1>1, UpdateKeys
<1>5. \A x, y \in K : <<x, y>> \in R <=> LexLess(key[x], key[y])
  OBVIOUS
<1>6. key \in [K -> [1..2 -> Int]]
  BY <1>4
<1> HIDE DEF R, key
<1>7. \A x, y \in K : <<x, y>> \in R <=>
        \E k \in 1..2 : key[x][k] < key[y][k] /\ \A j \in 1..(k - 1) : key[x][j] = key[y][j]
  <2>1. \A x \in K : DOMAIN key[x] = 1..2
    BY <1>6
  <2>2. QED
    BY <1>5, <2>1 DEF LexLess
<1>8. Distinct(K, key) /\ ByKeys(R, K, key, 2)
  BY <1>4, <1>7 DEF Distinct, ByKeys
<1>9. Orders(R, K)
  BY <1>6, <1>8, KeysOrder
<1>10. \A x \in K : {y \in K : LexLess(UpdateKey(m, words, y), UpdateKey(m, words, x))}
                      = Under(R, K, x)
  BY <1>4, <1>5 DEF Under
<1>11. \A i \in 1..Cardinality(K) : \E x \in K : Cardinality(Under(R, K, x)) = i - 1
  BY <1>2, <1>9, SortedPlaces
<1>12. \A i \in 1..Cardinality(K) : list[i] \in K /\ Cardinality(Under(R, K, list[i])) = i - 1
  <2> TAKE i \in 1..Cardinality(K)
  <2> DEFINE At(x) == Cardinality({y \in K :
                        LexLess(UpdateKey(m, words, y), UpdateKey(m, words, x))}) = i - 1
  <2>1. \E x \in K : At(x)
    BY <1>10, <1>11
  <2>2. list[i] = CHOOSE x \in K : At(x)
    BY <1>3
  <2> HIDE DEF At
  <2>3. list[i] \in K /\ At(list[i])
    BY <2>1, <2>2
  <2>4. QED
    BY <1>10, <2>3 DEF At
<1>13. list \in [1..Cardinality(K) -> K]
  BY <1>3, <1>12
<1>14. Lists(list, K)
  BY <1>2, <1>9, <1>12, <1>13, SortedPlaces
<1>15. QED
  BY <1>14 DEF K, list

(* A list of candidates, each once, with all the exact matches T ahead.    *)
Offered(c, m, T) ==
  /\ c \in Seq(Ids(m)) /\ Len(c) \in Nat
  /\ \A j, k \in 1..Len(c) : c[j] = c[k] => j = k
  /\ \A i \in T : \E k \in 1..Len(c) : c[k] = i
  /\ \A j, k \in 1..Len(c) : j < k /\ c[k] \in T => c[j] \in T

(* All exact matches come first, and nothing comes twice.                  *)
LEMMA ExactMatchesOfferedFirst ==
  ASSUME NEW m \in Memories, NEW words, NEW subjects,
         o.maxCandidates \in Nat, o.maxLegacy \in Nat
  PROVE  Offered(UpdateCandidates(m, words, subjects, o), m, TypedMatches(m, subjects))
<1> DEFINE T == TypedMatches(m, subjects)
           L == LexicalMatches(m, words, subjects)
           room == Max({0, o.maxCandidates - Cardinality(T)})
           n == Min({o.maxLegacy, room})
           a == Sorted(T, LAMBDA i, j : i < j)
           r == RankedLexical(m, words, subjects)
           b == First(n, r)
           c == a \o b
<1>1. UpdateCandidates(m, words, subjects, o) = c
  BY DEF UpdateCandidates, RankedLexical
<1>2. T \in SUBSET Ids(m) /\ L \in SUBSET Ids(m) /\ \A i \in L : i \notin T
  BY DEF TypedMatches, LexicalMatches
<1>3. IsFiniteSet(T) /\ Cardinality(T) \in Nat /\ T \in SUBSET Int
  BY <1>2, MemoryTypes
<1>4. Lists(a, T)
  <2> HIDE DEF T
  <2>1. QED
    BY <1>3, SortedNumbers
<1>5. Lists(r, L)
  BY LexicalListed
<1>6. room \in Nat
  <2>1. o.maxCandidates - Cardinality(T) \in Int
    BY <1>3
  <2> HIDE DEF T
  <2>2. QED
    BY <2>1, MaxOfTwo
<1>7. n \in Nat
  <2> HIDE DEF room
  <2>1. QED
    BY <1>6, MinOfTwo
<1> HIDE DEF T, L, a, r, n
<1>8. /\ a \in Seq(Ids(m)) /\ Len(a) \in Nat /\ \A k \in 1..Len(a) : a[k] \in T
      /\ \A j, k \in 1..Len(a) : a[j] = a[k] => j = k
      /\ \A i \in T : \E k \in 1..Len(a) : a[k] = i
  <2> DEFINE l == Cardinality(T)
  <2>1. /\ a \in [1..l -> T] /\ l \in Nat
        /\ \A i, j \in 1..l : a[i] = a[j] => i = j
        /\ \A k \in T : \E i \in 1..l : a[i] = k
    BY <1>4 DEF Lists
  <2> HIDE DEF l
  <2>2. a \in Seq(T) /\ Len(a) = l
    BY <2>1
  <2>3. a \in Seq(Ids(m))
    BY <1>2, <2>1
  <2>4. QED
    BY <2>1, <2>2, <2>3
<1>9. /\ r \in Seq(Ids(m)) /\ Len(r) \in Nat /\ \A k \in 1..Len(r) : r[k] \in L
      /\ \A j, k \in 1..Len(r) : r[j] = r[k] => j = k
  <2> DEFINE l == Cardinality(L)
  <2>1. /\ r \in [1..l -> L] /\ l \in Nat
        /\ \A i, j \in 1..l : r[i] = r[j] => i = j
    BY <1>5 DEF Lists
  <2> HIDE DEF l
  <2>2. r \in Seq(L) /\ Len(r) = l
    BY <2>1
  <2>3. r \in Seq(Ids(m))
    BY <1>2, <2>1
  <2>4. QED
    BY <2>1, <2>2, <2>3
<1>10. /\ b \in Seq(Ids(m)) /\ Len(b) \in Nat /\ \A k \in 1..Len(b) : b[k] \in L
       /\ \A j, k \in 1..Len(b) : b[j] = b[k] => j = k
  <2>1. /\ b \in Seq(Ids(m)) /\ Len(b) \in Nat /\ Len(b) <= Len(r)
        /\ \A k \in 1..Len(b) : b[k] = r[k]
    BY <1>7, <1>9, FirstIsPrefix
  <2> HIDE DEF b
  <2>2. \A k \in 1..Len(b) : k \in 1..Len(r)
    BY <1>9, <2>1
  <2>3. QED
    BY <1>9, <2>1, <2>2
<1> HIDE DEF b
<1>11. /\ c \in Seq(Ids(m)) /\ Len(c) = Len(a) + Len(b)
       /\ \A k \in 1..Len(a) : c[k] = a[k] /\ c[k] \in T
       /\ \A k \in (Len(a) + 1)..Len(c) : c[k] = b[k - Len(a)] /\ c[k] \in L
                                          /\ k - Len(a) \in 1..Len(b)
  <2>1. c \in Seq(Ids(m)) /\ Len(c) = Len(a) + Len(b)
    BY <1>8, <1>10
  <2>2. \A k \in 1..Len(a) : c[k] = a[k] /\ c[k] \in T
    BY <1>8, <1>10
  <2>3. \A k \in (Len(a) + 1)..Len(c) : c[k] = b[k - Len(a)] /\ k - Len(a) \in 1..Len(b)
    BY <1>8, <1>10, <2>1
  <2> HIDE DEF c
  <2>4. QED
    BY <1>10, <2>1, <2>2, <2>3
<1> HIDE DEF c
<1>12. Len(c) \in Nat /\ \A k \in 1..Len(c) : k \in 1..Len(a) \/ k \in (Len(a) + 1)..Len(c)
  BY <1>8, <1>10, <1>11
<1>13. \A j, k \in 1..Len(c) : c[j] = c[k] => j = k
  <2> TAKE j, k \in 1..Len(c)
  <2> HAVE c[j] = c[k]
  <2>1. CASE j \in 1..Len(a) /\ k \in 1..Len(a)
    BY <1>8, <1>11, <2>1
  <2>2. CASE j \in (Len(a) + 1)..Len(c) /\ k \in (Len(a) + 1)..Len(c)
    <3>1. j - Len(a) = k - Len(a)
      BY <1>10, <1>11, <2>2
    <3>2. QED
      BY <1>8, <3>1
  <2>3. CASE ~(j \in 1..Len(a) <=> k \in 1..Len(a))
    BY <1>2, <1>11, <1>12, <2>3
  <2>4. QED
    BY <1>12, <2>1, <2>2, <2>3
<1>14. \A i \in T : \E k \in 1..Len(c) : c[k] = i
  <2> TAKE i \in T
  <2>1. PICK k \in 1..Len(a) : a[k] = i
    BY <1>8
  <2>2. k \in 1..Len(c)
    BY <1>8, <1>10, <1>11
  <2>3. QED
    BY <1>11, <2>1, <2>2
<1>15. \A j, k \in 1..Len(c) : j < k /\ c[k] \in T => c[j] \in T
  <2> TAKE j, k \in 1..Len(c)
  <2> HAVE j < k /\ c[k] \in T
  <2>1. k \in 1..Len(a)
    BY <1>2, <1>11, <1>12
  <2>2. j \in 1..Len(a)
    BY <1>8, <2>1
  <2>3. QED
    BY <1>11, <2>2
<1>16. QED
  BY <1>1, <1>11, <1>12, <1>13, <1>14, <1>15 DEF Offered, T

-----------------------------------------------------------------------------
(* What an entry costs when it is shown.                                   *)
ShownCosts(m) == [i \in Ids(m) |-> RenderTokens(m, {i}, TRUE)]

(* The costs are numbers.                                                  *)
LEMMA EntriesHaveCosts ==
  ASSUME HeaderChars \in Nat, NEW m \in Memories
  PROVE  ShownCosts(m) \in [1..Len(m.entries) -> Nat]
<1>1. /\ Len(m.entries) \in Nat /\ Ids(m) = 1..Len(m.entries)
      /\ LineChars(m) \in [1..Len(m.entries) -> Nat]
  BY MemoryTypes
<1>2. ASSUME NEW i \in Ids(m) PROVE RenderTokens(m, {i}, TRUE) \in Nat
  <2> DEFINE active == {j \in {i} : m.entries[j].active}
             old == {i} \ active
             s == Cardinality({m.entries[j].section : j \in active})
             d == Min({1, Cardinality(old)})
             e == Min({1, m.narrative})
             x == SumFunctionOnSet(LineChars(m), active \cup old)
             y == IF m.narrative > 0 THEN m.narrative + 1 ELSE 0
             b == s + d + e
  <2>1. active \in SUBSET Ids(m) /\ old \in SUBSET Ids(m) /\ active \cup old \in SUBSET Ids(m)
    OBVIOUS
  <2>2. IsFiniteSet(active) /\ Cardinality(old) \in Nat /\ m.narrative \in Nat
    BY <2>1, MemoryTypes
  <2>3. s \in Nat
    <3> DEFINE f == [j \in active |-> m.entries[j].section]
    <3> HIDE DEF active
    <3>1. DOMAIN f = active /\ f = [j \in active |-> f[j]]
          /\ {m.entries[j].section : j \in active} = {f[j] : j \in active}
      OBVIOUS
    <3> HIDE DEF f
    <3>2. QED
      BY <2>2, <3>1, ImageIsFinite
  <2>4. d \in Nat /\ e \in Nat /\ y \in Nat
    <3> HIDE DEF old
    <3>1. d \in Nat
      BY <2>2, MinOfTwo
    <3>2. e \in Nat /\ y \in Nat
      BY <2>2, MinOfTwo
    <3>3. QED
      BY <3>1, <3>2
  <2>5. x \in Nat
    <3> DEFINE K == active \cup old
    <3>1. K \in SUBSET (1..Len(m.entries))
      BY <1>1, <2>1
    <3> HIDE DEF K
    <3>2. PICK w : Weighs(w, LineChars(m), Len(m.entries))
      BY <1>1, WeightsExist
    <3>3. SumFunctionOnSet(LineChars(m), K) = w[K]
      BY <1>1, <3>1, <3>2, SumIsWeight
    <3>4. w[K] \in Nat
      BY <3>1, <3>2 DEF Weighs
    <3>5. QED
      BY <3>3, <3>4 DEF K
  <2>6. RenderChars(m, {i}, TRUE) =
          IF b = 0 THEN 0 ELSE b * HeaderChars + 2 * (b - 1) + x + y
    BY DEF RenderChars
  <2> HIDE DEF s, d, e, x, y
  <2>7. b \in Nat /\ b * HeaderChars \in Nat
    BY <2>3, <2>4
  <2> HIDE DEF b
  <2>8. (IF b = 0 THEN 0 ELSE b * HeaderChars + 2 * (b - 1) + x + y) \in Nat
    <3> DEFINE z == b * HeaderChars
    <3>1. z \in Nat
      BY <2>7
    <3> HIDE DEF z
    <3>2. (IF b = 0 THEN 0 ELSE z + 2 * (b - 1) + x + y) \in Nat
      BY <2>4, <2>5, <2>7, <3>1
    <3>3. QED
      BY <3>2 DEF z
  <2>9. RenderChars(m, {i}, TRUE) \in Nat
    BY <2>6, <2>8
  <2> DEFINE chars == RenderChars(m, {i}, TRUE)
  <2>10. RenderTokens(m, {i}, TRUE) = Tokens(chars)
    BY DEF RenderTokens
  <2> HIDE DEF chars
  <2>11. chars \in Nat
    BY <2>9 DEF chars
  <2>12. chars <= chars
    BY <2>11
  <2>13. Tokens(chars) \in Nat
    BY <2>11, <2>12, TokensGrow
  <2>14. QED
    BY <2>10, <2>13
<1>3. QED
  BY <1>1, <1>2 DEF ShownCosts

-----------------------------------------------------------------------------
(* The loop of UpdateMemorySelector.select.                                *)
Selections(m) == [shown: Seq(Ids(m)), visible: Nat, overflow: Int]

(* One pass of that loop.                                                  *)
OfferTo(m, T, budget, acc, i) ==
  Offer(acc, i, RenderTokens(m, {i}, TRUE), i \in T, budget)

(* What one candidate, of the given cost, makes of the selection.          *)
Adds(new, acc, i, cost, T, budget) ==
  LET fits == budget = NoBudget \/ acc.visible + cost <= budget
  IN  /\ ~fits /\ i \notin T => new = acc
      /\ fits \/ i \in T =>
           /\ new.shown = Append(acc.shown, i)
           /\ new.visible = acc.visible + cost
           /\ fits => new.overflow = acc.overflow
           /\ ~fits => new.overflow = acc.overflow + acc.visible + cost
                         - (IF budget >= acc.visible THEN budget ELSE acc.visible)

(* A candidate is shown when it fits or must be; its tokens are added to   *)
(* what is visible, and beyond the budget to the overflow.                 *)
LEMMA OfferAdds ==
  ASSUME HeaderChars \in Nat, NEW m \in Memories, NEW budget \in Budgets,
         NEW acc \in Selections(m), NEW i \in Ids(m), NEW T
  PROVE  /\ OfferTo(m, T, budget, acc, i) \in Selections(m)
         /\ Adds(OfferTo(m, T, budget, acc, i), acc, i, ShownCosts(m)[i], T, budget)
<1> DEFINE cost == ShownCosts(m)[i]
           fits == budget = NoBudget \/ acc.visible + cost <= budget
           new  == OfferTo(m, T, budget, acc, i)
           over == IF fits THEN 0 ELSE OverflowBy(acc.visible, cost, budget)
           added == [shown |-> Append(acc.shown, i), visible |-> acc.visible + cost,
                     overflow |-> acc.overflow + over]
<1>1. cost \in Nat /\ RenderTokens(m, {i}, TRUE) = cost
  <2>1. Ids(m) = 1..Len(m.entries)
    BY MemoryTypes
  <2>2. QED
    BY <2>1, EntriesHaveCosts DEF ShownCosts
<1>2. acc.shown \in Seq(Ids(m)) /\ acc.visible \in Nat /\ acc.overflow \in Int
  BY DEF Selections
<1>3. new = IF ~fits /\ i \notin T THEN acc ELSE added
  BY <1>1 DEF OfferTo, Offer, Within
<1> HIDE DEF cost, new
<1>4. ~fits => over = acc.visible + cost
                        - (IF budget >= acc.visible THEN budget ELSE acc.visible)
  <2> SUFFICES ASSUME ~fits
      PROVE  over = acc.visible + cost
                      - (IF budget >= acc.visible THEN budget ELSE acc.visible)
    OBVIOUS
  <2>1. budget \in Nat
    BY DEF Budgets
  <2>2. Max({budget, acc.visible}) = IF budget >= acc.visible THEN budget ELSE acc.visible
    BY <1>2, <2>1, MaxOfTwo
  <2>3. QED
    BY <2>2 DEF OverflowBy
<1>5. over \in Int
  <2>1. CASE fits
    BY <2>1
  <2>2. CASE ~fits
    <3>1. budget \in Nat
      BY <2>2 DEF Budgets
    <3>2. QED
      BY <1>1, <1>2, <1>4, <2>2, <3>1
  <2>3. QED
    BY <2>1, <2>2
<1>6. fits => over = 0
  OBVIOUS
<1> HIDE DEF over
<1>7. added \in Selections(m)
  <2>1. Append(acc.shown, i) \in Seq(Ids(m))
    BY <1>2
  <2>2. acc.visible + cost \in Nat /\ acc.overflow + over \in Int
    BY <1>1, <1>2, <1>5
  <2>3. QED
    BY <2>1, <2>2 DEF Selections
<1>8. /\ added.shown = Append(acc.shown, i) /\ added.visible = acc.visible + cost
      /\ added.overflow = acc.overflow + over
  OBVIOUS
<1> HIDE DEF added
<1>9. new \in Selections(m)
  BY <1>3, <1>7
<1>10. fits => added.overflow = acc.overflow
  BY <1>2, <1>6, <1>8
<1>11. ~fits => added.overflow = acc.overflow + acc.visible + cost
                  - (IF budget >= acc.visible THEN budget ELSE acc.visible)
  <2> SUFFICES ASSUME ~fits
      PROVE  added.overflow = acc.overflow + acc.visible + cost
                  - (IF budget >= acc.visible THEN budget ELSE acc.visible)
    OBVIOUS
  <2>1. budget \in Nat
    BY DEF Budgets
  <2> HIDE DEF fits
  <2>2. QED
    BY <1>1, <1>2, <1>4, <1>8, <2>1
<1> HIDE DEF fits
<1>12. QED
  BY <1>3, <1>8, <1>9, <1>10, <1>11 DEF cost, new, fits, Adds

(* h holds the states of that loop.                                        *)
IsOffering(h, c, m, T, budget, result) ==
  /\ h \in [0..Len(c) -> Selections(m)]
  /\ h[0] = NothingShown /\ h[Len(c)] = result
  /\ \A k \in 1..Len(c) : h[k] = OfferTo(m, T, budget, h[k - 1], c[k])

(* What select_for_update returns is where its loop ends.                  *)
LEMMA UpdateSelectionIsLoop ==
  ASSUME HeaderChars \in Nat, NEW m \in Memories, NEW words, NEW subjects, words # {},
         o \in Policies, o.memoryBudget # 0
  PROVE  \E h : IsOffering(h, UpdateCandidates(m, words, subjects, o), m,
                           TypedMatches(m, subjects), o.memoryBudget,
                           SelectForUpdate(m, words, subjects, o))
<1> DEFINE s == UpdateCandidates(m, words, subjects, o)
           T == TypedMatches(m, subjects)
           result == SelectForUpdate(m, words, subjects, o)
           N == Len(s)
           R == Selections(m)
           base == NothingShown
           Step(r, i) == OfferTo(m, T, o.memoryBudget, r, i)
           step == [p \in R \X (1..N) |-> Step(p[1], s[p[2]])]
           Eq(g) == g = [t \in SUBSET DOMAIN s |->
                           IF t = {} THEN base ELSE Step(g[t \ {Max(t)}], s[Max(t)])]
           g == CHOOSE f : Eq(f)
<1>0. o.maxCandidates \in Nat /\ o.maxLegacy \in Nat /\ o.memoryBudget \in Budgets
  BY DEF Policies
<1>1. N \in Nat /\ s \in Seq(Ids(m))
  BY <1>0, ExactMatchesOfferedFirst DEF Offered
<1>2. DOMAIN s = 1..N /\ \A i \in 1..N : s[i] \in Ids(m)
  BY <1>1
<1>3. result = g[DOMAIN s]
  BY DEF SelectForUpdate, FoldLeft, MapThenFoldSet, OfferTo
<1>4. base \in R
  BY DEF NothingShown, Selections
<1>5. \A r \in R, i \in 1..N : Step(r, s[i]) \in R
  BY <1>0, <1>2, OfferAdds
<1> HIDE DEF N, g, s, Step, T, result
<1>6. IsStep(step, R, N) /\ \A r \in R, i \in 1..N : step[<<r, i>>] = Step(r, s[i])
  <2> HIDE DEF R
  <2>1. QED
    BY <1>5 DEF IsStep
<1> HIDE DEF step, R, base
<1>7. Recurses(g, R, base, N, step)
  <2>1. PICK f : f \in [SUBSET (1..N) -> R] /\ Recurses(f, R, base, N, step)
    BY <1>1, <1>4, <1>6, SubsetRecursion
  <2>2. \A t \in SUBSET (1..N) : t # {} => /\ Max(t) \in 1..N
                                           /\ t \ {Max(t)} \in SUBSET (1..N)
    BY <1>1, MaxOfInterval
  <2> DEFINE Table(p) == [t \in SUBSET (1..N) |->
                            IF t = {} THEN base ELSE Step(p[t \ {Max(t)}], s[Max(t)])]
  <2>3. \A p : Eq(p) <=> p = Table(p)
    BY <1>2
  <2>4. f = Table(f)
    <3>1. f = [t \in SUBSET (1..N) |-> f[t]]
      BY <2>1
    <3>2. ASSUME NEW t \in SUBSET (1..N)
          PROVE  f[t] = IF t = {} THEN base ELSE Step(f[t \ {Max(t)}], s[Max(t)])
      <4>1. CASE t = {}
        BY <2>1, <4>1 DEF Recurses
      <4>2. CASE t # {}
        <5>1. Max(t) \in 1..N /\ f[t \ {Max(t)}] \in R
          BY <2>1, <2>2, <4>2
        <5>2. f[t] = step[<<f[t \ {Max(t)}], Max(t)>>]
          BY <2>1, <4>2, <5>1 DEF Recurses
        <5>3. QED
          BY <1>6, <4>2, <5>1, <5>2
      <4>3. QED
        BY <4>1, <4>2
    <3>3. QED
      BY <3>1, <3>2
  <2> HIDE DEF Eq
  <2>5. Eq(g)
    BY <2>3, <2>4 DEF g
  <2>6. g = Table(g)
    BY <2>3, <2>5
  <2>7. QED
    BY <1>6, <2>2, <2>6 DEF Recurses
<1>8. PICK h : IsTable(h, R, base, N, step) /\ h[N] = g[1..N]
  BY <1>1, <1>4, <1>6, <1>7, FoldTable
<1>9. h \in [0..N -> R] /\ h[0] = base /\ h[N] = result
  BY <1>2, <1>3, <1>8 DEF IsTable
<1>10. ASSUME NEW i \in 1..N PROVE h[i] = Step(h[i - 1], s[i])
  <2>1. h[i - 1] \in R
    BY <1>1, <1>9, i - 1 \in 0..N
  <2>2. QED
    BY <1>6, <1>8, <2>1 DEF IsTable
<1>11. IsOffering(h, s, m, T, o.memoryBudget, result)
  BY <1>9, <1>10 DEF IsOffering, R, base, N, Step
<1>12. QED
  BY <1>11 DEF s, T, result

(* What the loop has shown after k candidates: those that must be shown,   *)
(* and beyond the budget nothing else; the overflow is what they cost less *)
(* the budget.                                                             *)
ShownSoFar(acc, c, k, T, budget, w) ==
  /\ ToSet(acc.shown) \subseteq {c[j] : j \in 1..k}
  /\ acc.visible = w[ToSet(acc.shown)]
  /\ acc.overflow = IF budget = NoBudget \/ acc.visible <= budget THEN 0
                    ELSE acc.visible - budget
  /\ \A j \in 1..k : c[j] \in T => c[j] \in ToSet(acc.shown)
  /\ ToSet(acc.shown) \subseteq T \/ acc.overflow = 0

(* One more candidate.                                                     *)
LEMMA OfferShows ==
  ASSUME HeaderChars \in Nat, NEW m \in Memories, NEW budget \in Budgets, NEW T,
         NEW c, Offered(c, m, T), NEW w, Weighs(w, ShownCosts(m), Len(m.entries)),
         NEW k \in 1..Len(c), NEW acc \in Selections(m),
         ShownSoFar(acc, c, k - 1, T, budget, w)
  PROVE  ShownSoFar(OfferTo(m, T, budget, acc, c[k]), c, k, T, budget, w)
<1> DEFINE i == c[k]
           cost == ShownCosts(m)[i]
           fits == budget = NoBudget \/ acc.visible + cost <= budget
           new == OfferTo(m, T, budget, acc, i)
           old == ToSet(acc.shown)
<1>1. /\ Len(c) \in Nat /\ k - 1 \in Nat /\ Ids(m) = 1..Len(m.entries)
      /\ i \in Ids(m) /\ cost \in Nat
  <2>1. c \in Seq(Ids(m)) /\ Len(c) \in Nat
    BY DEF Offered
  <2>2. i \in Ids(m) /\ k - 1 \in Nat
    BY <2>1
  <2>3. ShownCosts(m) \in [1..Len(m.entries) -> Nat] /\ Ids(m) = 1..Len(m.entries)
    BY EntriesHaveCosts, MemoryTypes
  <2>4. QED
    BY <2>1, <2>2, <2>3
<1>2. acc.shown \in Seq(Ids(m)) /\ acc.visible \in Nat /\ acc.overflow \in Int
  BY DEF Selections
<1>3. /\ new \in Selections(m)
      /\ ~fits /\ i \notin T => new = acc
      /\ fits \/ i \in T =>
           /\ new.shown = Append(acc.shown, i)
           /\ new.visible = acc.visible + cost
           /\ fits => new.overflow = acc.overflow
           /\ ~fits => new.overflow = acc.overflow + acc.visible + cost
                         - (IF budget >= acc.visible THEN budget ELSE acc.visible)
  <2>1. new \in Selections(m) /\ Adds(new, acc, i, cost, T, budget)
    BY <1>1, OfferAdds
  <2> HIDE DEF new, cost
  <2>2. QED
    BY <2>1 DEF Adds
<1>4. \A j \in 1..k : j \in 1..(k - 1) \/ j = k
  BY <1>1
<1>5. \A j \in 1..(k - 1) : j \in 1..k /\ j \in 1..Len(c) /\ j < k
  BY <1>1
<1>6. i \notin old
  <2>1. i \notin {c[j] : j \in 1..(k - 1)}
    BY <1>1, <1>5 DEF Offered
  <2>2. QED
    BY <2>1 DEF ShownSoFar
<1>7. old \in SUBSET Ids(m)
  BY <1>2 DEF ToSet
<1>8. \A j \in 1..(k - 1) : i \in T => c[j] \in T
  BY <1>5 DEF Offered
<1>9. i \in T => old \subseteq T
  BY <1>8 DEF ShownSoFar
<1> HIDE DEF cost, new
<1>10. CASE ~fits /\ i \notin T
  <2>1. new = acc
    BY <1>3, <1>10
  <2>2. old \subseteq {c[j] : j \in 1..k}
    BY <1>5 DEF ShownSoFar
  <2>3. \A j \in 1..k : c[j] \in T => c[j] \in old
    BY <1>4, <1>10 DEF ShownSoFar
  <2>4. ShownSoFar(acc, c, k, T, budget, w)
    BY <2>2, <2>3 DEF ShownSoFar
  <2>5. QED
    BY <2>1, <2>4 DEF new
<1>11. CASE fits \/ i \in T
  <2>1. new.shown = Append(acc.shown, i) /\ new.visible = acc.visible + cost
    BY <1>3, <1>11
  <2>2. ToSet(new.shown) = old \cup {i}
    BY <1>1, <1>2, <2>1, AppendedElements, SMTT(20)
  <2>3. ToSet(new.shown) \subseteq {c[j] : j \in 1..k}
    BY <1>5, <2>2 DEF ShownSoFar
  <2>4. new.visible = w[old \cup {i}]
    <3>1. w[old \cup {i}] = w[old] + ShownCosts(m)[i]
      BY <1>1, <1>6, <1>7 DEF Weighs
    <3>2. QED
      BY <2>1, <3>1 DEF ShownSoFar, cost
  <2>5. new.overflow = IF budget = NoBudget \/ new.visible <= budget THEN 0
                       ELSE new.visible - budget
    <3> DEFINE v == acc.visible
               x == acc.overflow
               y == new.overflow
    <3>1. v \in Nat /\ x \in Int /\ cost \in Nat /\ new.visible = v + cost
      BY <1>1, <1>2, <2>1
    <3>2. x = IF budget = NoBudget \/ v <= budget THEN 0 ELSE v - budget
      BY DEF ShownSoFar
    <3>3. fits => y = x
      BY <1>3, <1>11
    <3>4. ~fits => y = x + v + cost - (IF budget >= v THEN budget ELSE v)
      BY <1>3, <1>11
    <3> HIDE DEF v, x, y
    <3>5. CASE budget = NoBudget
      BY <3>2, <3>3, <3>5 DEF y
    <3>6. CASE budget # NoBudget
      <4>1. budget \in Nat
        BY <3>6 DEF Budgets
      <4>2. fits <=> v + cost <= budget
        BY <3>6 DEF v
      <4> HIDE DEF fits
      <4>3. CASE v + cost <= budget
        <5>1. v <= budget
          BY <3>1, <4>1, <4>3
        <5>2. y = 0
          BY <3>2, <3>3, <4>2, <4>3, <5>1
        <5>3. QED
          BY <3>1, <4>3, <5>2 DEF y
      <4>4. CASE ~(v + cost <= budget)
        <5>1. y = x + v + cost - (IF budget >= v THEN budget ELSE v)
          BY <3>4, <4>2, <4>4
        <5>2. y = v + cost - budget
          <6>1. CASE v <= budget
            <7>1. x = 0 /\ y = x + v + cost - budget
              BY <3>1, <3>2, <4>1, <5>1, <6>1
            <7>2. QED
              BY <3>1, <4>1, <7>1
          <6>2. CASE ~(v <= budget)
            <7>1. x = v - budget /\ ~(budget >= v)
              BY <3>1, <3>2, <3>6, <4>1, <6>2
            <7>2. y = x + v + cost - v
              BY <5>1, <7>1
            <7>3. QED
              BY <3>1, <4>1, <7>1, <7>2
          <6>3. QED
            BY <6>1, <6>2
        <5>3. QED
          BY <3>1, <3>6, <4>1, <4>4, <5>2 DEF y
      <4>5. QED
        BY <4>3, <4>4
    <3>7. QED
      BY <3>5, <3>6
  <2>6. \A j \in 1..k : c[j] \in T => c[j] \in ToSet(new.shown)
    BY <1>4, <2>2 DEF ShownSoFar
  <2>7. ToSet(new.shown) \subseteq T \/ new.overflow = 0
    <3>1. CASE i \in T
      BY <1>9, <2>2, <3>1
    <3>2. CASE i \notin T
      <4>1. budget = NoBudget \/ new.visible <= budget
        BY <1>11, <2>1, <3>2
      <4>2. QED
        BY <2>5, <4>1
    <3>3. QED
      BY <3>1, <3>2
  <2>8. ShownSoFar(new, c, k, T, budget, w)
    BY <2>2, <2>3, <2>4, <2>5, <2>6, <2>7 DEF ShownSoFar
  <2>9. QED
    BY <2>8 DEF new
<1>12. QED
  BY <1>10, <1>11

(* The whole loop.                                                         *)
LEMMA OffersShow ==
  ASSUME HeaderChars \in Nat, NEW m \in Memories, NEW budget \in Budgets, NEW T,
         NEW c, Offered(c, m, T), NEW w, Weighs(w, ShownCosts(m), Len(m.entries)),
         NEW h, NEW result, IsOffering(h, c, m, T, budget, result)
  PROVE  ShownSoFar(result, c, Len(c), T, budget, w)
<1> DEFINE S == {k \in 0..Len(c) : ShownSoFar(h[k], c, k, T, budget, w)}
<1>1. Len(c) \in Nat
  BY DEF Offered
<1>2. 0 \in S
  <2>1. h[0] = NothingShown
    BY DEF IsOffering
  <2>2. /\ NothingShown.shown = <<>> /\ NothingShown.visible = 0 /\ NothingShown.overflow = 0
        /\ ToSet(<<>>) = {}
    BY DEF NothingShown, ToSet
  <2>3. w[{}] = 0
    BY DEF Weighs
  <2>4. budget = NoBudget \/ 0 <= budget
    BY DEF Budgets
  <2> DEFINE none == NothingShown
  <2> HIDE DEF none
  <2>5. ToSet(none.shown) = {} /\ none.visible = w[{}] /\ none.overflow = 0 /\ none.visible = 0
    BY <2>2, <2>3 DEF none
  <2>6. \A j \in 1..0 : FALSE
    OBVIOUS
  <2>7. ShownSoFar(none, c, 0, T, budget, w)
    BY <2>4, <2>5, <2>6 DEF ShownSoFar
  <2>8. QED
    BY <1>1, <2>1, <2>7 DEF none
<1>3. ASSUME NEW k \in 1..Len(c), k - 1 \in S PROVE k \in S
  <2>1. k \in 0..Len(c) /\ k - 1 \in 0..Len(c)
    BY <1>1
  <2>2. h[k - 1] \in Selections(m) /\ h[k] = OfferTo(m, T, budget, h[k - 1], c[k])
    BY <2>1 DEF IsOffering
  <2>3. ShownSoFar(h[k - 1], c, k - 1, T, budget, w)
    BY <1>3
  <2>4. ShownSoFar(OfferTo(m, T, budget, h[k - 1], c[k]), c, k, T, budget, w)
    BY <2>2, <2>3, OfferShows
  <2>5. QED
    BY <2>1, <2>2, <2>4
<1> HIDE DEF S
<1>4. \A k \in 0..Len(c) : k \in S
  BY <1>1, <1>2, <1>3, Induction
<1>5. Len(c) \in 0..Len(c) /\ h[Len(c)] = result
  BY <1>1 DEF IsOffering
<1>6. QED
  BY <1>4, <1>5 DEF S

(* What ExactSubjectsShown says of a memory, the subjects of the turns, a  *)
(* budget and a selection.                                                 *)
ShowsExactly(m, subjects, budget, s) ==
  LET inside == ToSet(s.shown)
      cost  == SumFunctionOnSet(ShownCosts(m), inside)
      exact == TypedMatches(m, subjects)
  IN  /\ exact \subseteq inside
      /\ s.overflow = IF budget = NoBudget THEN 0 ELSE Max({0, cost - budget})
      /\ inside # exact => s.overflow = 0

(* It shows every exact match, whatever the budget, and the others only    *)
(* within what the exact ones leave.                                       *)
LEMMA SelectionShowsExactly ==
  ASSUME HeaderChars \in Nat, NEW m \in Memories, NEW words, NEW subjects, words # {},
         o \in Policies, o.memoryBudget # 0
  PROVE  ShowsExactly(m, subjects, o.memoryBudget, SelectForUpdate(m, words, subjects, o))
<1> DEFINE c == UpdateCandidates(m, words, subjects, o)
           T == TypedMatches(m, subjects)
           budget == o.memoryBudget
           s == SelectForUpdate(m, words, subjects, o)
           inside == ToSet(s.shown)
           N == Len(m.entries)
           cost == SumFunctionOnSet(ShownCosts(m), inside)
<1>1. o.maxCandidates \in Nat /\ o.maxLegacy \in Nat /\ budget \in Budgets
  BY DEF Policies
<1>2. Offered(c, m, T)
  BY <1>1, ExactMatchesOfferedFirst
<1>3. PICK h : IsOffering(h, c, m, T, budget, s)
  BY UpdateSelectionIsLoop
<1>4. N \in Nat /\ Ids(m) = 1..N /\ ShownCosts(m) \in [1..N -> Nat]
  BY MemoryTypes, EntriesHaveCosts
<1>5. PICK w : Weighs(w, ShownCosts(m), N)
  BY <1>4, WeightsExist
<1>6. budget # 0
  OBVIOUS
<1> HIDE DEF c, T, budget, s
<1>7. ShownSoFar(s, c, Len(c), T, budget, w)
  BY <1>1, <1>2, <1>3, <1>5, OffersShow
<1>8. s \in Selections(m)
  <2>1. Len(c) \in Nat
    BY <1>2 DEF Offered
  <2>2. QED
    BY <1>3, <2>1 DEF IsOffering
<1>9. inside \in SUBSET (1..N) /\ s.visible \in Nat
  BY <1>4, <1>8 DEF Selections, ToSet
<1> HIDE DEF N
<1>10. cost = w[inside]
  BY <1>4, <1>5, <1>9, SumIsWeight
<1>11. cost = s.visible
  BY <1>7, <1>10 DEF ShownSoFar
<1>12. ASSUME NEW i \in T PROVE i \in inside
  <2>1. PICK k \in 1..Len(c) : c[k] = i
    BY <1>2 DEF Offered
  <2>2. QED
    BY <1>7, <2>1 DEF ShownSoFar
<1> HIDE DEF cost
<1>13. s.overflow = IF budget = NoBudget THEN 0 ELSE Max({0, cost - budget})
  <2>1. s.overflow = IF budget = NoBudget \/ cost <= budget THEN 0 ELSE cost - budget
    BY <1>7, <1>11 DEF ShownSoFar
  <2>2. CASE budget = NoBudget
    BY <2>1, <2>2
  <2>3. CASE budget # NoBudget
    <3>1. budget \in Nat /\ cost \in Nat
      BY <1>1, <1>9, <1>11, <2>3 DEF Budgets
    <3>2. 0 \in Int /\ cost - budget \in Int
      BY <3>1
    <3>3. Max({0, cost - budget}) = IF 0 >= cost - budget THEN 0 ELSE cost - budget
      BY <3>2, MaxOfTwo
    <3>4. QED
      BY <2>1, <2>3, <3>1, <3>3
  <2>4. QED
    BY <2>2, <2>3
<1>14. inside # T => s.overflow = 0
  BY <1>7, <1>12 DEF ShownSoFar
<1>15. QED
  BY <1>12, <1>13, <1>14 DEF ShowsExactly, T, budget, s, cost

(* That an entry has been typed changes neither what it costs nor what it  *)
(* is about.                                                               *)
LEMMA TypingShowsNoLess ==
  ASSUME PromptTypeOK, MigrateEntries
  PROVE  \A subjects, budget, s :
           ShowsExactly(memory, subjects, budget, s) => ShowsExactly(memory', subjects, budget, s)
<1> DEFINE m == memory
           n == memory'
           migrated == [i \in DOMAIN memory.entries |->
                          IF i \in Legacy THEN [memory.entries[i] EXCEPT !.typed = TRUE]
                          ELSE memory.entries[i]]
<1>1. memory' = [memory EXCEPT !.entries = migrated] \/ memory' = memory
  BY DEF MigrateEntries
<1>2. /\ memory \in Memories /\ memory.entries \in Seq(EntryRecord)
      /\ \A i \in DOMAIN memory.entries : memory.entries[i] \in EntryRecord
  <2>1. memory \in Memories
    BY DEF PromptTypeOK
  <2>2. QED
    BY <2>1, MemoryTypes DEF Ids
<1>3. \A e \in EntryRecord : LET f == [e EXCEPT !.typed = TRUE]
        IN  /\ f.section = e.section /\ f.chars = e.chars
            /\ f.active = e.active /\ f.subject = e.subject
  BY DEF EntryRecord
<1>4. /\ Ids(n) = Ids(m) /\ n.narrative = m.narrative
      /\ \A i \in Ids(m) : /\ n.entries[i].section = m.entries[i].section
                           /\ n.entries[i].chars = m.entries[i].chars
                           /\ n.entries[i].active = m.entries[i].active
                           /\ n.entries[i].subject = m.entries[i].subject
  <2>1. CASE memory' = memory
    BY <2>1
  <2>2. CASE memory' = [memory EXCEPT !.entries = migrated]
    <3>1. n.entries = migrated /\ n.narrative = m.narrative
      BY <1>2, <2>2 DEF Memories
    <3>2. QED
      BY <1>2, <1>3, <3>1 DEF Ids
  <2>3. QED
    BY <1>1, <2>1, <2>2
<1> HIDE DEF m, n
<1>5. \A i \in Ids(m) : RenderTokens(n, {i}, TRUE) = RenderTokens(m, {i}, TRUE)
  <2> TAKE i \in Ids(m)
  <2> DEFINE a(k) == {j \in {i} : k.entries[j].active}
             b(k) == {k.entries[j].section : j \in a(k)}
  <2>1. LineChars(n) = LineChars(m)
    BY <1>4 DEF LineChars
  <2>2. a(n) = a(m)
    BY <1>4
  <2>3. b(n) = b(m)
    BY <1>4
  <2>4. RenderChars(n, {i}, TRUE) = RenderChars(m, {i}, TRUE)
    BY <1>4, <2>1, <2>2, <2>3, Zenon DEF RenderChars
  <2>5. QED
    BY <2>4 DEF RenderTokens
<1>6. ShownCosts(n) = ShownCosts(m)
  BY <1>4, <1>5 DEF ShownCosts
<1>7. \A subjects : TypedMatches(n, subjects) = TypedMatches(m, subjects)
  BY <1>4 DEF TypedMatches
<1>8. QED
  BY <1>6, <1>7 DEF ShowsExactly, m, n

(* For any memory, turns, budgets and limits: every entry about exactly    *)
(* the subject of a turn in the prompt is shown, nothing else beyond the   *)
(* budget, and the overflow that is reported is the excess to the token.   *)
THEOREM ExactSubjectsAreShown == PromptSpec => []ExactSubjectsShown
<1> DEFINE Shown == stage \in {"migrating", "calling"} /\ o.memoryBudget # 0 /\ PromptWords # {} =>
                      ShowsExactly(memory, PromptSubjects, o.memoryBudget, selection)
<1>1. PromptInit => Shown
  BY DEF PromptInit
<1>2. ASSUME PromptTypeOK, [PromptNext]_promptVars, Shown
      PROVE  Shown'
  <2>1. CASE SelectEntries
    <3> SUFFICES ASSUME o.memoryBudget # 0, PromptWords # {}
        PROVE  ShowsExactly(memory, PromptSubjects, o.memoryBudget, selection')
      BY <2>1 DEF SelectEntries, PromptWords, PromptSubjects
    <3>1. HeaderChars \in Nat /\ memory \in Memories /\ o \in Policies
      BY <1>2, PromptAssumption DEF PromptAssumption, PromptTypeOK
    <3>2. selection' = SelectForUpdate(memory, PromptWords, PromptSubjects, o)
      BY <2>1 DEF SelectEntries
    <3>3. QED
      BY <3>1, <3>2, SelectionShowsExactly
  <2>2. CASE MigrateEntries
    <3>1. stage = "migrating" /\ o' = o /\ selection' = selection
      BY <2>2 DEF MigrateEntries
    <3>2. PromptWords' = PromptWords /\ PromptSubjects' = PromptSubjects
      BY <2>2 DEF MigrateEntries, PromptWords, PromptSubjects
    <3>3. \A subjects, budget, s : ShowsExactly(memory, subjects, budget, s) =>
                                     ShowsExactly(memory', subjects, budget, s)
      BY <1>2, <2>2, TypingShowsNoLess
    <3> SUFFICES ASSUME o.memoryBudget # 0, PromptWords # {}
        PROVE  ShowsExactly(memory', PromptSubjects, o.memoryBudget, selection)
      BY <3>1, <3>2
    <3>4. QED
      BY <1>2, <3>1, <3>3
  <2>3. CASE UNCHANGED <<turns, memory, o, stage, prompt, selection>>
    BY <1>2, <2>3 DEF PromptWords, PromptSubjects
  <2>4. CASE stage' \notin {"migrating", "calling"}
    BY <2>4
  <2>5. QED
    BY <1>2, <2>1, <2>2, <2>3, <2>4
    DEF PromptNext, promptVars, Decide, SelectTurns, TakeAnswer, Question
<1>3. Shown => ExactSubjectsShown
  <2> SUFFICES ASSUME Shown, stage \in {"migrating", "calling"}, o.memoryBudget # 0,
                      PromptWords # {}
      PROVE  ExactSubjectsShown
    BY DEF ExactSubjectsShown
  <2>1. ShowsExactly(memory, PromptSubjects, o.memoryBudget, selection)
    OBVIOUS
  <2>2. TypedMatches(memory, PromptSubjects)
          = {i \in Ids(memory) : memory.entries[i].subject \in PromptSubjects}
    BY DEF TypedMatches, PromptSubjects
  <2>3. QED
    BY <2>1, <2>2 DEF ShowsExactly, ExactSubjectsShown, ShownCosts
<1> HIDE DEF Shown
<1>4. QED
  BY <1>1, <1>2, <1>3, PromptTypeCorrect, PTL DEF PromptSpec

-----------------------------------------------------------------------------
(* Groups of turns.  A list of positions spans a..c when it has them all   *)
(* and begins with a; the lists of gs tile 1..m when each spans what is    *)
(* between its first position and the first of the next.                   *)
Spans(g, a, c) ==
  /\ g \in Seq(Nat) /\ g # <<>>
  /\ a \in Nat /\ c \in Nat /\ a <= c
  /\ g[1] = a /\ ToSet(g) = a..c

(* The last position that the list j of gs is to have.                     *)
LastIn(gs, m, j) == IF j = Len(gs) THEN m ELSE gs[j + 1][1] - 1

(* The lists of gs tile 1..m.                                              *)
Tiles(gs, m) ==
  /\ gs \in Seq(Seq(Nat)) /\ m \in Nat
  /\ m = 0 <=> gs = <<>>
  /\ gs # <<>> => gs[1][1] = 1
  /\ \A j \in 1..Len(gs) : Spans(gs[j], gs[j][1], LastIn(gs, m, j))

(* s with x in place of its last element.                                  *)
OntoLast(s, x) == Front(s) \o <<x>>

(* Its elements.                                                           *)
LEMMA LastReplaced ==
  ASSUME NEW E, NEW s \in Seq(E), s # <<>>, NEW x \in E
  PROVE  /\ OntoLast(s, x) \in Seq(E) /\ Len(OntoLast(s, x)) = Len(s) /\ Len(s) \in Nat \ {0}
         /\ OntoLast(s, x)[Len(s)] = x
         /\ \A j \in 1..(Len(s) - 1) : OntoLast(s, x)[j] = s[j]
<1> DEFINE f == Front(s)
           n == Len(s)
<1>1. n \in Nat /\ n # 0
  OBVIOUS
<1>2. f \in Seq(E) /\ Len(f) = n - 1 /\ \A j \in 1..(n - 1) : f[j] = s[j]
  <2>1. f = SubSeq(s, 1, n - 1)
    BY DEF Front
  <2>2. \A j \in 1..(n - 1) : s[j] \in E
    OBVIOUS
  <2> HIDE DEF f, n
  <2>3. 1 \in Int /\ n - 1 \in Int /\ (1 <= n - 1 => n - 1 - 1 + 1 = n - 1)
        /\ (~(1 <= n - 1) => n - 1 = 0) /\ (\A j \in 1..(n - 1) : 1 + j - 1 = j)
        /\ 1..(n - 1 - 1 + 1) = 1..(n - 1)
    BY <1>1
  <2>4. /\ SubSeq(s, 1, n - 1) \in Seq(E)
        /\ Len(SubSeq(s, 1, n - 1)) = IF 1 <= n - 1 THEN n - 1 - 1 + 1 ELSE 0
        /\ \A j \in 1..(n - 1 - 1 + 1) : SubSeq(s, 1, n - 1)[j] = s[1 + j - 1]
    BY <2>2, <2>3, SubSeqProperties
  <2>5. QED
    BY <2>1, <2>3, <2>4
<1> HIDE DEF f, n
<1>3. <<x>> \in Seq(E) /\ Len(<<x>>) = 1 /\ <<x>>[1] = x
  OBVIOUS
<1>4. /\ f \o <<x>> \in Seq(E) /\ Len(f \o <<x>>) = n
      /\ (f \o <<x>>)[n] = x
      /\ \A j \in 1..(n - 1) : (f \o <<x>>)[j] = f[j]
  BY <1>1, <1>2, <1>3
<1>5. QED
  BY <1>1, <1>2, <1>4 DEF OntoLast, f, n

(* A single position spans itself.                                         *)
LEMMA SpansOne ==
  ASSUME NEW n \in Nat
  PROVE  Spans(<<n>>, n, n)
<1>1. <<n>> \in Seq(Nat) /\ <<n>> # <<>> /\ <<n>>[1] = n
  OBVIOUS
<1>2. ToSet(<<n>>) = {n}
  BY DEF ToSet
<1>3. n..n = {n} /\ n <= n
  OBVIOUS
<1>4. QED
  BY <1>1, <1>2, <1>3 DEF Spans

(* Two lists, the second of which begins where the first ends, span both.  *)
LEMMA SpansJoined ==
  ASSUME NEW g, NEW a, NEW c, Spans(g, a, c), NEW h, NEW d, Spans(h, c + 1, d)
  PROVE  Spans(g \o h, a, d)
<1>1. /\ g \in Seq(Nat) /\ g # <<>> /\ h \in Seq(Nat) /\ h # <<>>
      /\ a \in Nat /\ c \in Nat /\ d \in Nat /\ a <= c /\ c + 1 <= d
      /\ g[1] = a /\ ToSet(g) = a..c /\ ToSet(h) = (c + 1)..d
  BY DEF Spans
<1>2. /\ g \o h \in Seq(Nat) /\ g \o h # <<>> /\ (g \o h)[1] = a
      /\ Len(g) \in Nat /\ Len(h) \in Nat
      /\ DOMAIN g = 1..Len(g) /\ DOMAIN h = 1..Len(h) /\ DOMAIN (g \o h) = 1..(Len(g) + Len(h))
      /\ \A i \in 1..Len(g) : (g \o h)[i] = g[i]
      /\ \A i \in 1..Len(h) : (g \o h)[Len(g) + i] = h[i]
  BY <1>1
<1> DEFINE u == g \o h
<1> HIDE DEF u
<1>3. ToSet(u) = ToSet(g) \cup ToSet(h)
  <2>1. ASSUME NEW x \in ToSet(u) PROVE x \in ToSet(g) \cup ToSet(h)
    <3>1. PICK i \in 1..(Len(g) + Len(h)) : u[i] = x
      BY <1>2, <2>1 DEF ToSet, u
    <3>2. CASE i <= Len(g)
      BY <1>2, <3>1, <3>2 DEF ToSet, u
    <3>3. CASE ~(i <= Len(g))
      <4>1. i - Len(g) \in 1..Len(h) /\ Len(g) + (i - Len(g)) = i
        BY <1>2, <3>1, <3>3
      <4>2. x = h[i - Len(g)]
        BY <1>2, <3>1, <4>1 DEF u
      <4>3. QED
        BY <1>2, <4>1, <4>2 DEF ToSet
    <3>4. QED
      BY <3>2, <3>3
  <2>2. ASSUME NEW x \in ToSet(g) PROVE x \in ToSet(u)
    <3>1. PICK i \in 1..Len(g) : g[i] = x
      BY <1>2, <2>2 DEF ToSet
    <3>2. i \in 1..(Len(g) + Len(h)) /\ u[i] = x
      BY <1>2, <3>1 DEF u
    <3>3. QED
      BY <1>2, <3>2 DEF ToSet, u
  <2>3. ASSUME NEW x \in ToSet(h) PROVE x \in ToSet(u)
    <3>1. PICK i \in 1..Len(h) : h[i] = x
      BY <1>2, <2>3 DEF ToSet
    <3>2. Len(g) + i \in 1..(Len(g) + Len(h)) /\ u[Len(g) + i] = x
      BY <1>2, <3>1 DEF u
    <3>3. QED
      BY <1>2, <3>2 DEF ToSet, u
  <2>4. QED
    BY <2>1, <2>2, <2>3
<1>4. (a..c) \cup ((c + 1)..d) = a..d
  BY <1>1
<1>5. ToSet(u) = a..d /\ a <= d
  BY <1>1, <1>3, <1>4
<1>6. QED
  BY <1>1, <1>2, <1>5 DEF Spans, u

(* One more group, or a longer last one.                                   *)
LEMMA TilesNew ==
  ASSUME NEW gs, NEW m, Tiles(gs, m), NEW g, NEW d, Spans(g, m + 1, d)
  PROVE  Tiles(Append(gs, g), d)
<1> DEFINE u == Append(gs, g)
           L == Len(gs)
<1>1. /\ gs \in Seq(Seq(Nat)) /\ m \in Nat /\ g \in Seq(Nat) /\ d \in Nat /\ m + 1 <= d
      /\ g[1] = m + 1 /\ (m = 0 <=> gs = <<>>)
  BY DEF Tiles, Spans
<1>2. /\ L \in Nat /\ u \in Seq(Seq(Nat)) /\ Len(u) = L + 1 /\ u[L + 1] = g /\ u # <<>>
      /\ \A j \in 1..L : u[j] = gs[j]
      /\ L = 0 <=> gs = <<>>
  <2> DEFINE E == Seq(Nat)
  <2>1. gs \in Seq(E) /\ g \in E
    BY <1>1
  <2> HIDE DEF E
  <2>2. L \in Nat /\ (L = 0 <=> gs = <<>>)
    BY <2>1
  <2>3. /\ u \in Seq(E) /\ Len(u) = L + 1 /\ u[L + 1] = g
        /\ \A j \in 1..L : u[j] = gs[j]
    BY <2>1, AppendProperties
  <2>4. u # <<>>
    BY <2>1, AppendProperties
  <2>5. QED
    BY <2>2, <2>3, <2>4 DEF E
<1> HIDE DEF u, L
<1>3. u[1][1] = 1
  <2>1. CASE L = 0
    BY <1>1, <1>2, <2>1
  <2>2. CASE L # 0
    BY <1>2, <2>2 DEF Tiles
  <2>3. QED
    BY <2>1, <2>2
<1>4. ASSUME NEW j \in 1..(L + 1) PROVE Spans(u[j], u[j][1], LastIn(u, d, j))
  <2>1. CASE j = L + 1
    BY <1>1, <1>2, <2>1 DEF LastIn
  <2>2. CASE j = L /\ L # 0
    <3>1. LastIn(u, d, j) = m /\ LastIn(gs, m, j) = m
      <4>1. j + 1 = L + 1 /\ j # L + 1 /\ u[L + 1][1] - 1 = m
        <5>1. j + 1 = L + 1 /\ j # L + 1
          BY <1>2, <2>2
        <5>2. u[L + 1][1] = m + 1
          BY <1>1, <1>2
        <5>3. QED
          BY <1>1, <5>1, <5>2
      <4>2. QED
        BY <1>2, <2>2, <4>1 DEF LastIn, L
    <3>2. j \in 1..L
      BY <1>2, <2>2
    <3>3. QED
      BY <1>2, <3>1, <3>2 DEF Tiles, L
  <2>3. CASE j < L
    <3>1. j \in 1..L /\ j + 1 \in 1..L /\ j # L /\ j # L + 1
      BY <1>2, <2>3
    <3>2. LastIn(u, d, j) = LastIn(gs, m, j)
      BY <1>2, <3>1 DEF LastIn, L
    <3>3. QED
      BY <1>2, <3>1, <3>2 DEF Tiles, L
  <2>4. QED
    BY <1>2, <2>1, <2>2, <2>3
<1>5. d # 0
  BY <1>1
<1>6. QED
  BY <1>1, <1>2, <1>3, <1>4, <1>5 DEF Tiles, u

(* A tiling goes on when its last list is extended.                        *)
LEMMA TilesGrow ==
  ASSUME NEW gs, NEW m, Tiles(gs, m), gs # <<>>, NEW g, NEW d, Spans(g, m + 1, d)
  PROVE  Tiles(OntoLast(gs, Last(gs) \o g), d)
<1> DEFINE L == Len(gs)
           x == Last(gs) \o g
           u == OntoLast(gs, x)
<1>1. /\ gs \in Seq(Seq(Nat)) /\ m \in Nat /\ d \in Nat /\ m + 1 <= d
      /\ gs[1][1] = 1
      /\ \A j \in 1..L : Spans(gs[j], gs[j][1], LastIn(gs, m, j))
  BY DEF Tiles, Spans
<1>2. L \in Nat \ {0} /\ Last(gs) = gs[L]
  BY <1>1 DEF Last
<1>3. Spans(x, gs[L][1], d)
  <2>1. Spans(gs[L], gs[L][1], m)
    BY <1>1, <1>2, SMTT(20) DEF LastIn
  <2>2. QED
    BY <1>2, <2>1, SpansJoined
<1>4. x \in Seq(Nat) /\ x[1] = gs[L][1]
  BY <1>3 DEF Spans
<1> HIDE DEF x, L
<1>5. /\ u \in Seq(Seq(Nat)) /\ Len(u) = L /\ u[L] = x
      /\ \A j \in 1..(L - 1) : u[j] = gs[j]
  <2> DEFINE E == Seq(Nat)
  <2>1. gs \in Seq(E) /\ x \in E /\ gs # <<>>
    BY <1>1, <1>4
  <2> HIDE DEF E
  <2>2. /\ OntoLast(gs, x) \in Seq(E) /\ Len(OntoLast(gs, x)) = Len(gs)
        /\ OntoLast(gs, x)[Len(gs)] = x
        /\ \A j \in 1..(Len(gs) - 1) : OntoLast(gs, x)[j] = gs[j]
    BY <2>1, LastReplaced
  <2>3. QED
    BY <2>2 DEF E, L
<1> HIDE DEF u
<1>6. \A j \in 1..L : u[j][1] = gs[j][1]
  <2> TAKE j \in 1..L
  <2>1. j = L \/ j \in 1..(L - 1)
    BY <1>2
  <2>2. QED
    BY <1>4, <1>5, <2>1
<1>7. ASSUME NEW j \in 1..L PROVE Spans(u[j], u[j][1], LastIn(u, d, j))
  <2>1. CASE j = L
    BY <1>3, <1>4, <1>5, <2>1 DEF LastIn
  <2>2. CASE j # L
    <3>1. j \in 1..(L - 1) /\ j + 1 \in 1..L
      BY <1>2, <2>2
    <3>2. LastIn(u, d, j) = LastIn(gs, m, j)
      BY <1>5, <1>6, <2>2, <3>1 DEF LastIn, L
    <3>3. QED
      BY <1>1, <1>5, <3>1, <3>2
  <2>3. QED
    BY <2>1, <2>2
<1>8. u # <<>> /\ d # 0 /\ u[1][1] = 1
  <2>1. 1 \in 1..L
    BY <1>2
  <2>2. QED
    BY <1>1, <1>2, <1>5, <1>6, <2>1
<1>9. QED
  BY <1>1, <1>5, <1>7, <1>8 DEF Tiles, u, x

-----------------------------------------------------------------------------
(* A group of turns before the merging: one user turn at most, the first,  *)
(* and always one, unless the group is the first.                          *)
RawStep(groups, n) ==
  IF groups = <<>> \/ turns[n].role = "user"
    THEN Append(groups, <<n>>)
    ELSE OntoLast(groups, Append(Last(groups), n))

(* One more turn gives a list of groups.                                   *)
LEMMA RawStepIsList ==
  ASSUME NEW gs \in Seq(Seq(Nat)), NEW n \in Nat
  PROVE  RawStep(gs, n) \in Seq(Seq(Nat))
<1> DEFINE E == Seq(Nat)
<1>1. <<n>> \in E /\ gs \in Seq(E)
  OBVIOUS
<1>2. \A g \in E : Append(g, n) \in E
  OBVIOUS
<1> HIDE DEF E
<1>3. Append(gs, <<n>>) \in Seq(E)
  BY <1>1
<1>4. ASSUME gs # <<>> PROVE OntoLast(gs, Append(Last(gs), n)) \in Seq(E)
  <2>1. Last(gs) \in E
    BY <1>1, <1>4 DEF Last
  <2>2. QED
    BY <1>1, <1>2, <1>4, <2>1, LastReplaced
<1>5. RawStep(gs, n) \in Seq(E)
  BY <1>3, <1>4 DEF RawStep
<1>6. QED
  BY <1>5 DEF E

(* h holds the groups after each turn.                                     *)
RawTable(h) ==
  /\ h \in [0..Len(turns) -> Seq(Seq(Nat))]
  /\ h[0] = <<>> /\ h[Len(turns)] = RawGroups
  /\ \A k \in 1..Len(turns) : h[k] = RawStep(h[k - 1], k)

(* The groups are where the loop over the turns ends.                      *)
LEMMA RawGroupsIsLoop ==
  ASSUME turns \in Seq(TurnFields)
  PROVE  \E h : RawTable(h)
<1> DEFINE s == [n \in DOMAIN turns |-> n]
           N == Len(turns)
           R == Seq(Seq(Nat))
           base == <<>>
           Step(r, n) == RawStep(r, n)
           step == [p \in R \X (1..N) |-> Step(p[1], s[p[2]])]
           Eq(g) == g = [t \in SUBSET DOMAIN s |->
                           IF t = {} THEN base ELSE Step(g[t \ {Max(t)}], s[Max(t)])]
           g == CHOOSE f : Eq(f)
<1>1. N \in Nat /\ DOMAIN s = 1..N /\ \A n \in 1..N : s[n] = n /\ n \in Nat
  OBVIOUS
<1>2. RawGroups = g[DOMAIN s]
  BY DEF RawGroups, FoldLeft, MapThenFoldSet, RawStep, OntoLast
<1>3. base \in R
  OBVIOUS
<1>4. \A r \in R, n \in 1..N : Step(r, s[n]) \in R
  BY <1>1, RawStepIsList
<1> HIDE DEF N, g, s, Step, R
<1>5. IsStep(step, R, N) /\ \A r \in R, n \in 1..N : step[<<r, n>>] = Step(r, s[n])
  BY <1>4 DEF IsStep
<1> HIDE DEF step, base
<1>6. Recurses(g, R, base, N, step)
  <2>1. PICK f : f \in [SUBSET (1..N) -> R] /\ Recurses(f, R, base, N, step)
    BY <1>1, <1>3, <1>5, SubsetRecursion
  <2>2. \A t \in SUBSET (1..N) : t # {} => /\ Max(t) \in 1..N
                                           /\ t \ {Max(t)} \in SUBSET (1..N)
    BY <1>1, MaxOfInterval
  <2> DEFINE Table(p) == [t \in SUBSET (1..N) |->
                            IF t = {} THEN base ELSE Step(p[t \ {Max(t)}], s[Max(t)])]
  <2>3. \A p : Eq(p) <=> p = Table(p)
    BY <1>1
  <2>4. f = Table(f)
    <3>1. f = [t \in SUBSET (1..N) |-> f[t]]
      BY <2>1
    <3>2. ASSUME NEW t \in SUBSET (1..N)
          PROVE  f[t] = IF t = {} THEN base ELSE Step(f[t \ {Max(t)}], s[Max(t)])
      <4>1. CASE t = {}
        BY <2>1, <4>1 DEF Recurses
      <4>2. CASE t # {}
        <5>1. Max(t) \in 1..N /\ f[t \ {Max(t)}] \in R
          BY <2>1, <2>2, <4>2
        <5>2. f[t] = step[<<f[t \ {Max(t)}], Max(t)>>]
          BY <2>1, <4>2, <5>1 DEF Recurses
        <5>3. QED
          BY <1>5, <4>2, <5>1, <5>2
      <4>3. QED
        BY <4>1, <4>2
    <3>3. QED
      BY <3>1, <3>2
  <2> HIDE DEF Eq
  <2>5. Eq(g)
    BY <2>3, <2>4 DEF g
  <2>6. g = Table(g)
    BY <2>3, <2>5
  <2>7. QED
    BY <1>5, <2>2, <2>6 DEF Recurses
<1>7. PICK h : IsTable(h, R, base, N, step) /\ h[N] = g[1..N]
  BY <1>1, <1>3, <1>5, <1>6, FoldTable
<1>8. h \in [0..N -> R] /\ h[0] = base /\ h[N] = RawGroups
  BY <1>1, <1>2, <1>7 DEF IsTable
<1>9. ASSUME NEW n \in 1..N PROVE h[n] = RawStep(h[n - 1], n)
  <2>1. h[n - 1] \in R
    BY <1>1, <1>8, n - 1 \in 0..N
  <2>2. QED
    BY <1>1, <1>5, <1>7, <2>1, SMTT(20) DEF IsTable, Step
<1>10. RawTable(h)
  BY <1>8, <1>9 DEF RawTable, R, base, N
<1>11. QED
  BY <1>10

(* The turn is the user's.                                                 *)
IsUser(n) == turns[n].role = "user"

(* The groups tile the turns; a user turn is the first of its group, and   *)
(* each group but the first has one.                                       *)
RawGood(gs, m) ==
  /\ Tiles(gs, m)
  /\ \A j \in 1..Len(gs) : \A n \in ToSet(gs[j]) : IsUser(n) => n = gs[j][1]
  /\ \A j \in 1..Len(gs) : j # 1 => IsUser(gs[j][1])

(* One more turn keeps that.                                               *)
LEMMA RawStepKeepsGroups ==
  ASSUME NEW gs, NEW m \in Nat, RawGood(gs, m)
  PROVE  RawGood(RawStep(gs, m + 1), m + 1)
<1> DEFINE n == m + 1
           L == Len(gs)
           E == Seq(Nat)
<1>1. Tiles(gs, m) /\ gs \in Seq(E) /\ L \in Nat /\ n \in Nat
  BY DEF RawGood, Tiles
<1>2. Spans(<<n>>, m + 1, n) /\ <<n>> \in E /\ <<n>>[1] = n /\ ToSet(<<n>>) = {n}
  <2>1. Spans(<<n>>, n, n) /\ <<n>> \in E /\ <<n>>[1] = n
    BY <1>1, SpansOne
  <2>2. ToSet(<<n>>) = {n}
    BY DEF ToSet
  <2>3. QED
    BY <2>1, <2>2
<1>3. /\ \A j \in 1..L : \A k \in ToSet(gs[j]) : IsUser(k) => k = gs[j][1]
      /\ \A j \in 1..L : j # 1 => IsUser(gs[j][1])
  BY DEF RawGood
<1> HIDE DEF n
<1>4. CASE gs = <<>> \/ IsUser(n)
  <2> DEFINE u == Append(gs, <<n>>)
  <2>1. Tiles(u, n) /\ RawStep(gs, n) = u
    BY <1>1, <1>2, <1>4, TilesNew DEF RawStep, IsUser
  <2>2. /\ Len(u) = L + 1 /\ u[L + 1] = <<n>> /\ \A j \in 1..L : u[j] = gs[j]
        /\ gs = <<>> => L = 0
    <3> HIDE DEF E
    <3>1. QED
      BY <1>1, <1>2, AppendProperties
  <2> HIDE DEF u, L, E
  <2>3. \A j \in 1..(L + 1) : j = L + 1 \/ j \in 1..L
    BY <1>1
  <2>4. \A j \in 1..(L + 1) : \A k \in ToSet(u[j]) : IsUser(k) => k = u[j][1]
    BY <1>2, <1>3, <2>2, <2>3
  <2>5. \A j \in 1..(L + 1) : j # 1 => IsUser(u[j][1])
    BY <1>2, <1>3, <1>4, <2>2, <2>3
  <2>6. QED
    BY <2>1, <2>2, <2>4, <2>5 DEF RawGood, n
<1>5. CASE gs # <<>> /\ ~IsUser(n)
  <2> DEFINE x == Last(gs) \o <<n>>
             u == OntoLast(gs, x)
  <2>1. L # 0 /\ Last(gs) = gs[L] /\ gs[L] \in E
    BY <1>1, <1>5 DEF Last
  <2>2. Append(Last(gs), n) = x
    BY <1>1, <2>1
  <2>3. Tiles(u, n) /\ RawStep(gs, n) = u
    <3> HIDE DEF x
    <3>1. RawStep(gs, n) = u
      BY <1>5, <2>2 DEF RawStep, IsUser
    <3>2. QED
      BY <1>1, <1>2, <1>5, <3>1, TilesGrow DEF x
  <2>4. Spans(x, gs[L][1], n) /\ Spans(gs[L], gs[L][1], m)
    <3>1. Spans(gs[L], gs[L][1], m)
      BY <1>1, <2>1 DEF Tiles, LastIn
    <3>2. QED
      BY <1>2, <2>1, <3>1, SpansJoined
  <2>5. x \in E /\ x[1] = gs[L][1] /\ \A k \in ToSet(x) : k = n \/ k \in ToSet(gs[L])
    BY <2>4 DEF Spans, n
  <2> HIDE DEF x, E
  <2>6. /\ Len(u) = L /\ u[L] = x /\ \A j \in 1..(L - 1) : u[j] = gs[j]
    BY <1>1, <1>5, <2>5, LastReplaced
  <2> HIDE DEF u, L
  <2>7. \A j \in 1..L : j = L \/ j \in 1..(L - 1)
    BY <1>1
  <2>8. \A j \in 1..L : \A k \in ToSet(u[j]) : IsUser(k) => k = u[j][1]
    BY <1>3, <1>5, <2>5, <2>6, <2>7
  <2>9. \A j \in 1..L : j # 1 => IsUser(u[j][1])
    BY <1>3, <2>5, <2>6, <2>7
  <2>10. QED
    BY <2>3, <2>6, <2>8, <2>9 DEF RawGood, n
<1>6. QED
  BY <1>4, <1>5 DEF n

(* So it holds of all the turns.                                           *)
LEMMA RawGroupsAreGood ==
  ASSUME turns \in Seq(TurnFields)
  PROVE  RawGood(RawGroups, Len(turns))
<1> DEFINE N == Len(turns)
<1>1. PICK h : RawTable(h)
  BY RawGroupsIsLoop
<1> DEFINE S == {k \in 0..N : RawGood(h[k], k)}
<1>2. N \in Nat
  OBVIOUS
<1>3. 0 \in S
  <2>1. Tiles(<<>>, 0)
    BY DEF Tiles
  <2>2. RawGood(<<>>, 0)
    BY <2>1 DEF RawGood
  <2>3. QED
    BY <1>1, <1>2, <2>2 DEF RawTable
<1>4. \A k \in 1..N : k - 1 \in S => k \in S
  <2> TAKE k \in 1..N
  <2> SUFFICES ASSUME k - 1 \in S PROVE k \in S
    OBVIOUS
  <2>1. k - 1 \in Nat /\ (k - 1) + 1 = k /\ k \in 0..N /\ RawGood(h[k - 1], k - 1)
    OBVIOUS
  <2>2. RawGood(RawStep(h[k - 1], k), k)
    BY <2>1, RawStepKeepsGroups
  <2>3. QED
    BY <1>1, <2>1, <2>2 DEF RawTable
<1> HIDE DEF S
<1>5. N \in S
  BY <1>2, <1>3, <1>4, Induction, SMTT(20)
<1>6. QED
  BY <1>1, <1>5 DEF S, RawTable

-----------------------------------------------------------------------------
(* The groups after the merging: a user turn that is not the first of its  *)
(* group refers to what was said before.                                   *)
GroupTypes == {"context", "tool_call_result", "standalone", "unresolved_user", "user_assistant"}
(* A group, and the list of turns in each.                                 *)
Group == [ids: Seq(Nat), type: GroupTypes]

(* The turns of the groups, group by group.                                *)
IdsOf(ms) == [j \in DOMAIN ms |-> ms[j].ids]

(* A group that refers to the one before is joined to it; another one      *)
(* stands alone.                                                           *)
Together(last, g) == [ids |-> last.ids \o g, type |-> "context"]
Alone(g)          == [ids |-> g, type |-> GroupType(g)]

(* One pass of the loop that merges.                                       *)
MergeStep(merged, g) ==
  IF merged # <<>> /\ Refers(g) THEN OntoLast(merged, Together(Last(merged), g))
  ELSE Append(merged, Alone(g))

(* Both give groups.                                                       *)
LEMMA GroupsAreTyped ==
  /\ \A g \in Seq(Nat) : Alone(g) \in Group
  /\ \A g \in Seq(Nat), last \in Group : Together(last, g) \in Group
<1>1. ASSUME NEW g \in Seq(Nat) PROVE Alone(g) \in Group
  <2> DEFINE q == GroupType(g)
  <2>1. q \in GroupTypes
    BY DEF GroupType, GroupTypes
  <2> HIDE DEF q
  <2>2. [ids |-> g, type |-> q] \in Group
    BY <2>1 DEF Group
  <2>3. QED
    BY <2>2 DEF Alone, q
<1>2. ASSUME NEW g \in Seq(Nat), NEW last \in Group PROVE Together(last, g) \in Group
  <2> DEFINE q == last.ids \o g
  <2>1. q \in Seq(Nat)
    BY DEF Group
  <2> HIDE DEF q
  <2>2. [ids |-> q, type |-> "context"] \in Group
    BY <2>1 DEF Group, GroupTypes
  <2>3. QED
    BY <2>2 DEF Together, q
<1>3. QED
  BY <1>1, <1>2

(* One more group gives a list of groups.                                  *)
LEMMA MergeStepIsList ==
  ASSUME NEW ms \in Seq(Group), NEW g \in Seq(Nat)
  PROVE  MergeStep(ms, g) \in Seq(Group)
<1>1. Alone(g) \in Group
  BY GroupsAreTyped
<1>2. Append(ms, Alone(g)) \in Seq(Group)
  BY <1>1
<1>3. ASSUME ms # <<>> PROVE OntoLast(ms, Together(Last(ms), g)) \in Seq(Group)
  <2>1. Last(ms) \in Group
    BY <1>3 DEF Last
  <2>2. Together(Last(ms), g) \in Group
    BY <2>1, GroupsAreTyped
  <2>3. QED
    BY <1>3, <2>2, LastReplaced
<1>4. QED
  BY <1>2, <1>3 DEF MergeStep

(* h holds the merged groups after each of the raw ones.                   *)
MergeTable(h, raw) ==
  /\ h \in [0..Len(raw) -> Seq(Group)]
  /\ h[0] = <<>> /\ h[Len(raw)] = Groups
  /\ \A k \in 1..Len(raw) : h[k] = MergeStep(h[k - 1], raw[k])

(* The groups of _semantic_turn_groups are where that loop ends.           *)
LEMMA GroupsIsLoop ==
  ASSUME RawGroups \in Seq(Seq(Nat))
  PROVE  \E h : MergeTable(h, RawGroups)
<1> DEFINE s == RawGroups
           N == Len(s)
           R == Seq(Group)
           base == <<>>
           Step(r, n) == MergeStep(r, n)
           step == [p \in R \X (1..N) |-> Step(p[1], s[p[2]])]
           Eq(g) == g = [t \in SUBSET DOMAIN s |->
                           IF t = {} THEN base ELSE Step(g[t \ {Max(t)}], s[Max(t)])]
           g == CHOOSE f : Eq(f)
<1>1. N \in Nat /\ DOMAIN s = 1..N /\ \A n \in 1..N : s[n] \in Seq(Nat)
  OBVIOUS
<1>2. Groups = g[DOMAIN s]
  BY DEF Groups, FoldLeft, MapThenFoldSet, MergeStep, OntoLast, Together, Alone
<1>3. base \in R
  OBVIOUS
<1>4. \A r \in R, n \in 1..N : Step(r, s[n]) \in R
  BY <1>1, MergeStepIsList
<1> HIDE DEF N, g, s, Step, R
<1>5. IsStep(step, R, N) /\ \A r \in R, n \in 1..N : step[<<r, n>>] = Step(r, s[n])
  BY <1>4 DEF IsStep
<1> HIDE DEF step, base
<1>6. Recurses(g, R, base, N, step)
  <2>1. PICK f : f \in [SUBSET (1..N) -> R] /\ Recurses(f, R, base, N, step)
    BY <1>1, <1>3, <1>5, SubsetRecursion
  <2>2. \A t \in SUBSET (1..N) : t # {} => /\ Max(t) \in 1..N
                                           /\ t \ {Max(t)} \in SUBSET (1..N)
    BY <1>1, MaxOfInterval
  <2> DEFINE Table(p) == [t \in SUBSET (1..N) |->
                            IF t = {} THEN base ELSE Step(p[t \ {Max(t)}], s[Max(t)])]
  <2>3. \A p : Eq(p) <=> p = Table(p)
    BY <1>1
  <2>4. f = Table(f)
    <3>1. f = [t \in SUBSET (1..N) |-> f[t]]
      BY <2>1
    <3>2. ASSUME NEW t \in SUBSET (1..N)
          PROVE  f[t] = IF t = {} THEN base ELSE Step(f[t \ {Max(t)}], s[Max(t)])
      <4>1. CASE t = {}
        BY <2>1, <4>1 DEF Recurses
      <4>2. CASE t # {}
        <5>1. Max(t) \in 1..N /\ f[t \ {Max(t)}] \in R
          BY <2>1, <2>2, <4>2
        <5>2. f[t] = step[<<f[t \ {Max(t)}], Max(t)>>]
          BY <2>1, <4>2, <5>1 DEF Recurses
        <5>3. QED
          BY <1>5, <4>2, <5>1, <5>2
      <4>3. QED
        BY <4>1, <4>2
    <3>3. QED
      BY <3>1, <3>2
  <2> HIDE DEF Eq
  <2>5. Eq(g)
    BY <2>3, <2>4 DEF g
  <2>6. g = Table(g)
    BY <2>3, <2>5
  <2>7. QED
    BY <1>5, <2>2, <2>6 DEF Recurses
<1>7. PICK h : IsTable(h, R, base, N, step) /\ h[N] = g[1..N]
  BY <1>1, <1>3, <1>5, <1>6, FoldTable
<1>8. h \in [0..N -> R] /\ h[0] = base /\ h[N] = Groups
  BY <1>1, <1>2, <1>7 DEF IsTable
<1>9. ASSUME NEW n \in 1..N PROVE h[n] = MergeStep(h[n - 1], s[n])
  <2>1. h[n - 1] \in R
    BY <1>1, <1>8, n - 1 \in 0..N
  <2>2. QED
    BY <1>5, <1>7, <2>1 DEF IsTable, Step
<1>10. MergeTable(h, s)
  BY <1>8, <1>9 DEF MergeTable, R, base, N
<1>11. QED
  BY <1>10 DEF s

(* The turn accepts, rejects, corrects or proposes.                        *)
IsReferring(n) == turns[n].says # "nothing"

(* A user turn inside a group refers, and the group is context; a group    *)
(* but the first begins with a user turn that does not refer.              *)
GroupGood(g, j) ==
  /\ \A n \in ToSet(g.ids) : IsUser(n) /\ n # g.ids[1] => IsReferring(n) /\ g.type = "context"
  /\ j # 1 => IsUser(g.ids[1]) /\ ~IsReferring(g.ids[1])
  /\ g.type = "user_assistant" => IsUser(g.ids[1])

(* The merged groups tile the turns, and are good.                         *)
MergedGood(ms, m) ==
  /\ ms \in Seq(Group) /\ Tiles(IdsOf(ms), m)
  /\ \A j \in 1..Len(ms) : GroupGood(ms[j], j)

(* The turns of the groups when one is appended or replaced.               *)
LEMMA IdsOfLists ==
  ASSUME NEW ms \in Seq(Group), NEW x \in Group
  PROVE  /\ IdsOf(ms) \in Seq(Seq(Nat)) /\ Len(IdsOf(ms)) = Len(ms)
         /\ \A j \in 1..Len(ms) : IdsOf(ms)[j] = ms[j].ids
         /\ IdsOf(Append(ms, x)) = Append(IdsOf(ms), x.ids)
         /\ ms # <<>> => IdsOf(OntoLast(ms, x)) = OntoLast(IdsOf(ms), x.ids)
<1> DEFINE E == Seq(Nat)
           n == Len(ms)
           i == IdsOf(ms)
<1>1. \A s \in Seq(Group) : /\ IdsOf(s) \in Seq(E) /\ Len(IdsOf(s)) = Len(s)
                            /\ Len(s) \in Nat /\ \A j \in 1..Len(s) : IdsOf(s)[j] = s[j].ids
  <2> TAKE s \in Seq(Group)
  <2>1. \A y \in Group : y.ids \in E
    BY DEF Group
  <2> HIDE DEF E
  <2>3. \A j \in 1..Len(s) : s[j] \in Group /\ s[j].ids \in E
    BY <2>1
  <2>4. QED
    BY <2>3 DEF IdsOf
<1>2. x.ids \in E
  BY DEF Group
<1> HIDE DEF E
<1>3. IdsOf(Append(ms, x)) = Append(i, x.ids)
  <2> DEFINE c == IdsOf(Append(ms, x))
  <2>1. /\ Append(ms, x) \in Seq(Group) /\ Len(Append(ms, x)) = n + 1
        /\ Append(ms, x)[n + 1] = x /\ \A j \in 1..n : Append(ms, x)[j] = ms[j]
    BY AppendProperties
  <2>2. n \in Nat /\ \A j \in 1..n : j \in 1..(n + 1)
    OBVIOUS
  <2>3. n + 1 \in 1..(n + 1)
    BY <2>2
  <2>4. /\ c \in Seq(E) /\ Len(c) = n + 1 /\ c[n + 1] = x.ids /\ \A j \in 1..n : c[j] = i[j]
    BY <1>1, <2>1, <2>2, <2>3
  <2>5. i \in Seq(E) /\ Len(i) = n
    BY <1>1
  <2> HIDE DEF c, i, n
  <2>6. QED
    BY <2>2, <2>4, <2>5, LongerByOne DEF c
<1>4. ASSUME ms # <<>> PROVE IdsOf(OntoLast(ms, x)) = OntoLast(i, x.ids)
  <2> DEFINE c == IdsOf(OntoLast(ms, x))
             d == OntoLast(i, x.ids)
  <2>1. /\ OntoLast(ms, x) \in Seq(Group) /\ Len(OntoLast(ms, x)) = n /\ n \in Nat \ {0}
        /\ OntoLast(ms, x)[n] = x /\ \A j \in 1..(n - 1) : OntoLast(ms, x)[j] = ms[j]
    BY <1>4, LastReplaced
  <2>2. i \in Seq(E) /\ Len(i) = n /\ i # <<>>
    BY <1>1, <2>1
  <2>3. /\ d \in Seq(E) /\ Len(d) = n /\ d[n] = x.ids /\ \A j \in 1..(n - 1) : d[j] = i[j]
    <3>1. ASSUME NEW p \in Seq(E), p # <<>>, NEW y \in E
          PROVE  /\ OntoLast(p, y) \in Seq(E) /\ Len(OntoLast(p, y)) = Len(p)
                 /\ OntoLast(p, y)[Len(p)] = y
                 /\ \A j \in 1..(Len(p) - 1) : OntoLast(p, y)[j] = p[j]
      BY <3>1, LastReplaced
    <3> HIDE DEF i, n
    <3>2. QED
      BY <1>2, <2>2, <3>1
  <2>4. c \in Seq(E) /\ Len(c) = n /\ \A j \in 1..n : c[j] = OntoLast(ms, x)[j].ids
    BY <1>1, <2>1
  <2>5. \A j \in 1..n : i[j] = ms[j].ids
    BY <1>1
  <2> HIDE DEF c, d, i, n
  <2>6. \A j \in 1..n : c[j] = d[j]
    <3> TAKE j \in 1..n
    <3>1. j = n \/ j \in 1..(n - 1)
      BY <2>1
    <3>2. QED
      BY <2>1, <2>3, <2>4, <2>5, <3>1
  <2>7. c = d
    BY <2>3, <2>4, <2>6
  <2>8. QED
    BY <2>7 DEF c, d
<1>5. QED
  BY <1>1, <1>3, <1>4 DEF E

(* Merging one more group keeps them good.                                 *)
LEMMA MergeStepKeepsGroups ==
  ASSUME NEW ms, NEW m \in Nat, MergedGood(ms, m), NEW g, NEW d, Spans(g, m + 1, d),
         \A n \in ToSet(g) : IsUser(n) => n = g[1],
         ms # <<>> => IsUser(g[1])
  PROVE  MergedGood(MergeStep(ms, g), d)
<1> DEFINE L == Len(ms)
           i == IdsOf(ms)
<1>1. ms \in Seq(Group) /\ L \in Nat /\ Tiles(i, m) /\ \A j \in 1..L : GroupGood(ms[j], j)
  BY DEF MergedGood
<1>2. g \in Seq(Nat) /\ g # <<>>
  BY DEF Spans
<1>3. Refers(g) <=> IsUser(g[1]) /\ IsReferring(g[1])
  <2>1. g[1] \in ToSet(g)
    <3>1. 1 \in DOMAIN g
      BY <1>2
    <3>2. QED
      BY <3>1 DEF ToSet
  <2>2. QED
    BY <2>1 DEF Refers, Users, Members, IsUser, IsReferring
<1>4. CASE ~(ms # <<>> /\ Refers(g))
  <2> DEFINE x == Alone(g)
             u == Append(ms, x)
  <2>1. x \in Group /\ x.ids = g /\ x.type = GroupType(g)
    BY <1>2, GroupsAreTyped DEF Alone
  <2>2. MergeStep(ms, g) = u
    BY <1>4 DEF MergeStep
  <2> HIDE DEF x
  <2>3. Tiles(IdsOf(u), d)
    <3>1. IdsOf(u) = Append(i, g)
      BY <1>1, <2>1, IdsOfLists
    <3>2. QED
      BY <1>1, <3>1, TilesNew
  <2>4. /\ u \in Seq(Group) /\ Len(u) = L + 1 /\ u[L + 1] = x /\ \A j \in 1..L : u[j] = ms[j]
    BY <1>1, <2>1, AppendProperties
  <2>5. GroupGood(x, L + 1)
    <3>1. x.type = "user_assistant" => IsUser(x.ids[1])
      BY <2>1 DEF GroupType, IsUser
    <3>2. L + 1 # 1 => IsUser(g[1]) /\ ~IsReferring(g[1])
      <4>1. L + 1 # 1 => ms # <<>>
        BY <1>1
      <4>2. QED
        BY <1>3, <1>4, <4>1
    <3>3. QED
      BY <2>1, <3>1, <3>2 DEF GroupGood
  <2> HIDE DEF u, L
  <2>6. \A j \in 1..(L + 1) : j = L + 1 \/ j \in 1..L
    BY <1>1
  <2>7. \A j \in 1..(L + 1) : GroupGood(u[j], j)
    BY <1>1, <2>4, <2>5, <2>6
  <2>8. QED
    BY <2>2, <2>3, <2>4, <2>7 DEF MergedGood
<1>5. CASE ms # <<>> /\ Refers(g)
  <2> DEFINE last == ms[L]
             x == Together(last, g)
             u == OntoLast(ms, x)
  <2>1. L # 0 /\ last \in Group /\ last = Last(ms) /\ GroupGood(last, L)
    <3>1. L # 0
      BY <1>1, <1>5
    <3>2. L \in 1..L
      BY <1>1, <3>1
    <3>3. QED
      BY <1>1, <3>1, <3>2 DEF Last
  <2>2. x \in Group /\ x.ids = last.ids \o g /\ x.type = "context" /\ MergeStep(ms, g) = u
    BY <1>2, <1>5, <2>1, GroupsAreTyped DEF Together, MergeStep
  <2> HIDE DEF x
  <2>3. i # <<>> /\ Last(i) = last.ids
    <3>1. i \in Seq(Seq(Nat)) /\ Len(i) = L /\ i[L] = last.ids
      BY <1>1, <2>1, <2>2, IdsOfLists
    <3>2. QED
      BY <2>1, <3>1 DEF Last
  <2>4. Tiles(IdsOf(u), d)
    <3>1. IdsOf(u) = OntoLast(i, Last(i) \o g)
      BY <1>1, <1>5, <2>2, <2>3, IdsOfLists
    <3>2. QED
      BY <1>1, <2>3, <3>1, TilesGrow
  <2>5. /\ u \in Seq(Group) /\ Len(u) = L /\ u[L] = x /\ \A j \in 1..(L - 1) : u[j] = ms[j]
    <3>1. ms \in Seq(Group) /\ ms # <<>> /\ x \in Group
      BY <1>1, <1>5, <2>2
    <3>2. /\ OntoLast(ms, x) \in Seq(Group) /\ Len(OntoLast(ms, x)) = Len(ms)
          /\ OntoLast(ms, x)[Len(ms)] = x
          /\ \A j \in 1..(Len(ms) - 1) : OntoLast(ms, x)[j] = ms[j]
      BY <3>1, LastReplaced
    <3>3. QED
      BY <3>2
  <2>6. x.ids[1] = last.ids[1] /\ \A n \in ToSet(x.ids) : n \in ToSet(last.ids) \/ n \in ToSet(g)
    <3>1. Spans(last.ids, last.ids[1], m)
      <4>0. L \in 1..L
        BY <1>1, <2>1
      <4>1. Len(i) = L /\ i[L] = last.ids /\ L \in 1..L
        BY <1>1, <2>2, <4>0, IdsOfLists
      <4>2. QED
        BY <1>1, <4>1 DEF Tiles, LastIn
    <3>2. Spans(x.ids, last.ids[1], d)
      BY <2>2, <3>1, SpansJoined
    <3>3. \A n \in last.ids[1]..d : n \in last.ids[1]..m \/ n \in (m + 1)..d
      BY <3>1 DEF Spans
    <3>4. QED
      BY <3>1, <3>2, <3>3 DEF Spans
  <2>7. GroupGood(x, L)
    <3>1. \A n \in ToSet(x.ids) : IsUser(n) /\ n # x.ids[1] => IsReferring(n)
      BY <1>3, <1>5, <2>1, <2>6 DEF GroupGood
    <3>2. L # 1 => IsUser(x.ids[1]) /\ ~IsReferring(x.ids[1])
      BY <2>1, <2>6 DEF GroupGood
    <3>3. QED
      BY <2>2, <3>1, <3>2 DEF GroupGood
  <2> HIDE DEF u, L
  <2>8. \A j \in 1..L : j = L \/ j \in 1..(L - 1)
    BY <1>1
  <2>9. \A j \in 1..L : GroupGood(u[j], j)
    BY <1>1, <2>5, <2>7, <2>8
  <2>10. QED
    BY <2>2, <2>4, <2>5, <2>9 DEF MergedGood
<1>6. QED
  BY <1>4, <1>5

(* How far the first k groups go.                                          *)
Upto(gs, m, k) == IF k = 0 THEN 0 ELSE LastIn(gs, m, k)

(* Each list of a tiling begins after the last position of the one         *)
(* before.                                                                 *)
LEMMA TilesFollow ==
  ASSUME NEW gs, NEW m, Tiles(gs, m), NEW k \in 1..Len(gs)
  PROVE  /\ Spans(gs[k], Upto(gs, m, k - 1) + 1, Upto(gs, m, k))
         /\ Upto(gs, m, k - 1) \in Nat /\ Upto(gs, m, k) \in Nat
         /\ gs[k][1] = Upto(gs, m, k - 1) + 1
<1>1. /\ Len(gs) \in Nat /\ gs[1][1] = 1 /\ Spans(gs[k], gs[k][1], LastIn(gs, m, k))
      /\ \A j \in 1..Len(gs) : LastIn(gs, m, j) \in Nat /\ gs[j][1] \in Nat
  <2>1. gs # <<>>
    BY DEF Tiles
  <2>2. QED
    BY <2>1 DEF Tiles, Spans
<1>2. Upto(gs, m, k) = LastIn(gs, m, k)
  BY DEF Upto
<1>3. Upto(gs, m, k - 1) \in Nat /\ gs[k][1] = Upto(gs, m, k - 1) + 1
  <2>1. CASE k = 1
    BY <1>1, <2>1 DEF Upto
  <2>2. CASE k # 1
    <3>1. k - 1 \in 1..Len(gs) /\ k - 1 # 0 /\ k - 1 # Len(gs) /\ (k - 1) + 1 = k
      BY <1>1, <2>2
    <3>2. Upto(gs, m, k - 1) = gs[k][1] - 1
      BY <3>1 DEF Upto, LastIn
    <3>3. Upto(gs, m, k - 1) \in Nat
      BY <1>1, <3>1 DEF Upto
    <3>4. QED
      BY <1>1, <3>2, <3>3
  <2>3. QED
    BY <2>1, <2>2
<1>4. QED
  BY <1>1, <1>2, <1>3

(* Every position is in a group, and groups follow one another.            *)
LEMMA TilesCover ==
  ASSUME NEW gs, NEW m, Tiles(gs, m), gs # <<>>
  PROVE  /\ \A n \in 1..m : \E j \in 1..Len(gs) : n \in ToSet(gs[j])
         /\ \A j \in 1..Len(gs) : \A n \in ToSet(gs[j]) : n \in 1..m
         /\ \A i, j \in 1..Len(gs) : i < j =>
              \A x \in ToSet(gs[i]), y \in ToSet(gs[j]) : x < y
<1> DEFINE L == Len(gs)
           up(k) == Upto(gs, m, k)
<1>1. L \in Nat \ {0} /\ m \in Nat /\ up(0) = 0 /\ up(L) = m
  BY DEF Tiles, Upto, LastIn
<1>2. \A k \in 1..L : /\ up(k - 1) \in Nat /\ up(k) \in Nat /\ up(k - 1) + 1 <= up(k)
                      /\ ToSet(gs[k]) = (up(k - 1) + 1)..up(k)
  BY TilesFollow DEF Spans
<1> HIDE DEF L, up
<1>3. \A k \in 0..L : up(k) \in Nat
  <2> TAKE k \in 0..L
  <2>1. k = 0 \/ k \in 1..L
    BY <1>1
  <2>2. QED
    BY <1>1, <1>2, <2>1
<1> DEFINE Rises == {k \in 0..L : \A i \in 0..L : i <= k => up(i) <= up(k)}
<1>4. 0 \in Rises
  <2>1. \A i \in 0..L : i <= 0 => i = 0
    BY <1>1
  <2>2. QED
    BY <1>1, <1>3, <2>1
<1>5. \A k \in 1..L : k - 1 \in Rises => k \in Rises
  <2> TAKE k \in 1..L
  <2> SUFFICES ASSUME k - 1 \in Rises, NEW i \in 0..L, i <= k PROVE up(i) <= up(k)
    BY <1>1
  <2>1. up(i) \in Nat /\ up(k) \in Nat /\ up(k - 1) \in Nat /\ up(k - 1) + 1 <= up(k)
    BY <1>2, <1>3
  <2>2. i = k \/ (i <= k - 1 /\ up(i) <= up(k - 1))
    BY <1>1
  <2>3. QED
    BY <2>1, <2>2
<1>6. \A k \in 0..L : k \in Rises
  <2> HIDE DEF Rises
  <2>1. L \in Nat
    BY <1>1
  <2>2. QED
    BY <1>4, <1>5, <2>1, Induction
<1>7. ASSUME NEW j \in 1..L, NEW n \in ToSet(gs[j]) PROVE n \in 1..m
  <2>1. j \in 0..L /\ j - 1 \in 0..L /\ L \in 0..L /\ j <= L
    BY <1>1
  <2>2. up(j) <= m /\ up(j - 1) \in Nat /\ up(j) \in Nat
    BY <1>1, <1>3, <1>6, <2>1
  <2>3. n \in (up(j - 1) + 1)..up(j)
    BY <1>2, <1>7
  <2>4. QED
    BY <1>1, <2>2, <2>3
<1>8. ASSUME NEW i \in 1..L, NEW j \in 1..L, i < j,
             NEW x \in ToSet(gs[i]), NEW y \in ToSet(gs[j])
      PROVE  x < y
  <2>1. i \in 0..L /\ j - 1 \in 0..L /\ i <= j - 1
    BY <1>1, <1>8
  <2>2. up(i) <= up(j - 1) /\ up(i) \in Nat /\ up(j - 1) \in Nat /\ up(i - 1) \in Nat
        /\ up(j) \in Nat
    BY <1>2, <1>3, <1>6, <2>1
  <2>3. x \in (up(i - 1) + 1)..up(i) /\ y \in (up(j - 1) + 1)..up(j)
    BY <1>2, <1>8
  <2>4. QED
    BY <2>2, <2>3
<1> DEFINE Full == {k \in 0..L : \A n \in 1..up(k) : \E j \in 1..L : n \in ToSet(gs[j])}
<1>9. 0 \in Full
  BY <1>1
<1>10. \A k \in 1..L : k - 1 \in Full => k \in Full
  <2> TAKE k \in 1..L
  <2> SUFFICES ASSUME k - 1 \in Full, NEW n \in 1..up(k)
               PROVE  \E j \in 1..L : n \in ToSet(gs[j])
    BY <1>1
  <2>1. up(k - 1) \in Nat /\ up(k) \in Nat /\ ToSet(gs[k]) = (up(k - 1) + 1)..up(k)
    BY <1>2
  <2>2. CASE n <= up(k - 1)
    BY <2>1, <2>2
  <2>3. CASE ~(n <= up(k - 1))
    BY <2>1, <2>3
  <2>4. QED
    BY <2>2, <2>3
<1>11. L \in Full
  <2> HIDE DEF Full
  <2>1. L \in Nat /\ L \in 0..L
    BY <1>1
  <2>2. QED
    BY <1>9, <1>10, <2>1, Induction
<1>12. QED
  BY <1>1, <1>7, <1>8, <1>11 DEF L

(* The groups of _semantic_turn_groups are good.                           *)
LEMMA GroupsAreGood ==
  ASSUME turns \in Seq(TurnFields)
  PROVE  MergedGood(Groups, Len(turns))
<1> DEFINE raw == RawGroups
           N == Len(turns)
           R == Len(raw)
<1>1. RawGood(raw, N) /\ N \in Nat
  BY RawGroupsAreGood
<1>2. Tiles(raw, N) /\ raw \in Seq(Seq(Nat)) /\ R \in Nat
  BY <1>1 DEF RawGood, Tiles
<1>3. /\ \A j \in 1..R : \A n \in ToSet(raw[j]) : IsUser(n) => n = raw[j][1]
      /\ \A j \in 1..R : j # 1 => IsUser(raw[j][1])
  BY <1>1 DEF RawGood
<1>4. PICK h : MergeTable(h, raw)
  BY <1>2, GroupsIsLoop
<1> HIDE DEF raw
<1>5. h[0] = <<>> /\ h[R] = Groups /\ \A k \in 1..R : h[k] = MergeStep(h[k - 1], raw[k])
  BY <1>4 DEF MergeTable
<1> DEFINE S == {k \in 0..R : MergedGood(h[k], Upto(raw, N, k))}
<1>6. 0 \in S
  <2>1. IdsOf(<<>>) = <<>>
    BY DEF IdsOf
  <2>2. Tiles(<<>>, 0)
    BY DEF Tiles
  <2>3. MergedGood(<<>>, 0)
    BY <2>1, <2>2 DEF MergedGood
  <2>4. QED
    BY <1>2, <1>5, <2>3 DEF Upto
<1>7. \A k \in 1..R : k - 1 \in S => k \in S
  <2> TAKE k \in 1..R
  <2> SUFFICES ASSUME k - 1 \in S PROVE k \in S
    OBVIOUS
  <2>1. MergedGood(h[k - 1], Upto(raw, N, k - 1)) /\ k \in 0..R
    BY <1>2
  <2>2. /\ Spans(raw[k], Upto(raw, N, k - 1) + 1, Upto(raw, N, k))
        /\ Upto(raw, N, k - 1) \in Nat
    BY <1>2, TilesFollow
  <2>3. h[k - 1] # <<>> => IsUser(raw[k][1])
    <3>1. CASE k = 1
      BY <1>5, <3>1
    <3>2. CASE k # 1
      BY <1>3, <3>2
    <3>3. QED
      BY <3>1, <3>2
  <2> HIDE DEF S, N, R
  <2>4. MergedGood(MergeStep(h[k - 1], raw[k]), Upto(raw, N, k))
    BY <1>3, <2>1, <2>2, <2>3, MergeStepKeepsGroups
  <2>5. QED
    BY <1>5, <2>1, <2>4 DEF S
<1> HIDE DEF S
<1>8. R \in S
  <2>1. R \in 0..R
    BY <1>2
  <2>2. QED
    BY <1>2, <1>6, <1>7, <2>1, Induction
<1>9. Upto(raw, N, R) = N
  <2>1. R = 0 => N = 0
    BY <1>2 DEF Tiles
  <2>2. QED
    BY <2>1 DEF Upto, LastIn
<1>10. QED
  BY <1>5, <1>8, <1>9 DEF S

-----------------------------------------------------------------------------
(* Two sets without a common element weigh together what each weighs.      *)
LEMMA WeightOfUnion ==
  ASSUME NEW N \in Nat, NEW c \in [1..N -> Nat], NEW w, Weighs(w, c, N),
         NEW A \in SUBSET (1..N), NEW B \in SUBSET (1..N), A \cap B = {}
  PROVE  w[A \cup B] = w[A] + w[B]
<1> DEFINE T(n) == B \cap (1..n)
           S == {n \in 0..N : w[A \cup T(n)] = w[A] + w[T(n)]}
<1>1. /\ w[{}] = 0 /\ \A K \in SUBSET (1..N) : w[K] \in Nat
      /\ \A K \in SUBSET (1..N) : \A x \in (1..N) \ K : w[K \cup {x}] = w[K] + c[x]
      /\ \A x \in 1..N : c[x] \in Nat
  BY DEF Weighs
<1>2. 0 \in S
  <2>1. T(0) = {} /\ A \cup T(0) = A
    OBVIOUS
  <2>2. w[A] \in Nat
    BY <1>1
  <2> HIDE DEF T
  <2>3. w[A \cup T(0)] = w[A] + w[T(0)]
    <3>1. w[A \cup T(0)] = w[A] /\ w[T(0)] = 0
      BY <1>1, <2>1
    <3>2. QED
      BY <2>2, <3>1
  <2>4. QED
    BY <2>3
<1>3. ASSUME NEW n \in 1..N, n - 1 \in S PROVE n \in S
  <2> DEFINE P == T(n - 1)
  <2>1. w[A \cup P] = w[A] + w[P]
    BY <1>3
  <2>2. P \in SUBSET (1..N) /\ n \notin P /\ A \cup P \in SUBSET (1..N)
    OBVIOUS
  <2>3. CASE n \in B
    <3>1. T(n) = P \cup {n} /\ A \cup T(n) = (A \cup P) \cup {n} /\ n \notin A
      <4>1. \A x : x \in 1..n <=> x \in 1..(n - 1) \/ x = n
        OBVIOUS
      <4>2. T(n) = P \cup {n}
        BY <2>3, <4>1
      <4>3. QED
        BY <2>3, <4>2
    <3> HIDE DEF T, P
    <3>2. w[T(n)] = w[P] + c[n] /\ w[A \cup T(n)] = w[A \cup P] + c[n]
      <4>1. n \in (1..N) \ P /\ n \in (1..N) \ (A \cup P)
        BY <2>2, <3>1
      <4>2. QED
        BY <1>1, <2>2, <3>1, <4>1, ZenonT(30)
    <3>3. w[A] \in Nat /\ w[P] \in Nat /\ c[n] \in Nat
      BY <1>1, <2>2
    <3>4. w[A \cup T(n)] = w[A] + w[T(n)]
      BY <2>1, <3>2, <3>3
    <3>5. QED
      BY <3>4
  <2>4. CASE n \notin B
    <3>1. T(n) = P
      <4>1. \A x : x \in 1..n <=> x \in 1..(n - 1) \/ x = n
        OBVIOUS
      <4>2. QED
        BY <2>4, <4>1
    <3> HIDE DEF T, P
    <3>2. QED
      BY <2>1, <3>1
  <2>5. QED
    BY <2>3, <2>4
<1>4. N \in S
  <2> HIDE DEF S
  <2>1. N \in 0..N
    OBVIOUS
  <2>2. QED
    BY <1>2, <1>3, <2>1, Induction
<1>5. T(N) = B
  OBVIOUS
<1>6. QED
  BY <1>4, <1>5

(* Tokens of turns are numbers, and add up over disjoint sets.             *)
LEMMA TurnTokensAdd ==
  ASSUME turns \in Seq(TurnFields)
  PROVE  /\ \A A \in SUBSET (1..Len(turns)) : TurnTokens(A) \in Nat
         /\ \A A, B \in SUBSET (1..Len(turns)) :
              A \cap B = {} => TurnTokens(A \cup B) = TurnTokens(A) + TurnTokens(B)
         /\ TurnTokens({}) = 0
<1> DEFINE N == Len(turns)
           c == [n \in DOMAIN turns |-> turns[n].tokens]
<1>1. N \in Nat /\ c \in [1..N -> Nat]
  <2>1. \A t \in TurnFields : t.tokens \in Nat
    BY DEF TurnFields
  <2> DEFINE E == TurnFields
  <2> HIDE DEF E
  <2>2. turns \in Seq(E) /\ \A t \in E : t.tokens \in Nat
    BY <2>1 DEF E
  <2>3. DOMAIN turns = 1..N /\ N \in Nat /\ \A n \in 1..N : turns[n] \in E
    BY <2>2
  <2>4. \A n \in 1..N : turns[n].tokens \in Nat
    BY <2>2, <2>3
  <2>5. QED
    BY <2>3, <2>4
<1>2. PICK w : Weighs(w, c, N)
  BY <1>1, WeightsExist
<1>3. \A A \in SUBSET (1..N) : TurnTokens(A) = w[A]
  BY <1>1, <1>2, SumIsWeight DEF TurnTokens
<1>4. w[{}] = 0 /\ \A A \in SUBSET (1..N) : w[A] \in Nat
  BY <1>2 DEF Weighs
<1>5. \A A, B \in SUBSET (1..N) :
        A \cap B = {} => TurnTokens(A \cup B) = TurnTokens(A) + TurnTokens(B)
  <2> SUFFICES ASSUME NEW A \in SUBSET (1..N), NEW B \in SUBSET (1..N), A \cap B = {}
               PROVE  TurnTokens(A \cup B) = TurnTokens(A) + TurnTokens(B)
    OBVIOUS
  <2>1. w[A \cup B] = w[A] + w[B]
    BY <1>1, <1>2, WeightOfUnion
  <2>2. A \cup B \in SUBSET (1..N)
    OBVIOUS
  <2>3. QED
    BY <1>3, <2>1, <2>2
<1> HIDE DEF N, c
<1>6. {} \in SUBSET (1..N)
  OBVIOUS
<1>7. QED
  BY <1>3, <1>4, <1>5, <1>6 DEF N

(* What a group adds to the prompt: its user turns always, and all of it   *)
(* unless it is a plain exchange.                                          *)
GroupAt(j) == ToSet(Groups[j].ids)

(* What of a group is shown: all its user turns, and all of it unless it   *)
(* is an exchange of one user turn.                                        *)
LEMMA PromptTurnsOfGroups ==
  ASSUME turns \in Seq(TurnFields)
  PROVE  /\ Len(Groups) \in Nat /\ Groups \in Seq(Group)
         /\ Len(turns) # 0 => Len(Groups) # 0
         /\ \A j \in 1..Len(Groups) :
              /\ GroupGood(Groups[j], j)
              /\ Groups[j].ids[1] \in GroupAt(j)
              /\ GroupAt(j) \subseteq 1..Len(turns)
              /\ PromptTurns(Groups[j]) \subseteq GroupAt(j)
              /\ PromptTurns(Groups[j]) # {}
              /\ Users(GroupAt(j)) \subseteq PromptTurns(Groups[j])
              /\ Groups[j].type # "user_assistant" => PromptTurns(Groups[j]) = GroupAt(j)
         /\ \A n \in 1..Len(turns) : \E j \in 1..Len(Groups) : n \in GroupAt(j)
         /\ \A i, j \in 1..Len(Groups) : i < j =>
              \A x \in GroupAt(i), y \in GroupAt(j) : x < y
<1> DEFINE gs == Groups
           is == IdsOf(gs)
           L == Len(gs)
           N == Len(turns)
<1>1. gs \in Seq(Group) /\ Tiles(is, N) /\ \A j \in 1..L : GroupGood(gs[j], j)
  BY GroupsAreGood DEF MergedGood
<1>2. L \in Nat /\ DOMAIN gs = 1..L
  BY <1>1
<1>3. Len(is) = L /\ \A j \in 1..L : ToSet(is[j]) = GroupAt(j) /\ is[j] = gs[j].ids
  BY <1>2 DEF IdsOf, GroupAt
<1>4. (N # 0 => L # 0) /\ (is = <<>> <=> L = 0)
  <2>1. is \in Seq(Seq(Nat)) /\ (N = 0 <=> is = <<>>)
    BY <1>1 DEF Tiles
  <2>2. Len(is) = 0 <=> is = <<>>
    BY <2>1
  <2>3. QED
    BY <1>3, <2>1, <2>2
<1> HIDE DEF gs, is, L, N
<1>5. ASSUME NEW j \in 1..L
      PROVE  /\ gs[j].ids[1] \in GroupAt(j)
             /\ GroupAt(j) \subseteq 1..N
             /\ PromptTurns(gs[j]) \subseteq GroupAt(j)
             /\ PromptTurns(gs[j]) # {}
             /\ Users(GroupAt(j)) \subseteq PromptTurns(gs[j])
             /\ gs[j].type # "user_assistant" => PromptTurns(gs[j]) = GroupAt(j)
  <2>1. is # <<>>
    BY <1>2, <1>4
  <2>2. Spans(is[j], is[j][1], LastIn(is, N, j))
    BY <1>1, <1>3 DEF Tiles
  <2>3. gs[j].ids[1] \in GroupAt(j)
    <3>1. is[j] \in Seq(Nat) /\ is[j] # <<>>
      BY <2>2 DEF Spans
    <3>2. 1 \in DOMAIN is[j]
      BY <3>1
    <3>3. is[j][1] \in ToSet(is[j])
      BY <3>2 DEF ToSet
    <3>4. QED
      BY <1>3, <3>3
  <2>4. GroupAt(j) \subseteq 1..N
    BY <1>1, <1>3, <2>1, TilesCover
  <2>5. /\ \/ PromptTurns(gs[j]) = GroupAt(j)
           \/ PromptTurns(gs[j]) = Users(GroupAt(j)) /\ gs[j].type = "user_assistant"
    BY DEF PromptTurns, Members, GroupAt, gs
  <2>6. Users(GroupAt(j)) \subseteq GroupAt(j)
    BY DEF Users
  <2>7. gs[j].type = "user_assistant" => gs[j].ids[1] \in Users(GroupAt(j))
    BY <1>1, <2>3 DEF GroupGood, Users, IsUser
  <2>8. QED
    BY <2>3, <2>4, <2>5, <2>6, <2>7
<1>6. \A n \in 1..N : \E j \in 1..L : n \in GroupAt(j)
  <2> TAKE n \in 1..N
  <2>1. is # <<>>
    <3>1. N \in Nat
      BY DEF N
    <3>2. N # 0
      BY <3>1
    <3>3. QED
      BY <1>4, <3>2
  <2>2. QED
    BY <1>1, <1>3, <2>1, TilesCover
<1>7. \A i, j \in 1..L : i < j => \A x \in GroupAt(i), y \in GroupAt(j) : x < y
  <2> TAKE i, j \in 1..L
  <2>1. is # <<>>
    BY <1>2, <1>4
  <2>2. QED
    BY <1>1, <1>3, <2>1, TilesCover
<1>8. QED
  BY <1>1, <1>2, <1>4, <1>5, <1>6, <1>7 DEF gs, L, N

-----------------------------------------------------------------------------
(* Taking groups, from the newest one back.                                *)
TakenSoFar == [open: BOOLEAN, used: Nat, ids: SUBSET (1..Len(turns))]
NoneTaken  == [open |-> TRUE, used |-> 0, ids |-> {}]

(* Taking a group: it is shown when it fits or nothing is shown yet, and   *)
(* nothing after the first that does not.                                  *)
LEMMA TakeGroupSteps ==
  ASSUME turns \in Seq(TurnFields), NEW acc \in TakenSoFar, NEW j \in 1..Len(Groups)
  PROVE  LET ids  == PromptTurns(Groups[j])
             fits == acc.ids = {} \/ Within(acc.used + TurnTokens(ids), o.turnBudget)
             next == TakeGroup(acc, Groups[j])
         IN  /\ next \in TakenSoFar
             /\ acc.open /\ fits =>
                  /\ next.open /\ next.used = acc.used + TurnTokens(ids)
                  /\ next.ids = acc.ids \cup ids
             /\ ~(acc.open /\ fits) =>
                  ~next.open /\ next.used = acc.used /\ next.ids = acc.ids
<1> DEFINE ids  == PromptTurns(Groups[j])
           fits == acc.ids = {} \/ Within(acc.used + TurnTokens(ids), o.turnBudget)
           next == TakeGroup(acc, Groups[j])
           more == acc.used + TurnTokens(ids)
           both == acc.ids \cup ids
<1>1. ids \in SUBSET (1..Len(turns)) /\ TurnTokens(ids) \in Nat
  <2>1. ids \in SUBSET (1..Len(turns))
    BY PromptTurnsOfGroups
  <2>2. QED
    BY <2>1, TurnTokensAdd
<1>2. more \in Nat /\ both \in SUBSET (1..Len(turns))
  BY <1>1 DEF TakenSoFar
<1>3. next = IF acc.open /\ fits THEN [open |-> TRUE, used |-> more, ids |-> both]
             ELSE [acc EXCEPT !.open = FALSE]
  BY DEF TakeGroup
<1> HIDE DEF ids, more, both, fits, next
<1>4. CASE acc.open /\ fits
  BY <1>2, <1>3, <1>4 DEF TakenSoFar, more, both, ids, fits, next
<1>5. CASE ~(acc.open /\ fits)
  <2>1. next = [acc EXCEPT !.open = FALSE]
    BY <1>3, <1>5
  <2>2. next \in TakenSoFar /\ ~next.open /\ next.used = acc.used /\ next.ids = acc.ids
    BY <2>1 DEF TakenSoFar
  <2>3. QED
    BY <1>5, <2>2 DEF ids, fits, next
<1>6. QED
  BY <1>4, <1>5

(* h holds what is taken when each group has been looked at.               *)
BudgetTable(h) ==
  /\ h \in [1..(Len(Groups) + 1) -> TakenSoFar]
  /\ h[Len(Groups) + 1] = NoneTaken /\ h[1].ids = TurnsWithinBudget
  /\ \A k \in 1..Len(Groups) : h[k] = TakeGroup(h[k + 1], Groups[k])

(* What _turns_within_budget returns is where its loop ends.               *)
LEMMA TurnsWithinBudgetIsLoop ==
  ASSUME turns \in Seq(TurnFields)
  PROVE  \E h : BudgetTable(h)
<1> DEFINE s == Groups
           N == Len(s)
           R == TakenSoFar
           base == NoneTaken
           Step(r, x) == TakeGroup(r, x)
           step == [p \in R \X (1..N) |-> Step(p[1], s[p[2]])]
           Eq(g) == g = [t \in SUBSET DOMAIN s |->
                           IF t = {} THEN base ELSE Step(g[t \ {Min(t)}], s[Min(t)])]
           g == CHOOSE f : Eq(f)
<1>1. N \in Nat /\ DOMAIN s = 1..N
  BY PromptTurnsOfGroups
<1>2. TurnsWithinBudget = g[DOMAIN s].ids
  BY DEF TurnsWithinBudget, FoldRight, MapThenFoldSet, NoneTaken
<1>3. base \in R
  BY DEF NoneTaken, TakenSoFar
<1>4. \A r \in R, n \in 1..N : Step(r, s[n]) \in R
  BY TakeGroupSteps
<1> HIDE DEF N, g, s, Step, R
<1>5. IsStep(step, R, N) /\ \A r \in R, n \in 1..N : step[<<r, n>>] = Step(r, s[n])
  BY <1>4 DEF IsStep
<1> HIDE DEF step, base
<1>6. RecursesBack(g, R, base, N, step)
  <2>1. PICK f : f \in [SUBSET (1..N) -> R] /\ RecursesBack(f, R, base, N, step)
    BY <1>1, <1>3, <1>5, SubsetRecursionBack
  <2>2. \A t \in SUBSET (1..N) : t # {} => /\ Min(t) \in 1..N
                                           /\ t \ {Min(t)} \in SUBSET (1..N)
    BY <1>1, MirroredLeast
  <2> DEFINE Table(p) == [t \in SUBSET (1..N) |->
                            IF t = {} THEN base ELSE Step(p[t \ {Min(t)}], s[Min(t)])]
  <2>3. \A p : Eq(p) <=> p = Table(p)
    BY <1>1
  <2>4. f = Table(f)
    <3>1. f = [t \in SUBSET (1..N) |-> f[t]]
      BY <2>1
    <3>2. ASSUME NEW t \in SUBSET (1..N)
          PROVE  f[t] = IF t = {} THEN base ELSE Step(f[t \ {Min(t)}], s[Min(t)])
      <4>1. CASE t = {}
        BY <2>1, <4>1 DEF RecursesBack
      <4>2. CASE t # {}
        <5>1. Min(t) \in 1..N /\ f[t \ {Min(t)}] \in R
          BY <2>1, <2>2, <4>2
        <5>2. f[t] = step[<<f[t \ {Min(t)}], Min(t)>>]
          BY <2>1, <4>2, <5>1 DEF RecursesBack
        <5>3. QED
          BY <1>5, <4>2, <5>1, <5>2
      <4>3. QED
        BY <4>1, <4>2
    <3>3. QED
      BY <3>1, <3>2
  <2> HIDE DEF Eq
  <2>5. Eq(g)
    BY <2>3, <2>4 DEF g
  <2>6. g = Table(g)
    BY <2>3, <2>5
  <2>7. QED
    BY <1>5, <2>2, <2>6 DEF RecursesBack
<1>7. PICK h : IsTableBack(h, R, base, N, step) /\ h[1] = g[1..N]
  BY <1>1, <1>3, <1>5, <1>6, FoldTableBack
<1>8. h \in [1..(N + 1) -> R] /\ h[N + 1] = base /\ h[1].ids = TurnsWithinBudget
  BY <1>1, <1>2, <1>7 DEF IsTableBack
<1>9. ASSUME NEW n \in 1..N PROVE h[n] = TakeGroup(h[n + 1], s[n])
  <2>1. h[n + 1] \in R
    BY <1>1, <1>8, n + 1 \in 1..(N + 1)
  <2>2. QED
    BY <1>5, <1>7, <2>1 DEF IsTableBack, Step
<1>10. BudgetTable(h)
  BY <1>8, <1>9 DEF BudgetTable, R, base, N, s
<1>11. QED
  BY <1>10

(* What is taken before group j is all of the prompt turns of the groups   *)
(* from some k on, and no more than the budget if there are two of them.   *)
SuffixTurns(k) == UNION {PromptTurns(Groups[i]) : i \in k..Len(Groups)}

(* What is taken when group j has been looked at is what the groups from   *)
(* k on show, and fits unless that is the last group alone.                *)
Suffix(acc, j, k) ==
  /\ k \in j..(Len(Groups) + 1)
  /\ acc.ids = SuffixTurns(k) /\ acc.used = TurnTokens(acc.ids)
  /\ acc.open => k = j
  /\ k < Len(Groups) => Within(TurnTokens(acc.ids), o.turnBudget)

(* Looking at one more group keeps that.                                   *)
LEMMA TakeGroupKeepsSuffix ==
  ASSUME turns \in Seq(TurnFields), NEW acc \in TakenSoFar, NEW j \in 1..Len(Groups),
         NEW k, Suffix(acc, j + 1, k)
  PROVE  \E l : Suffix(TakeGroup(acc, Groups[j]), j, l)
<1> DEFINE L    == Len(Groups)
           ids  == PromptTurns(Groups[j])
           fits == acc.ids = {} \/ Within(acc.used + TurnTokens(ids), o.turnBudget)
           next == TakeGroup(acc, Groups[j])
<1>1. /\ next \in TakenSoFar
      /\ acc.open /\ fits =>
           /\ next.open /\ next.used = acc.used + TurnTokens(ids)
           /\ next.ids = acc.ids \cup ids
      /\ ~(acc.open /\ fits) => ~next.open /\ next.used = acc.used /\ next.ids = acc.ids
  BY TakeGroupSteps
<1>2. L \in Nat /\ k \in (j + 1)..(L + 1) /\ j \in Nat
  BY PromptTurnsOfGroups DEF Suffix
<1>3. /\ acc.ids = SuffixTurns(k) /\ acc.used = TurnTokens(acc.ids)
      /\ acc.open => k = j + 1
      /\ k < L => Within(TurnTokens(acc.ids), o.turnBudget)
  BY DEF Suffix
<1> HIDE DEF next
<1>4. CASE ~(acc.open /\ fits)
  <2>1. ~next.open /\ next.used = acc.used /\ next.ids = acc.ids
    BY <1>1, <1>4
  <2>2. k \in j..(L + 1)
    BY <1>2
  <2>3. Suffix(next, j, k)
    BY <1>3, <2>1, <2>2 DEF Suffix
  <2>4. QED
    BY <2>3 DEF next
<1>5. CASE acc.open /\ fits
  <2>1. next.used = acc.used + TurnTokens(ids) /\ next.ids = acc.ids \cup ids /\ k = j + 1
    BY <1>1, <1>3, <1>5
  <2>2. SuffixTurns(j) = SuffixTurns(j + 1) \cup ids
    <3>1. \A i : i \in j..L <=> i = j \/ i \in (j + 1)..L
      BY <1>2
    <3>2. QED
      BY <3>1 DEF SuffixTurns
  <2>3. acc.ids \cap ids = {}
    <3> SUFFICES ASSUME NEW n \in acc.ids, n \in ids PROVE FALSE
      OBVIOUS
    <3>1. PICK i \in (j + 1)..L : n \in PromptTurns(Groups[i])
      BY <1>3, <2>1 DEF SuffixTurns
    <3>2. i \in 1..L /\ j < i
      BY <1>2
    <3>3. n \in GroupAt(i) /\ n \in GroupAt(j)
      BY <3>1, <3>2, PromptTurnsOfGroups
    <3>4. n < n /\ n \in 1..Len(turns)
      BY <3>2, <3>3, PromptTurnsOfGroups
    <3>5. QED
      BY <3>4
  <2>4. acc.ids \in SUBSET (1..Len(turns)) /\ ids \in SUBSET (1..Len(turns))
    BY PromptTurnsOfGroups DEF TakenSoFar
  <2>5. next.used = TurnTokens(next.ids)
    BY <1>3, <2>1, <2>3, <2>4, TurnTokensAdd
  <2>6. next.ids = SuffixTurns(j)
    BY <1>3, <2>1, <2>2
  <2>7. j < L => Within(TurnTokens(next.ids), o.turnBudget)
    <3> SUFFICES ASSUME j < L PROVE Within(TurnTokens(next.ids), o.turnBudget)
      OBVIOUS
    <3>1. L \in (j + 1)..L /\ L \in 1..L
      BY <1>2
    <3>2. PromptTurns(Groups[L]) # {} /\ PromptTurns(Groups[L]) \subseteq acc.ids
      BY <1>3, <2>1, <3>1, PromptTurnsOfGroups DEF SuffixTurns
    <3>3. Within(acc.used + TurnTokens(ids), o.turnBudget)
      BY <1>5, <3>2
    <3>4. QED
      BY <2>1, <2>5, <3>3
  <2>8. j \in j..(L + 1)
    BY <1>2
  <2>9. Suffix(next, j, j)
    BY <2>5, <2>6, <2>7, <2>8 DEF Suffix
  <2>10. QED
    BY <2>9 DEF next
<1>6. QED
  BY <1>4, <1>5

(* The prompt has the turns of the latest groups, and more than the budget *)
(* allows only if they are of one group.                                   *)
LEMMA PromptIsSuffix ==
  ASSUME turns \in Seq(TurnFields)
  PROVE  \E k \in 1..(Len(Groups) + 1) :
           /\ TurnsWithinBudget = SuffixTurns(k)
           /\ k < Len(Groups) => Within(TurnTokens(TurnsWithinBudget), o.turnBudget)
<1> DEFINE L == Len(Groups)
<1>1. PICK h : BudgetTable(h)
  BY TurnsWithinBudgetIsLoop
<1>2. /\ h \in [1..(L + 1) -> TakenSoFar]
      /\ h[L + 1] = NoneTaken /\ h[1].ids = TurnsWithinBudget
      /\ \A k \in 1..L : h[k] = TakeGroup(h[k + 1], Groups[k])
  BY <1>1 DEF BudgetTable
<1>3. L \in Nat
  BY PromptTurnsOfGroups
<1> DEFINE S == {n \in 0..L : \E l : Suffix(h[L + 1 - n], L + 1 - n, l)}
<1>4. 0 \in S
  <2>1. SuffixTurns(L + 1) = {}
    <3>1. (L + 1)..L = {}
      BY <1>3
    <3>2. QED
      BY <3>1 DEF SuffixTurns
  <2>2. L + 1 - 0 = L + 1 /\ L + 1 \in (L + 1)..(L + 1) /\ ~(L + 1 < L) /\ 0 \in 0..L
    BY <1>3
  <2>3. Suffix(NoneTaken, L + 1, L + 1)
    BY <2>1, <2>2, TurnTokensAdd DEF Suffix, NoneTaken
  <2>4. QED
    BY <1>2, <2>2, <2>3
<1>5. ASSUME NEW n \in 1..L, n - 1 \in S PROVE n \in S
  <2> DEFINE j == L + 1 - n
  <2>1. j \in 1..L /\ j + 1 \in 1..(L + 1) /\ L + 1 - (n - 1) = j + 1 /\ n \in 0..L
    BY <1>3
  <2>2. PICK k : Suffix(h[j + 1], j + 1, k)
    BY <1>5, <2>1
  <2> HIDE DEF j
  <2>3. h[j + 1] \in TakenSoFar /\ h[j] = TakeGroup(h[j + 1], Groups[j])
    BY <1>2, <2>1
  <2>4. \E l : Suffix(h[j], j, l)
    BY <2>1, <2>2, <2>3, TakeGroupKeepsSuffix
  <2>5. QED
    BY <2>1, <2>4 DEF j
<1> HIDE DEF S
<1>6. L \in S
  <2>1. L \in 0..L
    BY <1>3
  <2>2. QED
    BY <1>3, <1>4, <1>5, <2>1, Induction
<1>7. PICK k : Suffix(h[1], 1, k)
  <2>1. L + 1 - L = 1
    BY <1>3
  <2>2. QED
    BY <1>6, <2>1 DEF S
<1>8. QED
  BY <1>2, <1>7 DEF Suffix

-----------------------------------------------------------------------------
(* What the groups say of user turns.                                      *)
Latest(p, overflow) ==
  p # {} =>
    /\ DOMAIN turns \ p # {} => Users(p) # {}
    /\ \A n \in Users(p) :
         /\ {k \in Users(DOMAIN turns) : k > n} \subseteq p
         /\ turns[n].says # "nothing" => Max({1, PreviousUser(n)})..n \subseteq p
    /\ overflow > 0 =>
         \A n \in Users(p) : PreviousUser(n) \in p => turns[n].says # "nothing"

(* PreviousUser is the last user turn before a turn.                       *)
LEMMA PreviousUserIsLast ==
  ASSUME turns \in Seq(TurnFields), NEW n \in 1..Len(turns)
  PROVE  /\ PreviousUser(n) \in 0..(n - 1)
         /\ \A k \in Users(DOMAIN turns) : k < n => k <= PreviousUser(n)
<1> DEFINE before == {0} \cup {k \in Users(DOMAIN turns) : k < n}
<1>1. DOMAIN turns = 1..Len(turns) /\ Len(turns) \in Nat /\ n \in Nat
  OBVIOUS
<1>2. \A k \in before : k \in 0..(n - 1)
  BY <1>1 DEF Users
<1>3. before # {}
  OBVIOUS
<1> HIDE DEF before
<1>4. before \in SUBSET Int /\ n \in Int /\ \A k \in before : k <= n
  BY <1>1, <1>2
<1>5. Max(before) \in before /\ \A k \in before : k <= Max(before)
  BY <1>3, <1>4, MaxOfBounded
<1>6. PreviousUser(n) = Max(before)
  BY DEF PreviousUser, before
<1>7. QED
  BY <1>2, <1>5, <1>6 DEF before

(* Where a group begins.                                                   *)
LEMMA GroupsSpan ==
  ASSUME turns \in Seq(TurnFields), NEW j \in 1..Len(Groups)
  PROVE  /\ Groups[j].ids[1] \in Nat
         /\ \E c \in Nat : GroupAt(j) = Groups[j].ids[1]..c
         /\ j = 1 => Groups[j].ids[1] = 1
<1> DEFINE is == IdsOf(Groups)
<1>1. Groups \in Seq(Group) /\ Tiles(is, Len(turns))
  BY GroupsAreGood DEF MergedGood
<1>2. is[j] = Groups[j].ids /\ Len(is) = Len(Groups) /\ Len(Groups) \in Nat
  BY <1>1 DEF IdsOf
<1> HIDE DEF is
<1>3. Spans(is[j], is[j][1], LastIn(is, Len(turns), j)) /\ is # <<>>
  BY <1>1, <1>2 DEF Tiles
<1>4. is[1][1] = 1
  BY <1>1, <1>3 DEF Tiles
<1>5. QED
  BY <1>2, <1>3, <1>4 DEF Spans, GroupAt

(* What the prompt has is the latest exchanges, none in part.              *)
LEMMA PromptIsLatest ==
  ASSUME turns \in Seq(TurnFields), o \in Policies
  PROVE  Latest(TurnsWithinBudget, Overflow(TurnsWithinBudget))
<1> DEFINE p == TurnsWithinBudget
           L == Len(Groups)
           N == Len(turns)
           first(j) == Groups[j].ids[1]
<1> SUFFICES ASSUME p # {}
             PROVE  /\ DOMAIN turns \ p # {} => Users(p) # {}
                    /\ \A n \in Users(p) :
                         /\ {k \in Users(DOMAIN turns) : k > n} \subseteq p
                         /\ turns[n].says # "nothing" => Max({1, PreviousUser(n)})..n \subseteq p
                    /\ Overflow(p) > 0 =>
                         \A n \in Users(p) : PreviousUser(n) \in p => turns[n].says # "nothing"
  BY DEF Latest
<1>1. PICK k \in 1..(L + 1) : p = SuffixTurns(k) /\ (k < L => Within(TurnTokens(p), o.turnBudget))
  BY PromptIsSuffix
<1> HIDE DEF p
<1>2. /\ L \in Nat /\ N \in Nat /\ DOMAIN turns = 1..N
      /\ \A j \in 1..L :
           /\ GroupGood(Groups[j], j) /\ first(j) \in GroupAt(j) /\ GroupAt(j) \subseteq 1..N
           /\ PromptTurns(Groups[j]) \subseteq GroupAt(j)
           /\ Users(GroupAt(j)) \subseteq PromptTurns(Groups[j])
           /\ Groups[j].type # "user_assistant" => PromptTurns(Groups[j]) = GroupAt(j)
      /\ \A n \in 1..N : \E j \in 1..L : n \in GroupAt(j)
      /\ \A i, j \in 1..L : i < j => \A x \in GroupAt(i), y \in GroupAt(j) : x < y
  BY PromptTurnsOfGroups
<1>3. k \in 1..L
  <2>1. k # L + 1
    <3>1. (L + 1)..L = {}
      BY <1>2
    <3>2. QED
      BY <1>1, <3>1 DEF SuffixTurns
  <2>2. QED
    BY <1>2, <2>1
<1>4. \A j \in k..L : j \in 1..L /\ PromptTurns(Groups[j]) \subseteq p
  BY <1>1, <1>3 DEF SuffixTurns
<1>5. \A n \in p : \E j \in k..L : n \in PromptTurns(Groups[j]) /\ n \in GroupAt(j)
  BY <1>1, <1>2, <1>4 DEF SuffixTurns
<1>6. \A j \in 1..L : \E c \in Nat : GroupAt(j) = first(j)..c
  BY GroupsSpan
<1>7. \A j \in 1..L : first(j) \in Nat /\ (j = 1 => first(j) = 1)
  BY GroupsSpan
<1> HIDE DEF L, N, first
<1>8. ASSUME DOMAIN turns \ p # {} PROVE Users(p) # {}
  <2>1. CASE k = 1
    <3>1. PICK n \in 1..N : n \notin p
      BY <1>2, <1>8
    <3>2. PICK j \in 1..L : n \in GroupAt(j)
      BY <1>2
    <3>3. PromptTurns(Groups[j]) \subseteq p /\ PromptTurns(Groups[j]) # GroupAt(j)
      BY <1>4, <2>1, <3>1, <3>2
    <3>4. IsUser(first(j)) /\ first(j) \in GroupAt(j)
      BY <1>2, <3>3 DEF GroupGood, first
    <3>5. first(j) \in Users(GroupAt(j)) /\ first(j) \in p
      BY <1>2, <3>3, <3>4 DEF Users, IsUser
    <3>6. QED
      BY <3>5 DEF Users
  <2>2. CASE k # 1
    <3>1. k \in k..L
      BY <1>3
    <3>2. IsUser(first(k)) /\ first(k) \in GroupAt(k)
      BY <1>2, <1>3, <2>2 DEF GroupGood, first
    <3>3. first(k) \in Users(GroupAt(k)) /\ first(k) \in p
      BY <1>2, <1>3, <1>4, <3>1, <3>2 DEF Users, IsUser
    <3>4. QED
      BY <3>3 DEF Users
  <2>3. QED
    BY <2>1, <2>2
<1>9. ASSUME NEW n \in Users(p)
      PROVE  \E j \in k..L :
               /\ n \in GroupAt(j) /\ IsUser(n) /\ n \in p
               /\ j \in 1..L /\ n \in 1..N
  <2>1. n \in p /\ IsUser(n)
    BY <1>9 DEF Users, IsUser
  <2>2. QED
    BY <1>2, <1>4, <1>5, <2>1
<1>10. ASSUME NEW n \in Users(p), NEW l \in Users(DOMAIN turns), l > n PROVE l \in p
  <2>1. PICK j \in k..L : n \in GroupAt(j) /\ j \in 1..L /\ n \in 1..N
    BY <1>9
  <2>2. l \in 1..N /\ turns[l].role = "user"
    BY <1>2 DEF Users
  <2>3. PICK i \in 1..L : l \in GroupAt(i)
    BY <1>2, <2>2
  <2>4. ~(i < j)
    <3>1. i < j => l < n
      BY <1>2, <2>1, <2>3
    <3>2. QED
      BY <1>10, <2>1, <2>2, <3>1
  <2>5. i \in k..L
    BY <1>3, <2>1, <2>4
  <2>6. l \in Users(GroupAt(i))
    BY <2>2, <2>3 DEF Users
  <2>7. QED
    BY <1>2, <1>4, <2>3, <2>5, <2>6
<1>11. ASSUME NEW n \in Users(p), turns[n].says # "nothing"
       PROVE  Max({1, PreviousUser(n)})..n \subseteq p
  <2>1. PICK j \in k..L : n \in GroupAt(j) /\ IsUser(n) /\ n \in p /\ j \in 1..L /\ n \in 1..N
    BY <1>9
  <2> DEFINE q == PreviousUser(n)
             a == Max({1, q})
  <2>2. q \in 0..(n - 1) /\ \A l \in Users(DOMAIN turns) : l < n => l <= q
    BY <2>1, PreviousUserIsLast DEF N
  <2>3. a \in Int /\ a >= 1 /\ a >= q /\ (a = 1 \/ a = q)
    <3> HIDE DEF q
    <3>1. 1 \in Int /\ q \in Int
      BY <2>2
    <3>2. QED
      BY <3>1, MaxOfTwo
  <2> HIDE DEF a, q
  <2>4. CASE n = first(j)
    <3>1. j = 1 /\ n = 1
      BY <1>2, <1>7, <1>11, <2>1, <2>4 DEF GroupGood, IsReferring, first
    <3>2. a = 1
      BY <2>2, <2>3, <3>1
    <3>3. \A x \in a..n : x = n
      BY <3>1, <3>2
    <3>4. QED
      BY <2>1, <3>3 DEF a, q
  <2>5. CASE n # first(j)
    <3>1. Groups[j].type = "context"
      BY <1>2, <2>1, <2>5 DEF GroupGood, GroupAt, first
    <3>2. GroupAt(j) \subseteq p
      BY <1>2, <1>4, <2>1, <3>1
    <3>3. PICK c \in Nat : GroupAt(j) = first(j)..c
      BY <1>6, <2>1
    <3>4. first(j) \in Nat /\ n \in first(j)..c /\ first(j) < n
      BY <1>7, <2>1, <2>5, <3>3
    <3>5. a >= first(j)
      <4>1. CASE j = 1
        BY <1>7, <2>1, <2>3, <4>1
      <4>2. CASE j # 1
        <5>1. first(j) \in Users(DOMAIN turns)
          <6>1. IsUser(first(j)) /\ first(j) \in GroupAt(j) /\ GroupAt(j) \subseteq 1..N
            BY <1>2, <2>1, <4>2 DEF GroupGood, first
          <6>2. QED
            BY <1>2, <6>1 DEF Users, IsUser
        <5>2. first(j) <= q
          BY <2>2, <3>4, <5>1
        <5>3. QED
          BY <2>2, <2>3, <3>4, <5>2
      <4>3. QED
        BY <4>1, <4>2
    <3>6. \A x \in a..n : x \in first(j)..c
      BY <2>3, <3>4, <3>5
    <3>7. QED
      BY <3>2, <3>3, <3>6 DEF a, q
  <2>6. QED
    BY <2>4, <2>5
<1>12. ASSUME Overflow(p) > 0, NEW n \in Users(p), PreviousUser(n) \in p
       PROVE  turns[n].says # "nothing"
  <2>1. ~Within(TurnTokens(p), o.turnBudget)
    <3>1. CASE o.turnBudget = NoBudget
      BY <1>12, <3>1 DEF Overflow
    <3>2. CASE o.turnBudget # NoBudget
      <4> DEFINE x == TurnTokens(p)
                 y == o.turnBudget
                 z == Max({0, x - y})
      <4>1. y \in Nat
        BY <3>2 DEF Policies, Budgets
      <4>2. x \in Nat
        <5>1. p \in SUBSET (1..N)
          BY <1>2, <1>4, <1>5
        <5>2. QED
          BY <5>1, TurnTokensAdd DEF N
      <4>3. z > 0
        BY <1>12, <3>2 DEF Overflow
      <4> HIDE DEF x, y
      <4>4. 0 \in Int /\ x - y \in Int
        BY <4>1, <4>2
      <4>5. z = 0 \/ z = x - y
        BY <4>4, MaxOfTwo
      <4> HIDE DEF z
      <4>6. ~(x <= y)
        BY <4>1, <4>2, <4>3, <4>5
      <4>7. QED
        BY <3>2, <4>6 DEF Within, x, y
    <3>3. QED
      BY <3>1, <3>2
  <2>2. k = L
    BY <1>1, <1>2, <1>3, <2>1 DEF L
  <2>3. \A j \in k..L : j = L
    BY <1>2, <2>2
  <2>4. n \in GroupAt(L) /\ IsUser(n) /\ L \in 1..L /\ n \in 1..N
    BY <1>9, <2>3
  <2>5. PreviousUser(n) \in GroupAt(L) /\ PreviousUser(n) \in 0..(n - 1)
    <3>1. PreviousUser(n) \in GroupAt(L)
      BY <1>5, <1>12, <2>3
    <3>2. QED
      BY <2>4, <3>1, PreviousUserIsLast DEF N
  <2>6. n # first(L)
    <3>1. PICK c \in Nat : GroupAt(L) = first(L)..c
      BY <1>6, <2>4
    <3> DEFINE q == PreviousUser(n)
    <3> HIDE DEF q
    <3>2. q \in first(L)..c /\ q \in 0..(n - 1) /\ first(L) \in Nat /\ n \in Nat
      BY <1>7, <2>4, <2>5, <3>1 DEF q
    <3>3. QED
      BY <3>2
  <2>7. QED
    BY <1>2, <2>4, <2>6 DEF GroupGood, IsReferring, GroupAt, first
<1>13. QED
  BY <1>8, <1>10, <1>11, <1>12

(* "Updater context remains a contiguous suffix": for any batch of turns,  *)
(* policy and budget, the prompt has the latest exchanges, each with what  *)
(* it refers to, and goes over the budget for one such chain at most.      *)
THEOREM PromptsAreLatestExchanges == PromptSpec => []PromptIsLatestExchanges
<1> DEFINE Shown == Latest(prompt, report.overflow)
<1>1. PromptInit => Shown
  BY DEF PromptInit, Latest
<1>2. ASSUME PromptTypeOK, [PromptNext]_promptVars, Shown
      PROVE  Shown'
  <2>1. CASE SelectTurns
    <3> DEFINE p == TurnsWithinBudget
    <3>1. prompt' = p /\ report' = [tokens |-> TurnTokens(p), overflow |-> Overflow(p)]
          /\ turns' = turns
      BY <2>1 DEF SelectTurns, Overflow, TurnTokens
    <3>2. Latest(p, Overflow(p))
      BY <1>2, PromptIsLatest DEF PromptTypeOK
    <3> HIDE DEF p
    <3>3. report'.overflow = Overflow(p)
      BY <3>1
    <3>4. QED
      BY <3>1, <3>2, <3>3 DEF Latest, Users, PreviousUser
  <2>2. CASE ~SelectTurns
    <3>1. UNCHANGED <<turns, prompt, report>>
      BY <1>2, <2>2 DEF PromptNext, Decide, SelectEntries, MigrateEntries, TakeAnswer, Question,
                        promptVars
    <3>2. QED
      BY <1>2, <3>1 DEF Latest, Users, PreviousUser
  <2>3. QED
    BY <2>1, <2>2
<1>3. Shown => PromptIsLatestExchanges
  BY DEF Latest, PromptIsLatestExchanges
<1>4. QED
  BY <1>1, <1>2, <1>3, PromptTypeCorrect, PTL DEF PromptSpec
=============================================================================
