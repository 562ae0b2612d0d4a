----------------------------- MODULE BeamProofs -----------------------------
(***************************************************************************)
(* Proofs about BEAM runs and the batches they are started in: what the    *)
(* manifest of a batch lacks at most, what a run tells its memory and what *)
(* it keeps, under which name its score is, that the account in a manifest *)
(* is that of its runs' files, and that a replay answers from what it was  *)
(* to be a replay of.  They hold for every chat, any number of questions,  *)
(* repeats and cases, and every history of batches, with failures and      *)
(* crashes at any step.                                                    *)
(***************************************************************************)
EXTENDS BeamBatch, SequenceLemmas

(* The selected cases: the lowest of those wanted, each once.              *)
LEMMA SelectedCases ==
  ASSUME BatchAssumption, NEW o \in Batch, o.ids \subseteq Cases
  PROVE  /\ Selected(o) \in Seq(Nat) /\ Len(Selected(o)) \in Nat
         /\ \A m, n \in 1..Len(Selected(o)) : Selected(o)[m] = Selected(o)[n] => m = n
         /\ \A c : c \in Lowest(o) <=> \E n \in 1..Len(Selected(o)) : Selected(o)[n] = c
<1> DEFINE W == Wanted(o)
           list == Sorted(W, LAMBDA c, d : c < d)
           s == Selected(o)
           N == Cardinality(W)
<1>1. W \in SUBSET Nat /\ W \in SUBSET Int /\ IsFiniteSet(W) /\ o.limit \in Nat \ {0}
  <2>1. W \subseteq Cases /\ o.limit \in Nat \ {0}
    BY DEF Wanted, Batch
  <2>2. Cases \subseteq Nat /\ IsFiniteSet(Cases)
    BY DEF BatchAssumption
  <2> HIDE DEF W
  <2>3. IsFiniteSet(W)
    BY <2>1, <2>2, FS_Subset
  <2>4. QED
    BY <2>1, <2>2, <2>3
<1>2. N \in Nat
  BY <1>1, FS_CardinalityType
<1>3. s = First(o.limit, list)
  BY DEF Selected
<1>4. \A c : c \in Lowest(o) <=> c \in W /\ Cardinality({d \in W : d < c}) < o.limit
  BY DEF Lowest
<1> HIDE DEF W, s
<1>5. /\ Lists(list, W)
      /\ \A i \in 1..N : Cardinality({y \in W : y < list[i]}) = i - 1
  BY <1>1, SortedNumbers
<1> HIDE DEF list
<1>6. /\ list \in [1..N -> W]
      /\ \A i, j \in 1..N : list[i] = list[j] => i = j
      /\ \A c \in W : \E i \in 1..N : list[i] = c
  BY <1>5 DEF Lists
<1> HIDE DEF N
<1>7. list \in Seq(Nat) /\ Len(list) = N
  <2>1. list \in [1..N -> Nat]
    BY <1>1, <1>6
  <2>2. QED
    BY <1>2, <2>1
<1>8. /\ s \in Seq(Nat) /\ Len(s) \in Nat /\ Len(s) <= N
      /\ Len(s) = IF o.limit <= N THEN o.limit ELSE N
      /\ \A k \in 1..Len(s) : s[k] = list[k]
  BY <1>1, <1>3, <1>7, FirstIsPrefix
<1>9. \A k \in 1..Len(s) : k \in 1..N
  BY <1>2, <1>8
<1>10. ASSUME NEW c \in W, NEW i \in 1..N, list[i] = c
       PROVE  Cardinality({d \in W : d < c}) < o.limit <=> i \in 1..Len(s)
  <2>1. Cardinality({d \in W : d < c}) = i - 1
    BY <1>5, <1>10
  <2>2. i - 1 < o.limit <=> i <= Len(s)
    BY <1>1, <1>2, <1>8
  <2>3. QED
    BY <1>2, <1>8, <2>1, <2>2
<1>11. ASSUME NEW c \in Lowest(o) PROVE \E n \in 1..Len(s) : s[n] = c
  <2>1. c \in W /\ Cardinality({d \in W : d < c}) < o.limit
    BY <1>4
  <2>2. PICK i \in 1..N : list[i] = c
    BY <1>6, <2>1
  <2>3. QED
    BY <1>8, <1>10, <2>1, <2>2
<1>12. ASSUME NEW n \in 1..Len(s) PROVE s[n] \in Lowest(o)
  <2>1. n \in 1..N /\ s[n] = list[n] /\ list[n] \in W
    BY <1>6, <1>8, <1>9
  <2>2. QED
    BY <1>4, <1>10, <2>1
<1>13. \A m, n \in 1..Len(s) : s[m] = s[n] => m = n
  BY <1>6, <1>8, <1>9
<1>14. QED
  BY <1>8, <1>11, <1>12, <1>13 DEF s

(* Counting in rows of n.                                                  *)
LEMMA RowsAndColumns ==
  ASSUME NEW n \in Nat \ {0}, NEW R \in Nat
  PROVE  /\ \A a \in Nat : /\ a \div n \in Nat /\ a % n \in 0..(n - 1)
                           /\ a = n * (a \div n) + (a % n)
                           /\ a < R * n => a \div n < R
         /\ \A r \in 0..(R - 1), x \in 0..(n - 1) :
              LET a == r * n + x
              IN  a \in Nat /\ a < R * n /\ a \div n = r /\ a % n = x
<1>1. ASSUME NEW a \in Nat
      PROVE  a \div n \in Nat /\ a % n \in 0..(n - 1)
  OBVIOUS
<1>2. ASSUME NEW a \in Nat
      PROVE  a = n * (a \div n) + (a % n)
  OBVIOUS
<1>3. ASSUME NEW a \in Nat, a < R * n
      PROVE  a \div n < R
  BY <1>3
<1>4. ASSUME NEW r \in 0..(R - 1), NEW x \in 0..(n - 1)
      PROVE  r * n + x \in Nat /\ (r * n + x) \div n = r /\ (r * n + x) % n = x
  <2>1. r \in Nat
    OBVIOUS
  <2>2. QED
    BY <2>1
<1>5. ASSUME NEW r \in 0..(R - 1), NEW x \in 0..(n - 1)
      PROVE  r * n + x < R * n
  <2>1. (r + 1) * n <= R * n
    OBVIOUS
  <2>2. (r + 1) * n = r * n + n
    OBVIOUS
  <2> DEFINE p == r * n
             q == R * n
             t == (r + 1) * n
  <2>3. p \in Int /\ q \in Int /\ t \in Int
    OBVIOUS
  <2> HIDE DEF p, q, t
  <2>4. p + x < q
    BY <2>1, <2>2, <2>3 DEF p, q, t
  <2>5. QED
    BY <2>4 DEF p, q
<1>6. QED
  BY <1>1, <1>2, <1>3, <1>4, <1>5

Runs == [repeat: Nat, case: Nat]

(* The runs of a batch: every selected case in every repeat, each once.    *)
LEMMA ScheduleCovers ==
  ASSUME BatchAssumption, NEW o \in Batch, o.ids \subseteq Cases
  PROVE  /\ Schedule(o) \in Seq(Runs) /\ Len(Schedule(o)) \in Nat
         /\ \A m, n \in 1..Len(Schedule(o)) : Schedule(o)[m] = Schedule(o)[n] => m = n
         /\ \A r, c : (\E n \in 1..Len(Schedule(o)) : /\ Schedule(o)[n].repeat = r
                                                      /\ Schedule(o)[n].case = c)
                      <=> r \in 1..o.repeats /\ c \in Lowest(o)
<1> DEFINE cases == Selected(o)
           L == Len(cases)
           R == o.repeats
           row(n) == (n - 1) \div L
           col(n) == (n - 1) % L
           s == Schedule(o)
<1>1. /\ cases \in Seq(Nat) /\ L \in Nat
      /\ \A m, n \in 1..L : cases[m] = cases[n] => m = n
      /\ \A c : c \in Lowest(o) <=> \E n \in 1..L : cases[n] = c
      /\ \A n \in 1..L : cases[n] \in Nat
  <2>1. /\ cases \in Seq(Nat) /\ L \in Nat
        /\ \A m, n \in 1..L : cases[m] = cases[n] => m = n
        /\ \A c : c \in Lowest(o) <=> \E n \in 1..L : cases[n] = c
    BY SelectedCases
  <2> HIDE DEF cases
  <2>2. QED
    BY <2>1
<1>2. R \in Nat
  BY DEF Batch
<1>3. s = [n \in 1..(R * L) |-> [repeat |-> row(n) + 1, case |-> cases[col(n) + 1]]]
  BY DEF Schedule
<1> HIDE DEF cases, L, R, s
<1>4. R * L \in Nat
  BY <1>1, <1>2
<1>5. ASSUME NEW n \in 1..(R * L)
      PROVE  /\ L \in Nat \ {0} /\ row(n) \in 0..(R - 1) /\ col(n) \in 0..(L - 1)
             /\ n = L * row(n) + col(n) + 1
             /\ row(n) + 1 \in 1..R /\ col(n) + 1 \in 1..L
  <2>1. L # 0
    BY <1>1, <1>2
  <2>2. n - 1 \in Nat /\ n - 1 < R * L
    BY <1>4
  <2>3. /\ row(n) \in Nat /\ col(n) \in 0..(L - 1) /\ n - 1 = L * row(n) + col(n)
        /\ row(n) < R
    BY <1>1, <1>2, <2>1, <2>2, RowsAndColumns
  <2> DEFINE y == L * row(n)
  <2>4. y \in Nat
    BY <1>1, <2>3
  <2> HIDE DEF row, col
  <2>5. n - 1 = y + col(n)
    BY <2>3
  <2> HIDE DEF y
  <2>6. n = y + col(n) + 1
    BY <1>1, <2>3, <2>4, <2>5
  <2>7. QED
    BY <1>1, <1>2, <2>1, <2>3, <2>6 DEF y
<1>6. ASSUME NEW r \in 1..R, NEW x \in 1..L
      PROVE  \E n \in 1..(R * L) : row(n) = r - 1 /\ col(n) = x - 1
  <2> DEFINE a == (r - 1) * L + (x - 1)
  <2>1. L \in Nat \ {0} /\ r - 1 \in 0..(R - 1) /\ x - 1 \in 0..(L - 1)
    BY <1>1, <1>2
  <2>2. a \in Nat /\ a < R * L /\ a \div L = r - 1 /\ a % L = x - 1
    <3> DEFINE q == r - 1
               y == x - 1
    <3>1. q \in 0..(R - 1) /\ y \in 0..(L - 1) /\ a = q * L + y
      BY <2>1
    <3> HIDE DEF q, y, a
    <3>2. a \in Nat /\ a < R * L /\ a \div L = q /\ a % L = y
      BY <1>2, <2>1, <3>1, RowsAndColumns
    <3>3. QED
      BY <3>2 DEF q, y
  <2> HIDE DEF a
  <2>3. a + 1 \in 1..(R * L) /\ (a + 1) - 1 = a
    BY <1>4, <2>2
  <2>4. QED
    BY <2>2, <2>3
<1> HIDE DEF row, col
<1>7. \A n \in 1..(R * L) : /\ s[n] \in Runs /\ s[n].repeat = row(n) + 1
                            /\ s[n].case = cases[col(n) + 1]
  <2> TAKE n \in 1..(R * L)
  <2>1. s[n] = [repeat |-> row(n) + 1, case |-> cases[col(n) + 1]]
    BY <1>3
  <2>2. row(n) + 1 \in 1..R /\ col(n) + 1 \in 1..L
    BY <1>5
  <2>3. row(n) + 1 \in Nat
    BY <1>2, <2>2
  <2>4. cases[col(n) + 1] \in Nat
    BY <1>1, <2>2
  <2>5. QED
    BY <2>1, <2>3, <2>4 DEF Runs
<1>8. s \in Seq(Runs) /\ Len(s) = R * L
  <2>1. s \in [1..(R * L) -> Runs]
    BY <1>3, <1>7
  <2>2. QED
    BY <1>4, <2>1
<1>9. ASSUME NEW m \in 1..(R * L), NEW n \in 1..(R * L), s[m] = s[n]
      PROVE  m = n
  <2>1. row(m) + 1 = row(n) + 1 /\ cases[col(m) + 1] = cases[col(n) + 1]
    BY <1>7, <1>9
  <2>2. row(m) = row(n)
    BY <1>2, <1>5, <2>1, SMTT(20)
  <2>3. col(m) + 1 = col(n) + 1
    BY <1>1, <1>5, <2>1
  <2>4. col(m) = col(n)
    BY <1>1, <1>5, <2>3
  <2>5. QED
    BY <1>5, <2>2, <2>4
<1>10. ASSUME NEW n \in 1..(R * L)
       PROVE  s[n].repeat \in 1..R /\ s[n].case \in Lowest(o)
  BY <1>1, <1>5, <1>7
<1>11. ASSUME NEW r \in 1..R, NEW c \in Lowest(o)
       PROVE  \E n \in 1..(R * L) : s[n].repeat = r /\ s[n].case = c
  <2>1. PICK x \in 1..L : cases[x] = c
    BY <1>1
  <2>2. PICK n \in 1..(R * L) : row(n) = r - 1 /\ col(n) = x - 1
    BY <1>6
  <2>3. row(n) + 1 = r /\ col(n) + 1 = x
    BY <1>1, <1>2, <2>2
  <2>4. QED
    BY <1>7, <2>1, <2>3
<1>12. QED
  BY <1>4, <1>8, <1>9, <1>10, <1>11, SMTT(20) DEF s, R

-----------------------------------------------------------------------------
(* The account a batch keeps.                                              *)
BatchEntry == [repeat: Nat, case: Nat, ok: BOOLEAN, snapshot: BOOLEAN]

(* The types of the variables of a batch, and which of them agree with     *)
(* the plan when.                                                          *)
BatchTypeOK ==
  /\ plan \in Plans
  /\ b \in 1..(Len(plan) + 1)
  /\ pc \in {"idle", "next", "running", "saving", "aggregating", "finishing"}
  /\ pc # "idle" => b \in DOMAIN plan
  /\ entries \in [DOMAIN plan -> Seq(BatchEntry)]
  /\ DOMAIN disk = DOMAIN plan

(* What StartBatch made sure of.                                           *)
Started(k) ==
  /\ plan[k].ids \subseteq Cases
  /\ plan[k].replay # 0 => plan[k].runner = "standard"

(* The runs attempted are the first of the schedule, in order.             *)
Attempts(k) ==
  /\ Len(entries[k]) <= Len(Schedule(plan[k]))
  /\ \A n \in 1..Len(entries[k]) :
       /\ entries[k][n].repeat = Schedule(plan[k])[n].repeat
       /\ entries[k][n].case = Schedule(plan[k])[n].case

(* A manifest that can be read lacks the last run at most.                 *)
Saved(k) ==
  disk[k] # Torn =>
    /\ disk[k].entries \in Seq(BatchEntry)
    /\ Len(disk[k].entries) <= Len(entries[k])
    /\ Len(entries[k]) <= Len(disk[k].entries) + 1
    /\ \A n \in 1..Len(disk[k].entries) : disk[k].entries[n] = entries[k][n]

(* What holds of each batch of the plan: its manifest as it was saved,     *)
(* nothing before it began, and afterwards one entry per run that was      *)
(* tried.                                                                  *)
BatchAccount(k) ==
  /\ Saved(k)
  /\ k > b \/ (k = b /\ pc = "idle") => entries[k] = <<>> /\ disk[k] = Absent
  /\ entries[k] # <<>> \/ (k = b /\ pc # "idle") => Started(k) /\ Attempts(k)

(* Between two runs the manifest lacks nothing; a run is the next of the   *)
(* schedule.                                                               *)
RunAccount ==
  /\ pc \in {"next", "running"} /\ disk[b] # Torn => disk[b].entries = entries[b]
  /\ pc = "running" => Attempted < Len(Schedule(opts)) /\ key = RunKey(b, Current)

(* The inductive invariant of AtMostOneRunUnsaved: the types, the account  *)
(* of every batch, and what the run in progress adds to it.                *)
BatchInv == BatchTypeOK /\ (\A k \in DOMAIN plan : BatchAccount(k)) /\ RunAccount

(* Plans are sequences of batches, and a batch that runs is one of them.   *)
LEMMA PlannedBatches ==
  ASSUME BatchAssumption, BatchTypeOK
  PROVE  /\ plan \in Seq(Batch) /\ Len(plan) \in Nat /\ DOMAIN plan = 1..Len(plan)
         /\ b \in Nat
         /\ \A k \in DOMAIN plan : /\ k \in Nat /\ plan[k] \in Batch
                                   /\ plan[k].replay \in Nat /\ plan[k].replay < k
                                   /\ entries[k] \in Seq(BatchEntry)
                                   /\ Len(entries[k]) \in Nat
<1>1. plan \in Seq(Batch) /\ \A k \in DOMAIN plan : plan[k].replay < k
  BY DEF BatchAssumption, BatchTypeOK
<1>2. Len(plan) \in Nat /\ DOMAIN plan = 1..Len(plan)
  BY <1>1
<1>3. b \in Nat
  BY <1>2 DEF BatchTypeOK
<1>4. ASSUME NEW k \in DOMAIN plan
      PROVE  k \in Nat /\ plan[k] \in Batch /\ plan[k].replay \in Nat
  <2>1. k \in Nat /\ plan[k] \in Batch
    BY <1>1, <1>2
  <2>2. QED
    BY <2>1 DEF Batch
<1>5. ASSUME NEW k \in DOMAIN plan
      PROVE  entries[k] \in Seq(BatchEntry) /\ Len(entries[k]) \in Nat
  <2>1. entries[k] \in Seq(BatchEntry)
    BY DEF BatchTypeOK
  <2>2. QED
    BY <2>1
<1>6. QED
  BY <1>1, <1>2, <1>3, <1>4, <1>5

(* A step of a run leaves the run's name and arguments alone.              *)
LEMMA RunStepKeepsRun == RunStep => key' = key /\ args' = args
  BY DEF RunStep, Restore, IngestPair, AgentIngestPair, FeedNext, EndIngest, AgentEndIngest,
         FlushFinal, OpenSnapshot, CloseSnapshot, AnswerQuestion, AskAgent, AnswerFromPairs,
         Ask, CloseType, WriteResults, WriteAgentResults, WriteBaselineResults, Write

(* A run that takes a step is on.                                          *)
LEMMA RunStepGoesOn == RunStep => phase # "off"
  BY DEF RunStep, Restore, IngestPair, AgentIngestPair, FeedNext, EndIngest, AgentEndIngest,
         FlushFinal, OpenSnapshot, CloseSnapshot, AnswerQuestion, AskAgent, AnswerFromPairs,
         Ask, CloseType, WriteResults, WriteAgentResults, WriteBaselineResults, Write

(* After the last attempt, or a stop, no entry is added; until then one at *)
(* a time.                                                                 *)
LEMMA CaseDoneKeepsAccount ==
  ASSUME BatchAssumption, BatchInv, NEW ok \in BOOLEAN, pc \in {"next", "running"},
         Attempted < Len(Schedule(opts)), CaseDone(Current, ok)
  PROVE  BatchInv'
<1> DEFINE e == Entry(Current, ok)
           n == Len(entries[b])
           s == Schedule(plan[b])
<1>1. b \in DOMAIN plan /\ Started(b) /\ Attempts(b) /\ Saved(b)
  BY DEF BatchInv, BatchTypeOK, BatchAccount
<1>2. /\ plan[b] \in Batch /\ entries[b] \in Seq(BatchEntry) /\ n \in Nat
      /\ plan' = plan /\ b' = b /\ disk' = disk
  BY <1>1, PlannedBatches DEF BatchInv, CaseDone
<1>3. s \in Seq(Runs) /\ Len(s) \in Nat
  BY <1>1, <1>2, ScheduleCovers DEF Started
<1>4. n < Len(s) /\ Current = s[n + 1] /\ n + 1 \in 1..Len(s)
  BY <1>2, <1>3 DEF Attempted, opts, Current
<1> HIDE DEF s
<1>5. Current \in Runs
  BY <1>3, <1>4
<1>6. e \in BatchEntry /\ e.repeat = s[n + 1].repeat /\ e.case = s[n + 1].case
  <2>1. Current.repeat \in Nat /\ Current.case \in Nat
    BY <1>5 DEF Runs
  <2>2. QED
    BY <1>4, <2>1 DEF Entry, BatchEntry
<1> HIDE DEF e
<1>7. entries' = [entries EXCEPT ![b] = Append(entries[b], e)]
  BY DEF CaseDone, e
<1>8. /\ Append(entries[b], e) \in Seq(BatchEntry) /\ Len(Append(entries[b], e)) = n + 1
      /\ \A i \in 1..n : Append(entries[b], e)[i] = entries[b][i]
      /\ Append(entries[b], e)[n + 1] = e
  BY <1>2, <1>6
<1>9. /\ entries' \in [DOMAIN plan -> Seq(BatchEntry)]
      /\ entries'[b] = Append(entries[b], e)
      /\ \A k \in DOMAIN plan \ {b} : entries'[k] = entries[k]
  BY <1>1, <1>7, <1>8 DEF BatchInv, BatchTypeOK
<1>10. pc' \in {"aggregating", "saving"}
  BY DEF CaseDone, AfterCase
<1>11. BatchTypeOK'
  BY <1>1, <1>2, <1>9, <1>10 DEF BatchInv, BatchTypeOK
<1>12. ASSUME NEW k \in DOMAIN plan PROVE BatchAccount(k)'
  <2>1. CASE k # b
    <3>1. entries'[k] = entries[k] /\ BatchAccount(k)
      BY <1>9, <2>1 DEF BatchInv
    <3>2. QED
      BY <1>2, <2>1, <3>1 DEF BatchAccount, Saved, Started, Attempts
  <2>2. CASE k = b
    <3>1. Saved(b)'
      <4> SUFFICES ASSUME disk[b] # Torn
          PROVE  /\ disk[b].entries \in Seq(BatchEntry)
                 /\ Len(disk[b].entries) <= n + 1
                 /\ n + 1 <= Len(disk[b].entries) + 1
                 /\ \A i \in 1..Len(disk[b].entries) : disk[b].entries[i] = entries'[b][i]
        BY <1>2, <1>8, <1>9 DEF Saved
      <4>1. disk[b].entries = entries[b]
        BY DEF BatchInv, RunAccount
      <4>2. QED
        BY <1>2, <1>8, <1>9, <4>1
    <3>2. Attempts(b)'
      <4>1. \A i \in 1..(n + 1) : i \in 1..n \/ i = n + 1
        BY <1>2
      <4>2. \A i \in 1..n : /\ entries[b][i].repeat = s[i].repeat
                            /\ entries[b][i].case = s[i].case
        BY <1>1 DEF Attempts, s
      <4>3. \A i \in 1..(n + 1) : /\ entries'[b][i].repeat = s[i].repeat
                                  /\ entries'[b][i].case = s[i].case
        BY <1>6, <1>8, <1>9, <4>1, <4>2
      <4>4. Len(entries'[b]) = n + 1 /\ n + 1 <= Len(s)
        BY <1>2, <1>3, <1>4, <1>8, <1>9
      <4>5. QED
        BY <1>2, <4>3, <4>4 DEF Attempts, s
    <3>3. Started(b)'
      BY <1>1, <1>2 DEF Started
    <3>4. b \in Nat
      BY PlannedBatches DEF BatchInv
    <3>5. QED
      BY <1>2, <1>10, <2>2, <3>1, <3>2, <3>3, <3>4 DEF BatchAccount
  <2>3. QED
    BY <2>1, <2>2
<1>13. RunAccount'
  BY <1>10 DEF RunAccount
<1>14. QED
  BY <1>2, <1>11, <1>12, <1>13 DEF BatchInv

(* Ending a batch, however it ends, leaves its account as it is.           *)
LEMMA EndBatchKeepsAccount ==
  ASSUME BatchAssumption, BatchInv, pc # "idle", EndBatch,
         plan' = plan, entries' = entries, DOMAIN disk' = DOMAIN disk,
         \A k \in DOMAIN plan : k # b => disk'[k] = disk[k],
         \A k \in DOMAIN plan : k = b => Saved(k)'
  PROVE  BatchInv'
<1>1. /\ Len(plan) \in Nat /\ DOMAIN plan = 1..Len(plan) /\ b \in DOMAIN plan
      /\ pc' = "idle" /\ b' = b + 1
  BY PlannedBatches DEF BatchInv, BatchTypeOK, EndBatch
<1>2. BatchTypeOK'
  BY <1>1 DEF BatchInv, BatchTypeOK
<1>3. ASSUME NEW k \in DOMAIN plan PROVE BatchAccount(k)'
  <2>1. k \in Nat /\ b \in Nat /\ BatchAccount(k)
    BY <1>1 DEF BatchInv
  <2>2. k # b => disk'[k] = disk[k]
    OBVIOUS
  <2>3. Saved(k)'
    <3>1. CASE k = b
      BY <1>1, <3>1
    <3>2. CASE k # b
      BY <2>1, <2>2, <3>2 DEF BatchAccount, Saved
    <3>3. QED
      BY <3>1, <3>2
  <2>4. k > b' \/ (k = b' /\ pc' = "idle") => entries[k] = <<>> /\ disk'[k] = Absent
    BY <1>1, <2>1, <2>2 DEF BatchAccount
  <2>5. entries[k] # <<>> => Started(k) /\ Attempts(k)
    BY <2>1 DEF BatchAccount
  <2>6. entries[k] # <<>> => Started(k)' /\ Attempts(k)'
    BY <2>5 DEF Started, Attempts
  <2>7. (k = b' /\ pc' # "idle") => FALSE
    BY <1>1
  <2>8. QED
    BY <2>3, <2>4, <2>6, <2>7 DEF BatchAccount
<1>4. RunAccount'
  BY <1>1 DEF RunAccount
<1>5. QED
  BY <1>2, <1>3, <1>4 DEF BatchInv

(* Steps within a batch that add no entry.                                 *)
LEMMA GoingOnKeepsAccount ==
  ASSUME BatchAssumption, BatchInv, pc # "idle",
         pc' \in {"next", "running", "saving", "aggregating", "finishing"},
         b' = b, plan' = plan, entries' = entries, DOMAIN disk' = DOMAIN disk,
         \A k \in DOMAIN plan : k # b => disk'[k] = disk[k],
         Saved(b)', RunAccount'
  PROVE  BatchInv'
<1>1. b \in DOMAIN plan
  BY DEF BatchInv, BatchTypeOK
<1>2. BatchTypeOK'
  BY <1>1 DEF BatchInv, BatchTypeOK
<1>3. ASSUME NEW k \in DOMAIN plan PROVE BatchAccount(k)'
  <2>1. k \in Nat /\ b \in Nat /\ BatchAccount(k)
    BY PlannedBatches DEF BatchInv
  <2>2. k # b => disk'[k] = disk[k]
    OBVIOUS
  <2>3. Saved(k)'
    <3>1. CASE k = b
      BY <3>1
    <3>2. CASE k # b
      BY <2>1, <2>2, <3>2 DEF BatchAccount, Saved
    <3>3. QED
      BY <3>1, <3>2
  <2>4. k > b => entries[k] = <<>> /\ disk'[k] = Absent
    BY <2>1, <2>2 DEF BatchAccount
  <2>5. entries[k] # <<>> \/ k = b => Started(k) /\ Attempts(k)
    BY <2>1 DEF BatchAccount
  <2>6. entries[k] # <<>> \/ k = b => Started(k)' /\ Attempts(k)'
    BY <2>5 DEF Started, Attempts
  <2>7. QED
    BY <2>3, <2>4, <2>6 DEF BatchAccount
<1>4. QED
  BY <1>2, <1>3 DEF BatchInv

(* A batch that begins, or that raises before it writes anything.          *)
LEMMA StartBatchKeepsAccount ==
  ASSUME BatchAssumption, BatchInv, StartBatch
  PROVE  BatchInv'
<1>1. /\ Len(plan) \in Nat /\ DOMAIN plan = 1..Len(plan) /\ b \in DOMAIN plan /\ pc = "idle"
      /\ plan[b] \in Batch
      /\ plan' = plan /\ entries' = entries /\ disk' = disk
  BY PlannedBatches DEF BatchInv, BatchTypeOK, StartBatch
<1>2. entries[b] = <<>> /\ disk[b] = Absent /\ Saved(b)
  BY <1>1 DEF BatchInv, BatchAccount
<1>3. CASE ~Startable
  <2>1. pc' = "idle" /\ b' = b + 1
    BY <1>3 DEF StartBatch
  <2>2. BatchTypeOK'
    BY <1>1, <2>1 DEF BatchInv, BatchTypeOK
  <2>3. ASSUME NEW k \in DOMAIN plan PROVE BatchAccount(k)'
    <3>1. k \in Nat /\ b \in Nat /\ BatchAccount(k)
      BY <1>1 DEF BatchInv
    <3>2. Saved(k)'
      BY <1>1, <3>1 DEF BatchAccount, Saved
    <3>3. entries[k] # <<>> => Started(k)' /\ Attempts(k)'
      BY <1>1, <3>1 DEF BatchAccount, Started, Attempts
    <3>4. k > b + 1 \/ k = b + 1 => entries[k] = <<>> /\ disk[k] = Absent
      BY <3>1 DEF BatchAccount
    <3>5. QED
      BY <1>1, <2>1, <3>2, <3>3, <3>4 DEF BatchAccount
  <2>4. RunAccount'
    BY <2>1 DEF RunAccount
  <2>5. QED
    BY <1>1, <2>2, <2>3, <2>4 DEF BatchInv
<1>4. CASE Startable
  <2>1. pc' = "next" /\ b' = b
    BY <1>4 DEF StartBatch
  <2>2. BatchTypeOK'
    BY <1>1, <2>1 DEF BatchInv, BatchTypeOK
  <2>3. Started(b)
    BY <1>4 DEF Startable, Started, opts
  <2>4. Len(Schedule(plan[b])) \in Nat
    BY <1>1, <2>3, ScheduleCovers DEF Started
  <2>5. Attempts(b)
    <3>1. Len(entries[b]) = 0 /\ 1..0 = {}
      BY <1>2
    <3>2. QED
      BY <2>4, <3>1 DEF Attempts
  <2>6. ASSUME NEW k \in DOMAIN plan PROVE BatchAccount(k)'
    <3>1. k \in Nat /\ b \in Nat /\ BatchAccount(k)
      BY <1>1 DEF BatchInv
    <3>2. Saved(k)'
      BY <1>1, <3>1 DEF BatchAccount, Saved
    <3>3. entries[k] # <<>> \/ k = b => Started(k)' /\ Attempts(k)'
      BY <1>1, <2>3, <2>5, <3>1 DEF BatchAccount, Started, Attempts
    <3>4. QED
      BY <1>1, <2>1, <3>1, <3>2, <3>3 DEF BatchAccount
  <2>7. RunAccount'
    BY <1>1, <1>2, <2>1 DEF RunAccount, Absent
  <2>8. QED
    BY <1>1, <2>2, <2>6, <2>7 DEF BatchInv
<1>5. QED
  BY <1>3, <1>4

(* Before the first batch nothing is written and nothing has been tried.   *)
LEMMA InitBatchAccount ==
  ASSUME BatchAssumption, Init
  PROVE  BatchInv
<1>1. plan \in Plans /\ plan \in Seq(Batch)
  BY DEF Init, BatchAssumption
<1>2. Len(plan) \in Nat /\ DOMAIN plan = 1..Len(plan)
  BY <1>1
<1>3. \A k \in DOMAIN plan : entries[k] = <<>> /\ disk[k] = Absent
  BY DEF Init
<1>4. BatchTypeOK
  BY <1>1, <1>2 DEF Init, BatchTypeOK
<1>5. ASSUME NEW k \in DOMAIN plan PROVE BatchAccount(k)
  <2>1. entries[k] = <<>> /\ disk[k] = Absent /\ pc = "idle"
    BY <1>3 DEF Init
  <2>2. disk[k].entries = <<>>
    BY <2>1 DEF Absent
  <2>3. Saved(k)
    <3>1. Len(entries[k]) = 0 /\ Len(disk[k].entries) = 0 /\ 1..0 = {}
          /\ disk[k].entries \in Seq(BatchEntry)
      BY <2>1, <2>2
    <3>2. QED
      BY <3>1 DEF Saved
  <2>4. QED
    BY <2>1, <2>3 DEF BatchAccount
<1>6. RunAccount
  BY DEF Init, RunAccount
<1>7. QED
  BY <1>4, <1>5, <1>6 DEF BatchInv

(* Opening the manifest makes it unreadable, closing it makes it complete. *)
LEMMA ManifestKeepsAccount ==
  ASSUME BatchAssumption, BatchInv, OpenManifest \/ CloseManifest
  PROVE  BatchInv'
<1>1. /\ b \in DOMAIN plan /\ pc \in {"saving", "finishing"} /\ DOMAIN disk = DOMAIN plan
      /\ entries[b] \in Seq(BatchEntry) /\ Len(entries[b]) \in Nat
      /\ plan' = plan /\ entries' = entries
  BY PlannedBatches DEF BatchInv, BatchTypeOK, OpenManifest, CloseManifest
<1>2. CASE OpenManifest
  <2>1. disk' = [disk EXCEPT ![b] = Torn] /\ b' = b /\ pc' = pc
    BY <1>2 DEF OpenManifest
  <2>2. disk'[b] = Torn
    BY <1>1, <2>1
  <2>3. Saved(b)' /\ RunAccount'
    BY <1>1, <2>1, <2>2 DEF Saved, RunAccount
  <2>4. QED
    BY <1>1, <2>1, <2>3, GoingOnKeepsAccount
<1>3. CASE CloseManifest
  <2>1. disk' = [disk EXCEPT ![b] = Manifest(pc = "finishing")]
    BY <1>3 DEF CloseManifest
  <2>2. disk'[b] = Manifest(pc = "finishing")
    BY <1>1, <2>1
  <2>3. disk'[b].entries = entries[b]
    BY <2>2 DEF Manifest
  <2>4. \A c : Saved(c)' <=> (disk'[c] # Torn =>
                  /\ disk'[c].entries \in Seq(BatchEntry)
                  /\ Len(disk'[c].entries) <= Len(entries[c])
                  /\ Len(entries[c]) <= Len(disk'[c].entries) + 1
                  /\ \A n \in 1..Len(disk'[c].entries) : disk'[c].entries[n] = entries[c][n])
    BY <1>1 DEF Saved
  <2>5. \A k \in DOMAIN plan : k = b => Saved(k)'
    BY <1>1, <2>3, <2>4
  <2>6. CASE EndBatch
    BY <1>1, <2>1, <2>5, <2>6, EndBatchKeepsAccount
  <2>7. CASE ~EndBatch
    <3>1. pc' = "next" /\ b' = b
      BY <1>3, <2>7 DEF CloseManifest, GoOn
    <3>2. RunAccount'
      BY <1>1, <2>3, <3>1 DEF RunAccount
    <3>3. Saved(b)'
      BY <1>1, <2>3, <3>1 DEF Saved
    <3>4. QED
      BY <1>1, <2>1, <3>1, <3>2, <3>3, GoingOnKeepsAccount
  <2>8. QED
    BY <2>6, <2>7
<1>4. QED
  BY <1>2, <1>3

(* Every step of a batch, crashes and stops included, keeps the account.   *)
LEMMA NextKeepsAccount ==
  ASSUME BatchAssumption, BatchInv, [Next]_vars
  PROVE  BatchInv'
<1>1. CASE StartBatch
  BY <1>1, StartBatchKeepsAccount
<1>2. CASE StartCase
  <2>1. /\ pc = "next" /\ pc' = "running" /\ Attempted < Len(Schedule(opts))
        /\ plan' = plan /\ b' = b /\ entries' = entries /\ disk' = disk
        /\ key' = RunKey(b, Current)
    BY <1>2 DEF StartCase, StartRun
  <2>2. Saved(b)
    BY <2>1 DEF BatchInv, BatchTypeOK, BatchAccount
  <2>3. Saved(b)' /\ RunAccount'
    BY <2>1, <2>2 DEF Saved, BatchInv, RunAccount, Attempted, Current, opts
  <2>4. QED
    BY <2>1, <2>3, GoingOnKeepsAccount
<1>3. CASE Running
  <2>1. key' = key /\ pc' = pc /\ pc = "running" /\ plan' = plan /\ b' = b
        /\ entries' = entries /\ disk' = disk
    BY <1>3, RunStepKeepsRun DEF Running, batchVars
  <2>2. QED
    BY <2>1 DEF BatchInv, BatchTypeOK, BatchAccount, Saved, Started, Attempts, RunAccount,
                Attempted, Current, opts
<1>4. CASE RunReturns \/ RunFails
  <2>1. pc \in {"next", "running"} /\ Attempted < Len(Schedule(opts))
    BY <1>4 DEF RunReturns, RunFails, BatchInv, RunAccount
  <2>2. CaseDone(Current, TRUE) \/ CaseDone(Current, FALSE)
    BY <1>4 DEF RunReturns, RunFails
  <2>3. TRUE \in BOOLEAN /\ FALSE \in BOOLEAN
    OBVIOUS
  <2>4. QED
    BY <2>1, <2>2, <2>3, CaseDoneKeepsAccount
<1>5. CASE OpenManifest \/ CloseManifest
  BY <1>5, ManifestKeepsAccount
<1>6. CASE AllAttempted \/ CompareAndFinish
  <2>1. /\ pc \in {"next", "aggregating"}
        /\ plan' = plan /\ entries' = entries /\ disk' = disk
    BY <1>6 DEF AllAttempted, CompareAndFinish
  <2>2. \A k \in DOMAIN plan : Saved(k)'
    BY <2>1 DEF BatchInv, BatchAccount, Saved
  <2>3. CASE EndBatch
    BY <2>1, <2>2, <2>3, EndBatchKeepsAccount
  <2>4. CASE ~EndBatch
    <3>1. b' = b /\ pc' \in {"aggregating", "finishing"}
      BY <1>6, <2>4 DEF AllAttempted, CompareAndFinish
    <3>2. Saved(b)' /\ RunAccount'
      <4>1. b \in DOMAIN plan
        BY <2>1 DEF BatchInv, BatchTypeOK
      <4>2. QED
        BY <2>1, <2>2, <3>1, <4>1 DEF RunAccount, Saved
    <3>3. QED
      BY <2>1, <3>1, <3>2, GoingOnKeepsAccount
  <2>5. QED
    BY <2>3, <2>4
<1>7. CASE Crash
  <2>1. pc # "idle" /\ EndBatch /\ plan' = plan /\ entries' = entries /\ disk' = disk
    BY <1>7 DEF Crash
  <2>2. \A k \in DOMAIN plan : Saved(k)'
    BY <2>1 DEF BatchInv, BatchAccount, Saved
  <2>3. QED
    BY <2>1, <2>2, EndBatchKeepsAccount
<1>8. CASE UNCHANGED vars
  BY <1>8 DEF vars, runVars, batchVars, BatchInv, BatchTypeOK, BatchAccount, Saved, Started,
              Attempts, RunAccount, Attempted, Current, opts
<1>9. QED
  BY <1>1, <1>2, <1>3, <1>4, <1>5, <1>6, <1>7, <1>8 DEF Next

(* In every history of batches, the manifests differ from the runs that    *)
(* were tried by the one that is being saved, at most.                     *)
THEOREM BatchesKeepAccount == Spec => []BatchInv
<1>1. Init => BatchInv
  BY InitBatchAccount, BatchAssumption
<1>2. BatchInv /\ [Next]_vars => BatchInv'
  BY NextKeepsAccount, BatchAssumption
<1>3. QED
  BY <1>1, <1>2, PTL DEF Spec

(* However a batch ends - by a crash at any point, by an error that stops  *)
(* it or by a comparison that raises - the manifest that can be read is    *)
(* what was attempted, but for the last run.                               *)
THEOREM OneRunUnsaved == Spec => []AtMostOneRunUnsaved
<1>1. BatchInv => AtMostOneRunUnsaved
  <2> SUFFICES ASSUME BatchInv, NEW k \in DOMAIN plan, disk[k] # Torn
      PROVE  /\ IsPrefix(disk[k].entries, entries[k])
             /\ Len(entries[k]) - Len(disk[k].entries) <= 1
    BY DEF AtMostOneRunUnsaved
  <2> DEFINE d == disk[k].entries
             e == entries[k]
             n == Len(d)
  <2>1. /\ d \in Seq(BatchEntry) /\ n <= Len(e) /\ Len(e) <= n + 1
        /\ \A i \in 1..n : d[i] = e[i]
    BY DEF BatchInv, BatchAccount, Saved
  <2>2. e \in Seq(BatchEntry) /\ Len(e) \in Nat
    BY PlannedBatches, BatchAssumption DEF BatchInv
  <2> HIDE DEF d, e
  <2>3. n \in Nat
    BY <2>1
  <2>4. SubSeq(d, 1, n) = SubSeq(e, 1, n)
    <3>1. SubSeq(d, 1, n) = [i \in 1..n |-> d[i]] /\ SubSeq(e, 1, n) = [i \in 1..n |-> e[i]]
      BY <2>1, <2>2, <2>3
    <3> HIDE DEF n
    <3>2. QED
      BY <2>1, <3>1
  <2>5. IsPrefix(d, e)
    BY <2>1, <2>4 DEF IsPrefix
  <2>6. Len(e) - n <= 1
    BY <2>1, <2>2, <2>3
  <2>7. QED
    BY <2>5, <2>6 DEF d, e
<1>2. QED
  BY <1>1, BatchesKeepAccount, PTL

-----------------------------------------------------------------------------
(* The transcript.                                                         *)

(* The pairs of a turn, joined, are the turn.                              *)
LEMMA PairsFlatten ==
  ASSUME NEW turn \in Seq(Message)
  PROVE  PairsOf(turn) \in Seq(Seq(Message)) /\ FlattenSeq(PairsOf(turn)) = turn
<1> DEFINE L == Len(turn)
           N == (L + 1) \div 2
           upto(k) == Min({2 * k, L})
           head(k) == SubSeq(turn, 1, upto(k))
           pair(k) == SubSeq(turn, 2 * k - 1, upto(k))
           p == PairsOf(turn)
           F == Seq(Message)
<1>1. /\ L \in Nat /\ N \in Nat /\ 2 * N <= L + 1 /\ L <= 2 * N
      /\ \A k \in 1..N : 2 * k \in Int /\ 2 * k - 1 \in 1..L
  OBVIOUS
<1>2. p = [k \in 1..N |-> pair(k)]
  BY DEF PairsOf
<1>3. ASSUME NEW k \in 0..N
      PROVE  upto(k) = IF 2 * k <= L THEN 2 * k ELSE L
  BY <1>1, MinOfTwo
<1>4. ASSUME NEW k \in 1..N
      PROVE  pair(k) \in F /\ head(k) = head(k - 1) \o pair(k)
  <2>1. k \in 0..N /\ k - 1 \in 0..N /\ 2 * k - 1 \in 1..L /\ 2 * (k - 1) + 1 = 2 * k - 1
    BY <1>1
  <2>2. upto(k) \in 1..L /\ 2 * k - 1 <= upto(k) /\ upto(k - 1) = 2 * (k - 1)
    <3>1. upto(k) = IF 2 * k <= L THEN 2 * k ELSE L
      BY <1>3, <2>1
    <3>2. upto(k - 1) = IF 2 * (k - 1) <= L THEN 2 * (k - 1) ELSE L
      BY <1>3, <2>1
    <3> HIDE DEF upto, L
    <3>3. 2 * (k - 1) = 2 * k - 2 /\ k \in Int /\ 1 <= 2 * k - 1 /\ 2 * k - 1 <= L
      BY <1>1, <2>1
    <3>4. QED
      BY <1>1, <3>1, <3>2, <3>3
  <2> DEFINE m == upto(k - 1) + 1
             n == upto(k)
  <2>3. m = 2 * k - 1 /\ m - 1 = upto(k - 1) /\ m \in 1..(L + 1) /\ n \in (m - 1)..L
    BY <1>1, <2>1, <2>2
  <2> HIDE DEF upto, m, n
  <2>4. SubSeq(turn, 1, m - 1) \o SubSeq(turn, m, n) = SubSeq(turn, 1, n)
    BY <1>1, <2>3, ConcatAdjacentSubSeq
  <2>5. SubSeq(turn, m, n) \in F
    BY <1>1, <2>3
  <2>6. QED
    BY <2>3, <2>4, <2>5 DEF n
<1>5. head(0) = <<>> /\ head(N) = turn
  <2>1. upto(0) = 0 /\ upto(N) = L
    BY <1>1, <1>3
  <2> HIDE DEF upto
  <2>2. SubSeq(turn, 1, 0) = <<>> /\ SubSeq(turn, 1, L) = turn
    OBVIOUS
  <2>3. QED
    BY <2>1, <2>2
<1> HIDE DEF L, N, upto, head, pair
<1>6. p \in Seq(F) /\ Len(p) = N /\ \A k \in 1..N : p[k] = pair(k)
  <2> HIDE DEF p, F
  <2>1. p \in [1..N -> F]
    BY <1>2, <1>4
  <2>2. QED
    BY <1>1, <1>2, <2>1
<1> HIDE DEF p
<1>7. PICK f : IsFlattening(f, Message, p)
  BY <1>6, FlattenSteps
<1>8. f[0] = <<>> /\ f[N] = FlattenSeq(p) /\ \A k \in 1..N : f[k] = f[k - 1] \o p[k]
  BY <1>6, <1>7 DEF IsFlattening
<1> DEFINE G == {k \in 0..N : f[k] = head(k)}
<1>9. 0 \in G
  BY <1>1, <1>5, <1>8
<1>10. ASSUME NEW k \in 1..N, k - 1 \in G PROVE k \in G
  <2>1. f[k] = head(k - 1) \o pair(k)
    BY <1>6, <1>8, <1>10
  <2>2. k \in 0..N
    BY <1>1
  <2>3. QED
    BY <1>4, <2>1, <2>2
<1> HIDE DEF G
<1>11. \A k \in 0..N : k \in G
  BY <1>1, <1>9, <1>10, Induction
<1>12. N \in G
  BY <1>1, <1>11
<1>13. QED
  BY <1>5, <1>6, <1>8, <1>12 DEF G, p

(* The messages that _usable_messages keeps: of user or assistant, and     *)
(* not blank.                                                              *)
Usables == {m \in Message : Usable(m)}

(* The messages _usable_messages keeps, as a filter of a sequence.         *)
LEMMA UsableIsKept ==
  ASSUME NEW s \in Seq(Message)
  PROVE  UsableOf(s) = Keep(s, Usables) /\ UsableOf(s) \in Seq(Message)
<1>1. ASSUME NEW x \in ToSet(s)
      PROVE  x \in {m \in ToSet(s) : Usable(m)} <=> x \in Usables
  <2>1. x \in Message
    BY DEF ToSet
  <2>2. QED
    BY <2>1 DEF Usables
<1>2. Keep(s, {m \in ToSet(s) : Usable(m)}) = Keep(s, Usables)
  BY <1>1, KeepAgrees
<1>3. QED
  BY <1>2, KeepSublist DEF UsableOf

(* All pairs of the chat, joined, are the chat.                            *)
LEMMA PairsAreTurns ==
  ASSUME BeamRunAssumption
  PROVE  /\ Chat \in Seq(Seq(Message)) /\ FlattenSeq(Chat) \in Seq(Message)
         /\ AllPairs \in Seq(Seq(Message)) /\ FlattenSeq(AllPairs) = FlattenSeq(Chat)
<1> DEFINE F == Seq(Message)
           pairs == [t \in DOMAIN Chat |-> PairsOf(Chat[t])]
<1>1. Chat \in Seq(F) /\ Len(Chat) \in Nat /\ DOMAIN Chat = 1..Len(Chat)
      /\ \A t \in 1..Len(Chat) : Chat[t] \in F
  <2>1. Chat \in Seq(F)
    BY DEF BeamRunAssumption
  <2> HIDE DEF F
  <2>2. QED
    BY <2>1
<1>2. \A t \in 1..Len(Chat) : PairsOf(Chat[t]) \in Seq(F) /\ FlattenSeq(PairsOf(Chat[t])) = Chat[t]
  BY <1>1, PairsFlatten
<1>3. /\ pairs \in Seq(Seq(F)) /\ Len(pairs) = Len(Chat)
      /\ \A t \in 1..Len(Chat) : pairs[t] = PairsOf(Chat[t])
  <2> HIDE DEF F
  <2> DEFINE FF == Seq(F)
  <2>1. pairs = [t \in 1..Len(Chat) |-> PairsOf(Chat[t])]
    BY <1>1
  <2>2. pairs \in [1..Len(Chat) -> FF]
    BY <1>2, <2>1
  <2> HIDE DEF FF
  <2>3. pairs \in Seq(FF) /\ Len(pairs) = Len(Chat)
    BY <1>1, <2>1, <2>2
  <2>4. QED
    BY <2>1, <2>3 DEF FF
<1>4. AllPairs = FlattenSeq(pairs)
  BY DEF AllPairs
<1> HIDE DEF pairs
<1>5. AllPairs \in Seq(F) /\ FlattenSeq(AllPairs) = FlattenSeq(Chat)
  <2>1. Len(Chat) = Len(pairs) /\ \A t \in 1..Len(pairs) : Chat[t] = FlattenSeq(pairs[t])
    BY <1>1, <1>2, <1>3
  <2>2. pairs \in Seq(Seq(Seq(Message))) /\ Chat \in Seq(Seq(Message))
    BY <1>1, <1>3
  <2>3. FlattenSeq(pairs) \in Seq(Seq(Message))
        /\ FlattenSeq(FlattenSeq(pairs)) = FlattenSeq(Chat)
    BY <2>1, <2>2, FlattenLevels
  <2>4. QED
    BY <1>4, <2>3
<1>6. FlattenSeq(Chat) \in Seq(Message)
  <2>1. <<>> \in Seq(Message)
    OBVIOUS
  <2>2. QED
    BY <1>1, <2>1, FlattenAppend
<1>7. QED
  BY <1>1, <1>5, <1>6

(* What is fed is the transcript: every message with text that the user or *)
(* the assistant wrote, in order, whatever the pairs.                      *)
LEMMA BatchesAreTranscript ==
  ASSUME BeamRunAssumption
  PROVE  /\ MessageBatches \in Seq(Seq(Message))
         /\ FlattenSeq(MessageBatches) = UsableOf(FlattenSeq(Chat))
<1> DEFINE F == Seq(Message)
           used == [k \in DOMAIN AllPairs |-> UsableOf(AllPairs[k])]
           U == ToSet(used) \ {<<>>}
<1>1. AllPairs \in Seq(F) /\ FlattenSeq(AllPairs) = FlattenSeq(Chat)
  BY PairsAreTurns
<1>2. /\ used \in Seq(F) /\ Len(used) = Len(AllPairs)
      /\ \A k \in 1..Len(AllPairs) : used[k] = Keep(AllPairs[k], Usables)
  <2>1. \A k \in 1..Len(AllPairs) : /\ UsableOf(AllPairs[k]) = Keep(AllPairs[k], Usables)
                                    /\ UsableOf(AllPairs[k]) \in F
    <3>1. \A k \in 1..Len(AllPairs) : AllPairs[k] \in F
      <4> HIDE DEF F
      <4>1. QED
        BY <1>1
    <3>2. QED
      BY <3>1, UsableIsKept
  <2> HIDE DEF F
  <2>2. Len(AllPairs) \in Nat /\ DOMAIN AllPairs = 1..Len(AllPairs)
    BY <1>1
  <2>3. used \in [1..Len(AllPairs) -> F]
    BY <2>1, <2>2
  <2>4. QED
    BY <2>1, <2>2, <2>3
<1>3. MessageBatches = Keep(used, U)
  BY DEF MessageBatches
<1> HIDE DEF used
<1>4. Keep(FlattenSeq(AllPairs), Usables) = FlattenSeq(used)
  BY <1>1, <1>2, KeepFlatten
<1>5. \A x \in ToSet(used) : x \notin U => x = <<>>
  OBVIOUS
<1> HIDE DEF U
<1>6. FlattenSeq(Keep(used, U)) = FlattenSeq(used)
  BY <1>2, <1>5, FlattenNonEmpty
<1>7. MessageBatches \in Seq(F)
  BY <1>2, <1>3, KeepSublist
<1>8. FlattenSeq(Chat) \in Seq(Message)
  BY PairsAreTurns
<1>9. UsableOf(FlattenSeq(Chat)) = Keep(FlattenSeq(Chat), Usables)
  BY <1>8, UsableIsKept
<1>10. QED
  BY <1>1, <1>3, <1>4, <1>6, <1>7, <1>9

(* The messages of the first n batches of the chat, in their order.        *)
FedSoFar(n) == FlattenSeq(SubSeq(MessageBatches, 1, n))

(* What was told to the memory and the tail that is still active, in this  *)
(* order, are the usable messages of the chat.                             *)
SplitsTranscript(told, tail) ==
  told \in Seq(Message) /\ tail \in Seq(Message) /\ told \o tail = UsableOf(FlattenSeq(Chat))

(* While the chat is fed, what was recorded and what is active make up     *)
(* what was fed; later, and in every snapshot file, the whole transcript.  *)
TranscriptInv ==
  /\ phase \in {"off", "restore", "ingest", "snapshot", "snapshotting", "answer", "written"}
  /\ phase \in {"off", "restore"} => fed = 0 /\ recorded = <<>> /\ active = <<>>
  /\ phase = "ingest" => /\ fed \in 0..Len(MessageBatches)
                         /\ recorded \in Seq(Message) /\ active \in Seq(Message)
                         /\ recorded \o active = FedSoFar(fed)
  /\ phase \in {"snapshot", "snapshotting"} => args.runner # "baseline"
  /\ phase \in {"snapshot", "snapshotting", "answer", "written"} /\ args.runner # "baseline" =>
       fed = Len(MessageBatches) /\ SplitsTranscript(recorded, active)
  /\ \A f \in DOMAIN snapshots : snapshots[f] # Torn =>
       SplitsTranscript(snapshots[f].recorded, snapshots[f].active)

(* Feeding one more batch.                                                 *)
LEMMA FedNext ==
  ASSUME BeamRunAssumption
  PROVE  /\ MessageBatches \in Seq(Seq(Message)) /\ Len(MessageBatches) \in Nat
         /\ FedSoFar(0) = <<>>
         /\ FedSoFar(Len(MessageBatches)) = UsableOf(FlattenSeq(Chat))
         /\ \A n \in 0..(Len(MessageBatches) - 1) :
              /\ MessageBatches[n + 1] \in Seq(Message)
              /\ FedSoFar(n + 1) = FedSoFar(n) \o MessageBatches[n + 1]
<1> DEFINE M == MessageBatches
           F == Seq(Message)
<1>1. M \in Seq(F) /\ FlattenSeq(M) = UsableOf(FlattenSeq(Chat))
  BY BatchesAreTranscript
<1> HIDE DEF M, F
<1>2. /\ Len(M) \in Nat /\ SubSeq(M, 1, Len(M)) = M /\ SubSeq(M, 1, 0) = <<>>
      /\ \A n \in 0..(Len(M) - 1) : /\ M[n + 1] \in F /\ SubSeq(M, 1, n) \in Seq(F)
                                    /\ SubSeq(M, 1, n + 1) = Append(SubSeq(M, 1, n), M[n + 1])
  BY <1>1
<1>3. FlattenSeq(<<>>) = <<>>
  <2>1. <<>> \in Seq(Seq(Message))
    OBVIOUS
  <2>2. QED
    BY <2>1, FlattenConcat
<1>4. ASSUME NEW n \in 0..(Len(M) - 1)
      PROVE  FlattenSeq(SubSeq(M, 1, n + 1)) = FlattenSeq(SubSeq(M, 1, n)) \o M[n + 1]
  <2>1. SubSeq(M, 1, n) \in Seq(Seq(Message)) /\ M[n + 1] \in Seq(Message)
    BY <1>2 DEF F
  <2>2. FlattenSeq(Append(SubSeq(M, 1, n), M[n + 1])) = FlattenSeq(SubSeq(M, 1, n)) \o M[n + 1]
    BY <2>1, FlattenAppend
  <2>3. QED
    BY <1>2, <2>2
<1>5. QED
  BY <1>1, <1>2, <1>3, <1>4 DEF M, F, FedSoFar

(* The middleware loses nothing: what it evicts is recorded.               *)
LEMMA ProcessSplits ==
  ASSUME BeamRunAssumption, recorded \in Seq(Message),
         NEW messages \in Seq(Message), NEW squeeze, Process(messages, squeeze)
  PROVE  /\ recorded' \in Seq(Message) /\ active' \in Seq(Message)
         /\ recorded' \o active' = recorded \o messages
<1> DEFINE L == Len(messages)
           most == L - KeepMessages
           K == {n \in 1..most : squeeze => n = most}
<1>1. PICK update \in BeforeModel(messages, squeeze) :
        /\ active' = ApplyMessageUpdate(messages, update)
        /\ recorded' = recorded \o
             IF update.clear THEN SubSeq(messages, 1, Len(messages) - Len(update.messages))
             ELSE <<>>
  BY DEF Process
<1>2. CASE update = NoUpdate
  <2>1. active' = messages \o <<>> /\ recorded' = recorded \o <<>>
    BY <1>1, <1>2 DEF NoUpdate, ApplyMessageUpdate
  <2>2. active' = messages /\ recorded' = recorded
    BY <2>1, ConcatEmptySeq
  <2>3. QED
    BY <2>2
<1>3. CASE update # NoUpdate
  <2>1. PICK k \in K : update = [clear |-> TRUE, messages |-> SubSeq(messages, k + 1, L)]
    BY <1>1, <1>3 DEF BeforeModel
  <2>2. L \in Nat /\ k \in 1..L
    BY <2>1 DEF BeamRunAssumption
  <2> HIDE DEF K
  <2>3. update.clear = TRUE /\ update.messages = SubSeq(messages, k + 1, L)
    BY <2>1
  <2>4. Len(update.messages) = L - k
    BY <2>2, <2>3
  <2>5. L - (L - k) = k
    BY <2>2
  <2>6. active' = SubSeq(messages, k + 1, L) /\ recorded' = recorded \o SubSeq(messages, 1, k)
    BY <1>1, <2>3, <2>4, <2>5 DEF ApplyMessageUpdate
  <2> DEFINE p == SubSeq(messages, 1, k)
             q == SubSeq(messages, k + 1, L)
  <2>7. p \o q = messages
    <3>1. 1 \in 1..(L + 1) /\ k \in (1 - 1)..L /\ L \in k..L
      BY <2>2
    <3>2. p \o q = SubSeq(messages, 1, L)
      BY <3>1, ConcatAdjacentSubSeq
    <3>3. SubSeq(messages, 1, L) = messages
      OBVIOUS
    <3> HIDE DEF p, q
    <3>4. QED
      BY <3>2, <3>3
  <2>8. p \in Seq(Message) /\ q \in Seq(Message)
    BY <2>2
  <2> HIDE DEF p, q, L
  <2>9. (recorded \o p) \o q = recorded \o (p \o q)
    BY <2>8, ConcatAssociative, SMTT(20)
  <2>10. recorded \o p \in Seq(Message)
    BY <2>8
  <2>11. QED
    BY <2>6, <2>7, <2>8, <2>9, <2>10 DEF p, q
<1>4. QED
  BY <1>2, <1>3

(* Feeding a batch, and the flush after the last one, move the split and   *)
(* neither lose nor reorder a message: before_model evicts a prefix of     *)
(* what is active.                                                         *)
LEMMA IngestSplits ==
  ASSUME BeamRunAssumption, TranscriptInv, NEW runner \in {"standard", "deepagent"},
         FeedNext(runner) \/ FlushFinal(runner)
  PROVE  TranscriptInv'
<1>1. /\ phase = "ingest" /\ args.runner = runner /\ runner # "baseline"
      /\ fed \in 0..Len(MessageBatches)
      /\ recorded \in Seq(Message) /\ active \in Seq(Message)
      /\ recorded \o active = FedSoFar(fed)
      /\ args' = args /\ snapshots' = snapshots
  BY DEF TranscriptInv, FeedNext, FlushFinal
<1>2. \A f \in DOMAIN snapshots' : snapshots'[f] # Torn =>
         SplitsTranscript(snapshots'[f].recorded, snapshots'[f].active)
  BY <1>1 DEF TranscriptInv
<1>3. CASE FeedNext(runner)
  <2> DEFINE x == MessageBatches[fed + 1]
  <2>1. /\ fed \in 0..(Len(MessageBatches) - 1) /\ fed' = fed + 1 /\ phase' = "ingest"
        /\ Process(active \o x, FALSE)
    <3>1. /\ fed < Len(MessageBatches) /\ fed' = fed + 1 /\ phase' = phase
          /\ Process(active \o x, FALSE)
      BY <1>3 DEF FeedNext
    <3>2. Len(MessageBatches) \in Nat
      BY FedNext
    <3>3. fed \in 0..(Len(MessageBatches) - 1)
      BY <1>1, <3>1, <3>2
    <3> HIDE DEF x
    <3>4. QED
      BY <1>1, <3>1, <3>3
  <2>2. x \in Seq(Message) /\ FedSoFar(fed + 1) = FedSoFar(fed) \o x
    BY <2>1, FedNext
  <2> HIDE DEF x
  <2>3. active \o x \in Seq(Message)
    BY <1>1, <2>2
  <2>4. /\ recorded' \in Seq(Message) /\ active' \in Seq(Message)
        /\ recorded' \o active' = recorded \o (active \o x)
    BY <1>1, <2>1, <2>3, ProcessSplits
  <2>5. recorded \o (active \o x) = (recorded \o active) \o x
    <3>1. recorded \in Seq(Message) /\ active \in Seq(Message) /\ x \in Seq(Message)
      BY <1>1, <2>2
    <3> DEFINE F == Message
    <3> HIDE DEF F
    <3>2. recorded \in Seq(F) /\ active \in Seq(F) /\ x \in Seq(F)
      BY <3>1 DEF F
    <3>3. QED
      BY <3>2, JoinedTwice
  <2>6. recorded' \o active' = FedSoFar(fed')
    BY <1>1, <2>1, <2>2, <2>4, <2>5
  <2>7. fed' \in 0..Len(MessageBatches)
    BY <2>1, FedNext
  <2>8. FedSoFar(fed') = FlattenSeq(SubSeq(MessageBatches, 1, fed'))
    BY DEF FedSoFar
  <2>9. QED
    BY <1>2, <2>1, <2>4, <2>6, <2>7, <2>8 DEF TranscriptInv, FedSoFar
<1>4. CASE FlushFinal(runner)
  <2>1. /\ fed = Len(MessageBatches) /\ fed' = fed
        /\ phase' = IF args.runner = "standard" THEN "snapshot" ELSE "answer"
    BY <1>4 DEF FlushFinal, AfterIngest
  <2>2. recorded \o active = UsableOf(FlattenSeq(Chat))
    BY <1>1, <2>1, FedNext
  <2>3. /\ recorded' \in Seq(Message) /\ active' \in Seq(Message)
        /\ recorded' \o active' = recorded \o active
    <3>1. CASE Process(active, TRUE)
      BY <1>1, <3>1, ProcessSplits
    <3>2. CASE UNCHANGED <<recorded, active>>
      BY <1>1, <3>2
    <3>3. QED
      BY <1>4, <3>1, <3>2 DEF FlushFinal
  <2>4. SplitsTranscript(recorded', active')
    BY <2>2, <2>3 DEF SplitsTranscript
  <2>5. phase' \in {"snapshot", "answer"} /\ args'.runner # "baseline"
    BY <1>1, <2>1
  <2>6. QED
    BY <1>2, <2>1, <2>4, <2>5 DEF TranscriptInv
<1>5. QED
  BY <1>3, <1>4

(* What a snapshot file holds when it can be read is the whole transcript. *)
LEMMA SnapshotSplits ==
  ASSUME BeamRunAssumption, TranscriptInv, OpenSnapshot \/ CloseSnapshot
  PROVE  TranscriptInv'
<1>1. /\ phase \in {"snapshot", "snapshotting"} /\ phase' \in {"snapshotting", "answer"}
      /\ args.runner # "baseline" /\ fed = Len(MessageBatches)
      /\ SplitsTranscript(recorded, active)
      /\ fed' = fed /\ recorded' = recorded /\ active' = active /\ args' = args
  BY DEF TranscriptInv, OpenSnapshot, CloseSnapshot, local
<1>2. ASSUME NEW f \in DOMAIN snapshots', snapshots'[f] # Torn
      PROVE  SplitsTranscript(snapshots'[f].recorded, snapshots'[f].active)
  <2>1. CASE OpenSnapshot
    <3>1. snapshots' = [g \in DOMAIN snapshots \cup {key} |->
                          IF g = key THEN Torn ELSE snapshots[g]]
      BY <2>1 DEF OpenSnapshot, Written
    <3>2. f # key /\ f \in DOMAIN snapshots /\ snapshots'[f] = snapshots[f]
      BY <1>2, <3>1
    <3>3. QED
      BY <1>2, <3>2 DEF TranscriptInv
  <2>2. CASE CloseSnapshot
    <3> DEFINE new == [profile |-> args.profile, recorded |-> recorded, active |-> active]
    <3>1. snapshots' = [snapshots EXCEPT ![key] = new]
      BY <2>2 DEF CloseSnapshot
    <3>2. new.recorded = recorded /\ new.active = active
      OBVIOUS
    <3> HIDE DEF new
    <3>3. f \in DOMAIN snapshots /\ (f # key => snapshots'[f] = snapshots[f])
          /\ (f = key => snapshots'[f] = new)
      BY <3>1
    <3>4. QED
      BY <1>1, <1>2, <3>2, <3>3 DEF TranscriptInv
  <2>3. QED
    BY <2>1, <2>2
<1>3. SplitsTranscript(recorded', active')
  BY <1>1
<1>4. QED
  BY <1>1, <1>2, <1>3 DEF TranscriptInv

(* Every other step of a run leaves the split alone, or takes one over     *)
(* from a snapshot that has it.                                            *)
LEMMA RunStepSplits ==
  ASSUME BeamRunAssumption, TranscriptInv, RunStep
  PROVE  TranscriptInv'
<1>1. CASE Restore
  <2> DEFINE snapshot == snapshots[args.source]
  <2>1. /\ args.source \in DOMAIN snapshots /\ snapshot # Torn
        /\ recorded' = snapshot.recorded /\ active' = snapshot.active
        /\ fed' = Len(MessageBatches) /\ phase' = "answer" /\ snapshots' = snapshots
        /\ args' = args
    BY <1>1 DEF Restore
  <2>2. SplitsTranscript(recorded', active')
    BY <2>1 DEF TranscriptInv
  <2>3. QED
    BY <2>1, <2>2 DEF TranscriptInv
<1>2. CASE IngestPair \/ AgentIngestPair \/ EndIngest \/ AgentEndIngest
  BY <1>2, IngestSplits DEF IngestPair, AgentIngestPair, EndIngest, AgentEndIngest
<1>3. CASE OpenSnapshot \/ CloseSnapshot
  BY <1>3, SnapshotSplits
<1>4. CASE \/ AnswerQuestion \/ AskAgent \/ AnswerFromPairs \/ CloseType
           \/ WriteResults \/ WriteAgentResults \/ WriteBaselineResults
  <2>1. /\ phase = "answer" /\ phase' \in {"answer", "written"} /\ args' = args
        /\ fed' = fed /\ recorded' = recorded /\ active' = active /\ snapshots' = snapshots
    BY <1>4 DEF AnswerQuestion, AskAgent, AnswerFromPairs, Ask, CloseType,
                WriteResults, WriteAgentResults, WriteBaselineResults, Write, local
  <2>2. QED
    BY <2>1 DEF TranscriptInv, SplitsTranscript
<1>5. QED
  BY <1>1, <1>2, <1>3, <1>4 DEF RunStep

(* Between two runs nothing is in memory.                                  *)
LEMMA ClearRunSplits ==
  ASSUME TranscriptInv, ClearRun, snapshots' = snapshots
  PROVE  TranscriptInv'
<1>1. phase' = "off" /\ fed' = 0 /\ recorded' = <<>> /\ active' = <<>>
  BY DEF ClearRun
<1>2. QED
  BY <1>1 DEF TranscriptInv, SplitsTranscript

(* In every history of batches, the memory, the tail and every snapshot    *)
(* split what was fed.                                                     *)
THEOREM TranscriptIsKept == Spec => []TranscriptInv
<1>1. Init => TranscriptInv
  <2> SUFFICES ASSUME Init PROVE TranscriptInv
    OBVIOUS
  <2>1. phase = "off" /\ fed = 0 /\ recorded = <<>> /\ active = <<>> /\ snapshots = <<>>
    BY DEF Init, RunInit
  <2>2. DOMAIN snapshots = {}
    BY <2>1
  <2>3. QED
    BY <2>1, <2>2 DEF TranscriptInv
<1>2. TranscriptInv /\ [Next]_vars => TranscriptInv'
  <2> SUFFICES ASSUME TranscriptInv, [Next]_vars PROVE TranscriptInv'
    OBVIOUS
  <2>1. CASE Running
    BY <2>1, RunStepSplits, BeamRunAssumption DEF Running
  <2>2. CASE RunReturns \/ RunFails \/ Crash
    <3>1. ClearRun /\ snapshots' = snapshots
      BY <2>2 DEF RunReturns, RunFails, Crash, CaseDone
    <3>2. QED
      BY <3>1, ClearRunSplits
  <2>3. CASE StartCase
    <3>1. PICK runArgs, runKey : StartRun(runArgs, runKey)
      BY <2>3 DEF StartCase
    <3>2. /\ phase = "off" /\ phase' = IF runArgs.runner = "baseline" THEN "answer"
                                       ELSE IF runArgs.source # Nothing THEN "restore" ELSE "ingest"
          /\ args' = runArgs /\ snapshots' = snapshots
          /\ fed' = fed /\ recorded' = recorded /\ active' = active
      BY <3>1 DEF StartRun, local
    <3>3. fed = 0 /\ recorded = <<>> /\ active = <<>>
      BY <3>2 DEF TranscriptInv
    <3>4. /\ 0 \in 0..Len(MessageBatches) /\ <<>> \in Seq(Message)
          /\ <<>> \o <<>> = <<>> /\ FedSoFar(0) = <<>>
      BY FedNext, BeamRunAssumption
    <3>5. FedSoFar(0)' = <<>>
      BY <3>4 DEF FedSoFar
    <3>6. phase' = "ingest" => /\ fed' \in 0..Len(MessageBatches)
                               /\ recorded' \in Seq(Message) /\ active' \in Seq(Message)
                               /\ recorded' \o active' = FedSoFar(fed)'
      BY <3>2, <3>3, <3>4, <3>5 DEF FedSoFar
    <3>7. QED
      BY <3>2, <3>3, <3>6 DEF TranscriptInv, SplitsTranscript
  <2>4. CASE UNCHANGED runVars
    BY <2>4 DEF runVars, local, TranscriptInv, SplitsTranscript, FedSoFar
  <2>5. QED
    BY <2>1, <2>2, <2>3, <2>4 DEF Next, vars, StartBatch, OpenManifest, CloseManifest,
          AllAttempted, CompareAndFinish
<1>3. QED
  BY <1>1, <1>2, PTL DEF Spec

(* Whatever the middleware evicts and whenever, and whether the run fed    *)
(* the chat itself or restored a snapshot, memory and tail together are    *)
(* the transcript, each message once and in order.                         *)
THEOREM NothingOfTheChatIsLost == Spec => []TranscriptSplit
<1>1. TranscriptInv => TranscriptSplit
  <2> SUFFICES ASSUME TranscriptInv, phase # "off", args.runner # "baseline", phase # "restore"
      PROVE  recorded \o active = Transcript
    BY DEF TranscriptSplit
  <2>1. CASE phase = "ingest"
    <3>1. recorded \o active = FedSoFar(fed) /\ fed \in 0..Len(MessageBatches)
      BY <2>1 DEF TranscriptInv
    <3>2. fed = Len(MessageBatches) => FedSoFar(fed) = UsableOf(FlattenSeq(Chat))
      BY FedNext, BeamRunAssumption
    <3>3. QED
      BY <3>1, <3>2 DEF Transcript, FedSoFar
  <2>2. CASE phase # "ingest"
    BY <2>2 DEF TranscriptInv, SplitsTranscript, Transcript
  <2>3. QED
    BY <2>1, <2>2
<1>2. QED
  BY <1>1, TranscriptIsKept, PTL

-----------------------------------------------------------------------------
(* Scores.                                                                 *)

(* h holds the running totals of s.                                        *)
IsTotal(h, s) ==
  /\ h \in [0..Len(s) -> Nat]
  /\ h[0] = 0 /\ h[Len(s)] = Total(s)
  /\ \A k \in 1..Len(s) : h[k] = h[k - 1] + s[k]

(* sum() adds from the left.                                               *)
LEMMA TotalSteps ==
  ASSUME NEW s \in Seq(Nat)
  PROVE  \E h : IsTotal(h, s)
<1> DEFINE N == Len(s)
           R == Nat
           base == 0
           Body(sum, x) == sum + x
           step == [p \in R \X (1..N) |-> Body(p[1], s[p[2]])]
           Eq(g) == g = [t \in SUBSET DOMAIN s |->
                           IF t = {} THEN base ELSE Body(g[t \ {Max(t)}], s[Max(t)])]
           g == CHOOSE f : Eq(f)
<1>1. N \in Nat /\ DOMAIN s = 1..N
  OBVIOUS
<1>2. base \in R
  OBVIOUS
<1>3. \A r \in R, k \in 1..N : Body(r, s[k]) \in R
  OBVIOUS
<1>4. Total(s) = g[DOMAIN s]
  BY DEF Total, FoldLeft, MapThenFoldSet
<1> HIDE DEF R, base, N, Body, g
<1>5. IsStep(step, R, N)
  BY <1>3 DEF IsStep
<1>6. \A r \in R, k \in 1..N : step[<<r, k>>] = Body(r, s[k])
  OBVIOUS
<1> HIDE DEF step
<1>7. Recurses(g, R, base, N, step)
  <2>1. PICK f : f \in [SUBSET (1..N) -> R] /\ Recurses(f, R, base, N, step)
    BY <1>1, <1>2, <1>5, SubsetRecursion
  <2>2. \A t \in SUBSET (1..N) : t # {} => /\ Max(t) \in 1..N
                                           /\ t \ {Max(t)} \in SUBSET (1..N)
    BY <1>1, MaxOfInterval
  <2>3. Eq(f)
    BY <1>1, <1>6, <2>1, <2>2 DEF Recurses
  <2>4. Eq(g)
    BY <2>3 DEF g
  <2>5. QED
    BY <1>1, <1>6, <2>2, <2>4 DEF Recurses
<1>8. PICK h : IsTable(h, R, base, N, step) /\ h[N] = g[1..N]
  BY <1>1, <1>2, <1>5, <1>7, FoldTable
<1>9. \A k \in 1..N : h[k] = Body(h[k - 1], s[k])
  <2> TAKE k \in 1..N
  <2>1. h[k - 1] \in R
    BY <1>1, <1>8 DEF IsTable
  <2>2. QED
    BY <1>6, <1>8, <2>1 DEF IsTable
<1>10. QED
  BY <1>1, <1>4, <1>8, <1>9 DEF IsTable, IsTotal, N, R, base, Body

(* The total of nothing, and of one more number.                           *)
LEMMA TotalAppend ==
  /\ Total(<<>>) = 0
  /\ \A s \in Seq(Nat), x \in Nat : /\ Total(s) \in Nat
                                    /\ Total(Append(s, x)) = Total(s) + x
<1>1. Total(<<>>) = 0
  <2>1. <<>> \in Seq(Nat) /\ Len(<<>>) = 0
    OBVIOUS
  <2>2. PICK h : IsTotal(h, <<>>)
    BY <2>1, TotalSteps
  <2>3. QED
    BY <2>1, <2>2 DEF IsTotal
<1>2. ASSUME NEW s \in Seq(Nat), NEW x \in Nat
      PROVE  Total(s) \in Nat /\ Total(Append(s, x)) = Total(s) + x
  <2> DEFINE t == Append(s, x)
             n == Len(s)
  <2>1. /\ t \in Seq(Nat) /\ n \in Nat /\ Len(t) = n + 1 /\ t[n + 1] = x
        /\ \A k \in 1..n : t[k] = s[k]
    BY AppendProperties
  <2> HIDE DEF t
  <2>2. PICK f : IsTotal(f, s)
    BY TotalSteps
  <2>3. PICK g : IsTotal(g, t)
    BY <2>1, TotalSteps
  <2> DEFINE G == {k \in 0..n : f[k] = g[k]}
  <2>4. 0 \in G
    BY <2>1, <2>2, <2>3 DEF IsTotal
  <2>5. ASSUME NEW k \in 1..n, k - 1 \in G PROVE k \in G
    <3>1. k \in 1..Len(s) /\ k \in 1..Len(t) /\ f[k - 1] = g[k - 1] /\ k \in 0..n /\ t[k] = s[k]
      BY <2>1, <2>5
    <3>2. QED
      BY <2>2, <2>3, <3>1 DEF IsTotal
  <2> HIDE DEF G
  <2>6. \A k \in 0..n : k \in G
    BY <2>1, <2>4, <2>5, Induction
  <2>7. f[n] = g[n]
    BY <2>1, <2>6 DEF G
  <2>8. f[n] = Total(s) /\ g[n + 1] = Total(t) /\ f[n] \in Nat
    <3>1. f[n] = Total(s) /\ f \in [0..n -> Nat]
      BY <2>2 DEF IsTotal
    <3>2. g[n + 1] = Total(t)
      BY <2>1, <2>3 DEF IsTotal
    <3> HIDE DEF n
    <3>3. n \in 0..n
      BY <2>1
    <3>4. QED
      BY <3>1, <3>2, <3>3
  <2>9. n + 1 \in 1..Len(t) /\ (n + 1) - 1 = n
    BY <2>1
  <2>10. g[n + 1] = g[n] + x
    BY <2>1, <2>3, <2>9 DEF IsTotal
  <2>11. QED
    BY <2>7, <2>8, <2>10 DEF t
<1>3. QED
  BY <1>1, <1>2

(* A mean is no more than the greatest number.                             *)
LEMMA MeanIsBounded ==
  ASSUME NEW F \in Nat, NEW a \in Nat, NEW n \in Nat, n # 0, a <= F * n
  PROVE  a \div n \in 0..F
  OBVIOUS

(* A mean of scores is a score.                                            *)
LEMMA MeanIsScore ==
  ASSUME BeamRunAssumption, NEW s \in Seq(Score)
  PROVE  /\ Total(s) \in Nat
         /\ Len(s) # 0 => Total(s) \div Len(s) \in Score
<1> DEFINE T == {r \in Seq(Score) : Total(r) \in Nat /\ Total(r) <= Full * Len(r)}
<1>1. Full \in Nat /\ Score = 0..Full
  BY DEF BeamRunAssumption, Score
<1>2. <<>> \in T
  <2>1. <<>> \in Seq(Score) /\ Len(<<>>) = 0 /\ Full * 0 = 0
    BY <1>1
  <2>2. QED
    BY <2>1, TotalAppend
<1>3. ASSUME NEW r \in Seq(Score), NEW x \in Score, r \in T
      PROVE  Append(r, x) \in T
  <2>1. r \in Seq(Nat) /\ x \in Nat /\ x <= Full /\ Len(r) \in Nat
        /\ Append(r, x) \in Seq(Score) /\ Len(Append(r, x)) = Len(r) + 1
    BY <1>1
  <2>2. Total(r) \in Nat /\ Total(r) <= Full * Len(r)
    BY <1>3
  <2>3. Total(Append(r, x)) = Total(r) + x
    BY <2>1, TotalAppend
  <2>4. Full * (Len(r) + 1) = Full * Len(r) + Full /\ Full * Len(r) \in Nat
    BY <1>1, <2>1
  <2> DEFINE a == Full * Len(r)
             c == Full * (Len(r) + 1)
  <2>5. a \in Nat /\ c = a + Full /\ Total(r) <= a
    BY <2>2, <2>4
  <2> HIDE DEF a, c
  <2>6. Total(Append(r, x)) \in Nat /\ Total(Append(r, x)) <= c
    BY <1>1, <2>1, <2>2, <2>3, <2>5
  <2>7. QED
    BY <2>1, <2>6 DEF c
<1> HIDE DEF T
<1>4. s \in T
  BY <1>2, <1>3, SequenceInduction
<1>5. Total(s) \in Nat /\ Total(s) <= Full * Len(s) /\ Len(s) \in Nat
  BY <1>4 DEF T
<1>6. QED
  BY <1>1, <1>5, MeanIsBounded

(* A reply to one rubric line is read as a score.                          *)
LEMMA CheckScoreIsScore ==
  ASSUME BeamRunAssumption, NEW r \in JudgeReplies
  PROVE  CheckScore(r) \in Score
<1>1. r \in Reply /\ Full \in Nat
  BY DEF BeamRunAssumption
<1>2. CASE r.form = "score"
  <2>1. r.value \in Int
    BY <1>1, <1>2 DEF Reply
  <2> DEFINE v == r.value
             m == Min({Full, v})
  <2>2. m = IF Full <= v THEN Full ELSE v
    <3>1. v \in Int
      BY <2>1
    <3> HIDE DEF v
    <3>2. Full \in Int
      BY <1>1
    <3>3. QED
      BY <3>1, <3>2, MinOfTwo
  <2> HIDE DEF m, v
  <2>3. m \in Int
    BY <1>1, <2>1, <2>2 DEF v
  <2>4. Max({0, m}) = IF 0 >= m THEN 0 ELSE m
    BY <2>3, MaxOfTwo
  <2>5. Max({0, m}) \in 0..Full
    BY <1>1, <2>1, <2>2, <2>3, <2>4 DEF v
  <2>6. QED
    BY <1>2, <2>5 DEF CheckScore, Clamp, Score, m, v
<1>3. CASE r.form = "passed"
  <2>1. r.value \in {0, 1}
    BY <1>1, <1>3 DEF Reply
  <2>2. CheckScore(r) = Full * r.value
    BY <1>3 DEF CheckScore
  <2>3. Full * 0 = 0 /\ Full * 1 = Full
    BY <1>1
  <2>4. CheckScore(r) \in {0, Full}
    BY <2>1, <2>2, <2>3
  <2>5. QED
    BY <1>1, <2>4 DEF Score
<1>4. CASE r.form # "score" /\ r.form # "passed"
  BY <1>1, <1>4 DEF CheckScore, Score
<1>5. QED
  BY <1>2, <1>3, <1>4

(* A score, or none.                                                       *)
Scored == Score \cup {NoScore}

(* The judge gives a question a score, or none if nothing was judged.      *)
LEMMA JudgeScoreIsScore ==
  ASSUME BeamRunAssumption, NEW n \in Nat, NEW replies \in [1..n -> JudgeReplies]
  PROVE  JudgeScore(replies) \in Scored
<1> DEFINE c == [k \in DOMAIN replies |-> CheckScore(replies[k])]
<1>1. c \in [1..n -> Score]
  BY CheckScoreIsScore
<1>2. c \in Seq(Score) /\ Len(c) = n
  <2>1. DOMAIN c = 1..n
    OBVIOUS
  <2> HIDE DEF c
  <2>2. QED
    BY <1>1, <2>1
<1>3. Len(replies) = n /\ (n = 0 => replies = <<>>) /\ replies \in Seq(JudgeReplies)
  OBVIOUS
<1>4. JudgeScore(replies) = IF replies = <<>> THEN NoScore ELSE Total(c) \div Len(replies)
  BY DEF JudgeScore
<1> HIDE DEF c
<1>5. n # 0 => Total(c) \div n \in Score
  BY <1>2, MeanIsScore
<1>6. QED
  BY <1>3, <1>4, <1>5 DEF Scored

(* The scores of a list of items: nothing for an item without a score.     *)
LEMMA ScoresAppend ==
  ASSUME BeamRunAssumption, NEW I, \A i \in I : i.score \in Scored
  PROVE  /\ ScoresOf(<<>>) = <<>>
         /\ \A s \in Seq(I) : ScoresOf(s) \in Seq(Score)
         /\ \A s \in Seq(I), x \in I :
              ScoresOf(Append(s, x)) = IF x.score = NoScore THEN ScoresOf(s)
                                       ELSE Append(ScoresOf(s), x.score)
<1> DEFINE W == {i \in I : i.score # NoScore}
           score(s) == [k \in DOMAIN s |-> s[k].score]
<1>1. NoScore \notin Score
  BY DEF BeamRunAssumption
<1>2. ASSUME NEW s \in Seq(I)
      PROVE  Keep(s, {i \in ToSet(s) : i.score # NoScore}) = Keep(s, W)
             /\ Keep(s, W) \in Seq(I) /\ Keep(s, W) \in Seq(W)
  <2>1. ASSUME NEW x \in ToSet(s)
        PROVE  x \in {i \in ToSet(s) : i.score # NoScore} <=> x \in W
    <3>1. x \in I
      BY DEF ToSet
    <3>2. QED
      BY <3>1
  <2> HIDE DEF W
  <2>2. Keep(s, {i \in ToSet(s) : i.score # NoScore}) = Keep(s, W)
    BY <2>1, KeepAgrees
  <2>3. Keep(s, W) \in Seq(I) /\ ToSet(Keep(s, W)) \subseteq W
    BY KeepSublist, KeepElements
  <2> DEFINE t == Keep(s, W)
  <2>4. t \in Seq(I) /\ \A k \in 1..Len(t) : t[k] \in W
    <3>1. t \in Seq(I) /\ ToSet(t) \subseteq W
      BY <2>3
    <3> HIDE DEF t
    <3>2. QED
      BY <3>1 DEF ToSet
  <2> HIDE DEF t
  <2>5. t \in Seq(W)
    <3> DEFINE n == Len(t)
    <3>1. n \in Nat /\ t \in [1..n -> W]
      BY <2>4
    <3> HIDE DEF n
    <3>2. QED
      BY <3>1
  <2>6. QED
    BY <2>2, <2>4, <2>5 DEF t
<1>3. ASSUME NEW s \in Seq(I)
      PROVE  ScoresOf(s) = score(Keep(s, W))
  BY <1>2 DEF ScoresOf
<1>4. \A t \in Seq(W) : score(t) \in Seq(Score)
  <2> TAKE t \in Seq(W)
  <2>1. \A k \in 1..Len(t) : t[k].score \in Score
    <3>1. \A k \in 1..Len(t) : t[k] \in W
      <4> HIDE DEF W
      <4>1. QED
        OBVIOUS
    <3>2. QED
      BY <3>1 DEF Scored
  <2> HIDE DEF W
  <2>2. Len(t) \in Nat /\ DOMAIN t = 1..Len(t)
    OBVIOUS
  <2>3. QED
    BY <2>1, <2>2
<1>5. ASSUME NEW t \in Seq(W), NEW x \in W
      PROVE  score(Append(t, x)) = Append(score(t), x.score)
  <2> DEFINE u == Append(t, x)
             n == Len(t)
  <2> HIDE DEF W
  <2>1. /\ u \in Seq(W) /\ n \in Nat /\ Len(u) = n + 1 /\ u[n + 1] = x
        /\ \A k \in 1..n : u[k] = t[k]
    BY AppendProperties
  <2>2. score(t) \in Seq(Score) /\ score(u) \in Seq(Score)
    BY <1>4, <2>1
  <2>3. Len(score(t)) = n /\ \A k \in 1..n : score(t)[k] = t[k].score
    OBVIOUS
  <2> HIDE DEF n, u
  <2>4. Len(score(u)) = n + 1 /\ \A k \in 1..(n + 1) : score(u)[k] = u[k].score
    BY <2>1
  <2>5. score(u)[n + 1] = x.score /\ \A k \in 1..n : score(u)[k] = score(t)[k]
    BY <2>1, <2>3, <2>4
  <2> HIDE DEF score
  <2>6. score(u) = Append(score(t), x.score)
    BY <2>1, <2>2, <2>3, <2>4, <2>5, LongerByOne
  <2>7. QED
    BY <2>6 DEF u
<1>6. ScoresOf(<<>>) = <<>>
  <2>1. <<>> \in Seq(I)
    OBVIOUS
  <2>2. Keep(<<>>, W) = <<>> /\ score(<<>>) = <<>>
    BY KeepNothing
  <2>3. QED
    BY <1>3, <2>1, <2>2
<1>7. \A s \in Seq(I) : ScoresOf(s) \in Seq(Score)
  <2> TAKE s \in Seq(I)
  <2> HIDE DEF score
  <2>1. ScoresOf(s) = score(Keep(s, W)) /\ Keep(s, W) \in Seq(W)
    BY <1>2, <1>3
  <2>2. QED
    BY <1>4, <2>1
<1>8. ASSUME NEW s \in Seq(I), NEW x \in I
      PROVE  ScoresOf(Append(s, x)) = IF x.score = NoScore THEN ScoresOf(s)
                                      ELSE Append(ScoresOf(s), x.score)
  <2>1. Append(s, x) \in Seq(I)
    BY AppendProperties
  <2> HIDE DEF score
  <2>2. ScoresOf(s) = score(Keep(s, W)) /\ ScoresOf(Append(s, x)) = score(Keep(Append(s, x), W))
    BY <1>3, <2>1
  <2>3. Keep(s, W) \in Seq(W)
    BY <1>2
  <2>4. Keep(Append(s, x), W) = IF x \in W THEN Append(Keep(s, W), x) ELSE Keep(s, W)
    <3> HIDE DEF W
    <3>1. QED
      BY KeepAppend
  <2>5. x \in W <=> x.score # NoScore
    OBVIOUS
  <2> HIDE DEF W
  <2>6. CASE x \in W
    <3>1. score(Append(Keep(s, W), x)) = Append(score(Keep(s, W)), x.score)
      BY <1>5, <2>3, <2>6
    <3>2. QED
      BY <2>2, <2>4, <2>5, <2>6, <3>1
  <2>7. CASE x \notin W
    BY <2>2, <2>4, <2>5, <2>7
  <2>8. QED
    BY <2>6, <2>7
<1>9. QED
  BY <1>6, <1>7, <1>8

-----------------------------------------------------------------------------
(* Results.                                                                *)

(* What an answer is given: memory and tail, or the chat itself.           *)
Contexts == [recorded: Seq(Message), tail: Seq(Message)] \cup Seq(Seq(Message))
Item     == [type: Nat, judged: Scored, score: Scored, context: Contexts]

(* What is written of a run: its scores and the answers they are of.       *)
ResultsFile ==
  [primary: Scored \cup {Heuristic, Nothing}, diagnostic: Scored \cup {Heuristic, Nothing},
   overall: Scored \cup {Nothing}, items: Seq(Item), snapshot: BOOLEAN]

Judgement(items)    == [i \in DOMAIN items |-> [score |-> items[i].judged]]
(* The scores the judge gave, of those answers that have one.              *)
JudgedScores(items) == ScoresOf(Judgement(items))

(* The score of a run: the mean of what was judged, or the heuristic when  *)
(* nothing was.                                                            *)
ScoreOf(items) ==
  IF JudgedScores(items) = <<>> THEN {Heuristic, NoScore}
  ELSE {Total(JudgedScores(items)) \div Len(JudgedScores(items))}

(* The score is under one of three names, and which one depends on the     *)
(* runner and the mode of the batch.                                       *)
OneScore(options, out) ==
  /\ out \in ResultsFile
  /\ options.runner = "deepagent" =>
       /\ out.overall \in ScoreOf(out.items)
       /\ out.primary = Nothing /\ out.diagnostic = Nothing
  /\ options.runner # "deepagent" /\ ~options.oracle =>
       /\ out.primary \in ScoreOf(out.items)
       /\ out.diagnostic = Nothing /\ out.overall = Nothing
  /\ options.runner # "deepagent" /\ options.oracle =>
       /\ out.diagnostic \in ScoreOf(out.items) /\ ScoresOf(out.items) = <<>>
       /\ out.primary = Nothing /\ out.overall = Nothing

(* A run has the runner and the mode of the batch its path names.          *)
RouteOfBatch ==
  phase # "off" => args.runner = plan[key[1]].runner /\ args.oracle = plan[key[1]].oracle

(* The totals of the types that are done and of the one that runs are the  *)
(* scores judged so far; after the last type nothing is left to add.       *)
TallyOK ==
  /\ tally \in [type: Nat \ {0}, score: Nat, judged: Nat, total: Nat, questions: Nat]
  /\ tally.total + tally.score = Total(JudgedScores(results))
  /\ tally.questions + tally.judged = Len(JudgedScores(results))
  /\ tally.type > Len(Probes) => tally.score = 0 /\ tally.judged = 0

(* The inductive invariant of ScoreOwnedByRoute: the totals of the run in  *)
(* progress are those of its results so far, its route is that of its      *)
(* batch, and every file has its one score where the route wants it.       *)
ScoreInv ==
  /\ results \in Seq(Item) /\ TallyOK /\ RouteOfBatch
  /\ \A f \in DOMAIN outputs : OneScore(plan[f[1]], outputs[f])

(* The judgements are items with a score, one for each result.             *)
LEMMA JudgementAppend ==
  ASSUME BeamRunAssumption
  PROVE  /\ JudgedScores(<<>>) = <<>>
         /\ \A s \in Seq(Item), e \in Item :
              /\ JudgedScores(s) \in Seq(Score)
              /\ JudgedScores(Append(s, e)) =
                   IF e.judged = NoScore THEN JudgedScores(s) ELSE Append(JudgedScores(s), e.judged)
<1> DEFINE J == [score: Scored]
<1>1. \A j \in J : j.score \in Scored
  OBVIOUS
<1>2. ASSUME NEW s \in Seq(Item)
      PROVE  /\ Judgement(s) \in Seq(J) /\ Len(Judgement(s)) = Len(s)
             /\ \A k \in 1..Len(s) : Judgement(s)[k] = [score |-> s[k].judged]
  <2> DEFINE n == Len(s)
  <2>1. n \in Nat /\ DOMAIN s = 1..n /\ \A k \in 1..n : s[k] \in Item
    OBVIOUS
  <2> HIDE DEF n
  <2>2. \A k \in 1..n : [score |-> s[k].judged] \in J
    BY <2>1 DEF Item
  <2> DEFINE j == Judgement(s)
  <2>3. j = [k \in 1..n |-> [score |-> s[k].judged]]
    BY <2>1 DEF Judgement
  <2> HIDE DEF j, J
  <2>4. j \in [1..n -> J]
    BY <2>2, <2>3
  <2>5. j \in Seq(J) /\ Len(j) = n
    BY <2>1, <2>4
  <2>6. QED
    BY <2>3, <2>5 DEF j, n
<1>3. Judgement(<<>>) = <<>>
  BY DEF Judgement
<1>4. ASSUME NEW s \in Seq(Item), NEW e \in Item
      PROVE  Judgement(Append(s, e)) = Append(Judgement(s), [score |-> e.judged])
  <2> DEFINE t == Append(s, e)
             n == Len(s)
             x == [score |-> e.judged]
  <2>1. /\ t \in Seq(Item) /\ n \in Nat /\ Len(t) = n + 1 /\ t[n + 1] = e
        /\ \A k \in 1..n : t[k] = s[k]
    BY AppendProperties
  <2> HIDE DEF t, J
  <2>2. /\ Judgement(t) \in Seq(J) /\ Len(Judgement(t)) = n + 1
        /\ \A k \in 1..(n + 1) : Judgement(t)[k] = [score |-> t[k].judged]
    BY <1>2, <2>1
  <2>3. /\ Judgement(s) \in Seq(J) /\ Len(Judgement(s)) = n
        /\ \A k \in 1..n : Judgement(s)[k] = [score |-> s[k].judged]
    BY <1>2
  <2> HIDE DEF n
  <2>4. Judgement(t)[n + 1] = x /\ \A k \in 1..n : Judgement(t)[k] = Judgement(s)[k]
    <3>1. n + 1 \in 1..(n + 1) /\ \A k \in 1..n : k \in 1..(n + 1)
      BY <2>1
    <3>2. Judgement(t)[n + 1] = x
      BY <2>1, <2>2, <3>1
    <3>3. ASSUME NEW k \in 1..n PROVE Judgement(t)[k] = Judgement(s)[k]
      BY <2>1, <2>2, <2>3, <3>1
    <3>4. QED
      BY <3>2, <3>3
  <2> HIDE DEF x
  <2>5. Judgement(t) = Append(Judgement(s), x)
    BY <2>1, <2>2, <2>3, <2>4, LongerByOne
  <2>6. QED
    BY <2>5 DEF t, x
<1> HIDE DEF J
<1>5. /\ ScoresOf(<<>>) = <<>>
      /\ \A s \in Seq(J), x \in J :
           /\ ScoresOf(s) \in Seq(Score)
           /\ ScoresOf(Append(s, x)) = IF x.score = NoScore THEN ScoresOf(s)
                                       ELSE Append(ScoresOf(s), x.score)
  BY <1>1, ScoresAppend
<1>6. ASSUME NEW s \in Seq(Item), NEW e \in Item
      PROVE  /\ ScoresOf(Judgement(s)) \in Seq(Score)
             /\ ScoresOf(Append(Judgement(s), [score |-> e.judged])) =
                  IF e.judged = NoScore THEN ScoresOf(Judgement(s))
                  ELSE Append(ScoresOf(Judgement(s)), e.judged)
  <2> DEFINE x == [score |-> e.judged]
  <2>1. x \in J /\ x.score = e.judged
    BY DEF Item, J
  <2>2. Judgement(s) \in Seq(J)
    BY <1>2
  <2> HIDE DEF x
  <2>3. /\ ScoresOf(Judgement(s)) \in Seq(Score)
        /\ ScoresOf(Append(Judgement(s), x)) = IF x.score = NoScore THEN ScoresOf(Judgement(s))
                                               ELSE Append(ScoresOf(Judgement(s)), x.score)
    BY <1>5, <2>1, <2>2
  <2>4. QED
    BY <2>1, <2>3 DEF x
<1>7. QED
  BY <1>3, <1>4, <1>5, <1>6 DEF JudgedScores

(* Asking a question adds at most one score.                               *)
LEMMA AskKeepsTally ==
  ASSUME BeamRunAssumption, results \in Seq(Item), TallyOK, Remains,
         NEW context \in Contexts, NEW n \in Nat, NEW replies \in [1..n -> JudgeReplies],
         Record(context, replies)
  PROVE  results' \in Seq(Item) /\ TallyOK'
<1> DEFINE score == JudgeScore(replies)
           e == [type |-> tally.type, judged |-> score, score |-> score, context |-> context]
           js == JudgedScores(results)
<1>1. score \in Scored
  BY JudgeScoreIsScore
<1>2. /\ results' = Append(results, e)
      /\ tally' = IF score = NoScore THEN tally
                  ELSE [tally EXCEPT !.score = @ + score, !.judged = @ + 1]
  BY DEF Record
<1> HIDE DEF score
<1>3. /\ tally \in [type: Nat \ {0}, score: Nat, judged: Nat, total: Nat, questions: Nat]
      /\ tally.total + tally.score = Total(js) /\ tally.questions + tally.judged = Len(js)
      /\ tally.type <= Len(Probes)
  BY DEF TallyOK, Remains, Asking
<1>4. e \in Item /\ e.judged = score
  BY <1>1, <1>3 DEF Item
<1> HIDE DEF e
<1>5. /\ js \in Seq(Score)
      /\ JudgedScores(results') = IF score = NoScore THEN js ELSE Append(js, score)
  BY <1>2, <1>4, JudgementAppend
<1>6. results' \in Seq(Item)
  BY <1>2, <1>4
<1>7. ~(tally.type > Len(Probes))
  <2>1. Len(Probes) \in Nat
    BY DEF BeamRunAssumption
  <2>2. QED
    BY <1>3, <2>1
<1>8. JudgedScores(results)' = JudgedScores(results')
  BY DEF JudgedScores, Judgement
<1>9. CASE score = NoScore
  BY <1>2, <1>3, <1>5, <1>6, <1>7, <1>8, <1>9 DEF TallyOK
<1>10. CASE score # NoScore
  <2>1. score \in Score /\ score \in Nat
    BY <1>1, <1>10 DEF Scored, Score, BeamRunAssumption
  <2>2. js \in Seq(Nat)
    BY <1>5 DEF Score
  <2> HIDE DEF js
  <2>3. Total(Append(js, score)) = Total(js) + score /\ Len(Append(js, score)) = Len(js) + 1
    BY <2>1, <2>2, TotalAppend
  <2>4. tally' = [tally EXCEPT !.score = tally.score + score, !.judged = tally.judged + 1]
    BY <1>2, <1>10
  <2>5. /\ tally'.type = tally.type /\ tally'.score = tally.score + score
        /\ tally'.judged = tally.judged + 1 /\ tally'.total = tally.total
        /\ tally'.questions = tally.questions
        /\ tally' \in [type: Nat \ {0}, score: Nat, judged: Nat, total: Nat, questions: Nat]
    <3> DEFINE p == tally.score + score
               q == tally.judged + 1
    <3>1. p \in Nat /\ q \in Nat
      BY <1>3, <2>1
    <3>2. tally' = [tally EXCEPT !.score = p, !.judged = q]
      BY <2>4
    <3> HIDE DEF p, q
    <3>3. /\ tally'.type = tally.type /\ tally'.score = p /\ tally'.judged = q
          /\ tally'.total = tally.total /\ tally'.questions = tally.questions
          /\ tally' \in [type: Nat \ {0}, score: Nat, judged: Nat, total: Nat, questions: Nat]
      BY <1>3, <3>1, <3>2
    <3>4. QED
      BY <3>3 DEF p, q
  <2>6. Total(js) \in Nat /\ Len(js) \in Nat
    BY <2>2, TotalAppend
  <2>7. tally'.total + tally'.score = Total(JudgedScores(results'))
    BY <1>3, <1>5, <1>10, <2>1, <2>3, <2>5
  <2>8. tally'.questions + tally'.judged = Len(JudgedScores(results'))
    BY <1>3, <1>5, <1>10, <2>3, <2>5, SMTT(20)
  <2>9. QED
    BY <1>6, <1>7, <1>8, <2>5, <2>7, <2>8 DEF TallyOK
<1>11. QED
  BY <1>9, <1>10

(* Closing a type moves its totals into the overall ones.                  *)
LEMMA CloseKeepsTally ==
  ASSUME TallyOK, CloseType
  PROVE  TallyOK'
<1>1. /\ tally' = NextType /\ results' = results
      /\ tally \in [type: Nat \ {0}, score: Nat, judged: Nat, total: Nat, questions: Nat]
      /\ tally.total + tally.score = Total(JudgedScores(results))
      /\ tally.questions + tally.judged = Len(JudgedScores(results))
  BY DEF CloseType, TallyOK
<1>2. /\ tally'.score = 0 /\ tally'.judged = 0
      /\ tally'.total = tally.total + tally.score
      /\ tally'.questions = tally.questions + tally.judged
      /\ tally' \in [type: Nat \ {0}, score: Nat, judged: Nat, total: Nat, questions: Nat]
  BY <1>1 DEF NextType
<1>3. tally'.total + tally'.score = tally.total + tally.score
      /\ tally'.questions + tally'.judged = tally.questions + tally.judged
  BY <1>1, <1>2
<1>4. QED
  BY <1>1, <1>2, <1>3 DEF TallyOK, JudgedScores, Judgement

(* The contexts of answers.                                                *)
LEMMA ContextsOfAnswers ==
  ASSUME BeamRunAssumption, TranscriptInv, phase = "answer"
  PROVE  /\ RecentPairs \in Contexts
         /\ args.runner # "baseline" => MemoryContext \in Contexts
<1>1. AllPairs \in Seq(Seq(Message))
  BY PairsAreTurns
<1>2. RecentPairs \in Seq(Seq(Message))
  <2> DEFINE F == Seq(Message)
             pairs == Keep(AllPairs, {p \in ToSet(AllPairs) : Complete(p)})
             from == Max({1, Len(pairs) - PairCount + 1})
  <2>1. pairs \in Seq(F)
    BY <1>1, KeepSublist
  <2>2. RecentPairs = SubSeq(pairs, from, Len(pairs))
    BY DEF RecentPairs
  <2> HIDE DEF pairs, F
  <2>3. from \in Int /\ from >= 1
    <3> DEFINE n == Len(pairs) - PairCount + 1
    <3>1. n \in Int
      BY <2>1 DEF BeamRunAssumption
    <3> HIDE DEF n
    <3>2. Max({1, n}) = IF 1 >= n THEN 1 ELSE n
      BY <3>1, MaxOfTwo
    <3>3. QED
      BY <3>1, <3>2 DEF n
  <2> HIDE DEF from
  <2>4. SubSeq(pairs, from, Len(pairs)) \in Seq(F)
    BY <2>1, <2>3
  <2>5. QED
    BY <2>2, <2>4 DEF F
<1>3. args.runner # "baseline" => MemoryContext \in Contexts
  BY DEF TranscriptInv, SplitsTranscript, MemoryContext, Contexts
<1>4. QED
  BY <1>2, <1>3 DEF Contexts

(* No question keeps a score under the production name.                    *)
LEMMA UnscoredItems ==
  ASSUME BeamRunAssumption, NEW items \in Seq(Item)
  PROVE  /\ Unscored(items) \in Seq(Item) /\ Len(Unscored(items)) = Len(items)
         /\ \A k \in 1..Len(items) : Unscored(items)[k].context = items[k].context
         /\ JudgedScores(Unscored(items)) = JudgedScores(items)
         /\ ScoresOf(Unscored(items)) = <<>>
<1> DEFINE n == Len(items)
           u == Unscored(items)
<1>1. n \in Nat /\ DOMAIN items = 1..n /\ \A k \in 1..n : items[k] \in Item
  OBVIOUS
<1>2. u = [k \in 1..n |-> [items[k] EXCEPT !.score = NoScore]]
  BY <1>1 DEF Unscored
<1> HIDE DEF u, n
<1>3. ASSUME NEW k \in 1..n
      PROVE  u[k] \in Item /\ u[k].score = NoScore /\ u[k].judged = items[k].judged
             /\ u[k].context = items[k].context
  <2>1. u[k] = [items[k] EXCEPT !.score = NoScore] /\ items[k] \in Item /\ NoScore \in Scored
    BY <1>1, <1>2 DEF Scored
  <2>2. QED
    BY <2>1 DEF Item
<1>4. u \in Seq(Item) /\ Len(u) = n
  <2>1. u \in [1..n -> Item]
    BY <1>2, <1>3
  <2>2. QED
    BY <1>1, <2>1
<1>5. JudgedScores(u) = JudgedScores(items)
  <2>1. DOMAIN u = 1..n
    BY <1>2
  <2>2. Judgement(u) = Judgement(items)
    BY <1>1, <1>3, <2>1 DEF Judgement
  <2>3. QED
    BY <2>2 DEF JudgedScores
<1>6. ScoresOf(u) = <<>>
  <2>1. \A x \in ToSet(u) : x.score = NoScore
    BY <1>3, <1>4 DEF ToSet
  <2>2. {i \in ToSet(u) : i.score # NoScore} = {}
    BY <2>1
  <2>3. Keep(u, {}) \in Seq(Item) /\ ToSet(Keep(u, {})) = ToSet(u) \cap {}
    BY <1>4, KeepSublist, KeepElements
  <2>4. ToSet(Keep(u, {})) = {}
    BY <2>3
  <2>5. Keep(u, {}) = <<>>
    <3> DEFINE w == Keep(u, {})
    <3>1. w \in Seq(Item) /\ ToSet(w) = {}
      BY <2>3, <2>4
    <3> HIDE DEF w
    <3>2. Len(w) \in Nat /\ \A k \in 1..Len(w) : w[k] \in ToSet(w)
      BY <3>1 DEF ToSet
    <3>3. Len(w) = 0
      <4>1. Len(w) # 0 => 1 \in 1..Len(w)
        BY <3>2
      <4>2. QED
        BY <3>1, <3>2, <4>1
    <3>4. w = <<>>
      BY <3>1, <3>3, EmptySeq
    <3>5. QED
      BY <3>4 DEF w
  <2>6. Keep(u, {i \in ToSet(u) : i.score # NoScore}) = <<>>
    BY <2>2, <2>5
  <2>7. ScoresOf(u) = [k \in DOMAIN <<>> |-> <<>>[k].score]
    BY <2>6 DEF ScoresOf
  <2>8. QED
    BY <2>7
<1>7. QED
  BY <1>1, <1>3, <1>4, <1>5, <1>6 DEF u, n

(* A results file has one score, the one of its route.                     *)
LEMMA WrittenHasOneScore ==
  ASSUME BeamRunAssumption, TranscriptInv, ScoreInv, plan' = plan,
         WriteResults \/ WriteAgentResults \/ WriteBaselineResults
  PROVE  ScoreInv'
<1> DEFINE js == JudgedScores(results)
           mean == Mean(tally.total, tally.questions)
<1>1. /\ results \in Seq(Item) /\ js \in Seq(Score)
      /\ tally \in [type: Nat \ {0}, score: Nat, judged: Nat, total: Nat, questions: Nat]
      /\ tally.total + tally.score = Total(js) /\ tally.questions + tally.judged = Len(js)
      /\ tally.type > Len(Probes) => tally.score = 0 /\ tally.judged = 0
  BY JudgementAppend DEF ScoreInv, TallyOK
<1> DEFINE out == IF args.runner = "deepagent" THEN AgentOutput ELSE OwnedOutput
<1>2. /\ outputs' = Written(outputs, key, out)
      /\ ~Asking /\ results' = results /\ tally' = tally
      /\ args' = args /\ key' = key /\ phase # "off"
  <2>1. CASE WriteResults
    BY <2>1 DEF WriteResults, Write, local
  <2>2. CASE WriteAgentResults
    BY <2>2 DEF WriteAgentResults, Write, local
  <2>3. CASE WriteBaselineResults
    BY <2>3 DEF WriteBaselineResults, Write, local
  <2>4. QED
    BY <2>1, <2>2, <2>3
<1>14. /\ args.runner = "deepagent" => out = AgentOutput
       /\ args.runner # "deepagent" => out = OwnedOutput
  OBVIOUS
<1> HIDE DEF out
<1>3. tally.score = 0 /\ tally.judged = 0
  <2>1. Len(Probes) \in Nat
    BY DEF BeamRunAssumption
  <2>2. QED
    BY <1>1, <1>2, <2>1 DEF Asking
<1>4. tally.total = Total(js) /\ tally.questions = Len(js)
  BY <1>1, <1>3
<1>5. mean = IF js = <<>> THEN NoScore ELSE Total(js) \div Len(js)
  <2>1. Len(js) = 0 <=> js = <<>>
    BY <1>1
  <2>2. QED
    BY <1>4, <2>1 DEF Mean
<1>6. js # <<>> => mean # NoScore
  <2>1. js # <<>> => Len(js) # 0
    BY <1>1
  <2>2. js # <<>> => mean \in Score
    BY <1>1, <1>5, <2>1, MeanIsScore
  <2>3. QED
    BY <2>2 DEF BeamRunAssumption
<1>7. mean \in ScoreOf(results) /\ RouteScore \in ScoreOf(results)
  BY <1>5, <1>6 DEF ScoreOf, RouteScore
<1>8. mean \in Scored /\ RouteScore \in Scored \cup {Heuristic}
  <2>1. Len(js) = 0 <=> js = <<>>
    BY <1>1
  <2>2. mean \in Scored
    BY <1>1, <1>5, <2>1, MeanIsScore DEF Scored
  <2>3. QED
    BY <2>2 DEF RouteScore
<1> DEFINE options == plan[key[1]]
<1>13. options.runner = args.runner /\ options.oracle = args.oracle
  BY <1>2 DEF ScoreInv, RouteOfBatch
<1> HIDE DEF options
<1>9. OneScore(options, out)
  <2>1. CASE args.runner = "deepagent"
    <3>1. out = AgentOutput
      BY <1>14, <2>1
    <3>2. out \in ResultsFile
      BY <1>1, <1>8, <3>1 DEF AgentOutput, ResultsFile
    <3>3. QED
      BY <1>7, <1>13, <2>1, <3>1, <3>2 DEF OneScore, AgentOutput
  <2>2. CASE args.runner # "deepagent" /\ args.oracle
    <3>6. out = OwnedOutput
      BY <1>14, <2>2
    <3>7. /\ out.primary = Nothing /\ out.diagnostic = RouteScore /\ out.overall = Nothing
          /\ out.items = Unscored(results)
      BY <2>2, <3>6 DEF OwnedOutput, ProductionItems
    <3>8. out = [primary |-> Nothing, diagnostic |-> RouteScore, overall |-> Nothing,
                 items |-> out.items, snapshot |-> out.snapshot]
      BY <2>2, <3>6 DEF OwnedOutput
    <3>9. out.snapshot \in BOOLEAN
      BY <3>6 DEF OwnedOutput
    <3>1. /\ out.primary = Nothing /\ out.diagnostic = RouteScore /\ out.overall = Nothing
          /\ out.items = Unscored(results)
          /\ out = [primary |-> Nothing, diagnostic |-> RouteScore, overall |-> Nothing,
                    items |-> out.items, snapshot |-> out.snapshot]
          /\ out.snapshot \in BOOLEAN
      BY <3>7, <3>8, <3>9
    <3>2. /\ out.items \in Seq(Item) /\ JudgedScores(out.items) = js /\ ScoresOf(out.items) = <<>>
      BY <1>1, <3>1, UnscoredItems
    <3>3. ScoreOf(out.items) = ScoreOf(results)
      BY <3>2 DEF ScoreOf
    <3>4. out \in ResultsFile
      BY <1>8, <3>1, <3>2 DEF ResultsFile
    <3>5. QED
      BY <1>7, <1>13, <2>2, <3>1, <3>2, <3>3, <3>4 DEF OneScore
  <2>3. CASE args.runner # "deepagent" /\ ~args.oracle
    <3>1. out = OwnedOutput
      BY <1>14, <2>3
    <3>2. out \in ResultsFile
      BY <1>1, <1>8, <2>3, <3>1 DEF OwnedOutput, ProductionItems, ResultsFile
    <3>3. QED
      BY <1>7, <1>13, <2>3, <3>1, <3>2 DEF OneScore, OwnedOutput, ProductionItems
  <2>4. QED
    BY <2>1, <2>2, <2>3
<1>10. ASSUME NEW f \in DOMAIN outputs' PROVE OneScore(plan[f[1]], outputs'[f])
  <2>1. outputs' = [g \in DOMAIN outputs \cup {key} |-> IF g = key THEN out ELSE outputs[g]]
    BY <1>2 DEF Written
  <2>2. CASE f = key
    BY <1>9, <1>10, <2>1, <2>2 DEF options
  <2>3. CASE f # key
    BY <1>10, <2>1, <2>3 DEF ScoreInv
  <2>4. QED
    BY <2>2, <2>3
<1>11. TallyOK' /\ RouteOfBatch'
  <2>1. TallyOK'
    BY <1>2 DEF ScoreInv, TallyOK, JudgedScores, Judgement
  <2>2. RouteOfBatch'
    BY <1>2, <1>13 DEF RouteOfBatch, options
  <2>3. QED
    BY <2>1, <2>2
<1>12. QED
  BY <1>1, <1>2, <1>10, <1>11 DEF ScoreInv, OneScore, ScoreOf, JudgedScores, Judgement

(* The number of rubric lines of a question that remains.                  *)
LEMMA RubricOfNext ==
  ASSUME BeamRunAssumption, results \in Seq(Item), TallyOK, Remains
  PROVE  /\ NextItem \in Nat
         /\ (IF args.judge THEN Probes[tally.type][NextItem] ELSE 0) \in Nat
<1>1. Answered(tally.type) \in Nat
  <2> DEFINE D == {n \in DOMAIN results : results[n].type = tally.type}
  <2>1. DOMAIN results = 1..Len(results) /\ Len(results) \in Nat
    BY DEF ScoreInv
  <2>2. IsFiniteSet(1..Len(results)) /\ D \subseteq 1..Len(results)
    BY <2>1, FS_Interval
  <2> HIDE DEF D
  <2>3. IsFiniteSet(D)
    BY <2>2, FS_Subset
  <2>4. QED
    BY <2>3, FS_CardinalityType DEF Answered, D
<1>2. NextItem \in Nat /\ NextItem >= 1
  BY <1>1 DEF NextItem
<1>3. tally.type \in 1..Len(Probes) /\ NextItem <= Len(Probes[tally.type])
  BY DEF Remains, Asking, TallyOK, BeamRunAssumption
<1>4. Probes \in Seq(Seq(Nat))
  BY DEF BeamRunAssumption
<1> DEFINE p == Probes[tally.type]
<1>5. p \in Seq(Nat)
  BY <1>3, <1>4
<1>6. NextItem \in 1..Len(p)
  BY <1>2, <1>3, <1>5
<1> HIDE DEF p
<1>7. p[NextItem] \in Nat
  BY <1>5, <1>6
<1>8. QED
  BY <1>2, <1>7 DEF p

(* Files that nobody writes keep their scores.                             *)
LEMMA OutputsKeepScores ==
  ASSUME ScoreInv, outputs' = outputs, plan' = plan
  PROVE  (\A f \in DOMAIN outputs : OneScore(plan[f[1]], outputs[f]))'
<1>1. ASSUME NEW f \in DOMAIN outputs' PROVE OneScore(plan[f[1]], outputs[f])'
  BY <1>1 DEF ScoreInv, OneScore, ScoreOf, JudgedScores, Judgement
<1>2. QED
  BY <1>1

(* Nor does anything else change the account of a run that does not ask.   *)
LEMMA RestKeepsScores ==
  ASSUME ScoreInv, UNCHANGED <<tally, results, outputs, plan>>, RouteOfBatch'
  PROVE  ScoreInv'
<1>1. results \in Seq(Item) /\ TallyOK
  BY DEF ScoreInv
<1>2. TallyOK'
  BY <1>1 DEF TallyOK, JudgedScores, Judgement
<1>3. QED
  BY <1>1, <1>2, OutputsKeepScores DEF ScoreInv

(* Every step of a run keeps the totals; the one that writes the results   *)
(* files the score they give.                                              *)
LEMMA RunStepKeepsScores ==
  ASSUME BeamRunAssumption, TranscriptInv, ScoreInv, RunStep, plan' = plan
  PROVE  ScoreInv'
<1>6. RouteOfBatch'
  BY RunStepKeepsRun, RunStepGoesOn DEF ScoreInv, RouteOfBatch
<1>1. CASE AnswerQuestion \/ AskAgent \/ AnswerFromPairs
  <2>1. PICK context : /\ \E replies \in RepliesTo(Probes[tally.type][NextItem]) :
                             Record(context, replies)
                       /\ context \in Contexts /\ Remains /\ outputs' = outputs
    BY <1>1, ContextsOfAnswers DEF AnswerQuestion, AskAgent, AnswerFromPairs, Ask
  <2> DEFINE n == IF args.judge THEN Probes[tally.type][NextItem] ELSE 0
  <2>2. PICK replies : replies \in [1..n -> JudgeReplies] /\ Record(context, replies)
    BY <2>1 DEF RepliesTo
  <2>3. results \in Seq(Item) /\ TallyOK /\ n \in Nat
    BY <2>1, RubricOfNext DEF ScoreInv
  <2> HIDE DEF n
  <2>4. results' \in Seq(Item) /\ TallyOK'
    BY <2>1, <2>2, <2>3, AskKeepsTally
  <2>5. QED
    BY <1>6, <2>1, <2>4, OutputsKeepScores DEF ScoreInv
<1>2. CASE CloseType
  <2>1. TallyOK'
    BY <1>2, CloseKeepsTally DEF ScoreInv
  <2>2. results' = results /\ outputs' = outputs
    BY <1>2 DEF CloseType
  <2>3. QED
    BY <1>6, <2>1, <2>2, OutputsKeepScores DEF ScoreInv
<1>3. CASE WriteResults \/ WriteAgentResults \/ WriteBaselineResults
  BY <1>3, WrittenHasOneScore
<1>4. CASE \/ Restore \/ IngestPair \/ AgentIngestPair \/ EndIngest \/ AgentEndIngest
           \/ OpenSnapshot \/ CloseSnapshot
  <2>1. results' = results /\ tally' = tally /\ outputs' = outputs
    BY <1>4 DEF Restore, IngestPair, AgentIngestPair, EndIngest, AgentEndIngest, FeedNext,
                FlushFinal, OpenSnapshot, CloseSnapshot, local
  <2>2. QED
    BY <1>6, <2>1, RestKeepsScores
<1>5. QED
  BY <1>1, <1>2, <1>3, <1>4 DEF RunStep

(* Before the first question there is nothing to count.                    *)
LEMMA NothingToCount ==
  ASSUME BeamRunAssumption
  PROVE  /\ NoTally \in [type: Nat \ {0}, score: Nat, judged: Nat, total: Nat, questions: Nat]
         /\ NoTally.score = 0 /\ NoTally.judged = 0
         /\ NoTally.total + NoTally.score = Total(JudgedScores(<<>>))
         /\ NoTally.questions + NoTally.judged = Len(JudgedScores(<<>>))
<1>1. JudgedScores(<<>>) = <<>>
  BY JudgementAppend
<1>2. Total(<<>>) = 0
  BY TotalAppend
<1>3. QED
  BY <1>1, <1>2 DEF NoTally

(* In every history of batches, each file of results has its score under   *)
(* the name of its route.                                                  *)
THEOREM ScoresAreKept == Spec => []ScoreInv
<1>1. Init => ScoreInv
  <2> SUFFICES ASSUME Init PROVE ScoreInv
    OBVIOUS
  <2>1. results = <<>> /\ tally = NoTally /\ outputs = <<>>
    BY DEF Init, RunInit
  <2>2. TallyOK
    BY <2>1, NothingToCount, BeamRunAssumption DEF TallyOK
  <2>3. results \in Seq(Item) /\ DOMAIN outputs = {} /\ RouteOfBatch
    BY <2>1 DEF Init, RunInit, RouteOfBatch
  <2>4. QED
    BY <2>2, <2>3 DEF ScoreInv
<1>2. TranscriptInv /\ ScoreInv /\ [Next]_vars => ScoreInv'
  <2> SUFFICES ASSUME TranscriptInv, ScoreInv, [Next]_vars PROVE ScoreInv'
    OBVIOUS
  <2>1. CASE Running
    BY <2>1, RunStepKeepsScores, BeamRunAssumption DEF Running, batchVars
  <2>2. CASE RunReturns \/ RunFails \/ Crash
    <3>1. /\ results' = <<>> /\ tally' = NoTally /\ outputs' = outputs /\ plan' = plan
          /\ phase' = "off"
      BY <2>2 DEF RunReturns, RunFails, Crash, CaseDone, ClearRun
    <3>2. /\ tally' \in [type: Nat \ {0}, score: Nat, judged: Nat, total: Nat, questions: Nat]
          /\ tally'.score = 0 /\ tally'.judged = 0
          /\ tally'.total + tally'.score = Total(JudgedScores(results'))
          /\ tally'.questions + tally'.judged = Len(JudgedScores(results'))
      BY <3>1, NothingToCount, BeamRunAssumption
    <3>3. results' \in Seq(Item) /\ RouteOfBatch'
      BY <3>1 DEF RouteOfBatch
    <3>4. TallyOK'
      BY <3>1, <3>2 DEF TallyOK, JudgedScores, Judgement, NoTally
    <3>5. QED
      BY <3>1, <3>3, <3>4, OutputsKeepScores DEF ScoreInv
  <2>3. CASE UNCHANGED <<tally, results, outputs, plan>> /\ RouteOfBatch'
    BY <2>3, RestKeepsScores
  <2>5. CASE StartCase
    <3>1. PICK source, run : /\ StartRun(RunArgs(source), RunKey(b, run)) /\ plan' = plan
      BY <2>5 DEF StartCase
    <3>2. key' = RunKey(b, run) /\ args' = RunArgs(source)
      BY <3>1 DEF StartRun
    <3>3. RouteOfBatch'
      BY <3>1, <3>2 DEF RouteOfBatch, RunKey, RunArgs, opts
    <3>4. UNCHANGED <<tally, results, outputs, plan>>
      BY <3>1 DEF StartRun, local
    <3>5. QED
      BY <2>3, <3>3, <3>4
  <2>6. CASE UNCHANGED <<runVars, plan>>
    <3>1. RouteOfBatch'
      BY <2>6 DEF ScoreInv, RouteOfBatch, runVars
    <3>2. QED
      BY <2>3, <2>6, <3>1 DEF runVars, local
  <2>4. QED
    BY <2>1, <2>2, <2>5, <2>6 DEF Next, vars, batchVars, StartBatch, OpenManifest, CloseManifest,
          AllAttempted, CompareAndFinish
<1>3. QED
  BY <1>1, <1>2, TranscriptIsKept, PTL DEF Spec

(* Each results file has one score, the mean over its judged questions as  *)
(* the running totals accumulated it type by type, and has it where the    *)
(* route of its batch wants it: primary in production, diagnostic in oracle*)
(* mode, where no question keeps one, and neither of them by the agent.    *)
THEOREM OneScorePerRoute == Spec => []ScoreOwnedByRoute
<1>1. ScoreInv => ScoreOwnedByRoute
  BY DEF ScoreInv, OneScore, ScoreOf, JudgedScores, Judgement, ScoreOwnedByRoute
<1>2. QED
  BY <1>1, ScoresAreKept, PTL

-----------------------------------------------------------------------------
(* The account in the manifest.                                            *)

(* The scores in the files of the runs a manifest lists, file by file.     *)
FilesIn(outs, k, list) ==
  [i \in DOMAIN list |->
     IF list[i].ok THEN ScoresOf(outs[RunKey(k, list[i])].items) ELSE <<>>]

(* What a manifest's aggregate should say, computed from the files of its  *)
(* runs.                                                                   *)
AccountOf(outs, k, list) ==
  LET scores == FlattenSeq(FilesIn(outs, k, list))
  IN  [runs |-> Cardinality(OkEntries(list)), questions |-> Len(scores), total |-> Total(scores)]

(* The answers each file holds, which is all an account depends on.        *)
ItemsOf(outs) == [j \in DOMAIN outs |-> outs[j].items]

(* Why a batch stops adding entries.                                       *)
AllRun(k, list) ==
  \/ plan[k].stop /\ ~Last(list).ok
  \/ Len(list) = Len(Schedule(plan[k]))

(* A run that is listed as successful has left its results.                *)
HasFiles(k) == \A n \in OkEntries(entries[k]) : RunKey(k, entries[k][n]) \in DOMAIN outputs

(* The aggregate in a manifest is the account of the runs it lists, and    *)
(* that of a memory batch is written when all its runs are there.          *)
Aggregated(k) ==
  disk[k] # Torn /\ disk[k].aggregate # Nothing =>
    /\ Started(k)
    /\ disk[k].aggregate = AccountOf(outputs, k, disk[k].entries)
    /\ plan[k].runner = "baseline" \/ AllRun(k, disk[k].entries)

(* detailed_results holds the results files of the ok entries.             *)
Detailed ==
  /\ detailed \in Seq(ResultsFile)
  /\ Len(detailed) = Cardinality(OkEntries(entries[b]))
  /\ ScoresOf(FlattenSeq(ItemsOf(detailed))) = FlattenSeq(FilesIn(outputs, b, entries[b]))

(* The inductive invariant of ManifestAccountsForBatch: files and          *)
(* aggregates as above, and while a batch is on, what it has in hand for   *)
(* the next version of its manifest.                                       *)
ManifestInv ==
  /\ \A k \in DOMAIN plan : HasFiles(k) /\ Aggregated(k)
  /\ phase = "written" => key \in DOMAIN outputs
  /\ pc # "idle" => Detailed
  /\ pc \in {"aggregating", "finishing"} => AllRun(b, entries[b])

(* The scores of two lists joined.                                         *)
LEMMA ScoresConcat ==
  ASSUME BeamRunAssumption, NEW a \in Seq(Item), NEW c \in Seq(Item)
  PROVE  /\ ScoresOf(a) \in Seq(Score)
         /\ ScoresOf(a \o c) = ScoresOf(a) \o ScoresOf(c)
<1> DEFINE T == {r \in Seq(Item) : ScoresOf(a \o r) = ScoresOf(a) \o ScoresOf(r)}
<1>1. \A i \in Item : i.score \in Scored
  BY DEF Item
<1>2. /\ ScoresOf(<<>>) = <<>>
      /\ \A s \in Seq(Item) : ScoresOf(s) \in Seq(Score)
      /\ \A s \in Seq(Item), x \in Item :
           ScoresOf(Append(s, x)) = IF x.score = NoScore THEN ScoresOf(s)
                                    ELSE Append(ScoresOf(s), x.score)
  BY <1>1, ScoresAppend
<1>3. \A s \in Seq(Item) : ScoresOf(s) \in Seq(Score)
  BY <1>2
<1>4. <<>> \in T
  <2>1. a \o <<>> = a /\ ScoresOf(a) \o <<>> = ScoresOf(a)
    BY <1>3, ConcatEmptySeq
  <2>2. <<>> \in Seq(Item)
    OBVIOUS
  <2>3. QED
    BY <1>2, <2>1, <2>2
<1>5. ASSUME NEW r \in Seq(Item), NEW x \in Item, r \in T
      PROVE  Append(r, x) \in T
  <2> DEFINE A == ScoresOf(a)
             R == ScoresOf(r)
  <2>1. a \o Append(r, x) = Append(a \o r, x) /\ a \o r \in Seq(Item) /\ Append(r, x) \in Seq(Item)
    <3> DEFINE F == Item
    <3>1. a \in Seq(F) /\ r \in Seq(F) /\ x \in F
      OBVIOUS
    <3> HIDE DEF F
    <3>2. a \o Append(r, x) = Append(a \o r, x) /\ a \o r \in Seq(F) /\ Append(r, x) \in Seq(F)
      BY <3>1
    <3>3. QED
      BY <3>2 DEF F
  <2>2. A \in Seq(Score) /\ R \in Seq(Score)
    BY <1>3
  <2>3. ScoresOf(a \o r) = A \o R
    BY <1>5
  <2> HIDE DEF T
  <2>4. ScoresOf(Append(a \o r, x)) = IF x.score = NoScore THEN A \o R ELSE Append(A \o R, x.score)
    BY <1>2, <2>1, <2>3
  <2>5. ScoresOf(Append(r, x)) = IF x.score = NoScore THEN R ELSE Append(R, x.score)
    BY <1>2
  <2> HIDE DEF A, R
  <2>6. ScoresOf(a \o Append(r, x)) = A \o ScoresOf(Append(r, x))
    <3>1. CASE x.score = NoScore
      BY <2>1, <2>4, <2>5, <3>1
    <3>2. CASE x.score # NoScore
      <4>1. x.score \in Score
        BY <1>1, <3>2 DEF Scored
      <4>2. A \o Append(R, x.score) = Append(A \o R, x.score)
        BY <2>2, <4>1
      <4>3. QED
        BY <2>1, <2>4, <2>5, <3>2, <4>2
    <3>3. QED
      BY <3>1, <3>2
  <2>7. QED
    BY <2>1, <2>6 DEF A, T
<1> HIDE DEF T
<1>6. c \in T
  BY <1>4, <1>5, SequenceInduction
<1>7. QED
  BY <1>3, <1>6 DEF T

(* The run in progress has a results file of its own.                      *)
LEMMA RunsDiffer ==
  ASSUME BatchAssumption, BatchInv, pc = "running",
         NEW k \in DOMAIN plan, NEW n \in 1..Len(entries[k])
  PROVE  RunKey(k, entries[k][n]) # key
<1> DEFINE s == Schedule(plan[b])
           m == Attempted + 1
<1>1. b \in DOMAIN plan /\ key = RunKey(b, Current) /\ Attempted < Len(s) /\ Current = s[m]
  BY DEF BatchInv, BatchTypeOK, RunAccount, opts, Current
<1>2. CASE k # b
  BY <1>1, <1>2 DEF RunKey
<1>3. CASE k = b
  <2>1. Started(b) /\ Attempts(b) /\ plan[b] \in Batch /\ entries[b] \in Seq(BatchEntry)
    BY <1>1, PlannedBatches DEF BatchInv, BatchAccount
  <2>2. /\ s \in Seq(Runs) /\ Len(s) \in Nat
        /\ \A i, j \in 1..Len(s) : s[i] = s[j] => i = j
    BY <2>1, ScheduleCovers DEF Started
  <2>3. /\ entries[b][n].repeat = s[n].repeat /\ entries[b][n].case = s[n].case
        /\ n \in 1..Len(entries[b])
    BY <1>3, <2>1 DEF Attempts
  <2>4. Attempted = Len(entries[b]) /\ Len(entries[b]) \in Nat
    BY <2>1 DEF Attempted
  <2> HIDE DEF s
  <2>5. m \in 1..Len(s) /\ n \in 1..Len(s) /\ n # m
    BY <1>1, <2>2, <2>3, <2>4
  <2>6. s[m] \in Runs /\ s[n] \in Runs /\ s[m] # s[n]
    BY <2>2, <2>5
  <2>7. s[m].repeat # s[n].repeat \/ s[m].case # s[n].case
    BY <2>6 DEF Runs
  <2>8. QED
    BY <1>1, <1>3, <2>3, <2>7 DEF RunKey
<1>4. QED
  BY <1>2, <1>3

(* One more entry adds its scores, if it is ok, to those of the others.    *)
LEMMA FilesAppend ==
  ASSUME NEW outs, NEW k, NEW list \in Seq(BatchEntry), NEW e \in BatchEntry,
         \A n \in OkEntries(list) : ScoresOf(outs[RunKey(k, list[n])].items) \in Seq(Score),
         e.ok => ScoresOf(outs[RunKey(k, e)].items) \in Seq(Score)
  PROVE  /\ FilesIn(outs, k, list) \in Seq(Seq(Score))
         /\ FlattenSeq(FilesIn(outs, k, Append(list, e))) =
              FlattenSeq(FilesIn(outs, k, list)) \o
                IF e.ok THEN ScoresOf(outs[RunKey(k, e)].items) ELSE <<>>
<1> DEFINE scores(x) == IF x.ok THEN ScoresOf(outs[RunKey(k, x)].items) ELSE <<>>
           t == Append(list, e)
           n == Len(list)
           F == Seq(Score)
           u == FilesIn(outs, k, list)
           v == FilesIn(outs, k, t)
<1>1. /\ n \in Nat /\ DOMAIN list = 1..n /\ DOMAIN t = 1..(n + 1) /\ t[n + 1] = e
      /\ \A j \in 1..n : t[j] = list[j]
  BY AppendProperties
<1> HIDE DEF t, n
<1>2. u = [j \in 1..n |-> scores(list[j])] /\ v = [j \in 1..(n + 1) |-> scores(t[j])]
  BY <1>1 DEF FilesIn
<1>3. <<>> \in F
  OBVIOUS
<1>4. \A j \in 1..n : scores(list[j]) \in F
  <2> TAKE j \in 1..n
  <2>1. list[j].ok => j \in OkEntries(list)
    BY <1>1 DEF OkEntries
  <2>2. QED
    BY <1>3, <2>1
<1>5. scores(e) \in F
  BY <1>3
<1> HIDE DEF scores, F, u, v
<1>6. u \in Seq(F) /\ Len(u) = n /\ \A j \in 1..n : u[j] = scores(list[j])
  <2>1. u \in [1..n -> F]
    BY <1>2, <1>4
  <2>2. QED
    BY <1>1, <1>2, <2>1
<1>7. v \in Seq(F) /\ Len(v) = n + 1 /\ v[n + 1] = scores(e) /\ \A j \in 1..n : v[j] = u[j]
  <2>1. \A j \in 1..(n + 1) : v[j] = scores(t[j]) /\ scores(t[j]) \in F
    <3> TAKE j \in 1..(n + 1)
    <3>1. j = n + 1 \/ j \in 1..n
      BY <1>1
    <3>2. QED
      BY <1>1, <1>2, <1>4, <1>5, <3>1
  <2>2. v \in [1..(n + 1) -> F]
    BY <1>2, <2>1
  <2>3. v \in Seq(F) /\ Len(v) = n + 1
    BY <1>1, <1>2, <2>2
  <2>4. n + 1 \in 1..(n + 1) /\ \A j \in 1..n : j \in 1..(n + 1)
    BY <1>1
  <2>5. QED
    BY <1>1, <1>6, <2>1, <2>3, <2>4
<1>8. v = Append(u, scores(e))
  BY <1>1, <1>6, <1>7, LongerByOne
<1>9. u \in Seq(Seq(Score)) /\ scores(e) \in Seq(Score)
  BY <1>5, <1>6 DEF F
<1>10. FlattenSeq(v) = FlattenSeq(u) \o scores(e)
  BY <1>8, <1>9, FlattenAppend
<1>11. QED
  BY <1>9, <1>10 DEF u, v, t, scores

(* Each ok entry counts once.                                              *)
LEMMA OkAppend ==
  ASSUME NEW list \in Seq(BatchEntry), NEW e \in BatchEntry
  PROVE  /\ Cardinality(OkEntries(list)) \in Nat
         /\ Cardinality(OkEntries(Append(list, e))) =
              Cardinality(OkEntries(list)) + (IF e.ok THEN 1 ELSE 0)
<1> DEFINE t == Append(list, e)
           n == Len(list)
<1>1. /\ n \in Nat /\ DOMAIN list = 1..n /\ DOMAIN t = 1..(n + 1) /\ t[n + 1] = e
      /\ \A j \in 1..n : t[j] = list[j]
  BY AppendProperties
<1> HIDE DEF t, n
<1>2. OkEntries(list) \subseteq 1..n
  BY <1>1 DEF OkEntries
<1>3. IsFiniteSet(OkEntries(list)) /\ n + 1 \notin OkEntries(list)
  <2>1. IsFiniteSet(1..n)
    BY <1>1, FS_Interval
  <2>2. IsFiniteSet(OkEntries(list))
    BY <1>2, <2>1, FS_Subset
  <2>3. n + 1 \notin 1..n
    BY <1>1
  <2>4. QED
    BY <1>2, <2>2, <2>3
<1>4. OkEntries(t) = IF e.ok THEN OkEntries(list) \cup {n + 1} ELSE OkEntries(list)
  <2>1. \A j : j \in 1..(n + 1) <=> j \in 1..n \/ j = n + 1
    BY <1>1
  <2>2. \A j : j \in OkEntries(t) <=> j \in 1..(n + 1) /\ t[j].ok
    BY <1>1 DEF OkEntries
  <2>3. \A j : j \in OkEntries(list) <=> j \in 1..n /\ list[j].ok
    BY <1>1 DEF OkEntries
  <2>4. \A j : j \in OkEntries(t) <=> j \in OkEntries(list) \/ (j = n + 1 /\ e.ok)
    BY <1>1, <2>1, <2>2, <2>3
  <2>5. QED
    BY <2>4
<1>5. Cardinality(OkEntries(list)) \in Nat
  BY <1>3, FS_CardinalityType
<1>6. CASE e.ok
  <2>1. Cardinality(OkEntries(list) \cup {n + 1}) = Cardinality(OkEntries(list)) + 1
    BY <1>3, FS_AddElement
  <2>2. QED
    BY <1>4, <1>5, <1>6, <2>1 DEF t
<1>7. CASE ~e.ok
  BY <1>4, <1>5, <1>7 DEF t
<1>8. QED
  BY <1>6, <1>7

(* One more results file.                                                  *)
LEMMA ItemsAppend ==
  ASSUME NEW outs \in Seq(ResultsFile), NEW o \in ResultsFile
  PROVE  /\ FlattenSeq(ItemsOf(outs)) \in Seq(Item) /\ o.items \in Seq(Item)
         /\ FlattenSeq(ItemsOf(Append(outs, o))) = FlattenSeq(ItemsOf(outs)) \o o.items
<1> DEFINE t == Append(outs, o)
           n == Len(outs)
           F == Seq(Item)
<1>1. \A r \in ResultsFile : r.items \in F
  BY DEF ResultsFile
<1> HIDE DEF F
<1>2. /\ t \in Seq(ResultsFile) /\ n \in Nat /\ Len(t) = n + 1 /\ t[n + 1] = o
      /\ \A j \in 1..n : t[j] = outs[j]
  BY AppendProperties
<1>3. ASSUME NEW s \in Seq(ResultsFile)
      PROVE  /\ ItemsOf(s) \in Seq(F) /\ Len(ItemsOf(s)) = Len(s)
             /\ \A j \in 1..Len(s) : ItemsOf(s)[j] = s[j].items
  <2> DEFINE m == Len(s)
             u == ItemsOf(s)
  <2>1. m \in Nat /\ DOMAIN s = 1..m /\ \A j \in 1..m : s[j] \in ResultsFile
    OBVIOUS
  <2> HIDE DEF m, u
  <2>2. u = [j \in 1..m |-> s[j].items]
    BY <2>1 DEF u, ItemsOf
  <2>3. u \in [1..m -> F]
    BY <1>1, <2>1, <2>2
  <2>4. u \in Seq(F) /\ Len(u) = m
    BY <2>1, <2>3
  <2>5. QED
    BY <2>2, <2>4 DEF m, u
<1> DEFINE u == ItemsOf(outs)
           v == ItemsOf(t)
<1>4. u \in Seq(F) /\ Len(u) = n /\ \A j \in 1..n : u[j] = outs[j].items
  BY <1>3
<1>5. v \in Seq(F) /\ Len(v) = n + 1 /\ \A j \in 1..(n + 1) : v[j] = t[j].items
  BY <1>2, <1>3
<1> HIDE DEF t, n, u, v
<1>6. v[n + 1] = o.items /\ \A j \in 1..n : v[j] = u[j]
  <2>1. n + 1 \in 1..(n + 1) /\ \A j \in 1..n : j \in 1..(n + 1)
    BY <1>2
  <2>2. QED
    BY <1>2, <1>4, <1>5, <2>1
<1>7. v = Append(u, o.items)
  BY <1>2, <1>4, <1>5, <1>6, LongerByOne
<1>8. u \in Seq(Seq(Item)) /\ o.items \in Seq(Item)
  BY <1>1, <1>4 DEF F
<1>9. FlattenSeq(u) \in Seq(Item) /\ FlattenSeq(v) = FlattenSeq(u) \o o.items
  BY <1>7, <1>8, FlattenAppend
<1>10. QED
  BY <1>8, <1>9 DEF u, v, t

(* The account of a list depends on the files of its ok entries only.      *)
LEMMA AccountAgrees ==
  ASSUME NEW outs, NEW more, NEW k, NEW list,
         \A n \in OkEntries(list) : more[RunKey(k, list[n])] = outs[RunKey(k, list[n])]
  PROVE  /\ FilesIn(more, k, list) = FilesIn(outs, k, list)
         /\ AccountOf(more, k, list) = AccountOf(outs, k, list)
<1>1. \A i \in DOMAIN list :
         (IF list[i].ok THEN ScoresOf(more[RunKey(k, list[i])].items) ELSE <<>>)
         = (IF list[i].ok THEN ScoresOf(outs[RunKey(k, list[i])].items) ELSE <<>>)
  BY DEF OkEntries
<1>2. FilesIn(more, k, list) = FilesIn(outs, k, list)
  BY <1>1 DEF FilesIn
<1>3. QED
  BY <1>2 DEF AccountOf

(* A run writes its own results file and no other.                         *)
LEMMA RunStepWrites ==
  ASSUME RunStep
  PROVE  \/ outputs' = outputs /\ phase' # "written"
         \/ \E out : outputs' = Written(outputs, key, out)
<1>1. CASE WriteResults \/ WriteAgentResults \/ WriteBaselineResults
  BY <1>1 DEF WriteResults, WriteAgentResults, WriteBaselineResults, Write
<1>2. CASE AnswerQuestion \/ AskAgent \/ AnswerFromPairs \/ CloseType \/ Restore
  BY <1>2 DEF AnswerQuestion, AskAgent, AnswerFromPairs, Ask, CloseType, Restore
<1>3. CASE \/ IngestPair \/ AgentIngestPair \/ EndIngest \/ AgentEndIngest
           \/ OpenSnapshot \/ CloseSnapshot
  BY <1>3 DEF IngestPair, AgentIngestPair, EndIngest, AgentEndIngest, FeedNext, FlushFinal,
              OpenSnapshot, CloseSnapshot, AfterIngest
<1>4. QED
  BY <1>1, <1>2, <1>3 DEF RunStep

(* What the manifest lists is what was attempted, as far as it goes.       *)
LEMMA ListedFiles ==
  ASSUME BatchAssumption, BatchInv, NEW k \in DOMAIN plan, disk[k] # Torn
  PROVE  \A n \in OkEntries(disk[k].entries) :
           n \in OkEntries(entries[k]) /\ disk[k].entries[n] = entries[k][n]
<1> TAKE n \in OkEntries(disk[k].entries)
<1> DEFINE d == disk[k].entries
           e == entries[k]
<1>1. /\ d \in Seq(BatchEntry) /\ Len(d) <= Len(e)
      /\ \A i \in 1..Len(d) : d[i] = e[i]
  BY DEF BatchInv, BatchAccount, Saved
<1>2. e \in Seq(BatchEntry)
  BY PlannedBatches DEF BatchInv
<1>3. n \in DOMAIN d /\ d[n].ok
  BY DEF OkEntries
<1> HIDE DEF d, e
<1>4. n \in 1..Len(d) /\ n \in DOMAIN e /\ d[n] = e[n]
  BY <1>1, <1>2, <1>3
<1>5. QED
  BY <1>3, <1>4 DEF OkEntries, d, e

(* The steps inside a run touch no manifest; the files they write are      *)
(* those of the run itself.                                                *)
LEMMA RunningKeepsManifest ==
  ASSUME BatchAssumption, BatchInv, ManifestInv, Running
  PROVE  ManifestInv'
<1>1. /\ pc = "running" /\ RunStep /\ key' = key
      /\ plan' = plan /\ b' = b /\ pc' = pc /\ entries' = entries /\ detailed' = detailed
      /\ disk' = disk
  BY RunStepKeepsRun DEF Running, batchVars
<1>2. \/ outputs' = outputs /\ phase' # "written"
      \/ \E out : outputs' = Written(outputs, key, out)
  BY <1>1, RunStepWrites
<1>3. /\ \A f \in DOMAIN outputs : f \in DOMAIN outputs' /\ (f # key => outputs'[f] = outputs[f])
      /\ phase' = "written" => key \in DOMAIN outputs'
  BY <1>2 DEF Written
<1>4. ASSUME NEW k \in DOMAIN plan, NEW n \in OkEntries(entries[k])
      PROVE  /\ RunKey(k, entries[k][n]) \in DOMAIN outputs'
             /\ outputs'[RunKey(k, entries[k][n])] = outputs[RunKey(k, entries[k][n])]
  <2>1. entries[k] \in Seq(BatchEntry)
    BY PlannedBatches DEF BatchInv
  <2>2. n \in 1..Len(entries[k])
    BY <2>1 DEF OkEntries
  <2>3. RunKey(k, entries[k][n]) # key
    BY <1>1, <2>2, RunsDiffer
  <2>4. QED
    BY <1>3, <2>3 DEF ManifestInv, HasFiles
<1>5. ASSUME NEW k \in DOMAIN plan PROVE HasFiles(k)' /\ Aggregated(k)'
  <2>1. HasFiles(k)'
    BY <1>1, <1>4 DEF HasFiles
  <2>2. CASE disk[k] # Torn /\ disk[k].aggregate # Nothing
    <3>1. /\ Started(k) /\ disk[k].aggregate = AccountOf(outputs, k, disk[k].entries)
          /\ plan[k].runner = "baseline" \/ AllRun(k, disk[k].entries)
      BY <2>2 DEF ManifestInv, Aggregated
    <3>2. \A n \in OkEntries(disk[k].entries) :
            outputs'[RunKey(k, disk[k].entries[n])] = outputs[RunKey(k, disk[k].entries[n])]
      BY <1>4, <2>2, ListedFiles
    <3>3. AccountOf(outputs', k, disk[k].entries) = AccountOf(outputs, k, disk[k].entries)
      BY <3>2, AccountAgrees
    <3>4. QED
      BY <1>1, <2>1, <3>1, <3>3 DEF Aggregated, Started, AllRun
  <2>3. CASE ~(disk[k] # Torn /\ disk[k].aggregate # Nothing)
    BY <1>1, <2>1, <2>3 DEF Aggregated
  <2>4. QED
    BY <2>2, <2>3
<1>6. Detailed'
  <2>1. Detailed /\ b \in DOMAIN plan
    BY <1>1 DEF ManifestInv, BatchInv, BatchTypeOK
  <2>2. FilesIn(outputs', b, entries[b]) = FilesIn(outputs, b, entries[b])
    BY <1>4, <2>1, AccountAgrees
  <2>3. QED
    BY <1>1, <2>1, <2>2 DEF Detailed
<1>7. QED
  BY <1>1, <1>3, <1>5, <1>6 DEF ManifestInv

(* The entry of the run that ends.                                         *)
LEMMA CurrentEntry ==
  ASSUME BatchAssumption, BatchInv, NEW ok \in BOOLEAN, pc \in {"next", "running"},
         Attempted < Len(Schedule(opts))
  PROVE  /\ Entry(Current, ok) \in BatchEntry /\ Entry(Current, ok).ok = ok
         /\ RunKey(b, Entry(Current, ok)) = RunKey(b, Current)
         /\ b \in DOMAIN plan /\ entries[b] \in Seq(BatchEntry)
<1> DEFINE s == Schedule(plan[b])
<1>1. b \in DOMAIN plan /\ Started(b)
  BY DEF BatchInv, BatchTypeOK, BatchAccount
<1>2. plan[b] \in Batch /\ entries[b] \in Seq(BatchEntry)
  BY <1>1, PlannedBatches DEF BatchInv
<1>3. s \in Seq(Runs) /\ Len(s) \in Nat
  BY <1>1, <1>2, ScheduleCovers DEF Started
<1>4. Current = s[Attempted + 1] /\ Attempted + 1 \in 1..Len(s)
  BY <1>2, <1>3 DEF Attempted, opts, Current
<1> HIDE DEF s
<1>5. Current \in Runs
  BY <1>3, <1>4
<1>6. Current.repeat \in Nat /\ Current.case \in Nat
  BY <1>5 DEF Runs
<1>7. QED
  BY <1>1, <1>2, <1>6 DEF Entry, BatchEntry, RunKey

(* A run that returns adds its entry when its results are written; one     *)
(* that fails adds an entry that no account counts.                        *)
LEMMA CaseDoneKeepsManifest ==
  ASSUME BeamRunAssumption, BatchAssumption, BatchInv, ScoreInv, ManifestInv,
         RunReturns \/ RunFails
  PROVE  ManifestInv'
<1>1. PICK ok \in BOOLEAN : /\ CaseDone(Current, ok)
                            /\ ok => pc = "running" /\ phase = "written"
                                     /\ detailed' = Append(detailed, outputs[key])
                            /\ ~ok => detailed' = detailed
  BY DEF RunReturns, RunFails
<1> DEFINE e == Entry(Current, ok)
<1>2. pc \in {"next", "running"} /\ Attempted < Len(Schedule(opts))
  BY DEF RunReturns, RunFails, BatchInv, RunAccount
<1>3. /\ e \in BatchEntry /\ e.ok = ok /\ RunKey(b, e) = RunKey(b, Current)
      /\ b \in DOMAIN plan /\ entries[b] \in Seq(BatchEntry)
  BY <1>2, CurrentEntry
<1>4. ok => RunKey(b, e) = key /\ key \in DOMAIN outputs
  BY <1>1, <1>3 DEF BatchInv, RunAccount, ManifestInv
<1>5. /\ plan' = plan /\ b' = b /\ disk' = disk /\ outputs' = outputs /\ phase' = "off"
      /\ entries' = [entries EXCEPT ![b] = Append(entries[b], e)]
      /\ pc' = AfterCase(Current, ok)
  BY <1>1 DEF CaseDone, ClearRun
<1> HIDE DEF e
<1>6. /\ entries'[b] = Append(entries[b], e)
      /\ \A k \in DOMAIN plan \ {b} : entries'[k] = entries[k]
  BY <1>3, <1>5 DEF BatchInv, BatchTypeOK
<1>7. ASSUME NEW k \in DOMAIN plan PROVE HasFiles(k)' /\ Aggregated(k)'
  <2>1. HasFiles(k) /\ Aggregated(k)
    BY DEF ManifestInv
  <2>2. HasFiles(k)'
    <3>1. CASE k # b
      BY <1>5, <1>6, <2>1, <3>1 DEF HasFiles
    <3>2. CASE k = b
      <4> SUFFICES ASSUME NEW n \in OkEntries(entries'[b])
          PROVE  RunKey(b, entries'[b][n]) \in DOMAIN outputs
        BY <1>5, <3>2 DEF HasFiles
      <4> DEFINE t == Append(entries[b], e)
                 m == Len(entries[b])
      <4>1. /\ m \in Nat /\ DOMAIN entries[b] = 1..m /\ DOMAIN t = 1..(m + 1) /\ t[m + 1] = e
            /\ \A j \in 1..m : t[j] = entries[b][j]
        BY <1>3, AppendProperties
      <4>2. n \in DOMAIN t /\ t[n].ok /\ entries'[b] = t
        BY <1>6 DEF OkEntries
      <4> HIDE DEF t, m
      <4>3. n = m + 1 \/ n \in 1..m
        BY <4>1, <4>2
      <4>4. CASE n = m + 1
        BY <1>3, <1>4, <4>1, <4>2, <4>4
      <4>5. CASE n \in 1..m
        BY <2>1, <3>2, <4>1, <4>2, <4>5 DEF HasFiles, OkEntries
      <4>6. QED
        BY <4>3, <4>4, <4>5
    <3>3. QED
      BY <3>1, <3>2
  <2>3. Aggregated(k)'
    BY <1>5, <2>1 DEF Aggregated, Started, AllRun
  <2>4. QED
    BY <2>2, <2>3
<1>8. Detailed'
  <2> DEFINE F == FlattenSeq(FilesIn(outputs, b, entries[b]))
             G == FlattenSeq(ItemsOf(detailed))
  <2>1. /\ detailed \in Seq(ResultsFile)
        /\ Len(detailed) = Cardinality(OkEntries(entries[b]))
        /\ ScoresOf(G) = F
    BY <1>2 DEF ManifestInv, Detailed
  <2>2. \A n \in OkEntries(entries[b]) :
          ScoresOf(outputs[RunKey(b, entries[b][n])].items) \in Seq(Score)
    <3> TAKE n \in OkEntries(entries[b])
    <3>1. outputs[RunKey(b, entries[b][n])] \in ResultsFile
      BY <1>3 DEF ManifestInv, HasFiles, ScoreInv, OneScore
    <3>2. outputs[RunKey(b, entries[b][n])].items \in Seq(Item)
      BY <3>1 DEF ResultsFile
    <3>3. QED
      BY <3>2, ScoresConcat
  <2>3. ok => outputs[key] \in ResultsFile
    BY <1>4 DEF ScoreInv, OneScore
  <2>4. ok => outputs[key].items \in Seq(Item)
    BY <2>3 DEF ResultsFile
  <2>5. ok => ScoresOf(outputs[key].items) \in Seq(Score)
    BY <2>4, ScoresConcat
  <2>6. FilesIn(outputs, b, entries[b]) \in Seq(Seq(Score))
        /\ FlattenSeq(FilesIn(outputs, b, Append(entries[b], e))) =
             F \o (IF ok THEN ScoresOf(outputs[key].items) ELSE <<>>)
    <3>1. e.ok => ScoresOf(outputs[RunKey(b, e)].items) \in Seq(Score)
      BY <1>3, <1>4, <2>5
    <3>2. FilesIn(outputs, b, entries[b]) \in Seq(Seq(Score))
          /\ FlattenSeq(FilesIn(outputs, b, Append(entries[b], e))) =
               F \o (IF e.ok THEN ScoresOf(outputs[RunKey(b, e)].items) ELSE <<>>)
      BY <1>3, <2>2, <3>1, FilesAppend
    <3>3. QED
      BY <1>3, <1>4, <3>2
  <2>7. F \in Seq(Score)
    <3>1. <<>> \in Seq(Score)
      OBVIOUS
    <3>2. QED
      BY <2>6, <3>1, FlattenAppend
  <2>8. Cardinality(OkEntries(Append(entries[b], e))) =
          Cardinality(OkEntries(entries[b])) + (IF ok THEN 1 ELSE 0)
    BY <1>3, OkAppend
  <2> HIDE DEF F, G
  <2>9. CASE ok
    <3> DEFINE o == outputs[key]
    <3>1. detailed' = Append(detailed, o) /\ o \in ResultsFile
      BY <1>1, <2>3, <2>9
    <3> HIDE DEF o
    <3>2. /\ G \in Seq(Item) /\ o.items \in Seq(Item)
          /\ FlattenSeq(ItemsOf(Append(detailed, o))) = G \o o.items
      BY <2>1, <3>1, ItemsAppend DEF G
    <3>3. ScoresOf(G \o o.items) = F \o ScoresOf(o.items)
      BY <2>1, <3>2, ScoresConcat
    <3>4. Append(detailed, o) \in Seq(ResultsFile) /\ Len(Append(detailed, o)) = Len(detailed) + 1
      BY <2>1, <3>1, AppendProperties
    <3>5. QED
      BY <1>5, <1>6, <2>1, <2>6, <2>8, <2>9, <3>1, <3>2, <3>3, <3>4 DEF Detailed, o
  <2>10. CASE ~ok
    <3>1. F \o <<>> = F
      BY <2>7, ConcatEmptySeq
    <3>2. Cardinality(OkEntries(entries[b])) \in Nat
      BY <1>3, OkAppend
    <3>3. detailed' = detailed
      BY <1>1, <2>10
    <3>4. FlattenSeq(FilesIn(outputs', b', entries'[b'])) = F
      BY <1>5, <1>6, <2>6, <2>10, <3>1
    <3>5. Cardinality(OkEntries(entries'[b'])) = Cardinality(OkEntries(entries[b]))
      BY <1>5, <1>6, <2>8, <2>10, <3>2
    <3>6. ScoresOf(FlattenSeq(ItemsOf(detailed'))) = F
      BY <2>1, <3>3 DEF G
    <3>7. QED
      BY <2>1, <3>3, <3>4, <3>5, <3>6 DEF Detailed
  <2>11. QED
    BY <2>9, <2>10
<1>9. (pc \in {"aggregating", "finishing"} => AllRun(b, entries[b]))'
  <2> SUFFICES ASSUME pc' \in {"aggregating", "finishing"}
      PROVE  plan[b].stop /\ ~Last(entries'[b]).ok
    BY <1>5 DEF AllRun
  <2>1. ~ok /\ plan[b].stop
    BY <1>5 DEF AfterCase, Leaves, opts
  <2>2. Last(Append(entries[b], e)) = e
    BY <1>3 DEF Last
  <2>3. QED
    BY <1>3, <1>6, <2>1, <2>2
<1>10. QED
  BY <1>5, <1>7, <1>8, <1>9 DEF ManifestInv

(* The manifest that is written has the account of its entries.            *)
LEMMA ClosingKeepsManifest ==
  ASSUME BatchAssumption, BatchInv, ManifestInv, OpenManifest \/ CloseManifest
  PROVE  ManifestInv'
<1>1. /\ b \in DOMAIN plan /\ pc \in {"saving", "finishing"} /\ DOMAIN disk = DOMAIN plan
      /\ plan' = plan /\ entries' = entries /\ detailed' = detailed /\ outputs' = outputs
      /\ phase' = phase /\ key' = key
  BY DEF BatchInv, BatchTypeOK, OpenManifest, CloseManifest, runVars
<1>2. \A k \in DOMAIN plan : HasFiles(k)'
  BY <1>1 DEF ManifestInv, HasFiles
<1>3. \A k \in DOMAIN plan : k # b => disk'[k] = disk[k]
  BY <1>1 DEF OpenManifest, CloseManifest
<1>4. ASSUME NEW k \in DOMAIN plan, k # b PROVE Aggregated(k)'
  <2>1. disk'[k] = disk[k] /\ Aggregated(k)
    BY <1>3, <1>4 DEF ManifestInv
  <2>2. QED
    BY <1>1, <2>1 DEF Aggregated, Started, AllRun
<1>5. \A k \in DOMAIN plan : k = b => Aggregated(k)'
  <2>1. CASE OpenManifest
    <3>1. disk'[b] = Torn
      BY <1>1, <2>1 DEF OpenManifest
    <3>2. QED
      BY <3>1 DEF Aggregated
  <2>2. CASE CloseManifest
    <3> DEFINE new == Manifest(pc = "finishing")
    <3>1. disk'[b] = new
      BY <1>1, <2>2 DEF CloseManifest
    <3>2. /\ new.entries = entries[b]
          /\ new.aggregate # Nothing => /\ new.aggregate = AggregateOf(detailed)
                                        /\ pc = "finishing" \/ opts.runner = "baseline"
      BY DEF Manifest, Aggregate
    <3> HIDE DEF new
    <3>3. AggregateOf(detailed) = AccountOf(outputs, b, entries[b])
      BY <1>1 DEF ManifestInv, Detailed, AggregateOf, AccountOf, ItemsOf
    <3>4. Started(b)
      BY <1>1 DEF BatchInv, BatchAccount
    <3>5. pc = "finishing" => AllRun(b, entries[b])
      BY DEF ManifestInv
    <3>6. \A k : Aggregated(k)' <=> (disk'[k] # Torn /\ disk'[k].aggregate # Nothing =>
                    /\ Started(k)'
                    /\ disk'[k].aggregate = AccountOf(outputs, k, disk'[k].entries)
                    /\ plan[k].runner = "baseline" \/ AllRun(k, disk'[k].entries))
      BY <1>1 DEF Aggregated, Started, AllRun
    <3>7. \A k : k = b => Started(k)'
      BY <1>1, <3>4 DEF Started
    <3>8. QED
      BY <3>1, <3>2, <3>3, <3>5, <3>6, <3>7 DEF opts
  <2>3. QED
    BY <2>1, <2>2
<1>6. CASE pc' = "idle"
  BY <1>1, <1>2, <1>4, <1>5, <1>6 DEF ManifestInv
<1>7. CASE pc' # "idle"
  <2>1. b' = b /\ (pc' \in {"aggregating", "finishing"} => pc' = pc)
    BY <1>7 DEF OpenManifest, CloseManifest, EndBatch, GoOn
  <2>2. Detailed'
    BY <1>1, <2>1 DEF ManifestInv, Detailed
  <2>3. (pc \in {"aggregating", "finishing"} => AllRun(b, entries[b]))'
    BY <1>1, <2>1 DEF ManifestInv, AllRun
  <2>4. QED
    BY <1>1, <1>2, <1>4, <1>5, <2>2, <2>3 DEF ManifestInv
<1>8. QED
  BY <1>6, <1>7

(* A batch that starts has nothing to account for.                         *)
LEMMA StartKeepsManifest ==
  ASSUME BeamRunAssumption, BatchAssumption, BatchInv, ManifestInv, StartBatch
  PROVE  ManifestInv'
<1>1. /\ pc = "idle" /\ pc' \in {"idle", "next"} /\ (pc' # "idle" => b' = b)
      /\ b \in DOMAIN plan /\ entries[b] = <<>>
      /\ plan' = plan /\ entries' = entries /\ outputs' = outputs /\ disk' = disk
      /\ phase' = phase /\ key' = key /\ detailed' = <<>>
  <2>1. b \in DOMAIN plan
    BY PlannedBatches DEF StartBatch, BatchInv, BatchTypeOK
  <2>2. entries[b] = <<>>
    BY <2>1 DEF StartBatch, BatchInv, BatchAccount
  <2>3. QED
    BY <2>1, <2>2 DEF StartBatch, runVars
<1>2. \A k \in DOMAIN plan : HasFiles(k)' /\ Aggregated(k)'
  BY <1>1 DEF ManifestInv, HasFiles, Aggregated, Started, AllRun
<1>3. pc' # "idle" => Detailed'
  <2>1. <<>> \in Seq(ResultsFile) /\ Len(<<>>) = 0
    OBVIOUS
  <2>2. OkEntries(<<>>) = {} /\ FilesIn(outputs, b, <<>>) = <<>> /\ ItemsOf(<<>>) = <<>>
    BY DEF OkEntries, FilesIn, ItemsOf
  <2>3. Cardinality({}) = 0
    BY FS_EmptySet
  <2>4. FlattenSeq(<<>>) = <<>>
    <3>1. <<>> \in Seq(Seq(Item))
      OBVIOUS
    <3>2. QED
      BY <3>1, FlattenConcat
  <2>5. ScoresOf(<<>>) = <<>>
    <3>1. \A i \in Item : i.score \in Scored
      BY DEF Item
    <3>2. QED
      BY <3>1, ScoresAppend
  <2>6. QED
    BY <1>1, <2>1, <2>2, <2>3, <2>4, <2>5 DEF Detailed
<1>4. QED
  BY <1>1, <1>2, <1>3 DEF ManifestInv

(* Every step of a batch keeps the accounts, those of earlier batches and  *)
(* its own.                                                                *)
LEMMA NextKeepsManifest ==
  ASSUME BeamRunAssumption, BatchAssumption, BatchInv, ScoreInv, ManifestInv, [Next]_vars
  PROVE  ManifestInv'
<1>1. CASE StartBatch
  BY <1>1, StartKeepsManifest
<1>2. CASE Running
  BY <1>2, RunningKeepsManifest
<1>3. CASE RunReturns \/ RunFails
  BY <1>3, CaseDoneKeepsManifest
<1>4. CASE OpenManifest \/ CloseManifest
  BY <1>4, ClosingKeepsManifest
<1>5. CASE StartCase \/ AllAttempted \/ CompareAndFinish \/ Crash \/ UNCHANGED vars
  <2>1. /\ plan' = plan /\ entries' = entries /\ detailed' = detailed /\ outputs' = outputs
        /\ disk' = disk /\ (phase' = "written" => phase = "written" /\ key' = key)
    BY <1>5 DEF StartCase, StartRun, AllAttempted, CompareAndFinish, Crash, ClearRun, vars,
                runVars, batchVars, local
  <2>2. \A k \in DOMAIN plan : HasFiles(k)' /\ Aggregated(k)'
    BY <2>1 DEF ManifestInv, HasFiles, Aggregated, Started, AllRun
  <2>3. pc' = "idle" \/ (b' = b /\ pc # "idle")
    BY <1>5 DEF StartCase, AllAttempted, CompareAndFinish, EndBatch, Crash, vars, batchVars
  <2>4. pc' # "idle" => Detailed'
    BY <2>1, <2>3 DEF ManifestInv, Detailed
  <2>5. (pc \in {"aggregating", "finishing"} => AllRun(b, entries[b]))'
    <3>1. CASE AllAttempted
      BY <2>1, <2>3, <3>1 DEF AllAttempted, Attempted, opts, AllRun
    <3>2. CASE ~AllAttempted
      <4>1. pc' \in {"aggregating", "finishing"} => pc \in {"aggregating", "finishing"} /\ b' = b
        BY <1>5, <2>3, <3>2 DEF StartCase, CompareAndFinish, EndBatch, Crash, vars, batchVars
      <4>2. QED
        BY <2>1, <4>1 DEF ManifestInv, AllRun
    <3>3. QED
      BY <3>1, <3>2
  <2>6. QED
    BY <2>1, <2>2, <2>4, <2>5 DEF ManifestInv
<1>6. QED
  BY <1>1, <1>2, <1>3, <1>4, <1>5 DEF Next

(* In every history of batches, each aggregate on disk is the account of   *)
(* the files of the runs it lists.                                         *)
THEOREM ManifestsAreKept == Spec => []ManifestInv
<1>1. Init => ManifestInv
  <2> SUFFICES ASSUME Init PROVE ManifestInv
    OBVIOUS
  <2>1. phase = "off" /\ pc = "idle"
        /\ \A k \in DOMAIN plan : entries[k] = <<>> /\ disk[k] = Absent
    BY DEF Init, RunInit
  <2>2. OkEntries(<<>>) = {}
    BY DEF OkEntries
  <2>3. QED
    BY <2>1, <2>2 DEF ManifestInv, HasFiles, Aggregated, Absent
<1>2. BatchInv /\ ScoreInv /\ ManifestInv /\ [Next]_vars => ManifestInv'
  BY NextKeepsManifest, BeamRunAssumption, BatchAssumption
<1>3. QED
  BY <1>1, <1>2, BatchesKeepAccount, ScoresAreKept, PTL DEF Spec

(* The runs a manifest lists are all different.                            *)
LEMMA ListedRuns ==
  ASSUME BatchAssumption, BatchInv, NEW k \in DOMAIN plan, disk[k] # Torn, Started(k)
  PROVE  LET list == disk[k].entries
             runs == {<<list[i].repeat, list[i].case>> : i \in DOMAIN list}
         IN  /\ Cardinality(runs) = Len(list)
             /\ Len(list) = Len(Schedule(plan[k])) =>
                  runs = (1..plan[k].repeats) \X Lowest(plan[k])
<1> DEFINE list == disk[k].entries
           e == entries[k]
           s == Schedule(plan[k])
           n == Len(list)
           run == [i \in 1..n |-> <<list[i].repeat, list[i].case>>]
           runs == {<<list[i].repeat, list[i].case>> : i \in DOMAIN list}
<1>1. /\ list \in Seq(BatchEntry) /\ n <= Len(e) /\ \A i \in 1..n : list[i] = e[i]
  BY DEF BatchInv, BatchAccount, Saved
<1>2. e \in Seq(BatchEntry) /\ Len(e) \in Nat /\ plan[k] \in Batch
  BY PlannedBatches DEF BatchInv
<1>3. /\ s \in Seq(Runs) /\ Len(s) \in Nat
      /\ \A i, j \in 1..Len(s) : s[i] = s[j] => i = j
      /\ \A r, c : (\E i \in 1..Len(s) : s[i].repeat = r /\ s[i].case = c)
                   <=> r \in 1..plan[k].repeats /\ c \in Lowest(plan[k])
  BY <1>2, ScheduleCovers DEF Started
<1>4. n <= Len(s) /\ n \in Nat
      /\ \A i \in 1..n : list[i].repeat = s[i].repeat /\ list[i].case = s[i].case
  <2>1. CASE e # <<>>
    <3>1. Attempts(k)
      BY <2>1 DEF BatchInv, BatchAccount
    <3>2. /\ Len(e) <= Len(s)
          /\ \A i \in 1..Len(e) : e[i].repeat = s[i].repeat /\ e[i].case = s[i].case
      BY <3>1 DEF Attempts
    <3> HIDE DEF s, e, list
    <3>3. n \in Nat
      BY <1>1
    <3>4. QED
      BY <1>1, <1>2, <1>3, <3>2, <3>3
  <2>2. CASE e = <<>>
    <3>1. Len(e) = 0
      BY <2>2
    <3> HIDE DEF s, e, list
    <3>2. n = 0 /\ 1..n = {}
      BY <1>1, <3>1
    <3>3. QED
      BY <1>3, <3>2
  <2>3. QED
    BY <2>1, <2>2
<1>5. DOMAIN list = 1..n
  <2> HIDE DEF list
  <2>1. QED
    BY <1>1
<1> HIDE DEF list, s, n
<1>6. runs = {run[i] : i \in 1..n}
  BY <1>5
<1>7. \A i, j \in 1..n : run[i] = run[j] => i = j
  <2> TAKE i \in 1..n, j \in 1..n
  <2> HAVE run[i] = run[j]
  <2>1. list[i].repeat = list[j].repeat /\ list[i].case = list[j].case
    OBVIOUS
  <2>2. s[i].repeat = s[j].repeat /\ s[i].case = s[j].case
    BY <1>4, <2>1
  <2>3. i \in 1..Len(s) /\ j \in 1..Len(s)
    BY <1>3, <1>4
  <2>4. s[i] \in Runs /\ s[j] \in Runs
    BY <1>3, <2>3
  <2>5. s[i] = s[j]
    BY <2>2, <2>4 DEF Runs
  <2>6. QED
    BY <1>3, <2>3, <2>5
<1>8. Cardinality(runs) = n
  <2>1. run \in Bijection(1..n, runs)
    BY <1>6, <1>7 DEF Bijection, Injection, Surjection, IsInjective
  <2>2. n \in Int /\ 1 \in Int
    BY <1>4
  <2>3. /\ IsFiniteSet(1..n)
        /\ Cardinality(1..n) = IF 1 > n THEN 0 ELSE n - 1 + 1
    BY <2>2, FS_Interval
  <2>4. Cardinality(1..n) = n
    BY <1>4, <2>3
  <2> HIDE DEF run, runs
  <2>5. ExistsBijection(1..n, runs)
    BY <2>1 DEF ExistsBijection
  <2>6. Cardinality(runs) = Cardinality(1..n)
    BY <2>3, <2>5, FS_Bijection
  <2>7. QED
    BY <2>4, <2>6
<1>9. ASSUME n = Len(s)
      PROVE  runs = (1..plan[k].repeats) \X Lowest(plan[k])
  <2>1. ASSUME NEW x \in runs PROVE x \in (1..plan[k].repeats) \X Lowest(plan[k])
    <3>1. PICK i \in 1..n : x = <<list[i].repeat, list[i].case>>
      BY <1>5
    <3>2. list[i].repeat = s[i].repeat /\ list[i].case = s[i].case /\ i \in 1..Len(s)
      BY <1>4, <1>9
    <3>3. list[i].repeat \in 1..plan[k].repeats /\ list[i].case \in Lowest(plan[k])
      BY <1>3, <3>2
    <3>4. QED
      BY <3>1, <3>3
  <2>2. ASSUME NEW r \in 1..plan[k].repeats, NEW c \in Lowest(plan[k])
        PROVE  <<r, c>> \in runs
    <3>1. PICK i \in 1..Len(s) : s[i].repeat = r /\ s[i].case = c
      BY <1>3
    <3>2. i \in DOMAIN list /\ list[i].repeat = r /\ list[i].case = c
      BY <1>4, <1>5, <1>9, <3>1
    <3>3. QED
      BY <3>2
  <2> HIDE DEF runs
  <2>3. QED
    BY <2>1, <2>2
<1>10. QED
  BY <1>8, <1>9 DEF list, s, n

(* Whatever was stopped, killed or raised, a manifest with an aggregate is *)
(* the account of its batch.                                               *)
THEOREM ManifestsAccount == Spec => []ManifestAccountsForBatch
<1>1. BatchInv /\ ManifestInv => ManifestAccountsForBatch
  <2> SUFFICES ASSUME BatchInv, ManifestInv, NEW k \in DOMAIN plan,
                      disk[k] # Torn, disk[k].aggregate # Nothing
      PROVE  LET list   == disk[k].entries
                 files  == FilesIn(outputs, k, list)
                 scores == FlattenSeq(files)
                 runs   == {<<list[i].repeat, list[i].case>> : i \in DOMAIN list}
                 stopped == plan[k].stop /\ ~Last(list).ok
                 partial == plan[k].runner = "baseline"
             IN  /\ disk[k].aggregate = [runs |-> Cardinality(OkEntries(list)),
                                         questions |-> Len(scores), total |-> Total(scores)]
                 /\ Cardinality(runs) = Len(list)
                 /\ stopped \/ partial \/ runs = (1..plan[k].repeats) \X Lowest(plan[k])
    BY DEF ManifestAccountsForBatch, FilesIn
  <2>1. /\ Started(k)
        /\ disk[k].aggregate = AccountOf(outputs, k, disk[k].entries)
        /\ plan[k].runner = "baseline" \/ AllRun(k, disk[k].entries)
    BY DEF ManifestInv, Aggregated
  <2>2. QED
    BY <2>1, ListedRuns, BatchAssumption DEF AccountOf, AllRun
<1>2. QED
  BY <1>1, BatchesKeepAccount, ManifestsAreKept, PTL

-----------------------------------------------------------------------------
(* Replays.                                                                *)

(* How many questions the turns of the chat have, one by one, before the   *)
(* turn t, and in all.                                                     *)
Counts == [t \in DOMAIN Probes |-> Len(Probes[t])]
AskedBefore(t) == Total(SubSeq(Counts, 1, t - 1))
QuestionCount == AskedBefore(Len(Probes) + 1)

(* Each type is asked as many questions as it has, in the order of types,  *)
(* and every answer of a standard run is given the same memory and tail.   *)
QuestionsInv ==
  /\ tally.type \in 1..(Len(Probes) + 1)
  /\ \A n \in DOMAIN results : results[n].type <= tally.type
  /\ Len(results) = AskedBefore(tally.type) + Answered(tally.type)
  /\ IF Asking THEN Answered(tally.type) <= Len(Probes[tally.type])
     ELSE Answered(tally.type) = 0
  /\ phase \notin {"answer", "written"} => results = <<>>
  /\ \A n \in DOMAIN results : args.runner = "standard" => results[n].context = MemoryContext

(* What the answers in a results file were given.                          *)
FrozenFor(f, source) ==
  /\ f \in DOMAIN outputs /\ source \in DOMAIN snapshots
  /\ Len(outputs[f].items) = QuestionCount
  /\ \A i \in 1..QuestionCount :
       outputs[f].items[i].context =
         [recorded |-> snapshots[source].recorded, tail |-> snapshots[source].active]

(* The snapshot that a run wrote, or the one that it restored.             *)
Origin == IF args.source = Nothing THEN key ELSE args.source

(* A run that feeds the chat restores nothing.                             *)
RunSource ==
  /\ phase \in {"ingest", "snapshot", "snapshotting"} => args.source = Nothing
  /\ phase = "restore" => args.source # Nothing
  /\ phase = "snapshotting" => key \in DOMAIN snapshots

(* A run that answers has the memory and the tail of the snapshot it is    *)
(* to answer from.                                                         *)
AnswersFrozen ==
  phase \in {"answer", "written"} /\ args.runner = "standard" =>
    /\ Origin \in DOMAIN snapshots
    /\ snapshots[Origin].recorded = recorded /\ snapshots[Origin].active = active

(* What it has written was answered from that snapshot.                    *)
WrittenFrozen ==
  phase = "written" =>
    /\ outputs[key].snapshot <=> args.runner = "standard" /\ args.source = Nothing
    /\ args.runner = "standard" => FrozenFor(key, Origin)

(* A batch whose ok runs leave snapshots.                                  *)
Feeds(k) == plan[k].runner = "standard" /\ plan[k].replay = 0

(* The ok entries of the replayed manifest a run may be taken from.        *)
Prior(k) == disk[plan[k].replay].entries
(* Those of the same case, those of the same repeat too, and the ones      *)
(* _resolve_snapshot takes: the same repeat if there is one, or else any.  *)
SameCase(k, run) == {m \in OkEntries(Prior(k)) : Prior(k)[m].case = run.case}
SameRun(k, run)  == {m \in SameCase(k, run) : Prior(k)[m].repeat = run.repeat}
Sources(k, run)  == IF SameRun(k, run) # {} THEN SameRun(k, run) ELSE SameCase(k, run)

(* The file f answers from the snapshot of a run that was to be replayed.  *)
Replays(k, run, f) ==
  /\ disk[plan[k].replay] # Torn /\ Feeds(plan[k].replay)
  /\ \E m \in Sources(k, run) : FrozenFor(f, RunKey(plan[k].replay, Prior(k)[m]))

(* What an entry of a manifest says of the file of its run.                *)
FrozenEntry(k, e) ==
  /\ e.snapshot <=> e.ok /\ Feeds(k)
  /\ e.ok /\ Feeds(k) => FrozenFor(RunKey(k, e), RunKey(k, e))
  /\ e.ok /\ plan[k].replay # 0 => Replays(k, e, RunKey(k, e))

(* The run in progress was started with a snapshot that the lookup gave.   *)
RunFrozen ==
  pc = "running" =>
    /\ args.runner = opts.runner
    /\ IF opts.replay = 0 THEN args.source = Nothing
       ELSE \E found \in ResolveSnapshot(lookup, Current) : args.source = RunKey(opts.replay, found)

(* The lookup is that of the manifest on disk, which nobody writes         *)
(* meanwhile.                                                              *)
LookupFrozen ==
  pc # "idle" /\ opts.replay # 0 =>
    disk[opts.replay] # Torn /\ lookup = SnapshotLookup(opts.replay)

(* The inductive invariant of ReplayAnswersFromFrozenMemory.               *)
FrozenInv ==
  /\ QuestionsInv /\ RunSource /\ AnswersFrozen /\ WrittenFrozen /\ RunFrozen /\ LookupFrozen
  /\ pc # "running" => phase = "off"
  /\ \A k \in DOMAIN plan : \A n \in DOMAIN entries[k] : FrozenEntry(k, entries[k][n])

(* The questions of one more type.                                         *)
LEMMA AskedBeforeNext ==
  ASSUME BeamRunAssumption
  PROVE  /\ Len(Probes) \in Nat
         /\ AskedBefore(1) = 0
         /\ \A t \in 1..Len(Probes) :
              /\ Len(Probes[t]) \in Nat /\ AskedBefore(t) \in Nat
              /\ AskedBefore(t + 1) = AskedBefore(t) + Len(Probes[t])
<1> DEFINE n == Len(Probes)
<1>1. n \in Nat /\ DOMAIN Probes = 1..n /\ \A t \in 1..n : Probes[t] \in Seq(Nat)
  BY DEF BeamRunAssumption
<1>2. \A t \in 1..n : Len(Probes[t]) \in Nat
  BY <1>1
<1>3. Counts \in Seq(Nat) /\ Len(Counts) = n /\ \A t \in 1..n : Counts[t] = Len(Probes[t])
  BY <1>1, <1>2 DEF Counts
<1> HIDE DEF n
<1>4. AskedBefore(1) = 0
  <2>1. SubSeq(Counts, 1, 1 - 1) = <<>>
    BY <1>3
  <2>2. QED
    BY <2>1, TotalAppend DEF AskedBefore
<1>5. ASSUME NEW t \in 1..n
      PROVE  AskedBefore(t) \in Nat /\ AskedBefore(t + 1) = AskedBefore(t) + Len(Probes[t])
  <2> DEFINE s == SubSeq(Counts, 1, t - 1)
             x == Counts[t]
  <2>1. s \in Seq(Nat) /\ x \in Nat /\ x = Len(Probes[t])
    BY <1>1, <1>2, <1>3
  <2>2. SubSeq(Counts, 1, (t + 1) - 1) = Append(s, x)
    BY <1>1, <1>3
  <2> HIDE DEF s, x
  <2>3. Total(s) \in Nat /\ Total(Append(s, x)) = Total(s) + x
    BY <2>1, TotalAppend
  <2>4. AskedBefore(t) = Total(s) /\ AskedBefore(t + 1) = Total(Append(s, x))
    BY <2>2 DEF AskedBefore, s
  <2>5. QED
    BY <2>1, <2>3, <2>4
<1>6. QED
  BY <1>1, <1>2, <1>4, <1>5 DEF n

(* The number of questions is a number.                                    *)
LEMMA QuestionCountIsNat ==
  ASSUME BeamRunAssumption
  PROVE  QuestionCount \in Nat
<1>1. Probes \in Seq(Seq(Nat)) /\ Len(Probes) \in Nat /\ DOMAIN Probes = 1..Len(Probes)
  BY DEF BeamRunAssumption
<1>2. Counts \in Seq(Nat) /\ Len(Counts) = Len(Probes)
  BY <1>1 DEF Counts
<1>3. SubSeq(Counts, 1, (Len(Probes) + 1) - 1) \in Seq(Nat)
  BY <1>1, <1>2
<1>4. QED
  BY <1>3, TotalAppend DEF QuestionCount, AskedBefore

(* The positions of the answers to questions of one type.                  *)
OfType(s, t) == {n \in DOMAIN s : s[n].type = t}

(* One more answer counts for its type only.                               *)
LEMMA OfTypeAppend ==
  ASSUME NEW s \in Seq(Item), NEW e \in Item, NEW t \in Nat
  PROVE  /\ Cardinality(OfType(s, t)) \in Nat
         /\ e.type = t => Cardinality(OfType(Append(s, e), t)) = Cardinality(OfType(s, t)) + 1
<1> DEFINE u == Append(s, e)
           n == Len(s)
<1>1. /\ n \in Nat /\ DOMAIN s = 1..n /\ DOMAIN u = 1..(n + 1) /\ u[n + 1] = e
      /\ \A j \in 1..n : u[j] = s[j]
  BY AppendProperties
<1> HIDE DEF u, n
<1>2. OfType(s, t) \subseteq 1..n
  BY <1>1 DEF OfType
<1>3. IsFiniteSet(OfType(s, t)) /\ n + 1 \notin OfType(s, t)
  <2>1. IsFiniteSet(1..n)
    BY <1>1, FS_Interval
  <2>2. IsFiniteSet(OfType(s, t))
    BY <1>2, <2>1, FS_Subset
  <2>3. n + 1 \notin 1..n
    BY <1>1
  <2>4. QED
    BY <1>2, <2>2, <2>3
<1>4. Cardinality(OfType(s, t)) \in Nat
  BY <1>3, FS_CardinalityType
<1>5. ASSUME e.type = t
      PROVE  Cardinality(OfType(u, t)) = Cardinality(OfType(s, t)) + 1
  <2>1. \A j : j \in 1..(n + 1) <=> j \in 1..n \/ j = n + 1
    BY <1>1
  <2>2. OfType(u, t) = OfType(s, t) \cup {n + 1}
    BY <1>1, <1>5, <2>1 DEF OfType
  <2>3. Cardinality(OfType(s, t) \cup {n + 1}) = Cardinality(OfType(s, t)) + 1
    BY <1>3, FS_AddElement
  <2>4. QED
    BY <2>2, <2>3
<1>6. QED
  BY <1>4, <1>5 DEF u

(* Asking one question.                                                    *)
LEMMA AskKeepsQuestions ==
  ASSUME BeamRunAssumption, TranscriptInv, ScoreInv, QuestionsInv,
         AnswerQuestion \/ AskAgent \/ AnswerFromPairs
  PROVE  QuestionsInv'
<1>1. PICK context : /\ \E replies \in RepliesTo(Probes[tally.type][NextItem]) :
                           Record(context, replies)
                     /\ context \in Contexts /\ Remains /\ phase = "answer"
                     /\ args.runner = "standard" => context = MemoryContext
                     /\ UNCHANGED <<args, key, phase, fed, recorded, active, snapshots, outputs>>
  BY ContextsOfAnswers DEF AnswerQuestion, AskAgent, AnswerFromPairs, Ask
<1> DEFINE k == IF args.judge THEN Probes[tally.type][NextItem] ELSE 0
<1>2. PICK replies : replies \in [1..k -> JudgeReplies] /\ Record(context, replies)
  BY <1>1 DEF RepliesTo
<1>3. results \in Seq(Item) /\ TallyOK /\ k \in Nat
  BY <1>1, RubricOfNext DEF ScoreInv
<1> HIDE DEF k
<1> DEFINE score == JudgeScore(replies)
           e == [type |-> tally.type, judged |-> score, score |-> score, context |-> context]
           t == tally.type
<1>4. score \in Scored
  BY <1>2, <1>3, JudgeScoreIsScore
<1>5. /\ results' = Append(results, e)
      /\ tally' = IF score = NoScore THEN tally
                  ELSE [tally EXCEPT !.score = @ + score, !.judged = @ + 1]
  BY <1>2 DEF Record
<1> HIDE DEF score
<1>6. tally \in [type: Nat \ {0}, score: Nat, judged: Nat, total: Nat, questions: Nat]
  BY <1>3 DEF TallyOK
<1>7. tally'.type = t
  BY <1>5, <1>6
<1>8. e \in Item /\ e.type = t /\ e.context = context /\ t \in Nat
  BY <1>1, <1>4, <1>6 DEF Item
<1> HIDE DEF e, t
<1>9. /\ Cardinality(OfType(results, t)) \in Nat
      /\ Cardinality(OfType(results', t)) = Cardinality(OfType(results, t)) + 1
  BY <1>3, <1>5, <1>8, OfTypeAppend
<1>10. Answered(t) = Cardinality(OfType(results, t))
       /\ Answered(tally.type)' = Cardinality(OfType(results', t))
  BY <1>7 DEF Answered, OfType
<1>11. Answered(t) \in Nat /\ Answered(tally.type)' = Answered(t) + 1
  BY <1>9, <1>10
<1>12. /\ Len(results) \in Nat /\ Len(results') = Len(results) + 1
       /\ DOMAIN results' = 1..(Len(results) + 1) /\ results'[Len(results) + 1] = e
       /\ \A n \in 1..Len(results) : results'[n] = results[n] /\ n \in DOMAIN results
  BY <1>3, <1>5, <1>8, AppendProperties
<1>13. /\ t \in 1..(Len(Probes) + 1) /\ Len(results) = AskedBefore(t) + Answered(t)
       /\ t <= Len(Probes) /\ Answered(t) + 1 <= Len(Probes[t])
  BY <1>1 DEF QuestionsInv, Remains, Asking, NextItem, t
<1>14. AskedBefore(t) \in Nat
  <2>1. Len(Probes) \in Nat /\ \A u \in 1..Len(Probes) : AskedBefore(u) \in Nat
    BY AskedBeforeNext
  <2>2. QED
    BY <1>13, <2>1
<1>15. AskedBefore(tally.type)' = AskedBefore(t)
  BY <1>7 DEF AskedBefore, Counts
<1>16. Len(results)' = AskedBefore(tally.type)' + Answered(tally.type)'
  BY <1>11, <1>12, <1>13, <1>14, <1>15
<1>17. \A n \in DOMAIN results' : n \in DOMAIN results \/ results'[n] = e
  BY <1>12
<1>18. \A n \in DOMAIN results' : results'[n].type <= t
  <2>1. \A n \in DOMAIN results : results[n].type <= t /\ results'[n] = results[n]
    BY <1>3, <1>12 DEF QuestionsInv, t
  <2>2. QED
    BY <1>8, <1>17, <2>1
<1>19. \A n \in DOMAIN results' : args.runner = "standard" => results'[n].context = MemoryContext
  <2>1. \A n \in DOMAIN results : /\ args.runner = "standard" => results[n].context = MemoryContext
                                  /\ results'[n] = results[n]
    BY <1>3, <1>12 DEF QuestionsInv
  <2>2. QED
    BY <1>1, <1>8, <1>17, <2>1
<1>20. Asking' /\ MemoryContext' = MemoryContext
  BY <1>1, <1>7, <1>13 DEF Asking, MemoryContext
<1>21. QED
  BY <1>1, <1>7, <1>11, <1>13, <1>16, <1>18, <1>19, <1>20 DEF QuestionsInv

(* Going on to the next type, of which nothing has been asked.             *)
LEMMA CloseKeepsQuestions ==
  ASSUME BeamRunAssumption, ScoreInv, QuestionsInv, CloseType
  PROVE  QuestionsInv'
<1> DEFINE t == tally.type
<1>1. /\ tally' = NextType /\ results' = results /\ phase' = phase /\ phase = "answer"
      /\ args' = args /\ recorded' = recorded /\ active' = active /\ Asking /\ ~Remains
  BY DEF CloseType
<1>2. tally'.type = t + 1
  BY <1>1 DEF NextType
<1>3. /\ Len(Probes) \in Nat /\ t \in 1..(Len(Probes) + 1) /\ t <= Len(Probes)
      /\ Len(results) = AskedBefore(t) + Answered(t) /\ Answered(t) <= Len(Probes[t])
      /\ results \in Seq(Item)
  BY <1>1, AskedBeforeNext DEF QuestionsInv, ScoreInv, Asking
<1>4. t \in 1..Len(Probes) /\ t \in Nat
  BY <1>3
<1>5. /\ Len(Probes[t]) \in Nat /\ AskedBefore(t) \in Nat
      /\ AskedBefore(t + 1) = AskedBefore(t) + Len(Probes[t])
  BY <1>4, AskedBeforeNext
<1>6. ~(Answered(t) + 1 <= Len(Probes[t]))
  BY <1>1 DEF Remains, NextItem
<1> HIDE DEF t
<1>7. \A n \in DOMAIN results : results[n].type <= t /\ results[n].type \in Nat
  <2>1. \A n \in DOMAIN results : results[n] \in Item
    BY <1>3
  <2>2. \A n \in DOMAIN results : results[n].type \in Nat
    BY <2>1 DEF Item
  <2>3. QED
    BY <2>2 DEF QuestionsInv, t
<1>8. Answered(t) \in Nat
  <2>1. [type |-> t, judged |-> NoScore, score |-> NoScore, context |-> <<>>] \in Item
    BY <1>4 DEF Item, Scored, Contexts
  <2>2. Cardinality(OfType(results, t)) \in Nat
    BY <1>3, <1>4, <2>1, OfTypeAppend
  <2>3. QED
    BY <2>2 DEF Answered, OfType
<1>9. Answered(t) = Len(Probes[t])
  BY <1>3, <1>5, <1>6, <1>8
<1>10. Answered(tally.type)' = 0
  <2> DEFINE D == {n \in DOMAIN results : results[n].type = t + 1}
  <2>1. \A n \in DOMAIN results : results[n].type # t + 1
    BY <1>4, <1>7
  <2>2. D = {}
    BY <2>1
  <2>3. Answered(tally.type)' = Cardinality(D)
    BY <1>1, <1>2 DEF Answered
  <2>4. QED
    BY <2>2, <2>3, FS_EmptySet
<1>11. AskedBefore(tally.type)' = AskedBefore(t + 1)
  BY <1>2 DEF AskedBefore, Counts
<1>12. Len(results)' = AskedBefore(tally.type)' + Answered(tally.type)'
  BY <1>1, <1>3, <1>5, <1>9, <1>10, <1>11
<1>13. tally'.type \in 1..(Len(Probes) + 1) /\ (Asking' <=> t + 1 <= Len(Probes))
  BY <1>2, <1>3, <1>4 DEF Asking
<1>14. \A n \in DOMAIN results : results[n].type <= t + 1
  BY <1>4, <1>7
<1>15. Asking' => Answered(tally.type)' <= Len(Probes[tally.type])'
  <2>1. ASSUME Asking' PROVE 0 <= Len(Probes[t + 1])
    <3>1. t + 1 \in 1..Len(Probes)
      BY <1>4, <1>13, <2>1
    <3>2. Len(Probes[t + 1]) \in Nat
      BY <3>1, AskedBeforeNext
    <3>3. QED
      BY <3>2
  <2>2. QED
    BY <1>2, <1>10, <2>1
<1>16. QED
  BY <1>1, <1>2, <1>10, <1>12, <1>13, <1>14, <1>15 DEF QuestionsInv, MemoryContext

(* Nothing asked.                                                          *)
LEMMA NothingAsked ==
  ASSUME BeamRunAssumption
  PROVE  /\ NoTally.type = 1 /\ Len(Probes) \in Nat /\ AskedBefore(1) = 0
         /\ 1 <= Len(Probes) => 0 <= Len(Probes[1])
         /\ Cardinality(OfType(<<>>, 1)) = 0
<1>1. NoTally.type = 1 /\ Len(Probes) \in Nat /\ AskedBefore(1) = 0
  BY AskedBeforeNext DEF NoTally
<1>2. OfType(<<>>, 1) = {}
  BY DEF OfType
<1>3. ASSUME 1 <= Len(Probes) PROVE Len(Probes[1]) \in Nat
  <2>1. 1 \in 1..Len(Probes)
    BY <1>1, <1>3
  <2>2. QED
    BY <2>1, AskedBeforeNext
<1>4. Cardinality(OfType(<<>>, 1)) = 0
  BY <1>2, FS_EmptySet
<1>5. 1 <= Len(Probes) => 0 <= Len(Probes[1])
  BY <1>3
<1>6. QED
  BY <1>1, <1>4, <1>5

(* A step keeps the count of questions, and every answer's context.        *)
LEMMA NextKeepsQuestions ==
  ASSUME BeamRunAssumption, TranscriptInv, ScoreInv, QuestionsInv, [Next]_vars,
         pc # "running" => phase = "off"
  PROVE  QuestionsInv'
<1>1. CASE RunReturns \/ RunFails \/ Crash
  <2>1. results' = <<>> /\ tally' = NoTally
    BY <1>1 DEF RunReturns, RunFails, Crash, CaseDone, ClearRun
  <2>2. tally'.type = 1 /\ Answered(tally.type)' = 0 /\ AskedBefore(tally.type)' = 0
    <3>1. tally'.type = 1
      BY <2>1, NothingAsked
    <3>2. QED
      BY <2>1, <3>1, NothingAsked DEF Answered, OfType, AskedBefore, Counts
  <2>3. Len(results)' = 0 /\ DOMAIN results' = {}
    BY <2>1
  <2>4. (IF Asking THEN Answered(tally.type) <= Len(Probes[tally.type])
         ELSE Answered(tally.type) = 0)'
    BY <2>2, NothingAsked DEF Asking
  <2>5. QED
    BY <2>1, <2>2, <2>3, <2>4, NothingAsked DEF QuestionsInv
<1>2. CASE Running
  <2>1. CASE AnswerQuestion \/ AskAgent \/ AnswerFromPairs
    BY <2>1, AskKeepsQuestions
  <2>2. CASE CloseType
    BY <2>2, CloseKeepsQuestions
  <2>3. CASE WriteResults \/ WriteAgentResults \/ WriteBaselineResults
    <3>1. /\ phase = "answer" /\ phase' = "written" /\ args' = args /\ tally' = tally
          /\ results' = results /\ recorded' = recorded /\ active' = active
      BY <2>3 DEF WriteResults, WriteAgentResults, WriteBaselineResults, Write, local
    <3>2. QED
      BY <3>1 DEF QuestionsInv, Answered, Asking, MemoryContext, AskedBefore, Counts
  <2>4. CASE \/ Restore \/ IngestPair \/ AgentIngestPair \/ EndIngest \/ AgentEndIngest
             \/ OpenSnapshot \/ CloseSnapshot
    <3>1. /\ phase \notin {"answer", "written"} /\ tally' = tally /\ results' = results
      BY <2>4 DEF Restore, IngestPair, AgentIngestPair, EndIngest, AgentEndIngest, FeedNext,
                  FlushFinal, OpenSnapshot, CloseSnapshot, local
    <3>2. results = <<>>
      BY <3>1 DEF QuestionsInv
    <3>3. QED
      BY <3>1, <3>2 DEF QuestionsInv, Answered, Asking, AskedBefore, Counts
  <2>5. QED
    BY <1>2, <2>1, <2>2, <2>3, <2>4 DEF Running, RunStep
<1>3. CASE StartCase
  <2>1. phase = "off" /\ tally' = tally /\ results' = results
    BY <1>3 DEF StartCase, StartRun, local
  <2>2. results = <<>>
    BY <2>1 DEF QuestionsInv
  <2>3. QED
    BY <2>1, <2>2 DEF QuestionsInv, Answered, Asking, AskedBefore, Counts
<1>4. CASE UNCHANGED runVars
  BY <1>4 DEF runVars, local, QuestionsInv, Answered, Asking, MemoryContext, AskedBefore, Counts
<1>5. QED
  BY <1>1, <1>2, <1>3, <1>4 DEF Next, vars, StartBatch, OpenManifest, CloseManifest,
        AllAttempted, CompareAndFinish

(* Files that stay keep what their answers were given.                     *)
LEMMA FrozenStays ==
  ASSUME NEW f, NEW source, FrozenFor(f, source),
         f \in DOMAIN outputs', outputs'[f] = outputs[f],
         source \in DOMAIN snapshots', snapshots'[source] = snapshots[source]
  PROVE  FrozenFor(f, source)'
  BY DEF FrozenFor, QuestionCount, AskedBefore, Counts

(* The results file of a standard run has every question, asked with the   *)
(* memory and the tail of its snapshot.                                    *)
LEMMA WrittenIsFrozen ==
  ASSUME BeamRunAssumption, ScoreInv, QuestionsInv, AnswersFrozen,
         WriteResults \/ WriteAgentResults \/ WriteBaselineResults
  PROVE  WrittenFrozen'
<1>1. /\ phase = "answer" /\ ~Asking /\ args' = args /\ key' = key /\ snapshots' = snapshots
      /\ recorded' = recorded /\ active' = active
  BY DEF WriteResults, WriteAgentResults, WriteBaselineResults, Write, local
<1>2. Origin' = Origin
  BY <1>1 DEF Origin
<1>3. CASE WriteAgentResults \/ WriteBaselineResults
  <2>1. PICK out \in {AgentOutput, OwnedOutput} : outputs' = Written(outputs, key, out)
                                                  /\ args.runner # "standard" /\ ~out.snapshot
    BY <1>3 DEF WriteAgentResults, WriteBaselineResults, Write, AgentOutput, OwnedOutput
  <2>2. outputs'[key] = out
    BY <2>1 DEF Written
  <2>3. QED
    BY <1>1, <2>1, <2>2 DEF WrittenFrozen
<1>4. CASE WriteResults
  <2> DEFINE out == OwnedOutput
             items == ProductionItems(results)
  <2>1. outputs'[key] = out /\ args.runner = "standard" /\ key \in DOMAIN outputs'
    BY <1>4 DEF WriteResults, Write, Written
  <2>2. out.items = items /\ (out.snapshot <=> args.runner = "standard" /\ args.source = Nothing)
    BY DEF OwnedOutput
  <2> HIDE DEF out
  <2>3. /\ results \in Seq(Item) /\ Len(results) \in Nat /\ DOMAIN results = 1..Len(results)
    BY DEF ScoreInv
  <2>4. /\ Len(items) = Len(results)
        /\ \A i \in 1..Len(results) : items[i].context = results[i].context
    <3>1. CASE args.oracle
      BY <2>3, <3>1, UnscoredItems DEF ProductionItems
    <3>2. CASE ~args.oracle
      BY <3>2 DEF ProductionItems
    <3>3. QED
      BY <3>1, <3>2
  <2> HIDE DEF items
  <2>5. Len(results) = QuestionCount
    <3>1. /\ tally.type \in 1..(Len(Probes) + 1) /\ Len(Probes) \in Nat
          /\ ~(tally.type <= Len(Probes)) /\ Answered(tally.type) = 0
      BY <1>1, AskedBeforeNext DEF QuestionsInv, Asking
    <3>2. tally.type = Len(Probes) + 1
      BY <3>1
    <3>3. Len(results) = QuestionCount + 0
      BY <3>1, <3>2 DEF QuestionsInv, QuestionCount
    <3>4. QED
      BY <3>3, QuestionCountIsNat
  <2>6. \A i \in 1..Len(results) : results[i].context = MemoryContext
    BY <2>1, <2>3 DEF QuestionsInv
  <2>7. MemoryContext = [recorded |-> snapshots[Origin].recorded, tail |-> snapshots[Origin].active]
    BY <1>1, <2>1 DEF AnswersFrozen, MemoryContext
  <2>8. QuestionCount' = QuestionCount
    BY DEF QuestionCount, AskedBefore, Counts
  <2>9. FrozenFor(key, Origin)'
    <3>1. Origin \in DOMAIN snapshots
      BY <1>1, <2>1 DEF AnswersFrozen
    <3>2. QED
      BY <1>1, <1>2, <2>1, <2>2, <2>4, <2>5, <2>6, <2>7, <2>8, <3>1 DEF FrozenFor
  <2>10. QED
    BY <1>1, <1>2, <2>1, <2>2, <2>9 DEF WrittenFrozen
<1>5. QED
  BY <1>3, <1>4

(* While a run goes on, its answers come from its snapshot or the one it   *)
(* restored.                                                               *)
LEMMA RunStepKeepsFrozen ==
  ASSUME BeamRunAssumption, TranscriptInv, ScoreInv, QuestionsInv, RunSource, AnswersFrozen,
         WrittenFrozen, RunStep
  PROVE  RunSource' /\ AnswersFrozen' /\ WrittenFrozen'
<1>1. args' = args /\ key' = key
  BY RunStepKeepsRun
<1>2. Origin' = Origin
  BY <1>1 DEF Origin
<1>3. CASE WriteResults \/ WriteAgentResults \/ WriteBaselineResults
  <2>1. /\ phase = "answer" /\ phase' = "written" /\ snapshots' = snapshots
        /\ recorded' = recorded /\ active' = active
    BY <1>3 DEF WriteResults, WriteAgentResults, WriteBaselineResults, Write, local
  <2>2. WrittenFrozen'
    BY <1>3, WrittenIsFrozen
  <2>3. QED
    BY <1>1, <1>2, <2>1, <2>2 DEF RunSource, AnswersFrozen
<1>4. CASE AnswerQuestion \/ AskAgent \/ AnswerFromPairs \/ CloseType
  <2>1. /\ phase = "answer" /\ phase' = "answer" /\ snapshots' = snapshots
        /\ recorded' = recorded /\ active' = active
    BY <1>4 DEF AnswerQuestion, AskAgent, AnswerFromPairs, Ask, CloseType
  <2>2. QED
    BY <1>1, <1>2, <2>1 DEF RunSource, AnswersFrozen, WrittenFrozen
<1>5. CASE IngestPair \/ AgentIngestPair \/ EndIngest \/ AgentEndIngest
  <2>1. /\ phase = "ingest" /\ phase' \in {"ingest", "snapshot", "answer"}
        /\ phase' = "answer" => args.runner # "standard"
    BY <1>5 DEF IngestPair, AgentIngestPair, EndIngest, AgentEndIngest, FeedNext, FlushFinal,
                AfterIngest
  <2>2. QED
    BY <1>1, <2>1 DEF RunSource, AnswersFrozen, WrittenFrozen
<1>6. CASE Restore
  BY <1>1, <1>6 DEF Restore, RunSource, AnswersFrozen, WrittenFrozen, Origin
<1>7. CASE OpenSnapshot
  BY <1>1, <1>7 DEF OpenSnapshot, Written, RunSource, AnswersFrozen, WrittenFrozen
<1>8. CASE CloseSnapshot
  <2>1. /\ phase' = "answer" /\ recorded' = recorded /\ active' = active
        /\ args.source = Nothing /\ key \in DOMAIN snapshots
        /\ snapshots' = [snapshots EXCEPT ![key] =
             [profile |-> args.profile, recorded |-> recorded, active |-> active]]
    BY <1>8 DEF CloseSnapshot, RunSource, local
  <2>2. Origin' = key /\ key \in DOMAIN snapshots'
        /\ snapshots'[key].recorded = recorded /\ snapshots'[key].active = active
    BY <1>1, <2>1 DEF Origin
  <2>3. QED
    BY <1>1, <2>1, <2>2 DEF RunSource, AnswersFrozen, WrittenFrozen
<1>9. QED
  BY <1>3, <1>4, <1>5, <1>6, <1>7, <1>8 DEF RunStep

(* A run writes its own files and no others.                               *)
LEMMA RunKeepsFiles ==
  ASSUME RunStep
  PROVE  /\ \A f \in DOMAIN outputs : f # key => /\ f \in DOMAIN outputs'
                                                 /\ outputs'[f] = outputs[f]
         /\ \A f \in DOMAIN snapshots : f # key => /\ f \in DOMAIN snapshots'
                                                   /\ snapshots'[f] = snapshots[f]
<1>1. outputs' = outputs \/ \E out : outputs' = Written(outputs, key, out)
  BY RunStepWrites
<1>2. \/ snapshots' = snapshots
      \/ snapshots' = Written(snapshots, key, Torn)
      \/ \E s : snapshots' = [snapshots EXCEPT ![key] = s]
  BY DEF RunStep, Restore, IngestPair, AgentIngestPair, FeedNext, EndIngest, AgentEndIngest,
         FlushFinal, OpenSnapshot, CloseSnapshot, AnswerQuestion, AskAgent, AnswerFromPairs,
         Ask, CloseType, WriteResults, WriteAgentResults, WriteBaselineResults, Write
<1>3. QED
  BY <1>1, <1>2 DEF Written

(* The batch that is replayed came before.                                 *)
LEMMA ReplayedBatch ==
  ASSUME BatchAssumption, BatchInv, NEW k \in DOMAIN plan, plan[k].replay # 0
  PROVE  plan[k].replay \in DOMAIN plan /\ plan[k].replay < k
<1>1. /\ Len(plan) \in Nat /\ DOMAIN plan = 1..Len(plan)
      /\ plan[k].replay \in Nat /\ plan[k].replay < k /\ k \in Nat
  BY PlannedBatches DEF BatchInv
<1>2. QED
  BY <1>1

(* An entry keeps its account when the files that it names stay.           *)
LEMMA EntryStays ==
  ASSUME NEW k, NEW e, FrozenEntry(k, e), plan' = plan,
         e.ok /\ plan[k].replay # 0 => disk'[plan[k].replay] = disk[plan[k].replay],
         e.ok /\ Feeds(k) => FrozenFor(RunKey(k, e), RunKey(k, e))',
         e.ok /\ plan[k].replay # 0 /\ disk[plan[k].replay] # Torn =>
           \A m \in OkEntries(Prior(k)) :
             FrozenFor(RunKey(k, e), RunKey(plan[k].replay, Prior(k)[m]))
               => \A source : source = RunKey(plan[k].replay, Prior(k)[m])
                    => FrozenFor(RunKey(k, e), source)'
  PROVE  FrozenEntry(k, e)'
<1>1. Feeds(k)' = Feeds(k)
  BY DEF Feeds
<1>2. ASSUME e.ok, plan[k].replay # 0 PROVE Replays(k, e, RunKey(k, e))'
  <2> DEFINE r == plan[k].replay
  <2>1. disk'[r] = disk[r] /\ disk[r] # Torn /\ Feeds(r)
    BY <1>2 DEF FrozenEntry, Replays
  <2>2. PICK m \in Sources(k, e) : FrozenFor(RunKey(k, e), RunKey(r, Prior(k)[m]))
    BY <1>2 DEF FrozenEntry, Replays
  <2>3. Prior(k)' = Prior(k) /\ Sources(k, e)' = Sources(k, e)
    BY <2>1 DEF Prior, Sources, SameRun, SameCase
  <2>4. m \in OkEntries(Prior(k))
    BY <2>2 DEF Sources, SameRun, SameCase
  <2> DEFINE source == RunKey(r, Prior(k)[m])
  <2>5. \A s : s = source => FrozenFor(RunKey(k, e), s)'
    BY <1>2, <2>1, <2>2, <2>4
  <2>6. RunKey(r, Prior(k)[m])' = source
    BY <2>3 DEF RunKey
  <2>7. FrozenFor(RunKey(k, e), RunKey(r, Prior(k)[m]))'
    BY <2>5, <2>6
  <2>8. Feeds(r)' /\ disk'[r] # Torn
    BY <2>1 DEF Feeds
  <2>9. QED
    BY <2>2, <2>3, <2>7, <2>8 DEF Replays
<1>3. QED
  BY <1>1, <1>2 DEF FrozenEntry, RunKey

(* An entry keeps saying the truth when files and plan rest.               *)
LEMMA EntryRests ==
  ASSUME NEW k, NEW e, FrozenEntry(k, e), plan' = plan, outputs' = outputs,
         snapshots' = snapshots,
         e.ok /\ plan[k].replay # 0 => disk'[plan[k].replay] = disk[plan[k].replay]
  PROVE  FrozenEntry(k, e)'
<1>1. \A f, source : FrozenFor(f, source) => FrozenFor(f, source)'
  BY DEF FrozenFor, QuestionCount, AskedBefore, Counts
<1>2. e.ok /\ Feeds(k) => FrozenFor(RunKey(k, e), RunKey(k, e))'
  BY <1>1 DEF FrozenEntry, RunKey
<1>3. \A m \in OkEntries(Prior(k)) :
        FrozenFor(RunKey(k, e), RunKey(plan[k].replay, Prior(k)[m]))
          => \A source : source = RunKey(plan[k].replay, Prior(k)[m])
               => FrozenFor(RunKey(k, e), source)'
  BY <1>1 DEF RunKey
<1>4. QED
  BY <1>2, <1>3, EntryStays

(* No file that an entry names is the one that a run writes.               *)
LEMMA NamedFiles ==
  ASSUME BatchAssumption, BatchInv, pc = "running", NEW k \in DOMAIN plan
  PROVE  /\ \A n \in DOMAIN entries[k] : RunKey(k, entries[k][n]) # key
         /\ disk[k] # Torn =>
              \A m \in OkEntries(disk[k].entries) : RunKey(k, disk[k].entries[m]) # key
<1>1. \A n \in DOMAIN entries[k] : RunKey(k, entries[k][n]) # key
  <2> TAKE n \in DOMAIN entries[k]
  <2>1. entries[k] \in Seq(BatchEntry)
    BY PlannedBatches DEF BatchInv
  <2>2. n \in 1..Len(entries[k])
    BY <2>1
  <2>3. QED
    BY <2>2, RunsDiffer
<1>2. ASSUME disk[k] # Torn, NEW m \in OkEntries(disk[k].entries)
      PROVE  RunKey(k, disk[k].entries[m]) # key
  <2>1. m \in OkEntries(entries[k]) /\ disk[k].entries[m] = entries[k][m]
    BY <1>2, ListedFiles
  <2>2. QED
    BY <1>1, <2>1 DEF OkEntries
<1>3. QED
  BY <1>1, <1>2

(* The steps inside a run: the snapshot is loaded, copied into the run     *)
(* and not written again before the answers are.                           *)
LEMMA RunningKeepsFrozen ==
  ASSUME BeamRunAssumption, BatchAssumption, TranscriptInv, ScoreInv, BatchInv, FrozenInv, Running
  PROVE  FrozenInv'
<1>1. /\ pc = "running" /\ RunStep /\ pc' = pc /\ plan' = plan /\ b' = b /\ lookup' = lookup
      /\ entries' = entries /\ disk' = disk /\ args' = args /\ key' = key
  BY RunStepKeepsRun DEF Running, batchVars
<1>2. QuestionsInv'
  <2>1. [Next]_vars
    BY DEF Next
  <2>2. QED
    BY <2>1, NextKeepsQuestions DEF FrozenInv
<1>3. RunSource' /\ AnswersFrozen' /\ WrittenFrozen'
  BY <1>1, RunStepKeepsFrozen DEF FrozenInv
<1>4. RunFrozen' /\ LookupFrozen'
  <2>1. RunFrozen /\ LookupFrozen
    BY DEF FrozenInv
  <2>2. Current' = Current
    BY <1>1 DEF Current, Attempted, opts
  <2>3. RunFrozen'
    BY <1>1, <2>1, <2>2 DEF RunFrozen, opts, RunKey
  <2>4. LookupFrozen'
    BY <1>1, <2>1 DEF LookupFrozen, opts, SnapshotLookup
  <2>5. QED
    BY <2>3, <2>4
<1>5. \A f, source : FrozenFor(f, source) /\ f # key /\ source # key => FrozenFor(f, source)'
  BY <1>1, RunKeepsFiles DEF FrozenFor, QuestionCount, AskedBefore, Counts
<1>6. ASSUME NEW k \in DOMAIN plan, NEW n \in DOMAIN entries[k], NEW e, e = entries[k][n]
      PROVE  FrozenEntry(k, e)'
  <2>1. FrozenEntry(k, e) /\ RunKey(k, e) # key
    BY <1>1, <1>6, NamedFiles DEF FrozenInv
  <2>2. e.ok /\ Feeds(k) => FrozenFor(RunKey(k, e), RunKey(k, e))'
    BY <1>5, <2>1 DEF FrozenEntry, RunKey
  <2>3. e.ok /\ plan[k].replay # 0 /\ disk[plan[k].replay] # Torn =>
          \A m \in OkEntries(Prior(k)) :
            FrozenFor(RunKey(k, e), RunKey(plan[k].replay, Prior(k)[m]))
              => \A source : source = RunKey(plan[k].replay, Prior(k)[m])
                   => FrozenFor(RunKey(k, e), source)'
    <3> SUFFICES ASSUME plan[k].replay # 0, disk[plan[k].replay] # Torn,
                        NEW m \in OkEntries(Prior(k)), NEW source,
                        source = RunKey(plan[k].replay, Prior(k)[m]),
                        FrozenFor(RunKey(k, e), source)
                 PROVE  FrozenFor(RunKey(k, e), source)'
      OBVIOUS
    <3>1. plan[k].replay \in DOMAIN plan
      BY ReplayedBatch
    <3>2. source # key
      BY <1>1, <3>1, NamedFiles DEF Prior
    <3>3. QED
      BY <1>5, <2>1, <3>2 DEF RunKey
  <2>4. QED
    BY <1>1, <2>1, <2>2, <2>3, EntryStays
<1>7. \A k \in DOMAIN plan' : \A n \in DOMAIN entries'[k] : FrozenEntry(k, entries[k][n])'
  BY <1>1, <1>6
<1>8. QED
  BY <1>1, <1>2, <1>3, <1>4, <1>7 DEF FrozenInv

(* An entry with a snapshot in the manifest that is replayed: its batch    *)
(* feeds the chat, and so all its ok entries have one.                     *)
LEMMA ListedSnapshots ==
  ASSUME BatchAssumption, BatchInv, FrozenInv, NEW r \in DOMAIN plan, disk[r] # Torn
  PROVE  /\ \A n \in DOMAIN disk[r].entries :
              /\ disk[r].entries[n] \in BatchEntry
              /\ disk[r].entries[n].snapshot <=> disk[r].entries[n].ok /\ Feeds(r)
<1> DEFINE d == disk[r].entries
           e == entries[r]
<1>1. /\ d \in Seq(BatchEntry) /\ Len(d) <= Len(e) /\ Len(d) \in Nat
      /\ \A i \in 1..Len(d) : d[i] = e[i]
  BY DEF BatchInv, BatchAccount, Saved
<1>2. e \in Seq(BatchEntry)
  BY PlannedBatches DEF BatchInv
<1>3. \A n \in DOMAIN e : e[n].snapshot <=> e[n].ok /\ Feeds(r)
  BY DEF FrozenInv, FrozenEntry
<1> HIDE DEF d, e
<1>4. \A n \in DOMAIN d : n \in 1..Len(d) /\ n \in DOMAIN e
  BY <1>1, <1>2
<1>5. \A n \in DOMAIN d : d[n] = e[n] /\ d[n] \in BatchEntry
  BY <1>1, <1>4
<1>6. \A n \in DOMAIN d : d[n] \in BatchEntry /\ (d[n].snapshot <=> d[n].ok /\ Feeds(r))
  BY <1>3, <1>4, <1>5
<1>7. QED
  BY <1>6 DEF d

(* The snapshot that is found is one of the same run, if there is one.     *)
LEMMA FoundIsSource ==
  ASSUME BatchAssumption, BatchInv, FrozenInv, NEW k \in DOMAIN plan, plan[k].replay # 0,
         disk[plan[k].replay] # Torn, NEW run \in Runs,
         NEW found \in ResolveSnapshot(SnapshotLookup(plan[k].replay), run)
  PROVE  /\ Feeds(plan[k].replay) /\ found \in Runs
         /\ \E m \in Sources(k, run) : /\ Prior(k)[m].repeat = found.repeat
                                       /\ Prior(k)[m].case = found.case
<1> DEFINE r == plan[k].replay
           d == disk[r].entries
           L == SnapshotLookup(r)
<1>1. r \in DOMAIN plan
  BY ReplayedBatch
<1>2. \A n \in DOMAIN d : d[n] \in BatchEntry /\ (d[n].snapshot <=> d[n].ok /\ Feeds(r))
  BY <1>1, ListedSnapshots
<1>3. \A x : x \in L <=> \E n \in DOMAIN d : d[n].snapshot
                                           /\ x = [repeat |-> d[n].repeat, case |-> d[n].case]
  BY DEF SnapshotLookup
<1>4. found \in L /\ found.case = run.case /\ (run \in L => found = run)
  BY DEF ResolveSnapshot, FirstOf
<1>5. PICK n \in DOMAIN d : d[n].snapshot /\ found = [repeat |-> d[n].repeat, case |-> d[n].case]
  BY <1>3, <1>4
<1>6. Feeds(r) /\ d[n].ok /\ d[n] \in BatchEntry
  BY <1>2, <1>5
<1>7. found.repeat = d[n].repeat /\ found.case = d[n].case /\ found \in Runs
  BY <1>5, <1>6 DEF BatchEntry, Runs
<1>8. Prior(k) = d
  BY DEF Prior
<1> HIDE DEF r, d, L
<1>9. n \in SameCase(k, run)
  BY <1>4, <1>6, <1>7, <1>8 DEF SameCase, OkEntries
<1>10. CASE SameRun(k, run) = {}
  BY <1>6, <1>7, <1>8, <1>9, <1>10 DEF Sources, r
<1>11. CASE SameRun(k, run) # {}
  <2>1. PICK m : m \in SameRun(k, run)
    BY <1>11
  <2>2. m \in DOMAIN d /\ d[m].ok /\ d[m].case = run.case /\ d[m].repeat = run.repeat
    BY <1>8, <2>1 DEF SameRun, SameCase, OkEntries
  <2>3. run = [repeat |-> d[m].repeat, case |-> d[m].case]
    BY <2>2 DEF Runs
  <2>4. run \in L
    BY <1>2, <1>3, <1>6, <2>2, <2>3
  <2>5. n \in SameRun(k, run)
    BY <1>4, <1>7, <1>8, <1>9, <2>4 DEF SameRun
  <2>6. QED
    BY <1>6, <1>7, <1>8, <1>11, <2>5 DEF Sources, r
<1>12. QED
  BY <1>10, <1>11

(* The entry of a run that ended well.                                     *)
LEMMA EndedRunIsFrozen ==
  ASSUME BeamRunAssumption, BatchAssumption, BatchInv, FrozenInv,
         pc = "running", phase = "written", Attempted < Len(Schedule(opts))
  PROVE  FrozenEntry(b, Entry(Current, TRUE))
<1> DEFINE e == Entry(Current, TRUE)
           r == plan[b].replay
           out == outputs[key]
<1>1. b \in DOMAIN plan /\ key = RunKey(b, Current)
  BY DEF BatchInv, BatchTypeOK, RunAccount
<1>2. /\ e.ok /\ e.repeat = Current.repeat /\ e.case = Current.case
      /\ e.snapshot <=> out.snapshot
      /\ RunKey(b, e) = key
  BY <1>1 DEF Entry, RunKey
<1>3. /\ out.snapshot <=> args.runner = "standard" /\ args.source = Nothing
      /\ args.runner = "standard" => FrozenFor(key, Origin)
  BY DEF FrozenInv, WrittenFrozen
<1>4. /\ args.runner = plan[b].runner
      /\ r = 0 => args.source = Nothing
      /\ r # 0 => /\ \E found \in ResolveSnapshot(lookup, Current) : args.source = RunKey(r, found)
                  /\ disk[r] # Torn /\ lookup = SnapshotLookup(r)
  BY DEF FrozenInv, RunFrozen, LookupFrozen, opts
<1>5. Current \in Runs
  <2> DEFINE s == Schedule(plan[b])
  <2>1. Started(b) /\ plan[b] \in Batch /\ entries[b] \in Seq(BatchEntry)
    BY <1>1, PlannedBatches DEF BatchInv, BatchAccount
  <2>2. s \in Seq(Runs) /\ Len(s) \in Nat
    BY <2>1, ScheduleCovers DEF Started
  <2>3. Current = s[Attempted + 1] /\ Attempted + 1 \in 1..Len(s)
    BY <2>1, <2>2 DEF Attempted, opts, Current
  <2> HIDE DEF s
  <2>4. QED
    BY <2>2, <2>3
<1> HIDE DEF e, out
<1>6. CASE r = 0
  <2>1. e.snapshot <=> e.ok /\ Feeds(b)
    <3>1. e.snapshot <=> args.runner = "standard" /\ args.source = Nothing
      BY <1>2, <1>3
    <3>2. Feeds(b) <=> args.runner = "standard" /\ args.source = Nothing
      BY <1>4, <1>6 DEF Feeds
    <3>3. QED
      BY <1>2, <3>1, <3>2
  <2>2. Feeds(b) => FrozenFor(key, key)
    BY <1>3, <1>4, <1>6 DEF Feeds, Origin
  <2>3. QED
    BY <1>2, <1>6, <2>1, <2>2 DEF FrozenEntry, e
<1>7. CASE r # 0
  <2>1. PICK found \in ResolveSnapshot(SnapshotLookup(r), Current) : args.source = RunKey(r, found)
    BY <1>4, <1>7
  <2>2. /\ Feeds(r) /\ found \in Runs
        /\ \E m \in Sources(b, Current) : /\ Prior(b)[m].repeat = found.repeat
                                          /\ Prior(b)[m].case = found.case
    BY <1>1, <1>4, <1>5, <1>7, <2>1, FoundIsSource
  <2>3. args.source # Nothing
    <3>1. r \in Nat
      BY <1>1, PlannedBatches DEF BatchInv
    <3>2. RunKey(r, found) \in Nat \X Nat \X Nat
      BY <2>2, <3>1 DEF RunKey, Runs
    <3>3. QED
      BY <2>1, <3>2 DEF BeamRunAssumption
  <2>4. args.runner = "standard" /\ ~Feeds(b)
    <3>1. Started(b)
      BY <1>1 DEF BatchInv, BatchAccount
    <3>2. QED
      BY <1>4, <1>7, <3>1 DEF Started, Feeds
  <2>5. FrozenFor(key, RunKey(r, found))
    BY <1>3, <2>1, <2>3, <2>4 DEF Origin
  <2>6. PICK m \in Sources(b, Current) : RunKey(r, Prior(b)[m]) = RunKey(r, found)
    BY <2>2 DEF RunKey
  <2>7. Sources(b, e) = Sources(b, Current)
    BY <1>2 DEF Sources, SameRun, SameCase
  <2>8. Replays(b, e, key)
    BY <1>4, <1>7, <2>2, <2>5, <2>6, <2>7 DEF Replays
  <2>9. e.snapshot <=> e.ok /\ Feeds(b)
    <3>1. ~e.snapshot
      BY <1>2, <1>3, <2>3
    <3>2. QED
      BY <2>4, <3>1
  <2>10. QED
    BY <1>2, <1>7, <2>4, <2>8, <2>9 DEF FrozenEntry, e
<1>8. QED
  BY <1>6, <1>7

(* A run that returns enters what it has written; one that fails enters    *)
(* nothing of a replay.                                                    *)
LEMMA CaseDoneKeepsFrozen ==
  ASSUME BeamRunAssumption, BatchAssumption, TranscriptInv, ScoreInv, BatchInv, FrozenInv,
         RunReturns \/ RunFails
  PROVE  FrozenInv'
<1>1. PICK ok \in BOOLEAN : /\ CaseDone(Current, ok)
                            /\ ok => pc = "running" /\ phase = "written"
  BY DEF RunReturns, RunFails
<1>2. pc \in {"next", "running"} /\ Attempted < Len(Schedule(opts))
  BY DEF RunReturns, RunFails, BatchInv, RunAccount
<1> DEFINE new == Entry(Current, ok)
<1>3. b \in DOMAIN plan /\ entries[b] \in Seq(BatchEntry) /\ DOMAIN entries = DOMAIN plan
  BY <1>1, <1>2, CurrentEntry DEF BatchInv, BatchTypeOK
<1>4. FrozenEntry(b, new)
  <2>1. CASE ok = TRUE
    BY <1>1, <1>2, <2>1, EndedRunIsFrozen
  <2>2. CASE ok = FALSE
    BY <2>2 DEF FrozenEntry, Entry
  <2>3. QED
    BY <2>1, <2>2
<1>5. /\ entries' = [entries EXCEPT ![b] = Append(@, new)]
      /\ pc' \in {"aggregating", "saving"} /\ phase' = "off"
      /\ outputs' = outputs /\ snapshots' = snapshots
      /\ plan' = plan /\ b' = b /\ lookup' = lookup /\ disk' = disk
  BY <1>1 DEF CaseDone, AfterCase, ClearRun
<1>6. QuestionsInv'
  <2>1. [Next]_vars
    BY DEF Next
  <2>2. QED
    BY <2>1, NextKeepsQuestions DEF FrozenInv
<1>7. RunSource' /\ AnswersFrozen' /\ WrittenFrozen' /\ RunFrozen'
  BY <1>5 DEF RunSource, AnswersFrozen, WrittenFrozen, RunFrozen
<1>8. LookupFrozen'
  BY <1>2, <1>5 DEF FrozenInv, LookupFrozen, opts, SnapshotLookup
<1> HIDE DEF new
<1>9. ASSUME NEW k \in DOMAIN plan, NEW n \in DOMAIN entries'[k], NEW e, e = entries'[k][n]
      PROVE  FrozenEntry(k, e)'
  <2>1. \/ e = new /\ k = b
        \/ n \in DOMAIN entries[k] /\ e = entries[k][n]
    <3>1. CASE k = b
      <4> DEFINE s == entries[b]
      <4>1. entries'[b] = Append(s, new) /\ s \in Seq(BatchEntry)
        BY <1>3, <1>5
      <4> HIDE DEF s
      <4>2. \A j \in DOMAIN Append(s, new) :
              Append(s, new)[j] = new \/ (j \in DOMAIN s /\ Append(s, new)[j] = s[j])
        BY <4>1, AppendedElements
      <4>3. QED
        BY <1>9, <3>1, <4>1, <4>2 DEF s
    <3>2. CASE k # b
      BY <1>3, <1>5, <1>9, <3>2
    <3>3. QED
      BY <3>1, <3>2
  <2>2. FrozenEntry(k, e)
    BY <1>4, <2>1 DEF FrozenInv
  <2>3. QED
    BY <1>5, <2>2, EntryRests
<1>10. \A k \in DOMAIN plan' : \A n \in DOMAIN entries'[k] : FrozenEntry(k, entries[k][n])'
  BY <1>5, <1>9
<1>11. QED
  BY <1>5, <1>6, <1>7, <1>8, <1>10 DEF FrozenInv

(* The manifest a replay reads is not the one that is being written.       *)
LEMMA ManifestKeepsFrozen ==
  ASSUME BeamRunAssumption, BatchAssumption, TranscriptInv, ScoreInv, BatchInv, FrozenInv,
         OpenManifest \/ CloseManifest
  PROVE  FrozenInv'
<1>1. /\ b \in DOMAIN plan /\ pc \in {"saving", "finishing"} /\ DOMAIN disk = DOMAIN plan
      /\ plan' = plan /\ entries' = entries /\ lookup' = lookup /\ UNCHANGED runVars
      /\ pc' \in {"idle", "next", "saving", "finishing"} /\ (pc' # "idle" => b' = b)
  BY DEF BatchInv, BatchTypeOK, OpenManifest, CloseManifest, EndBatch, GoOn
<1>2. \A k \in DOMAIN plan : k # b => disk'[k] = disk[k]
  BY <1>1 DEF OpenManifest, CloseManifest
<1>3. UNCHANGED <<args, key, phase, snapshots, outputs>> /\ phase = "off"
  BY <1>1 DEF runVars, FrozenInv
<1>4. QuestionsInv'
  <2>1. [Next]_vars
    BY DEF Next
  <2>2. QED
    BY <2>1, NextKeepsQuestions DEF FrozenInv
<1>5. RunSource' /\ AnswersFrozen' /\ WrittenFrozen' /\ RunFrozen'
  BY <1>1, <1>3 DEF RunSource, AnswersFrozen, WrittenFrozen, RunFrozen
<1>6. b \in Nat /\ \A k \in DOMAIN plan : k \in Nat /\ plan[k].replay \in Nat
  BY PlannedBatches DEF BatchInv
<1>7. LookupFrozen'
  <2> DEFINE r == plan[b].replay
  <2> SUFFICES ASSUME pc' # "idle", opts'.replay # 0
               PROVE  disk'[opts'.replay] # Torn /\ lookup' = SnapshotLookup(opts.replay)'
    BY DEF LookupFrozen
  <2>1. opts'.replay = r
    BY <1>1 DEF opts
  <2>2. r \in DOMAIN plan /\ r < b
    BY <1>1, <2>1, ReplayedBatch
  <2>3. disk'[r] = disk[r]
    <3> HIDE DEF r
    <3>1. r \in Nat /\ b \in Nat /\ r # b
      BY <1>6, <2>2
    <3>2. QED
      BY <1>2, <2>2, <3>1
  <2>4. disk[r] # Torn /\ lookup = SnapshotLookup(r)
    BY <1>1, <2>1 DEF FrozenInv, LookupFrozen, opts
  <2> HIDE DEF r
  <2>5. SnapshotLookup(opts.replay)' = SnapshotLookup(r)
    BY <2>1, <2>3 DEF SnapshotLookup
  <2>6. QED
    BY <1>1, <2>1, <2>3, <2>4, <2>5
<1>8. ASSUME NEW k \in DOMAIN plan, NEW n \in DOMAIN entries[k], NEW e, e = entries[k][n]
      PROVE  FrozenEntry(k, e)'
  <2>1. FrozenEntry(k, e)
    BY <1>8 DEF FrozenInv
  <2>2. plan[k].replay # 0 => disk'[plan[k].replay] = disk[plan[k].replay]
    <3> SUFFICES ASSUME plan[k].replay # 0 PROVE disk'[plan[k].replay] = disk[plan[k].replay]
      OBVIOUS
    <3>1. plan[k].replay \in DOMAIN plan /\ plan[k].replay < k
      BY ReplayedBatch
    <3>2. ~(k > b)
      <4>1. k > b => entries[k] = <<>>
        BY DEF BatchInv, BatchAccount
      <4>2. QED
        BY <4>1
    <3>3. plan[k].replay # b
      BY <1>6, <3>1, <3>2
    <3>4. QED
      BY <1>2, <3>1, <3>3
  <2>3. QED
    BY <1>1, <1>3, <2>1, <2>2, EntryRests
<1>9. \A k \in DOMAIN plan' : \A n \in DOMAIN entries'[k] : FrozenEntry(k, entries[k][n])'
  BY <1>1, <1>8
<1>10. QED
  BY <1>1, <1>3, <1>4, <1>5, <1>7, <1>9 DEF FrozenInv

(* Starting a batch or a run, and ending a batch.                          *)
LEMMA StartsKeepFrozen ==
  ASSUME BeamRunAssumption, BatchAssumption, TranscriptInv, ScoreInv, BatchInv, FrozenInv,
         StartBatch \/ StartCase \/ AllAttempted \/ CompareAndFinish \/ Crash \/ UNCHANGED vars
  PROVE  FrozenInv'
<1>1. plan' = plan /\ entries' = entries /\ disk' = disk /\ outputs' = outputs
      /\ snapshots' = snapshots
  BY DEF StartBatch, StartCase, StartRun, AllAttempted, CompareAndFinish, Crash, vars, runVars,
         batchVars
<1>2. QuestionsInv'
  <2>1. [Next]_vars
    BY DEF Next
  <2>2. QED
    BY <2>1, NextKeepsQuestions DEF FrozenInv
<1>3. LookupFrozen'
  <2>1. CASE StartBatch
    BY <1>1, <2>1 DEF StartBatch, Startable, Readable, LookupFrozen, opts, SnapshotLookup
  <2>2. CASE ~StartBatch
    <3>1. lookup' = lookup /\ (pc' # "idle" => pc # "idle" /\ b' = b)
      BY <2>2 DEF StartCase, AllAttempted, CompareAndFinish, EndBatch, Crash, vars, batchVars
    <3>2. QED
      BY <1>1, <3>1 DEF FrozenInv, LookupFrozen, opts, SnapshotLookup
  <2>3. QED
    BY <2>1, <2>2
<1>4. /\ (pc # "running" => phase = "off")'
      /\ RunSource' /\ AnswersFrozen' /\ WrittenFrozen' /\ RunFrozen'
  <2>1. CASE StartCase
    <3>1. PICK source : /\ args' = RunArgs(source) /\ key' = RunKey(b, Current)
                        /\ IF opts.replay = 0 THEN source = Nothing
                           ELSE \E found \in ResolveSnapshot(lookup, Current) :
                                  source = RunKey(opts.replay, found)
                        /\ phase' = IF opts.runner = "baseline" THEN "answer"
                                    ELSE IF source # Nothing THEN "restore" ELSE "ingest"
                        /\ pc' = "running" /\ b' = b /\ lookup' = lookup
      BY <2>1 DEF StartCase, StartRun, RunArgs
    <3>2. args'.source = source /\ args'.runner = opts.runner
      BY <3>1 DEF RunArgs
    <3>3. Current' = Current /\ opts' = opts
      BY <1>1, <3>1 DEF Current, Attempted, opts
    <3>4. RunFrozen'
      BY <1>1, <3>1, <3>2, <3>3 DEF RunFrozen, RunKey
    <3>5. RunSource' /\ AnswersFrozen' /\ WrittenFrozen'
      BY <3>1, <3>2 DEF RunSource, AnswersFrozen, WrittenFrozen
    <3>6. QED
      BY <3>1, <3>4, <3>5
  <2>2. CASE StartBatch \/ AllAttempted \/ CompareAndFinish \/ Crash
    <3>1. pc' # "running" /\ phase' = "off"
      BY <2>2 DEF StartBatch, AllAttempted, CompareAndFinish, EndBatch, Crash, ClearRun, runVars,
                  FrozenInv
    <3>2. QED
      BY <3>1 DEF RunSource, AnswersFrozen, WrittenFrozen, RunFrozen
  <2>3. CASE UNCHANGED vars
    <3>1. /\ args' = args /\ key' = key /\ phase' = phase /\ recorded' = recorded
          /\ active' = active /\ pc' = pc /\ b' = b /\ lookup' = lookup
      BY <2>3 DEF vars, runVars, batchVars, local
    <3>2. Current' = Current /\ Origin' = Origin /\ opts' = opts
      BY <1>1, <3>1 DEF Current, Attempted, opts, Origin
    <3>3. \A f, source : FrozenFor(f, source) => FrozenFor(f, source)'
      BY <1>1 DEF FrozenFor, QuestionCount, AskedBefore, Counts
    <3>4. RunSource' /\ AnswersFrozen' /\ RunFrozen'
      BY <1>1, <3>1, <3>2 DEF FrozenInv, RunSource, AnswersFrozen, RunFrozen, RunKey
    <3>5. WrittenFrozen'
      BY <1>1, <3>1, <3>2, <3>3 DEF FrozenInv, WrittenFrozen
    <3>6. QED
      BY <3>1, <3>4, <3>5 DEF FrozenInv
  <2>4. QED
    BY <2>1, <2>2, <2>3
<1>5. ASSUME NEW k \in DOMAIN plan, NEW n \in DOMAIN entries[k], NEW e, e = entries[k][n]
      PROVE  FrozenEntry(k, e)'
  <2>1. FrozenEntry(k, e)
    BY <1>5 DEF FrozenInv
  <2>2. QED
    BY <1>1, <2>1, EntryRests
<1>6. \A k \in DOMAIN plan' : \A n \in DOMAIN entries'[k] : FrozenEntry(k, entries[k][n])'
  BY <1>1, <1>5
<1>7. QED
  BY <1>2, <1>3, <1>4, <1>6 DEF FrozenInv

(* In every history of batches, the answers of a replay come from the      *)
(* memory and the tail that were saved for that replay's source.           *)
THEOREM ReplaysStayFrozen == Spec => []FrozenInv
<1>1. Init => FrozenInv
  <2> SUFFICES ASSUME Init PROVE FrozenInv
    OBVIOUS
  <2>1. /\ phase = "off" /\ pc = "idle" /\ results = <<>> /\ tally = NoTally
        /\ \A k \in DOMAIN plan : entries[k] = <<>>
    BY DEF Init, RunInit
  <2>2. QuestionsInv
    <3>1. tally.type = 1 /\ Answered(tally.type) = 0 /\ AskedBefore(tally.type) = 0
      <4>1. tally.type = 1
        BY <2>1, NothingAsked, BeamRunAssumption
      <4>2. QED
        BY <2>1, <4>1, NothingAsked, BeamRunAssumption DEF Answered, OfType
    <3>2. Len(results) = 0 /\ DOMAIN results = {}
      BY <2>1
    <3>3. QED
      BY <2>1, <3>1, <3>2, NothingAsked, BeamRunAssumption DEF QuestionsInv, Asking
  <2>3. QED
    BY <2>1, <2>2 DEF FrozenInv, RunSource, AnswersFrozen, WrittenFrozen, RunFrozen, LookupFrozen
<1>2. TranscriptInv /\ ScoreInv /\ BatchInv /\ FrozenInv /\ [Next]_vars => FrozenInv'
  <2> SUFFICES ASSUME TranscriptInv, ScoreInv, BatchInv, FrozenInv, [Next]_vars PROVE FrozenInv'
    OBVIOUS
  <2>1. CASE Running
    BY <2>1, RunningKeepsFrozen, BeamRunAssumption, BatchAssumption
  <2>2. CASE RunReturns \/ RunFails
    BY <2>2, CaseDoneKeepsFrozen, BeamRunAssumption, BatchAssumption
  <2>3. CASE OpenManifest \/ CloseManifest
    BY <2>3, ManifestKeepsFrozen, BeamRunAssumption, BatchAssumption
  <2>4. CASE StartBatch \/ StartCase \/ AllAttempted \/ CompareAndFinish \/ Crash \/ UNCHANGED vars
    BY <2>4, StartsKeepFrozen, BeamRunAssumption, BatchAssumption
  <2>5. QED
    BY <2>1, <2>2, <2>3, <2>4 DEF Next
<1>3. QED
  BY <1>1, <1>2, TranscriptIsKept, ScoresAreKept, BatchesKeepAccount, PTL DEF Spec

(* "Selector/answer changes are compared against identical memory state":  *)
(* an ok run of a replaying batch asked its questions with the memory and  *)
(* the tail that a run of the same case had for them in the batch that it  *)
(* replays, the same repeat if there is one.                               *)
THEOREM ReplaysAnswerFromFrozenMemory == Spec => []ReplayAnswersFromFrozenMemory
<1>1. FrozenInv /\ ScoreInv /\ BatchInv => ReplayAnswersFromFrozenMemory
  <2> SUFFICES ASSUME FrozenInv, ScoreInv, BatchInv, NEW k \in DOMAIN plan,
                      NEW n \in OkEntries(entries[k]), plan[k].replay # 0
               PROVE  \E m \in Sources(k, entries[k][n]) :
                        [i \in DOMAIN outputs[RunKey(k, entries[k][n])].items |->
                           outputs[RunKey(k, entries[k][n])].items[i].context]
                        = [i \in DOMAIN outputs[RunKey(plan[k].replay, Prior(k)[m])].items |->
                             outputs[RunKey(plan[k].replay, Prior(k)[m])].items[i].context]
    BY DEF ReplayAnswersFromFrozenMemory, Sources, SameRun, SameCase, Prior
  <2> DEFINE r == plan[k].replay
             e == entries[k][n]
  <2>1. e.ok /\ n \in DOMAIN entries[k] /\ r \in DOMAIN plan
    BY ReplayedBatch, BatchAssumption DEF OkEntries
  <2>2. FrozenEntry(k, e)
    BY <2>1 DEF FrozenInv
  <2>3. /\ disk[r] # Torn /\ Feeds(r)
        /\ \E m \in Sources(k, e) : FrozenFor(RunKey(k, e), RunKey(r, Prior(k)[m]))
    BY <2>1, <2>2 DEF FrozenEntry, Replays
  <2> HIDE DEF e
  <2>4. PICK m \in Sources(k, e) : FrozenFor(RunKey(k, e), RunKey(r, Prior(k)[m]))
    BY <2>3
  <2>5. m \in OkEntries(disk[r].entries)
    BY <2>4 DEF Sources, SameRun, SameCase, Prior
  <2>6. m \in OkEntries(entries[r]) /\ Prior(k)[m] = entries[r][m]
    BY <2>1, <2>3, <2>5, ListedFiles, BatchAssumption DEF Prior
  <2> DEFINE p == Prior(k)[m]
  <2>7. p.ok /\ FrozenEntry(r, p)
    BY <2>1, <2>6 DEF FrozenInv, OkEntries
  <2>8. FrozenFor(RunKey(r, p), RunKey(r, p)) /\ FrozenFor(RunKey(k, e), RunKey(r, p))
    BY <2>3, <2>4, <2>7 DEF FrozenEntry
  <2> HIDE DEF p, r
  <2> DEFINE f == RunKey(k, e)
             g == RunKey(r, p)
  <2> HIDE DEF f, g
  <2>9. FrozenFor(f, g) /\ FrozenFor(g, g)
    BY <2>8 DEF f, g
  <2>10. /\ \A i \in 1..QuestionCount : outputs[f].items[i].context = outputs[g].items[i].context
         /\ DOMAIN outputs[f].items = 1..QuestionCount
         /\ DOMAIN outputs[g].items = 1..QuestionCount
    <3>1. outputs[f].items \in Seq(Item) /\ outputs[g].items \in Seq(Item)
      BY <2>9 DEF FrozenFor, ScoreInv, OneScore, ResultsFile
    <3>2. Len(outputs[f].items) = QuestionCount /\ Len(outputs[g].items) = QuestionCount
      BY <2>9 DEF FrozenFor
    <3>3. QED
      BY <2>9, <3>1, <3>2 DEF FrozenFor
  <2>11. [i \in DOMAIN outputs[f].items |-> outputs[f].items[i].context]
         = [i \in DOMAIN outputs[g].items |-> outputs[g].items[i].context]
    BY <2>10
  <2>12. QED
    BY <2>4, <2>11 DEF e, f, g, p, r
<1>2. QED
  BY <1>1, ReplaysStayFrozen, ScoresAreKept, BatchesKeepAccount, PTL
=============================================================================
