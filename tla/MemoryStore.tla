----------------------------- MODULE MemoryStore -----------------------------
(***************************************************************************)
(* core/store.py: one Memory shared by several threads.  A thread changes  *)
(* it in place (apply_ops), all-or-nothing (apply_ops_atomically), or      *)
(* through a private trial (transaction_snapshot ... commit_trial) that    *)
(* installs only if the revision it was based on is still current.         *)
(*                                                                         *)
(* apply_ops, apply_ops_atomically, transaction_snapshot and commit_trial  *)
(* hold the RLock; set_narrative and to_state do not, so they interleave   *)
(* with a batch in progress and with the three assignments that install a  *)
(* trial: to_state is a reader that takes many steps, and what it saves    *)
(* may be no state the memory ever was in.  load_state is how a process    *)
(* starts again: it fills a Memory no thread has seen yet.                 *)
(***************************************************************************)
EXTENDS MemoryOps

CONSTANTS
  Threads,        \* threads that share the Memory
  NoThread,       \* the value of an unheld lock
  Sortable,       \* which UPDATE provenances reach the store
  MaxId,          \* bound: ids issued per section
  MaxUpdates,     \* bound: revisions a process adds to the one it starts with
  MaxSaves,       \* bound: payloads saved
  MaxRestarts     \* bound: restarts

ASSUME ThreadsAssumption == NoThread \notin Threads
ASSUME SortableAssumption == Sortable \subseteq BOOLEAN
ASSUME BoundsAssumption ==
  MaxId \in Nat /\ MaxUpdates \in Nat /\ MaxSaves \in Nat /\ MaxRestarts \in Nat

VARIABLES
  live,           \* the shared Memory: entries, counters, narrative
  revision,       \* Memory._revision
  lock,           \* the thread holding Memory._lock
  pc,             \* what each thread is doing
  trial,          \* each thread's private copy of the memory
  base,           \* base_revision of each thread's transaction
  rejected,       \* whether the thread's batch holds a rejected op
  applied,        \* whether it holds an accepted one
  saved,          \* the last to_state payload
  saves,          \* payloads saved so far
  incarnation,    \* restarts so far
  snapshot,       \* history: the live store when the trial was copied
  saving,         \* where the running to_state is
  opened,         \* history: the entries when it began
  orphan,         \* <<dict>> if the dict it iterates was replaced since
  taken,          \* the entries it has written so far
  item,           \* the id of the entry it is writing
  told            \* the narrative it has read

batch  == <<pc, trial, base, rejected, applied, snapshot>>
disk   == <<saved, saves, incarnation>>
reader == <<saving, opened, orphan, taken, item, told>>
vars   == <<live, revision, lock, batch, disk, reader>>

NoEntries == EmptyStore.entries
NoItem == <<>>
NoDict == <<>>

(* Ids an op may name here: issued, not yet issued, or never to be issued. *)
Ids == Sections \X (1..MaxId)

Ops ==
  {AddOp(s, t, p) : s \in Sections, t \in Texts, p \in SUBSET TurnIds}
    \cup {UpdateOp(i, t, p, o) :
            i \in Ids, t \in Texts, p \in SUBSET TurnIds, o \in Sortable}
    \cup {SupersedeOp(i) : i \in Ids}
    \cup PlainOps

WithinBound(s, op) == op.kind = "ADD" => s.counters[op.section] < MaxId

(* The revision of a process's memory: load_state leaves 1.                *)
FirstRevision == IF incarnation = 0 THEN 0 ELSE 1

WithinUpdates == revision < FirstRevision + MaxUpdates

(* A thread inside _replace_from, and to_state inside its loop.             *)
Installing == {"narrative", "counters"}
Iterating  == {"next", "provenance", "status"}

IsDict(f) == DOMAIN f \subseteq Id /\ f \in [DOMAIN f -> Entry]

TypeOK ==
  /\ IsStore(live)
  /\ revision \in Nat
  /\ lock \in Threads \cup {NoThread}
  /\ pc \in [Threads -> {"idle", "applying", "atomic", "open"} \cup Installing]
  /\ trial = [t \in Threads |-> trial[t]]
  /\ \A t \in Threads : IsStore(trial[t])
  /\ base \in [Threads -> Nat]
  /\ rejected \in [Threads -> BOOLEAN]
  /\ applied \in [Threads -> BOOLEAN]
  /\ IsStore(saved)
  /\ saves \in Nat
  /\ incarnation \in Nat
  /\ snapshot = [t \in Threads |-> snapshot[t]]
  /\ \A t \in Threads : IsStore(snapshot[t])
  /\ saving \in {"idle", "narrative", "counters"} \cup Iterating
  /\ IsDict(opened) /\ IsDict(taken)
  /\ orphan = NoDict \/ (orphan = <<orphan[1]>> /\ IsDict(orphan[1]))
  /\ item \in Id \cup {NoItem}
  /\ told \in Narratives

NotSaving ==
  /\ saving = "idle"
  /\ opened = NoEntries
  /\ orphan = NoDict
  /\ taken = NoEntries
  /\ item = NoItem
  /\ told = NoNarrative

Init ==
  /\ live = EmptyStore
  /\ revision = 0
  /\ lock = NoThread
  /\ pc = [t \in Threads |-> "idle"]
  /\ trial = [t \in Threads |-> EmptyStore]
  /\ base = [t \in Threads |-> 0]
  /\ rejected = [t \in Threads |-> FALSE]
  /\ applied = [t \in Threads |-> FALSE]
  /\ saved = EmptyStore
  /\ saves = 0
  /\ incarnation = 0
  /\ snapshot = [t \in Threads |-> EmptyStore]
  /\ NotSaving

-----------------------------------------------------------------------------
Become(t, state) == pc' = [pc EXCEPT ![t] = state]

(* Memory._copy into the thread's trial, with a clean batch result.        *)
CopyLive(t) ==
  /\ trial' = [trial EXCEPT ![t] = live]
  /\ snapshot' = [snapshot EXCEPT ![t] = live]
  /\ rejected' = [rejected EXCEPT ![t] = FALSE]
  /\ applied' = [applied EXCEPT ![t] = FALSE]

(* Back to idle; what the thread copied is garbage.                        *)
Finish(t) ==
  /\ Become(t, "idle")
  /\ trial' = [trial EXCEPT ![t] = EmptyStore]
  /\ snapshot' = [snapshot EXCEPT ![t] = EmptyStore]
  /\ base' = [base EXCEPT ![t] = 0]
  /\ rejected' = [rejected EXCEPT ![t] = FALSE]
  /\ applied' = [applied EXCEPT ![t] = FALSE]

(* Memory._replace_from, first assignment: the memory holds another dict.  *)
(* A to_state inside its loop keeps iterating the one it began with, which *)
(* nobody changes any more.                                                *)
InstallEntries(t) ==
  /\ live' = [live EXCEPT !.entries = trial[t].entries]
  /\ orphan' = IF saving \in Iterating /\ orphan = NoDict
                 THEN <<live.entries>>
                 ELSE orphan
  /\ lock' = t
  /\ Become(t, "narrative")
  /\ UNCHANGED <<revision, trial, base, rejected, applied, snapshot, disk,
                 saving, opened, taken, item, told>>

InstallNarrative(t) ==
  /\ pc[t] = "narrative"
  /\ live' = [live EXCEPT !.narrative = trial[t].narrative]
  /\ Become(t, "counters")
  /\ UNCHANGED <<revision, lock, trial, base, rejected, applied, snapshot,
                 disk, reader>>

(* The last two assignments and the release of the lock; the revision is   *)
(* read under the lock only.  (Seeded bug: it is not counted.)             *)
InstallUncounted(t) ==
  /\ pc[t] = "counters"
  /\ live' = [live EXCEPT !.counters = trial[t].counters]
  /\ lock' = NoThread
  /\ Finish(t)
  /\ UNCHANGED <<revision, disk, reader>>

InstallCounters(t) ==
  /\ pc[t] = "counters"
  /\ live' = [live EXCEPT !.counters = trial[t].counters]
  /\ revision' = revision + 1
  /\ lock' = NoThread
  /\ Finish(t)
  /\ UNCHANGED <<disk, reader>>

(* to_state is over, one way or the other.                                 *)
StopSaving ==
  /\ saving' = "idle"
  /\ opened' = NoEntries
  /\ orphan' = NoDict
  /\ taken' = NoEntries
  /\ item' = NoItem
  /\ told' = NoNarrative

Judge(t, ok) ==
  /\ rejected' = [rejected EXCEPT ![t] = @ \/ ~ok]
  /\ applied' = [applied EXCEPT ![t] = @ \/ ok]

-----------------------------------------------------------------------------
(* apply_ops on the shared memory: in place, op by op, under the lock.  An *)
(* op is one step: what to_state sees between the two assignments of an    *)
(* UPDATE is what it sees after one whose provenance could not be sorted.  *)

BeginApply(t) ==
  /\ pc[t] = "idle"
  /\ lock = NoThread
  /\ WithinUpdates
  /\ lock' = t
  /\ Become(t, "applying")
  /\ UNCHANGED <<live, revision, disk, reader, trial, base,
                 rejected, applied, snapshot>>

ApplyInPlace(t, op) ==
  /\ pc[t] = "applying"
  /\ WithinBound(live, op)
  /\ live' = AfterOp(live, op)
  /\ Judge(t, Accepted(live, op))
  /\ UNCHANGED <<revision, lock, disk, reader, pc, trial, base, snapshot>>

EndApply(t) ==
  /\ pc[t] = "applying"
  /\ revision' = IF applied[t] THEN revision + 1 ELSE revision
  /\ lock' = NoThread
  /\ Finish(t)
  /\ UNCHANGED <<live, disk, reader>>

-----------------------------------------------------------------------------
(* apply_ops_atomically on the shared memory: on a copy, under the lock.   *)

BeginAtomic(t) ==
  /\ pc[t] = "idle"
  /\ lock = NoThread
  /\ WithinUpdates
  /\ lock' = t
  /\ Become(t, "atomic")
  /\ CopyLive(t)
  /\ UNCHANGED <<live, revision, disk, reader, base>>

(* One op of a batch on the private copy; also how an updater edits its    *)
(* trial, whose batches are all-or-nothing too.                            *)
ApplyOnCopy(t, op) ==
  /\ pc[t] \in {"atomic", "open"}
  /\ WithinBound(trial[t], op)
  /\ trial' = [trial EXCEPT ![t] = AfterOp(@, op)]
  /\ Judge(t, Accepted(trial[t], op))
  /\ UNCHANGED <<live, revision, lock, disk, reader, pc, base, snapshot>>

(* An empty batch returns before the lock; here it changes nothing.        *)
EndAtomic(t) ==
  /\ pc[t] = "atomic"
  /\ IF rejected[t] \/ ~applied[t]
       THEN /\ lock' = NoThread
            /\ Finish(t)
            /\ UNCHANGED <<live, revision, disk, reader>>
       ELSE InstallEntries(t)

-----------------------------------------------------------------------------
(* Optimistic transactions.                                                *)

TransactionSnapshot(t) ==
  /\ pc[t] = "idle"
  /\ lock = NoThread
  /\ WithinUpdates
  /\ Become(t, "open")
  /\ CopyLive(t)
  /\ base' = [base EXCEPT ![t] = revision]
  /\ UNCHANGED <<live, revision, lock, disk, reader>>

(* PreparedUpdate.commit and commit_trial: both checks raise RuntimeError  *)
(* and leave the memory alone.  (Seeded bug: the revision is not checked.) *)
CommitUnchecked(t) ==
  /\ pc[t] = "open"
  /\ lock = NoThread
  /\ ~rejected[t]
  /\ InstallEntries(t)

CommitTrial(t) ==
  /\ pc[t] = "open"
  /\ lock = NoThread
  /\ ~rejected[t]
  /\ base[t] = revision
  /\ InstallEntries(t)

(* The caller drops the trial: rejected ops, a failed verification, or a   *)
(* commit that raised because the revision moved.                          *)
AbandonTrial(t) ==
  /\ pc[t] = "open"
  /\ Finish(t)
  /\ UNCHANGED <<live, revision, lock, disk, reader>>

-----------------------------------------------------------------------------
(* Operations that take no lock.                                           *)

SetNarrative(n) ==
  /\ live' = [live EXCEPT !.narrative = n]
  /\ UNCHANGED <<revision, lock, batch, disk, reader>>

(* to_state.  It keeps iterating the dict it began with.                   *)
Iterated == IF orphan = NoDict THEN live.entries ELSE orphan[1]

(* Bounds: one to_state at a time, MaxSaves payloads, and none once its    *)
(* payload could not be loaded any more.                                   *)
BeginSave ==
  /\ saving = "idle"
  /\ saves < MaxSaves
  /\ incarnation < MaxRestarts
  /\ saving' = "next"
  /\ opened' = live.entries
  /\ UNCHANGED <<live, revision, lock, batch, disk, orphan, taken, item, told>>

(* Entries are never removed: the dict has the size the iterator remembers *)
(* just when it has the same ids.                                          *)
SizeKept == DOMAIN Iterated = DOMAIN opened

(* Ids come in the order they were issued.                                 *)
SaveText(i) ==
  /\ saving = "next"
  /\ SizeKept
  /\ i \in DOMAIN Iterated \ DOMAIN taken
  /\ \A j \in DOMAIN Iterated \ DOMAIN taken :
        SectionOf(j) = SectionOf(i) => Number(i) <= Number(j)
  /\ taken' = Put(taken, i, Iterated[i])
  /\ item' = i
  /\ saving' = "provenance"
  /\ UNCHANGED <<live, revision, lock, batch, disk, opened, orphan, told>>

(* SaveText put the whole entry; its provenance and its status are read    *)
(* one after the other, and may be newer by now.                           *)
SaveProvenance ==
  /\ saving = "provenance"
  /\ taken' = [taken EXCEPT ![item] = [@ EXCEPT !.prov = Iterated[item].prov]]
  /\ saving' = "status"
  /\ UNCHANGED <<live, revision, lock, batch, disk, opened, orphan, item, told>>

SaveStatus ==
  /\ saving = "status"
  /\ taken' = [taken EXCEPT ![item] = [@ EXCEPT !.status = Iterated[item].status]]
  /\ item' = NoItem
  /\ saving' = "next"
  /\ UNCHANGED <<live, revision, lock, batch, disk, opened, orphan, told>>

(* "dictionary changed size during iteration": to_state raises.            *)
SaveRaises ==
  /\ saving = "next"
  /\ ~SizeKept
  /\ StopSaving
  /\ UNCHANGED <<live, revision, lock, batch, disk>>

EndLoop ==
  /\ saving = "next"
  /\ SizeKept
  /\ DOMAIN taken = DOMAIN Iterated
  /\ orphan' = NoDict
  /\ saving' = "narrative"
  /\ UNCHANGED <<live, revision, lock, batch, disk, opened, taken, item, told>>

SaveNarrative ==
  /\ saving = "narrative"
  /\ told' = live.narrative
  /\ saving' = "counters"
  /\ UNCHANGED <<live, revision, lock, batch, disk, opened, orphan, taken, item>>

SaveCounters ==
  /\ saving = "counters"
  /\ saved' = [entries |-> taken, counters |-> live.counters, narrative |-> told]
  /\ saves' = saves + 1
  /\ StopSaving
  /\ UNCHANGED <<live, revision, lock, batch, incarnation>>

ToState ==
  \/ BeginSave
  \/ \E i \in DOMAIN Iterated : SaveText(i)
  \/ SaveProvenance \/ SaveStatus
  \/ SaveRaises \/ EndLoop
  \/ SaveNarrative \/ SaveCounters

(* load_state: the numbers the counter of a section is the maximum of.     *)
(* (Seeded bug: the persisted counter is trusted.)                         *)
PersistedOnly(sec, persisted) == {persisted}

LoadedNumbers(sec, persisted) ==
  {persisted} \cup {Number(i) : i \in {j \in DOMAIN saved.entries :
                                        SectionOf(j) = sec}}

(* The process stops, taking every thread's trial with it, and a new one   *)
(* loads the last saved state; its counters may be missing from the        *)
(* payload.                                                                *)
Restart ==
  /\ incarnation < MaxRestarts
  /\ incarnation' = incarnation + 1
  /\ \E kept \in BOOLEAN, counters \in [Sections -> 0..MaxId] :
       /\ \A sec \in Sections :
            LET numbers == LoadedNumbers(sec, IF kept THEN saved.counters[sec]
                                                      ELSE 0)
            IN  counters[sec] \in numbers /\ \A n \in numbers : n <= counters[sec]
       /\ live' = [saved EXCEPT !.counters = counters]
  /\ revision' = 1
  /\ lock' = NoThread
  /\ pc' = [t \in Threads |-> "idle"]
  /\ trial' = [t \in Threads |-> EmptyStore]
  /\ base' = [t \in Threads |-> 0]
  /\ rejected' = [t \in Threads |-> FALSE]
  /\ applied' = [t \in Threads |-> FALSE]
  /\ snapshot' = [t \in Threads |-> EmptyStore]
  /\ StopSaving
  /\ UNCHANGED <<saved, saves>>

-----------------------------------------------------------------------------
Next ==
  \/ \E t \in Threads :
       \/ BeginApply(t) \/ EndApply(t)
       \/ BeginAtomic(t) \/ EndAtomic(t)
       \/ InstallNarrative(t) \/ InstallCounters(t)
       \/ TransactionSnapshot(t) \/ CommitTrial(t) \/ AbandonTrial(t)
       \/ \E op \in Ops : ApplyInPlace(t, op) \/ ApplyOnCopy(t, op)
  \/ \E n \in Narratives : SetNarrative(n)
  \/ ToState
  \/ Restart

Spec == Init /\ [][Next]_vars

-----------------------------------------------------------------------------
(* Properties *)

(* No section's next id is the id of an entry it already holds, in any    *)
(* trial, and in the shared memory whenever a thread could call _next_id   *)
(* on it, that is unless another one is half way through _replace_from:    *)
(* _next_id never overwrites an entry.  It rests on load_state repairing   *)
(* the counters ("guard against id collisions when counters are missing or *)
(* stale"), for a saved state does hold entries its counters never issued. *)
IdsFresh ==
  /\ (\A t \in Threads : pc[t] \notin Installing) => IdsIssued(live)
  /\ \A t \in Threads : IdsIssued(trial[t])

(* The entries somebody reads while no batch is in progress and the memory *)
(* the next commit_trial would install agree: installing removes nothing,  *)
(* revives nothing and drops no provenance.                                *)
CurrentTrialsExtendLive ==
  \A t \in Threads :
    \/ pc[t] = "atomic"
    \/ pc[t] = "open" /\ base[t] = revision /\ lock = NoThread
    => Extends(live, trial[t])

(* commit_trial: "install a completed trial iff live memory did not        *)
(* change".  A trial whose revision check would pass was copied from the   *)
(* very entries and counters the memory still holds.                       *)
NoLostUpdate ==
  \A t \in Threads :
    pc[t] = "open" /\ base[t] = revision /\ lock = NoThread
    => /\ live.entries = snapshot[t].entries
       /\ live.counters = snapshot[t].counters

(* The memory the class docstring promises, for as long as the process     *)
(* lives and across restarts, whatever to_state meets on its way.  While a *)
(* thread is half way through _replace_from nobody else issues ids: the    *)
(* counters that count are those of the trial being installed.             *)
Shown ==
  IF \E t \in Threads : lock = t /\ pc[t] \in Installing
    THEN [live EXCEPT !.counters = trial[lock].counters]
    ELSE live

Living == INSTANCE LivingSummary WITH
            summary <- Shown,
            opened  <- IF saving = "idle" THEN <<>> ELSE <<opened>>
ImplementsLivingSummary == Living!Spec
=============================================================================
