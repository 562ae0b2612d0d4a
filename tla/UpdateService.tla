---------------------------- MODULE UpdateService ----------------------------
(***************************************************************************)
(* application/structured_service.py over one shared Memory: threads call  *)
(* StructuredMemoryService.update for their evicted turns (snapshot, edit  *)
(* a trial, verify, commit) and then maybe_compact, which detects          *)
(* candidates, asks a model for rollups and installs a copy of the memory  *)
(* (update/compactor.py).                                                  *)
(*                                                                         *)
(* The locked operations of the Memory are single steps here (MemoryStore  *)
(* shows why that is sound); what is split is what the code leaves open to *)
(* other threads: the time between snapshot and commit, the model call of  *)
(* a rollup, and the unlocked copy and install of a compaction.            *)
(*                                                                         *)
(* How the updater chooses its ops is abstracted to any accepted ops that  *)
(* cite the evicted turn; semantic candidates, which the production        *)
(* profile disables, are left out, and so are metrics and diagnostics.     *)
(***************************************************************************)
EXTENDS MemoryOps, FiniteSetsExt, Functions

CONSTANTS
  Threads,        \* threads that share the service's memory
  Progress,       \* the section whose entries are rolled up
  Protected,      \* sections whose entries need a canonical ADD of their own
  SubjectOf,      \* the subject identity of the texts that have one
  PrefixOrder,    \* rank of each section's id prefix among strings
  CompactorOn,    \* FALSE: the profile has no compactor
  Threshold,      \* compact_min_active_entries
  RetryGrowth,    \* _compaction_retry_growth
  MinProgress,    \* min_progress_entries
  MaxCandidate,   \* max_candidate_entries
  Outages,        \* which of "transport", "tokens" may reject a candidate
  NoFailure,      \* _last_compaction_failure_active is None
  MaxId,          \* bound: ids issued per section
  MaxEdits,       \* bound: ops per update
  MaxTurns        \* bound: turns evicted

ASSUME ServiceAssumption ==
  /\ Progress \in Sections
  /\ Protected \subseteq Sections
  /\ DOMAIN SubjectOf \subseteq Texts
  /\ IsFiniteSet(Sections)
  /\ PrefixOrder \in Injection(Sections, 1..Cardinality(Sections))
  /\ CompactorOn \in BOOLEAN
  /\ MaxId \in Nat
  /\ CompactorOn => MaxId <= 9    \* up to 9 the order of ids as strings is numeric
  /\ MinProgress \in Nat /\ MinProgress >= 2
  /\ MaxCandidate \in Nat /\ MaxCandidate >= MinProgress
  /\ MaxTurns \in Nat
  /\ TurnIds = 1..MaxTurns
  /\ NoFailure \notin Nat

VARIABLES
  live,           \* the shared Memory
  revision,       \* Memory._revision
  pending,        \* turns no thread has taken yet: 1..MaxTurns, in order
  turn,           \* the turn each thread is evicting, 0 when none
  pc,             \* where each thread is in update and maybe_compact
  trial,          \* the memory a thread edits, later the compactor's copy
  base,           \* base_revision of the prepared update
  edits,          \* ops applied to the trial so far
  job,            \* the compaction each thread is running
  lastFailure,    \* _last_compaction_failure_active
  recorded,       \* history: turns a committed update left in the memory
  raced           \* history: turns committed while another thread had a copy

vars == <<live, revision, pending, turn, pc, trial, base, edits, job,
          lastFailure, recorded, raced>>

NoJob == [queue |-> {}, active |-> 0, applied |-> FALSE, rejected |-> FALSE]

ProvenanceOf(entries) == UNION {entries[i].prov : i \in DOMAIN entries}

-----------------------------------------------------------------------------
(* Candidate detection (MemoryCompactor.detect_candidates).  A candidate   *)
(* keeps the entries it saw: they may be stale when it is applied.         *)

Candidate(s, ids, why) == [entries |-> Restrict(s.entries, ids), reason |-> why]

(* A typed text groups across sections, any other with its duplicates.     *)
SubjectKey(s, i) ==
  LET text == s.entries[i].text
  IN  IF text \in DOMAIN SubjectOf THEN <<SubjectOf[text]>>
                                   ELSE <<SectionOf(i), text>>

SubjectCandidates(s) ==
  LET durable == {i \in ActiveIds(s) : SectionOf(i) # Progress}
      Group(key) == {i \in durable : SubjectKey(s, i) = key}
  IN  {Candidate(s, Group(key), "subject") :
         key \in {k \in {SubjectKey(s, i) : i \in durable} :
                    Cardinality(Group(k)) >= 2}}

(* Progress entries share a topic here: one component, cut into chunks of  *)
(* MaxCandidate in id order; the last two are evened out if the remainder  *)
(* is below MinProgress, which the last one then has.                      *)
Cuts(n) ==
  LET full   == n \div MaxCandidate
      evened == full > 0 /\ n % MaxCandidate \in 1..(MinProgress - 1)
  IN  {k * MaxCandidate : k \in 1..(IF evened THEN full - 1 ELSE full)}
        \cup (IF evened THEN {n - MinProgress} ELSE {})

Chunks(ids) ==
  LET Rank(i) == Cardinality({j \in ids : Number(j) <= Number(i)})
      CutsBefore(i) == {cut \in Cuts(Cardinality(ids)) : cut < Rank(i)}
  IN  {{j \in ids : CutsBefore(j) = CutsBefore(i)} : i \in ids}

RollupCandidates(s) ==
  LET ids == {i \in ActiveIds(s) : SectionOf(i) = Progress}
  IN  IF Cardinality(ids) < MinProgress THEN {}
      ELSE {Candidate(s, chunk, "rollup") :
              chunk \in {c \in Chunks(ids) : Cardinality(c) >= 2}}

LastTurn(e) == Max(e.prov \cup {-1})

IdAtMost(j, i) ==
  \/ PrefixOrder[SectionOf(j)] < PrefixOrder[SectionOf(i)]
  \/ SectionOf(j) = SectionOf(i) /\ Number(j) <= Number(i)

(* The entry a subject keeps: the latest turn, then the greatest id.       *)
(* (Seeded bug: the greatest id, whatever its turn.)                       *)
LatestById(entries) ==
  CHOOSE i \in DOMAIN entries : \A j \in DOMAIN entries : IdAtMost(j, i)

Latest(entries) ==
  CHOOSE i \in DOMAIN entries : \A j \in DOMAIN entries :
    \/ LastTurn(entries[j]) < LastTurn(entries[i])
    \/ LastTurn(entries[j]) = LastTurn(entries[i]) /\ IdAtMost(j, i)

(* _validate_ops and the hidden-id check against the memory as it is now.  *)
Valid(s, c, text) ==
  LET ids == DOMAIN c.entries
      section == SectionOf(Latest(c.entries))
  IN  /\ ids \subseteq ActiveIds(s)
      /\ {SectionOf(i) : i \in ids} \cap Protected \subseteq {section}
      /\ ProvenanceOf(c.entries) # {}
      /\ \A i \in DOMAIN s.entries \ ActiveIds(s) : s.entries[i].text # text
      /\ ProvenanceOf(Restrict(s.entries, ids)) \subseteq ProvenanceOf(c.entries)

(* A rollup drops its sources altogether, and nothing else.  (Seeded bug:  *)
(* it drops every progress entry that is no longer active.)                *)
DropInactive(entries, c) ==
  IF c.reason = "rollup"
    THEN Restrict(entries, {i \in DOMAIN entries :
           SectionOf(i) # Progress \/ entries[i].status = "active"})
    ELSE entries

DropSources(entries, c) ==
  IF c.reason = "rollup"
    THEN Restrict(entries, DOMAIN entries \ DOMAIN c.entries)
    ELSE entries

(* SUPERSEDE every source, ADD the canonical entry.                        *)
Compacted(s, c, text) ==
  LET ids == DOMAIN c.entries
      history == [i \in DOMAIN s.entries |->
                    IF i \in ids THEN [s.entries[i] EXCEPT !.status = "superseded"]
                                 ELSE s.entries[i]]
  IN  Added([s EXCEPT !.entries = DropSources(history, c)],
            AddOp(SectionOf(Latest(c.entries)), text, ProvenanceOf(c.entries)))

-----------------------------------------------------------------------------
Init ==
  /\ live = EmptyStore
  /\ revision = 0
  /\ pending = 1
  /\ turn = [t \in Threads |-> 0]
  /\ pc = [t \in Threads |-> "idle"]
  /\ trial = [t \in Threads |-> EmptyStore]
  /\ base = [t \in Threads |-> 0]
  /\ edits = [t \in Threads |-> 0]
  /\ job = [t \in Threads |-> NoJob]
  /\ lastFailure = NoFailure
  /\ recorded = {}
  /\ raced = {}

Become(t, state) == pc' = [pc EXCEPT ![t] = state]

(* The thread's private memories are garbage once it is done with them.    *)
Forget(t) ==
  /\ trial' = [trial EXCEPT ![t] = EmptyStore]
  /\ base' = [base EXCEPT ![t] = 0]
  /\ edits' = [edits EXCEPT ![t] = 0]

-----------------------------------------------------------------------------
(* update(turns)                                                           *)

(* The turn of a failed attempt, or the next one.                          *)
TakeTurn(t) ==
  IF turn[t] # 0
    THEN UNCHANGED <<turn, pending>>
    ELSE /\ pending <= MaxTurns
         /\ turn' = [turn EXCEPT ![t] = pending]
         /\ pending' = pending + 1

(* prepare_update.                                                         *)
Prepare(t) ==
  /\ pc[t] = "idle"
  /\ TakeTurn(t)
  /\ trial' = [trial EXCEPT ![t] = live]
  /\ base' = [base EXCEPT ![t] = revision]
  /\ Become(t, "editing")
  /\ UNCHANGED <<live, revision, edits, job, lastFailure, recorded, raced>>

(* An op of an accepted batch: deterministic or from the model, citing the *)
(* evicted turn, or a consolidation that gives an entry what others cite   *)
(* (UpdateBatch models how they come about).                               *)
UpdaterOps(t) ==
  {AddOp(sec, x, {turn[t]}) : sec \in Sections, x \in Texts}
    \cup {UpdateOp(i, x, {turn[t]}, TRUE) : i \in DOMAIN trial[t].entries, x \in Texts}
    \cup {UpdateOp(i, trial[t].entries[i].text, trial[t].entries[j].prov, TRUE) :
            i, j \in ActiveIds(trial[t])}
    \cup {SupersedeOp(i) : i \in ActiveIds(trial[t])}

Edit(t, op) ==
  /\ pc[t] = "editing"
  /\ edits[t] < MaxEdits
  /\ op.kind = "ADD" => trial[t].counters[op.section] < MaxId
  /\ Accepted(trial[t], op)
  /\ trial' = [trial EXCEPT ![t] = AfterOp(@, op)]
  /\ edits' = [edits EXCEPT ![t] = @ + 1]
  /\ UNCHANGED <<live, revision, pending, turn, pc, base, job, lastFailure,
                 recorded, raced>>

(* Rejected ops, UpdateFailed, a failed verification, or a revision that   *)
(* moved (concurrent_change): the turn is not evicted and is tried again.  *)
NotCommitted(t) ==
  /\ pc[t] = "editing"
  /\ Become(t, "idle")
  /\ Forget(t)
  /\ UNCHANGED <<live, revision, pending, turn, job, lastFailure, recorded, raced>>

(* The check of commit_trial.  (Seeded bug: it never fails.)               *)
CurrentAlways(t) == base[t] <= revision
Current(t) == base[t] = revision

Install(t) == live' = trial[t] /\ revision' = revision + 1

Commit(t) ==
  /\ pc[t] = "editing"
  /\ Current(t)
  /\ Install(t)
  /\ recorded' = recorded \cup ({turn[t]} \cap ProvenanceOf(trial[t].entries))
  /\ raced' = IF \E u \in Threads : pc[u] = "install" THEN raced \cup {turn[t]}
                                                      ELSE raced
  /\ turn' = [turn EXCEPT ![t] = 0]
  /\ Become(t, "check")
  /\ Forget(t)
  /\ UNCHANGED <<pending, job, lastFailure>>

-----------------------------------------------------------------------------
(* maybe_compact()                                                         *)

ActiveCount == Cardinality(ActiveIds(live))

Candidates ==
  IF ~CompactorOn THEN {}
  ELSE RollupCandidates(live)
         \cup (IF ActiveCount <= Threshold THEN {} ELSE SubjectCandidates(live))

BreakerOpen ==
  lastFailure # NoFailure /\ ActiveCount < lastFailure + RetryGrowth

SkipCompaction(t) ==
  /\ pc[t] = "check"
  /\ Candidates = {} \/ BreakerOpen
  /\ Become(t, "idle")
  /\ UNCHANGED <<live, revision, pending, turn, trial, base, edits, job,
                 lastFailure, recorded, raced>>

StartCompaction(t) ==
  /\ pc[t] = "check"
  /\ Candidates # {}
  /\ ~BreakerOpen
  /\ job' = [job EXCEPT ![t] = [NoJob EXCEPT !.queue = Candidates,
                                             !.active = ActiveCount]]
  /\ Become(t, "compacting")
  /\ UNCHANGED <<live, revision, pending, turn, trial, base, edits,
                 lastFailure, recorded, raced>>

(* One candidate is done with; result is "applied" or "rejected".          *)
Settle(t, c, result) ==
  job' = [job EXCEPT ![t].queue = @ \ {c},
                     ![t].applied = @ \/ result = "applied",
                     ![t].rejected = @ \/ result = "rejected"]

(* The texts a candidate may be replaced by: the latest text of a subject, *)
(* or whatever summary the model writes.                                   *)
CanonicalTexts(c) ==
  IF c.reason = "rollup" THEN Texts ELSE {c.entries[Latest(c.entries)].text}

RejectCandidate(t) ==
  /\ pc[t] = "compacting"
  /\ \E c \in job[t].queue :
       /\ \/ Cardinality(DOMAIN c.entries) > MaxCandidate
          \/ "tokens" \in Outages
          \/ "transport" \in Outages /\ c.reason = "rollup"
          \/ \E text \in CanonicalTexts(c) : ~Valid(live, c, text)
       /\ Settle(t, c, "rejected")
  /\ UNCHANGED <<live, revision, pending, turn, pc, trial, base, edits,
                 lastFailure, recorded, raced>>

(* Validate against live, copy it and apply the ops to the copy; the copy  *)
(* replaces at least two active entries by one (else "no_reduction").      *)
CopyAndCompact(t) ==
  /\ pc[t] = "compacting"
  /\ \E c \in job[t].queue, text \in Texts :
       /\ Cardinality(DOMAIN c.entries) <= MaxCandidate
       /\ text \in CanonicalTexts(c)
       /\ Valid(live, c, text)
       /\ live.counters[SectionOf(Latest(c.entries))] < MaxId
       /\ trial' = [trial EXCEPT ![t] = Compacted(live, c, text)]
       /\ Settle(t, c, "applied")
  /\ Become(t, "install")
  /\ UNCHANGED <<live, revision, pending, turn, base, edits, lastFailure,
                 recorded, raced>>

(* The copy becomes the memory: entries, narrative and counters.  (Seeded  *)
(* bug: the counters stay behind.)                                         *)
ReplaceEntries(t) == live' = [live EXCEPT !.entries = trial[t].entries]
ReplaceMemory(t) == live' = trial[t]

(* No lock, no revision.                                                   *)
InstallCompaction(t) ==
  /\ pc[t] = "install"
  /\ ReplaceMemory(t)
  /\ Become(t, "compacting")
  /\ Forget(t)
  /\ UNCHANGED <<revision, pending, turn, job, lastFailure, recorded, raced>>

FinishCompaction(t) ==
  /\ pc[t] = "compacting"
  /\ job[t].queue = {}
  /\ lastFailure' = IF job[t].rejected THEN job[t].active
                    ELSE IF job[t].applied THEN NoFailure ELSE lastFailure
  /\ job' = [job EXCEPT ![t] = NoJob]
  /\ Become(t, "idle")
  /\ UNCHANGED <<live, revision, pending, turn, trial, base, edits,
                 recorded, raced>>

-----------------------------------------------------------------------------
Next ==
  \E t \in Threads :
    \/ Prepare(t) \/ NotCommitted(t) \/ Commit(t)
    \/ \E op \in UpdaterOps(t) : Edit(t, op)
    \/ SkipCompaction(t) \/ StartCompaction(t) \/ RejectCandidate(t)
    \/ CopyAndCompact(t) \/ InstallCompaction(t) \/ FinishCompaction(t)

Spec == Init /\ [][Next]_vars

-----------------------------------------------------------------------------
(* A turn a committed update cited is never lost again: some entry, active *)
(* or superseded, still names it (compaction must "preserve all source     *)
(* turn ids"; the chat window has dropped the turn itself).                *)
RecordedTurnsCovered == recorded \subseteq ProvenanceOf(live.entries)

(* Only a commit that falls between another thread's compaction copy and   *)
(* its install may be overwritten: whatever threads, stale candidates and  *)
(* compactions do, every other recorded turn stays in the memory.          *)
OnlyRacesLoseTurns == recorded \ raced \subseteq ProvenanceOf(live.entries)

(* Superseded entries are the audit history: once an entry is superseded,  *)
(* no update and no compaction changes or drops it.                        *)
HistoryIsFinal ==
  [][\A i \in DOMAIN live.entries \ ActiveIds(live) :
       Holds(live', i) /\ live'.entries[i] = live.entries[i]]_vars

(* Memory._next_id never reuses an id: neither an update nor a compaction  *)
(* that drops entries lets a counter fall behind the ids it issued, and a  *)
(* dropped id does not come back as another entry.                         *)
IdsNeverReissued ==
  [][/\ IdsIssued(live')
     /\ \A i \in DOMAIN live'.entries \ DOMAIN live.entries :
          Number(i) > live.counters[SectionOf(i)]]_vars

(* Deterministic compaction keeps the value of the latest turn: the text   *)
(* of the entry it adds belongs to a source no other source is newer than. *)
CompactionKeepsLatestValue ==
  [][\A t \in Threads : InstallCompaction(t) =>
       LET sources == {i \in ActiveIds(live) :
                         Holds(live', i) /\ i \notin ActiveIds(live')}
           added == DOMAIN live'.entries \ DOMAIN live.entries
       IN  \A i \in added : sources # {} =>
             \E j \in sources :
               /\ live.entries[j].text = live'.entries[i].text
               /\ \A k \in sources :
                    LastTurn(live.entries[k]) <= LastTurn(live.entries[j])]_vars
=============================================================================
