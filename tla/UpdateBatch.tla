----------------------------- MODULE UpdateBatch -----------------------------
(***************************************************************************)
(* How one batch of evicted turns becomes a committed update: the updater  *)
(* (update/updater.py, prepare_update) edits a private trial with          *)
(* deterministic ops, the model's ops and a consolidation, retrying the    *)
(* model a bounded number of times; the verifier (update/verifier.py) then *)
(* judges the ops the updater reports, and StructuredMemoryService.update  *)
(* commits or leaves the turns where they are, to be evicted again later.  *)
(*                                                                         *)
(* One caller; UpdateService has several.  The policy is one of those that *)
(* do not filter ops (all but "practical").  A turn is what the extractor  *)
(* and the verifier make of it; which entries share words is left open, so *)
(* any may be shown to the model and any may be consolidated.  The         *)
(* migration of entries to typed subjects changes payload only.            *)
(***************************************************************************)
EXTENDS MemoryOps, Sublists, FiniteSets, FiniteSetsExt

CONSTANTS
  StatusChanges,  \* the status_changes section
  NoStatement,    \* what a turn without an extractable statement yields
  TurnKinds,      \* what the user may say
  ReplyOps,       \* ops the model may answer with
  MaxReply,       \* bound: ops in an answer
  MaxRetries,     \* max_retries
  Gates,          \* whether the LLM gate may find that no call is needed
  MaxTurns        \* bound: turns of the conversation

(* cue: a status-change cue is found in the turn; statement: the text the  *)
(* deterministic pass extracts, which looks before a code fence only and   *)
(* gives up on a long sentence.                                            *)
TurnKind == [cue: BOOLEAN, statement: Texts \cup {NoStatement}]

ASSUME BatchAssumption ==
  /\ StatusChanges \in Sections
  /\ NoStatement \notin Texts
  /\ TurnKinds \subseteq TurnKind
  /\ ReplyOps \subseteq Op
  /\ MaxReply \in Nat /\ MaxRetries \in Nat
  /\ Gates \subseteq BOOLEAN
  /\ MaxTurns \in Nat /\ TurnIds = 1..MaxTurns

VARIABLES
  said,       \* the kind of every turn of the conversation
  live,       \* the shared Memory
  recorded,   \* turns whose update was committed: they are out of context
  pc,         \* where the update is
  batch,      \* the turns being evicted
  attempt,    \* model calls that failed so far
  trial,      \* PreparedUpdate.trial_memory
  shown,      \* ids of the entries shown to the model
  applied     \* PreparedUpdate.applied_ops

work == <<batch, attempt, trial, shown, applied>>
vars == <<said, live, recorded, pc, work>>

-----------------------------------------------------------------------------
(* Batches of ops.                                                         *)

Run(s, ops) ==
  FoldLeft(LAMBDA r, op : [store |-> AfterOp(r.store, op),
                           ok |-> r.ok /\ Accepted(r.store, op)],
           [store |-> s, ok |-> TRUE], ops)

(* (Seeded bug: what was accepted before a rejected op stays applied.)     *)
ApplyPartly(s, ops) == Run(s, ops)
ApplyAtomically(s, ops) ==
  LET result == Run(s, ops)
  IN  IF result.ok THEN result ELSE [result EXCEPT !.store = s]

HasActiveText(s, sec, text) ==
  \E i \in ActiveIds(s) : SectionOf(i) = sec /\ s.entries[i].text = text

(* _deterministic_status_change_ops: an ADD for every statement that no    *)
(* active entry and no earlier turn of the batch made.                     *)
DeterministicOps(s, turns) ==
  FoldLeft(LAMBDA ops, n :
             LET text == said[n].statement
                 seen == \/ HasActiveText(s, StatusChanges, text)
                         \/ \E k \in DOMAIN ops : ops[k].text = text
             IN  IF text = NoStatement \/ seen THEN ops
                 ELSE Append(ops, AddOp(StatusChanges, text, {n})),
           <<>>, Keep([n \in 1..MaxTurns |-> n], turns))

(* An op on an entry the model was not shown rejects the whole answer.     *)
Hidden(op) ==
  op.kind \in {"UPDATE", "SUPERSEDE"} /\ Holds(trial, op.id) /\ op.id \notin shown

(* NOOPs and ADDs of what is already recorded are dropped.                 *)
Dropped(op) ==
  \/ op.kind = "NOOP"
  \/ op.kind = "ADD" /\ HasActiveText(trial, op.section, op.text)

(* _validate_provenance: only turns of this batch, at least one.  (Seeded  *)
(* bug: any turn.)                                                         *)
CitesSomething(op) == op.kind \in {"ADD", "UPDATE"} => op.prov # {}
CitesBatch(op) ==
  op.kind \in {"ADD", "UPDATE"} => op.prov # {} /\ op.prov \subseteq batch

LastTurn(e) == Max(e.prov \cup {0})

(* One cluster of _consolidate_lifecycle or _consolidate_near_duplicates:  *)
(* the entry of the latest turn gains the provenance of the others.        *)
ConsolidationOps(keep, cluster) ==
  LET entries == trial.entries
  IN  <<UpdateOp(keep, entries[keep].text,
                 UNION {entries[i].prov : i \in cluster}, TRUE)>>
        \o SetToSeq({SupersedeOp(i) : i \in cluster \ {keep}})

-----------------------------------------------------------------------------
Init ==
  /\ said \in [TurnIds -> TurnKinds]
  /\ live = EmptyStore
  /\ recorded = {}
  /\ pc = "idle" /\ batch = {} /\ attempt = 0
  /\ trial = EmptyStore /\ shown = {} /\ applied = <<>>

(* The update returns; its trial is garbage.                               *)
Return ==
  /\ pc' = "idle" /\ batch' = {} /\ attempt' = 0
  /\ trial' = EmptyStore /\ shown' = {} /\ applied' = <<>>

(* transaction_snapshot, the deterministic ops, the gate and the choice of *)
(* the entries to show.  Any oldest turns still in context may be evicted. *)
Prepare ==
  /\ pc = "idle"
  /\ \E last \in TurnIds \ recorded :
       batch' = {n \in TurnIds \ recorded : n <= last}
  /\ applied' = DeterministicOps(live, batch')
  /\ trial' = ApplyAtomically(live, applied').store
  /\ \E skip \in Gates : pc' = IF skip THEN "consolidating" ELSE "asking"
  /\ \E ids \in SUBSET DOMAIN trial'.entries : shown' = ids
  /\ UNCHANGED <<said, live, recorded, attempt>>

(* A failed attempt is followed by another on the trial s, or by           *)
(* UpdateFailed or rejected ops once the retries are used up.              *)
RetriesLeft == attempt < MaxRetries

TryAgain(s) ==
  IF RetriesLeft
    THEN /\ attempt' = attempt + 1
         /\ trial' = s
         /\ UNCHANGED <<pc, batch, shown, applied>>
    ELSE Return

(* No answer, or one that is no JSON array.                                *)
NoAnswer ==
  /\ pc = "asking"
  /\ TryAgain(trial)
  /\ UNCHANGED <<said, live, recorded>>

Kept(reply) == Keep(reply, {op \in ToSet(reply) : ~Dropped(op)})

Presentable(reply) ==
  /\ \A k \in DOMAIN reply : ~Hidden(reply[k])
  /\ \A k \in DOMAIN Kept(reply) : CitesBatch(Kept(reply)[k])

AnswerApplied(reply) ==
  /\ pc = "asking"
  /\ Presentable(reply)
  /\ ApplyAtomically(trial, Kept(reply)).ok
  /\ trial' = ApplyAtomically(trial, Kept(reply)).store
  /\ applied' = applied \o Kept(reply)
  /\ pc' = "consolidating"
  /\ UNCHANGED <<said, live, recorded, batch, attempt, shown>>

AnswerRejected(reply) ==
  /\ pc = "asking"
  /\ \/ ~Presentable(reply) /\ TryAgain(trial)
     \/ /\ Presentable(reply)
        /\ ~ApplyAtomically(trial, Kept(reply)).ok
        /\ TryAgain(ApplyAtomically(trial, Kept(reply)).store)
  /\ UNCHANGED <<said, live, recorded>>

Replies == SeqOf(ReplyOps, MaxReply)

NothingToConsolidate ==
  /\ pc = "consolidating"
  /\ pc' = "verifying"
  /\ UNCHANGED <<said, live, recorded, work>>

Consolidate ==
  /\ pc = "consolidating"
  /\ \E cluster \in SUBSET ActiveIds(trial) :
       /\ Cardinality(cluster) >= 2
       /\ \E keep \in cluster :
            /\ \A i \in cluster : LastTurn(trial.entries[i]) <= LastTurn(trial.entries[keep])
            /\ applied' = applied \o ConsolidationOps(keep, cluster)
            /\ trial' = ApplyAtomically(trial, ConsolidationOps(keep, cluster)).store
  /\ pc' = "verifying"
  /\ UNCHANGED <<said, live, recorded, batch, attempt, shown>>

-----------------------------------------------------------------------------
(* _cue_is_recorded: the batch added a status change or superseded         *)
(* something, or an active entry says it already.  (Seeded bug: only what  *)
(* this batch did counts.)                                                 *)
StatusAddOrSupersede ==
  \E k \in DOMAIN applied :
    \/ applied[k].kind = "ADD" /\ applied[k].section = StatusChanges
    \/ applied[k].kind = "SUPERSEDE"

FreshlyRecorded(n) == StatusAddOrSupersede
CueIsRecorded(n) ==
  \/ StatusAddOrSupersede
  \/ said[n].statement # NoStatement
       /\ HasActiveText(trial, StatusChanges, said[n].statement)

Verified == \A n \in batch : said[n].cue => CueIsRecorded(n)

Commit ==
  /\ pc = "verifying"
  /\ Verified
  /\ live' = trial
  /\ recorded' = recorded \cup batch
  /\ Return
  /\ UNCHANGED said

VerificationFails ==
  /\ pc = "verifying"
  /\ ~Verified
  /\ Return
  /\ UNCHANGED <<said, live, recorded>>

Next ==
  \/ Prepare \/ NoAnswer \/ \E reply \in Replies : AnswerApplied(reply) \/ AnswerRejected(reply)
  \/ NothingToConsolidate \/ Consolidate
  \/ Commit \/ VerificationFails

Spec == Init /\ [][Next]_vars

(* An update runs to its end and the turns of a failed one are evicted     *)
(* again as the conversation goes on; the model says now and then that it  *)
(* has nothing to add, the least an acceptable answer can say.             *)
NothingToAdd == <<[kind |-> "NOOP"]>>

FairSpec ==
  /\ Spec
  /\ WF_vars(Prepare)
  /\ SF_vars(AnswerApplied(NothingToAdd))
  /\ WF_vars(NothingToConsolidate \/ Consolidate)
  /\ WF_vars(Commit \/ VerificationFails)

-----------------------------------------------------------------------------
(* The verifier never sees a diff, only the ops the updater reports: they  *)
(* are, in order, exactly what turns the memory into the trial, with       *)
(* nothing left over from answers that were rejected on the way.           *)
ReportExplainsTrial ==
  pc \in {"consolidating", "verifying"} => trial = Run(live, applied).store

(* A turn that is still in the conversation has left nothing in the        *)
(* memory: whatever failed while it was being evicted, evicting it again   *)
(* does not record it twice, and no entry cites a turn not yet recorded.   *)
UncommittedTurnsLeaveNoTrace ==
  \A i \in DOMAIN live.entries : live.entries[i].prov \subseteq recorded

(* "The evicted turns would never leave the context window" is what the    *)
(* verifier's escape hatch is there to prevent: whatever else the model    *)
(* answers in between, every turn is recorded in the end.                  *)
EveryTurnRecorded == <>(recorded = TurnIds)
=============================================================================
