--------------------------- MODULE EventIngestion ---------------------------
(***************************************************************************)
(* application/event_memory_service.py: EventMemoryService fed by the chat *)
(* or the agent adapter (adapters/events/) under the chat or the agent     *)
(* policy (policies/).  The world produces records in order; whoever feeds *)
(* the service adapts some stretch of them and ingests it, and may do so   *)
(* again ("traces are commonly replayed or delivered at least once"), a    *)
(* later stretch before an earlier one too.                                *)
(*                                                                         *)
(* ingest_events holds the lock for a whole batch: one step.  A record's   *)
(* text is reduced to what the policies look for in it, its length to a    *)
(* token count.                                                            *)
(***************************************************************************)
EXTENDS Sublists

CONSTANTS
  Records,      \* what the world may produce under the policy "agent" or "chat"
  GivenIds,     \* TRUE: records bring an id; FALSE: the adapter numbers them
  Budget,       \* max_tokens of retrieve_memory
  MaxRecords,   \* bound: records produced
  MaxBatches    \* bound: batches ingested

(* source: source_type.value; actor; subject: metadata.subject or task_id  *)
(* or actor; text: the marker found in the content; flag: durable_summary  *)
(* of a tool result, accepted of a chat message; tokens: its length.       *)
Record == [source: {"chat_message", "tool_result", "tool_call", "agent_decision",
                    "task_status", "observation", "artifact"},
           actor: STRING, subject: STRING,
           text: {"plain", "prefer", "goal", "blocked", "marker"},
           flag: BOOLEAN, tokens: Nat \ {0}]

ASSUME EventAssumption ==
  /\ DOMAIN Records \subseteq {"agent", "chat"}
  /\ \A p \in DOMAIN Records : Records[p] \subseteq Record
  /\ GivenIds \in BOOLEAN /\ Budget \in Nat

VARIABLES
  policy,     \* the policy, and with it the adapter, of the service
  happened,   \* the records produced so far
  entries,    \* the service's entries, oldest first
  processed,  \* _processed_event_ids
  delivered,  \* history: numbers of the records that were ingested
  batches     \* batches ingested so far

vars == <<policy, happened, entries, processed, delivered, batches>>

-----------------------------------------------------------------------------
(* policies/agent.py and policies/chat.py                                  *)

AgentStores(r) ==
  IF r.source = "tool_result" THEN r.flag
  ELSE r.source \in {"agent_decision", "task_status", "observation", "artifact"}

AgentType(r) ==
  CASE r.source = "agent_decision" -> "decision"
    [] r.source = "task_status"    ->
         IF r.text = "blocked" THEN "unresolved_issue" ELSE "task_state"
    [] r.source = "artifact"       -> "artifact_reference"
    [] OTHER                       -> "observation"

ChatStores(r) ==
  /\ r.actor = "assistant" => r.flag
  /\ r.text # "plain"

ChatType(r) ==
  CASE r.text = "prefer"  -> "user_preference"
    [] r.text = "goal"    -> "goal"
    [] r.text = "blocked" -> "unresolved_issue"
    [] OTHER              -> "user_fact"

ShouldStore(r) == IF policy = "agent" THEN AgentStores(r) ELSE ChatStores(r)
Classify(r) == IF policy = "agent" THEN AgentType(r) ELSE ChatType(r)

(* retention_priority: weight times importance, in ten-thousandths.        *)
AgentPriority(type) ==
  CASE type = "unresolved_issue"   -> 98 * 95
    [] type = "task_state"         -> 95 * 95
    [] type = "decision"           -> 90 * 75
    [] type = "artifact_reference" -> 80 * 75
    [] OTHER                       -> 50 * 75

ChatPriority(type) ==
  CASE type = "user_preference" -> 95 * 90
    [] type = "goal"            -> 85 * 90
    [] type = "user_fact"       -> 100 * 65
    [] OTHER                    -> 40 * 65

Priority(type) == IF policy = "agent" THEN AgentPriority(type) ELSE ChatPriority(type)

-----------------------------------------------------------------------------
Init ==
  /\ policy \in DOMAIN Records
  /\ happened = <<>>
  /\ entries = <<>>
  /\ processed = {}
  /\ delivered = {}
  /\ batches = 0

Happens(r) ==
  /\ Len(happened) < MaxRecords
  /\ happened' = Append(happened, r)
  /\ UNCHANGED <<policy, entries, processed, delivered, batches>>

-----------------------------------------------------------------------------
(* The adapter: the id of the k-th record of a batch, record number n.     *)
EventId(k, n) == IF GivenIds THEN <<"event", n>> ELSE <<"agent", k>>

(* Every active entry of the subject and type gives way.  (Seeded bugs:    *)
(* only the newest one of the subject does; it is removed for good.)       *)
SupersedeNewest(es, r) ==
  [k \in DOMAIN es |->
     IF k = Len(es) /\ es[k].subject = r.subject
       THEN [es[k] EXCEPT !.status = "superseded"] ELSE es[k]]

RemovePrior(es, r) ==
  SelectSeq(es, LAMBDA e : e.subject # r.subject \/ e.type # Classify(r))

SupersedePrior(es, r) ==
  [k \in DOMAIN es |->
     IF es[k].status = "active" /\ es[k].subject = r.subject
          /\ es[k].type = Classify(r)
       THEN [es[k] EXCEPT !.status = "superseded"] ELSE es[k]]

Entry(r, n) == [type |-> Classify(r), subject |-> r.subject, event |-> n,
                tokens |-> r.tokens, status |-> "active"]

(* One event of a batch; s is [entries, processed].  (Seeded bug: an event *)
(* that is not stored is not remembered, and neither is one that is.)      *)
IngestForgetful(s, id, n) ==
  LET r == happened[n]
  IN  IF id \in s.processed \/ ~ShouldStore(r) THEN s
      ELSE [s EXCEPT !.entries = Append(SupersedePrior(@, r), Entry(r, n))]

Ingest(s, id, n) ==
  LET r == happened[n]
      seen == [s EXCEPT !.processed = @ \cup {id}]
  IN  IF id \in s.processed THEN s
      ELSE IF ~ShouldStore(r) THEN seen
      ELSE [seen EXCEPT !.entries = Append(SupersedePrior(@, r), Entry(r, n))]

(* adapt and ingest_events on records first..last.                         *)
IngestEvents(first, last) ==
  /\ batches < MaxBatches
  /\ LET after == FoldLeft(LAMBDA s, k : Ingest(s, EventId(k, first + k - 1), first + k - 1),
                           [entries |-> entries, processed |-> processed],
                           [k \in 1..(last - first + 1) |-> k])
     IN  entries' = after.entries /\ processed' = after.processed
  /\ delivered' = delivered \cup first..last
  /\ batches' = batches + 1
  /\ UNCHANGED <<policy, happened>>

Next ==
  \/ \E r \in Records[policy] : Happens(r)
  \/ \E first, last \in DOMAIN happened : first <= last /\ IngestEvents(first, last)

Spec == Init /\ [][Next]_vars

-----------------------------------------------------------------------------
(* retrieve_memory: active entries of one scope or of any, by priority,    *)
(* older first among equals (a reversed sort is stable), taking what still *)
(* fits the budget.                                                        *)

(* scope_for                                                               *)
ScopeFor(type) ==
  IF policy = "agent" THEN "task"
  ELSE IF type \in {"user_fact", "user_preference"} THEN "user" ELSE "session"

Scopes == {"any", "user", "session", "task"}   \* "any" is None

Active == {k \in DOMAIN entries : entries[k].status = "active"}

Before(j, k) ==
  LET p == Priority(entries[j].type) q == Priority(entries[k].type)
  IN  p > q \/ (p = q /\ j < k)

(* (Seeded bug: it stops at the first entry that does not fit.)            *)
TakeUntilFull(s, k) ==
  IF s.full \/ s.used + entries[k].tokens > Budget THEN [s EXCEPT !.full = TRUE]
  ELSE [s EXCEPT !.chosen = @ \cup {k}, !.used = @ + entries[k].tokens]

TakeIfFits(s, k) ==
  IF s.used + entries[k].tokens > Budget THEN s
  ELSE [s EXCEPT !.chosen = @ \cup {k}, !.used = @ + entries[k].tokens]

Candidates(scope) ==
  {k \in Active : scope = "any" \/ ScopeFor(entries[k].type) = scope}

(* candidates.sort                                                         *)
Ranked(scope) == Sorted(Candidates(scope), Before)

Retrieved(scope) ==
  FoldLeft(TakeIfFits, [chosen |-> {}, used |-> 0, full |-> FALSE], Ranked(scope))

-----------------------------------------------------------------------------
(* A subject has at most one current entry of each type, however batches   *)
(* are cut and replayed.                                                   *)
OneActivePerSubject ==
  \A j, k \in Active :
    entries[j].subject = entries[k].subject /\ entries[j].type = entries[k].type
    => j = k

(* "Stable event ids make ingestion idempotent": a record yields one entry *)
(* however often its trace is replayed.                                    *)
IngestedOnce ==
  \A j, k \in DOMAIN entries : entries[j].event = entries[k].event => j = k

(* Of the delivered records of a subject and type, the current entry is    *)
(* the latest, as long as those stored were first delivered in order: a    *)
(* replay of old records does not bring an old state back.                 *)
InOrder == \A j, k \in DOMAIN entries : j < k => entries[j].event < entries[k].event

CurrentIsLatest ==
  InOrder =>
    \A n \in delivered :
      ShouldStore(happened[n]) =>
        \E k \in Active : /\ entries[k].subject = happened[n].subject
                          /\ entries[k].type = Classify(happened[n])
                          /\ entries[k].event >= n

(* A delivered record the policy would store has an entry: ingestion drops *)
(* replays and nothing else.                                               *)
NothingDropped ==
  \A n \in delivered :
    ShouldStore(happened[n]) => \E k \in DOMAIN entries : entries[k].event = n

(* What is retrieved for a scope fits the budget, is current and of the    *)
(* scope, and leaves out such an entry only if those ahead of it leave no  *)
(* room for it: one of another scope takes no room away.                   *)
RetrievalFillsBudget ==
  LET Tokens(ks) == FoldLeft(LAMBDA sum, k : sum + entries[k].tokens, 0, SetToSeq(ks))
  IN  \A scope \in Scopes :
        LET chosen == Retrieved(scope).chosen
        IN  /\ chosen \subseteq Candidates(scope)
            /\ Tokens(chosen) <= Budget
            /\ \A k \in Candidates(scope) \ chosen :
                 Tokens({j \in chosen : Before(j, k)}) + entries[k].tokens > Budget
=============================================================================
