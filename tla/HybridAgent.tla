----------------------------- MODULE HybridAgent -----------------------------
(***************************************************************************)
(* agents/hybrid.py: an agent with the two middlewares                     *)
(* [StructuredMemoryMiddleware, LongTermMemoryMiddleware].  LangChain runs *)
(* their before_model nodes in that order, each on the state the one       *)
(* before it left, so the long-term middleware (longterm/middleware.py)    *)
(* finds out what was evicted by comparing the messages it tracked before  *)
(* with the messages it is shown now, and pushes the difference to mem0.   *)
(*                                                                         *)
(* Left out: summary messages (no SummarizationMiddleware in this agent),  *)
(* recall itself (search, its cache, the prompt block).  mem0's add either *)
(* stores the batch, or raises without ("lost") or after ("unconfirmed")   *)
(* storing it.                                                             *)
(***************************************************************************)
EXTENDS EvictionMiddleware

CONSTANTS
  AddOutcomes,    \* subset of {"stored", "lost", "unconfirmed"}
  TextSizes       \* sizes of the AIMessages that say something beside tool_calls

ASSUME HybridAssumption ==
  /\ AddOutcomes \subseteq {"stored", "lost", "unconfirmed"}
  /\ NextNode = "recall"

VARIABLES
  tracked,    \* _tracked: message ids with a payload, in the order seen
  pushed,     \* _pushed_ids
  longTerm,   \* what mem0 stored: message ids, in order, repetitions too
  dropped     \* history: messages with a payload that left the context

recallVars == <<tracked, pushed, longTerm, dropped>>
hybridVars == <<vars, recallVars>>

(* _message_payload: only what the user and the assistant said, beside     *)
(* tool_calls too.                                                         *)
HasPayload(m) ==
  \/ m.kind \in {"human", "answer"}
  \/ m.kind = "call" /\ m.size \in TextSizes

Payloads(ms) == LET spoken == Keep(ms, {m \in ToSet(ms) : HasPayload(m)})
                IN  [k \in DOMAIN spoken |-> spoken[k].id]

HybridInit ==
  /\ Init
  /\ tracked = <<>>
  /\ pushed = {}
  /\ longTerm = <<>>
  /\ dropped = {}

-----------------------------------------------------------------------------
(* _push_batch.  An add that raises leaves the batch to be pushed later.   *)
(* (Seeded bug: the batch counts as pushed before it is stored.)           *)
MarkFirst(batch, outcome) ==
  /\ longTerm' = IF outcome = "lost" THEN longTerm ELSE longTerm \o batch
  /\ pushed' = pushed \cup ToSet(batch)

PushBatch(batch, outcome) ==
  /\ longTerm' = IF outcome = "lost" THEN longTerm ELSE longTerm \o batch
  /\ pushed' = IF outcome = "stored" THEN pushed \cup ToSet(batch) ELSE pushed

Unpushed(ids) == Keep(ids, ToSet(ids) \ pushed)

(* (Seeded bug: the batch comes newest first.)                             *)
CurrentIds == {messages[k].id : k \in DOMAIN messages}
DisappearedNewestFirst == Reverse(Unpushed(Keep(tracked, ToSet(tracked) \ CurrentIds)))
Disappeared == Unpushed(Keep(tracked, ToSet(tracked) \ CurrentIds))

(* before_model: push what disappeared, then track what is there.          *)
Recall ==
  /\ pc = "recall"
  /\ IF Disappeared = <<>> THEN UNCHANGED <<pushed, longTerm>>
     ELSE \E outcome \in AddOutcomes : PushBatch(Disappeared, outcome)
  /\ tracked' = tracked \o Keep(Payloads(messages), ToSet(Payloads(messages)) \ ToSet(tracked))
  /\ pc' = "model"
  /\ UNCHANGED <<messages, said, mirrored, recorded, dropped>>

(* What flush pushes.  (Seeded bug: what left the context, as an eviction  *)
(* does.)                                                                  *)
NotYetEvicted == Disappeared
NotYetPushed == Unpushed(tracked)

(* flush, between two runs of the agent.                                   *)
Flush ==
  /\ pc = "user"
  /\ NotYetPushed # <<>>
  /\ \E outcome \in AddOutcomes : PushBatch(NotYetPushed, outcome)
  /\ UNCHANGED <<vars, tracked, dropped>>

(* The structured middleware and the agent, as they are on their own.      *)
Structured ==
  /\ BeforeModel
  /\ dropped' = dropped \cup (ToSet(Payloads(messages)) \ ToSet(Payloads(messages')))
  /\ UNCHANGED <<tracked, pushed, longTerm>>

HybridNext ==
  \/ Structured
  \/ Agent /\ UNCHANGED recallVars
  \/ Recall
  \/ Flush

HybridSpec == HybridInit /\ [][HybridNext]_hybridVars

-----------------------------------------------------------------------------
(* "Persist the message IDs that disappeared from the active context       *)
(* window": whatever the user or the assistant said and the structured     *)
(* middleware evicted is in mem0 or still tracked for the next push.       *)
EvictedStaysRecallable ==
  dropped \subseteq ToSet(longTerm) \cup (ToSet(tracked) \ pushed)

(* A flush that mem0 accepts leaves out nothing that was said up to the    *)
(* last model call, however many adds failed before, whatever was evicted  *)
(* and wherever a run broke off: only what the model said in that call,    *)
(* which no before_model has seen, is missing.                             *)
FlushStoresAllButLastAnswer ==
  [][Flush /\ pushed' # pushed =>
       LET seen == IF Last(messages).kind \in {"answer", "call"} THEN Front(messages)
                                                                 ELSE messages
       IN  dropped \cup ToSet(Payloads(seen)) \subseteq ToSet(longTerm')]_hybridVars

(* mem0 distils a conversation from the batches in the order it gets them: *)
(* whatever mix of evictions, flushes and retries stored them, no message  *)
(* is stored after one that was said later, or a second time.              *)
StoredInOrder ==
  \A j, k \in DOMAIN longTerm : j < k => longTerm[j] < longTerm[k]
=============================================================================
