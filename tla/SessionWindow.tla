---------------------------- MODULE SessionWindow ----------------------------
(***************************************************************************)
(* application/session.py: MemorySession.send over the transcript          *)
(* (core/transcript_store.py) and the working window (core/window.py).     *)
(*                                                                         *)
(* A turn is its length in characters.  What memory.render returns for a   *)
(* query is a length, empty until an update committed, of at most          *)
(* max_memory_tokens = max_prompt_tokens // 2 tokens (the default).        *)
(* StructuredMemoryService.update is one step with its three outcomes; the *)
(* chat model may raise.                                                   *)
(***************************************************************************)
EXTENDS Sublists

CONSTANTS
  TurnChars,        \* lengths of the turns' texts
  RenderChars,      \* lengths of a rendered memory
  BaseChars,        \* length of the base system prompt and the header
  MaxPromptTokens,  \* max_prompt_tokens
  MaxTurns          \* bound: turns in the transcript

(* The default token estimator, of the window and of the renderer.         *)
Tokens(chars) == IF chars < 8 THEN 1 ELSE chars \div 4

ASSUME SessionAssumption ==
  /\ TurnChars \subseteq Nat /\ BaseChars \in Nat /\ MaxPromptTokens \in Nat
  /\ \A n \in RenderChars : n \in Nat /\ (n = 0 \/ Tokens(n) <= MaxPromptTokens \div 2)

VARIABLES
  transcript,   \* the length of every turn said, by turn id - 1
  window,       \* the ids of the turns in context, oldest first
  rendered,     \* length of the memory rendered for the current query
  committed,    \* ids of the turns of committed updates
  phase         \* where send is: "idle", "evicting", "prompting"

sessionVars == <<transcript, window, rendered, committed, phase>>

SessionInit ==
  /\ transcript = <<>>
  /\ window = <<>>
  /\ rendered = 0
  /\ committed = {}
  /\ phase = "idle"

-----------------------------------------------------------------------------
(* total_tokens of part of the window.                                     *)
TotalTokens(ids) ==
  FoldLeft(LAMBDA sum, i : sum + Tokens(transcript[i]), 0, ids)

PromptOverhead == Tokens(BaseChars + rendered)

NeedsEviction == TotalTokens(window) + PromptOverhead > MaxPromptTokens

(* At or below max_tokens * (1 - evict_fraction), a fraction of one half.  *)
(* (Seeded bug: at or below max_tokens.)                                   *)
FitsLimit(tokens) == tokens <= MaxPromptTokens
ReachesTarget(tokens) == 2 * tokens <= MaxPromptTokens

(* The turns eviction_batch never takes.  (Seeded bug: none are kept.)     *)
KeepNone == 0
KeepLast == 2

(* eviction_batch: the shortest prefix of the window that reaches the      *)
(* target, or all of it but the last turns.                                *)
EvictionBatch ==
  LET evictable == SubSeq(window, 1, Len(window) - KeepLast)
      Enough(k) == ReachesTarget(TotalTokens(window) + PromptOverhead
                                   - TotalTokens(SubSeq(evictable, 1, k)))
      size == CHOOSE k \in 0..Len(evictable) :
                /\ k = Len(evictable) \/ Enough(k)
                /\ \A j \in 0..k-1 : ~Enough(j)
  IN  IF Len(window) <= KeepLast THEN <<>> ELSE SubSeq(evictable, 1, size)

(* WorkingWindow.remove.  (Seeded bug: it removes one turn too many.)      *)
RemoveOneMore(batch) == SubSeq(window, Len(batch) + 2, Len(window))
Remaining(batch) == Keep(window, ToSet(window) \ ToSet(batch))

-----------------------------------------------------------------------------
(* What a query may be shown: nothing before the first committed update.   *)
Renders(done) == IF done = {} THEN {0} ELSE RenderChars

(* Transcript.append: ids count from 1.                                    *)
NextTurnId == Len(transcript) + 1

Send(chars) ==
  /\ phase = "idle"
  /\ Len(transcript) < MaxTurns
  /\ transcript' = Append(transcript, chars)
  /\ window' = Append(window, NextTurnId)
  /\ rendered' \in Renders(committed)
  /\ phase' = "evicting"
  /\ UNCHANGED committed

NothingToEvict ==
  /\ phase = "evicting"
  /\ ~NeedsEviction \/ EvictionBatch = <<>>
  /\ phase' = "prompting"
  /\ UNCHANGED <<transcript, window, rendered, committed>>

UpdateCommitted ==
  /\ phase = "evicting"
  /\ NeedsEviction
  /\ EvictionBatch # <<>>
  /\ committed' = committed \cup ToSet(EvictionBatch)
  /\ window' = Remaining(EvictionBatch)
  /\ rendered' \in Renders(committed')
  /\ phase' = "prompting"
  /\ UNCHANGED transcript

(* UpdateFailed, rejected ops, a failed verification, a concurrent change. *)
UpdateNotCommitted ==
  /\ phase = "evicting"
  /\ NeedsEviction
  /\ EvictionBatch # <<>>
  /\ phase' = "prompting"
  /\ UNCHANGED <<transcript, window, rendered, committed>>

Reply(chars) ==
  /\ phase = "prompting"
  /\ Len(transcript) < MaxTurns
  /\ transcript' = Append(transcript, chars)
  /\ window' = Append(window, NextTurnId)
  /\ phase' = "idle"
  /\ UNCHANGED <<rendered, committed>>

(* chat_llm.complete raises out of send: the user's turn stays.            *)
ReplyFails ==
  /\ phase = "prompting"
  /\ phase' = "idle"
  /\ UNCHANGED <<transcript, window, rendered, committed>>

SessionNext ==
  \/ \E chars \in TurnChars : Send(chars) \/ Reply(chars)
  \/ NothingToEvict \/ UpdateCommitted \/ UpdateNotCommitted \/ ReplyFails

SessionSpec == SessionInit /\ [][SessionNext]_sessionVars

-----------------------------------------------------------------------------
(* Every turn said is in the window or in the turns of a committed update, *)
(* once, and the window is the youngest end of the transcript: a turn      *)
(* leaves the window in the step that records it, never before.            *)
Session == INSTANCE Handover
             WITH said <- Len(transcript), context <- ToSet(window),
                  recorded <- committed
WindowImplementsHandover == Session!Spec

(* After an eviction the prompt fits: the window was cut to half of the    *)
(* budget less the overhead it had, and the memory it is rendered with     *)
(* next takes at most the other half, but for one token of rounding in the *)
(* estimate of the whole prompt.  Only the two turns that are always kept  *)
(* may exceed it.                                                          *)
EvictionMakesRoom ==
  [][UpdateCommitted /\ Len(window') > 2
       => TotalTokens(window)' + PromptOverhead' <= MaxPromptTokens + 1]_sessionVars

(* The turn being answered and the one before it are never evicted, so the *)
(* model is never asked about a turn it cannot see.                        *)
LatestTurnsStay ==
  [][LET n == Len(window)
     IN  \A k \in {n - 1, n} \cap 1..n : Contains(window', window[k])]_sessionVars
=============================================================================
