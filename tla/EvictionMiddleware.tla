------------------------- MODULE EvictionMiddleware -------------------------
(***************************************************************************)
(* adapters/langchain/structured_memory.py: StructuredMemoryMiddleware in  *)
(* a LangChain agent.  before_model mirrors the messages it has not seen   *)
(* into the transcript and, over the token budget, hands the oldest ones   *)
(* to StructuredMemoryService.update, never splitting an AIMessage from    *)
(* the ToolMessages that answer it.                                        *)
(*                                                                         *)
(* The agent loop around it (user, model, tools, checkpointed state) is    *)
(* external: a model or a tool may raise out of the run, and the messages  *)
(* up to there stay in the checkpoint.  A message is its id, what kind it  *)
(* is, which call it answers and its token count.                          *)
(***************************************************************************)
EXTENDS Sublists, FiniteSets, FiniteSetsExt

CONSTANTS
  Sizes,          \* token counts of messages
  MaxTokens,      \* max_tokens
  TargetTokens,   \* max(1, int(max_tokens * (1 - evict_fraction)))
  KeepMessages,   \* max(1, keep_messages)
  MaxCalls,       \* tool calls of one AIMessage
  Imported,       \* message lists a conversation may start from
  NextNode,       \* the node after this before_model: "model" or "recall"
  MaxMessages     \* bound: messages created

Kinds == {"human", "answer", "call", "tool"}
(* call: the AIMessage a ToolMessage answers, 0 when there is none.        *)
Message == [id: Nat \ {0}, kind: Kinds, call: Nat, size: Sizes]

(* The tools node replies right after the AIMessage, call by call.         *)
FollowsItsCall(ms, k) ==
  ms[k].call # 0 =>
    /\ ms[k].kind = "tool" /\ k > 1
    /\ \/ ms[k - 1].kind = "call" /\ ms[k - 1].id = ms[k].call
       \/ ms[k - 1].call = ms[k].call

ASSUME EvictionAssumption ==
  /\ Sizes \subseteq Nat
  /\ TargetTokens \in 1..MaxTokens
  /\ KeepMessages \in Nat \ {0}
  /\ MaxCalls \in Nat /\ NextNode \in {"model", "recall"}
  /\ \A ms \in Imported :
       ms \in Seq(Message) /\ \A k \in DOMAIN ms : ms[k].id = k /\ FollowsItsCall(ms, k)

VARIABLES
  messages,   \* state["messages"] of the agent
  said,       \* messages created so far: their ids are 1..said
  mirrored,   \* the transcript: the message id of each turn
  recorded,   \* turn ids of committed updates
  pc          \* the node of the agent that runs next

vars == <<messages, said, mirrored, recorded, pc>>

Init ==
  /\ messages \in Imported
  /\ said = Len(messages)
  /\ mirrored = <<>>
  /\ recorded = {}
  /\ pc = "user"

-----------------------------------------------------------------------------
(* _find_cutoff: how many of the oldest messages to evict.                 *)

TokenCount(ms) == FoldLeft(LAMBDA sum, m : sum + m.size, 0, ms)
From(ms, cutoff) == SubSeq(ms, cutoff + 1, Len(ms))
IsTool(ms, index) == ms[index + 1].kind = "tool"

(* n.bit_length(): how often n can be halved before nothing is left.       *)
Halved(n, b) == FoldLeft(LAMBDA m, i : m \div 2, n, [i \in 1..b |-> i])
BitLength(n) == Min({b \in 0..n : Halved(n, b) = 0})

(* The probe that halves the interval.  (Seeded bug: a probe that fits     *)
(* moves the right end past it.)                                           *)
ProbeSkipping(ms, s) ==
  LET mid == (s.left + s.right) \div 2
  IN  IF s.left >= s.right THEN s
      ELSE IF TokenCount(From(ms, mid)) <= TargetTokens
        THEN [s EXCEPT !.cutoff = mid, !.right = mid - 1]
        ELSE [s EXCEPT !.left = mid + 1]

Probe(ms, s) ==
  LET mid == (s.left + s.right) \div 2
  IN  IF s.left >= s.right THEN s
      ELSE IF TokenCount(From(ms, mid)) <= TargetTokens
        THEN [s EXCEPT !.cutoff = mid, !.right = mid]
        ELSE [s EXCEPT !.left = mid + 1]

TokenCutoff(ms) ==
  LET n == Len(ms)
      found == FoldLeft(LAMBDA s, i : Probe(ms, s),
                        [left |-> 0, right |-> n, cutoff |-> n],
                        [i \in 1..(BitLength(n) + 1) |-> i])
      cutoff == IF found.cutoff = n THEN found.left ELSE found.cutoff
  IN  IF cutoff < n THEN cutoff ELSE IF n > 1 THEN n - 1 ELSE 0

(* _find_safe_cutoff_point: back to the AIMessage the tools at the cutoff  *)
(* answer, or past them when there is none.  (Seeded bug: no step back.)   *)
ToolRunEnd(ms, index) ==
  Min({k \in index..Len(ms) : k = Len(ms) \/ ~IsTool(ms, k)})

CutAnywhere(ms, cutoff) == cutoff

SafeCutoffPoint(ms, cutoff) ==
  IF cutoff >= Len(ms) \/ ~IsTool(ms, cutoff) THEN cutoff
  ELSE LET end == ToolRunEnd(ms, cutoff)
           answered == {ms[k + 1].call : k \in cutoff..(end - 1)}
           callers == {i \in 0..(cutoff - 1) : ms[i + 1].kind = "call"
                                               /\ ms[i + 1].id \in answered}
       IN  IF callers # {} THEN Max(callers) ELSE end

(* The tail that always stays.  (Seeded bug: one message too few.)         *)
OneTooMany(ms) == Len(ms) - Min({KeepMessages, Len(ms)}) + 1
MaxCutoff(ms) == Len(ms) - Min({KeepMessages, Len(ms)})

FindCutoff(ms) ==
  LET wanted == Min({TokenCutoff(ms), MaxCutoff(ms)})
      safe == SafeCutoffPoint(ms, wanted)
      (* walk back from the floor to the nearest message that is no tool   *)
      floor == Max({0} \cup {k \in 0..MaxCutoff(ms) : k < Len(ms) /\ ~IsTool(ms, k)})
  IN  IF TokenCount(ms) <= TargetTokens \/ wanted <= 0 THEN 0
      ELSE IF safe > MaxCutoff(ms) THEN floor ELSE safe

-----------------------------------------------------------------------------
(* before_model                                                            *)

(* _mirror_messages: a turn for every message that has none yet.  (Seeded  *)
(* bug: a turn for every message.)                                         *)
AllMessages == messages
UnseenMessages == Keep(messages, {m \in ToSet(messages) : m.id \notin ToSet(mirrored)})

Mirror ==
  /\ pc = "mirror"
  /\ mirrored' = mirrored \o [k \in DOMAIN UnseenMessages |-> UnseenMessages[k].id]
  /\ pc' = "evict"
  /\ UNCHANGED <<messages, said, recorded>>

OverBudget == TokenCount(messages) > MaxTokens
Cutoff == FindCutoff(messages)

(* The turn that mirrors a message.                                        *)
TurnOf(id) == CHOOSE turn \in DOMAIN mirrored : mirrored[turn] = id

WithinBudget ==
  /\ pc = "evict"
  /\ ~OverBudget \/ Cutoff <= 0
  /\ pc' = NextNode
  /\ UNCHANGED <<messages, said, mirrored, recorded>>

EvictCommitted ==
  /\ pc = "evict"
  /\ OverBudget /\ Cutoff > 0
  /\ recorded' = recorded \cup {TurnOf(messages[k].id) : k \in 1..Cutoff}
  /\ messages' = From(messages, Cutoff)
  /\ pc' = NextNode
  /\ UNCHANGED <<said, mirrored>>

(* UpdateFailed, rejected ops, failed verification, concurrent change.     *)
(* (Seeded bug: the messages are removed all the same.)                    *)
RemoveAnyway == From(messages, Cutoff)
KeepAll == messages

EvictNotCommitted ==
  /\ pc = "evict"
  /\ OverBudget /\ Cutoff > 0
  /\ messages' = KeepAll
  /\ pc' = NextNode
  /\ UNCHANGED <<said, mirrored, recorded>>

-----------------------------------------------------------------------------
(* The agent around it.                                                    *)

NewMessage(n, kind, call, size) ==
  [id |-> said + n, kind |-> kind, call |-> call, size |-> size]

Append1(kind, size) ==
  /\ said < MaxMessages
  /\ messages' = Append(messages, NewMessage(1, kind, 0, size))
  /\ said' = said + 1
  /\ UNCHANGED <<mirrored, recorded>>

UserSays(size) == pc = "user" /\ pc' = "mirror" /\ Append1("human", size)
ModelAnswers(size) == pc = "model" /\ pc' = "user" /\ Append1("answer", size)
ModelCalls(size) == pc = "model" /\ pc' = "tools" /\ Append1("call", size)

(* One ToolMessage for every call of the last message.                     *)
ToolsReply(n, size) ==
  /\ pc = "tools"
  /\ said + n <= MaxMessages
  /\ messages' = messages \o
       [k \in 1..n |-> NewMessage(k, "tool", Last(messages).id, size)]
  /\ said' = said + n
  /\ pc' = "mirror"
  /\ UNCHANGED <<mirrored, recorded>>

(* An exception ends the run; the next one starts from the checkpoint.     *)
RunFails ==
  /\ pc \in {"model", "tools"}
  /\ pc' = "user"
  /\ UNCHANGED <<messages, said, mirrored, recorded>>

BeforeModel == Mirror \/ WithinBudget \/ EvictCommitted \/ EvictNotCommitted

Agent ==
  \/ \E size \in Sizes : UserSays(size) \/ ModelAnswers(size) \/ ModelCalls(size)
  \/ \E n \in 1..MaxCalls, size \in Sizes : ToolsReply(n, size)
  \/ RunFails

Next == BeforeModel \/ Agent

Spec == Init /\ [][Next]_vars

-----------------------------------------------------------------------------
(* "Never separate an AIMessage carrying tool_calls from its ToolMessage   *)
(* responses": whatever was evicted so far, every ToolMessage in the       *)
(* conversation still follows the AIMessage it answers.                    *)
PairsTogether ==
  \A k \in DOMAIN messages :
    messages[k].call # 0 => \E j \in 1..(k - 1) : messages[j].id = messages[k].call

(* The mirror follows the conversation: one turn per message, in order, so *)
(* that the turn ids cited as provenance order the facts as they were said.*)
MirrorFollowsConversation ==
  \A j, k \in DOMAIN mirrored : j < k => mirrored[j] < mirrored[k]

(* "Never loses messages on failure": a message is in the agent's state or *)
(* in the turns of a committed update, once; only the oldest leave.        *)
Conversation == INSTANCE Handover
                  WITH context <- {messages[k].id : k \in DOMAIN messages},
                       recorded <- {mirrored[turn] : turn \in recorded}
ImplementsHandover == Conversation!Spec

(* "At least keep_messages recent messages are preserved verbatim."        *)
RecentMessagesStay ==
  [][\A k \in DOMAIN messages :
       k > Len(messages) - KeepMessages => Contains(messages', messages[k])]_vars

(* What an eviction leaves meets the target of the budget, unless the tail *)
(* that always stays or a run of tools at the cut forbids it; and it does  *)
(* not evict a message more than that.                                     *)
EvictionMeetsBudget ==
  [][EvictCommitted =>
       LET cut == Len(messages) - Len(messages')
       IN  /\ \/ TokenCount(messages') <= TargetTokens
              \/ Len(messages') <= KeepMessages
              \/ messages'[1].kind = "call"
              \/ \E k \in cut..(Len(messages) - KeepMessages) : IsTool(messages, k)
           /\ \/ TokenCount(From(messages, cut - 1)) > TargetTokens
              \/ IsTool(messages, cut - 1)]_vars
=============================================================================
