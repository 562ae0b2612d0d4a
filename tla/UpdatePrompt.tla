---------------------------- MODULE UpdatePrompt ----------------------------
(***************************************************************************)
(* What the model sees of a batch of evicted turns and of the memory, and  *)
(* what a retention policy leaves of its answer (update/updater.py): the   *)
(* gate, the turns and the entries that fit into the prompt, the migration *)
(* of the entries touched, the policy filter, the cap and the suppression  *)
(* of ADDs that add nothing.  A question asked of the memory afterwards    *)
(* ends a history.  UpdateBatch has what is around this: retries,          *)
(* application of the ops, consolidation, verification.                    *)
(*                                                                         *)
(* A turn is the outcome of the searches the code makes in its text.       *)
(***************************************************************************)
EXTENDS MemorySelection

CONSTANTS
  Scenarios,  \* turns evicted together, the memory, the policy and budgets
  Answers,    \* sequences of ops the model may answer with
  Questions   \* questions with their answer budgets

(* says: what the words of a user turn make of it (who "assents" accepts in *)
(* one of the Chinese phrases); durable: it has a durable state, a value of*)
(* a subject or a status cue outside of a question; proposal: the assistant*)
(* makes one; calls: a tool call is in the text; long: there are enough    *)
(* words for a progress rollup.                                            *)
TurnFields ==
  [role: {"user", "assistant", "tool"},
   says: {"nothing", "accepts", "assents", "rejects", "corrects"},
   durable: BOOLEAN, proposal: BOOLEAN, calls: BOOLEAN, long: BOOLEAN,
   tokens: Nat \ {0}, words: Text, subject: Subjects]

Policies ==
  [chat: BOOLEAN, gate: BOOLEAN, progress: BOOLEAN, turnBudget: Budgets, memoryBudget: Budgets,
   maxLegacy: Nat, maxCandidates: Nat \ {0}, maxOps: Nat \ {0}, sections: SUBSET STRING]

(* An id of an op that no entry has is 0.  An ADD copies the entries whose *)
(* text it has or, a preference, that share a turn with it; it restates    *)
(* those whose typed value it sets again, whose text, of the same turns, it*)
(* contains or is contained in, or that settle the decision of its turns.  *)
Ops == [kind: {"ADD", "UPDATE", "SUPERSEDE", "NOOP"}, section: STRING, id: Nat, prov: SUBSET Nat,
        sound: BOOLEAN, exempt: BOOLEAN, copies: SUBSET Nat, restates: SUBSET Nat]

ASSUME PromptAssumption ==
  /\ HeaderChars \in Nat
  /\ Scenarios \subseteq [turns: Seq(TurnFields), memory: Memories, o: Policies]
  /\ Answers \subseteq Seq(Ops)
  /\ Questions \subseteq [words: Text, temporal: BOOLEAN, latest: BOOLEAN, budget: Budgets]

VARIABLES
  turns,    \* evicted_turns
  memory,   \* the trial memory
  o,        \* policy and budgets
  stage,    \* where the update is
  prompt,   \* positions of the turns in the prompt
  report,   \* the last of turn_selection_reports
  selection,\* UpdateMemorySelection
  reply,    \* ops of the answer, after the policy filter
  left,     \* those that are applied
  asked,    \* the question, with its budget
  chosen    \* ids select_for_answer returned

promptVars == <<turns, memory, o, stage, prompt, report, selection, reply, left, asked, chosen>>

-----------------------------------------------------------------------------
(* Grouping the turns.                                                     *)

Users(ids)   == {n \in ids : turns[n].role = "user"}
Members(g)   == ToSet(g)
Substantive(ids) ==
  Users(ids) # {} /\ \E n \in ids : turns[n].role = "assistant" /\ turns[n].long

(* A user turn starts a new group.                                         *)
RawGroups ==
  FoldLeft(LAMBDA groups, n :
             IF groups = <<>> \/ turns[n].role = "user"
               THEN Append(groups, <<n>>)
               ELSE Front(groups) \o <<Append(Last(groups), n)>>,
           <<>>, [n \in DOMAIN turns |-> n])

GroupType(g) ==
  IF \E n \in Members(g) : turns[n].role = "tool" \/ turns[n].calls
    THEN "tool_call_result"
  ELSE IF turns[g[1]].role # "user" THEN "standalone"
  ELSE IF Len(g) = 1 THEN "unresolved_user"
  ELSE IF \E n \in Members(g) : turns[n].role = "assistant" THEN "user_assistant"
  ELSE "standalone"

(* _semantic_turn_groups: an answer to what was said before stays with it. *)
Refers(g) == \E n \in Users(Members(g)) : turns[n].says # "nothing"

Groups ==
  FoldLeft(LAMBDA merged, g :
             IF merged # <<>> /\ Refers(g)
               THEN Front(merged) \o <<[ids |-> Last(merged).ids \o g, type |-> "context"]>>
               ELSE Append(merged, [ids |-> g, type |-> GroupType(g)]),
           <<>>, RawGroups)

(* _prompt_turns_for_group: plain answers of the assistant are left out of *)
(* a chat memory.                                                          *)
PromptTurns(g) ==
  LET ids == Members(g.ids)
      transient == /\ o.chat /\ g.type = "user_assistant"
                   /\ ~\E n \in ids : turns[n].role = "assistant" /\ turns[n].proposal
                   /\ ~(o.progress /\ Substantive(ids))
  IN  IF transient THEN Users(ids) ELSE ids

TurnTokens(ids) == SumFunctionOnSet([n \in DOMAIN turns |-> turns[n].tokens], ids)

(* _turns_within_budget, from the newest group back.  (Seeded bug: older   *)
(* groups are tried after one that did not fit.)                           *)
TakeAnyFitting(acc, g) ==
  LET ids == PromptTurns(g)
  IN  IF acc.ids = {} \/ Within(acc.used + TurnTokens(ids), o.turnBudget)
        THEN [open |-> TRUE, used |-> acc.used + TurnTokens(ids), ids |-> acc.ids \cup ids]
        ELSE acc
TakeGroup(acc, g) ==
  LET ids  == PromptTurns(g)
      fits == acc.ids = {} \/ Within(acc.used + TurnTokens(ids), o.turnBudget)
  IN  IF acc.open /\ fits
        THEN [open |-> TRUE, used |-> acc.used + TurnTokens(ids), ids |-> acc.ids \cup ids]
        ELSE [acc EXCEPT !.open = FALSE]

TurnsWithinBudget ==
  FoldRight(LAMBDA g, acc : TakeGroup(acc, g), Groups, [open |-> TRUE, used |-> 0, ids |-> {}]).ids

Overflow(ids) ==
  IF o.turnBudget = NoBudget THEN 0 ELSE Max({0, TurnTokens(ids) - o.turnBudget})

-----------------------------------------------------------------------------
(* The gate: _llm_decision and what _update_trial makes of it.  Whether    *)
(* the deterministic ops cover the durable turns is up to their extractors.*)
Says(what) == \E n \in Users(DOMAIN turns) : turns[n].says \in what
OrdinaryBatch == ~\E n \in Users(DOMAIN turns) : turns[n].durable

NothingDurable ==
  \/ Users(DOMAIN turns) = {}
  \/ /\ ~Says({"accepts", "assents", "corrects"}) /\ OrdinaryBatch
     /\ ~(o.progress /\ Substantive(DOMAIN turns))

MustSkip == NothingDurable /\ (o.chat \/ o.gate)

(* _apply_policy_filter, op by op, under a chat policy.  An ADD or UPDATE  *)
(* is sound when its text is neither generic, nor the assistant's, nor a   *)
(* fragment; exempt when it denies something or sets a typed state.        *)
Disallowed == {"timeline", "tool_facts", "exact_values"}

Retained(op) ==
  CASE op.kind = "ADD" ->
         /\ op.section \in o.sections \ Disallowed /\ op.sound
         /\ op.section = "progress" =>
              {"user", "assistant"} \subseteq {turns[n].role : n \in op.prov \cap DOMAIN turns}
         /\ OrdinaryBatch => op.section = "progress" \/ op.exempt
    [] op.kind = "UPDATE" ->
         /\ op.sound /\ ~OrdinaryBatch
         /\ op.id \in Ids(memory) => memory.entries[op.id].section \notin Disallowed
    [] OTHER -> TRUE

PolicyFilter(ops) == IF o.chat THEN Keep(ops, {op \in ToSet(ops) : Retained(op)}) ELSE ops

(* _cap_ops: a reversal is exempt from the limit; otherwise the best       *)
(* sections go first.  (Seeded bug: no exemption.)                         *)
SectionOrder == << "preferences", "decisions", "status_changes", "failed_attempts",
                   "open_questions", "progress", "goal", "facts" >>

CapRank(op) ==
  IF op.kind = "ADD" /\ op.section \in ToSet(SectionOrder)
    THEN CHOOSE n \in DOMAIN SectionOrder : SectionOrder[n] = op.section ELSE 20

OfKind(ops, kinds) == Keep(ops, {op \in ToSet(ops) : op.kind \in kinds})

BestOps(ops) ==
  LET actionable == OfKind(ops, {"ADD", "UPDATE", "SUPERSEDE"})
      ranked == Sorted(DOMAIN actionable, LAMBDA i, j :
                  LexLess(<<CapRank(actionable[i]), i>>, <<CapRank(actionable[j]), j>>))
      kept   == Sorted(ToSet(First(o.maxOps, ranked)), LAMBDA i, j : i < j)
  IN  IF Len(actionable) <= o.maxOps THEN ops
      ELSE [k \in DOMAIN kept |-> actionable[kept[k]]]

CapOps(ops) ==
  LET supersedes   == OfKind(ops, {"SUPERSEDE"})
      replacements == OfKind(ops, {"ADD"})
  IN  IF supersedes # <<>> /\ replacements # <<>>
        THEN Append(supersedes, replacements[1])
        ELSE BestOps(ops)

(* ADDs that say what an active entry of their section says already: those *)
(* of one text before the filter, those of one meaning after the cap; and  *)
(* the proposals of the assistant, if no user accepts anything.            *)
Compared ==
  {"exact_values", "facts", "preferences", "progress", "status_changes", "timeline"}

ActiveIn(section) ==
  {i \in Ids(memory) : memory.entries[i].active /\ memory.entries[i].section = section}

Duplicate(op) ==
  op.kind = "ADD" /\ op.section \in Compared /\ op.copies \cap ActiveIn(op.section) # {}

Redundant(op)  == op.restates \cap ActiveIn(op.section) # {}
Unaccepted(op) ==
  op.prov \cap DOMAIN turns # {} /\ Users(op.prov \cap DOMAIN turns) = {} /\ ~Says({"accepts"})

Transient(op) == op.kind = "ADD" /\ (Redundant(op) \/ Unaccepted(op))

DropDuplicates(ops) == Keep(ops, {op \in ToSet(ops) : ~Duplicate(op)})
Lasting(ops) == Keep(ops, {op \in ToSet(ops) : op.kind # "NOOP" /\ ~Transient(op)})

-----------------------------------------------------------------------------
NoReport == [tokens |-> 0, overflow |-> 0]

PromptInit ==
  /\ \E scenario \in Scenarios :
       turns = scenario.turns /\ memory = scenario.memory /\ o = scenario.o
  /\ stage = "gate"
  /\ prompt = {} /\ report = NoReport
  /\ selection = NothingShown
  /\ reply = <<>> /\ left = <<>>
  /\ asked = <<>> /\ chosen = {}

Decide ==
  /\ stage = "gate"
  /\ \/ stage' = "turns" /\ ~MustSkip
     \/ stage' = "asking" /\ (MustSkip \/ o.gate)
  /\ UNCHANGED <<turns, memory, o, prompt, report, selection, reply, left, asked, chosen>>

SelectTurns ==
  /\ stage = "turns"
  /\ prompt' = TurnsWithinBudget
  /\ report' = [tokens |-> TurnTokens(prompt'), overflow |-> Overflow(prompt')]
  /\ stage' = "entries"
  /\ UNCHANGED <<turns, memory, o, selection, reply, left, asked, chosen>>

(* The query is the turns of the prompt, not all that are evicted.         *)
PromptWords    == UNION {turns[n].words : n \in {k \in prompt : turns[k].role # "tool"}}
PromptSubjects == {turns[n].subject : n \in prompt} \ {NoSubject}

SelectEntries ==
  /\ stage = "entries"
  /\ selection' = SelectForUpdate(memory, PromptWords, PromptSubjects, o)
  /\ stage' = "migrating"
  /\ UNCHANGED <<turns, memory, o, prompt, report, reply, left, asked, chosen>>

(* Migration on touch: entries shown get the typed subject of their text,  *)
(* all or, since a superseded one cannot be updated, none.                 *)
Legacy == {i \in ToSet(selection.shown) :
             ~memory.entries[i].typed /\ memory.entries[i].subject # NoSubject}

MigrateEntries ==
  /\ stage = "migrating"
  /\ memory' =
       IF \A i \in Legacy : memory.entries[i].active
         THEN [memory EXCEPT !.entries =
                [i \in DOMAIN @ |-> IF i \in Legacy THEN [@[i] EXCEPT !.typed = TRUE] ELSE @[i]]]
         ELSE memory
  /\ stage' = "calling"
  /\ UNCHANGED <<turns, o, prompt, report, selection, reply, left, asked, chosen>>

(* An answer that names an entry which is not in the prompt is rejected as *)
(* a whole; the retries are those of UpdateBatch.                          *)
Visible(ops) ==
  \A k \in DOMAIN ops :
    ops[k].kind \in {"UPDATE", "SUPERSEDE"} /\ ops[k].id \in Ids(memory) =>
      ops[k].id \in ToSet(selection.shown)

TakeAnswer ==
  /\ stage = "calling"
  /\ \E ops \in Answers :
       /\ Visible(ops)
       /\ reply' = PolicyFilter(DropDuplicates(ops))
       /\ left' = Lasting(IF o.chat THEN CapOps(reply') ELSE reply')
  /\ stage' = "asking"
  /\ UNCHANGED <<turns, memory, o, prompt, report, selection, asked, chosen>>

Question ==
  /\ stage = "asking"
  /\ \E q \in Questions :
       /\ asked' = <<q>>
       /\ chosen' = SelectForAnswer(memory, q, q.budget)
  /\ stage' = "done"
  /\ UNCHANGED <<turns, memory, o, prompt, report, selection, reply, left>>

PromptNext == Decide \/ SelectTurns \/ SelectEntries \/ MigrateEntries \/ TakeAnswer \/ Question

PromptSpec == PromptInit /\ [][PromptNext]_promptVars

-----------------------------------------------------------------------------
PreviousUser(n) == Max({0} \cup {k \in Users(DOMAIN turns) : k < n})

(* "Updater context remains a contiguous suffix", of exchanges: a prompt   *)
(* with a user turn has every later one, and the newest; an acceptance, a  *)
(* rejection or a correction has with it all that was said since the user  *)
(* turn before it, whoever said it and whatever the policy leaves out      *)
(* elsewhere; and the budget is exceeded by one such chain at most.        *)
PromptIsLatestExchanges ==
  stage \notin {"gate", "turns"} /\ prompt # {} =>
    /\ DOMAIN turns \ prompt # {} => Users(prompt) # {}
    /\ \A n \in Users(prompt) :
         /\ {k \in Users(DOMAIN turns) : k > n} \subseteq prompt
         /\ turns[n].says # "nothing" => Max({1, PreviousUser(n)})..n \subseteq prompt
    /\ report.overflow > 0 =>
         \A n \in Users(prompt) :
           PreviousUser(n) \in prompt => turns[n].says # "nothing"

(* Every entry about exactly the subject of a turn in the prompt is shown, *)
(* whatever the budget; nothing else is shown beyond it; and the overflow  *)
(* that is reported is the excess, to the token.                           *)
ExactSubjectsShown ==
  stage \in {"migrating", "calling"} /\ o.memoryBudget # 0 /\ PromptWords # {} =>
    LET shown == ToSet(selection.shown)
        costs == [i \in Ids(memory) |-> RenderTokens(memory, {i}, TRUE)]
        cost  == SumFunctionOnSet(costs, shown)
        exact == {i \in Ids(memory) : memory.entries[i].subject \in PromptSubjects}
    IN  /\ exact \subseteq shown
        /\ selection.overflow =
             IF o.memoryBudget = NoBudget THEN 0 ELSE Max({0, cost - o.memoryBudget})
        /\ shown # exact => selection.overflow = 0

(* "Conflict handling is exempt" from the limit of ops per batch, and "UPDATE *)
(* and SUPERSEDE operations are never changed": of an answer that           *)
(* supersedes and adds, every SUPERSEDE is applied, and an ADD with them,   *)
(* so that a value is withdrawn together with the arrival of its successor; *)
(* unless the first ADD is transient, which the cap does not look at.  What *)
(* is applied of every other answer keeps to the limit.                     *)
ReversalsStayWhole ==
  LET supersedes(ops) == {k \in DOMAIN ops : ops[k].kind = "SUPERSEDE"}
      adds(ops)       == {k \in DOMAIN ops : ops[k].kind = "ADD"}
      changes(ops)    == {k \in DOMAIN ops : ops[k].kind # "NOOP"}
  IN  o.chat =>
        IF supersedes(reply) # {} /\ adds(reply) # {}
          THEN /\ {reply[k] : k \in supersedes(reply)} = {left[k] : k \in supersedes(left)}
               /\ adds(left) = {} =>
                    \E k \in adds(reply) :
                      (\A j \in adds(reply) : k <= j) /\ Transient(reply[k])
          ELSE Cardinality(changes(left)) <= o.maxOps

(* "The prompt budget remains a hard upper bound" and "entries in pinned   *)
(* sections are considered first": what is chosen fits, nothing that was   *)
(* left out would fit as well, and a pinned entry yields to pinned entries *)
(* only, whatever the question scores above it.                            *)
AnswerFillsBudgetPinnedFirst ==
  \A k \in DOMAIN asked :
    LET budget  == asked[k].budget
        active  == {i \in Ids(memory) : memory.entries[i].active}
        pinned  == {i \in active : memory.entries[i].section \in Pinned}
        fit(ids) == Within(RenderTokens(memory, ids, FALSE), budget)
    IN  /\ chosen \subseteq active
        /\ chosen # {} => fit(chosen)
        /\ \A i \in active \ chosen : ~fit(chosen \cup {i})
        /\ \A i \in pinned \ chosen : ~fit((chosen \cap pinned) \cup {i})
=============================================================================
