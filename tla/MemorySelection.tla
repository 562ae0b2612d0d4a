-------------------------- MODULE MemorySelection --------------------------
(***************************************************************************)
(* Which entries of a memory go into a prompt: retrieval/selector.py for   *)
(* the prompts that answer, update/selector.py for the prompt that updates,*)
(* and the length of Memory.render, which both budgets are about.          *)
(*                                                                         *)
(* A memory is the sequence of its entries, in insertion order, and the    *)
(* length of its narrative.  A text is its length, the words it has in     *)
(* common with others and the typed subject it speaks of.  Ids are the     *)
(* positions of the entries (below ten per section, so that the order of   *)
(* the ids as strings is theirs).                                          *)
(***************************************************************************)
EXTENDS Sublists

CONSTANTS
  Words,        \* words a text may have
  Subjects,     \* typed subjects, and NoSubject
  HeaderChars,  \* length of a section header, taken to be the same for all
  NoBudget,     \* None
  NoSubject     \* SubjectNormalizer.normalize found none it is sure of

(* DEFAULT_SECTION_PRIORITIES and the boosts of _score for questions about *)
(* time and about latest values, per section in the order of their names.  *)
Ranked(section, priority, temporal, latest) ==
  [section |-> section, priority |-> priority, temporal |-> temporal, latest |-> latest]

SectionTable == <<
  Ranked("decisions", 80, 0, 0),    Ranked("facts", 60, 10, 25),
  Ranked("failed_attempts", 35, 0, 0), Ranked("goal", 95, 0, 0),
  Ranked("open_questions", 85, 0, 0),  Ranked("preferences", 100, 0, 0),
  Ranked("progress", 90, 25, 30),   Ranked("status_changes", 94, 20, 45),
  Ranked("timeline", 88, 55, 15),   Ranked("tool_facts", 70, 0, 0) >>

Place(section) == CHOOSE n \in DOMAIN SectionTable : SectionTable[n].section = section
Pinned == {"preferences", "goal", "status_changes"}

Text == {W \in SUBSET Words : IsFiniteSet(W)}

Memories ==
  [entries: Seq([section: {SectionTable[n].section : n \in DOMAIN SectionTable},
                 chars: Nat, words: Text, subject: Subjects, typed: BOOLEAN,
                 active: BOOLEAN, turn: Nat]),
   narrative: Nat]

Budgets == {NoBudget} \cup Nat

(* _default_token_estimator                                                *)
Tokens(chars) == Max({1, chars \div 4})
Within(tokens, budget) == budget = NoBudget \/ tokens <= budget

Ids(m) == DOMAIN m.entries

LineChars(m) == [i \in Ids(m) |-> m.entries[i].chars + 1]

(* Memory.render of some entries: a block per section, one for superseded  *)
(* entries if they are asked for, and the narrative, which is always there.*)
RenderChars(m, ids, superseded) ==
  LET active == {i \in ids : m.entries[i].active}
      old    == IF superseded THEN ids \ active ELSE {}
      blocks == Cardinality({m.entries[i].section : i \in active})
                  + Min({1, Cardinality(old)}) + Min({1, m.narrative})
  IN  IF blocks = 0 THEN 0
      ELSE blocks * HeaderChars + 2 * (blocks - 1)
             + SumFunctionOnSet(LineChars(m), active \cup old)
             + (IF m.narrative > 0 THEN m.narrative + 1 ELSE 0)

RenderTokens(m, ids, superseded) == Tokens(RenderChars(m, ids, superseded))

-----------------------------------------------------------------------------
(* MemorySelector, for a question q.                                       *)

(* _score, in thousandths.                                                 *)
AnswerScore(e, q) ==
  LET row == SectionTable[Place(e.section)]
  IN  1000 * (row.priority + (IF q.temporal THEN row.temporal ELSE 0)
                + (IF q.latest THEN row.latest ELSE 0)
                + 12 * Cardinality(q.words \cap e.words))
        + Min({e.turn, 1000})

(* The sort key, compared component by component.                          *)
LexLess(s, t) ==
  \E k \in DOMAIN s : s[k] < t[k] /\ \A j \in 1..(k - 1) : s[j] = t[j]

AnswerKey(m, q, i) ==
  LET e == m.entries[i] IN <<-AnswerScore(e, q), Place(e.section), -e.turn, i>>

AnswerCandidates(m, q) ==
  Sorted({i \in Ids(m) : m.entries[i].active},
         LAMBDA i, j : LexLess(AnswerKey(m, q, i), AnswerKey(m, q, j)))

(* Pinned sections have the first claim on the budget.  (Seeded bug: they  *)
(* are candidates like the others, the best ones at most.)                 *)
ByScore(m, q) == AnswerCandidates(m, q)
ClaimOrder(m, q) ==
  LET pinned == {i \in Ids(m) : m.entries[i].section \in Pinned}
  IN  Keep(AnswerCandidates(m, q), pinned)
        \o Keep(AnswerCandidates(m, q), Ids(m) \ pinned)

(* select_with_scores: an entry that does not fit is passed over.          *)
SelectForAnswer(m, q, budget) ==
  FoldLeft(LAMBDA chosen, i :
             IF Within(RenderTokens(m, chosen \cup {i}, FALSE), budget)
               THEN chosen \cup {i} ELSE chosen,
           {}, ClaimOrder(m, q))

-----------------------------------------------------------------------------
(* UpdateMemorySelector, for turns about the given words and subjects.     *)

(* Exact typed matches: same subject, unit and qualifier.                  *)
TypedMatches(m, subjects) == {i \in Ids(m) : m.entries[i].subject \in subjects \ {NoSubject}}

LexicalMatches(m, words, subjects) ==
  {i \in Ids(m) \ TypedMatches(m, subjects) : m.entries[i].words \cap words # {}}

UpdateScore(e, words) ==
  3000 * Cardinality(e.words \cap words) + (IF e.active THEN 2000 ELSE 0)
    + Min({e.turn, 1000})

UpdateKey(m, words, i) == <<-UpdateScore(m.entries[i], words), i>>

(* All exact matches, and lexical ones as far as the two limits allow.     *)
UpdateCandidates(m, words, subjects, o) ==
  LET typed   == TypedMatches(m, subjects)
      lexical == LexicalMatches(m, words, subjects)
      left    == Max({0, o.maxCandidates - Cardinality(typed)})
  IN  Sorted(typed, LAMBDA i, j : i < j)
        \o First(Min({o.maxLegacy, left}),
                 Sorted(lexical, LAMBDA i, j :
                   LexLess(UpdateKey(m, words, i), UpdateKey(m, words, j))))

NothingShown == [shown |-> <<>>, visible |-> 0, overflow |-> 0]

(* One candidate: exact matches are shown even over the budget, which is   *)
(* reported.  (Seeded bug: the whole excess is added for each of them.)    *)
OverflowAgain(visible, tokens, budget) == visible + tokens - budget
OverflowBy(visible, tokens, budget) == visible + tokens - Max({budget, visible})

Offer(acc, i, tokens, required, budget) ==
  LET fits == Within(acc.visible + tokens, budget)
  IN  IF ~fits /\ ~required THEN acc
      ELSE [shown    |-> Append(acc.shown, i),
            visible  |-> acc.visible + tokens,
            overflow |-> acc.overflow +
                           IF fits THEN 0 ELSE OverflowBy(acc.visible, tokens, budget)]

SelectForUpdate(m, words, subjects, o) ==
  IF words = {} \/ o.memoryBudget = 0 THEN NothingShown
  ELSE FoldLeft(LAMBDA acc, i :
                  Offer(acc, i, RenderTokens(m, {i}, TRUE),
                        i \in TypedMatches(m, subjects), o.memoryBudget),
                NothingShown, UpdateCandidates(m, words, subjects, o))
=============================================================================
