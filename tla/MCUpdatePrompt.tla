--------------------------- MODULE MCUpdatePrompt ---------------------------
(* Batches, memories, policies and questions for UpdatePrompt.              *)
EXTENDS UpdatePrompt

CONSTANTS s, t, v, w

MCWords    == {v, w}
MCSubjects == {s, t, NoSubject}

Plain ==
  [role |-> "user", says |-> "nothing", durable |-> FALSE, proposal |-> FALSE,
   calls |-> FALSE, long |-> FALSE, tokens |-> 1, words |-> {v}, subject |-> NoSubject]

Durable == [Plain EXCEPT !.durable = TRUE, !.subject = s, !.words = {v, w}, !.tokens = 2]
Correct == [Plain EXCEPT !.durable = TRUE, !.says = "corrects", !.subject = t]
Assent  == [Plain EXCEPT !.says = "assents", !.words = {}]
Accept  == [Plain EXCEPT !.says = "accepts", !.words = {}]
Reject  == [Plain EXCEPT !.says = "rejects", !.tokens = 3]
Answer  == [Plain EXCEPT !.role = "assistant", !.tokens = 2, !.words = {w}]
Propose == [Answer EXCEPT !.proposal = TRUE]
Lecture == [Answer EXCEPT !.long = TRUE, !.tokens = 5]
Calls   == [Answer EXCEPT !.calls = TRUE, !.words = {}]
Result  == [Plain EXCEPT !.role = "tool", !.subject = t]

ShortBatches ==
  SeqOf({Plain, Durable, Correct, Accept, Assent, Reject,
         Answer, Lecture, Calls, Result}, 2) \ {<<>>}
LongBatches ==
  {<<x1, y1, x2, y2, x3>> : x1 \in {Plain, Durable}, y1 \in {Answer, Propose, Lecture},
                            x2 \in {Plain, Accept, Correct, Reject},
                            y2 \in {Answer, Lecture, Result},
                            x3 \in {Plain, Durable, Correct}}

Entry(section, chars, words, subject, turn) ==
  [section |-> section, chars |-> chars, words |-> words, subject |-> subject,
   typed |-> FALSE, active |-> TRUE, turn |-> turn]

Related == <<
  Entry("facts", 20, {v}, s, 1), Entry("timeline", 12, {v, w}, NoSubject, 2),
  Entry("preferences", 24, {}, NoSubject, 3),
  [Entry("facts", 16, {w}, s, 4) EXCEPT !.active = FALSE],
  [Entry("status_changes", 40, {w}, t, 5) EXCEPT !.typed = TRUE],
  Entry("goal", 8, {v}, NoSubject, 6) >>

MCMemories == {[entries |-> Related, narrative |-> 0], [entries |-> Related, narrative |-> 12],
               [entries |-> SubSeq(Related, 1, 3), narrative |-> 0]}

Chat == [chat |-> TRUE, gate |-> FALSE, progress |-> TRUE, turnBudget |-> 5,
         memoryBudget |-> 18, maxLegacy |-> 1, maxCandidates |-> 3, maxOps |-> 2,
         sections |-> {"facts", "preferences", "progress", "decisions"}]

MCSettings == {Chat,
               [Chat EXCEPT !.gate = TRUE, !.progress = FALSE, !.turnBudget = 8,
                            !.memoryBudget = 30],
               [Chat EXCEPT !.chat = FALSE, !.turnBudget = NoBudget, !.memoryBudget = NoBudget],
               [Chat EXCEPT !.memoryBudget = 0, !.maxCandidates = 1]}

Scenario(batches, memories, settings) ==
  {[turns |-> b, memory |-> m, o |-> p] : b \in batches, m \in memories, p \in settings}

MCScenarios ==
  Scenario(LongBatches, {[entries |-> Related, narrative |-> 0]},
           {Chat, [Chat EXCEPT !.turnBudget = 8]})
    \cup Scenario(ShortBatches, MCMemories, MCSettings)

Change(kind, section, id, prov) ==
  [kind |-> kind, section |-> section, id |-> id, prov |-> prov, sound |-> TRUE, exempt |-> FALSE,
   copies |-> {}, restates |-> {}]

Add(section)  == Change("ADD", section, 0, {1})
Gone(id)      == Change("SUPERSEDE", "none", id, {})
Noop          == Change("NOOP", "none", 0, {})
MCAnswers == {
  <<Gone(1), Add("facts"), Gone(4), Add("decisions")>>,
  <<Add("timeline"), Add("facts"), Add("preferences"), Add("decisions")>>,
  <<Noop, Change("UPDATE", "none", 1, {2}),
    [Change("ADD", "progress", 0, {1, 2}) EXCEPT !.exempt = TRUE],
    Gone(5), [Add("decisions") EXCEPT !.sound = FALSE]>>,
  <<[Add("facts") EXCEPT !.exempt = TRUE], Gone(5), Noop, Change("UPDATE", "none", 9, {1})>>,
  \* The value that is withdrawn is stated again; a proposal with its revocation.
  <<Gone(1), [Add("facts") EXCEPT !.restates = {1, 4}, !.exempt = TRUE], Noop>>,
  <<Change("ADD", "decisions", 0, {2}), Gone(3),
    [Add("preferences") EXCEPT !.copies = {3}], Add("facts")>> }

Ask(words, temporal, latest, budget) ==
  [words |-> words, temporal |-> temporal, latest |-> latest, budget |-> budget]
MCQuestions ==
  {Ask({}, FALSE, FALSE, 12), Ask({v, w}, TRUE, FALSE, 14), Ask({w}, TRUE, TRUE, 22),
   Ask({v}, FALSE, TRUE, NoBudget), Ask({v}, FALSE, FALSE, 3)}
=============================================================================
