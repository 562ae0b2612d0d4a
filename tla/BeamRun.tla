------------------------------- MODULE BeamRun -------------------------------
(***************************************************************************)
(* One run of one BEAM case by one of the three runners under src/scripts: *)
(*   "standard"   run_beam_case.py: feed the chat through the structured   *)
(*                memory or restore a snapshot, answer, judge, write files *)
(*   "deepagent"  run_beam_case_deepagent.py: feed the chat, then ask a    *)
(*                stateless agent; no snapshot, no route-owned score       *)
(*   "baseline"   run_beam_baseline.py: answer from the last raw pairs     *)
(* in the memory mode structured_only, the one the batches use unless told *)
(* otherwise.  BeamBatch runs many of them.                                *)
(*                                                                         *)
(* The middleware is the one of EvictionMiddleware; here it either leaves  *)
(* the messages alone or records a prefix of them and returns the rest.    *)
(* What an answer says is left open; what it was given is not.             *)
(***************************************************************************)
EXTENDS Sublists

CONSTANTS
  Chat,          \* chat.json: a sequence of turns, each a sequence of messages
  Probes,        \* selected probes: per question type, rubric lines per question
  JudgeReplies,  \* what the judge may reply to one rubric line
  KeepMessages,  \* structured_keep_messages
  PairCount,     \* pair_count of the baseline
  Full,          \* the score 1.0, as a multiple of the smallest score told apart
  NoScore,       \* None
  Heuristic,     \* heuristic_rubric_rate
  Nothing,       \* no update, no snapshot, no run
  Torn           \* a file that was opened for writing and not closed

Message == [id: Nat, role: {"user", "assistant", "system"}, blank: BOOLEAN]
Score   == 0..Full
Reply   == [form: {"none"}, value: {0}] \cup [form: {"score"}, value: Int]
             \cup [form: {"passed"}, value: {0, 1}]

ASSUME BeamRunAssumption ==
  /\ Chat \in Seq(Seq(Message)) /\ Probes \in Seq(Seq(Nat))
  /\ JudgeReplies \subseteq Reply
  /\ KeepMessages \in Nat \ {0} /\ PairCount \in Nat \ {0}
  /\ Full \in Nat \ {0}
  /\ NoScore \notin Score /\ Heuristic \notin Score
  /\ Nothing \notin Nat \X Nat \X Nat    \* no path of a file

VARIABLES
  args,       \* the arguments of the run
  key,        \* what its output path is made of, Nothing between runs
  phase,      \* where the run is
  fed,        \* message batches already given to the middleware
  recorded,   \* what the updates removed from the messages, in order: it
              \* stands for the memory, whose entries are UpdateService's
  active,     \* active_messages
  tally,      \* running totals of the question loop
  results,    \* output["results"]
  snapshots,  \* memory snapshot files
  outputs     \* results files

local   == <<fed, recorded, active, tally, results>>
runVars == <<args, key, phase, local, snapshots, outputs>>

-----------------------------------------------------------------------------
(* Reading the chat.                                                       *)

(* Pairs by position within a turn; the last one may have one message.     *)
PairsOf(turn) ==
  [k \in 1..((Len(turn) + 1) \div 2) |->
     SubSeq(turn, 2 * k - 1, Min({2 * k, Len(turn)}))]

AllPairs == FlattenSeq([t \in DOMAIN Chat |-> PairsOf(Chat[t])])

(* flatten_message_batches: messages without text or of other roles, and   *)
(* then empty pairs, are dropped.                                          *)
Usable(m) == ~m.blank /\ m.role \in {"user", "assistant"}

UsableOf(messages) == Keep(messages, {m \in ToSet(messages) : Usable(m)})

MessageBatches ==
  LET batches == [k \in DOMAIN AllPairs |-> UsableOf(AllPairs[k])]
  IN  Keep(batches, ToSet(batches) \ {<<>>})

(* build_recent_pair_payload: the latest complete exchanges, raw.          *)
Complete(p) == Len(p) = 2 /\ p[1].role = "user" /\ p[2].role = "assistant"

RecentPairs ==
  LET pairs == Keep(AllPairs, {p \in ToSet(AllPairs) : Complete(p)})
  IN  SubSeq(pairs, Max({1, Len(pairs) - PairCount + 1}), Len(pairs))

-----------------------------------------------------------------------------
(* Judging.                                                                *)

Clamp(v) == Max({0, Min({Full, v})})

(* parse_judge_response, normalize_judge_checks and normalize_judge_score  *)
(* of the reply to one rubric line; what cannot be read fails it.          *)
CheckScore(r) ==
  IF r.form = "score" THEN Clamp(r.value)
  ELSE IF r.form = "passed" THEN Full * r.value ELSE 0

Total(s) == FoldLeft(LAMBDA sum, x : sum + x, 0, s)

(* judge_response asks once per rubric line, judge_score takes the mean.   *)
JudgeScore(replies) ==
  IF replies = <<>> THEN NoScore
  ELSE Total([k \in DOMAIN replies |-> CheckScore(replies[k])]) \div Len(replies)

(* The replies to a question with n rubric lines: none without a judge.    *)
RepliesTo(n) == [1..(IF args.judge THEN n ELSE 0) -> JudgeReplies]

ScoresOf(items) ==
  LET scored == Keep(items, {i \in ToSet(items) : i.score # NoScore})
  IN  [k \in DOMAIN scored |-> scored[k].score]

-----------------------------------------------------------------------------
(* Feeding the chat.                                                       *)

NoUpdate == [clear |-> FALSE, messages |-> <<>>]

(* What before_model may return: nothing, when the messages fit or their   *)
(* update was not committed, or RemoveMessage(REMOVE_ALL_MESSAGES) and the *)
(* messages that stay.  With max_tokens = 1 it evicts all that it may.     *)
BeforeModel(messages, squeeze) ==
  LET most == Len(messages) - KeepMessages
  IN  {NoUpdate} \cup
      {[clear |-> TRUE, messages |-> SubSeq(messages, k + 1, Len(messages))] :
         k \in {n \in 1..most : squeeze => n = most}}

(* apply_message_update.  (Seeded bug: always appended.)                   *)
AppendUpdate(messages, update) == messages \o update.messages
ApplyMessageUpdate(messages, update) ==
  IF update.clear THEN update.messages ELSE messages \o update.messages

Process(messages, squeeze) ==
  \E update \in BeforeModel(messages, squeeze) :
    /\ active' = ApplyMessageUpdate(messages, update)
    /\ recorded' = recorded \o
         IF update.clear
           THEN SubSeq(messages, 1, Len(messages) - Len(update.messages))
           ELSE <<>>

NoTally == [type |-> 1, score |-> 0, judged |-> 0, total |-> 0, questions |-> 0]

ClearRun ==
  /\ phase' = "off" /\ key' = Nothing
  /\ fed' = 0 /\ recorded' = <<>> /\ active' = <<>>
  /\ tally' = NoTally /\ results' = <<>>

(* run up to the first step that can fail.  The baseline reads no memory;  *)
(* a replay takes the memory from the snapshot file with the key source.   *)
StartRun(runArgs, runKey) ==
  /\ phase = "off"
  /\ args' = runArgs /\ key' = runKey
  /\ phase' = IF runArgs.runner = "baseline" THEN "answer"
              ELSE IF runArgs.source # Nothing THEN "restore" ELSE "ingest"
  /\ UNCHANGED <<local, snapshots, outputs>>

AfterIngest == IF args.runner = "standard" THEN "snapshot" ELSE "answer"

(* restore_from_snapshot: a file that cannot be read or was written under  *)
(* another memory profile fails the run.                                   *)
Restore ==
  /\ phase = "restore"
  /\ args.source \in DOMAIN snapshots
  /\ LET snapshot == snapshots[args.source]
     IN  /\ snapshot # Torn
         /\ snapshot.profile = args.profile
         /\ recorded' = snapshot.recorded /\ active' = snapshot.active
  /\ fed' = Len(MessageBatches)
  /\ phase' = "answer"
  /\ UNCHANGED <<args, key, tally, results, snapshots, outputs>>

FeedNext(runner) ==
  /\ phase = "ingest" /\ args.runner = runner
  /\ fed < Len(MessageBatches)
  /\ Process(active \o MessageBatches[fed + 1], FALSE)
  /\ fed' = fed + 1
  /\ UNCHANGED <<args, key, phase, tally, results, snapshots, outputs>>

IngestPair      == FeedNext("standard")
AgentIngestPair == FeedNext("deepagent")

(* structured_flush_final.                                                 *)
FlushFinal(runner) ==
  /\ phase = "ingest" /\ args.runner = runner
  /\ fed = Len(MessageBatches)
  /\ IF args.flush /\ active # <<>>
       THEN Process(active, TRUE)
       ELSE UNCHANGED <<recorded, active>>
  /\ phase' = AfterIngest
  /\ UNCHANGED <<args, key, fed, tally, results, snapshots, outputs>>

EndIngest      == FlushFinal("standard")
AgentEndIngest == FlushFinal("deepagent")

Written(files, path, content) ==
  [f \in DOMAIN files \cup {path} |-> IF f = path THEN content ELSE files[f]]

(* write_memory_snapshot, before any question is asked.                    *)
OpenSnapshot ==
  /\ phase = "snapshot"
  /\ snapshots' = Written(snapshots, key, Torn)
  /\ phase' = "snapshotting"
  /\ UNCHANGED <<args, key, local, outputs>>

CloseSnapshot ==
  /\ phase = "snapshotting"
  /\ snapshots' = [snapshots EXCEPT ![key] =
       [profile |-> args.profile, recorded |-> recorded, active |-> active]]
  /\ phase' = "answer"
  /\ UNCHANGED <<args, key, local, outputs>>

-----------------------------------------------------------------------------
(* The question loop, the same in the three runners.                       *)

Answered(type) == Cardinality({n \in DOMAIN results : results[n].type = type})
Asking   == tally.type <= Len(Probes)
NextItem == Answered(tally.type) + 1
Remains  == Asking /\ NextItem <= Len(Probes[tally.type])

Record(context, replies) ==
  LET score == JudgeScore(replies)
  IN  /\ results' = Append(results, [type |-> tally.type, judged |-> score,
                                     score |-> score, context |-> context])
      /\ tally' = IF score = NoScore THEN tally
                  ELSE [tally EXCEPT !.score = @ + score, !.judged = @ + 1]

Ask(runner, context) ==
  /\ phase = "answer" /\ args.runner = runner
  /\ Remains
  /\ \E replies \in RepliesTo(Probes[tally.type][NextItem]) : Record(context, replies)
  /\ UNCHANGED <<args, key, phase, fed, recorded, active, snapshots, outputs>>

(* The answer context: what memory and tail say at this point, or the raw  *)
(* pairs and nothing else.                                                 *)
MemoryContext == [recorded |-> recorded, tail |-> active]

AnswerQuestion  == Ask("standard", MemoryContext)
AskAgent        == Ask("deepagent", MemoryContext)
AnswerFromPairs == Ask("baseline", RecentPairs)

(* A question type is done: its totals go into the overall totals.         *)
NextType == [type |-> tally.type + 1, score |-> 0, judged |-> 0,
             total |-> tally.total + tally.score,
             questions |-> tally.questions + tally.judged]

CloseType ==
  /\ phase = "answer" /\ Asking /\ ~Remains
  /\ tally' = NextType
  /\ UNCHANGED <<args, key, phase, fed, recorded, active, results, snapshots, outputs>>

-----------------------------------------------------------------------------
(* Writing results.                                                        *)

Mean(total, n) == IF n = 0 THEN NoScore ELSE total \div n

(* apply_score_ownership: judge_score is popped from the overall summary   *)
(* and becomes the score of the route; an oracle run keeps none under the  *)
(* production names, neither for itself nor for its questions.  (Seeded    *)
(* bug: the questions keep theirs.)  overall is the judge_score that stays  *)
(* in the overall summary.                                                 *)
RouteScore == LET mean == Mean(tally.total, tally.questions)
              IN  IF mean = NoScore THEN Heuristic ELSE mean

Unscored(items) == [k \in DOMAIN items |-> [items[k] EXCEPT !.score = NoScore]]
EveryItemScored(items) == items
ProductionItems(items) == IF args.oracle THEN Unscored(items) ELSE items

OwnedOutput ==
  [primary |-> IF args.oracle THEN Nothing ELSE RouteScore,
   diagnostic |-> IF args.oracle THEN RouteScore ELSE Nothing,
   overall |-> Nothing, items |-> ProductionItems(results),
   snapshot |-> args.runner = "standard" /\ args.source = Nothing]

(* The agent runner takes a routing mode and does not look at it: judge_score*)
(* stays where it is, and the questions keep theirs.                       *)
AgentOutput ==
  [primary |-> Nothing, diagnostic |-> Nothing, overall |-> Mean(tally.total, tally.questions),
   items |-> results, snapshot |-> FALSE]

(* Of the files of a run, the results; answers and evaluation are extracts *)
(* of them that nothing reads, written next, and a failure between them is *)
(* that of a run whose results are there (RunFails).                       *)

Write(runner, output) ==
  /\ phase = "answer" /\ args.runner = runner
  /\ ~Asking
  /\ outputs' = Written(outputs, key, output)
  /\ phase' = "written"
  /\ UNCHANGED <<args, key, local, snapshots>>

WriteResults         == Write("standard", OwnedOutput)
WriteAgentResults    == Write("deepagent", AgentOutput)
WriteBaselineResults == Write("baseline", OwnedOutput)

RunStep ==
  \/ Restore \/ IngestPair \/ AgentIngestPair \/ EndIngest \/ AgentEndIngest
  \/ OpenSnapshot \/ CloseSnapshot
  \/ AnswerQuestion \/ AskAgent \/ AnswerFromPairs \/ CloseType
  \/ WriteResults \/ WriteAgentResults \/ WriteBaselineResults

-----------------------------------------------------------------------------
RunInit ==
  /\ args = Nothing /\ key = Nothing /\ phase = "off"
  /\ fed = 0 /\ recorded = <<>> /\ active = <<>>
  /\ tally = NoTally /\ results = <<>>
  /\ snapshots = <<>> /\ outputs = <<>>

(* The chat as the case gives it, up to what has been fed: every message   *)
(* with text that the user or the assistant wrote.                         *)
Transcript ==
  LET fedMessages == FlattenSeq(SubSeq(MessageBatches, 1, fed))
  IN  IF fed = Len(MessageBatches)
        THEN UsableOf(FlattenSeq(Chat)) ELSE fedMessages

(* Whatever the middleware evicted and whatever failed to commit on the    *)
(* way, a question is asked when every message of the chat is either       *)
(* among those removed by updates or in the working tail, in order, and    *)
(* only once; also when memory and tail come from a snapshot file.                    *)
TranscriptSplit ==
  phase # "off" /\ args.runner # "baseline" /\ phase # "restore" =>
    recorded \o active = Transcript
=============================================================================
