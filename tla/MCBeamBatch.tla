---------------------------- MODULE MCBeamBatch ----------------------------
(* Model values for BeamBatch: a chat with a message nobody wrote, a blank *)
(* one and a turn of odd length, two cases, and histories of two batches.  *)
EXTENDS BeamBatch

Msg(id, role, blank) == [id |-> id, role |-> role, blank |-> blank]

MCChat == <<
  <<Msg(1, "user", FALSE), Msg(2, "assistant", FALSE), Msg(3, "user", FALSE)>>,
  <<Msg(4, "user", TRUE), Msg(5, "system", FALSE)>>,
  <<Msg(6, "user", FALSE), Msg(7, "assistant", FALSE)>> >>

(* Two question types; one question has no rubric, one has two lines.      *)
MCProbes == << <<1, 0>>, <<2>> >>

MCJudgeReplies ==
  {[form |-> "none", value |-> 0], [form |-> "score", value |-> 7],
   [form |-> "passed", value |-> 1], [form |-> "score", value |-> 1]}

Standard ==
  [runner |-> "standard", ids |-> {}, limit |-> 9, repeats |-> 1, stop |-> FALSE,
   oracle |-> FALSE, judge |-> FALSE, flush |-> FALSE, profile |-> "chat",
   replay |-> 0, baseline |-> 0]

MCCases == {2, 10}

MCPlans == {
  \* two repeats of one case, replayed
  << [Standard EXCEPT !.ids = {2}, !.repeats = 2],
     [Standard EXCEPT !.ids = {2}, !.repeats = 2, !.replay = 1] >>,
  \* two cases, the first of them replayed more often than it ran
  << [Standard EXCEPT !.flush = TRUE],
     [Standard EXCEPT !.limit = 1, !.repeats = 2, !.replay = 1, !.stop = TRUE] >>,
  \* a snapshot of another profile
  << [Standard EXCEPT !.limit = 1],
     [Standard EXCEPT !.limit = 1, !.replay = 1, !.profile = "eval"] >>,
  \* the baseline, and a batch compared with it
  << [Standard EXCEPT !.runner = "baseline", !.stop = TRUE],
     [Standard EXCEPT !.ids = {2, 10}, !.limit = 1, !.stop = TRUE, !.baseline = 1] >>,
  \* judged runs of the three runners, two in oracle mode; a missing case
  << [Standard EXCEPT !.limit = 1, !.judge = TRUE, !.oracle = TRUE, !.flush = TRUE] >>,
  << [Standard EXCEPT !.limit = 1, !.judge = TRUE, !.flush = TRUE, !.runner = "deepagent"] >>,
  << [Standard EXCEPT !.limit = 1, !.judge = TRUE, !.oracle = TRUE, !.runner = "deepagent"] >>,
  << [Standard EXCEPT !.limit = 1, !.judge = TRUE, !.runner = "baseline"] >>,
  << [Standard EXCEPT !.ids = {3}], [Standard EXCEPT !.limit = 1, !.runner = "deepagent"] >> }
=============================================================================
