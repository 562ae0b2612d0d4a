------------------------------ MODULE BeamBatch ------------------------------
(***************************************************************************)
(* Batches of BEAM runs: run_beam_cases.py for the runners "standard" and  *)
(* "deepagent", run_beam_baseline.py for "baseline".  A batch runs every   *)
(* selected case, repeat after repeat, in one process that may be killed   *)
(* at any point; what remains is on disk: a manifest per batch, snapshot   *)
(* and results files per run.  Later batches read earlier manifests, to    *)
(* replay their snapshots or to compare with their aggregate.              *)
(*                                                                         *)
(* Nothing is resumed: a batch that was killed is started again as a new   *)
(* one, with a new run_id (two batches do not start in the same second).   *)
(***************************************************************************)
EXTENDS BeamRun

CONSTANTS
  Cases,    \* numbers of the case directories
  Plans     \* sequences of batches somebody may start one after the other

(* replay and baseline: the batch whose manifest is given, 0 for none.     *)
Batch == [runner: {"standard", "deepagent", "baseline"}, ids: SUBSET Nat,
          limit: Nat \ {0}, repeats: Nat \ {0}, stop: BOOLEAN, oracle: BOOLEAN,
          judge: BOOLEAN, flush: BOOLEAN, profile: {"chat", "eval"},
          replay: Nat, baseline: Nat]

ASSUME BatchAssumption ==
  /\ Cases \subseteq Nat \ {0} /\ IsFiniteSet(Cases)
  /\ Plans \subseteq Seq(Batch)
  /\ \A history \in Plans : \A k \in DOMAIN history :
       /\ history[k].replay < k /\ history[k].baseline < k
       /\ history[k].runner = "baseline" => ~history[k].oracle

VARIABLES
  plan,      \* the batches of this history
  b,         \* the batch that runs, or the next one
  pc,        \* where its process is
  lookup,    \* replay_lookup, read when the batch starts
  entries,   \* manifest["cases"] of every batch, as its process has or had it
  detailed,  \* detailed_results
  disk       \* batch_manifest files

batchVars == <<plan, b, pc, lookup, entries, detailed, disk>>
vars == <<runVars, batchVars>>

Absent == [entries |-> <<>>, aggregate |-> Nothing, there |-> FALSE]
Readable(k) == disk[k] # Torn /\ disk[k].there

opts == plan[b]

-----------------------------------------------------------------------------
(* discover_case_dirs: the wanted cases, in numeric order, the first few.  *)
(* (Seeded bug: in the order of their names, "10" before "2".)             *)
Wanted(o)  == IF o.ids = {} THEN Cases ELSE o.ids

NameKey(c) == IF c < 10 THEN 10 * c ELSE c
SelectedByName(o) ==
  First(o.limit, Sorted(Wanted(o), LAMBDA c, d : NameKey(c) < NameKey(d)))
Selected(o) ==
  First(o.limit, Sorted(Wanted(o), LAMBDA c, d : c < d))

(* The runs of a batch, in order.                                          *)
Schedule(o) ==
  LET cases == Selected(o)
  IN  [n \in 1..(o.repeats * Len(cases)) |->
         [repeat |-> (n - 1) \div Len(cases) + 1,
          case |-> cases[((n - 1) % Len(cases)) + 1]]]

RunKey(k, run) == <<k, run.repeat, run.case>>

(* replay_snapshot_lookup: what an ok entry of the manifest names.         *)
SnapshotLookup(k) ==
  LET ok == {n \in DOMAIN disk[k].entries : disk[k].entries[n].snapshot}
  IN  {[repeat |-> disk[k].entries[n].repeat, case |-> disk[k].entries[n].case] : n \in ok}

(* resolve_replay_snapshot: the same repeat, or else the first one of the  *)
(* case, or none.  (Seeded bug: the first one always.)                     *)
FirstOf(runs) == {r \in runs : \A other \in runs : r.repeat <= other.repeat}

ResolveFirst(found, run) == FirstOf({r \in found : r.case = run.case})
ResolveSnapshot(found, run) ==
  LET same == {r \in found : r.case = run.case}
  IN  IF run \in same THEN {run} ELSE FirstOf(same)

(* aggregate_runs: only questions with a score under the production name.  *)
AggregateOf(outs) ==
  LET scores == ScoresOf(FlattenSeq([k \in DOMAIN outs |-> outs[k].items]))
  IN  [runs |-> Len(outs), questions |-> Len(scores), total |-> Total(scores)]

Entry(run, ok) ==
  [repeat |-> run.repeat, case |-> run.case, ok |-> ok,
   snapshot |-> ok /\ outputs[RunKey(b, run)].snapshot]

-----------------------------------------------------------------------------
Init ==
  /\ RunInit
  /\ plan \in Plans
  /\ b = 1 /\ pc = "idle"
  /\ lookup = {} /\ detailed = <<>>
  /\ entries = [k \in DOMAIN plan |-> <<>>]
  /\ disk = [k \in DOMAIN plan |-> Absent]

(* The arguments are read and checked before anything is written; a replay *)
(* manifest that is missing or torn ends the batch here.                   *)
Startable ==
  /\ Selected(opts) # <<>> /\ opts.ids \subseteq Cases
  /\ opts.replay # 0 => opts.runner = "standard" /\ Readable(opts.replay)

StartBatch ==
  /\ pc = "idle" /\ b <= Len(plan)
  /\ IF Startable
       THEN /\ pc' = "next" /\ b' = b
            /\ lookup' = IF opts.replay = 0 THEN {} ELSE SnapshotLookup(opts.replay)
       ELSE pc' = "idle" /\ b' = b + 1 /\ UNCHANGED lookup
  /\ detailed' = <<>>
  /\ UNCHANGED <<runVars, plan, entries, disk>>

Attempted == Len(entries[b])
Current   == Schedule(opts)[Attempted + 1]

RunArgs(source) ==
  [runner |-> opts.runner, oracle |-> opts.oracle, judge |-> opts.judge,
   flush |-> opts.flush, profile |-> opts.profile, source |-> source]

StartCase ==
  /\ pc = "next" /\ Attempted < Len(Schedule(opts))
  /\ IF opts.replay = 0
       THEN StartRun(RunArgs(Nothing), RunKey(b, Current))
       ELSE \E found \in ResolveSnapshot(lookup, Current) :
              StartRun(RunArgs(RunKey(opts.replay, found)), RunKey(b, Current))
  /\ pc' = "running"
  /\ UNCHANGED <<plan, b, lookup, entries, detailed, disk>>

Running ==
  /\ pc = "running" /\ RunStep
  /\ UNCHANGED batchVars

(* After a case: the manifest is written, unless this was an error that    *)
(* stops a batch of run_beam_cases, which leaves the loop first.  (Seeded  *)
(* bug: the manifest is written once per repeat.)                          *)
Leaves(ok) == ~ok /\ opts.stop /\ opts.runner # "baseline"

AfterRepeat(run, ok) ==
  IF Leaves(ok) THEN "aggregating"
  ELSE IF run.case = Last(Selected(opts)) THEN "saving" ELSE "next"
AfterCase(run, ok) == IF Leaves(ok) THEN "aggregating" ELSE "saving"

CaseDone(run, ok) ==
  /\ entries' = [entries EXCEPT ![b] = Append(@, Entry(run, ok))]
  /\ pc' = AfterCase(run, ok)
  /\ ClearRun
  /\ UNCHANGED <<args, snapshots, outputs, plan, b, lookup, disk>>

RunReturns ==
  /\ pc = "running" /\ phase = "written"
  /\ detailed' = Append(detailed, outputs[key])
  /\ CaseDone(Current, TRUE)

(* Any exception of a run, at any point: no snapshot to replay, a model or *)
(* the middleware that raises, a file that cannot be written or restored.  *)
RunFails ==
  /\ \/ pc = "running"
     \/ /\ pc = "next" /\ Attempted < Len(Schedule(opts))
        /\ opts.replay # 0 /\ ResolveSnapshot(lookup, Current) = {}
  /\ CaseDone(Current, FALSE)
  /\ UNCHANGED detailed

(* Opening the manifest for writing empties it.  The baseline puts the     *)
(* aggregate into every version, run_beam_cases only into the last.        *)
Aggregate == AggregateOf(detailed)

Manifest(final) ==
  [there |-> TRUE, entries |-> entries[b],
   aggregate |-> IF final \/ opts.runner = "baseline" THEN Aggregate ELSE Nothing]

OpenManifest ==
  /\ pc \in {"saving", "finishing"}
  /\ disk[b] # Torn
  /\ disk' = [disk EXCEPT ![b] = Torn]
  /\ UNCHANGED <<runVars, plan, b, pc, lookup, entries, detailed>>

EndBatch == pc' = "idle" /\ b' = b + 1

(* The baseline stops after writing the manifest of a failed case, and has *)
(* nothing left to do after the last one.                                  *)
LastFailed == ~Last(entries[b]).ok
GoOn ==
  IF \/ opts.runner = "baseline" /\ opts.stop /\ LastFailed
     \/ opts.runner = "baseline" /\ Attempted = Len(Schedule(opts))
    THEN EndBatch
    ELSE pc' = "next" /\ b' = b

CloseManifest ==
  /\ pc \in {"saving", "finishing"}
  /\ disk[b] = Torn
  /\ disk' = [disk EXCEPT ![b] = Manifest(pc = "finishing")]
  /\ IF pc = "finishing" THEN EndBatch ELSE GoOn
  /\ UNCHANGED <<runVars, plan, lookup, entries, detailed>>

AllAttempted ==
  /\ pc = "next" /\ Attempted = Len(Schedule(opts))
  /\ pc' = "aggregating"
  /\ UNCHANGED <<runVars, plan, b, lookup, entries, detailed, disk>>

(* The comparison needs the aggregate of the other manifest; without it    *)
(* the batch ends with a KeyError and its last version stays as it is.     *)
Comparable(k) == Readable(k) /\ disk[k].aggregate # Nothing

CompareAndFinish ==
  /\ pc = "aggregating"
  /\ IF opts.baseline = 0 \/ Comparable(opts.baseline)
       THEN pc' = "finishing" /\ b' = b
       ELSE EndBatch
  /\ UNCHANGED <<runVars, plan, lookup, entries, detailed, disk>>

(* The process is killed.                                                  *)
Crash ==
  /\ pc # "idle"
  /\ EndBatch
  /\ ClearRun
  /\ UNCHANGED <<args, snapshots, outputs, plan, lookup, entries, detailed, disk>>

Next ==
  \/ StartBatch \/ StartCase \/ Running \/ RunReturns \/ RunFails
  \/ OpenManifest \/ CloseManifest \/ AllAttempted \/ CompareAndFinish \/ Crash

Spec == Init /\ [][Next]_vars

-----------------------------------------------------------------------------
OkEntries(list) == {n \in DOMAIN list : list[n].ok}

(* "Selector/answer changes are compared against identical memory state":  *)
(* a replayed run that ends well asked each question with the memory and   *)
(* the tail that a run of the same case had for it in the batch it replays *)
(* - the same repeat, whenever the manifest of that batch has an ok one -  *)
(* whatever failed, was killed or ran under another profile before.        *)
ReplayAnswersFromFrozenMemory ==
  \A k \in DOMAIN plan : \A n \in OkEntries(entries[k]) :
    LET run   == entries[k][n]
        prior == disk[plan[k].replay].entries
        same  == {m \in OkEntries(prior) : prior[m].case = run.case}
        exact == {m \in same : prior[m].repeat = run.repeat}
        asked(key_) == [i \in DOMAIN outputs[key_].items |-> outputs[key_].items[i].context]
    IN  plan[k].replay # 0 =>
          \E m \in IF exact # {} THEN exact ELSE same :
            asked(RunKey(k, run)) = asked(RunKey(plan[k].replay, prior[m]))

(* "Expose exactly one route-owned score": the results file of a run has   *)
(* one score, the mean over its judged questions across all types, and the *)
(* route of its batch decides where: the primary score in production; the  *)
(* diagnostic one in oracle mode, and then no question has a score under   *)
(* the name production comparisons read.  The agent runner, whatever the   *)
(* mode, leaves it in the overall summary, and its questions keep theirs.  *)
ScoreOwnedByRoute ==
  \A path \in DOMAIN outputs :
    LET out    == outputs[path]
        o      == plan[path[1]]
        items  == [i \in DOMAIN out.items |-> [score |-> out.items[i].judged]]
        judged == ScoresOf(items)
        score  == IF judged = <<>> THEN {Heuristic, NoScore} ELSE {Total(judged) \div Len(judged)}
    IN  CASE o.runner = "deepagent" ->
               out.overall \in score /\ {out.primary, out.diagnostic} = {Nothing}
          [] o.runner # "deepagent" /\ ~o.oracle ->
               out.primary \in score /\ {out.diagnostic, out.overall} = {Nothing}
          [] OTHER ->
               /\ out.diagnostic \in score /\ {out.primary, out.overall} = {Nothing}
               /\ ScoresOf(out.items) = <<>>

(* A batch that dies leaves a manifest that lacks at most the run it was   *)
(* in or had just ended, unless it died between opening and closing it.    *)
AtMostOneRunUnsaved ==
  \A k \in DOMAIN plan : disk[k] # Torn =>
    /\ IsPrefix(disk[k].entries, entries[k])
    /\ Len(entries[k]) - Len(disk[k].entries) <= 1

(* A manifest with an aggregate is the account of its batch: the aggregate *)
(* counts each ok entry once and has the scores that the results files of  *)
(* these entries hold under the production name; and that of               *)
(* run_beam_cases has an entry for every selected case in every repeat, or *)
(* ends with the error that stopped it.                                    *)
Lowest(o) == {c \in Wanted(o) : Cardinality({d \in Wanted(o) : d < c}) < o.limit}

ManifestAccountsForBatch ==
  \A k \in DOMAIN plan : disk[k] # Torn /\ disk[k].aggregate # Nothing =>
    LET list   == disk[k].entries
        files  == [i \in DOMAIN list |->
                     IF list[i].ok THEN ScoresOf(outputs[RunKey(k, list[i])].items) ELSE <<>>]
        scores == FlattenSeq(files)
        runs   == {<<list[i].repeat, list[i].case>> : i \in DOMAIN list}
        stopped == plan[k].stop /\ ~Last(list).ok
        partial == plan[k].runner = "baseline"
    IN  /\ disk[k].aggregate = [runs |-> Cardinality(OkEntries(list)),
                                questions |-> Len(scores), total |-> Total(scores)]
        /\ Cardinality(runs) = Len(list)
        /\ stopped \/ partial \/ runs = (1..plan[k].repeats) \X Lowest(plan[k])
=============================================================================
