# A TLA+ verification of MemoryAgent

MemoryAgent keeps long conversations within a token budget. The oldest turns
leave the chat context and are handed to an *updater*, which turns them into
entries of a *structured memory*; what the agent says and hears is also pushed
to a long-term store (mem0). The promise of the whole is short: **a turn leaves
the context only when what it said is somewhere else**, and the memory it went
to never loses or forges it. This project models the parts that make that
promise, checks them with TLC on small instances, and proves every safety property
that the runs check with TLAPS, for every instance.

Source paths are relative to `src/memory_agent/` unless they start with `src/`.

## 1. The system

| component | state | operations | interacts with |
|---|---|---|---|
| Memory store, `core/store.py` | entries by id, id counters, narrative, revision, lock | `apply_ops`, `apply_ops_atomically`, `transaction_snapshot`, `commit_trial`, `set_narrative`, `to_state`, `load_state`, `render` | updated by the service and the compactor, possibly from several threads; read by renderers |
| Updater, `update/updater.py` | token reports; per call a private trial memory | `prepare_update` (deterministic ops, model call, retries, consolidation) | calls the update model, edits a trial of the store |
| Verifier, `update/verifier.py` | none | `verify` | judges the ops the updater reports, reads the trial |
| Compactor, `update/compactor.py` | metrics | `detect_candidates`, `compact_candidates` | reads and replaces the contents of the live store, calls a model for rollups |
| Service, `application/structured_service.py` | last failed compaction | `update`, `maybe_compact` | runs updater, verifier, commit, compactor in this order |
| Session, `application/session.py`, `core/window.py`, `core/transcript_store.py` | transcript, working window | `send` | evicts turns through the service |
| LangChain middleware, `adapters/langchain/structured_memory.py` | mirrored transcript, turn id of each message id | `before_model`, `wrap_model_call` | a node of an agent whose messages are checkpointed by LangGraph; evicts through the service |
| Long-term middleware, `longterm/middleware.py` | tracked ids and payloads, pushed ids, search cache | `before_model`, `wrap_model_call`, `flush` | runs after the structured middleware, calls mem0 |
| Agent builders, `agents/` | none | `build_hybrid_agent`, ... | decide the order of the middlewares |
| Event service, `application/event_memory_service.py`, with `adapters/events/`, `policies/agent.py`, `policies/chat.py` | entries, processed event ids | `ingest_events`, `retrieve_memory` | fed with traces that are "replayed or delivered at least once" |
| Selectors, `update/selector.py`, `retrieval/` | none | `select_for_update`, `select_for_answer` | read the store; called by the updater, by the prompts of session and middleware and by the BEAM runners |
| BEAM runners, `src/scripts/run_beam_*.py` with `src/evaluation/beam/` | per run: active messages, the middleware's memory, totals; on disk: snapshots, results, manifests | `run`, `run_batch` | drive the middleware, write and read each other's files |
| Clients, `clients/`; configuration, `models/`; `src/evaluation/memory/`, `src/demos/` | | | I/O, offline reports and wiring |

What is hard about it:

* **Concurrency.** The store has a lock and a revision; `set_narrative`,
  `to_state` and the compactor's copy-and-install use neither. An update holds a
  snapshot across model calls.
* **Failure.** A batch of runs is killed between or inside writes, and later
  batches build on what it left. Model calls fail, answers are malformed or rejected, verification
  fails, a commit meets a newer revision, mem0 raises; agent runs end in the
  middle and resume from a checkpoint; a process restarts from a saved state.
* **Ordering.** The later value wins, by turn, then by id. Middlewares run in a
  fixed order, each seeing what the one before it left.
* **Limits.** Token budgets, kept tails, chunk sizes, retries, the circuit breaker.

What makes each component correct, in one sentence each: the *store* issues an
id once and never lets a commit overwrite a change it has not seen; a *batch*
commits all of an update or nothing, and reports exactly what it changes; the
*compactor* keeps the provenance of every recorded turn and the newest value;
*session* and *middleware* drop a turn in the step that records it, never split a
tool call from its answers, and end below the budget; the *long-term middleware*
stores every evicted message once, in order; the *event service* has one current
entry per subject and type, the latest; the *selectors* show what a prompt cannot
do without, whatever the budget, and use the rest of it well; a *BEAM run* asks
its questions when every message of the chat is in the memory or in the tail, and
a *batch* says of itself what its files say.

`PROJECT.json` lists the hazards with their lines and the properties on them.

## 2. The modules

| module | models | role |
|---|---|---|
| `MemoryOps` | `_apply_one`, `_next_id`, entries | pure operators on a store, shared by the next four |
| `LivingSummary` | the class docstring of `Memory` | abstract specification of the store |
| `MemoryStore` | `core/store.py` with threads and restarts | refines `LivingSummary` |
| `UpdateService` | `structured_service.py` and `compactor.py` with threads | composes the store with updates and compactions |
| `UpdateBatch` | `updater.py`, `verifier.py`, one batch in detail | says how the ops `UpdateService` leaves open come about |
| `Handover` | what `window.py` and the middleware promise about turns | abstract specification of eviction |
| `SessionWindow` | `session.py`, `window.py`, `transcript_store.py` | refines `Handover` |
| `EvictionMiddleware` | `structured_memory.py` in an agent loop | refines `Handover` |
| `HybridAgent` | `longterm/middleware.py` after it | extends `EvictionMiddleware` by a second node |
| `EventIngestion` | the event service, its adapters and policies | stands alone, as in the code |
| `MemorySelection` | both selectors and the length of `Memory.render` | operators, used by the next |
| `UpdatePrompt` | the part of `updater.py` before and after the model call: gate, turn groups and budget, shown entries, migration, and what the policy leaves of an answer | complements `UpdateBatch`, which leaves these choices open |
| `BeamRun` | one run of `run_beam_case.py`, `run_beam_case_deepagent.py` or `run_beam_baseline.py` | drives a middleware reduced to what it may return |
| `BeamBatch` | `run_batch` of `run_beam_cases.py` and `run_beam_baseline.py` | extends `BeamRun`: many runs, their files, crashes |
| `Sublists` | filtering comprehensions, `sorted` | `Keep`, the elements of a sequence that are in a set, and `Sorted`; used by most modules |
| `SequenceLemmas`, `MemoryOpsProofs` | | lemmas on sequences, sums, sorting and recursion; on single ops |
| `MemoryStoreProofs`, `UpdateServiceProofs`, `EventIngestionProofs` | | theorems on the modules they are named after |
| `HandoverProofs` | | theorems on the two hosts that implement `Handover`: `EvictionMiddleware` with `HybridAgent`, and `SessionWindow` |
| `UpdaterProofs` | | theorems on `UpdateBatch` and `UpdatePrompt` |
| `BeamProofs` | | theorems on `BeamRun` and `BeamBatch` |
| `MC*` | | constants of the model-checking instances |

### From state and actions to code

* **MemoryStore.** `live` is the `Memory` object (entries, `_counters`,
  narrative), `revision` and `lock` its `_revision` and `_lock`. A batch under
  the lock is several steps (`BeginApply`, `ApplyInPlace`..., `EndApply`),
  because `set_narrative` and `to_state` take no lock and see it half done; an op of
  a batch is one step. `_replace_from` is a step per assignment (`InstallEntries`,
  `InstallNarrative`, `InstallCounters`). `to_state` is a reader of many steps, one
  at a time: it iterates the dict it began with (`Iterated`, which outlives an
  install as `orphan`), takes each entry's text, provenance and status one after the
  other, raises when the dict has grown, and reads narrative and counters last. A
  transaction is a private `trial` with its `base` revision. An entry's section
  is the section of its id. An `UPDATE` whose provenance cannot be merged and
  sorted is `sortable = FALSE`; ops turned away before they touch anything are
  `MALFORMED`. `snapshot` and `opened` are history variables.
* **UpdateService.** A thread goes through `update` (`Prepare`, `Edit`, then
  `Commit` or `NotCommitted`) and `maybe_compact`. Locked store operations are
  single steps (`MemoryStore` shows that they behave so); what is split is what
  the code leaves open: between snapshot and commit, during the model call of a
  rollup, and between the copy and the install of a compaction. A candidate keeps
  the entries it saw when it was detected. `raced` is a history variable: the turns
  committed while another thread had a compacted copy in hand.
  The copy and the install of a compaction are one step each. In the code each is
  several unlocked assignments, which a commit may fall between; such a commit is one
  the compaction races with, but how its pieces mix is not modelled.
* **UpdateBatch.** One call of `update`: `Prepare` takes the snapshot, applies
  the deterministic ops and chooses what to show; each model answer is applied or
  leads to `TryAgain`; then consolidation and verification. A turn is what the
  two regex-based readers make of it: whether the verifier finds a cue, and what
  statement the extractor finds.
* **SessionWindow.** A turn is its length. `send` is `Send`, then one of three
  eviction outcomes, then `Reply` or `ReplyFails`.
* **EvictionMiddleware.** `pc` is the node of the agent that runs next.
  `FindCutoff` is the whole of `_find_cutoff`, its bounded binary search
  included. User, model, tools and checkpointing are external actions.
* **HybridAgent.** The same agent with `Recall` between eviction and model. What is
  said beside a tool call has a payload for the long-term store, a bare call has none
  (`HasPayload`, `TextSizes`).
* **EventIngestion.** A record of the world is adapted and ingested in
  stretches; `ingest_events` holds its lock for a batch, so a batch is one step.
  `Retrieved` is `retrieve_memory` for one scope or for any.
* **UpdatePrompt.** A scenario is a batch of evicted turns, a memory, a policy and
  budgets. A turn is what the updater's searches find in it (whether it is durable,
  accepts, rejects, corrects, proposes, calls tools), its tokens, the words it
  shares with entries and the subject it speaks of. `SelectTurns` is
  `_turns_within_budget` with the groups of `_semantic_turn_groups`,
  `SelectEntries` is `select_for_update`, `TakeAnswer` what happens to an answer
  before it is applied: duplicates dropped, the policy filter, `_cap_ops`, and the
  suppression of redundant and unaccepted ADDs (`Lasting`); an op says which entries
  it copies or restates. `Question` asks `select_for_answer` of the memory that
  results from the migration. The deterministic ops are not part of it.
* **MemorySelection.** Scores are integers, in thousandths; the sort keys are
  compared component by component, the last one by id.
* **BeamRun.** `phase` is where `run` is, `active` is `active_messages`, `recorded`
  the messages that updates have removed from it, which stand for the memory,
  `snapshots` and `outputs` the files.
  `before_model` returns nothing or evicts a prefix; `EvictionMiddleware` says
  which. A file that is being written is `Torn` between two steps.
* **BeamBatch.** `entries` is `manifest["cases"]` in the process, `disk` the file.
  `RunFails` is an exception at any point of a run, `Crash` the end of the process
  at any point; the next batch of the history then starts on the files it left.

Actions with a "Seeded bug" comment have a sibling definition that is no part of
the model: the mutated form that shows the property below it can fail.

## 3. What the runs show

| run | question and bounds | result |
|---|---|---|
| `MemoryStore` | two threads, in place, atomic and transactional, a `to_state` that interleaves with them, read with and without its counters; 2 ids, one change per process, one save, two restarts | passes, 0.8M states |
| `UpdateService_compaction` | one thread, three turns, rollups, typed subjects across a protected section, outages, breaker | passes, 2.0M states |
| `UpdateService_races` | two threads that update and compact, one op per update, two texts of one subject, four turns: are turns lost otherwise than between copy and install? | passes, 0.8M states |
| `UpdateService_lost` | two threads and a compactor: is a recorded turn ever lost? | violated |
| `UpdateBatch` | two turns, answers of two ops out of nine, one retry, every choice of shown entries, cues the extractor sees; safety and liveness | passes, 0.2M states |
| `UpdateBatch_stuck` | cues the extractor does not see: is every turn recorded? | violated |
| `SessionWindow` | seven turns, a budget of eight tokens, rendered memories of four lengths | passes, 0.1M states |
| `HybridAgent` | seven messages, runs of up to two tool calls, orphaned tool messages, failing runs, updates and adds, flushes between runs; also the run of the structured middleware, whose steps it contains unchanged | passes, 0.7M states |
| `HybridAgent_resumed` | a conversation resumed over budget | violated |
| `EventIngestion` | both policies, four records, three batches, replays, any order; `CurrentIsLatest` as long as the records stored came first in order | passes, 0.2M states |
| `UpdatePrompt_budgets` | all batches of one or two turns of ten kinds and 216 of five turns, memories of three and six entries, chat policies with and without gate and one without filter, budgets that fit none, some and all; six answers, five questions | passes, 29 thousand states |
| `BeamBatch_history` | nine histories of up to two batches: repeats, replay of the same and of another repeat, another profile, comparison, stop on error, oracle and judge, each runner; failures and a crash at any step | passes, 0.1M states |

### The disagreements found

Each has its run and its quotes in `PROJECT.json`.

1. The compactor installs its copy without lock or revision: a commit between
   copy and install is lost, together with turns that have left the context. With
   one thread this cannot happen, and `UpdateService_compaction` checks the same
   property there. With two, `UpdateService_races` checks that no turn is lost in any
   other way (`OnlyRacesLoseTurns`).
2. A status-change cue inside a code fence is seen by the verifier and not by the
   extractor, so the batch can never be evicted unless the model records it.
3. In the hybrid agent a resumed conversation that is over budget at once loses
   messages for the long-term store.

Modelled as the code has them and worth knowing, without a run of their own:

* The verifier accepts the record of one turn as evidence for the cue of every
  other turn of the batch, so a change nothing records can leave the context beside
  one that is recorded (`CueIsRecorded` in `UpdateBatch`).
* Event adapters number records without an id per call, so those of a second batch
  are taken for replays and dropped (`GivenIds = FALSE` in `EventIngestion`).
* A trial prepared before a compaction commits after it, because the compaction
  does not count a revision (the other side of 1).
* An in-place `UPDATE` reported as rejected may have replaced the text
  (`apply_ops` only; `apply_ops_atomically` discards the copy).
* Rollups delete their sources although the class says entries are never deleted;
  a comment in the compactor says why, and provenance and ids survive.
* A flush never stores the last answer, which no `before_model` has tracked;
  `FlushStoresAllButLastAnswer` in the `HybridAgent` run shows it misses nothing else.
* `keep_messages = 1` is allowed (`max(1, keep_messages)`) and loses messages for
  the long-term store: the last answer may be evicted right after the next user
  message, before the long-term middleware has tracked it. `EvictedStaysRecallable`
  is then violated; the `HybridAgent` run keeps two messages, the theorem assumes it.
* On a batch of ordinary questions the chat filter drops the ADD of a reversal and
  keeps its SUPERSEDE (`Retained`); the cap keeps one ADD beside any number of
  SUPERSEDEs and drops the others, UPDATEs included (`CapOps`).
* After the cap, an ADD that restates an active entry of its section, or comes from
  the assistant alone with no user accepting anything, is suppressed, and entries are
  compared as they are before the answer is applied. So an ADD that repeats the very
  entry its SUPERSEDE withdraws is dropped, the SUPERSEDE stays, and the other ADDs
  are gone already (`Transient`). `ReversalsStayWhole` has this exception.
* `to_state` holds no lock, so what it saves may be no state the memory ever was in:
  new entries beside old counters, or an entry's text from before a commit that its
  status is from after. `load_state` repairs the counters; nothing the save should
  have is missing (`Torn` in `LivingSummary`). It raises if an entry is added while
  it iterates.
* One superseded legacy entry among those shown blocks the migration of the others
  (`MigrateEntries`).
* A budget of 0 for the update memory shows nothing, not even exact matches, which
  any other budget shows in full. The narrative is counted once per candidate
  there, and may alone exceed the budget of an answer, which then has no entries.
* The manifest of a batch is rewritten in place; a process killed meanwhile leaves
  no account of the runs before (`Torn`). The error that stopped a batch is on no
  disk when the comparison after it raises. Every version of a baseline's manifest
  has an aggregate, and a partial one compares like a finished one.
* A stopped batch's manifest and the one of a batch that was killed between two
  cases can be replayed; the runs they do not have fail, one by one.
* The deepagent runner takes `--routing-mode oracle` and does not look at it: it
  writes neither `primary_score` nor `diagnostic_score`, the mean stays in
  `summary.overall.judge_score`, and its questions keep `llm_judge_score` also in an
  oracle batch (`AgentOutput`). `ScoreOwnedByRoute` says so of this runner.

### Bounds and why they suffice

* Two threads: every race here is between one holder of a copy and one other
  writer. A third thread adds no new pair of copy and install.
* Ids per section up to 4: a rollup needs two sources and leaves room for its result
  and an entry added later; a second rollup, which takes the result of the first as a
  source, is covered by the theorems only. The compaction instance stays below ten ids so that
  `F9 < F10` as strings does not arise; `ServiceAssumption` says so.
* Three turns in the compaction instance: two for the sources of a rollup, one after
  it. Four in `UpdateService_races`: two to start a compaction, one committed beside
  it, one for a trial that goes stale. Two in `UpdateBatch`, where a batch may hold
  both.
* `MemoryStore`: one change per process and one save are enough for a save that meets
  a batch or an install at any of its steps. The restart that loads it and the changes
  of the process it starts show whether its ids are fresh.
* One text in `MemoryStore`: no property there depends on what an entry says, and
  provenance and status tell the versions of an entry apart. Provenance that
  cannot be sorted is left to the theorems, which cover it.
* Two ops per update and two ops per answer: one that is accepted and one that
  is rejected after it, the case all-or-nothing is about.
* `MaxRetries = 1`: a failed attempt, a repeated one, and the end of the retries.
* Seven turns or messages: two evictions one after the other, the second
  on a context that the first has cut. With sizes 1 and 3 and a limit of 6 the
  limit is met exactly, by one too many and by more.
* `UpdatePrompt`: five turns are two exchanges and a request, so that an exchange
  can be dropped, skipped over by a seeded bug, or pulled in by a correction; the
  token counts make each of them meet a budget of 5 or 8 exactly, or exceed it.
  Six entries hold two exact matches of one subject, one of them superseded, one of
  another subject, pinned ones and a cheap unpinned one; a header is 8 characters.
* `BeamBatch`: two repeats and two cases give a replay of the same repeat, one of
  the other and none; two batches give a manifest that is complete, partial, torn
  or missing when the second reads it. Cases 2 and 10 differ in order as names and
  as numbers. The chat has a blank message, one of another role and an odd pair.
* `CHECK_DEADLOCK FALSE` is set where bounds on turns, messages or batches end
  the run, and where a batch or a history is over. `MemoryStore` is checked for
  deadlock: some thread can always go on.

### Fairness

Only `UpdateBatch` has a liveness property. Its `FairSpec` assumes weak
fairness of `Prepare`, of consolidation and of commit-or-fail: these are
consecutive statements of one call, and the eviction of turns still in context is
tried again at every call of `send` or `before_model` that is over budget, so as
the conversation goes on it does not stop being tried. It assumes strong fairness
of the model saying that it has nothing to add: a model that never gives an answer
the updater accepts leaves every turn in context by design. Nothing else is
assumed, in particular not that a verification passes: `UpdateBatch` shows that it
does in the end when the extractor sees what the verifier sees, and
`UpdateBatch_stuck` that it does not otherwise.

## 4. What is proved

A theorem holds for every value of the constants, under the assumptions the
modules state about them (`EvictionAssumption`, `ServiceAssumption`, ...: budgets
and sizes are naturals, the order of section prefixes is an order) and,
where its statement says so, under a condition explained below.

| module | what it establishes |
|---|---|
| `MemoryStoreProofs` | ids stay fresh, a trial that may commit extends the memory and loses no update, the store with its unlocked saves implements `LivingSummary` |
| `UpdateServiceProofs` | recorded turns stay cited after every update and compaction, history is final, ids are not reissued, a compaction keeps the latest value; with threads that compact, turns are lost to one race only |
| `UpdaterProofs` | the report of an update explains its trial, a turn no committed update recorded leaves no trace; the prompt has the latest exchanges, none in part, and every entry about exactly their subjects; a reversal in the model's answer stays whole but for a suppressed ADD; the entries shown for an answer fill its budget, pinned ones first |
| `HandoverProofs` | for the middleware: tools stay with their call, the mirror follows the conversation, the kept tail stays, an eviction meets the budget, it implements `Handover`; for the hybrid agent: messages are stored in order, evicted ones stay recallable, a flush is complete; for the session: the two latest turns stay, an eviction makes room, it implements `Handover` |
| `EventIngestionProofs` | one active entry per subject and type, ingestion is idempotent and drops nothing, the current entry is the latest if first deliveries were in order, retrieval fills its budget in every scope |
| `BeamProofs` | nothing of a chat is lost between memory and tail, a run has one score, where the route of its batch wants it, a replay answers from the memory it was to be a replay of, a manifest lacks one run at most, its aggregate is the account of its runs' files |
| `MemoryOpsProofs`, `SequenceLemmas` | lemmas on single ops; on sequences, sums, sorting, recursion |

`PROJECT.json` lists each theorem with the property it states. Every invariant and
every action or refinement property of the passing runs is the statement of one.

### The invariants, and why they are needed

* **MemoryStore** (`IInv`). The types alone are
  not inductive, because a batch under the lock relies on being the only writer;
  `IInv` therefore ties `lock` to the thread whose `pc` is in a batch. An id is
  fresh only if every copy a thread holds is also below its counters, so freshness
  is stated for `live` (but for the thread inside `_replace_from`, whose trial has the
  counters to come), for every `trial` and for every `snapshot` together. It is not
  true of `saved`, and need not be: `Restart` takes the maximum. And a trial whose
  revision is current must extend the memory although
  other threads' transactions come and go: a trial's base never exceeds the
  revision, and an equal base means nobody has installed since. That an op extends
  a store (`AfterOpExtends`), and that extension is transitive, makes a whole batch
  one `Evolve` of `LivingSummary`. For a save, what `to_state` iterates lies between
  what was there when it began and what is there now, and so does each entry it has
  taken (`ReaderOK`, `Between`): reading bit by bit between two states that only
  evolve cannot lose or forge an entry.
* **UpdateService** (`ServiceInv`). A commit replaces the memory by a trial, so
  what holds of the memory must hold of every trial that would pass the revision
  check: it extends exactly the memory it was copied from (`EditsExtend`). A
  compaction acts on what it detected earlier: its candidates must still be entries
  of the memory when their turn comes, after other candidates were installed
  (`Fits`, kept by `CompactionKeepsFit`), and the copy it installs has lost no
  provenance and no history (`CompactsTo`). `Covered` then survives both kinds of
  replacement. That the surviving entry has the latest value rests on `Latest`
  being a maximum of the order of turns and ids (`LatestIsLatest`).
  With compactions beside other threads this fails, and a weaker invariant is enough
  for what is left (`RaceInv`): every trial that would pass the revision check, and
  every copy about to be installed, still cites the turns that no commit raced with
  a copy (`KeepsSafe`).
* **UpdateBatch** (`UpdateTypeOK /\ ReportExplainsEveryTrial /\ OnlyTurnsSeenCited`).
  The property is about the trial at verification, but the report grows while
  retries discard trials: the invariant says at every moment that running the
  reported ops on the snapshot gives the trial. `RunConcatenation` lets consolidation
  append to a report, and `RunPreserves` carries the provenance of single ops
  through a whole answer.
* **SessionWindow** (`WindowInv`). The window is an increasing list of turns of
  the transcript; being increasing is what makes a batch of oldest turns a prefix.
  `EvictionMakesRoom` needs in addition that the tokens of a window
  are a sum that splits at any turn, up to the one token that rounding
  an estimate loses (`TotalSplits`, `TokensOfConcat`).
* **EvictionMiddleware** (`AgentInv`). Ids in order and tool messages behind their
  call are inductive only together with the mirror, which is the conversation up to
  the last mirroring (`MirrorInOrder`): the turn a message belongs to is looked up
  there when it is evicted. For the budget, the invariant of the loop: if any cut
  leaves few enough tokens, the first such cut lies between the two bounds of the
  binary search, and the interval is no longer than the halvings that are left
  (`SearchSteps`, `ProbeHalves`); `BitLengthTable` says that `bit_length() + 1`
  probes are enough to close it.
* **HybridAgent** (`RecallInv`). `StoredInOrder` relates what is
  stored to what is tracked: what was pushed is the oldest part of what is tracked,
  whatever left tracking is older still, and pushed is stored. `UntrackedTail` says
  that what no `before_model` has seen is the end of the conversation, which the
  kept tail protects (`DroppedIsTracked`).
* **EventIngestion** (`SlotsInv`, `AccountedInv`). That one entry per subject is
  active is inductive; that it is the latest needs that each subject with an entry
  has an active one no older than any of its entries, and that the processed ids are exactly
  those of the delivered records. For retrieval, the loop after *i* candidates has
  chosen a set that weighs what it has used, and each candidate it passed over was
  too large for what the ones ahead of it had left (`Filled`).
* **UpdatePrompt.** The properties speak of what three loops return, and each stage
  of an update leaves what the earlier ones chose; so beside `PromptTypeOK` the work
  is in the loops. *Turns*: the groups of `_semantic_turn_groups` tile the turns of
  the batch (`Tiles`), and a user turn inside a group refers to what was said before
  while a group begins with one that does not (`GroupGood`). The loop from the newest
  group back has, at every moment, taken all that is shown of the groups from some
  `k` on, and what it has taken fits the budget unless `k` is the last group
  (`Suffix`, kept by `TakeGroupKeepsSuffix`). *Entries for the updater*: exact matches
  come first, so that when the first other candidate is offered all of them are
  shown, and the overflow is what they exceed the budget by (`ShownSoFar`).
  *Entries for an answer*: the length of a rendering is a sum of lines and headers,
  hence grows with the entries (`BlocksGrow`), so that what did not fit at its turn
  does not fit at the end (`Passed`). *The reversal*: what the cap keeps of each kind
  of op (`CapKeeps`) and what the suppression leaves of that (`AppliedWhole`).
* **BeamRun** (`TranscriptInv`, `ScoreInv`). What was told to the memory and the
  active tail, joined, are at each moment the message batches fed so far; that these
  are in the end the usable messages of the chat is a fact about lists of lists that
  are filtered and joined (`BatchesAreTranscript`, `KeepFlatten`). A snapshot has the
  property because it copies a memory and tail that have it. A score belongs to its
  route (`RouteOfBatch`: the run has the options of the batch that owns the path) only
  together with the totals of the run in progress: those counted for the
  question types done and the one at hand are the totals of the results so far.
* **BeamBatch** (`BatchInv`, `ManifestInv`, `FrozenInv`). The manifest in the process
  and the one on disk agree up to the last run, and the runs in it are the first ones
  of the schedule; therefore paths of results are not reused, since no run occurs
  twice in a schedule (`ScheduleCovers`). An aggregate on disk stays true
  only because the files it accounts for are never written again, and it becomes true
  because the detailed results in the process are those of the files. A replay is
  pinned by a chain: the lookup is that of the manifest on disk, which belongs to an
  earlier batch and rests (`LookupFrozen`); the source of the run is in the lookup
  (`RunFrozen`); memory and tail are those of the source's snapshot when questions are
  asked (`AnswersFrozen`) and when the results are written (`WrittenFrozen`); and
  so is what the source itself answered from, question by question (`FrozenEntry`).

### Conditions, and what is true without them

* `Alone` (service): compactions run beside no other thread. Without it the
  theorems are false: that is finding 1, and `UpdateService_lost` has the behaviour.
  `OnlyRacesAreLost` does without it.
* `MaxId <= 9` with a compactor (`ServiceAssumption`): ids compare as strings,
  and the order is numeric only as long as they have one digit.
* `Sortable = {TRUE}` (`CommitsLoseNoUpdate`): an
  in-place batch of nothing but rejected, unsortable UPDATEs changes texts and
  does not count a revision. That is the code's behaviour, not the model's.
* `SeenFromStart` (recallable, flush): at least two messages are kept and an
  imported conversation has nothing to store yet. Finding 3 is the second
  condition; for the first see `keep_messages = 1` in section 3.
* `"unconfirmed" \notin AddOutcomes` (stored in order): an add that raises has
  stored nothing. If mem0 stores and then raises, the messages are pushed again.
* `GivenIds = TRUE` (all of `EventIngestion` but `OneActivePerSubject` and
  `RetrievalFillsBudget`): records bring their ids. Without ids the adapter's
  numbering drops records, see section 3.
* `InOrder` (inside `CurrentIsLatest`): the records stored were first delivered in the
  order they happened. The service goes by arrival, not by time: a late first delivery
  of an old record makes the older state the current one.

### How recursion and loops are reasoned about

The library's induction theorems take a predicate as a parameter. `Induction` of
`SequenceLemmas` takes a set instead: the numbers up to `n` for which a claim
holds, which a proof defines by comprehension. `FoldLeft` is defined by a recursion
over sets of positions; `SubsetRecursion` shows that such a recursion has a
solution over the subsets of an interval and `FoldTable` turns it into the table of
the loop's states, one per element, which `Induction` then applies to;
`SubsetRecursionBack` and `FoldTableBack` do the same for a loop from the end, by
counting positions from there. Every loop of the code that is a fold in the model is
proved about this way: `apply_ops`, filters (`Keep`), sums, joined lists,
`retrieve_memory`, the selectors, the turn groups. A sort is a list by the number of
elements that come before (`Sorted`), which `SortedPlaces` and `KeysOrder` show to be
the elements in order when their keys are distinct. The binary search is a
function on intervals, its number of probes a function on naturals.

### Only model-checked

* Liveness, which is beyond the prover: `EveryTurnRecorded` of `UpdateBatch`.
* The three disagreements of section 3, each the violation of a property by a
  behaviour TLC finds; two of them show that `Alone` and `SeenFromStart` are needed.
* That the models are not vacuous: that every action fires, and that each property
  is violated by a mutated definition, is shown on the instances of the runs.

## 5. Not modelled

* How text is read and written: extraction regexes, prompts, normalisation of
  subjects and values, the wording of renderings. Models take their results as
  choices, and of a rendering its length.
* Deterministic extractors other than status changes; `render_chronological`;
  `select` with superseded entries; `quality.py`.
* The search cache and the summary messages of the long-term middleware; several
  concurrent runs on one middleware instance.
* A commit that falls between the assignments of a compaction's copy or install.
* Semantic candidates of the compactor, off in the production profile; several
  progress topics.
* The answers and evaluation files of a BEAM run: extracts of its results that nothing
  reads, written after them. The results file is written in one step; one that a crash
  leaves torn belongs to a run no manifest lists as ok, so no batch accounts for it.
* The memory modes of the BEAM runners that use mem0, event-ordering scores, failure
  attribution, values of comparisons.
* `clients/`, `models/`, `application/chat.py`: I/O, configuration, delegation.
* `src/evaluation/memory/`, the other scripts and `src/demos/`: offline reports and
  interactive drivers around the library.

## 6. Plan

Done, in this order: store and its proof, service and compactor, session,
middleware, hybrid agent, event service, update batch, selectors and update prompt,
BEAM runners and batches; proofs about all of them.

Next, by importance:

1. Compaction with ids compared as strings, several topics, and a run about the
   growth of progress while the breaker is open.
2. Two runs on one `StructuredMemoryMiddleware`; search cache and summary
   messages in `HybridAgent`.
3. The mem0 modes of the BEAM runners, with stores kept between repeats.
