# A TLA+ model of the credit-risk workbench

This directory is the formal-verification project of the repository's main
program, `src/credit-risk-finetuning/src/credit_risk/` (below: `credit_risk/`):
a local workbench that fine-tunes, evaluates and questions credit-risk language
models, and a service pipeline that answers analysts' questions from governed
SQL rows and policy documents. The modules are translated from that code;
`PROJECT.json` maps each definition to its lines.

## 1. Inventory

### 1.1 The parts, their state and their operations

| Part | Code | State | Operations |
|---|---|---|---|
| Job scheduler | `workbench/jobs.py`, `store.py` | `jobs` rows in SQLite (status, frozen spec); in memory `current`, `process`, the scheduler thread, `mutex`; `scheduler.lock` | `start` (recovery), `enqueue`, `tick`, `stop`, `loop`, `close`, `cancel_partners` |
| Model worker | `workbench/worker.py` | one process per job in its own session; `gpu.lock` | `main` (lock, run, exit code), `run_session` (item loop), train, evaluate, replay, index |
| Ask | `server.py` ask/confirm/queue/release, `ask.py`, `jobs.session_ended` | `questions`, `session_items`, release files | ask, draft, confirm, queue an item, serve it, settle a session |
| Comparisons | `server.create_comparison` | two job rows with one `comparison_id` | enqueue base and candidate, cancel the partner |
| Answer memory | `workbench/memory.py`, `ask.complete_answer`, `server` verify | append-only `answer_memory`, `answers` | lookup, previous, remember, verify |
| SQL review | `review_store.py`, `data_service.py` | `revisions`, `records`, `events`; the mounted analytical snapshot | prepare, decide, correct, consume and execute |
| Source ledger | `workbench/sources.py` | table rows with a load id, hash-chained `source_loads` | initialize, stage, validate, append, read at a watermark |
| Document library | `workbench/documents.py`, `rag/index.py`, `rag/ingest.py` | document versions, effective windows, chunk index | register, supersede, index, search |
| Retrieval | `rag/retriever.py`, `filters.py`, `lexical.py`, `embedding.py` | none | filter, fuse, rank |
| Training | `training.py`, `worker.train` | adapter files, `completion.json` | early stopping, best checkpoint, attach |
| Feedback, datasets | `workbench/feedback.py`, `learning.py`, `dataset.py`, `feedback.py` | feedback, batches, dataset versions | submit, select, build, gate |
| Analysis pipeline | `api.py`, `guardrails.py`, `risk_tiers.py`, `audit_store.py`, `interaction_store.py` | prepared requests, interactions, audit chain | prepare, review, analyse, release, feedback |
| Query guard, factsheet | `query_guard.py`, `factsheet.py`, `calculations.py` | none | compile, validate rows, ratios, trends, flags |
| Workbench gates | `workbench/evaluation.py`, `learning.py` | results of jobs, `answer_memory`, development checks | compare, replay, regress, gate |
| Release evaluation | `evaluation/*` | frozen gold set, predictions, manifests | score, gate, qualify, compare with the champion |

### 1.2 How they interact

* The dashboard process runs FastAPI handlers in a thread pool and one scheduler
  thread. Both write the same SQLite store; each store call is one transaction,
  and nothing spans two calls except `Jobs.mutex`, which covers `tick` and
  `stop` only, and which a crash or a store error ends half way. Handlers that
  enqueue jobs or items do not take it.
* The scheduler starts a worker process in a new session. The worker reads its
  frozen spec, blocks on `gpu.lock`, and writes items, answers and questions
  into the same store. It does not die with the dashboard.
* `release_sessions` and a session worker talk through a file; `stop` and a
  worker through signals; the scheduler and a worker through the exit code.
* The pipeline service calls the data service over HTTP; an approval lives in
  the data service's own SQLite file, bound to the digest of the plan, the
  compiled SQL, the controls and the bytes of the analytical snapshot.

### 1.3 What is hard here

Handlers, the scheduler thread and worker processes interleave between store
calls; a dashboard crash leaves orphan workers that keep writing; a store error
can hit any call of `tick` and then the handler that deals with it; check-then-act
sequences (`queue_item`, `confirm_plan`, `create_comparison`, `decide_query`,
`execute_query`, `register`) run without a lock; one GPU lane is shared by jobs and
idle sessions. Other hazards are of order and of numbers: rows that are restated or
arrive late, documents registered after a question pinned its evidence, checkpoints
taken while or after a run failed, exports with different cutoffs, gates that read the
last result of something. `PROJECT.json` lists each such place under `hazards`, at its line,
with the properties that would catch it going wrong or the reason none does yet.

### 1.4 What makes each part correct

* Scheduler: one active job, the one it can stop; no job run twice; a completion
  means exit code 0; outcomes do not change; pairs stand or fall together; the
  queue moves.
* Ask: no item waits for nobody, no question hangs, an answer is not taken back,
  items are served in order, an idle session gives up the lane.
* SQL review: an approval is used at most once, by its owner, for the plan and
  the snapshot that were approved; a corrected revision never runs.
* Memory: one context gives one answer, and what a reviewer verified wins.
* Ledger: loads are appended, never changed; a watermark always reads the same rows.
* Documents: one version of a document is in force on a date.
* Queries: a plan sees what was knowable at its date, and no small group of borrowers.
* Training: the selected checkpoint is the best one measured, and a job runs with the
  checkpoint it was queued with.
* Datasets: protected and held-out cases never reach training; caps hold; versions
  do not change.
* Pipeline: nothing is released that its sources do not say.
* Gates: a passed gate is about the candidate, and missing evidence is no pass.

## 2. Plan and state

All modules of the plan are written, in the order of what they matter to the program.

| # | Module | Models | Abstract specification | Proofs |
|---|---|---|---|---|
| 1 | `JobLane` | scheduler, dashboard life, workers, comparisons | `ExclusiveLane` | `JobLaneProofs` |
| 2 | `AskSession` (extends `JobLane`) | questions, items, sessions on the same lane | | `AskSessionProofs` |
| 3 | `ReviewApproval` | SQL review of the data service | `ApprovalTicket` | `ReviewApprovalProofs` |
| 4 | `AnswerMemory` | lookup, remember, verify, with the crash points of `complete_answer` | | `EvidenceProofs` |
| 5 | `SourceLedger` | stage, validate, append under `source.lock`, crash, questions at a watermark | | `SourceLedgerProofs` |
| 6 | `PolicyLibrary` | document versions, windows, index job, access, retrieval | | `EvidenceProofs` |
| 7 | `PortfolioQuery` | plans, compiler, row checks, calculations, factsheet | | `EvidenceProofs` |
| 8 | `ReleaseControl` | analyse, guardrails, tiers, API feedback, dataset export | | `LearningProofs` |
| 9 | `CheckpointSelection` | a training run, its checkpoints and all who take one | | `CheckpointSelectionProofs` |
| 10 | `LearningLoop` | workbench feedback, dataset versions, registration | | `LearningProofs` |
| 11 | `CandidateGates` | comparison, replay and regression results, consistency gates | | `LearningProofs` |
| 12 | `ReleaseDecision` | scoring, release gates, qualification, promotion | | `LearningProofs` |

Modules 1 to 4 have MC modules of their own. `Evidence` puts modules 4 to 7 together (what
answers are made from) and `ModelLoop` modules 8 to 12 (what becomes of answers); `MCEvidence` and
`MCLearning` give them small instances. The components of each share no state in the code either,
except through values that one hands to the other, which the receiving module takes as a
constant or chooses freely; so a behaviour of them is of one component (`part`).

`Collections` holds what these proofs need of numbers, finite sets, folds and orders, and
no model. `EvidenceProofs` and `LearningProofs` are each about several components of one run.

What is left: the compatibility check of comparisons and the audit chain are not modelled;
the prover takes no liveness.

## 3. The modules and the code

### 3.1 JobLane: `workbench/jobs.py`, `worker.main`, job endpoints

One job row is a number, in rowid order, so "the oldest queued row" is a minimum.
`status` is the column, `spec` what the frozen spec file says that control
depends on (role, comparison or session key), `proc` the worker process, and
`current`, `tick` what the scheduler thread holds in memory.

| Code | Actions |
|---|---|
| `Jobs.start`, process death, `Jobs.close` | `Start`, `Ready`, `Crash`, `BeginClose`, `CloseStop`, `FinishClose` |
| `Jobs.enqueue`, `server.create_comparison` | `EnqueueSingle`, `CreateBase`, `CreateCandidate` |
| `Jobs.stop` | `Stop`: `StopCurrent`, or `StopQueued` and then `SweepPartners` (or `SweepFault`) |
| `Jobs.tick`, reaping | `Reap`, then `Settle` (the partner is cancelled) |
| `Jobs.tick`, launching | `Launch`, then `MarkRunning`; `LaunchFail`, then `SweepPartners` (or `SweepFault`); `PickNothing` |
| an exception out of `tick`, `loop`'s handler | `TickFault`, `HandleFault`, `SweepHandled`, `LoopDies` |
| `worker.main` | `AcquireGpu` (blocking flock), `WorkerExits`, `WorkerDies` |

Each update of a row by `tick`, `stop` and `loop`'s handler is a transaction of its own,
and a step; so is the time between `Popen` and the update that says `running`. `stop` of a
queued job, a launch that fails and the handler each write the row that ended and then, in
`cancel_partners`, its partner: `sweeping` (for the handler, `tick = "handled"`) says that the
second is still to come. A crash or a store error (`SweepFault`, `LoopDies`) may fall
between, and leaves the partner in the queue. `MutexFree` says when another call that takes the
mutex may begin; the handler does not take it. Handlers that enqueue hold no mutex, so they fall
between any two of these steps. `Swept` is one step, since a comparison has at most one partner
to cancel. Writing `stopping` and the signals are one step: the mutex is held,
and a crash between them leaves, once `Start` has interrupted the row, what a crash before the stop leaves.

### 3.2 AskSession: questions and sessions on the lane

It extends `JobLane`: a session is a job of role `session` whose worker runs
`run_session`, and `SettleSession` replaces `Settle` for it.

| Code | Actions |
|---|---|
| `ask_question`, `confirm_plan`, `queue_item` | `AskQuestion`, `ConfirmPlan`, `PrepareRaises`, `Prepared`, `ReuseAnswer`, `AddItem`, `FindSession`, `SpawnSession` |
| `release_sessions` | `Release` (a file), or `StopSession` for a queued one |
| `run_session` | `SeeRelease`, `PickItem`, `SeeNothing`, `Yield`, `IdleOut`, `Sleep`, `TakeItem`, `SaveDraft`, `SaveAnswer`, `CompleteItem`, `FailItem`, `FailItsQuestion` |
| `tick` and `session_ended` | `ListItems`, `FailCut`, `CancelWaiting`, then `SettleSession` |
| `start`, items and questions | `AskStart`, `ListOpen`, `Interrupt`, `AskReady` |
| `fail_question`, called by either | `ReadQuestion`, `FailQuestion` |

Each store call of a handler or of the session loop is an action, so every
check-then-act pair of the code can be interrupted. What a case, a plan or an
answer contains is left out: a question is its status.

`session_ended` and `start` read their items once and then go through them; for each they
write the item, get its question and, if that is neither answered nor failed, write
`failed`. `settling` is where they are: what is left of their lists, and the question with the
status they read. Orphans, and during a tick the handlers too, move between any two
of these steps, so an answer written between the get and the update is overwritten.

Abstractions. Finding no active session and adding the next one are one step (`SettleSession`):
two sessions of one key occur all the same, when a handler has found none before and adds
its own after. Store errors inside a worker, inside `session_ended`
or `session_spec`, and launch failures other than those in `LaunchErrors` are not modelled.
The bounded sets `StopStates` and `LaunchErrors` say which user actions and
faults a run includes; the passing runs leave out those whose consequences are
findings (stopping a queued session) or listed under `hazards`.

### 3.3 ReviewApproval: `review_store.py`, `data_service.py`

A revision is a row; its `binding` stands for the keyed digest over plan,
compiled SQL, controls and snapshot hash, which is injective as far as the
service is concerned. `request` holds where each HTTP handler is: every
`review_store` call is one transaction and one action, and the hashing of the
snapshot file before, and again after the query is a separate read of `disk`.

| Code | Actions |
|---|---|
| `prepare`, `review_store.create` | `PrepareQuery`, `Create` |
| `decide_query`, `review_store.decide` | `ReviewQuery`, `Decide` |
| correction: `prepare` again, `validated_correction` | `PrepareCorrection`, `Create`, `RecordLineage` |
| `execute_query`, `review_store.consume` | `ExecuteQuery`, `Consume`, `RunQuery`, `ReturnRows` |
| every error path of a handler | `RequestFails` |
| replaced extract, restart with other controls | `ReplaceSnapshot`, `Restart` |

`RequestFails` may fire anywhere, so also where a call of the code would succeed;
this adds the crash of a handler at each point. Audit events and the row-by-row
`validate_result` are left out. `ReplaceSnapshot` never restores old contents: a
file swapped and swapped back around the query would pass both hashes, and
`docs/implementation-validation.md` puts it outside the operating contract
("requires an immutable analytical file").

### 3.4 AnswerMemory: `workbench/memory.py` and its users

One question text, asked by several questions; a context stands for everything
else that goes into a key. The memory is a sequence of records, and `Latest`,
`Newest`, `Rank` and `Lookup` are `latest` and `lookup` with the order a Python dict
gives them: an answer keeps the place of its first record.

| Code | Actions |
|---|---|
| `confirm_plan` | `ConfirmPlan`, `Prepared`, `ConsultMemory`, `ShowFound` |
| `complete_answer` in the session | `TakeItem`, `LookAgain`, `StoreAnswer`, `RememberAnswer`, `ShowAnswer`, `WorkerFails` |
| `verify_answer` ("Confirm correct") | `ConfirmCorrect` |
| a valid correction, "Still valid" | `Correct` or `StillValid`, then `RememberCopy`, `ShowCopy` |
| restart, a stopped session | `Restart`, `StopSession` |

That one worker at a time generates is not assumed out of thin air: it is what
`JobLane` is proved to provide (`ExclusiveUse`). `plan_ready` and `failed` are one
status here, `open`, since both may be confirmed and nothing else tells them
apart. Precedents (similar texts) and what changed between two contexts are left out.

### 3.5 SourceLedger: `workbench/sources.py` and questions at a watermark

A file is the set of its rows; a row has a grain (obligor, month), dates, whether
its values are declared, and the form its observation date is written in: `validate`
takes whatever casts to a date, so also a TIMESTAMP (`written` is not "date"), and `append` casts when
it inserts. Duplicates are looked for among the values as written (`WrittenGrain`), and
`_restated` compares the text of these with the text of what is stored (`TextOf`); `Grain`
is what the database has. So two rows of one file may become two rows of one grain and one load,
and `ROW_NUMBER` then keeps either: `Results` is the set of results a query may give.
`ledger` is `source_loads`; the hash chain is the sequence of what was hashed. `reading` says
where each request thread is.

| Code | Actions |
|---|---|
| `stage` | `Stage` |
| `initialize` (temporary file, then rename) | `Initialize`, `MoveIntoPlace` |
| `append` under `source.lock` | `AppendFile`, `Validate` (`Validated`, `Restated`), `Commit` (one transaction) |
| `ask_question`, `GuardedQueryCompiler.compile` with a snapshot, `validate_result` | `AskAt`, `AnswerQuestion` (`Resolve`, `Acceptable`), `Forget` |
| errors, a reader that meets a writer, death of the dashboard | `LedgerFails`, `LedgerCrash` |

`LatestRow` is chosen among the rows that pass the predicates, as the compiler's
`QUALIFY` does. A seed is not validated, so it may hold rows that a question then
refuses, or two of one grain. The failure of a request is a step that is always possible; its reasons are the
guards of the others, and errors of the database.

### 3.6 PolicyLibrary: `workbench/documents.py`, `rag/`

A version is one registration and one chunk; its scores are given.

| Code | Actions and operators |
|---|---|
| `stage`, `register` and its failures | `Upload`, `Register`, `KeepFile`, `AddDocument`, `RegisterFails` |
| `effective_windows`, `visible_documents` | `LastDay`, `VisibleDocuments`, `Pinned` |
| `chunk_is_visible`, `build_predicate`; `to_payload`, `build_qdrant_filter` | `VisibleTo`; `Payload`, `QdrantMatches` |
| `search_dense`, `search_lexical`, `reciprocal_rank_fusion`, selection | `Arm`, `Fused`, `Selected`, `Retrieved` |
| the index job | `QueueIndex`, `StartIndex`, `IndexOne`, `EndIndex` |
| `prepare`, `complete_answer`, as far as documents are concerned | `PrepareQuestion`, `CompleteAnswer`, `LeaveQuestion` |

`complete_answer` retrieves among all documents registered by then, not among those
the question pinned; so does `CompleteAnswer`. A sort is `Ordered`: its
n-th element is the one with n - 1 others above it. Fused ranks are compared as fractions.

### 3.7 PortfolioQuery: `query_guard.py`, `factsheet.py`, `calculations.py`

A plan and a row have one field of each kind that a rule tells apart. `StoreRow` is
an arriving row, `Fetch` is an approved plan that is compiled, run, checked and made
into a factsheet or a cohort: `Outcome` is this pure function, written as the cases of
the code in their order (`WellStated`, `Compiles`, `Matches`, `LargeEnough`,
`RowsAreValid`, `GroupsAreValid`, `Factsheet`). Decimals are integers.

### 3.8 ReleaseControl: `api.py`, `guardrails.py`, `risk_tiers.py`, `feedback.py`, `dataset.py`

| Code | Actions and operators |
|---|---|
| `analyse`: `evaluate_rules`, abstention, the model, `validate_output`, `gate` | `Analyse` (`EvaluateRules`, `OutputFailures`, `Control`) |
| `analysis_feedback`, `is_admissible_training_target` | `AnalysisFeedback` (`Admissible`) |
| `build_training_batch`, `main`, `build_dataset` | `ExportDataset` (`TrainingBatch`, `Example`, `Frozen`, `SplitOf`, `Gold`) |

A text is a sequence of fragments and full stops (`Stop`). `supported_text` looks for a whole
sentence (`Sentences`) in the sources it is given, which `validate_output` joins first
(`Joined`), so a sentence may begin in one passage and end in the next. Each claim is looked for
in what it cites; the summary, the recommendation, the rest of the narrative and the text and basis of
each inference in all sources (`Narrative`). `classify` looks for phrases in one text of all
fields (`Body`, `Says`), where a phrase may run from one field into the next, and which the bases are not
part of. The typed details (conclusions, driver, recommendation and missing-information
details) are released with the answer: what they cite is checked (`Cited`), their words (`details`) are
read by nobody, in the code as in the model. Exports
follow each other with the gold groups of the earlier manifest as exclusions, which is how
`dataset.py` asks to be called. The model's failure to answer records nothing and is
left out. Cohort plans and refused questions never get to an analysis here.

### 3.9 CheckpointSelection: `training.py`, `worker.prepare_training`, `attach_checkpoint`

Weights are named by the iteration they come from and stand for their hash as well.

| Code | Actions |
|---|---|
| `execute_training`, `on_val_loss_report` | `StartTraining`, `ValidateDuring`, `TrainToTheEnd`, `ValidateFinal` (`Report`: `Baseline`, `Better`, `Worse`) |
| its `except` and `finally` | `TrainingFails`, `SaveFinal`, `Complete`, `SaveFails`, `KillTraining` |
| `attach_checkpoint`, with a copy that takes time | `Attach`, `BeginCopy`, `EndCopy`, `VerifyCopy`, `DashboardCrash` |
| loading in the worker; `fuse` | `LoadAdapter`; `Fuse` |

The trainer of `mlx_lm` is not in the repository: that it reports validations in
order, the first one before training, is how `training.py` uses it.

### 3.10 LearningLoop: `workbench/feedback.py`, `learning.py`, `contracts.py`, `server.register`

| Code | Actions and operators |
|---|---|
| `submit` | `SubmitFeedback` (`Eligible`) |
| `build_dataset`: `batch_records`, paraphrases, the cap, `mkdir`, writing and clean-up | `Collect` (`BatchRecords`, `FeedbackCases`), `MakeDirectory`, `WriteVersion` |
| `inspect_dataset`, then the comparison with the store; `store.add` | `CheckDataset` (`Inspected`, `Clashes`), `AddDataset` |
| death of the dashboard | `LearningCrash` |

What makes a correction valid against its schema is given with the correction.

### 3.11 CandidateGates: `workbench/evaluation.py`, `learning.consistency_gates`

| Code | Actions and operators |
|---|---|
| `create_comparison`, replay and regression requests | `StartComparison`, `StartReplay`, `StartRegression` |
| the lane and what its jobs leave | `RunJob` |
| `evaluate`'s agreement metrics, the three gates | `AgreementGate`, `ReplayGate`, `RegressionGate`, `ConsistencyGates` |
| verifying answers, feedback with a development check | `Verify`, `Submit`, `SubmitAgain` |

Decoding is deterministic in the seed, so a behaviour of all models is chosen once
and jobs read it. A failing base takes its candidate along, as `JobLane` has it.

### 3.12 ReleaseDecision: `evaluation/`

`Predict` adds one answer of the candidate; `Decide` scores what there is, at any time,
so also with cases unanswered. The rest are operators: `Score` by metric, `GroupScore`
(the worst case of a group), slices, `GatesPass`, `Eligibility`, `Promotable`.
`Convincing` stands for the Wilson and Hoeffding bounds. An answer is what each of its facts
cites, what else it cites, whether it has a summary, drivers or conclusions (`HasAnswer`), and the labels
a judge gives its statements. A case that does not call for declining expects a status of its own
(`expected_status`). Unsupported are facts that cite nothing, statements the judge calls
unsupported, citations of anything but the case's evidence and an output that is no answer (`Unsupported`);
a judge that is uncertain, or fails, only lowers a rate, and what an answer says outside its facts and
under no judge is not counted.

### 3.13 ExclusiveLane, ApprovalTicket

What the first and the third component promise, with none of their machinery.
`JobLane!Lane` maps the processes holding `gpu.lock` to `inside` and those with an
exit code to `done`; `ReviewApproval!Approval` maps the status column to `right`.
The refinements are what rule out a second worker for a job after a crash between
`Popen` and its row, and a second set of rows for one approval.

## 4. What is checked

| Run | Question | States | Result |
|---|---|---|---|
| `lane_safety` | Does the lane stay exclusive, ordered and honest through crashes, orphans, stops and store errors? | 2.45 million | holds |
| `lane_progress` | Does every queued and every running job move on? | 135 thousand | holds |
| `stopped_candidate` | Does stopping the candidate stop the base? | | violated |
| `ask_safety` | Is an item ever stranded, a question left hanging, an answer taken back? | 1.01 million | holds |
| `ask_progress` | Is each question served, and does each job get its turn beside idle sessions? | 18 thousand | holds |
| `stop_queued_session` | Does a stopped session take its waiting items with it? | | violated |
| `orphan_session` | Does an interrupted item stay interrupted? | | violated |
| `confirmed_answer` | Does a confirmed answer come back? | | violated |
| `review_safety` | Is an approval used once, for what was approved? | 1.05 million | holds |
| `evidence_safety` | Can an answer be replayed, is it independent of what came later, of one version of each document, no small group, and the same when asked again? | 0.69 million | holds |
| `learning_safety` | Is what is released grounded, what is held out kept out of training, the best checkpoint the best and the one that runs, and a promotion proven? | 0.33 million | holds |
| `regression_gate` | Does the regression gate speak of the candidate? | | violated |

Each property of a passing run has a mutant of the code it is about (`PROJECT.json`,
`mutants`): an alternative definition in the module, marked "Mutant", with which
TLC finds the property violated.

### 4.1 The disagreements

* `stopped_candidate`. The architecture document says a stopped side cancels the
  other; `cancel_partners` only cancels a queued one, so a running base goes on.
* `stop_queued_session`. `session_ended` is only called from `tick`. A session
  stopped, or released, before it was launched leaves its items queued with no
  session, until a later question of the same model happens to start one.
* `orphan_session`. A session that survived its dashboard goes on taking items,
  also those the new dashboard has told the user were interrupted, since
  `run_session` writes without checking what the item is now.

* `confirmed_answer`. `latest` orders answers by their first record. When an answer
  was corrected and a reviewer then confirms the original, the correction, first
  remembered later, is still what `lookup` returns, while the reply to the confirmation says
  that identical questions now return the confirmed answer.
* `regression_gate`. A training run has two checkpoints. The regression gate takes the last
  regression run of the training job, of whichever checkpoint, while the replay gate
  above it compares the checkpoint's hash. A checkpoint may so be vouched for by the other
  one's checks.

Cases where code and text differ, or where a guarantee has a hole, and no run claims
otherwise:

* `create_comparison` makes two unlocked `enqueue` calls. If the base is stopped between
  them the candidate runs alone; `CandidateNeedsBase` excepts exactly that (`late`).
* `server.register` inspects, compares and stores in separate calls: two registrations
  at once can put a group in one's training and the other's test set. With a second
  `Registrars` element TLC shows it; the theorem says what one at a time gives.
  `documents.register` has the same window for the date of a version: with two
  `Registrars` an answer may cite two versions, and `OneVersionCited` is checked with one.
* `risk_tiers.py` says a recommendation always needs a named human; only the text
  field is looked at (by `validate_output` and `classify`), `recommendation_detail` is not, as the words of
  no typed detail are. The basis of an inference must be a sentence of the sources, but no phrase is looked
  for in it.
* `feedback.main` makes its payloads without the rule evaluations, so an example is
  validated and trained as an answer without them (`Example`).
* `build_training_batch` speaks of two reviewers correcting one answer; `api.py` answers
  anyone but the reviewer who was served with 403.
* `sources.py` promises a unique grain within the file, and `source_loads` shows a count of restated
  rows. A file whose dates are TIMESTAMPs is told apart by its times when duplicates are looked
  for, and by "2024-01-31 00:00:00" against "2024-01-31" when restated rows are counted; both are
  gone once the rows are cast into the table. `LedgerIsTruthful` claims uniqueness and an exact count
  of files that write dates as dates, an upper bound of the others; `ReplayIsExact` says that a
  replay can give the same rows, and no others when no load has two rows of one grain.
* `stop`, a failed launch and `loop`'s handler write a row and its partner in two transactions. After a store
  error between them the partner runs or waits alone; after a crash there `start` interrupts it. That is why
  the properties of comparisons hold up to the first store error only.
* `fail_question` gets a question and updates it in two transactions: an answer that
  arrives between (a confirmation that reuses one, an orphan) is replaced by "failed". `AnsweredStays` excepts
  exactly that (`ReadEarlier`).
* The gates of `evaluation/` read facts and citations: an answer whose content is in its summary, drivers or
  conclusions, and which no judge was asked about, has nothing unsupported.
* A row that a restatement moves to another portfolio stays in the old one's answers: the
  latest load is chosen after all predicates, not only the point-in-time ones.
* A question is answered from the documents of the moment, not those it pinned.
* `build_dataset` caps the feedback of one build; versions built on versions add up.
  Its "latest feedback first" is by an answer's first feedback.
* The regression run of the base may be of any base model; the replay gate says nothing
  of answers verified after the replay.
* A dashboard that dies while `attach_checkpoint` copies leaves a partial file, which every later
  attempt refuses (safe, and for good: `RunsWhatWasNamed` holds, progress does not).

### 4.2 Bounds, and why they are enough

* `lane_safety`: three jobs hold a comparison with a single job before, between or
  after its sides, or two comparisons of which one lacks its candidate; two
  starts give one generation of orphans beside a new lane; two faults let a tick and its handler both
  fail, a tick and a stop, or two ticks.
* `lane_progress`: the same without store errors, because the code promises no
  progress after one: a second error ends the scheduler thread.
* `ask_safety`: two handlers race for one question and each other's session; two
  items, and two jobs for a session and what follows it: a successor beside a released,
  stopped or lost session, or a new one beside an orphan. One release and one kill, which may
  hit the same session. The draft and the answer use one model, so that all items meet. The
  theorems of §5 state the same properties for any number of jobs, items and questions.
* `ask_progress`: two models, hence two sessions that must alternate on the lane,
  and a single job between them. Five jobs: two sessions, a respawn of each and the single one.
* `review_safety`: three revisions are what two successors of one revision take; two
  handlers race; the snapshot changes. One reviewer, plan and controls: that the
  wrong owner, plan or controls is refused is covered by the proof, for all
  values, and not by this run.
* `evidence_safety`, ledger: a seed and five files, one that restates and adds, one that
  arrives with a later cutoff, one that moves a row to another portfolio, one from the
  future, and one that has a month twice, as two timestamps; three loads, two threads that
  write, read or die; plans with and without model outputs, before and after the restatement.
* Library: two versions of a document that start on different dates, a third that takes
  the place of the second, and another document that supersedes the first; analysts and an
  officer, with and without a portfolio, on three dates. Limits of three candidates and two passages are
  met. One registration and one question at a time, since what they meet is each other.
* Query: six rows in any order, with missing, zero and out-of-range values, a facility and three
  obligors; fourteen plans, each of which reaches a different rule; a cohort of two.
* Memory: three answers and records are what it takes for an unstable answer, its
  correction and another generation, or two contexts and a "Still valid". Two waiting items
  make the second lookup matter; a restart beside an orphan lets one question
  wait twice. One handler runs beside the worker; handlers against each other
  are the matter of `ask_safety`.
* `learning_safety`, release: two answers, feedbacks and exports; two cutoffs and two
  lineages, of which one joins the obligors in a group; a rule whose evidence may not be
  retrieved; outputs that quote, that paraphrase with a derivation, that name a rule and
  quote a sentence which spans two passages (with an inference whose basis is material, and a
  free detail), or that have a material phrase across two fields.
* Training: four iterations in two updates, patience 2, min_delta 1 and three losses: every
  tie and boundary, an early stop, and a final validation that wins or loses; two
  attachers, one of which meets the other's copy, and one job.
* Datasets: three curated ones that share groups with each other and with feedback; three answers,
  two of one case, one with a paraphrase; a cap of two cases; two builders that race for
  two versions. One registration at a time (4.1).
* Gates: nine cases, three of each split, with families and controls; models that answer
  well, waver or blur; a queue of two jobs. Decision: gold sets with and without attacks, two
  groups of each portfolio; a case that expects an escalation; answers that cite nothing, cite
  something else or are refuted, and one that declines and of which the judge is uncertain;
  bundles with a leak, an unqualified judge, no judge and the wrong report.

All runs but `review_safety` turn deadlock checking off since their supplies of rows,
starts, loads or versions run out; the review never stops, as a request can always begin or fail.
Symmetry is used where the names of threads, contexts, comparisons, snapshots and controls
do not matter, and never with liveness.

### 4.3 Fairness

Weakly fair are: the scheduler thread, which polls every 0.3 s for as long as the
dashboard is up; a shutdown, a comparison request or an Ask handler that has begun (plain
function calls that return); a worker that can take the lock, exit or die, since
model jobs and items are finite computations. Never forced are the user, crashes,
restarts, store errors, kills and launch failures. The 600 s after which an idle
session leaves are an action (`IdleOut`) that competes with sleeping again, so
`LaneIsShared` rests on `Yield` alone: a session must notice a waiting job by
itself.

## 5. What is proved

Every safety and action property that a passing run checks is a theorem, of the specification
that the run explores. All theorems hold for every value of the constants under the modules'
assumptions, which TLC evaluates in the runs:

* bounds, budgets, dates and thresholds are numbers, scores integers, and `None` (`Vacant`, `NoWeights`,
  `Absent`, ...) is none of the other values;
* what is given is finite: files, the rows that may arrive, cases, verified answers, request threads
  (the server's thread pool is bounded), what an answer to a gold case states, cites and is labelled;
* paraphrases are made by `build_dataset` alone: no curated case and no question asked
  has a paraphrase's number (`AsAsked`);
* a lineage, where an obligor has one, has a split, and the stable split is one of the
  three (`ReleaseAssumption`; `dataset.py` hashes every group to one of them);
* the thresholds that allow no exception are those of `consistency_gates.yaml`
  and `evaluation_thresholds.yaml` (`GatesAssumption`, `DecisionAssumption`).

Some theorems have a hypothesis of their own. `TrainedNeverProtectedHolds` and those of the
library's invariant (`OneAtATime`), hence `EvidenceInvHolds`, `EvidenceGuarantees` and
`LoopGuarantees`, need one registration at a time, since `server.register`
and `documents.register` check and store in separate steps (4.1). `NoStranded` needs that no
session is stopped before its launch nor fails to launch: the run `stop_queued_session`
shows the first to be necessary, and the hazard at `jobs.py:121` is the second.

**JobLaneProofs.** `LaneInv` is inductive (`InitInv`, `StepInv`, one step per
action). `OneActiveJob` and `CompletedMeansExitZero` are conjuncts of it and are not inductive alone:
reaping a job is only right because a current job has a process, and in the middle of a tick
an exit code (`TickShape`); launching only because a queued row has no process
(`QueuedNotLaunched`), except in the window between `Popen` and the update, and in
what a crash leaves of it until `Start` interrupts the row. `OneHolder` with these gives the
refinement of `ExclusiveLane` (`ExclusiveUseHolds`): each action is mapped to
`Enter`, `Leave`, `Forgo` or a stutter. `LaunchOrder` proves the action property
from the same invariant (`OrderStep`).

`CandidateNeedsBase` and `OutcomeIsFinal` need `PairInv`. The rows of a comparison are a base and
a later candidate (`PairRows`). As long as no tick was cut short by a store error, a current
job between two ticks runs or is being stopped (`CleanTick`), so no ended row is ended again; and a
base that ended otherwise than by completing has no queued candidate, but for the moment before the
call that ended it cancels it (`PartnersSwept`). Both are conditional on `faults = 0`, as the properties
are, since a store error may come between the two updates.

`BaseWaitsFirstHolds` says how far the sentence that `stopped_candidate` refutes does hold: up to the first
store error and while a dashboard is up, a base in the queue does not wait without its candidate, but for the
time between the two updates of the `stop` that ended the candidate (`sweeping = c`). That `stop` holds the
mutex, so no tick launches the base before it is cancelled; if the dashboard dies there, `Start` interrupts
the base. A sweep for another row takes both or none (`SweepTakesBoth`), and a candidate is never launched
before its base. The hypothesis is needed: TLC finds a base alone after one store error.

**AskSessionProofs.** `AskInv` stands on the lane's: a step of a session or of a request is a step
of the lane, or adds a row to it, or leaves it alone (`AskLaneStep`), so `LaneInv` carries
over without being proved again. On top of it: rows of a session key are sessions, and a living worker
belongs to an active or an interrupted row (`SessionRows`); a session works on an item it took
(`SessionShape`); a question is drafted once (`QuestionShape`), and a draft that is late belongs to
an orphan (`DraftsInTime`). `NoHungQuestion` is not inductive, since it is satisfied by a request or
an item that is about to end: `QuestionsCarried` says which carrier a question has, without those.
A question whose item `session_ended` or `start` has settled is about to be failed (`FailsNext`):
`SettleShape` and `StartShape` say what these two work on, and that a queued item stays in their list
until it is settled.
`ServedInOrder` follows from what a session has picked, since one worker holds the lock;
`AnsweredStays` from the cases of who may write a question, of which a `fail_question` that read it before it was
answered is one (`ReadEarlier`). `NoStrandedItem` is carried by whoever watches a key: an active session, a
request between its item and its session, or the tick that has reaped one and has the item in its list, or
has no list yet (`SessionWatches`, `RequestWatches`, `TickWatches`).
`RevivedByOrphanHolds` bounds what `orphan_session` shows: only a session whose own row was
interrupted, and that held the item when `start` interrupted it, writes to it again
(`OnlyOrphansLag`); a session of the new dashboard never does.

What the lane promises without sessions it also promises with them. `SpawnSession`, `SettleSession`
and `LoseSession` are the only steps of Ask that are not steps of `JobLane` (`LaneOrNew`), and only the last
changes a process, which leaves the lane or never enters it (`LossRefines`). So `AskSpec`
implements `ExclusiveLane` too (`AskExclusive`), launches in order (`AskLaunchOrder`) and keeps the
outcomes it has shown (`AskOutcomesAreFinal`).

**ReviewApprovalProofs.** `ApprovalInv` is inductive. `RowsAsApproved` needs
`SpendingAlone` (whoever has consumed an approval is alone with it and the row
still says what it was compared with) and `RowsOfSnapshot` (if the rows read are not of the
hashed snapshot then the file is not that snapshot now, since contents do not come
back). `OneSuccessor` and `FeedbackBacked` need `CorrectingAlone`: a handler
between its three transactions is the only corrector of its revision, which is
rejected already and has no successor until it creates one. `TicketHolds` is the
refinement: every action moves at most one ticket, as `ApprovalTicket` allows.

**SourceLedgerProofs.** `ReplayIsExact` and `LedgerIsTruthful` are proved with `LedgerInv`:
writers hold the lock (`WritersHoldLock`), so what `append` validated and counted
is still so when it commits (`FoundStillHolds`); every row belongs to a load the
ledger has (`LoadsAreNumbered`), so rows that are added belong to later loads than any
question has pinned (`QuestionsArePinned`), and what a watermark shows, with the set of results a query may
give (`Results`), stays as it is. The count of restated rows is of texts: each of them that is found names
another stored grain, and for a file that writes dates as dates each stored grain has one (`RestatedCounts`).

**EvidenceProofs**, by component and then together.

* Queries. What a plan returns is a function of the rows that match it
  (`OutcomeOfMatching`), and a row from after its date does not match
  (`LaterIsFiltered`); so `HindsightIsInvisible`. A group that passes the cohort rule has
  at least `MinimumCohort` obligors, and a finite set has subsets of each smaller size
  (`SubsetOfSize`); so `CohortFloor`, for any threshold. A sheet has between one and `MaximumRows`
  rows (`OutcomeFits`), which with the rest of the types is `QueryTypesHold`.
* Memory. `MemoryInv` is inductive: a record is of a stored answer in its context (`RecordsFit`), and a worker
  past its second lookup has found nothing to return, which stays so because it alone remembers generated
  answers (`WorkerFits`); so `SameAnswerAgain`. That a lookup returns the last correction
  (`CorrectionIsReturned`) is a matter of what `Latest`, `Newest` and `Rank` select: the last
  record of each answer, and among answers the order of their first ones (`RankIsFirst`, `LookupFinds`).
* Library. `LibraryInv` is inductive when registrations come one at a time: registered versions have
  different keys and dates, and a request has checked its own against all there are (`RegistrationKeeps`).
  A window ends before each successor starts (`WindowEnds`), so an asker sees one version of a
  document (`OneInForce`), so a question pins one. That it is also answered with one
  (`OneVersionCited`) needs that retrieval finds nothing else: weights are fractions with positive
  denominators and are compared transitively (`FractionsCompare`), so fusion is an order of what the arms
  name (`OutweighsOrders`) and lists it (`FusedKeeps`); the selection is a fold that only appends
  candidates (`SelectedKeeps`). The types of the library (`LibraryTypesHold`) hold for concurrent
  registrations as well: each registered version has its file, since the row is added last, and what is left to
  index is a subsequence of the documents (`PendingKeeps`).
* Both backends. `BackendsAgree` needs no more than that registered versions are versions, so it holds
  for concurrent registrations too.
* Together. A behaviour of `Evidence` is one of each component, three of which stand still
  (`EvidenceParts`), so `EvidenceInvHolds` and `EvidenceGuarantees` are the run's properties for all values.

**LearningProofs**, by component and then together.

* Release. `ReleasedIsGrounded` follows for the one record that `Analyse` adds: what the output check
  lets through is in its sources (`CheckedIsSourced`) and agrees with the rules (`CheckedAgrees`), and what
  is released without a reviewer has no phrase for one in its body (`ReleasedIsLow`). `GoldStaysOut` needs `GoldInv`: gold
  groups include the test groups of each dataset and only grow, and no dataset has a
  case of an earlier one's gold groups; a split is a matter of the whole group (`FrozenWhole`).
  `ReleaseTypesHold` needs that each example has a split of the three, for whatever lineage it has
  (`SplitsAreNamed`).
* Datasets. `BuildInv`: who writes a version made its directory and is the only one to
  write it, so a written version is left alone. `RegisterInv`: the dataset under
  registration clashes with none of the store, nor with itself since inspection keeps groups whole.
  `FeedbackShare` needs `FeedbackInv`, whose core is what a build may add (`Additions`): finitely many
  training cases, no more than the room there is, none that the base has, and no paraphrase without its
  question. Adding a correction's cases keeps to that (`ExtendedFits`), hence so does the fold over all
  of them (`FeedbackFits`), and the room is exactly the share of what the training cases become
  (`RoomIsShare`).
* Gates. `GatesTypeOK` says what a queued job is and that a base is never the last of the queue. A
  rate that must be 100 % of what was asked is met by each case of it (`AllReached`); so `GatesVouch`.
* Decision. Sums over finite sets are defined by `CHOOSE`; that they exist, and reach the
  number of cases only when each contributes one (`SumsExist`, `SumBounds`, `PassedOnAll`), turns the
  thresholds into statements about every case; that nothing unsupported is counted in one says that its facts
  all cite, and cite its evidence, and that no label refutes it (`UnsupportedCounts`). That is `PromotedIsProven`.
* Together. As for `Evidence`: `LoopParts`, then `LoopTypesHold` and `LoopGuarantees`.

**CheckpointSelectionProofs.** `CheckpointInv` is inductive: where the run is says what
it validated and saved (`TrainingShape`), a successful manifest was written last and
names both files (`ManifestIsLast`), as long as nothing failed the loss to beat
is that of the saved best or the baseline's, and no recorded loss beats it by more
than `MinDelta` (`BestSoFar`), and whoever attaches or exports has the hash of a saved
checkpoint (`TakersAreServed`). `BestIsBest` and `RunsWhatWasNamed` follow. `TrainingTypesHold`
says besides that nothing is copied from a run that did not end well.

**Collections.** The library's induction theorems take the predicate as a parameter, which the
provers cannot instantiate. Here induction is about one set: a set of naturals has a least
element (`LeastOf`, from the well-foundedness of the order), so a set with 0 and with each successor is
all of them (`AllNumbers`). From this come the greatest of a bounded set, folds over a sequence that exist and
stay among the values that their steps stay among (`FoldExists`, `FoldHolds`), and the elements of a finite
ordered set, one for each place (`OrderedLists`). `SortSeq`, which the
prover knows nothing of, is why `PolicyLibrary` has `Ordered`.

`PairInv` (with `LaneInv`), `AskInv`, `ApprovalInv`, `MemoryInv`, `LibraryInv`, `DatasetsFit` and the types are
checked by TLC as invariants of the runs as well, alone or within `EvidenceInv` and `LoopTypeOK`.

Only model-checked are:

* liveness, which needs reasoning under fairness that is beyond the prover: `QueuedMovesOn`,
  `RunningSettles`, `QuestionResolves`, `LaneIsShared`;
* the disagreements of 4.1, each a counterexample.

## 6. What is not modelled

* The parts marked not modelled in `PROJECT.json`: configuration, authentication, the
  model client and prompts (no state of their own); fixtures and command lines; the
  corporate rating project and the handover baseline, which are separate programs; the
  front end and the surrounding template files.
* Computation: what a model answers, embeddings, BM25 and other scores, confidence
  bounds, the judge's calls, exact decimals. A value or an operator stands for each.
* Reports that decide nothing: coverage, taxonomy, diversity beyond the family cap,
  the compatibility report of a comparison, calibration.
* In the modelled parts: what prompts, SQL and answers say; logging, audit events,
  progress rows; file formats of specs and results; time, except as the order of
  steps and as-of dates; a database restored from an older copy; files edited by hand;
  operating-system limits.
* An endless respawn of a session that dies at once: job rows are bounded (`hazards`).
