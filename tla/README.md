# A TLA+ model of Lunar-Agent

Lunar-Agent (`src/src/lunar_evolution`, Python) is a local agent: it breaks a goal into a plan of
tasks, runs them with a language model and confined tools, verifies what they produce, delegates
work to other local agents, evolves candidate programs and delivers the outputs of the best one.
Everything that must survive a process is in one SQLite ledger (`store.py`) and in files whose order
of writes and syncs is part of the protocol.  Several processes work on the same ledger and the same
directories: nothing keeps a second `resume`, a detached child or a second worker service out, and
any of them may be killed.

This directory holds the specifications of the parts where that is hard, the TLC configurations
that check them on small instances, and the theorems that hold for every instance.

## 1. Inventory

| part | state | operations | what makes it hard |
|---|---|---|---|
| run ledger (`store.py`, `models.py`) | runs, tasks, attempts, questions, plan revisions, artifacts, events, memory, workers, bindings | one SQLite transaction per method | some methods SELECT in autocommit mode and UPDATE later; guards are in the WHERE clauses |
| task scheduler (`controller.py` `resume`, `_execute_task`, `cancel`, `answer`; `budget.py`) | main thread of each controller, its pool of jobs, budgets | recover, promote, claim, run, evaluate, promote outputs, finish, settle; cancel, answer, replan | several controllers on one run, late results, crashes, budgets, questions |
| worker service (`workers.py`, `worker_ownership.py`, `process_ownership.py`, `agents.py`) | worker tree, attempts, owner locks, process rows, envelopes, inputs | dispatch, send, cancel, resume, reconcile, close, attempt threads | locks that die with their process, agents that outlive it, cancellation of trees |
| foreground delegation (`controller.py` `run_agent`, `run_worker_agent`) | worker bindings, delivery lock and lease | bind, deliver, recover, complete | two ledgers of truth (run and worker) settled apart; stale leases |
| automatic solve (`automatic_solve_*.py`, `solve_bundle.py`, `cli.py` `_solve`, `_answer`) | parent and child run, runner registration, workspace lock, gate | intake, prepare, evolve, deliver, cancel, time out | a lock inherited by a child process, launchers that die, cancellation while work starts |
| search run (`controller.py` `run_evolution`, `cli.py` `_evolve`) | contract, rows of candidates and files, events | create, claim, index, record, finish, resume | files and rows written by separate steps |
| evolution strategies (`evolution.py`, `agent_evolution.py`, ...) | archive, outcome journal, receipts, state, population | seed, generate, evaluate, select, migrate, resume | resume from files cut anywhere |
| candidate execution (`candidate_*.py`, `bundle_evolution.py`) | workspace, process group, execution records, evaluation tree | stage, run, observe, evaluate, archive, clean up | candidates fork, hang and write while they are judged |
| evaluator (`evaluator_bundle.py`, `evaluator.py`, `algorithm.py`) | staged and frozen bundle, scoring directory | compile, probe, audit, freeze, score | the evaluator is a program that runs while it is checked |
| materialization (`materialization_*.py`, `bundle_*delivery.py`) | launch intent, evidence, journals, attestation, result | launch, attest, deliver, publish, recover | a candidate is launched at most once over separate durable steps |
| output publication (`output_publication.py`) | batch directory, staged files, journal, links, rollback mark, ledger event | publish, recover, reconcile | all or nothing over several directory entries; power loss, files of others |
| producer bundles and handoffs (`producer_*.py`, `*_handoff.py`) | exports, staged batches, marker, receipts | export, admit, stage, commit, recover | the producer goes on writing; a search appends meanwhile |
| staged workflow, agent loop, transport (`staged_workflow.py`, `workflow_checkpoint.py`, `agent_loop.py`, `transcript.py`, `http_transport.py`) | stage, checkpoints, usage, transcript, request process | plan, build, checkpoint, resume; turns and tools | a kill after a turn was paid for; requests whose owner died |
| effect trials (`effect_trial.py`, `deep_effect_trial.py`, `effect_adapters.py`) | records, their backups, the state that registers them | run a subject and a harness, register, resume | processes that outlive a killed trial |
| policy, routing, profiles, recovery advice | none | pure functions and reads | boundaries of formats |
| command line, host session, benchmarks, audits | configuration, reports | sequential and file based | little |

How they interact: the command line builds a controller and calls `resume`, `_solve` or `_evolve`;
the controller claims tasks in the ledger and runs jobs in threads; a job calls a runtime, which may
call tools, which may dispatch workers; a worker service starts agents as processes and records them
in the ledger; a solve has an evolution child, a run of its own, whose search executes and scores
candidates, whose selected candidate is materialized and whose outputs are published into the
workspace of its parent.  The shared state is the ledger and the file system; the messages are rows
and files; the locks are SQLite's and `flock`.

What correctness means, part by part:

* scheduler: a task runs after its dependencies and succeeds only through a verified attempt of its
  own; budgets, cancellation and completed work are final; a question waits for its answer; a run
  that is resumed is ended and stays ended, unless a spent budget holds a task that a crash left
  `uncertain`; deliverables are the indexed ones;
* workers: no attempt of a live service is declared lost; an agent process that may be alive is never
  forgotten; a cancelled tree stays stopped; a message is consumed once; attempts end;
* delegation: one observer at a time delivers a worker's result; a committed delivery keeps its
  evidence and a refused one leaves none; a binding is eventually decided;
* publication: a committed batch is complete on disk, a rolled back one leaves nothing, files of
  others are left alone, a batch is decided once, and eventually;
* search: resuming accepts what the program itself wrote, repeats no attempt and loses no elite;
  a run that succeeded has its evidence in the ledger;
* candidates and evaluators: what is archived is what ran and was scored, by the evaluator that was
  audited; nothing of the candidate is running when its success is recorded; calls end;
* solve and delivery: one coordinator at a time, no step skipped, one launch of the final candidate,
  committed outputs are reported, nobody waits for ever at a gate;
* handoffs, bundles, trials, checkpoints: what a successor finds is whole and is what it says it is.

`PROJECT.json` lists the hazards line by line with the properties that would catch them.

## 2. Modules

| module | models | kind |
|---|---|---|
| `Store` | the run, task, attempt, question, plan and artifact tables: one operator per transaction | operators over the ledger variables |
| `Scheduler` | `LocalController` processes over `Store` | state machine |
| `RunContract` | what a run promises its owner | abstract specification |
| `StoreProofs` | lemmas about the ledger operations, shared by the next and `DelegateProofs` | proofs |
| `SchedulerProofs` | theorems about `Scheduler` | proofs |
| `Workers` | `WorkerService` processes, attempt threads, agent processes, the worker tables | state machine |
| `Delegate` | `run_worker_agent` and `cancel` of several controllers over `Store`, for one task | state machine |
| `OutputPublication` | publishers and recoverers of one batch | state machine |
| `Publication` | what the publication of a batch promises | abstract specification |
| `OutputPublicationProofs` | theorems about `OutputPublication` | proofs |
| `WorkersProofs` | theorems about `Workers` | proofs |
| `DelegateProofs` | theorems about `Delegate` | proofs |
| `SearchProofs` | theorems about `Candidates`, `Evaluators` and `Evolution` | proofs |
| `ServicesProofs` | theorems about `Materialization`, `AutomaticSolve` and `Sessions` | proofs |
| `JournalsProofs` | theorems about `EvolutionRun`, `Handoff`, `EffectTrial` and `BundlePublication` | proofs |
| `Materialization` | callers that run and deliver the selected candidate | state machine |
| `Evolution` | the population strategy over its durable files | state machine |
| `EvolutionRun` | `_evolve` and `run_evolution` around the strategy | state machine |
| `Candidates` | the multi-file candidate pipeline and the candidate's processes | state machine |
| `Evaluators` | compiling, freezing and scoring with an evaluator bundle | state machine |
| `Handoff` | exporters, a producer that goes on writing, admission of seeds | state machine |
| `BundlePublication` | publishers of producer bundles beside a search | state machine |
| `AutomaticSolve` | callers, detached workers and cancellation of one solve | state machine |
| `Sessions` | agent loop, transport process, staged workflow and checkpoints | state machine |
| `EffectTrial` | normal and deep effect trials | state machine |
| `MCScheduler`, `MCDelegate`, `MCOutputPublication`, `MCEvolution` | plans, trees, sources of the small instances | for TLC |
| `MCWorkerCases` | small cases of `Workers`: which outside events occur, with bounds for each; `LiveSpec` adds the fairness | for TLC |
| `MCCandidates`, `MCJournals`, `MCServices` | several components in one run; a behaviour follows one `flow` | for TLC |

Definitions whose comment starts with `Fault:` are not part of a specification: each is a plausible
mistake in one definition, kept to show that a property notices it (`mutants` in `PROJECT.json`).
The constant `Environment` of a module names the outside events that an instance explores.
`Workers` has `Environments`, a set of such choices, and a variable `environment` that never changes:
one run explores several choices, and a property may depend on which one a behaviour meets.  A theorem
holds for every choice unless it states a hypothesis about it.  The `MC` modules that join components
add one variable, `flow`, that never changes: the components do not interact there, they share a run.

### Store and Scheduler

State: `run` (status, recorded budget failure, plan version), `tasks` (state, attempts column,
dependencies, question), `atts` (attempt rows in insertion order), `artifacts`; per controller the
main thread `pc`, what its last SELECT returned (`rows`), the task it picked, and one `job` per
attempt it claimed.

* `resume` is `ResumeStart`, `Recover`, then rounds of `NextTaskRead`, `NextTaskWrite`,
  `CheckBudget`, `Claim`, ended by `WaitRound`, `Drain` and `Settle`.  `recover_running` and
  `next_task` are split where the code SELECTs outside the transaction that its first UPDATE opens.
* `_execute_task` is `StartJob`, `RuntimeResult`/`RuntimeAsks`/`RuntimeRaises`, `Evaluate`,
  the three steps of an output (`CopyOutput`, `IndexOutput`, `AnnounceOutput`, each of which may
  raise and leave the earlier ones done), `Complete` or `Reject`, with the budget and late-result
  tests at the places the code has them.  With one thread the main thread waits for its only job, which is the inline call.
* `Cancel`, `Answer` and the plan revision are steps of the owner; the revision reads
  (`ReviseRead`) and writes (`ReviseWrite`) apart.  `Crash` ends a controller and its jobs.

Abstractions.  The model, the tools and the evaluator are free choices.  `late` stands for every
budget but `max_attempts` (time, tokens, cost, artifact bytes), each of which can be found spent at
the same tests.  An exception that leaves `_execute_task` outside its `try` ends the process before
`settle_run`: in the ledger that is `Crash`.  `cancel` terminates the recorded controller process:
also `Crash`.

### Workers

State: the worker rows, attempt rows (status, outcome, reason, owner), process rows and live agent
processes, owner locks, result envelopes, inputs and what each resume read, per service the call it
is in, whether it is closed, the thread of each attempt, and which outside events occur
(`environment`).

Calls (`CreateWorker`, `ResumeRead`, `Start`, `Submit`, `Send`, `Cancel`, `CleanupOne`, `Close`,
`ReconcileLock`, `ReconcileSettle`) and the thread of an attempt (`Enter`, `Invoke`, `Spawn`,
`Register`, `Observe`, `Return`, `Collect`, `Persist`, `Settle`, `Fallback`, `Cleanup`, `Leave`)
interleave; `Crash` ends a service, frees its locks and leaves its agents alive.

The registration of a process may fail or raise (`register`): the attempt is then marked
(`unclean`, the code's `cleanup_failed`), its adapter is told to stop the process, and the runtime
may go on without a row.

Abstractions.  A cleanup confirms, or fails (`stubborn`: the process cannot be stopped or must not
be probed).  The second pass of `cancel` over the same attempts and `adapter.cancel` add no other
effect.  The list that `reconcile` works on may be old: any attempt row it ever saw.  A start with
no attempt row left in the instance takes the path on which the ledger raises.

### Delegate

State: the ledger of `Store`; per attempt the status of its binding, whether its reservation is older
than the lease, the row, envelope and executing thread of its worker, the process that hosts the
thread, and the holder of the delivery lock; per process the call it is in.

* A call is `Call`, `Reconcile`, `SettleLost`, `SettleCall`, then `Attach` to the open binding, or
  `Select`, `CheckBudget`, `Claim`, `Dispatch`, `Bind`, `Submit`.
* Observation is `Wait`, then the loop of `Look`, `Locked`, `Reserve` and `Sleep`; delivery under the
  lock is the discard of earlier leftovers (`DiscardRows`, `DiscardFiles`), `Stage`, `Evaluate`, the
  four steps of an output and `Complete`.
* The handlers are `Failing`, `Stop`, `SettleDiscarded`, `Finish`, a discard and `FailureEnds`; a
  budget failure enters at `Stop` and skips `Finish`.  `cancel` is `Cancel`, `CancelList`, `Stop`,
  `SettleDiscarded` and, for discarded bindings whose lock is free, `DropNext` and a discard.

Abstractions.  One task with one output, and one worker for each attempt.  Reads that the next
transaction checks again are part of it.  The controller's `_active_lock` keeps threads of one
process apart; here every call is a process of its own.  The existence of the lock file is left out:
it is created before anything is staged, and without staged evidence there is nothing to discard.
`race` stands for an exception of the dispatching call before it looks at the binding (an event that
cannot be written, a `wait` that raises); `raise` for one under the lock or while the inputs are
staged.

### OutputPublication and Materialization

`OutputPublication`: the lock; per process its place, why it reconciles and the entry it works on;
the batch directory, staged files, journal, rollback mark and its temporary file, each final path
(what entry it is and whose file), and whether the ledger has the commit.  An entry is *volatile*
until its directory is synced and a *ghost* between unlink and sync: a power loss keeps or drops the
first and drops or revives the second.  Publishing is one action per durable step (`Mkdir` ...
`Commit`); `Load`, `Unlink`, `SyncUnlink`, `Mark*` are `_reconcile`; `Stop` is the continuation
guard; `Raise` any other exception (bounded, like `Kill`); `Kill`, `PowerLoss` and `Foreign` the
outside.  One batch, since a parent has one evolution child and its key is that pair.  All staged
files form one entry: they are synced together and any missing one makes `_load` raise.  Somebody
else writes only at paths that are free and settled.  `commit_output_publication` is one atomic
durable step (`synchronous = FULL`); it may also be refused, or raise after it took effect.

`Materialization`: the record files (each absent, cut, temporary, linked or final), the marker, the
attempt directory, the ledger's four records, and per caller the step it is at.  A call takes the
lock (`Materialize`), looks for what earlier calls left (`Inspect`, `Entry`), stages, records the
intent, launches, publishes the execution (`Publish`, `Prepare`, `ExecutionFinish`), plans the
delivery, publishes the outputs and then the terminal result (`TerminalEntry` ...
`TerminalFinish`, `Acknowledge`).  `Attest` is the operator's command.  Every file is written
through a temporary file (`WriteRecord`, `WriteFails`, `Kill`).  The output batch is one step here:
`Publication` is what it promises, and `OutputPublication` implements that.

### Evolution, EvolutionRun and Candidates

`Evolution` has the files of a search (the directory trees of the seed transaction, `archive.jsonl`,
`offspring-outcomes.jsonl`, `state.json`, the directory of the candidate at work) and one process.
`Open`, `Clean`, `SeedStage`, `SwapOut`, `SwapIn`, `DropBackup` publish the seeds; `Gate` is
everything `run()` checks before it resumes, with the replay of the population as operators
(`Trim`, `Migrate`, `Replay`, `JournalBound`, `JournalPaired`, `LineageHolds`, ...); `Generate`,
`Evaluate`, `WriteReceipt`, `AppendLine`, `AppendOutcome` make one candidate; `Populate`,
`Announce`, `BeginOffspringBatch`, `FinishOffspringBatch`, `Conclude` are the rounds.  A digest is
the value it is a digest of.  Sources have one of two distances (equal or not), which is what novelty
needs to order them.

`EvolutionRun` has the same files coarsely (their status, how many lines the state covers, what is
torn), and the ledger's run, task, rows, events and receipts.  One process at a time creates or
resumes (`Evolves`, `CreateEvolutionRun`, `Detach`, `Enter`), searches (`AdjudicateSeeds` ...
`ConcludeSearch`), and settles (`IndexRecords`, `WriteResult`, `RecordFiles`, `FinishEvent`,
`FinishSearch`, `SettleRun`, or the handler `IndexRaised`, `FailSearch`).  `Deliverable` is the test
that a delivery makes later.

`Candidates` runs one candidate after the other: sources, workspace, inputs, intent, launch, the
supervisor's three ends (`SuperviseExit`, `SuperviseTimeout`, `SuperviseOverflow`), the records,
observation, private copies, harness, recheck, manifest, archive.  A file is its content and a stamp
that each write renews.  The candidate's leader may exit and leave others of its group, one process
may leave the group with or without the pipes, and all of them write while they live.  The system
may refuse the signal to the group (`KillLeaves`): the leader alone is killed or nobody, and the
supervisor must notice it (`CleanedUp`).  Such processes live on after the call, as in the code.  A
recorded run always has a process observer, and only then the runner waits for the group to be gone;
a direct call of the runner without one is not modelled, and would call a run with a refused kill
and an exited leader a success.

### Evaluators, Handoff and BundlePublication

`Evaluators`: two calls of `compile_evaluator_bundle` stage, probe, audit, seal and rename; scoring
loads, runs and looks again.  An evaluator may rewrite its own files or the evidence whenever it
runs.  It is assumed not to put its own text back between the run and the look: that would be
invisible to any digest.

`Handoff`: exporters read the rows, the lineage and the sources of a database in separate steps while
the producer goes on; `past` remembers what each signature of the database stood for.  Admission
copies a source, evaluates the copy and looks at both again.

`BundlePublication`: publishers plan against an archive, confirm it under the lock, stage complete
copies, leave a marker, and move candidates, archive and state one by one; `Recover` is what a later
call does with what it finds.  The marker has its temporary files: it is written beside its name
(`StageDraft`), linked (`StageLink`) and the first link taken away (`StageMarker`); and its successor
is written (`CommitVerify`) and put in its place (`CommitBegin`).  A publisher may fail or be killed
between any two of these steps, and what lies there stays, unless a handler removes it (`Tidied`).

The search is the population strategy as far as it meets the publication.  A call reads the state or
the archive once (`SearchRead`) and keeps its population in memory; it writes that as the state at its
start, before a batch of offspring, after it and at its end (`SearchSave`, `SearchBegin`,
`SearchFinish`, `SearchWrite`); the directory of a candidate, its line and its place in the
population are steps apart (`SearchGenerate`, `SearchPersist`, `SearchAppend`).  It looks for the
marker at the beginning of each call on the archive and not again, and once it has recorded outcomes
it refuses an archive that grew by something else than its own candidates.  Three history variables
say when one of the disagreements below has begun: `late` holds the lines that were appended while a
publisher had the lock or a marker stood, `spanned` the batches whose state was published during a
call of a search, and `torn` says that a publisher stopped while a temporary file lay beside the
marker.

Abstractions.  A state is the set of identifiers it names: digests of the archive and the state are
compared as these.  Two states that differ in counters alone are equal, so the model lets a few more
plans pass `BaseHolds` than the code.  A search keeps every candidate in its population (`_trim` is in
`Evolution`), makes one candidate per batch and gives it a name that nobody has: in the code a
search and a publication that made up the same identifier would be refused by the checks on paths.
What a search validates when it reads a state is a reason to stop, which it may always do
(`SearchStops`).  An append that finds the archive replaced under it takes its line back and ends the
call; that too is `SearchStops`.

### AutomaticSolve, Sessions and EffectTrial

`AutomaticSolve`: each invocation has a caller and perhaps a detached worker that inherits the
workspace lock and waits at a gate (`LaunchWorker`, `Claim`, `OpenGate`, `LaunchFails`, `Gate`).  A
coordinator goes through `Admit`, `Recover`, `Intake`, `Compile`, `FinishIntake`, `Orchestrate`, the
preparation, `MakeChild`, `CopyInputs`, `Link`, `Evolve` with `Guard`, `Spawn`, `Register`,
`CheckStop`, `Release`, then `FinishChild`, `DeliverToParent`, `FinishParent`.  `Cancel` is the
user's, step by step; `Timeout` is the wall time; `KillProcess` may come anywhere.

`Sessions`: one attempt with its master and build invocation, each a loop of `Send`,
`WorkerAnswers`, `Turn` and `ToolCall` under shared ceilings of steps and tokens, over a transcript
that drops its oldest messages; checkpoints (`SaveCheckpoint`, `SaveState`) and the one resume; the
transport process with its guardian thread.

`EffectTrial`: logical runs, attempts, rounds, and how a record is kept, replaced, registered and
loaded (`KeepPrevious`, `WriteRecordFile`, `Register`, `Unlink`, `LoadRecord`).  Subjects and
harnesses that outlive a killed trial write their receipts later (`LeftoverEnds`), and a subject may
write where it should not (`SubjectStrays`).

### The abstract specifications

`RunContract`: the set of completed tasks grows until one verdict closes the run.  One controller
implements it with crashes, failures, exceptions and questions while the attempts budget lasts and
the owner does not cancel (`Scheduler_one`, and proved as `RunKeepsContract`).  A spent budget or a
cancellation together with a crash breaks it (see section 4), and a plan revision reopens a run by
design.

`Publication`: a batch is decided once and callers are told only the decision.  `OutputPublication`
implements it without restriction (model-checked and proved).

## 3. Runs

| run | what it asks | instance | distinct states |
|---|---|---|---|
| `Scheduler_two` | two controllers, each taking the other for crashed, with cancellation: `SucceededIsVerified`, `RacesLeaveNothing` (dependents start after their dependencies; what a cancelled attempt left is discarded), `CancelledIsFinal` | chain of 2, 3 attempts, budget 2 | 548,179 |
| `Scheduler_one` | one controller, two threads, failures, exceptions, questions, a crash: `RowsAgree` (types, one live attempt per task, questions that are live), `OutputsDeliverable`, `OnlyAnswerReleases`, `RunContract` | diamond of 3, 4 attempts | 747,118 |
| `Scheduler_live` | crash, deadline and a plan revision: `RunEnds` (ended for good, but for what a spent budget holds), `CompletedSurvivesRevision`, `AttemptsWithinBudget` | chain of 2 and a third task by revision, budget 3 | 151,673 |
| `Workers_cases` | cancel, resume, deaths, failing adapters and registrations, stubborn agents, messages, shutdown, a tree: `RowsAgree`, `LostMeansAbandoned`, `LiveProcessIsRegistered`, `InputsConsumedOnce`, `CancelStopsTree` | 2 services, by `environment`: 1 worker and 2 attempts under cancellation with survivors, under cancellation with failures, or under both kinds of failure; 1 worker, 3 attempts and a message; a parent and a child | 1,359,300 |
| `Workers_live` | one service may die: `WorkEnds` (attempts end, and so do the processes of ended attempts) | 2 attempts, 2 services | 53,989 |
| `Delegate_delivery` | two controllers, a kill, failures, timeouts, budgets, cancellation: `EvidenceIsOwned`, `SettledEvidenceStays`, `BindingIsDecided` | 1 attempt, 2 controllers, 1 kill | 305,523 |
| `OutputPublication_batch` | kills, power losses, exceptions, cancellation, files of others: `CommittedIsComplete`, `RolledBackIsClean`, `ForeignFilesStay`, `Publication`, `BatchIsDecided` | 2 outputs, 2 processes, 2 crashes or exceptions | 131,496 |
| `Evolution_search` | a kill between any two writes, cut lines, failing candidates, appends of unknown outcome: `OwnStatesAccepted`, `EliteSurvives`, `ResumesCleanly` | population 3, 2 islands, 2 rounds of 2, with and without 2 seeds, 3 sources, 1 kill | 766,866 |
| `Candidates_scored` | a candidate that forks, hangs and writes, refused signals, failures, cancellation, a kill: `SuccessIsEvidenced`, `CallsEnd`; evaluators that rewrite themselves, two compilers: `ScoredByAudited` | 2 candidates, 2 calls, 2 writes; 2 sources, 2 rewrites | 506,069 |
| `Journals` | seeds, bundles, a search and a trial, each with kills and failing writes: `HandedOverAsWas`, `PublicationIsWhole`, `SucceededIsEvident`, `RegisteredIsEvident` | 2 programs, 2 exporters; 2 publishers, 2 batches of 2, 1 candidate of a search; 4 starts, 2 lines; 2 logical runs of 2 rounds | 1,757,893 |
| `Services` | a session, a solve and a delivery with kills anywhere: `CheckpointsHold`, `RequestsEnd`; `CoordinatedSolve`, `GatesResolve`; `LaunchedOnce`, `CommittedIsReported` | 3 steps, 8 tokens, 4 messages; 2 invocations; 2 callers, 2 kills, 1 failure | 123,282 |

Several properties are conjunctions of parts that have names and comments of their own where they are
defined; a run states the conjunction.

Bounds.  Two controllers, services or processes are enough for every race of the code, since each
race is between a reader and one other writer; a third attempt row lets a task be claimed again
after both.  The diamond has a join and two parallel tasks; with four
attempt rows one may be spent beyond the three tasks, or three on one task (a failed promotion, a kill
and a success), and a fifth finds nothing more (4,124,903 states).  A budget of 3 attempts for a chain that
a revision can extend makes it run out during recovery, during a retry and after the revision.  Two
outputs separate first from last.  In `Delegate` a second attempt starts only when the binding of the
first is decided, so one attempt shows every race of a delivery but the one in which a late handler
of the first meets the delivery of the second (the disagreement on `SettledEvidenceStays` below);
`DelegateProofs` covers any number of attempts.  Two crashes allow a kill during
publication and a loss of power during its recovery (what an unlink that was never synced needs);
`OutputPublicationProofs` covers any number of outputs and crashes.  In `Evolution` a population of 3
on 2 islands gives islands of different capacity, so that trimming, family elites and migration all
happen; the second round follows a migration; two seeds fill one island beyond its capacity.  One
kill is enough there because a killed call that is resumed leaves only states that an unkilled one
leaves, which is what `OwnStatesAccepted` says.  In `Candidates` the second call follows a killed,
failed or successful first; two writes let a file change and change again between two looks.  In
`Journals` two batches of two candidates separate a part of a batch from all of it; one candidate lets
a search read, announce, append and write on either side of every step of both batches (two of them,
or two faults with one batch, find nothing more: 6,651,598 and 4,142,884 states); and four starts of
a search allow a creation, two kills and the call that finds the end.  In `Services` four messages
make the transcript drop the call of a result, and eight tokens and three steps let each ceiling be
met first.

The runs say `CHECK_DEADLOCK FALSE` where the system really may stop: a run that is over, a closed
service, bounded calls that are used up.  A publication can always be called again, so its run checks
deadlock.

### Disagreements

One further run ends in a violation on purpose.  `Scheduler_budget_sticks` states that budgets fail
closed (`store.py:3188`) and shows that `fail_budget` skips `uncertain` tasks, so that the run is
`running` again.  `RunEnds` meets the same behaviour, and says how far a run still ends.  A plain
`<>[](run.status \in Terminal)` is violated: a crash leaves an uncertain task when the attempts are
spent, or the deadline passes in every resume, and then each resume fails the run and reopens it
before it returns, for ever.  A run that merely passes through `failed` is therefore no run that
ended.

The other statements that the code does not keep are definitions with a comment that quotes the
repository.  They are no runs of their own; TLC refutes each when it is put into the given
configuration in place of the properties there:

| statement | configuration | what happens |
|---|---|---|
| `Workers!LostIsNotSuccess` | `Workers_cases` | the newest envelope of any attempt is presented, also for a lost attempt |
| `Delegate!BindingIsPaired` | `Delegate_delivery` with `NumAttempts`, `MaxAttempts`, `MaxVersions` = 2, `Environment = {}`, `RevisedSpec` | a binding stays `lost`; after a plan revision `_reconcile_worker_run` fails the task for it while a new attempt runs |
| `Candidates!ArchivedSourcesStay` | `Candidates_scored` | a cancellation between the archive line and the return removes the archived candidate's sources |
| `BundlePublication!LinesStay` (a `PROPERTY`) without `late` | `Journals` without `SYMMETRY` | a search that passed the marker test before the stage appends a line that the commit replaces |
| `BundlePublication!BatchIsNamed` without `spanned` | `Journals` | a search writes the population it read before the batch was published: the state no longer names the batch, whose lines and candidates stay, although `specs/153-producer-bundle-publication-transaction/spec.md:45-46` has archive, sources and state agree |
| `BundlePublication!StagedCanCommit` without `torn` | `Journals` | a kill between `os.link` and `os.unlink` (`producer_bundle_staging.py:195`) leaves a marker with two links, and one inside `_replace_existing` a temporary file: every later commit refuses, and every search stops at the marker.  A kill before the link leaves a file that refuses every later batch |
| `EvolutionRun!IndexedIsCovered` | `Journals` | a resumed search that raises before it has a strategy object indexes lines no state covers |
| `EvolutionRun!SucceededIsDeliverable` | `Journals` | a kill between `contract.json` and its row: the resumed search succeeds and its delivery is refused |
| `EffectTrial!ChangedAttemptIsLeft` | `Journals` with `MaxTrialStarts = 3` | a deep trial whose public files were changed continues the same attempt at every resume |
| `AutomaticSolve!CancelReachesWork` | `Services` | a coordinator is killed between starting a process and registering it: cancel does not find it |
| `AutomaticSolve!DeliveredSettles` | `Services` | a kill between `attach_plan_to_run` and the end of the intake task: the delivered parent stays `running` |

Others were met while the properties were being bounded.  They are why the properties are checked
only for the environments of the table:

* `CancelledIsFinal` is about the run.  A task of a cancelled run may still succeed: a cancel that
  commits between the SELECT and the UPDATE of `recover_running` (`store.py:1497`) is overwritten for
  the task.
* `OnlyAnswerReleases` fails with two controllers: a promotion decided on an old SELECT of
  `next_task` (`store.py:994`) releases a task that asked a question meanwhile.
* `QuestionIsLive` fails with revisions: `commit_plan_revision` (`store.py:728`) resets a kept task to
  a dependency wait without clearing its old question, which `answer` then accepts.
* `OutputsDeliverable` fails with two controllers: two live attempts of one task copy to the same
  run-level path (`controller.py:4963`), and file and index may come from different ones.
* `SettledEvidenceStays` has one exception.  The handler of a dispatching call that failed without
  the delivery lock (`controller.py:4103`) reads the binding and discards later; an observer that
  commits in between loses the evidence of its delivery.  With two attempts the same handler reaches
  further, and then the property fails (TLC, with `NumAttempts`, `MaxAttempts` = 2, `Environment` =
  {"race", "reject"} and one kill, 76 steps): its attempt is settled meanwhile as one to repeat, the
  next attempt's observer writes the output, the late discard unlinks that file because it is at the
  same path, and the observer commits a delivery without it.
* `BindingIsDecided` speaks of running attempts.  A call killed between `fail_budget` and
  `settle_worker_binding` leaves an open binding in a failed run; when a revision reopens the run,
  every later call refuses to attach to it (`controller.py:3808`).  And a call killed between
  discarding a binding and `finish_task` leaves a running task that only `resume` recovers.
* `CommittedIsReported` leaves out preparations that were cut short (`Blocked`): a record that is
  there but not whole, or not in the ledger, is refused by every later call, which the code intends.
* `OwnStatesAccepted` leaves out a cut line, a population without a state and a batch whose attempts
  are not all journalled: `run()` cannot know what happened and refuses.

Kept as the code has them, without a property: an attached observer counts one attempt more than the
dispatching call when it decides about a retry (`controller.py:4030`); `result.json` of a search is
written in place, and a torn one stops every later call; the budget identifier of a receipt starts
again with each process (`agent_evolution.py:398`), so a resumed search that drafts differently is
refused; a second `freeze` of an evaluator may end in an error instead of using the first
(`evaluator_bundle.py:659` expects `FileExistsError`, where a directory gives `ENOTEMPTY`); a new
invocation of the agent loop forgets a cancel that came before it (`agent_loop.py:272`).

### Fairness

* Scheduler: each main thread and each job keeps running (`WF`), because a runtime call has a
  timeout and a thread of a live process is scheduled; the owner keeps resuming a run that is not
  over and answers its questions (`WF` on `ResumeStart` and `Answer`).  No fairness on crashes,
  cancellation, deadline or revisions.  Crashes and revisions are bounded, deadlines are not: the
  second part of `RunEnds` speaks of behaviours in which they stop.
* Workers: threads, service calls and cleanups run (`WF`; adapters have timeouts).  A surviving
  service keeps reconciling (`SF` on `ReconcileLock`: the lock of an attempt is not always free).
* Delegation: calls and worker threads run on and time passes (`WF`), and a client that has no
  answer calls `run_worker_agent` again (`WF` on `Call`), which is what `WorkerObservationTimeout`
  asks of it.  No fairness on cancellation, failures, timeouts or kills.
* Publication: calls run on (`SF` on the steps of a process, since the lock comes and goes and the
  kernel hands it over), and the owner keeps calling `recover_output_batch` (`SF`, since it may also
  publish or be cancelled in between).  Kills, power losses and exceptions are bounded together by
  `MaxCrashes`: a batch whose every recovery raises is never decided.  `BatchIsDecided` leaves out
  what the code gives to a human: a half-written `.rolled-back.json.tmp`, and a final path whose
  content fails the verification.
* Candidates: the steps of a call, its supervisor's clock among them, go on (`WF` on `Steps`).  None
  on the candidate: it may hang for ever, which is what the supervisor is for.
* Services: the guardian thread of a request runs, and the caller's clock (`WF` on `Guardian` and
  `RequestFails`; none on the endpoint's answer).  Launchers and waiting workers of a solve that are
  not killed take their next step (`WF` on `GateSteps`).  A delivery's call runs on (`WF`), and
  somebody calls again when the lock is free (`SF` on `Materialize`: it is not free all the time).

## 4. Theorems

All leaves are checked by TLAPS from the named assumptions on the constants: `StoreAssumption`,
`SchedulerAssumption`, `PublicationAssumption`, `WorkersAssumption`, `DelegateAssumption`,
`EvaluatorAssumption`, `EvolutionAssumption`, `SeedsAssumption`, `MaterializationAssumption`,
`SolveAssumption`, `HandoffAssumption`, `TrialAssumption` and `BundleAssumption`.  They say
that bounds are numbers, that a plan is closed under its dependencies, that a worker's parent was
created before it, that admitted seeds are candidates with their own receipts, and that the names for
"nobody" and "no file" are not names of somebody.  TLC evaluates them in every run that uses
them.  Nothing else is assumed about the constants unless a theorem states it as a hypothesis.

The runs that join components (`MCCandidates`, `MCJournals`, `MCServices`) let a component take the
steps of its own specification while `flow` selects it, and `MCWorkerCases` restricts the steps of
`Workers`.  A theorem about `SearchSpec`, say, therefore covers what the run explores of a search.

### SchedulerProofs

For any plan, revisions, controllers, threads, attempts and environment:

* `TypeCorrect`; `Invariant`, the inductive invariant `IInv`: types, `JobsMatchAttempts` (a job works
  on a row that exists, promotes only after a recorded pass and is over once its attempt succeeded),
  `RunningHasAttempt` and `SucceededIsVerified`.  Neither of the last two is inductive alone: that a
  finishing job's attempt passed is known only from the place of the job.
* `RunningTasksHaveAttempts`, `SuccessIsVerified`, `JobsFollowAttempts`.
* `RoundsAreAwaited`: a call does not leave its round while a thread it started works (`JobsAwaited`).

For any number of controllers, on a plan that is not revised (`Revisions = {}`):

* `CancellationIsFinal`; a committed revision reopens a run.
* `RacesAreHarmless`.  Dependencies are verified for a task that has started, and also for one that a
  controller has only *read* as ready or running and will write back (`DependenciesHold`); that is
  what makes the split SELECTs and UPDATEs harmless.  A revision may change the dependencies of what
  was read.

For one controller at a time (`\A c, d \in Controllers : c = d`: it may crash and resume any number of
times):

* `CompletedSurvives`, with revisions.  What `recover_running` found running cannot have succeeded
  when it is written back (`RecoverySees`), because no thread of the crashed or finished call works
  any more (`JobsAwaited`).  A second controller's thread does, and then recovery takes a completed
  task back.
* `AttemptsStayWithinBudget`, with revisions, cancellation and every budget.  The attempts counted
  are a sum over the tasks, a fold over a set of which only two facts are needed: it is the same while
  no `attempts` column changes, and it grows by one when one of them does.  A claim follows a check
  that found room, and nobody else counts between the two.
* `LedgerRowsAgree`, `OutputsAreDeliverable` and `OnlyAnswersRelease`, without revisions, from
  `OneInv`: attempt rows are inserted in order, a live attempt is the latest of its task, a job's
  attempt is live or its task is stopped for good, a question was asked by the latest attempt
  (`RowsInv`); what `next_task` read has neither started nor asked when it promotes
  (`PromotionSees`); and announced outputs are the file at the path (`PromotedIsThere`,
  `OutputsLatest`).  The disagreements above show that each hypothesis is needed.
* `RunKeepsContract`, the refinement of `RunContract`: without revisions, without cancellation and as
  long as no budget is spent (`[](run.exceeded = {})`).  The invariant adds that dependencies are done
  (`DoneFirst`), that nobody works on a closed run (`ClosedIsQuiet`) and that the plan is the first
  one.  The last two hypotheses are needed, as TLC shows.  `fail_budget` leaves an uncertain task that
  a later round settles, so the verdict is taken back (`Scheduler_budget_sticks`).  And a cancellation
  between the SELECT and the UPDATE of `recover_running` is overwritten for the task, which then runs
  and completes after the verdict.

One lemma is about the steps that leave attempts' owners alone (`KeptStep`), one about the claim,
which is the only step that creates a row (`ClaimInv`); the rest say what each store operation writes.

### OutputPublicationProofs

For any number of outputs, processes, kills and power losses:

* `Invariant`.  `IInv` says: only the holder of the lock is past its wait (`LockHeld`); the directory
  is durable before a journal or mark counts (`DirectoryFirst`); and, for the holder, that the batch
  is undecided while it prepares, publishes or undoes, that its link loop and its unlink loop are
  done up to the current entry, and that everything is durable when it commits.  The safety
  properties need the loops, and the loops need the lock.
* `TypeCorrect`, `CommittedBatchesAreComplete`, `RolledBackBatchesAreClean`, `OthersFilesStay` (an
  action property) and `PublicationImplementsContract` (the refinement of `Publication`).

### WorkersProofs

For any worker tree, number of services, attempts, messages, slots and crashes, and in each
environment: `Invariant`, `RowsAlwaysAgree`, `LostIsAbandoned`, `ProcessesAreRegistered`,
`InputsAreConsumedOnce`, `CancelledTreesStop`.

`IInv` follows an attempt from its row to its end.  An attempt that does not exist yet has left
nothing (`UnusedIsBlank`); a call that dispatches owns it (`CallOwnsAttempt`), and a service that
executes holds its owner lock (`ActiveHoldsLock`).  One that is being reconciled belongs to a service
without a lock (`ReconciledIsUnheld`), so no thread of a live service is declared lost.  What a thread
carries is what it persists and settles (`ResultFits`, `EnvelopeFits`, `OneRunning`), and an attempt
whose registration or cleanup failed is caught before its result counts (`MarkedIsCaught`): a process
without a row and without a thread belongs to an attempt that is not a success.
`CancelStopsTree` needs `CancelledHasEnded`: without failing adapters and shutdowns, a thread reports a
cancellation only for an attempt that has ended.

### DelegateProofs

For any number of calls, controllers, attempts and kills:

* `EvidenceHasAnOwner`, also with plan revisions, from `OwnInv`.  Every call past its claim acts for
  an attempt that exists (`CallsHaveAttempts`), one of them dispatched it (`OneDispatcher`), and the
  steps of a delivery are taken by the holder of the delivery lock (`LocksAreHeld`,
  `ReservationHolds`).  So what an unsettled attempt shows is answered for: by the holder, who goes on
  to commit or discard it, or by nobody because the holder was killed (`EvidenceIsAnsweredFor`).
* `DeliveredEvidenceStays`, an action property, from `OwnInv` and `KeptInv`.  Staged evidence is there
  until the commit (`StagedIsThere`); of two attempts one is decided (`OneUndecided`); and whoever
  discards without the lock is the dispatcher of an attempt that failed while it waited
  (`HandlersWithoutLock`).  The hypothesis `FailuresStayApart` says that there is one attempt, or no
  such failure, or no rejected result to repeat.  It is what the code does not ensure: the
  disagreement above is a behaviour without it.
* `BindingsArePaired`, under the same hypothesis and without revisions: the assertion "active worker
  binding is not paired with a running attempt" of `run_worker_agent`.

### SearchProofs

* `ScoresAreAudited`, of any number of compilers and rewrites: an evaluator that rewrites itself never
  gets back a text it had, so one comparison after a probe vouches for what was probed
  (`StagedIsProbed`), and a bundle that still loads after a score is the one that made it
  (`ScorerRanFrozen`).
* `SuccessesAreEvidenced`, of any number of calls, writes, kills and failures: a run has not succeeded
  until its result is recorded, and when it is one its group was seen to be gone, whatever signal was
  refused (`RunIsUnrecorded`); an evaluation has a complete
  record of a success (`EvaluatedIsRecorded`) and each of its steps what the one before it compared
  (`EvaluationGrows`).
* `ResumedSearchesAreClean`, of any population, islands, rounds, sources, seeds, kills, cut lines and
  failures.  The files and the process have their kinds (`TreeTypes`, `StateTypes`, `ProcTypes`), a
  place of the process has behind it what `state.json` must say (`ProcFollowsState`), what lies in the
  directory of the next candidate is of the call that is making it (`EvidenceOfCall`), the tree that
  holds the contract is always at its name or at the backup that the next call swaps in
  (`RootIsThere`), and attempts are made in order, once each, in the batch that was announced
  (`AttemptsFollow`).  The last is not a matter of one call: a batch whose call was killed is never
  begun again, because `Gate` requires the whole journal of it.

### ServicesProofs

* `LaunchInvariant` and `CandidateIsLaunchedOnce`, of any number of callers, kills and faults.  Only
  the holder of the lock is in a call (`LockHeld`); a started candidate has its intent on disk and in
  the ledger (`LaunchedIsIntended`), neither of which any step takes away; and the way to the launch is
  taken only while nothing was started (`PathToLaunch`).
* `SolveInvariant` and `SolvesAreCoordinated`, of any number of invocations, with and without kills.
  The workspace lock is with one invocation, with its caller, its worker or both (`OneHolder`), and
  with both only until the gate is open or the launcher is gone (`WorkersFollow`).  What the ledger
  says about the intake, the preparation, the child and the delivery agrees (`LedgerAgrees`), and each
  place of a coordinator has behind it what the ledger must say there (`StepsFollow`); a successor
  starts from the ledger alone.
* `CheckpointsAlwaysHold`, of any ceilings, turns, edits and cancellations.  Requests run ahead of the
  recorded rounds by the one that is on its way, or by a last one whose answer ended the attempt
  (`RoundsFollowRequests`); a boundary is drawn only over a transcript in which every call has its
  result, also after the oldest messages were dropped (`BoundaryIsPaired`); and what is saved there
  does not change later.

### JournalsProofs

* `SucceededRunsAreEvident`, of any number of starts and lines: the files are final once the strategy
  has ended (`StepsSeeFiles`), rows pin the final files and nothing else (`RowsAreFinal`), and they
  are made in an order that ends in the success of the task and then of the run (`RecordsAreOrdered`,
  `TaskIsEvident`, `RunFollowsTask`).
* `ProgramsAreHandedOver`, of any number of programs, exporters and edits: a signature of the database
  stands for the rows it had (`ProducerKeepsPast`), an exporter holds what belongs to the signature it
  read (`ExportersHold`), and an admitted copy stays what was evaluated or is found changed
  (`CopyIsDeclared`).
* `RegisteredRecordsAreEvident`, of any number of logical runs, rounds, starts and leftovers: what
  the state says is in the attempt's directory (`StateIsBacked`), the runner is never behind it
  (`ExecutionIsAhead`), and at each step of keeping a record the state names the record or its backup
  (`CommitIsOrdered`), so a start after a kill at any step loads what the harness wrote.
* `PublicationsAreWhole` and `ArchivesOnlyGrow` (an action property), of any number of publishers,
  batches, candidates of a search, failing writes and kills, without further hypotheses: what they
  except are the lines, batches and temporary files that the history variables name.  The inductive
  invariant has the publisher's steps (`PublisherKeeps`: its copies hold the lines and the state as
  they were plus the batch, `PreparedSoFar`, and what it moved comes before its place,
  `MovedSoFar`), the marker (`MarkerKeeps`; beside it a temporary file lies only for a publisher that
  is at work on it or because one stopped there, `BesideMarker`) and the archive (`ArchiveKeeps`).
  The state is not determined by the publications, because searches overwrite it from memory.  It is
  held between two bounds: every writer, and what every search has in memory, keeps the members of
  the batches that were published and not spanned (`KeptIds`), and none has more than the searches'
  own candidates and the batches that are published or under way (`KnownIds`).

### Only model-checked

* Liveness (`RunEnds`, `WorkEnds`, `BindingIsDecided`, `BatchIsDecided`, `CallsEnd`, `RequestsEnd`,
  `CommittedIsReported`, `GatesResolve`): fairness and ENABLED are out of the prover's reach.
* `Evolution` (`OwnStatesAccepted`, `EliteSurvives`): replay, trimming and migration select, sort and
  fold over sequences.  What `SelectSeq`, `SortSeq` and a fold return for every sequence is a matter of
  induction over data, which the installed provers cannot do; the library states no fact about them
  that could be cited instead.
* The violation of `Scheduler_budget_sticks` and the other disagreements, which are behaviours.

## 5. Not modelled, and the plan

`PROJECT.json` gives a reason for each part that has no module, and says for each part that is partly
modelled what is missing.  What could still be added, in order:

1. `Delegate` together with `resume` of `Scheduler`, which takes a delegated task for crashed; and
   `run_agent`, the path without a durable worker.
2. `Materialization` composed with `OutputPublication` step by step instead of through `Publication`,
   and with the callers of `AutomaticSolve`.
3. Theorems: the two invariants of `Evolution` that have none need facts about sorting and folding
   sequences; with an induction theorem the provers can use, `EliteSurvives` comes first.
   For `Delegate`, `DeliveredEvidenceStays` with plan revisions.
4. The plan operators of `policy.py` as pure functions; the launcher of external producers.

Left out for good: wording, formats, prompts and digests as bit strings; the content of model answers
and of evaluations; path confinement and secret filters, which are checks of strings; benchmarks and
audits, which read what others recorded; the host session.
