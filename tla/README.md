# Novelforge in TLA+

TLA+ models of the parts of novelforge that keep long-running writing work
consistent: the durable task queue and its workers, the continuous-writing session,
the chapter pipeline over the truth store of chapters and commits, the exactly-once
boundary of provider calls, the control plane with its approvals, the compute
budget, the simulation sandbox, and the planning canvas. TLC checks small instances; TLAPS proves the
main results for every instance.

Paths are relative to the repository root (`src/core/...` is the Python package
`src`, `docs/...` its documents).

## 1. The system

Novelforge writes novels with language models. An HTTP studio and a CLI put tasks
into the SQLite table `tasks`; workers claim them under a lease and run a handler
(write a chapter, review a run of chapters, analyse a source, simulate a story);
every handler saves checkpoints, and stops at the author when a gate fails. A
written chapter becomes canon when a commit of its text is accepted, and an edit of
an earlier chapter takes all later canon away. Provider calls go through a table of
attempts, so that a restart can find an answer already paid for. Beside the queue, a
control plane executes commands of the host, keeps approvals, and reserves units of a
compute budget for plans. What is to be written is planned on a canvas, a revisioned row
that requests and worker threads change.

| Component | State | Operations | Works with | Hard behaviour | What makes it correct |
|---|---|---|---|---|---|
| Task queue, `src/core/task_runtime.py` | rows of `tasks` (status, lease, attempt, key, child link), mirror in `agent_tasks` | enqueue (3 forms), claim, renew, transition, checkpoint, defer, update_data, fail, pause, resume, retry, cancel, recover | everything | each call is one transaction, callers interleave between calls | lease exactly while active; one row per key; the state machine |
| Worker, `src/core/task_worker.py` | local: claimed task, status read, result, heartbeat | execute_once, execute_task, run_forever, _heartbeat | queue, handlers | reads before a handler returns, lost leases, exceptions inside `except`, crash, restart | the lease names who works; only the owner settles; active tasks settle |
| Continuous writing, `src/creation/continuous_service.py` | payload and checkpoint of the parent task | advance, author_decision, start_continuous | queue, worker, children | one `advance` and one decision are several transactions each | counted = accepted; hard review gate; applied once; comes to rest |
| Story repository, `src/core/story_repository.py`, `narrative_events.py`, `review_repository.py` | versions, commits, event ledger, facts, derived state, reviews | create, save, restore, delete, create and accept a commit, replay, rebuild | pipeline, author, import | canon is kept three times and maintained in place | canon is the latest text; the copies agree; edits invalidate what follows |
| Chapter pipeline, `src/pipeline/writing_pipeline.py`, `src/core/task_workflow.py` | stage, context, workflow state of the task | the stages from plan to commit, revision rounds, checkpoints, the author's decision | queue, story repository | the author edits, pauses or cancels between any two transactions; two handlers of one task | completed only over live canon; no revision past the limit |
| Generation attempts, `src/core/generation_attempts.py`, `src/llm/model_runtime.py` | attempt rows and generation runs | prepare, request, persist, consume, fail, abandon | pipeline, providers | crash between answer and save, two handlers of one stage | a saved answer is neither lost nor paid for twice; attempts and runs agree |
| Control plane, `src/runtime/control_plane.py`, `persistence.py` | command receipts, queue rows with leases | submit, dispatch, claim, assert, handle, complete, requeue | task queue, approvals | expired leases, a command executed twice, death between its steps | a command is settled once, by its last claimant, and does its work once |
| Approvals, tool gateway, `src/runtime/approvals.py`, `tool_gateway.py` | approvals with deadline and use | request, approve, reject, revoke, consume, invoke | control plane | expiry racing a decision, decision racing use | an approval is used once, and never after its refusal |
| Router and compute scheduler, `src/runtime/router.py`, `src/compute/scheduler.py` | budget account, reservations, stored plans | plan, execute, fall back, escalate, settle | providers | concurrent reservations, a failed step after a reservation, escalation of a plan in progress | never more reserved than the account holds; reservations come back |
| Simulation, `src/storyflow/simulation/*` | runs, event ledger, branches, checkpoints, episodic memory | create, branch, pause, intervene, preview, round, delete | queue, studio | a round is many transactions and may be repeated, taken over or raced by the author | a round acts once and is remembered; the world is what the ledger replays; deleted stays deleted |
| Planning, `src/planning/plot_workspace.py`, `src/story_graph/planning.py`, `src/storyflow/planning/adoption.py` | the canvas of a book (one row with a revision), proposals and their tasks, adoptions | load with its merge, preview, confirm, decide, import, fulfil, reconcile, adopt, reject | studio, workers, pipeline, simulation | checks and writes are separate transactions; a merge is saved without a revision | one revision is consumed once; nodes follow their lifecycle |
| Review, gateway I/O, memory, retrieval, ingestion, export, web, backup | mostly per call | | | provider I/O | see "Not modelled" |

`PROJECT.json` lists every component with its status and, under `hazards`, each
place where the code is hard to test, with the property that watches it or the
reason none does.

## 2. The modules

    TaskLifecycle            what the queue promises of one task (abstract)
        ^ implemented by
    TaskRuntime              the table and every call that changes it
        ^ extended by                ^ extended by
    TaskWorker                   ContinuousWriting
      processes, author,           one session: parent, children,
      clock, crashes               decisions, crashes

    StoryCanon               chapters, versions, commits, ledger, derived state
        ^ extended by
    ChapterPipeline          handlers of write-next, workers, the author

    GenerationAttempts       one stage's provider request
    ControlCommands          commands, their queue, approvals
    ComputeBudget            account, reservations, plans, the router's calls
    SimulationRuns           runs, ledger, rounds, branches, the studio
    PlanCanvas               planning nodes, proposals, candidates, adoptions

    MCTaskRuntime, MCTaskWorker, MCContinuousWriting     instances for TLC
    MCChapterPipeline    pipeline, store, attempts, commands and budget, one scene each
    MCSandbox            session and sandbox, one scene each
    MCLiveness           session and command queue under fairness
    MCPlanning           task queue and planning canvas, one scene each

    <Module>Proofs       theorems of the module of that name
    ModelCallProofs      theorems of GenerationAttempts and ComputeBudget
    StoryFlowProofs      theorems of SimulationRuns and PlanCanvas

Components that share no state share a run: the composing module has a variable
`scene`, chosen at the start and never changed, that says which of them moves. A
behaviour of a scene is a behaviour of that component alone.

### TaskRuntime

One function `task` from ids to rows. Every method of `TaskRuntime` that changes
status, lease, attempt, key or child link is one action, because each opens one
`db.transaction()` (`BEGIN IMMEDIATE`, `src/core/database.py`). `CanTransition`,
`CanCheckpoint`, `CanDefer`, `CanUpdateData` and `CanFail` are the conditions under
which the method does not raise `TaskStateError`; the modules above use their
negations for the exception path. A call with `lease_owner=None` is a call as
`NoWorker`, which the fence lets through, as in the code.

Left out: payload, progress, event rows, `cancel_requested` (nothing reads it), the
chapter workflow state and its commit check inside `checkpoint` and `transition`
(they are in `ChapterPipeline`; in `TaskWorker` a chapter's completion may be refused
instead). A lease deadline is a flag the clock may raise, a retry deadline a flag it
may clear. The attempt counter saturates at the only value it is compared with. One book.

### TaskLifecycle

Per task: nobody takes two tasks in one step, only taking gives a lease, the lease
lasts while the task is running or cancelling, `completed` and `cancelled` are
final, a cancelled task ends cancelled or at the author. `KeepsLifecycle` is the
refinement: `status` and `holder` are read off the rows.

### TaskWorker

A process is a program counter in `execute_claimed` plus what it has read: `boundary`
(the handler has read the status), `returned`, `deciding` (the worker has read the
status after the handler), `cancelling`, `failing`. Between any two of them the
author, the clock, another process or a crash may move. A refused call goes to
`failing`; a refused `fail()` leaves the loop (`ended`), as the code lets that
exception out of `run_forever`. A handler is every sequence of what the handlers
of the repository do with the queue: checkpoint with and without an owner (as
`writing_pipeline.py` and `task_handlers.py` do), look, stop at the author, queue a child and
defer, return, raise. `planning` has no handler.

### ContinuousWriting

`advance` is cut at its transactions: `Override`, `Look`, `Check` (reconcile),
`SaveReads` and `SaveWrites` (`_checkpoint_parent` reads the status and decides in a
later transaction whether it names its lease), `Pop`, `Plan`, `Stop` and `Stopping`
(`_needs_author_decision`), `Defer`. A worker carries the payload and checkpoint it was
handed at the claim and changes its own copy. `author_decision` is `DecisionReads`,
`DecisionQueues`, `DecisionLinks`, `DecisionRetries`. A child is queued under its
idempotency key (`Spawn` returns the row that already has the key, settled or not).
A child's own handler is one step that settles it, since `TaskWorker` has the steps
inside. `overrode`, `forgot` (a save has taken a counted chapter out of the row), `crashes` and `decisions`
record history and bounds; nothing in the
program reads them.

Left out: `execute_batch` and its helpers (the registered handler calls `advance`),
the text of a reason (so the author repeats a reason), edits of a chapter by the
author outside the session.

### StoryCanon

The store of one book: `chapter` (status and numbers of the versions), `commit`, `review`,
and three copies of canon. `active`, `tombs` and `dug` are what the left-to-right replay
of `active_events` has computed after the last ledger event; `commit[..].st` is the status
column; `facts` and `folded` are the derived rows maintained in place. Every operation
that changes a text (`NewChapter`, `NewText`, `RestoreVersion`, the two deletions) takes
every later chapter out of canon through `Sweep`; `Accept` appends the event, supersedes
what it replaces and folds the facts in; `RebuildAll` is `rebuild`. The author's
operations are `EditText`, `Restore`, `Delete`, `Audit` (a review from the editor),
`Import` (`canonical_import.py`), `Bind` and `AcceptBound`.

### ChapterPipeline

`task` holds the rows of write-next (status, owner, stage and context of the checkpoint,
workflow state), `job` what each worker has in hand. Its point in `execute` is `at` (looking
at the status before a stage), `in` (inside a stage whose model call is out), `out` (the
stage is done, its checkpoint comes) and `parked` (it has read `paused` and will save
without naming a lease). The stages up to the prompt write nothing but the context and are
one, `Precheck`. `CanAdvance` and `StateForStage` are `task_workflow.py`; a refused workflow
move is a failure of the task. `EndComplete` and `Finish` are separate: the task completes in
a later transaction than the commit is accepted. The author edits, restores and
deletes, pauses, resumes, cancels, retries and decides (`AuthorDecision`: accept, reject,
another revision) at any time, and leases expire.

### GenerationAttempts

One stage of one chapter, its attempts numbered in order of insertion, and generation
runs of the same number. `call` follows `PersistentModelRuntime.invoke` one transaction at
a time: look under the key without suffix, list and abandon what is left over, close the
runs, look again, create the run, prepare, mark, call, persist, finish, consume. Two
handlers of one stage are possible because the queue lets two handlers of one task run
(see `worker_exclusion`). `late` and `first` remember that an answer was saved before the call
began; no code reads them.

### ControlCommands

Receipts and queue rows by command id, `grant` for approvals, `made` for the number of tasks
a command has made, and `host`: command workers that claim queue rows under a
lease, and request handlers that dispatch at once. Claim, assertion, handler and completion are
steps of their own, and the escalation handler is two more (consume the approval, apply it). The
lease of a living worker may lapse `MaxStalls` times, a process may die `MaxDepartures`
times. `InvokeTool` is the gateway's use of an approval.

### ComputeBudget

`slot` is `compute_reservations`, `plans` the stored plans, `router` the calls of
`RuntimeRouter` in progress: plan, store, select, begin, execute, fall back, escalate, settle. Every
call of the broker and every insertion of a plan is one action; a process may die between
any two. `begun` and `astray` remember which reservations have been started and
which were left by a death or a dropped escalation.

### SimulationRuns

`simRun` (rows, parent and fork of a branch, archive state), `ledger` (events each run appended
itself; `EventsOf` prefixes what a branch inherits), `remembered`, `ckpt`, `roundTask`, `exec`. A
round is `ClaimRound`, `ReconcileRound`, `ScheduleRound`, `EnterRound`, `ReadRound`,
`DecideRound`, `AppendRound`, `RememberEvent`, `AdvanceRound`, `ReplayWorld`, `WriteCheckpoint`,
`CloseRound`, `CompleteRun`, `SettleRound`, each one transaction; a budget stop, a provider failure,
a refused write or a death may come in its place. A world is the sequence of events
applied, so equal worlds mean equal replays. The rows of a ledger come in the order of their numbers, so that
the events up to a number are a beginning of the world (`UpTo`, for which TLC finds no
value if they did not). The studio asks for rounds (`AskRound`, `EnqueueRound`, `BindRound`) and retries them, previews,
intervenes, branches, pauses, archives and deletes.

### PlanCanvas

`canvas` is the row of `plot_workspaces`: its revision, the status (and fulfilling commit) of each
planning node, and how much of the story it has seen. `load()` is two steps, because it
reads the row before its transaction: `LoadRow`, and `LoadRest`, which inserts the row or saves the merge of
what was read (`MergedRow`, in place and with the revision it finds). A call that writes is some calls of
`load()` with a check after each (`AfterLoad`), then one transaction that compares the revision if it was
given one (`Fresh`) and counts it up (`NextRow`): `Confirm`, `ImportBranch`, `DecideCandidate`, `Fulfil`,
`AdoptNode`. A preview is two transactions (`EnqueueDecision`, `RecordProposal`); the control plane
decides proposals without the canvas (`DecideProposal`), and the author cancels or retries the task of one
(`LeaveDecision`). The studio serves one request at a time, since its endpoints do not wait
for anything between these steps; worker threads look, import a forecast and fulfil a
node beside it, and name no revision. Any process may die between two steps.

Left out: edges, positions and texts, nodes of the story itself, deltas that replace the
whole graph, `apply_branch` (its ids are fresh), the steps that belong to a branch (one node
stands for the group), the history rows, and the second save that a new story node causes.

## 3. The runs

| Run | Question | Instance | Result |
|---|---|---|---|
| `runtime_api` | Queue: any call by anyone in any order, types, leases, keys, lifecycle. Canvas: is a revision consumed once, and what may take a node out of its lifecycle | queue: 2 tasks, 2 workers, 1 key, 2 attempts; canvas: a node of each origin, 3 changes, 2 commits, the studio and 1 thread, 2 versions of the story, 3 moves | pass |
| `worker_safety` | Who may settle, requeue, hold a lease | 2 loops, parent with child or planning task, all author commands, late heartbeats, 1 crash | pass |
| `worker_live` | Does work end, does a parent wake | 1 loop, 1 HTTP worker, cancellation, no crash | pass |
| `continuous_safety` | Session: counted, gated, whole. Sandbox: acts once, remembered, rebuildable, deleted for good | session: 3 chapters, a review after every second, 2 workers, 1 request, 2 author moves, 1 crash, 7 tasks; sandbox: a run and a branch, 1 agent, 2 rounds, 2 workers, 2 events, 3 troubles | pass |
| `continuous_live` | Does a session come to rest; is every command answered | session: 2 chapters, 1 review, 2 workers, 2 author moves, 6 tasks, no crash; commands: 2 commands, 2 command workers, 1 death, 1 stall | pass |
| `chapter_canon` | Is canon always the latest text, and each of the small ledgers right | see below | pass |
| `worker_recovery` | Is an expired lease recovered | 1 loop, 1 task, 1 crash | violation |
| `worker_exclusion` | Does the lease keep execution single | 2 loops, 1 task, pause and resume | violation |
| `worker_loop` | Does the loop outlive the errors of its handlers | 1 loop, 1 task, pause, no crash | violation |
| `continuous_once` | Is a child applied once | 2 chapters, 1 worker, 2 decisions | violation |
| `chapter_cancelled` | Does a cancelled task leave the book alone | 1 task, 3 disturbances | violation |
| `generation_retry` | Is a saved answer never asked for again | 1 handler, 3 calls, 1 death | violation |

The scenes of `chapter_canon`:

| Scene | Who moves | Properties | Bounds |
|---|---|---|---|
| desk | the author alone, any number of operations | `CanonIsHead`, `CanonMirror`, `DerivedIsReplay`, `EditInvalidates` | 2 chapters (3 versions and 1), 3 commits, 2 reviews |
| worker | two pipelines, the author, expiry, failure, death | the same, `TypeOK`, `CompletedIsCanon` | 2 tasks of 1 chapter, 1 revision, 4 disturbances, 3 versions |
| gateway | two handlers of one stage | `LedgersAgree`, `FirstAnswerSuffices`, `AnswerIsKept` | 3 calls, 2 deaths |
| plane | two command workers, a request handler, the gateway, the clock | `GrantSpentOnce`, `OneTaskPerCommand`, `SettledByClaimant` | 2 commands of any kind, 1 approval, 1 death, 1 stall |
| account | two calls of the router | `BudgetTypeOK`, `BudgetKept`, `ReservationsReturn` | 2 reservations, 2 plans, 2 units of which 1 critical, 1 death |

Why the bounds suffice.

* Everything the queue does concerns one row and at most the
  child it waits for, so two rows and two owners reach every relation between rows;
  the author is not bounded there. One key is enough to
  collide. Two attempts give one retry and one final failure. One crash and any number
  of restarts give every recovery of one lost lease.
* A session of three chapters with a
  review after every second has a window of several chapters, a gate between two chapters and a
  chapter without a window at its end; two author
  moves allow a retry followed by an override, a pause followed by a resume, and a
  decision racing a plain retry; seven tasks are the parent, four children and two more
  for decisions. One crash and a pause suffice for a checkpoint that forgets a chapter (`forgot`). Four chapters
  with two reviews and the same moves have been checked as well and hold (4.3 million states).
* Canon: three versions let a text be edited and brought back, three commits let one
  be accepted, superseded and replaced; a second chapter is what an edit invalidates. Four
  disturbances allow pause, cancel, resume and an edit in one behaviour, or the loss of a
  lease, a takeover by the second worker and an edit on either side of it. The second
  chapter lives at the desk only (`SceneBound`), since the pipeline writes one chapter.
* Attempts: three calls give a first, a repeated and a repeated again attempt; two deaths
  let both handlers die. Commands: two of them let one decide the approval that the other
  spends, and one lapse lets a command be executed twice. Budget: one estimate is one unit, the
  escalated one two, the account two, so that both reservations, or one and an
  escalation, meet the limit.
* Sandbox: three troubles allow a takeover, a repeated death, or a preview, an intervention and
  a pause around one round; two events per history are a round and what follows it or, in a
  branch, what is inherited and what is added. One round with five troubles has been
  checked as well and holds (3.5 million states).

* Canvas: three requests or calls are an author's change, a writer it overtakes, and one more, e.g. a second
  proposal for the same revision (the first ones may be there from the start); two commits can both
  want a node; one new version of the story makes every load after it a merge. One thread suffices because
  two of them meet as one of them meets the studio, and `PlanIsKept` holds for any number.

Bounds and where they sit: ids in `Tasks` (an `enqueue` without a free id is not
taken), `MaxAttempts` (saturation), `MaxCrashes`, `MaxVersion` (versions of a chapter),
`MaxDecisions` (decisions and commands together), `MaxDisturbances`, `MaxRevisions` (the
code's own limit), `CommitIds`, `ReviewIds`, `MaxCalls`, `MaxDeaths`, `MaxDepartures`, `MaxStalls`,
`MaxReservations`, `MaxPlans`, `MaxEstimate`, `MaxLosses`, `MaxEvents`, `MaxTrouble`, `MaxStory`, `MaxMoves`. Deadlock is not
checked: a queue without requests, a session that waits for its author, and a scene whose
bounds are used up do stop.
Runs without liveness use the symmetry of workers; no run with
liveness does.

Fairness. A live process takes its next step (the event loop runs), a handler ends
some day however often it looks at its task (strong fairness of its ends, as
providers answer or time out), a retry deadline passes, an HTTP request once read is
served to its end. No author, no crash, no new request is ever forced. In
`worker_live` heartbeats are on time; `worker_safety` lets them be late. For commands
(`CmdFair`): a living command worker claims what it can claim and takes its next step,
as its loop polls, and the lease of a worker that died runs out, as time passes.

### What the violations show

* `worker_recovery`: `recover_expired_leases` runs once, at the start of `run_forever` and of the
  web server. A worker restarted before the deadline of the lease it lost recovers
  nothing, and the task stays `running`. The CLI says on exit that running tasks will be
  handled when their lease expires (`src/cli/main.py:599`).
* `worker_exclusion`: `pause` gives the lease up while the handler is inside a stage;
  after `resume` a second worker executes the same task. The fences still let only one of
  them settle it, which is what `SettledByOwner` says. The architecture document says
  the lease avoids duplicate execution (`docs/architecture/01-system-architecture.md:27`).
* `worker_loop`: the author pauses a task while its handler works, and the handler then fails. `fail()` refuses a
  task that is not active, nothing catches the refusal (`src/core/task_worker.py:147`), and `run_forever` ends though no
  one asked it to stop; it is started once (`src/web/studio.py:381`, `src/cli/main.py:597`). Its text says that it
  continuously claims durable work (`src/core/task_worker.py:159`). Resume, retry and a
  lease lost to a recovery end it in the same way.
* `continuous_once`: review fails, author retries, review fails, author overrides. The payload
  written back still holds `resume_child_id`; after the next chapter the parent
  applies the old failed review a second time and stops at the author again, and each
  further override does the same (`src/creation/continuous_service.py:403`, `:691`).
* `chapter_cancelled`: a task is paused and then cancelled while its draft is being
  generated. `execute` leaves its loop for `cancelling` and `paused` only
  (`src/pipeline/writing_pipeline.py:158`), so that it reviews the draft, creates a StoryCommit
  and accepts it for a task that is already `cancelled`; only its completion is refused. The
  architecture document says every boundary looks at the cancellation
  (`docs/architecture/09-task-system.md:19`).
* `generation_retry`: the first attempt fails, the second is answered and saved, the worker
  restarts. The next execution looks under the key of the first attempt and under the key of
  the attempt to come (`src/llm/model_runtime.py:1495`), and calls the provider a third time. The
  module's own text promises reuse of a saved response (`src/core/generation_attempts.py:3-7`).

Modelling also showed facts no document denies, kept as hazards or notes: a joint review
that fails without a result is pending for the window after its own
(`continuous_service.py:704`); `update_data` may clear the child link of a waiting parent,
which then depends on the same request's `retry` (`task_runtime.py:1016`); repeated
decisions find the settled child under the same key (`continuous_service.py:508`). In the
sandbox, a worker whose lease was taken over, or a preview beside a task, makes a round act
twice, since the ledger is replayed once more just before the numbering of the actions
(`repository.py:732`), which is why `ActsOnce` speaks of the behaviours without either; a
budget found exhausted after the ledger was written completes the task without checkpoint
or completion of the run (`task_handler.py:337`). `cancel`, `retry`, `fail` and `defer_until_child` leave the copy of
the status in `agent_tasks` as it was (`task_runtime.py:1095`), which the queue's model says too.
On the canvas, a merge saved in place can undo a change the author has just confirmed
(`plot_workspace.py:716`), and a writer that names no revision, as the pipeline does, can overwrite a
fulfilment by another commit (`planning.py:1937`); `PlanKept` says that nothing else takes a node out of its
lifecycle. The generic `proposal.accept` accepts a planning change without applying it
(`control_plane.py:1280`), and a crash in the middle of `adopt` followed by a rejection leaves a rejected
adoption with a planned node (`adoption.py:249`).

## 4. The theorems

All for any sets of tasks, workers, keys, chapters, commits, commands and so on that satisfy
the named assumption of the module (ids are numbers, null values are not ids, limits are
numbers, agents are finitely many), the bounds included: they hold for every value of every bound.

`TaskRuntimeProofs`

* `LeaseInvariant`, `TypeCorrect`: neither conjunct of `IInv == TypeOK /\ LeaseIffActive`
  is inductive alone: a transition out of an active status clears the lease only
  because the row was well formed, and a claim yields a well-formed row only because
  the row it takes was not active. The proof is row-wise. Each method's effect on
  a row is a lemma (`ReleasedGood`, `SettledQuiet`, `CancelledQuiet`, `RecoveredQuiet`, ...),
  and `StepShape` classifies a step: it creates one row, takes one row, or is quiet (no
  key changes and every row moves as the lifecycle allows).
* `KeyInvariant`: a quiet or taking step keeps keys, a creating step has looked for its own.
* `ImplementsLifecycle`: the same shapes are the moves of `TaskLifecycle`, one step to one step.

`TaskWorkerProofs`

* `UsesRuntime`: `WSpec => Spec`, so the queue's theorems hold of the whole system.
* `WorkerTypes`, `LeasesAreTruthful`: `WorkerInv` adds that a process has a job exactly while
  it is in `execute_claimed` and that a deferring one knows its child. A step is
  classified as harmless (no row leaves an active status except as the author,
  recovery or a cancellation may, and no lease is given), as taking a job, as
  settling it, or as abandoning it because the row is no longer active or no longer
  its own; a lease can then never name a worker without the job.
* `OwnersSettle`, `ChaptersStayWithAuthor`: from the same classification and the fence.

`ContinuousWritingProofs`

* `SessionUsesQueue`: `CSpec => Spec`, so the queue's theorems hold of the session.
* `SessionInvariant`, and from it `SessionTypeCorrect` and `CountedOnlyIfAccepted`. Payload and checkpoint exist in
  many copies: in the row, in each worker, in a decision under way; any of them may be written later than
  others. `SInv` therefore says one thing of every copy: it speaks only of what is `Known`, i.e. of children
  that exist, chapters begun, chapters written, windows reviewed or overridden. `Known` only grows
  (`KnownGrows`), so that a stale copy can be poor but never wrong, whoever writes it when.
* `GateHolds` and `FinishedWhole`, for every interval and any number of chapters: until the checkpoint forgets a
  chapter it has counted (`forgot`, a history variable set by `Stores`, which no code reads), no
  chapter is queued past a due review, and a completed session is whole. The invariant (`RememberingInvariant`) has two parts:
  `OrderInv` says that the row, every copy and every chapter under way count chapters in the order of
  their numbers; `GateInv` says that the windows before whatever is begun are reviewed, and is kept by every step
  whose row counts the chapters of each window together (`Straight`, see `StraightGates`).
  Pauses, retries, overrides, cancellations, crashes and late saves are all allowed.
* The condition is needed: the save of a worker that has read `paused` names no lease, and when it
  lands late it may take a counted chapter out of the row, as may the save of a cancelled session. For four chapters and
  a review after two of
  them, TLC finds the session that counts 1, 3, 2, 4 and finishes without a review of chapters 3 and 4
  (pause, resume, one crash, three decisions: too large for a run kept here). `UndisturbedInOrder` and `UndisturbedGates`
  say when it is not: while the session is neither paused nor being cancelled.

`StoryCanonProofs`

* `CanonInvariant`, and from it `CanonTyped`, `OneCanonPerChapter`, `MirrorAgrees`,
  `InPlaceIsRebuild`, `EditsInvalidate`. `CanonInv` adds `CommitsOK`: a live commit is of a
  version its chapter has, no two live commits are of one version, and a commit accepted for a
  chapter that was buried stays outside the replay. Without it, accepting could bring
  back a commit of an erased text. All operations that change a text have one lemma in common,
  `SweepKeeps`.

`ChapterPipelineProofs`

* `PipelineInvariant`, `PipelineTyped`, `PipelineKeepsCanon`, `PipelineInvalidates`,
  `CompletedOverCanon`. A step is either an operation of the store that moves one worker
  (`StoreMove`) or a rewriting of one task (`TaskMove`). `PInv` says of a row (`RowOK`) and of what a
  worker has in hand (`JobOK`) that they refer to commits of their own chapter that have been
  accepted, that a row at DONE is committed, and that a worker at DONE under its lease holds the
  commit the row names if that is canon. The difficult case is a worker that was away and
  saves without its lease; `Follows` says when its write does no harm.

`ModelCallProofs`, of `GenerationAttempts`

* `GenInvariant`, `AnswersKept`, `FirstIsEnough`, `LedgersAlwaysAgree`. `GInv` says that attempts and
  runs are numbered without gaps, that each call stands where its attempt and run say it may, what a
  call that began after the first answer may still do, and that without overlap at
  most one call is in progress.

`ControlCommandsProofs`

* `CommandInvariant`, `GrantsSpentOnce`, `OneTaskEach`, `ClaimantsSettle`. A process acts on what it has
  read, so `CmdInv` says what that is worth (`KnowsOK`), and `Steady` that no other process
  undoes it: this is why executing a command twice is harmless.

`ModelCallProofs`, of `ComputeBudget`

* `AccountInvariant`, `AccountNeverOverdrawn`, `BudgetTypes`. The units taken are a sum over the reservations,
  written as a recursive function on their number (`UnitsUpTo`). That the sum is a number, and that the
  change of one reservation changes it by the difference (`SumChange`), would be inductions; they
  are proved from the least number that is a counterexample (`LeastNumber`), since the natural numbers are well
  founded by a theorem without operator parameters. With it, a reservation is granted only if what is taken
  afterwards fits, and every other step takes no more than before.
* `ReservationInvariant`, `ReservationsComeBack`. `ReturnInv` adds to the shapes that only inserted
  reservations are spoken of (`Known`) and that a reservation whose execution has begun is in the
  hands of a call that will release it (`InHand`).

`StoryFlowProofs`, of `SimulationRuns`

* `TombInvariant`, `DeletedStays`. `TombInv` says that a deleted run is a stopped one and that the request
  about to bind a task to a run has found it running; every write of the repository asks whether the
  run is mutable, except the ones this invariant rules out.
* `SimInvariant`, and from it `SimTypes` and `RecoveryIsReplay`. What a branch sees (`EventsOf`) is recursive
  over its parents. Parents are older (`Descends`), so the recursive equation has exactly one solution
  (`SolutionExists`, `SolutionsAgree`; the least run on which two solutions differ cannot exist), and the world of
  every run after a step is found by exhibiting a function that satisfies the equation (`KeptWorlds`, `GrownWorlds`,
  `BranchedWorlds`). `SimInv` says that worlds have no gap (`Worlds`), that a branch forks within
  what its parent has seen, that a checkpoint, stored or in the hands of a process, is where the world of
  its run begins (`Checkpoints`, `InHand`), and that a batch in hand is numbered one after the
  other (`Consecutive`). The batch need not fit the world any more; the transaction looks at its first
  number. A world only grows at its end (`Extends`), whoever appends to the run or to a parent of it.
* `ActsInvariant`, and from it `ActOnce` and `ActionsRemembered`. `ActInv` adds that a ledger holds actions
  only of rounds its run has come to (`Past`), that the batch in hand holds actions of its own task, one
  of each agent (`BatchOwn`), and, unless a living worker lost its lease, that the handler of a task
  owns it, has nothing of it in the ledger before it appends, and has remembered all of it, or has it in hand,
  afterwards (`Alone`). A retry after the append finds the counter of the run at its round, since the
  transaction that appends moves it, and reconciles; one before it finds the ledger empty of its task.
  A step either appends nothing (`Calm`, lemma `CalmActs`) or adds a batch (`Adds`, lemma `AddsActs`).

`StoryFlowProofs`, of `PlanCanvas`

* `CanvasInvariant`, `ConfirmedOnceHolds`. `ConfirmedOnce` is not inductive: that the revision of a done
  proposal lies below the canvas needs the shapes, and that two proposals of one revision are not both
  done needs that a confirmation finds the canvas at the revision it names. `CanvasInv` says besides what the
  one request in the studio has in hand: a preview, a proposal not yet recorded; a confirmation, the
  revision of its proposal.
* `KeptInvariant`, `PlanIsKept`. A writer checks a node on the row it has read and writes on the row as it is.
  `KeptInv` says that what it has checked holds of the row in hand (`Checked`), and that the revision it names is
  no newer than that row (`Revisions`): a write that passes `Fresh` then finds the row at the revision it
  read, and moves the node lawfully unless the node was overtaken in the sense of the property.

Only model-checked: everything under fairness (`ActiveSettles`, `QueueDrains`, `ParentWakes`,
`SessionRests`, `CommandAnswered`), which is outside the prover's reach. Every other property that a
passing run checks is also proved, for every value of the constants.

## 5. Plan

Done: the modules of section 2 and their proofs. Next, in this order:

1. Whole-graph deltas and edges of the canvas, and the fulfilment of a node composed with
   the pipeline that commits.
2. Larger compositions: two sessions of one book, workers that share the default id, the
   window of a review that failed without a result.

## 6. Not modelled

Provider calls, prompts, scoring and parsing (I/O and text); adapters and
subprocesses; retrieval, translation, export and visualisation (no shared state
beyond one transaction); schema migrations (sequential scripts); the legacy
in-process paths (`execute_batch`, `continuous.py`, `fast_continuous.py`); the larger part of
`story_graph/service.py` and `web/studio.py`, which derive views of stored data or shape requests
and answers. A part that is modelled in part says in `PROJECT.json` what it leaves out.
