# A formal model of ForgeAI's durable workflow

ForgeAI turns a conversation into an application: a Leader plans, role agents
(Product Manager, Architect, Code Engineer, Test Engineer) work on tasks, and a
durable job queue in MySQL keeps the work going across crashes, pauses and lost
workers. What is hard in this system is not what the agents write but who may
write when: workers, a recovery scan, boot threads and the owner's browser act on
the same rows, files, ports and checkpoints, each in several short steps. This
directory models that part, checks it with TLC and proves its central properties
with TLAPS.

All source paths below are relative to `src/apps/backend/app/` unless they start
with `src/`.

## 1. The system

| Component | State it keeps | Operations | Correct when | Module |
| --- | --- | --- | --- | --- |
| Task execution fence: `services/task_execution.py` | numbered attempts of a task: status, lease, resumable draft; one active slot | start, require, renew, save, fail | one attempt owns the task, an old owner can neither save nor publish, progress is kept | `ExecutionFence` |
| Durable jobs: `services/workflow_jobs.py` | jobs by idempotency key: status, attempt, lease owner, lease, attached execution | enqueue, claim, heartbeat, attach, complete, fail, recover, pause, cancel | every job is settled, none succeeds before its work is handed on, none survives a cancel | `WorkflowJobs` |
| Workers: `worker.py` | one job at a time per worker, a heartbeat thread | `run_once`, `execute_job`, one handler per job type | a handler may die or be overtaken anywhere without harm | `WorkflowJobs` |
| Plans of a run: `services/leader.py`, `plan.py`, `task.py`, `build_run.py`, `app_spec.py`, `run_revision.py`, `leader_dispatch.py`, `test_engineer.py`, `requirements.py` | a run, its chain of plans, approvals, the recorded decision and the lease of a dispatch | stage the next plan, dispatch, replay, decide about a report, save a plan of the Leader, approve, revise, cancel | the workflow never forks its chain, what is released is what was approved, repair rounds are bounded, the user gets a turn | `BuildPipeline`, `Delivery` |
| Engineering loop: `orchestration/code_engineer.py`, `generation/engineering/`, `services/engineering/` | checkpoint in the draft, the workspace | prepare, load, reserve, call, record, check, complete, publish; retry by the user | published code was verified, budgets and stop-loss survive recovery, no edit is lost | `EngineeringLoop` |
| Working memory: `generation/engineering/work_memory.py` | source excerpts with their provenance, counters | read, search, edit, check, plan | it claims nothing the model was not shown, and a stalled loop ends | `WorkMemory` |
| Product Manager and Architect: `orchestration/`, `services/`, `agents/`, `tools/` of both, `agents/tool_protocol.py` | the conversation saved in the draft | claim, start, a bounded tool loop, save, publish | every paid call is counted, nothing unread counts as read, one document | `Authoring` |
| Test Engineer: `services/qa_verification.py`, `qa_assets.py`, `tools/test_engineer.py`, `agents/qa_context.py` | suite versions, executions, checks, defects, budgets | design, write and adapt scripts, execute, record and resolve defects, report | a checkpoint can be restored, a passed report is backed by one execution | `IndependentQA` |
| Preview: `services/preview.py`, `runtime/preview.py` | sessions, boot threads, reserved ports, containers, proxies | start, replace, stop, sweep, boot, publish | nothing is forgotten, what is shown as ready is whole | `Preview` |
| Requirements API: `services/requirements.py`, `services/run_control.py` | derived status, `paused_at` | status (also the poll), Continue, approve, pause, resume, cancel, retry | pause quiets the run, cancel ends it, a stopped run can be continued | several |
| Events, deployment, security gate | streams, sandboxes, revisions | append, deploy, roll back, scan | | not modelled (section 5) |
| LLM access, schemas, evaluation, frontend, sandbox image, templates | none that is shared | | an answer or an error is a choice | outside |

How they interact. A hand-off of the Leader commits a plan with exactly one task
and then, in a second transaction, enqueues the task's job. A worker claims the
job, its handler claims the task (`claim_*_task`), which starts an execution,
attaches the execution to the job, works in steps that each save a draft under
the fence, publishes the result, hands it to the Leader and completes the job.
Every arrow between two of these is a place to die at, to be overtaken at or to
lose a lease at. Independently the owner polls (`ensure_engineering_running`),
continues (`continue_engineering`, which for the Architect and the Test Engineer
works in the request thread, without a job), pauses and cancels. Idle workers
scan every 15 s for jobs whose 90 s lease ran out and for executions whose
10 min lease ran out.

What makes it hard: transactions of MySQL at REPEATABLE READ whose early reads
are unlocked; an ORM that writes only the columns it changed, whatever the row
holds by then; locks taken on the run by some paths and on the job by others.
`PROJECT.json` lists every such place as a hazard, at its line.

## 2. The modules

`ExecutionFence` is what the rows `build_runs`, `task`, `task_execution` and
`task_result` of one task promise. Its actions are the transactions of the code,
offered to every caller with every execution number, in any order:

| State | Code |
| --- | --- |
| `run` | `BuildRun.status`, `paused_at IS NOT NULL` |
| `task` | `Task.recipient`, `Task.status`; the plan has one task and is claimed, finished and cancelled in the same transactions, so it is not a second variable |
| `execution[e]` | `TaskExecution` with attempt number `e`: status (`active_slot` follows it), lease expired or not, draft (progress saved, checkpoint outcome) |
| `latest` | the newest attempt number, `latest_execution` |
| `result` | the attempt that wrote the `TaskResult` |

`WorkflowJobs` EXTENDS it with the job rows and the actors. An actor is a worker
or an API thread; its `pc` names the next transaction it will run, its other
fields are what it carries from one transaction to the next. Where the code
reads a row, decides and writes it later without a lock (`attach_execution`,
`complete_job`, `fail_job`), the model has a read step and a write step, and
`Flush` is the ORM's unit of work. `recover_expired_jobs` does lock the job
(`Locked`) but not the execution it ends. `handed` is the follow-up of a
published result: owed, staged (its task is committed), done (its job is
enqueued).

| Transaction | Action |
| --- | --- |
| `claim_next_job`, `execute_job` and the head of the handlers | `ClaimNextJob`, `ExecuteJob` |
| `claim_architect_task`, `claim_test_engineer_task`, then `start_execution` | `ClaimRoleTask`, `StartRoleExecution` (two transactions) |
| `claim_code_engineer_task` | `ClaimCodeEngineerTask` (one transaction: claim, refresh or recovery) |
| `attach_execution` | `ReadForAttach`, `AttachExecution` |
| the engineering loop | `PrepareEngineering`, `SaveProgress`, `LoseFence`, `WorkRaises` |
| `complete_*_task` | `PublishResult` |
| `dispatch_completed_design`, `dispatch_completed_code`, routing of a report; the job of the follow-up | `HandOff`, `HandOffJob` |
| `complete_job`, `fail_job` | `ReadForComplete`, `CompleteJob`, `ReadForFail`, `FailJob` |
| `recover_expired_jobs` | `ReadForRecovery`, `RecoverExpiredJob` |
| `recover_orphaned_work` | `ScanOrphans` (the scan, without a lock), `RecoverOrphanedWork` (with the execution's row locked; the run is not looked at again) |
| `heartbeat_job` | `HeartbeatJob` |
| Continue and the poll | `ContinueRole`, `ContinueEngineering`, `ContinueHandOff` |
| `pause_active_execution`, resume, `cancel_active_run` | `PauseSnapshot` and `PauseRun`, `ResumeRun`, `CancelRun` |
| the lease runs out, the process dies | `ExpireJobLease`, `ExpireExecutionLease`, `Crash` |

`Delivery` is the promise to the owner without plans, callers or retries: an
intent is approved, code is built from exactly that intent, an independent verdict
is given on exactly that code, only a passed verdict releases it. Its last action,
`Improvise`, is what is left of the promise in a run for which the Leader has written
a plan of its own: one approval at a time, and a release ends the run.

`BuildPipeline` is how the Leader keeps it. Every plan of the workflow has one task and
publishes one configuration item, so plan, task and item share a number:

| State | Code |
| --- | --- |
| `run` | the latest `BuildRun` with its `RunRevision`: status, stage, kind, the approvals before it; `lost`, the result whose hand-off has no job any more |
| `plans[v]` | plan `v` with its task and item: who wrote it (the workflow, a message, the Leader), role, input item, report, status, kind of result |
| `caller[c]` | what a caller holds between two transactions (the quality decision and the Leader's dispatch commit half way; a plan the Leader has answered with is saved later) |
| `dispatch[i]`, `decision[i]` | `LeaderDispatchCheckpoint` (owner, lease) and the recorded decision of an approved item |
| `shipped`, `refused` | what was released last; a product change that was turned down |

Its actions are the transactions: `CreateInitialPlan`, `CreateProductRevisionPlan`, `Claim`,
`Complete`, `CreateClarificationPlan`, `ApproveRequirements`, `ClaimDispatch`, `Lead`,
`RecordDecision`, `CreateDelivery`, `DispatchDesign`, `DispatchCode`,
`CompleteQuality`, `DecideQuality`, `StageRepair`, `Overtaken`, `ResolveByRevision`,
`RetryBlockedQuality`, `CreateRevisionRun`, `DispatchRevisionRepair`, `DispatchRepair`,
`LeadRepair`, `SaveLeadersPlan`, `CancelActiveRun`, a crash and a lapsed
lease. Any caller may run any of them with any item at any time: that is a late
replay, a second tab and a retried job at once. `Shown` is `get_requirements_status`.

* A message that asks for a repair (`apply_message_next_action`) has three ends: in a
  repair run it starts the run's engineering task (`DispatchRevisionRepair`), in a run
  that awaits its dispatch the approved requirement goes to the Code Engineer
  (`DispatchRepair`), and while a design is made or handed off it needs the Leader
  (`LeadRepair`, `SaveLeadersPlan`), whose plan `save_plan` stores as given at the next
  version: its input need not be the item before it. Such a plan has one task and one
  input in the model, for the Architect or the Code Engineer; a run has at most
  `LeadBound` of them (1 in the runs, any number in the proofs).
* The hand-off of a report comes to `DecideQuality` for a failed report only
  (`orchestration/test_engineer.py:248`); a blocked or challenged one waits for the user,
  whose answer to a challenge (`resolved`) is the other way in.
* `GiveUpHandOff` is the job of a hand-off that has used up its attempts (`fail_job`).

`EngineeringLoop` is one Code Engineer task. The checkpoint of the execution is one
variable because a recovery copies it; `loop[w]` is what a worker holds between two
transactions, and its `pc` names the next. The workspace has the application code
(`Versions`, which pass static checks or not) and the smoke manifest (a set of
probes). `Prepare`, `Load`, `Reserve`, `Call*`, `Verify` and `Compare`, `Record*`,
`CompletePassed` and `CompleteFailed`, `Snapshot`, `Publish` are the steps of
`run_engineering_workflow` in the code's order; `Join` is a second worker in a live
execution, `RetryClaim` and `RetryWrite` are the two transactions of
`retry_terminal_engineering`; between them a worker that joins may resume a block
that cites its budget (`RequiresManualRetry`), and the write undoes what it saved.
`StageEdit` refuses a write from a version the model has not seen, but the tools that
generate files (`generate_image`, `generate_api_client`, `install_project_dependency`) do
not look at it, so they write over any version; `NoLostEdit` says of every write that
nothing came between the version its tool started from and its commit. A block is
recorded whatever the outcome was. `Prepared` always freezes the ledger: `ensure_smoke_probe_baseline` fails only for a manifest that
is no manifest, and the inherited one has passed a check.

`WorkMemory` is the sequential data structure behind it: `memory.cache` are the
source excerpts by file (`Coalesce`, `Bounded`, `Stored`), `Coverage` and
`AlreadyVisible` answer reads from them, `Watch`, `Progress` and `Stalled` are the
counters that close the read tools and stop the execution. `shown` is a history
variable: the lines a read really returned.

`Authoring` is one task of the Product Manager or the Architect: attempts under the
fence, `checkpoint` (the saved progress of `run_bounded_tool_loop` or the saved
result), and per caller the progress in memory. `Reserve`, `Call`, one action per
kind of tool, `SaveTurn`, `SaveResult`, `Publish` follow the loop; `Crash`,
`LeaseLapses` and errors interrupt it anywhere.

`IndependentQA` is the Test Engineer's checkpoint: `suites`, `runs`, `checks`,
`defects`, `resolved`, the budgets and their grants. There is an action per tool,
`Restorable` is `restore_test_engineer_progress`: what the tools enforce as well
(`Readable`) and a limit of resolutions that they do not know (`FewResolutions`).
`Supports` is the gate of the report, `NextTask` the verification of repaired code, which
inherits the suite. Left out are a design with anything but the first locator (an
adaptation makes the other one), the failure kind "conflict", checks of a part of the
source and the limits on the length of a report.

`Preview` has a `session` per number, `boot` (its thread and the thread's local
variables), `stop` (what a stop took and has not freed), `table`, `reserved` and,
as the outside world, `client`, `container`, `proxy` and `deaf`. A step is what happens
under one lock or one call of the container runtime. A request reads the revision before
it takes the lock, so it may start an older one (`seen`, and `request` while a start
replaces a session). `runtime.start` starts a docker client; the container comes later
(`ContainerComes`), also after the session was stopped, or never. Removing it may fail
and be swallowed (`Remove`) or raise (`RemoveRaises`), and then the ports stay reserved.
A proxy that was shut down keeps its socket for a while (`deaf`). Two history variables
record what the code itself forgets: `asked`, the sessions whose container the runtime
was told to remove, and `lost`, the ports no one will give back. A project has one run,
so a session is never kept or replaced because of the run alone.

The `MC` modules instantiate them for TLC. `ExecutionFenceProofs`,
`WorkflowJobsProofs`, `BuildPipelineProofs`, `EngineeringLoopProofs`,
`WorkMemoryProofs`, `AuthoringProofs`, `IndependentQAProofs` and `PreviewProofs` hold the
theorems about the module they are named after.

Definitions headed "Slip" are plausible mistakes in the code: each replaces the
definition it stands beside to show that a property would notice it.

Abstractions, and why they are sound for what is claimed:

* Time is the bit "the lease has expired". A lease may expire whenever nobody
  renews it, so every timing the settings allow is a behaviour of the model.
* The content of a draft is how much was saved and the checkpoint's outcome.
  Progress saturates at `MaxProgress`; the jobs runs use 0, because
  `ProgressNeverLost` is checked and proved on the fence, which they implement.
* A blocked outcome stands for the plain, the environment and the terminal
  block: whether `prepare` resumes it is a choice.
* Validation of frozen inputs succeeds. A validation error is an exception, and
  `WorkRaises` and `HandOff` raise wherever one can leave the handler.
* `execute_job` and the first reads of a handler are one step. Nothing is decided
  between them that a later conditional write does not check again.
* `recover_orphaned_work` looks for pending tasks under a running plan. A plan
  has one task and is pending with it, so that part never finds a row and is no
  action.
* `recover_unapplied_decisions` is not an action.
* `WorkflowJobs` and `BuildPipeline` meet at the hand-off: the first has one task,
  its job and one owed follow-up, the second all plans and no jobs. `JobsSettle` of the
  first is why a hand-off in the second is made or given up. Claims and results of the
  second's tasks are taken to come; a task whose job is exhausted is shown to the user
  with a retry, which is again a claim.
* Documents, reports and source texts are values; a document's validation succeeds
  or is one more way to fail.
* In `IndependentQA` a criterion has one test and a locator stands for everything an
  adaptation may change, so what an assertion says and how a page is reached stay
  apart.
* A quality report in `WorkflowJobs` may end the run (passed), owe nothing (await the user, repair
  rounds used up), or owe a repair.

## 3. The runs

| Run | Instance | Shows |
| --- | --- | --- |
| `fence` | all three recipients, 3 attempts, 2 units of progress | the fence's type, dense attempts, one owner, no attempt in a closed task, one result by the newest live owner; ended attempts stay ended; recovery loses no progress |
| `jobs_workers` | Test Engineer task, 2 workers, 1 thread, 2 attempts per job; Continue, pause, cancel; crashes, errors, both leases | a job succeeds only after the hand-off is done; a live execution has one actor |
| `jobs_owner` | Architect or Code Engineer task, 1 worker, 1 thread; Continue, pause, cancel; crashes, errors, lost job leases (expired execution leases are in the other runs of jobs) | rows and actors keep their types, a cancelled run stays closed, and every step implements the fence (`FenceSpec`, as a property) |
| `liveness` | Code Engineer or Test Engineer task, 2 workers, 1 attempt per job, every fault | every active job is settled, no execution keeps the slot for ever |
| `pipeline` | 2 callers, 5 plans, 2 runs, 2 quality cycles, 1 plan of the Leader's own per run | no other plan forks the chain, the Leader's recorded decision stands, a page says "stopped" in one situation only, a run without a plan of the Leader's releases what was approved, and every step is a step of `Delivery` (`KeepsThePromise`) |
| `pipeline_live` | 1 caller, 7 plans, 2 quality cycles, 1 plan of the Leader's own, hand-offs that are given up | cycles are bounded; an active run comes back to the user, ends, or is in one of the dead ends that `DeadEnd` names |
| `engineering` | 2 workers in one live execution, 2 work items, 3 versions, lapsing leases | published code passes its checks and every inherited probe; no file is overwritten unseen |
| `engineering_live` | a repair, one owner per execution, 1 crash, 1 retry by the user | budgets, stop-loss and a generated result survive recovery; every execution ends |
| `work_memory` | 2 files of 2 and 1 lines, one evidence slot, 1 edit or outside change per file | the memory claims nothing the model was not shown; a loop without progress ends |
| `authoring` | both roles, 2 callers, 3 attempts, 3 turns, 3 sources, 2 documents | the draft counts every paid request and marks nothing unread as read; one document |
| `quality` | 2 tests, 2 versions, 2 contracts, 1 defect, 10 turns and 1 execution with 1 more of each by grant, 2 attempts, 2 tasks | the checkpoint stays readable while its resolutions are within the limit; a passed report, also after a resolved defect, is backed by one execution of the shipped suite |
| `preview` | 1 project, 3 ports, 2 sessions, 1 published revision, 1 failure | no container, proxy or port is forgotten, save what `asked` and `lost` record; what is ready is whole |

Every property has a mutant in `PROJECT.json`: a plausible slip in the code, under
which the same run finds the property violated.

**Why these bounds.** Two workers and one thread are what it takes for each race of
the hazard list of jobs: a worker against the recovery of the other, a worker
against the owner. Three attempts let a superseded attempt wake up beside the failed
and the live one; two attempts of a job reach its last retry, in `jobs_owner` and
`jobs_workers`. In `liveness` a job has one attempt, so it never waits for a retry there:
what settles it is its end or the recovery. The runs of jobs set
`MaxExecutions` to 2 or 3: an attempt beyond it is not started and the caller waits
there. In `pipeline` two callers hold two decisions at once, or one a decision and one a
plan of the Leader; five plans reach the first report on the designed path, also by
way of a plan of the Leader, and a second run is a revision after it. A longer chain
(validation, repair, second validation, and after a challenge a revised intent) needs
seven plans, which `pipeline_live` has with one caller. In `engineering` two work items
show that the loop goes on after the first; three versions are one that is not what
was asked for, one that lost the inherited probe and one that does not build; four
calls suffice to edit, restore and complete. In `work_memory` one evidence slot for
two files makes reads evict each other, and an excerpt as long as the limit makes
fragments merge and be cut. In
`authoring` three attempts are the published one, the one that lost its lease and the
one that takes over; two inspections for three sources reach the limit. `quality`
has the turns that two versions, two executions, a defect with its retest and resolution,
the checks and a report take, and one more by a grant; the limit of resolutions is not
exceeded with one defect, the theorem has any number. In `preview` two sessions are a
session and the one that replaces it, three ports leave the second boot with one, and one
failure is a container that exits, a check that times out, or a start or a removal that
fails. Workers, callers, projects, tests and
documents are interchangeable, so the safety runs use symmetry; the runs with
liveness do not. `CHECK_DEADLOCK FALSE` stands where the work is done or a bound of
the instance is reached.

### Where the code and what is said of it part

The models contain the following behaviours. They are stated here and in the
modules' comments; the runs above check what holds beside them.

Eight can be shown by TLC: put the property in a configuration with these constants
(bounds of 2; one worker and one thread, two workers for the first).

| Property | Constants | Behaviour |
| --- | --- | --- |
| `ExclusiveExecution` | engineering, Continue | between a worker's claim and its `attach_execution` a poll finds no job attached to the live execution, refresh-claims it and enqueues `engineering:{execution}`: two workers run the same loop (`services/requirements.py:541`, against `orchestration/leader.py:27`) |
| `PausedRunIsQuiet` | quality, pause | pause waits for the run's lock but reads task and execution in the snapshot that authentication opened; what started in between goes on in the paused run (`services/requirements.py:713`, against `src/docs/architecture.md:34`) |
| `CancelledRunHasNoActiveJob` | quality, cancel, errors | `fail_job` writes `retry_wait` over a job that was cancelled after it read it (`services/workflow_jobs.py:249`, against `services/run_control.py:24`) |
| `RecoveryFencesTheAttempt` | engineering, 3 attempts, crash, error, job lease | a retry died between its claim and `attach_execution`; recovery ends the attached, old execution and the new one stays live (`services/workflow_jobs.py:334`, against `src/docs/architecture.md:45`) |
| `UnpublishedCodeCanContinue` | engineering, 1 attempt per job, Continue, errors | publication of a generated checkpoint failed until the job was exhausted; the status is `engineering_generated` without a code item and Continue has nothing to do with it (`services/requirements.py:1268`, against line 1258) |
| `PendingTaskGetsAJob` (with `FairSpec`) | engineering, crash | the request died between the task and its job; the scan for pending tasks requires a running plan (`services/workflow_jobs.py:488`, against `src/docs/architecture.md:318`) |
| `BuiltFromApproval` of `BuildPipeline` | 1 caller, 4 plans, 1 run, `LeadBound` 1 | the Leader's own plan may name as its input a requirement that was published and not approved, and code is built from it (`services/leader_next_action.py:565`, against the docstring of `load_approved_app_spec`, `services/engineering/handoff.py:69`) |
| `ChangeAccepted` of `BuildPipeline` | 1 caller, 3 plans, 2 runs, `LeadBound` 1 | the first run was cancelled before anything was approved; a revision needs a baseline, so the project takes no change any more, although the owner was invited to describe the next one (`services/run_revision.py:52`, against `services/leader_next_action.py:528`) |

Others are visible in the actions:

* `fail_job` without an attached execution ends whichever execution of the task is
  running, also the owner's (`VictimOf`; against `services/task_execution.py:210`).
* `claim_code_engineer_task` does not look at `paused_at` (`ClaimEngineering`).
* Continue of an Architect task that dies between publication and hand-off leaves
  nobody to redo it (`ContinueRole`, `Crash`; in `BuildPipeline`, `GiveUpHandOff`). The
  page calls the active run stopped (`StoppedMeansOver`), also while the hand-off is only
  under way, and so takes a message that asks for a repair.
* The Leader answers such a message with a plan that is saved as given
  (`services/leader_next_action.py:565`): it forks the chain and goes to the Code
  Engineer although a design was decided on. `NoFork` and `DecisionHonoured` speak of
  every other plan. While such a plan is pending the page shows a conflict, because it
  looks for a task with the message of the plan before (`PendingShown`).
* A blocked report in the last cycle leaves the run active, and neither Continue nor a
  retry takes it up: a failed one would have ended the run
  (`orchestration/test_engineer.py:248`, `services/leader.py:1078`). A design or a failed
  report whose hand-off was given up is as stuck, and so is the revision, asked for in a
  challenge, of a baseline that was repaired: its input is of another run, so its task is
  never claimed (`InputLoads`, `services/app_spec.py`). `DeadEnd` names these and the
  runs with a plan of the Leader's own; only cancel ends them.
* A revision by the user after a challenge earns one validation beyond
  `MAX_QUALITY_CYCLES` (`CyclesBounded` states the sum).
* An Architect that used up its inspections before `read_artifact` is told to submit
  (`tools/architect.py:146`), which `MaySubmit` refuses for ever; a reading that failed
  stays reserved and is answered as already read; exhausted turns stay exhausted in
  every later attempt (`Exhaust`).
* `_record_action` does not look at the outcome again, so with two workers in one
  execution a late edit lands in a generated checkpoint (`RecordEdit`;
  `GeneratedStands` is therefore checked with one owner). `Publish` compares the
  snapshot with the verified source, so such code is never published.
* After the last grant, Continue of a Test Engineer task is refused although the task
  stays open (`Continue`); results of checks without a source hash are dropped at
  publication (`Persisted`).
* A Test Engineer may record and resolve more than 100 defects; the checkpoint is then
  refused as damaged by every later attempt (`Restorable`, `FewResolutions`;
  `services/qa_verification.py:365`). `CheckpointStaysReadable` says that nothing else
  makes it so.
* A preview that is stopped before the docker client has made its container removes
  nothing, and the container comes afterwards (`ContainerComes`,
  `runtime/preview.py:143`); a removal the daemon fails is not tried again (`Remove`,
  `runtime/preview.py:161`); one that raises skips the release of the ports
  (`RemoveRaises`, `services/preview.py:635`); and a boot that finds no second port
  forgets the first (`FindPreviewPort`, `services/preview.py:538`). `NothingForgotten`
  excepts exactly these, by `asked` and `lost`.
* Deployment, which is not modelled: two requests can both start one, a port is only
  probed and not held, a crash between the ready commit and the cut-over leaves the
  old version serving, a rolled-back job deploys again when it is retried.

### Fairness

`FairSpec` of `WorkflowJobs` assumes of the code's scheduling:

* a process that is not dead runs its next transaction (weak fairness per worker
  and per API thread; the worker's loop runs for ever, request threads run to
  their end);
* workers poll for jobs and scan for expired ones (`run_forever`, weak fairness
  of the claim and of the scan per job, of the orphan scan per execution);
* a lease that nobody renews runs out (weak fairness of an abandoned lease only,
  a renewed lease may live for ever);
* strong fairness of `RecoverExpiredJob` and `RecoverOrphanedWork`: a worker that scans
  again and again does not die in every one of its recoveries. Without it a crash in every
  recovery would keep a job unsettled for ever, and no program could help.

`WithinBound` restricts both liveness properties to behaviours that do not run into
the instance's bounds.

`FairSpec` of `BuildPipeline` is weak throughout: the first plan is made, tasks of workers
are claimed and completed, and a hand-off is made or given up (`HandOffEnds`), because a
job is claimed again until it is done or exhausted, which is what `liveness` shows. A
request that has begun runs to its end, if only by a provider timeout. `FairSpec` of `EngineeringLoop`: a worker that may take the task joins and
runs its next step (weak); crashes are bounded because each spends a claim of the job.
`FairSpec` of `WorkMemory`: the loop takes the next turn and the model answers it with
some call, whichever.

No fairness is assumed anywhere of the owner, of crashes, of errors or of the content
of an answer.

## 4. The proofs

`tlapm` checks every step of the eight proof modules, for every number of workers,
threads, callers, plans, sources, files, tests, ports, sessions, turns and attempts and
every set of faults, from the assumptions on constants named in the modules
(`RecipientsAssumption`, `MaxExecutionsAssumption`, `MaxProgressAssumption`,
`ActorAssumption`, `AttemptAssumption`, `BoundAssumption`, `NoOneAssumption`,
`LoopAssumption`, `MemoryAssumption`, `AuthoringAssumption`, `QAAssumption`,
`PreviewAssumption`). They say that bounds are numbers in the order of the settings, that names of different things differ (an owner that nobody
has is no caller: owners are random tokens) and that the first source is one of the
sources. Three theorems about the engineering loop have a hypothesis besides, named
below: one owner per execution.

**The fence.** `FenceInv` conjoins the type, `DenseAttempts`, `OneLiveExecution`,
`RunningNeedsOpenTask` and `ResultMatchesTask`. None is inductive alone: that a
new attempt overwrites no row needs dense numbers; that a published or cancelled
task has nothing running needs one running attempt at most; that the publisher is
the newest attempt for ever needs that none starts in a closed task. `FenceNextInv`
has one step per transaction. The three action properties follow from it:
`FencedForEver`, `OnlyALiveOwnerPublishes`, `RecoveryKeepsProgress`.

**Jobs implement the fence.** `StepRefinesFence` shows that under `FenceInv` every
step of workers, recoveries, threads, crashes and leases is a step of the fence
or leaves it alone. The refinement mapping is the identity on the fence's
variables, the work is in the values the actors carry: an actor may hold any
stale number, and the transaction it runs with it must still be one the fence
allows. So all theorems about the fence hold of the whole system
(`JobsKeepFenceInv`, `JobsImplementFence`).

**Jobs.** `JobsInv` adds the types of rows and actors and that a busy worker has a
job, unless it looks at an orphan. `JobsTypeCorrect` needs that a row flushed column by column over a row that
others changed is still a row. `RowStep` says that only `complete_job` makes a job
succeed.

**What follows a result.** `FollowUp` says what a program counter promises: an
actor that hands off has a result, one that completes has handed off. With
`RowStep` it is inductive and gives `JobEndsAfterHandOff`. `Move` says how one
actor may move, `NextMoves` that every step moves at most one actor so.

**One actor.** For the Architect and the Test Engineer an actor comes to hold an
execution only by starting the next attempt, so two never hold the same
(`OwnStarted`, `RoleExecutionIsExclusive`). For the engineering loop this is
false (section 3): `claim_code_engineer_task` hands a live
execution back to whoever asks.

**Cancel.** `CancelledRunStaysClosed` follows from `FenceInv` and the guard of
`HandOff`.

**Authors.** `AuthoringInv` is about what the memory of a caller has to do with the
saved draft. `Mirrors`: the newest attempt holds what the draft says, up to the tools
of the present turn, and while it is in the loop no document is saved. `Distinct`: no
two callers have the same attempt, so nobody else writes the draft. `Counted`: requests
sent plus callers about to send one are at most the turns of the draft; the cardinality
of the callers in `call` is what makes `calls <= turns` inductive, since a caller whose
lease is gone still sends the request it has reserved. `Agreed`: whoever is past the
loop holds the saved document, which is never replaced because an attempt that finds
one does not enter the loop. `TheCheckpointIsTrue` and `TheDocumentIsOne` follow.

**The chain of plans.** Nothing of `NoFork` or `DecisionHonoured` is inductive as it
stands, because a caller may hold an item, a report, a decision or a plan that is several
plans old. `PipelineInv` has two parts. `RunInv` holds of every run:

* `PlansStand`: a plan refers to earlier plans and agrees with the status of the run
  (`Linked`), what was claimed had the input its role works on (`Loaded`), and each plan
  that is not the Leader's own continues its predecessor (`Follows`);
* `LatestFits`: the stage of the run is that of its latest plan;
* `DecisionsStand`: the decision of an item is the answer saved for it, and the holder
  of its lease has that answer in hand; a caller that lost the lease may hold anything;
* `CallersStand`: a caller between "repair" and the repair's plan holds a report that
  asked for it, and if that report is still the latest plan, a cycle is left; a plan of
  the Leader's follows no validation;
* `Room`: cycles used up to the bound plus one for each revision the user made.

`WorkflowInv` holds until the Leader puts a plan of its own into the run, and such a plan
breaks each part of it:

* `RunFits`: only the latest plan is open, and its status agrees with the run's, so one
  commit that closes a plan or a run leaves nothing open behind it;
* `AsMeant`: a report is about the last code before it (`Wired`), and what a plan works on
  is the intent approved last when it was made (`Meant`, which counts the approvals);
* `ReleaseStands`: what a succeeded run shipped is what was approved last.

`PipelineStep` has one lemma per transaction. Those that add a plan go through one
lemma about an appended plan, those that close the latest one through one about a
changed last plan: what is true of the older plans does not depend on how the chain
grows. `ChainNeverForks`, `DecisionIsHonoured`, `StoppedIsStopped` and `CyclesAreBounded`
follow from `RunInv`, `ReleaseIsApproved` from both parts.

**The promise to the owner.** `PromiseIsKept` is the refinement: a `Delivery` behaviour is
read off the chain (the phase from the latest plan, the approvals from the approval
plans, the candidate from the last code). The initial state maps to `DeliveryInit`, and
under `PipelineInv` before and after it every transaction maps to a step of `Delivery` or
to none: an approval is `Approve`, published code is `Build`, a published report is `Pass`
or `Reject`, a plan staged after a report is `Recover`, a cancelled or failed run is `Stop`
and a revision of an approved project is `Reopen`; leases, decisions and claims are none.
The Leader's own plan, and whatever follows it in its run, is `Improvise`.
The invariant is what makes this true of
late callers: their plans are refused because the latest plan is not the one they saw.

**The engineering loop.** There are two inductive invariants, because there are two kinds
of claims. `LoopInv` holds with any number of workers in an execution: a cached result
that says "passed" is about a source that passes (`Proven`); from its first save the
draft has every inherited probe in its ledger, and no worker can hold a manifest without
them (`GoodDraft`, `GoodLoop`); what is generated is whole. From it `PublicationIsVerified`
and, as an action property, `EditsAreNotLost`. `OwnerInv` adds what needs one owner per
execution: no two workers have the live attempt, the owner's step agrees with draft and
workspace (`Owned`), limits grow only with the user's retries (`Granted`), the draft of a
retry that was claimed grants one budget more than the checkpoint and leaves the owner's
step a turn and a call, whatever the new attempt did before the write (`Retrying`), and a
generated draft is about the present workspace (`Stands`). From it `BudgetsAreKept`,
`GenerationStands` and `StopLossesHold`. Their hypothesis `~Shared` is the constant that
lets no second worker join, and it is needed: `ExclusiveExecution` is false of
engineering (section 3), and with two workers a late edit lands in a generated
checkpoint and an environment block may be recorded over a stop-loss.

**The working memory.** `MemoryInv` says of an entry of the cache that its excerpts have
a line each and none lies within another, that together they are within the limit of
lines, that its version is not newer than the source and, if it is the present version,
that only lines a read returned are called seen (`GoodCache`); of the coverage the same
(`GoodCoverage`). `MemoryTyped` and `SeenIsShown` follow. What the operators do is stated
once, for every list of excerpts: `KeptIs` (the kept excerpts are those of the
positions, in their order, each once), `CoalesceIs` (merging adds the lines of the new
excerpt and no others), `BoundedIs` (dropping the oldest leaves the limit) and `StoredIs`
(an entry joins the cache and the least used leaves it). That every rank below the
number of positions is taken is shown from a least counterexample (`EveryRankIsTaken`).
The projection of sources into the prompt stays unexpanded in the proof: it decides
whether a read is answered from memory, and such a read adds no line.

**The Test Engineer.** `CheckpointIsReadable` says that whatever was saved,
`restore_test_engineer_progress` accepts it, so every action must keep what the restore
checks: suites that only adapt (`SuitesKeep`), runs whose evidence fits their suite,
budgets within their grants (`Within`; `SpendFits` and `GrantFits` are its arithmetic),
resolutions that are proven. Its hypothesis `FewResolutions`, which is part of the
property, is the limit that no action keeps. To be inductive it needs `FrozenStands` (what was frozen is
what the shipped suite asserts, so a next version that keeps the frozen contract keeps
the previous suite's). `PassIsProven` adds `Recorded` (only a recorded defect has tests):
the single step that can make it false is the publication of a report, and there the gate
`Supports` and the readable checkpoint give each of its parts, the assertions as they
were frozen included.

**Previews.** A container, a proxy and a port pass from the boot thread's local variables
to the session, from there to a stop or to the thread's own cleanup. `PreviewInv` says
who has them at each place: before the handle is recorded only the thread (`Early`),
after that the session, the stop or the cleanup, or the runtime has been asked to remove
the container (`Late`, `ContainerOwned`, `ProxyOwned`); a container counts from the start
of its client on (`Runs`). The table shows every session that was not stopped, and a
stopped one only while its replacement is under way (`Tabled`); no two containers have
one runtime port (`OnePerPort`). `ReadyIsServed` follows from `Served`.
`NothingIsForgotten` adds `PortsOwned`: each reserved port that is not lost is in some
thread, session or stop that gives it back. The theorems have no hypothesis: late
containers, removals that fail or raise and boots without a second port are steps of the
model.

**Only model-checked.** The liveness properties (`JobsSettle`, `ExecutionsEnd` of both
modules, `NeverStranded`, `StallIsDetected`): fairness and ENABLED are outside the
prover's reach.

## 5. Not modelled, and the plan

* Workflow events: append-only streams with a number allocated as MAX + 1; read by the
  page only. A model would need the snapshots of the transactions that allocate.
* Deployment and the security gate: cut-over between compose projects, ports, a recovery
  job. Their hazards are listed in `PROJECT.json` without a property.
* `recover_unapplied_decisions` and the Leader's decision log; the classification and
  numbering of messages.
* The prompt context, the text of documents, reports and pages, the path rules and the
  archives of the workspace, what the image and dependency tools of the Code Engineer
  write, design edits in the preview, the browser steps inside a test script: data that no property
  here tells apart.
* LLM access, evaluation, authentication, schemas, sandbox image, templates and
  frontend: no shared state of their own, or a client of what is modelled. That
  `get_current_user` opens the snapshot of a request is part of the model of pause.

Worth doing next, in this order:

1. `Deployment` with the security gate, as a module of cut-overs, ports and a recovery job.
2. `WorkflowEvents`, with the snapshots of the transactions that allocate numbers.

## 6. Running it

    tlc -workers 2 -config fence.cfg MCExecutionFence
    tlc -workers 2 -config jobs_owner.cfg MCWorkflowJobs      # jobs_workers, liveness
    tlc -workers 2 -config pipeline.cfg MCBuildPipeline       # pipeline_live
    tlc -workers 2 -config engineering.cfg MCEngineeringLoop  # engineering_live
    tlc -workers 2 -config work_memory.cfg MCWorkMemory
    tlc -workers 2 -config authoring.cfg MCAuthoring
    tlc -workers 2 -config quality.cfg MCIndependentQA
    tlc -workers 2 -config preview.cfg MCPreview
    tlapm ExecutionFenceProofs.tla
    tlapm WorkflowJobsProofs.tla
    tlapm BuildPipelineProofs.tla
    tlapm EngineeringLoopProofs.tla
    tlapm WorkMemoryProofs.tla
    tlapm AuthoringProofs.tla
    tlapm IndependentQAProofs.tla
    tlapm PreviewProofs.tla

The runs take between seconds and two and a half minutes, the proofs a minute or two,
those about the chain of plans three.
