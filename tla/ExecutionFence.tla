--------------------------- MODULE ExecutionFence ---------------------------
(***************************************************************************)
(* The execution fence of one task of one build run: what the rows         *)
(* build_runs, tasks, task_executions and task_results promise, whoever    *)
(* calls and in whatever order.  Every action is one database transaction  *)
(* of services/task_execution.py, services/engineering/claim.py, the       *)
(* complete_* services, services/run_control.py or services/requirements.py*)
(* and is offered to every caller with every execution number.  Module     *)
(* WorkflowJobs adds the durable jobs, the workers and the API threads     *)
(* that really call them and is shown to implement this specification.     *)
(*                                                                         *)
(* A plan of this system holds exactly one task and is claimed, finished   *)
(* and cancelled in the task's own transaction, so the task stands for     *)
(* both.  An execution is named by its attempt number, 0 is None.  Time is *)
(* abstracted to the one bit the code looks at: has the lease expired?     *)
(***************************************************************************)
EXTENDS Naturals

CONSTANTS
    Recipients,     \* who the task may be for
    MaxExecutions,  \* bound on the attempts of the task
    MaxProgress     \* bound on the saved checkpoints of the task

Roles == {"architect", "quality", "engineering"}

ASSUME RecipientsAssumption == Recipients \subseteq Roles
ASSUME MaxExecutionsAssumption == MaxExecutions \in Nat \ {0}
ASSUME MaxProgressAssumption == MaxProgress \in Nat

VARIABLES
    run,        \* BuildRun: status and whether paused_at is set
    task,       \* Task: its recipient and its status (also the Plan's)
    execution,  \* TaskExecution rows by attempt number
    latest,     \* attempt number of the newest TaskExecution, 0 when there is none
    result      \* the execution that published the TaskResult, 0 when there is none

fenceVars == <<run, task, execution, latest, result>>

-----------------------------------------------------------------------------
Role == task.recipient
Attempts == 1 .. MaxExecutions
RunStatus == {"running", "succeeded", "cancelled"}
TaskStatus == {"pending", "running", "succeeded", "cancelled"}
ExecutionStatus ==
    {"none", "running", "failed", "succeeded", "superseded", "cancelled"}

\* What the resumable draft of an execution tells apart: how much progress it
\* holds and the outcome of its checkpoint.
\* Only the engineering loop has another outcome than "running".
Outcome == {"running", "blocked", "generated"}
RoleOutcomes == IF Role = "engineering" THEN Outcome ELSE {"running"}
Draft == [progress : 0 .. MaxProgress, outcome : Outcome]
EmptyDraft == [progress |-> 0, outcome |-> "running"]

TaskExecution == [status : ExecutionStatus, expired : BOOLEAN, draft : Draft]
NoTaskExecution == [status |-> "none", expired |-> FALSE, draft |-> EmptyDraft]

FenceTypeOK ==
    /\ run \in [status : RunStatus, paused : BOOLEAN]
    /\ task \in [recipient : Recipients, status : TaskStatus]
    /\ execution \in [Attempts -> TaskExecution]
    /\ latest \in 0 .. MaxExecutions
    /\ result \in 0 .. MaxExecutions

-----------------------------------------------------------------------------
(* The handoff transaction of the Leader has just committed the task.      *)
FenceInit ==
    /\ run = [status |-> "running", paused |-> FALSE]
    /\ task \in [recipient : Recipients, status : {"pending"}]
    /\ execution = [e \in Attempts |-> NoTaskExecution]
    /\ latest = 0
    /\ result = 0

Running(e) == e \in Attempts /\ execution[e].status = "running"
Live(e) == Running(e) /\ ~execution[e].expired

\* Slip: the lease is not compared with the clock.
RequireExecutionIgnoringLease(e) == e = latest /\ Running(e)

\* require_execution: the caller's number is the newest attempt and it still
\* holds an unexpired lease.
RequireExecution(e) == e = latest /\ Live(e)

CurrentDraft == IF latest = 0 THEN EmptyDraft ELSE execution[latest].draft

\* Slips: the predecessor keeps its active slot; the predecessor's draft is
\* not carried over; the attempt is numbered past its predecessor's successor.
NewAttemptWithoutSupersede ==
    /\ latest < MaxExecutions
    /\ latest' = latest + 1
    /\ execution' = [execution EXCEPT ![latest + 1] =
          [status |-> "running", expired |-> FALSE, draft |-> CurrentDraft]]

NewAttemptFromScratch ==
    /\ latest < MaxExecutions
    /\ latest' = latest + 1
    /\ execution' =
         [e \in Attempts |->
            IF e = latest + 1
            THEN [status |-> "running", expired |-> FALSE, draft |-> EmptyDraft]
            ELSE IF e = latest /\ Running(e)
                 THEN [execution[e] EXCEPT !.status = "superseded"]
                 ELSE execution[e]]

NewAttemptSkippingANumber ==
    /\ latest + 2 <= MaxExecutions
    /\ latest' = latest + 2
    /\ execution' =
         [e \in Attempts |->
            IF e = latest + 2
            THEN [status |-> "running", expired |-> FALSE, draft |-> CurrentDraft]
            ELSE IF e = latest /\ Running(e)
                 THEN [execution[e] EXCEPT !.status = "superseded"]
                 ELSE execution[e]]

\* The tail start_execution and claim_code_engineer_task share: a running
\* predecessor is superseded and the next attempt starts from its draft.
NewAttempt ==
    /\ latest < MaxExecutions
    /\ latest' = latest + 1
    /\ execution' =
         [e \in Attempts |->
            IF e = latest + 1
            THEN [status |-> "running", expired |-> FALSE, draft |-> CurrentDraft]
            ELSE IF e = latest /\ Running(e)
                 THEN [execution[e] EXCEPT !.status = "superseded"]
                 ELSE execution[e]]

-----------------------------------------------------------------------------
(* claim_architect_task, claim_test_engineer_task: first transaction.      *)
CanClaimTask == Role # "engineering" /\ run.status = "running" /\ task.status = "pending"

ClaimTask ==
    /\ CanClaimTask
    /\ task' = [task EXCEPT !.status = "running"]
    /\ UNCHANGED <<run, execution, latest, result>>

\* start_execution's early returns, for a request that recovers `recovery`.
CanStart(recovery) ==
    /\ run.status = "running"
    /\ ~run.paused
    /\ task.status = "running"
    /\ IF latest = 0
       THEN recovery = 0
       ELSE /\ ~Live(latest)
            /\ recovery = latest
            /\ execution[latest].status # "succeeded"

StartExecution(recovery) ==
    /\ Role # "engineering"
    /\ CanStart(recovery)
    /\ NewAttempt
    /\ UNCHANGED <<run, task, result>>

\* claim_code_engineer_task on a running task without a recovery number: the
\* live attempt is handed back unchanged.
CanRefresh(recovery) ==
    /\ run.status = "running"
    /\ task.status = "running"
    /\ recovery = 0
    /\ latest # 0
    /\ Live(latest)

CanRecover(recovery) ==
    /\ run.status = "running"
    /\ task.status = "running"
    /\ recovery # 0
    /\ recovery = latest
    /\ execution[latest].status # "succeeded"

CanClaimPending ==
    /\ run.status = "running"
    /\ task.status = "pending"
    /\ latest = 0

ClaimEngineering(recovery) ==
    /\ Role = "engineering"
    /\ CanRecover(recovery) \/ CanClaimPending
    /\ task' = [task EXCEPT !.status = "running"]
    /\ NewAttempt
    /\ UNCHANGED <<run, result>>

-----------------------------------------------------------------------------
(* save_execution_draft: progress and lease in one conditional UPDATE.     *)
(* The measured progress saturates at MaxProgress.                         *)
MoreProgress(p) == IF p < MaxProgress THEN p + 1 ELSE p

SaveDraft(e, outcome) ==
    /\ Live(e)
    /\ outcome \in RoleOutcomes
    /\ execution' = [execution EXCEPT ![e].draft =
                        [progress |-> MoreProgress(execution[e].draft.progress),
                         outcome |-> outcome]]
    /\ UNCHANGED <<run, task, latest, result>>

\* The saving tail of the engineering loop's prepare: a checkpoint that is not
\* generated is made runnable again (resume_blocked_checkpoint).
ResumeCheckpoint(e) ==
    /\ Role = "engineering"
    /\ Live(e)
    /\ execution[e].draft.outcome # "generated"
    /\ execution' = [execution EXCEPT ![e].draft.outcome = "running"]
    /\ UNCHANGED <<run, task, latest, result>>

\* Slip: the WHERE clause of the renewal forgets status and active_slot.
RenewExecutionWhateverItsStatus(e) ==
    /\ execution[e].status # "none"
    /\ execution' = [execution EXCEPT ![e].status = "running", ![e].expired = FALSE]
    /\ UNCHANGED <<run, task, latest, result>>

\* heartbeat_job renews the attached execution while it is running, also when
\* that execution's own lease has run out.
RenewExecution(e) ==
    /\ Running(e)
    /\ execution' = [execution EXCEPT ![e].expired = FALSE]
    /\ UNCHANGED <<run, task, latest, result>>

\* EXECUTION_LEASE passes without a renewal.
ExpireExecution(e) ==
    /\ Live(e)
    /\ execution' = [execution EXCEPT ![e].expired = TRUE]
    /\ UNCHANGED <<run, task, latest, result>>

\* fail_execution: conditional UPDATE of one's own running execution.
FailExecution(e) ==
    /\ Running(e)
    /\ execution' = [execution EXCEPT ![e].status = "failed"]
    /\ UNCHANGED <<run, task, latest, result>>

\* fail_job and recover_expired_jobs write "failed" into an execution they
\* read as running in an unlocked SELECT: by then it may have ended.
OverwriteFailed(e) ==
    /\ e \in Attempts
    /\ execution[e].status # "none"
    /\ execution' = [execution EXCEPT ![e].status = "failed"]
    /\ UNCHANGED <<run, task, latest, result>>

\* complete_architect_task, complete_code_engineer_task and
\* complete_test_engineer_task; a passed quality report also ends the run.
CanPublish(e) ==
    /\ result = 0
    /\ task.status = "running"
    /\ RequireExecution(e)
    /\ Role = "engineering" => execution[e].draft.outcome = "generated"

\* Slip: the result is saved and the execution ended, the task is forgotten.
PublishLeavingTheTaskOpen(e) ==
    /\ CanPublish(e)
    /\ result' = e
    /\ execution' = [execution EXCEPT ![e].status = "succeeded"]
    /\ UNCHANGED <<run, task, latest>>

Publish(e) ==
    /\ CanPublish(e)
    /\ result' = e
    /\ task' = [task EXCEPT !.status = "succeeded"]
    /\ execution' = [execution EXCEPT ![e].status = "succeeded"]
    /\ \/ run' = run
       \/ Role = "quality" /\ run' = [run EXCEPT !.status = "succeeded"]
    /\ UNCHANGED latest

-----------------------------------------------------------------------------
\* Slip: the fenced execution gets a status of its own.
PauseWithItsOwnStatus(e) ==
    /\ run.status = "running"
    /\ ~run.paused
    /\ run' = [run EXCEPT !.paused = TRUE]
    /\ IF e = 0
       THEN UNCHANGED execution
       ELSE Running(e) /\ execution' = [execution EXCEPT ![e].status = "paused"]
    /\ UNCHANGED <<task, latest, result>>

\* pause_active_execution: the pause flag and the fence of the execution the
\* request knows of (0: it saw none); a lost fence rolls both back.
Pause(e) ==
    /\ run.status = "running"
    /\ ~run.paused
    /\ run' = [run EXCEPT !.paused = TRUE]
    /\ IF e = 0
       THEN UNCHANGED execution
       ELSE Running(e) /\ execution' = [execution EXCEPT ![e].status = "failed"]
    /\ UNCHANGED <<task, latest, result>>

\* continue_requirements on a paused run only lifts the pause.
Resume ==
    /\ run.paused
    /\ run' = [run EXCEPT !.paused = FALSE]
    /\ UNCHANGED <<task, execution, latest, result>>

\* Slip: cancel closes the run and the task and leaves the execution to its lease.
CancelLeavingTheExecution ==
    /\ run.status = "running"
    /\ run' = [run EXCEPT !.status = "cancelled"]
    /\ task' = [task EXCEPT !.status = IF @ \in {"pending", "running"} THEN "cancelled" ELSE @]
    /\ UNCHANGED <<execution, latest, result>>

\* cancel_active_run
Cancel ==
    /\ run.status = "running"
    /\ run' = [run EXCEPT !.status = "cancelled"]
    /\ task' = [task EXCEPT !.status = IF @ \in {"pending", "running"} THEN "cancelled" ELSE @]
    /\ execution' =
         [e \in Attempts |->
            IF Running(e) THEN [execution[e] EXCEPT !.status = "cancelled"]
                          ELSE execution[e]]
    /\ UNCHANGED <<latest, result>>

-----------------------------------------------------------------------------
FenceNext ==
    \/ ClaimTask
    \/ \E r \in 0 .. MaxExecutions : StartExecution(r) \/ ClaimEngineering(r)
    \/ \E e \in Attempts :
          \/ \E o \in Outcome : SaveDraft(e, o)
          \/ ResumeCheckpoint(e)
          \/ RenewExecution(e)
          \/ ExpireExecution(e)
          \/ FailExecution(e)
          \/ OverwriteFailed(e)
          \/ Publish(e)
    \/ \E e \in 0 .. MaxExecutions : Pause(e)
    \/ Resume
    \/ Cancel

FenceSpec == FenceInit /\ [][FenceNext]_fenceVars

-----------------------------------------------------------------------------
(* Properties                                                              *)

\* At most one attempt of a task is running and it is the newest one: the
\* active_slot of task_executions never has two owners and an old attempt can
\* never be the one that still holds it.
OneLiveExecution == \A e \in Attempts : Running(e) => e = latest

\* An attempt runs only while the run and the task do: after cancel_active_run
\* or after a published result there is nothing left that complete_*_task
\* would accept, although neither complete_*_task nor heartbeat_job looks at
\* the run's status.
RunningNeedsOpenTask ==
    \A e \in Attempts :
        Running(e) => run.status = "running" /\ task.status = "running" /\ result = 0

\* A task is succeeded exactly when its one TaskResult exists, and the attempt
\* that published it was the newest ever started.
ResultMatchesTask ==
    /\ task.status = "succeeded" <=> result # 0
    /\ result # 0 => result = latest

\* Attempt numbers are dense: rows exist for 1 .. latest and no others, so
\* latest_execution (ORDER BY attempt DESC) always finds the row it means.
DenseAttempts == \A e \in Attempts : execution[e].status = "none" <=> e > latest

\* A fenced attempt stays fenced: a failed, superseded, cancelled or succeeded
\* execution never runs again, whichever retry, heartbeat or recovery comes late.
FencedStaysFenced ==
    [][\A e \in Attempts :
          execution[e].status \notin {"none", "running"} => ~Running(e)']_fenceVars

\* The result of a task is written once, by the newest attempt, while it holds
\* an unexpired lease in a run that has not ended.
PublishedByLiveOwner ==
    [][result' # result =>
          result = 0 /\ result' = latest /\ Live(latest) /\ run.status = "running"]_fenceVars

\* Recovery never loses saved progress: the draft the newest attempt holds
\* never falls behind the draft the newest attempt held before.
ProgressNeverLost ==
    [][latest # 0 =>
          execution'[latest'].draft.progress >= execution[latest].draft.progress]_fenceVars
=============================================================================
