---------------------------- MODULE WorkflowJobs ----------------------------
(***************************************************************************)
(* The durable jobs of one task (services/workflow_jobs.py), the workers   *)
(* that claim them (worker.py) and the API threads that race with them     *)
(* (services/requirements.py), on top of the execution fence.              *)
(*                                                                         *)
(* An actor is a worker or an API thread; its pc names the next database   *)
(* transaction it will run.  attach_execution, complete_job, fail_job and  *)
(* recover_expired_jobs read rows, decide, and write later without holding *)
(* what they read, so each is a read step and a write step.  Every step    *)
(* takes one step of ExecutionFence or leaves the fence alone.             *)
(***************************************************************************)
EXTENDS ExecutionFence

CONSTANTS
    Workers,        \* DurableWorker instances
    Requests,       \* concurrent API threads of the run's owner
    NoOwner,        \* lease_owner IS NULL
    MaxJobAttempts, \* settings.workflow_job_max_attempts
    AttemptBound,   \* bound on the attempts of one job (a pause can exceed the maximum)
    Operations,     \* what the owner may ask for in this instance
    Faults          \* what may go wrong in this instance

ASSUME ActorAssumption == NoOwner \notin Workers /\ Workers \cap Requests = {}
ASSUME AttemptAssumption ==
    MaxJobAttempts \in Nat \ {0} /\ AttemptBound \in Nat /\ MaxJobAttempts <= AttemptBound

ASSUME InstanceAssumption ==
    /\ Operations \subseteq {"continue", "pause", "cancel"}
    /\ Faults \subseteq {"crash", "error", "job_lease", "execution_lease"}

VARIABLES
    jobs,    \* WorkflowJob rows of the task by idempotency key
    actor,   \* where each worker and API thread stands
    handed   \* the follow-up of the published result: owed, staged (task) or done (job)

vars == <<run, task, execution, latest, result, jobs, actor, handed>>

-----------------------------------------------------------------------------
(* Rows *)
Actors == Workers \cup Requests
Executions == 0 .. MaxExecutions

\* Idempotency keys: "{job_type}:{task_id}" of the dispatch,
\* "engineering:{execution_id}" and "recovery:{execution_id}".
DispatchKey == <<"dispatch", 0>>
EngineeringKey(e) == <<"engineering", e>>
RecoveryKey(e) == <<"recovery", e>>
NoKey == <<"none", 0>>
JobKeys == {DispatchKey} \cup {EngineeringKey(e) : e \in Attempts}
                         \cup {RecoveryKey(e) : e \in Attempts}

JobStatus == {"none", "queued", "running", "retry_wait", "succeeded", "failed", "cancelled"}
ActiveJobStatus == {"queued", "running", "retry_wait"}

WorkflowJob ==
    [status : JobStatus, attempt : 0 .. AttemptBound, owner : Workers \cup {NoOwner},
     lease : {"none", "valid", "expired"}, exec : Executions, recovery : Executions]
NoJob == [status |-> "none", attempt |-> 0, owner |-> NoOwner,
          lease |-> "none", exec |-> 0, recovery |-> 0]

Active(k) == jobs[k].status \in ActiveJobStatus
Owns(w, k) == jobs[k].status = "running" /\ jobs[k].owner = w

\* The unit of work of the ORM: only columns that differ from the row as it was
\* read are written, whatever the row holds by now.
Flush(k, read, new) ==
    [f \in DOMAIN read |-> IF new[f] = read[f] THEN jobs[k][f] ELSE new[f]]

Steps == {"idle", "begin", "claim", "start", "attach", "attach_write", "prepare",
          "work", "publish", "handoff", "handoff_job", "complete", "complete_write",
          "fail", "fail_write", "recover_write", "orphan", "dispatch", "enqueue", "pause"}

Actor ==
    [pc : Steps, job : JobKeys \cup {NoKey}, exec : Executions, recovery : Executions,
     fatal : BOOLEAN, read : WorkflowJob, victim : Executions]
Idle == [pc |-> "idle", job |-> NoKey, exec |-> 0, recovery |-> 0,
         fatal |-> FALSE, read |-> NoJob, victim |-> 0]

JobsTypeOK ==
    /\ FenceTypeOK
    /\ jobs \in [JobKeys -> WorkflowJob]
    /\ actor \in [Actors -> Actor]
    /\ handed \in {"owed", "staged", "done"}

\* The Leader's request has committed the task and is about to enqueue its job.
Init ==
    /\ FenceInit
    /\ jobs = [k \in JobKeys |-> NoJob]
    /\ \E r \in Requests :
          actor = [a \in Actors |-> IF a = r THEN [Idle EXCEPT !.pc = "dispatch"] ELSE Idle]
    /\ handed = "owed"

-----------------------------------------------------------------------------
(* Moving an actor *)
At(a, step) == actor[a].pc = step
Become(a, state) == actor' = [actor EXCEPT ![a] = state]
Goto(a, step) == Become(a, [actor[a] EXCEPT !.pc = step])

\* An exception leaves the handler: run_once turns it into fail_job, an API
\* thread answers with an error.
Raise(a, fatal) ==
    Become(a, IF a \in Workers
              THEN [Idle EXCEPT !.pc = "fail", !.job = actor[a].job, !.fatal = fatal]
              ELSE Idle)

\* recover_expired_jobs holds the row locks of the jobs it has read.
Locked(k) == \E w \in Workers : At(w, "recover_write") /\ actor[w].job = k

\* enqueue_job: an existing idempotency key wins, whatever its status.
Enqueue(k, e, recovery) ==
    jobs' = IF jobs[k].status # "none" THEN jobs
            ELSE [jobs EXCEPT ![k] =
                    [NoJob EXCEPT !.status = "queued", !.exec = e, !.recovery = recovery]]

-----------------------------------------------------------------------------
(* A worker takes a job *)

\* claim_next_job
ClaimNextJob(w, k) ==
    /\ At(w, "idle")
    /\ ~run.paused
    /\ ~Locked(k)
    /\ jobs[k].status \in {"queued", "retry_wait"}
    /\ jobs[k].attempt < AttemptBound
    /\ jobs' = [jobs EXCEPT ![k].status = "running", ![k].attempt = @ + 1,
                            ![k].owner = w, ![k].lease = "valid"]
    /\ Become(w, [Idle EXCEPT !.pc = "begin", !.job = k])
    /\ UNCHANGED <<fenceVars, handed>>

\* _latest_recovery_id
LatestRecovery ==
    IF latest = 0 \/ execution[latest].status = "succeeded" THEN 0 ELSE latest

RecoveryOf(job) ==
    CASE job.recovery # 0 -> job.recovery
      [] job.recovery = 0 /\ Role = "engineering" /\ job.exec # 0 -> job.exec
      [] OTHER -> LatestRecovery

\* Slip: every role continues the attached execution, as engineering does.
ExecuteJobOnAnyAttachedExecution(w) ==
    LET k == actor[w].job
        job == jobs[k]
    IN  /\ At(w, "begin")
        /\ IF ~Owns(w, k) THEN Raise(w, FALSE)
           ELSE IF result # 0 THEN Goto(w, "handoff")
           ELSE IF job.exec # 0 /\ Running(job.exec)
                THEN Become(w, [actor[w] EXCEPT !.pc = "work", !.exec = job.exec])
           ELSE Become(w, [actor[w] EXCEPT !.pc = "claim", !.recovery = RecoveryOf(job)])
        /\ UNCHANGED <<fenceVars, jobs, handed>>

\* execute_job and the head of _handle_architect, _handle_engineering and
\* _handle_quality.
ExecuteJob(w) ==
    LET k == actor[w].job
        job == jobs[k]
    IN  /\ At(w, "begin")
        /\ IF ~Owns(w, k) THEN Raise(w, FALSE)
           ELSE IF result # 0 THEN Goto(w, "handoff")
           ELSE IF Role = "engineering" /\ job.exec # 0 /\ Running(job.exec)
                THEN Become(w, [actor[w] EXCEPT !.pc = "prepare", !.exec = job.exec])
           ELSE Become(w, [actor[w] EXCEPT !.pc = "claim", !.recovery = RecoveryOf(job)])
        /\ UNCHANGED <<fenceVars, jobs, handed>>

\* claim_architect_task, claim_test_engineer_task: the task's own transaction.
ClaimRoleTask(a) ==
    /\ At(a, "claim")
    /\ Role # "engineering"
    /\ \/ ClaimTask /\ Goto(a, "start")
       \/ /\ run.status = "running" /\ task.status = "running"
          /\ Goto(a, "start")
          /\ UNCHANGED fenceVars
       \/ /\ run.status # "running" \/ task.status \notin {"pending", "running"}
          /\ Raise(a, FALSE)
          /\ UNCHANGED fenceVars
    /\ UNCHANGED <<jobs, handed>>

\* What follows a claimed execution: on_execution_started of a worker, the work
\* itself in an API thread, start_claimed_engineering for a code task.
AfterClaim(a, e) ==
    Become(a, [actor[a] EXCEPT !.exec = e, !.recovery = 0,
                 !.pc = IF a \in Workers THEN "attach"
                        ELSE IF Role = "engineering" THEN "enqueue" ELSE "work"])

\* start_execution, called by the claim_*_task services.
StartRoleExecution(a) ==
    /\ At(a, "start")
    /\ \/ StartExecution(actor[a].recovery) /\ AfterClaim(a, latest + 1)
       \/ ~CanStart(actor[a].recovery) /\ Raise(a, FALSE) /\ UNCHANGED fenceVars
    /\ UNCHANGED <<jobs, handed>>

\* claim_code_engineer_task, called by a worker, by Continue or by a poll.
ClaimCodeEngineerTask(a) ==
    LET recovery == actor[a].recovery
    IN  /\ At(a, "claim")
        /\ Role = "engineering"
        /\ \/ ClaimEngineering(recovery) /\ AfterClaim(a, latest + 1)
           \/ CanRefresh(recovery) /\ AfterClaim(a, latest) /\ UNCHANGED fenceVars
           \/ /\ ~(CanRefresh(recovery) \/ CanRecover(recovery) \/ CanClaimPending)
              /\ Raise(a, FALSE)
              /\ UNCHANGED fenceVars
        /\ UNCHANGED <<jobs, handed>>

\* attach_execution
ReadForAttach(w) ==
    LET k == actor[w].job
    IN  /\ At(w, "attach")
        /\ IF Owns(w, k)
           THEN Become(w, [actor[w] EXCEPT !.pc = "attach_write", !.read = jobs[k]])
           ELSE Raise(w, FALSE)
        /\ UNCHANGED <<fenceVars, jobs, handed>>

AttachExecution(w) ==
    LET k == actor[w].job
        read == actor[w].read
    IN  /\ At(w, "attach_write")
        /\ ~Locked(k)
        /\ jobs' = [jobs EXCEPT ![k] =
                      Flush(k, read, [read EXCEPT !.exec = actor[w].exec, !.recovery = 0])]
        /\ Become(w, [actor[w] EXCEPT !.read = NoJob,
                        !.pc = IF Role = "engineering" THEN "prepare" ELSE "work"])
        /\ UNCHANGED <<fenceVars, handed>>

-----------------------------------------------------------------------------
(* The role works *)

\* The engineering loop's prepare.  A blocked checkpoint is resumed (a later
\* attempt, or a check environment that may be back) or stays blocked (the
\* first attempt, or a terminal failure).
PrepareEngineering(w) ==
    LET e == actor[w].exec
    IN  /\ At(w, "prepare")
        /\ \/ /\ ~(e = latest /\ Running(e))
              /\ Raise(w, TRUE)
              /\ UNCHANGED fenceVars
           \/ /\ e = latest /\ Running(e) /\ execution[e].draft.outcome = "generated"
              /\ Goto(w, "publish")
              /\ UNCHANGED fenceVars
           \/ /\ e = latest /\ Running(e) /\ execution[e].draft.outcome = "blocked"
              /\ Raise(w, TRUE)
              /\ UNCHANGED fenceVars
           \/ e = latest /\ ResumeCheckpoint(e) /\ Goto(w, "work")
           \/ /\ e = latest /\ Running(e) /\ ~Live(e)
              /\ execution[e].draft.outcome # "generated"
              /\ Raise(w, TRUE)
              /\ UNCHANGED fenceVars
        /\ UNCHANGED <<jobs, handed>>

\* A step of the role's loop that commits its checkpoint.
SaveProgress(a) ==
    LET e == actor[a].exec
    IN  /\ At(a, "work")
        /\ e = latest
        /\ \E outcome \in Outcome :
              /\ SaveDraft(e, outcome)
              /\ CASE outcome = "running" -> UNCHANGED actor
                   [] outcome = "blocked" -> Raise(a, TRUE)
                   [] outcome = "generated" -> Goto(a, "publish")
        /\ UNCHANGED <<jobs, handed>>

\* The Architect or the Test Engineer has its result in hand.
FinishRoleWork(a) ==
    /\ At(a, "work")
    /\ Role # "engineering"
    /\ Goto(a, "publish")
    /\ UNCHANGED <<fenceVars, jobs, handed>>

\* The except branch of a role: fail_execution ends its own execution only.
EndOwnExecution(a) ==
    LET e == actor[a].exec
    IN  IF Role # "engineering" /\ Running(e) THEN FailExecution(e) ELSE UNCHANGED fenceVars

\* The provider, a check or a tool ends the loop or the publication with an
\* exception.
WorkRaises(a, fatal) ==
    /\ At(a, "work") \/ At(a, "publish")
    /\ EndOwnExecution(a)
    /\ Raise(a, fatal)
    /\ UNCHANGED <<jobs, handed>>

\* A save or a publication the fence refuses.  The engineering loop reports it
\* as a pause, which is not retried; its publication and the other roles raise
\* the conflict itself.
LoseFence(a) ==
    /\ \/ At(a, "work") /\ ~RequireExecution(actor[a].exec)
       \/ At(a, "publish") /\ result = 0 /\ ~CanPublish(actor[a].exec)
    /\ EndOwnExecution(a)
    /\ Raise(a, Role = "engineering" /\ At(a, "work"))
    /\ UNCHANGED <<jobs, handed>>

\* complete_*_task; a result that is already saved is answered as a replay.
PublishResult(a) ==
    /\ At(a, "publish")
    /\ \/ Publish(actor[a].exec)
       \/ result # 0 /\ UNCHANGED fenceVars
    /\ Become(a, [Idle EXCEPT !.pc = "handoff", !.job = actor[a].job])
    /\ UNCHANGED <<jobs, handed>>

-----------------------------------------------------------------------------
(* The result is handed on *)

AfterHandOff(a) == IF a \in Workers THEN Goto(a, "complete") ELSE Become(a, Idle)

\* Slips: a failed hand-off is logged and swallowed; the run is not looked at.
HandOffSwallowingErrors(a) ==
    /\ At(a, "handoff")
    /\ \/ /\ handed # "owed" \/ run.status = "running"
          /\ handed' = IF handed = "owed" THEN "staged" ELSE handed
          /\ Goto(a, "handoff_job")
       \/ /\ (handed = "owed" /\ run.status # "running") \/ "error" \in Faults
          /\ AfterHandOff(a)
          /\ UNCHANGED handed
    /\ UNCHANGED <<fenceVars, jobs>>

HandOffOfAnyRun(a) ==
    /\ At(a, "handoff")
    /\ handed' = IF handed = "owed" THEN "staged" ELSE handed
    /\ Goto(a, "handoff_job")
    /\ UNCHANGED <<fenceVars, jobs>>

\* dispatch_completed_design, dispatch_completed_code and
\* route_completed_test_report: the follow-up task, or the one staged before.
\* A quality report that needs no repair owes nothing.
HandOff(a) ==
    /\ At(a, "handoff")
    /\ \/ /\ handed # "owed" \/ run.status = "running"
          /\ handed' = IF handed = "owed" THEN "staged" ELSE handed
          /\ Goto(a, "handoff_job")
       \/ /\ Role = "quality" /\ handed = "owed"
          /\ handed' = "done"
          /\ AfterHandOff(a)
       \/ /\ (handed = "owed" /\ run.status # "running") \/ "error" \in Faults
          /\ Raise(a, FALSE)
          /\ UNCHANGED handed
    /\ UNCHANGED <<fenceVars, jobs>>

\* start_dispatched_delivery or the enqueue_job of dispatch_code_validation.
HandOffJob(a) ==
    /\ At(a, "handoff_job")
    /\ handed' = "done"
    /\ AfterHandOff(a)
    /\ UNCHANGED <<fenceVars, jobs>>

\* complete_job
ReadForComplete(w) ==
    LET k == actor[w].job
    IN  /\ At(w, "complete")
        /\ IF Owns(w, k)
           THEN Become(w, [Idle EXCEPT !.pc = "complete_write", !.job = k, !.read = jobs[k]])
           ELSE Raise(w, FALSE)
        /\ UNCHANGED <<fenceVars, jobs, handed>>

CompleteJob(w) ==
    LET k == actor[w].job
        read == actor[w].read
    IN  /\ At(w, "complete_write")
        /\ ~Locked(k)
        /\ jobs' = [jobs EXCEPT ![k] =
                      Flush(k, read, [read EXCEPT !.status = "succeeded",
                                                  !.owner = NoOwner, !.lease = "none"])]
        /\ Become(w, Idle)
        /\ UNCHANGED <<fenceVars, handed>>

-----------------------------------------------------------------------------
(* A job fails, loses its lease or its execution is orphaned *)

Terminal(job, fatal) == fatal \/ job.attempt >= MaxJobAttempts

\* The execution fail_job and recover_expired_jobs end: the attached one, or any
\* running execution of the task when none is attached.  0 when it is not running.
VictimOf(job) ==
    LET attached == IF job.exec # 0 THEN job.exec ELSE latest
    IN  IF Running(attached) THEN attached ELSE 0

\* The job once its execution `victim` (0: none) has been ended.
Failed(job, victim, fatal) ==
    [job EXCEPT !.status = IF Terminal(job, fatal) THEN "failed" ELSE "retry_wait",
                !.owner = NoOwner, !.lease = "none",
                !.exec = IF victim # 0 THEN victim ELSE @,
                !.recovery = IF victim # 0 THEN victim ELSE @]

\* Slip: ending the execution also clears its draft.
EndVictimAndItsDraft(victim) ==
    IF victim # 0
    THEN /\ execution' = [execution EXCEPT ![victim].status = "failed",
                                            ![victim].draft = EmptyDraft]
         /\ UNCHANGED <<run, task, latest, result>>
    ELSE UNCHANGED fenceVars

EndVictim(victim) == IF victim # 0 THEN OverwriteFailed(victim) ELSE UNCHANGED fenceVars

\* fail_job
ReadForFail(w) ==
    LET k == actor[w].job
    IN  /\ At(w, "fail")
        /\ IF Owns(w, k)
           THEN Become(w, [actor[w] EXCEPT !.pc = "fail_write", !.read = jobs[k],
                                           !.victim = VictimOf(jobs[k])])
           ELSE Become(w, Idle)
        /\ UNCHANGED <<fenceVars, jobs, handed>>

FailJob(w) ==
    LET k == actor[w].job
        read == actor[w].read
    IN  /\ At(w, "fail_write")
        /\ ~Locked(k)
        /\ EndVictim(actor[w].victim)
        /\ jobs' = [jobs EXCEPT ![k] =
                      Flush(k, read, Failed(read, actor[w].victim, actor[w].fatal))]
        /\ Become(w, Idle)
        /\ UNCHANGED handed

\* Slip: only jobs that have attached an execution are recovered.
ReadForRecoveryOfAttachedJobs(w, k) ==
    /\ At(w, "idle")
    /\ ~Locked(k)
    /\ jobs[k].status = "running" /\ jobs[k].lease = "expired" /\ jobs[k].exec # 0
    /\ Become(w, [Idle EXCEPT !.pc = "recover_write", !.job = k, !.victim = VictimOf(jobs[k])])
    /\ UNCHANGED <<fenceVars, jobs, handed>>

\* recover_expired_jobs, run by an idle worker: the job row stays locked, the
\* execution row does not.
ReadForRecovery(w, k) ==
    /\ At(w, "idle")
    /\ ~Locked(k)
    /\ jobs[k].status = "running" /\ jobs[k].lease = "expired"
    /\ Become(w, [Idle EXCEPT !.pc = "recover_write", !.job = k, !.victim = VictimOf(jobs[k])])
    /\ UNCHANGED <<fenceVars, jobs, handed>>

RecoverExpiredJob(w) ==
    LET k == actor[w].job
    IN  /\ At(w, "recover_write")
        /\ EndVictim(actor[w].victim)
        /\ jobs' = [jobs EXCEPT ![k] = Failed(jobs[k], actor[w].victim, FALSE)]
        /\ Become(w, Idle)
        /\ UNCHANGED handed

\* recover_orphaned_work: the scan finds an expired execution of a run that is not
\* paused, without a lock (one whose job is active is looked at again by a later scan)...
ScanOrphans(w, e) ==
    /\ At(w, "idle")
    /\ run.status = "running" /\ ~run.paused
    /\ Running(e) /\ execution[e].expired /\ \A k \in JobKeys : ~Active(k)
    /\ Become(w, [Idle EXCEPT !.pc = "orphan", !.victim = e])
    /\ UNCHANGED <<fenceVars, jobs, handed>>

\* Slip: a task that ever had a job is not an orphan, whatever became of the job.
RecoverWorkThatNeverHadAJob(w) ==
    LET e == actor[w].victim
    IN  /\ At(w, "orphan")
        /\ IF Running(e) /\ execution[e].expired /\ \A k \in JobKeys : jobs[k].status = "none"
           THEN FailExecution(e) /\ Enqueue(RecoveryKey(e), e, e)
           ELSE UNCHANGED <<fenceVars, jobs>>
        /\ Become(w, Idle)
        /\ UNCHANGED handed

\* ... and with its row locked, an execution of a task without an active job ends and
\* gets a recovery job, unless its checkpoint is blocked.  The run is not looked at again.
RecoverOrphanedWork(w) ==
    LET e == actor[w].victim
    IN  /\ At(w, "orphan")
        /\ IF Running(e) /\ execution[e].expired /\ \A k \in JobKeys : ~Active(k)
           THEN /\ FailExecution(e)
                /\ IF execution[e].draft.outcome = "blocked"
                   THEN UNCHANGED jobs
                   ELSE Enqueue(RecoveryKey(e), e, e)
           ELSE UNCHANGED <<fenceVars, jobs>>
        /\ Become(w, Idle)
        /\ UNCHANGED handed

\* heartbeat_job: the worker's own job renews its attached execution.
HeartbeatJob(w) ==
    LET k == actor[w].job
    IN  /\ k # NoKey
        /\ ~Locked(k)
        /\ Owns(w, k) /\ jobs[k].lease = "valid"
        /\ RenewExecution(jobs[k].exec)
        /\ execution[jobs[k].exec].expired
        /\ UNCHANGED <<jobs, actor, handed>>

\* Time passes without a renewal.
ExpireJobLease(k) ==
    /\ jobs[k].status = "running" /\ jobs[k].lease = "valid"
    /\ jobs' = [jobs EXCEPT ![k].lease = "expired"]
    /\ UNCHANGED <<fenceVars, actor, handed>>

ExpireExecutionLease(e) == ExpireExecution(e) /\ UNCHANGED <<jobs, actor, handed>>

\* A worker or the API process dies between two transactions.
Crash(a) ==
    /\ ~At(a, "idle")
    /\ Become(a, Idle)
    /\ UNCHANGED <<fenceVars, jobs, handed>>

-----------------------------------------------------------------------------
(* The owner's requests *)

\* start_dispatched_delivery, dispatch_code_validation: enqueue the task's job.
DispatchTask(r) ==
    /\ At(r, "dispatch")
    /\ IF task.status \in {"pending", "running"} THEN Enqueue(DispatchKey, 0, 0) ELSE UNCHANGED jobs
    /\ Become(r, Idle)
    /\ UNCHANGED <<fenceVars, handed>>

\* start_claimed_engineering
StartClaimedEngineering(r) ==
    /\ At(r, "enqueue")
    /\ Enqueue(EngineeringKey(actor[r].exec), actor[r].exec, 0)
    /\ Become(r, Idle)
    /\ UNCHANGED <<fenceVars, handed>>

\* get_requirements_status: the state it derives for the newest task.
Checkpoint == CurrentDraft.outcome
Status ==
    CASE run.status # "running" \/ task.status \notin {"pending", "running"} -> "stopped"
      [] run.status = "running" /\ task.status = "pending" ->
            IF run.paused THEN "retry_available" ELSE "pending"
      [] run.status = "running" /\ task.status = "running" ->
            IF latest # 0 /\ Checkpoint = "generated" THEN "generated"
            ELSE IF latest # 0 /\ Live(latest) /\ Checkpoint # "blocked" THEN "running"
            ELSE "retry_available"

\* is_engineering_active
EngineeringActive(e) == \E k \in JobKeys : jobs[k].exec = e /\ Active(k)

\* continue_requirements and continue_engineering on a run that is not paused,
\* and the poll's ensure_engineering_running: the status read decides which
\* transaction follows.
ContinueRole(r) ==
    /\ At(r, "idle")
    /\ Role # "engineering" /\ ~run.paused
    /\ Status \in {"pending", "retry_available"}
    /\ Become(r, [Idle EXCEPT !.pc = "claim",
                    !.recovery = IF Status = "pending" THEN 0 ELSE latest])
    /\ UNCHANGED <<fenceVars, jobs, handed>>

ContinueEngineering(r) ==
    /\ At(r, "idle")
    /\ Role = "engineering" /\ ~run.paused
    /\ \/ Status = "pending" /\ Become(r, [Idle EXCEPT !.pc = "dispatch"])
       \/ /\ Status \in {"retry_available", "running"} /\ latest # 0
          /\ ~EngineeringActive(latest)
          /\ Become(r, [Idle EXCEPT !.pc = "claim",
                          !.recovery = IF Status = "running" THEN 0 ELSE latest])
    /\ UNCHANGED <<fenceVars, jobs, handed>>

\* A published result whose hand-off never happened is offered as
\* engineering_generated with its code item: dispatch_code_validation runs again.
ContinueHandOff(r) ==
    /\ At(r, "idle")
    /\ Role = "engineering" /\ ~run.paused
    /\ run.status = "running" /\ result # 0 /\ handed = "owed"
    /\ Become(r, [Idle EXCEPT !.pc = "handoff"])
    /\ UNCHANGED <<fenceVars, jobs, handed>>

Continue(r) == ContinueRole(r) \/ ContinueEngineering(r) \/ ContinueHandOff(r)

\* pause_active_execution under REPEATABLE READ: the authentication query fixes
\* the snapshot in which the task and its execution are read ...
PauseSnapshot(r) ==
    /\ At(r, "idle")
    /\ Status \in {"pending", "running"}
    /\ Become(r, [Idle EXCEPT !.pc = "pause",
                    !.exec = IF Status = "pending" THEN 0 ELSE latest])
    /\ UNCHANGED <<fenceVars, jobs, handed>>

\* pause_jobs_for_run
PausedJob(job, e) ==
    IF job.status \notin ActiveJobStatus THEN job
    ELSE [job EXCEPT !.status = IF @ = "running" THEN "retry_wait" ELSE @,
                     !.owner = NoOwner, !.lease = "none",
                     !.exec = IF e # 0 THEN e ELSE @,
                     !.recovery = IF e # 0 THEN e ELSE @]

\* ... the locked run row is read afresh.  A fence that was lost rolls back.
PauseRun(r) ==
    LET e == actor[r].exec
    IN  /\ At(r, "pause")
        /\ \A k \in JobKeys : ~Locked(k)
        /\ \/ /\ Pause(e)
              /\ jobs' = [k \in JobKeys |-> PausedJob(jobs[k], e)]
           \/ /\ run.paused \/ run.status # "running" \/ (e # 0 /\ ~Running(e))
              /\ UNCHANGED <<fenceVars, jobs>>
        /\ Become(r, Idle)
        /\ UNCHANGED handed

ResumeRun(r) ==
    /\ At(r, "idle")
    /\ Resume
    /\ UNCHANGED <<jobs, actor, handed>>

\* Slip: the status of the job is misspelt.
CancelledJobMisspelt(job) ==
    [job EXCEPT !.status = IF @ \in ActiveJobStatus THEN "canceled" ELSE @,
                !.owner = NoOwner, !.lease = "none"]

\* cancel_jobs_for_run
CancelledJob(job) ==
    [job EXCEPT !.status = IF @ \in ActiveJobStatus THEN "cancelled" ELSE @,
                !.owner = NoOwner, !.lease = "none"]

\* cancel_active_run with its jobs
CancelRun(r) ==
    /\ At(r, "idle")
    /\ \A k \in JobKeys : ~Locked(k)
    /\ Cancel
    /\ jobs' = [k \in JobKeys |-> CancelledJob(jobs[k])]
    /\ UNCHANGED <<actor, handed>>

-----------------------------------------------------------------------------
WorkerStep(w) ==
    \/ \E k \in JobKeys : ClaimNextJob(w, k) \/ ReadForRecovery(w, k)
    \/ ExecuteJob(w) \/ ReadForAttach(w) \/ AttachExecution(w)
    \/ PrepareEngineering(w)
    \/ ReadForComplete(w) \/ CompleteJob(w)
    \/ ReadForFail(w) \/ FailJob(w)
    \/ RecoverExpiredJob(w)
    \/ \E e \in Attempts : ScanOrphans(w, e)
    \/ RecoverOrphanedWork(w)

HandlerStep(a) ==
    \/ ClaimRoleTask(a) \/ StartRoleExecution(a) \/ ClaimCodeEngineerTask(a)
    \/ SaveProgress(a) \/ FinishRoleWork(a)
    \/ "error" \in Faults /\ \E fatal \in BOOLEAN : WorkRaises(a, fatal)
    \/ LoseFence(a)
    \/ PublishResult(a) \/ HandOff(a) \/ HandOffJob(a)

RequestStep(r) ==
    \/ DispatchTask(r) \/ StartClaimedEngineering(r) \/ PauseRun(r)

UserAction(r) ==
    \/ "continue" \in Operations /\ Continue(r)
    \/ "pause" \in Operations /\ (PauseSnapshot(r) \/ ResumeRun(r))
    \/ "cancel" \in Operations /\ CancelRun(r)

Environment ==
    \/ "job_lease" \in Faults /\ \E k \in JobKeys : ExpireJobLease(k)
    \/ "execution_lease" \in Faults /\ \E e \in Attempts : ExpireExecutionLease(e)
    \/ "crash" \in Faults /\ \E a \in Actors : Crash(a)

Next ==
    \/ \E w \in Workers : WorkerStep(w) \/ HeartbeatJob(w)
    \/ \E a \in Actors : HandlerStep(a)
    \/ \E r \in Requests : RequestStep(r) \/ UserAction(r)
    \/ Environment

Spec == Init /\ [][Next]_vars

\* Fairness: a live process runs its next transaction (the durable worker loop
\* and the request threads), workers poll and scan, an abandoned lease runs out.
\* Strong fairness of the recovery: a worker that scans again and again does not
\* die in every one of its recoveries.
Fairness ==
    /\ \A w \in Workers :
          /\ WF_vars(HandlerStep(w))
          /\ WF_vars(ExecuteJob(w) \/ ReadForAttach(w) \/ AttachExecution(w)
                        \/ PrepareEngineering(w) \/ ReadForComplete(w) \/ CompleteJob(w)
                        \/ ReadForFail(w) \/ FailJob(w))
          /\ SF_vars(RecoverExpiredJob(w) \/ RecoverOrphanedWork(w))
    /\ \A r \in Requests : WF_vars(HandlerStep(r)) /\ WF_vars(RequestStep(r))
    /\ \A k \in JobKeys :
          /\ WF_vars(\E w \in Workers : ClaimNextJob(w, k))
          /\ WF_vars(\E w \in Workers : ReadForRecovery(w, k))
          /\ WF_vars(ExpireJobLease(k) /\ \A w \in Workers : actor[w].job # k)
    /\ \A e \in Attempts :
          /\ WF_vars(\E w \in Workers : ScanOrphans(w, e))
          /\ WF_vars(ExpireExecutionLease(e) /\ \A a \in Actors : actor[a].exec # e)

FairSpec == Spec /\ Fairness

-----------------------------------------------------------------------------
(* Properties that hold *)

\* A job ends as succeeded only when the task's result is published and its
\* follow-up has been enqueued: run_once completes the job after the whole
\* handler, so that a crash before the hand-off leaves a job to redo it.
SucceededJobHandedOff ==
    \A k \in JobKeys : jobs[k].status = "succeeded" => result # 0 /\ handed = "done"

\* A worker or thread whose job or request was fenced cannot revive a cancelled
\* run: no attempt starts, nothing is published and no follow-up task is staged.
CancelledStaysClosed ==
    [][run.status = "cancelled" =>
          /\ latest' = latest /\ result' = result
          /\ handed = "owed" => handed' # "staged"]_vars

Working(a, e) == actor[a].pc \in {"prepare", "work", "publish"} /\ actor[a].exec = e

\* A live execution has one actor working for it.
ExclusiveExecution ==
    \A a, b \in Actors : \A e \in Attempts :
        Live(e) /\ Working(a, e) /\ Working(b, e) => a = b

\* The instance stays below its bounds on attempts; a behaviour that reaches it
\* is cut off there and says nothing about liveness.
WithinBound == [](latest < MaxExecutions /\ \A k \in JobKeys : jobs[k].attempt < AttemptBound)

\* Every active job is settled in the end, whoever dies on the way.
JobsSettle == WithinBound => \A k \in JobKeys : Active(k) ~> ~Active(k)

\* No execution keeps the active slot of its task for ever.
ExecutionsEnd == WithinBound => \A e \in Attempts : Running(e) ~> ~Running(e)

-----------------------------------------------------------------------------
(* What the repository's comments and documents promise and the code does   *)
(* not keep.  No run checks these: the README says which configuration to   *)
(* add each of them to, to be shown a behaviour that breaks it.             *)

\* "A lost lease fences the old TaskExecution": once an expired job has been
\* recovered no attempt of its task is still live.
RecoveryFencesTheAttempt ==
    [][\A w \in Workers :
          At(w, "recover_write") /\ jobs' # jobs => \A e \in Attempts : ~Live(e)']_vars

\* "Pause fences the active execution": a paused run has no live execution.
PausedRunIsQuiet == run.paused => \A e \in Attempts : ~Live(e)

\* "Fence every active owner": a cancelled run keeps no job a worker could claim.
CancelledRunHasNoActiveJob == run.status = "cancelled" => \A k \in JobKeys : ~Active(k)

Settled == (\A k \in JobKeys : ~Active(k)) /\ (\A a \in Actors : At(a, "idle"))

\* "Must keep the Continue action available": when nothing drives a generated
\* but unpublished checkpoint any more, the user can.
UnpublishedCodeCanContinue ==
    Settled /\ run.status = "running" /\ ~run.paused /\ task.status = "running"
        /\ latest # 0 /\ Checkpoint = "generated" => Status = "retry_available"

\* "Recovery scans for old pending tasks that have no active job": the task of a
\* live run gets its job although the request that staged it died.
PendingTaskGetsAJob == task.status = "pending" ~> \E k \in JobKeys : jobs[k].status # "none"
=============================================================================
