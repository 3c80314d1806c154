------------------------ MODULE ExecutionFenceProofs ------------------------
(***************************************************************************)
(* What ExecutionFence promises, proved for every role and every bound.    *)
(*                                                                         *)
(* None of the invariants is inductive alone.  OneLiveExecution needs      *)
(* DenseAttempts (the new attempt overwrites no row), RunningNeedsOpenTask *)
(* needs OneLiveExecution (ending the published attempt ends the only one) *)
(* and ResultMatchesTask (an open task has no result), and                 *)
(* ResultMatchesTask needs that no attempt starts once the task is closed. *)
(* FenceInv is their conjunction with the types.                           *)
(***************************************************************************)
EXTENDS ExecutionFence, TLAPS

FenceInv ==
    /\ FenceTypeOK
    /\ DenseAttempts
    /\ OneLiveExecution
    /\ RunningNeedsOpenTask
    /\ ResultMatchesTask

ConstantAssumptions ==
    Recipients \subseteq Roles /\ MaxExecutions \in Nat \ {0} /\ MaxProgress \in Nat

\* The assumptions on the constants, as the proofs use them.
LEMMA Constants == ConstantAssumptions
BY RecipientsAssumption, MaxExecutionsAssumption, MaxProgressAssumption DEF ConstantAssumptions

-----------------------------------------------------------------------------
(* The operators the actions are built from *)

\* Saving never makes the measured progress smaller or larger than its bound.
LEMMA MoreProgressBounds ==
    ASSUME NEW p \in 0 .. MaxProgress
    PROVE  MoreProgress(p) \in 0 .. MaxProgress /\ MoreProgress(p) >= p
BY Constants DEF ConstantAssumptions, MoreProgress

\* The draft the next attempt starts from is a draft.
LEMMA CurrentDraftType ==
    ASSUME FenceTypeOK
    PROVE  CurrentDraft \in Draft
BY Constants DEF ConstantAssumptions, FenceTypeOK, CurrentDraft, EmptyDraft, Draft, Outcome,
                 TaskExecution, Attempts

\* NewAttempt adds one running row after the last one and ends its predecessor.
LEMMA NewAttemptEffect ==
    ASSUME FenceTypeOK, NewAttempt
    PROVE  /\ latest' = latest + 1 /\ latest' \in Attempts
           /\ execution' \in [Attempts -> TaskExecution]
           /\ execution'[latest'].status = "running"
           /\ execution'[latest'].draft = CurrentDraft
           /\ \A e \in Attempts : e # latest' =>
                 /\ execution'[e].draft = execution[e].draft
                 /\ execution'[e].status =
                       IF e = latest /\ Running(e) THEN "superseded" ELSE execution[e].status
<1>1. latest \in 0 .. MaxExecutions /\ execution \in [Attempts -> TaskExecution]
  BY DEF FenceTypeOK
<1>2. latest' = latest + 1 /\ latest' \in Attempts
  BY <1>1, Constants DEF ConstantAssumptions, NewAttempt, Attempts
<1>3. [status |-> "running", expired |-> FALSE, draft |-> CurrentDraft] \in TaskExecution
  BY CurrentDraftType DEF TaskExecution, ExecutionStatus
<1>4. \A e \in Attempts : execution[e] \in TaskExecution
  BY <1>1
<1>5. \A e \in Attempts : [execution[e] EXCEPT !.status = "superseded"] \in TaskExecution
  BY <1>4 DEF TaskExecution, ExecutionStatus
<1>6. execution' \in [Attempts -> TaskExecution]
  BY <1>3, <1>4, <1>5 DEF NewAttempt
<1>7. \A e \in Attempts : e # latest' =>
         execution'[e] = IF e = latest /\ Running(e)
                         THEN [execution[e] EXCEPT !.status = "superseded"] ELSE execution[e]
  BY <1>2 DEF NewAttempt
<1>8. execution'[latest'] = [status |-> "running", expired |-> FALSE, draft |-> CurrentDraft]
  BY <1>2 DEF NewAttempt
<1>9. \A e \in Attempts : e # latest' =>
         /\ execution'[e].draft = execution[e].draft
         /\ execution'[e].status =
               IF e = latest /\ Running(e) THEN "superseded" ELSE execution[e].status
  BY <1>4, <1>7 DEF TaskExecution
<1> QED
  BY <1>2, <1>6, <1>8, <1>9

-----------------------------------------------------------------------------
(* The inductive invariant *)

\* A freshly handed-over task satisfies the invariant.
LEMMA FenceInitInv == FenceInit => FenceInv
BY Constants DEF ConstantAssumptions, FenceInit, FenceInv, FenceTypeOK, DenseAttempts,
    OneLiveExecution, RunningNeedsOpenTask, ResultMatchesTask, Running, Attempts, RunStatus,
    TaskStatus, TaskExecution, NoTaskExecution, ExecutionStatus, Draft, EmptyDraft, Outcome

\* Starting an attempt on a running task of a running run keeps the invariant,
\* whether the task was running or is claimed in the same transaction.
LEMMA NewAttemptKeepsInv ==
    ASSUME FenceInv, NewAttempt, run.status = "running",
           task.status \in {"pending", "running"},
           task' = [task EXCEPT !.status = "running"], run' = run, result' = result
    PROVE  FenceInv'
<1>1. FenceTypeOK'
  BY NewAttemptEffect, Constants
     DEF FenceInv, FenceTypeOK, ConstantAssumptions, TaskStatus, Attempts
<1>2. DenseAttempts'
  BY NewAttemptEffect DEF FenceInv, DenseAttempts, FenceTypeOK, Attempts, Running
<1>3. OneLiveExecution'
  BY NewAttemptEffect DEF FenceInv, OneLiveExecution, Running
<1>4. result = 0
  BY DEF FenceInv, ResultMatchesTask
<1>5. RunningNeedsOpenTask' /\ ResultMatchesTask'
  BY <1>4 DEF RunningNeedsOpenTask, ResultMatchesTask
<1> QED
  BY <1>1, <1>2, <1>3, <1>5 DEF FenceInv

\* An update of one row that neither creates a row nor makes one running keeps
\* the invariant: drafts, leases and the ends of executions.
LEMMA UpdateKeepsInv ==
    ASSUME FenceInv, NEW e \in Attempts, NEW x \in TaskExecution,
           execution[e].status # "none", x.status # "none",
           x.status = "running" => execution[e].status = "running",
           execution' = [execution EXCEPT ![e] = x],
           UNCHANGED <<run, task, latest, result>>
    PROVE  FenceInv'
<1>1. FenceTypeOK'
  BY DEF FenceInv, FenceTypeOK
<1>2. \A a \in Attempts : execution'[a] = IF a = e THEN x ELSE execution[a]
  BY DEF FenceInv, FenceTypeOK
<1>3. DenseAttempts'
  BY <1>2 DEF FenceInv, DenseAttempts
<1>4. OneLiveExecution' /\ RunningNeedsOpenTask'
  BY <1>2 DEF FenceInv, OneLiveExecution, RunningNeedsOpenTask, Running
<1>5. ResultMatchesTask'
  BY DEF FenceInv, ResultMatchesTask
<1> QED
  BY <1>1, <1>3, <1>4, <1>5 DEF FenceInv

\* Pausing without an execution, lifting a pause: only the flag changes.
LEMMA PauseFlagKeepsInv ==
    ASSUME FenceInv, run' \in [status : RunStatus, paused : BOOLEAN],
           run'.status = run.status, UNCHANGED <<task, execution, latest, result>>
    PROVE  FenceInv'
BY DEF FenceInv, FenceTypeOK, DenseAttempts, OneLiveExecution, RunningNeedsOpenTask,
       ResultMatchesTask, Running

\* complete_*_task: the only running attempt ends with the task.
LEMMA PublishKeepsInv ==
    ASSUME FenceInv, NEW e \in Attempts, Publish(e)
    PROVE  FenceInv'
<1>1. /\ e = latest /\ execution[e].status = "running"
      /\ result' = e /\ task' = [task EXCEPT !.status = "succeeded"] /\ latest' = latest
      /\ execution' = [execution EXCEPT ![e].status = "succeeded"]
  BY DEF Publish, CanPublish, RequireExecution, Live, Running
<1>2. execution \in [Attempts -> TaskExecution] /\ latest \in Nat /\ latest # 0
  BY <1>1, Constants DEF FenceInv, FenceTypeOK, ConstantAssumptions, Attempts
<1>3. /\ execution' \in [Attempts -> TaskExecution]
      /\ execution'[e].status = "succeeded"
      /\ \A a \in Attempts : a # e => execution'[a] = execution[a]
  BY <1>1, <1>2 DEF TaskExecution, ExecutionStatus
<1>4. run' \in [status : RunStatus, paused : BOOLEAN]
  BY DEF Publish, FenceInv, FenceTypeOK, RunStatus
<1>5. FenceTypeOK'
  BY <1>1, <1>3, <1>4, Constants
     DEF FenceInv, FenceTypeOK, ConstantAssumptions, TaskStatus, Attempts
<1>6. DenseAttempts'
  BY <1>1, <1>3 DEF FenceInv, DenseAttempts
<1>7. \A a \in Attempts : ~Running(a)'
  BY <1>1, <1>3 DEF FenceInv, OneLiveExecution, Running
<1>8. OneLiveExecution' /\ RunningNeedsOpenTask'
  BY <1>7 DEF OneLiveExecution, RunningNeedsOpenTask
<1>9. ResultMatchesTask'
  BY <1>1, <1>2 DEF ResultMatchesTask
<1> QED
  BY <1>5, <1>6, <1>8, <1>9 DEF FenceInv

\* cancel_active_run ends every running attempt with the run.
LEMMA CancelKeepsInv ==
    ASSUME FenceInv, Cancel
    PROVE  FenceInv'
<1>1. /\ run' = [run EXCEPT !.status = "cancelled"]
      /\ task' = [task EXCEPT !.status =
                    IF @ \in {"pending", "running"} THEN "cancelled" ELSE @]
      /\ latest' = latest /\ result' = result
  BY DEF Cancel
<1>2. execution \in [Attempts -> TaskExecution]
  BY DEF FenceInv, FenceTypeOK
<1>3. \A e \in Attempts : execution'[e] =
         IF Running(e) THEN [execution[e] EXCEPT !.status = "cancelled"] ELSE execution[e]
  BY DEF Cancel
<1>4. \A e \in Attempts :
         /\ execution'[e] \in TaskExecution
         /\ execution'[e].status =
               IF execution[e].status = "running" THEN "cancelled" ELSE execution[e].status
  BY <1>2, <1>3 DEF Running, TaskExecution, ExecutionStatus
<1>5. FenceTypeOK'
  <2>1. execution' \in [Attempts -> TaskExecution]
    BY <1>4 DEF Cancel
  <2>2. run' \in [status : RunStatus, paused : BOOLEAN]
    BY <1>1 DEF FenceInv, FenceTypeOK, RunStatus
  <2> QED
    BY <1>1, <2>1, <2>2 DEF FenceInv, FenceTypeOK, TaskStatus
<1>6. DenseAttempts'
  BY <1>1, <1>4 DEF FenceInv, DenseAttempts
<1>7. \A e \in Attempts : ~Running(e)'
  BY <1>4 DEF Running
<1>8. OneLiveExecution' /\ RunningNeedsOpenTask'
  BY <1>7 DEF OneLiveExecution, RunningNeedsOpenTask
<1>9. ResultMatchesTask'
  BY <1>1 DEF FenceInv, ResultMatchesTask
<1> QED
  BY <1>5, <1>6, <1>8, <1>9 DEF FenceInv

-----------------------------------------------------------------------------
(* One step of the system *)

\* Every transaction preserves every part of the invariant.
LEMMA FenceNextInv == FenceInv /\ [FenceNext]_fenceVars => FenceInv'
<1> SUFFICES ASSUME FenceInv, [FenceNext]_fenceVars
             PROVE  FenceInv'
  OBVIOUS
<1>t. \A e \in Attempts : execution[e] \in TaskExecution
  BY DEF FenceInv, FenceTypeOK
<1>1. CASE ClaimTask
  BY <1>1 DEF ClaimTask, CanClaimTask, FenceInv, FenceTypeOK, DenseAttempts,
              OneLiveExecution, RunningNeedsOpenTask, ResultMatchesTask, Running, TaskStatus
<1>2. ASSUME NEW r \in 0 .. MaxExecutions, StartExecution(r) PROVE FenceInv'
  <2>1. task \in [recipient : Recipients, status : TaskStatus] /\ task.status = "running"
    BY <1>2 DEF StartExecution, CanStart, FenceInv, FenceTypeOK
  <2>2. task = [task EXCEPT !.status = "running"]
    BY <2>1
  <2> QED
    BY <1>2, <2>1, <2>2, NewAttemptKeepsInv DEF StartExecution, CanStart
<1>3. ASSUME NEW r \in 0 .. MaxExecutions, ClaimEngineering(r) PROVE FenceInv'
  BY <1>3, NewAttemptKeepsInv DEF ClaimEngineering, CanRecover, CanClaimPending
<1>4. ASSUME NEW e \in Attempts, NEW o \in Outcome, SaveDraft(e, o) PROVE FenceInv'
  <2> DEFINE x == [execution[e] EXCEPT
                     !.draft = [progress |-> MoreProgress(execution[e].draft.progress),
                                outcome |-> o]]
  <2>1. execution[e].draft.progress \in 0 .. MaxProgress
    BY <1>t DEF TaskExecution, Draft
  <2>2. MoreProgress(execution[e].draft.progress) \in 0 .. MaxProgress
    BY <2>1, MoreProgressBounds
  <2>3. x \in TaskExecution /\ x.status = execution[e].status
    BY <1>t, <2>2 DEF TaskExecution, Draft
  <2>4. execution' = [execution EXCEPT ![e] = x]
    BY <1>4, <1>t DEF SaveDraft, FenceInv, FenceTypeOK
  <2> QED
    BY <1>4, <2>3, <2>4, UpdateKeepsInv DEF SaveDraft, Live, Running
<1>5. ASSUME NEW e \in Attempts, ResumeCheckpoint(e) PROVE FenceInv'
  <2> DEFINE x == [execution[e] EXCEPT !.draft.outcome = "running"]
  <2>1. x \in TaskExecution /\ x.status = execution[e].status
    BY <1>t DEF TaskExecution, Draft, Outcome
  <2>2. execution' = [execution EXCEPT ![e] = x]
    BY <1>5, <1>t DEF ResumeCheckpoint, FenceInv, FenceTypeOK
  <2> QED
    BY <1>5, <2>1, <2>2, UpdateKeepsInv DEF ResumeCheckpoint, Live, Running
<1>6. ASSUME NEW e \in Attempts, RenewExecution(e) \/ ExpireExecution(e) PROVE FenceInv'
  <2>1. PICK b \in BOOLEAN : execution' = [execution EXCEPT ![e].expired = b]
    BY <1>6 DEF RenewExecution, ExpireExecution
  <2> DEFINE x == [execution[e] EXCEPT !.expired = b]
  <2>2. x \in TaskExecution /\ x.status = execution[e].status
    BY <1>t DEF TaskExecution
  <2>3. execution' = [execution EXCEPT ![e] = x]
    BY <2>1, <1>t DEF FenceInv, FenceTypeOK
  <2>4. execution[e].status = "running" /\ UNCHANGED <<run, task, latest, result>>
    BY <1>6 DEF RenewExecution, ExpireExecution, Live, Running
  <2> QED
    BY <2>2, <2>3, <2>4, UpdateKeepsInv
<1>7. ASSUME NEW e \in Attempts, FailExecution(e) \/ OverwriteFailed(e) PROVE FenceInv'
  <2> DEFINE x == [execution[e] EXCEPT !.status = "failed"]
  <2>1. x \in TaskExecution /\ x.status = "failed"
    BY <1>t DEF TaskExecution, ExecutionStatus
  <2>2. execution' = [execution EXCEPT ![e] = x]
    BY <1>7, <1>t DEF FailExecution, OverwriteFailed, FenceInv, FenceTypeOK
  <2>3. execution[e].status # "none" /\ UNCHANGED <<run, task, latest, result>>
    BY <1>7 DEF FailExecution, OverwriteFailed, Running
  <2> QED
    BY <2>1, <2>2, <2>3, UpdateKeepsInv
<1>8. ASSUME NEW e \in Attempts, Publish(e) PROVE FenceInv'
  BY <1>8, PublishKeepsInv
<1>9. ASSUME NEW e \in 0 .. MaxExecutions, Pause(e) PROVE FenceInv'
  <2>1. run' \in [status : RunStatus, paused : BOOLEAN] /\ run'.status = run.status
    BY <1>9 DEF Pause, FenceInv, FenceTypeOK
  <2>2. CASE e = 0
    BY <1>9, <2>1, <2>2, PauseFlagKeepsInv DEF Pause
  <2>3. CASE e # 0
    <3> DEFINE x == [execution[e] EXCEPT !.status = "failed"]
    <3>1. e \in Attempts /\ execution[e].status = "running"
      BY <1>9, <2>3 DEF Pause, Running
    <3>2. x \in TaskExecution /\ x.status = "failed"
      BY <1>t, <3>1 DEF TaskExecution, ExecutionStatus
    <3>3. /\ execution' = [execution EXCEPT ![e].status = "failed"]
          /\ UNCHANGED <<task, latest, result>>
      BY <1>9, <2>3 DEF Pause
    <3>4. execution' \in [Attempts -> TaskExecution]
      BY <3>3, <3>2, <3>1 DEF FenceInv, FenceTypeOK, TaskExecution, ExecutionStatus
    <3>5. \A a \in Attempts : execution'[a].status =
             IF a = e THEN "failed" ELSE execution[a].status
      BY <3>1, <3>3 DEF FenceInv, FenceTypeOK, TaskExecution
    <3> QED
      BY <2>1, <3>1, <3>3, <3>4, <3>5
         DEF FenceInv, FenceTypeOK, DenseAttempts, OneLiveExecution, RunningNeedsOpenTask,
             ResultMatchesTask, Running
  <2> QED
    BY <2>2, <2>3
<1>10. CASE Resume
  <2>1. run' \in [status : RunStatus, paused : BOOLEAN] /\ run'.status = run.status
    BY <1>10 DEF Resume, FenceInv, FenceTypeOK
  <2> QED
    BY <1>10, <2>1, PauseFlagKeepsInv DEF Resume
<1>11. CASE Cancel
  BY <1>11, CancelKeepsInv
<1>12. CASE UNCHANGED fenceVars
  BY <1>12 DEF fenceVars, FenceInv, FenceTypeOK, DenseAttempts, OneLiveExecution,
               RunningNeedsOpenTask, ResultMatchesTask, Running
<1> QED
  BY <1>1, <1>2, <1>3, <1>4, <1>5, <1>6, <1>7, <1>8, <1>9, <1>10, <1>11, <1>12 DEF FenceNext

\* The inductive invariant holds in every reachable state of the fence.
THEOREM FenceInvariant == FenceSpec => []FenceInv
BY FenceInitInv, FenceNextInv, PTL DEF FenceSpec

-----------------------------------------------------------------------------
(* What the runs check, for every value of the constants *)

\* Every row of the fence holds values of its column, for every role and bound.
THEOREM FenceTypeCorrect == FenceSpec => []FenceTypeOK
<1>1. FenceInv => FenceTypeOK
  BY DEF FenceInv
<1> QED
  BY <1>1, FenceInvariant, PTL

\* Attempt numbers are dense.
THEOREM AttemptsAreDense == FenceSpec => []DenseAttempts
<1>1. FenceInv => DenseAttempts
  BY DEF FenceInv
<1> QED
  BY <1>1, FenceInvariant, PTL

\* The active slot of a task has one owner, the newest attempt.
THEOREM OneOwner == FenceSpec => []OneLiveExecution
<1>1. FenceInv => OneLiveExecution
  BY DEF FenceInv
<1> QED
  BY <1>1, FenceInvariant, PTL

\* Cancelling the run or publishing the result leaves no attempt running.
THEOREM ClosedTaskIsFenced == FenceSpec => []RunningNeedsOpenTask
<1>1. FenceInv => RunningNeedsOpenTask
  BY DEF FenceInv
<1> QED
  BY <1>1, FenceInvariant, PTL

\* The task and its result agree, and the newest attempt published it.
THEOREM ResultIsTheTasks == FenceSpec => []ResultMatchesTask
<1>1. FenceInv => ResultMatchesTask
  BY DEF FenceInv
<1> QED
  BY <1>1, FenceInvariant, PTL

-----------------------------------------------------------------------------
(* Action properties, from the same invariant *)

\* Which rows a step of the fence can make or leave running: only its own.
LEMMA RunningComesFromRunning ==
    ASSUME FenceInv, [FenceNext]_fenceVars, NEW a \in Attempts,
           execution[a].status \notin {"none", "running"}
    PROVE  ~Running(a)'
<1>t. execution \in [Attempts -> TaskExecution] /\ latest \in Nat
  BY Constants DEF FenceInv, FenceTypeOK, ConstantAssumptions
<1>1. CASE UNCHANGED execution
  BY <1>1 DEF Running
<1>2. ASSUME NewAttempt PROVE ~Running(a)'
  <2>1. a <= latest /\ latest' = latest + 1
    BY <1>t, <1>2 DEF FenceInv, DenseAttempts, NewAttempt, Attempts
  <2>2. a # latest'
    BY <1>t, <2>1 DEF Attempts
  <2> QED
    BY <1>2, <2>2, NewAttemptEffect DEF FenceInv, Running
<1>3. ASSUME NEW e \in Attempts, NEW o \in Outcome, SaveDraft(e, o) PROVE ~Running(a)'
  BY <1>t, <1>3 DEF SaveDraft, Live, Running, TaskExecution
<1>4. ASSUME NEW e \in Attempts, ResumeCheckpoint(e) PROVE ~Running(a)'
  BY <1>t, <1>4 DEF ResumeCheckpoint, Live, Running, TaskExecution
<1>5. ASSUME NEW e \in Attempts, RenewExecution(e) \/ ExpireExecution(e) PROVE ~Running(a)'
  BY <1>t, <1>5 DEF RenewExecution, ExpireExecution, Live, Running, TaskExecution
<1>6. ASSUME NEW e \in Attempts, FailExecution(e) \/ OverwriteFailed(e) PROVE ~Running(a)'
  BY <1>t, <1>6 DEF FailExecution, OverwriteFailed, Running, TaskExecution
<1>7. ASSUME NEW e \in Attempts, Publish(e) PROVE ~Running(a)'
  BY <1>t, <1>7 DEF Publish, Running, TaskExecution
<1>8. ASSUME NEW e \in 0 .. MaxExecutions, Pause(e) PROVE ~Running(a)'
  BY <1>t, <1>8 DEF Pause, Running, TaskExecution
<1>9. CASE Cancel
  BY <1>t, <1>9 DEF Cancel, Running, TaskExecution
<1> QED
  BY <1>1, <1>2, <1>3, <1>4, <1>5, <1>6, <1>7, <1>8, <1>9
     DEF FenceNext, fenceVars, ClaimTask, StartExecution, ClaimEngineering, Resume

\* A fenced attempt never runs again, whichever retry or heartbeat comes late.
THEOREM FencedForEver == FenceSpec => FencedStaysFenced
<1>1. FenceInv /\ [FenceNext]_fenceVars =>
         [\A e \in Attempts :
             execution[e].status \notin {"none", "running"} => ~Running(e)']_fenceVars
  BY RunningComesFromRunning
<1> QED
  BY <1>1, FenceInvariant, PTL DEF FenceSpec, FencedStaysFenced

\* The only step that writes the result is a publication by the newest attempt
\* with an unexpired lease, in a run that has not ended.
THEOREM OnlyALiveOwnerPublishes == FenceSpec => PublishedByLiveOwner
<1>1. ASSUME FenceInv, [FenceNext]_fenceVars, result' # result
      PROVE  result = 0 /\ result' = latest /\ Live(latest) /\ run.status = "running"
  <2>1. PICK e \in Attempts : Publish(e)
    BY <1>1 DEF FenceNext, fenceVars, ClaimTask, StartExecution, ClaimEngineering, SaveDraft,
                ResumeCheckpoint, RenewExecution, ExpireExecution, FailExecution,
                OverwriteFailed, Pause, Resume, Cancel
  <2>2. result = 0 /\ result' = e /\ e = latest /\ Live(latest)
    BY <2>1 DEF Publish, CanPublish, RequireExecution
  <2>3. run.status = "running"
    BY <1>1, <2>1, <2>2 DEF FenceInv, RunningNeedsOpenTask, Live
  <2> QED
    BY <2>2, <2>3
<1>2. FenceInv /\ [FenceNext]_fenceVars =>
         [result' # result =>
             result = 0 /\ result' = latest /\ Live(latest) /\ run.status = "running"]_fenceVars
  BY <1>1
<1> QED
  BY <1>2, FenceInvariant, PTL DEF FenceSpec, PublishedByLiveOwner

\* Recovery carries the draft over and saving only adds to it.
THEOREM RecoveryKeepsProgress == FenceSpec => ProgressNeverLost
<1>1. ASSUME FenceInv, [FenceNext]_fenceVars, latest # 0
      PROVE  execution'[latest'].draft.progress >= execution[latest].draft.progress
  <2>t. /\ execution \in [Attempts -> TaskExecution] /\ latest \in Attempts
        /\ \A e \in Attempts : execution[e].draft.progress \in 0 .. MaxProgress
    BY <1>1, Constants
       DEF FenceInv, FenceTypeOK, ConstantAssumptions, Attempts, TaskExecution, Draft
  <2>n. execution[latest].draft.progress \in Nat
    BY <2>t
  <2>1. CASE UNCHANGED <<execution, latest>>
    BY <2>1, <2>n
  <2>2. CASE NewAttempt
    BY <1>1, <2>2, <2>n, NewAttemptEffect DEF FenceInv, CurrentDraft
  <2>3. ASSUME NEW e \in Attempts, NEW o \in Outcome, SaveDraft(e, o)
        PROVE  execution'[latest'].draft.progress >= execution[latest].draft.progress
    <3>1. MoreProgress(execution[e].draft.progress) >= execution[e].draft.progress
      BY <2>t, MoreProgressBounds
    <3>2. latest' = latest /\ execution'[latest].draft.progress =
             IF e = latest THEN MoreProgress(execution[e].draft.progress)
                           ELSE execution[latest].draft.progress
      BY <2>3, <2>t DEF SaveDraft, TaskExecution
    <3> QED
      BY <3>1, <3>2, <2>n
  <2>4. ASSUME NEW e \in 0 .. MaxExecutions,
               \/ /\ e \in Attempts
                  /\ \/ ResumeCheckpoint(e) \/ RenewExecution(e) \/ ExpireExecution(e)
                     \/ FailExecution(e) \/ OverwriteFailed(e) \/ Publish(e)
               \/ Pause(e)
        PROVE  execution'[latest'].draft.progress >= execution[latest].draft.progress
    <3>1. latest' = latest /\ execution'[latest].draft.progress
                                = execution[latest].draft.progress
      BY <2>4, <2>t
         DEF ResumeCheckpoint, RenewExecution, ExpireExecution, FailExecution,
             OverwriteFailed, Publish, Pause, Running, TaskExecution, Draft
    <3> QED
      BY <3>1, <2>n
  <2>5. CASE Cancel
    <3>1. latest' = latest /\ execution'[latest].draft.progress
                                = execution[latest].draft.progress
      BY <2>5, <2>t DEF Cancel, TaskExecution
    <3> QED
      BY <3>1, <2>n
  <2> QED
    BY <1>1, <2>1, <2>2, <2>3, <2>4, <2>5
       DEF FenceNext, fenceVars, ClaimTask, StartExecution, ClaimEngineering, Resume, Attempts
<1>2. FenceInv /\ [FenceNext]_fenceVars =>
         [latest # 0 =>
             execution'[latest'].draft.progress >= execution[latest].draft.progress]_fenceVars
  BY <1>1
<1> QED
  BY <1>2, FenceInvariant, PTL DEF FenceSpec, ProgressNeverLost
=============================================================================
