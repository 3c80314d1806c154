------------------------- MODULE WorkflowJobsProofs -------------------------
(***************************************************************************)
(* Jobs, workers and API threads implement the execution fence, for any    *)
(* number of workers, threads, attempts and recoveries, whatever crashes,  *)
(* errors and lost leases occur.                                           *)
(***************************************************************************)
EXTENDS WorkflowJobs, ExecutionFenceProofs

(* Every step of WorkflowJobs is a step of the fence or leaves it alone.   *)
LEMMA StepRefinesFence == FenceInv /\ [Next]_vars => [FenceNext]_fenceVars
<1> SUFFICES ASSUME FenceInv, [Next]_vars
             PROVE  [FenceNext]_fenceVars
  OBVIOUS
<1>t. latest \in 0 .. MaxExecutions /\ 0 \in 0 .. MaxExecutions
  BY Constants DEF FenceInv, FenceTypeOK, ConstantAssumptions
<1>r. \A e : Running(e) => e \in Attempts /\ e \in 0 .. MaxExecutions
  BY Constants DEF Running, Attempts, ConstantAssumptions
\* Ends of executions: a conditional one, and a blind one of a victim.
<1>f. ASSUME NEW e, FailExecution(e) PROVE FenceNext
  BY <1>f, <1>r DEF FenceNext, FailExecution
<1>v. ASSUME NEW e, EndVictim(e) PROVE [FenceNext]_fenceVars
  BY <1>v DEF EndVictim, OverwriteFailed, FenceNext
<1>o. ASSUME NEW a, EndOwnExecution(a) PROVE [FenceNext]_fenceVars
  BY <1>o, <1>f DEF EndOwnExecution
<1>1. ASSUME NEW w \in Workers, WorkerStep(w) PROVE [FenceNext]_fenceVars
  <2>1. CASE PrepareEngineering(w)
    <3>1. ASSUME NEW e, ResumeCheckpoint(e) PROVE FenceNext
      BY <3>1, <1>r DEF FenceNext, ResumeCheckpoint, Live
    <3> QED
      BY <2>1, <3>1 DEF PrepareEngineering
  <2>2. CASE FailJob(w) \/ RecoverExpiredJob(w)
    BY <2>2, <1>v DEF FailJob, RecoverExpiredJob
  <2>3. CASE RecoverOrphanedWork(w)
    BY <2>3, <1>f DEF RecoverOrphanedWork
  <2> QED
    BY <1>1, <2>1, <2>2, <2>3
       DEF WorkerStep, ClaimNextJob, ReadForRecovery, ExecuteJob, ReadForAttach,
           AttachExecution, ReadForComplete, CompleteJob, ReadForFail, ScanOrphans
<1>2. ASSUME NEW w \in Workers, HeartbeatJob(w) PROVE [FenceNext]_fenceVars
  <2>1. PICK e : RenewExecution(e)
    BY <1>2 DEF HeartbeatJob
  <2> QED
    BY <2>1, <1>r DEF FenceNext, RenewExecution
<1>3. ASSUME NEW a \in Actors, HandlerStep(a) PROVE [FenceNext]_fenceVars
  <2>1. CASE ClaimRoleTask(a)
    BY <2>1 DEF ClaimRoleTask, FenceNext
  <2>2. CASE StartRoleExecution(a)
    <3>1. ASSUME NEW r, StartExecution(r) PROVE FenceNext
      BY <3>1, <1>t DEF StartExecution, CanStart, FenceNext
    <3> QED
      BY <2>2, <3>1 DEF StartRoleExecution
  <2>3. CASE ClaimCodeEngineerTask(a)
    <3>1. ASSUME NEW r, ClaimEngineering(r) PROVE FenceNext
      <4>1. CASE CanRecover(r)
        BY <3>1, <4>1, <1>t DEF CanRecover, FenceNext
      <4>2. CASE CanClaimPending
        <5>1. ClaimEngineering(0)
          BY <3>1, <4>2 DEF ClaimEngineering
        <5> QED
          BY <5>1, <1>t DEF FenceNext
      <4> QED
        BY <3>1, <4>1, <4>2 DEF ClaimEngineering
    <3> QED
      BY <2>3, <3>1 DEF ClaimCodeEngineerTask
  <2>4. CASE SaveProgress(a)
    <3>1. ASSUME NEW e, NEW o \in Outcome, SaveDraft(e, o) PROVE FenceNext
      BY <3>1, <1>r DEF FenceNext, SaveDraft, Live
    <3> QED
      BY <2>4, <3>1 DEF SaveProgress
  <2>5. CASE (\E fatal \in BOOLEAN : WorkRaises(a, fatal)) \/ LoseFence(a)
    BY <2>5, <1>o DEF WorkRaises, LoseFence
  <2>6. CASE PublishResult(a)
    <3>1. ASSUME NEW e, Publish(e) PROVE FenceNext
      BY <3>1, <1>r DEF FenceNext, Publish, CanPublish, RequireExecution, Live
    <3> QED
      BY <2>6, <3>1 DEF PublishResult
  <2> QED
    BY <1>3, <2>1, <2>2, <2>3, <2>4, <2>5, <2>6
       DEF HandlerStep, FinishRoleWork, HandOff, HandOffJob
<1>4. ASSUME NEW r \in Requests, RequestStep(r) \/ UserAction(r)
      PROVE  [FenceNext]_fenceVars
  <2>1. CASE PauseRun(r)
    <3>1. ASSUME NEW e, Pause(e) PROVE FenceNext
      BY <3>1, <1>t, <1>r DEF FenceNext, Pause
    <3> QED
      BY <2>1, <3>1 DEF PauseRun
  <2>2. CASE ResumeRun(r) \/ CancelRun(r)
    BY <2>2 DEF ResumeRun, CancelRun, FenceNext
  <2> QED
    BY <1>4, <2>1, <2>2
       DEF RequestStep, UserAction, DispatchTask, StartClaimedEngineering, Continue,
           ContinueRole, ContinueEngineering, ContinueHandOff, PauseSnapshot
<1>5. CASE Environment
  <2>1. ASSUME NEW e \in Attempts, ExpireExecutionLease(e) PROVE FenceNext
    BY <2>1 DEF ExpireExecutionLease, FenceNext
  <2> QED
    BY <1>5, <2>1 DEF Environment, ExpireJobLease, Crash
<1>6. CASE UNCHANGED vars
  BY <1>6 DEF vars, fenceVars
<1> QED
  BY <1>1, <1>2, <1>3, <1>4, <1>5, <1>6 DEF Next

\* The initial states of jobs, workers and threads are initial for the fence.
LEMMA InitImpliesFenceInit == Init => FenceInit
BY DEF Init

\* The invariant of the fence holds in every state of jobs, workers and threads.
THEOREM JobsKeepFenceInv == Spec => []FenceInv
<1>1. Init => FenceInv
  BY InitImpliesFenceInit, FenceInitInv
<1>2. FenceInv /\ [Next]_vars => FenceInv'
  BY StepRefinesFence, FenceNextInv
<1> QED
  BY <1>1, <1>2, PTL DEF Spec

\* Whatever workers, recoveries and API threads do, they keep to the fence.
THEOREM JobsImplementFence == Spec => FenceSpec
BY InitImpliesFenceInit, StepRefinesFence, JobsKeepFenceInv, PTL DEF Spec, FenceSpec

-----------------------------------------------------------------------------
(* Types: rows stay rows, actors stay actors *)

JobsConstants ==
    /\ NoOwner \notin Workers /\ Workers \cap Requests = {}
    /\ MaxJobAttempts \in Nat \ {0} /\ AttemptBound \in Nat
    /\ MaxExecutions \in Nat \ {0}

\* The assumptions on the constants, as the proofs use them.
LEMMA JobsConstantsHold == JobsConstants
BY ActorAssumption, AttemptAssumption, MaxExecutionsAssumption DEF JobsConstants

\* The empty row is a job row.
LEMMA NoJobType == NoJob \in WorkflowJob
BY JobsConstantsHold DEF JobsConstants, NoJob, WorkflowJob, JobStatus, Executions

\* The idle actor is an actor.
LEMMA IdleType == Idle \in Actor
BY NoJobType, JobsConstantsHold DEF JobsConstants, Idle, Actor, Steps, Executions

\* Changing fields of an actor to values of their types leaves an actor.
LEMMA ActorFields ==
    ASSUME NEW x \in Actor, NEW step \in Steps
    PROVE  /\ [x EXCEPT !.pc = step] \in Actor
           /\ \A e \in Executions :
                 /\ [x EXCEPT !.pc = step, !.exec = e] \in Actor
                 /\ [x EXCEPT !.pc = step, !.recovery = e] \in Actor
                 /\ [x EXCEPT !.exec = e, !.recovery = 0, !.pc = step] \in Actor
           /\ \A j \in WorkflowJob :
                 /\ [x EXCEPT !.pc = step, !.read = j] \in Actor
                 /\ [x EXCEPT !.read = j, !.pc = step] \in Actor
                 /\ \A e \in Executions : [x EXCEPT !.pc = step, !.read = j, !.victim = e] \in Actor
<1>1. 0 \in Executions
  BY JobsConstantsHold DEF JobsConstants, Executions
<1>2. [x EXCEPT !.pc = step] \in Actor
  BY DEF Actor
<1>3. ASSUME NEW e \in Executions
      PROVE  /\ [x EXCEPT !.pc = step, !.exec = e] \in Actor
             /\ [x EXCEPT !.pc = step, !.recovery = e] \in Actor
             /\ [x EXCEPT !.exec = e, !.recovery = 0, !.pc = step] \in Actor
  <2>1. [x EXCEPT !.pc = step, !.exec = e] \in Actor
    BY DEF Actor
  <2>2. [x EXCEPT !.pc = step, !.recovery = e] \in Actor
    BY DEF Actor
  <2>3. [x EXCEPT !.exec = e, !.recovery = 0, !.pc = step] \in Actor
    BY <1>1 DEF Actor
  <2> QED
    BY <2>1, <2>2, <2>3
<1>4. ASSUME NEW j \in WorkflowJob
      PROVE  /\ [x EXCEPT !.pc = step, !.read = j] \in Actor
             /\ [x EXCEPT !.read = j, !.pc = step] \in Actor
             /\ \A e \in Executions : [x EXCEPT !.pc = step, !.read = j, !.victim = e] \in Actor
  <2>1. [x EXCEPT !.pc = step, !.read = j] \in Actor
    BY DEF Actor
  <2>2. [x EXCEPT !.read = j, !.pc = step] \in Actor
    BY DEF Actor
  <2>3. ASSUME NEW e \in Executions
        PROVE  [x EXCEPT !.pc = step, !.read = j, !.victim = e] \in Actor
    BY DEF Actor
  <2> QED
    BY <2>1, <2>2, <2>3
<1> QED
  BY <1>2, <1>3, <1>4

\* The ORM writes a row made of columns it read, changed or found.
LEMMA FlushType ==
    ASSUME jobs \in [JobKeys -> WorkflowJob], NEW k \in JobKeys,
           NEW read \in WorkflowJob, NEW new \in WorkflowJob
    PROVE  /\ Flush(k, read, new) \in WorkflowJob
           /\ Flush(k, read, new).status \in {jobs[k].status, new.status}
<1> DEFINE F == Flush(k, read, new)
<1>1. jobs[k] \in WorkflowJob
  OBVIOUS
<1>2. DOMAIN read = {"status", "attempt", "owner", "lease", "exec", "recovery"}
  BY DEF WorkflowJob
<1>3. F = [f \in {"status", "attempt", "owner", "lease", "exec", "recovery"} |->
             IF new[f] = read[f] THEN jobs[k][f] ELSE new[f]]
  BY <1>2 DEF Flush
<1>4. F = [status |-> F.status, attempt |-> F.attempt, owner |-> F.owner,
           lease |-> F.lease, exec |-> F.exec, recovery |-> F.recovery]
  BY <1>3
<1>5. /\ F.status \in {jobs[k].status, new.status}
      /\ F.attempt \in {jobs[k].attempt, new.attempt}
      /\ F.owner \in {jobs[k].owner, new.owner}
      /\ F.lease \in {jobs[k].lease, new.lease}
      /\ F.exec \in {jobs[k].exec, new.exec}
      /\ F.recovery \in {jobs[k].recovery, new.recovery}
  BY <1>3
<1>6. F \in WorkflowJob
  <2> HIDE DEF F
  <2> QED
    BY <1>1, <1>4, <1>5 DEF WorkflowJob
<1> QED
  BY <1>5, <1>6

\* Every actor is one, and a worker that is neither idle nor at an orphan has a job.
ActorsOK ==
    /\ actor \in [Actors -> Actor]
    /\ \A w \in Workers : actor[w].pc \notin {"idle", "orphan"} => actor[w].job \in JobKeys

JobsOK == jobs \in [JobKeys -> WorkflowJob]
HandedOK == handed \in {"owed", "staged", "done"}

\* Moving one actor to a state of its type, with a job if it is a busy worker.
LEMMA MoveKeepsActors ==
    ASSUME ActorsOK, NEW a \in Actors, NEW s \in Actor, Become(a, s),
           a \in Workers /\ s.pc \notin {"idle", "orphan"} => s.job \in JobKeys
    PROVE  ActorsOK'
<1>1. actor' \in [Actors -> Actor]
  BY DEF ActorsOK, Become
<1>2. \A w \in Workers : w \in Actors /\ actor'[w] = IF w = a THEN s ELSE actor[w]
  BY DEF ActorsOK, Become, Actors
<1> QED
  BY <1>1, <1>2 DEF ActorsOK

\* The usual moves of an actor: to rest ...
LEMMA IdleKeepsActors ==
    ASSUME ActorsOK, NEW a \in Actors, Become(a, Idle)
    PROVE  ActorsOK'
BY IdleType, MoveKeepsActors DEF Idle

\* ... to another place with the job it has ...
LEMMA GotoKeepsActors ==
    ASSUME ActorsOK, NEW a \in Actors, NEW step \in Steps, Goto(a, step),
           actor[a].pc \notin {"idle", "orphan"}
    PROVE  ActorsOK'
<1>1. actor[a] \in Actor
  BY DEF ActorsOK
<1>2. [actor[a] EXCEPT !.pc = step] \in Actor
  BY <1>1, ActorFields
<1>3. [actor[a] EXCEPT !.pc = step].job = actor[a].job
  BY <1>1 DEF Actor
<1> QED
  BY <1>2, <1>3, MoveKeepsActors DEF Goto, ActorsOK

\* ... out of its handler with an exception ...
LEMMA RaiseKeepsActors ==
    ASSUME ActorsOK, NEW a \in Actors, NEW fatal \in BOOLEAN, Raise(a, fatal),
           actor[a].pc \notin {"idle", "orphan"}
    PROVE  ActorsOK'
<1>1. CASE a \in Workers
  <2> DEFINE s == [Idle EXCEPT !.pc = "fail", !.job = actor[a].job, !.fatal = fatal]
  <2>1. actor[a].job \in JobKeys
    BY <1>1 DEF ActorsOK
  <2>2. s \in Actor /\ s.job = actor[a].job
    BY <2>1, IdleType DEF Actor, Steps
  <2> QED
    BY <1>1, <2>1, <2>2, MoveKeepsActors DEF Raise
<1>2. CASE a \notin Workers
  BY <1>2, IdleKeepsActors DEF Raise
<1> QED
  BY <1>1, <1>2

\* ... on with the execution it claimed ...
LEMMA AfterClaimKeepsActors ==
    ASSUME ActorsOK, NEW a \in Actors, NEW e \in Executions, AfterClaim(a, e),
           actor[a].pc \notin {"idle", "orphan"}
    PROVE  ActorsOK'
<1> DEFINE step == IF a \in Workers THEN "attach"
                   ELSE IF Role = "engineering" THEN "enqueue" ELSE "work"
<1> DEFINE s == [actor[a] EXCEPT !.exec = e, !.recovery = 0, !.pc = step]
<1>1. actor[a] \in Actor /\ step \in Steps
  BY DEF ActorsOK, Steps
<1>2. s \in Actor
  BY <1>1, ActorFields
<1>3. s.job = actor[a].job
  BY <1>1 DEF Actor
<1>4. Become(a, s)
  BY DEF AfterClaim
<1> QED
  BY <1>2, <1>3, <1>4, MoveKeepsActors DEF ActorsOK

\* ... and on after the hand-off.
LEMMA AfterHandOffKeepsActors ==
    ASSUME ActorsOK, NEW a \in Actors, AfterHandOff(a), actor[a].pc \notin {"idle", "orphan"}
    PROVE  ActorsOK'
BY GotoKeepsActors, IdleKeepsActors DEF AfterHandOff, Steps

\* The executions an actor may take from the rows.
LEMMA ExecutionValues ==
    ASSUME FenceTypeOK, JobsOK
    PROVE  /\ latest \in Executions /\ 0 \in Executions
           /\ latest < MaxExecutions => latest + 1 \in Executions
           /\ LatestRecovery \in Executions
           /\ \A k \in JobKeys : VictimOf(jobs[k]) \in Executions /\ RecoveryOf(jobs[k]) \in Executions
<1>1. latest \in Executions /\ 0 \in Executions /\ (latest < MaxExecutions => latest + 1 \in Executions)
  BY JobsConstantsHold DEF JobsConstants, FenceTypeOK, Executions
<1>2. LatestRecovery \in Executions
  BY <1>1 DEF LatestRecovery
<1>3. ASSUME NEW k \in JobKeys
      PROVE  VictimOf(jobs[k]) \in Executions /\ RecoveryOf(jobs[k]) \in Executions
  <2>1. jobs[k].exec \in Executions /\ jobs[k].recovery \in Executions
    BY DEF JobsOK, WorkflowJob
  <2>2. VictimOf(jobs[k]) \in Executions
    BY <1>1, <2>1 DEF VictimOf
  <2>3. RecoveryOf(jobs[k]) \in Executions
    BY <1>2, <2>1 DEF RecoveryOf
  <2> QED
    BY <2>2, <2>3
<1> QED
  BY <1>1, <1>2, <1>3

\* No step makes an actor something else.
LEMMA NextKeepsActors ==
    ASSUME FenceTypeOK, JobsOK, ActorsOK, [Next]_vars
    PROVE  ActorsOK'
<1>e. /\ latest \in Executions /\ 0 \in Executions
      /\ latest < MaxExecutions => latest + 1 \in Executions
      /\ \A k \in JobKeys : VictimOf(jobs[k]) \in Executions /\ RecoveryOf(jobs[k]) \in Executions
  BY ExecutionValues
<1>j. \A k \in JobKeys : jobs[k] \in WorkflowJob
  BY DEF JobsOK
<1>a. \A a \in Actors : actor[a] \in Actor
  BY DEF ActorsOK
<1>w. Workers \subseteq Actors /\ Requests \subseteq Actors
      /\ \A r \in Requests : r \notin Workers
  BY JobsConstantsHold DEF JobsConstants, Actors
<1>u. CASE UNCHANGED actor
  BY <1>u DEF ActorsOK
<1>1. ASSUME NEW w \in Workers, WorkerStep(w) PROVE ActorsOK'
  <2>a. w \in Actors /\ actor[w] \in Actor
    BY <1>a, <1>w
  <2>j. actor[w].pc \notin {"idle", "orphan"} => actor[w].job \in JobKeys
    BY DEF ActorsOK, At
  <2>1. ASSUME NEW k \in JobKeys, ClaimNextJob(w, k) PROVE ActorsOK'
    <3> DEFINE s == [Idle EXCEPT !.pc = "begin", !.job = k]
    <3>1. s \in Actor /\ s.job = k
      BY IdleType DEF Actor, Steps
    <3> QED
      BY <2>1, <2>a, <3>1, MoveKeepsActors DEF ClaimNextJob
  <2>2. ASSUME NEW k \in JobKeys, ReadForRecovery(w, k) PROVE ActorsOK'
    <3> DEFINE s == [Idle EXCEPT !.pc = "recover_write", !.job = k, !.victim = VictimOf(jobs[k])]
    <3>1. s \in Actor /\ s.job = k
      BY <1>e, IdleType DEF Actor, Steps
    <3> QED
      BY <2>2, <2>a, <3>1, MoveKeepsActors DEF ReadForRecovery
  <2>3. CASE ExecuteJob(w)
    <3> DEFINE k == actor[w].job
    <3>1. At(w, "begin") /\ actor[w].pc \notin {"idle", "orphan"} /\ k \in JobKeys
      BY <2>3, <2>j DEF ExecuteJob, At
    <3>2. CASE Raise(w, FALSE)
      BY <2>a, <3>1, <3>2, RaiseKeepsActors
    <3>3. CASE Goto(w, "handoff")
      BY <2>a, <3>1, <3>3, GotoKeepsActors DEF Steps
    <3>4. CASE Become(w, [actor[w] EXCEPT !.pc = "prepare", !.exec = jobs[k].exec])
      <4> DEFINE s == [actor[w] EXCEPT !.pc = "prepare", !.exec = jobs[k].exec]
      <4>1. jobs[k].exec \in Executions
        BY <3>1, <1>j DEF WorkflowJob
      <4>2. s \in Actor
        BY <2>a, <4>1, ActorFields DEF Steps
      <4>3. s.job = k
        BY <2>a DEF Actor
      <4> QED
        BY <2>a, <3>1, <3>4, <4>2, <4>3, MoveKeepsActors
    <3>5. CASE Become(w, [actor[w] EXCEPT !.pc = "claim", !.recovery = RecoveryOf(jobs[k])])
      <4> DEFINE s == [actor[w] EXCEPT !.pc = "claim", !.recovery = RecoveryOf(jobs[k])]
      <4>1. s \in Actor
        BY <2>a, <3>1, <1>e, ActorFields DEF Steps
      <4>2. s.job = k
        BY <2>a DEF Actor
      <4> QED
        BY <2>a, <3>1, <3>5, <4>1, <4>2, MoveKeepsActors
    <3> QED
      BY <2>3, <3>2, <3>3, <3>4, <3>5 DEF ExecuteJob
  <2>4. CASE ReadForAttach(w)
    <3>1. actor[w].pc \notin {"idle", "orphan"} /\ actor[w].job \in JobKeys
      BY <2>4, <2>j DEF ReadForAttach, At
    <3> DEFINE s == [actor[w] EXCEPT !.pc = "attach_write", !.read = jobs[actor[w].job]]
    <3>2. s \in Actor
      BY <2>a, <3>1, <1>j, ActorFields DEF Steps
    <3>3. s.job = actor[w].job
      BY <2>a DEF Actor
    <3> QED
      BY <2>4, <2>a, <3>1, <3>2, <3>3, MoveKeepsActors, RaiseKeepsActors DEF ReadForAttach
  <2>5. CASE AttachExecution(w)
    <3> DEFINE step == IF Role = "engineering" THEN "prepare" ELSE "work"
               s == [actor[w] EXCEPT !.read = NoJob, !.pc = step]
    <3>1. actor[w].job \in JobKeys
      BY <2>5, <2>j DEF AttachExecution, At
    <3>2. step \in Steps
      BY DEF Steps
    <3>3. s \in Actor
      BY <2>a, <3>2, NoJobType, ActorFields
    <3>4. s.job = actor[w].job
      BY <2>a DEF Actor
    <3>5. Become(w, s)
      BY <2>5 DEF AttachExecution
    <3> QED
      BY <2>a, <3>1, <3>3, <3>4, <3>5, MoveKeepsActors
  <2>6. CASE PrepareEngineering(w)
    <3>1. actor[w].pc \notin {"idle", "orphan"}
      BY <2>6 DEF PrepareEngineering, At
    <3>2. Raise(w, TRUE) \/ Goto(w, "publish") \/ Goto(w, "work")
      BY <2>6 DEF PrepareEngineering
    <3> QED
      BY <2>a, <3>1, <3>2, GotoKeepsActors, RaiseKeepsActors DEF Steps
  <2>7. CASE ReadForComplete(w)
    <3>1. actor[w].pc \notin {"idle", "orphan"} /\ actor[w].job \in JobKeys
      BY <2>7, <2>j DEF ReadForComplete, At
    <3> DEFINE k == actor[w].job
               s == [Idle EXCEPT !.pc = "complete_write", !.job = k, !.read = jobs[k]]
    <3>2. s \in Actor /\ s.job = k
      BY <3>1, <1>j, IdleType DEF Actor, Steps
    <3> QED
      BY <2>7, <2>a, <3>1, <3>2, MoveKeepsActors, RaiseKeepsActors DEF ReadForComplete
  <2>8. CASE ReadForFail(w)
    <3>1. actor[w].pc \notin {"idle", "orphan"} /\ actor[w].job \in JobKeys
      BY <2>8, <2>j DEF ReadForFail, At
    <3> DEFINE k == actor[w].job
               s == [actor[w] EXCEPT !.pc = "fail_write", !.read = jobs[k],
                                     !.victim = VictimOf(jobs[k])]
    <3>2. s \in Actor
      BY <2>a, <3>1, <1>j, <1>e, ActorFields DEF Steps
    <3>3. s.job = k
      BY <2>a DEF Actor
    <3> QED
      BY <2>8, <2>a, <3>1, <3>2, <3>3, MoveKeepsActors, IdleKeepsActors DEF ReadForFail
  <2>9. CASE CompleteJob(w) \/ FailJob(w) \/ RecoverExpiredJob(w) \/ RecoverOrphanedWork(w)
    BY <2>9, <2>a, IdleKeepsActors
       DEF CompleteJob, FailJob, RecoverExpiredJob, RecoverOrphanedWork
  <2>10. ASSUME NEW e \in Attempts, ScanOrphans(w, e) PROVE ActorsOK'
    <3> DEFINE s == [Idle EXCEPT !.pc = "orphan", !.victim = e]
    <3>e. e \in Executions
      BY JobsConstantsHold DEF Attempts, Executions, JobsConstants
    <3>1. s \in Actor /\ s.pc = "orphan"
      BY <3>e, IdleType DEF Actor, Steps
    <3>2. Become(w, s)
      BY <2>10 DEF ScanOrphans
    <3> HIDE DEF s
    <3> QED
      BY <2>a, <3>1, <3>2, MoveKeepsActors
  <2> QED
    BY <1>1, <2>1, <2>2, <2>3, <2>4, <2>5, <2>6, <2>7, <2>8, <2>9, <2>10 DEF WorkerStep
<1>2. ASSUME NEW a \in Actors, HandlerStep(a) PROVE ActorsOK'
  <2>g. ASSUME NEW step \in {"start", "publish", "handoff_job"}, Goto(a, step),
               actor[a].pc \notin {"idle", "orphan"}
        PROVE  ActorsOK'
    BY <2>g, GotoKeepsActors DEF Steps, At
  <2>r. ASSUME NEW fatal \in BOOLEAN, Raise(a, fatal), actor[a].pc \notin {"idle", "orphan"}
        PROVE  ActorsOK'
    BY <2>r, RaiseKeepsActors DEF At
  <2>1. CASE ClaimRoleTask(a)
    BY <2>1, <2>g, <2>r DEF ClaimRoleTask, At
  <2>2. CASE StartRoleExecution(a) \/ ClaimCodeEngineerTask(a)
    <3>1. actor[a].pc \notin {"idle", "orphan"}
      BY <2>2 DEF StartRoleExecution, ClaimCodeEngineerTask, At
    <3>2. \/ latest < MaxExecutions /\ AfterClaim(a, latest + 1)
          \/ AfterClaim(a, latest)
          \/ Raise(a, FALSE)
      BY <2>2 DEF StartRoleExecution, ClaimCodeEngineerTask, StartExecution, ClaimEngineering,
                  NewAttempt
    <3> QED
      BY <3>1, <3>2, <1>e, <2>r, AfterClaimKeepsActors
  <2>3. CASE SaveProgress(a)
    BY <2>3, <1>u, <2>g, <2>r DEF SaveProgress, At, Outcome
  <2>4. CASE FinishRoleWork(a)
    BY <2>4, <2>g DEF FinishRoleWork, At
  <2>5. CASE \E fatal \in BOOLEAN : WorkRaises(a, fatal)
    BY <2>5, <2>r DEF WorkRaises, At
  <2>6. CASE LoseFence(a)
    <3>1. (Role = "engineering" /\ At(a, "work")) \in BOOLEAN
      BY DEF At
    <3>2. actor[a].pc \notin {"idle", "orphan"} /\ Raise(a, Role = "engineering" /\ At(a, "work"))
      BY <2>6 DEF LoseFence, At
    <3> QED
      BY <3>1, <3>2, <2>r
  <2>7. CASE PublishResult(a)
    <3> DEFINE s == [Idle EXCEPT !.pc = "handoff", !.job = actor[a].job]
    <3>1. s \in Actor /\ s.job = actor[a].job
      BY <1>a, IdleType DEF Actor, Steps
    <3>2. actor[a].pc \notin {"idle", "orphan"}
      BY <2>7 DEF PublishResult, At
    <3> QED
      BY <2>7, <3>1, <3>2, MoveKeepsActors DEF PublishResult, ActorsOK
  <2>8. CASE HandOff(a) \/ HandOffJob(a)
    <3>1. actor[a].pc \notin {"idle", "orphan"}
      BY <2>8 DEF HandOff, HandOffJob, At
    <3>2. Goto(a, "handoff_job") \/ AfterHandOff(a) \/ Raise(a, FALSE)
      BY <2>8 DEF HandOff, HandOffJob
    <3> QED
      BY <3>1, <3>2, <2>g, <2>r, AfterHandOffKeepsActors
  <2> QED
    BY <1>2, <2>1, <2>2, <2>3, <2>4, <2>5, <2>6, <2>7, <2>8 DEF HandlerStep
<1>3. ASSUME NEW r \in Requests, RequestStep(r) \/ UserAction(r) PROVE ActorsOK'
  <2>i. CASE Become(r, Idle)
    BY <2>i, <1>w, IdleKeepsActors
  <2>m. ASSUME NEW s \in Actor, Become(r, s) PROVE ActorsOK'
    BY <2>m, <1>w, MoveKeepsActors
  <2>1. CASE RequestStep(r)
    BY <2>1, <2>i DEF RequestStep, DispatchTask, StartClaimedEngineering, PauseRun
  <2>2. CASE ContinueRole(r)
    <3>1. [Idle EXCEPT !.pc = "claim", !.recovery = IF Status = "pending" THEN 0 ELSE latest]
             \in Actor
      BY <1>e, IdleType DEF Actor, Steps
    <3> QED
      BY <2>2, <3>1, <2>m DEF ContinueRole
  <2>3. CASE ContinueEngineering(r)
    <3>1. [Idle EXCEPT !.pc = "claim", !.recovery = IF Status = "running" THEN 0 ELSE latest]
             \in Actor
      BY <1>e, IdleType DEF Actor, Steps
    <3>2. [Idle EXCEPT !.pc = "dispatch"] \in Actor
      BY IdleType DEF Actor, Steps
    <3> QED
      BY <2>3, <3>1, <3>2, <2>m DEF ContinueEngineering
  <2>4. CASE ContinueHandOff(r)
    <3>1. [Idle EXCEPT !.pc = "handoff"] \in Actor
      BY IdleType DEF Actor, Steps
    <3> QED
      BY <2>4, <3>1, <2>m DEF ContinueHandOff
  <2>5. CASE PauseSnapshot(r)
    <3>1. [Idle EXCEPT !.pc = "pause", !.exec = IF Status = "pending" THEN 0 ELSE latest]
             \in Actor
      BY <1>e, IdleType DEF Actor, Steps
    <3> QED
      BY <2>5, <3>1, <2>m DEF PauseSnapshot
  <2>6. CASE ResumeRun(r) \/ CancelRun(r)
    BY <2>6, <1>u DEF ResumeRun, CancelRun
  <2> QED
    BY <1>3, <2>1, <2>2, <2>3, <2>4, <2>5, <2>6 DEF UserAction, Continue
<1>4. CASE Environment
  BY <1>4, <1>u, IdleKeepsActors DEF Environment, ExpireJobLease, ExpireExecutionLease, Crash
<1>5. ASSUME NEW w \in Workers, HeartbeatJob(w) PROVE ActorsOK'
  BY <1>5, <1>u DEF HeartbeatJob
<1> QED
  BY <1>u, <1>1, <1>2, <1>3, <1>4, <1>5 DEF Next, vars

-----------------------------------------------------------------------------
(* Job rows, and which steps make a job succeed *)

\* What a step may do to a job's row: it stays a row, and it becomes succeeded
\* only through complete_job.
Completes == \E w \in Workers : CompleteJob(w)
RowStep ==
    /\ JobsOK'
    /\ \A k \in JobKeys :
          jobs'[k].status = "succeeded" => jobs[k].status = "succeeded" \/ Completes

\* One row is written, and not to succeeded unless complete_job writes it.
LEMMA WriteRow ==
    ASSUME JobsOK, NEW k \in JobKeys, NEW j \in WorkflowJob,
           jobs' = [jobs EXCEPT ![k] = j],
           j.status = "succeeded" => jobs[k].status = "succeeded" \/ Completes
    PROVE  RowStep
BY DEF JobsOK, RowStep

\* enqueue_job writes a queued row or nothing.
LEMMA EnqueueRow ==
    ASSUME JobsOK, NEW k \in JobKeys, NEW e \in Executions, NEW recovery \in Executions,
           Enqueue(k, e, recovery)
    PROVE  RowStep
<1> DEFINE j == [NoJob EXCEPT !.status = "queued", !.exec = e, !.recovery = recovery]
<1>1. j \in WorkflowJob /\ j.status = "queued"
  BY NoJobType DEF WorkflowJob, JobStatus
<1>2. CASE jobs' = jobs
  BY <1>2 DEF JobsOK, RowStep
<1>3. CASE jobs' = [jobs EXCEPT ![k] = j]
  BY <1>1, <1>3, WriteRow
<1> QED
  BY <1>2, <1>3 DEF Enqueue

\* A job that failed is a row in failed or retry_wait.
LEMMA FailedType ==
    ASSUME NEW j \in WorkflowJob, NEW victim \in Executions, NEW fatal \in BOOLEAN
    PROVE  /\ Failed(j, victim, fatal) \in WorkflowJob
           /\ Failed(j, victim, fatal).status \in {"failed", "retry_wait"}
BY DEF Failed, WorkflowJob, JobStatus

\* The idempotency keys the callers use are keys of the job table.
LEMMA KeyTypes ==
    /\ DispatchKey \in JobKeys
    /\ \A e \in Attempts : EngineeringKey(e) \in JobKeys /\ RecoveryKey(e) \in JobKeys
BY DEF JobKeys

\* Every step leaves rows rows, and only complete_job makes one succeed.
LEMMA NextKeepsJobs ==
    ASSUME FenceTypeOK, JobsOK, ActorsOK, [Next]_vars
    PROVE  RowStep
<1>j. \A k \in JobKeys : jobs[k] \in WorkflowJob
  BY DEF JobsOK
<1>a. \A a \in Actors : actor[a] \in Actor
  BY DEF ActorsOK
<1>w. Workers \subseteq Actors /\ Requests \subseteq Actors /\ 0 \in Executions
      /\ Attempts \subseteq Executions
  BY JobsConstantsHold DEF JobsConstants, Actors, Executions, Attempts
<1>u. CASE UNCHANGED jobs
  BY <1>u DEF JobsOK, RowStep
<1>1. ASSUME NEW w \in Workers, NEW k \in JobKeys, ClaimNextJob(w, k) PROVE RowStep
  <2> DEFINE j == [jobs[k] EXCEPT !.status = "running", !.attempt = @ + 1,
                                   !.owner = w, !.lease = "valid"]
  <2>1. jobs[k] \in WorkflowJob /\ jobs[k].attempt < AttemptBound
    BY <1>1, <1>j DEF ClaimNextJob
  <2>2. jobs[k].attempt + 1 \in 0 .. AttemptBound
    BY <2>1, JobsConstantsHold DEF JobsConstants, WorkflowJob
  <2>3. j \in WorkflowJob /\ j.status = "running"
    BY <2>1, <2>2 DEF WorkflowJob, JobStatus
  <2>4. jobs' = [jobs EXCEPT ![k] = j]
    BY <1>1, <2>1 DEF ClaimNextJob, JobsOK, WorkflowJob
  <2> QED
    BY <2>3, <2>4, WriteRow
<1>2. ASSUME NEW w \in Workers, AttachExecution(w) \/ CompleteJob(w) \/ FailJob(w)
      PROVE  RowStep
  <2> DEFINE k == actor[w].job
             read == actor[w].read
  <2>1. k \in JobKeys /\ read \in WorkflowJob /\ actor[w].exec \in Executions
        /\ actor[w].victim \in Executions /\ actor[w].fatal \in BOOLEAN
    BY <1>2, <1>a, <1>w DEF AttachExecution, CompleteJob, FailJob, At, ActorsOK, Actor
  <2>2. ASSUME NEW new \in WorkflowJob, jobs' = [jobs EXCEPT ![k] = Flush(k, read, new)],
               new.status = "succeeded" => Completes \/ read.status = "succeeded",
               new.status = read.status => Flush(k, read, new).status = jobs[k].status
        PROVE  RowStep
    <3> DEFINE j == Flush(k, read, new)
    <3>1. j \in WorkflowJob /\ j.status \in {jobs[k].status, new.status}
      BY <2>1, FlushType DEF JobsOK
    <3>2. j.status = "succeeded" => jobs[k].status = "succeeded" \/ Completes
      BY <2>2, <3>1
    <3> HIDE DEF j
    <3>3. jobs' = [jobs EXCEPT ![k] = j]
      BY <2>2 DEF j
    <3> QED
      BY <2>1, <3>1, <3>2, <3>3, WriteRow
  <2>3. ASSUME NEW new \in WorkflowJob, new.status = read.status
        PROVE  Flush(k, read, new).status = jobs[k].status
    BY <2>1, <2>3 DEF Flush, WorkflowJob
  <2>4. CASE AttachExecution(w)
    <3> DEFINE new == [read EXCEPT !.exec = actor[w].exec, !.recovery = 0]
    <3>1. new \in WorkflowJob /\ new.status = read.status
      BY <2>1, <1>w DEF WorkflowJob
    <3> QED
      BY <2>2, <2>3, <2>4, <3>1 DEF AttachExecution
  <2>5. CASE CompleteJob(w)
    <3> DEFINE new == [read EXCEPT !.status = "succeeded", !.owner = NoOwner, !.lease = "none"]
    <3>1. new \in WorkflowJob
      BY <2>1 DEF WorkflowJob, JobStatus
    <3>2. Completes
      BY <2>5 DEF Completes
    <3> QED
      BY <2>2, <2>3, <2>5, <3>1, <3>2 DEF CompleteJob
  <2>6. CASE FailJob(w)
    <3> DEFINE new == Failed(read, actor[w].victim, actor[w].fatal)
    <3>1. new \in WorkflowJob /\ new.status # "succeeded"
      BY <2>1, FailedType
    <3> HIDE DEF new
    <3>2. jobs' = [jobs EXCEPT ![k] = Flush(k, read, new)]
      BY <2>6 DEF FailJob, new
    <3> QED
      BY <2>2, <2>3, <3>1, <3>2
  <2> QED
    BY <1>2, <2>4, <2>5, <2>6
<1>3. ASSUME NEW w \in Workers, RecoverExpiredJob(w) PROVE RowStep
  <2> DEFINE k == actor[w].job
             j == Failed(jobs[k], actor[w].victim, FALSE)
  <2>1. k \in JobKeys /\ actor[w].victim \in Executions
    BY <1>3, <1>a, <1>w DEF RecoverExpiredJob, At, ActorsOK, Actor
  <2>2. j \in WorkflowJob /\ j.status # "succeeded"
    BY <2>1, <1>j, FailedType
  <2>3. jobs' = [jobs EXCEPT ![k] = j]
    BY <1>3 DEF RecoverExpiredJob
  <2> HIDE DEF j
  <2> QED
    BY <2>1, <2>2, <2>3, WriteRow
<1>4. ASSUME NEW w \in Workers, RecoverOrphanedWork(w) PROVE RowStep
  <2> DEFINE e == actor[w].victim
  <2>1. CASE UNCHANGED jobs
    BY <2>1, <1>u
  <2>2. CASE Running(e) /\ Enqueue(RecoveryKey(e), e, e)
    <3>1. e \in Attempts
      BY <2>2 DEF Running
    <3> QED
      BY <2>2, <3>1, <1>w, KeyTypes, EnqueueRow
  <2> QED
    BY <1>4, <2>1, <2>2 DEF RecoverOrphanedWork
<1>5. ASSUME NEW r \in Requests, DispatchTask(r) PROVE RowStep
  BY <1>5, <1>u, <1>w, KeyTypes, EnqueueRow DEF DispatchTask
<1>6. ASSUME NEW r \in Requests, StartClaimedEngineering(r) PROVE RowStep
  <2>1. actor[r].exec \in Executions
    BY <1>a, <1>w DEF Actor
  <2>2. Enqueue(EngineeringKey(actor[r].exec), actor[r].exec, 0)
    BY <1>6 DEF StartClaimedEngineering
  <2>3. CASE EngineeringKey(actor[r].exec) \in JobKeys
    BY <2>1, <2>2, <2>3, <1>w, EnqueueRow
  <2>4. CASE EngineeringKey(actor[r].exec) \notin JobKeys
    BY <2>2, <2>4, <1>u DEF Enqueue, JobsOK
  <2> QED
    BY <2>3, <2>4
<1>7. ASSUME NEW r \in Requests, PauseRun(r) PROVE RowStep
  <2>1. CASE jobs' = [k \in JobKeys |-> PausedJob(jobs[k], actor[r].exec)]
    <3>1. actor[r].exec \in Executions
      BY <1>a, <1>w DEF Actor
    <3>2. ASSUME NEW k \in JobKeys
          PROVE  /\ PausedJob(jobs[k], actor[r].exec) \in WorkflowJob
                 /\ PausedJob(jobs[k], actor[r].exec).status = "succeeded"
                       => jobs[k].status = "succeeded"
      BY <1>j, <3>1 DEF PausedJob, WorkflowJob, JobStatus, ActiveJobStatus
    <3> QED
      BY <2>1, <3>2 DEF RowStep, JobsOK
  <2> QED
    BY <1>7, <1>u, <2>1 DEF PauseRun
<1>8. ASSUME NEW r \in Requests, CancelRun(r) PROVE RowStep
  <2>1. ASSUME NEW k \in JobKeys
        PROVE  /\ CancelledJob(jobs[k]) \in WorkflowJob
               /\ CancelledJob(jobs[k]).status = "succeeded" => jobs[k].status = "succeeded"
    BY <1>j DEF CancelledJob, WorkflowJob, JobStatus, ActiveJobStatus
  <2> QED
    BY <1>8, <2>1 DEF CancelRun, RowStep, JobsOK
<1>9. ASSUME NEW k \in JobKeys, ExpireJobLease(k) PROVE RowStep
  <2> DEFINE j == [jobs[k] EXCEPT !.lease = "expired"]
  <2>1. j \in WorkflowJob /\ j.status = jobs[k].status
    BY <1>j DEF WorkflowJob
  <2>2. jobs' = [jobs EXCEPT ![k] = j]
    BY <1>9, <1>j DEF ExpireJobLease, JobsOK, WorkflowJob
  <2> QED
    BY <2>1, <2>2, WriteRow
<1>10. CASE \E w \in Workers : WorkerStep(w) \/ HeartbeatJob(w)
  BY <1>10, <1>u, <1>1, <1>2, <1>3, <1>4
     DEF WorkerStep, ReadForRecovery, ScanOrphans, ExecuteJob, ReadForAttach,
         PrepareEngineering, ReadForComplete, ReadForFail, HeartbeatJob
<1>11. CASE \E a \in Actors : HandlerStep(a)
  BY <1>11, <1>u
     DEF HandlerStep, ClaimRoleTask, StartRoleExecution, ClaimCodeEngineerTask, SaveProgress,
         FinishRoleWork, WorkRaises, LoseFence, PublishResult, HandOff, HandOffJob
<1>12. CASE \E r \in Requests : RequestStep(r) \/ UserAction(r)
  BY <1>12, <1>u, <1>5, <1>6, <1>7, <1>8
     DEF RequestStep, UserAction, Continue, ContinueRole, ContinueEngineering, ContinueHandOff,
         PauseSnapshot, ResumeRun
<1>13. CASE Environment
  BY <1>13, <1>u, <1>9 DEF Environment, ExpireExecutionLease, Crash
<1> QED
  BY <1>u, <1>10, <1>11, <1>12, <1>13 DEF Next, vars

\* Types of the whole system, for any number of workers and threads.
JobsInv == FenceInv /\ JobsOK /\ ActorsOK

\* The Leader has committed the task, nothing else has happened.
LEMMA InitJobsInv == Init => JobsInv
<1> SUFFICES ASSUME Init PROVE JobsInv
  OBVIOUS
<1>1. FenceInv
  BY InitImpliesFenceInit, FenceInitInv
<1>2. JobsOK
  BY NoJobType DEF Init, JobsOK
<1>3. ActorsOK
  <2>1. PICK r \in Requests :
           actor = [a \in Actors |-> IF a = r THEN [Idle EXCEPT !.pc = "dispatch"] ELSE Idle]
    BY DEF Init
  <2>2. [Idle EXCEPT !.pc = "dispatch"] \in Actor
    BY IdleType DEF Actor, Steps
  <2>3. \A w \in Workers : w \in Actors /\ actor[w] = Idle
    BY <2>1, JobsConstantsHold DEF JobsConstants, Actors
  <2> QED
    BY <2>1, <2>2, <2>3, IdleType DEF ActorsOK, Idle
<1> QED
  BY <1>1, <1>2, <1>3 DEF JobsInv

\* One step keeps the invariant of fence, rows and actors.
LEMMA NextJobsInv == JobsInv /\ [Next]_vars => JobsInv'
<1> SUFFICES ASSUME JobsInv, [Next]_vars PROVE JobsInv'
  OBVIOUS
<1>1. FenceTypeOK /\ JobsOK /\ ActorsOK /\ FenceInv
  BY DEF JobsInv, FenceInv
<1>2. FenceInv'
  BY <1>1, StepRefinesFence, FenceNextInv
<1>3. JobsOK' /\ ActorsOK'
  BY <1>1, NextKeepsActors, NextKeepsJobs DEF RowStep
<1> QED
  BY <1>2, <1>3 DEF JobsInv

\* Fence, job rows and actors are well formed in every reachable state.
THEOREM JobsInvariant == Spec => []JobsInv
BY InitJobsInv, NextJobsInv, PTL DEF Spec

\* Only the hand-off steps change what is owed.
LEMMA HandedMoves ==
    ASSUME [Next]_vars
    PROVE  UNCHANGED handed \/ \E a \in Actors : HandOff(a) \/ HandOffJob(a)
<1> DEFINE Goal == UNCHANGED handed \/ \E a \in Actors : HandOff(a) \/ HandOffJob(a)
<1>1. CASE UNCHANGED handed
  BY <1>1
<1>2. ASSUME NEW a \in Actors, HandOff(a) \/ HandOffJob(a) PROVE Goal
  BY <1>2
<1>3. CASE \E w \in Workers : WorkerStep(w) \/ HeartbeatJob(w)
  <2>1. PICK w \in Workers : WorkerStep(w) \/ HeartbeatJob(w) BY <1>3
  <2>2. CASE \E k \in JobKeys : ClaimNextJob(w, k) \/ ReadForRecovery(w, k)
    BY <2>2, <1>1 DEF ClaimNextJob, ReadForRecovery
  <2>3. CASE ExecuteJob(w) \/ ReadForAttach(w) \/ AttachExecution(w) \/ PrepareEngineering(w)
    BY <2>3, <1>1 DEF ExecuteJob, ReadForAttach, AttachExecution, PrepareEngineering
  <2>4. CASE ReadForComplete(w) \/ CompleteJob(w) \/ ReadForFail(w) \/ FailJob(w)
    BY <2>4, <1>1 DEF ReadForComplete, CompleteJob, ReadForFail, FailJob
  <2>5. \/ RecoverExpiredJob(w) \/ RecoverOrphanedWork(w) \/ HeartbeatJob(w)
        \/ \E e \in Attempts : ScanOrphans(w, e)
        => Goal
    BY <1>1 DEF RecoverExpiredJob, ScanOrphans, RecoverOrphanedWork, HeartbeatJob
  <2> QED BY ONLY <2>1, <2>2, <2>3, <2>4, <2>5 DEF WorkerStep
<1>4. CASE \E a \in Actors : HandlerStep(a)
  BY <1>4, <1>1, <1>2
     DEF HandlerStep, ClaimRoleTask, StartRoleExecution, ClaimCodeEngineerTask, SaveProgress,
         FinishRoleWork, WorkRaises, LoseFence, PublishResult
<1>5. CASE \E r \in Requests : RequestStep(r) \/ UserAction(r)
  BY <1>5, <1>1
     DEF RequestStep, UserAction, DispatchTask, StartClaimedEngineering, PauseRun, Continue,
         ContinueRole, ContinueEngineering, ContinueHandOff, PauseSnapshot, ResumeRun, CancelRun
<1>6. CASE Environment
  BY <1>6, <1>1 DEF Environment, ExpireJobLease, ExpireExecutionLease, Crash
<1> QED
  BY <1>1, <1>3, <1>4, <1>5, <1>6 DEF Next, vars

\* The follow-up is owed, staged or done; it never goes back.
LEMMA NextHanded ==
    ASSUME [Next]_vars
    PROVE  /\ HandedOK => HandedOK'
           /\ handed = "done" => handed' = "done"
BY HandedMoves DEF HandOff, HandOffJob, HandedOK

\* Every variable has the type the module states, for any number of workers.
THEOREM JobsTypeCorrect == Spec => []JobsTypeOK
<1>1. Init => HandedOK
  BY DEF Init, HandedOK
<1>2. HandedOK /\ [Next]_vars => HandedOK'
  BY NextHanded
<1>3. JobsInv /\ HandedOK => JobsTypeOK
  BY DEF JobsInv, FenceInv, JobsOK, ActorsOK, HandedOK, JobsTypeOK
<1> QED
  BY <1>1, <1>2, <1>3, JobsInvariant, PTL DEF Spec

-----------------------------------------------------------------------------
(* Where an actor goes *)

HandingOff == {"handoff", "handoff_job"}
Completing == {"complete", "complete_write"}
\* Steps of a role's actor that holds an execution it started itself.
Owning == {"attach", "attach_write", "work", "publish"}

\* What the actors' program counters promise about the result; the engineering
\* loop has a prepare, the other roles have not.
FollowUp ==
    \A a \in Actors :
        /\ actor[a].pc \in HandingOff => result # 0
        /\ actor[a].pc \in Completing => result # 0 /\ handed = "done"
        /\ actor[a].pc = "prepare" => Role = "engineering"

\* An actor that moves keeps that promise, and comes to hold an execution of a
\* role only by starting it.
Move(a) ==
    /\ actor'[a].pc \in HandingOff => result' # 0
    /\ actor'[a].pc \in Completing => result' # 0 /\ handed' = "done"
    /\ Role # "engineering" =>
          /\ actor'[a].pc # "prepare"
          /\ actor'[a].pc \in Owning =>
                \/ actor[a].pc \in Owning /\ actor'[a].exec = actor[a].exec
                \/ actor'[a].exec = latest + 1 /\ latest' = latest + 1

OneMoves ==
    \/ UNCHANGED actor
    \/ \E a \in Actors : Move(a) /\ \A b \in Actors : b # a => actor'[b] = actor[b]

\* One actor is written, the others are where they were.
LEMMA BecomeMoves ==
    ASSUME ActorsOK, NEW a \in Actors, NEW s, Become(a, s)
    PROVE  actor'[a] = s /\ \A b \in Actors : b # a => actor'[b] = actor[b]
BY DEF ActorsOK, Become

\* A step to a place that promises nothing.
LEMMA QuietMove ==
    ASSUME ActorsOK, NEW a \in Actors, NEW s, Become(a, s),
           s.pc \notin HandingOff \cup Completing \cup Owning \cup {"prepare"}
    PROVE  OneMoves
<1>1. actor'[a] = s /\ \A b \in Actors : b # a => actor'[b] = actor[b]
  BY BecomeMoves
<1>2. Move(a)
  BY <1>1 DEF Move
<1> QED
  BY <1>1, <1>2 DEF OneMoves

\* Coming to rest promises nothing.
LEMMA IdleMoves ==
    ASSUME ActorsOK, NEW a \in Actors, Become(a, Idle)
    PROVE  OneMoves
BY QuietMove DEF Idle, HandingOff, Completing, Owning

\* An exception leads to fail_job or to rest.
LEMMA RaiseMoves ==
    ASSUME ActorsOK, NEW a \in Actors, NEW fatal, Raise(a, fatal)
    PROVE  OneMoves
<1> DEFINE s == [Idle EXCEPT !.pc = "fail", !.job = actor[a].job, !.fatal = fatal]
<1>1. s.pc \notin HandingOff \cup Completing \cup Owning \cup {"prepare"}
  BY DEF Idle, HandingOff, Completing, Owning
<1>2. CASE Become(a, s)
  BY <1>1, <1>2, QuietMove
<1> QED
  BY <1>2, IdleMoves DEF Raise

\* Goto changes the place and nothing else.
LEMMA GotoMoves ==
    ASSUME ActorsOK, NEW a \in Actors, NEW step, Goto(a, step)
    PROVE  /\ actor'[a].pc = step /\ actor'[a].exec = actor[a].exec
           /\ \A b \in Actors : b # a => actor'[b] = actor[b]
<1>1. actor[a] \in Actor
  BY DEF ActorsOK
<1> DEFINE s == [actor[a] EXCEPT !.pc = step]
<1>2. s.pc = step /\ s.exec = actor[a].exec
  BY <1>1 DEF Actor
<1>3. Become(a, s)
  BY DEF Goto
<1> QED
  BY <1>2, <1>3, BecomeMoves

\* A claimed execution of a role is the new one.
LEMMA AfterClaimMoves ==
    ASSUME ActorsOK, NEW a \in Actors, NEW e, AfterClaim(a, e),
           Role # "engineering" => e = latest + 1 /\ latest' = latest + 1
    PROVE  OneMoves
<1> DEFINE step == IF a \in Workers THEN "attach"
                   ELSE IF Role = "engineering" THEN "enqueue" ELSE "work"
           s == [actor[a] EXCEPT !.exec = e, !.recovery = 0, !.pc = step]
<1>1. actor[a] \in Actor
  BY DEF ActorsOK
<1>2. s.pc = step /\ s.exec = e
  BY <1>1 DEF Actor
<1>3. Become(a, s)
  BY DEF AfterClaim
<1>4. actor'[a] = s /\ \A b \in Actors : b # a => actor'[b] = actor[b]
  BY <1>3, BecomeMoves
<1>5. Move(a)
  BY <1>2, <1>4 DEF Move, HandingOff, Completing, Owning
<1> QED
  BY <1>4, <1>5 DEF OneMoves

\* A result is never taken back, the owner of the task does not change.
LEMMA FenceStepFacts ==
    ASSUME FenceInv, [FenceNext]_fenceVars
    PROVE  /\ result # 0 => result' = result
           /\ Role' = Role
           /\ latest' >= latest
<1>1. task \in [recipient : Recipients, status : TaskStatus] /\ latest \in Nat
  BY Constants DEF FenceInv, FenceTypeOK, ConstantAssumptions
<1>2. result # 0 => result' = result
  BY DEF FenceNext, fenceVars, ClaimTask, StartExecution, ClaimEngineering, SaveDraft,
         ResumeCheckpoint, RenewExecution, ExpireExecution, FailExecution, OverwriteFailed,
         Publish, CanPublish, Pause, Resume, Cancel
<1>3. task' = task \/ \E st : task' = [task EXCEPT !.status = st]
  BY DEF FenceNext, fenceVars, ClaimTask, StartExecution, ClaimEngineering, SaveDraft,
         ResumeCheckpoint, RenewExecution, ExpireExecution, FailExecution, OverwriteFailed,
         Publish, Pause, Resume, Cancel
<1>4. Role' = Role
  BY <1>1, <1>3 DEF Role
<1>5. latest' = latest \/ latest' = latest + 1
  BY DEF FenceNext, fenceVars, ClaimTask, StartExecution, ClaimEngineering, NewAttempt,
         SaveDraft, ResumeCheckpoint, RenewExecution, ExpireExecution, FailExecution,
         OverwriteFailed, Publish, Pause, Resume, Cancel
<1> QED
  BY <1>1, <1>2, <1>4, <1>5

\* Going to a place that hands off or completes, with a published result.
LEMMA PlaceMoves ==
    ASSUME ActorsOK, NEW a \in Actors, NEW s, Become(a, s),
           s.pc \notin Owning \cup {"prepare"},
           s.pc \in HandingOff => result' # 0,
           s.pc \in Completing => result' # 0 /\ handed' = "done"
    PROVE  OneMoves
<1>1. actor'[a] = s /\ \A b \in Actors : b # a => actor'[b] = actor[b]
  BY BecomeMoves
<1>2. Move(a)
  BY <1>1 DEF Move
<1> QED
  BY <1>1, <1>2 DEF OneMoves

\* Going on to a place, with the execution the actor has.
LEMMA StayMoves ==
    ASSUME ActorsOK, NEW a \in Actors, NEW step, Goto(a, step), step # "prepare",
           step \in Owning => Role = "engineering" \/ actor[a].pc \in Owning,
           step \in HandingOff => result' # 0,
           step \in Completing => result' # 0 /\ handed' = "done"
    PROVE  OneMoves
<1>1. /\ actor'[a].pc = step /\ actor'[a].exec = actor[a].exec
      /\ \A b \in Actors : b # a => actor'[b] = actor[b]
  BY GotoMoves
<1>2. Move(a)
  BY <1>1 DEF Move
<1> QED
  BY <1>1, <1>2 DEF OneMoves

\* A worker completes its job after the follow-up is done, a thread is finished.
LEMMA AfterHandOffMoves ==
    ASSUME ActorsOK, NEW a \in Actors, AfterHandOff(a), result' # 0, handed' = "done"
    PROVE  OneMoves
BY StayMoves, IdleMoves DEF AfterHandOff, HandingOff, Completing, Owning

\* Every step moves at most one actor, as Move says.
LEMMA NextMoves ==
    ASSUME JobsInv, FollowUp, [Next]_vars
    PROVE  OneMoves
<1>i. FenceInv /\ FenceTypeOK /\ JobsOK /\ ActorsOK
  BY DEF JobsInv, FenceInv
<1>f. result # 0 => result' = result
  BY <1>i, StepRefinesFence, FenceStepFacts
<1>w. Workers \subseteq Actors /\ Requests \subseteq Actors
  BY DEF Actors
<1>a. \A a \in Actors : actor[a] \in Actor
  BY <1>i DEF ActorsOK
<1>u. CASE UNCHANGED actor
  BY <1>u DEF OneMoves
<1>d. ASSUME NEW a \in Actors, Become(a, Idle) PROVE OneMoves
  BY <1>d, <1>i, IdleMoves
<1>r. ASSUME NEW a \in Actors, NEW fatal, Raise(a, fatal) PROVE OneMoves
  BY <1>r, <1>i, RaiseMoves
<1>1. ASSUME NEW w \in Workers, WorkerStep(w) PROVE OneMoves
  <2>a. w \in Actors /\ actor[w] \in Actor
    BY <1>a, <1>w
  <2>1. CASE \E k \in JobKeys : ClaimNextJob(w, k) \/ ReadForRecovery(w, k)
    <3>1. PICK k \in JobKeys : ClaimNextJob(w, k) \/ ReadForRecovery(w, k)
      BY <2>1
    <3>2. CASE ClaimNextJob(w, k)
      BY <2>a, <1>i, <3>2, QuietMove DEF ClaimNextJob, Idle, HandingOff, Completing, Owning
    <3>3. CASE ReadForRecovery(w, k)
      BY <2>a, <1>i, <3>3, QuietMove DEF ReadForRecovery, Idle, HandingOff, Completing, Owning
    <3> QED
      BY <3>1, <3>2, <3>3
  <2>2. CASE ExecuteJob(w)
    <3> DEFINE k == actor[w].job
               s == [actor[w] EXCEPT !.pc = "claim", !.recovery = RecoveryOf(jobs[k])]
               t == [actor[w] EXCEPT !.pc = "prepare", !.exec = jobs[k].exec]
    <3>1. CASE Raise(w, FALSE)
      BY <2>a, <3>1, <1>r
    <3>2. CASE result # 0 /\ Goto(w, "handoff")
      BY <2>a, <3>2, <1>i, <1>f, StayMoves DEF Owning, HandingOff, Completing
    <3>3. CASE Role = "engineering" /\ Become(w, t)
      <4>1. t.pc = "prepare"
        BY <2>a DEF Actor
      <4>2. actor'[w] = t /\ \A b \in Actors : b # w => actor'[b] = actor[b]
        BY <2>a, <3>3, <1>i, BecomeMoves
      <4>3. Move(w)
        BY <3>3, <4>1, <4>2 DEF Move, HandingOff, Completing
      <4> QED
        BY <2>a, <4>2, <4>3 DEF OneMoves
    <3>4. CASE Become(w, s)
      <4>1. s.pc = "claim"
        BY <2>a DEF Actor
      <4> HIDE DEF s
      <4> QED
        BY <2>a, <3>4, <4>1, <1>i, QuietMove DEF HandingOff, Completing, Owning
    <3> QED
      BY <2>2, <3>1, <3>2, <3>3, <3>4 DEF ExecuteJob
  <2>3. CASE ReadForAttach(w)
    <3> DEFINE s == [actor[w] EXCEPT !.pc = "attach_write", !.read = jobs[actor[w].job]]
    <3>1. CASE Become(w, s)
      <4>1. s.pc = "attach_write" /\ s.exec = actor[w].exec
        BY <2>a DEF Actor
      <4>2. actor'[w] = s /\ \A b \in Actors : b # w => actor'[b] = actor[b]
        BY <2>a, <3>1, <1>i, BecomeMoves
      <4>3. actor[w].pc = "attach"
        BY <2>3 DEF ReadForAttach, At
      <4> HIDE DEF s
      <4>4. Move(w)
        BY <4>1, <4>2, <4>3 DEF Move, HandingOff, Completing, Owning
      <4> QED
        BY <2>a, <4>2, <4>4 DEF OneMoves
    <3> QED
      BY <2>3, <2>a, <3>1, <1>r DEF ReadForAttach
  <2>4. CASE AttachExecution(w)
    <3> DEFINE step == IF Role = "engineering" THEN "prepare" ELSE "work"
               s == [actor[w] EXCEPT !.read = NoJob, !.pc = step]
    <3>1. s.pc = step /\ s.exec = actor[w].exec
      BY <2>a DEF Actor
    <3>2. Become(w, s)
      BY <2>4 DEF AttachExecution
    <3>3. actor'[w] = s /\ \A b \in Actors : b # w => actor'[b] = actor[b]
      BY <2>a, <3>2, <1>i, BecomeMoves
    <3>4. actor[w].pc = "attach_write"
      BY <2>4 DEF AttachExecution, At
    <3> HIDE DEF s
    <3>5. Move(w)
      BY <3>1, <3>3, <3>4 DEF Move, HandingOff, Completing, Owning
    <3> QED
      BY <2>a, <3>3, <3>5 DEF OneMoves
  <2>5. CASE PrepareEngineering(w)
    <3>1. CASE Raise(w, TRUE)
      BY <2>a, <3>1, <1>r
    <3>2. CASE Goto(w, "publish") \/ Goto(w, "work")
      <4>1. actor[w].pc = "prepare"
        BY <2>5 DEF PrepareEngineering, At
      <4>2. Move(w) /\ \A b \in Actors : b # w => actor'[b] = actor[b]
        <5>1. Role = "engineering"
          BY <2>a, <4>1 DEF FollowUp
        <5> QED
          BY <2>a, <3>2, <5>1, <1>i, GotoMoves DEF Move, HandingOff, Completing
      <4> QED
        BY <2>a, <4>2 DEF OneMoves
    <3> QED
      BY <2>5, <3>1, <3>2 DEF PrepareEngineering
  <2>6. CASE ReadForComplete(w)
    <3> DEFINE s == [Idle EXCEPT !.pc = "complete_write", !.job = actor[w].job,
                                 !.read = jobs[actor[w].job]]
    <3>1. CASE Become(w, s)
      <4>1. s.pc = "complete_write"
        BY DEF Idle
      <4>2. result # 0 /\ handed = "done" /\ handed' = handed
        BY <2>6, <2>a DEF ReadForComplete, At, FollowUp, Completing
      <4> HIDE DEF s
      <4> QED
        BY <2>a, <3>1, <4>1, <4>2, <1>i, <1>f, PlaceMoves DEF Owning, HandingOff, Completing
    <3> QED
      BY <2>6, <2>a, <3>1, <1>r DEF ReadForComplete
  <2>7. CASE ReadForFail(w)
    <3> DEFINE s == [actor[w] EXCEPT !.pc = "fail_write", !.read = jobs[actor[w].job],
                                     !.victim = VictimOf(jobs[actor[w].job])]
    <3>1. s.pc = "fail_write"
      BY <2>a DEF Actor
    <3>2. Become(w, s) \/ Become(w, Idle)
      BY <2>7 DEF ReadForFail
    <3> HIDE DEF s
    <3> QED
      BY <2>a, <3>1, <3>2, <1>d, <1>i, QuietMove DEF HandingOff, Completing, Owning
  <2>8. CASE CompleteJob(w) \/ FailJob(w) \/ RecoverExpiredJob(w) \/ RecoverOrphanedWork(w)
    BY <2>8, <2>a, <1>d DEF CompleteJob, FailJob, RecoverExpiredJob, RecoverOrphanedWork
  <2>9. CASE \E e \in Attempts : ScanOrphans(w, e)
    BY <2>a, <1>i, <2>9, QuietMove DEF ScanOrphans, Idle, HandingOff, Completing, Owning
  <2> QED
    BY <1>1, <2>1, <2>2, <2>3, <2>4, <2>5, <2>6, <2>7, <2>8, <2>9 DEF WorkerStep
<1>2. ASSUME NEW a \in Actors, HandlerStep(a) PROVE OneMoves
  <2>1. CASE ClaimRoleTask(a)
    <3>1. Goto(a, "start") \/ Raise(a, FALSE)
      BY <2>1 DEF ClaimRoleTask
    <3> QED
      BY <3>1, <1>i, <1>r, StayMoves DEF Owning, HandingOff, Completing
  <2>2. CASE StartRoleExecution(a)
    <3>1. \/ AfterClaim(a, latest + 1) /\ latest' = latest + 1
          \/ Raise(a, FALSE)
      BY <2>2 DEF StartRoleExecution, StartExecution, NewAttempt
    <3> QED
      BY <3>1, <1>i, <1>r, AfterClaimMoves
  <2>3. CASE ClaimCodeEngineerTask(a)
    <3>1. Role = "engineering"
      BY <2>3 DEF ClaimCodeEngineerTask
    <3>2. AfterClaim(a, latest + 1) \/ AfterClaim(a, latest) \/ Raise(a, FALSE)
      BY <2>3 DEF ClaimCodeEngineerTask
    <3> QED
      BY <3>1, <3>2, <1>i, <1>r, AfterClaimMoves
  <2>4. CASE SaveProgress(a) \/ FinishRoleWork(a)
    <3>1. At(a, "work")
      BY <2>4 DEF SaveProgress, FinishRoleWork
    <3>2. UNCHANGED actor \/ Goto(a, "publish") \/ Raise(a, TRUE)
      BY <2>4 DEF SaveProgress, FinishRoleWork, Outcome
    <3>3. CASE Goto(a, "publish")
      BY <3>1, <3>3, <1>i, StayMoves DEF At, Owning, HandingOff, Completing
    <3> QED
      BY <3>2, <3>3, <1>u, <1>r
  <2>5. CASE (\E fatal \in BOOLEAN : WorkRaises(a, fatal)) \/ LoseFence(a)
    BY <2>5, <1>r DEF WorkRaises, LoseFence
  <2>6. CASE PublishResult(a)
    <3> DEFINE s == [Idle EXCEPT !.pc = "handoff", !.job = actor[a].job]
    <3>1. s.pc = "handoff"
      BY DEF Idle
    <3>2. Become(a, s)
      BY <2>6 DEF PublishResult
    <3>3. result' # 0
      <4>1. CASE Publish(actor[a].exec)
        <5>1. actor[a].exec \in Attempts /\ result' = actor[a].exec
          BY <4>1 DEF Publish, CanPublish, RequireExecution, Live, Running
        <5> QED
          BY <5>1, JobsConstantsHold DEF Attempts, JobsConstants
      <4>2. CASE result # 0
        BY <4>2, <1>f, <1>i DEF FenceInv, FenceTypeOK
      <4> QED
        BY <2>6, <4>1, <4>2 DEF PublishResult
    <3> HIDE DEF s
    <3> QED
      BY <3>1, <3>2, <3>3, <1>i, PlaceMoves DEF Owning, HandingOff, Completing
  <2>7. CASE HandOff(a) \/ HandOffJob(a)
    <3>1. result # 0 /\ result' # 0
      BY <2>7, <1>f DEF HandOff, HandOffJob, At, FollowUp, HandingOff
    <3>2. \/ Goto(a, "handoff_job")
          \/ handed' = "done" /\ AfterHandOff(a)
          \/ Raise(a, FALSE)
      BY <2>7 DEF HandOff, HandOffJob
    <3>3. CASE Goto(a, "handoff_job")
      BY <3>1, <3>3, <1>i, StayMoves DEF Owning, HandingOff, Completing
    <3> QED
      BY <3>1, <3>2, <3>3, <1>i, <1>r, AfterHandOffMoves
  <2> QED
    BY <1>2, <2>1, <2>2, <2>3, <2>4, <2>5, <2>6, <2>7 DEF HandlerStep
<1>3. ASSUME NEW r \in Requests, RequestStep(r) \/ UserAction(r) PROVE OneMoves
  <2>a. r \in Actors
    BY <1>w
  <2>1. CASE RequestStep(r)
    BY <2>1, <2>a, <1>d DEF RequestStep, DispatchTask, StartClaimedEngineering, PauseRun
  <2>2. CASE ContinueRole(r) \/ ContinueEngineering(r) \/ PauseSnapshot(r)
    <3>1. ASSUME NEW s, Become(r, s), s.pc \in {"claim", "dispatch", "pause"}
          PROVE  OneMoves
      BY <3>1, <2>a, <1>i, QuietMove DEF HandingOff, Completing, Owning
    <3>2. CASE ContinueRole(r)
      BY <3>1, <3>2 DEF ContinueRole, Idle
    <3>3. CASE ContinueEngineering(r)
      BY <3>1, <3>3 DEF ContinueEngineering, Idle
    <3>4. CASE PauseSnapshot(r)
      BY <3>1, <3>4 DEF PauseSnapshot, Idle
    <3> QED
      BY <2>2, <3>2, <3>3, <3>4
  <2>3. CASE ContinueHandOff(r)
    BY <2>3, <2>a, <1>i, <1>f, PlaceMoves
       DEF ContinueHandOff, Idle, HandingOff, Completing, Owning
  <2>4. CASE ResumeRun(r) \/ CancelRun(r)
    BY <2>4, <1>u DEF ResumeRun, CancelRun
  <2> QED
    BY <1>3, <2>1, <2>2, <2>3, <2>4 DEF UserAction, Continue
<1>4. CASE Environment
  BY <1>4, <1>u, <1>d DEF Environment, ExpireJobLease, ExpireExecutionLease, Crash
<1>5. ASSUME NEW w \in Workers, HeartbeatJob(w) PROVE OneMoves
  BY <1>5, <1>u DEF HeartbeatJob
<1> QED
  BY <1>u, <1>1, <1>2, <1>3, <1>4, <1>5 DEF Next, vars

-----------------------------------------------------------------------------
(* What follows a result *)

\* What handlers promise is kept by every step, and a job succeeds only by it.
HandOffInv == JobsInv /\ FollowUp /\ SucceededJobHandedOff

\* No actor has moved and no job has succeeded initially.
LEMMA InitHandOffInv == Init => HandOffInv
<1> SUFFICES ASSUME Init PROVE HandOffInv
  OBVIOUS
<1>1. \A a \in Actors : actor[a].pc \in {"idle", "dispatch"}
  <2>1. PICK r \in Requests :
           actor = [a \in Actors |-> IF a = r THEN [Idle EXCEPT !.pc = "dispatch"] ELSE Idle]
    BY DEF Init
  <2> QED
    BY <2>1 DEF Idle
<1>2. FollowUp
  BY <1>1 DEF FollowUp, HandingOff, Completing
<1>3. SucceededJobHandedOff
  BY DEF Init, NoJob, SucceededJobHandedOff
<1> QED
  BY <1>2, <1>3, InitJobsInv DEF HandOffInv

\* One step keeps both: published results and done follow-ups stay so, the
\* actor that moved is covered by Move, and complete_job runs after the hand-off.
LEMMA NextHandOffInv == HandOffInv /\ [Next]_vars => HandOffInv'
<1> SUFFICES ASSUME HandOffInv, [Next]_vars PROVE HandOffInv'
  OBVIOUS
<1>1. JobsInv /\ FenceInv /\ FenceTypeOK /\ JobsOK /\ ActorsOK /\ FollowUp
  BY DEF HandOffInv, JobsInv, FenceInv
<1>2. /\ result # 0 => result' = result
      /\ Role' = Role
      /\ handed = "done" => handed' = "done"
  BY <1>1, StepRefinesFence, FenceStepFacts, NextHanded
<1>3. JobsInv'
  BY <1>1, NextJobsInv
<1>4. FollowUp'
  <2>1. CASE UNCHANGED actor
    BY <1>1, <1>2, <2>1 DEF FollowUp
  <2>2. ASSUME NEW a \in Actors, Move(a), \A b \in Actors : b # a => actor'[b] = actor[b]
        PROVE  FollowUp'
    BY <1>1, <1>2, <2>2 DEF FollowUp, Move
  <2> QED
    BY <1>1, <2>1, <2>2, NextMoves DEF OneMoves
<1>5. SucceededJobHandedOff'
  <2>1. ASSUME Completes PROVE result # 0 /\ handed = "done"
    BY <1>1, <2>1 DEF Completes, CompleteJob, At, FollowUp, Completing, Actors
  <2>2. ASSUME NEW k \in JobKeys, jobs'[k].status = "succeeded"
        PROVE  result # 0 /\ handed = "done"
    BY <1>1, <2>1, <2>2, NextKeepsJobs DEF RowStep, HandOffInv, SucceededJobHandedOff
  <2> QED
    BY <1>2, <2>2 DEF SucceededJobHandedOff
<1> QED
  BY <1>3, <1>4, <1>5 DEF HandOffInv

\* A job never ends as succeeded before its result is published and handed on.
THEOREM JobEndsAfterHandOff == Spec => []SucceededJobHandedOff
BY InitHandOffInv, NextHandOffInv, PTL DEF Spec, HandOffInv

\* A cancelled run gets no attempt and no result, and no follow-up is staged.
LEMMA CancelledStep ==
    ASSUME JobsInv, [Next]_vars, run.status = "cancelled"
    PROVE  /\ latest' = latest /\ result' = result
           /\ handed = "owed" => handed' # "staged"
<1>1. FenceInv
  BY DEF JobsInv
<1>2. [FenceNext]_fenceVars
  BY <1>1, StepRefinesFence
<1>3. latest' = latest
  BY <1>2 DEF FenceNext, fenceVars, ClaimTask, CanStart, StartExecution, ClaimEngineering,
         CanRecover, CanClaimPending, SaveDraft, ResumeCheckpoint, RenewExecution,
         ExpireExecution, FailExecution, OverwriteFailed, Publish, Pause, Resume, Cancel
<1>4. \A e \in Attempts : ~Publish(e)
  BY <1>1 DEF Publish, CanPublish, RequireExecution, Live, FenceInv, RunningNeedsOpenTask
<1>5. result' = result
  BY <1>2, <1>4 DEF FenceNext, fenceVars, ClaimTask, StartExecution, ClaimEngineering,
         SaveDraft, ResumeCheckpoint, RenewExecution, ExpireExecution, FailExecution,
         OverwriteFailed, Pause, Resume, Cancel
<1>6. ASSUME handed = "owed" PROVE handed' # "staged"
  <2>1. CASE UNCHANGED handed
    BY <1>6, <2>1
  <2>2. ASSUME NEW a \in Actors, HandOff(a) \/ HandOffJob(a) PROVE handed' # "staged"
    BY <1>6, <2>2 DEF HandOff, HandOffJob
  <2> QED
    BY <2>1, <2>2, HandedMoves
<1> QED
  BY <1>3, <1>5, <1>6

\* The run is cancelled in a state of the specification: it stays closed.
THEOREM CancelledRunStaysClosed == Spec => CancelledStaysClosed
<1>1. JobsInv /\ [Next]_vars =>
        [run.status = "cancelled" =>
          /\ latest' = latest /\ result' = result
          /\ handed = "owed" => handed' # "staged"]_vars
  BY CancelledStep
<1> QED
  BY <1>1, JobsInvariant, PTL DEF Spec, CancelledStaysClosed

-----------------------------------------------------------------------------
(* One actor works for an execution of the Architect or the Test Engineer  *)

\* Actors that hold an execution of a role have started it, each its own.
OwnStarted ==
    Role # "engineering" =>
        /\ \A a \in Actors : actor[a].pc \in Owning =>
              actor[a].exec \in Attempts /\ actor[a].exec <= latest
        /\ \A a, b \in Actors :
              /\ actor[a].pc \in Owning /\ actor[b].pc \in Owning
              /\ actor[a].exec = actor[b].exec
              => a = b

ExclusiveInv == HandOffInv /\ OwnStarted

\* Nobody holds an execution before one is started.
LEMMA InitExclusiveInv == Init => ExclusiveInv
<1> SUFFICES ASSUME Init PROVE ExclusiveInv
  OBVIOUS
<1>1. PICK r \in Requests :
         actor = [a \in Actors |-> IF a = r THEN [Idle EXCEPT !.pc = "dispatch"] ELSE Idle]
  BY DEF Init
<1>2. \A a \in Actors : actor[a].pc \in {"idle", "dispatch"}
  BY <1>1 DEF Idle
<1> QED
  BY <1>2, InitHandOffInv DEF ExclusiveInv, OwnStarted, Owning

\* An actor comes to hold an execution only by starting the next attempt, which
\* nobody else can hold yet.
LEMMA NextExclusiveInv == ExclusiveInv /\ [Next]_vars => ExclusiveInv'
<1> SUFFICES ASSUME ExclusiveInv, [Next]_vars PROVE ExclusiveInv'
  OBVIOUS
<1>1. JobsInv /\ FenceInv /\ FollowUp /\ HandOffInv /\ OwnStarted
  BY DEF ExclusiveInv, HandOffInv, JobsInv
<1>2. Role' = Role /\ latest' >= latest
  BY <1>1, StepRefinesFence, FenceStepFacts
<1>3. HandOffInv' /\ FenceTypeOK'
  BY <1>1, NextHandOffInv DEF HandOffInv, JobsInv, FenceInv
<1>4. latest \in Nat /\ latest' \in Nat /\ latest' <= MaxExecutions /\ MaxExecutions \in Nat
  BY <1>1, <1>3, JobsConstantsHold DEF FenceInv, FenceTypeOK, JobsConstants
<1>5. OwnStarted'
  <2> SUFFICES ASSUME Role # "engineering" PROVE OwnStarted'
    BY <1>2 DEF OwnStarted
  <2>1. /\ \A a \in Actors : actor[a].pc \in Owning =>
              actor[a].exec \in Attempts /\ actor[a].exec <= latest
        /\ \A a, b \in Actors :
              /\ actor[a].pc \in Owning /\ actor[b].pc \in Owning
              /\ actor[a].exec = actor[b].exec
              => a = b
    BY <1>1 DEF OwnStarted
  <2>2. CASE UNCHANGED actor
    BY <1>2, <1>4, <2>1, <2>2 DEF OwnStarted, Attempts
  <2>3. ASSUME NEW a \in Actors, Move(a), \A b \in Actors : b # a => actor'[b] = actor[b]
        PROVE  OwnStarted'
    <3>1. CASE actor'[a].pc \notin Owning
      <4>1. \A b \in Actors : actor'[b].pc \in Owning => actor'[b] = actor[b]
        BY <2>3, <3>1
      <4> QED
        BY <1>2, <1>4, <2>1, <4>1 DEF OwnStarted, Attempts
    <3>2. CASE actor[a].pc \in Owning /\ actor'[a].exec = actor[a].exec
      <4>1. \A b \in Actors : actor'[b].pc \in Owning =>
               actor[b].pc \in Owning /\ actor'[b].exec = actor[b].exec
        BY <2>3, <3>2
      <4> QED
        BY <1>2, <1>4, <2>1, <4>1 DEF OwnStarted, Attempts
    <3>3. CASE actor'[a].exec = latest + 1 /\ latest' = latest + 1
      <4>1. \A b \in Actors : b # a /\ actor'[b].pc \in Owning =>
               /\ actor[b].pc \in Owning /\ actor'[b].exec = actor[b].exec
               /\ actor'[b].exec \in Attempts /\ actor'[b].exec <= latest
        BY <2>1, <2>3
      <4>2. actor'[a].exec \in Attempts /\ actor'[a].exec <= latest'
        BY <1>4, <3>3 DEF Attempts
      <4>3. \A b \in Actors : b # a /\ actor'[b].pc \in Owning => actor'[b].exec # actor'[a].exec
        BY <1>4, <3>3, <4>1 DEF Attempts
      <4>4. \A b \in Actors : actor'[b].pc \in Owning =>
               actor'[b].exec \in Attempts /\ actor'[b].exec <= latest'
        BY <1>2, <1>4, <4>1, <4>2 DEF Attempts
      <4>5. \A b, c \in Actors :
               /\ actor'[b].pc \in Owning /\ actor'[c].pc \in Owning
               /\ actor'[b].exec = actor'[c].exec
               => b = c
        BY <2>1, <4>1, <4>3
      <4> QED
        BY <4>4, <4>5 DEF OwnStarted
    <3> QED
      BY <2>3, <3>1, <3>2, <3>3 DEF Move
  <2> QED
    BY <1>1, <2>2, <2>3, NextMoves DEF OneMoves
<1> QED
  BY <1>3, <1>5 DEF ExclusiveInv

\* Whatever is retried, recovered or raced for, one actor at a time works for a
\* live execution of the Architect or the Test Engineer.  (For the engineering
\* loop ExclusiveExecution is false: a poll can claim an execution a worker has not attached yet.)
THEOREM RoleExecutionIsExclusive == Spec => [](Role # "engineering" => ExclusiveExecution)
<1>1. ExclusiveInv => (Role # "engineering" => ExclusiveExecution)
  BY DEF ExclusiveInv, OwnStarted, HandOffInv, FollowUp, ExclusiveExecution, Working, Owning
<1> QED
  BY <1>1, InitExclusiveInv, NextExclusiveInv, PTL DEF Spec
=============================================================================
