---------------------------- MODULE BuildPipeline ----------------------------
(***************************************************************************)
(* The chain of plans by which one project goes from a requirement to a    *)
(* released version (services/leader.py, plan.py, task.py, app_spec.py,    *)
(* test_engineer.py, leader_dispatch.py, run_revision.py).                 *)
(*                                                                         *)
(* Every plan of the code has one task and publishes one configuration     *)
(* item, so a plan, its task and its item share one number here: the       *)
(* version of the plan.  Item 0 is the approved requirement a revision run *)
(* starts from.  One action is one database transaction; any caller may    *)
(* run any of them with any item at any time, which covers late replays,   *)
(* two browser tabs, a worker that lost its lease and durable job retries. *)
(* A caller that commits half way (the quality decision, the Leader's      *)
(* dispatch) keeps what it has read in `caller` until its next transaction.*)
(***************************************************************************)
EXTENDS Naturals, Sequences, FiniteSets

CONSTANTS
    Callers,    \* request threads and workers that run the Leader's code
    MaxCycles,  \* MAX_QUALITY_CYCLES
    PlanBound,  \* bound on the plans of one run
    RunBound,   \* bound on the runs of the project
    LeadBound   \* bound on the plans of its own that the Leader writes in a run

ASSUME BoundAssumption ==
    /\ MaxCycles \in Nat \ {0}
    /\ PlanBound \in Nat \ {0}
    /\ RunBound \in Nat \ {0}
    /\ LeadBound \in Nat

VARIABLES
    run,        \* the latest BuildRun of the project, with its RunRevision
    plans,      \* its plans, by version
    caller,     \* what each caller holds between two transactions
    dispatch,   \* LeaderDispatchCheckpoint by approved item
    decision,   \* the recorded AgentDecisionEvent "approval:{run}:{item}"
    shipped,    \* the approval released last (0: the project is a draft)
    refused     \* a product change was turned down for lack of a baseline

vars == <<run, plans, caller, dispatch, decision, shipped, refused>>

-----------------------------------------------------------------------------
(* Rows *)
Items == 0 .. PlanBound
Versions == 1 .. Len(plans)
Latest == Len(plans)

Roles == {"product_manager", "approval", "architect", "developer", "qa"}
Results == {"none", "questions", "features", "approved", "design", "code",
            "passed", "failed", "blocked", "challenged"}
\* author: the workflow itself, a message to a run that is under way, or the Leader, whose
\* plan is saved as given.
Plan == [author : {"workflow", "message", "leader"}, role : Roles, input : Items,
         report : Items, number : Nat,
         status : {"pending", "running", "succeeded", "cancelled"}, result : Results]

Run == [status : {"queued", "running", "succeeded", "failed", "cancelled"},
        stage : {"none", "pm", "architect", "developer", "qa"},
        kind : {"initial", "product_change", "implementation_repair"},
        base : Nat,        \* approvals of the project before this run
        lost : Items,      \* the result whose hand-off was given up last (0: none)
        number : Nat]      \* which run of the project it is

Paths == {"none", "direct", "designed"}
Caller == [pc : {"idle", "lead", "record", "create", "repair", "improvise"},
           item : Items, path : Paths, version : 0 .. PlanBound + 1]
IdleCaller == [pc |-> "idle", item |-> 0, path |-> "none", version |-> 0]

\* owner: who holds an unexpired lease (an expired one binds nobody).
NoOne == "no one"
\* It is no caller: an owner is a random token.
ASSUME NoOneAssumption == NoOne \notin Callers
Dispatch == [owner : Callers \cup {NoOne}, output : Paths]
FreeDispatch == [owner |-> NoOne, output |-> "none"]

PipelineTypeOK ==
    /\ run \in Run
    /\ plans \in Seq(Plan) /\ Len(plans) <= PlanBound
    /\ caller \in [Callers -> Caller]
    /\ dispatch \in [Items -> Dispatch]
    /\ decision \in [Items -> Paths]
    /\ shipped \in Nat
    /\ refused \in BOOLEAN

\* ACTIVE_BUILD_RUN_STATUSES; the active slot is given up with the status.
Active == run.status \in {"queued", "running"}
InStage(stage) == run.status = "running" /\ run.stage = stage

Done(v, role) == v \in Versions /\ plans[v].role = role /\ plans[v].status = "succeeded"
Approvals == run.base + Cardinality({v \in Versions : Done(v, "approval")})
Cycles == Cardinality({v \in Versions : plans[v].role = "qa"})

\* load_approved_app_spec: an approved requirement of this run or its fixed baseline.
ApprovedSpec(i) == Done(i, "approval") \/ (i = 0 /\ run.kind # "initial")
\* load_approved_app_spec itself asks for no approval: a published requirement without
\* questions will do.  The dispatch and the approval check the approval besides.
FormalSpec(i) == ApprovedSpec(i) \/ (Done(i, "product_manager") /\ plans[i].result = "features")
\* load_engineering_source: such a requirement itself or a design made from one.
EngineeringSource(i) == FormalSpec(i) \/ Done(i, "architect")
SpecOf(i) == IF Done(i, "architect") THEN plans[i].input ELSE i
\* load_test_inputs
TestInput(i) == Done(i, "developer")
\* The requirement a report, a code item or a design was made from.
SpecBehind(i) ==
    LET code == IF plans[i].role = "qa" THEN plans[i].input ELSE i
    IN  SpecOf(plans[code].input)
\* 0: the intent of a requirement nobody approved.
IntentOf(i) == IF i = 0 THEN run.base ELSE plans[i].number
LeadersOwn == {v \in Versions : plans[v].author = "leader"}
\* find_dispatched_task: the tasks of the role that have the item as an input.
Dispatched(i, role) == {v \in Versions : plans[v].role = role /\ i \in {plans[v].input, plans[v].report}}

-----------------------------------------------------------------------------
(* services/plan.py: a plan of one pending task at the next version *)
\* Slip: the status of a run is written into the plan.
QueuedPlan(role, input, report) ==
    [author |-> "workflow", role |-> role, input |-> input, report |-> report, number |-> 0,
     status |-> "queued", result |-> "none"]
NewPlan(role, input, report) ==
    [author |-> "workflow", role |-> role, input |-> input, report |-> report, number |-> 0,
     status |-> "pending", result |-> "none"]

\* stage_plan for a version that is new (the same definition at a version that is
\* taken is a replay, another one a conflict: neither writes).
StagePlan(version, plan) ==
    /\ Active
    /\ version = Latest + 1
    /\ version <= PlanBound
    /\ plans' = Append(plans, plan)

FreeCallers == [c \in Callers |-> IdleCaller]
Init ==
    /\ run = [status |-> "queued", stage |-> "none", kind |-> "initial", base |-> 0, lost |-> 0,
              number |-> 1]
    /\ plans = <<>>
    /\ caller = FreeCallers
    /\ dispatch = [i \in Items |-> FreeDispatch]
    /\ decision = [i \in Items |-> "none"]
    /\ shipped = 0
    /\ refused = FALSE

Bookkeeping == <<caller, dispatch, decision, shipped, refused>>

-----------------------------------------------------------------------------
(* The run and its first plan *)

\* start_from_message on a run that has ended: create_revision_run.  Callers of the
\* run that has ended find it ended, so they are dropped with it.
CodeOfRun == \E v \in Versions : Done(v, "developer")
CreateRevisionRun(kind) ==
    /\ ~Active
    /\ run.number < RunBound
    /\ IF Approvals = 0
       THEN /\ refused' = (kind = "product_change")
            /\ UNCHANGED <<run, plans, caller, dispatch, decision, shipped>>
       ELSE /\ kind = "implementation_repair" => CodeOfRun
            /\ run' = [status |-> "queued", stage |-> "none", kind |-> kind,
                       base |-> Approvals, lost |-> 0, number |-> run.number + 1]
            /\ plans' = <<>>
            /\ caller' = FreeCallers
            /\ dispatch' = [i \in Items |-> FreeDispatch]
            /\ decision' = [i \in Items |-> "none"]
            /\ UNCHANGED <<shipped, refused>>

\* resolve_message_next_action: whom the message that began the run is given to.  A change
\* of the product needs a new approval, a repair of the approved baseline does not.
Recipient == IF run.kind = "implementation_repair" THEN "developer" ELSE "product_manager"

\* save_plan, for either kind of first plan
FirstPlan ==
    /\ Recipient = "product_manager"
    /\ StagePlan(1, NewPlan("product_manager", 0, 0))
    /\ UNCHANGED <<run, Bookkeeping>>
\* The first plan of a project has nothing to build on.
CreateInitialPlan ==
    /\ run.kind = "initial" /\ shipped = 0 /\ run.base = 0
    /\ FirstPlan
\* That of a product revision starts from the approved baseline of its run.
CreateProductRevisionPlan ==
    /\ run.kind = "product_change"
    /\ FirstPlan

\* create_clarification_plan: the user's answer to the latest usable requirement,
\* unless the user has approved it.
CreateClarificationPlan(i) ==
    /\ InStage("pm")
    /\ Done(i, "product_manager")
    /\ i = Latest
    /\ StagePlan(i + 1, NewPlan("product_manager", i, 0))
    /\ UNCHANGED <<run, Bookkeeping>>

\* approve_requirements: the message, the plan, its task and the approved item
\* are one transaction, and the plan is closed as it is made.
ApprovalPlan(i) == [NewPlan("approval", i, 0) EXCEPT
                        !.status = "succeeded", !.result = "approved", !.number = Approvals + 1]
ApproveRequirements(i) ==
    /\ InStage("pm")
    /\ Done(i, "product_manager")
    /\ i = Latest
    /\ StagePlan(i + 1, ApprovalPlan(i))
    /\ UNCHANGED <<run, Bookkeeping>>

\* create_product_revision_plan of the Leader, for a challenged report.
\* Slip: the report is not required to be the latest plan's.
RevisionPlanOfAnyReport(r) ==
    /\ Done(r, "qa") /\ plans[r].result = "challenged"
    /\ ApprovedSpec(SpecBehind(r))
    /\ StagePlan(Latest + 1, NewPlan("product_manager", SpecBehind(r), 0))
RevisionPlan(r) ==
    /\ Done(r, "qa") /\ plans[r].result = "challenged"
    /\ ApprovedSpec(SpecBehind(r))
    /\ r = Latest
    /\ StagePlan(r + 1, NewPlan("product_manager", SpecBehind(r), 0))
\* resolve_quality_challenge with revise_product: stage and plan in one transaction.
ResolveByRevision(r) ==
    /\ InStage("qa")
    /\ RevisionPlan(r)
    /\ run' = [run EXCEPT !.stage = "pm"]
    /\ UNCHANGED Bookkeeping

-----------------------------------------------------------------------------
(* Claiming and completing the task of a plan *)

\* Slip: stages only go forward.
StagesForward(role) ==
    CASE role = "product_manager" -> {"pm"}
      [] role = "architect" -> {"pm", "architect"}
      [] role = "developer" -> {"pm", "architect", "developer"}
      [] role = "qa" -> {"developer", "qa"}
AllowedStages(role) ==
    CASE role = "product_manager" -> {"pm"}
      [] role = "architect" -> {"pm", "architect"}
      [] role = "developer" -> {"pm", "architect", "developer", "qa"}
      [] role = "qa" -> {"developer", "qa"}
StageOf(role) == IF role = "product_manager" THEN "pm" ELSE role

\* plan.stage_running: one plan of the run is executed at a time.
PlanRuns(v) ==
    /\ \A w \in Versions : plans[w].status # "running"
    /\ plans' = [plans EXCEPT ![v].status = "running"]

\* Each claim loads the input of its task.  A requirement that is given, but not by the first
\* plan of the run, is one of this run (load_previous_app_spec).
InputLoads(v) ==
    LET i == plans[v].input IN
    /\ plans[v].role = "product_manager" => i # 0 \/ v = 1
    /\ plans[v].role = "architect" => FormalSpec(i)
    /\ plans[v].role = "developer" => EngineeringSource(i)
    /\ plans[v].role = "qa" => TestInput(i)

\* claim_product_manager_task, claim_architect_task, claim_code_engineer_task and
\* claim_test_engineer_task: run, plan and task change together.
\* Slip: the run stays in the stage of the step before.
ClaimInOldStage(v) ==
    /\ v \in Versions
    /\ plans[v].status = "pending" /\ InputLoads(v)
    /\ Active
    /\ run.status = "running" => run.stage \in AllowedStages(plans[v].role)
    /\ run' = [run EXCEPT !.status = "running", !.stage = IF @ = "none" THEN "pm" ELSE @]
    /\ PlanRuns(v)
    /\ UNCHANGED Bookkeeping
Claim(v) ==
    /\ v \in Versions
    /\ plans[v].status = "pending" /\ InputLoads(v)
    /\ Active
    /\ run.status = "running" => run.stage \in AllowedStages(plans[v].role)
    /\ run' = [run EXCEPT !.status = "running", !.stage = StageOf(plans[v].role)]
    /\ PlanRuns(v)
    /\ UNCHANGED Bookkeeping

Publish(v, result) == plans' = [plans EXCEPT ![v].status = "succeeded", ![v].result = result]

\* _require_running_task: the task, its plan and the run, under the lock of the run.
RunningTask(v, role) ==
    /\ v \in Versions
    /\ plans[v].role = role /\ plans[v].status = "running"
    /\ InStage(StageOf(role))

\* complete_task_app_spec, complete_architect_task, complete_code_engineer_task
Complete(v, role, result) ==
    /\ RunningTask(v, role)
    /\ Publish(v, result)
    /\ UNCHANGED <<run, Bookkeeping>>

\* complete_test_engineer_task: a passed report releases the version and ends the run.
\* Slip: the run is left active.
CompleteQualityOpen(v, verdict) ==
    /\ RunningTask(v, "qa")
    /\ Publish(v, verdict)
    /\ shipped' = IF verdict = "passed" THEN IntentOf(SpecBehind(v)) ELSE shipped
    /\ UNCHANGED <<run, caller, dispatch, decision, refused>>
CompleteQuality(v, verdict) ==
    /\ RunningTask(v, "qa")
    /\ Publish(v, verdict)
    /\ shipped' = IF verdict = "passed" THEN IntentOf(SpecBehind(v)) ELSE shipped
    /\ run' = IF verdict = "passed" THEN [run EXCEPT !.status = "succeeded"] ELSE run
    /\ UNCHANGED <<caller, dispatch, decision, refused>>

-----------------------------------------------------------------------------
(* The Leader's dispatch of an approved requirement *)

\* require_dispatch
Required(c, i) == InStage("pm") /\ dispatch[i].owner = c
Idle(c) == caller' = [caller EXCEPT ![c] = IdleCaller]
Goto(c, pc, path) == caller' = [caller EXCEPT ![c].pc = pc, ![c].path = path]
\* release_dispatch
Release(c, i) == [dispatch[i] EXCEPT !.owner = IF @ = c THEN NoOne ELSE @]

\* dispatch_approved_requirements up to claim_dispatch: approve_requirement_plan and Continue
\* call it with an approval of this run.
ClaimDispatch(c, i) ==
    /\ caller[c].pc = "idle"
    /\ InStage("pm") /\ Done(i, "approval")
    /\ dispatch[i].owner = NoOne
    /\ dispatch' = [dispatch EXCEPT ![i].owner = c]
    /\ caller' = [caller EXCEPT ![c] = [IdleCaller EXCEPT
                    !.pc = "lead", !.item = i, !.path = dispatch[i].output]]
    /\ UNCHANGED <<run, plans, decision, shipped, refused>>

\* The agent's answer, or the saved one, is written by save_dispatch.
\* Slip: a saved answer is not used again.
LeadAgain(c, path) ==
    LET i == caller[c].item IN
    /\ caller[c].pc = "lead"
    /\ Required(c, i)
    /\ dispatch' = [dispatch EXCEPT ![i].output = path]
    /\ Goto(c, "record", path)
    /\ UNCHANGED <<run, plans, decision, shipped, refused>>
Lead(c, path) ==
    LET i == caller[c].item IN
    /\ caller[c].pc = "lead"
    /\ caller[c].path \in {"none", path}
    /\ Required(c, i)
    /\ dispatch' = [dispatch EXCEPT ![i].output = path]
    /\ Goto(c, "record", path)
    /\ UNCHANGED <<run, plans, decision, shipped, refused>>

\* record_decision: the first recorded decision of the key stays.
RecordDecision(c) ==
    LET i == caller[c].item IN
    /\ caller[c].pc = "record"
    /\ Required(c, i)
    /\ decision' = [decision EXCEPT ![i] = IF @ = "none" THEN caller[c].path ELSE @]
    /\ Goto(c, "create", caller[c].path)
    /\ UNCHANGED <<run, plans, dispatch, shipped, refused>>

\* find_architecture_task
ArchitectureTask(i) == {v \in Dispatched(i, "architect") : plans[v].status # "cancelled"}
\* create_architecture_task: an assignment that exists is a replay.
StageArchitecture(i) ==
    IF ArchitectureTask(i) # {} THEN UNCHANGED plans
    ELSE ApprovedSpec(i) /\ i = Latest /\ StagePlan(i + 1, NewPlan("architect", i, 0))
\* create_engineering_delivery_task within one run, from a requirement or a design
StageEngineering(i) ==
    IF Dispatched(i, "developer") # {} THEN UNCHANGED plans
    ELSE EngineeringSource(i) /\ i = Latest /\ StagePlan(i + 1, NewPlan("developer", i, 0))

\* The validated path is applied, the decision marked, the lease released:
\* require_dispatch holds the run lock until the creation commits.
CreateDelivery(c) ==
    LET i == caller[c].item IN
    /\ caller[c].pc = "create"
    /\ Required(c, i)
    /\ IF caller[c].path = "direct" THEN StageEngineering(i) ELSE StageArchitecture(i)
    /\ dispatch' = [dispatch EXCEPT ![i] = Release(c, i)]
    /\ Idle(c)
    /\ UNCHANGED <<run, decision, shipped, refused>>

\* An exception (an invalid answer, a provider error, a conflict, a lost lease, a run
\* that has moved on): mark_failed, release_dispatch, raise.
DispatchFails(c) ==
    LET i == caller[c].item IN
    /\ caller[c].pc \in {"lead", "record", "create"}
    /\ dispatch' = [dispatch EXCEPT ![i] = Release(c, i)]
    /\ Idle(c)
    /\ UNCHANGED <<run, plans, decision, shipped, refused>>

\* The process of a caller dies: its lease stays until it expires.
Crash(c) ==
    /\ caller[c].pc # "idle"
    /\ Idle(c)
    /\ UNCHANGED <<run, plans, dispatch, decision, shipped, refused>>

\* lease_expires_at passes, whatever the owner is doing.
LeaseExpires(i) ==
    /\ dispatch[i].owner # NoOne
    /\ dispatch' = [dispatch EXCEPT ![i].owner = NoOne]
    /\ UNCHANGED <<run, plans, caller, decision, shipped, refused>>

-----------------------------------------------------------------------------
(* The hand-offs that need no decision *)

\* dispatch_completed_design
DispatchDesign(i) ==
    /\ Done(i, "architect")
    /\ InStage("architect")
    /\ StageEngineering(i)
    /\ UNCHANGED <<run, Bookkeeping>>
\* The engineering task of an implementation repair takes the baseline of another run
\* and starts its own.
DispatchRevisionRepair ==
    /\ Recipient = "developer"
    /\ run.status = "queued" \/ InStage("developer")
    /\ StagePlan(1, NewPlan("developer", 0, 0))
    /\ run' = [run EXCEPT !.status = "running", !.stage = "developer"]
    /\ UNCHANGED Bookkeeping

\* A message that asks for a repair while the run waits for its dispatch: the approved
\* requirement goes to the Code Engineer whatever the Leader would have decided.
Message(plan) == [plan EXCEPT !.author = "message"]
DispatchRepair(i) ==
    /\ InStage("pm")
    /\ Done(i, "approval") /\ i = Latest
    /\ Dispatched(i, "developer") = {}
    /\ StagePlan(i + 1, Message(NewPlan("developer", i, 0)))
    /\ UNCHANGED <<run, Bookkeeping>>

\* The same message while a design is made or handed off needs the Leader, who reads the
\* context, writes a plan for the version after the latest and names as its input any
\* result of the run, or the baseline.  The answer is recorded and saved later.
LeadRepair(c, i, path) ==
    /\ caller[c].pc = "idle"
    /\ InStage("architect")
    /\ Cardinality(LeadersOwn) + Cardinality({d \in Callers : caller[d].pc = "improvise"}) < LeadBound
    /\ IF i = 0 THEN run.kind # "initial" ELSE i \in Versions /\ plans[i].status = "succeeded"
    /\ caller' = [caller EXCEPT ![c] =
                    [pc |-> "improvise", item |-> i, path |-> path, version |-> Latest + 1]]
    /\ UNCHANGED <<run, plans, dispatch, decision, shipped, refused>>

\* apply_message_next_action with a plan of the Leader: save_plan.
LeadersPlan(c) ==
    [NewPlan(IF caller[c].path = "direct" THEN "developer" ELSE "architect", caller[c].item, 0)
        EXCEPT !.author = "leader"]
SaveLeadersPlan(c) ==
    /\ caller[c].pc = "improvise"
    /\ StagePlan(caller[c].version, LeadersPlan(c))
    /\ Idle(c)
    /\ UNCHANGED <<run, dispatch, decision, shipped, refused>>

\* dispatch_completed_code
DispatchCode(i) ==
    /\ TestInput(i)
    /\ Dispatched(i, "qa") = {}
    /\ InStage("developer") /\ i = Latest
    /\ StagePlan(i + 1, NewPlan("qa", i, 0))
    /\ UNCHANGED <<run, Bookkeeping>>

\* retry_blocked_quality_validation
RetryBlockedQuality(r) ==
    /\ InStage("qa")
    /\ Done(r, "qa") /\ plans[r].result = "blocked"
    /\ r = Latest
    /\ Cycles < MaxCycles
    /\ StagePlan(r + 1, NewPlan("qa", plans[r].input, 0))
    /\ UNCHANGED <<run, Bookkeeping>>

\* dispatch_quality_repair up to the commit of record_decision.  Who calls it decides which
\* reports come here: the hand-off of a report those that failed, the user (`resolved`) a
\* challenge answered in favour of the test.  A run without cycles left ends here.
\* Slip: the cycles are not counted.
DecideUnbounded(c, r, resolved) ==
    /\ caller[c].pc = "idle"
    /\ Done(r, "qa") /\ Dispatched(r, "developer") = {}
    /\ InStage("qa") /\ plans[r].result # "passed" /\ r = Latest
    /\ plans[r].result = (IF resolved THEN "challenged" ELSE "failed")
    /\ caller' = [caller EXCEPT ![c] = [IdleCaller EXCEPT
                    !.pc = "repair", !.item = r, !.version = Latest + 1]]
    /\ UNCHANGED <<run, plans, dispatch, decision, shipped, refused>>
DecideQuality(c, r, resolved) ==
    /\ caller[c].pc = "idle"
    /\ Done(r, "qa") /\ Dispatched(r, "developer") = {}
    /\ InStage("qa") /\ plans[r].result # "passed" /\ r = Latest
    /\ IF resolved THEN plans[r].result = "challenged" /\ Cycles < MaxCycles
                   ELSE plans[r].result = "failed"
    /\ IF Cycles >= MaxCycles
       THEN run' = [run EXCEPT !.status = "failed"] /\ UNCHANGED caller
       ELSE /\ caller' = [caller EXCEPT ![c] = [IdleCaller EXCEPT
                            !.pc = "repair", !.item = r, !.version = Latest + 1]]
            /\ UNCHANGED run
    /\ UNCHANGED <<plans, dispatch, decision, shipped, refused>>

\* The rest of dispatch_quality_repair: the run lock was given up with the decision.
\* Slip: the repair takes whatever version is next by now.
StageRepairLate(c) ==
    LET r == caller[c].item IN
    /\ caller[c].pc = "repair"
    /\ StagePlan(Latest + 1, NewPlan("developer", plans[plans[r].input].input, r))
    /\ Idle(c)
    /\ UNCHANGED <<run, dispatch, decision, shipped, refused>>
StageRepair(c) ==
    LET r == caller[c].item IN
    /\ caller[c].pc = "repair"
    /\ StagePlan(caller[c].version, NewPlan("developer", plans[plans[r].input].input, r))
    /\ Idle(c)
    /\ UNCHANGED <<run, dispatch, decision, shipped, refused>>
\* The version is taken (a replay of the same plan or a conflict), or the run ended.
Overtaken(c) ==
    /\ caller[c].pc \in {"repair", "improvise"}
    /\ ~Active \/ caller[c].version <= Latest
    /\ Idle(c)
    /\ UNCHANGED <<run, plans, dispatch, decision, shipped, refused>>

\* A result whose follow-up is still to be made.
Owed(v) ==
    /\ v = Latest
    /\ \/ Done(v, "architect") /\ InStage("architect")
       \/ Done(v, "developer") /\ InStage("developer")
       \/ Done(v, "qa") /\ plans[v].result = "failed" /\ InStage("qa")
\* fail_job: the job that makes it has used up its attempts (WorkflowJobs).
GiveUpHandOff(v) ==
    /\ Owed(v) /\ run.lost # v
    /\ run' = [run EXCEPT !.lost = v]
    /\ UNCHANGED <<plans, Bookkeeping>>

\* cancel_active_run; cancel_jobs_for_run clears the Leader's leases.
CancelActiveRun ==
    /\ Active
    /\ run' = [run EXCEPT !.status = "cancelled"]
    /\ plans' = [v \in Versions |->
                    IF plans[v].status \in {"pending", "running"}
                    THEN [plans[v] EXCEPT !.status = "cancelled"] ELSE plans[v]]
    /\ dispatch' = [i \in Items |-> [dispatch[i] EXCEPT !.owner = NoOne]]
    /\ UNCHANGED <<caller, decision, shipped, refused>>

-----------------------------------------------------------------------------
(* The system *)

\* What users and their requests do.
UserStep ==
    \/ \E kind \in {"product_change", "implementation_repair"} : CreateRevisionRun(kind)
    \/ \E i \in Items : \/ CreateClarificationPlan(i)
                        \/ ApproveRequirements(i)
                        \/ ResolveByRevision(i)
                        \/ RetryBlockedQuality(i)
                        \/ DispatchRepair(i)
    \/ \E c \in Callers, i \in Items :
        \/ ClaimDispatch(c, i)
        \/ DecideQuality(c, i, TRUE)
        \/ \E path \in {"direct", "designed"} : LeadRepair(c, i, path)
    \/ CancelActiveRun

\* What goes wrong by itself.
Fault ==
    \/ \E c \in Callers : Crash(c) \/ DispatchFails(c)
    \/ \E i \in Items : LeaseExpires(i) \/ GiveUpHandOff(i)

\* What workers do, and a request that has begun.
CompleteStep(v) ==
    \/ \E result \in {"questions", "features"} : Complete(v, "product_manager", result)
    \/ Complete(v, "architect", "design")
    \/ Complete(v, "developer", "code")
    \/ \E verdict \in {"passed", "failed", "blocked", "challenged"} : CompleteQuality(v, verdict)
HandOff(i) ==
    \/ DispatchDesign(i)
    \/ DispatchCode(i)
    \/ \E c \in Callers : DecideQuality(c, i, FALSE)
CallerStep(c) ==
    \/ \E path \in {"direct", "designed"} : Lead(c, path)
    \/ RecordDecision(c)
    \/ CreateDelivery(c)
    \/ StageRepair(c)
    \/ SaveLeadersPlan(c)
    \/ Overtaken(c)
StartStep == CreateInitialPlan \/ CreateProductRevisionPlan \/ DispatchRevisionRepair

Next ==
    \/ UserStep
    \/ Fault
    \/ StartStep
    \/ \E v \in Items \ {0} : Claim(v) \/ CompleteStep(v) \/ HandOff(v)
    \/ \E c \in Callers : CallerStep(c)

\* Jobs are claimed again until they are done or have used up their attempts (WorkflowJobs),
\* so the tasks of workers happen, and a hand-off happens or is given up; a request that
\* has begun ends, if only by a provider timeout; nothing makes a user act.
HandOffEnds(v) ==
    /\ Owed(v) /\ run.lost # v
    /\ \/ DispatchDesign(v) \/ DispatchCode(v)
       \/ \E c \in Callers : Cycles >= MaxCycles /\ DecideQuality(c, v, FALSE)
       \/ \E c \in Callers : caller[c].item = v /\ StageRepair(c)
       \/ GiveUpHandOff(v)
Fairness ==
    /\ WF_vars(StartStep)
    /\ \A v \in Items \ {0} :
        WF_vars(Claim(v)) /\ WF_vars(CompleteStep(v)) /\ WF_vars(HandOffEnds(v))
    /\ \A c \in Callers : WF_vars(CallerStep(c) \/ DispatchFails(c))

Spec == Init /\ [][Next]_vars
FairSpec == Spec /\ Fairness

-----------------------------------------------------------------------------
(* What GET /requirements shows (get_requirements_status) *)

LatestPlan == plans[Latest]
Pending == LatestPlan.status = "pending"
Running(stage) == LatestPlan.status = "running" /\ run.stage = stage
Finished == LatestPlan.status = "succeeded"

QualityShown ==
    CASE Pending -> "quality_pending"
      [] Running("qa") -> "quality_running"
      [] Finished ->
            (CASE LatestPlan.result = "passed" /\ run.status = "succeeded" -> "completed"
               [] LatestPlan.result = "challenged" /\ Active -> "quality_challenge"
               [] OTHER -> "quality_failed")
      [] OTHER -> "stopped"
\* The task the page looks for has the message of the plan before; the Leader's has its own.
PendingShown(state) == IF LatestPlan.author = "leader" THEN "conflict" ELSE state
DesignShown ==
    CASE Pending -> PendingShown("design_pending") [] Running("architect") -> "design_running" [] OTHER -> "stopped"
EngineeringShown ==
    CASE Pending -> PendingShown("engineering_pending")
      [] Running("developer") -> "engineering_running"
      [] Finished /\ run.stage = "developer" -> "engineering_generated"
      [] OTHER -> "stopped"
RequirementsShown ==
    CASE ~Finished -> "running"
      [] LatestPlan.result = "approved" -> "ready_for_delivery"
      [] LatestPlan.result = "features" -> "awaiting_approval"
      [] OTHER -> "needs_user_input"
Shown ==
    CASE plans = <<>> -> "not_started"
      [] plans # <<>> /\ LatestPlan.role = "qa" -> QualityShown
      [] plans # <<>> /\ LatestPlan.role # "qa" /\ ~Active -> "stopped"
      [] plans # <<>> /\ LatestPlan.role = "architect" /\ Active -> DesignShown
      [] plans # <<>> /\ LatestPlan.role = "developer" /\ Active -> EngineeringShown
      [] plans # <<>> /\ LatestPlan.role \in {"product_manager", "approval"} /\ Active -> RequirementsShown
\* RequirementsStatus.retryable of a quality report
Retryable == /\ Shown \in {"quality_challenge", "quality_failed"} /\ Active
             /\ LatestPlan.result \in {"blocked", "challenged"} /\ Cycles < MaxCycles

-----------------------------------------------------------------------------
(* The promise to the user (Delivery) and how the plans keep it *)

Phase ==
    CASE run.status = "succeeded" -> "released"
      [] run.status \in {"failed", "cancelled"} -> "stopped"
      [] Active -> IF plans = <<>>
                   THEN IF run.kind = "implementation_repair" THEN "building" ELSE "intent"
                   ELSE CASE LatestPlan.role = "product_manager" -> "intent"
                          [] LatestPlan.role \in {"approval", "architect"} -> "building"
                          [] LatestPlan.role = "developer" ->
                                IF LatestPlan.status = "succeeded" THEN "validating" ELSE "building"
                          [] LatestPlan.role = "qa" ->
                                IF LatestPlan.status = "succeeded" THEN "rejected" ELSE "validating"
Codes == {v \in Versions : Done(v, "developer")}
Candidate == IF Codes = {} THEN 0
             ELSE IntentOf(SpecBehind(CHOOSE v \in Codes : \A w \in Codes : w <= v))
Promise == INSTANCE Delivery WITH
    phase <- Phase, approved <- Approvals, candidate <- Candidate, released <- shipped,
    led <- LeadersOwn # {}
KeepsThePromise == Promise!DeliverySpec

-----------------------------------------------------------------------------
(* Properties *)

\* Each plan that is not the Leader's own continues the one just before it: a stale caller,
\* a replay or a second caller never forks the chain or builds on an item that has been
\* superseded.  (A plan of the Leader is saved as given, at whatever version is next.)
Follows(v) ==
    LET p == plans[v]
        before == plans[v - 1]
    IN
    /\ before.status = "succeeded"
    /\ CASE p.role = "product_manager" ->
                \/ p.input = v - 1 /\ before.role = "product_manager"
                \/ before.result = "challenged" /\ p.input = SpecBehind(v - 1)
         [] p.role = "approval" -> p.input = v - 1 /\ before.role = "product_manager"
         [] p.role = "architect" -> p.input = v - 1 /\ before.role = "approval"
         [] p.role = "developer" ->
                \/ p.report = 0 /\ p.input = v - 1 /\ before.role \in {"approval", "architect"}
                \/ p.report = v - 1 /\ before.result \in {"failed", "challenged"}
         [] p.role = "qa" ->
                \/ p.input = v - 1 /\ before.role = "developer"
                \/ before.result = "blocked" /\ p.input = before.input
NoFork == \A v \in Versions \ ({1} \cup LeadersOwn) : Follows(v)

\* What is released is the requirement the user approved last, unless the Leader has put a
\* plan of its own into the run, whose input need not be that one; and the run that
\* released it is over (complete_test_engineer_task).
ReleasedAsApproved ==
    /\ run.status = "succeeded" /\ LeadersOwn = {} => shipped = Approvals
    /\ Latest > 0 /\ LatestPlan.result = "passed" => run.status = "succeeded"

\* Code is built from an approved requirement only, as load_approved_app_spec says of itself.
\* The Leader may name one that was not approved.
BuiltFromApproval == \A v \in Versions : Done(v, "developer") => ApprovedSpec(SpecBehind(v))

\* The task the workflow makes for an approved requirement is the one the Leader's recorded
\* decision names, whoever made it and however often the lease changed hands; only a
\* message of the user can lead to another one.
DecisionHonoured ==
    \A v \in Versions : \A i \in Items :
        /\ plans[v].author = "workflow"
        /\ ApprovedSpec(i) /\ i # 0 /\ plans[v].input = i /\ plans[v].report = 0
        /\ plans[v].role \in {"architect", "developer"}
        => plans[v].role = (IF decision[i] = "direct" THEN "developer" ELSE "architect")

\* A run is validated at most MAX_QUALITY_CYCLES times plus once for every time the
\* user answered a challenge by changing the intent, whatever is retried or replayed.
Revisions == {v \in Versions \ {1} : plans[v].role = "product_manager" /\ plans[v - 1].role = "qa"}
CyclesBounded == Cycles <= MaxCycles + Cardinality(Revisions)

\* The page calls an active run stopped in one situation only: between the publication
\* of a design and the hand-off to the Code Engineer.
StoppedMeansOver ==
    Active /\ Shown = "stopped" => LatestPlan.role = "architect" /\ LatestPlan.status = "succeeded"

\* A run that is active comes back to a state in which it is the user's turn, or ends
\* (or the instance has no plan left), unless it has come to a dead end, which only cancel
\* ends: a design or a failed report whose hand-off was given up, a blocked report when
\* the cycles are used up, a revision of a repaired baseline, a plan of the Leader's own.
UsersTurn ==
    \/ ~Active
    \/ Shown \in {"needs_user_input", "awaiting_approval", "ready_for_delivery", "quality_challenge"}
    \/ Shown = "quality_failed" /\ Retryable
    \/ Shown = "engineering_generated" /\ run.lost = Latest
    \/ Latest = PlanBound
DeadEnd ==
    \/ Latest > 0 /\ run.lost = Latest /\ LatestPlan.role \in {"architect", "qa"}
    \/ Shown = "quality_failed" /\ LatestPlan.result = "blocked" /\ Cycles >= MaxCycles
    \/ Latest > 1 /\ LatestPlan.role = "product_manager" /\ LatestPlan.input = 0
    \/ LeadersOwn # {}
NeverStranded == []<>(UsersTurn \/ DeadEnd)

\* Once the user has been told that a run is over, a product change starts a new one.
ChangeAccepted == ~refused
=============================================================================
