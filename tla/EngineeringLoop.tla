---------------------------- MODULE EngineeringLoop ----------------------------
(***************************************************************************)
(* The durable engineering loop of one Code Engineer task                  *)
(* (orchestration/code_engineer.py, generation/engineering/*.py,           *)
(* services/engineering/{claim,run,completion}.py): prepare, then a cycle  *)
(* of load, reserve a model turn, call a tool, record, until the work is   *)
(* generated, blocked or paused, and the publication of the workspace.     *)
(*                                                                         *)
(* The checkpoint is the draft of the running execution, which a recovery  *)
(* copies, so one variable holds it.  An action is one transaction under   *)
(* the execution fence, or one look at the workspace outside of any.  The  *)
(* workspace has two kinds of content: the application code and the smoke  *)
(* manifest, whose probes the integration check runs.                      *)
(***************************************************************************)
EXTENDS Naturals, FiniteSets

CONSTANTS
    Workers,        \* worker processes that may run the loop
    Items,          \* work items a delivery plan may name, in the order of their ids
    Versions,       \* contents of the application code
    Probes,         \* probes a smoke manifest may hold
    Builds,         \* versions that pass the static checks
    Answers,        \* the probes each version answers
    First,          \* the workspace the task starts from
    QualityRepair,  \* the plan comes from a test report (plan_quality_repair)
    Shared,         \* a second worker may enter a live execution (a lost job lease)
    MaxTurns, MaxCalls, MaxRounds,   \* DEFAULT_CALL_BUDGET
    AttemptBound, RetryBound,        \* bounds on attempts and on the user's retries
    CrashBound                       \* bound on crashes: each spends a claim of the job

Source == [code : Versions, probes : SUBSET Probes]

ASSUME LoopAssumption ==
    /\ Items \subseteq Nat \ {0} /\ IsFiniteSet(Items) /\ Items # {}
    /\ Builds \subseteq Versions
    /\ Answers \in [Versions -> SUBSET Probes]
    /\ First \in Source
    /\ QualityRepair \in BOOLEAN /\ Shared \in BOOLEAN
    /\ MaxTurns \in Nat \ {0} /\ MaxCalls \in Nat \ {0} /\ MaxRounds \in Nat
    /\ AttemptBound \in Nat \ {0} /\ RetryBound \in Nat /\ CrashBound \in Nat

VARIABLES
    execution,   \* the latest TaskExecution of the task
    checkpoint,  \* its draft
    workspace,   \* the files of the generated application
    loop,        \* what each worker holds between two transactions
    retry,       \* the draft a user's retry is about to write
    published,   \* the source of the code item, {} before its publication
    crashes      \* how many there were

vars == <<execution, checkpoint, workspace, loop, retry, published, crashes>>

-----------------------------------------------------------------------------
(* Values *)
Checks == {"quick", "all"}
Unanswered(source) == source.probes \ Answers[source.code]
\* sandbox/check.py: the integration check also runs every probe of the manifest.
Passes(check, source) ==
    /\ source.code \in Builds
    /\ check = "all" => Unanswered(source) = {}

\* engineering_stop_reason, by what is_terminal_engineering_failure tells apart: a
\* stop-loss (repeats, rounds, no progress, budgets), the environment, anything else.
Reasons == {"none", "plain", "environment", "terminal"}
Evidence == [check : Checks, source : Source, ok : BOOLEAN]
Checkpoint == [outcome : {"running", "blocked", "generated"}, reason : Reasons,
               turns : Nat, calls : Nat, turnLimit : Nat, callLimit : Nat,
               planned : BOOLEAN, pending : SUBSET Items, done : SUBSET Items,
               rounds : [Items -> Nat],
               cache : SUBSET Evidence,    \* check_cache: the last result of each check
               ledger : SUBSET Probes,     \* smoke_probe_baseline and smoke_failure_probes
               observed : Source,          \* observed_hashes
               prepared : BOOLEAN, environment : 0 .. AttemptBound,
               completed : Source, retries : 0 .. RetryBound]

Execution == [attempt : 1 .. AttemptBound, status : {"running", "failed", "succeeded"},
              expired : BOOLEAN]

Pcs == {"idle", "prepare", "load", "reserve", "model", "record", "verify", "compare",
        "complete", "publish", "commit", "finish"}
Acts == {"none", "read", "edit", "plan", "check", "complete", "reject", "report_blocked"}
Loop == [pc : Pcs, attempt : 0 .. AttemptBound, item : Items \cup {0}, act : Acts,
         check : Checks, base : Source, new : Source, cached : SUBSET Evidence, mayCheck : BOOLEAN,
         result : {"none", "ok", "failed", "environment", "changed"}]
IdleLoop == [pc |-> "idle", attempt |-> 0, item |-> 0, act |-> "none", check |-> "all",
             base |-> First, new |-> First, cached |-> {}, mayCheck |-> TRUE, result |-> "none"]

\* new_checkpoint; a quality repair starts from the plan of its report.
NewCheckpoint ==
    [outcome |-> "running", reason |-> "none", turns |-> 0, calls |-> 0,
     turnLimit |-> MaxTurns, callLimit |-> MaxCalls,
     planned |-> QualityRepair, pending |-> IF QualityRepair THEN Items ELSE {},
     done |-> {}, rounds |-> [i \in Items |-> 0],
     cache |-> {}, ledger |-> {}, observed |-> First,
     prepared |-> FALSE, environment |-> 0, completed |-> First, retries |-> 0]
NoRetry == [attempt |-> 0, draft |-> NewCheckpoint]

\* The types of the rows and of what a worker holds, and one status per work item.
LoopTypeOK ==
    /\ execution \in Execution
    /\ checkpoint \in Checkpoint
    /\ checkpoint.pending \cap checkpoint.done = {}   \* a work item has one status
    /\ workspace \in Source
    /\ loop \in [Workers -> Loop]
    /\ retry \in [attempt : 0 .. AttemptBound, draft : Checkpoint]
    /\ published \in SUBSET Source
    /\ crashes \in 0 .. CrashBound

-----------------------------------------------------------------------------
(* Helpers *)

\* current_item: the plans accepted have no cycle, so some pending item is ready.
CurrentItem(c) == IF c.pending = {} THEN 0 ELSE CHOOSE i \in c.pending : \A j \in c.pending : i <= j

\* _locked_current, save_execution_draft, renew_execution_lease
Current(w) == execution.status = "running" /\ loop[w].attempt = execution.attempt
Live(w) == Current(w) /\ ~execution.expired

\* block_checkpoint: a block without a code leaves the code that is there.
Block(c, reason) ==
    [c EXCEPT !.outcome = "blocked",
              !.reason = IF reason = "plain" /\ @ # "none" THEN @ ELSE reason]
\* remember_recovery and the fields a resumed checkpoint clears
Resume(c) == [c EXCEPT !.outcome = "running", !.reason = "none"]

Goto(w, pc) == loop' = [loop EXCEPT ![w] = [IdleLoop EXCEPT !.pc = pc, !.attempt = loop[w].attempt]]
\* Where the loop goes with the outcome that was saved.
After(c) == CASE c.outcome = "running" -> "load"
              [] c.outcome = "blocked" -> "finish"
              [] c.outcome = "generated" -> "publish"
Save(w, c) == checkpoint' = c /\ Goto(w, After(c))
Rest == <<execution, retry, published, crashes>>

\* Every transaction of a loop whose execution is over raises ConflictException:
\* run_engineering_workflow returns "paused".
Fenced(w) ==
    /\ loop[w].pc \in {"load", "reserve", "model", "record", "verify", "complete"}
    /\ ~Live(w)
    /\ Goto(w, "finish")
    /\ UNCHANGED <<checkpoint, workspace, Rest>>

Init ==
    /\ execution = [attempt |-> 1, status |-> "running", expired |-> FALSE]
    /\ checkpoint = NewCheckpoint
    /\ workspace = First
    /\ loop = [w \in Workers |-> IdleLoop]
    /\ retry = NoRetry
    /\ published = {}
    /\ crashes = 0

-----------------------------------------------------------------------------
(* Attempts *)

\* claim_code_engineer_task with a recovery number: a Continue or a job whose
\* execution has ended.  The new attempt inherits the draft.
Claim ==
    /\ execution.status = "failed" \/ (execution.status = "running" /\ execution.expired)
    /\ retry = NoRetry
    /\ execution.attempt < AttemptBound
    /\ execution' = [attempt |-> execution.attempt + 1, status |-> "running", expired |-> FALSE]
    /\ UNCHANGED <<checkpoint, workspace, loop, retry, published, crashes>>

\* _handle_engineering on a running execution: the job is claimed, first or again.
Join(w) ==
    /\ loop[w].pc = "idle"
    /\ execution.status = "running"
    /\ Shared \/ \A v \in Workers : loop[v].attempt # execution.attempt
    /\ loop' = [loop EXCEPT ![w] = [IdleLoop EXCEPT !.pc = "prepare", !.attempt = execution.attempt]]
    /\ UNCHANGED <<execution, checkpoint, workspace, retry, published, crashes>>

\* expires_at passes: nothing was saved for EXECUTION_LEASE.
LeaseExpires ==
    /\ execution.status = "running" /\ ~execution.expired
    /\ execution' = [execution EXCEPT !.expired = TRUE]
    /\ UNCHANGED <<checkpoint, workspace, loop, retry, published, crashes>>

\* The process dies, or a provider error leaves the loop: the job is retried on the
\* same execution.
Crash(w) ==
    /\ loop[w].pc # "idle"
    /\ crashes < CrashBound
    /\ crashes' = crashes + 1
    /\ loop' = [loop EXCEPT ![w] = IdleLoop]
    /\ UNCHANGED <<execution, checkpoint, workspace, retry, published>>

\* A blocked or paused loop: WorkflowBlockedException, and fail_job ends the execution
\* of the job if it is still the running one.
Finish(w) ==
    /\ loop[w].pc = "finish"
    /\ execution' = IF Current(w) THEN [execution EXCEPT !.status = "failed"] ELSE execution
    /\ loop' = [loop EXCEPT ![w] = IdleLoop]
    /\ UNCHANGED <<checkpoint, workspace, retry, published, crashes>>

\* retry_terminal_engineering: the draft is prepared from the blocked checkpoint
\* (prepare_manual_repair_retry), then the claim commits the next attempt.
ManualRetry(c) ==
    [Resume(c) EXCEPT
        !.turnLimit = c.turns + MaxTurns, !.callLimit = c.calls + MaxCalls,
        !.rounds = [i \in Items |-> IF i = CurrentItem(c) THEN 0 ELSE c.rounds[i]],
        !.retries = c.retries + 1]
\* requires_manual_repair_retry: a stop-loss, or a block that cites a budget at its limit
RequiresManualRetry(c) ==
    /\ c.outcome = "blocked"
    /\ \/ c.reason = "terminal"
       \/ c.reason = "plain" /\ (c.turns >= c.turnLimit - 1 \/ c.calls >= c.callLimit - 1)
RetryClaim ==
    /\ execution.status = "failed"
    /\ RequiresManualRetry(checkpoint)
    /\ retry = NoRetry
    /\ execution.attempt < AttemptBound /\ checkpoint.retries < RetryBound
    /\ execution' = [attempt |-> execution.attempt + 1, status |-> "running", expired |-> FALSE]
    /\ retry' = [attempt |-> execution.attempt + 1, draft |-> ManualRetry(checkpoint)]
    /\ UNCHANGED <<checkpoint, workspace, loop, published, crashes>>

\* The second transaction writes that draft into the row of its attempt, unfenced.
RetryWrite ==
    /\ retry # NoRetry
    /\ checkpoint' = IF retry.attempt = execution.attempt THEN retry.draft ELSE checkpoint
    /\ retry' = NoRetry
    /\ UNCHANGED <<execution, workspace, loop, published, crashes>>

-----------------------------------------------------------------------------
(* prepare *)

\* resume_blocked_checkpoint: a recovery resumes what is not a stop-loss, and whatever the environment blocked.
\* Slip: an automatic recovery resumes a stop-loss too.
ResumedAlways(c) ==
    IF c.outcome = "blocked" /\ execution.attempt > 1 THEN Resume(c) ELSE c
Resumed(c) ==
    IF \/ c.outcome = "blocked" /\ c.reason = "environment"
       \/ c.outcome = "blocked" /\ c.reason = "plain" /\ execution.attempt > 1
    THEN Resume(c) ELSE c

\* ensure_smoke_probe_baseline and initial_source_context, once per checkpoint: the
\* manifest a task starts from has passed a check, so it can be frozen.
Prepared(c) ==
    IF c.prepared THEN c
    ELSE [c EXCEPT !.prepared = TRUE, !.ledger = @ \cup workspace.probes, !.observed = workspace]

\* The environment is checked once per attempt.
Prepare(w, available) ==
    LET c == Resumed(checkpoint)
        p == [Prepared(c) EXCEPT !.environment = execution.attempt]
    IN
    /\ loop[w].pc = "prepare"
    /\ IF ~Current(w) \/ (checkpoint.outcome # "generated" /\ execution.expired)
       THEN Goto(w, "finish") /\ UNCHANGED checkpoint
       ELSE IF c.outcome # "running" THEN Save(w, c)
       ELSE IF c.environment # execution.attempt /\ ~available
            THEN Save(w, Block(Prepared(c), "environment"))
            ELSE Save(w, p)
    /\ UNCHANGED <<workspace, Rest>>

-----------------------------------------------------------------------------
(* step: load the checkpoint, reserve a model turn *)

\* _unchanged_failed_checks: what failed on this very source is not checked again.
FailedHere == \E e \in checkpoint.cache : e.source = workspace /\ ~e.ok
Exhausted(c) == c.turns >= c.turnLimit \/ c.calls >= c.callLimit
\* _load_step
Load(w) ==
    LET c == checkpoint IN
    /\ loop[w].pc = "load"
    /\ Live(w)
    /\ IF c.outcome # "running" THEN Save(w, c)
       ELSE IF Exhausted(c) THEN Save(w, Block(c, "terminal"))
       ELSE IF c.planned /\ c.pending = {} THEN Save(w, Block(c, "plain"))
       ELSE /\ loop' = [loop EXCEPT ![w].pc = "reserve",
                                    ![w].item = IF c.planned THEN CurrentItem(c) ELSE 0,
                                    ![w].mayCheck = ~FailedHere]
            /\ UNCHANGED checkpoint
    /\ UNCHANGED <<workspace, Rest>>

\* _persist_waiting with reserve_model: the turn is spent before the model is asked.
\* Slip: the turn is not counted.
ReserveFree(w) ==
    /\ loop[w].pc = "reserve"
    /\ Live(w)
    /\ UNCHANGED checkpoint
    /\ loop' = [loop EXCEPT ![w].pc = "model"]
    /\ UNCHANGED <<workspace, Rest>>
Reserve(w) ==
    /\ loop[w].pc = "reserve"
    /\ Live(w)
    /\ checkpoint' = [checkpoint EXCEPT !.turns = @ + 1]
    /\ loop' = [loop EXCEPT ![w].pc = "model"]
    /\ UNCHANGED <<workspace, Rest>>

-----------------------------------------------------------------------------
(* The model's answer *)

\* _execute_call counts the call first; a completion also needs the call of its check.
\* Slip: a completion is charged like any other call.
AffordableAlone(act) == checkpoint.calls + 1 <= checkpoint.callLimit
Affordable(act) == checkpoint.calls + (IF act = "complete" THEN 2 ELSE 1) <= checkpoint.callLimit
Count(c) == [c EXCEPT !.calls = @ + 1]

\* Tools that the stage offers: planning comes first, a quality repair keeps its plan.
Offered(w, act) ==
    CASE act \in {"read", "report_blocked"} -> TRUE
      [] act = "edit" -> checkpoint.planned
      [] act = "plan" -> ~QualityRepair
      [] act \in {"check", "complete"} -> checkpoint.planned /\ loop[w].mayCheck

Spend(w, act) ==
    /\ loop[w].pc = "model"
    /\ Live(w)
    /\ Offered(w, act)
    /\ Affordable(act)
    /\ checkpoint' = Count(checkpoint)
    /\ UNCHANGED <<workspace, Rest>>

OutOfCalls(w) ==
    /\ loop[w].pc = "model"
    /\ Live(w)
    /\ \E act \in {"read", "complete"} : Offered(w, act) /\ ~Affordable(act)
    /\ Save(w, Block(checkpoint, "terminal"))
    /\ UNCHANGED <<workspace, Rest>>

\* A malformed or unavailable call is recorded as a rejection and costs no call.
Reject(w) ==
    /\ loop[w].pc = "model"
    /\ loop' = [loop EXCEPT ![w].pc = "record", ![w].act = "reject"]
    /\ UNCHANGED <<checkpoint, workspace, Rest>>

CallRead(w) ==
    /\ Spend(w, "read")
    /\ loop' = [loop EXCEPT ![w].pc = "record", ![w].act = "read", ![w].new = workspace]
CallPlan(w) ==
    /\ Spend(w, "plan")
    /\ loop' = [loop EXCEPT ![w].pc = "record", ![w].act = "plan"]
CallReportBlocked(w) ==
    /\ Spend(w, "report_blocked")
    /\ loop' = [loop EXCEPT ![w].pc = "record", ![w].act = "report_blocked"]

\* smoke_probe_violation: no probe of the ledger is missing from the manifest.
KeepsLedger(c, source) == c.ledger \subseteq source.probes

\* prepare_action: a manifest is changed from the version the model has seen, and keeps
\* every probe of the ledger; anything else is rejected.  So is a write of code from a
\* version it has not seen, but the tools that generate code (an API client, an image, a
\* dependency) take whatever version is there.
StageEdit(new) ==
    /\ new # workspace
    /\ new.probes # workspace.probes =>
            /\ checkpoint.observed.probes = workspace.probes
            /\ KeepsLedger(checkpoint, new)
CallEdit(w, new) ==
    /\ Spend(w, "edit")
    /\ StageEdit(new)
    /\ loop' = [loop EXCEPT ![w].pc = "record", ![w].act = "edit", ![w].base = workspace, ![w].new = new]

CachedResult(check) == {e \in checkpoint.cache : e.check = check}
CallCheck(w, check) ==
    /\ Spend(w, "check")
    /\ loop' = [loop EXCEPT ![w].pc = "verify", ![w].act = "check", ![w].check = check,
                            ![w].cached = CachedResult(check)]

\* _check_step up to the check.  select_completion_check: everything for the last
\* item and for a quality repair, else what the changed files call for.
Select(w) ==
    IF checkpoint.pending = {loop[w].item} \/ QualityRepair THEN {"all"} ELSE Checks
CallComplete(w, check) ==
    /\ Spend(w, "complete")
    /\ check \in Select(w)
    /\ loop[w].item # 0
    /\ loop' = [loop EXCEPT ![w].pc = "verify", ![w].act = "complete", ![w].check = check,
                            ![w].base = workspace, ![w].cached = CachedResult(check)]

-----------------------------------------------------------------------------
(* Running a check, outside of any transaction *)

\* _run_check: evidence for the same source is used again; a run may find no sandbox.
Verify(w, available) ==
    LET l == loop[w]
        reused == {e \in l.cached : e.source = workspace}
        found == IF reused # {} THEN \A e \in reused : e.ok ELSE Passes(l.check, workspace)
    IN
    /\ l.pc = "verify"
    /\ Live(w)
    /\ loop' = [loop EXCEPT ![w].pc = "compare", ![w].new = workspace,
                    ![w].result = IF ~available /\ reused = {} THEN "environment"
                                  ELSE IF found THEN "ok" ELSE "failed"]
    /\ UNCHANGED <<checkpoint, workspace, Rest>>

\* The source is looked at again when the check has passed.
Compare(w) ==
    LET l == loop[w]
        same == workspace = l.new /\ (l.act = "complete" => l.new = l.base)
    IN
    /\ l.pc = "compare"
    /\ loop' = [loop EXCEPT ![w].pc = IF l.act = "complete" THEN "complete" ELSE "record",
                            ![w].result = IF @ = "ok" /\ ~same THEN "changed" ELSE @]
    /\ UNCHANGED <<checkpoint, workspace, Rest>>

\* guard_passing_smoke_check: a passing run of a manifest that lost a probe of the
\* ledger is a failure.
Verdict(l) ==
    /\ l.result = "ok"
    /\ l.check = "all" => KeepsLedger(checkpoint, workspace)

\* The API probes a failed run may name (record_failed_api_probes), of those that the
\* manifest still has.
Named(l) ==
    IF l.check = "all" /\ l.result = "failed" /\ l.new.code \in Builds
    THEN SUBSET (Unanswered(l.new) \cap workspace.probes)
    ELSE {{}}

\* _extend_verified_baseline: what a verified manifest holds may not be lost again.
Verified(source) == source.probes
\* _remember_check
RememberCheck(c, l, named) ==
    LET ok == Verdict(l)
        ledger == c.ledger \cup (IF ok /\ l.check = "all" THEN Verified(workspace) ELSE named)
        dropped == {e \in c.cache : e.check = l.check \/ (ok /\ l.check = "all")}
    IN  [c EXCEPT !.ledger = ledger,
                  !.cache = IF l.result \in {"environment", "changed"} THEN c.cache
                            ELSE (c.cache \ dropped) \cup {[check |-> l.check, source |-> l.new, ok |-> ok]}]

-----------------------------------------------------------------------------
(* _record_action *)

\* The stop-losses on repeats and stalls (record_progress, implementation_stalled)
\* may end any recorded action, whatever another worker has saved meanwhile.
Stops(c) == {c, Block(c, "terminal")}
Recording(w, act) == loop[w].pc = "record" /\ loop[w].act = act /\ Live(w)

\* replace_delivery_plan: completed items stay, the pending ones are the model's.
\* Slip: an item already completed may be planned again.
PlansAnew(c) == {p \in SUBSET Items : p \cup c.done # {} /\ (c.planned => p # c.pending)}
Plans(c) == {p \in SUBSET (Items \ c.done) : p \cup c.done # {} /\ (c.planned => p # c.pending)}

RecordReject(w) ==
    /\ Recording(w, "reject")
    /\ \E c \in Stops(checkpoint) : Save(w, c)
    /\ UNCHANGED <<workspace, Rest>>

\* A batch of reads goes on with the next call of the same answer.
RecordRead(w, more) ==
    LET seen == [checkpoint EXCEPT !.observed = loop[w].new] IN
    /\ Recording(w, "read")
    /\ \E c \in Stops(seen) :
        /\ checkpoint' = c
        /\ IF more /\ c.outcome = "running"
           THEN loop' = [loop EXCEPT ![w].pc = "model", ![w].act = "none", ![w].new = First]
           ELSE Goto(w, After(c))
    /\ UNCHANGED <<workspace, Rest>>

RecordPlan(w) ==
    /\ Recording(w, "plan")
    /\ \E p \in Plans(checkpoint) :
         \E c \in Stops([checkpoint EXCEPT !.planned = TRUE, !.pending = p]) : Save(w, c)
    /\ UNCHANGED <<workspace, Rest>>
\* A plan that does not validate is recorded as a rejection.
RecordPlanRejected(w) ==
    /\ Recording(w, "plan")
    /\ \E c \in Stops(checkpoint) : Save(w, c)
    /\ UNCHANGED <<workspace, Rest>>

RecordCheck(w) ==
    /\ Recording(w, "check")
    /\ \E named \in Named(loop[w]) : \E c \in Stops(RememberCheck(checkpoint, loop[w], named)) :
        Save(w, IF loop[w].result = "environment" THEN Block(c, "environment") ELSE c)
    /\ UNCHANGED <<workspace, Rest>>

\* _persist_failure
RecordReportBlocked(w) ==
    /\ Recording(w, "report_blocked")
    /\ Save(w, Block(checkpoint, "plain"))
    /\ UNCHANGED <<workspace, Rest>>

\* commit_action: compare and swap on each file the edit touches, then the evidence of
\* the old source is dropped (invalidate_source_evidence).
Touches(l, file) == l.new[file] # l.base[file]
Unmoved(l) == \A file \in {"code", "probes"} : Touches(l, file) => workspace[file] = l.base[file]
Merged(l, files) == [file \in {"code", "probes"} |-> IF file \in files THEN l.new[file] ELSE workspace[file]]
Written(l) == Merged(l, {file \in {"code", "probes"} : Touches(l, file)})
Seen(c, l) == [file \in {"code", "probes"} |-> IF Touches(l, file) THEN l.new[file] ELSE c.observed[file]]
EditSaved(w, l) ==
    \E c \in Stops([checkpoint EXCEPT !.observed = Seen(checkpoint, l), !.cache = {}]) : Save(w, c)

\* Slip: the bytes are written without looking at what is there.
RecordEditBlind(w) ==
    LET l == loop[w] IN
    /\ Recording(w, "edit")
    /\ workspace' = Written(l)
    /\ EditSaved(w, l)
    /\ UNCHANGED Rest
\* Slip: the fence is not looked at again.
RecordEditLate(w) ==
    LET l == loop[w] IN
    /\ l.pc = "record" /\ l.act = "edit"
    /\ Unmoved(l)
    /\ workspace' = Written(l)
    /\ EditSaved(w, l)
    /\ UNCHANGED Rest
RecordEdit(w) ==
    LET l == loop[w] IN
    /\ Recording(w, "edit")
    /\ Unmoved(l)
    /\ workspace' = Written(l)
    /\ EditSaved(w, l)
    /\ UNCHANGED Rest
\* WRITE_CONFLICT
RecordConflict(w) ==
    /\ Recording(w, "edit")
    /\ ~Unmoved(loop[w])
    /\ \E c \in Stops(checkpoint) : Save(w, c)
    /\ UNCHANGED <<workspace, Rest>>
\* The process dies between the files and the checkpoint: some of the files are new.
CrashInWrite(w) ==
    LET l == loop[w] IN
    /\ Recording(w, "edit")
    /\ Unmoved(l)
    /\ crashes < CrashBound
    /\ crashes' = crashes + 1
    /\ \E files \in SUBSET {file \in {"code", "probes"} : Touches(l, file)} : workspace' = Merged(l, files)
    /\ loop' = [loop EXCEPT ![w] = IdleLoop]
    /\ UNCHANGED <<execution, checkpoint, retry, published>>

-----------------------------------------------------------------------------
(* The end of _check_step: apply_check_outcome *)

\* The item is completed, or the whole transaction is undone: the plan has moved on,
\* or the last item was not checked as such.
Finishes(c, item) == c.pending = {item}
Accepted(c, l) == CurrentItem(c) = l.item /\ (Finishes(c, l.item) => l.check = "all")
Complete(c, l) ==
    LET next == [c EXCEPT !.pending = @ \ {l.item}, !.done = @ \cup {l.item}] IN
    IF next.pending = {} THEN [next EXCEPT !.outcome = "generated", !.completed = l.new] ELSE next

CompletePassed(w) ==
    LET l == loop[w]
        c == Count(RememberCheck(checkpoint, l, {}))
    IN
    /\ l.pc = "complete" /\ Live(w) /\ Verdict(l)
    /\ IF Accepted(c, l) THEN Save(w, Complete(c, l))
       ELSE Goto(w, "finish") /\ UNCHANGED checkpoint
    /\ UNCHANGED <<workspace, Rest>>

\* A failure is a repair round; three alike, or too many, are a stop-loss.
CompleteFailed(w) ==
    LET l == loop[w]
        After1(named) == Count(RememberCheck(checkpoint, l, named))
        Round(c) == [c EXCEPT !.rounds[l.item] = @ + 1]
    IN
    /\ l.pc = "complete" /\ Live(w) /\ ~Verdict(l)
    /\ \E named \in Named(l) :
         IF l.result = "environment" THEN Save(w, Block(After1(named), "environment"))
         ELSE IF checkpoint.rounds[l.item] + 1 > MaxRounds
              THEN Save(w, Block(Round(After1(named)), "terminal"))
              ELSE \E c \in Stops(Round(After1(named))) : Save(w, c)
    /\ UNCHANGED <<workspace, Rest>>

-----------------------------------------------------------------------------
(* complete_code_engineer_task *)

\* The workspace is read before the transaction.
Snapshot(w) ==
    /\ loop[w].pc = "publish"
    /\ loop' = [loop EXCEPT ![w].pc = "commit", ![w].new = workspace]
    /\ UNCHANGED <<checkpoint, workspace, Rest>>
Publishable(w) == Live(w) /\ checkpoint.outcome = "generated"
\* Slip: the snapshot is not compared with the source that was checked.
PublishAsFound(w) ==
    /\ loop[w].pc = "commit"
    /\ Publishable(w)
    /\ published' = {loop[w].new}
    /\ execution' = [execution EXCEPT !.status = "succeeded"]
    /\ loop' = [loop EXCEPT ![w] = IdleLoop]
    /\ UNCHANGED <<checkpoint, workspace, retry, crashes>>
Publish(w) ==
    /\ loop[w].pc = "commit"
    /\ Publishable(w) /\ loop[w].new = checkpoint.completed
    /\ published' = {loop[w].new}
    /\ execution' = [execution EXCEPT !.status = "succeeded"]
    /\ loop' = [loop EXCEPT ![w] = IdleLoop]
    /\ UNCHANGED <<checkpoint, workspace, retry, crashes>>
\* A conflict of the publication fails the job.
PublishRefused(w) ==
    /\ loop[w].pc = "commit"
    /\ ~Publishable(w) \/ loop[w].new # checkpoint.completed
    /\ Goto(w, "finish")
    /\ UNCHANGED <<checkpoint, workspace, Rest>>

-----------------------------------------------------------------------------
(* The system *)

CallStep(w) ==
    \/ CallRead(w) \/ CallPlan(w) \/ CallReportBlocked(w) \/ OutOfCalls(w) \/ Reject(w)
    \/ \E new \in Source : CallEdit(w, new)
    \/ \E check \in Checks : CallCheck(w, check) \/ CallComplete(w, check)
RecordStep(w) ==
    \/ RecordReject(w) \/ RecordPlan(w) \/ RecordPlanRejected(w) \/ RecordCheck(w) \/ RecordReportBlocked(w)
    \/ \E more \in BOOLEAN : RecordRead(w, more)
    \/ RecordEdit(w) \/ RecordConflict(w)
CheckStep(w) ==
    \/ \E available \in BOOLEAN : Verify(w, available)
    \/ Compare(w) \/ CompletePassed(w) \/ CompleteFailed(w)
LoopStep(w) ==
    \/ \E available \in BOOLEAN : Prepare(w, available)
    \/ Load(w) \/ Reserve(w) \/ CallStep(w) \/ RecordStep(w) \/ CheckStep(w)
    \/ Fenced(w) \/ Snapshot(w) \/ Publish(w) \/ PublishRefused(w) \/ Finish(w)

Next ==
    \/ Claim \/ RetryClaim \/ RetryWrite \/ LeaseExpires
    \/ \E w \in Workers : Join(w) \/ LoopStep(w) \/ Crash(w) \/ CrashInWrite(w)

\* Jobs are claimed again until they end, which each crash brings closer (WorkflowJobs);
\* provider calls, checks and file writes come to an end.
Fairness == \A w \in Workers : WF_vars(Join(w)) /\ WF_vars(LoopStep(w))

Spec == Init /\ [][Next]_vars
FairSpec == Spec /\ Fairness

-----------------------------------------------------------------------------
(* Properties *)

\* Whatever crashed, was retried or ran twice: the published code builds, and it answers
\* every probe of its manifest and every probe the task has inherited, whatever the
\* model did to the manifest (complete_code_engineer_task, smoke_guard).
PublishedIsVerified ==
    \A source \in published : Passes("all", source) /\ First.probes \subseteq source.probes

\* With one owner per execution, only the user's retry gets a task past a stop-loss: no
\* recovery, crash or late answer does (resume_blocked_checkpoint,
\* is_terminal_engineering_failure).
Stopped(c) == c.outcome = "blocked" /\ c.reason = "terminal"
StopLossHolds ==
    [][Stopped(checkpoint) => Stopped(checkpoint') \/ checkpoint'.retries > checkpoint.retries]_vars

\* With one owner per execution, model turns and tool calls stay within what the task and
\* the user's retries granted, whatever crashed between the reservation and the result
\* (call_budget, _persist_waiting, _execute_call).
BudgetsHold ==
    LET granted == 1 + checkpoint.retries IN
    /\ checkpoint.turns <= granted * MaxTurns
    /\ checkpoint.calls <= granted * MaxCalls

\* A file changes only from the version its writer started from, and only at the hands
\* of the live execution (commit_action under _locked_current).
NoLostEdit ==
    [][workspace' # workspace =>
        \E w \in Workers :
            /\ loop[w].act = "edit" /\ loop'[w] # loop[w]
            /\ loop[w].attempt = execution.attempt /\ ~execution.expired
            /\ \A file \in {"code", "probes"} :
                  workspace'[file] # workspace[file] => workspace[file] = loop[w].base[file]]_vars

\* With one owner per execution, "generated" is final: every work item is done and the
\* workspace stays what the last check saw (apply_check_outcome; _record_action does not
\* look at the outcome again).
GeneratedStands ==
    checkpoint.outcome = "generated" =>
        workspace = checkpoint.completed /\ checkpoint.done # {} /\ checkpoint.pending = {}

\* An execution does not run for ever: it is published, or blocked for the user.
ExecutionsEnd == []<>(execution.status # "running")
=============================================================================
