---------------------------- MODULE IndependentQA ----------------------------
(***************************************************************************)
(* Independent verification of one code result (services/qa_verification,  *)
(* services/qa_assets, tools/test_engineer.py, agents/test_engineer.py,    *)
(* agents/qa_context.py, orchestration/test_engineer.py): the versions of  *)
(* the test suite, its executions, defects, checks and budgets, kept in a  *)
(* checkpoint that outlives attempts, and the report they must support.    *)
(*                                                                         *)
(* The model decides which tool to call, the runner what each test shows:  *)
(* both are free.  A turn is reserved and saved before the model is called *)
(* and its effect is saved right after the tool, so a turn is one step and *)
(* a crash loses the effect of a turn, never the turn.  Attempts are       *)
(* fenced (ExecutionFence), so one runs at a time.  A criterion has one    *)
(* test, and there is one version of the runner.                           *)
(***************************************************************************)
EXTENDS Naturals, Sequences, FiniteSets, SequencesExt

CONSTANTS
    Tests,          \* identities of the frozen acceptance test plan
    Contracts,      \* what a script may assert (assertion_contract)
    Defects,        \* identities of defects
    SuiteLimit,     \* versions of a suite: 32
    ResolutionLimit,\* resolutions a checkpoint may hold when it is read: 100
    BaseTurns, ExtraTurns, MaxTurnGrants,  \* BASE_QA_TOOL_TURNS, MANUAL_QA_EXTRA_TURNS, MAX_MANUAL_QA_GRANTS
    BaseRuns, ExtraRuns, MaxRunGrants,     \* the same of executions
    AttemptBound,   \* attempts of the first task, one fewer of each that follows
    TaskBound       \* quality tasks: the first, those of repaired code and repeated ones

ASSUME QAAssumption ==
    /\ {SuiteLimit, BaseTurns, ExtraTurns, BaseRuns, ExtraRuns, AttemptBound, TaskBound} \subseteq Nat \ {0}
    /\ {MaxTurnGrants, MaxRunGrants, ResolutionLimit} \subseteq Nat

VARIABLES
    suites,      \* suite_versions: the script of each test, by version
    runs,        \* executions: the version that ran and what each test showed
    checks,      \* the platform's own checks of this source
    defects,     \* recorded defects: the tests that failed and in which execution
    resolved,    \* defect_resolutions: the execution that resolved each defect
    turns,       \* tool_turns
    turnGrants, runGrants,   \* budget_extension_attempts, execution_extension_attempts
    attempt,     \* number, whether it runs, how the last one ended
    report,      \* the report the tool has accepted or the task has published
    task,        \* which quality task it is
    frozen       \* what the first script of each test asserted (history)

vars == <<suites, runs, checks, defects, resolved, turns, turnGrants,
          runGrants, attempt, report, task, frozen>>
grants == <<turnGrants, runGrants>>

-----------------------------------------------------------------------------
NoScript == [contract |-> "none", locator |-> 0]
\* A locator stands for what an adaptation may change: selectors, paths, waits.
Scripts == [contract : Contracts, locator : {0, 1}]
Outcomes == {"passed", "failed", "login", "script", "environment", "not_run"}
NoDefect == [tests |-> {}, run |-> 0]
NoReport == [state |-> "none", conclusion |-> "none", challenged |-> FALSE]

Suite == Last(suites)
LastRun == Last(runs)
TurnBudget == BaseTurns + ExtraTurns * turnGrants
RunBudget == BaseRuns + ExtraRuns * runGrants
RunsSpent == Len(runs) = RunBudget
Active == {d \in Defects : defects[d].run # 0 /\ resolved[d] = 0}
\* A click that logs in, then a navigation that times out: failed like a product fault.
Failing(row) == {t \in Tests : row[t] \in {"failed", "login"}}

Fresh(inherited) ==
    /\ suites' = inherited /\ runs' = <<>>
    /\ checks' = [all |-> "none", visual |-> "none"]
    /\ defects' = [d \in Defects |-> NoDefect] /\ resolved' = [d \in Defects |-> 0]
    /\ turns' = 0 /\ turnGrants' = 0 /\ runGrants' = 0
    /\ attempt' = [number |-> 0, running |-> FALSE, ended |-> "none"]
    /\ report' = NoReport

Init ==
    /\ suites = <<>> /\ runs = <<>>
    /\ checks = [all |-> "none", visual |-> "none"]
    /\ defects = [d \in Defects |-> NoDefect] /\ resolved = [d \in Defects |-> 0]
    /\ turns = 0 /\ turnGrants = 0 /\ runGrants = 0
    /\ attempt = [number |-> 0, running |-> FALSE, ended |-> "none"]
    /\ report = NoReport
    /\ task = 1
    /\ frozen = [t \in Tests |-> "none"]

-----------------------------------------------------------------------------
(* What the validators accept                                                *)

\* validate_suite against the version before: no script disappears and none asserts
\* anything else.
Keeps(old, new) ==
    \A t \in Tests : old[t] # NoScript => new[t].contract = old[t].contract

\* validate_manifest: nothing passes without a script that ran.
Evident(run) ==
    /\ run.suite \in DOMAIN suites
    /\ \A t \in Tests : run.row[t] = "passed" => suites[run.suite][t] # NoScript

\* validate_defect_resolution
Proves(d, run) ==
    /\ defects[d].run \in 1..(run - 1) /\ run <= Len(runs)
    /\ defects[d].tests # {} /\ defects[d].tests \subseteq Failing(runs[defects[d].run].row)
    /\ \A t \in defects[d].tests : runs[run].row[t] = "passed"

Within(spent, base, extra, granted) ==
    /\ spent <= base + extra * granted
    /\ granted > 0 => spent >= base + extra * (granted - 1)

ResolvedProven == \A d \in Defects : resolved[d] # 0 => Proves(d, resolved[d])

\* What restore_test_engineer_progress asks of a checkpoint and the tools also enforce...
Readable ==
    /\ Len(suites) <= SuiteLimit
    /\ \A v \in 2..Len(suites) : Keeps(suites[v - 1], suites[v])
    /\ \A r \in DOMAIN runs : Evident(runs[r])
    /\ runGrants <= MaxRunGrants /\ Within(Len(runs), BaseRuns, ExtraRuns, runGrants)
    /\ turnGrants <= MaxTurnGrants /\ Within(turns, BaseTurns, ExtraTurns, turnGrants)
    /\ ResolvedProven

\* ... and what it asks that they do not: resolve_defect knows no limit.
FewResolutions == Cardinality({d \in Defects : resolved[d] # 0}) <= ResolutionLimit

\* A checkpoint it refuses is refused for ever.
Restorable == Readable /\ FewResolutions

-----------------------------------------------------------------------------
(* Attempts                                                                  *)
Ended(reason) == attempt' = [attempt EXCEPT !.running = FALSE, !.ended = reason]
Facts == <<suites, runs, defects, resolved, frozen>>

\* A check without the hash of the source is saved and never read back.
Bound(name) == IF checks[name] = "unbound" THEN "none" ELSE checks[name]

MayStart ==
    /\ ~attempt.running /\ attempt.number + task <= AttemptBound /\ report.state # "published"

\* A job, its retries and every recovery.
Recover ==
    /\ MayStart
    /\ attempt' = IF Restorable
                  THEN [attempt EXCEPT !.number = @ + 1, !.running = TRUE]
                  ELSE [attempt EXCEPT !.number = @ + 1, !.ended = "failed"]
    /\ checks' = [all |-> Bound("all"), visual |-> Bound("visual")]
    /\ report' = NoReport
    /\ UNCHANGED <<Facts, turns, grants, task>>

\* can_extend_qa_execution_budget of an attempt that ended as failed.
EarnsRuns == attempt.ended # "crashed" /\ RunsSpent /\ runGrants < MaxRunGrants
EarnsTurns == attempt.ended = "exhausted"

\* The owner continues after a failure.  Without an execution left to grant nothing starts;
\* a grant of turns that are not due, or no longer to be had, fails the attempt.
Continue ==
    /\ MayStart /\ attempt.number > 0 /\ Restorable
    /\ attempt.ended # "crashed" /\ RunsSpent => runGrants < MaxRunGrants
    /\ IF EarnsTurns /\ (turnGrants = MaxTurnGrants \/ turns # TurnBudget)
       THEN /\ attempt' = [attempt EXCEPT !.number = @ + 1, !.ended = "failed"]
            /\ UNCHANGED <<turnGrants, runGrants>>
       ELSE /\ attempt' = [attempt EXCEPT !.number = @ + 1, !.running = TRUE]
            /\ turnGrants' = IF EarnsTurns THEN turnGrants + 1 ELSE turnGrants
            /\ runGrants' = IF EarnsRuns THEN runGrants + 1 ELSE runGrants
    /\ checks' = [all |-> Bound("all"), visual |-> Bound("visual")]
    /\ report' = NoReport
    /\ UNCHANGED <<Facts, turns, task>>

-----------------------------------------------------------------------------
(* One turn of the loop                                                      *)
Turn ==
    /\ attempt.running /\ report.state = "none" /\ turns < TurnBudget
    /\ turns' = turns + 1
    /\ UNCHANGED <<turnGrants, runGrants, task>>

\* The process or the lease is lost, or the provider fails, before the effect is saved.
Lose ==
    /\ Turn
    /\ \E reason \in {"crashed", "failed"} : Ended(reason)
    /\ UNCHANGED <<Facts, checks, report>>

Exhaust ==
    /\ attempt.running /\ report.state = "none" /\ turns = TurnBudget
    /\ Ended("exhausted")
    /\ UNCHANGED <<Facts, checks, turns, grants, report, task>>

\* No tool ran, it refused the call, or it only read.
Read ==
    /\ Turn
    /\ UNCHANGED <<Facts, checks, attempt, report>>

\* Reading ends the attempt once it has replaced verification for too many turns.
ReadTooLong ==
    /\ Turn /\ runs # <<>>
    /\ Ended("failed")
    /\ UNCHANGED <<Facts, checks, report>>

Frozen(suite) ==
    frozen' = [t \in Tests |-> IF frozen[t] = "none" THEN suite[t].contract ELSE frozen[t]]

\* Every tool that makes a version ends here.
NewVersion(suite) ==
    /\ Len(suites) < SuiteLimit
    /\ suites' = Append(suites, suite) /\ Frozen(suite)
    /\ UNCHANGED <<runs, defects, resolved, checks, attempt, report>>

\* validate_suite guards a redesign, too: it may only add to the version before.
Design ==
    /\ Turn
    /\ \E suite \in [Tests -> {script \in Scripts : script.locator = 0} \union {NoScript}] :
          /\ suites # <<>> => Keeps(Suite, suite)
          /\ NewVersion(suite)

WriteScript(t) ==
    /\ Turn /\ suites # <<>>
    /\ \E script \in Scripts :
          LET suite == [Suite EXCEPT ![t] = script]
          IN Keeps(Suite, suite) /\ NewVersion(suite)

AdaptScript(t) ==
    /\ Turn /\ suites # <<>>
    /\ Suite[t] # NoScript
    /\ NewVersion([Suite EXCEPT ![t].locator = 1 - @])

-----------------------------------------------------------------------------
(* run_acceptance_tests                                                      *)

\* unresolved_script_blockers: the last execution's blocked scripts are still the same.
ScriptBlockers ==
    IF runs = <<>> \/ LastRun.suite = Len(suites) THEN {}
    ELSE {t \in Tests : /\ LastRun.row[t] \in {"script", "not_run"}
                        /\ suites[LastRun.suite][t] = Suite[t]}

\* unresolved_login_transition_test_ids
LoginBlockers ==
    IF runs = <<>> THEN {}
    ELSE {t \in Tests : /\ LastRun.row[t] = "login"
                        /\ suites[LastRun.suite][t].locator = Suite[t].locator}

\* Only an environment failure lets the same version run again.
Repeatable(row) ==
    /\ \E t \in Tests : row[t] = "environment"
    /\ \A t \in Tests : row[t] \in {"passed", "environment"}

MayRun ==
    /\ suites # <<>> /\ Len(runs) < RunBudget
    /\ ScriptBlockers \union LoginBlockers = {} \/ Len(suites) = SuiteLimit
    /\ \A r \in DOMAIN runs : runs[r].suite = Len(suites) => Repeatable(runs[r].row)

Rows == {row \in [Tests -> Outcomes] : \A t \in Tests : row[t] = "not_run" <=> Suite[t] = NoScript}

Execute ==
    /\ Turn /\ MayRun
    /\ \E row \in Rows : runs' = Append(runs, [suite |-> Len(suites), row |-> row])
    /\ UNCHANGED <<suites, defects, resolved, frozen, checks, attempt, report>>

\* The environment, or the source under test, fails the execution: it leaves nothing but a
\* check that is not read back.
ExecuteInVain ==
    /\ Turn /\ MayRun
    /\ Ended("failed")
    /\ UNCHANGED <<Facts, checks, report>>

-----------------------------------------------------------------------------
(* run_check and capture_screenshots                                         *)

\* is_reusable_check: a result of this source by this runner.
Reusable(name) == checks[name] \in {"passed", "failed"}

\* What a check may come to.  Without an environment, in time or for a source that changes
\* under it, it proves nothing and the attempt ends; a workspace that cannot be read gives
\* a result without the hash of a source.
CheckResults == {"passed", "failed", "unavailable", "unbound"}
\* So does a route that is none, even over screenshots that were taken.
ScreenshotResults == IF Reusable("visual") THEN {"unbound"} ELSE CheckResults

Checked(name, results) ==
    /\ \E result \in results :
          IF result = "unavailable"
          THEN checks' = [checks EXCEPT ![name] = "none"] /\ Ended("failed")
          ELSE checks' = [checks EXCEPT ![name] = result] /\ UNCHANGED attempt
    /\ UNCHANGED <<Facts, report>>

RunCheck == Turn /\ ~Reusable("all") /\ Checked("all", CheckResults)
CaptureScreenshots == Turn /\ checks.all # "none" /\ Checked("visual", ScreenshotResults)
\* run_check and capture_screenshots of what is known already.
Reuse ==
    /\ Turn
    /\ Reusable("all") \/ Reusable("visual")
    /\ UNCHANGED <<Facts, checks, attempt, report>>

-----------------------------------------------------------------------------
(* Defects                                                                   *)
CurrentRun == runs # <<>> /\ LastRun.suite = Len(suites)

RecordDefect(d) ==
    /\ Turn /\ suites # <<>> /\ CurrentRun
    /\ defects[d].run = 0
    /\ \E failed \in SUBSET Failing(LastRun.row) \ {{}} :
          defects' = [defects EXCEPT ![d] = [tests |-> failed, run |-> Len(runs)]]
    /\ UNCHANGED <<suites, runs, resolved, frozen, checks, attempt, report>>

\* Slip: any test of the defect that passes resolves it.
ProvesSome(d, run) == defects[d].run \in 1..run /\ \E t \in defects[d].tests : runs[run].row[t] = "passed"
ResolveAnyhow(d) ==
    /\ Turn /\ CurrentRun
    /\ d \in Active /\ ProvesSome(d, Len(runs))
    /\ resolved' = [resolved EXCEPT ![d] = Len(runs)]
    /\ UNCHANGED <<suites, runs, defects, frozen, checks, attempt, report>>
Resolve(d) ==
    /\ Turn /\ CurrentRun
    /\ d \in Active /\ Proves(d, Len(runs))
    /\ resolved' = [resolved EXCEPT ![d] = Len(runs)]
    /\ UNCHANGED <<suites, runs, defects, frozen, checks, attempt, report>>

-----------------------------------------------------------------------------
(* The report                                                                *)
RowStatus == [passed |-> "passed", failed |-> "failed", login |-> "failed", script |-> "blocked",
              environment |-> "blocked", not_run |-> "blocked"]
CheckStatus(result) == IF result = "passed" THEN "passed" ELSE "failed"

\* What the report itself must be.
Concludes(conclusion, challenged, statuses) ==
    /\ challenged => conclusion = "blocked"
    /\ conclusion = "passed" => statuses = {"passed"} /\ Active = {}
    /\ conclusion = "failed" => "failed" \in statuses \/ Active # {}
    /\ conclusion = "blocked" => "blocked" \in statuses \/ challenged

\* build_test_report_from_decision takes the rows and the checks from the state;
\* validate_report decides what they support.
Supports(conclusion, challenged, result) ==
    IF suites = <<>> THEN conclusion = "blocked" /\ challenged
    ELSE /\ CurrentRun /\ result.all # "none" /\ result.visual # "none"
         /\ Concludes(conclusion, challenged,
                      {RowStatus[LastRun.row[t]] : t \in Tests}
                      \union {CheckStatus(result.all), CheckStatus(result.visual)})
         /\ Failing(LastRun.row) # {} => Active # {} \/ challenged

WriteReport ==
    /\ Turn
    /\ \E conclusion \in {"passed", "failed", "blocked"}, challenged \in BOOLEAN :
          /\ Supports(conclusion, challenged, checks)
          /\ report' = [state |-> "accepted", conclusion |-> conclusion, challenged |-> challenged]
    /\ UNCHANGED <<Facts, checks, attempt>>

\* complete_test_engineer_task repeats the gate on what was saved, and the checks of the
\* report must be those.
Persisted == [all |-> Bound("all"), visual |-> Bound("visual")]
SuitePublished == Supports(report.conclusion, report.challenged, Persisted)
                  /\ (suites # <<>> => Persisted = checks)

Publish ==
    /\ attempt.running /\ report.state = "accepted"
    /\ IF SuitePublished
       THEN report' = [report EXCEPT !.state = "published"] /\ Ended("published")
       ELSE report' = NoReport /\ Ended("failed")
    /\ UNCHANGED <<Facts, checks, turns, grants, task>>

PublishLost ==
    /\ attempt.running /\ report.state = "accepted"
    /\ report' = NoReport /\ \E reason \in {"crashed", "failed"} : Ended(reason)
    /\ UNCHANGED <<Facts, checks, turns, grants, task>>

\* Slip: the verification of a repair starts from nothing.
Nothing == <<>>
\* load_test_inputs: repaired code, and code that is verified again, inherit the suite of
\* the report and none of its executions.
Inherited == IF suites = <<>> THEN <<>> ELSE <<Suite>>

NextTask ==
    /\ report.state = "published" /\ report.conclusion # "passed" /\ task < TaskBound
    /\ Fresh(Inherited)
    /\ task' = task + 1
    /\ UNCHANGED frozen

-----------------------------------------------------------------------------
Tool ==
    \/ Lose \/ Read \/ ReadTooLong \/ Design \/ Execute \/ ExecuteInVain \/ WriteReport
    \/ \E t \in Tests : WriteScript(t) \/ AdaptScript(t)
    \/ RunCheck \/ CaptureScreenshots \/ Reuse
    \/ \E d \in Defects : RecordDefect(d) \/ Resolve(d)

Next == Recover \/ Continue \/ Tool \/ Exhaust \/ Publish \/ PublishLost \/ NextTask

Spec == Init /\ [][Next]_vars

-----------------------------------------------------------------------------
\* Nothing the tools, the grants or a crash leave in the checkpoint makes the next attempt
\* refuse it as damaged, save one thing: restore_test_engineer_progress limits the number of
\* resolutions and the tool that writes them does not.
CheckpointStaysReadable == FewResolutions => Restorable

\* A report that passes rests on one execution of the shipped suite in which every test
\* passed with the assertions first frozen for it, however many versions, repairs, attempts
\* and defects lie between, and no recorded defect is left without a passing retest.
PassedIsProven ==
    report.state = "published" /\ report.conclusion = "passed" =>
       /\ checks.all = "passed" /\ checks.visual = "passed"
       /\ \A t \in Tests :
             /\ LastRun.row[t] = "passed"
             /\ suites[LastRun.suite][t] = Suite[t]
             /\ Suite[t].contract = frozen[t]
       /\ \A d \in Defects : \A t \in defects[d].tests :
             runs[defects[d].run].row[t] # "passed" /\ resolved[d] > defects[d].run
=============================================================================
