------------------------- MODULE IndependentQAProofs -------------------------
(***************************************************************************)
(* Proofs about IndependentQA, for any tests, defects and budgets.         *)
(***************************************************************************)
EXTENDS IndependentQA, SequenceTheorems, TLAPS

-----------------------------------------------------------------------------
(* The inductive invariant *)

SuiteRow == [Tests -> Scripts \cup {NoScript}]
Run == [suite : Nat, row : [Tests -> Outcomes]]
CheckValues == {"none", "passed", "failed", "unbound"}
QATypeOK ==
    /\ suites \in Seq(SuiteRow)
    /\ runs \in Seq(Run)
    /\ checks \in [all : CheckValues, visual : CheckValues]
    /\ defects \in [Defects -> [tests : SUBSET Tests, run : Nat]]
    /\ resolved \in [Defects -> Nat]
    /\ turns \in Nat /\ turnGrants \in Nat /\ runGrants \in Nat
    /\ frozen \in [Tests -> Contracts \cup {"none"}]

\* The shipped suite asserts what was frozen first.
FrozenStands == \A t \in Tests : frozen[t] = IF suites = <<>> THEN "none" ELSE Suite[t].contract
\* A defect has tests from when it was recorded.
Recorded == \A d \in Defects : defects[d].run = 0 => defects[d].tests = {}

Core == QATypeOK /\ Readable /\ FrozenStands /\ Recorded
QAInv == Core /\ PassedIsProven

\* The parts of what the next attempt reads back.
SuitesKeep ==
    /\ Len(suites) <= SuiteLimit
    /\ \A v \in 2..Len(suites) : Keeps(suites[v - 1], suites[v])
RunsEvident == \A r \in DOMAIN runs : Evident(runs[r])
BudgetsFit ==
    /\ runGrants <= MaxRunGrants /\ Within(Len(runs), BaseRuns, ExtraRuns, runGrants)
    /\ turnGrants <= MaxTurnGrants /\ Within(turns, BaseTurns, ExtraTurns, turnGrants)

-----------------------------------------------------------------------------
(* Values *)

ReadableParts == Readable <=> SuitesKeep /\ RunsEvident /\ BudgetsFit /\ ResolvedProven
LEMMA ReadableIs == ReadableParts
BY DEF ReadableParts, Readable, SuitesKeep, RunsEvident, BudgetsFit, ResolvedProven

LEMMA Bounds ==
    /\ SuiteLimit \in Nat /\ SuiteLimit > 0 /\ BaseTurns \in Nat /\ ExtraTurns \in Nat
    /\ BaseRuns \in Nat /\ ExtraRuns \in Nat /\ BaseRuns > 0 /\ BaseTurns > 0
    /\ MaxTurnGrants \in Nat /\ MaxRunGrants \in Nat
BY QAAssumption

\* The last of a sequence is one of its elements.
LEMMA LastIs ==
    ASSUME NEW S, NEW s \in Seq(S), s # <<>>
    PROVE  Last(s) = s[Len(s)] /\ Last(s) \in S /\ Len(s) \in Nat /\ Len(s) > 0 /\ Len(s) \in DOMAIN s
<1>1. Len(s) \in Nat /\ Len(s) > 0 BY EmptySeq, LenProperties
<1>2. Len(s) \in 1 .. Len(s) /\ DOMAIN s = 1 .. Len(s) BY <1>1, LenProperties
<1>3. s[Len(s)] \in S BY <1>2, ElementOfSeq
<1> QED BY <1>1, <1>2, <1>3 DEF Last
LEMMA LastOfAppend ==
    ASSUME NEW S, NEW s \in Seq(S), NEW e \in S
    PROVE  Append(s, e) # <<>> /\ Last(Append(s, e)) = e
<1>1. Append(s, e) # <<>> /\ Len(Append(s, e)) = Len(s) + 1 /\ Append(s, e)[Len(s) + 1] = e
  BY AppendProperties
<1> QED BY <1>1 DEF Last

\* One more grant of what was spent to the end.
LEMMA GrantFits ==
    ASSUME NEW spent \in Nat, NEW base \in Nat, NEW extra \in Nat, NEW granted \in Nat,
           spent = base + extra * granted
    PROVE  Within(spent, base, extra, granted + 1)
<1>1. extra * (granted + 1) = extra * granted + extra OBVIOUS
<1>2. extra * granted \in Nat OBVIOUS
<1>3. (granted + 1) - 1 = granted OBVIOUS
<1> QED BY <1>1, <1>2, <1>3 DEF Within
\* One more of what is left.
LEMMA SpendFits ==
    ASSUME NEW spent \in Nat, NEW base \in Nat, NEW extra \in Nat, NEW granted \in Nat,
           Within(spent, base, extra, granted), spent < base + extra * granted
    PROVE  Within(spent + 1, base, extra, granted)
<1>1. extra * granted \in Nat OBVIOUS
<1>2. granted > 0 => extra * (granted - 1) \in Nat OBVIOUS
<1> QED BY <1>1, <1>2 DEF Within
LEMMA NothingSpent ==
    ASSUME NEW base \in Nat, NEW extra \in Nat
    PROVE  Within(0, base, extra, 0)
BY DEF Within

-----------------------------------------------------------------------------
(* Steps that leave the facts alone *)

\* What was proved of the facts stays.
LEMMA FactsStay ==
    ASSUME Core, UNCHANGED Facts, checks' \in [all : CheckValues, visual : CheckValues],
           turns' \in Nat /\ turnGrants' \in Nat /\ runGrants' \in Nat, BudgetsFit'
    PROVE  Core'
<1>1. /\ suites' = suites /\ runs' = runs /\ defects' = defects /\ resolved' = resolved
      /\ frozen' = frozen
  BY DEF Facts
<1>2. QATypeOK' BY <1>1 DEF Core, QATypeOK
<1>3. SuitesKeep' /\ RunsEvident' /\ ResolvedProven'
  BY <1>1, ReadableIs DEF Core, ReadableParts, SuitesKeep, RunsEvident, ResolvedProven, Evident, Proves
<1>4. Readable' BY <1>3, ReadableIs, PTL DEF ReadableParts
<1>5. FrozenStands' /\ Recorded' BY <1>1 DEF Core, FrozenStands, Recorded, Suite
<1> QED BY <1>2, <1>4, <1>5 DEF Core

LEMMA Counted ==
    ASSUME Core
    PROVE  /\ turns \in Nat /\ turnGrants \in Nat /\ runGrants \in Nat /\ Len(runs) \in Nat
           /\ BudgetsFit /\ checks \in [all : CheckValues, visual : CheckValues]
BY ReadableIs, LenProperties DEF Core, QATypeOK, ReadableParts

\* A turn is within its budget.
LEMMA TurnFits ==
    ASSUME Core, Turn
    PROVE  /\ turns' \in Nat /\ turnGrants' = turnGrants /\ runGrants' = runGrants
           /\ Within(turns', BaseTurns, ExtraTurns, turnGrants')
           /\ turnGrants' <= MaxTurnGrants /\ runGrants' <= MaxRunGrants
<1>1. Within(turns + 1, BaseTurns, ExtraTurns, turnGrants)
  BY Counted, Bounds, SpendFits DEF Turn, TurnBudget, BudgetsFit
<1> QED BY <1>1, Counted DEF Turn, BudgetsFit
\* A turn that leaves the facts alone.
LEMMA TurnKeeps ==
    ASSUME Core, Turn, UNCHANGED Facts, checks' \in [all : CheckValues, visual : CheckValues]
    PROVE  Core'
<1>1. BudgetsFit' BY TurnFits, Counted DEF BudgetsFit, Facts
<1> QED BY <1>1, TurnFits, Counted, FactsStay

LEMMA ChecksTyped ==
    ASSUME Core
    PROVE  /\ [all |-> Bound("all"), visual |-> Bound("visual")] \in [all : CheckValues, visual : CheckValues]
           /\ \A name \in {"all", "visual"}, value \in CheckValues :
                 [checks EXCEPT ![name] = value] \in [all : CheckValues, visual : CheckValues]
BY Counted DEF Bound, CheckValues

LEMMA ChecksKeep ==
    ASSUME Core, RunCheck \/ CaptureScreenshots
    PROVE  Core'
<1>1. PICK name \in {"all", "visual"} : Checked(name, CheckResults) \/ Checked(name, ScreenshotResults)
  BY DEF RunCheck, CaptureScreenshots
<1>2. PICK value \in CheckValues : checks' = [checks EXCEPT ![name] = value]
  BY <1>1 DEF Checked, CheckResults, ScreenshotResults, CheckValues
<1>3. Turn /\ UNCHANGED Facts BY <1>1 DEF RunCheck, CaptureScreenshots, Checked
<1> QED BY <1>2, <1>3, ChecksTyped, TurnKeeps

LEMMA QuietTurnsKeep ==
    ASSUME Core, Lose \/ Read \/ ReadTooLong \/ ExecuteInVain \/ WriteReport \/ Reuse
    PROVE  Core'
<1>1. Turn /\ UNCHANGED Facts /\ checks' = checks
  BY DEF Lose, Read, ReadTooLong, ExecuteInVain, WriteReport, Reuse, Facts
<1> QED BY <1>1, Counted, TurnKeeps

LEMMA EndsKeep ==
    ASSUME Core, Exhaust \/ Publish \/ PublishLost
    PROVE  Core'
<1>1. UNCHANGED Facts /\ UNCHANGED <<checks, turns, turnGrants, runGrants>>
  BY DEF Exhaust, Publish, PublishLost, grants
<1>2. BudgetsFit' BY <1>1, Counted DEF BudgetsFit, Facts
<1> QED BY <1>1, <1>2, Counted, FactsStay

LEMMA RecoverKeeps == ASSUME Core, Recover PROVE Core'
<1>1. UNCHANGED Facts /\ UNCHANGED <<turns, turnGrants, runGrants>> BY DEF Recover, grants
<1>2. BudgetsFit' BY <1>1, Counted DEF BudgetsFit, Facts
<1>3. checks' \in [all : CheckValues, visual : CheckValues] BY ChecksTyped DEF Recover
<1> QED BY <1>1, <1>2, <1>3, Counted, FactsStay

\* Budgets are granted when they are spent to the end.
LEMMA ContinueKeeps == ASSUME Core, Continue PROVE Core'
<1>1. UNCHANGED Facts /\ turns' = turns BY DEF Continue
<1>2. checks' \in [all : CheckValues, visual : CheckValues] BY ChecksTyped DEF Continue
<1>3. /\ turnGrants' \in Nat /\ turnGrants' <= MaxTurnGrants
      /\ Within(turns, BaseTurns, ExtraTurns, turnGrants')
  <2>1. CASE turnGrants' = turnGrants BY <2>1, Counted DEF BudgetsFit
  <2>2. CASE turnGrants' = turnGrants + 1 /\ turnGrants # MaxTurnGrants /\ turns = TurnBudget
    <3>1. turns = BaseTurns + ExtraTurns * turnGrants BY <2>2 DEF TurnBudget
    <3>2. Within(turns, BaseTurns, ExtraTurns, turnGrants + 1)
      BY ONLY <3>1, Counted, Bounds, GrantFits, Core
    <3>3. turnGrants \in Nat /\ MaxTurnGrants \in Nat /\ turnGrants <= MaxTurnGrants
      BY Counted, Bounds DEF BudgetsFit
    <3> QED BY ONLY <2>2, <3>2, <3>3
  <2> QED BY <2>1, <2>2 DEF Continue
<1>4. /\ runGrants' \in Nat /\ runGrants' <= MaxRunGrants
      /\ Within(Len(runs), BaseRuns, ExtraRuns, runGrants')
  <2>1. CASE runGrants' = runGrants BY <2>1, Counted DEF BudgetsFit
  <2>2. CASE runGrants' = runGrants + 1 /\ EarnsRuns
    <3>1. Len(runs) = BaseRuns + ExtraRuns * runGrants /\ runGrants < MaxRunGrants
      BY <2>2 DEF EarnsRuns, RunsSpent, RunBudget
    <3>2. Within(Len(runs), BaseRuns, ExtraRuns, runGrants + 1)
      BY ONLY <3>1, Counted, Bounds, GrantFits, Core
    <3>3. runGrants \in Nat /\ MaxRunGrants \in Nat BY Counted, Bounds
    <3> QED BY ONLY <2>2, <3>1, <3>2, <3>3
  <2> QED BY <2>1, <2>2 DEF Continue
<1>5. BudgetsFit' BY <1>1, <1>3, <1>4 DEF BudgetsFit, Facts
<1> QED BY <1>1, <1>2, <1>3, <1>4, <1>5, Counted, FactsStay

-----------------------------------------------------------------------------
(* A new version of the suite *)

LEMMA NoScriptIs == NoScript.contract = "none"
BY DEF NoScript

\* What NewVersion does to a suite that keeps the one before.
LEMMA VersionKeeps ==
    ASSUME Core, Turn, NEW suite \in SuiteRow, NewVersion(suite),
           suites # <<>> => Keeps(Suite, suite)
    PROVE  Core'
<1>t. /\ suites \in Seq(SuiteRow) /\ runs \in Seq(Run) /\ QATypeOK
      /\ FrozenStands /\ Recorded /\ Readable
  BY DEF Core, QATypeOK
<1>n. /\ suites' = Append(suites, suite) /\ Len(suites) < SuiteLimit
      /\ runs' = runs /\ defects' = defects /\ resolved' = resolved /\ checks' = checks
      /\ frozen' = [t \in Tests |-> IF frozen[t] = "none" THEN suite[t].contract ELSE frozen[t]]
  BY DEF NewVersion, Frozen
<1>l. Len(suites) \in Nat BY <1>t, LenProperties
<1>a. /\ suites' \in Seq(SuiteRow) /\ Len(suites') = Len(suites) + 1
      /\ \A v \in 1 .. Len(suites) : suites'[v] = suites[v]
      /\ suites'[Len(suites) + 1] = suite
  BY <1>t, <1>n, AppendProperties
<1>s. suites' # <<>> /\ Suite' = suite BY <1>t, <1>n, LastOfAppend DEF Suite
<1>p. SuitesKeep /\ RunsEvident /\ ResolvedProven BY <1>t, ReadableIs DEF ReadableParts
<1>1. QATypeOK'
  <2>1. \A t \in Tests : suite[t].contract \in Contracts \cup {"none"}
    BY DEF SuiteRow, Scripts, NoScript
  <2>2. frozen \in [Tests -> Contracts \cup {"none"}] BY <1>t DEF QATypeOK
  <2>3. frozen' \in [Tests -> Contracts \cup {"none"}] BY <2>1, <2>2, <1>n
  <2>4. turns' \in Nat /\ turnGrants' \in Nat /\ runGrants' \in Nat BY TurnFits, Counted
  <2> QED BY <2>3, <2>4, <1>n, <1>a, <1>t DEF QATypeOK
<1>2. SuitesKeep'
  <2>1. Len(suites') <= SuiteLimit BY <1>a, <1>n, <1>l, Bounds
  <2>2. ASSUME NEW v \in 2 .. Len(suites') PROVE Keeps(suites'[v - 1], suites'[v])
    <3>1. v \in Nat /\ v - 1 \in 1 .. Len(suites) BY <1>a, <1>l
    <3>2. suites'[v - 1] = suites[v - 1] BY <3>1, <1>a
    <3>3. CASE v \in 2 .. Len(suites)
      BY <3>2, <3>3, <1>a, <1>l, <1>p DEF SuitesKeep
    <3>4. CASE v = Len(suites) + 1
      <4>1. suites # <<>> BY <3>1, <3>4, <1>l, <1>t, EmptySeq
      <4>2. suites[v - 1] = Suite BY <3>4, <1>l, <1>t, <4>1, LastIs DEF Suite
      <4> QED BY <4>1, <4>2, <3>2, <3>4, <1>a
    <3> QED BY <3>1, <3>3, <3>4, <1>a, <1>l
  <2> QED BY <2>1, <2>2 DEF SuitesKeep
<1>3. RunsEvident'
  <2>1. ASSUME NEW r \in DOMAIN runs PROVE Evident(runs[r])'
    <3>1. Evident(runs[r]) BY <1>p DEF RunsEvident
    <3>2. runs[r].suite \in 1 .. Len(suites) BY <3>1, <1>t, LenProperties DEF Evident
    <3>3. suites'[runs[r].suite] = suites[runs[r].suite] /\ runs[r].suite \in 1 .. Len(suites')
      BY <3>2, <1>a, <1>l
    <3>4. runs[r].suite \in DOMAIN suites' BY <3>3, <1>a, LenProperties
    <3> QED BY <3>1, <3>3, <3>4, <1>n DEF Evident
  <2> QED BY <2>1, <1>n DEF RunsEvident
<1>4. ResolvedProven' BY <1>p, <1>n DEF ResolvedProven, Proves
<1>5. BudgetsFit' BY TurnFits, Counted, <1>n DEF BudgetsFit
<1>6. Readable' BY <1>2, <1>3, <1>4, <1>5, ReadableIs, PTL DEF ReadableParts
<1>7. FrozenStands'
  <2>1. ASSUME NEW t \in Tests PROVE frozen'[t] = suite[t].contract
    <3>1. frozen'[t] = IF frozen[t] = "none" THEN suite[t].contract ELSE frozen[t] BY <1>n
    <3>2. CASE frozen[t] # "none"
      <4>1. suites # <<>> /\ frozen[t] = Suite[t].contract BY <3>2, <1>t DEF FrozenStands
      <4>2. Suite[t] # NoScript BY <4>1, <3>2, NoScriptIs
      <4> QED BY <3>1, <3>2, <4>1, <4>2 DEF Keeps
    <3> QED BY <3>1, <3>2
  <2> QED BY <2>1, <1>s DEF FrozenStands
<1>8. Recorded' BY <1>n, <1>t DEF Recorded
<1> QED BY <1>1, <1>6, <1>7, <1>8 DEF Core

LEMMA DesignKeeps == ASSUME Core, Design PROVE Core'
<1>1. PICK suite \in [Tests -> {script \in Scripts : script.locator = 0} \union {NoScript}] :
         (suites # <<>> => Keeps(Suite, suite)) /\ NewVersion(suite)
  BY DEF Design
<1>2. suite \in SuiteRow BY DEF SuiteRow
<1> QED BY <1>1, <1>2, VersionKeeps DEF Design

\* The shipped suite is a suite.
LEMMA SuiteTyped ==
    ASSUME Core, suites # <<>>
    PROVE  Suite \in SuiteRow
BY LastIs DEF Core, QATypeOK, Suite

LEMMA WriteScriptKeeps == ASSUME Core, NEW t \in Tests, WriteScript(t) PROVE Core'
<1>1. PICK script \in Scripts : /\ Keeps(Suite, [Suite EXCEPT ![t] = script])
                                /\ NewVersion([Suite EXCEPT ![t] = script])
  BY DEF WriteScript
<1>2. [Suite EXCEPT ![t] = script] \in SuiteRow BY SuiteTyped DEF WriteScript, SuiteRow
<1> QED BY <1>1, <1>2, VersionKeeps DEF WriteScript

\* An adaptation asserts what the script asserted.
LEMMA AdaptScriptKeeps == ASSUME Core, NEW t \in Tests, AdaptScript(t) PROVE Core'
<1>1. Suite \in SuiteRow /\ Suite[t] # NoScript /\ suites # <<>> /\ Turn
  BY SuiteTyped DEF AdaptScript
<1>2. Suite[t] \in Scripts BY <1>1 DEF SuiteRow
<1>3. [Suite[t] EXCEPT !.locator = 1 - @] \in Scripts
      /\ [Suite[t] EXCEPT !.locator = 1 - @].contract = Suite[t].contract
  BY <1>2 DEF Scripts
<1> DEFINE script == [Suite[t] EXCEPT !.locator = 1 - @]
           suite == [Suite EXCEPT ![t] = script]
<1>4. suite = [Suite EXCEPT ![t].locator = 1 - @] OBVIOUS
<1>5. NewVersion(suite) BY <1>4 DEF AdaptScript
<1>6. suite \in SuiteRow BY <1>1, <1>3 DEF SuiteRow
<1>7. Keeps(Suite, suite) BY <1>1, <1>3 DEF Keeps, SuiteRow
<1> QED BY <1>1, <1>5, <1>6, <1>7, VersionKeeps

-----------------------------------------------------------------------------
(* Executions, defects and the next task *)

LEMMA ExecuteKeeps == ASSUME Core, Execute PROVE Core'
<1>t. /\ suites \in Seq(SuiteRow) /\ runs \in Seq(Run) /\ QATypeOK
      /\ FrozenStands /\ Recorded /\ Readable
  BY DEF Core, QATypeOK
<1>n. /\ suites' = suites /\ defects' = defects /\ resolved' = resolved /\ frozen' = frozen
      /\ checks' = checks /\ Turn /\ suites # <<>> /\ Len(runs) < RunBudget
  BY DEF Execute, MayRun
<1>r. PICK row \in Rows : runs' = Append(runs, [suite |-> Len(suites), row |-> row])
  BY DEF Execute
<1> DEFINE run == [suite |-> Len(suites), row |-> row]
<1>l. /\ Suite = suites[Len(suites)] /\ Len(suites) \in Nat /\ Len(suites) \in DOMAIN suites
      /\ Len(runs) \in Nat
  BY <1>t, <1>n, LastIs, LenProperties DEF Suite
<1>w. row \in [Tests -> Outcomes] /\ \A t \in Tests : row[t] = "not_run" <=> Suite[t] = NoScript
  BY DEF Rows
<1>x. run \in Run BY <1>l, <1>w DEF Run
<1>a. /\ runs' \in Seq(Run) /\ Len(runs') = Len(runs) + 1
      /\ \A r \in 1 .. Len(runs) : runs'[r] = runs[r]
      /\ runs'[Len(runs) + 1] = run
  BY <1>t, <1>r, <1>x, AppendProperties
<1>p. SuitesKeep /\ RunsEvident /\ ResolvedProven BY <1>t, ReadableIs DEF ReadableParts
<1>1. QATypeOK'
  <2>1. turns' \in Nat /\ turnGrants' \in Nat /\ runGrants' \in Nat BY <1>n, TurnFits, Counted
  <2> QED BY <2>1, <1>n, <1>a, <1>t DEF QATypeOK
<1>2. SuitesKeep' BY <1>p, <1>n DEF SuitesKeep
<1>3. RunsEvident'
  <2>1. ASSUME NEW r \in DOMAIN runs' PROVE Evident(runs[r])'
    <3>1. r \in 1 .. (Len(runs) + 1) BY <1>a, LenProperties
    <3>2. CASE r \in 1 .. Len(runs)
      <4>1. runs'[r] = runs[r] /\ r \in DOMAIN runs BY <3>2, <1>a, <1>t, LenProperties
      <4> QED BY <4>1, <1>p, <1>n DEF RunsEvident, Evident
    <3>3. CASE r = Len(runs) + 1
      <4>1. runs'[r] = run /\ run.suite = Len(suites) /\ run.row = row BY <3>3, <1>a
      <4>2. \A t \in Tests : row[t] = "passed" => suites[Len(suites)][t] # NoScript BY <1>w, <1>l
      <4> QED BY <4>1, <4>2, <1>n, <1>l DEF Evident
    <3> QED BY <3>1, <3>2, <3>3, <1>l
  <2> QED BY <2>1 DEF RunsEvident
<1>4. ResolvedProven'
  <2>1. ASSUME NEW d \in Defects, resolved[d] # 0 PROVE Proves(d, resolved[d])'
    <3>1. Proves(d, resolved[d]) BY <2>1, <1>p DEF ResolvedProven
    <3>2. resolved[d] \in Nat /\ defects[d].run \in Nat BY <1>t DEF QATypeOK
    <3>3. resolved[d] \in 1 .. Len(runs) /\ defects[d].run \in 1 .. Len(runs)
      BY <3>1, <3>2, <1>l DEF Proves
    <3>4. runs'[resolved[d]] = runs[resolved[d]] /\ runs'[defects[d].run] = runs[defects[d].run]
      BY <3>3, <1>a
    <3>5. resolved[d] <= Len(runs') BY <3>3, <1>a, <1>l
    <3> QED BY <3>1, <3>4, <3>5, <1>n DEF Proves
  <2> QED BY <2>1, <1>n DEF ResolvedProven, Proves
<1>5. BudgetsFit'
  <2>1. Within(Len(runs) + 1, BaseRuns, ExtraRuns, runGrants)
    BY <1>n, Counted, Bounds, SpendFits DEF RunBudget, BudgetsFit
  <2> QED BY <2>1, <1>a, <1>n, TurnFits DEF BudgetsFit
<1>6. Readable' BY <1>2, <1>3, <1>4, <1>5, ReadableIs, PTL DEF ReadableParts
<1>7. FrozenStands' BY <1>t, <1>n DEF FrozenStands, Suite
<1>8. Recorded' BY <1>n, <1>t DEF Recorded
<1> QED BY <1>1, <1>6, <1>7, <1>8 DEF Core

\* A defect is recorded once: what resolves it is judged by what it then was.
LEMMA RecordDefectKeeps == ASSUME Core, NEW d \in Defects, RecordDefect(d) PROVE Core'
<1>t. /\ runs \in Seq(Run) /\ QATypeOK
      /\ FrozenStands /\ Recorded /\ Readable /\ Len(runs) \in Nat
  BY LenProperties DEF Core, QATypeOK
<1>n. /\ suites' = suites /\ runs' = runs /\ resolved' = resolved /\ frozen' = frozen
      /\ checks' = checks /\ Turn /\ defects[d].run = 0 /\ runs # <<>>
  BY DEF RecordDefect, CurrentRun
<1>d. PICK failed \in SUBSET Failing(LastRun.row) \ {{}} :
         defects' = [defects EXCEPT ![d] = [tests |-> failed, run |-> Len(runs)]]
  BY DEF RecordDefect
<1>p. SuitesKeep /\ RunsEvident /\ ResolvedProven BY <1>t, ReadableIs DEF ReadableParts
<1>0. failed \subseteq Tests /\ Len(runs) > 0 BY <1>t, <1>n, EmptySeq, LenProperties DEF Failing
<1>1. QATypeOK'
  <2>1. turns' \in Nat /\ turnGrants' \in Nat /\ runGrants' \in Nat BY <1>n, TurnFits, Counted
  <2>2. [tests |-> failed, run |-> Len(runs)] \in [tests : SUBSET Tests, run : Nat] BY <1>0, <1>t
  <2>3. defects' \in [Defects -> [tests : SUBSET Tests, run : Nat]] BY <2>2, <1>d, <1>t DEF QATypeOK
  <2> QED BY <2>1, <2>3, <1>n, <1>t DEF QATypeOK
<1>2. SuitesKeep' /\ RunsEvident' BY <1>p, <1>n DEF SuitesKeep, RunsEvident, Evident
<1>3. resolved[d] = 0 BY <1>p, <1>n DEF ResolvedProven, Proves
<1>4. ResolvedProven'
  <2>1. ASSUME NEW e \in Defects, resolved[e] # 0 PROVE Proves(e, resolved[e])'
    <3>1. Proves(e, resolved[e]) BY <2>1, <1>p DEF ResolvedProven
    <3>2. defects'[e] = defects[e] BY <2>1, <1>3, <1>d, <1>t DEF QATypeOK
    <3> QED BY <3>1, <3>2, <1>n DEF Proves
  <2> QED BY <2>1, <1>n DEF ResolvedProven, Proves
<1>5. BudgetsFit' BY <1>n, TurnFits, Counted DEF BudgetsFit
<1>6. Readable' BY <1>2, <1>4, <1>5, ReadableIs, PTL DEF ReadableParts
<1>7. FrozenStands' BY <1>t, <1>n DEF FrozenStands, Suite
<1>8. Recorded'
  <2>1. ASSUME NEW e \in Defects, defects'[e].run = 0 PROVE defects'[e].tests = {}
    <3>1. e # d
      <4>1. CASE e = d
        <5>1. defects'[d].run = Len(runs) BY <1>d, <1>t DEF QATypeOK
        <5> QED BY <5>1, <4>1, <2>1, <1>0
      <4> QED BY <4>1
    <3>2. defects'[e] = defects[e] BY <3>1, <1>d, <1>t DEF QATypeOK
    <3> QED BY <3>2, <2>1, <1>t DEF Recorded
  <2> QED BY <2>1 DEF Recorded
<1> QED BY <1>1, <1>6, <1>7, <1>8 DEF Core

LEMMA ResolveKeeps == ASSUME Core, NEW d \in Defects, Resolve(d) PROVE Core'
<1>t. /\ runs \in Seq(Run) /\ QATypeOK
      /\ FrozenStands /\ Recorded /\ Readable /\ Len(runs) \in Nat
  BY LenProperties DEF Core, QATypeOK
<1>n. /\ suites' = suites /\ runs' = runs /\ defects' = defects /\ frozen' = frozen
      /\ checks' = checks /\ Turn /\ Proves(d, Len(runs))
      /\ resolved' = [resolved EXCEPT ![d] = Len(runs)]
  BY DEF Resolve
<1>p. SuitesKeep /\ RunsEvident /\ ResolvedProven BY <1>t, ReadableIs DEF ReadableParts
<1>1. QATypeOK'
  <2>1. turns' \in Nat /\ turnGrants' \in Nat /\ runGrants' \in Nat BY <1>n, TurnFits, Counted
  <2>2. resolved' \in [Defects -> Nat] BY <1>n, <1>t DEF QATypeOK
  <2> QED BY <2>1, <2>2, <1>n, <1>t DEF QATypeOK
<1>2. SuitesKeep' /\ RunsEvident' BY <1>p, <1>n DEF SuitesKeep, RunsEvident, Evident
<1>4. ResolvedProven'
  <2>1. ASSUME NEW e \in Defects, resolved'[e] # 0 PROVE Proves(e, resolved[e])'
    <3>1. Proves(e, resolved'[e]) BY <2>1, <1>n, <1>p, <1>t DEF ResolvedProven, QATypeOK
    <3> QED BY <3>1, <1>n DEF Proves
  <2> QED BY <2>1 DEF ResolvedProven, Proves
<1>5. BudgetsFit' BY <1>n, TurnFits, Counted DEF BudgetsFit
<1>6. Readable' BY <1>2, <1>4, <1>5, ReadableIs, PTL DEF ReadableParts
<1>7. FrozenStands' BY <1>t, <1>n DEF FrozenStands, Suite
<1>8. Recorded' BY <1>n, <1>t DEF Recorded
<1> QED BY <1>1, <1>6, <1>7, <1>8 DEF Core

\* A state in which only a suite has been inherited, or nothing.
LEMMA FreshIs ==
    ASSUME suites \in Seq(SuiteRow), Len(suites) <= 1, runs = <<>>,
           checks = [all |-> "none", visual |-> "none"],
           defects = [d \in Defects |-> NoDefect], resolved = [d \in Defects |-> 0],
           turns = 0, turnGrants = 0, runGrants = 0,
           frozen \in [Tests -> Contracts \cup {"none"}], FrozenStands
    PROVE  Core
<1>1. QATypeOK
  <2>1. runs \in Seq(Run) BY EmptySeq
  <2>2. NoDefect \in [tests : SUBSET Tests, run : Nat] BY DEF NoDefect
  <2>3. defects \in [Defects -> [tests : SUBSET Tests, run : Nat]] BY <2>2
  <2> QED BY <2>1, <2>3 DEF QATypeOK, CheckValues
<1>2. SuitesKeep
  <2>1. Len(suites) \in Nat BY LenProperties
  <2> QED BY <2>1, Bounds DEF SuitesKeep
<1>3. RunsEvident BY DEF RunsEvident
<1>4. ResolvedProven BY DEF ResolvedProven
<1>5. Len(runs) = 0 BY EmptySeq
<1>6. BudgetsFit BY <1>5, Bounds, NothingSpent DEF BudgetsFit
<1>7. Readable BY <1>2, <1>3, <1>4, <1>6, ReadableIs DEF ReadableParts
<1>8. Recorded BY DEF Recorded, NoDefect
<1> QED BY <1>1, <1>7, <1>8 DEF Core

LEMMA InitCore == Init => Core
<1> SUFFICES ASSUME Init PROVE Core OBVIOUS
<1>1. suites \in Seq(SuiteRow) /\ Len(suites) <= 1 BY EmptySeq DEF Init
<1>2. FrozenStands BY DEF Init, FrozenStands
<1> QED BY <1>1, <1>2, FreshIs DEF Init

\* The next task inherits the suite, so what was frozen stands.
LEMMA NextTaskKeeps == ASSUME Core, NextTask PROVE Core'
<1>t. /\ suites \in Seq(SuiteRow) /\ QATypeOK /\ FrozenStands
  BY DEF Core, QATypeOK
<1>n. /\ suites' = Inherited /\ runs' = <<>> /\ frozen' = frozen
      /\ checks' = [all |-> "none", visual |-> "none"]
      /\ defects' = [d \in Defects |-> NoDefect] /\ resolved' = [d \in Defects |-> 0]
      /\ turns' = 0 /\ turnGrants' = 0 /\ runGrants' = 0
  BY DEF NextTask, Fresh
<1>1. /\ suites' \in Seq(SuiteRow) /\ Len(suites') <= 1
      /\ (suites' = <<>> <=> suites = <<>>) /\ (suites # <<>> => Suite' = Suite)
  <2>1. CASE suites = <<>> BY <2>1, <1>n, EmptySeq DEF Inherited
  <2>2. CASE suites # <<>>
    <3>1. Suite \in SuiteRow BY <2>2, SuiteTyped
    <3>2. suites' = <<Suite>> BY <2>2, <1>n DEF Inherited
    <3>3. suites' \in Seq(SuiteRow) /\ Len(suites') = 1 /\ suites'[1] = Suite BY <3>1, <3>2
    <3>4. suites' # <<>> BY <3>3, EmptySeq
    <3>5. Suite' = Suite BY <3>3 DEF Suite, Last
    <3> QED BY <2>2, <3>3, <3>4, <3>5
  <2> QED BY <2>1, <2>2
<1>2. FrozenStands' BY <1>t, <1>n, <1>1 DEF FrozenStands
<1>3. frozen' \in [Tests -> Contracts \cup {"none"}] BY <1>t, <1>n DEF QATypeOK
<1>4. QATypeOK'
  <2>1. runs' \in Seq(Run) BY <1>n, EmptySeq
  <2>2. NoDefect \in [tests : SUBSET Tests, run : Nat] BY DEF NoDefect
  <2>3. defects' \in [Defects -> [tests : SUBSET Tests, run : Nat]] BY <2>2, <1>n
  <2> QED BY <2>1, <2>3, <1>1, <1>3, <1>n DEF QATypeOK, CheckValues
<1>5. SuitesKeep'
  <2>1. Len(suites') \in Nat BY <1>1, LenProperties
  <2> QED BY <2>1, <1>1, Bounds DEF SuitesKeep
<1>6. RunsEvident' BY <1>n DEF RunsEvident
<1>7. ResolvedProven' BY <1>n DEF ResolvedProven
<1>8. Len(runs') = 0 BY <1>n, EmptySeq
<1>9. BudgetsFit' BY <1>8, <1>n, Bounds, NothingSpent DEF BudgetsFit
<1>10. Readable' BY <1>5, <1>6, <1>7, <1>9, ReadableIs, PTL DEF ReadableParts
<1>11. Recorded' BY <1>n DEF Recorded, NoDefect
<1> QED BY <1>4, <1>2, <1>10, <1>11 DEF Core

LEMMA StutterKeepsCore == ASSUME Core, UNCHANGED vars PROVE Core'
<1>1. UNCHANGED Facts /\ UNCHANGED <<checks, turns, turnGrants, runGrants>> BY DEF vars, Facts
<1>2. BudgetsFit' BY <1>1, Counted DEF BudgetsFit, Facts
<1> QED BY <1>1, <1>2, Counted, FactsStay

LEMMA CoreStep == Core /\ [Next]_vars => Core'
<1> SUFFICES ASSUME Core, [Next]_vars PROVE Core' OBVIOUS
<1>1. CASE Recover BY <1>1, RecoverKeeps
<1>2. CASE Continue BY <1>2, ContinueKeeps
<1>3. CASE Lose \/ Read \/ ReadTooLong \/ ExecuteInVain \/ WriteReport \/ Reuse BY <1>3, QuietTurnsKeep
<1>4. CASE Design BY <1>4, DesignKeeps
<1>5. CASE Execute BY <1>5, ExecuteKeeps
<1>6. CASE \E t \in Tests : WriteScript(t) \/ AdaptScript(t) BY <1>6, WriteScriptKeeps, AdaptScriptKeeps
<1>7. CASE RunCheck \/ CaptureScreenshots BY <1>7, ChecksKeep
<1>8. CASE \E d \in Defects : RecordDefect(d) \/ Resolve(d) BY <1>8, RecordDefectKeeps, ResolveKeeps
<1>9. CASE Exhaust \/ Publish \/ PublishLost BY <1>9, EndsKeep
<1>10. CASE NextTask BY <1>10, NextTaskKeeps
<1>11. CASE UNCHANGED vars BY <1>11, StutterKeepsCore
<1> QED BY <1>1, <1>2, <1>3, <1>4, <1>5, <1>6, <1>7, <1>8, <1>9, <1>10, <1>11 DEF Next, Tool

-----------------------------------------------------------------------------
(* What a passing report rests on *)

\* A row or a check that is reported as passed has passed.
LEMMA ReportedAsPassed ==
    /\ \A outcome \in Outcomes : RowStatus[outcome] = "passed" => outcome = "passed"
    /\ \A result : CheckStatus(result) = "passed" => result = "passed"
BY DEF Outcomes, RowStatus, CheckStatus

\* What the gate asks of a report that passes.
LEMMA GateIsStrict ==
    ASSUME Core, report.conclusion = "passed", SuitePublished
    PROVE  /\ suites # <<>> /\ CurrentRun /\ Active = {}
           /\ checks.all = "passed" /\ checks.visual = "passed"
           /\ \A t \in Tests : LastRun.row[t] = "passed"
<1>1. suites # <<>> BY DEF SuitePublished, Supports
<1>2. Persisted = checks BY <1>1 DEF SuitePublished
<1> DEFINE statuses == {RowStatus[LastRun.row[t]] : t \in Tests}
                       \union {CheckStatus(checks.all), CheckStatus(checks.visual)}
<1>3. CurrentRun /\ statuses = {"passed"} /\ Active = {}
  BY <1>1, <1>2 DEF SuitePublished, Supports, Concludes
<1>4. LastRun \in Run BY <1>3, LastIs DEF Core, QATypeOK, LastRun, CurrentRun
<1>5. CheckStatus(checks.all) = "passed" /\ CheckStatus(checks.visual) = "passed" BY <1>3
<1>6. ASSUME NEW t \in Tests PROVE LastRun.row[t] = "passed"
  <2>1. LastRun.row[t] \in Outcomes BY <1>4 DEF Run
  <2>2. RowStatus[LastRun.row[t]] = "passed" BY <1>3
  <2> QED BY <2>1, <2>2, ReportedAsPassed
<1> QED BY <1>1, <1>3, <1>5, <1>6, ReportedAsPassed

\* Publication is the only step that publishes, and every other leaves the report behind.
LEMMA OnlyPublishPublishes ==
    ASSUME Core, Next, report'.state = "published"
    PROVE  Publish /\ SuitePublished
<1>0. report.state = "none" \/ report.state # "none" OBVIOUS
<1>1. CASE Recover \/ Continue \/ NextTask \/ PublishLost
  BY <1>1 DEF Recover, Continue, NextTask, Fresh, PublishLost, NoReport
<1>2. CASE Exhaust BY <1>2 DEF Exhaust
<1>3. CASE WriteReport BY <1>3 DEF WriteReport
<1>4. CASE Lose \/ Read \/ ReadTooLong \/ ExecuteInVain \/ Reuse \/ Execute \/ Design
  BY <1>4 DEF Lose, Read, ReadTooLong, ExecuteInVain, Reuse, Execute, Design, NewVersion, Turn
<1>5. CASE \E t \in Tests : WriteScript(t) \/ AdaptScript(t)
  BY <1>5 DEF WriteScript, AdaptScript, NewVersion, Turn
<1>6. CASE RunCheck \/ CaptureScreenshots
  BY <1>6 DEF RunCheck, CaptureScreenshots, Checked, Turn
<1>7. CASE \E d \in Defects : RecordDefect(d) \/ Resolve(d)
  BY <1>7 DEF RecordDefect, Resolve, Turn
<1>8. CASE Publish BY <1>8 DEF Publish, NoReport
<1> QED BY <1>1, <1>2, <1>3, <1>4, <1>5, <1>6, <1>7, <1>8 DEF Next, Tool

LEMMA PassedStep == Core /\ PassedIsProven /\ [Next]_vars => PassedIsProven'
<1> SUFFICES ASSUME Core, PassedIsProven, [Next]_vars PROVE PassedIsProven' OBVIOUS
<1>1. CASE UNCHANGED vars
  BY <1>1 DEF PassedIsProven, vars, LastRun, Suite
<1>2. CASE Next
  <2> SUFFICES ASSUME report'.state = "published", report'.conclusion = "passed"
               PROVE  PassedIsProven'
    BY DEF PassedIsProven
  <2>1. Publish /\ SuitePublished BY <1>2, OnlyPublishPublishes
  <2>2. /\ UNCHANGED Facts /\ checks' = checks
        /\ report' = [report EXCEPT !.state = "published"]
    BY <2>1 DEF Publish
  <2>3. report.conclusion = "passed" BY <2>2
  <2>4. /\ suites # <<>> /\ CurrentRun /\ Active = {}
        /\ checks.all = "passed" /\ checks.visual = "passed"
        /\ \A t \in Tests : LastRun.row[t] = "passed"
    BY <2>1, <2>3, GateIsStrict
  <2>5. LastRun.suite = Len(suites) /\ suites[Len(suites)] = Suite
    BY <2>4, LastIs DEF CurrentRun, Core, QATypeOK, Suite
  <2>6. \A t \in Tests : Suite[t].contract = frozen[t] BY <2>4 DEF Core, FrozenStands
  <2>7. ASSUME NEW d \in Defects, NEW t \in defects[d].tests
        PROVE  runs[defects[d].run].row[t] # "passed" /\ resolved[d] > defects[d].run
    <3>1. defects[d].run # 0 BY <2>7 DEF Core, Recorded
    <3>2. resolved[d] # 0 BY <3>1, <2>4 DEF Active
    <3>3. Proves(d, resolved[d]) BY <3>2, ReadableIs DEF Core, ReadableParts, ResolvedProven
    <3>4. t \in Failing(runs[defects[d].run].row) BY <3>3, <2>7 DEF Proves
    <3>5. resolved[d] \in Nat /\ defects[d].run \in Nat BY DEF Core, QATypeOK
    <3>6. defects[d].run < resolved[d] BY <3>3, <3>5 DEF Proves
    <3> QED BY <3>4, <3>5, <3>6 DEF Failing
  <2>8. /\ suites' = suites /\ runs' = runs /\ defects' = defects /\ resolved' = resolved
        /\ frozen' = frozen /\ Suite' = Suite /\ LastRun' = LastRun
    BY <2>2 DEF Facts, Suite, LastRun
  <2> QED BY <2>2, <2>4, <2>5, <2>6, <2>7, <2>8 DEF PassedIsProven
<1> QED BY <1>1, <1>2

-----------------------------------------------------------------------------
(* Theorems *)

\* The inductive invariant: what the checkpoint holds can be read back, were it not for the
\* limit on resolutions, the shipped suite asserts what was frozen first, and a defect that
\* was never recorded names no test.
THEOREM QAInvariant == Spec => []QAInv
<1>1. Init => QAInv
  <2>1. Init => PassedIsProven BY DEF Init, PassedIsProven, NoReport
  <2> QED BY <2>1, InitCore DEF QAInv
<1>2. QAInv /\ [Next]_vars => QAInv' BY CoreStep, PassedStep DEF QAInv
<1> QED BY <1>1, <1>2, PTL DEF Spec

\* Whatever the tools, the grants, the owner's Continue and lost attempts leave in the
\* checkpoint, restore_test_engineer_progress accepts it, unless it holds more resolutions
\* than it may; that is the one way in which it is refused.
THEOREM CheckpointIsReadable == Spec => []CheckpointStaysReadable
<1>1. QAInv => CheckpointStaysReadable BY DEF QAInv, Core, CheckpointStaysReadable, Restorable
<1> QED BY <1>1, QAInvariant, PTL

\* A report that passes is supported by one execution of the suite it ships, with the
\* assertions frozen in the first task, and by a later passing retest of every defect.
THEOREM PassIsProven == Spec => []PassedIsProven
<1>1. QAInv => PassedIsProven BY DEF QAInv
<1> QED BY <1>1, QAInvariant, PTL
=============================================================================
