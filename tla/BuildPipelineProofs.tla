------------------------- MODULE BuildPipelineProofs -------------------------
(***************************************************************************)
(* Proofs about BuildPipeline, for any number of callers, plans and runs.  *)
(***************************************************************************)
EXTENDS BuildPipeline, SequenceTheorems, FiniteSetTheorems, WellFoundedInduction, TLAPS
-----------------------------------------------------------------------------
(* The inductive invariant: of every run *)

\* A plan refers to earlier ones, and its fields agree with each other and with the run.
Linked(v) ==
    /\ plans[v].input < v /\ plans[v].report < v
    /\ plans[v].number <= Approvals
    /\ plans[v].role = "approval" => plans[v].status = "succeeded"
    /\ plans[v].role = "qa" /\ v # Latest => plans[v].status = "succeeded"
    /\ plans[v].status = "cancelled" => ~Active
    /\ plans[v].result = "challenged" => plans[v].role = "qa"
    /\ plans[v].result = "passed" => run.status = "succeeded"
\* What was claimed had the input its role works on.
Loaded(v) ==
    plans[v].status \in {"running", "succeeded"} =>
        /\ plans[v].role = "developer" => EngineeringSource(plans[v].input)
        /\ plans[v].role = "qa" => Done(plans[v].input, "developer")
PlansStand == \A v \in Versions :
    /\ Linked(v) /\ Loaded(v)
    /\ v # 1 /\ plans[v].author # "leader" => Follows(v)

\* The stage of the run is that of its latest plan.
LatestFits ==
    /\ Latest = 0 /\ Active => run.status = "queued"
    /\ Latest # 0 /\ plans[Latest].status = "running" => InStage(StageOf(plans[Latest].role))
    /\ Done(Latest, "developer") /\ Active => InStage("developer")
    /\ Latest # 0 /\ plans[Latest].role = "qa" /\ Active => InStage("developer") \/ InStage("qa")

\* The decision about an item is the answer saved for it, and what the holder of the
\* lease has in hand agrees with it.
Decided(v) ==
    LET i == plans[v].input IN
    /\ plans[v].author = "workflow"
    /\ ApprovedSpec(i) /\ i # 0 /\ plans[v].report = 0 /\ plans[v].role \in {"architect", "developer"}
    => decision[i] = (IF plans[v].role = "developer" THEN "direct" ELSE "designed")
Saved(i) == decision[i] \in {"none", dispatch[i].output}
Holds(c) ==
    LET i == caller[c].item IN
    dispatch[i].owner = c =>
        /\ caller[c].pc = "lead" => caller[c].path = dispatch[i].output
        /\ caller[c].pc = "record" => caller[c].path = dispatch[i].output /\ caller[c].path # "none"
        /\ caller[c].pc = "create" => caller[c].path = decision[i] /\ caller[c].path # "none"
DecisionsStand ==
    /\ \A v \in Versions : Decided(v)
    /\ \A i \in Items : Saved(i)
    /\ \A c \in Callers : Holds(c)

\* A dispatch is of an approved item.
Dispatching(c) == caller[c].pc \in {"lead", "record", "create"} => Done(caller[c].item, "approval")
\* A repair continues the report it was decided on, while cycles were left.
Repairing(c) ==
    caller[c].pc = "repair" =>
        /\ Done(caller[c].item, "qa")
        /\ plans[caller[c].item].result \in {"failed", "challenged"}
        /\ caller[c].version = caller[c].item + 1
        /\ caller[c].item = Latest => Cycles < MaxCycles
\* The Leader's own plan is for the version after one that is no validation.
Improvising(c) ==
    caller[c].pc = "improvise" =>
        /\ caller[c].version - 1 \in Versions
        /\ caller[c].item < caller[c].version
        /\ plans[caller[c].version - 1].role # "qa"
CallersStand == \A c \in Callers : Dispatching(c) /\ Repairing(c) /\ Improvising(c)

Room ==
    /\ Cycles <= MaxCycles + Cardinality(Revisions)
    /\ Latest > 0 /\ plans[Latest].role # "qa" => Cycles < MaxCycles + Cardinality(Revisions)

RunInv ==
    /\ PipelineTypeOK
    /\ PlansStand
    /\ LatestFits
    /\ DecisionsStand
    /\ CallersStand
    /\ Room
    /\ shipped <= Approvals

-----------------------------------------------------------------------------
(* The inductive invariant: of a run without a plan of the Leader's own *)

\* Only the latest plan is open, and the status of a plan and that of the run agree.
Settled == \A v \in Versions : v # Latest => plans[v].status = "succeeded"
RunFits ==
    /\ Settled
    /\ \A v \in Versions : plans[v].status \in {"pending", "running"} => Active

\* A report is about the last code before it.
Wired(v) ==
    plans[v].role = "qa" =>
        /\ plans[v].input # 0
        /\ plans[plans[v].input].role = "developer"
        /\ \A w \in plans[v].input + 1 .. v : plans[w].role = "qa"

\* A plan is about the intent that was approved last when it was made.
ApprovedBy(v) == {w \in 1 .. v : plans[w].role = "approval"}
Intent(v) == run.base + Cardinality(ApprovedBy(v))
Meant(v) ==
    /\ plans[v].role = "approval" => plans[v].number = Intent(v)
    /\ plans[v].role = "architect" => IntentOf(plans[v].input) = Intent(v)
    /\ plans[v].role \in {"developer", "qa"} => IntentOf(SpecBehind(v)) = Intent(v)
AsMeant == \A v \in Versions : Wired(v) /\ Meant(v)

ReleaseStands == run.status = "succeeded" => shipped = Approvals

WorkflowInv == RunFits /\ AsMeant /\ ReleaseStands

PipelineInv == RunInv /\ (LeadersOwn = {} => WorkflowInv)

-----------------------------------------------------------------------------
(* Sequences of plans *)

\* A plan at a version that exists has the fields of a plan.
LEMMA PlanFields ==
    ASSUME PipelineTypeOK
    PROVE  /\ Latest \in Nat /\ Latest <= PlanBound /\ PlanBound \in Nat
           /\ \A v \in Versions : /\ plans[v] \in Plan /\ v \in Items /\ v \in Nat
                                  /\ plans[v].role \in Roles
                                  /\ plans[v].author \in {"workflow", "message", "leader"}
                                  /\ plans[v].input \in Items /\ plans[v].input \in Nat
                                  /\ plans[v].report \in Items /\ plans[v].number \in Nat
                                  /\ plans[v].status \in {"pending", "running", "succeeded", "cancelled"}
                                  /\ plans[v].result \in Results
<1>1. plans \in Seq(Plan) /\ Len(plans) <= PlanBound BY DEF PipelineTypeOK
<1>2. Len(plans) \in Nat BY <1>1, LenProperties
<1>3. \A v \in 1 .. Len(plans) : plans[v] \in Plan BY <1>1, ElementOfSeq
<1> QED BY <1>1, <1>2, <1>3, BoundAssumption DEF Latest, Versions, Items, Plan

\* A plan is written at the next version; the others keep their place.
LEMMA Appended ==
    ASSUME PipelineTypeOK, NEW p \in Plan, plans' = Append(plans, p)
    PROVE  /\ Latest' = Latest + 1 /\ Versions' = 1 .. Latest + 1
           /\ plans' \in Seq(Plan) /\ plans'[Latest + 1] = p
           /\ \A v \in Versions : plans'[v] = plans[v]
<1>1. plans \in Seq(Plan) BY DEF PipelineTypeOK
<1>2. Len(plans) \in Nat BY <1>1, LenProperties
<1> QED BY <1>1, <1>2, AppendProperties DEF Latest, Versions

\* One plan is replaced by another one.
LEMMA Replaced ==
    ASSUME PipelineTypeOK, NEW v \in Versions, NEW p \in Plan, plans' = [plans EXCEPT ![v] = p]
    PROVE  /\ Latest' = Latest /\ Versions' = Versions
           /\ plans' \in Seq(Plan) /\ plans'[v] = p
           /\ \A w \in Versions : w # v => plans'[w] = plans[w]
<1>1. plans \in Seq(Plan) BY DEF PipelineTypeOK
<1> QED BY <1>1, ExceptSeq DEF Latest, Versions

-----------------------------------------------------------------------------
(* What a step of one run leaves alone *)

\* Plans are never redefined, finished ones never change, and the base stays.
Keeps ==
    /\ run'.base = run.base /\ run'.kind = run.kind
    /\ Latest <= Latest'
    /\ \A v \in Versions :
        /\ plans'[v].author = plans[v].author
        /\ plans'[v].role = plans[v].role /\ plans'[v].input = plans[v].input
        /\ plans'[v].report = plans[v].report /\ plans'[v].number = plans[v].number
        /\ plans[v].status = "succeeded" => plans'[v] = plans[v]

\* What is behind a finished plan stays behind it.
LEMMA LinksKept ==
    ASSUME PipelineTypeOK, PlansStand, PipelineTypeOK', Keeps
    PROVE  /\ \A s, role : Done(s, role) => Done(s, role)' /\ plans'[s] = plans[s]
           /\ \A s \in Versions : Done(s, "approval")' <=> Done(s, "approval")
           /\ \A i : EngineeringSource(i) => EngineeringSource(i)' /\ SpecOf(i)' = SpecOf(i)
           /\ \A s \in 0 .. Latest : IntentOf(s)' = IntentOf(s)
           /\ \A v : Done(v, "developer") \/ Done(v, "qa")
                => SpecBehind(v) \in 0 .. v - 1 /\ SpecBehind(v)' = SpecBehind(v)
<1> USE PlanFields
<1>0. Latest' \in Nat /\ Versions \subseteq Versions' BY DEF PipelineTypeOK, Versions, Latest, Keeps
<1>1. \A s, role : Done(s, role) => Done(s, role)' /\ plans'[s] = plans[s]
  BY <1>0 DEF Done, Keeps
<1>2. \A s \in Versions : Done(s, "approval")' <=> Done(s, "approval")
  BY <1>0, <1>1 DEF Done, Keeps, PlansStand, Linked
<1>3. \A s \in 0 .. Latest : IntentOf(s)' = IntentOf(s)
  BY <1>0 DEF IntentOf, Keeps, Versions, Latest
<1>4. ASSUME NEW i, EngineeringSource(i)
      PROVE  /\ EngineeringSource(i)' /\ SpecOf(i)' = SpecOf(i)
             /\ i \in 0 .. Latest /\ SpecOf(i) \in 0 .. i
  <2>1. CASE Done(i, "architect")
    <3>1. Done(i, "architect")' /\ plans'[i] = plans[i] BY <1>1, <2>1
    <3>2. i \in 1 .. Latest /\ plans[i].input < i /\ plans[i].input \in Nat
      BY <2>1 DEF Done, PlansStand, Linked, Versions, Latest
    <3> QED BY <2>1, <3>1, <3>2 DEF SpecOf, EngineeringSource
  <2>2. CASE ~Done(i, "architect") /\ i \in Versions
    <3>0. i # 0 BY <2>2 DEF Versions, Latest
    <3>1. plans[i].status = "succeeded" /\ plans'[i] = plans[i] /\ FormalSpec(i)
      BY <1>4, <2>2, <3>0 DEF EngineeringSource, FormalSpec, ApprovedSpec, Done, Keeps
    <3>2. ~Done(i, "architect")' /\ FormalSpec(i)'
      BY <1>0, <2>2, <3>1 DEF Done, FormalSpec, ApprovedSpec, Keeps
    <3> QED BY <2>2, <3>2 DEF SpecOf, EngineeringSource, Versions, Latest
  <2>3. CASE i \notin Versions
    <3>1. i = 0 /\ run.kind # "initial" BY <1>4, <2>3 DEF EngineeringSource, FormalSpec, ApprovedSpec, Done
    <3>2. ~Done(0, "architect") /\ ~Done(0, "architect")' BY <1>0 DEF Done, Versions
    <3> QED BY <3>1, <3>2 DEF SpecOf, EngineeringSource, FormalSpec, ApprovedSpec, Keeps
  <2> QED BY <2>1, <2>2, <2>3
<1>5. \A i : EngineeringSource(i) => EngineeringSource(i)' /\ SpecOf(i)' = SpecOf(i)
  <2>1. ASSUME NEW i, EngineeringSource(i) PROVE EngineeringSource(i)' /\ SpecOf(i)' = SpecOf(i)
    BY <1>4, <2>1
  <2> QED BY <2>1
<1>6. ASSUME NEW v, Done(v, "developer") \/ Done(v, "qa")
      PROVE  SpecBehind(v) \in 0 .. v - 1 /\ SpecBehind(v)' = SpecBehind(v)
  <2> DEFINE code == IF plans[v].role = "qa" THEN plans[v].input ELSE v
  <2>1. /\ Done(code, "developer") /\ code \in 1 .. v /\ v \in Versions
        /\ plans'[v] = plans[v] /\ plans'[code] = plans[code]
    <3>1. v \in Versions /\ plans'[v] = plans[v] BY <1>1, <1>6 DEF Done
    <3>2. Done(code, "developer") BY <1>6, <3>1 DEF Done, PlansStand, Loaded
    <3>3. code \in 1 .. v BY <3>1, <3>2 DEF Done, PlansStand, Linked, Versions, Latest
    <3> QED BY <1>1, <3>1, <3>2, <3>3
  <2>2. EngineeringSource(plans[code].input) /\ plans[code].input < code
    BY <2>1 DEF Done, PlansStand, Loaded, Linked
  <2>3. SpecBehind(v) = SpecOf(plans[code].input) BY DEF SpecBehind
  <2>4. SpecBehind(v)' = SpecOf(plans[code].input)' BY DEF SpecBehind
  <2>5. PICK s : s = plans[code].input OBVIOUS
  <2>6. SpecOf(s)' = SpecOf(s) /\ SpecOf(s) \in 0 .. s /\ s < code /\ s \in Nat
    BY <1>4, <2>2, <2>5
  <2>7. plans'[code'].input = s
    <3>1. code' = code BY <2>1
    <3> QED BY <2>1, <2>5, <3>1
  <2> HIDE DEF code
  <2>8. SpecOf(plans[code].input)' = SpecOf(s)' BY <2>7 DEF SpecOf, Done
  <2>9. SpecBehind(v)' = SpecBehind(v) BY <2>3, <2>4, <2>5, <2>6, <2>8
  <2>10. SpecOf(s) \in 0 .. v - 1 BY <2>1, <2>6
  <2> QED BY <2>3, <2>5, <2>9, <2>10
<1> QED BY <1>1, <1>2, <1>3, <1>5, <1>6

\* The chain behind a version is the same before and after such a step.
LEMMA ChainKept ==
    ASSUME PipelineTypeOK, Settled, PlansStand, AsMeant, PipelineTypeOK', Keeps
    PROVE  /\ \A s \in 0 .. Latest - 1, role \in Roles : Done(s, role)' <=> Done(s, role)
           /\ \A s \in Versions, role \in Roles : Done(s, role) => Done(s, role)'
           /\ \A s \in 0 .. Latest : IntentOf(s)' = IntentOf(s)
           /\ \A v \in Versions : SpecBehind(v) \in 0 .. v - 1 /\ SpecBehind(v)' = SpecBehind(v)
           /\ \A v \in Versions : Intent(v)' = Intent(v)
<1> USE PlanFields
<1>0. Latest' \in Nat /\ Versions \subseteq Versions' BY DEF PipelineTypeOK, Versions, Latest, Keeps
<1>1. \A s \in 0 .. Latest - 1, role \in Roles : Done(s, role)' <=> Done(s, role)
  BY <1>0 DEF Done, Keeps, Settled, Versions, Latest
<1>2. \A s \in Versions, role \in Roles : Done(s, role) => Done(s, role)'
  BY <1>0 DEF Done, Keeps, Versions, Latest
<1>3. \A s \in 0 .. Latest : IntentOf(s)' = IntentOf(s)
  BY <1>0 DEF IntentOf, Keeps, Versions, Latest
<1>4. \A s \in 0 .. Latest - 1 : SpecOf(s) \in 0 .. s /\ SpecOf(s)' = SpecOf(s)
  <2> SUFFICES ASSUME NEW s \in 0 .. Latest - 1 PROVE SpecOf(s) \in 0 .. s /\ SpecOf(s)' = SpecOf(s)
    OBVIOUS
  <2>1. CASE Done(s, "architect")
    <3>1. s \in Versions /\ Done(s, "architect")' /\ plans'[s].input = plans[s].input
      BY <2>1, <1>1 DEF Done, Roles, Keeps
    <3>2. plans[s].input < s BY <3>1 DEF PlansStand, Linked
    <3> QED BY <2>1, <3>1, <3>2 DEF SpecOf
  <2>2. CASE ~Done(s, "architect")
    BY <2>2, <1>1 DEF SpecOf, Roles
  <2> QED BY <2>1, <2>2
<1>5. \A v \in Versions : SpecBehind(v) \in 0 .. v - 1 /\ SpecBehind(v)' = SpecBehind(v)
  <2> SUFFICES ASSUME NEW v \in Versions
               PROVE  SpecBehind(v) \in 0 .. v - 1 /\ SpecBehind(v)' = SpecBehind(v)
    OBVIOUS
  <2> DEFINE code == IF plans[v].role = "qa" THEN plans[v].input ELSE v
  <2>1. code \in 1 .. v /\ code \in Versions /\ v <= Latest
    BY DEF PlansStand, Linked, AsMeant, Wired, Versions, Latest
  <2>2. code' = code BY DEF Keeps
  <2>3. plans'[code].input = plans[code].input /\ plans[code].input \in 0 .. code - 1
    BY <2>1 DEF PlansStand, Linked, Keeps
  <2>4. SpecBehind(v) = SpecOf(plans[code].input) BY DEF SpecBehind
  <2>5. SpecBehind(v)' = SpecOf(plans[code].input)'
    BY DEF SpecBehind
  <2>6. SpecOf(plans[code].input)' = SpecOf(plans[code].input)
    <3>1. Latest \in Nat /\ v \in Nat BY DEF PipelineTypeOK, Versions, Latest
    <3> HIDE DEF code
    <3>2. PICK s \in 0 .. Latest - 1 : s = plans[code].input
      BY ONLY <3>1, <2>1, <2>3
    <3>3. SpecOf(s)' = SpecOf(s) BY ONLY <1>4, <3>2
    <3>4. plans'[code'].input = s BY ONLY <2>2, <2>3, <3>2
    <3> QED BY ONLY <3>2, <3>3, <3>4 DEF SpecOf, Done
  <2> QED BY <1>4, <2>1, <2>3, <2>4, <2>5, <2>6
<1>6. \A v \in Versions : Intent(v)' = Intent(v)
  <2> SUFFICES ASSUME NEW v \in Versions PROVE Intent(v)' = Intent(v) OBVIOUS
  <2>1. ApprovedBy(v)' = ApprovedBy(v) BY DEF ApprovedBy, Keeps, Versions, Latest
  <2> QED BY <2>1 DEF Intent, Keeps
<1> QED BY <1>1, <1>2, <1>3, <1>5, <1>6

LEMMA OldPlansMeant ==
    ASSUME PipelineTypeOK, Settled, PlansStand, AsMeant, PipelineTypeOK', Keeps
    PROVE  \A v \in Versions : Wired(v)' /\ Meant(v)'
<1> USE PlanFields
<1> SUFFICES ASSUME NEW v \in Versions PROVE Wired(v)' /\ Meant(v)'
  OBVIOUS
<1>0. Linked(v) /\ Wired(v) /\ Meant(v) /\ v <= Latest BY DEF PlansStand, AsMeant, Versions, Latest
<1>1. Wired(v)'
  <2>1. Wired(v) BY <1>0
  <2>2. \A w \in Versions : plans'[w].role = plans[w].role BY DEF Keeps
  <2>3. plans[v].input # 0 => plans[v].input \in Versions /\ plans[v].input + 1 .. v \subseteq Versions
    BY <1>0 DEF Linked, Versions, Latest
  <2> QED BY <2>1, <2>2, <2>3 DEF Wired, Keeps
<1>2. Meant(v)'
  <2>1. Meant(v) /\ plans[v].input \in 0 .. v - 1 BY <1>0 DEF Linked
  <2>2. IntentOf(plans[v].input)' = IntentOf(plans[v].input)
    <3>1. plans'[v].input = plans[v].input BY DEF Keeps
    <3>2. CASE plans[v].input = 0 BY <3>1, <3>2 DEF IntentOf, Keeps
    <3>3. CASE plans[v].input # 0
      <4>1. plans[v].input \in Versions BY <3>3, <2>1, <1>0 DEF Versions, Latest
      <4>2. plans'[plans[v].input].number = plans[plans[v].input].number BY <4>1 DEF Keeps
      <4> QED BY <3>1, <3>3, <4>2 DEF IntentOf
    <3> QED BY <3>2, <3>3
  <2>3. IntentOf(SpecBehind(v))' = IntentOf(SpecBehind(v))
    <3>1. SpecBehind(v) \in 0 .. v - 1 /\ SpecBehind(v)' = SpecBehind(v) BY ChainKept
    <3>2. IntentOf(SpecBehind(v))' = IF SpecBehind(v) = 0 THEN run'.base ELSE plans'[SpecBehind(v)].number
      BY <3>1 DEF IntentOf
    <3> QED BY <3>1, <3>2, <1>0 DEF IntentOf, Keeps, Versions, Latest
  <2>4. Intent(v)' = Intent(v) BY ChainKept
  <2> QED BY <2>1, <2>2, <2>3, <2>4 DEF Meant, Keeps
<1> QED BY <1>1, <1>2

\* A plan that follows the one before it keeps following it.
LEMMA OldPlansFollow ==
    ASSUME PipelineTypeOK, PlansStand, PipelineTypeOK', Keeps,
           NEW v \in Versions, v # 1, Follows(v)
    PROVE  Follows(v)'
<1>1. v - 1 \in Versions BY PlanFields DEF Versions, Latest
<1>2. plans[v - 1].status = "succeeded" /\ plans'[v - 1] = plans[v - 1] BY <1>1 DEF Follows, Keeps
<1>3. plans[v - 1].result = "challenged" => Done(v - 1, "qa")
  BY <1>1, <1>2 DEF PlansStand, Linked, Done
<1>4. plans[v - 1].result = "challenged" => SpecBehind(v - 1)' = SpecBehind(v - 1)
  BY <1>3, LinksKept
<1>5. plans'[v].role = plans[v].role /\ plans'[v].input = plans[v].input /\ plans'[v].report = plans[v].report
  BY DEF Keeps
<1> QED BY <1>2, <1>4, <1>5 DEF Follows

-----------------------------------------------------------------------------
(* Counting plans *)

\* A set of versions that gains the new one or stays the same.
LEMMA OneMore ==
    ASSUME NEW S, NEW T, NEW n, NEW B, IsFiniteSet(S), n \notin S,
           \A w : w \in T <=> w \in S \/ (w = n /\ B)
    PROVE  /\ Cardinality(S) \in Nat
           /\ B => Cardinality(T) = Cardinality(S) + 1
           /\ ~B => Cardinality(T) = Cardinality(S)
<1>1. Cardinality(S) \in Nat BY FS_CardinalityType
<1>2. ASSUME B PROVE Cardinality(T) = Cardinality(S) + 1
  <2>1. T = S \union {n} BY <1>2
  <2> QED BY <2>1, FS_AddElement
<1>3. ASSUME ~B PROVE T = S BY <1>3
<1> QED BY <1>1, <1>2, <1>3

\* Sets of versions are finite.
LEMMA FiniteVersions ==
    ASSUME PipelineTypeOK, NEW S, S \subseteq 1 .. Latest
    PROVE  IsFiniteSet(S) /\ Cardinality(S) \in Nat
<1>0. 1 \in Int /\ Latest \in Int BY PlanFields
<1>1. IsFiniteSet(1 .. Latest) BY <1>0, FS_Interval, Zenon
<1>2. IsFiniteSet(S) BY <1>1, FS_Subset
<1> QED BY <1>2, FS_CardinalityType

\* The intent behind a new version, by the role of its plan.
LEMMA NewIntent ==
    ASSUME PipelineTypeOK, Keeps, NEW p \in Plan, plans' = Append(plans, p),
           NEW n, n = Latest + 1
    PROVE  Intent(n)' = IF p.role = "approval" THEN Intent(Latest) + 1 ELSE Intent(Latest)
<1>0. Latest \in Nat /\ \A w \in 1 .. Latest : plans'[w] = plans[w] /\ w # n
  BY PlanFields, Appended DEF Versions, Latest
<1>1. plans'[n] = p BY Appended
<1>2. ApprovedBy(Latest) \subseteq 1 .. Latest /\ n \notin ApprovedBy(Latest)
  BY <1>0 DEF ApprovedBy
<1>3. IsFiniteSet(ApprovedBy(Latest)) BY <1>2, FiniteVersions
<1>4. \A w : w \in ApprovedBy(n)' <=> w \in ApprovedBy(Latest) \/ (w = n /\ p.role = "approval")
  <2>1. ApprovedBy(n)' = {w \in 1 .. n : plans'[w].role = "approval"} BY DEF ApprovedBy
  <2>2. \A w : w \in 1 .. n <=> w \in 1 .. Latest \/ w = n BY <1>0
  <2> QED BY <1>0, <1>1, <2>1, <2>2 DEF ApprovedBy
<1>5. run.base \in Nat BY DEF PipelineTypeOK, Run
<1>6. Intent(n)' = run.base + Cardinality(ApprovedBy(n)') BY DEF Intent, Keeps
<1>7. /\ Cardinality(ApprovedBy(Latest)) \in Nat
      /\ p.role = "approval" => Cardinality(ApprovedBy(n)') = Cardinality(ApprovedBy(Latest)) + 1
      /\ p.role # "approval" => Cardinality(ApprovedBy(n)') = Cardinality(ApprovedBy(Latest))
  BY <1>2, <1>3, <1>4, OneMore
<1> QED BY <1>5, <1>6, <1>7 DEF Intent

\* Every approval counts from the moment it is written.
LEMMA ApprovalsAreIntents ==
    ASSUME PipelineTypeOK, PlansStand
    PROVE  Approvals = Intent(Latest) /\ Approvals \in Nat
<1>1. {v \in Versions : Done(v, "approval")} = ApprovedBy(Latest)
  BY DEF ApprovedBy, Versions, Latest, Done, PlansStand, Linked
<1>2. Cardinality(ApprovedBy(Latest)) \in Nat BY FiniteVersions DEF ApprovedBy
<1>3. run.base \in Nat BY DEF PipelineTypeOK, Run
<1>4. Approvals = Intent(Latest) BY <1>1, Zenon DEF Approvals, Intent
<1> QED BY <1>2, <1>3, <1>4 DEF Intent

\* Approvals are counted with the plan that makes one.
LEMMA SameApprovals ==
    ASSUME PipelineTypeOK, PlansStand, PipelineTypeOK', Keeps, Latest' = Latest
    PROVE  Approvals' = Approvals
<1>1. Versions' = Versions BY DEF Versions, Latest
<1>2. {v \in Versions : Done(v, "approval")}' = {v \in Versions : Done(v, "approval")}
  BY <1>1, LinksKept
<1> QED BY <1>2, Zenon DEF Approvals, Keeps

LEMMA MoreApprovals ==
    ASSUME PipelineTypeOK, PlansStand, PipelineTypeOK', Keeps, NEW p \in Plan, plans' = Append(plans, p),
           p.role = "approval" => p.status = "succeeded"
    PROVE  Approvals' = IF p.role = "approval" THEN Approvals + 1 ELSE Approvals
<1> DEFINE S == {v \in Versions : Done(v, "approval")}
<1>0. PICK n \in Nat : n = Len(plans) + 1 BY PlanFields DEF Latest
<1>1. /\ Versions' = 1 .. n /\ Versions = 1 .. Len(plans) /\ Len(plans) \in Nat /\ plans'[n] = p
      /\ \A v : v \in 1 .. n <=> v \in 1 .. Len(plans) \/ v = n
      /\ n \notin 1 .. Len(plans)
  BY <1>0, PlanFields, Appended DEF Versions, Latest
<1>2. Done(n, "approval")' <=> p.role = "approval"
  <2>1. n \in Versions' BY <1>1
  <2> QED BY <2>1, <1>1 DEF Done
<1>3. \A v : v \in S' <=> v \in S \/ (v = n /\ p.role = "approval")
  <2>1. \A v \in Versions : Done(v, "approval")' <=> Done(v, "approval") BY LinksKept
  <2>2. S' = {v \in 1 .. n : Done(v, "approval")'} BY <1>1
  <2> QED BY <1>1, <1>2, <2>1, <2>2
<1>4. IsFiniteSet(S) /\ n \notin S
  <2>1. S \subseteq 1 .. Latest BY DEF Versions, Latest
  <2> QED BY <1>1, <2>1, FiniteVersions
<1>5. Approvals = run.base + Cardinality(S) /\ Approvals' = run.base + Cardinality(S') /\ run.base \in Nat
  BY DEF Approvals, Keeps, PipelineTypeOK, Run
<1>6. /\ Cardinality(S) \in Nat
      /\ p.role = "approval" => Cardinality(S') = Cardinality(S) + 1
      /\ p.role # "approval" => Cardinality(S') = Cardinality(S)
  <2> HIDE DEF S
  <2> QED BY <1>3, <1>4, OneMore
<1> HIDE DEF S
<1> QED BY <1>5, <1>6

\* Cycles and revisions are numbers.
LEMMA CountsAreNumbers ==
    ASSUME PipelineTypeOK
    PROVE  /\ Cycles \in Nat /\ Cardinality(Revisions) \in Nat
           /\ MaxCycles \in Nat \ {0}
           /\ Latest = 0 => Cycles = 0
<1>1. Cycles \in Nat /\ Cardinality(Revisions) \in Nat
  BY FiniteVersions DEF Cycles, Revisions, Versions, Latest
<1>2. ASSUME Latest = 0 PROVE Cycles = 0
  <2>1. {v \in Versions : plans[v].role = "qa"} = {} BY <1>2 DEF Versions, Latest
  <2> QED BY <2>1, FS_EmptySet DEF Cycles
<1> QED BY <1>1, <1>2, BoundAssumption

\* Without a new plan nothing is counted.
LEMMA SameCounts ==
    ASSUME PipelineTypeOK, Keeps, Latest' = Latest
    PROVE  Cycles' = Cycles /\ Cardinality(Revisions)' = Cardinality(Revisions)
<1>0. Versions' = Versions /\ \A v \in Versions : plans'[v].role = plans[v].role
  BY DEF Versions, Latest, Keeps
<1>1. {v \in Versions : plans[v].role = "qa"}' = {v \in Versions : plans[v].role = "qa"} BY <1>0
<1>2. Revisions' = Revisions
  <2>1. \A v \in Versions \ {1} : v - 1 \in Versions BY PlanFields DEF Versions, Latest
  <2> QED BY <1>0, <2>1 DEF Revisions
<1> QED BY <1>1, <1>2 DEF Cycles

\* A new plan counts as a validation or as a revision after one.
LEMMA MoreCounts ==
    ASSUME PipelineTypeOK, NEW p \in Plan, plans' = Append(plans, p)
    PROVE  /\ p.role = "qa" => Cycles' = Cycles + 1
           /\ p.role # "qa" => Cycles' = Cycles
           /\ Latest > 0 /\ p.role = "product_manager" /\ plans[Latest].role = "qa"
                => Cardinality(Revisions)' = Cardinality(Revisions) + 1
           /\ ~(Latest > 0 /\ p.role = "product_manager" /\ plans[Latest].role = "qa")
                => Cardinality(Revisions)' = Cardinality(Revisions)
<1> DEFINE n == Len(plans) + 1
<1>0. /\ Len(plans) \in Nat /\ plans'[n] = p /\ Versions' = 1 .. n /\ Versions = 1 .. Len(plans)
      /\ \A w \in 1 .. Len(plans) : plans'[w] = plans[w] /\ w # n
      /\ \A w : w \in 1 .. n <=> w \in 1 .. Len(plans) \/ w = n
  BY PlanFields, Appended DEF Versions, Latest
<1>1. Cycles' = Cardinality({v \in Versions : plans[v].role = "qa"}') BY DEF Cycles
<1>2. \A w : w \in {v \in Versions : plans[v].role = "qa"}'
            <=> w \in {v \in Versions : plans[v].role = "qa"} \/ (w = n /\ p.role = "qa")
  BY <1>0
<1>3. IsFiniteSet({v \in Versions : plans[v].role = "qa"}) /\ n \notin {v \in Versions : plans[v].role = "qa"}
  BY <1>0, FiniteVersions DEF Versions, Latest
<1>4. /\ p.role = "qa" => Cycles' = Cycles + 1
      /\ p.role # "qa" => Cycles' = Cycles
  <2> HIDE DEF n
  <2> QED BY <1>1, <1>2, <1>3, OneMore DEF Cycles
<1>5. \A w : w \in Revisions'
            <=> w \in Revisions \/ (w = n /\ Latest > 0 /\ p.role = "product_manager" /\ plans[Latest].role = "qa")
  <2>1. Revisions' = {v \in 1 .. n \ {1} : plans'[v].role = "product_manager" /\ plans'[v - 1].role = "qa"}
    BY <1>0 DEF Revisions
  <2>2. Revisions = {v \in 1 .. Len(plans) \ {1} : plans[v].role = "product_manager" /\ plans[v - 1].role = "qa"}
    BY <1>0 DEF Revisions
  <2>3. \A w \in 1 .. Len(plans) \ {1} : w - 1 \in 1 .. Len(plans) BY <1>0
  <2>4. Latest > 0 <=> n # 1 BY <1>0 DEF Latest
  <2>5. Latest > 0 => plans'[n - 1] = plans[Latest] BY <1>0 DEF Latest
  <2> QED BY <1>0, <2>1, <2>2, <2>3, <2>4, <2>5
<1>6. IsFiniteSet(Revisions) /\ n \notin Revisions
  BY <1>0, FiniteVersions DEF Revisions, Versions, Latest
<1>7. /\ Latest > 0 /\ p.role = "product_manager" /\ plans[Latest].role = "qa"
          => Cardinality(Revisions)' = Cardinality(Revisions) + 1
      /\ ~(Latest > 0 /\ p.role = "product_manager" /\ plans[Latest].role = "qa")
          => Cardinality(Revisions)' = Cardinality(Revisions)
  <2> HIDE DEF n
  <2> QED BY <1>5, <1>6, OneMore
<1> QED BY <1>4, <1>7

-----------------------------------------------------------------------------
(* A step that writes a plan *)

\* What the workflow passes to stage_plan: a plan that continues the latest one.
Continues(p) ==
    /\ Latest # 0 => plans[Latest].status = "succeeded"
    /\ p.role = "product_manager" =>
        \/ Latest = 0 /\ p.input = 0
        \/ Done(Latest, "product_manager") /\ p.input = Latest
        \/ Done(Latest, "qa") /\ plans[Latest].result = "challenged" /\ p.input = SpecBehind(Latest)
    /\ p.role = "approval" => Done(Latest, "product_manager") /\ p.input = Latest
    /\ p.role = "architect" => Done(Latest, "approval") /\ p.input = Latest
    /\ p.role = "developer" =>
        \/ Latest = 0 /\ p.input = 0 /\ p.report = 0
        \/ (Done(Latest, "approval") \/ Done(Latest, "architect")) /\ p.input = Latest /\ p.report = 0
        \/ /\ Done(Latest, "qa") /\ plans[Latest].result \in {"failed", "challenged"}
           /\ p.input = plans[plans[Latest].input].input /\ p.report = Latest
           /\ Cycles < MaxCycles
    /\ p.role = "qa" =>
        \/ Done(Latest, "developer") /\ p.input = Latest
        \/ /\ Done(Latest, "qa") /\ plans[Latest].result = "blocked"
           /\ p.input = plans[Latest].input
           /\ Cycles < MaxCycles
    /\ p.role # "developer" => p.report = 0
\* What the Leader may: any earlier item, unless a validation comes before.
Improvises(p) ==
    /\ p.role \in {"architect", "developer"} /\ p.input \in 0 .. Latest /\ p.report = 0
    /\ Latest # 0 /\ plans[Latest].role # "qa"

\* The workflow's plan for an approved requirement is the one that was decided.
Agrees(p) ==
    /\ p.author = "workflow"
    /\ ApprovedSpec(p.input) /\ p.input # 0 /\ p.report = 0 /\ p.role \in {"architect", "developer"}
    => decision[p.input] = (IF p.role = "developer" THEN "direct" ELSE "designed")

Writes(p) ==
    /\ p \in Plan /\ plans' = Append(plans, p)
    /\ IF p.author = "leader" THEN Improvises(p) ELSE Continues(p)
    /\ IF p.role = "approval"
       THEN p.status = "succeeded" /\ p.result = "approved" /\ p.number = Approvals + 1
       ELSE p.status = "pending" /\ p.result = "none" /\ p.number = 0
    /\ Active /\ Active' /\ run'.base = run.base /\ run'.kind = run.kind /\ UNCHANGED shipped
    /\ p.role = "qa" => UNCHANGED run /\ (InStage("developer") \/ InStage("qa"))
    /\ Agrees(p)

LEMMA WritingKeeps ==
    ASSUME PipelineTypeOK, NEW p, Writes(p)
    PROVE  Keeps
BY PlanFields, Appended DEF Keeps, Writes, Versions, Latest

\* Behind a validation that has begun there is the code it is about, and what that was made from.
LEMMA BehindValidation ==
    ASSUME PipelineTypeOK, PlansStand, NEW v \in Versions,
           plans[v].role = "qa", plans[v].status \in {"running", "succeeded"}
    PROVE  /\ plans[v].input \in 1 .. v - 1 /\ Done(plans[v].input, "developer")
           /\ plans[plans[v].input].input \in 0 .. v - 1
           /\ SpecBehind(v) \in 0 .. v - 1
<1>1. v \in 1 .. Latest /\ Latest \in Nat BY PlanFields DEF Versions, Latest
<1>2. Done(plans[v].input, "developer") /\ plans[v].input < v BY DEF PlansStand, Loaded, Linked
<1>3. PICK d \in 1 .. v - 1 : d = plans[v].input BY <1>1, <1>2 DEF Done, Versions, Latest
<1>4. EngineeringSource(plans[d].input) /\ plans[d].input < d /\ plans[d].input \in Nat
  BY <1>2, <1>3, PlanFields DEF Done, PlansStand, Loaded, Linked
<1>5. plans[d].input \in 0 .. v - 1 BY <1>1, <1>3, <1>4
<1>6. SpecOf(plans[d].input) \in 0 .. v - 1
  <2>1. CASE Done(plans[d].input, "architect")
    <3>1. PICK a \in Versions : a = plans[d].input BY <2>1 DEF Done
    <3>2. plans[a].input < a /\ plans[a].input \in Nat BY <3>1, PlanFields DEF PlansStand, Linked
    <3> QED BY <1>1, <1>3, <1>4, <2>1, <3>1, <3>2 DEF SpecOf
  <2> QED BY <1>5, <2>1 DEF SpecOf
<1>7. SpecBehind(v) = SpecOf(plans[d].input) BY <1>3 DEF SpecBehind, Done
<1> QED BY <1>2, <1>3, <1>5, <1>6, <1>7

LEMMA Behind ==
    ASSUME PipelineTypeOK, PlansStand, NEW v, Done(v, "qa")
    PROVE  /\ plans[v].input \in 1 .. v - 1 /\ Done(plans[v].input, "developer")
           /\ plans[plans[v].input].input \in 0 .. v - 1
           /\ SpecBehind(v) \in 0 .. v - 1
BY BehindValidation DEF Done

LEMMA NewPlanStands ==
    ASSUME RunInv, PipelineTypeOK', NEW p, Writes(p)
    PROVE  /\ PlansStand' /\ Approvals' \in {Approvals, Approvals + 1}
           /\ LeadersOwn' = IF p.author = "leader" THEN LeadersOwn \union {Latest + 1} ELSE LeadersOwn
<1>0. PipelineTypeOK /\ PlansStand /\ Keeps BY WritingKeeps DEF RunInv
<1>1. PICK m \in Nat : m = Latest BY <1>0, PlanFields
<1>2. /\ Latest' = m + 1 /\ Versions' = 1 .. m + 1 /\ Versions = 1 .. m /\ plans'[m + 1] = p
      /\ \A w \in Versions : plans'[w] = plans[w]
      /\ \A w : w \in 1 .. m + 1 <=> w \in 1 .. m \/ w = m + 1
      /\ m + 1 \notin 1 .. m /\ p \in Plan /\ Active /\ Active'
  BY <1>0, <1>1, Appended DEF Writes, Versions, Latest
<1>3. Approvals \in Nat /\ Approvals' = IF p.role = "approval" THEN Approvals + 1 ELSE Approvals
  <2>1. p.role = "approval" => p.status = "succeeded" BY DEF Writes
  <2>2. plans' = Append(plans, p) BY DEF Writes
  <2> QED BY <1>0, <1>2, <2>1, <2>2, ApprovalsAreIntents, MoreApprovals
<1>4. PICK a \in Nat : a = Approvals BY <1>3
<1>5. ASSUME NEW w \in Versions PROVE Linked(w)' /\ Loaded(w)' /\ (w # 1 /\ plans[w].author # "leader" => Follows(w))'
  <2>0. Linked(w) /\ Loaded(w) /\ (w # 1 /\ plans[w].author # "leader" => Follows(w)) /\ plans'[w] = plans[w]
    BY <1>0, <1>2 DEF PlansStand
  <2>1. Linked(w)'
    <3>1. plans[w].number \in Nat BY <1>0, PlanFields
    <3>2. plans[w].number <= Approvals' BY <1>3, <1>4, <2>0, <3>1 DEF Linked
    <3>3. plans[w].role = "qa" => plans[w].status = "succeeded"
      <4>1. w = m /\ plans[w].role = "qa" => plans[m].status = "succeeded"
        BY <1>1, <1>2 DEF Writes, Improvises, Continues
      <4> QED BY <1>1, <2>0, <4>1 DEF Linked
    <3>4. plans[w].status # "cancelled" /\ plans[w].result # "passed" BY <1>2, <2>0 DEF Linked, Active
    <3> QED BY <2>0, <3>2, <3>3, <3>4 DEF Linked
  <2>2. Loaded(w)'
    <3>1. \A i : EngineeringSource(i) => EngineeringSource(i)' BY <1>0, LinksKept
    <3>2. \A s, role : Done(s, role) => Done(s, role)' BY <1>0, LinksKept
    <3>3. PICK i : i = plans[w].input OBVIOUS
    <3>4. plans'[w].input = i BY <2>0, <3>3
    <3>5. EngineeringSource(plans[w].input)' <=> EngineeringSource(i)'
      BY <3>4 DEF EngineeringSource, FormalSpec, ApprovedSpec, Done
    <3>6. Done(plans[w].input, "developer")' <=> Done(i, "developer")' BY <3>4 DEF Done
    <3> QED BY <2>0, <3>1, <3>2, <3>3, <3>5, <3>6 DEF Loaded
  <2>3. w # 1 /\ plans[w].author # "leader" => Follows(w)' BY <1>0, <2>0, OldPlansFollow
  <2> QED BY <2>0, <2>1, <2>2, <2>3
<1>6. p.input \in 0 .. m /\ p.report \in 0 .. m
  <2>1. m = 0 \/ m \in Versions BY <1>2
  <2>2. Done(m, "qa") => plans[m].input \in 0 .. m /\ plans[plans[m].input].input \in 0 .. m
                         /\ SpecBehind(m) \in 0 .. m
    BY <1>0, Behind
  <2>3. CASE p.author = "leader" BY <1>1, <2>3 DEF Writes, Improvises
  <2>4. CASE p.author # "leader"
    <3>1. Continues(p) /\ p.role \in Roles BY <1>2, <2>4 DEF Writes, Plan
    <3> QED BY <1>1, <2>2, <3>1 DEF Continues, Roles
  <2> QED BY <2>3, <2>4
<1>7. Linked(m + 1)'
  <2>1. p.input < m + 1 /\ p.report < m + 1 BY <1>6
  <2>2. p.number <= Approvals' BY <1>3, <1>4 DEF Writes
  <2>3. IF p.role = "approval" THEN p.status = "succeeded" /\ p.result = "approved"
        ELSE p.status = "pending" /\ p.result = "none"
    BY DEF Writes
  <2> QED BY <1>2, <2>1, <2>2, <2>3 DEF Linked
<1>8. Loaded(m + 1)' BY <1>2 DEF Loaded, Writes
<1>9. (m + 1 # 1 /\ plans[m + 1].author # "leader" => Follows(m + 1))'
  <2> SUFFICES ASSUME m # 0, p.author # "leader" PROVE Follows(m + 1)' BY <1>2
  <2>1. Continues(p) /\ p.role \in Roles BY <1>2 DEF Writes, Plan
  <2>2. m \in Versions /\ plans'[m] = plans[m] /\ plans[m].status = "succeeded" /\ (m + 1) - 1 = m
    BY <1>1, <1>2, <2>1 DEF Continues
  <2>3. Done(m, "qa") => SpecBehind(m)' = SpecBehind(m) BY <1>0, LinksKept
  <2>4. m + 1 # 1 BY <1>1
  <2>5. SpecBehind((m + 1) - 1)' = SpecBehind(m)' BY <2>2 DEF SpecBehind, SpecOf, Done
  <2>6. CASE p.role = "product_manager" BY <1>1, <1>2, <2>1, <2>2, <2>3, <2>5, <2>6 DEF Continues, Follows, Done
  <2>7. CASE p.role = "approval" BY <1>1, <1>2, <2>1, <2>2, <2>7 DEF Continues, Follows, Done
  <2>8. CASE p.role = "architect" BY <1>1, <1>2, <2>1, <2>2, <2>8 DEF Continues, Follows, Done
  <2>9. CASE p.role = "developer" BY <1>1, <1>2, <2>1, <2>2, <2>9 DEF Continues, Follows, Done
  <2>10. CASE p.role = "qa" BY <1>1, <1>2, <2>1, <2>2, <2>10 DEF Continues, Follows, Done
  <2> QED BY <2>1, <2>6, <2>7, <2>8, <2>9, <2>10 DEF Roles
<1>10. PlansStand'
  <2> SUFFICES ASSUME NEW w \in Versions'
               PROVE  Linked(w)' /\ Loaded(w)' /\ (w # 1 /\ plans[w].author # "leader" => Follows(w))'
    BY DEF PlansStand
  <2>1. CASE w \in Versions BY <1>5, <2>1
  <2>2. CASE w = m + 1 BY <1>7, <1>8, <1>9, <2>2
  <2> QED BY <1>2, <2>1, <2>2
<1>11. LeadersOwn' = IF p.author = "leader" THEN LeadersOwn \union {m + 1} ELSE LeadersOwn
  BY <1>2 DEF LeadersOwn
<1> QED BY <1>1, <1>3, <1>10, <1>11

\* The workflow's plan is about the intent that was approved last.
LEMMA NewPlanMeant ==
    ASSUME PipelineTypeOK, Settled, PlansStand, AsMeant, PipelineTypeOK',
           NEW p, Writes(p), p.author # "leader", NEW m, m = Latest, NEW n, n = m + 1
    PROVE  Wired(n)' /\ Meant(n)'
<1>0. Keeps BY WritingKeeps
<1>1. /\ p \in Plan /\ Continues(p) /\ plans'[n] = p /\ plans' = Append(plans, p)
      /\ m \in Nat /\ n - 1 = m /\ n \in Nat /\ n # m /\ n # 0 /\ Versions' = 1 .. n
      /\ run'.base = run.base
      /\ \A w \in Versions : plans'[w] = plans[w]
      /\ Versions = 1 .. m
  BY PlanFields, Appended DEF Writes, Versions, Latest
<1>2. Intent(n)' = IF p.role = "approval" THEN Intent(m) + 1 ELSE Intent(m)
  BY <1>0, <1>1, NewIntent
<1>3. Approvals = Intent(m) BY ApprovalsAreIntents
<1>4. m # 0 => Linked(m) /\ Wired(m) /\ Meant(m) /\ m \in Versions BY <1>1 DEF PlansStand, AsMeant
<1>5. m = 0 => Intent(m) = run.base
  <2> SUFFICES ASSUME m = 0 PROVE Intent(m) = run.base OBVIOUS
  <2>1. ApprovedBy(m) = {} BY DEF ApprovedBy
  <2>2. run.base \in Nat BY DEF PipelineTypeOK, Run
  <2> QED BY <2>1, <2>2, FS_EmptySet DEF Intent
<1>6. ASSUME m # 0 PROVE SpecBehind(m)' = SpecBehind(m) /\ SpecBehind(m) \in 0 .. m - 1
  <2>1. m \in Versions BY <1>4, <1>6
  <2> QED BY <2>1, <1>0, ChainKept
<1>7. \A s \in 0 .. m, role \in Roles : Done(s, role)' <=> Done(s, role)
  BY <1>1 DEF Done, Versions
<1>8. \A s \in 0 .. m : SpecOf(s)' = SpecOf(s)
  <2> SUFFICES ASSUME NEW s \in 0 .. m PROVE SpecOf(s)' = SpecOf(s) OBVIOUS
  <2>1. Done(s, "architect")' <=> Done(s, "architect") BY <1>7 DEF Roles
  <2>2. Done(s, "architect") => plans'[s].input = plans[s].input BY <1>1 DEF Done
  <2> QED BY <2>1, <2>2 DEF SpecOf
<1>9. \A s \in 0 .. m : IntentOf(s)' = IntentOf(s) BY <1>0, ChainKept
<1>10. p.role # "qa" => Wired(n)' BY <1>1 DEF Wired
<1>11. ASSUME p.role # "qa" PROVE SpecBehind(n)' = SpecOf(p.input)'
  BY <1>1, <1>11 DEF SpecBehind
<1>12. CASE p.role = "product_manager" BY <1>1, <1>10, <1>12 DEF Meant
<1>13. CASE p.role = "approval" BY <1>1, <1>2, <1>3, <1>10, <1>13 DEF Meant, Writes
<1>14. CASE p.role = "architect"
  <2>1. p.input = m /\ m # 0 /\ Done(m, "approval")
    BY <1>1, <1>14 DEF Continues, Done
  <2>2. IntentOf(m)' = Intent(m)
    BY <2>1, <1>1, <1>4, <1>9 DEF Meant, Done, IntentOf
  <2>3. IntentOf(p.input)' = IntentOf(m)'  BY <2>1, <1>1 DEF IntentOf
  <2>4. Meant(n)' BY <2>2, <2>3, <1>1, <1>2, <1>14 DEF Meant
  <2> QED BY <2>4, <1>10, <1>14
<1>18. ASSUME m # 0, Done(m, "qa")
       PROVE  \E d \in 1 .. m - 1 :
                /\ d = plans[m].input /\ plans'[d] = plans[d] /\ plans'[d].role = "developer"
                /\ \A w \in d + 1 .. m : plans'[w].role = "qa"
                /\ plans[d].input \in 0 .. d - 1 /\ plans[d].input \in 0 .. m
                /\ SpecBehind(m) = SpecOf(plans[d].input)
  <2>1. Wired(m) /\ plans[m].role = "qa" /\ plans[m].input \in Nat
    BY <1>18, <1>4, PlanFields DEF Done
  <2>2. PICK d \in 1 .. m - 1 : d = plans[m].input
    BY <2>1, <1>1, <1>4, <1>18 DEF Wired, Linked
  <2>3. d \in Versions /\ Linked(d) /\ plans[d].input \in Nat
    BY <2>2, <1>1, PlanFields DEF PlansStand
  <2>4. plans[d].input \in 0 .. d - 1 /\ plans[d].input \in 0 .. m
    <3>1. plans[d].input \in Nat /\ plans[d].input < d BY <2>3 DEF Linked
    <3>2. d \in Nat /\ m \in Nat /\ d <= m BY <1>1
    <3> QED BY <3>1, <3>2
  <2>5. \A w \in d + 1 .. m : w \in Versions /\ plans[w].role = "qa"
    BY <2>1, <2>2, <1>1 DEF Wired
  <2>6. SpecBehind(m) = SpecOf(plans[d].input) BY <2>1, <2>2 DEF SpecBehind
  <2>7. plans[d].role = "developer" BY <2>1, <2>2 DEF Wired
  <2>8. plans'[d] = plans[d] /\ \A w \in d + 1 .. m : plans'[w].role = "qa" BY <2>3, <2>5, <1>1
  <2> QED BY <2>2, <2>4, <2>6, <2>7, <2>8
<1>15. CASE p.role = "developer"
  <2>1. CASE m = 0
    <3>1. p.input = 0 /\ p.report = 0 BY <2>1, <1>1, <1>15 DEF Continues, Done, Versions
    <3>2. SpecBehind(n)' = 0
      BY <3>1, <2>1, <1>8, <1>11, <1>15, <1>1 DEF SpecOf, Done
    <3>3. Meant(n)' BY <3>2, <2>1, <1>1, <1>2, <1>5, <1>15 DEF Meant, IntentOf
    <3> QED BY <3>3, <1>10, <1>15
  <2>2. CASE m # 0 /\ p.report = 0
    <3>1. (Done(m, "approval") \/ Done(m, "architect")) /\ p.input = m
      BY <2>2, <1>1, <1>15 DEF Continues
    <3>2. SpecBehind(n)' = SpecOf(m)
      BY <3>1, <1>1, <1>8, <1>11, <1>15
    <3>3. SpecOf(m) \in 0 .. m /\ IntentOf(SpecOf(m)) = Intent(m)
      <4>1. Linked(m) /\ Meant(m) /\ m \in Versions BY <2>2, <1>4
      <4>2. CASE Done(m, "approval")
        <5>1. SpecOf(m) = m BY <4>2 DEF SpecOf, Done
        <5>2. IntentOf(m) = Intent(m) BY <4>1, <4>2, <2>2 DEF IntentOf, Done, Meant
        <5> QED BY <5>1, <5>2, <1>1
      <4>3. CASE Done(m, "architect")
        <5>1. SpecOf(m) = plans[m].input BY <4>3 DEF SpecOf
        <5>2. plans[m].input \in Nat /\ plans[m].input < m BY <4>1, PlanFields DEF Linked
        <5>3. IntentOf(plans[m].input) = Intent(m) BY <4>1, <4>3 DEF Done, Meant
        <5> QED BY <5>1, <5>2, <5>3, <1>1
      <4> QED BY <3>1, <4>2, <4>3
    <3>4. IntentOf(SpecBehind(n))' = IntentOf(SpecOf(m))
      <4>1. PICK s \in 0 .. m : s = SpecOf(m) BY <3>3
      <4>2. IntentOf(SpecBehind(n))' = IntentOf(s)' BY <4>1, <3>2 DEF IntentOf
      <4> QED BY <4>1, <4>2, <1>9
    <3>5. Meant(n)' BY <3>3, <3>4, <1>1, <1>2, <1>15 DEF Meant
    <3> QED BY <3>5, <1>10, <1>15
  <2>3. CASE m # 0 /\ p.report # 0
    <3>1. /\ Done(m, "qa") /\ plans[m].result \in {"failed", "challenged"}
          /\ p.input = plans[plans[m].input].input /\ p.report = m
      BY <2>3, <1>1, <1>15 DEF Continues
    <3>2. PICK d \in 1 .. m - 1 :
                /\ d = plans[m].input /\ plans[d].input \in 0 .. d - 1 /\ plans[d].input \in 0 .. m
                /\ SpecBehind(m) = SpecOf(plans[d].input)
      BY <3>1, <2>3, <1>18
    <3>3. PICK s \in 0 .. m : s = plans[d].input /\ s = p.input /\ s < m BY <3>1, <3>2, <1>1
    <3>5. SpecBehind(n)' = SpecBehind(m)
      BY <3>2, <3>3, <1>1, <1>8, <1>11, <1>15 DEF SpecOf
    <3>6. SpecBehind(m) \in 0 .. m BY <1>6, <2>3, <1>1
    <3>7. IntentOf(SpecBehind(n))' = IntentOf(SpecBehind(m))
      <4>1. PICK behind \in 0 .. m : behind = SpecBehind(m) BY <3>6
      <4>2. IntentOf(SpecBehind(n))' = IntentOf(behind)' BY <4>1, <3>5 DEF IntentOf
      <4> QED BY <4>1, <4>2, <1>9
    <3>8. IntentOf(SpecBehind(m)) = Intent(m) BY <3>1, <2>3, <1>4 DEF Meant, Done
    <3>9. Meant(n)' BY <3>7, <3>8, <1>1, <1>2, <1>15 DEF Meant
    <3> QED BY <3>9, <1>10, <1>15
  <2> QED BY <2>1, <2>2, <2>3
<1>16. CASE p.role = "qa"
  <2>1. m # 0 /\ p.report = 0 BY <1>1, <1>16 DEF Continues, Done
  <2>2. plans'[n - 1] = plans[m] BY <2>1, <1>1, <1>4
  <2>3. CASE Done(m, "developer") /\ p.input = m
    <3>1. Wired(n)'
      <4>0. \A w \in m + 1 .. n : w = n BY <1>1
      <4>1. \A w \in m + 1 .. n : plans'[w].role = "qa" BY <4>0, <1>1, <1>16
      <4>2. plans'[m].role = "developer" BY <2>2, <2>3, <1>1 DEF Done
      <4>3. plans'[n].input = m /\ plans'[n].report = 0 /\ m < n /\ 0 < n
        BY <2>1, <2>3, <1>1
      <4> QED BY <4>1, <4>2, <4>3, <2>1 DEF Wired
    <3>2. PICK s \in 0 .. m : s = plans[m].input /\ plans'[m] = plans[m]
      <4>1. plans[m].input \in Nat /\ plans[m].input < m /\ plans'[m] = plans[m]
        BY <2>1, <1>1, <1>4, PlanFields DEF Linked
      <4>2. plans[m].input \in 0 .. m BY <4>1, <1>1
      <4> QED BY <4>1, <4>2
    <3>3. SpecBehind(n)' = SpecOf(s)'
      BY <3>2, <2>3, <1>1, <1>16 DEF SpecBehind, SpecOf, Done
    <3>4. SpecBehind(n)' = SpecBehind(m)
      BY <3>2, <3>3, <2>3, <1>8 DEF SpecBehind, Done
    <3>5. SpecBehind(m) \in 0 .. m BY <1>6, <2>1, <1>1
    <3>6. IntentOf(SpecBehind(n))' = IntentOf(SpecBehind(m))
      <4>1. PICK behind \in 0 .. m : behind = SpecBehind(m) BY <3>5
      <4>2. IntentOf(SpecBehind(n))' = IntentOf(behind)' BY <4>1, <3>4 DEF IntentOf
      <4> QED BY <4>1, <4>2, <1>9
    <3>7. IntentOf(SpecBehind(m)) = Intent(m) BY <2>1, <2>3, <1>4 DEF Meant, Done
    <3>8. Meant(n)' BY <3>6, <3>7, <1>1, <1>2, <1>16 DEF Meant
    <3> QED BY <3>1, <3>8
  <2>4. CASE Done(m, "qa") /\ plans[m].result = "blocked" /\ p.input = plans[m].input
    <3>1. PICK d \in 1 .. m - 1 :
                /\ d = plans[m].input /\ plans'[d] = plans[d] /\ plans'[d].role = "developer"
                /\ \A w \in d + 1 .. m : plans'[w].role = "qa"
                /\ plans[d].input \in 0 .. m
                /\ SpecBehind(m) = SpecOf(plans[d].input)
      BY <2>1, <2>4, <1>18
    <3>2. Wired(n)'
      <4>1. \A w \in d + 1 .. n : w \in d + 1 .. m \/ w = n BY <3>1, <1>1
      <4>2. \A w \in d + 1 .. n : plans'[w].role = "qa" BY <4>1, <3>1, <1>1, <1>16
      <4>3. plans'[n].input = d /\ plans'[n].report = 0 /\ d < n /\ 0 < n /\ d # 0
        BY <3>1, <2>1, <2>4, <1>1
      <4> QED BY <4>2, <4>3, <3>1 DEF Wired
    <3>3. PICK s \in 0 .. m : s = plans[d].input BY <3>1
    <3>4. SpecBehind(n)' = SpecOf(s)'
      BY <2>4, <3>1, <3>3, <1>1, <1>16 DEF SpecBehind, SpecOf
    <3>5. SpecBehind(n)' = SpecBehind(m)
      BY <3>1, <3>3, <3>4, <1>8
    <3>6. SpecBehind(m) \in 0 .. m BY <1>6, <2>1, <1>1
    <3>7. IntentOf(SpecBehind(n))' = IntentOf(SpecBehind(m))
      <4>1. PICK behind \in 0 .. m : behind = SpecBehind(m) BY <3>6
      <4>2. IntentOf(SpecBehind(n))' = IntentOf(behind)' BY <4>1, <3>5 DEF IntentOf
      <4> QED BY <4>1, <4>2, <1>9
    <3>8. IntentOf(SpecBehind(m)) = Intent(m) BY <2>1, <2>4, <1>4 DEF Meant, Done
    <3>9. Meant(n)' BY <3>7, <3>8, <1>1, <1>2, <1>16 DEF Meant
    <3> QED BY <3>2, <3>9
  <2> QED BY <2>3, <2>4, <1>1, <1>16 DEF Continues
<1> QED BY <1>1, <1>12, <1>13, <1>14, <1>15, <1>16 DEF Plan, Roles

\* Without a plan of the Leader's own the workflow stays as it should be.
LEMMA WritingPreserves ==
    ASSUME RunInv, WorkflowInv, PipelineTypeOK', NEW p, Writes(p), p.author # "leader"
    PROVE  WorkflowInv'
<1>0. PipelineTypeOK /\ PlansStand /\ Settled /\ AsMeant /\ RunFits /\ Keeps
  BY WritingKeeps DEF RunInv, WorkflowInv, RunFits
<1>1. PICK m \in Nat : m = Latest BY <1>0, PlanFields
<1>2. /\ Latest' = m + 1 /\ Versions' = 1 .. m + 1 /\ Versions = 1 .. m
      /\ \A w \in Versions : plans'[w] = plans[w]
      /\ \A w : w \in 1 .. m + 1 <=> w \in 1 .. m \/ w = m + 1
      /\ Active' /\ Continues(p)
  BY <1>0, <1>1, Appended DEF Writes, Versions, Latest
<1>3. \A w \in Versions : plans[w].status = "succeeded" BY <1>0, <1>1, <1>2 DEF Settled, Continues
<1>4. RunFits' BY <1>2, <1>3 DEF RunFits, Settled
<1>5. AsMeant'
  <2> SUFFICES ASSUME NEW w \in Versions' PROVE Wired(w)' /\ Meant(w)' BY DEF AsMeant
  <2>1. CASE w \in Versions BY <2>1, <1>0, OldPlansMeant
  <2>2. CASE w = m + 1 BY <2>2, <1>0, <1>1, NewPlanMeant
  <2> QED BY <2>1, <2>2, <1>2
<1>6. ReleaseStands' BY <1>2 DEF ReleaseStands, Active
<1> QED BY <1>4, <1>5, <1>6 DEF WorkflowInv

\* There is room for the plan.
LEMMA WritingLeavesRoom ==
    ASSUME RunInv, PipelineTypeOK', NEW p, Writes(p)
    PROVE  Room'
<1>0. PipelineTypeOK /\ Room BY DEF RunInv
<1>1. PICK m \in Nat : m = Latest BY <1>0, PlanFields
<1> DEFINE C == Cycles
           R == Cardinality(Revisions)
           again == m > 0 /\ p.role = "product_manager" /\ plans[m].role = "qa"
<1>2. /\ Latest' = m + 1 /\ plans'[m + 1] = p /\ p.role \in Roles /\ p \in Plan /\ plans' = Append(plans, p)
  BY <1>0, <1>1, Appended DEF Writes, Latest, Plan
<1>3. C \in Nat /\ R \in Nat /\ MaxCycles \in Nat \ {0} /\ (m = 0 => C = 0)
  BY <1>0, <1>1, CountsAreNumbers
<1>4. /\ p.role = "qa" => Cycles' = C + 1
      /\ p.role # "qa" => Cycles' = C
      /\ again => Cardinality(Revisions)' = R + 1
      /\ ~again => Cardinality(Revisions)' = R
  BY <1>0, <1>1, <1>2, MoreCounts
<1>5. /\ C <= MaxCycles + R
      /\ m > 0 /\ plans[m].role # "qa" => C < MaxCycles + R
  BY <1>0, <1>1 DEF Room
<1>6. /\ m > 0 /\ plans[m].role = "qa" /\ p.role # "product_manager" => C < MaxCycles
      /\ p.role = "qa" => m > 0
  <2>1. CASE p.author = "leader" BY <1>1, <2>1 DEF Writes, Improvises
  <2>2. CASE p.author # "leader"
    <3>1. Continues(p) BY <2>2 DEF Writes
    <3>2. p.role = "qa" => m # 0 BY <1>0, <1>1, <3>1, PlanFields DEF Continues, Done, Versions
    <3> QED BY <1>1, <1>2, <3>1, <3>2 DEF Continues, Done, Roles
  <2> QED BY <2>1, <2>2
<1>7. Cycles' <= MaxCycles + Cardinality(Revisions)'
      /\ (p.role # "qa" => Cycles' < MaxCycles + Cardinality(Revisions)')
  <2> HIDE DEF C, R
  <2>1. CASE p.role = "qa" BY <2>1, <1>3, <1>4, <1>5, <1>6
  <2>2. CASE p.role # "qa" BY <2>2, <1>3, <1>4, <1>5, <1>6
  <2> QED BY <2>1, <2>2
<1> QED BY <1>2, <1>7 DEF Room

-----------------------------------------------------------------------------
(* What callers hold *)

LEMMA OldDecided ==
    ASSUME PipelineTypeOK, PlansStand, DecisionsStand, PipelineTypeOK', Keeps,
           \A i \in Items : decision[i] # "none" => decision'[i] = decision[i]
    PROVE  \A v \in Versions : Decided(v)'
<1> SUFFICES ASSUME NEW v \in Versions PROVE Decided(v)' OBVIOUS
<1>1. /\ plans'[v].input = plans[v].input /\ plans'[v].report = plans[v].report
      /\ plans'[v].role = plans[v].role /\ plans'[v].author = plans[v].author
  BY DEF Keeps
<1>2. PICK i \in Items : i = plans[v].input /\ i < v BY PlanFields DEF PlansStand, Linked
<1>3. i # 0 => i \in Versions BY <1>2, PlanFields DEF Versions, Latest, Items
<1>4. i # 0 => (ApprovedSpec(i)' <=> ApprovedSpec(i)) BY <1>3, LinksKept DEF ApprovedSpec
<1>5. Decided(v) BY DEF DecisionsStand
<1>6. ApprovedSpec(plans[v].input)' <=> ApprovedSpec(i)' BY <1>1, <1>2 DEF ApprovedSpec, Done
<1> QED BY <1>1, <1>2, <1>4, <1>5, <1>6 DEF Decided

\* A step that records nothing, saves no answer, takes no lease and plans nothing.
Silent ==
    /\ decision' = decision
    /\ \A i \in Items : dispatch'[i].output = dispatch[i].output
    /\ \A i \in Items, c \in Callers : dispatch'[i].owner = c => dispatch[i].owner = c
    /\ \A c \in Callers : caller'[c] = caller[c] \/ caller'[c].pc = "idle"

LEMMA SilentKeepsDecisions ==
    ASSUME PipelineTypeOK, PlansStand, DecisionsStand, PipelineTypeOK', Keeps, Silent
    PROVE  /\ \A v \in Versions : Decided(v)'
           /\ \A i \in Items : Saved(i)'
           /\ \A c \in Callers : Holds(c)'
<1>1. \A v \in Versions : Decided(v)' BY OldDecided DEF Silent
<1>2. \A i \in Items : Saved(i)' BY DEF Saved, Silent, DecisionsStand
<1>3. ASSUME NEW c \in Callers PROVE Holds(c)'
  <2>1. caller[c].item \in Items BY DEF PipelineTypeOK, Caller
  <2>2. Holds(c) BY DEF DecisionsStand
  <2>3. CASE caller'[c] = caller[c] BY <2>1, <2>2, <2>3 DEF Holds, Silent
  <2>4. CASE caller'[c].pc = "idle" BY <2>4 DEF Holds
  <2> QED BY <2>3, <2>4 DEF Silent
<1> QED BY <1>1, <1>2, <1>3

\* What a caller holds stays true while it does nothing: results stay what they are, and
\* cycles are only counted with a new plan.
Held(c) == Dispatching(c) /\ Repairing(c) /\ Improvising(c)
LEMMA HeldStays ==
    ASSUME PipelineTypeOK, PlansStand, PipelineTypeOK', Keeps, NEW c \in Callers, Held(c),
           caller'[c] = caller[c] \/ caller'[c].pc = "idle"
    PROVE  Held(c)'
<1>0. CASE caller'[c].pc = "idle" BY <1>0 DEF Held, Dispatching, Repairing, Improvising
<1>1. CASE caller'[c] = caller[c]
  <2>0. Latest' \in Nat /\ Latest \in Nat /\ Latest <= Latest' /\ Versions \subseteq Versions'
    BY PlanFields, LenProperties DEF PipelineTypeOK, Keeps, Latest, Versions
  <2>k. PICK r : r = caller[c].item OBVIOUS
  <2>1. \A role : Done(r, role) => Done(r, role)' /\ plans'[r] = plans[r] BY LinksKept
  <2>2. Dispatching(c)' BY <1>1, <2>k, <2>1 DEF Held, Dispatching, Done
  <2>3. Repairing(c)'
    <3>1. Latest' = Latest => Cycles' = Cycles BY SameCounts
    <3>2. Done(r, "qa") => r \in 1 .. Latest BY DEF Done, Versions, Latest
    <3>3. Done(r, "qa") /\ r = Latest' => Latest' = Latest BY <2>0, <3>2
    <3>4. Repairing(c) BY DEF Held
    <3>5. caller[c].pc = "repair" /\ r = Latest' => Cycles' < MaxCycles
      BY <2>k, <3>1, <3>3, <3>4 DEF Repairing
    <3> QED BY <1>1, <2>k, <2>1, <3>4, <3>5 DEF Repairing, Done
  <2>4. Improvising(c)' BY <1>1, <2>0 DEF Held, Improvising, Keeps
  <2> QED BY <2>2, <2>3, <2>4 DEF Held
<1> QED BY <1>0, <1>1

LEMMA CallersKept ==
    ASSUME PipelineTypeOK, PlansStand, CallersStand, PipelineTypeOK', Keeps,
           \A c \in Callers : caller'[c] = caller[c] \/ caller'[c].pc = "idle"
    PROVE  CallersStand'
<1>1. \A c \in Callers : Held(c) BY DEF CallersStand, Held
<1>2. \A c \in Callers : Held(c)' BY <1>1, HeldStays
<1> QED BY <1>2 DEF CallersStand, Held

-----------------------------------------------------------------------------
(* The three kinds of steps of a run *)

\* A step keeps the invariant, approves at most one requirement, and a plan of the Leader's
\* stays for as long as the run is active.
Kept == /\ PipelineInv' /\ Approvals' \in {Approvals, Approvals + 1}
        /\ LeadersOwn' = {} => LeadersOwn = {} \/ ~Active

\* A step that writes a plan.
LEMMA WriteStep ==
    ASSUME PipelineInv, PipelineTypeOK', NEW p, Writes(p), Silent
    PROVE  Kept
<1>0. RunInv /\ PipelineTypeOK /\ PlansStand /\ DecisionsStand /\ CallersStand /\ LatestFits
      /\ (LeadersOwn = {} => WorkflowInv)
  BY DEF PipelineInv, RunInv
<1>1. PICK m \in Nat : m = Latest BY <1>0, PlanFields
<1>2. /\ Latest' = m + 1 /\ Versions' = 1 .. m + 1 /\ Versions = 1 .. m /\ plans'[m + 1] = p
      /\ \A w \in Versions : plans'[w] = plans[w]
      /\ \A w : w \in 1 .. m + 1 <=> w \in 1 .. m \/ w = m + 1
      /\ p \in Plan /\ Active /\ Active'
      /\ p.status = IF p.role = "approval" THEN "succeeded" ELSE "pending"
  BY <1>0, <1>1, Appended DEF Writes, Versions, Latest
<1>3. Keeps BY <1>0, WritingKeeps
<1>4. /\ PlansStand' /\ Approvals' \in {Approvals, Approvals + 1}
      /\ LeadersOwn' = IF p.author = "leader" THEN LeadersOwn \union {m + 1} ELSE LeadersOwn
  BY <1>0, <1>1, NewPlanStands
<1>5. Room' BY <1>0, WritingLeavesRoom
<1>6. CallersStand' BY <1>0, <1>3, CallersKept DEF Silent
<1>7. LatestFits'
  <2>1. Latest' # 0 /\ plans'[Latest'] = p BY <1>1, <1>2
  <2>2. ~Done(Latest, "developer")' BY <1>2, <2>1 DEF Done
  <2>3. p.role = "qa" => (InStage("developer") \/ InStage("qa"))' BY DEF Writes, InStage
  <2> QED BY <1>2, <2>1, <2>2, <2>3 DEF LatestFits
<1>8. DecisionsStand'
  <2>1. /\ \A v \in Versions : Decided(v)'
        /\ \A i \in Items : Saved(i)'
        /\ \A c \in Callers : Holds(c)'
    BY <1>0, <1>3, SilentKeepsDecisions
  <2>2. Decided(m + 1)'
    <3> SUFFICES ASSUME p.author = "workflow", ApprovedSpec(p.input)', p.input # 0, p.report = 0,
                        p.role \in {"architect", "developer"}
                 PROVE  decision'[p.input] = (IF p.role = "developer" THEN "direct" ELSE "designed")
      BY <1>2 DEF Decided, ApprovedSpec, Done
    <3>1. PICK i : i = p.input OBVIOUS
    <3>2. Done(i, "approval")' /\ i # m + 1 BY <1>2, <3>1 DEF ApprovedSpec, Done
    <3>3. Done(i, "approval") BY <1>2, <3>2 DEF Done
    <3> QED BY <3>1, <3>3 DEF ApprovedSpec, Writes, Agrees, Silent
  <2>3. \A v \in Versions' : Decided(v)' BY <1>2, <2>1, <2>2
  <2> QED BY <2>1, <2>3 DEF DecisionsStand
<1>9. shipped' <= Approvals'
  <2>1. Approvals \in Nat /\ shipped \in Nat /\ shipped <= Approvals BY <1>0, ApprovalsAreIntents DEF RunInv, PipelineTypeOK
  <2> QED BY <1>4, <2>1 DEF Writes
<1>10. RunInv' BY <1>4, <1>5, <1>6, <1>7, <1>8, <1>9 DEF RunInv
<1>11. LeadersOwn' = {} => WorkflowInv' BY <1>0, <1>4, WritingPreserves
<1> QED BY <1>4, <1>10, <1>11 DEF Kept, PipelineInv

\* A step that writes no plan.
LEMMA TouchStep ==
    ASSUME PipelineInv, PipelineTypeOK', Keeps, Latest' = Latest, Silent,
           PlansStand', LatestFits', shipped' <= Approvals,
           LeadersOwn = {} => RunFits' /\ ReleaseStands'
    PROVE  Kept
<1>0. PipelineTypeOK /\ PlansStand /\ DecisionsStand /\ CallersStand /\ Room
      /\ (LeadersOwn = {} => WorkflowInv)
  BY DEF PipelineInv, RunInv
<1>1. Versions' = Versions BY DEF Versions, Latest
<1>2. Approvals' = Approvals BY <1>0, SameApprovals
<1>3. CallersStand' BY <1>0, CallersKept DEF Silent
<1>4. DecisionsStand' BY <1>0, <1>1, SilentKeepsDecisions DEF DecisionsStand
<1>5. Room'
  <2>1. Cycles' = Cycles /\ Cardinality(Revisions)' = Cardinality(Revisions) BY <1>0, SameCounts
  <2>2. Latest > 0 => plans'[Latest].role = plans[Latest].role
    BY <1>0, PlanFields DEF Keeps, Versions, Latest
  <2> QED BY <1>0, <2>1, <2>2 DEF Room
<1>6. LeadersOwn' = LeadersOwn BY <1>1 DEF LeadersOwn, Keeps
<1>7. ASSUME LeadersOwn = {} PROVE WorkflowInv'
  <2>1. AsMeant'
    <3>1. \A v \in Versions : Wired(v)' /\ Meant(v)' BY <1>0, <1>7, OldPlansMeant DEF WorkflowInv, RunFits
    <3> QED BY <1>1, <3>1 DEF AsMeant
  <2> QED BY <1>7, <2>1 DEF WorkflowInv
<1>8. RunInv' BY <1>2, <1>3, <1>4, <1>5 DEF RunInv
<1> QED BY <1>2, <1>6, <1>7, <1>8 DEF Kept, PipelineInv

\* The state of the run and its plans stays true while they stay, but for the hand-off lost.
SameRun ==
    /\ UNCHANGED <<plans, shipped>>
    /\ run'.status = run.status /\ run'.stage = run.stage /\ run'.kind = run.kind /\ run'.base = run.base
LEMMA SameRunKeeps ==
    ASSUME PipelineInv, PipelineTypeOK', SameRun
    PROVE  /\ Keeps /\ Latest' = Latest /\ Versions' = Versions /\ PlansStand' /\ LatestFits' /\ Room'
           /\ Approvals' = Approvals /\ shipped' <= Approvals
           /\ LeadersOwn' = LeadersOwn
           /\ LeadersOwn = {} => WorkflowInv'
<1>0. PipelineTypeOK /\ PlansStand /\ LatestFits /\ Room /\ shipped <= Approvals
      /\ (LeadersOwn = {} => WorkflowInv)
  BY DEF PipelineInv, RunInv
<1>1. Keeps /\ Latest' = Latest /\ Versions' = Versions
  BY <1>0, PlanFields DEF SameRun, Keeps, Versions, Latest
<1>2. \A v, role : Done(v, role)' <=> Done(v, role) BY <1>1 DEF Done, SameRun
<1>3. Approvals' = Approvals BY <1>0, <1>1, SameApprovals
<1>4. Active' <=> Active BY DEF Active, SameRun
<1>5. \A v \in Versions : EngineeringSource(plans[v].input)' <=> EngineeringSource(plans[v].input)
  BY <1>2 DEF EngineeringSource, FormalSpec, ApprovedSpec, Done, SameRun, Versions
<1>6. PlansStand'
  <2> SUFFICES ASSUME NEW v \in Versions
               PROVE  Linked(v)' /\ Loaded(v)' /\ (v # 1 /\ plans[v].author # "leader" => Follows(v))'
    BY <1>1 DEF PlansStand
  <2>1. Linked(v) /\ Loaded(v) /\ (v # 1 /\ plans[v].author # "leader" => Follows(v)) BY <1>0 DEF PlansStand
  <2>2. Linked(v)' BY <1>1, <1>3, <1>4, <2>1 DEF Linked, SameRun
  <2>3. Loaded(v)'
    <3>1. Done(plans[v].input, "developer")' <=> Done(plans[v].input, "developer")
      BY <1>1 DEF SameRun, Done
    <3> QED BY <1>5, <2>1, <3>1 DEF Loaded, SameRun
  <2>4. v # 1 /\ plans[v].author # "leader" => Follows(v)' BY <1>0, <1>1, <2>1, OldPlansFollow
  <2>5. plans'[v].author = plans[v].author BY DEF SameRun
  <2> QED BY <2>2, <2>3, <2>4, <2>5
<1>7. LatestFits' BY <1>0, <1>1, <1>2, <1>4 DEF LatestFits, InStage, SameRun, Done
<1>8. Room'
  <2>1. Cycles' = Cycles /\ Cardinality(Revisions)' = Cardinality(Revisions) BY <1>0, <1>1, SameCounts
  <2> QED BY <1>0, <1>1, <2>1 DEF Room, SameRun
<1>9. LeadersOwn' = LeadersOwn BY <1>1 DEF LeadersOwn, Keeps
<1>10. ASSUME LeadersOwn = {} PROVE WorkflowInv'
  <2>1. WorkflowInv BY <1>0, <1>10
  <2>2. AsMeant'
    <3>1. \A v \in Versions : Wired(v)' /\ Meant(v)' BY <1>0, <1>1, <2>1, OldPlansMeant DEF WorkflowInv, RunFits
    <3> QED BY <1>1, <3>1 DEF AsMeant
  <2>3. RunFits' BY <1>1, <1>4, <2>1 DEF WorkflowInv, RunFits, Settled, SameRun
  <2>4. ReleaseStands' BY <1>3, <2>1 DEF WorkflowInv, ReleaseStands, SameRun
  <2> QED BY <2>2, <2>3, <2>4 DEF WorkflowInv
<1> QED BY <1>0, <1>1, <1>3, <1>6, <1>7, <1>8, <1>9, <1>10 DEF SameRun

\* A step of callers and leases.
LEMMA CallerStepKeeps ==
    ASSUME PipelineInv, PipelineTypeOK', SameRun, DecisionsStand', CallersStand'
    PROVE  Kept
<1>1. /\ PlansStand' /\ LatestFits' /\ Room' /\ Approvals' = Approvals /\ shipped' <= Approvals
      /\ LeadersOwn' = LeadersOwn /\ (LeadersOwn = {} => WorkflowInv')
  BY SameRunKeeps
<1> QED BY <1>1 DEF Kept, PipelineInv, RunInv

\* The same, with nothing recorded, saved, leased or decided.
LEMMA HoldStep ==
    ASSUME PipelineInv, PipelineTypeOK', SameRun, Silent
    PROVE  Kept
<1>1. Keeps /\ Versions' = Versions BY SameRunKeeps
<1>2. DecisionsStand' BY <1>1, SilentKeepsDecisions DEF PipelineInv, RunInv, DecisionsStand
<1>3. CallersStand' BY <1>1, CallersKept DEF PipelineInv, RunInv, Silent
<1> QED BY <1>2, <1>3, CallerStepKeeps

LEMMA Bookkept ==
    ASSUME UNCHANGED Bookkeeping
    PROVE  Silent
BY DEF Bookkeeping, Silent

LEMMA StutterKeeps ==
    ASSUME PipelineInv, UNCHANGED vars
    PROVE  Kept
<1>1. PipelineTypeOK' BY DEF PipelineInv, RunInv, PipelineTypeOK, vars
<1>2. UNCHANGED Bookkeeping /\ SameRun BY DEF vars, Bookkeeping, SameRun
<1> QED BY <1>1, <1>2, HoldStep, Bookkept
-----------------------------------------------------------------------------
(* Actions that write a plan *)

\* Item 0 is the approved requirement of the run before.
LEMMA ItemsFromZero == 0 \in Items /\ Items \subseteq Nat
BY BoundAssumption DEF Items

LEMMA NewPlanIsPlan ==
    ASSUME NEW role \in Roles, NEW input \in Items, NEW report \in Items
    PROVE  /\ NewPlan(role, input, report) \in Plan
           /\ NewPlan(role, input, report).author = "workflow"
           /\ NewPlan(role, input, report).role = role
           /\ NewPlan(role, input, report).input = input
           /\ NewPlan(role, input, report).report = report
           /\ NewPlan(role, input, report).number = 0
           /\ NewPlan(role, input, report).status = "pending"
           /\ NewPlan(role, input, report).result = "none"
BY DEF NewPlan, Plan, Results

LEMMA Staged ==
    ASSUME PipelineTypeOK, NEW p \in Plan, NEW v, StagePlan(v, p), run' \in Run,
           caller' \in [Callers -> Caller], dispatch' \in [Items -> Dispatch],
           UNCHANGED <<decision, shipped, refused>>
    PROVE  PipelineTypeOK' /\ plans' = Append(plans, p) /\ v = Latest + 1 /\ Active
<1>1. plans' = Append(plans, p) /\ v = Latest + 1 /\ v <= PlanBound /\ Active
  BY DEF StagePlan
<1>2. plans' \in Seq(Plan) /\ Len(plans') = v BY <1>1, Appended DEF Latest
<1> QED BY <1>1, <1>2 DEF PipelineTypeOK

\* A plan of the workflow or of a message that is written by the way, or an approval.
LEMMA StageQuietly ==
    ASSUME PipelineInv, NEW p \in Plan, NEW v, StagePlan(v, p), Continues(p), Agrees(p),
           p.author # "leader",
           IF p.role = "approval"
           THEN p.status = "succeeded" /\ p.result = "approved" /\ p.number = Approvals + 1
           ELSE p.status = "pending" /\ p.result = "none" /\ p.number = 0,
           run' \in Run, run'.base = run.base, run'.kind = run.kind, Active',
           p.role = "qa" => UNCHANGED run /\ (InStage("developer") \/ InStage("qa")),
           UNCHANGED Bookkeeping
    PROVE  Kept
<1>1. PipelineTypeOK' /\ plans' = Append(plans, p) /\ Active
  BY Staged DEF PipelineInv, RunInv, PipelineTypeOK, Bookkeeping
<1>2. Writes(p) BY <1>1 DEF Writes, Bookkeeping
<1> QED BY <1>1, <1>2, WriteStep, Bookkept

LEMMA RunStays ==
    ASSUME PipelineInv, Active, UNCHANGED run
    PROVE  run' \in Run /\ run'.base = run.base /\ run'.kind = run.kind /\ Active'
BY DEF PipelineInv, RunInv, PipelineTypeOK, Active

LEMMA Typed == PipelineInv => PipelineTypeOK
BY DEF PipelineInv, RunInv

LEMMA RequirementsPlanKeeps ==
    ASSUME PipelineInv, CreateInitialPlan \/ CreateProductRevisionPlan PROVE Kept
<1> DEFINE p == NewPlan("product_manager", 0, 0)
<1>1. StagePlan(1, p) /\ UNCHANGED run /\ UNCHANGED Bookkeeping
  BY DEF CreateInitialPlan, CreateProductRevisionPlan, FirstPlan
<1>2. p \in Plan /\ p.role = "product_manager" /\ p.input = 0 /\ p.report = 0 /\ p.author = "workflow"
      /\ p.status = "pending" /\ p.result = "none" /\ p.number = 0
  BY NewPlanIsPlan, ItemsFromZero DEF Roles
<1> HIDE DEF p
<1>3. Latest = 0 /\ Active BY <1>1, PlanFields, Typed DEF StagePlan
<1>4. Continues(p) /\ Agrees(p) BY <1>2, <1>3 DEF Continues, Agrees
<1> QED BY <1>1, <1>2, <1>3, <1>4, RunStays, StageQuietly

LEMMA ClarificationKeeps ==
    ASSUME PipelineInv, NEW i \in Items, CreateClarificationPlan(i) PROVE Kept
<1> DEFINE p == NewPlan("product_manager", i, 0)
<1>1. /\ StagePlan(i + 1, p) /\ UNCHANGED run /\ UNCHANGED Bookkeeping
      /\ i = Latest /\ Done(Latest, "product_manager") /\ Active
  BY DEF CreateClarificationPlan, StagePlan
<1>2. p \in Plan /\ p.role = "product_manager" /\ p.input = i /\ p.report = 0 /\ p.author = "workflow"
      /\ p.status = "pending" /\ p.result = "none" /\ p.number = 0
  BY NewPlanIsPlan, ItemsFromZero DEF Roles
<1> HIDE DEF p
<1>4. Continues(p) /\ Agrees(p) BY <1>1, <1>2 DEF Continues, Agrees, Done
<1> QED BY <1>1, <1>2, <1>4, RunStays, StageQuietly

LEMMA ApproveKeeps ==
    ASSUME PipelineInv, NEW i \in Items, ApproveRequirements(i) PROVE Kept
<1> DEFINE p == ApprovalPlan(i)
<1>1. /\ StagePlan(i + 1, p) /\ UNCHANGED run /\ UNCHANGED Bookkeeping
      /\ i = Latest /\ Done(Latest, "product_manager") /\ Active
  BY DEF ApproveRequirements, StagePlan
<1>2. Approvals \in Nat BY ApprovalsAreIntents DEF PipelineInv, RunInv
<1>3. p \in Plan /\ p.role = "approval" /\ p.input = i /\ p.report = 0 /\ p.author = "workflow"
      /\ p.status = "succeeded" /\ p.result = "approved" /\ p.number = Approvals + 1
  <2>1. PICK a \in Nat : a = Approvals + 1 BY <1>2
  <2> QED BY <2>1, ItemsFromZero DEF ApprovalPlan, NewPlan, Plan, Roles, Results
<1> HIDE DEF p
<1>4. Continues(p) /\ Agrees(p) BY <1>1, <1>3 DEF Continues, Agrees, Done
<1> QED BY <1>1, <1>3, <1>4, RunStays, StageQuietly

LEMMA RevisionKeeps ==
    ASSUME PipelineInv, NEW r \in Items, ResolveByRevision(r) PROVE Kept
<1> DEFINE p == NewPlan("product_manager", SpecBehind(r), 0)
<1>1. /\ StagePlan(r + 1, p) /\ UNCHANGED Bookkeeping /\ Active
      /\ r = Latest /\ Done(Latest, "qa") /\ plans[Latest].result = "challenged"
      /\ run' = [run EXCEPT !.stage = "pm"]
  BY DEF ResolveByRevision, RevisionPlan, StagePlan
<1>2. SpecBehind(r) \in Items
  <2>1. ApprovedSpec(SpecBehind(r)) BY DEF ResolveByRevision, RevisionPlan
  <2> QED BY <2>1, PlanFields, ItemsFromZero, Typed DEF ApprovedSpec, Done
<1>3. p \in Plan /\ p.role = "product_manager" /\ p.input = SpecBehind(r) /\ p.report = 0
      /\ p.author = "workflow" /\ p.status = "pending" /\ p.result = "none" /\ p.number = 0
  <2>1. PICK i \in Items : i = SpecBehind(r) BY <1>2
  <2> QED BY <2>1, NewPlanIsPlan, ItemsFromZero DEF Roles
<1> HIDE DEF p
<1>4. Continues(p) /\ Agrees(p) BY <1>1, <1>3 DEF Continues, Agrees, Done
<1>5. run' \in Run /\ run'.base = run.base /\ run'.kind = run.kind /\ Active'
  BY <1>1, Typed DEF PipelineTypeOK, Run, Active
<1> QED BY <1>1, <1>3, <1>4, <1>5, StageQuietly

LEMMA RevisionRepairKeeps ==
    ASSUME PipelineInv, DispatchRevisionRepair PROVE Kept
<1> DEFINE p == NewPlan("developer", 0, 0)
<1>1. /\ StagePlan(1, p) /\ UNCHANGED Bookkeeping
      /\ run' = [run EXCEPT !.status = "running", !.stage = "developer"]
  BY DEF DispatchRevisionRepair, Recipient
<1>2. p \in Plan /\ p.role = "developer" /\ p.input = 0 /\ p.report = 0 /\ p.author = "workflow"
      /\ p.status = "pending" /\ p.result = "none" /\ p.number = 0
  BY NewPlanIsPlan, ItemsFromZero DEF Roles
<1> HIDE DEF p
<1>3. Latest = 0 /\ Active BY <1>1, PlanFields, Typed DEF StagePlan
<1>4. Continues(p) /\ Agrees(p) BY <1>2, <1>3 DEF Continues, Agrees
<1>5. run' \in Run /\ run'.base = run.base /\ run'.kind = run.kind /\ Active'
  BY <1>1, Typed DEF PipelineTypeOK, Run, Active
<1> QED BY <1>1, <1>2, <1>4, <1>5, StageQuietly

LEMMA DispatchRepairKeeps ==
    ASSUME PipelineInv, NEW i \in Items, DispatchRepair(i) PROVE Kept
<1> DEFINE p == Message(NewPlan("developer", i, 0))
<1>1. /\ StagePlan(i + 1, p) /\ UNCHANGED run /\ UNCHANGED Bookkeeping
      /\ i = Latest /\ Done(Latest, "approval") /\ Active
  BY DEF DispatchRepair, StagePlan
<1>2. p \in Plan /\ p.role = "developer" /\ p.input = i /\ p.report = 0 /\ p.author = "message"
      /\ p.status = "pending" /\ p.result = "none" /\ p.number = 0
  BY ItemsFromZero DEF Message, NewPlan, Plan, Roles, Results
<1> HIDE DEF p
<1>4. Continues(p) /\ Agrees(p) BY <1>1, <1>2 DEF Continues, Agrees, Done
<1> QED BY <1>1, <1>2, <1>4, RunStays, StageQuietly

LEMMA DispatchDesignKeeps ==
    ASSUME PipelineInv, NEW i \in Items, DispatchDesign(i) PROVE Kept
<1> DEFINE p == NewPlan("developer", i, 0)
<1>0. Done(i, "architect") /\ StageEngineering(i) /\ UNCHANGED run /\ UNCHANGED Bookkeeping
  BY DEF DispatchDesign
<1>1. CASE UNCHANGED plans
  BY <1>0, <1>1, StutterKeeps DEF vars, Bookkeeping
<1>2. CASE i = Latest /\ StagePlan(i + 1, p)
  <2>1. p \in Plan /\ p.role = "developer" /\ p.input = i /\ p.report = 0 /\ p.author = "workflow"
        /\ p.status = "pending" /\ p.result = "none" /\ p.number = 0
    BY NewPlanIsPlan, ItemsFromZero DEF Roles
  <2> HIDE DEF p
  <2>2. Active BY <1>2 DEF StagePlan
  <2>3. Continues(p) BY <1>0, <1>2, <2>1 DEF Continues, Done
  <2>4. Agrees(p)
    <3>1. i # 0 => ~ApprovedSpec(i) BY <1>0 DEF ApprovedSpec, Done
    <3> QED BY <2>1, <3>1 DEF Agrees
  <2> QED BY <1>0, <1>2, <2>1, <2>2, <2>3, <2>4, RunStays, StageQuietly
<1> QED BY <1>0, <1>1, <1>2 DEF StageEngineering

LEMMA DispatchCodeKeeps ==
    ASSUME PipelineInv, NEW i \in Items, DispatchCode(i) PROVE Kept
<1> DEFINE p == NewPlan("qa", i, 0)
<1>1. /\ StagePlan(i + 1, p) /\ UNCHANGED run /\ UNCHANGED Bookkeeping /\ InStage("developer")
      /\ i = Latest /\ Done(Latest, "developer") /\ Active
  BY DEF DispatchCode, StagePlan, TestInput
<1>2. p \in Plan /\ p.role = "qa" /\ p.input = i /\ p.report = 0 /\ p.author = "workflow"
      /\ p.status = "pending" /\ p.result = "none" /\ p.number = 0
  BY NewPlanIsPlan, ItemsFromZero DEF Roles
<1> HIDE DEF p
<1>4. Continues(p) /\ Agrees(p) BY <1>1, <1>2 DEF Continues, Agrees, Done
<1> QED BY <1>1, <1>2, <1>4, RunStays, StageQuietly

LEMMA RetryKeeps ==
    ASSUME PipelineInv, NEW r \in Items, RetryBlockedQuality(r) PROVE Kept
<1> DEFINE p == NewPlan("qa", plans[r].input, 0)
<1>1. /\ StagePlan(r + 1, p) /\ UNCHANGED run /\ UNCHANGED Bookkeeping /\ Active /\ InStage("qa")
      /\ r = Latest /\ Done(Latest, "qa") /\ plans[Latest].result = "blocked" /\ Cycles < MaxCycles
  BY DEF RetryBlockedQuality, StagePlan
<1>2. plans[r].input \in Items BY <1>1, PlanFields, Typed DEF Done
<1>3. p \in Plan /\ p.role = "qa" /\ p.input = plans[r].input /\ p.report = 0 /\ p.author = "workflow"
      /\ p.status = "pending" /\ p.result = "none" /\ p.number = 0
  <2>1. PICK i \in Items : i = plans[r].input BY <1>2
  <2> QED BY <2>1, NewPlanIsPlan, ItemsFromZero DEF Roles
<1> HIDE DEF p
<1>4. Continues(p) /\ Agrees(p) BY <1>1, <1>3 DEF Continues, Agrees, Done
<1> QED BY <1>1, <1>3, <1>4, RunStays, StageQuietly

-----------------------------------------------------------------------------
(* Actions of callers *)

LEMMA CallerFields ==
    ASSUME PipelineTypeOK, NEW c \in Callers
    PROVE  /\ caller[c] \in Caller /\ caller[c].item \in Items /\ caller[c].path \in Paths
           /\ caller[c].pc \in {"idle", "lead", "record", "create", "repair", "improvise"}
           /\ caller[c].version \in 0 .. PlanBound + 1
BY DEF PipelineTypeOK, Caller

LEMMA IdleIsCaller ==
    /\ IdleCaller \in Caller /\ IdleCaller.pc = "idle"
    /\ \A c \in Callers : c # NoOne
BY BoundAssumption, ItemsFromZero, NoOneAssumption DEF IdleCaller, Caller, Paths, Items

\* One caller moves.
LEMMA CallerMoves ==
    ASSUME PipelineTypeOK, NEW c \in Callers, NEW x \in Caller, caller' = [caller EXCEPT ![c] = x]
    PROVE  /\ caller' \in [Callers -> Caller] /\ caller'[c] = x
           /\ \A d \in Callers : d # c => caller'[d] = caller[d]
BY DEF PipelineTypeOK

LEMMA GotoMoves ==
    ASSUME PipelineTypeOK, NEW c \in Callers, NEW pc \in {"record", "create"}, NEW path \in Paths,
           Goto(c, pc, path)
    PROVE  /\ caller' \in [Callers -> Caller]
           /\ caller'[c].pc = pc /\ caller'[c].path = path /\ caller'[c].item = caller[c].item
           /\ \A d \in Callers : d # c => caller'[d] = caller[d]
<1> DEFINE x == [caller[c] EXCEPT !.pc = pc, !.path = path]
<1>1. caller' = [caller EXCEPT ![c] = x] BY DEF Goto
<1>2. caller[c] \in Caller BY CallerFields
<1>3. x \in Caller /\ x.pc = pc /\ x.path = path /\ x.item = caller[c].item BY <1>2 DEF Caller
<1> HIDE DEF x
<1> QED BY <1>1, <1>3, CallerMoves

\* The row of one item changes.
LEMMA DispatchMoves ==
    ASSUME PipelineTypeOK, NEW i \in Items, NEW x \in Dispatch, dispatch' = [dispatch EXCEPT ![i] = x]
    PROVE  /\ dispatch' \in [Items -> Dispatch] /\ dispatch'[i] = x
           /\ \A j \in Items : j # i => dispatch'[j] = dispatch[j]
BY DEF PipelineTypeOK

LEMMA DispatchFields ==
    ASSUME PipelineTypeOK, NEW i \in Items
    PROVE  /\ dispatch[i] \in Dispatch /\ dispatch[i].output \in Paths
           /\ dispatch[i].owner \in Callers \union {NoOne} /\ decision[i] \in Paths
BY DEF PipelineTypeOK, Dispatch

\* A lease that is given up, if it was held.
LEMMA ReleaseIsRelease ==
    ASSUME PipelineTypeOK, NEW c \in Callers, NEW i \in Items
    PROVE  /\ Release(c, i) \in Dispatch /\ Release(c, i).output = dispatch[i].output
           /\ Release(c, i).owner # c
           /\ \A d \in Callers : Release(c, i).owner = d => dispatch[i].owner = d
<1>1. dispatch[i] \in Dispatch BY DispatchFields
<1>2. Release(c, i) = [dispatch[i] EXCEPT !.owner = IF dispatch[i].owner = c THEN NoOne ELSE dispatch[i].owner]
  BY DEF Release
<1>3. PICK o \in Callers \union {NoOne} :
        o = IF dispatch[i].owner = c THEN NoOne ELSE dispatch[i].owner
  BY <1>1 DEF Dispatch
<1>4. Release(c, i) = [dispatch[i] EXCEPT !.owner = o] BY <1>2, <1>3
<1>5. o # c /\ \A d \in Callers : o = d => dispatch[i].owner = d BY <1>3, IdleIsCaller
<1> QED BY <1>1, <1>4, <1>5 DEF Dispatch

\* Only the caller that moves has to be looked at.
LEMMA OthersHeld ==
    ASSUME PipelineInv, PipelineTypeOK', SameRun, NEW c \in Callers, Held(c)',
           \A d \in Callers : d # c => caller'[d] = caller[d]
    PROVE  CallersStand'
<1>0. PipelineTypeOK /\ PlansStand /\ Keeps BY SameRunKeeps DEF PipelineInv, RunInv
<1>1. ASSUME NEW d \in Callers PROVE Held(d)'
  <2>1. CASE d = c BY <2>1
  <2>2. CASE d # c
    <3>1. Held(d) BY DEF PipelineInv, RunInv, CallersStand, Held
    <3> QED BY <1>0, <2>2, <3>1, HeldStays
  <2> QED BY <2>1, <2>2
<1> QED BY <1>1 DEF CallersStand, Held

LEMMA ClaimDispatchKeeps ==
    ASSUME PipelineInv, NEW c \in Callers, NEW i \in Items, ClaimDispatch(c, i) PROVE Kept
<1> DEFINE x == [IdleCaller EXCEPT !.pc = "lead", !.item = i, !.path = dispatch[i].output]
           y == [dispatch[i] EXCEPT !.owner = c]
<1>0. PipelineTypeOK /\ PlansStand /\ DecisionsStand BY DEF PipelineInv, RunInv
<1>1. caller' = [caller EXCEPT ![c] = x] /\ dispatch' = [dispatch EXCEPT ![i] = y]
      /\ dispatch[i].owner = NoOne /\ UNCHANGED <<run, plans, decision, shipped, refused>>
  BY DEF ClaimDispatch
<1>2. x \in Caller /\ x.pc = "lead" /\ x.item = i /\ x.path = dispatch[i].output
  BY <1>0, DispatchFields, IdleIsCaller DEF Caller
<1>3. y \in Dispatch /\ y.owner = c /\ y.output = dispatch[i].output
  BY <1>0, DispatchFields DEF Dispatch
<1> HIDE DEF x, y
<1>4. /\ caller' \in [Callers -> Caller] /\ caller'[c] = x
      /\ \A d \in Callers : d # c => caller'[d] = caller[d]
  BY <1>0, <1>1, <1>2, CallerMoves
<1>5. /\ dispatch' \in [Items -> Dispatch] /\ dispatch'[i] = y
      /\ \A j \in Items : j # i => dispatch'[j] = dispatch[j]
  BY <1>0, <1>1, <1>3, DispatchMoves
<1>6. PipelineTypeOK' BY <1>0, <1>1, <1>4, <1>5 DEF PipelineTypeOK
<1>k. SameRun BY <1>1 DEF SameRun
<1>7. Keeps /\ Versions' = Versions BY <1>6, <1>k, SameRunKeeps
<1>8. CallersStand'
  <2>1. Done(i, "approval")' BY <1>1 DEF ClaimDispatch, Done, Versions
  <2>2. Held(c)' BY <2>1, <1>2, <1>4 DEF Held, Dispatching, Repairing, Improvising, Done
  <2> QED BY <2>2, <1>4, <1>6, <1>k, OthersHeld
<1>9. DecisionsStand'
  <2>1. \A v \in Versions' : Decided(v)'
    BY <1>0, <1>1, <1>6, <1>7, OldDecided
  <2>2. \A j \in Items : Saved(j)' BY <1>0, <1>1, <1>3, <1>5 DEF DecisionsStand, Saved
  <2>3. ASSUME NEW d \in Callers PROVE Holds(d)'
    <3>1. CASE d = c BY <3>1, <1>2, <1>3, <1>4, <1>5 DEF Holds
    <3>2. CASE d # c
      <4>1. Holds(d) /\ caller'[d] = caller[d] /\ caller[d].item \in Items
        BY <3>2, <1>0, <1>4, CallerFields DEF DecisionsStand
      <4>2. CASE caller[d].item = i BY <3>2, <4>1, <4>2, <1>3, <1>5 DEF Holds
      <4>3. CASE caller[d].item # i BY <4>1, <4>3, <1>1, <1>5 DEF Holds
      <4> QED BY <4>2, <4>3
    <3> QED BY <3>1, <3>2
  <2> QED BY <2>1, <2>2, <2>3 DEF DecisionsStand
<1> QED BY <1>k, <1>6, <1>8, <1>9, CallerStepKeeps

LEMMA LeadKeeps ==
    ASSUME PipelineInv, NEW c \in Callers, NEW path \in {"direct", "designed"}, Lead(c, path)
    PROVE  Kept
<1> DEFINE i == caller[c].item
           y == [dispatch[i] EXCEPT !.output = path]
<1>0. PipelineTypeOK /\ PlansStand /\ DecisionsStand BY DEF PipelineInv, RunInv
<1>1. Goto(c, "record", path) /\ dispatch' = [dispatch EXCEPT ![i] = y]
      /\ caller[c].pc = "lead" /\ caller[c].path \in {"none", path} /\ dispatch[i].owner = c
      /\ UNCHANGED <<run, plans, decision, shipped, refused>>
  BY DEF Lead, Required
<1>2. i \in Items BY <1>0, CallerFields
<1>3. y \in Dispatch /\ y.owner = c /\ y.output = path
  BY <1>0, <1>1, <1>2, DispatchFields DEF Dispatch, Paths
<1>4. /\ caller' \in [Callers -> Caller]
      /\ caller'[c].pc = "record" /\ caller'[c].path = path /\ caller'[c].item = i
      /\ \A d \in Callers : d # c => caller'[d] = caller[d]
  BY <1>0, <1>1, GotoMoves DEF Paths
<1>5. dispatch[i].output \in {"none", path} /\ decision[i] \in {"none", dispatch[i].output}
  BY <1>0, <1>1, <1>2 DEF DecisionsStand, Holds, Saved
<1>k. PICK k \in Items : k = i BY <1>2
<1> HIDE DEF i, y
<1>6. /\ dispatch' \in [Items -> Dispatch] /\ dispatch'[k] = y
      /\ \A j \in Items : j # k => dispatch'[j] = dispatch[j]
  BY <1>0, <1>1, <1>3, <1>k, DispatchMoves
<1>7. PipelineTypeOK' BY <1>0, <1>1, <1>4, <1>6 DEF PipelineTypeOK
<1>s. SameRun BY <1>1 DEF SameRun
<1>8. Keeps /\ Versions' = Versions BY <1>7, <1>s, SameRunKeeps
<1>9. CallersStand'
  <2>1. Done(k, "approval") BY <1>1, <1>k DEF PipelineInv, RunInv, CallersStand, Dispatching, i
  <2>2. Done(k, "approval")' BY <2>1, <1>1 DEF Done, Versions
  <2>3. Held(c)' BY <2>2, <1>4, <1>k DEF Held, Dispatching, Repairing, Improvising, Done
  <2> QED BY <2>3, <1>4, <1>7, <1>s, OthersHeld
<1>10. DecisionsStand'
  <2>1. \A v \in Versions' : Decided(v)'
    BY <1>0, <1>1, <1>7, <1>8, OldDecided
  <2>2. ASSUME NEW j \in Items PROVE Saved(j)'
    <3>1. Saved(j) BY <1>0 DEF DecisionsStand
    <3> QED BY <3>1, <1>1, <1>3, <1>5, <1>6, <1>k DEF Saved
  <2>3. ASSUME NEW d \in Callers PROVE Holds(d)'
    <3>1. CASE d = c BY <3>1, <1>3, <1>4, <1>6, <1>k DEF Holds
    <3>2. CASE d # c
      <4>1. Holds(d) /\ caller'[d] = caller[d] /\ caller[d].item \in Items
        BY <3>2, <1>0, <1>4, CallerFields DEF DecisionsStand
      <4>2. CASE caller[d].item = k BY <3>2, <4>1, <4>2, <1>3, <1>6 DEF Holds
      <4>3. CASE caller[d].item # k BY <4>1, <4>3, <1>1, <1>6 DEF Holds
      <4> QED BY <4>2, <4>3
    <3> QED BY <3>1, <3>2
  <2> QED BY <2>1, <2>2, <2>3 DEF DecisionsStand
<1> QED BY <1>s, <1>7, <1>9, <1>10, CallerStepKeeps

LEMMA RecordKeeps ==
    ASSUME PipelineInv, NEW c \in Callers, RecordDecision(c)
    PROVE  Kept
<1> DEFINE path == caller[c].path
<1>0. PipelineTypeOK /\ PlansStand /\ DecisionsStand BY DEF PipelineInv, RunInv
<1>1. PICK i \in Items : i = caller[c].item BY <1>0, CallerFields
<1>2. Goto(c, "create", path) /\ caller[c].pc = "record" /\ dispatch[i].owner = c
      /\ decision' = [decision EXCEPT ![i] = IF decision[i] = "none" THEN path ELSE decision[i]]
      /\ UNCHANGED <<run, plans, dispatch, shipped, refused>>
  BY <1>1 DEF RecordDecision, Required
<1>3. path \in Paths /\ path = dispatch[i].output /\ path # "none" /\ decision[i] \in {"none", path}
  BY <1>0, <1>1, <1>2, CallerFields DEF DecisionsStand, Holds, Saved
<1>4. /\ caller' \in [Callers -> Caller]
      /\ caller'[c].pc = "create" /\ caller'[c].path = path /\ caller'[c].item = i
      /\ \A d \in Callers : d # c => caller'[d] = caller[d]
  BY <1>0, <1>1, <1>2, <1>3, GotoMoves
<1>5. /\ decision' \in [Items -> Paths] /\ decision'[i] = path
      /\ \A j \in Items : j # i => decision'[j] = decision[j]
  BY <1>0, <1>2, <1>3 DEF PipelineTypeOK
<1> HIDE DEF path
<1>7. PipelineTypeOK' BY <1>0, <1>2, <1>4, <1>5 DEF PipelineTypeOK
<1>s. SameRun BY <1>2 DEF SameRun
<1>8. Keeps /\ Versions' = Versions BY <1>7, <1>s, SameRunKeeps
<1>9. CallersStand'
  <2>1. Done(i, "approval") BY <1>1, <1>2 DEF PipelineInv, RunInv, CallersStand, Dispatching
  <2>2. Done(i, "approval")' BY <2>1, <1>2 DEF Done, Versions
  <2>3. Held(c)' BY <2>2, <1>4 DEF Held, Dispatching, Repairing, Improvising, Done
  <2> QED BY <2>3, <1>4, <1>7, <1>s, OthersHeld
<1>10. DecisionsStand'
  <2>1. \A v \in Versions' : Decided(v)'
    <3>1. \A j \in Items : decision[j] # "none" => decision'[j] = decision[j] BY <1>3, <1>5
    <3> QED BY <3>1, <1>0, <1>7, <1>8, OldDecided
  <2>2. ASSUME NEW j \in Items PROVE Saved(j)'
    <3>1. Saved(j) BY <1>0 DEF DecisionsStand
    <3> QED BY <3>1, <1>2, <1>3, <1>5 DEF Saved
  <2>3. ASSUME NEW d \in Callers PROVE Holds(d)'
    <3>1. CASE d = c BY <3>1, <1>2, <1>3, <1>4, <1>5 DEF Holds
    <3>2. CASE d # c
      <4>1. Holds(d) /\ caller'[d] = caller[d] /\ caller[d].item \in Items
        BY <3>2, <1>0, <1>4, CallerFields DEF DecisionsStand
      <4>2. CASE caller[d].item = i BY <3>2, <4>1, <4>2, <1>2, <1>5 DEF Holds
      <4>3. CASE caller[d].item # i BY <4>1, <4>3, <1>2, <1>5 DEF Holds
      <4> QED BY <4>2, <4>3
    <3> QED BY <3>1, <3>2
  <2> QED BY <2>1, <2>2, <2>3 DEF DecisionsStand
<1> QED BY <1>s, <1>7, <1>9, <1>10, CallerStepKeeps

LEMMA IdleMoves ==
    ASSUME PipelineTypeOK, NEW c \in Callers, Idle(c)
    PROVE  /\ caller' \in [Callers -> Caller] /\ caller'[c].pc = "idle"
           /\ \A d \in Callers : caller'[d] = caller[d] \/ caller'[d].pc = "idle"
<1>1. /\ caller' \in [Callers -> Caller] /\ caller'[c] = IdleCaller
      /\ \A d \in Callers : d # c => caller'[d] = caller[d]
  BY CallerMoves, IdleIsCaller DEF Idle
<1> QED BY <1>1, IdleIsCaller

\* The lease of one item is given up, or stays as it is.
LEMMA ReleaseMoves ==
    ASSUME PipelineTypeOK, NEW c \in Callers, NEW i \in Items,
           dispatch' = [dispatch EXCEPT ![i] = Release(c, i)]
    PROVE  /\ dispatch' \in [Items -> Dispatch]
           /\ \A j \in Items : dispatch'[j].output = dispatch[j].output
           /\ \A j \in Items, d \in Callers : dispatch'[j].owner = d => dispatch[j].owner = d
<1>1. /\ Release(c, i) \in Dispatch /\ Release(c, i).output = dispatch[i].output
      /\ \A d \in Callers : Release(c, i).owner = d => dispatch[i].owner = d
  BY ReleaseIsRelease
<1>2. /\ dispatch' \in [Items -> Dispatch] /\ dispatch'[i] = Release(c, i)
      /\ \A j \in Items : j # i => dispatch'[j] = dispatch[j]
  BY <1>1, DispatchMoves
<1> QED BY <1>1, <1>2

LEMMA CreateDeliveryKeeps ==
    ASSUME PipelineInv, NEW c \in Callers, CreateDelivery(c) PROVE Kept
<1>0. PipelineTypeOK /\ PlansStand /\ DecisionsStand BY DEF PipelineInv, RunInv
<1>1. PICK i \in Items : i = caller[c].item BY <1>0, CallerFields
<1>2. /\ caller[c].pc = "create" /\ dispatch[i].owner = c /\ InStage("pm")
      /\ IF caller[c].path = "direct" THEN StageEngineering(i) ELSE StageArchitecture(i)
      /\ dispatch' = [dispatch EXCEPT ![i] = Release(c, i)] /\ Idle(c)
      /\ UNCHANGED <<run, decision, shipped, refused>>
  BY <1>1 DEF CreateDelivery, Required
<1>3. /\ caller' \in [Callers -> Caller]
      /\ \A d \in Callers : caller'[d] = caller[d] \/ caller'[d].pc = "idle"
  BY <1>0, <1>2, IdleMoves
<1>4. /\ dispatch' \in [Items -> Dispatch]
      /\ \A j \in Items : dispatch'[j].output = dispatch[j].output
      /\ \A j \in Items, d \in Callers : dispatch'[j].owner = d => dispatch[j].owner = d
  BY <1>0, <1>2, ReleaseMoves
<1>5. Silent BY <1>2, <1>3, <1>4 DEF Silent
<1>6. decision[i] = caller[c].path /\ decision[i] # "none" /\ decision[i] \in Paths
  BY <1>0, <1>1, <1>2, CallerFields DEF DecisionsStand, Holds
<1>7. Active /\ run' \in Run /\ run'.base = run.base /\ run'.kind = run.kind /\ Active'
  BY <1>2, RunStays DEF InStage, Active
<1>11. Done(i, "approval") BY <1>1, <1>2 DEF PipelineInv, RunInv, CallersStand, Dispatching
<1>8. CASE UNCHANGED plans
  <2>1. PipelineTypeOK' BY <1>0, <1>2, <1>3, <1>4, <1>8 DEF PipelineTypeOK
  <2> QED BY <2>1, <1>2, <1>5, <1>8, HoldStep DEF SameRun
<1>9. CASE caller[c].path = "direct" /\ ~UNCHANGED plans
  <2> DEFINE p == NewPlan("developer", i, 0)
  <2>1. i = Latest /\ EngineeringSource(i) /\ StagePlan(i + 1, p) BY <1>2, <1>9 DEF StageEngineering
  <2>2. p \in Plan /\ p.role = "developer" /\ p.input = i /\ p.report = 0
        /\ p.author = "workflow" /\ p.status = "pending" /\ p.result = "none" /\ p.number = 0
    BY NewPlanIsPlan, ItemsFromZero DEF Roles
  <2> HIDE DEF p
  <2>3. PipelineTypeOK' /\ plans' = Append(plans, p)
    BY <1>0, <1>2, <1>3, <1>4, <1>7, <2>1, <2>2, Staged
  <2>5. Continues(p) BY <1>11, <2>1, <2>2 DEF Continues, Done
  <2>6. Agrees(p) BY <1>6, <1>9, <2>2 DEF Agrees
  <2>7. Writes(p) BY <1>2, <1>7, <2>2, <2>3, <2>5, <2>6 DEF Writes
  <2> QED BY <1>5, <2>3, <2>7, WriteStep
<1>10. CASE caller[c].path # "direct" /\ ~UNCHANGED plans
  <2> DEFINE p == NewPlan("architect", i, 0)
  <2>1. i = Latest /\ ApprovedSpec(i) /\ StagePlan(i + 1, p) BY <1>2, <1>10 DEF StageArchitecture
  <2>2. p \in Plan /\ p.role = "architect" /\ p.input = i /\ p.report = 0
        /\ p.author = "workflow" /\ p.status = "pending" /\ p.result = "none" /\ p.number = 0
    BY NewPlanIsPlan, ItemsFromZero DEF Roles
  <2> HIDE DEF p
  <2>3. PipelineTypeOK' /\ plans' = Append(plans, p)
    BY <1>0, <1>2, <1>3, <1>4, <1>7, <2>1, <2>2, Staged
  <2>5. Continues(p) BY <1>11, <2>1, <2>2 DEF Continues, Done
  <2>6. Agrees(p) BY <1>6, <1>10, <2>2 DEF Agrees, Paths
  <2>7. Writes(p) BY <1>2, <1>7, <2>2, <2>3, <2>5, <2>6 DEF Writes
  <2> QED BY <1>5, <2>3, <2>7, WriteStep
<1> QED BY <1>8, <1>9, <1>10

LEMMA DispatchFailsKeeps ==
    ASSUME PipelineInv, NEW c \in Callers, DispatchFails(c) PROVE Kept
<1>0. PipelineTypeOK BY Typed
<1>1. PICK i \in Items : i = caller[c].item BY <1>0, CallerFields
<1>2. /\ dispatch' = [dispatch EXCEPT ![i] = Release(c, i)] /\ Idle(c)
      /\ UNCHANGED <<run, plans, decision, shipped, refused>>
  BY <1>1 DEF DispatchFails
<1>3. /\ caller' \in [Callers -> Caller]
      /\ \A d \in Callers : caller'[d] = caller[d] \/ caller'[d].pc = "idle"
  BY <1>0, <1>2, IdleMoves
<1>4. /\ dispatch' \in [Items -> Dispatch]
      /\ \A j \in Items : dispatch'[j].output = dispatch[j].output
      /\ \A j \in Items, d \in Callers : dispatch'[j].owner = d => dispatch[j].owner = d
  BY <1>0, <1>2, ReleaseMoves
<1>5. Silent /\ PipelineTypeOK' BY <1>0, <1>2, <1>3, <1>4 DEF Silent, PipelineTypeOK
<1> QED BY <1>2, <1>5, HoldStep DEF SameRun

LEMMA IdleKeeps ==
    ASSUME PipelineInv, NEW c \in Callers, Idle(c), UNCHANGED <<run, plans, dispatch, decision, shipped, refused>>
    PROVE  Kept
<1>0. PipelineTypeOK BY Typed
<1>3. /\ caller' \in [Callers -> Caller]
      /\ \A d \in Callers : caller'[d] = caller[d] \/ caller'[d].pc = "idle"
  BY <1>0, IdleMoves
<1>5. Silent /\ PipelineTypeOK' BY <1>0, <1>3 DEF Silent, PipelineTypeOK
<1> QED BY <1>5, HoldStep DEF SameRun

LEMMA LeaseExpiresKeeps ==
    ASSUME PipelineInv, NEW i \in Items, LeaseExpires(i) PROVE Kept
<1> DEFINE y == [dispatch[i] EXCEPT !.owner = NoOne]
<1>0. PipelineTypeOK BY Typed
<1>1. dispatch' = [dispatch EXCEPT ![i] = y] /\ UNCHANGED <<run, plans, caller, decision, shipped, refused>>
  BY DEF LeaseExpires
<1>2. y \in Dispatch /\ y.owner = NoOne /\ y.output = dispatch[i].output
  BY <1>0, DispatchFields DEF Dispatch
<1> HIDE DEF y
<1>3. /\ dispatch' \in [Items -> Dispatch] /\ dispatch'[i] = y
      /\ \A j \in Items : j # i => dispatch'[j] = dispatch[j]
  BY <1>0, <1>1, <1>2, DispatchMoves
<1>4. Silent /\ PipelineTypeOK'
  BY <1>0, <1>1, <1>2, <1>3, IdleIsCaller DEF Silent, PipelineTypeOK
<1> QED BY <1>1, <1>4, HoldStep DEF SameRun

\* A caller that begins a repair or a plan of the Leader's.
LEMMA BeginsKeeps ==
    ASSUME PipelineInv, NEW c \in Callers, NEW x \in Caller, x.pc \in {"repair", "improvise"},
           caller' = [caller EXCEPT ![c] = x], UNCHANGED <<run, plans, dispatch, decision, shipped, refused>>,
           Held(c)'
    PROVE  Kept
<1>0. PipelineTypeOK /\ PlansStand /\ DecisionsStand BY DEF PipelineInv, RunInv
<1>1. /\ caller' \in [Callers -> Caller] /\ caller'[c] = x
      /\ \A d \in Callers : d # c => caller'[d] = caller[d]
  BY <1>0, CallerMoves
<1>2. PipelineTypeOK' BY <1>0, <1>1 DEF PipelineTypeOK
<1>3. SameRun BY DEF SameRun
<1>4. Keeps /\ Versions' = Versions BY <1>2, <1>3, SameRunKeeps
<1>5. CallersStand' BY <1>1, <1>2, <1>3, OthersHeld
<1>6. DecisionsStand'
  <2>1. \A v \in Versions' : Decided(v)' BY <1>0, <1>2, <1>4, OldDecided
  <2>2. \A i \in Items : Saved(i)' BY <1>0 DEF DecisionsStand, Saved
  <2>3. ASSUME NEW d \in Callers PROVE Holds(d)'
    <3>1. CASE d = c BY <3>1, <1>1 DEF Holds
    <3>2. CASE d # c BY <3>2, <1>0, <1>1 DEF Holds, DecisionsStand
    <3> QED BY <3>1, <3>2
  <2> QED BY <2>1, <2>2, <2>3 DEF DecisionsStand
<1> QED BY <1>2, <1>3, <1>5, <1>6, CallerStepKeeps

LEMMA LeadRepairKeeps ==
    ASSUME PipelineInv, NEW c \in Callers, NEW i \in Items, NEW path \in {"direct", "designed"},
           LeadRepair(c, i, path)
    PROVE  Kept
<1>0. PipelineTypeOK /\ LatestFits BY DEF PipelineInv, RunInv
<1>1. PICK n \in 0 .. PlanBound + 1 : n = Latest + 1
  <2>1. Latest + 1 \in 0 .. PlanBound + 1 BY <1>0, PlanFields
  <2> QED BY <2>1
<1> DEFINE x == [pc |-> "improvise", item |-> i, path |-> path, version |-> n]
<1>2. /\ InStage("architect") /\ caller' = [caller EXCEPT ![c] = x]
      /\ i = 0 \/ i \in Versions
      /\ UNCHANGED <<run, plans, dispatch, decision, shipped, refused>>
  BY <1>1 DEF LeadRepair
<1>3. x \in Caller /\ x.pc = "improvise" /\ x.item = i /\ x.version = n BY DEF Caller, Paths
<1> HIDE DEF x
<1>4. Latest # 0 /\ plans[Latest].role # "qa" BY <1>0, <1>2 DEF LatestFits, InStage, Active
<1>5. n - 1 = Latest /\ Latest \in Versions /\ i < n
  BY <1>0, <1>1, <1>2, <1>4, PlanFields DEF Versions, Latest
<1>6. caller'[c] = x BY <1>0, <1>2, <1>3, CallerMoves
<1>7. Held(c)'
  <2>1. n - 1 \in Versions' /\ plans'[n - 1].role # "qa" BY <1>2, <1>4, <1>5 DEF Versions
  <2> QED BY <1>3, <1>5, <1>6, <2>1 DEF Held, Dispatching, Repairing, Improvising
<1> QED BY <1>2, <1>3, <1>7, BeginsKeeps

LEMMA SaveLeadersPlanKeeps ==
    ASSUME PipelineInv, NEW c \in Callers, SaveLeadersPlan(c) PROVE Kept
<1>0. PipelineTypeOK /\ caller[c].item \in Items BY Typed, CallerFields
<1> DEFINE p == LeadersPlan(c)
<1>1. /\ caller[c].pc = "improvise" /\ StagePlan(caller[c].version, p) /\ Idle(c)
      /\ UNCHANGED <<run, dispatch, decision, shipped, refused>>
  BY DEF SaveLeadersPlan
<1>2. /\ p \in Plan /\ p.author = "leader" /\ p.role \in {"architect", "developer"}
      /\ p.input = caller[c].item /\ p.report = 0
      /\ p.status = "pending" /\ p.result = "none" /\ p.number = 0
  BY <1>0, ItemsFromZero DEF LeadersPlan, NewPlan, Plan, Roles, Results
<1> HIDE DEF p
<1>3. /\ caller' \in [Callers -> Caller]
      /\ \A d \in Callers : caller'[d] = caller[d] \/ caller'[d].pc = "idle"
  BY <1>0, <1>1, IdleMoves
<1>4. Active /\ run' \in Run /\ run'.base = run.base /\ run'.kind = run.kind /\ Active'
  BY <1>1, RunStays DEF StagePlan
<1>5. PipelineTypeOK' /\ plans' = Append(plans, p) /\ caller[c].version = Latest + 1
  <2>1. dispatch' \in [Items -> Dispatch] BY <1>0, <1>1 DEF PipelineTypeOK
  <2> QED BY <1>0, <1>1, <1>2, <1>3, <1>4, <2>1, Staged
<1>6. Silent BY <1>1, <1>3 DEF Silent
<1>7. Improvises(p)
  <2>1. /\ caller[c].version - 1 \in Versions /\ caller[c].item < caller[c].version
        /\ plans[caller[c].version - 1].role # "qa"
    BY <1>1 DEF PipelineInv, RunInv, CallersStand, Improvising
  <2>2. caller[c].version - 1 = Latest /\ Latest \in Nat BY <1>0, <1>5, PlanFields
  <2>3. PICK i \in Nat : i = caller[c].item BY <1>0, ItemsFromZero
  <2>4. i < Latest + 1 BY ONLY <1>5, <2>1, <2>3
  <2>5. i \in 0 .. Latest BY ONLY <2>2, <2>3, <2>4
  <2>6. Latest # 0 /\ plans[Latest].role # "qa" BY <2>1, <2>2 DEF Versions
  <2> QED BY <1>2, <2>3, <2>5, <2>6 DEF Improvises
<1>8. Writes(p) BY <1>1, <1>2, <1>4, <1>5, <1>7 DEF Writes, Agrees
<1> QED BY <1>5, <1>6, <1>8, WriteStep

LEMMA StageRepairKeeps ==
    ASSUME PipelineInv, NEW c \in Callers, StageRepair(c) PROVE Kept
<1>0. PipelineTypeOK /\ PlansStand BY DEF PipelineInv, RunInv
<1>1. PICK r \in Items : r = caller[c].item BY <1>0, CallerFields
<1> DEFINE p == NewPlan("developer", plans[plans[r].input].input, r)
<1>2. /\ caller[c].pc = "repair" /\ StagePlan(caller[c].version, p) /\ Idle(c)
      /\ UNCHANGED <<run, dispatch, decision, shipped, refused>>
  BY <1>1 DEF StageRepair
<1>3. /\ Done(r, "qa") /\ plans[r].result \in {"failed", "challenged"}
      /\ caller[c].version = r + 1 /\ (r = Latest => Cycles < MaxCycles)
  BY <1>1, <1>2 DEF PipelineInv, RunInv, CallersStand, Repairing
<1>4. r = Latest /\ Active BY <1>2, <1>3, PlanFields, <1>0 DEF StagePlan, Done
<1>5. plans[plans[r].input].input \in Items
  <2>1. plans[r].input \in 1 .. r - 1 BY <1>0, <1>3, Behind
  <2>2. plans[r].input \in Versions BY <1>0, <1>4, <2>1, PlanFields DEF Versions, Latest
  <2> QED BY <1>0, <2>2, PlanFields
<1>6. PICK s \in Items : s = plans[plans[r].input].input BY <1>5
<1>7. /\ p \in Plan /\ p.role = "developer" /\ p.input = plans[plans[r].input].input /\ p.report = r
      /\ p.author = "workflow" /\ p.status = "pending" /\ p.result = "none" /\ p.number = 0
  BY <1>6, NewPlanIsPlan DEF Roles
<1> HIDE DEF p
<1>8. /\ caller' \in [Callers -> Caller]
      /\ \A d \in Callers : caller'[d] = caller[d] \/ caller'[d].pc = "idle"
  BY <1>0, <1>2, IdleMoves
<1>9. run' \in Run /\ run'.base = run.base /\ run'.kind = run.kind /\ Active'
  BY <1>2, <1>4, RunStays
<1>10. PipelineTypeOK' /\ plans' = Append(plans, p)
  BY <1>0, <1>2, <1>7, <1>8, <1>9, Staged DEF PipelineTypeOK
<1>11. Silent BY <1>2, <1>8 DEF Silent
<1>12. r # 0 BY <1>3, PlanFields, <1>0 DEF Done, Versions
<1>13. Continues(p) /\ Agrees(p) BY <1>3, <1>4, <1>7, <1>12 DEF Continues, Agrees, Done
<1>14. Writes(p) BY <1>2, <1>4, <1>7, <1>9, <1>10, <1>13 DEF Writes
<1> QED BY <1>10, <1>11, <1>14, WriteStep

LEMMA GiveUpHandOffKeeps ==
    ASSUME PipelineInv, NEW v \in Items, GiveUpHandOff(v) PROVE Kept
<1>1. run' = [run EXCEPT !.lost = v] /\ UNCHANGED <<plans, Bookkeeping>> BY DEF GiveUpHandOff
<1>2. PipelineTypeOK /\ run \in Run BY Typed DEF PipelineTypeOK
<1>3. run' \in Run /\ SameRun BY <1>1, <1>2 DEF Run, SameRun, Bookkeeping
<1>4. PipelineTypeOK' BY <1>1, <1>2, <1>3 DEF PipelineTypeOK, Bookkeeping
<1> QED BY <1>1, <1>3, <1>4, HoldStep, Bookkept

\* The run ends without a release, and its plans stay.
LEMMA StopStep ==
    ASSUME PipelineInv, PipelineTypeOK', UNCHANGED <<plans, shipped>>, Silent,
           run'.status = "failed", run'.base = run.base, run'.kind = run.kind,
           InStage("qa"), Done(Latest, "qa")
    PROVE  Kept
<1>0. PipelineTypeOK /\ PlansStand /\ LatestFits /\ shipped <= Approvals BY DEF PipelineInv, RunInv
<1>1. Keeps /\ Latest' = Latest /\ Versions' = Versions /\ ~Active' /\ Active
  BY <1>0, PlanFields DEF Keeps, Versions, Latest, Active, InStage
<1>2. \A v, role : Done(v, role)' <=> Done(v, role) BY <1>1 DEF Done
<1>3. Approvals' = Approvals BY <1>0, <1>1, SameApprovals
<1>4. PlansStand'
  <2> SUFFICES ASSUME NEW v \in Versions
               PROVE  Linked(v)' /\ Loaded(v)' /\ (v # 1 /\ plans[v].author # "leader" => Follows(v))'
    BY <1>1 DEF PlansStand
  <2>1. Linked(v) /\ Loaded(v) /\ (v # 1 /\ plans[v].author # "leader" => Follows(v)) BY <1>0 DEF PlansStand
  <2>2. Linked(v)' BY <1>1, <1>3, <2>1 DEF Linked, InStage
  <2>3. Loaded(v)'
    <3>1. EngineeringSource(plans[v].input)' <=> EngineeringSource(plans[v].input)
      BY <1>2 DEF EngineeringSource, FormalSpec, ApprovedSpec, Done, Versions
    <3>2. Done(plans[v].input, "developer")' <=> Done(plans[v].input, "developer") BY <1>1 DEF Done
    <3> QED BY <2>1, <3>1, <3>2 DEF Loaded
  <2>4. v # 1 /\ plans[v].author # "leader" => Follows(v)' BY <1>0, <1>1, <2>1, OldPlansFollow
  <2> QED BY <2>2, <2>3, <2>4
<1>5. LatestFits'
  <2>1. plans[Latest].status = "succeeded" BY DEF Done
  <2> QED BY <1>1, <2>1 DEF LatestFits
<1>6. ASSUME LeadersOwn = {} PROVE RunFits' /\ ReleaseStands'
  <2>1. Settled BY <1>6 DEF PipelineInv, WorkflowInv, RunFits
  <2>2. \A v \in Versions : plans[v].status = "succeeded" BY <2>1 DEF Settled, Done
  <2> QED BY <1>1, <2>2 DEF RunFits, Settled, ReleaseStands
<1> QED BY <1>0, <1>1, <1>4, <1>5, <1>6, TouchStep

LEMMA DecideQualityKeeps ==
    ASSUME PipelineInv, NEW c \in Callers, NEW r \in Items, NEW resolved \in BOOLEAN,
           DecideQuality(c, r, resolved)
    PROVE  Kept
<1>0. PipelineTypeOK /\ PlansStand /\ LatestFits BY DEF PipelineInv, RunInv
<1>1. /\ Done(r, "qa") /\ InStage("qa") /\ r = Latest /\ plans[r].result \in {"failed", "challenged"}
      /\ UNCHANGED <<plans, dispatch, decision, shipped, refused>>
  BY DEF DecideQuality
<1>2. CASE Cycles >= MaxCycles
  <2>1. run' = [run EXCEPT !.status = "failed"] /\ UNCHANGED caller BY <1>2 DEF DecideQuality
  <2>2. run \in Run /\ run' \in Run /\ run'.status = "failed" /\ run'.base = run.base /\ run'.kind = run.kind
    BY <1>0, <2>1 DEF PipelineTypeOK, Run
  <2>3. PipelineTypeOK' /\ UNCHANGED Bookkeeping BY <1>0, <1>1, <2>1, <2>2 DEF PipelineTypeOK, Bookkeeping
  <2> QED BY <1>1, <2>2, <2>3, StopStep, Bookkept
<1>3. CASE ~(Cycles >= MaxCycles)
  <2>1. PICK n \in 0 .. PlanBound + 1 : n = Latest + 1
    <3>1. Latest + 1 \in 0 .. PlanBound + 1 BY <1>0, PlanFields
    <3> QED BY <3>1
  <2> DEFINE x == [IdleCaller EXCEPT !.pc = "repair", !.item = r, !.version = n]
  <2>2. caller' = [caller EXCEPT ![c] = x] /\ UNCHANGED run BY <1>3, <2>1 DEF DecideQuality
  <2>3. x \in Caller /\ x.pc = "repair" /\ x.item = r /\ x.version = n
    BY IdleIsCaller DEF Caller
  <2> HIDE DEF x
  <2>4. caller'[c] = x BY <1>0, <2>2, <2>3, CallerMoves
  <2>5. Held(c)'
    <3>1. Cycles' = Cycles /\ Cycles \in Nat /\ MaxCycles \in Nat
      BY <1>0, <1>1, CountsAreNumbers DEF Cycles, Versions
    <3>2. Cycles' < MaxCycles BY <1>3, <3>1
    <3>3. Done(r, "qa")' /\ plans'[r].result \in {"failed", "challenged"} BY <1>1 DEF Done, Versions
    <3> QED BY <1>1, <2>1, <2>3, <2>4, <3>2, <3>3 DEF Held, Dispatching, Repairing, Improvising, Done
  <2> QED BY <1>1, <2>2, <2>3, <2>5, BeginsKeeps
<1> QED BY <1>2, <1>3

-----------------------------------------------------------------------------
(* Actions on plans that exist *)

\* Every plan that is moved on stands as it did, if what it is moved to fits the run.
LEMMA PlansTouched ==
    ASSUME PipelineInv, PipelineTypeOK', Keeps, Latest' = Latest,
           \A w \in Versions :
              /\ plans'[w].status = "cancelled" => ~Active'
              /\ plans'[w].result = "challenged" => plans[w].role = "qa"
              /\ plans'[w].result = "passed" => run'.status = "succeeded"
              /\ plans'[w].status \in {"running", "succeeded"}
                    => plans[w].status \in {"running", "succeeded"} \/ InputLoads(w)
    PROVE  PlansStand'
<1>0. PipelineTypeOK /\ PlansStand /\ Versions' = Versions BY DEF PipelineInv, RunInv, Versions, Latest
<1>1. Approvals' = Approvals BY <1>0, SameApprovals
<1> SUFFICES ASSUME NEW w \in Versions
             PROVE  Linked(w)' /\ Loaded(w)' /\ (w # 1 /\ plans[w].author # "leader" => Follows(w))'
  BY <1>0 DEF PlansStand
<1>2. Linked(w) /\ Loaded(w) /\ (w # 1 /\ plans[w].author # "leader" => Follows(w)) BY <1>0 DEF PlansStand
<1>3. Linked(w)' BY <1>1, <1>2 DEF Linked, Keeps
<1>4. Loaded(w)'
  <2> SUFFICES ASSUME plans'[w].status \in {"running", "succeeded"}
               PROVE  /\ plans[w].role = "developer" => EngineeringSource(plans[w].input)'
                      /\ plans[w].role = "qa" => Done(plans[w].input, "developer")'
    BY DEF Loaded, Keeps
  <2>1. /\ plans[w].role = "developer" => EngineeringSource(plans[w].input)
        /\ plans[w].role = "qa" => Done(plans[w].input, "developer")
    BY <1>2 DEF Loaded, InputLoads, TestInput
  <2>2. PICK i : i = plans[w].input OBVIOUS
  <2>3. /\ EngineeringSource(i) => EngineeringSource(i)'
        /\ Done(i, "developer") => Done(i, "developer")'
    BY <1>0, LinksKept
  <2>4. plans'[w].input = i BY <2>2 DEF Keeps
  <2>5. /\ EngineeringSource(plans[w].input)' <=> EngineeringSource(i)'
        /\ Done(plans[w].input, "developer")' <=> Done(i, "developer")'
    BY <2>4 DEF EngineeringSource, FormalSpec, ApprovedSpec, Done
  <2> QED BY <2>1, <2>2, <2>3, <2>5
<1>5. w # 1 /\ plans[w].author # "leader" => Follows(w)' BY <1>0, <1>2, OldPlansFollow
<1> QED BY <1>3, <1>4, <1>5 DEF Keeps

\* One plan that is not finished gets another status.
LEMMA PlanMoves ==
    ASSUME PipelineInv, NEW v \in Versions, NEW p \in Plan, plans[v].status # "succeeded",
           plans' = [plans EXCEPT ![v] = p],
           p.author = plans[v].author, p.role = plans[v].role, p.input = plans[v].input,
           p.report = plans[v].report, p.number = plans[v].number,
           run' \in Run, run'.base = run.base, run'.kind = run.kind, shipped' \in Nat,
           UNCHANGED <<caller, dispatch, decision, refused>>
    PROVE  /\ Latest' = Latest /\ Latest # 0 /\ Versions' = Versions /\ plans'[v] = p
           /\ Latest \in Versions
           /\ \A w \in Versions : w # v => plans'[w] = plans[w]
           /\ PipelineTypeOK' /\ Keeps /\ Silent
<1>0. PipelineTypeOK BY Typed
<1>2. /\ Latest' = Latest /\ Versions' = Versions /\ plans' \in Seq(Plan) /\ plans'[v] = p
      /\ \A w \in Versions : w # v => plans'[w] = plans[w]
  BY <1>0, Replaced
<1>3. PipelineTypeOK' BY <1>0, <1>2 DEF PipelineTypeOK, Latest
<1>4. Keeps BY <1>0, <1>2, PlanFields DEF Keeps
<1>5. Latest # 0 /\ Latest \in Versions BY <1>0, PlanFields DEF Versions, Latest
<1> QED BY <1>2, <1>3, <1>4, <1>5 DEF Silent

LEMMA ClaimKeeps ==
    ASSUME PipelineInv, NEW v, Claim(v) PROVE Kept
<1>0. PipelineTypeOK /\ PlansStand /\ LatestFits /\ shipped <= Approvals /\ v \in Versions
  BY DEF PipelineInv, RunInv, Claim
<1> DEFINE p == [plans[v] EXCEPT !.status = "running"]
<1>1. /\ plans[v].status = "pending" /\ InputLoads(v) /\ Active
      /\ run.status = "running" => run.stage \in AllowedStages(plans[v].role)
      /\ \A w \in Versions : plans[w].status # "running"
      /\ run' = [run EXCEPT !.status = "running", !.stage = StageOf(plans[v].role)]
      /\ plans' = [plans EXCEPT ![v] = p] /\ UNCHANGED Bookkeeping
  BY DEF Claim, PlanRuns
<1>2. /\ p \in Plan /\ p.role = plans[v].role /\ p.input = plans[v].input /\ p.report = plans[v].report
      /\ p.number = plans[v].number /\ p.status = "running" /\ p.result = plans[v].result
      /\ p.author = plans[v].author
  BY <1>0, PlanFields DEF Plan
<1> HIDE DEF p
<1>3. \A w \in Versions : plans[w].result # "passed" /\ plans[w].status # "cancelled"
                          /\ (plans[w].result = "challenged" => plans[w].role = "qa")
  BY <1>0, <1>1 DEF PlansStand, Linked, Active
<1>4. plans[v].role \in {"product_manager", "architect", "developer", "qa"}
      /\ (plans[v].role = "qa" => v = Latest)
  <2>1. Linked(v) /\ plans[v].role \in Roles BY <1>0, PlanFields DEF PlansStand
  <2> QED BY <1>1, <2>1 DEF Linked, Roles
<1>5. /\ run' \in Run /\ run'.base = run.base /\ run'.kind = run.kind
      /\ run'.status = "running" /\ run'.stage = StageOf(plans[v].role)
  <2>1. PICK s \in {"pm", "architect", "developer", "qa"} : s = StageOf(plans[v].role) BY <1>4 DEF StageOf
  <2>2. run' = [run EXCEPT !.status = "running", !.stage = s] BY <1>1, <2>1
  <2> QED BY <1>0, <2>1, <2>2 DEF PipelineTypeOK, Run
<1>6. /\ Latest' = Latest /\ Latest # 0 /\ Versions' = Versions /\ plans'[v] = p
      /\ Latest \in Versions
      /\ \A w \in Versions : w # v => plans'[w] = plans[w]
      /\ PipelineTypeOK' /\ Keeps /\ Silent
  <2>1. UNCHANGED <<caller, dispatch, decision, refused>> /\ shipped' \in Nat
    BY <1>0, <1>1 DEF Bookkeeping, PipelineTypeOK
  <2> QED BY <1>0, <1>1, <1>2, <1>5, <2>1, PlanMoves
<1>7. PlansStand'
  <2>1. \A w \in Versions :
            /\ plans'[w].status # "cancelled" /\ plans'[w].result # "passed"
            /\ plans'[w].result = "challenged" => plans[w].role = "qa"
            /\ plans'[w].status \in {"running", "succeeded"}
                => plans[w].status \in {"running", "succeeded"} \/ InputLoads(w)
    BY <1>1, <1>2, <1>3, <1>6
  <2> QED BY <1>6, <2>1, PlansTouched
<1>8. LatestFits'
  <2>1. plans'[Latest].status = "running" => v = Latest BY <1>1, <1>6
  <2>2. InStage("developer") \/ InStage("qa") => plans[v].role \in {"developer", "qa"}
    BY <1>1, <1>4 DEF InStage, AllowedStages
  <2>3. v # Latest => plans[v].role # "qa" BY <1>4
  <2>4. \A stage : InStage(stage)' <=> stage = StageOf(plans[v].role) BY <1>5 DEF InStage
  <2>5. (Latest # 0 /\ plans[Latest].status = "running" => InStage(StageOf(plans[Latest].role)))'
    BY <1>2, <1>6, <2>1, <2>4
  <2>6. (Done(Latest, "developer") /\ Active => InStage("developer"))'
    <3>1. Done(Latest, "developer")' => v # Latest /\ Done(Latest, "developer")
      BY <1>2, <1>6 DEF Done
    <3> QED BY <1>0, <1>1, <2>2, <2>3, <2>4, <3>1 DEF LatestFits, StageOf
  <2>7. (Latest # 0 /\ plans[Latest].role = "qa" /\ Active => InStage("developer") \/ InStage("qa"))'
    <3>1. plans'[Latest].role = plans[Latest].role BY <1>2, <1>6
    <3> QED BY <1>0, <1>1, <1>6, <2>2, <2>4, <3>1 DEF LatestFits, StageOf
  <2> QED BY <1>6, <2>5, <2>6, <2>7 DEF LatestFits
<1>9. shipped' <= Approvals BY <1>0, <1>1 DEF Bookkeeping
<1>10. ASSUME LeadersOwn = {} PROVE RunFits' /\ ReleaseStands'
  <2>1. Settled BY <1>10 DEF PipelineInv, WorkflowInv, RunFits
  <2>2. v = Latest BY <1>0, <1>1, <2>1 DEF Settled
  <2>3. Active' BY <1>5 DEF Active
  <2> QED BY <1>5, <1>6, <2>1, <2>2, <2>3 DEF RunFits, Settled, ReleaseStands
<1> QED BY <1>6, <1>7, <1>8, <1>9, <1>10, TouchStep

LEMMA CompleteKeeps ==
    ASSUME PipelineInv, NEW v, NEW role \in {"product_manager", "architect", "developer"},
           NEW result \in Results \ {"passed", "challenged"}, Complete(v, role, result)
    PROVE  Kept
<1>0. PipelineTypeOK /\ PlansStand /\ LatestFits /\ shipped <= Approvals /\ v \in Versions
  BY DEF PipelineInv, RunInv, Complete, RunningTask
<1> DEFINE p == [plans[v] EXCEPT !.status = "succeeded", !.result = result]
<1>1. /\ plans[v].status = "running" /\ plans[v].role = role /\ InStage(StageOf(role)) /\ Active
      /\ plans' = [plans EXCEPT ![v] = p] /\ UNCHANGED <<run, Bookkeeping>>
  BY DEF Complete, RunningTask, Publish, InStage, Active
<1>2. /\ p \in Plan /\ p.role = plans[v].role /\ p.input = plans[v].input /\ p.report = plans[v].report
      /\ p.number = plans[v].number /\ p.status = "succeeded" /\ p.result = result
      /\ p.author = plans[v].author
  BY <1>0, PlanFields DEF Plan
<1> HIDE DEF p
<1>3. \A w \in Versions : plans[w].result # "passed" /\ plans[w].status # "cancelled"
                          /\ (plans[w].result = "challenged" => plans[w].role = "qa")
  BY <1>0, <1>1 DEF PlansStand, Linked, Active
<1>6. /\ Latest' = Latest /\ Latest # 0 /\ Versions' = Versions /\ plans'[v] = p
      /\ Latest \in Versions
      /\ \A w \in Versions : w # v => plans'[w] = plans[w]
      /\ PipelineTypeOK' /\ Keeps /\ Silent
  <2>1. /\ UNCHANGED <<caller, dispatch, decision, refused>> /\ shipped' \in Nat
        /\ run' \in Run /\ run'.base = run.base /\ run'.kind = run.kind
    BY <1>0, <1>1 DEF Bookkeeping, PipelineTypeOK
  <2> QED BY <1>0, <1>1, <1>2, <2>1, PlanMoves
<1>7. PlansStand'
  <2>1. \A w \in Versions :
            /\ plans'[w].status # "cancelled" /\ plans'[w].result # "passed"
            /\ plans'[w].result = "challenged" => plans[w].role = "qa"
            /\ plans'[w].status \in {"running", "succeeded"} => plans[w].status \in {"running", "succeeded"}
    BY <1>1, <1>2, <1>3, <1>6
  <2> QED BY <1>6, <2>1, PlansTouched
<1>8. LatestFits'
  <2>1. plans'[Latest].status = "running" => plans'[Latest] = plans[Latest] BY <1>2, <1>6
  <2>2. Done(Latest, "developer")' => Done(Latest, "developer") \/ (v = Latest /\ role = "developer")
    BY <1>1, <1>2, <1>6 DEF Done
  <2>3. plans'[Latest].role = plans[Latest].role BY <1>2, <1>6
  <2> QED BY <1>0, <1>1, <1>6, <2>1, <2>2, <2>3 DEF LatestFits, InStage, Active, StageOf
<1>9. shipped' <= Approvals BY <1>0, <1>1 DEF Bookkeeping
<1>10. ASSUME LeadersOwn = {} PROVE RunFits' /\ ReleaseStands'
  <2>1. Settled BY <1>10 DEF PipelineInv, WorkflowInv, RunFits
  <2>2. Active' /\ run'.status = "running" BY <1>1 DEF Active, InStage
  <2> QED BY <1>2, <1>6, <2>1, <2>2 DEF RunFits, Settled, ReleaseStands
<1> QED BY <1>6, <1>7, <1>8, <1>9, <1>10, TouchStep

\* No intent is newer than the approvals.
LEMMA IntentBounded ==
    ASSUME PipelineTypeOK, PlansStand, NEW s \in 0 .. Latest
    PROVE  IntentOf(s) \in 0 .. Approvals
<1>1. CASE s = 0
  <2>1. Cardinality({v \in Versions : Done(v, "approval")}) \in Nat
    BY FiniteVersions DEF Versions, Latest
  <2> QED BY <1>1, <2>1 DEF IntentOf, Approvals, PipelineTypeOK, Run
<1>2. CASE s # 0
  <2>1. s \in Versions BY <1>2, PlanFields DEF Versions, Latest
  <2>2. plans[s].number \in Nat /\ plans[s].number <= Approvals BY <2>1, PlanFields DEF PlansStand, Linked
  <2>3. Approvals \in Nat BY ApprovalsAreIntents
  <2> QED BY <1>2, <2>2, <2>3 DEF IntentOf
<1> QED BY <1>1, <1>2

LEMMA CompleteQualityKeeps ==
    ASSUME PipelineInv, NEW v, NEW verdict \in {"passed", "failed", "blocked", "challenged"},
           CompleteQuality(v, verdict)
    PROVE  Kept
<1>0. PipelineTypeOK /\ PlansStand /\ LatestFits /\ shipped <= Approvals /\ v \in Versions
  BY DEF PipelineInv, RunInv, CompleteQuality, RunningTask
<1> DEFINE p == [plans[v] EXCEPT !.status = "succeeded", !.result = verdict]
<1>1. /\ plans[v].status = "running" /\ plans[v].role = "qa" /\ InStage("qa") /\ Active
      /\ plans' = [plans EXCEPT ![v] = p] /\ UNCHANGED <<caller, dispatch, decision, refused>>
      /\ shipped' = IF verdict = "passed" THEN IntentOf(SpecBehind(v)) ELSE shipped
      /\ run' = IF verdict = "passed" THEN [run EXCEPT !.status = "succeeded"] ELSE run
  BY DEF CompleteQuality, RunningTask, StageOf, Publish, InStage, Active
<1>2. /\ p \in Plan /\ p.role = plans[v].role /\ p.input = plans[v].input /\ p.report = plans[v].report
      /\ p.number = plans[v].number /\ p.status = "succeeded" /\ p.result = verdict
      /\ p.author = plans[v].author
  BY <1>0, PlanFields DEF Plan, Results
<1> HIDE DEF p
<1>3. /\ run' \in Run /\ run'.base = run.base /\ run'.kind = run.kind
      /\ run'.status = IF verdict = "passed" THEN "succeeded" ELSE run.status
  BY <1>0, <1>1 DEF PipelineTypeOK, Run
<1>4. v = Latest BY <1>0, <1>1 DEF PlansStand, Linked
<1>5. IntentOf(SpecBehind(v)) \in Nat /\ IntentOf(SpecBehind(v)) <= Approvals
  <2>1. SpecBehind(v) \in 0 .. v - 1 BY <1>0, <1>1, BehindValidation
  <2>2. SpecBehind(v) \in 0 .. Latest BY <1>0, <1>4, <2>1, PlanFields
  <2>3. PICK s \in 0 .. Latest : s = SpecBehind(v) BY <2>2
  <2>4. IntentOf(s) \in 0 .. Approvals /\ Approvals \in Nat BY <1>0, IntentBounded, ApprovalsAreIntents
  <2> QED BY <2>3, <2>4
<1>6. /\ Latest' = Latest /\ Latest # 0 /\ Versions' = Versions /\ plans'[v] = p
      /\ Latest \in Versions
      /\ \A w \in Versions : w # v => plans'[w] = plans[w]
      /\ PipelineTypeOK' /\ Keeps /\ Silent
  <2>1. shipped' \in Nat BY <1>0, <1>1, <1>5 DEF PipelineTypeOK
  <2> QED BY <1>0, <1>1, <1>2, <1>3, <2>1, PlanMoves
<1>k. \A w \in Versions : plans[w].result # "passed" /\ plans[w].status # "cancelled"
                          /\ (plans[w].result = "challenged" => plans[w].role = "qa")
  BY <1>0, <1>1 DEF PlansStand, Linked, Active
<1>7. PlansStand'
  <2>1. \A w \in Versions :
            /\ plans'[w].status # "cancelled"
            /\ plans'[w].result = "passed" => run'.status = "succeeded"
            /\ plans'[w].result = "challenged" => plans[w].role = "qa"
            /\ plans'[w].status \in {"running", "succeeded"} => plans[w].status \in {"running", "succeeded"}
    BY <1>1, <1>2, <1>3, <1>6, <1>k
  <2> QED BY <1>6, <2>1, PlansTouched
<1>8. LatestFits'
  <2>1. plans'[Latest] = p /\ p.status = "succeeded" /\ p.role = "qa" BY <1>1, <1>2, <1>4, <1>6
  <2>2. ~Done(Latest, "developer")' BY <1>6, <2>1 DEF Done
  <2>3. Active' => InStage("qa")' BY <1>1, <1>3 DEF Active, InStage
  <2> QED BY <1>6, <2>1, <2>2, <2>3 DEF LatestFits
<1>9. shipped' <= Approvals BY <1>0, <1>1, <1>5
<1>10. ASSUME LeadersOwn = {} PROVE RunFits' /\ ReleaseStands'
  <2>0. Settled /\ AsMeant BY <1>10 DEF PipelineInv, WorkflowInv, RunFits
  <2>1. RunFits' BY <1>2, <1>4, <1>6, <2>0 DEF RunFits, Settled
  <2>2. Approvals' = Approvals BY <1>0, <1>6, SameApprovals
  <2>3. IntentOf(SpecBehind(v)) = Intent(v) BY <1>0, <1>1, <2>0 DEF AsMeant, Meant
  <2>4. IntentOf(SpecBehind(v)) = Approvals BY <1>0, <1>4, <2>3, ApprovalsAreIntents
  <2>5. run.status # "succeeded" BY <1>1 DEF InStage
  <2> QED BY <1>1, <1>3, <2>1, <2>2, <2>4, <2>5 DEF ReleaseStands
<1> QED BY <1>6, <1>7, <1>8, <1>9, <1>10, TouchStep

LEMMA CancelKeeps ==
    ASSUME PipelineInv, CancelActiveRun PROVE Kept
<1>0. PipelineTypeOK /\ PlansStand /\ shipped <= Approvals BY DEF PipelineInv, RunInv
<1>1. /\ Active /\ run' = [run EXCEPT !.status = "cancelled"]
      /\ plans' = [v \in Versions |->
                    IF plans[v].status \in {"pending", "running"}
                    THEN [plans[v] EXCEPT !.status = "cancelled"] ELSE plans[v]]
      /\ dispatch' = [i \in Items |-> [dispatch[i] EXCEPT !.owner = NoOne]]
      /\ UNCHANGED <<caller, decision, shipped, refused>>
  BY DEF CancelActiveRun
<1>2. \A v \in Versions :
        /\ plans'[v] \in Plan /\ plans'[v].role = plans[v].role /\ plans'[v].input = plans[v].input
        /\ plans'[v].report = plans[v].report /\ plans'[v].number = plans[v].number
        /\ plans'[v].result = plans[v].result /\ plans'[v].author = plans[v].author
        /\ plans[v].status = "succeeded" => plans'[v] = plans[v]
        /\ plans'[v].status \in {"succeeded", "cancelled"}
  <2> SUFFICES ASSUME NEW v \in Versions
      PROVE /\ plans'[v] \in Plan /\ plans'[v].role = plans[v].role /\ plans'[v].input = plans[v].input
            /\ plans'[v].report = plans[v].report /\ plans'[v].number = plans[v].number
            /\ plans'[v].result = plans[v].result /\ plans'[v].author = plans[v].author
            /\ plans[v].status = "succeeded" => plans'[v] = plans[v]
            /\ plans'[v].status \in {"succeeded", "cancelled"}
    OBVIOUS
  <2>1. plans[v] \in Plan BY <1>0, PlanFields
  <2>2. CASE plans[v].status \in {"pending", "running"}
    <3>1. plans'[v] = [plans[v] EXCEPT !.status = "cancelled"] BY <1>1, <2>2
    <3> QED BY <3>1, <2>1, <2>2 DEF Plan
  <2>3. CASE plans[v].status \notin {"pending", "running"}
    <3>1. plans'[v] = plans[v] BY <1>1, <2>3
    <3> QED BY <3>1, <2>1, <2>3 DEF Plan
  <2> QED BY <2>2, <2>3
<1>3. plans' \in Seq(Plan) /\ Latest' = Latest /\ Versions' = Versions
  <2>1. plans' \in [1 .. Len(plans) -> Plan] /\ Len(plans) \in Nat
    BY <1>0, <1>1, <1>2, PlanFields DEF Versions, Latest
  <2>2. plans' \in Seq(Plan) BY <2>1
  <2>3. Len(plans') = Len(plans) BY <2>1, <2>2, LenProperties
  <2> QED BY <2>2, <2>3 DEF Latest, Versions
<1>4. run' \in Run /\ run'.base = run.base /\ run'.kind = run.kind /\ run'.status = "cancelled"
  BY <1>0, <1>1 DEF PipelineTypeOK, Run
<1>5. /\ dispatch' \in [Items -> Dispatch]
      /\ \A i \in Items : dispatch'[i].owner = NoOne /\ dispatch'[i].output = dispatch[i].output
  <2>1. \A i \in Items : dispatch[i] \in Dispatch BY <1>0, DispatchFields
  <2>2. \A i \in Items : dispatch'[i] \in Dispatch /\ dispatch'[i].owner = NoOne
                          /\ dispatch'[i].output = dispatch[i].output
    BY <1>1, <2>1 DEF Dispatch
  <2> QED BY <1>1, <2>2
<1>6. PipelineTypeOK' BY <1>0, <1>1, <1>3, <1>4, <1>5 DEF PipelineTypeOK, Latest
<1>7. Keeps BY <1>0, <1>2, <1>3, <1>4, PlanFields DEF Keeps
<1>8. Silent BY <1>1, <1>5, IdleIsCaller DEF Silent
<1>9. ~Active' /\ run'.status # "succeeded" BY <1>4 DEF Active
<1>10. PlansStand'
  <2>1. \A w \in Versions : plans[w].result # "passed" /\ (plans[w].result = "challenged" => plans[w].role = "qa")
                            /\ plans[w].status # "cancelled"
    BY <1>0, <1>1 DEF PlansStand, Linked, Active
  <2>2. \A w \in Versions :
            /\ plans'[w].result # "passed"
            /\ plans'[w].result = "challenged" => plans[w].role = "qa"
            /\ plans'[w].status \in {"running", "succeeded"} => plans[w].status \in {"running", "succeeded"}
    <3> SUFFICES ASSUME NEW w \in Versions
                 PROVE  /\ plans'[w].result # "passed"
                        /\ plans'[w].result = "challenged" => plans[w].role = "qa"
                        /\ plans'[w].status \in {"running", "succeeded"} => plans[w].status \in {"running", "succeeded"}
      OBVIOUS
    <3>1. plans[w].status \in {"pending", "running", "succeeded"} BY <1>0, <2>1, PlanFields
    <3>2. plans[w].status = "pending" => plans'[w].status = "cancelled"
      <4>1. ASSUME plans[w].status = "pending" PROVE plans'[w] = [plans[w] EXCEPT !.status = "cancelled"]
        BY <1>1, <4>1
      <4>2. plans[w] \in Plan BY <1>0, PlanFields
      <4> QED BY <4>1, <4>2 DEF Plan
    <3> QED BY <1>2, <2>1, <3>1, <3>2
  <2> QED BY <1>3, <1>6, <1>7, <1>9, <2>2, PlansTouched
<1>11. LatestFits'
  <2>1. Latest # 0 => Latest \in Versions BY <1>0, PlanFields DEF Versions, Latest
  <2>2. Latest # 0 => plans'[Latest].status # "running" BY <1>2, <2>1
  <2> QED BY <1>3, <1>9, <2>2 DEF LatestFits
<1>12. ASSUME LeadersOwn = {} PROVE RunFits' /\ ReleaseStands'
  <2>1. Settled BY <1>12 DEF PipelineInv, WorkflowInv, RunFits
  <2>2. Settled' BY <1>2, <1>3, <2>1 DEF Settled
  <2>3. \A w \in Versions : plans'[w].status \notin {"pending", "running"} BY <1>2
  <2> QED BY <1>3, <1>9, <2>2, <2>3 DEF RunFits, ReleaseStands
<1>13. shipped' <= Approvals BY <1>0, <1>1
<1> QED BY <1>3, <1>6, <1>7, <1>8, <1>10, <1>11, <1>12, <1>13, TouchStep

-----------------------------------------------------------------------------
(* The first state, and a new run *)

\* A run without plans: the claims about plans are empty.
Fresh ==
    /\ PipelineTypeOK /\ Latest = 0 /\ run.status = "queued" /\ shipped <= run.base
    /\ \A i \in Items : decision[i] = "none" /\ dispatch[i].owner = NoOne
    /\ \A c \in Callers : caller[c].pc = "idle"
LEMMA EmptyRun == Fresh => PipelineInv /\ Approvals = run.base
<1> SUFFICES ASSUME Fresh PROVE PipelineInv /\ Approvals = run.base OBVIOUS
<1> USE DEF Fresh
<1>0. Versions = {} BY DEF Versions, Latest
<1>1. PlansStand /\ AsMeant BY <1>0 DEF PlansStand, AsMeant
<1>2. LatestFits BY <1>0 DEF LatestFits, Done
<1>3. DecisionsStand
  <2>1. \A c \in Callers : Holds(c) BY DEF Holds
  <2>2. \A i \in Items : Saved(i) BY DEF Saved
  <2> QED BY <1>0, <2>1, <2>2 DEF DecisionsStand
<1>4. CallersStand BY DEF CallersStand, Dispatching, Repairing, Improvising
<1>5. Room
  <2>1. Cycles = 0 /\ MaxCycles \in Nat \ {0} /\ Cardinality(Revisions) \in Nat BY CountsAreNumbers
  <2>2. 0 <= MaxCycles + Cardinality(Revisions) BY <2>1
  <2> QED BY <2>1, <2>2 DEF Room
<1>6. Approvals = run.base
  <2>1. {v \in Versions : Done(v, "approval")} = {} BY <1>0
  <2>2. Cardinality({v \in Versions : Done(v, "approval")}) = 0 BY <2>1, FS_EmptySet, Zenon
  <2>3. run.base \in Nat BY DEF PipelineTypeOK, Run
  <2> QED BY <2>2, <2>3 DEF Approvals
<1>7. WorkflowInv BY <1>0, <1>1 DEF WorkflowInv, RunFits, Settled, ReleaseStands
<1> QED BY <1>1, <1>2, <1>3, <1>4, <1>5, <1>6, <1>7 DEF PipelineInv, RunInv

LEMMA FreshRows ==
    /\ FreeCallers \in [Callers -> Caller] /\ \A c \in Callers : FreeCallers[c].pc = "idle"
    /\ [i \in Items |-> FreeDispatch] \in [Items -> Dispatch]
    /\ \A i \in Items : [j \in Items |-> FreeDispatch][i].owner = NoOne
    /\ [i \in Items |-> "none"] \in [Items -> Paths]
    /\ <<>> \in Seq(Plan) /\ Len(<<>>) = 0
<1>1. FreeDispatch \in Dispatch /\ FreeDispatch.owner = NoOne BY DEF FreeDispatch, Dispatch, Paths
<1>2. "none" \in Paths BY DEF Paths
<1> QED BY <1>1, <1>2, IdleIsCaller DEF FreeCallers

LEMMA InitKeeps == Init => PipelineInv
<1> SUFFICES ASSUME Init PROVE PipelineInv OBVIOUS
<1>1. run \in Run BY ItemsFromZero DEF Init, Run
<1>2. PipelineTypeOK
  <2>1. refused \in BOOLEAN BY Zenon DEF Init
  <2> QED BY <1>1, <2>1, FreshRows, BoundAssumption DEF Init, PipelineTypeOK
<1>3. shipped <= run.base BY DEF Init
<1> QED BY <1>2, <1>3, FreshRows, EmptyRun DEF Init, Latest, Fresh

LEMMA CreateRevisionRunKeeps ==
    ASSUME PipelineInv, NEW kind \in {"product_change", "implementation_repair"}, CreateRevisionRun(kind)
    PROVE  Kept
<1>0. PipelineTypeOK /\ PlansStand /\ shipped <= Approvals BY DEF PipelineInv, RunInv
<1>3. ~Active BY DEF CreateRevisionRun
<1>1. CASE Approvals = 0
  <2>1. refused' \in BOOLEAN /\ UNCHANGED <<run, plans, caller, dispatch, decision, shipped>>
    <3>1. refused' = (kind = "product_change") /\ UNCHANGED <<run, plans, caller, dispatch, decision, shipped>>
      BY <1>1 DEF CreateRevisionRun
    <3>2. (kind = "product_change") \in BOOLEAN OBVIOUS
    <3> QED BY <3>1, <3>2
  <2>2. PipelineTypeOK' BY <1>0, <2>1, Zenon DEF PipelineTypeOK
  <2>3. Silent /\ SameRun BY <2>1 DEF Silent, SameRun
  <2> QED BY <2>2, <2>3, HoldStep
<1>2. CASE Approvals # 0
  <2>1. PICK a \in Nat : a = Approvals BY <1>0, ApprovalsAreIntents
  <2>2. PICK n \in Nat : n = run.number + 1 BY <1>0 DEF PipelineTypeOK, Run
  <2>3. /\ run' = [status |-> "queued", stage |-> "none", kind |-> kind, base |-> a, lost |-> 0, number |-> n]
        /\ plans' = <<>> /\ caller' = FreeCallers
        /\ dispatch' = [i \in Items |-> FreeDispatch] /\ decision' = [i \in Items |-> "none"]
        /\ UNCHANGED <<shipped, refused>>
    BY <1>2, <2>1, <2>2 DEF CreateRevisionRun
  <2>4. run' \in Run /\ run'.status = "queued" /\ run'.base = a BY <2>3, ItemsFromZero DEF Run
  <2>5. PipelineTypeOK'
    <3>1. Len(plans') <= PlanBound BY <2>3, FreshRows, BoundAssumption
    <3>2. refused' \in BOOLEAN BY <1>0, <2>3, Zenon DEF PipelineTypeOK
    <3> QED BY <1>0, <2>3, <2>4, <3>1, <3>2, FreshRows DEF PipelineTypeOK
  <2>6. (Latest = 0)' BY <2>3, FreshRows DEF Latest
  <2>7. (\A i \in Items : decision[i] = "none" /\ dispatch[i].owner = NoOne)'
    BY <2>3, FreshRows
  <2>8. (\A c \in Callers : caller[c].pc = "idle")' BY <2>3, FreshRows
  <2>9. Fresh' BY <1>0, <2>1, <2>3, <2>4, <2>5, <2>6, <2>7, <2>8 DEF Fresh
  <2>10. PipelineInv' /\ (Approvals = run.base)' BY <2>9, EmptyRun, PTL
  <2> QED BY <1>3, <2>1, <2>4, <2>10 DEF Kept
<1> QED BY <1>1, <1>2

-----------------------------------------------------------------------------
(* Every step keeps the invariant *)

LEMMA PipelineStep == PipelineInv /\ [Next]_vars => Kept
<1> SUFFICES ASSUME PipelineInv, [Next]_vars PROVE Kept OBVIOUS
<1>1. CASE UserStep
  <2>1. ASSUME NEW kind \in {"product_change", "implementation_repair"}, CreateRevisionRun(kind)
        PROVE  Kept
    BY <2>1, CreateRevisionRunKeeps
  <2>2. ASSUME NEW i \in Items, CreateClarificationPlan(i) PROVE Kept BY <2>2, ClarificationKeeps
  <2>3. ASSUME NEW i \in Items, ApproveRequirements(i) PROVE Kept BY <2>3, ApproveKeeps
  <2>4. ASSUME NEW i \in Items, ResolveByRevision(i) PROVE Kept BY <2>4, RevisionKeeps
  <2>5. ASSUME NEW i \in Items, RetryBlockedQuality(i) PROVE Kept BY <2>5, RetryKeeps
  <2>6. ASSUME NEW c \in Callers, NEW i \in Items, ClaimDispatch(c, i) PROVE Kept
    BY <2>6, ClaimDispatchKeeps
  <2>7. ASSUME NEW c \in Callers, NEW i \in Items, DecideQuality(c, i, TRUE) PROVE Kept
    BY <2>7, DecideQualityKeeps
  <2>8. ASSUME NEW i \in Items, DispatchRepair(i) PROVE Kept BY <2>8, DispatchRepairKeeps
  <2>9. ASSUME NEW c \in Callers, NEW i \in Items, NEW path \in {"direct", "designed"}, LeadRepair(c, i, path)
        PROVE  Kept
    BY <2>9, LeadRepairKeeps
  <2> QED BY <1>1, <2>1, <2>2, <2>3, <2>4, <2>5, <2>6, <2>7, <2>8, <2>9, CancelKeeps DEF UserStep
<1>2. CASE Fault
  <2>1. ASSUME NEW c \in Callers, Crash(c) PROVE Kept BY <2>1, IdleKeeps DEF Crash
  <2>2. ASSUME NEW c \in Callers, DispatchFails(c) PROVE Kept BY <2>2, DispatchFailsKeeps
  <2>3. ASSUME NEW i \in Items, LeaseExpires(i) PROVE Kept BY <2>3, LeaseExpiresKeeps
  <2>4. ASSUME NEW i \in Items, GiveUpHandOff(i) PROVE Kept BY <2>4, GiveUpHandOffKeeps
  <2> QED BY <1>2, <2>1, <2>2, <2>3, <2>4 DEF Fault
<1>3. CASE StartStep
  BY <1>3, RequirementsPlanKeeps, RevisionRepairKeeps DEF StartStep
<1>4. ASSUME NEW v \in Items \ {0}, CompleteStep(v) PROVE Kept
  <2>1. ASSUME NEW result \in {"questions", "features"}, Complete(v, "product_manager", result)
        PROVE  Kept
    BY <2>1, CompleteKeeps DEF Results
  <2>2. ASSUME Complete(v, "architect", "design") PROVE Kept BY <2>2, CompleteKeeps DEF Results
  <2>3. ASSUME Complete(v, "developer", "code") PROVE Kept BY <2>3, CompleteKeeps DEF Results
  <2>4. ASSUME NEW verdict \in {"passed", "failed", "blocked", "challenged"}, CompleteQuality(v, verdict)
        PROVE  Kept
    BY <2>4, CompleteQualityKeeps
  <2> QED BY <1>4, <2>1, <2>2, <2>3, <2>4 DEF CompleteStep
<1>5. ASSUME NEW v \in Items \ {0}, HandOff(v) PROVE Kept
  <2>1. ASSUME NEW c \in Callers, DecideQuality(c, v, FALSE) PROVE Kept
    BY <2>1, DecideQualityKeeps
  <2> QED BY <1>5, <2>1, DispatchDesignKeeps, DispatchCodeKeeps DEF HandOff
<1>6. ASSUME NEW c \in Callers, CallerStep(c) PROVE Kept
  <2>1. ASSUME NEW path \in {"direct", "designed"}, Lead(c, path) PROVE Kept BY <2>1, LeadKeeps
  <2>2. ASSUME Overtaken(c) PROVE Kept BY <2>2, IdleKeeps DEF Overtaken
  <2> QED BY <1>6, <2>1, <2>2, RecordKeeps, CreateDeliveryKeeps, StageRepairKeeps,
       SaveLeadersPlanKeeps DEF CallerStep
<1>7. CASE UNCHANGED vars BY <1>7, StutterKeeps
<1> QED BY <1>1, <1>2, <1>3, <1>4, <1>5, <1>6, <1>7, ClaimKeeps DEF Next

\* The invariant holds of every reachable state.
THEOREM PipelineInvariant == Spec => []PipelineInv
<1>1. Init => PipelineInv BY InitKeeps
<1>2. PipelineInv /\ [Next]_vars => PipelineInv' BY PipelineStep DEF Kept
<1> QED BY <1>1, <1>2, PTL DEF Spec

-----------------------------------------------------------------------------
(* The properties *)

\* Rows have the values the code writes, whatever the bounds.
THEOREM PipelineTyped == Spec => []PipelineTypeOK
<1>1. PipelineInv => PipelineTypeOK BY Typed
<1> QED BY <1>1, PipelineInvariant, PTL

\* A stale caller, a replay or a second caller never forks the chain of plans, whatever the
\* Leader puts into it (require_latest_plan, stage_plan).
THEOREM ChainNeverForks == Spec => []NoFork
<1>1. PipelineInv => NoFork BY DEF PipelineInv, RunInv, PlansStand, NoFork, LeadersOwn
<1> QED BY <1>1, PipelineInvariant, PTL

\* A release is the requirement the user approved last, unless the Leader wrote a plan of the
\* run, and it ends its run (complete_test_engineer_task).
THEOREM ReleaseIsApproved == Spec => []ReleasedAsApproved
<1>1. PipelineInv => ReleasedAsApproved
  <2> SUFFICES ASSUME PipelineInv PROVE ReleasedAsApproved OBVIOUS
  <2>1. Latest > 0 => Latest \in Versions BY PlanFields, Typed DEF Versions, Latest
  <2>2. Latest > 0 /\ LatestPlan.result = "passed" => run.status = "succeeded"
    BY <2>1 DEF PipelineInv, RunInv, PlansStand, Linked, LatestPlan
  <2>3. run.status = "succeeded" /\ LeadersOwn = {} => shipped = Approvals
    BY DEF PipelineInv, WorkflowInv, ReleaseStands
  <2> QED BY <2>2, <2>3 DEF ReleasedAsApproved
<1> QED BY <1>1, PipelineInvariant, PTL

\* Whoever makes the task the workflow owes an approved requirement makes the one the
\* recorded decision names (claim_dispatch, save_dispatch, record_decision).
THEOREM DecisionIsHonoured == Spec => []DecisionHonoured
<1>1. PipelineInv => DecisionHonoured
  BY DEF PipelineInv, RunInv, DecisionHonoured, DecisionsStand, Decided
<1> QED BY <1>1, PipelineInvariant, PTL

\* The page says stopped of an active run between a design and its hand-off only
\* (get_requirements_status).
THEOREM StoppedIsStopped == Spec => []StoppedMeansOver
<1>1. PipelineInv => StoppedMeansOver
  <2> SUFFICES ASSUME PipelineInv, Active, Shown = "stopped"
               PROVE  LatestPlan.role = "architect" /\ LatestPlan.status = "succeeded"
    BY DEF StoppedMeansOver
  <2>1. CASE plans = <<>> BY <2>1 DEF Shown
  <2>2. CASE plans # <<>>
    <3>1. Latest \in Versions
      <4>1. plans \in Seq(Plan) BY Typed DEF PipelineTypeOK
      <4> QED BY <2>2, <4>1, EmptySeq DEF Versions, Latest
    <3>2. /\ LatestPlan.role \in Roles
          /\ LatestPlan.status \in {"pending", "running", "succeeded", "cancelled"}
      BY <3>1, PlanFields, Typed DEF LatestPlan
    <3>3. /\ LatestPlan.status # "cancelled"
          /\ LatestPlan.status = "running" => InStage(StageOf(LatestPlan.role))
      <4>1. Linked(Latest) /\ LatestFits /\ Latest # 0
        BY <3>1, Typed, PlanFields DEF PipelineInv, RunInv, PlansStand, Versions, Latest
      <4> QED BY <4>1 DEF Linked, LatestFits, LatestPlan
    <3>4. LatestPlan.role = "developer" /\ LatestPlan.status = "succeeded" => InStage("developer")
      BY <3>1 DEF PipelineInv, RunInv, LatestFits, Done, LatestPlan
    <3>5. CASE LatestPlan.role = "qa"
      <4>1. QualityShown = "stopped" BY <2>2, <3>5 DEF Shown
      <4> QED BY <3>2, <3>3, <3>5, <4>1 DEF QualityShown, Pending, Running, Finished, InStage, StageOf
    <3>6. CASE LatestPlan.role = "architect"
      <4>1. DesignShown = "stopped" BY <2>2, <3>6 DEF Shown
      <4> QED BY <3>2, <3>3, <3>6, <4>1 DEF DesignShown, PendingShown, Pending, Running, InStage, StageOf
    <3>7. CASE LatestPlan.role = "developer"
      <4>1. EngineeringShown = "stopped" BY <2>2, <3>7 DEF Shown
      <4> QED BY <3>2, <3>3, <3>4, <3>7, <4>1 DEF EngineeringShown, PendingShown, Pending, Running, Finished, InStage, StageOf
    <3>8. CASE LatestPlan.role \in {"product_manager", "approval"}
      <4>1. RequirementsShown = "stopped" BY <2>2, <3>8 DEF Shown
      <4> QED BY <4>1 DEF RequirementsShown
    <3> QED BY <3>2, <3>5, <3>6, <3>7, <3>8 DEF Roles
  <2> QED BY <2>1, <2>2
<1> QED BY <1>1, PipelineInvariant, PTL

\* A run is validated MAX_QUALITY_CYCLES times, plus once for each change of intent
\* (dispatch_quality_repair, retry_blocked_quality_validation).
THEOREM CyclesAreBounded == Spec => []CyclesBounded
<1>1. PipelineInv => CyclesBounded BY DEF PipelineInv, RunInv, Room, CyclesBounded
<1> QED BY <1>1, PipelineInvariant, PTL

-----------------------------------------------------------------------------
(* The promise (Delivery) *)

\* A run without a plan of the Leader's own.
Unled == PipelineInv /\ LeadersOwn = {}
LEMMA UnledFacts ==
    Unled => /\ PipelineTypeOK /\ PlansStand /\ LatestFits /\ CallersStand
             /\ Settled /\ RunFits /\ AsMeant
BY DEF Unled, PipelineInv, RunInv, WorkflowInv, RunFits

\* A set of versions that is not empty has a last member.
LEMMA LastOf ==
    ASSUME NEW n \in Nat, NEW S, S \subseteq 0 .. n, S # {}
    PROVE  \E d \in S : \A w \in S : w <= d
<1> DEFINE T == {n - d : d \in S}
<1>0. \A d \in S : n - d \in Nat OBVIOUS
<1>1. T \subseteq Nat /\ T # {}
  <2>1. T \subseteq Nat BY <1>0
  <2>2. PICK d : d \in S OBVIOUS
  <2>3. n - d \in T BY <2>2
  <2> QED BY <2>1, <2>3
<1>2. PICK t \in T : \A u \in T : ~(<<u, t>> \in OpToRel(<, Nat))
  BY <1>1, NatLessThanWellFounded, WFMin
<1>3. \A u \in T : ~(u < t) BY <1>1, <1>2 DEF OpToRel
<1>4. PICK d \in S : t = n - d BY <1>2
<1>5. \A w \in S : ~(n - w < n - d) BY <1>3, <1>4
<1>6. ASSUME NEW w \in S PROVE w <= d
  <2>1. w \in Int /\ d \in Int /\ ~(n - w < n - d) BY <1>5
  <2> QED BY <2>1
<1> QED BY <1>6

\* The candidate is what the last code was built from.
LastCode(d) == d \in Codes /\ \A w \in Codes : w <= d
CandidateOfLast ==
    \A d \in Nat : Codes \subseteq Nat /\ LastCode(d) => Candidate = IntentOf(SpecBehind(d))
LEMMA CandidateIs == CandidateOfLast
<1> USE DEF CandidateOfLast
<1> SUFFICES ASSUME NEW d \in Nat, Codes \subseteq Nat, LastCode(d)
             PROVE  Candidate = IntentOf(SpecBehind(d))
  OBVIOUS
<1>1. PICK e : e = (CHOOSE v \in Codes : \A w \in Codes : w <= v) OBVIOUS
<1>2. e \in Codes /\ \A w \in Codes : w <= e BY <1>1 DEF LastCode
<1>3. e = d BY <1>2 DEF LastCode
<1>4. Codes # {} BY DEF LastCode
<1> QED BY <1>1, <1>3, <1>4 DEF Candidate

LEMMA CodesAreVersions == PipelineTypeOK => Codes \subseteq Nat /\ Codes \subseteq 0 .. Latest /\ Latest \in Nat
BY PlanFields DEF Codes, Versions, Latest

\* A step that publishes no code leaves the candidate alone.
LEMMA CandidateKept ==
    ASSUME PipelineInv, PipelineTypeOK', Keeps, Codes' = Codes
    PROVE  Candidate' = Candidate
<1>0. PipelineTypeOK /\ PlansStand BY DEF PipelineInv, RunInv
<1>1. CASE Codes = {} BY <1>1 DEF Candidate
<1>2. CASE Codes # {}
  <2>1. Latest \in Nat /\ Codes \subseteq 0 .. Latest /\ Codes \subseteq Versions /\ Codes \subseteq Nat
    BY <1>0, CodesAreVersions DEF Codes
  <2>2. PICK d \in Codes : LastCode(d) BY <1>2, <2>1, LastOf DEF LastCode
  <2>3. d \in Nat /\ LastCode(d)' BY <2>1, <2>2 DEF LastCode
  <2>4. Candidate = IntentOf(SpecBehind(d)) BY <2>1, <2>2, <2>3, CandidateIs DEF CandidateOfLast
  <2>5. (Codes \subseteq Nat /\ LastCode(d) => Candidate = IntentOf(SpecBehind(d)))'
    <3>1. CandidateOfLast' BY CandidateIs, PTL
    <3> QED BY <2>3, <3>1 DEF CandidateOfLast
  <2>6. SpecBehind(d)' = SpecBehind(d) /\ SpecBehind(d) \in 0 .. d - 1 /\ d \in 1 .. Latest
    BY <1>0, <2>1, LinksKept DEF Codes, Versions, Latest
  <2>7. PICK s \in 0 .. Latest : s = SpecBehind(d) BY <2>1, <2>6
  <2>8. IntentOf(SpecBehind(d))' = IntentOf(s)' BY <2>6, <2>7 DEF IntentOf
  <2>9. IntentOf(s)' = IntentOf(s) BY <1>0, LinksKept
  <2> QED BY <2>1, <2>3, <2>4, <2>5, <2>7, <2>8, <2>9
<1> QED BY <1>1, <1>2

\* A run has plans exactly when it has a latest one.
LEMMA NoPlans == PipelineTypeOK => (plans = <<>> <=> Latest = 0) /\ (Latest # 0 => Latest \in Versions)
<1> SUFFICES ASSUME PipelineTypeOK PROVE (plans = <<>> <=> Latest = 0) /\ (Latest # 0 => Latest \in Versions)
  OBVIOUS
<1>1. plans \in Seq(Plan) BY DEF PipelineTypeOK
<1> QED BY <1>1, EmptySeq, PlanFields DEF Latest, Versions

\* The phase of an active run is that of its latest plan.
ActivePhase ==
    PipelineTypeOK /\ Active =>
        /\ Latest = 0 => Phase = IF run.kind = "implementation_repair" THEN "building" ELSE "intent"
        /\ Latest # 0 =>
            /\ LatestPlan.role = "product_manager" => Phase = "intent"
            /\ LatestPlan.role \in {"approval", "architect"} => Phase = "building"
            /\ LatestPlan.role = "developer" =>
                Phase = IF LatestPlan.status = "succeeded" THEN "validating" ELSE "building"
            /\ LatestPlan.role = "qa" =>
                Phase = IF LatestPlan.status = "succeeded" THEN "rejected" ELSE "validating"
LEMMA PhaseIs == ActivePhase
<1> USE DEF ActivePhase
<1> SUFFICES ASSUME PipelineTypeOK, Active PROVE ActivePhase OBVIOUS
<1>1. run.status \in {"queued", "running"} /\ (plans = <<>> <=> Latest = 0) BY NoPlans DEF Active
<1> QED BY <1>1 DEF Phase, Active
PhaseOver ==
    /\ run.status = "succeeded" => Phase = "released"
    /\ run.status \in {"failed", "cancelled"} => Phase = "stopped"
LEMMA PhaseEnds == PhaseOver
BY DEF PhaseOver, Phase, Active

\* A run that has not ended is in one of the phases that can be stopped.
LEMMA ActivePhases == PipelineTypeOK /\ Active => Phase \in Promise!Open
<1> SUFFICES ASSUME PipelineTypeOK, Active PROVE Phase \in Promise!Open OBVIOUS
<1>1. Latest # 0 => LatestPlan.role \in Roles BY NoPlans, PlanFields DEF LatestPlan
<1> QED BY <1>1, PhaseIs DEF ActivePhase, Roles, Promise!Open

\* A step that leaves the state of the run, its plans and the release alone is invisible.
LEMMA SameRows ==
    ASSUME PipelineInv, PipelineTypeOK', SameRun
    PROVE  UNCHANGED Promise!deliveryVars
<1>1. Keeps /\ Latest' = Latest /\ Versions' = Versions /\ Approvals' = Approvals /\ LeadersOwn' = LeadersOwn
  BY SameRunKeeps
<1>2. \A v, role : Done(v, role)' = Done(v, role) BY <1>1, Zenon DEF Done, SameRun
<1>3. Codes' = Codes BY <1>1, <1>2, Zenon DEF Codes
<1>4. Candidate' = Candidate BY <1>1, <1>3, CandidateKept
<1>5. Phase' = Phase BY <1>1 DEF Phase, Active, LatestPlan, SameRun
<1> QED BY <1>1, <1>4, <1>5 DEF Promise!deliveryVars, SameRun

-----------------------------------------------------------------------------
(* What each step does to the promise *)

\* A new plan of an active run.
Adds(p) ==
    /\ plans' = Append(plans, p) /\ Active /\ Active'
    /\ run'.base = run.base /\ run'.kind = run.kind /\ UNCHANGED shipped
    /\ p.status = IF p.role = "approval" THEN "succeeded" ELSE "pending"

LEMMA AddMaps ==
    ASSUME Unled, Unled', NEW p, Adds(p)
    PROVE  /\ Candidate' = Candidate /\ shipped' = shipped
           /\ Approvals' = IF p.role = "approval" THEN Approvals + 1 ELSE Approvals
           /\ p.role = "product_manager" => Phase' = "intent"
           /\ p.role \in {"approval", "architect", "developer"} => Phase' = "building"
           /\ p.role = "qa" => Phase' = "validating"
<1>0. PipelineTypeOK /\ PlansStand /\ PipelineInv /\ PipelineTypeOK' BY DEF Unled, PipelineInv, RunInv
<1>1. PICK m \in Nat : m = Latest BY <1>0, PlanFields
<1>2. /\ Latest' = m + 1 /\ Versions' = 1 .. m + 1 /\ Versions = 1 .. m /\ plans'[m + 1] = p
      /\ \A v \in Versions : plans'[v] = plans[v]
      /\ \A v : v \in 1 .. m + 1 <=> v \in 1 .. m \/ v = m + 1
      /\ m + 1 \notin 1 .. m /\ m + 1 # 0
  <2>1. plans \in Seq(Plan \union {p}) BY <1>0, SeqMonotonic DEF PipelineTypeOK
  <2>2. /\ Len(plans') = Len(plans) + 1 /\ plans'[Len(plans) + 1] = p
        /\ \A v \in 1 .. Len(plans) : plans'[v] = plans[v]
    BY <2>1, AppendProperties DEF Adds
  <2> QED BY <1>1, <2>2 DEF Latest, Versions
<1>3. Keeps
  <2>1. run'.base = run.base /\ run'.kind = run.kind BY DEF Adds
  <2>2. Latest <= Latest' BY <1>1, <1>2
  <2> QED BY <1>2, <2>1, <2>2 DEF Keeps
<1>4. \A v \in 1 .. m : \A role : Done(v, role)' <=> Done(v, role) BY <1>2 DEF Done
<1>5. Codes' = Codes
  <2>1. ~Done(m + 1, "developer")' BY <1>2 DEF Done, Adds
  <2> QED BY <1>2, <1>4, <2>1 DEF Codes
<1>6. Candidate' = Candidate BY <1>0, <1>3, <1>5, CandidateKept
<1>7. Approvals' = IF p.role = "approval" THEN Approvals + 1 ELSE Approvals
  <2> DEFINE S == {v \in Versions : Done(v, "approval")}
  <2>1. Approvals = run.base + Cardinality(S) /\ Approvals' = run'.base + Cardinality(S')
        /\ run'.base = run.base /\ run.base \in Nat
    BY <1>0 DEF Approvals, Adds, PipelineTypeOK, Run
  <2>2. S \subseteq 1 .. m BY <1>2
  <2>3. IsFiniteSet(S) BY <1>0, <1>1, <2>2, FiniteVersions
  <2>4. Done(m + 1, "approval")' <=> p.role = "approval" BY <1>2 DEF Done, Adds
  <2>5. S' = {v \in 1 .. m + 1 : Done(v, "approval")'} BY <1>2
  <2>6. \A v : v \in S' <=> v \in S \/ (v = m + 1 /\ p.role = "approval")
    BY <1>2, <1>4, <2>4, <2>5
  <2>7. m + 1 \notin S BY <1>2, <2>2
  <2>8. /\ Cardinality(S) \in Nat
        /\ p.role = "approval" => Cardinality(S') = Cardinality(S) + 1
        /\ p.role # "approval" => Cardinality(S') = Cardinality(S)
    <3> HIDE DEF S
    <3> QED BY <2>3, <2>6, <2>7, OneMore
  <2> HIDE DEF S
  <2> QED BY <2>1, <2>8
<1>8. LatestPlan' = p /\ Latest' # 0 BY <1>2 DEF LatestPlan
<1>9. /\ p.role = "product_manager" => Phase' = "intent"
      /\ p.role \in {"approval", "architect", "developer"} => Phase' = "building"
      /\ p.role = "qa" => Phase' = "validating"
  <2>1. ActivePhase' BY PhaseIs, PTL
  <2> QED BY <1>0, <1>8, <2>1 DEF ActivePhase, Adds
<1> QED BY <1>6, <1>7, <1>9 DEF Adds

\* A new plan that does not change the phase is invisible.
LEMMA AddStutters ==
    ASSUME Unled, Unled', NEW p, Adds(p), p.role # "approval", Phase' = Phase
    PROVE  UNCHANGED Promise!deliveryVars
BY AddMaps DEF Promise!deliveryVars, Unled

LEMMA NewPlanFields ==
    \A role, input, report :
        /\ NewPlan(role, input, report).role = role
        /\ NewPlan(role, input, report).status = "pending"
BY DEF NewPlan

\* The latest plan of an active run tells its phase.
LEMMA PhaseOfLatest ==
    ASSUME Unled, Active, NEW role, Done(Latest, role)
    PROVE  /\ role = "product_manager" => Phase = "intent"
           /\ role \in {"approval", "architect"} => Phase = "building"
           /\ role = "developer" => Phase = "validating"
           /\ role = "qa" => Phase = "rejected"
<1>1. Latest # 0 BY PlanFields DEF Unled, PipelineInv, RunInv, Done, Versions
<1> QED BY <1>1, PhaseIs DEF Unled, PipelineInv, RunInv, ActivePhase, Done, LatestPlan

LEMMA RequirementsPlanMaps ==
    ASSUME Unled, Unled', CreateInitialPlan \/ CreateProductRevisionPlan
    PROVE  UNCHANGED Promise!deliveryVars
<1> DEFINE p == NewPlan("product_manager", 0, 0)
<1>1. Adds(p) /\ p.role = "product_manager" /\ Latest = 0
  BY NewPlanFields, PlanFields
     DEF Unled, PipelineInv, RunInv, Adds, CreateInitialPlan, CreateProductRevisionPlan, FirstPlan, StagePlan, Bookkeeping, Active
<1>2. Phase = "intent"
  BY <1>1, PhaseIs
     DEF Unled, PipelineInv, RunInv, ActivePhase, CreateInitialPlan, CreateProductRevisionPlan, FirstPlan, Recipient, Adds
<1> HIDE DEF p
<1> QED BY <1>1, <1>2, AddMaps, AddStutters

LEMMA ClarificationMaps ==
    ASSUME Unled, Unled', NEW i, CreateClarificationPlan(i)
    PROVE  UNCHANGED Promise!deliveryVars
<1> DEFINE p == NewPlan("product_manager", i, 0)
<1>1. Adds(p) /\ p.role = "product_manager"
  BY NewPlanFields DEF Adds, CreateClarificationPlan, StagePlan, Bookkeeping, Active
<1>2. Phase = "intent"
  BY <1>1, PhaseOfLatest DEF CreateClarificationPlan, Adds
<1> HIDE DEF p
<1> QED BY <1>1, <1>2, AddMaps, AddStutters

LEMMA ApproveMaps ==
    ASSUME Unled, Unled', NEW i, ApproveRequirements(i)
    PROVE  Promise!Approve
<1> DEFINE p == ApprovalPlan(i)
<1>1. p.role = "approval" /\ p.status = "succeeded" BY DEF ApprovalPlan, NewPlan
<1>2. Adds(p)
  BY <1>1 DEF Adds, ApproveRequirements, StagePlan, Bookkeeping, Active
<1> HIDE DEF p
<1>3. Phase = "intent"
  BY <1>2, PhaseOfLatest DEF ApproveRequirements, Adds
<1>4. Phase' = "building" /\ Approvals' = Approvals + 1 /\ Candidate' = Candidate /\ shipped' = shipped
  BY <1>1, <1>2, AddMaps
<1> QED BY <1>3, <1>4 DEF Promise!Approve, Unled

LEMMA RevisionMaps ==
    ASSUME Unled, Unled', NEW r, ResolveByRevision(r)
    PROVE  Promise!Recover
<1> DEFINE p == NewPlan("product_manager", SpecBehind(r), 0)
<1>1. Adds(p) /\ p.role = "product_manager"
  <2>1. run' = [run EXCEPT !.stage = "pm"] /\ run \in Run
    BY DEF Unled, PipelineInv, RunInv, ResolveByRevision, PipelineTypeOK
  <2>2. run'.status = run.status /\ run'.base = run.base /\ run'.kind = run.kind BY <2>1 DEF Run
  <2> QED BY <2>2, NewPlanFields DEF Adds, ResolveByRevision, RevisionPlan, StagePlan, Bookkeeping, Active
<1>2. Phase = "rejected"
  BY <1>1, PhaseOfLatest DEF ResolveByRevision, RevisionPlan, Adds
<1> HIDE DEF p
<1>3. Phase' = "intent" /\ Approvals' = Approvals /\ Candidate' = Candidate /\ shipped' = shipped
  BY <1>1, AddMaps
<1> QED BY <1>2, <1>3 DEF Promise!Recover, Unled

LEMMA RetryMaps ==
    ASSUME Unled, Unled', NEW r, RetryBlockedQuality(r)
    PROVE  Promise!Recover
<1> DEFINE p == NewPlan("qa", plans[r].input, 0)
<1>1. Adds(p) /\ p.role = "qa"
  BY NewPlanFields DEF Adds, RetryBlockedQuality, StagePlan, Bookkeeping, Active
<1>2. Phase = "rejected"
  BY <1>1, PhaseOfLatest DEF RetryBlockedQuality, Adds
<1> HIDE DEF p
<1>3. Phase' = "validating" /\ Approvals' = Approvals /\ Candidate' = Candidate /\ shipped' = shipped
  BY <1>1, AddMaps
<1> QED BY <1>2, <1>3 DEF Promise!Recover, Unled

LEMMA RevisionRepairMaps ==
    ASSUME Unled, Unled', DispatchRevisionRepair
    PROVE  UNCHANGED Promise!deliveryVars
<1> DEFINE p == NewPlan("developer", 0, 0)
<1>1. Adds(p) /\ p.role = "developer" /\ Latest = 0
  <2>1. run' = [run EXCEPT !.status = "running", !.stage = "developer"] /\ run \in Run
    BY DEF Unled, PipelineInv, RunInv, DispatchRevisionRepair, Recipient, PipelineTypeOK
  <2>2. run'.status = "running" /\ run'.base = run.base /\ run'.kind = run.kind BY <2>1 DEF Run
  <2> QED BY <2>2, NewPlanFields, PlanFields
          DEF Unled, PipelineInv, RunInv, Adds, DispatchRevisionRepair, Recipient, StagePlan, Bookkeeping, Active
<1>2. Phase = "building" BY <1>1, PhaseIs DEF Unled, PipelineInv, RunInv, ActivePhase, DispatchRevisionRepair, Recipient, Adds
<1> HIDE DEF p
<1> QED BY <1>1, <1>2, AddMaps, AddStutters

LEMMA EngineeringMaps ==
    ASSUME Unled, Unled', NEW i, Active, Active', StageEngineering(i),
           Done(i, "approval") \/ Done(i, "architect"), UNCHANGED <<run, shipped>>
    PROVE  UNCHANGED Promise!deliveryVars
<1>1. CASE UNCHANGED plans
  <2>1. SameRun BY <1>1 DEF SameRun
  <2> QED BY <2>1, SameRows, UnledFacts DEF Unled, PipelineInv, RunInv
<1>2. CASE ~UNCHANGED plans
  <2> DEFINE p == NewPlan("developer", i, 0)
  <2>1. i = Latest /\ StagePlan(i + 1, p) BY <1>2 DEF StageEngineering
  <2>2. Adds(p) /\ p.role = "developer" BY <2>1, NewPlanFields DEF Adds, StagePlan
  <2>3. Phase = "building" BY <2>1, PhaseOfLatest
  <2> HIDE DEF p
  <2> QED BY <2>2, <2>3, AddMaps, AddStutters
<1> QED BY <1>1, <1>2

LEMMA ArchitectureMaps ==
    ASSUME Unled, Unled', NEW i, Active, Active', StageArchitecture(i),
           Done(i, "approval"), UNCHANGED <<run, shipped>>
    PROVE  UNCHANGED Promise!deliveryVars
<1>1. CASE UNCHANGED plans
  <2>1. SameRun BY <1>1 DEF SameRun
  <2> QED BY <2>1, SameRows, UnledFacts DEF Unled, PipelineInv, RunInv
<1>2. CASE ~UNCHANGED plans
  <2> DEFINE p == NewPlan("architect", i, 0)
  <2>1. i = Latest /\ StagePlan(i + 1, p) BY <1>2 DEF StageArchitecture
  <2>2. Adds(p) /\ p.role = "architect" BY <2>1, NewPlanFields DEF Adds, StagePlan
  <2>3. Phase = "building" BY <2>1, PhaseOfLatest
  <2> HIDE DEF p
  <2> QED BY <2>2, <2>3, AddMaps, AddStutters
<1> QED BY <1>1, <1>2

LEMMA CreateDeliveryMaps ==
    ASSUME Unled, Unled', NEW c \in Callers, CreateDelivery(c)
    PROVE  UNCHANGED Promise!deliveryVars
<1>1. InStage("pm") /\ UNCHANGED <<run, shipped>> /\ caller[c].pc = "create"
  BY DEF CreateDelivery, Required
<1>2. Active /\ Active' BY <1>1 DEF Active, InStage
<1>3. Done(caller[c].item, "approval") BY <1>1, UnledFacts DEF CallersStand, Dispatching
<1> QED BY <1>1, <1>2, <1>3, EngineeringMaps, ArchitectureMaps DEF CreateDelivery

LEMMA DispatchDesignMaps ==
    ASSUME Unled, Unled', NEW i, DispatchDesign(i)
    PROVE  UNCHANGED Promise!deliveryVars
<1>1. InStage("architect") /\ UNCHANGED <<run, shipped>> BY DEF DispatchDesign, Bookkeeping
<1>2. Active /\ Active' BY <1>1 DEF Active, InStage
<1> QED BY <1>1, <1>2, EngineeringMaps DEF DispatchDesign

LEMMA DispatchRepairMaps ==
    ASSUME Unled, Unled', NEW i, DispatchRepair(i)
    PROVE  UNCHANGED Promise!deliveryVars
<1> DEFINE p == Message(NewPlan("developer", i, 0))
<1>1. p.role = "developer" /\ p.status = "pending" BY DEF Message, NewPlan
<1>2. Adds(p)
  BY <1>1 DEF Adds, DispatchRepair, StagePlan, Bookkeeping, Active
<1> HIDE DEF p
<1>3. Phase = "building"
  BY <1>2, PhaseOfLatest DEF DispatchRepair, Adds
<1> QED BY <1>1, <1>2, <1>3, AddMaps, AddStutters

LEMMA DispatchCodeMaps ==
    ASSUME Unled, Unled', NEW i, DispatchCode(i)
    PROVE  UNCHANGED Promise!deliveryVars
<1> DEFINE p == NewPlan("qa", i, 0)
<1>1. Adds(p) /\ p.role = "qa"
  BY NewPlanFields DEF Adds, DispatchCode, StagePlan, Bookkeeping, Active
<1>2. Phase = "validating"
  BY <1>1, PhaseOfLatest DEF DispatchCode, TestInput, Adds
<1> HIDE DEF p
<1> QED BY <1>1, <1>2, AddMaps, AddStutters

LEMMA StageRepairMaps ==
    ASSUME Unled, Unled', NEW c \in Callers, StageRepair(c)
    PROVE  Promise!Recover
<1>0. PipelineTypeOK BY DEF Unled, PipelineInv, RunInv
<1>1. PICK r \in Items : r = caller[c].item BY <1>0, CallerFields
<1> DEFINE p == NewPlan("developer", plans[plans[r].input].input, r)
<1>2. StagePlan(caller[c].version, p) /\ UNCHANGED <<run, shipped>> /\ caller[c].pc = "repair"
  BY <1>1 DEF StageRepair
<1>3. Done(r, "qa") /\ caller[c].version = r + 1
  BY <1>1, <1>2, UnledFacts DEF CallersStand, Repairing
<1>4. r = Latest /\ Active BY <1>0, <1>2, <1>3, PlanFields DEF StagePlan, Done
<1>5. Adds(p) /\ p.role = "developer" BY <1>2, <1>4, NewPlanFields DEF Adds, StagePlan, Active
<1>6. Phase = "rejected" BY <1>3, <1>4, PhaseOfLatest
<1> HIDE DEF p
<1>7. Phase' = "building" /\ Approvals' = Approvals /\ Candidate' = Candidate /\ shipped' = shipped
  BY <1>5, AddMaps
<1> QED BY <1>6, <1>7 DEF Promise!Recover, Unled

\* A step that writes no plan, seen through the codes, the approvals and the release.
LEMMA TouchMaps ==
    ASSUME Unled, Unled', NEW v \in Versions, NEW p \in Plan, plans[v].status # "succeeded",
           plans' = [plans EXCEPT ![v] = p],
           p.author = plans[v].author, p.role = plans[v].role, p.input = plans[v].input, p.report = plans[v].report,
           p.number = plans[v].number, run'.base = run.base, run'.kind = run.kind
    PROVE  /\ v = Latest /\ Latest' = Latest /\ LatestPlan' = p /\ LatestPlan = plans[v]
           /\ Latest # 0 /\ Keeps /\ plans[v].role # "approval"
           /\ Approvals' = Approvals
           /\ Codes' = IF p.role = "developer" /\ p.status = "succeeded" THEN Codes \union {v} ELSE Codes
<1>0. PipelineTypeOK /\ Settled /\ PlansStand BY UnledFacts
<1>1. /\ Latest' = Latest /\ Versions' = Versions /\ plans'[v] = p
      /\ \A w \in Versions : w # v => plans'[w] = plans[w]
  BY <1>0, Replaced
<1>2. v = Latest /\ Latest # 0 /\ plans[v].role # "approval"
  BY <1>0, PlanFields DEF Settled, PlansStand, Linked, Versions
<1>3. Keeps BY <1>0, <1>1, PlanFields DEF Keeps
<1>4. {w \in Versions : Done(w, "approval")}' = {w \in Versions : Done(w, "approval")}
  BY <1>1, <1>2 DEF Done
<1>5. Approvals' = Approvals BY <1>4, Zenon DEF Approvals
<1>6. Codes' = IF p.role = "developer" /\ p.status = "succeeded" THEN Codes \union {v} ELSE Codes
  BY <1>1 DEF Codes, Done
<1> QED BY <1>1, <1>2, <1>3, <1>5, <1>6 DEF LatestPlan

LEMMA ClaimMaps ==
    ASSUME Unled, Unled', NEW v, Claim(v)
    PROVE  UNCHANGED Promise!deliveryVars
<1>0. PipelineTypeOK /\ PipelineTypeOK' /\ v \in Versions BY DEF Unled, PipelineInv, RunInv, Claim
<1> DEFINE p == [plans[v] EXCEPT !.status = "running"]
<1>1. /\ plans[v].status = "pending" /\ Active /\ UNCHANGED shipped
      /\ run' = [run EXCEPT !.status = "running", !.stage = StageOf(plans[v].role)]
      /\ plans' = [plans EXCEPT ![v] = p]
  BY DEF Claim, PlanRuns, Bookkeeping
<1>2. /\ p \in Plan /\ p.role = plans[v].role /\ p.input = plans[v].input /\ p.report = plans[v].report
      /\ p.author = plans[v].author /\ p.number = plans[v].number /\ p.status = "running"
  BY <1>0, PlanFields DEF Plan
<1> HIDE DEF p
<1>3. run'.base = run.base /\ run'.kind = run.kind /\ run'.status = "running"
  BY <1>0, <1>1 DEF PipelineTypeOK, Run
<1>4. /\ Latest' = Latest /\ LatestPlan' = p /\ LatestPlan = plans[v] /\ Latest # 0 /\ Keeps
      /\ plans[v].role # "approval"
      /\ Approvals' = Approvals /\ Codes' = Codes
  BY <1>0, <1>1, <1>2, <1>3, TouchMaps
<1>5. Candidate' = Candidate BY <1>0, <1>4, CandidateKept DEF Unled
<1>6. Phase' = Phase
  <2>1. Active' BY <1>3 DEF Active
  <2>2. ActivePhase /\ ActivePhase' BY PhaseIs, PTL
  <2>3. plans[v].role \in Roles BY <1>0, PlanFields
  <2> QED BY <1>0, <1>1, <1>2, <1>4, <2>1, <2>2, <2>3 DEF ActivePhase, Roles
<1> QED BY <1>1, <1>4, <1>5, <1>6 DEF Promise!deliveryVars, Unled

\* An unfinished plan in its stage.
LEMMA CompleteMaps ==
    ASSUME Unled, Unled', NEW v, NEW role \in {"product_manager", "architect", "developer"},
           NEW result \in Results \ {"passed"}, Complete(v, role, result)
    PROVE  Promise!Build \/ UNCHANGED Promise!deliveryVars
<1>0. PipelineTypeOK /\ PipelineTypeOK' /\ v \in Versions BY DEF Unled, PipelineInv, RunInv, Complete, RunningTask
<1> DEFINE p == [plans[v] EXCEPT !.status = "succeeded", !.result = result]
<1>1. /\ plans[v].status = "running" /\ plans[v].role = role /\ InStage(StageOf(role))
      /\ plans' = [plans EXCEPT ![v] = p] /\ UNCHANGED <<run, shipped>>
  BY DEF Complete, RunningTask, Publish, Bookkeeping
<1>2. /\ p \in Plan /\ p.role = plans[v].role /\ p.input = plans[v].input /\ p.report = plans[v].report
      /\ p.author = plans[v].author /\ p.number = plans[v].number /\ p.status = "succeeded"
  BY <1>0, PlanFields DEF Plan
<1> HIDE DEF p
<1>3. Active /\ Active' BY <1>1 DEF InStage, Active
<1>4. /\ v = Latest /\ Latest' = Latest /\ LatestPlan' = p /\ LatestPlan = plans[v] /\ Latest # 0 /\ Keeps
      /\ Approvals' = Approvals /\ Codes' = IF role = "developer" THEN Codes \union {v} ELSE Codes
  BY <1>0, <1>1, <1>2, TouchMaps
<1>5. ActivePhase /\ ActivePhase' BY PhaseIs, PTL
<1>6. CASE role # "developer"
  <2>1. Candidate' = Candidate BY <1>0, <1>4, <1>6, CandidateKept DEF Unled
  <2>2. Phase' = Phase BY <1>0, <1>1, <1>2, <1>3, <1>4, <1>5, <1>6 DEF ActivePhase
  <2> QED BY <1>1, <1>4, <2>1, <2>2 DEF Promise!deliveryVars, Unled
<1>7. CASE role = "developer"
  <2>1. Phase = "building" /\ Phase' = "validating"
    BY <1>0, <1>1, <1>2, <1>3, <1>4, <1>5, <1>7 DEF ActivePhase
  <2>2. Candidate' = Approvals
    <3>1. Codes \subseteq Nat /\ Codes \subseteq 0 .. Latest /\ v \in Nat BY <1>0, <1>4, CodesAreVersions
    <3>2. (Codes \subseteq Nat)' /\ LastCode(v)' BY <1>4, <1>7, <3>1 DEF LastCode
    <3>3. Candidate' = IntentOf(SpecBehind(v))'
      <4>1. CandidateOfLast' BY CandidateIs, PTL
      <4> QED BY <3>1, <3>2, <4>1 DEF CandidateOfLast
    <3>4. IntentOf(SpecBehind(v))' = Intent(v)'
      <4>1. v \in Versions' /\ plans'[v] = p BY <1>0, <1>1, <1>2, Replaced
      <4> QED BY <1>1, <1>2, <1>7, <4>1 DEF Unled, PipelineInv, WorkflowInv, AsMeant, Meant
    <3>5. Intent(v)' = Intent(v) BY <1>0, <1>4, ChainKept, UnledFacts
    <3>6. Intent(v) = Approvals BY <1>0, <1>4, ApprovalsAreIntents, UnledFacts
    <3> QED BY <3>3, <3>4, <3>5, <3>6
  <2> QED BY <1>1, <1>4, <2>1, <2>2 DEF Promise!Build, Unled
<1> QED BY <1>6, <1>7

LEMMA CompleteQualityMaps ==
    ASSUME Unled, Unled', NEW v, NEW verdict \in {"passed", "failed", "blocked", "challenged"},
           CompleteQuality(v, verdict)
    PROVE  Promise!Pass \/ Promise!Reject
<1>0. /\ PipelineTypeOK /\ PipelineTypeOK' /\ Settled /\ PlansStand /\ AsMeant
      /\ v \in Versions
  BY UnledFacts DEF Unled, PipelineInv, RunInv, CompleteQuality, RunningTask
<1> DEFINE p == [plans[v] EXCEPT !.status = "succeeded", !.result = verdict]
<1>1. /\ plans[v].status = "running" /\ plans[v].role = "qa" /\ InStage("qa")
      /\ plans' = [plans EXCEPT ![v] = p]
      /\ shipped' = IF verdict = "passed" THEN IntentOf(SpecBehind(v)) ELSE shipped
      /\ run' = IF verdict = "passed" THEN [run EXCEPT !.status = "succeeded"] ELSE run
  BY DEF CompleteQuality, RunningTask, StageOf, Publish
<1>2. /\ p \in Plan /\ p.role = plans[v].role /\ p.input = plans[v].input /\ p.report = plans[v].report
      /\ p.author = plans[v].author /\ p.number = plans[v].number /\ p.status = "succeeded"
  BY <1>0, PlanFields DEF Plan, Results
<1> HIDE DEF p
<1>3. /\ run'.base = run.base /\ run'.kind = run.kind
      /\ run'.status = IF verdict = "passed" THEN "succeeded" ELSE run.status
  BY <1>0, <1>1 DEF PipelineTypeOK, Run
<1>4. /\ v = Latest /\ Latest' = Latest /\ LatestPlan' = p /\ LatestPlan = plans[v] /\ Latest # 0 /\ Keeps
      /\ Approvals' = Approvals /\ Codes' = Codes
  BY <1>0, <1>1, <1>2, <1>3, TouchMaps
<1>5. Candidate' = Candidate BY <1>0, <1>4, CandidateKept DEF Unled
<1>6. ActivePhase /\ ActivePhase' /\ PhaseOver'
  BY PhaseIs, PhaseEnds, PTL
<1>7. Active BY <1>1 DEF InStage, Active
<1>8. Phase = "validating" BY <1>0, <1>1, <1>4, <1>6, <1>7 DEF ActivePhase
<1>9. CASE verdict = "passed"
  <2>1. Phase' = "released" BY <1>3, <1>6, <1>9 DEF PhaseOver
  <2>2. shipped' = Candidate
    <3>1. Wired(v) /\ plans[v].input \in Nat /\ plans[v].input < v BY <1>0, PlanFields DEF AsMeant, PlansStand, Linked
    <3>2. PICK d \in Nat : d = plans[v].input BY <3>1
    <3>3. /\ d # 0 /\ d < v /\ plans[d].role = "developer"
          /\ \A w \in d + 1 .. v : plans[w].role = "qa"
      BY <1>1, <3>1, <3>2 DEF Wired
    <3>4. v \in Nat /\ Versions = 1 .. v BY <1>0, <1>4, PlanFields DEF Versions, Latest
    <3>5. d \in Codes
      <4>1. d \in Versions /\ d # Latest BY <1>4, <3>3, <3>4
      <4> QED BY <1>0, <3>3, <4>1 DEF Codes, Done, Settled
    <3>6. \A w \in Codes : w <= d
      <4>1. \A w \in Codes : w \in 1 .. v /\ plans[w].role = "developer" BY <3>4 DEF Codes, Done
      <4>2. \A w \in 1 .. v : w <= d \/ w \in d + 1 .. v BY <3>4
      <4> QED BY <3>3, <4>1, <4>2
    <3>7. Candidate = IntentOf(SpecBehind(d))
      BY <1>0, <3>5, <3>6, CandidateIs, CodesAreVersions DEF CandidateOfLast, LastCode
    <3>8. SpecBehind(d) = SpecBehind(v) BY <1>1, <3>2, <3>3 DEF SpecBehind
    <3> QED BY <1>1, <1>9, <3>7, <3>8
  <2> QED BY <1>4, <1>5, <1>8, <2>1, <2>2 DEF Promise!Pass, Unled
<1>10. CASE verdict # "passed"
  <2>1. Active' BY <1>1, <1>7, <1>10 DEF Active
  <2>2. Phase' = "rejected" BY <1>0, <1>1, <1>2, <1>4, <1>6, <2>1 DEF ActivePhase
  <2> QED BY <1>1, <1>4, <1>5, <1>8, <1>10, <2>2 DEF Promise!Reject, Unled
<1> QED BY <1>9, <1>10

LEMMA DecideQualityMaps ==
    ASSUME Unled, Unled', NEW c \in Callers, NEW r, NEW resolved, DecideQuality(c, r, resolved)
    PROVE  Promise!Stop \/ UNCHANGED Promise!deliveryVars
<1>0. PipelineInv /\ PipelineTypeOK /\ PipelineTypeOK' BY DEF Unled, PipelineInv, RunInv
<1>1. CASE Cycles >= MaxCycles
  <2>1. run' = [run EXCEPT !.status = "failed"] /\ UNCHANGED <<plans, shipped>> /\ Active
    BY <1>1 DEF DecideQuality, InStage, Active
  <2>2. run'.status = "failed" /\ run'.base = run.base /\ run'.kind = run.kind
    BY <1>0, <2>1 DEF PipelineTypeOK, Run
  <2>3. Versions' = Versions /\ Latest' = Latest BY <2>1 DEF Versions, Latest
  <2>4. Keeps BY <1>0, <2>1, <2>2, <2>3, PlanFields DEF Keeps
  <2>5. \A w, role : Done(w, role)' = Done(w, role) BY <2>1, <2>3, Zenon DEF Done
  <2>6. Approvals' = Approvals BY <2>2, <2>3, <2>5, Zenon DEF Approvals
  <2>7. Codes' = Codes BY <2>3, <2>5, Zenon DEF Codes
  <2>8. Candidate' = Candidate BY <1>0, <2>4, <2>7, CandidateKept
  <2>9. PhaseOver' BY PhaseEnds, PTL
  <2> QED BY <1>0, <2>1, <2>2, <2>6, <2>8, <2>9, ActivePhases DEF PhaseOver, Promise!Stop, Unled
<1>2. CASE ~(Cycles >= MaxCycles)
  <2>1. SameRun BY <1>2 DEF DecideQuality, SameRun
  <2> QED BY <2>1, SameRows DEF Unled, PipelineInv, RunInv
<1> QED BY <1>1, <1>2

LEMMA CancelMaps ==
    ASSUME Unled, Unled', CancelActiveRun
    PROVE  Promise!Stop
<1>0. PipelineInv /\ PipelineTypeOK /\ PipelineTypeOK' BY DEF Unled, PipelineInv, RunInv
<1>1. /\ Active /\ run' = [run EXCEPT !.status = "cancelled"] /\ UNCHANGED shipped
      /\ plans' = [v \in Versions |->
                    IF plans[v].status \in {"pending", "running"}
                    THEN [plans[v] EXCEPT !.status = "cancelled"] ELSE plans[v]]
  BY DEF CancelActiveRun
<1>2. \A v \in Versions :
        /\ plans'[v].role = plans[v].role /\ plans'[v].input = plans[v].input
        /\ plans'[v].report = plans[v].report /\ plans'[v].number = plans[v].number
        /\ plans'[v].author = plans[v].author
        /\ plans[v].status = "succeeded" => plans'[v] = plans[v]
        /\ plans'[v].status = "succeeded" => plans[v].status = "succeeded"
  <2> SUFFICES ASSUME NEW v \in Versions
      PROVE /\ plans'[v].role = plans[v].role /\ plans'[v].input = plans[v].input
            /\ plans'[v].report = plans[v].report /\ plans'[v].number = plans[v].number
            /\ plans'[v].author = plans[v].author
            /\ plans[v].status = "succeeded" => plans'[v] = plans[v]
            /\ plans'[v].status = "succeeded" => plans[v].status = "succeeded"
    OBVIOUS
  <2>1. plans[v] \in Plan BY <1>0, PlanFields
  <2>2. CASE plans[v].status \in {"pending", "running"}
    <3>1. plans'[v] = [plans[v] EXCEPT !.status = "cancelled"] BY <1>1, <2>2
    <3> QED BY <3>1, <2>1, <2>2 DEF Plan
  <2>3. CASE plans[v].status \notin {"pending", "running"}
    <3>1. plans'[v] = plans[v] BY <1>1, <2>3
    <3> QED BY <3>1
  <2> QED BY <2>2, <2>3
<1>3. Versions' = Versions /\ Latest' = Latest
  <2>1. DOMAIN plans' = 1 .. Len(plans) BY <1>1 DEF Versions
  <2>2. plans' \in Seq(Plan) BY DEF Unled, PipelineInv, RunInv, PipelineTypeOK
  <2>3. DOMAIN plans' = 1 .. Len(plans') /\ Len(plans') \in Nat /\ Len(plans) \in Nat
    BY <1>0, <2>2, LenProperties, PlanFields DEF Latest
  <2>4. Len(plans') = Len(plans) BY <2>1, <2>3
  <2> QED BY <2>4 DEF Versions, Latest
<1>4. run'.status = "cancelled" /\ run'.base = run.base /\ run'.kind = run.kind
  BY <1>0, <1>1 DEF PipelineTypeOK, Run
<1>5. Keeps BY <1>0, <1>2, <1>3, <1>4, PlanFields DEF Keeps
<1>6. \A w \in Versions : \A role : Done(w, role)' <=> Done(w, role) BY <1>2, <1>3 DEF Done
<1>7. {w \in Versions : Done(w, "approval")}' = {w \in Versions : Done(w, "approval")}
  BY <1>3, <1>6
<1>8. Approvals' = Approvals BY <1>4, <1>7, Zenon DEF Approvals
<1>9. Codes' = Codes BY <1>3, <1>6 DEF Codes
<1>10. Candidate' = Candidate BY <1>0, <1>5, <1>9, CandidateKept
<1>11. PhaseOver' BY PhaseEnds, PTL
<1> QED BY <1>0, <1>1, <1>4, <1>8, <1>10, <1>11, ActivePhases DEF PhaseOver, Promise!Stop, Unled

-----------------------------------------------------------------------------
(* With a plan of the Leader's own *)

\* Behind finished code there is what it was made from.
LEMMA BehindCode ==
    ASSUME PipelineTypeOK, PlansStand, NEW v, Done(v, "developer")
    PROVE  SpecBehind(v) \in 0 .. v - 1
<1>1. /\ v \in Versions /\ plans[v].role = "developer" /\ v \in Nat
      /\ plans[v].input \in Nat /\ plans[v].input < v
  BY PlanFields DEF Done, PlansStand, Linked
<1>2. PICK i \in 0 .. v - 1 : i = plans[v].input BY <1>1
<1>3. SpecOf(i) \in 0 .. v - 1
  <2>1. CASE Done(i, "architect")
    <3>1. plans[i].input < i /\ plans[i].input \in Nat
      BY <2>1, PlanFields DEF Done, PlansStand, Linked
    <3> QED BY <1>1, <1>2, <2>1, <3>1 DEF SpecOf
  <2>2. CASE ~Done(i, "architect") BY <1>2, <2>2 DEF SpecOf
  <2> QED BY <2>1, <2>2
<1> QED BY <1>1, <1>2, <1>3 DEF SpecBehind

\* The candidate is an approved intent, or none.
CandidateInRange == PipelineInv => Candidate \in 0 .. Approvals
LEMMA CandidateBounded == CandidateInRange
<1> SUFFICES ASSUME PipelineInv PROVE Candidate \in 0 .. Approvals BY DEF CandidateInRange
<1>0. PipelineTypeOK /\ PlansStand BY DEF PipelineInv, RunInv
<1>1. Approvals \in Nat BY <1>0, ApprovalsAreIntents
<1>2. CASE Codes = {} BY <1>1, <1>2 DEF Candidate
<1>3. CASE Codes # {}
  <2>1. Latest \in Nat /\ Codes \subseteq 0 .. Latest /\ Codes \subseteq Versions /\ Codes \subseteq Nat
    BY <1>0, CodesAreVersions DEF Codes
  <2>2. PICK d \in Codes : LastCode(d) BY <1>3, <2>1, LastOf DEF LastCode
  <2>3. Candidate = IntentOf(SpecBehind(d)) BY <2>1, <2>2, CandidateIs DEF CandidateOfLast
  <2>4. SpecBehind(d) \in 0 .. d - 1 /\ d \in 1 .. Latest
    BY <1>0, <2>1, BehindCode DEF Codes, Versions, Latest
  <2>5. PICK s \in 0 .. Latest : s = SpecBehind(d) BY <2>1, <2>4
  <2> QED BY <1>0, <2>3, <2>5, IntentBounded
<1> QED BY <1>2, <1>3

\* A run is in the phases Delivery names.
PhaseRange ==
    PipelineTypeOK =>
        /\ Phase \in Promise!Open \union {"released", "stopped"}
        /\ Phase = "released" <=> run.status = "succeeded"
LEMMA Phases == PhaseRange
<1> SUFFICES ASSUME PipelineTypeOK
             PROVE  /\ Phase \in Promise!Open \union {"released", "stopped"}
                    /\ Phase = "released" <=> run.status = "succeeded"
  BY DEF PhaseRange
<1>1. CASE Active
  <2>1. Phase \in Promise!Open BY <1>1, ActivePhases
  <2> QED BY <1>1, <2>1 DEF Active, Promise!Open
<1>2. CASE ~Active
  <2>1. run.status \in {"succeeded", "failed", "cancelled"} BY <1>2 DEF Active, PipelineTypeOK, Run
  <2> QED BY <2>1, PhaseEnds DEF PhaseOver
<1> QED BY <1>1, <1>2

\* A step of an active run releases by ending it.
Forward == Active /\ (shipped' = shipped \/ run'.status = "succeeded")

\* Once the Leader has put in a plan of its own, that is all that is promised.
LEMMA LedMaps ==
    ASSUME PipelineInv, Kept, Forward, LeadersOwn' # {}
    PROVE  Promise!Improvise
<1>1. PipelineTypeOK /\ PipelineTypeOK' /\ PipelineInv' BY DEF PipelineInv, RunInv, Kept
<1>2. Phase \in Promise!Open BY <1>1, ActivePhases DEF Forward
<1>3. /\ Phase' \in Promise!Open \union {"released", "stopped"}
      /\ Phase' = "released" <=> run'.status = "succeeded"
  <2>1. PhaseRange' BY Phases, PTL
  <2> QED BY <1>1, <2>1 DEF PhaseRange, Promise!Open
<1>4. Candidate' \in 0 .. Approvals'
  <2>1. CandidateInRange' BY CandidateBounded, PTL
  <2> QED BY <1>1, <2>1 DEF CandidateInRange
<1>5. shipped' \in Nat /\ shipped' <= Approvals' BY <1>1 DEF PipelineInv, RunInv, PipelineTypeOK
<1>6. Approvals' \in {Approvals, Approvals + 1} BY DEF Kept
<1>7. Approvals' \in Nat
  <2>1. Approvals \in Nat BY ApprovalsAreIntents DEF PipelineInv, RunInv
  <2> QED BY <1>6, <2>1
<1>8. shipped' \in IF Phase' = "released" THEN 0 .. Approvals' ELSE {shipped}
  <2>1. CASE Phase' = "released" BY <1>5, <1>7, <2>1
  <2>2. CASE Phase' # "released" BY <1>3, <2>2 DEF Forward
  <2> QED BY <2>1, <2>2
<1> QED BY <1>2, <1>3, <1>4, <1>6, <1>8 DEF Promise!Improvise, Promise!Open

-----------------------------------------------------------------------------
(* A new run *)

\* A run without plans: nothing but its base is approved, and there is no candidate.
NothingYet ==
    PipelineTypeOK /\ Latest = 0 => Approvals = run.base /\ Candidate = 0 /\ LeadersOwn = {}
LEMMA EmptyPromise == NothingYet
<1> SUFFICES ASSUME PipelineTypeOK, Latest = 0
             PROVE  Approvals = run.base /\ Candidate = 0 /\ LeadersOwn = {}
  BY DEF NothingYet
<1>1. Versions = {} BY DEF Versions, Latest
<1>2. {v \in Versions : Done(v, "approval")} = {} BY <1>1
<1>3. run.base \in Nat BY DEF PipelineTypeOK, Run
<1>4. Approvals = run.base + Cardinality({}) BY <1>2, Zenon DEF Approvals
<1>5. Codes = {} BY <1>1 DEF Codes
<1>6. LeadersOwn = {} BY <1>1 DEF LeadersOwn
<1> QED BY <1>3, <1>4, <1>5, <1>6, FS_EmptySet DEF Candidate

LEMMA RevisionRunMaps ==
    ASSUME PipelineInv, PipelineTypeOK', NEW kind \in {"product_change", "implementation_repair"},
           CreateRevisionRun(kind)
    PROVE  Promise!Reopen \/ UNCHANGED Promise!deliveryVars
<1>0. PipelineTypeOK /\ Approvals \in Nat BY ApprovalsAreIntents DEF PipelineInv, RunInv
<1>1. CASE Approvals = 0
  <2>1. SameRun BY <1>1 DEF CreateRevisionRun, SameRun
  <2> QED BY <2>1, SameRows
<1>2. CASE Approvals # 0
  <2>1. PICK a : a = Approvals OBVIOUS
  <2>2. /\ run' = [status |-> "queued", stage |-> "none", kind |-> kind, base |-> a, lost |-> 0,
                   number |-> run.number + 1]
        /\ plans' = <<>> /\ UNCHANGED shipped /\ ~Active
    BY <1>2, <2>1 DEF CreateRevisionRun
  <2>3. run'.status = "queued" /\ run'.kind = kind /\ run'.base = Approvals BY <2>1, <2>2
  <2>4. Latest' = 0 BY <2>2, EmptySeq DEF Latest
  <2>5. Approvals' = Approvals /\ Candidate' = 0 /\ LeadersOwn' = {}
    <3>1. NothingYet' BY EmptyPromise, PTL
    <3> QED BY <1>0, <2>3, <2>4, <3>1 DEF NothingYet
  <2>6. Phase' \in {"intent", "building"}
    <3>1. ActivePhase' BY PhaseIs, PTL
    <3>2. Active' BY <2>3 DEF Active
    <3> QED BY <1>0, <2>4, <3>1, <3>2 DEF ActivePhase
  <2>7. Phase \in {"released", "stopped"}
    <3>1. PhaseOver BY PhaseEnds
    <3> QED BY <1>0, <2>2, <3>1 DEF PhaseOver, PipelineTypeOK, Run, Active
  <2> QED BY <1>0, <1>2, <2>2, <2>5, <2>6, <2>7 DEF Promise!Reopen
<1> QED BY <1>1, <1>2

-----------------------------------------------------------------------------
(* The refinement *)

LEMMA PromiseInit == Init => Promise!DeliveryInit
<1> SUFFICES ASSUME Init PROVE Promise!DeliveryInit OBVIOUS
<1>1. PipelineTypeOK BY InitKeeps, Typed
<1>2. Latest = 0 /\ Active /\ run.kind = "initial" /\ run.base = 0 /\ shipped = 0
  BY EmptySeq DEF Init, Latest, Active
<1>3. Phase = "intent" BY <1>1, <1>2, PhaseIs DEF ActivePhase
<1>4. Approvals = 0 /\ Candidate = 0 /\ LeadersOwn = {} BY <1>1, <1>2, EmptyPromise DEF NothingYet
<1> QED BY <1>2, <1>3, <1>4 DEF Promise!DeliveryInit

LEMMA QualityForward ==
    ASSUME PipelineTypeOK, NEW v, NEW verdict, CompleteQuality(v, verdict)
    PROVE  Forward
<1>1. InStage("qa") /\ Active BY DEF CompleteQuality, RunningTask, StageOf, InStage, Active
<1>2. CASE verdict = "passed"
  <2>1. run' = [run EXCEPT !.status = "succeeded"] BY <1>2 DEF CompleteQuality
  <2>2. run'.status = "succeeded" BY <2>1 DEF PipelineTypeOK, Run
  <2> QED BY <1>1, <2>2 DEF Forward
<1>3. CASE verdict # "passed" BY <1>1, <1>3 DEF CompleteQuality, Forward
<1> QED BY <1>2, <1>3

\* Every step is one of an active run, or begins another run, or is one of callers and leases.
LEMMA StepsForward ==
    ASSUME PipelineTypeOK, Next
    PROVE  \/ Forward \/ SameRun
           \/ \E kind \in {"product_change", "implementation_repair"} : CreateRevisionRun(kind)
<1> USE DEF Forward, StagePlan, InStage, Active, Bookkeeping
<1>1. CASE UserStep
  <2>1. ASSUME NEW i \in Items,
               \/ CreateClarificationPlan(i) \/ ApproveRequirements(i) \/ ResolveByRevision(i)
               \/ RetryBlockedQuality(i) \/ DispatchRepair(i)
        PROVE  Forward
    BY <2>1 DEF CreateClarificationPlan, ApproveRequirements, ResolveByRevision, RevisionPlan,
                RetryBlockedQuality, DispatchRepair
  <2>2. ASSUME NEW c \in Callers, NEW i \in Items, ClaimDispatch(c, i) \/ DecideQuality(c, i, TRUE)
        PROVE  Forward
    BY <2>2 DEF ClaimDispatch, DecideQuality
  <2>3. ASSUME NEW c \in Callers, NEW i \in Items, NEW path \in {"direct", "designed"}, LeadRepair(c, i, path)
        PROVE  Forward
    BY <2>3 DEF LeadRepair
  <2>4. CancelActiveRun => Forward BY DEF CancelActiveRun
  <2> QED BY <1>1, <2>1, <2>2, <2>3, <2>4 DEF UserStep
<1>2. CASE Fault
  <2>1. ASSUME NEW c \in Callers, Crash(c) \/ DispatchFails(c) PROVE SameRun
    BY <2>1 DEF Crash, DispatchFails, SameRun
  <2>2. ASSUME NEW i \in Items, LeaseExpires(i) PROVE SameRun BY <2>2 DEF LeaseExpires, SameRun
  <2>3. ASSUME NEW i \in Items, GiveUpHandOff(i) PROVE Forward BY <2>3 DEF GiveUpHandOff, Owed
  <2> QED BY <1>2, <2>1, <2>2, <2>3 DEF Fault
<1>3. CASE StartStep
  BY <1>3 DEF StartStep, CreateInitialPlan, CreateProductRevisionPlan, FirstPlan, DispatchRevisionRepair
<1>4. ASSUME NEW v \in Items \ {0}, CompleteStep(v) PROVE Forward
  <2>1. ASSUME NEW role, NEW result, Complete(v, role, result) PROVE Forward
    BY <2>1 DEF Complete, RunningTask
  <2>2. ASSUME NEW verdict, CompleteQuality(v, verdict) PROVE Forward BY <2>2, QualityForward
  <2> QED BY <1>4, <2>1, <2>2 DEF CompleteStep
<1>5. ASSUME NEW v \in Items \ {0}, HandOff(v) PROVE Forward
  BY <1>5 DEF HandOff, DispatchDesign, DispatchCode, DecideQuality
<1>6. ASSUME NEW c \in Callers, CallerStep(c) PROVE Forward \/ SameRun
  <2>1. ASSUME NEW path \in {"direct", "designed"}, Lead(c, path) PROVE Forward
    BY <2>1 DEF Lead, Required
  <2>2. RecordDecision(c) \/ CreateDelivery(c) => Forward BY DEF RecordDecision, CreateDelivery, Required
  <2>3. StageRepair(c) \/ SaveLeadersPlan(c) => Forward BY DEF StageRepair, SaveLeadersPlan
  <2>4. Overtaken(c) => SameRun BY DEF Overtaken, SameRun
  <2> QED BY <1>6, <2>1, <2>2, <2>3, <2>4 DEF CallerStep
<1>7. ASSUME NEW v \in Items \ {0}, Claim(v) PROVE Forward BY <1>7 DEF Claim
<1> QED BY <1>1, <1>2, <1>3, <1>4, <1>5, <1>6, <1>7 DEF Next

\* A plan of the Leader's own is seen.
LEMMA LeadersPlanShows ==
    ASSUME PipelineTypeOK, NEW c, SaveLeadersPlan(c)
    PROVE  LeadersOwn' # {}
<1> DEFINE p == LeadersPlan(c)
<1>1. p.author = "leader" BY DEF LeadersPlan, NewPlan
<1>2. plans' = Append(plans, p) BY DEF SaveLeadersPlan, StagePlan
<1> HIDE DEF p
<1>3. plans \in Seq(Plan \union {p}) BY SeqMonotonic DEF PipelineTypeOK
<1>4. Len(plans) \in Nat /\ Len(plans') = Len(plans) + 1 /\ plans'[Len(plans) + 1] = p
  BY <1>2, <1>3, AppendProperties, LenProperties
<1>5. PICK n \in Nat : n = Len(plans) + 1 BY <1>4
<1>6. n \in Versions' /\ plans'[n].author = "leader" BY <1>1, <1>4, <1>5 DEF Versions
<1> QED BY <1>6 DEF LeadersOwn

\* Without one every step keeps the promise as it was made.
LEMMA UnledStep ==
    ASSUME Unled, Unled', Next, ~SameRun,
           \A kind \in {"product_change", "implementation_repair"} : ~CreateRevisionRun(kind)
    PROVE  Promise!DeliveryNext \/ UNCHANGED Promise!deliveryVars
<1> USE DEF Promise!DeliveryNext
<1>0. PipelineTypeOK BY UnledFacts
<1>1. CASE UserStep
  <2>1. ASSUME NEW c \in Callers, NEW i \in Items, ClaimDispatch(c, i) PROVE FALSE
    BY <2>1 DEF ClaimDispatch, SameRun
  <2>2. ASSUME NEW c \in Callers, NEW i \in Items, NEW path \in {"direct", "designed"}, LeadRepair(c, i, path)
        PROVE  FALSE
    BY <2>2 DEF LeadRepair, SameRun
  <2> QED BY <1>1, <2>1, <2>2, ClarificationMaps, ApproveMaps, RevisionMaps, RetryMaps,
             DispatchRepairMaps, DecideQualityMaps, CancelMaps DEF UserStep
<1>2. ~Fault
  <2>1. ASSUME NEW c \in Callers, Crash(c) \/ DispatchFails(c) PROVE FALSE
    BY <2>1 DEF Crash, DispatchFails, SameRun
  <2>2. ASSUME NEW i \in Items, LeaseExpires(i) PROVE FALSE BY <2>2 DEF LeaseExpires, SameRun
  <2>3. ASSUME NEW i \in Items, GiveUpHandOff(i) PROVE FALSE
    <3>1. run' = [run EXCEPT !.lost = i] /\ UNCHANGED <<plans, shipped>>
      BY <2>3 DEF GiveUpHandOff, Bookkeeping
    <3> QED BY <1>0, <3>1 DEF SameRun, PipelineTypeOK, Run
  <2> QED BY <2>1, <2>2, <2>3 DEF Fault
<1>3. CASE StartStep
  BY <1>3, RequirementsPlanMaps, RevisionRepairMaps DEF StartStep
<1>4. ASSUME NEW v \in Items \ {0}, CompleteStep(v)
      PROVE  Promise!DeliveryNext \/ UNCHANGED Promise!deliveryVars
  <2>1. ASSUME NEW result \in {"questions", "features"}, Complete(v, "product_manager", result)
        PROVE  Promise!Build \/ UNCHANGED Promise!deliveryVars
    BY <2>1, CompleteMaps DEF Results
  <2>2. Complete(v, "architect", "design") => Promise!Build \/ UNCHANGED Promise!deliveryVars
    BY CompleteMaps DEF Results
  <2>3. Complete(v, "developer", "code") => Promise!Build \/ UNCHANGED Promise!deliveryVars
    BY CompleteMaps DEF Results
  <2> QED BY <1>4, <2>1, <2>2, <2>3, CompleteQualityMaps DEF CompleteStep
<1>5. ASSUME NEW v \in Items \ {0}, HandOff(v)
      PROVE  Promise!DeliveryNext \/ UNCHANGED Promise!deliveryVars
  BY <1>5, DispatchDesignMaps, DispatchCodeMaps, DecideQualityMaps DEF HandOff
<1>6. ASSUME NEW c \in Callers, CallerStep(c)
      PROVE  Promise!DeliveryNext \/ UNCHANGED Promise!deliveryVars
  <2>1. ASSUME NEW path \in {"direct", "designed"}, Lead(c, path) PROVE FALSE BY <2>1 DEF Lead, SameRun
  <2>2. ~RecordDecision(c) /\ ~Overtaken(c) BY DEF RecordDecision, Overtaken, SameRun
  <2>3. ~SaveLeadersPlan(c) BY <1>0, LeadersPlanShows DEF Unled
  <2> QED BY <1>6, <2>1, <2>2, <2>3, CreateDeliveryMaps, StageRepairMaps DEF CallerStep
<1> QED BY <1>1, <1>2, <1>3, <1>4, <1>5, <1>6, ClaimMaps DEF Next

LEMMA PromiseStep ==
    PipelineInv /\ [Next]_vars => [Promise!DeliveryNext]_(Promise!deliveryVars)
<1> SUFFICES ASSUME PipelineInv, [Next]_vars
             PROVE  Promise!DeliveryNext \/ UNCHANGED Promise!deliveryVars
  OBVIOUS
<1>1. Kept /\ PipelineInv' /\ PipelineTypeOK /\ PipelineTypeOK'
  BY PipelineStep, Typed DEF Kept, PipelineInv, RunInv
<1>2. CASE SameRun BY <1>1, <1>2, SameRows
<1>3. ASSUME NEW kind \in {"product_change", "implementation_repair"}, CreateRevisionRun(kind)
      PROVE  Promise!DeliveryNext \/ UNCHANGED Promise!deliveryVars
  BY <1>1, <1>3, RevisionRunMaps DEF Promise!DeliveryNext
<1>4. CASE UNCHANGED vars
  <2>1. SameRun BY <1>4 DEF vars, SameRun
  <2> QED BY <1>2, <2>1
<1>5. CASE Next /\ Forward /\ LeadersOwn' # {} BY <1>1, <1>5, LedMaps DEF Promise!DeliveryNext
<1>6. CASE Next /\ Forward /\ LeadersOwn' = {}
  <2>1. LeadersOwn = {} BY <1>1, <1>6 DEF Kept, Forward
  <2>2. Unled /\ Unled' BY <1>1, <1>6, <2>1 DEF Unled
  <2> QED BY <1>2, <1>3, <1>6, <2>2, UnledStep
<1> QED BY <1>1, <1>2, <1>3, <1>4, <1>5, <1>6, StepsForward

\* Plans, tasks, leases, replays and revisions implement the promise: what the user
\* approved is what is built, what is built is what is validated, and only a passed verdict
\* on it releases it, until the Leader puts in a plan of its own.
THEOREM PromiseIsKept == Spec => KeepsThePromise
<1>1. Init => Promise!DeliveryInit BY PromiseInit
<1>2. PipelineInv /\ [Next]_vars => [Promise!DeliveryNext]_(Promise!deliveryVars)
  BY PromiseStep
<1> QED BY <1>1, <1>2, PipelineInvariant, PTL DEF Spec, KeepsThePromise, Promise!DeliverySpec
=============================================================================
