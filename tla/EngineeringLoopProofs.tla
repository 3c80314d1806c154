------------------------ MODULE EngineeringLoopProofs ------------------------
(***************************************************************************)
(* Proofs about EngineeringLoop, for any workers, versions and budgets.    *)
(***************************************************************************)
EXTENDS EngineeringLoop, FiniteSetTheorems, WellFoundedInduction, TLAPS

-----------------------------------------------------------------------------
(* The inductive invariant, however many workers are in an execution *)

\* A check result that says it passed is about a source that does.
Proven(cache) == \A e \in cache : e.ok => Passes(e.check, e.source)
Whole(source) == Passes("all", source) /\ First.probes \subseteq source.probes

\* A draft keeps every probe the task has inherited from its first save on, and
\* what it says was generated was checked.
GoodDraft(c) ==
    /\ c \in Checkpoint
    /\ c.pending \cap c.done = {}
    /\ Proven(c.cache)
    /\ IF c.prepared THEN First.probes \subseteq c.ledger ELSE c.outcome = "running"
    /\ c.outcome = "generated" => Whole(c.completed)

\* What a worker holds: no source without the inherited probes, and no result that the
\* source it is about would not give.
GoodLoop(l) ==
    /\ l \in Loop
    /\ First.probes \subseteq l.new.probes
    /\ Proven(l.cached) /\ (l.pc = "verify" => \A e \in l.cached : e.check = l.check)
    /\ l.result # "none" => l.pc \in {"compare", "complete", "record"}
    /\ l.pc \in {"verify", "compare"} => l.act \in {"check", "complete"}
    /\ l.pc = "record" => l.act # "complete" /\ (l.act # "check" => l.result = "none")
    /\ l.result = "ok" => Passes(l.check, l.new)
    /\ l.pc = "complete" => l.act = "complete"
    /\ l.pc \in {"verify", "compare", "complete"} /\ l.act = "complete" => l.item # 0

AtRest == {"idle", "prepare", "finish"}
LoopInv ==
    /\ LoopTypeOK
    /\ GoodDraft(checkpoint)
    /\ \A w \in Workers : GoodLoop(loop[w])
    /\ \A w \in Workers : checkpoint.prepared \/ loop[w].pc \in AtRest
    /\ retry # NoRetry => GoodDraft(retry.draft) /\ retry.draft.prepared
    /\ First.probes \subseteq workspace.probes
    /\ \A source \in published : Whole(source)

-----------------------------------------------------------------------------
(* The inductive invariant with one owner per execution *)

Owns(w) == loop[w].attempt = execution.attempt
Working == {"load", "reserve", "model", "record", "verify", "compare", "complete"}
\* What the owner is doing agrees with the draft and the workspace.
InStep(l, c, source) ==
    /\ l.pc \in Working => c.outcome = "running"
    /\ l.pc = "reserve" => c.turns < c.turnLimit
    /\ l.pc \in {"verify", "compare", "complete"} /\ l.act = "complete" => c.calls < c.callLimit
    /\ l.pc = "complete" /\ l.result = "ok" => l.new = source
Owned ==
    /\ \A w \in Workers : loop[w].attempt <= execution.attempt
    /\ \A v, w \in Workers : Owns(v) /\ Owns(w) => v = w
    /\ \A w \in Workers : Owns(w) => InStep(loop[w], checkpoint, workspace)
\* Each retry grants one more budget, counted from what was spent.
Granted(c) ==
    /\ c.turns <= c.turnLimit /\ c.turnLimit <= (1 + c.retries) * MaxTurns
    /\ c.calls <= c.callLimit /\ c.callLimit <= (1 + c.retries) * MaxCalls
\* A draft that follows the checkpoint within the same grant
Follows(d) == Granted(d) /\ d.retries = checkpoint.retries
\* A retry that was claimed still waits for its write: its draft grants one budget more, and
\* a turn and a call of it are left, whatever the new attempt has done meanwhile.
Retrying ==
    retry # NoRetry =>
        LET d == retry.draft IN
        /\ retry.attempt = execution.attempt
        /\ d.outcome = "running" /\ d.retries = checkpoint.retries + 1
        /\ Granted(d) /\ d.turns < d.turnLimit /\ d.calls < d.callLimit
Stands(c, source) == c.outcome = "generated" => source = c.completed /\ c.done # {} /\ c.pending = {}
OwnerInv == LoopInv /\ Owned /\ Granted(checkpoint) /\ Retrying /\ Stands(checkpoint, workspace)

-----------------------------------------------------------------------------
(* Values *)

\* A set of numbers that is not empty has a least one.
LEMMA LeastOf ==
    ASSUME NEW S, S \subseteq Nat, S # {}
    PROVE  \E n \in S : \A m \in S : n <= m
<1>1. PICK n \in S : \A m \in S : ~(<<m, n>> \in OpToRel(<, Nat))
  BY NatLessThanWellFounded, WFMin
<1>2. ASSUME NEW m \in S PROVE n <= m
  <2>1. m \in Nat /\ n \in Nat OBVIOUS
  <2>2. ~(m < n) BY <1>1, <2>1 DEF OpToRel
  <2> QED BY <2>1, <2>2
<1> QED BY <1>2

\* The current item is one of the pending ones.
LEMMA CurrentIsPending ==
    ASSUME NEW c \in Checkpoint
    PROVE  /\ CurrentItem(c) \in Items \cup {0}
           /\ c.pending # {} => CurrentItem(c) \in c.pending
<1>1. c.pending \subseteq Items /\ c.pending \subseteq Nat BY LoopAssumption DEF Checkpoint
<1>2. ASSUME c.pending # {} PROVE CurrentItem(c) \in c.pending
  <2>1. \E i \in c.pending : \A j \in c.pending : i <= j BY <1>1, <1>2, LeastOf
  <2> QED BY <1>2, <2>1 DEF CurrentItem
<1> QED BY <1>1, <1>2 DEF CurrentItem

\* Items are not 0.
LEMMA ItemsArePositive == 0 \notin Items /\ Items \subseteq Nat
BY LoopAssumption

\* The fields of a draft.
LEMMA DraftFields ==
    ASSUME NEW c \in Checkpoint
    PROVE  /\ c.turns \in Nat /\ c.calls \in Nat /\ c.turnLimit \in Nat /\ c.callLimit \in Nat
           /\ c.pending \subseteq Items /\ c.done \subseteq Items
           /\ c.cache \subseteq Evidence /\ c.ledger \subseteq Probes
           /\ c.observed \in Source /\ c.completed \in Source
           /\ c.rounds \in [Items -> Nat] /\ c.retries \in 0 .. RetryBound /\ c.retries \in Nat
           /\ c.outcome \in {"running", "blocked", "generated"} /\ c.reason \in Reasons
BY LoopAssumption DEF Checkpoint

\* The source a task starts from has the probes it inherits.
LEMMA FirstIsSource == First \in Source /\ First.probes \subseteq Probes
BY LoopAssumption DEF Source

\* The draft of a new task.
LEMMA NewIsGood == GoodDraft(NewCheckpoint) /\ NewCheckpoint.outcome = "running"
<1>1. NewCheckpoint \in Checkpoint
  <2>1. PICK q \in BOOLEAN : q = QualityRepair BY LoopAssumption
  <2>2. PICK p \in SUBSET Items : p = IF QualityRepair THEN Items ELSE {} OBVIOUS
  <2>3. [i \in Items |-> 0] \in [Items -> Nat] OBVIOUS
  <2> QED BY <2>1, <2>2, <2>3, LoopAssumption DEF NewCheckpoint, Checkpoint, Reasons
<1> QED BY <1>1 DEF NewCheckpoint, GoodDraft, Proven
LEMMA NoRetryIsTyped == NoRetry \in [attempt : 0 .. AttemptBound, draft : Checkpoint] /\ NoRetry.attempt = 0
BY NewIsGood, LoopAssumption DEF NoRetry, GoodDraft

\* What a blocked draft keeps, and a resumed one.
LEMMA BlockIsGood ==
    ASSUME NEW c, GoodDraft(c), c.prepared, NEW r \in Reasons
    PROVE  GoodDraft(Block(c, r)) /\ Block(c, r).prepared /\ Block(c, r).outcome = "blocked"
<1> DEFINE b == Block(c, r)
<1>1. c \in Checkpoint BY DEF GoodDraft
<1>2. b \in Checkpoint BY <1>1 DEF Checkpoint, Block, Reasons
<1>3. /\ b.pending = c.pending /\ b.done = c.done /\ b.cache = c.cache /\ b.ledger = c.ledger
      /\ b.prepared = c.prepared /\ b.outcome = "blocked"
  BY <1>1 DEF Checkpoint, Block
<1> QED BY <1>2, <1>3 DEF GoodDraft
LEMMA ResumeIsGood ==
    ASSUME NEW c, GoodDraft(c)
    PROVE  GoodDraft(Resume(c)) /\ Resume(c).prepared = c.prepared /\ Resume(c).outcome = "running"
<1> DEFINE b == Resume(c)
<1>1. c \in Checkpoint BY DEF GoodDraft
<1>2. b \in Checkpoint BY <1>1 DEF Checkpoint, Resume, Reasons
<1>3. /\ b.pending = c.pending /\ b.done = c.done /\ b.cache = c.cache /\ b.ledger = c.ledger
      /\ b.prepared = c.prepared /\ b.outcome = "running"
  BY <1>1 DEF Checkpoint, Resume
<1> QED BY <1>2, <1>3 DEF GoodDraft
\* The stop-losses leave a good draft good.
LEMMA StopsAreGood ==
    ASSUME NEW c, GoodDraft(c), c.prepared, NEW d \in Stops(c)
    PROVE  GoodDraft(d) /\ d.prepared
BY BlockIsGood DEF Stops, Reasons
\* A call is counted.
LEMMA CountIsGood ==
    ASSUME NEW c, GoodDraft(c)
    PROVE  /\ GoodDraft(Count(c)) /\ Count(c).prepared = c.prepared /\ Count(c).outcome = c.outcome
           /\ Count(c).ledger = c.ledger /\ Count(c).pending = c.pending /\ Count(c).rounds = c.rounds
<1> DEFINE b == Count(c)
<1>1. c \in Checkpoint BY DEF GoodDraft
<1>2. b \in Checkpoint BY <1>1 DEF Checkpoint, Count
<1>3. /\ b.pending = c.pending /\ b.done = c.done /\ b.cache = c.cache /\ b.ledger = c.ledger
      /\ b.prepared = c.prepared /\ b.outcome = c.outcome /\ b.completed = c.completed
      /\ b.rounds = c.rounds
  BY <1>1 DEF Checkpoint, Count
<1> QED BY <1>2, <1>3 DEF GoodDraft

\* A result that was obtained stands in the cache; the ledger only grows.
LEMMA RememberIsGood ==
    ASSUME NEW c, GoodDraft(c), c.prepared, NEW l, GoodLoop(l), workspace \in Source,
           NEW named \in SUBSET Probes
    PROVE  LET b == RememberCheck(c, l, named) IN
           /\ GoodDraft(b) /\ b.prepared /\ b.outcome = c.outcome
           /\ b.pending = c.pending /\ b.done = c.done /\ b.rounds = c.rounds
           /\ c.ledger \subseteq b.ledger
<1> DEFINE b == RememberCheck(c, l, named)
<1>1. c \in Checkpoint /\ l \in Loop BY DEF GoodDraft, GoodLoop
<1>2. PICK ok \in BOOLEAN : ok = Verdict(l) BY DEF Verdict
<1>3. l.check \in Checks /\ l.new \in Source /\ workspace.probes \subseteq Probes BY <1>1 DEF Loop, Source
<1> DEFINE e == [check |-> l.check, source |-> l.new, ok |-> ok]
<1>4. e \in Evidence BY <1>3 DEF Evidence
<1>5. e.ok => Passes(e.check, e.source) BY <1>2 DEF GoodLoop, Verdict
<1>6. PICK ledger \in SUBSET Probes :
         ledger = c.ledger \cup (IF ok /\ l.check = "all" THEN Verified(workspace) ELSE named)
  BY <1>1, <1>3, DraftFields DEF Verified
<1>7. PICK cache \in SUBSET Evidence :
         /\ \A f \in cache : f \in c.cache \/ f = e
         /\ cache = IF l.result \in {"environment", "changed"} THEN c.cache
                    ELSE (c.cache \ {f \in c.cache : f.check = l.check \/ (ok /\ l.check = "all")}) \cup {e}
  BY <1>1, <1>4, DraftFields
<1>8. Proven(cache) BY <1>5, <1>7 DEF Proven, GoodDraft
<1>9. b = [c EXCEPT !.ledger = ledger, !.cache = cache]
  BY <1>2, <1>6, <1>7 DEF RememberCheck
<1> HIDE DEF b, e
<1>10. b \in Checkpoint BY <1>1, <1>9 DEF Checkpoint
<1>11. /\ b.pending = c.pending /\ b.done = c.done /\ b.cache = cache /\ b.ledger = ledger
       /\ b.prepared = c.prepared /\ b.outcome = c.outcome /\ b.completed = c.completed
       /\ b.rounds = c.rounds
  BY <1>1, <1>9 DEF Checkpoint
<1>12. GoodDraft(b) BY <1>6, <1>8, <1>10, <1>11 DEF GoodDraft
<1> QED BY <1>6, <1>11, <1>12 DEF b

-----------------------------------------------------------------------------
(* The steps that a step of the loop is made of *)

\* One worker moves: what it saves and what it goes on with are good.
LEMMA WorkerStep ==
    ASSUME LoopInv, NEW w \in Workers, NEW l,
           loop' = [loop EXCEPT ![w] = l], GoodLoop(l),
           GoodDraft(checkpoint'), checkpoint.prepared => checkpoint'.prepared,
           checkpoint'.prepared \/ l.pc \in AtRest,
           workspace' \in Source, First.probes \subseteq workspace'.probes,
           execution' \in Execution, retry' = retry,
           published' \subseteq Source, \A source \in published' : Whole(source),
           crashes' \in 0 .. CrashBound
    PROVE  LoopInv'
<1>1. loop' \in [Workers -> Loop] BY DEF LoopInv, LoopTypeOK, GoodLoop
<1>2. checkpoint' \in Checkpoint /\ checkpoint'.pending \cap checkpoint'.done = {} BY DEF GoodDraft
<1>3. LoopTypeOK' BY <1>1, <1>2 DEF LoopInv, LoopTypeOK
<1>4. \A u \in Workers : loop'[u] = IF u = w THEN l ELSE loop[u] BY DEF LoopInv, LoopTypeOK
<1>5. \A u \in Workers : GoodLoop(loop'[u]) BY <1>4 DEF LoopInv
<1>6. \A u \in Workers : checkpoint'.prepared \/ loop'[u].pc \in AtRest BY <1>4 DEF LoopInv
<1>7. retry' # NoRetry => GoodDraft(retry'.draft) /\ retry'.draft.prepared BY DEF LoopInv
<1> QED BY <1>3, <1>5, <1>6, <1>7, Zenon DEF LoopInv

\* A step of the task's owner, with no worker.
LEMMA TaskStep ==
    ASSUME LoopInv, loop' = loop, workspace' = workspace, published' = published, crashes' = crashes,
           execution' \in Execution, GoodDraft(checkpoint'), checkpoint.prepared => checkpoint'.prepared,
           retry' \in [attempt : 0 .. AttemptBound, draft : Checkpoint],
           retry' # NoRetry => GoodDraft(retry'.draft) /\ retry'.draft.prepared
    PROVE  LoopInv'
<1>1. LoopTypeOK' BY DEF LoopInv, LoopTypeOK, GoodDraft
<1> QED BY <1>1, Zenon DEF LoopInv

\* A worker that goes on with nothing in hand.
LEMMA IdleIsGood == GoodLoop(IdleLoop)
<1>1. IdleLoop \in Loop BY FirstIsSource, LoopAssumption DEF IdleLoop, Loop, Pcs, Acts, Checks
<1> QED BY <1>1 DEF IdleLoop, GoodLoop, Proven
LEMMA FreshIsGood ==
    ASSUME NEW a \in 0 .. AttemptBound, NEW pc \in {"prepare", "load", "finish", "publish"}
    PROVE  GoodLoop([IdleLoop EXCEPT !.pc = pc, !.attempt = a])
<1> DEFINE l == [IdleLoop EXCEPT !.pc = pc, !.attempt = a]
<1>1. IdleLoop \in Loop BY IdleIsGood DEF GoodLoop
<1>2. l \in Loop BY <1>1 DEF Loop, Pcs
<1>3. /\ l.new = IdleLoop.new /\ l.cached = IdleLoop.cached /\ l.result = IdleLoop.result
      /\ l.act = IdleLoop.act /\ l.check = IdleLoop.check /\ l.pc = pc
  BY <1>1 DEF Loop
<1> QED BY <1>2, <1>3, IdleIsGood DEF GoodLoop, IdleLoop

\* A save, and what the loop does with the outcome.
LEMMA SaveKeeps ==
    ASSUME LoopInv, NEW w \in Workers, NEW c, GoodDraft(c), c.prepared, Save(w, c),
           workspace' \in Source, First.probes \subseteq workspace'.probes, UNCHANGED Rest
    PROVE  LoopInv'
<1>1. loop[w].attempt \in 0 .. AttemptBound BY DEF LoopInv, LoopTypeOK, Loop
<1>2. c.outcome \in {"running", "blocked", "generated"} BY DraftFields DEF GoodDraft
<1>3. PICK pc \in {"load", "finish", "publish"} : pc = After(c) BY <1>2 DEF After
<1> DEFINE l == [IdleLoop EXCEPT !.pc = pc, !.attempt = loop[w].attempt]
<1>4. GoodLoop(l) BY <1>1, <1>3, FreshIsGood
<1>5. checkpoint' = c /\ loop' = [loop EXCEPT ![w] = l] BY <1>3 DEF Save, Goto
<1> HIDE DEF l
<1> QED BY <1>4, <1>5, WorkerStep DEF Rest, LoopInv, LoopTypeOK
LEMMA GotoKeeps ==
    ASSUME LoopInv, NEW w \in Workers, Goto(w, "finish"), UNCHANGED <<checkpoint, workspace, Rest>>
    PROVE  LoopInv'
<1>1. loop[w].attempt \in 0 .. AttemptBound BY DEF LoopInv, LoopTypeOK, Loop
<1> DEFINE l == [IdleLoop EXCEPT !.pc = "finish", !.attempt = loop[w].attempt]
<1>2. GoodLoop(l) BY <1>1, FreshIsGood
<1>3. l.pc = "finish" BY IdleIsGood DEF GoodLoop, Loop
<1>4. loop' = [loop EXCEPT ![w] = l] BY DEF Goto
<1> HIDE DEF l
<1> QED BY <1>2, <1>3, <1>4, WorkerStep DEF Rest, LoopInv, LoopTypeOK, AtRest
\* A worker that goes on within the loop.
LEMMA GoOnKeeps ==
    ASSUME LoopInv, NEW w \in Workers, NEW l, loop' = [loop EXCEPT ![w] = l], GoodLoop(l),
           checkpoint.prepared, checkpoint' \in {checkpoint, Count(checkpoint)},
           UNCHANGED <<workspace, Rest>>
    PROVE  LoopInv'
<1>1. GoodDraft(checkpoint') /\ checkpoint'.prepared BY CountIsGood DEF LoopInv
<1> QED BY <1>1, WorkerStep DEF Rest, LoopInv, LoopTypeOK
\* A worker whose place is idle again.
LEMMA IdleKeeps ==
    ASSUME LoopInv, NEW w \in Workers, loop' = [loop EXCEPT ![w] = IdleLoop],
           checkpoint' = checkpoint, workspace' \in Source, First.probes \subseteq workspace'.probes,
           execution' \in Execution, retry' = retry,
           published' \subseteq Source, \A source \in published' : Whole(source),
           crashes' \in 0 .. CrashBound
    PROVE  LoopInv'
BY IdleIsGood, WorkerStep DEF LoopInv, IdleLoop, AtRest

-----------------------------------------------------------------------------
(* The attempts *)

LEMMA InitIsGood == Init => LoopInv
<1> SUFFICES ASSUME Init PROVE LoopInv OBVIOUS
<1>1. execution \in Execution BY LoopAssumption DEF Init, Execution
<1>2. LoopTypeOK
  BY <1>1, NewIsGood, NoRetryIsTyped, IdleIsGood, FirstIsSource, LoopAssumption
     DEF Init, LoopTypeOK, GoodDraft, GoodLoop
<1> QED BY <1>2, NewIsGood, IdleIsGood DEF Init, LoopInv, IdleLoop, AtRest

LEMMA NextAttempt ==
    ASSUME LoopInv, execution.attempt < AttemptBound
    PROVE  [attempt |-> execution.attempt + 1, status |-> "running", expired |-> FALSE] \in Execution
BY LoopAssumption DEF LoopInv, LoopTypeOK, Execution

LEMMA ClaimKeeps == ASSUME LoopInv, Claim PROVE LoopInv'
BY NextAttempt, TaskStep DEF Claim, LoopInv, LoopTypeOK

LEMMA LeaseExpiresKeeps == ASSUME LoopInv, LeaseExpires PROVE LoopInv'
<1>1. execution' \in Execution BY DEF LeaseExpires, LoopInv, LoopTypeOK, Execution
<1> QED BY <1>1, TaskStep DEF LeaseExpires, LoopInv, LoopTypeOK

\* The user's retry is prepared from a good draft.
LEMMA RetryIsGood ==
    ASSUME NEW c, GoodDraft(c), c.prepared, c.retries < RetryBound
    PROVE  GoodDraft(ManualRetry(c)) /\ ManualRetry(c).prepared
<1>1. c \in Checkpoint BY DEF GoodDraft
<1> DEFINE r == Resume(c)
<1>2. GoodDraft(r) /\ r.prepared /\ r.outcome = "running" BY ResumeIsGood
<1>3. PICK rounds \in [Items -> Nat] :
          rounds = [i \in Items |-> IF i = CurrentItem(c) THEN 0 ELSE c.rounds[i]]
  BY <1>1, DraftFields
<1>4. PICK t \in Nat : t = c.turns + MaxTurns BY <1>1, DraftFields, LoopAssumption
<1>5. PICK k \in Nat : k = c.calls + MaxCalls BY <1>1, DraftFields, LoopAssumption
<1>6. PICK n \in 0 .. RetryBound : n = c.retries + 1 BY <1>1, DraftFields, LoopAssumption
<1> DEFINE m == [r EXCEPT !.turnLimit = t, !.callLimit = k, !.rounds = rounds, !.retries = n]
<1>7. ManualRetry(c) = m BY <1>3, <1>4, <1>5, <1>6 DEF ManualRetry
<1> HIDE DEF r
<1>8. r \in Checkpoint BY <1>2 DEF GoodDraft
<1>9. m \in Checkpoint BY <1>8, LoopAssumption DEF Checkpoint
<1>10. /\ m.pending = r.pending /\ m.done = r.done /\ m.cache = r.cache /\ m.ledger = r.ledger
       /\ m.prepared = r.prepared /\ m.outcome = r.outcome /\ m.completed = r.completed
  BY <1>8 DEF Checkpoint
<1> HIDE DEF m
<1>11. GoodDraft(m) /\ m.prepared BY <1>2, <1>9, <1>10 DEF GoodDraft
<1> QED BY <1>7, <1>11

LEMMA RetryClaimKeeps == ASSUME LoopInv, RetryClaim PROVE LoopInv'
<1>1. checkpoint.prepared BY DEF RetryClaim, RequiresManualRetry, LoopInv, GoodDraft
<1> DEFINE d == ManualRetry(checkpoint)
<1>2. GoodDraft(d) /\ d.prepared BY <1>1, RetryIsGood DEF RetryClaim, LoopInv
<1>3. execution.attempt + 1 \in 0 .. AttemptBound
  BY LoopAssumption DEF RetryClaim, LoopInv, LoopTypeOK, Execution
<1>4. retry' = [attempt |-> execution.attempt + 1, draft |-> d] BY DEF RetryClaim
<1> HIDE DEF d
<1>5. retry' \in [attempt : 0 .. AttemptBound, draft : Checkpoint] /\ retry'.draft = d
  BY <1>2, <1>3, <1>4 DEF GoodDraft
<1>6. execution' \in Execution BY NextAttempt DEF RetryClaim
<1> QED BY <1>2, <1>5, <1>6, TaskStep DEF RetryClaim, LoopInv

LEMMA RetryWriteKeeps == ASSUME LoopInv, RetryWrite PROVE LoopInv'
<1>1. GoodDraft(checkpoint') /\ (checkpoint.prepared => checkpoint'.prepared)
  BY DEF RetryWrite, LoopInv
<1> QED BY <1>1, NoRetryIsTyped, TaskStep DEF RetryWrite, LoopInv, LoopTypeOK

LEMMA JoinKeeps == ASSUME LoopInv, NEW w \in Workers, Join(w) PROVE LoopInv'
<1>1. execution.attempt \in 0 .. AttemptBound BY LoopAssumption DEF LoopInv, LoopTypeOK, Execution
<1> DEFINE l == [IdleLoop EXCEPT !.pc = "prepare", !.attempt = execution.attempt]
<1>2. GoodLoop(l) BY <1>1, FreshIsGood
<1>3. l.pc = "prepare" BY IdleIsGood DEF GoodLoop, Loop
<1>4. loop' = [loop EXCEPT ![w] = l] BY DEF Join
<1> HIDE DEF l
<1> QED BY <1>2, <1>3, <1>4, WorkerStep DEF Join, LoopInv, LoopTypeOK, AtRest

LEMMA CrashKeeps == ASSUME LoopInv, NEW w \in Workers, Crash(w) PROVE LoopInv'
<1>1. crashes' \in 0 .. CrashBound BY LoopAssumption DEF Crash, LoopInv, LoopTypeOK
<1> QED BY <1>1, IdleKeeps DEF Crash, LoopInv, LoopTypeOK

LEMMA FinishKeeps == ASSUME LoopInv, NEW w \in Workers, Finish(w) PROVE LoopInv'
<1>1. execution' \in Execution BY DEF Finish, LoopInv, LoopTypeOK, Execution
<1> QED BY <1>1, IdleKeeps DEF Finish, LoopInv, LoopTypeOK

LEMMA FencedKeeps == ASSUME LoopInv, NEW w \in Workers, Fenced(w) PROVE LoopInv'
BY GotoKeeps DEF Fenced

-----------------------------------------------------------------------------
(* prepare, load, reserve *)

LEMMA PreparedIsGood ==
    ASSUME NEW c, GoodDraft(c), workspace \in Source, First.probes \subseteq workspace.probes
    PROVE  GoodDraft(Prepared(c)) /\ Prepared(c).prepared
<1> SUFFICES ASSUME ~c.prepared PROVE GoodDraft(Prepared(c)) /\ Prepared(c).prepared
  BY DEF Prepared
<1>1. c \in Checkpoint BY DEF GoodDraft
<1>2. PICK ledger \in SUBSET Probes : ledger = c.ledger \cup workspace.probes
  BY <1>1, DraftFields DEF Source
<1> DEFINE p == [c EXCEPT !.prepared = TRUE, !.ledger = ledger, !.observed = workspace]
<1>3. Prepared(c) = p BY <1>2 DEF Prepared
<1>4. p \in Checkpoint BY <1>1, <1>2 DEF Checkpoint
<1>5. /\ p.pending = c.pending /\ p.done = c.done /\ p.cache = c.cache /\ p.ledger = ledger
      /\ p.prepared /\ p.outcome = c.outcome /\ p.completed = c.completed
  BY <1>1 DEF Checkpoint
<1> HIDE DEF p
<1>6. GoodDraft(p) BY <1>2, <1>4, <1>5 DEF GoodDraft
<1> QED BY <1>3, <1>5, <1>6
LEMMA CheckedIsGood ==
    ASSUME NEW c, GoodDraft(c), c.prepared, NEW a \in 0 .. AttemptBound
    PROVE  GoodDraft([c EXCEPT !.environment = a]) /\ [c EXCEPT !.environment = a].prepared
<1> DEFINE p == [c EXCEPT !.environment = a]
<1>1. c \in Checkpoint BY DEF GoodDraft
<1>2. p \in Checkpoint BY <1>1 DEF Checkpoint
<1>3. /\ p.pending = c.pending /\ p.done = c.done /\ p.cache = c.cache /\ p.ledger = c.ledger
      /\ p.prepared = c.prepared /\ p.outcome = c.outcome /\ p.completed = c.completed
  BY <1>1 DEF Checkpoint
<1> QED BY <1>2, <1>3 DEF GoodDraft

LEMMA PrepareKeeps ==
    ASSUME LoopInv, NEW w \in Workers, NEW available \in BOOLEAN, Prepare(w, available)
    PROVE  LoopInv'
<1> DEFINE c == Resumed(checkpoint)
           q == Prepared(c)
           p == [q EXCEPT !.environment = execution.attempt]
<1>1. GoodDraft(c) BY ResumeIsGood DEF Resumed, LoopInv
<1>2. workspace \in Source /\ First.probes \subseteq workspace.probes BY DEF LoopInv, LoopTypeOK
<1>3. GoodDraft(q) /\ q.prepared BY <1>1, <1>2, PreparedIsGood
<1>4. execution.attempt \in 0 .. AttemptBound BY LoopAssumption DEF LoopInv, LoopTypeOK, Execution
<1>5. GoodDraft(p) /\ p.prepared BY <1>3, <1>4, CheckedIsGood
<1>6. \/ Goto(w, "finish") /\ UNCHANGED checkpoint
      \/ c.outcome # "running" /\ Save(w, c)
      \/ Save(w, Block(q, "environment"))
      \/ Save(w, p)
  BY DEF Prepare
<1>7. UNCHANGED <<workspace, Rest>> BY DEF Prepare
<1> HIDE DEF c, p, q
<1>8. CASE Goto(w, "finish") /\ UNCHANGED checkpoint BY <1>7, <1>8, GotoKeeps
<1>9. CASE c.outcome # "running" /\ Save(w, c)
  <2>1. c.prepared BY <1>1, <1>9 DEF GoodDraft
  <2> QED BY <1>1, <1>2, <1>7, <1>9, <2>1, SaveKeeps
<1>10. CASE Save(w, Block(q, "environment"))
  <2>1. GoodDraft(Block(q, "environment")) /\ Block(q, "environment").prepared
    BY <1>3, BlockIsGood DEF Reasons
  <2> QED BY <1>2, <1>7, <1>10, <2>1, SaveKeeps
<1>11. CASE Save(w, p) BY <1>2, <1>5, <1>7, <1>11, SaveKeeps
<1> QED BY <1>6, <1>8, <1>9, <1>10, <1>11

\* A worker in the loop works on a draft that was prepared.
LEMMA Inside ==
    ASSUME LoopInv, NEW w \in Workers, loop[w].pc \notin AtRest
    PROVE  /\ checkpoint.prepared /\ GoodDraft(checkpoint) /\ checkpoint \in Checkpoint
           /\ loop[w] \in Loop /\ GoodLoop(loop[w])
           /\ workspace \in Source /\ First.probes \subseteq workspace.probes
BY DEF LoopInv, LoopTypeOK, GoodDraft, GoodLoop

LEMMA LoadKeeps == ASSUME LoopInv, NEW w \in Workers, Load(w) PROVE LoopInv'
<1>1. loop[w].pc = "load" /\ loop[w].pc \notin AtRest BY DEF Load, AtRest
<1>2. UNCHANGED <<workspace, Rest>> BY DEF Load
<1>3. CASE \E c \in {checkpoint, Block(checkpoint, "terminal"), Block(checkpoint, "plain")} : Save(w, c)
  <2>1. PICK c \in {checkpoint, Block(checkpoint, "terminal"), Block(checkpoint, "plain")} : Save(w, c)
    BY <1>3
  <2>2. GoodDraft(c) /\ c.prepared BY <1>1, Inside, BlockIsGood DEF Reasons
  <2> QED BY <1>1, <1>2, <2>1, <2>2, Inside, SaveKeeps
<1>4. CASE /\ loop' = [loop EXCEPT ![w].pc = "reserve",
                                  ![w].item = IF checkpoint.planned THEN CurrentItem(checkpoint) ELSE 0,
                                  ![w].mayCheck = ~FailedHere]
           /\ UNCHANGED checkpoint
  <2>1. PICK i \in Items \cup {0} : i = IF checkpoint.planned THEN CurrentItem(checkpoint) ELSE 0
    BY <1>1, Inside, CurrentIsPending
  <2>2. PICK b \in BOOLEAN : b = ~FailedHere OBVIOUS
  <2> DEFINE l == [loop[w] EXCEPT !.pc = "reserve", !.item = i, !.mayCheck = b]
  <2>3. loop' = [loop EXCEPT ![w] = l] BY <1>4, <2>1, <2>2 DEF LoopInv, LoopTypeOK
  <2>4. l \in Loop
    <3>1. loop[w] \in Loop BY <1>1, Inside
    <3>2. "reserve" \in Pcs BY DEF Pcs
    <3> QED BY <3>1, <3>2 DEF Loop
  <2>5. /\ l.new = loop[w].new /\ l.cached = loop[w].cached /\ l.result = loop[w].result
        /\ l.act = loop[w].act /\ l.pc = "reserve"
    BY <1>1, Inside DEF Loop
  <2> HIDE DEF l
  <2>6. GoodLoop(l) BY <1>1, <2>4, <2>5, Inside DEF GoodLoop
  <2> QED BY <1>1, <1>2, <1>4, <2>3, <2>6, Inside, GoOnKeeps
<1> QED BY <1>3, <1>4 DEF Load

LEMMA ReserveKeeps == ASSUME LoopInv, NEW w \in Workers, Reserve(w) PROVE LoopInv'
<1>1. loop[w].pc = "reserve" /\ loop[w].pc \notin AtRest BY DEF Reserve, AtRest
<1> DEFINE c == [checkpoint EXCEPT !.turns = @ + 1]
           l == [loop[w] EXCEPT !.pc = "model"]
<1>2. checkpoint' = c /\ c \in Checkpoint BY <1>1, Inside DEF Reserve, Checkpoint
<1>3. /\ c.pending = checkpoint.pending /\ c.done = checkpoint.done /\ c.cache = checkpoint.cache
      /\ c.ledger = checkpoint.ledger /\ c.prepared = checkpoint.prepared
      /\ c.outcome = checkpoint.outcome /\ c.completed = checkpoint.completed
  BY <1>1, Inside DEF Checkpoint
<1>4. loop' = [loop EXCEPT ![w] = l] /\ l \in Loop
  BY <1>1, Inside DEF Reserve, LoopInv, LoopTypeOK, Loop, Pcs
<1>5. /\ l.new = loop[w].new /\ l.cached = loop[w].cached /\ l.result = loop[w].result
      /\ l.act = loop[w].act /\ l.pc = "model"
  BY <1>1, Inside DEF Loop
<1> HIDE DEF c, l
<1>6. GoodDraft(c) /\ c.prepared BY <1>1, <1>2, <1>3, Inside DEF GoodDraft
<1>7. GoodLoop(l) BY <1>1, <1>4, <1>5, Inside DEF GoodLoop
<1> QED BY <1>1, <1>2, <1>4, <1>6, <1>7, Inside, WorkerStep DEF Reserve, Rest, LoopInv, LoopTypeOK

\* The fields of what a worker holds.
LEMMA LoopFields ==
    ASSUME NEW l, GoodLoop(l)
    PROVE  /\ l \in Loop /\ l.check \in Checks /\ l.base \in Source /\ l.new \in Source
           /\ l.item \in Items \cup {0} /\ l.attempt \in 0 .. AttemptBound
BY DEF GoodLoop, Loop

-----------------------------------------------------------------------------
(* The model's answer *)

\* A worker that has the model's answer has no check result.
LEMMA Asked ==
    ASSUME LoopInv, NEW w \in Workers, loop[w].pc = "model"
    PROVE  /\ checkpoint.prepared /\ loop[w] \in Loop /\ GoodLoop(loop[w]) /\ loop[w].result = "none"
           /\ GoodDraft(checkpoint) /\ checkpoint \in Checkpoint
           /\ workspace \in Source /\ First.probes \subseteq workspace.probes
BY Inside DEF AtRest, GoodLoop
\* A call, by what the worker goes on with.
LEMMA CallKeeps ==
    ASSUME LoopInv, NEW w \in Workers, loop[w].pc = "model", NEW l \in Loop,
           l.pc \in {"record", "verify"}, l.result = loop[w].result,
           First.probes \subseteq l.new.probes, Proven(l.cached),
           l.act = "complete" => l.pc = "verify" /\ l.item # 0,
           l.pc = "verify" => l.act \in {"check", "complete"} /\ \A e \in l.cached : e.check = l.check,
           loop' = [loop EXCEPT ![w] = l],
           checkpoint' \in {checkpoint, Count(checkpoint)}, UNCHANGED <<workspace, Rest>>
    PROVE  LoopInv'
<1>1. GoodLoop(l) BY Asked DEF GoodLoop
<1> QED BY <1>1, Asked, GoOnKeeps

LEMMA CallReadKeeps == ASSUME LoopInv, NEW w \in Workers, CallRead(w) PROVE LoopInv'
<1>1. loop[w].pc = "model" BY DEF CallRead, Spend
<1>w. loop[w] \in Loop /\ workspace \in Source BY <1>1, Asked
<1> DEFINE l == [loop[w] EXCEPT !.pc = "record", !.act = "read", !.new = workspace]
<1>2. loop' = [loop EXCEPT ![w] = l] BY <1>1, Asked DEF CallRead, LoopInv, LoopTypeOK, Loop
<1>3. l \in Loop BY <1>w DEF Loop, Pcs, Acts
<1>4. /\ l.pc = "record" /\ l.act = "read" /\ l.result = loop[w].result
      /\ l.new = workspace /\ l.cached = loop[w].cached
  BY <1>1, Asked DEF Loop
<1>5. checkpoint' = Count(checkpoint) /\ UNCHANGED <<workspace, Rest>> BY DEF CallRead, Spend
<1> HIDE DEF l
<1> QED BY <1>1, <1>2, <1>3, <1>4, <1>5, Asked, CallKeeps DEF GoodLoop

LEMMA CallPlanKeeps == ASSUME LoopInv, NEW w \in Workers, CallPlan(w) PROVE LoopInv'
<1>1. loop[w].pc = "model" BY DEF CallPlan, Spend
<1>w. loop[w] \in Loop /\ workspace \in Source BY <1>1, Asked
<1> DEFINE l == [loop[w] EXCEPT !.pc = "record", !.act = "plan"]
<1>2. loop' = [loop EXCEPT ![w] = l] BY <1>1, Asked DEF CallPlan, LoopInv, LoopTypeOK, Loop
<1>3. l \in Loop BY <1>w DEF Loop, Pcs, Acts
<1>4. /\ l.pc = "record" /\ l.act = "plan" /\ l.result = loop[w].result
      /\ l.new = loop[w].new /\ l.cached = loop[w].cached
  BY <1>1, Asked DEF Loop
<1>5. checkpoint' = Count(checkpoint) /\ UNCHANGED <<workspace, Rest>> BY DEF CallPlan, Spend
<1> HIDE DEF l
<1> QED BY <1>1, <1>2, <1>3, <1>4, <1>5, Asked, CallKeeps DEF GoodLoop

LEMMA CallReportBlockedKeeps == ASSUME LoopInv, NEW w \in Workers, CallReportBlocked(w) PROVE LoopInv'
<1>1. loop[w].pc = "model" BY DEF CallReportBlocked, Spend
<1>w. loop[w] \in Loop /\ workspace \in Source BY <1>1, Asked
<1> DEFINE l == [loop[w] EXCEPT !.pc = "record", !.act = "report_blocked"]
<1>2. loop' = [loop EXCEPT ![w] = l] BY <1>1, Asked DEF CallReportBlocked, LoopInv, LoopTypeOK, Loop
<1>3. l \in Loop BY <1>w DEF Loop, Pcs, Acts
<1>4. /\ l.pc = "record" /\ l.act = "report_blocked" /\ l.result = loop[w].result
      /\ l.new = loop[w].new /\ l.cached = loop[w].cached
  BY <1>1, Asked DEF Loop
<1>5. checkpoint' = Count(checkpoint) /\ UNCHANGED <<workspace, Rest>> BY DEF CallReportBlocked, Spend
<1> HIDE DEF l
<1> QED BY <1>1, <1>2, <1>3, <1>4, <1>5, Asked, CallKeeps DEF GoodLoop

LEMMA RejectKeeps == ASSUME LoopInv, NEW w \in Workers, Reject(w) PROVE LoopInv'
<1>1. loop[w].pc = "model" BY DEF Reject
<1>w. loop[w] \in Loop /\ workspace \in Source BY <1>1, Asked
<1> DEFINE l == [loop[w] EXCEPT !.pc = "record", !.act = "reject"]
<1>2. loop' = [loop EXCEPT ![w] = l] BY <1>1, Asked DEF Reject, LoopInv, LoopTypeOK, Loop
<1>3. l \in Loop BY <1>w DEF Loop, Pcs, Acts
<1>4. /\ l.pc = "record" /\ l.act = "reject" /\ l.result = loop[w].result
      /\ l.new = loop[w].new /\ l.cached = loop[w].cached
  BY <1>1, Asked DEF Loop
<1>5. checkpoint' = checkpoint /\ UNCHANGED <<workspace, Rest>> BY DEF Reject
<1> HIDE DEF l
<1> QED BY <1>1, <1>2, <1>3, <1>4, <1>5, Asked, CallKeeps DEF GoodLoop

LEMMA OutOfCallsKeeps == ASSUME LoopInv, NEW w \in Workers, OutOfCalls(w) PROVE LoopInv'
<1>1. loop[w].pc = "model" BY DEF OutOfCalls
<1> DEFINE c == Block(checkpoint, "terminal")
<1>2. GoodDraft(c) /\ c.prepared BY <1>1, Asked, BlockIsGood DEF Reasons
<1>3. Save(w, c) /\ UNCHANGED <<workspace, Rest>> BY DEF OutOfCalls
<1> HIDE DEF c
<1> QED BY <1>1, <1>2, <1>3, Asked, SaveKeeps

\* An edit keeps the inherited probes: they are in the ledger.
LEMMA CallEditKeeps ==
    ASSUME LoopInv, NEW w \in Workers, NEW new \in Source, CallEdit(w, new)
    PROVE  LoopInv'
<1>1. loop[w].pc = "model" BY DEF CallEdit, Spend
<1>w. loop[w] \in Loop /\ workspace \in Source BY <1>1, Asked
<1> DEFINE l == [loop[w] EXCEPT !.pc = "record", !.act = "edit", !.base = workspace, !.new = new]
<1>2. loop' = [loop EXCEPT ![w] = l] BY <1>1, Asked DEF CallEdit, LoopInv, LoopTypeOK, Loop
<1>3. l \in Loop BY <1>w DEF Loop, Pcs, Acts
<1>4. /\ l.pc = "record" /\ l.act = "edit" /\ l.result = loop[w].result
      /\ l.new = new /\ l.cached = loop[w].cached
  BY <1>1, Asked DEF Loop
<1>5. checkpoint' = Count(checkpoint) /\ UNCHANGED <<workspace, Rest>> BY DEF CallEdit, Spend
<1> HIDE DEF l
<1>6. First.probes \subseteq checkpoint.ledger BY <1>1, Asked DEF GoodDraft
<1>7. First.probes \subseteq new.probes
  BY <1>1, <1>6, Asked DEF CallEdit, StageEdit, KeepsLedger
<1> QED BY <1>1, <1>2, <1>3, <1>4, <1>5, <1>7, Asked, CallKeeps DEF GoodLoop

LEMMA CachedIsProven ==
    ASSUME LoopInv, NEW check
    PROVE  /\ CachedResult(check) \in SUBSET Evidence /\ Proven(CachedResult(check))
           /\ \A e \in CachedResult(check) : e.check = check
BY DraftFields DEF LoopInv, GoodDraft, CachedResult, Proven

LEMMA CallCheckKeeps ==
    ASSUME LoopInv, NEW w \in Workers, NEW check \in Checks, CallCheck(w, check)
    PROVE  LoopInv'
<1>1. loop[w].pc = "model" BY DEF CallCheck, Spend
<1>0. PICK e \in SUBSET Evidence : e = CachedResult(check) /\ Proven(e) /\ \A f \in e : f.check = check
  BY CachedIsProven
<1>w. loop[w] \in Loop /\ workspace \in Source BY <1>1, Asked
<1> DEFINE l == [loop[w] EXCEPT !.pc = "verify", !.act = "check", !.check = check, !.cached = e]
<1>2. loop' = [loop EXCEPT ![w] = l] BY <1>1, <1>0, Asked DEF CallCheck, LoopInv, LoopTypeOK, Loop
<1>3. l \in Loop BY <1>w DEF Loop, Pcs, Acts
<1>4. /\ l.pc = "verify" /\ l.act = "check" /\ l.result = loop[w].result
      /\ l.new = loop[w].new /\ l.cached = e /\ l.check = check
  BY <1>1, Asked DEF Loop
<1>5. checkpoint' = Count(checkpoint) /\ UNCHANGED <<workspace, Rest>> BY DEF CallCheck, Spend
<1> HIDE DEF l
<1>6. First.probes \subseteq loop[w].new.probes BY <1>1, Asked DEF GoodLoop
<1>7. LoopInv /\ w \in Workers OBVIOUS
<1> QED BY ONLY <1>0, <1>1, <1>2, <1>3, <1>4, <1>5, <1>6, <1>7, CallKeeps

LEMMA CallCompleteKeeps ==
    ASSUME LoopInv, NEW w \in Workers, NEW check \in Checks, CallComplete(w, check)
    PROVE  LoopInv'
<1>1. loop[w].pc = "model" /\ loop[w].item # 0 BY DEF CallComplete, Spend
<1>0. PICK e \in SUBSET Evidence : e = CachedResult(check) /\ Proven(e) /\ \A f \in e : f.check = check
  BY CachedIsProven
<1>w. loop[w] \in Loop /\ workspace \in Source BY <1>1, Asked
<1> DEFINE l == [loop[w] EXCEPT !.pc = "verify", !.act = "complete", !.check = check, !.base = workspace, !.cached = e]
<1>2. loop' = [loop EXCEPT ![w] = l] BY <1>1, <1>0, Asked DEF CallComplete, LoopInv, LoopTypeOK, Loop
<1>3. l \in Loop BY <1>w DEF Loop, Pcs, Acts
<1>4. /\ l.pc = "verify" /\ l.act = "complete" /\ l.result = loop[w].result
      /\ l.new = loop[w].new /\ l.cached = e /\ l.check = check /\ l.item = loop[w].item
  BY <1>1, Asked DEF Loop
<1>5. checkpoint' = Count(checkpoint) /\ UNCHANGED <<workspace, Rest>> BY DEF CallComplete, Spend
<1> HIDE DEF l
<1>6. First.probes \subseteq loop[w].new.probes BY <1>1, Asked DEF GoodLoop
<1>7. LoopInv /\ w \in Workers OBVIOUS
<1> QED BY ONLY <1>0, <1>1, <1>2, <1>3, <1>4, <1>5, <1>6, <1>7, CallKeeps

-----------------------------------------------------------------------------
(* Checks *)

LEMMA VerifyKeeps ==
    ASSUME LoopInv, NEW w \in Workers, NEW available \in BOOLEAN, Verify(w, available)
    PROVE  LoopInv'
<1>1. loop[w].pc = "verify" /\ loop[w].pc \notin AtRest BY DEF Verify, AtRest
<1>2. loop[w] \in Loop /\ GoodLoop(loop[w]) /\ workspace \in Source /\ checkpoint.prepared
  BY <1>1, Inside
<1> DEFINE reused == {e \in loop[w].cached : e.source = workspace}
           found == IF reused # {} THEN \A e \in reused : e.ok ELSE Passes(loop[w].check, workspace)
<1>3. PICK r \in {"ok", "failed", "environment"} :
         r = IF ~available /\ reused = {} THEN "environment" ELSE IF found THEN "ok" ELSE "failed"
  OBVIOUS
<1>4. found => Passes(loop[w].check, workspace)
  <2>1. SUFFICES ASSUME reused # {}, \A e \in reused : e.ok PROVE Passes(loop[w].check, workspace)
    OBVIOUS
  <2>2. PICK e \in reused : e.ok BY <2>1
  <2>3. e.source = workspace /\ e.check = loop[w].check BY <1>1, <1>2, <2>2 DEF GoodLoop
  <2> QED BY <1>2, <2>2, <2>3 DEF GoodLoop, Proven
<1>5. r = "ok" => Passes(loop[w].check, workspace) BY <1>3, <1>4
<1> DEFINE l == [loop[w] EXCEPT !.pc = "compare", !.new = workspace, !.result = r]
<1>6. loop' = [loop EXCEPT ![w] = l] BY <1>1, <1>2, <1>3 DEF Verify, LoopInv, LoopTypeOK, Loop
<1>7. l \in Loop BY <1>2 DEF Loop, Pcs
<1>8. /\ l.new = workspace /\ l.cached = loop[w].cached /\ l.result = r /\ l.check = loop[w].check
      /\ l.act = loop[w].act /\ l.item = loop[w].item /\ l.pc = "compare"
  BY <1>2 DEF Loop
<1> HIDE DEF l
<1>9. GoodLoop(l) BY <1>1, <1>2, <1>5, <1>7, <1>8, Inside DEF GoodLoop
<1>10. checkpoint' = checkpoint /\ UNCHANGED <<workspace, Rest>> BY DEF Verify
<1> QED BY <1>2, <1>6, <1>9, <1>10, GoOnKeeps

LEMMA CompareKeeps == ASSUME LoopInv, NEW w \in Workers, Compare(w) PROVE LoopInv'
<1>1. loop[w].pc = "compare" /\ loop[w].pc \notin AtRest BY DEF Compare, AtRest
<1>2. loop[w] \in Loop /\ GoodLoop(loop[w]) /\ workspace \in Source /\ checkpoint.prepared
  BY <1>1, Inside
<1>3. PICK pc \in {"complete", "record"} :
         pc = IF loop[w].act = "complete" THEN "complete" ELSE "record"
  OBVIOUS
<1>4. PICK r \in {"none", "ok", "failed", "environment", "changed"} :
         /\ r = IF loop[w].result = "ok"
                   /\ ~(workspace = loop[w].new /\ (loop[w].act = "complete" => loop[w].new = loop[w].base))
                THEN "changed" ELSE loop[w].result
         /\ r = "ok" => loop[w].result = "ok"
  BY <1>2 DEF Loop
<1> DEFINE l == [loop[w] EXCEPT !.pc = pc, !.result = r]
<1>5. loop' = [loop EXCEPT ![w] = l] BY <1>2, <1>3, <1>4 DEF Compare, LoopInv, LoopTypeOK, Loop
<1>6. l \in Loop BY <1>2 DEF Loop, Pcs
<1>7. /\ l.new = loop[w].new /\ l.cached = loop[w].cached /\ l.result = r /\ l.check = loop[w].check
      /\ l.act = loop[w].act /\ l.item = loop[w].item /\ l.pc = pc
  BY <1>2 DEF Loop
<1> HIDE DEF l
<1>8. GoodLoop(l) BY <1>1, <1>2, <1>3, <1>4, <1>6, <1>7 DEF GoodLoop
<1>9. checkpoint' = checkpoint /\ UNCHANGED <<workspace, Rest>> BY DEF Compare
<1> QED BY <1>2, <1>5, <1>8, <1>9, GoOnKeeps

\* The probes a failed run may name are probes.
LEMMA NamedAreProbes ==
    ASSUME workspace \in Source, NEW l
    PROVE  {} \in SUBSET Probes /\ \A named \in Named(l) : named \in SUBSET Probes
BY DEF Named, Source

-----------------------------------------------------------------------------
(* Records *)

\* What an action records, or a stop-loss on top of it.
LEMMA StopsKeep ==
    ASSUME LoopInv, NEW w \in Workers, loop[w].pc \notin AtRest, NEW d, GoodDraft(d), d.prepared,
           NEW c \in Stops(d), Save(w, c), UNCHANGED <<workspace, Rest>>
    PROVE  LoopInv'
<1>1. GoodDraft(c) /\ c.prepared BY StopsAreGood
<1> QED BY <1>1, Inside, SaveKeeps

LEMMA RecordRejectKeeps == ASSUME LoopInv, NEW w \in Workers, RecordReject(w) PROVE LoopInv'
<1>1. loop[w].pc \notin AtRest BY DEF RecordReject, Recording, AtRest
<1> QED BY <1>1, Inside, StopsKeep DEF RecordReject
LEMMA RecordPlanRejectedKeeps == ASSUME LoopInv, NEW w \in Workers, RecordPlanRejected(w) PROVE LoopInv'
<1>1. loop[w].pc \notin AtRest BY DEF RecordPlanRejected, Recording, AtRest
<1> QED BY <1>1, Inside, StopsKeep DEF RecordPlanRejected
LEMMA RecordConflictKeeps == ASSUME LoopInv, NEW w \in Workers, RecordConflict(w) PROVE LoopInv'
<1>1. loop[w].pc \notin AtRest BY DEF RecordConflict, Recording, AtRest
<1> QED BY <1>1, Inside, StopsKeep DEF RecordConflict
LEMMA RecordReportBlockedKeeps == ASSUME LoopInv, NEW w \in Workers, RecordReportBlocked(w) PROVE LoopInv'
<1>1. loop[w].pc \notin AtRest BY DEF RecordReportBlocked, Recording, AtRest
<1> DEFINE c == Block(checkpoint, "plain")
<1>2. GoodDraft(c) /\ c.prepared BY <1>1, Inside, BlockIsGood DEF Reasons
<1>3. Save(w, c) /\ UNCHANGED <<workspace, Rest>> BY DEF RecordReportBlocked
<1> HIDE DEF c
<1> QED BY <1>1, <1>2, <1>3, Inside, SaveKeeps

\* A draft that has seen a source.
LEMMA SeenIsGood ==
    ASSUME NEW c, GoodDraft(c), c.prepared, NEW source \in Source, NEW cache \in SUBSET Evidence, Proven(cache)
    PROVE  LET d == [c EXCEPT !.observed = source, !.cache = cache] IN
           GoodDraft(d) /\ d.prepared /\ d.outcome = c.outcome
<1> DEFINE d == [c EXCEPT !.observed = source, !.cache = cache]
<1>1. c \in Checkpoint BY DEF GoodDraft
<1>2. d \in Checkpoint BY <1>1 DEF Checkpoint
<1>3. /\ d.pending = c.pending /\ d.done = c.done /\ d.cache = cache /\ d.ledger = c.ledger
      /\ d.prepared = c.prepared /\ d.outcome = c.outcome /\ d.completed = c.completed
  BY <1>1 DEF Checkpoint
<1> HIDE DEF d
<1>4. GoodDraft(d) /\ d.prepared /\ d.outcome = c.outcome BY <1>2, <1>3 DEF GoodDraft
<1> QED BY <1>4 DEF d

LEMMA RecordReadKeeps ==
    ASSUME LoopInv, NEW w \in Workers, NEW more \in BOOLEAN, RecordRead(w, more)
    PROVE  LoopInv'
<1>1. loop[w].pc = "record" /\ loop[w].act = "read" /\ loop[w].pc \notin AtRest
  BY DEF RecordRead, Recording, AtRest
<1>2. /\ loop[w] \in Loop /\ GoodLoop(loop[w]) /\ checkpoint.prepared /\ GoodDraft(checkpoint)
      /\ workspace \in Source /\ First.probes \subseteq workspace.probes
  BY <1>1, Inside
<1> DEFINE d == [checkpoint EXCEPT !.observed = loop[w].new]
<1>3. PICK e \in SUBSET Evidence : e = checkpoint.cache /\ Proven(e)
  BY <1>2, DraftFields DEF GoodDraft
<1>4. d = [checkpoint EXCEPT !.observed = loop[w].new, !.cache = e]
  BY <1>2, <1>3 DEF GoodDraft, Checkpoint
<1>5. loop[w].new \in Source BY <1>2 DEF Loop
<1> HIDE DEF d
<1>6. GoodDraft(d) /\ d.prepared BY <1>2, <1>3, <1>4, <1>5, SeenIsGood
<1>7. PICK c \in Stops(d) :
        /\ checkpoint' = c
        /\ \/ loop' = [loop EXCEPT ![w].pc = "model", ![w].act = "none", ![w].new = First]
           \/ Goto(w, After(c))
  BY DEF RecordRead, d
<1>8. UNCHANGED <<workspace, Rest>> BY DEF RecordRead
<1>9. GoodDraft(c) /\ c.prepared BY <1>6, <1>7, StopsAreGood
<1>10. CASE Goto(w, After(c))
  <2>1. Save(w, c) BY <1>7, <1>10 DEF Save
  <2> QED BY <1>2, <1>8, <1>9, <2>1, SaveKeeps
<1>11. CASE loop' = [loop EXCEPT ![w].pc = "model", ![w].act = "none", ![w].new = First]
  <2> DEFINE l == [loop[w] EXCEPT !.pc = "model", !.act = "none", !.new = First]
  <2>1. loop' = [loop EXCEPT ![w] = l] BY <1>2, <1>11 DEF LoopInv, LoopTypeOK, Loop
  <2>2. l \in Loop BY <1>2, FirstIsSource DEF Loop, Pcs, Acts
  <2>3. /\ l.new = First /\ l.cached = loop[w].cached /\ l.result = loop[w].result
        /\ l.act = "none" /\ l.pc = "model"
    BY <1>2 DEF Loop
  <2> HIDE DEF l
  <2>4. GoodLoop(l) BY <1>1, <1>2, <2>2, <2>3 DEF GoodLoop
  <2> QED BY <1>7, <1>8, <1>9, <2>1, <2>4, <1>2, WorkerStep DEF Rest, LoopInv, LoopTypeOK
<1> QED BY <1>7, <1>10, <1>11

LEMMA RecordPlanKeeps == ASSUME LoopInv, NEW w \in Workers, RecordPlan(w) PROVE LoopInv'
<1>1. loop[w].pc \notin AtRest BY DEF RecordPlan, Recording, AtRest
<1>2. GoodDraft(checkpoint) /\ checkpoint.prepared /\ checkpoint \in Checkpoint BY <1>1, Inside
<1>3. PICK p \in Plans(checkpoint) :
        \E c \in Stops([checkpoint EXCEPT !.planned = TRUE, !.pending = p]) : Save(w, c)
  BY DEF RecordPlan
<1>4. p \in SUBSET Items /\ p \cap checkpoint.done = {} BY <1>3 DEF Plans
<1> DEFINE d == [checkpoint EXCEPT !.planned = TRUE, !.pending = p]
<1>5. d \in Checkpoint BY <1>2, <1>4 DEF Checkpoint
<1>6. /\ d.pending = p /\ d.done = checkpoint.done /\ d.cache = checkpoint.cache
      /\ d.ledger = checkpoint.ledger /\ d.prepared = checkpoint.prepared
      /\ d.outcome = checkpoint.outcome /\ d.completed = checkpoint.completed
  BY <1>2 DEF Checkpoint
<1>7. PICK c \in Stops(d) : Save(w, c) BY <1>3
<1> HIDE DEF d
<1>8. GoodDraft(d) /\ d.prepared BY <1>2, <1>4, <1>5, <1>6 DEF GoodDraft
<1> QED BY <1>1, <1>7, <1>8, StopsKeep DEF RecordPlan

LEMMA RecordCheckKeeps == ASSUME LoopInv, NEW w \in Workers, RecordCheck(w) PROVE LoopInv'
<1>1. loop[w].pc \notin AtRest BY DEF RecordCheck, Recording, AtRest
<1>2. /\ GoodDraft(checkpoint) /\ checkpoint.prepared /\ GoodLoop(loop[w]) /\ workspace \in Source
      /\ First.probes \subseteq workspace.probes
  BY <1>1, Inside
<1>3. PICK named \in Named(loop[w]) :
        \E c \in Stops(RememberCheck(checkpoint, loop[w], named)) :
          Save(w, IF loop[w].result = "environment" THEN Block(c, "environment") ELSE c)
  BY DEF RecordCheck
<1> DEFINE d == RememberCheck(checkpoint, loop[w], named)
<1>4. GoodDraft(d) /\ d.prepared BY <1>2, NamedAreProbes, RememberIsGood
<1>5. PICK c \in Stops(d) :
        Save(w, IF loop[w].result = "environment" THEN Block(c, "environment") ELSE c)
  BY <1>3
<1> HIDE DEF d
<1>6. GoodDraft(c) /\ c.prepared BY <1>4, <1>5, StopsAreGood
<1>7. GoodDraft(Block(c, "environment")) /\ Block(c, "environment").prepared
  BY <1>6, BlockIsGood DEF Reasons
<1>8. PICK e \in {c, Block(c, "environment")} : Save(w, e) BY <1>5
<1>9. UNCHANGED <<workspace, Rest>> BY DEF RecordCheck
<1> QED BY <1>2, <1>6, <1>7, <1>8, <1>9, SaveKeeps

\* What an edit writes, all of it or some.
LEMMA MergeIsSource ==
    ASSUME NEW l, GoodLoop(l), workspace \in Source, First.probes \subseteq workspace.probes, NEW files
    PROVE  Merged(l, files) \in Source /\ First.probes \subseteq Merged(l, files).probes
<1>1. l.new \in Source /\ First.probes \subseteq l.new.probes BY DEF GoodLoop, Loop
<1>2. /\ Merged(l, files).probes = IF "probes" \in files THEN l.new.probes ELSE workspace.probes
      /\ Merged(l, files).code = IF "code" \in files THEN l.new.code ELSE workspace.code
  BY <1>1 DEF Merged, Source
<1>3. Merged(l, files) \in Source BY <1>1 DEF Merged, Source
<1> QED BY <1>1, <1>2, <1>3

LEMMA RecordEditKeeps == ASSUME LoopInv, NEW w \in Workers, RecordEdit(w) PROVE LoopInv'
<1>1. loop[w].pc \notin AtRest BY DEF RecordEdit, Recording, AtRest
<1>2. /\ GoodDraft(checkpoint) /\ checkpoint.prepared /\ GoodLoop(loop[w]) /\ workspace \in Source
      /\ First.probes \subseteq workspace.probes /\ checkpoint \in Checkpoint /\ loop[w] \in Loop
  BY <1>1, Inside
<1>3. workspace' \in Source /\ First.probes \subseteq workspace'.probes
  BY <1>2, MergeIsSource DEF RecordEdit, Written
<1>4. PICK o \in Source : o = Seen(checkpoint, loop[w])
  <2>1. loop[w].new \in Source /\ checkpoint.observed \in Source BY <1>2, LoopFields, DraftFields
  <2> QED BY <2>1 DEF Seen, Source
<1>5. {} \in SUBSET Evidence /\ Proven({}) BY DEF Proven
<1> DEFINE d == [checkpoint EXCEPT !.observed = o, !.cache = {}]
<1>6. PICK c \in Stops(d) : Save(w, c) BY <1>4 DEF RecordEdit, EditSaved
<1>7. GoodDraft(d) /\ d.prepared BY <1>2, <1>5, SeenIsGood
<1> HIDE DEF d
<1>8. GoodDraft(c) /\ c.prepared BY <1>6, <1>7, StopsAreGood
<1>9. UNCHANGED Rest BY DEF RecordEdit
<1> QED BY <1>3, <1>6, <1>8, <1>9, SaveKeeps

LEMMA CrashInWriteKeeps == ASSUME LoopInv, NEW w \in Workers, CrashInWrite(w) PROVE LoopInv'
<1>1. loop[w].pc \notin AtRest BY DEF CrashInWrite, Recording, AtRest
<1>2. GoodLoop(loop[w]) /\ workspace \in Source /\ First.probes \subseteq workspace.probes
  BY <1>1, Inside
<1>3. \E files : workspace' = Merged(loop[w], files) BY DEF CrashInWrite
<1>4. workspace' \in Source /\ First.probes \subseteq workspace'.probes BY <1>2, <1>3, MergeIsSource
<1>5. crashes' \in 0 .. CrashBound BY LoopAssumption DEF CrashInWrite, LoopInv, LoopTypeOK
<1> QED BY <1>4, <1>5, IdleKeeps DEF CrashInWrite, LoopInv, LoopTypeOK

-----------------------------------------------------------------------------
(* Completion *)

\* The last item leaves a source that was checked as a whole.
LEMMA CompleteIsGood ==
    ASSUME NEW c, GoodDraft(c), c.prepared, NEW l, GoodLoop(l), l.item \in Items,
           Accepted(c, l), l.result = "ok"
    PROVE  GoodDraft(Complete(c, l)) /\ Complete(c, l).prepared
<1>1. c \in Checkpoint /\ l \in Loop BY DEF GoodDraft, GoodLoop
<1>2. c.pending \subseteq Items /\ c.done \subseteq Items /\ l.new \in Source
  BY <1>1, DraftFields DEF Loop
<1> DEFINE next == [c EXCEPT !.pending = @ \ {l.item}, !.done = @ \cup {l.item}]
           last == [next EXCEPT !.outcome = "generated", !.completed = l.new]
<1>3. next \in Checkpoint BY <1>1, <1>2 DEF Checkpoint
<1>4. /\ next.pending = c.pending \ {l.item} /\ next.done = c.done \cup {l.item}
      /\ next.cache = c.cache /\ next.ledger = c.ledger /\ next.prepared = c.prepared
      /\ next.outcome = c.outcome /\ next.completed = c.completed
  BY <1>1 DEF Checkpoint
<1>5. Complete(c, l) = IF next.pending = {} THEN last ELSE next BY DEF Complete
<1> HIDE DEF next
<1>6. GoodDraft(next) /\ next.prepared BY <1>3, <1>4 DEF GoodDraft
<1>7. ASSUME next.pending = {} PROVE GoodDraft(last) /\ last.prepared
  <2>1. last \in Checkpoint BY <1>2, <1>3 DEF Checkpoint
  <2>2. /\ last.pending = next.pending /\ last.done = next.done /\ last.cache = next.cache
        /\ last.ledger = next.ledger /\ last.prepared = next.prepared
        /\ last.completed = l.new
    BY <1>3 DEF Checkpoint
  <2>3. c.pending # {}
    BY <1>1, ItemsArePositive DEF Accepted, CurrentItem
  <2>4. c.pending = {l.item} BY <1>4, <1>7, <2>3
  <2>5. l.check = "all" BY <2>4 DEF Accepted, Finishes
  <2>6. Whole(l.new) BY <2>5 DEF GoodLoop, Whole
  <2> HIDE DEF last
  <2> QED BY <1>6, <2>1, <2>2, <2>6 DEF GoodDraft
<1> QED BY <1>5, <1>6, <1>7

LEMMA CompletePassedKeeps == ASSUME LoopInv, NEW w \in Workers, CompletePassed(w) PROVE LoopInv'
<1>1. loop[w].pc = "complete" /\ loop[w].pc \notin AtRest BY DEF CompletePassed, AtRest
<1>2. /\ GoodDraft(checkpoint) /\ checkpoint.prepared /\ GoodLoop(loop[w]) /\ workspace \in Source
      /\ First.probes \subseteq workspace.probes /\ {} \in SUBSET Probes
  BY <1>1, Inside
<1>3. loop[w].item \in Items BY <1>1, <1>2, LoopFields DEF GoodLoop
<1>4. loop[w].result = "ok" BY DEF CompletePassed, Verdict
<1> DEFINE d == RememberCheck(checkpoint, loop[w], {})
           c == Count(d)
<1>5. GoodDraft(d) /\ d.prepared BY <1>2, RememberIsGood
<1>6. GoodDraft(c) /\ c.prepared BY <1>5, CountIsGood
<1>7. UNCHANGED <<workspace, Rest>> BY DEF CompletePassed
<1>8. \/ Accepted(c, loop[w]) /\ Save(w, Complete(c, loop[w]))
      \/ Goto(w, "finish") /\ UNCHANGED checkpoint
  BY DEF CompletePassed
<1> HIDE DEF c
<1>9. CASE Accepted(c, loop[w]) /\ Save(w, Complete(c, loop[w]))
  <2>1. GoodDraft(Complete(c, loop[w])) /\ Complete(c, loop[w]).prepared
    BY <1>2, <1>3, <1>4, <1>6, <1>9, CompleteIsGood
  <2> QED BY <1>2, <1>7, <1>9, <2>1, SaveKeeps
<1>10. CASE Goto(w, "finish") /\ UNCHANGED checkpoint BY <1>7, <1>10, GotoKeeps
<1> QED BY <1>8, <1>9, <1>10

LEMMA RoundIsGood ==
    ASSUME NEW c, GoodDraft(c), c.prepared, NEW i \in Items
    PROVE  GoodDraft([c EXCEPT !.rounds[i] = @ + 1]) /\ [c EXCEPT !.rounds[i] = @ + 1].prepared
<1>1. c \in Checkpoint BY DEF GoodDraft
<1>2. PICK r \in [Items -> Nat] : r = [c.rounds EXCEPT ![i] = @ + 1]
  <2>1. c.rounds \in [Items -> Nat] BY <1>1, DraftFields
  <2>2. [c.rounds EXCEPT ![i] = @ + 1] \in [Items -> Nat] BY <2>1
  <2> QED BY <2>2
<1> DEFINE d == [c EXCEPT !.rounds = r]
<1>3. d = [c EXCEPT !.rounds[i] = @ + 1] BY <1>2
<1>4. d \in Checkpoint BY <1>1 DEF Checkpoint
<1>5. /\ d.pending = c.pending /\ d.done = c.done /\ d.cache = c.cache /\ d.ledger = c.ledger
      /\ d.prepared = c.prepared /\ d.outcome = c.outcome /\ d.completed = c.completed
  BY <1>1 DEF Checkpoint
<1> HIDE DEF d
<1>6. GoodDraft(d) /\ d.prepared BY <1>4, <1>5 DEF GoodDraft
<1> QED BY <1>3, <1>6

LEMMA CompleteFailedKeeps == ASSUME LoopInv, NEW w \in Workers, CompleteFailed(w) PROVE LoopInv'
<1>1. loop[w].pc = "complete" /\ loop[w].pc \notin AtRest BY DEF CompleteFailed, AtRest
<1>2. /\ GoodDraft(checkpoint) /\ checkpoint.prepared /\ GoodLoop(loop[w]) /\ workspace \in Source
      /\ First.probes \subseteq workspace.probes
  BY <1>1, Inside
<1>3. loop[w].item \in Items BY <1>1, <1>2, LoopFields DEF GoodLoop
<1>4. PICK named \in Named(loop[w]) :
         LET c == Count(RememberCheck(checkpoint, loop[w], named))
             round == [c EXCEPT !.rounds[loop[w].item] = @ + 1] IN
         \/ Save(w, Block(c, "environment"))
         \/ Save(w, Block(round, "terminal"))
         \/ \E d \in Stops(round) : Save(w, d)
  BY DEF CompleteFailed
<1> DEFINE c == Count(RememberCheck(checkpoint, loop[w], named))
           round == [c EXCEPT !.rounds[loop[w].item] = @ + 1]
<1>5. GoodDraft(c) /\ c.prepared BY <1>2, NamedAreProbes, RememberIsGood, CountIsGood
<1>6. \/ Save(w, Block(c, "environment"))
      \/ Save(w, Block(round, "terminal"))
      \/ \E d \in Stops(round) : Save(w, d)
  BY <1>4
<1> HIDE DEF c
<1>7. GoodDraft(round) /\ round.prepared BY <1>3, <1>5, RoundIsGood
<1> HIDE DEF round
<1>8. PICK e : Save(w, e) /\ GoodDraft(e) /\ e.prepared
  BY <1>5, <1>6, <1>7, BlockIsGood, StopsAreGood DEF Reasons
<1>9. UNCHANGED <<workspace, Rest>> BY DEF CompleteFailed
<1> QED BY <1>2, <1>8, <1>9, SaveKeeps

LEMMA SnapshotKeeps == ASSUME LoopInv, NEW w \in Workers, Snapshot(w) PROVE LoopInv'
<1>1. loop[w].pc = "publish" /\ loop[w].pc \notin AtRest BY DEF Snapshot, AtRest
<1>2. /\ loop[w] \in Loop /\ GoodLoop(loop[w]) /\ workspace \in Source /\ checkpoint.prepared
      /\ First.probes \subseteq workspace.probes
  BY <1>1, Inside
<1> DEFINE l == [loop[w] EXCEPT !.pc = "commit", !.new = workspace]
<1>3. loop' = [loop EXCEPT ![w] = l] BY <1>2 DEF Snapshot, LoopInv, LoopTypeOK, Loop
<1>4. l \in Loop BY <1>2 DEF Loop, Pcs
<1>5. /\ l.new = workspace /\ l.cached = loop[w].cached /\ l.result = loop[w].result
      /\ l.act = loop[w].act /\ l.pc = "commit"
  BY <1>2 DEF Loop
<1> HIDE DEF l
<1>6. GoodLoop(l) BY <1>1, <1>2, <1>4, <1>5 DEF GoodLoop
<1>7. checkpoint' = checkpoint /\ UNCHANGED <<workspace, Rest>> BY DEF Snapshot
<1> QED BY <1>2, <1>3, <1>6, <1>7, GoOnKeeps

LEMMA PublishKeeps == ASSUME LoopInv, NEW w \in Workers, Publish(w) PROVE LoopInv'
<1>1. loop[w].new \in Source BY DEF LoopInv, LoopTypeOK, Loop
<1>2. Whole(loop[w].new) BY DEF Publish, Publishable, LoopInv, GoodDraft
<1>3. execution' \in Execution BY DEF Publish, LoopInv, LoopTypeOK, Execution
<1> QED BY <1>1, <1>2, <1>3, IdleKeeps DEF Publish, LoopInv, LoopTypeOK

LEMMA PublishRefusedKeeps == ASSUME LoopInv, NEW w \in Workers, PublishRefused(w) PROVE LoopInv'
BY GotoKeeps DEF PublishRefused

LEMMA CallStepKeeps == ASSUME LoopInv, NEW w \in Workers, CallStep(w) PROVE LoopInv'
BY CallReadKeeps, CallPlanKeeps, CallReportBlockedKeeps, OutOfCallsKeeps, RejectKeeps,
   CallEditKeeps, CallCheckKeeps, CallCompleteKeeps DEF CallStep
LEMMA RecordStepKeeps == ASSUME LoopInv, NEW w \in Workers, RecordStep(w) PROVE LoopInv'
BY RecordRejectKeeps, RecordPlanKeeps, RecordPlanRejectedKeeps, RecordCheckKeeps,
   RecordReportBlockedKeeps, RecordReadKeeps, RecordEditKeeps, RecordConflictKeeps DEF RecordStep
LEMMA LoopStepKeeps == ASSUME LoopInv, NEW w \in Workers, LoopStep(w) PROVE LoopInv'
<1>1. CASE CheckStep(w)
  BY <1>1, VerifyKeeps, CompareKeeps, CompletePassedKeeps, CompleteFailedKeeps DEF CheckStep
<1> QED BY <1>1, PrepareKeeps, LoadKeeps, ReserveKeeps, CallStepKeeps, RecordStepKeeps, FencedKeeps,
           SnapshotKeeps, PublishKeeps, PublishRefusedKeeps, FinishKeeps DEF LoopStep
LEMMA StutterKeeps == ASSUME LoopInv, UNCHANGED vars PROVE LoopInv'
BY TaskStep DEF vars, LoopInv, LoopTypeOK

\* Every step keeps the invariant.
LEMMA LoopNext == LoopInv /\ [Next]_vars => LoopInv'
<1> SUFFICES ASSUME LoopInv, [Next]_vars PROVE LoopInv' OBVIOUS
<1> QED BY ClaimKeeps, RetryClaimKeeps, RetryWriteKeeps, LeaseExpiresKeeps, JoinKeeps, LoopStepKeeps,
           CrashKeeps, CrashInWriteKeeps, StutterKeeps DEF Next

-----------------------------------------------------------------------------
(* Theorems, however many workers are in an execution *)

\* Drafts, sources and what the workers hold stay good.
THEOREM LoopInvariant == Spec => []LoopInv
BY InitIsGood, LoopNext, PTL DEF Spec

\* The rows and what a worker holds keep their types, and a work item has one status.
THEOREM LoopTyped == Spec => []LoopTypeOK
<1>1. LoopInv => LoopTypeOK BY DEF LoopInv
<1> QED BY <1>1, LoopInvariant, PTL

\* Published code builds, answers its manifest, and its manifest has every inherited probe.
THEOREM PublicationIsVerified == Spec => []PublishedIsVerified
<1>1. LoopInv => PublishedIsVerified BY DEF LoopInv, PublishedIsVerified, Whole
<1> QED BY <1>1, LoopInvariant, PTL

\* Only an edit, or a crash in the middle of one, writes files.
LEMMA OnlyEditsWrite ==
    ASSUME Next
    PROVE  workspace' = workspace \/ \E w \in Workers : RecordEdit(w) \/ CrashInWrite(w)
<1>1. ASSUME NEW w \in Workers, LoopStep(w) PROVE workspace' = workspace \/ RecordEdit(w)
  <2>1. CallStep(w) => workspace' = workspace
    BY DEF CallStep, CallRead, CallPlan, CallReportBlocked, OutOfCalls, Reject, CallEdit, CallCheck,
           CallComplete, Spend
  <2>2. RecordStep(w) => workspace' = workspace \/ RecordEdit(w)
    BY DEF RecordStep, RecordReject, RecordPlan, RecordPlanRejected, RecordCheck, RecordReportBlocked,
           RecordRead, RecordConflict
  <2>3. CheckStep(w) => workspace' = workspace
    BY DEF CheckStep, Verify, Compare, CompletePassed, CompleteFailed
  <2> QED BY <1>1, <2>1, <2>2, <2>3 DEF LoopStep, Prepare, Load, Reserve, Fenced, Snapshot, Publish,
             PublishRefused, Finish
<1> QED BY <1>1 DEF Next, Claim, RetryClaim, RetryWrite, LeaseExpires, Join, Crash

\* A step that writes is its writer's, and changes what the writer has seen.
EditIsOwn ==
    workspace' # workspace =>
        \E w \in Workers :
            /\ loop[w].act = "edit" /\ loop'[w] # loop[w]
            /\ loop[w].attempt = execution.attempt /\ ~execution.expired
            /\ \A file \in {"code", "probes"} :
                  workspace'[file] # workspace[file] => workspace[file] = loop[w].base[file]
LEMMA EditIsOwnStep == LoopInv /\ [Next]_vars => EditIsOwn
<1> SUFFICES ASSUME LoopInv, Next, workspace' # workspace PROVE EditIsOwn BY DEF EditIsOwn, vars
<1>1. PICK w \in Workers : RecordEdit(w) \/ CrashInWrite(w) BY OnlyEditsWrite
<1>2. /\ loop[w].pc = "record" /\ loop[w].act = "edit" /\ Live(w) /\ Unmoved(loop[w])
  BY <1>1 DEF RecordEdit, CrashInWrite, Recording
<1>3. loop \in [Workers -> Loop] BY DEF LoopInv, LoopTypeOK
<1>4. loop'[w] # loop[w]
  <2>1. CASE RecordEdit(w)
    <3>1. PICK c : Save(w, c) BY <2>1 DEF RecordEdit, EditSaved
    <3>2. PICK pc : pc = After(c) OBVIOUS
    <3>3. loop'[w] = [IdleLoop EXCEPT !.pc = pc, !.attempt = loop[w].attempt]
      BY <1>3, <3>1, <3>2 DEF Save, Goto
    <3>4. loop'[w].act = "none" BY <3>3 DEF IdleLoop
    <3> QED BY <1>2, <3>4
  <2>2. CASE CrashInWrite(w) BY <1>2, <1>3, <2>2 DEF CrashInWrite, IdleLoop
  <2> QED BY <1>1, <2>1, <2>2
<1>5. ASSUME NEW file \in {"code", "probes"}, workspace'[file] # workspace[file]
      PROVE  workspace[file] = loop[w].base[file]
  <2>1. PICK files : /\ workspace' = Merged(loop[w], files)
                     /\ files \subseteq {f \in {"code", "probes"} : Touches(loop[w], f)}
    BY <1>1 DEF RecordEdit, CrashInWrite, Written
  <2>2. file \in files BY <1>5, <2>1 DEF Merged
  <2>3. Touches(loop[w], file) BY <2>1, <2>2
  <2> QED BY <1>2, <2>3 DEF Unmoved
<1> QED BY <1>2, <1>4, <1>5 DEF EditIsOwn, Live, Current

\* A file changes only from the version its writer started from, at the hands of the
\* live execution.
THEOREM EditsAreNotLost == Spec => NoLostEdit
<1>1. LoopInv /\ [Next]_vars => [EditIsOwn]_vars BY EditIsOwnStep
<1>2. NoLostEdit <=> [][EditIsOwn]_vars BY PTL DEF NoLostEdit, EditIsOwn
<1> QED BY <1>1, <1>2, LoopInvariant, PTL DEF Spec

-----------------------------------------------------------------------------
(* One owner per execution: the steps *)

\* The budget of a draft is that of another.
SameBudget(d, c) ==
    /\ d.turns = c.turns /\ d.turnLimit = c.turnLimit
    /\ d.calls = c.calls /\ d.callLimit = c.callLimit /\ d.retries = c.retries

LEMMA AttemptsAreNumbers ==
    ASSUME LoopInv
    PROVE  /\ execution.attempt \in Nat /\ execution.attempt > 0
           /\ \A w \in Workers : loop[w].attempt \in Nat
BY LoopAssumption DEF LoopInv, LoopTypeOK, Execution, Loop

\* A worker moves and nothing else does.
LEMMA LoneStep ==
    ASSUME OwnerInv, LoopInv', NEW w \in Workers, NEW l, loop' = [loop EXCEPT ![w] = l],
           l.attempt = 0 \/ (l.attempt = loop[w].attempt /\ (Owns(w) => InStep(l, checkpoint, workspace))),
           execution'.attempt = execution.attempt,
           UNCHANGED <<checkpoint, workspace, retry>>
    PROVE  OwnerInv'
<1>1. \A u \in Workers : loop'[u] = IF u = w THEN l ELSE loop[u] BY DEF OwnerInv, LoopInv, LoopTypeOK
<1>2. \A u \in Workers : loop'[u].attempt \in {0, loop[u].attempt} BY <1>1
<1>3. \A u \in Workers : loop'[u].attempt <= execution'.attempt
  BY <1>2, AttemptsAreNumbers DEF OwnerInv, Owned
<1>4. \A u \in Workers : Owns(u)' => Owns(u) BY <1>2, AttemptsAreNumbers DEF Owns, OwnerInv
<1>5. \A u \in Workers : Owns(u)' => InStep(loop'[u], checkpoint', workspace')
  <2> SUFFICES ASSUME NEW u \in Workers, Owns(u)' PROVE InStep(loop'[u], checkpoint, workspace)
    OBVIOUS
  <2>1. CASE u # w BY <1>1, <1>4, <2>1 DEF OwnerInv, Owned
  <2>2. CASE u = w
    <3>1. l.attempt # 0 BY <1>1, <2>2, AttemptsAreNumbers DEF Owns, OwnerInv
    <3> QED BY <1>1, <1>4, <2>2, <3>1
  <2> QED BY <2>1, <2>2
<1>6. Owned' BY <1>3, <1>4, <1>5 DEF Owned, OwnerInv
<1>7. Retrying' BY DEF OwnerInv, Retrying
<1> QED BY <1>6, <1>7 DEF OwnerInv

\* The owner moves, with the draft and the workspace.
LEMMA OwnerStep ==
    ASSUME OwnerInv, LoopInv', NEW w \in Workers, Owns(w), NEW l, loop' = [loop EXCEPT ![w] = l],
           l.attempt = loop[w].attempt, execution'.attempt = execution.attempt, retry' = retry,
           Follows(checkpoint'), InStep(l, checkpoint', workspace'), Stands(checkpoint', workspace')
    PROVE  OwnerInv'
<1>1. \A u \in Workers : loop'[u] = IF u = w THEN l ELSE loop[u] BY DEF OwnerInv, LoopInv, LoopTypeOK
<1>2. \A u \in Workers : loop'[u].attempt = loop[u].attempt BY <1>1
<1>3. \A u \in Workers : Owns(u)' => Owns(u) BY <1>2 DEF Owns
<1>4. \A u \in Workers : Owns(u)' => InStep(loop'[u], checkpoint', workspace')
  BY <1>1, <1>3 DEF OwnerInv, Owned
<1>5. Owned' BY <1>2, <1>3, <1>4 DEF Owned, OwnerInv
<1>6. Retrying' BY DEF OwnerInv, Retrying, Follows, Granted
<1> QED BY <1>5, <1>6 DEF OwnerInv, Follows

\* The owner works on a running draft.
LEMMA AtWork ==
    ASSUME OwnerInv, NEW w \in Workers, Owns(w), loop[w].pc \in Working
    PROVE  /\ checkpoint.outcome = "running"
           /\ checkpoint \in Checkpoint /\ Follows(checkpoint) /\ InStep(loop[w], checkpoint, workspace)
BY DEF OwnerInv, Owned, InStep, Follows, LoopInv, LoopTypeOK

\* The owner saves.
LEMMA OwnerSaves ==
    ASSUME OwnerInv, LoopInv', NEW w \in Workers, Owns(w), NEW c \in Checkpoint, Save(w, c),
           UNCHANGED Rest, Follows(c), Stands(c, workspace')
    PROVE  OwnerInv'
<1>1. PICK pc \in {"load", "finish", "publish"} :
         /\ pc = After(c)
         /\ pc = "load" => c.outcome = "running"
         /\ pc = "publish" => c.outcome = "generated"
  BY DraftFields DEF After
<1> DEFINE l == [IdleLoop EXCEPT !.pc = pc, !.attempt = loop[w].attempt]
<1>2. checkpoint' = c /\ loop' = [loop EXCEPT ![w] = l] BY <1>1 DEF Save, Goto
<1>3. l.attempt = loop[w].attempt /\ l.pc = pc BY DEF IdleLoop
<1> HIDE DEF l
<1>4. InStep(l, c, workspace') BY <1>1, <1>3 DEF InStep, Working
<1> QED BY <1>2, <1>3, <1>4, OwnerStep DEF Rest
\* The owner saves the draft of an unfinished task, which the budget allows.
LEMMA OwnerGoesOn ==
    ASSUME OwnerInv, LoopInv', NEW w \in Workers, Owns(w), loop[w].pc \in Working,
           NEW c, c.outcome # "generated", Save(w, c), UNCHANGED Rest, Follows(c)
    PROVE  OwnerInv'
<1>1. c \in Checkpoint BY DEF Save, LoopInv, LoopTypeOK
<1> QED BY <1>1, AtWork, OwnerSaves DEF Stands
\* A worker goes nowhere.
LEMMA LoneGoto ==
    ASSUME OwnerInv, LoopInv', NEW w \in Workers, Goto(w, "finish"), UNCHANGED <<checkpoint, workspace, Rest>>
    PROVE  OwnerInv'
<1> DEFINE l == [IdleLoop EXCEPT !.pc = "finish", !.attempt = loop[w].attempt]
<1>1. loop' = [loop EXCEPT ![w] = l] BY DEF Goto
<1>2. l.attempt = loop[w].attempt /\ l.pc = "finish" BY DEF IdleLoop
<1> HIDE DEF l
<1>3. InStep(l, checkpoint, workspace) BY <1>2 DEF InStep, Working
<1> QED BY <1>1, <1>2, <1>3, LoneStep DEF Rest
LEMMA LoneIdle ==
    ASSUME OwnerInv, LoopInv', NEW w \in Workers, loop' = [loop EXCEPT ![w] = IdleLoop],
           execution'.attempt = execution.attempt, UNCHANGED <<checkpoint, workspace, retry>>
    PROVE  OwnerInv'
BY LoneStep DEF IdleLoop

\* Budgets that the helpers leave alone.
LEMMA BlockBudget ==
    ASSUME NEW c \in Checkpoint, NEW r
    PROVE  SameBudget(Block(c, r), c) /\ Block(c, r).outcome = "blocked"
BY DEF Checkpoint, Block, SameBudget
LEMMA StopsBudget ==
    ASSUME NEW d \in Checkpoint, d.outcome = "running", NEW c \in Stops(d)
    PROVE  SameBudget(c, d) /\ c.outcome \in {"running", "blocked"}
BY BlockBudget DEF Stops, SameBudget
LEMMA RememberBudget ==
    ASSUME NEW c \in Checkpoint, NEW l, NEW named
    PROVE  LET d == RememberCheck(c, l, named) IN
           SameBudget(d, c) /\ d.outcome = c.outcome /\ d.pending = c.pending /\ d.done = c.done
BY DEF Checkpoint, RememberCheck, SameBudget
LEMMA SameBudgetFollows ==
    ASSUME NEW c, NEW d, SameBudget(d, c), Follows(c)
    PROVE  Follows(d)
BY DEF SameBudget, Granted, Follows
\* One more call.
LEMMA CountBudget ==
    ASSUME NEW c \in Checkpoint, NEW d, SameBudget(d, c), d \in Checkpoint, Follows(c), c.calls < c.callLimit
    PROVE  /\ Follows(Count(d)) /\ Count(d).calls = c.calls + 1 /\ Count(d).callLimit = c.callLimit
           /\ Count(d).outcome = d.outcome /\ Count(d).pending = d.pending /\ Count(d).done = d.done
<1> DEFINE e == Count(d)
<1>1. /\ e.turns = c.turns /\ e.turnLimit = c.turnLimit /\ e.calls = c.calls + 1
      /\ e.callLimit = c.callLimit /\ e.retries = c.retries /\ e.outcome = d.outcome
      /\ e.pending = d.pending /\ e.done = d.done
  BY DEF Checkpoint, Count, SameBudget
<1> HIDE DEF e
<1>2. c.calls \in Nat /\ c.callLimit \in Nat BY DraftFields
<1>3. Follows(e) BY <1>1, <1>2 DEF Granted, Follows
<1> QED BY <1>1, <1>3 DEF e

-----------------------------------------------------------------------------
(* One owner per execution: the attempts *)

LEMMA InitIsOwned == Init => OwnerInv
<1> SUFFICES ASSUME Init PROVE OwnerInv OBVIOUS
<1>1. /\ \A w \in Workers : loop[w].attempt = 0
      /\ execution.attempt = 1 /\ retry = NoRetry /\ checkpoint = NewCheckpoint
  BY DEF Init, IdleLoop
<1>2. /\ checkpoint.turns = 0 /\ checkpoint.turnLimit = MaxTurns
      /\ checkpoint.calls = 0 /\ checkpoint.callLimit = MaxCalls
      /\ checkpoint.retries = 0 /\ checkpoint.outcome = "running"
  BY <1>1 DEF NewCheckpoint
<1>3. Granted(checkpoint) BY <1>2, LoopAssumption DEF Granted
<1> QED BY <1>1, <1>2, <1>3, InitIsGood DEF OwnerInv, Owned, Owns, Retrying, Stands

\* A new attempt has no owner yet.
LEMMA NewAttempt ==
    ASSUME OwnerInv, execution'.attempt = execution.attempt + 1, loop' = loop
    PROVE  Owned'
BY AttemptsAreNumbers DEF OwnerInv, Owned, Owns

LEMMA ClaimOwned == ASSUME OwnerInv, LoopInv', Claim PROVE OwnerInv'
<1>1. Owned' BY NewAttempt DEF Claim
<1> QED BY <1>1 DEF Claim, OwnerInv, Retrying

\* The retry's draft has one more budget than what was spent.
LEMMA RetryBudget ==
    ASSUME NEW c \in Checkpoint, Granted(c)
    PROVE  LET d == ManualRetry(c) IN
           /\ Granted(d) /\ d.outcome = "running" /\ d.retries = c.retries + 1
           /\ d.turns < d.turnLimit /\ d.calls < d.callLimit
<1> DEFINE d == ManualRetry(c)
<1>1. /\ d.turns = c.turns /\ d.turnLimit = c.turns + MaxTurns
      /\ d.calls = c.calls /\ d.callLimit = c.calls + MaxCalls
      /\ d.retries = c.retries + 1 /\ d.outcome = "running"
  BY DEF Checkpoint, ManualRetry, Resume
<1> HIDE DEF d
<1>2. /\ c.turns \in Nat /\ c.turnLimit \in Nat /\ c.calls \in Nat /\ c.callLimit \in Nat
      /\ c.retries \in Nat /\ MaxTurns \in Nat /\ MaxCalls \in Nat
  BY DraftFields, LoopAssumption
<1>3. \A r, m \in Nat : (1 + (r + 1)) * m = (1 + r) * m + m /\ (1 + r) * m \in Nat OBVIOUS
<1>4. /\ (1 + d.retries) * MaxTurns = (1 + c.retries) * MaxTurns + MaxTurns
      /\ (1 + d.retries) * MaxCalls = (1 + c.retries) * MaxCalls + MaxCalls
      /\ (1 + c.retries) * MaxTurns \in Nat /\ (1 + c.retries) * MaxCalls \in Nat
  BY <1>1, <1>2, <1>3
<1>5. Granted(d) BY <1>1, <1>2, <1>4 DEF Granted
<1>6. d.turns < d.turnLimit /\ d.calls < d.callLimit BY <1>1, <1>2, LoopAssumption
<1> QED BY <1>1, <1>5, <1>6 DEF d

LEMMA RetryClaimOwned == ASSUME OwnerInv, LoopInv', RetryClaim PROVE OwnerInv'
<1>1. Owned' BY NewAttempt DEF RetryClaim
<1> DEFINE d == ManualRetry(checkpoint)
<1>2. retry'.draft = d /\ retry'.attempt = execution'.attempt BY DEF RetryClaim
<1>3. /\ d.outcome = "running" /\ d.retries = checkpoint.retries + 1
      /\ Granted(d) /\ d.turns < d.turnLimit /\ d.calls < d.callLimit
  BY RetryBudget DEF OwnerInv, LoopInv, LoopTypeOK
<1> HIDE DEF d
<1>4. checkpoint' = checkpoint BY DEF RetryClaim
<1>5. Retrying' BY <1>2, <1>3, <1>4 DEF Retrying, Granted
<1> QED BY <1>1, <1>5 DEF RetryClaim, OwnerInv

\* The write may find the new attempt at work already: it works on, with the draft of the retry.
LEMMA RetryWriteOwned == ASSUME OwnerInv, LoopInv', RetryWrite PROVE OwnerInv'
<1> DEFINE d == retry.draft
<1>1. /\ checkpoint' = d /\ retry' = NoRetry /\ UNCHANGED <<execution, workspace, loop>>
      /\ d.outcome = "running" /\ Granted(d) /\ d.turns < d.turnLimit /\ d.calls < d.callLimit
  BY DEF RetryWrite, OwnerInv, Retrying
<1> HIDE DEF d
<1>2. Stands(d, workspace) BY <1>1 DEF Stands
<1>3. ASSUME NEW w \in Workers, Owns(w) PROVE InStep(loop[w], d, workspace)
  BY <1>1, <1>3 DEF OwnerInv, Owned, InStep
<1>4. Owned' BY <1>1, <1>3 DEF Owned, Owns, OwnerInv
<1> QED BY <1>1, <1>2, <1>4 DEF OwnerInv, Retrying

LEMMA LeaseExpiresOwned == ASSUME OwnerInv, LoopInv', LeaseExpires PROVE OwnerInv'
<1>1. execution'.attempt = execution.attempt
  BY DEF LeaseExpires, OwnerInv, LoopInv, LoopTypeOK, Execution
<1> QED BY <1>1 DEF LeaseExpires, OwnerInv, Owned, Owns, Retrying

LEMMA JoinOwned ==
    ASSUME ~Shared, OwnerInv, LoopInv', NEW w \in Workers, Join(w)
    PROVE  OwnerInv'
<1> DEFINE l == [IdleLoop EXCEPT !.pc = "prepare", !.attempt = execution.attempt]
<1>1. loop' = [loop EXCEPT ![w] = l] BY DEF Join
<1>2. l.attempt = execution.attempt /\ l.pc = "prepare" BY DEF IdleLoop
<1> HIDE DEF l
<1>3. \A u \in Workers : loop'[u] = IF u = w THEN l ELSE loop[u]
  BY <1>1 DEF OwnerInv, LoopInv, LoopTypeOK
<1>4. \A u \in Workers : ~Owns(u) BY DEF Join, Owns
<1>5. \A u \in Workers : Owns(u)' => u = w BY <1>3, <1>4 DEF Join, Owns
<1>6. InStep(l, checkpoint, workspace) BY <1>2 DEF InStep, Working
<1>7. \A u \in Workers : loop'[u].attempt <= execution'.attempt
  BY <1>2, <1>3, AttemptsAreNumbers DEF Join, OwnerInv, Owned
<1>8. Owned' BY <1>3, <1>5, <1>6, <1>7 DEF Owned, Join
<1> QED BY <1>8 DEF Join, OwnerInv, Retrying

LEMMA CrashOwned == ASSUME OwnerInv, LoopInv', NEW w \in Workers, Crash(w) PROVE OwnerInv'
BY LoneIdle DEF Crash
LEMMA FinishOwned == ASSUME OwnerInv, LoopInv', NEW w \in Workers, Finish(w) PROVE OwnerInv'
<1>1. execution'.attempt = execution.attempt BY DEF Finish, OwnerInv, LoopInv, LoopTypeOK, Execution
<1> QED BY <1>1, LoneIdle DEF Finish
LEMMA FencedOwned == ASSUME OwnerInv, LoopInv', NEW w \in Workers, Fenced(w) PROVE OwnerInv'
BY LoneGoto DEF Fenced
LEMMA PublishRefusedOwned == ASSUME OwnerInv, LoopInv', NEW w \in Workers, PublishRefused(w) PROVE OwnerInv'
BY LoneGoto DEF PublishRefused

LEMMA PrepareOwned ==
    ASSUME OwnerInv, LoopInv', NEW w \in Workers, NEW available \in BOOLEAN, Prepare(w, available)
    PROVE  OwnerInv'
<1> DEFINE c == Resumed(checkpoint)
           q == Prepared(c)
           p == [q EXCEPT !.environment = execution.attempt]
<1>1. checkpoint \in Checkpoint /\ Follows(checkpoint) /\ Stands(checkpoint, workspace)
  BY DEF Follows, OwnerInv, LoopInv, LoopTypeOK
<1>2. \/ c = checkpoint
      \/ /\ checkpoint.outcome = "blocked" /\ ~Stopped(checkpoint)
         /\ c.outcome = "running" /\ SameBudget(c, checkpoint) /\ c \in Checkpoint
  BY <1>1 DEF Resumed, Resume, Stopped, SameBudget, Checkpoint, Reasons
<1>3. c \in Checkpoint /\ SameBudget(c, checkpoint) /\ Stands(c, workspace)
  BY <1>1, <1>2 DEF SameBudget, Stands
<1>4. SameBudget(q, c) /\ q.outcome = c.outcome /\ SameBudget(p, q) /\ p.outcome = q.outcome
  BY <1>3 DEF Prepared, SameBudget, Checkpoint
<1>5. \/ Goto(w, "finish") /\ UNCHANGED checkpoint
      \/ Owns(w) /\ c.outcome # "running" /\ Save(w, c)
      \/ Owns(w) /\ c.outcome = "running" /\ Save(w, Block(q, "environment"))
      \/ Owns(w) /\ c.outcome = "running" /\ Save(w, p)
  BY DEF Prepare, Current, Owns
<1>6. UNCHANGED <<workspace, Rest>> BY DEF Prepare
<1> HIDE DEF c, p, q
<1>7. CASE Goto(w, "finish") /\ UNCHANGED checkpoint BY <1>6, <1>7, LoneGoto
<1>8. CASE Owns(w) /\ c.outcome # "running" /\ Save(w, c)
  <2>1. c = checkpoint BY <1>2, <1>8
  <2> QED BY <1>1, <1>6, <1>8, <2>1, OwnerSaves
<1>9. CASE Owns(w) /\ c.outcome = "running" /\ Save(w, Block(q, "environment"))
  <2> DEFINE b == Block(q, "environment")
  <2>1. b.outcome = "blocked" /\ SameBudget(b, q) BY DEF Block, SameBudget
  <2>2. Save(w, b) BY <1>9
  <2> HIDE DEF b
  <2>3. b \in Checkpoint BY <2>2 DEF Save, LoopInv, LoopTypeOK
  <2>4. Follows(b) BY <1>1, <1>3, <1>4, <2>1 DEF SameBudget, Granted, Follows
  <2> QED BY <1>6, <1>9, <2>1, <2>2, <2>3, <2>4, OwnerSaves DEF Stands
<1>10. CASE Owns(w) /\ c.outcome = "running" /\ Save(w, p)
  <2>1. p \in Checkpoint BY <1>10 DEF Save, LoopInv, LoopTypeOK
  <2>2. Follows(p) BY <1>1, <1>3, <1>4 DEF SameBudget, Granted, Follows
  <2> QED BY <1>4, <1>6, <1>10, <2>1, <2>2, OwnerSaves DEF Stands
<1> QED BY <1>5, <1>7, <1>8, <1>9, <1>10

-----------------------------------------------------------------------------
(* One owner per execution: the loop *)

LEMMA LoadOwned == ASSUME OwnerInv, LoopInv', NEW w \in Workers, Load(w) PROVE OwnerInv'
<1>1. Owns(w) /\ loop[w].pc \in Working BY DEF Load, Live, Current, Owns, Working
<1>2. /\ checkpoint.outcome = "running" /\ checkpoint \in Checkpoint
      /\ Follows(checkpoint)
  BY <1>1, AtWork
<1>3. UNCHANGED <<workspace, Rest>> BY DEF Load
<1>4. CASE \E r \in {"terminal", "plain"} : Save(w, Block(checkpoint, r))
  <2>1. PICK r \in {"terminal", "plain"} : Save(w, Block(checkpoint, r)) BY <1>4
  <2> DEFINE b == Block(checkpoint, r)
  <2>2. b.outcome = "blocked" /\ Follows(b) BY <1>2, BlockBudget, SameBudgetFollows
  <2>3. Save(w, b) BY <2>1
  <2> HIDE DEF b
  <2> QED BY <1>1, <1>3, <2>2, <2>3, OwnerGoesOn
<1>5. CASE /\ ~Exhausted(checkpoint)
           /\ loop' = [loop EXCEPT ![w].pc = "reserve",
                                  ![w].item = IF checkpoint.planned THEN CurrentItem(checkpoint) ELSE 0,
                                  ![w].mayCheck = ~FailedHere]
           /\ UNCHANGED checkpoint
  <2>1. PICK i : i = IF checkpoint.planned THEN CurrentItem(checkpoint) ELSE 0 OBVIOUS
  <2>2. PICK b \in BOOLEAN : b = ~FailedHere OBVIOUS
  <2> DEFINE l == [loop[w] EXCEPT !.pc = "reserve", !.item = i, !.mayCheck = b]
  <2>3. loop \in [Workers -> Loop] BY DEF OwnerInv, LoopInv, LoopTypeOK
  <2>4. loop' = [loop EXCEPT ![w] = l] BY <1>5, <2>1, <2>2, <2>3
  <2>5. l.attempt = loop[w].attempt /\ l.pc = "reserve" BY <2>3 DEF Loop
  <2> HIDE DEF l
  <2>6. checkpoint.turns < checkpoint.turnLimit BY <1>2, <1>5, DraftFields DEF Exhausted
  <2>7. InStep(l, checkpoint, workspace) BY <1>2, <2>5, <2>6 DEF InStep
  <2> QED BY <1>3, <1>5, <2>4, <2>5, <2>7, LoneStep DEF Rest
<1> QED BY <1>2, <1>4, <1>5 DEF Load

LEMMA ReserveOwned == ASSUME OwnerInv, LoopInv', NEW w \in Workers, Reserve(w) PROVE OwnerInv'
<1>1. Owns(w) /\ loop[w].pc \in Working /\ loop[w].pc = "reserve"
  BY DEF Reserve, Live, Current, Owns, Working
<1>2. /\ checkpoint.outcome = "running" /\ checkpoint \in Checkpoint
      /\ Follows(checkpoint) /\ checkpoint.turns < checkpoint.turnLimit
  BY <1>1, AtWork DEF InStep
<1> DEFINE c == [checkpoint EXCEPT !.turns = @ + 1]
           l == [loop[w] EXCEPT !.pc = "model"]
<1>3. loop \in [Workers -> Loop] BY DEF OwnerInv, LoopInv, LoopTypeOK
<1>4. checkpoint' = c /\ loop' = [loop EXCEPT ![w] = l] BY <1>3 DEF Reserve
<1>5. l.attempt = loop[w].attempt /\ l.pc = "model" BY <1>3 DEF Loop
<1>6. /\ c.turns = checkpoint.turns + 1 /\ c.turnLimit = checkpoint.turnLimit
      /\ c.calls = checkpoint.calls /\ c.callLimit = checkpoint.callLimit
      /\ c.retries = checkpoint.retries /\ c.outcome = checkpoint.outcome
  BY <1>2 DEF Checkpoint
<1> HIDE DEF c, l
<1>7. Follows(c) BY <1>2, <1>6, DraftFields DEF Granted, Follows
<1>8. InStep(l, c, workspace) BY <1>2, <1>5, <1>6 DEF InStep, Working
<1>9. Stands(c, workspace) BY <1>2, <1>6 DEF Stands
<1>10. workspace' = workspace /\ execution'.attempt = execution.attempt /\ retry' = retry
  BY DEF Reserve, Rest
<1>11. Follows(checkpoint') /\ InStep(l, checkpoint', workspace') /\ Stands(checkpoint', workspace')
  BY <1>4, <1>7, <1>8, <1>9, <1>10
<1> QED BY <1>1, <1>2, <1>4, <1>5, <1>10, <1>11, OwnerStep

\* The owner spends a call; a completion keeps one for its check.
LEMMA SpendOwned ==
    ASSUME OwnerInv, LoopInv', NEW w \in Workers, NEW act, Spend(w, act), NEW l,
           loop' = [loop EXCEPT ![w] = l], l.attempt = loop[w].attempt,
           l.pc \in {"record", "verify"}, l.act = act
    PROVE  OwnerInv'
<1>1. Owns(w) /\ loop[w].pc \in Working BY DEF Spend, Live, Current, Owns, Working
<1>2. /\ checkpoint.outcome = "running" /\ checkpoint \in Checkpoint
      /\ Follows(checkpoint)
  BY <1>1, AtWork
<1>3. /\ checkpoint.calls \in Nat /\ checkpoint.callLimit \in Nat /\ checkpoint.calls < checkpoint.callLimit
      /\ act = "complete" => checkpoint.calls + 1 < checkpoint.callLimit
  BY <1>2, DraftFields DEF Spend, Affordable
<1> DEFINE c == Count(checkpoint)
<1>4. /\ Follows(c) /\ c.calls = checkpoint.calls + 1 /\ c.callLimit = checkpoint.callLimit
      /\ c.outcome = "running"
  BY <1>2, <1>3, CountBudget DEF SameBudget
<1>5. checkpoint' = c BY DEF Spend
<1> HIDE DEF c
<1>6. InStep(l, c, workspace) BY <1>3, <1>4 DEF InStep, Working
<1>7. Stands(c, workspace) BY <1>4 DEF Stands
<1> QED BY <1>1, <1>2, <1>4, <1>5, <1>6, <1>7, OwnerStep DEF Spend, Rest

LEMMA CallsOwned ==
    ASSUME OwnerInv, LoopInv', NEW w \in Workers,
           \/ CallRead(w) \/ CallPlan(w) \/ CallReportBlocked(w)
           \/ \E new \in Source : CallEdit(w, new)
           \/ \E check \in Checks : CallCheck(w, check) \/ CallComplete(w, check)
    PROVE  OwnerInv'
<1>1. loop \in [Workers -> Loop] BY DEF OwnerInv, LoopInv, LoopTypeOK
<1>2. CASE CallRead(w)
  <2> DEFINE l == [loop[w] EXCEPT !.pc = "record", !.act = "read", !.new = workspace]
  <2>1. loop' = [loop EXCEPT ![w] = l] BY <1>1, <1>2 DEF CallRead
  <2>2. l.attempt = loop[w].attempt /\ l.pc = "record" /\ l.act = "read" BY <1>1 DEF Loop
  <2> HIDE DEF l
  <2>3. Spend(w, "read") BY <1>2 DEF CallRead
  <2> QED BY <2>1, <2>2, <2>3, SpendOwned
<1>3. CASE CallPlan(w)
  <2> DEFINE l == [loop[w] EXCEPT !.pc = "record", !.act = "plan"]
  <2>1. loop' = [loop EXCEPT ![w] = l] BY <1>1, <1>3 DEF CallPlan
  <2>2. l.attempt = loop[w].attempt /\ l.pc = "record" /\ l.act = "plan" BY <1>1 DEF Loop
  <2> HIDE DEF l
  <2>3. Spend(w, "plan") BY <1>3 DEF CallPlan
  <2> QED BY <2>1, <2>2, <2>3, SpendOwned
<1>4. CASE CallReportBlocked(w)
  <2> DEFINE l == [loop[w] EXCEPT !.pc = "record", !.act = "report_blocked"]
  <2>1. loop' = [loop EXCEPT ![w] = l] BY <1>1, <1>4 DEF CallReportBlocked
  <2>2. l.attempt = loop[w].attempt /\ l.pc = "record" /\ l.act = "report_blocked" BY <1>1 DEF Loop
  <2> HIDE DEF l
  <2>3. Spend(w, "report_blocked") BY <1>4 DEF CallReportBlocked
  <2> QED BY <2>1, <2>2, <2>3, SpendOwned
<1>5. CASE \E new \in Source : CallEdit(w, new)
  <2> PICK new \in Source : CallEdit(w, new) BY <1>5
  <2> DEFINE l == [loop[w] EXCEPT !.pc = "record", !.act = "edit", !.base = workspace, !.new = new]
  <2>1. loop' = [loop EXCEPT ![w] = l] BY <1>1 DEF CallEdit
  <2>2. l.attempt = loop[w].attempt /\ l.pc = "record" /\ l.act = "edit" BY <1>1 DEF Loop
  <2> HIDE DEF l
  <2>3. Spend(w, "edit") BY DEF CallEdit
  <2> QED BY <2>1, <2>2, <2>3, SpendOwned
<1>6. CASE \E check \in Checks : CallCheck(w, check)
  <2> PICK check \in Checks : CallCheck(w, check) BY <1>6
  <2> DEFINE e == CachedResult(check)
             l == [loop[w] EXCEPT !.pc = "verify", !.act = "check", !.check = check, !.cached = e]
  <2>1. loop' = [loop EXCEPT ![w] = l] BY <1>1 DEF CallCheck
  <2> HIDE DEF e
  <2>2. l.attempt = loop[w].attempt /\ l.pc = "verify" /\ l.act = "check" BY <1>1 DEF Loop
  <2> HIDE DEF l
  <2>3. Spend(w, "check") BY DEF CallCheck
  <2> QED BY <2>1, <2>2, <2>3, SpendOwned
<1>7. CASE \E check \in Checks : CallComplete(w, check)
  <2> PICK check \in Checks : CallComplete(w, check) BY <1>7
  <2> DEFINE e == CachedResult(check)
             l == [loop[w] EXCEPT !.pc = "verify", !.act = "complete", !.check = check,
                                  !.base = workspace, !.cached = e]
  <2>1. loop' = [loop EXCEPT ![w] = l] BY <1>1 DEF CallComplete
  <2> HIDE DEF e
  <2>2. l.attempt = loop[w].attempt /\ l.pc = "verify" /\ l.act = "complete" BY <1>1 DEF Loop
  <2> HIDE DEF l
  <2>3. Spend(w, "complete") BY DEF CallComplete
  <2> QED BY <2>1, <2>2, <2>3, SpendOwned
<1> QED BY <1>2, <1>3, <1>4, <1>5, <1>6, <1>7

LEMMA OutOfCallsOwned == ASSUME OwnerInv, LoopInv', NEW w \in Workers, OutOfCalls(w) PROVE OwnerInv'
<1>1. Owns(w) /\ loop[w].pc \in Working BY DEF OutOfCalls, Live, Current, Owns, Working
<1> DEFINE b == Block(checkpoint, "terminal")
<1>2. b.outcome = "blocked" /\ Follows(b) BY <1>1, AtWork, BlockBudget, SameBudgetFollows
<1>3. Save(w, b) BY DEF OutOfCalls
<1> HIDE DEF b
<1> QED BY <1>1, <1>2, <1>3, OwnerGoesOn DEF OutOfCalls

\* What a worker goes on with is in step, if it was before and asks nothing new.
LEMMA OnwardOwned ==
    ASSUME OwnerInv, LoopInv', NEW w \in Workers, NEW l, loop' = [loop EXCEPT ![w] = l],
           l.attempt = loop[w].attempt, loop[w].pc \in Working,
           l.pc \in {"record", "compare", "complete"},
           l.act = "complete" => loop[w].pc \in {"verify", "compare"} /\ loop[w].act = "complete",
           l.pc = "complete" /\ l.result = "ok" => l.new = workspace,
           UNCHANGED <<checkpoint, workspace, Rest>>
    PROVE  OwnerInv'
<1>1. ASSUME Owns(w) PROVE InStep(l, checkpoint, workspace)
  <2>1. InStep(loop[w], checkpoint, workspace) BY <1>1, AtWork
  <2> QED BY <2>1 DEF InStep
<1> QED BY <1>1, LoneStep DEF Rest

LEMMA RejectOwned == ASSUME OwnerInv, LoopInv', NEW w \in Workers, Reject(w) PROVE OwnerInv'
<1>1. loop \in [Workers -> Loop] BY DEF OwnerInv, LoopInv, LoopTypeOK
<1> DEFINE l == [loop[w] EXCEPT !.pc = "record", !.act = "reject"]
<1>2. loop' = [loop EXCEPT ![w] = l] BY <1>1 DEF Reject
<1>3. l.attempt = loop[w].attempt /\ l.pc = "record" /\ l.act = "reject" BY <1>1 DEF Loop
<1> HIDE DEF l
<1> QED BY <1>2, <1>3, OnwardOwned DEF Reject, Working

LEMMA VerifyOwned ==
    ASSUME OwnerInv, LoopInv', NEW w \in Workers, NEW available \in BOOLEAN, Verify(w, available)
    PROVE  OwnerInv'
<1>1. loop \in [Workers -> Loop] BY DEF OwnerInv, LoopInv, LoopTypeOK
<1>2. PICK r : loop' = [loop EXCEPT ![w].pc = "compare", ![w].new = workspace, ![w].result = r]
  BY DEF Verify
<1> DEFINE l == [loop[w] EXCEPT !.pc = "compare", !.new = workspace, !.result = r]
<1>3. loop' = [loop EXCEPT ![w] = l] BY <1>1, <1>2
<1>4. l.attempt = loop[w].attempt /\ l.pc = "compare" /\ l.act = loop[w].act BY <1>1 DEF Loop
<1> HIDE DEF l
<1> QED BY <1>3, <1>4, OnwardOwned DEF Verify, Working

\* A completion that passed has looked at the workspace again.
LEMMA CompareOwned == ASSUME OwnerInv, LoopInv', NEW w \in Workers, Compare(w) PROVE OwnerInv'
<1>1. loop \in [Workers -> Loop] BY DEF OwnerInv, LoopInv, LoopTypeOK
<1>2. PICK pc \in {"complete", "record"} :
         pc = IF loop[w].act = "complete" THEN "complete" ELSE "record"
  OBVIOUS
<1>3. PICK r :
         /\ r = IF loop[w].result = "ok"
                   /\ ~(workspace = loop[w].new /\ (loop[w].act = "complete" => loop[w].new = loop[w].base))
                THEN "changed" ELSE loop[w].result
         /\ r = "ok" => loop[w].new = workspace
  OBVIOUS
<1> DEFINE l == [loop[w] EXCEPT !.pc = pc, !.result = r]
<1>4. loop' = [loop EXCEPT ![w] = l] BY <1>1, <1>2, <1>3 DEF Compare
<1>5. /\ l.attempt = loop[w].attempt /\ l.pc = pc /\ l.act = loop[w].act /\ l.result = r
      /\ l.new = loop[w].new
  BY <1>1 DEF Loop
<1> HIDE DEF l
<1>6. /\ loop[w].pc \in Working /\ loop[w].pc \in {"verify", "compare"}
      /\ UNCHANGED <<checkpoint, workspace, Rest>>
  BY DEF Compare, Working
<1> QED BY <1>2, <1>3, <1>4, <1>5, <1>6, OnwardOwned

\* What the owner records, or a stop-loss on top of it.
LEMMA OwnerRecords ==
    ASSUME OwnerInv, LoopInv', NEW w \in Workers, Owns(w), loop[w].pc \in Working,
           NEW d \in Checkpoint, d.outcome = "running", Follows(d), NEW c \in Stops(d),
           Save(w, c), UNCHANGED Rest
    PROVE  OwnerInv'
<1>1. Follows(c) /\ c.outcome # "generated" BY StopsBudget, SameBudgetFollows
<1> QED BY <1>1, OwnerGoesOn
LEMMA AtRecord ==
    ASSUME OwnerInv, NEW w \in Workers, NEW act, Recording(w, act)
    PROVE  /\ Owns(w) /\ loop[w].pc \in Working
           /\ checkpoint \in Checkpoint /\ checkpoint.outcome = "running" /\ Follows(checkpoint)
BY AtWork DEF Recording, Live, Current, Owns, Working

LEMMA RecordsOwned ==
    ASSUME OwnerInv, LoopInv', NEW w \in Workers,
           RecordReject(w) \/ RecordPlanRejected(w) \/ RecordConflict(w)
    PROVE  OwnerInv'
<1>1. PICK act : Recording(w, act) BY DEF RecordReject, RecordPlanRejected, RecordConflict
<1>2. PICK c \in Stops(checkpoint) : Save(w, c) BY DEF RecordReject, RecordPlanRejected, RecordConflict
<1>3. UNCHANGED Rest BY DEF RecordReject, RecordPlanRejected, RecordConflict
<1> QED BY <1>1, <1>2, <1>3, AtRecord, OwnerRecords
LEMMA RecordReportBlockedOwned ==
    ASSUME OwnerInv, LoopInv', NEW w \in Workers, RecordReportBlocked(w)
    PROVE  OwnerInv'
<1>1. Recording(w, "report_blocked") BY DEF RecordReportBlocked
<1> DEFINE b == Block(checkpoint, "plain")
<1>2. b.outcome = "blocked" /\ Follows(b) BY <1>1, AtRecord, BlockBudget, SameBudgetFollows
<1>3. Save(w, b) /\ UNCHANGED Rest BY DEF RecordReportBlocked
<1> HIDE DEF b
<1> QED BY <1>1, <1>2, <1>3, AtRecord, OwnerGoesOn

LEMMA RecordReadOwned ==
    ASSUME OwnerInv, LoopInv', NEW w \in Workers, NEW more \in BOOLEAN, RecordRead(w, more)
    PROVE  OwnerInv'
<1>1. Recording(w, "read") BY DEF RecordRead
<1>2. /\ Owns(w) /\ loop[w].pc \in Working /\ checkpoint \in Checkpoint
      /\ checkpoint.outcome = "running" /\ Follows(checkpoint)
  BY <1>1, AtRecord
<1> DEFINE d == [checkpoint EXCEPT !.observed = loop[w].new]
<1>3. d \in Checkpoint /\ SameBudget(d, checkpoint) /\ d.outcome = "running"
  BY <1>2 DEF SameBudget, Checkpoint, OwnerInv, LoopInv, LoopTypeOK, Loop
<1> HIDE DEF d
<1>4. PICK c \in Stops(d) :
        /\ checkpoint' = c
        /\ \/ /\ c.outcome = "running"
              /\ loop' = [loop EXCEPT ![w].pc = "model", ![w].act = "none", ![w].new = First]
           \/ Goto(w, After(c))
  BY DEF RecordRead, d
<1>5. Follows(d) BY <1>2, <1>3, SameBudgetFollows
<1>6. UNCHANGED <<workspace, Rest>> BY DEF RecordRead
<1>7. CASE Goto(w, After(c))
  <2>1. Save(w, c) BY <1>4, <1>7 DEF Save
  <2> QED BY <1>2, <1>3, <1>4, <1>5, <1>6, <2>1, OwnerRecords
<1>8. CASE /\ c.outcome = "running"
           /\ loop' = [loop EXCEPT ![w].pc = "model", ![w].act = "none", ![w].new = First]
  <2>1. loop \in [Workers -> Loop] BY DEF OwnerInv, LoopInv, LoopTypeOK
  <2> DEFINE l == [loop[w] EXCEPT !.pc = "model", !.act = "none", !.new = First]
  <2>2. loop' = [loop EXCEPT ![w] = l] BY <1>8, <2>1
  <2>3. l.attempt = loop[w].attempt /\ l.pc = "model" BY <2>1 DEF Loop
  <2> HIDE DEF l
  <2>4. Follows(c) BY <1>3, <1>4, <1>5, StopsBudget, SameBudgetFollows
  <2>5. InStep(l, c, workspace) /\ Stands(c, workspace) BY <1>8, <2>3 DEF InStep, Stands, Working
  <2>6. workspace' = workspace /\ execution'.attempt = execution.attempt /\ retry' = retry
    BY <1>6 DEF Rest
  <2>7. Follows(checkpoint') /\ InStep(l, checkpoint', workspace') /\ Stands(checkpoint', workspace')
    BY <1>4, <2>4, <2>5, <2>6
  <2> QED BY <1>2, <2>2, <2>3, <2>6, <2>7, OwnerStep
<1> QED BY <1>4, <1>7, <1>8

LEMMA RecordPlanOwned == ASSUME OwnerInv, LoopInv', NEW w \in Workers, RecordPlan(w) PROVE OwnerInv'
<1>1. Recording(w, "plan") BY DEF RecordPlan
<1>2. checkpoint \in Checkpoint /\ checkpoint.outcome = "running" /\ Follows(checkpoint)
  BY <1>1, AtRecord
<1>3. PICK p \in Plans(checkpoint) :
        \E c \in Stops([checkpoint EXCEPT !.planned = TRUE, !.pending = p]) : Save(w, c)
  BY DEF RecordPlan
<1> DEFINE d == [checkpoint EXCEPT !.planned = TRUE, !.pending = p]
<1>4. d \in Checkpoint /\ SameBudget(d, checkpoint) /\ d.outcome = "running"
  BY <1>2, <1>3 DEF SameBudget, Checkpoint, Plans
<1>5. PICK c \in Stops(d) : Save(w, c) BY <1>3
<1> HIDE DEF d
<1>6. Follows(d) BY <1>2, <1>4, SameBudgetFollows
<1>7. UNCHANGED Rest BY DEF RecordPlan
<1> QED BY <1>1, <1>4, <1>5, <1>6, <1>7, AtRecord, OwnerRecords

\* What a check leaves of the draft.
LEMMA RememberTyped ==
    ASSUME OwnerInv, NEW w \in Workers, checkpoint.prepared, NEW named \in SUBSET Probes
    PROVE  RememberCheck(checkpoint, loop[w], named) \in Checkpoint
BY RememberIsGood DEF OwnerInv, LoopInv, LoopTypeOK, GoodDraft

LEMMA RecordCheckOwned == ASSUME OwnerInv, LoopInv', NEW w \in Workers, RecordCheck(w) PROVE OwnerInv'
<1>1. Recording(w, "check") /\ loop[w].pc \notin AtRest BY DEF RecordCheck, Recording, AtRest
<1>2. /\ checkpoint \in Checkpoint /\ checkpoint.outcome = "running" /\ Follows(checkpoint)
      /\ Owns(w) /\ loop[w].pc \in Working
  BY <1>1, AtRecord
<1>3. checkpoint.prepared /\ workspace \in Source BY <1>1, Inside DEF OwnerInv
<1>4. PICK named \in Named(loop[w]) :
        \E c \in Stops(RememberCheck(checkpoint, loop[w], named)) :
          Save(w, IF loop[w].result = "environment" THEN Block(c, "environment") ELSE c)
  BY DEF RecordCheck
<1> DEFINE d == RememberCheck(checkpoint, loop[w], named)
<1>5. d \in Checkpoint BY <1>3, NamedAreProbes, RememberTyped
<1>6. SameBudget(d, checkpoint) /\ d.outcome = "running" BY <1>2, RememberBudget
<1>7. PICK c \in Stops(d) :
        Save(w, IF loop[w].result = "environment" THEN Block(c, "environment") ELSE c)
  BY <1>4
<1> HIDE DEF d
<1>8. Follows(d) BY <1>2, <1>6, SameBudgetFollows
<1>9. Follows(c) /\ c.outcome # "generated" BY <1>5, <1>6, <1>7, <1>8, StopsBudget, SameBudgetFollows
<1>10. Follows(Block(c, "environment")) /\ Block(c, "environment").outcome # "generated"
  BY <1>9 DEF Block, Granted, Follows
<1>11. PICK e \in {c, Block(c, "environment")} : Save(w, e) BY <1>7
<1>12. UNCHANGED Rest BY DEF RecordCheck
<1> QED BY <1>2, <1>9, <1>10, <1>11, <1>12, OwnerGoesOn

LEMMA RecordEditOwned == ASSUME OwnerInv, LoopInv', NEW w \in Workers, RecordEdit(w) PROVE OwnerInv'
<1>1. Recording(w, "edit") BY DEF RecordEdit
<1>2. checkpoint \in Checkpoint /\ checkpoint.outcome = "running" /\ Follows(checkpoint)
  BY <1>1, AtRecord
<1>3. PICK o : o = Seen(checkpoint, loop[w]) OBVIOUS
<1> DEFINE d == [checkpoint EXCEPT !.observed = o, !.cache = {}]
<1>4. o \in Source
  <2>1. loop[w].new \in Source /\ checkpoint.observed \in Source
    BY <1>2, DraftFields DEF OwnerInv, LoopInv, LoopTypeOK, Loop
  <2> QED BY <1>3, <2>1 DEF Seen, Source
<1>5. d \in Checkpoint /\ SameBudget(d, checkpoint) /\ d.outcome = "running"
  BY <1>2, <1>4 DEF SameBudget, Checkpoint
<1>6. PICK c \in Stops(d) : Save(w, c) BY <1>3 DEF RecordEdit, EditSaved
<1> HIDE DEF d
<1>7. Follows(d) BY <1>2, <1>5, SameBudgetFollows
<1>8. UNCHANGED Rest BY DEF RecordEdit
<1> QED BY <1>1, <1>5, <1>6, <1>7, <1>8, AtRecord, OwnerRecords

\* The owner dies while it writes: the task is not generated, so nothing was promised.
LEMMA CrashInWriteOwned ==
    ASSUME OwnerInv, LoopInv', NEW w \in Workers, CrashInWrite(w)
    PROVE  OwnerInv'
<1>1. Recording(w, "edit") BY DEF CrashInWrite
<1>2. Owns(w) /\ checkpoint.outcome = "running" BY <1>1, AtRecord
<1>3. loop' = [loop EXCEPT ![w] = IdleLoop] /\ UNCHANGED <<execution, checkpoint, retry>>
  BY DEF CrashInWrite
<1>4. \A u \in Workers : loop'[u] = IF u = w THEN IdleLoop ELSE loop[u]
  BY <1>3 DEF OwnerInv, LoopInv, LoopTypeOK
<1>5. \A u \in Workers : ~Owns(u)'
  BY <1>2, <1>3, <1>4, AttemptsAreNumbers DEF OwnerInv, Owned, Owns, IdleLoop
<1>6. \A u \in Workers : loop'[u].attempt <= execution'.attempt
  BY <1>3, <1>4, AttemptsAreNumbers DEF OwnerInv, Owned, IdleLoop
<1>7. Owned' BY <1>5, <1>6 DEF Owned
<1> QED BY <1>2, <1>3, <1>7 DEF OwnerInv, Retrying, Stands

LEMMA CompletePassedOwned ==
    ASSUME OwnerInv, LoopInv', NEW w \in Workers, CompletePassed(w)
    PROVE  OwnerInv'
<1>1. /\ loop[w].pc = "complete" /\ loop[w].pc \notin AtRest /\ Owns(w) /\ loop[w].pc \in Working
      /\ loop[w].result = "ok"
  BY DEF CompletePassed, Live, Current, Owns, AtRest, Working, Verdict
<1>2. /\ checkpoint.prepared /\ workspace \in Source /\ GoodLoop(loop[w]) /\ {} \in SUBSET Probes
  BY <1>1, Inside DEF OwnerInv
<1>3. /\ checkpoint.outcome = "running" /\ checkpoint \in Checkpoint
      /\ Follows(checkpoint) /\ checkpoint.calls < checkpoint.callLimit /\ loop[w].new = workspace
  BY <1>1, <1>2, AtWork DEF InStep, GoodLoop
<1> DEFINE d == RememberCheck(checkpoint, loop[w], {})
           c == Count(d)
<1>4. d \in Checkpoint BY <1>2, RememberTyped
<1>5. SameBudget(d, checkpoint) /\ d.outcome = "running" BY <1>3, RememberBudget
<1>6. \/ Save(w, Complete(c, loop[w]))
      \/ Goto(w, "finish") /\ UNCHANGED checkpoint
  BY DEF CompletePassed
<1>7. UNCHANGED <<workspace, Rest>> BY DEF CompletePassed
<1> HIDE DEF d
<1>8. Follows(c) /\ c.outcome = "running" BY <1>3, <1>4, <1>5, CountBudget
<1>9. c \in Checkpoint BY <1>4 DEF Count, Checkpoint
<1> HIDE DEF c
<1>10. CASE Goto(w, "finish") /\ UNCHANGED checkpoint BY <1>7, <1>10, LoneGoto
<1>11. CASE Save(w, Complete(c, loop[w]))
  <2> DEFINE next == [c EXCEPT !.pending = @ \ {loop[w].item}, !.done = @ \cup {loop[w].item}]
             last == [next EXCEPT !.outcome = "generated", !.completed = loop[w].new]
             f == Complete(c, loop[w])
  <2>1. /\ SameBudget(next, c) /\ next.outcome = "running" /\ next.done # {}
        /\ SameBudget(last, c) /\ last.completed = workspace
        /\ last.pending = next.pending /\ last.done = next.done
    BY <1>3, <1>8, <1>9 DEF SameBudget, Checkpoint
  <2>2. f = IF next.pending = {} THEN last ELSE next BY DEF Complete
  <2>3. Save(w, f) BY <1>11
  <2> HIDE DEF next, last, f
  <2>4. SameBudget(f, c) /\ Stands(f, workspace) BY <2>1, <2>2 DEF Stands
  <2>5. Follows(f) BY <1>8, <2>4, SameBudgetFollows
  <2>6. f \in Checkpoint BY <2>3 DEF Save, LoopInv, LoopTypeOK
  <2> QED BY <1>1, <1>3, <1>7, <2>3, <2>4, <2>5, <2>6, OwnerSaves
<1> QED BY <1>6, <1>10, <1>11

LEMMA CompleteFailedOwned ==
    ASSUME OwnerInv, LoopInv', NEW w \in Workers, CompleteFailed(w)
    PROVE  OwnerInv'
<1>1. loop[w].pc = "complete" /\ loop[w].pc \notin AtRest /\ Owns(w) /\ loop[w].pc \in Working
  BY DEF CompleteFailed, Live, Current, Owns, AtRest, Working
<1>2. checkpoint.prepared /\ workspace \in Source /\ GoodLoop(loop[w]) BY <1>1, Inside DEF OwnerInv
<1>3. /\ checkpoint.outcome = "running" /\ checkpoint \in Checkpoint
      /\ Follows(checkpoint) /\ checkpoint.calls < checkpoint.callLimit
  BY <1>1, <1>2, AtWork DEF InStep, GoodLoop
<1>4. PICK named \in Named(loop[w]) :
         LET c == Count(RememberCheck(checkpoint, loop[w], named))
             round == [c EXCEPT !.rounds[loop[w].item] = @ + 1] IN
         \/ Save(w, Block(c, "environment"))
         \/ Save(w, Block(round, "terminal"))
         \/ \E d \in Stops(round) : Save(w, d)
  BY DEF CompleteFailed
<1> DEFINE d == RememberCheck(checkpoint, loop[w], named)
           c == Count(d)
           round == [c EXCEPT !.rounds[loop[w].item] = @ + 1]
<1>5. d \in Checkpoint BY <1>2, NamedAreProbes, RememberTyped
<1>6. SameBudget(d, checkpoint) /\ d.outcome = "running" BY <1>3, RememberBudget
<1>7. \/ Save(w, Block(c, "environment"))
      \/ Save(w, Block(round, "terminal"))
      \/ \E e \in Stops(round) : Save(w, e)
  BY <1>4
<1> HIDE DEF d
<1>8. Follows(c) /\ c.outcome = "running" BY <1>3, <1>5, <1>6, CountBudget
<1>9. c \in Checkpoint BY <1>5 DEF Count, Checkpoint
<1> HIDE DEF c
<1>10. round.outcome = "running" /\ SameBudget(round, c) BY <1>8, <1>9 DEF SameBudget, Checkpoint
<1>11. Follows(round) BY <1>8, <1>10, SameBudgetFollows
<1> HIDE DEF round
<1>12. PICK e : Save(w, e) /\ Follows(e) /\ e.outcome # "generated"
  <2>1. \A b, r : Follows(b) => Follows(Block(b, r)) /\ Block(b, r).outcome = "blocked"
    BY DEF Block, Granted, Follows
  <2>2. CASE Save(w, Block(c, "environment")) BY <1>8, <2>1, <2>2
  <2>3. CASE Save(w, Block(round, "terminal")) BY <1>11, <2>1, <2>3
  <2>4. CASE \E e \in Stops(round) : Save(w, e)
    <3>1. PICK e \in Stops(round) : Save(w, e) BY <2>4
    <3>2. e = round \/ e = Block(round, "terminal") BY DEF Stops
    <3>3. Follows(e) /\ e.outcome # "generated" BY <1>10, <1>11, <2>1, <3>2
    <3> QED BY <3>1, <3>3
  <2> QED BY <1>7, <2>2, <2>3, <2>4
<1>13. UNCHANGED Rest BY DEF CompleteFailed
<1> QED BY <1>1, <1>12, <1>13, OwnerGoesOn

LEMMA SnapshotOwned == ASSUME OwnerInv, LoopInv', NEW w \in Workers, Snapshot(w) PROVE OwnerInv'
<1>1. loop \in [Workers -> Loop] BY DEF OwnerInv, LoopInv, LoopTypeOK
<1> DEFINE l == [loop[w] EXCEPT !.pc = "commit", !.new = workspace]
<1>2. loop' = [loop EXCEPT ![w] = l] /\ UNCHANGED <<checkpoint, workspace, Rest>>
  BY <1>1 DEF Snapshot
<1>3. l.attempt = loop[w].attempt /\ l.pc = "commit" BY <1>1 DEF Loop
<1> HIDE DEF l
<1>4. Owns(w) => InStep(l, checkpoint, workspace)
  BY <1>3 DEF Snapshot, InStep, Working, OwnerInv, Owned
<1> QED BY <1>2, <1>3, <1>4, LoneStep DEF Rest

LEMMA PublishOwned == ASSUME OwnerInv, LoopInv', NEW w \in Workers, Publish(w) PROVE OwnerInv'
<1>1. execution'.attempt = execution.attempt BY DEF Publish, OwnerInv, LoopInv, LoopTypeOK, Execution
<1> QED BY <1>1, LoneIdle DEF Publish

LEMMA LoopStepOwned == ASSUME OwnerInv, LoopInv', NEW w \in Workers, LoopStep(w) PROVE OwnerInv'
<1>1. CASE CallStep(w) BY <1>1, CallsOwned, OutOfCallsOwned, RejectOwned DEF CallStep
<1>2. CASE RecordStep(w)
  BY <1>2, RecordsOwned, RecordReportBlockedOwned, RecordReadOwned, RecordPlanOwned, RecordCheckOwned,
     RecordEditOwned DEF RecordStep
<1>3. CASE CheckStep(w)
  BY <1>3, VerifyOwned, CompareOwned, CompletePassedOwned, CompleteFailedOwned DEF CheckStep
<1> QED BY <1>1, <1>2, <1>3, PrepareOwned, LoadOwned, ReserveOwned, FencedOwned, SnapshotOwned,
           PublishOwned, PublishRefusedOwned, FinishOwned DEF LoopStep

\* Every step keeps the owner's invariant.
LEMMA OwnerNext ==
    ASSUME ~Shared
    PROVE  OwnerInv /\ [Next]_vars => OwnerInv'
<1> SUFFICES ASSUME OwnerInv, [Next]_vars PROVE OwnerInv' OBVIOUS
<1>1. LoopInv' BY LoopNext DEF OwnerInv
<1>2. CASE UNCHANGED vars BY <1>1, <1>2 DEF OwnerInv, vars, Owned, Owns, Retrying
<1> QED BY <1>1, <1>2, ClaimOwned, RetryClaimOwned, RetryWriteOwned, LeaseExpiresOwned, JoinOwned,
           LoopStepOwned, CrashOwned, CrashInWriteOwned DEF Next

-----------------------------------------------------------------------------
(* Theorems, with one owner per execution *)

\* The owner, the draft and the workspace stay in step.
THEOREM OwnerInvariant ==
    ASSUME ~Shared
    PROVE  Spec => []OwnerInv
BY InitIsOwned, OwnerNext, PTL DEF Spec

\* Turns and calls stay within what the task and the user's retries granted.
THEOREM BudgetsAreKept ==
    ASSUME ~Shared
    PROVE  Spec => []BudgetsHold
<1>1. OwnerInv => BudgetsHold
  <2> SUFFICES ASSUME OwnerInv PROVE BudgetsHold OBVIOUS
  <2>1. checkpoint \in Checkpoint /\ Granted(checkpoint) BY DEF OwnerInv, LoopInv, LoopTypeOK
  <2>2. /\ checkpoint.turns \in Nat /\ checkpoint.turnLimit \in Nat
        /\ checkpoint.calls \in Nat /\ checkpoint.callLimit \in Nat
        /\ checkpoint.retries \in Nat /\ MaxTurns \in Nat /\ MaxCalls \in Nat
    BY <2>1, DraftFields, LoopAssumption
  <2>3. (1 + checkpoint.retries) * MaxTurns \in Nat /\ (1 + checkpoint.retries) * MaxCalls \in Nat
    BY <2>2
  <2> QED BY <2>1, <2>2, <2>3 DEF BudgetsHold, Granted
<1> QED BY <1>1, OwnerInvariant, PTL

\* What was generated stays what the last check saw.
THEOREM GenerationStands ==
    ASSUME ~Shared
    PROVE  Spec => []GeneratedStands
<1>1. OwnerInv => GeneratedStands BY DEF OwnerInv, Stands, GeneratedStands
<1> QED BY <1>1, OwnerInvariant, PTL

\* A task that was stopped takes one step to the user's retry, or stays stopped.
StoppedStays == Stopped(checkpoint) => Stopped(checkpoint') \/ checkpoint'.retries > checkpoint.retries
LEMMA StoppedWorker ==
    ASSUME OwnerInv, Stopped(checkpoint), NEW w \in Workers, LoopStep(w)
    PROVE  checkpoint' = checkpoint
<1>1. loop[w].pc \in Working => ~Live(w) BY AtWork DEF Live, Current, Owns, Stopped
<1>2. CASE \E available \in BOOLEAN : Prepare(w, available)
  <2>1. Resumed(checkpoint) = checkpoint BY DEF Resumed, Stopped
  <2> QED BY <1>2, <2>1 DEF Prepare, Save, Stopped
<1>3. CallStep(w) => checkpoint' = checkpoint
  BY <1>1 DEF CallStep, CallRead, CallPlan, CallReportBlocked, OutOfCalls, Reject, CallEdit, CallCheck,
              CallComplete, Spend, Working
<1>4. ~RecordStep(w)
  BY <1>1 DEF RecordStep, RecordReject, RecordPlan, RecordPlanRejected, RecordCheck, RecordReportBlocked,
              RecordRead, RecordEdit, RecordConflict, Recording, Working
<1>5. CheckStep(w) => checkpoint' = checkpoint
  BY <1>1 DEF CheckStep, Verify, Compare, CompletePassed, CompleteFailed, Working
<1> QED BY <1>1, <1>2, <1>3, <1>4, <1>5 DEF LoopStep, Load, Reserve, Fenced, Snapshot, Publish,
           PublishRefused, Finish, Working
LEMMA StoppedStep == OwnerInv /\ [Next]_vars => StoppedStays
<1> SUFFICES ASSUME OwnerInv, [Next]_vars, Stopped(checkpoint)
             PROVE  Stopped(checkpoint') \/ checkpoint'.retries > checkpoint.retries
  BY DEF StoppedStays
<1>1. CASE RetryWrite
  <2>1. checkpoint'.retries = checkpoint.retries + 1 BY <1>1 DEF RetryWrite, OwnerInv, Retrying
  <2>2. checkpoint.retries \in Nat BY DraftFields DEF OwnerInv, LoopInv, LoopTypeOK
  <2> QED BY <2>1, <2>2
<1>2. CASE \E w \in Workers : LoopStep(w) BY <1>2, StoppedWorker
<1>3. CASE \/ Claim \/ RetryClaim \/ LeaseExpires \/ UNCHANGED vars
           \/ \E w \in Workers : Join(w) \/ Crash(w) \/ CrashInWrite(w)
  BY <1>3 DEF Claim, RetryClaim, LeaseExpires, Join, Crash, CrashInWrite, vars
<1> QED BY <1>1, <1>2, <1>3 DEF Next

\* Only the user's retry gets a task past a stop-loss.
THEOREM StopLossesHold ==
    ASSUME ~Shared
    PROVE  Spec => StopLossHolds
<1>1. OwnerInv /\ [Next]_vars => [StoppedStays]_vars BY StoppedStep
<1>2. StopLossHolds <=> [][StoppedStays]_vars BY PTL DEF StopLossHolds, StoppedStays
<1> QED BY <1>1, <1>2, OwnerInvariant, PTL DEF Spec
=============================================================================
