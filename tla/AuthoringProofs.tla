--------------------------- MODULE AuthoringProofs ---------------------------
(***************************************************************************)
(* CheckpointIsTrue and OneDocument of Authoring, for any number of        *)
(* callers, documents, sources, turns and attempts.                        *)
(*                                                                         *)
(* The draft is written by the latest attempt only, so the argument is     *)
(* about what the memory of that attempt's caller has to do with the draft *)
(* (Mirrors) and about who else may be in the middle of something: callers *)
(* of older attempts whose turn is reserved (Counted) or who hold a        *)
(* document (Agreed).  A document once saved is never replaced, because an *)
(* attempt that finds one does not enter the loop.                         *)
(***************************************************************************)
EXTENDS Authoring, FiniteSetTheorems, TLAPS

Before == {"idle", "claim", "start"}
Looking == {"loop", "call", "acting"}
Changed == {"reading", "saving"}
Holding == {"save", "publish"}
MaybeDocument == Documents \union {None}

Progress ==
    [turns : Nat, known : SUBSET Sources, answered : SUBSET Sources,
     draft : MaybeDocument \union {Partial}, output : MaybeDocument]
Caller ==
    [at : Before \union Looking \union Changed \union Holding, recovery : Nat, fresh : BOOLEAN,
     id : Nat, loop : Progress]

TypeOK ==
    /\ attempts \in Nat /\ calls \in Nat
    /\ checkpoint \in [loop : Progress, result : MaybeDocument]
    /\ caller \in [Callers -> Caller]
    /\ submitted \in SUBSET Documents /\ published \in MaybeDocument

\* Attempts have numbers of their own, and a caller has one from its start on.
Numbered(c) ==
    /\ caller[c].id <= attempts
    /\ caller[c].at \in Before <=> caller[c].id = 0
Distinct == \A c, d \in Callers : c # d /\ caller[c].id = caller[d].id => caller[c].id = 0

\* The latest attempt holds in memory what the draft says, up to the tools of this turn.
Mirrors(c) ==
    caller[c].id = attempts =>
        /\ caller[c].at \in Looking \union Changed =>
              /\ checkpoint.result = None /\ checkpoint.loop.output = None
              /\ caller[c].loop.turns = checkpoint.loop.turns
        /\ caller[c].at \in Looking => caller[c].loop = checkpoint.loop

\* Whoever is past the loop holds the saved document; nobody holds one that was not submitted.
Agreed(c) ==
    /\ caller[c].at \in Holding => caller[c].loop.output = Saved /\ Saved # None
    /\ caller[c].loop.output # None => caller[c].loop.output \in submitted

\* Requests already sent and requests about to be sent are counted.
Calling == {c \in Callers : caller[c].at = "call"}
Counted == checkpoint.result = None => calls + Cardinality(Calling) <= checkpoint.loop.turns
Answered == checkpoint.result = None => checkpoint.loop.known \subseteq checkpoint.loop.answered

Kept ==
    /\ Saved # None => Saved \in submitted
    /\ published # None => published = Saved

Local(c) == Numbered(c) /\ Mirrors(c) /\ Agreed(c)
AuthoringInv ==
    /\ TypeOK /\ Distinct /\ (\A c \in Callers : Local(c))
    /\ Counted /\ Answered /\ Kept

-----------------------------------------------------------------------------
\* The assumptions on the constants, as the proofs use them.
LEMMA Constants ==
    /\ None \notin Documents /\ Partial \notin Documents /\ None # Partial
    /\ IsFiniteSet(Callers) /\ MaxTurns \in Nat
BY AuthoringAssumption DEF None, Partial

\* Nobody has reserved anything before the first claim.
LEMMA InitInv == Init => AuthoringInv
<1> SUFFICES ASSUME Init PROVE AuthoringInv
  OBVIOUS
<1>1. TypeOK
  BY DEF Init, TypeOK, Progress, Caller, NoResult, NoProgress, Idle, MaybeDocument, Before
<1>2. \A c \in Callers : caller[c] = Idle
  BY DEF Init
<1>3. Distinct /\ \A c \in Callers : Local(c)
  BY <1>2 DEF Init, Distinct, Local, Numbered, Mirrors, Agreed, Idle, NoProgress, Before,
              Looking, Changed, Holding
<1>4. Calling = {}
  BY <1>2 DEF Calling, Idle
<1>5. Counted /\ Answered /\ Kept
  BY <1>4, FS_EmptySet DEF Init, Counted, Answered, Kept, Saved, NoResult, NoProgress
<1> QED
  BY <1>1, <1>3, <1>5 DEF AuthoringInv

-----------------------------------------------------------------------------
(* What a step of one caller leaves alone *)

\* The others keep what they have: the draft is written by the latest attempt only.
LEMMA OthersKeep ==
    ASSUME AuthoringInv, NEW c \in Callers,
           \A d \in Callers \ {c} : caller'[d] = caller[d],
           attempts' = attempts, submitted \subseteq submitted', Saved' = Saved \/ Saved = None,
           checkpoint' = checkpoint \/ (caller[c].id = attempts /\ caller[c].id # 0)
    PROVE  \A d \in Callers \ {c} : Local(d)'
<1> SUFFICES ASSUME NEW d \in Callers \ {c} PROVE Local(d)'
  OBVIOUS
<1>1. caller'[d] = caller[d] /\ Local(d)
  BY DEF AuthoringInv
<1>2. Numbered(d)'
  BY <1>1 DEF Local, Numbered
<1>3. caller[d].id = attempts => checkpoint' = checkpoint
  BY DEF AuthoringInv, Distinct
<1>4. Mirrors(d)'
  BY <1>1, <1>3 DEF Local, Mirrors
<1>5. Agreed(d)'
  BY <1>1 DEF Local, Agreed
<1> QED
  BY <1>2, <1>4, <1>5 DEF Local

\* A caller keeps the number of its attempt or forgets it.
LEMMA DistinctKeep ==
    ASSUME AuthoringInv, NEW c \in Callers,
           \A d \in Callers \ {c} : caller'[d] = caller[d],
           caller'[c].id \in {0, caller[c].id}
    PROVE  Distinct'
BY DEF AuthoringInv, Distinct

\* The requests about to be sent are counted by who is about to send one.
LEMMA CallingMoves ==
    ASSUME AuthoringInv, NEW c \in Callers,
           \A d \in Callers \ {c} : caller'[d] = caller[d]
    PROVE  /\ Cardinality(Calling) \in Nat /\ Cardinality(Calling') \in Nat
           /\ Cardinality(Calling') <= Cardinality(Calling) + 1
           /\ caller'[c].at # "call" \/ caller[c].at = "call" =>
                 Cardinality(Calling') <= Cardinality(Calling)
           /\ caller'[c].at # "call" /\ caller[c].at = "call" =>
                 Cardinality(Calling') + 1 <= Cardinality(Calling)
<1>1. IsFiniteSet(Calling) /\ IsFiniteSet(Calling')
  BY Constants, FS_Subset DEF Calling
<1>2. Calling' = IF caller'[c].at = "call" THEN Calling \union {c} ELSE Calling \ {c}
  BY DEF Calling
<1>3. Cardinality(Calling) \in Nat /\ Cardinality(Calling') \in Nat
  BY <1>1, FS_CardinalityType
<1>4. /\ Cardinality(Calling \union {c}) =
           IF c \in Calling THEN Cardinality(Calling) ELSE Cardinality(Calling) + 1
      /\ Cardinality(Calling \ {c}) =
           IF c \in Calling THEN Cardinality(Calling) - 1 ELSE Cardinality(Calling)
  BY <1>1, FS_AddElement, FS_RemoveElement
<1>5. c \in Calling <=> caller[c].at = "call"
  BY DEF Calling
<1> QED
  BY <1>2, <1>3, <1>4, <1>5

\* A step that leaves the draft and the document alone: what remains to be shown is what
\* it makes of its own caller.
LEMMA QuietStep ==
    ASSUME AuthoringInv, NEW c \in Callers,
           caller' \in [Callers -> Caller], \A d \in Callers \ {c} : caller'[d] = caller[d],
           attempts' = attempts, checkpoint' = checkpoint, published' = published,
           submitted \subseteq submitted', submitted' \subseteq Documents,
           caller'[c].id \in {0, caller[c].id}, Local(c)',
           \/ calls' = calls /\ (caller'[c].at # "call" \/ caller[c].at = "call")
           \/ calls' = calls + 1 /\ caller'[c].at # "call" /\ caller[c].at = "call"
    PROVE  AuthoringInv'
<1> USE DEF AuthoringInv
<1>1. TypeOK'
  BY DEF TypeOK
<1>2. Saved' = Saved
  BY DEF Saved
<1>3. \A d \in Callers : Local(d)'
  BY <1>2, OthersKeep
<1>4. Distinct'
  BY DistinctKeep
<1>5. Counted'
  <2>1. checkpoint.loop.turns \in Nat /\ calls \in Nat
    BY DEF TypeOK, Progress
  <2>2. CASE calls' = calls /\ (caller'[c].at # "call" \/ caller[c].at = "call")
    BY <2>1, <2>2, CallingMoves DEF Counted
  <2>3. CASE calls' = calls + 1 /\ caller'[c].at # "call" /\ caller[c].at = "call"
    BY <2>1, <2>3, CallingMoves DEF Counted
  <2> QED
    BY <2>2, <2>3
<1>6. Answered' /\ Kept'
  BY <1>2 DEF Answered, Kept
<1> QED
  BY <1>1, <1>3, <1>4, <1>5, <1>6

\* A caller that leaves forgets everything.
LEMMA LeaveStep ==
    ASSUME AuthoringInv, NEW c \in Callers, Leave(c), UNCHANGED <<attempts, checkpoint, published>>,
           submitted' = submitted,
           calls' = calls \/ (calls' = calls + 1 /\ caller[c].at = "call")
    PROVE  AuthoringInv'
<1>1. TypeOK
  BY DEF AuthoringInv
<1>2. Idle \in Caller /\ Idle.at = "idle" /\ Idle.id = 0 /\ Idle.loop.output = None
  BY DEF Idle, Caller, Progress, NoProgress, MaybeDocument, Before
<1>3. /\ caller' \in [Callers -> Caller] /\ caller'[c] = Idle
      /\ \A d \in Callers \ {c} : caller'[d] = caller[d]
  BY <1>1, <1>2 DEF Leave, TypeOK
<1>4. Local(c)'
  <2>1. attempts' \in Nat
    BY <1>1 DEF TypeOK
  <2>2. Numbered(c)'
    BY <1>2, <1>3, <2>1 DEF Numbered, Before
  <2>3. Mirrors(c)' /\ Agreed(c)'
    BY <1>2, <1>3 DEF Mirrors, Agreed, Looking, Changed, Holding
  <2> QED
    BY <2>2, <2>3 DEF Local
<1>5. submitted' \subseteq Documents
  BY <1>1 DEF TypeOK
<1> QED
  BY <1>2, <1>3, <1>4, <1>5, QuietStep

LEMMA RaiseStep ==
    ASSUME AuthoringInv, NEW c \in Callers, Raise(c), submitted' = submitted, published' = published,
           calls' = calls \/ (calls' = calls + 1 /\ caller[c].at = "call")
    PROVE  AuthoringInv'
BY LeaveStep DEF Raise

\* A tool changes the state of the tools of its own caller, and no turn is spent on it.
LEMMA ActStep ==
    ASSUME AuthoringInv, NEW c \in Callers, At(c, {"acting", "reading"}),
           NEW loop \in Progress, loop.turns = caller[c].loop.turns,
           NEW where \in Changed, Act(c, loop, where),
           submitted \subseteq submitted', submitted' \subseteq Documents,
           loop.output # None => loop.output \in submitted'
    PROVE  AuthoringInv'
<1>1. TypeOK /\ Local(c)
  BY DEF AuthoringInv
<1>2. /\ caller' = [caller EXCEPT ![c].loop = loop, ![c].at = where]
      /\ checkpoint' = checkpoint /\ attempts' = attempts /\ calls' = calls /\ published' = published
  BY DEF Act, Record, execution
<1>3. caller[c] \in Caller
  BY <1>1 DEF TypeOK
<1>4. /\ \A d \in Callers \ {c} : caller'[d] = caller[d]
      /\ caller'[c] = [caller[c] EXCEPT !.loop = loop, !.at = where]
  BY <1>1, <1>2 DEF TypeOK
<1>5. /\ caller'[c].at = where /\ caller'[c].loop = loop /\ caller'[c].id = caller[c].id
      /\ caller'[c] \in Caller
  BY <1>3, <1>4 DEF Caller
<1>6. caller' \in [Callers -> Caller]
  BY <1>1, <1>2, <1>4, <1>5 DEF TypeOK
<1>7. Numbered(c)'
  BY <1>1, <1>2, <1>5 DEF Local, Numbered, At, Before, Changed
<1>8. Mirrors(c)'
  BY <1>1, <1>2, <1>5 DEF Local, Mirrors, At, Looking, Changed
<1>9. Agreed(c)'
  BY <1>5 DEF Agreed, Changed, Holding
<1>10. Local(c)' /\ where # "call"
  BY <1>7, <1>8, <1>9 DEF Local, Changed
<1> QED
  BY <1>2, <1>4, <1>5, <1>6, <1>10, QuietStep

-----------------------------------------------------------------------------
(* The steps *)

\* See, Claim: the caller moves on before it has an attempt.
LEMMA BeforeSteps ==
    ASSUME AuthoringInv, NEW c \in Callers, See(c) \/ Claim(c) \/ RefuseStart(c)
    PROVE  AuthoringInv'
<1>1. TypeOK /\ Local(c)
  BY DEF AuthoringInv
<1>2. caller[c] \in Caller /\ attempts \in Nat
  BY <1>1 DEF TypeOK
<1>3. UNCHANGED <<attempts, checkpoint, calls, submitted, published>>
  BY DEF See, Claim, RefuseStart, execution, outcome
<1>4. CASE Leave(c)
  BY <1>3, <1>4, LeaveStep
<1>5. CASE ~Leave(c)
  <2>1. /\ caller' \in [Callers -> Caller] /\ caller'[c].at \in Before
        /\ caller[c].at \in Before /\ caller[c].id = 0 /\ caller'[c].id = 0
        /\ caller'[c].loop.output = None \/ caller'[c].loop.output = caller[c].loop.output
        /\ \A d \in Callers \ {c} : caller'[d] = caller[d]
    <3>1. CASE See(c)
      <4>1. (task = "pending") \in BOOLEAN
        OBVIOUS
      <4>2. PICK b \in BOOLEAN :
               caller' = [caller EXCEPT ![c] = [Idle EXCEPT !.at = "claim", !.recovery = attempts,
                                                            !.fresh = b]]
        BY <3>1, <4>1, Zenon DEF See
      <4> DEFINE r == [Idle EXCEPT !.at = "claim", !.recovery = attempts, !.fresh = b]
      <4>3. r \in Caller /\ r.at = "claim" /\ r.id = 0 /\ r.loop.output = None
        BY <1>2 DEF Idle, NoProgress, Caller, Progress, MaybeDocument, Before
      <4>4. caller' = [caller EXCEPT ![c] = r]
        BY <4>2
      <4>5. caller[c].at = "idle" /\ caller[c].id = 0
        BY <3>1, <1>1, <1>2 DEF See, At, Local, Numbered, Before
      <4> HIDE DEF r
      <4> QED
        BY <4>3, <4>4, <4>5, <1>1 DEF TypeOK, Before
    <3>2. CASE Claim(c) /\ Goto(c, "start")
      <4>1. caller' = [caller EXCEPT ![c].at = "start"] /\ caller[c].at = "claim"
        BY <3>2 DEF Claim, Goto, At
      <4> QED
        BY <4>1, <1>1, <1>2 DEF TypeOK, Caller, Local, Numbered, Before
    <3> QED
      BY <1>5, <3>1, <3>2 DEF Claim, RefuseStart
  <2>2. Local(c)'
    BY <2>1, <1>1, <1>2, <1>3
       DEF Local, Numbered, Mirrors, Agreed, Before, Looking, Changed, Holding
  <2>3. submitted' \subseteq Documents /\ caller'[c].at # "call"
    BY <1>1, <1>3, <2>1 DEF TypeOK, Before
  <2> QED
    BY <1>3, <2>1, <2>2, <2>3, QuietStep
<1> QED
  BY <1>4, <1>5

\* Everything of a turn except its reservation and its end.
LEMMA ToolSteps ==
    ASSUME AuthoringInv, NEW c \in Callers,
           \/ Look(c) \/ Patch(c)
           \/ \E s \in Sources : Inspect(c, s)
           \/ \E found \in SUBSET Sources : Search(c, found)
           \/ \E d \in Documents : Edit(c, d) \/ Submit(c, d)
    PROVE  AuthoringInv'
<1>1. TypeOK /\ Agreed(c)
  BY DEF AuthoringInv, Local
<1>2. caller[c].loop \in Progress /\ submitted \subseteq Documents
  BY <1>1 DEF TypeOK, Caller
<1>3. "reading" \in Changed /\ "saving" \in Changed
  BY DEF Changed
<1>4. caller[c].loop.output # None => caller[c].loop.output \in submitted
  BY <1>1 DEF Agreed
<1>5. CASE Look(c)
  BY <1>2, <1>3, <1>4, <1>5, ActStep DEF Look, At
<1>6. CASE Patch(c)
  <2>1. PICK d \in Documents \union {Partial} : Act(c, [caller[c].loop EXCEPT !.draft = d], "saving")
    BY <1>6 DEF Patch
  <2>2. At(c, {"acting"}) /\ submitted' = submitted
    BY <1>6 DEF Patch
  <2> DEFINE loop == [caller[c].loop EXCEPT !.draft = d]
  <2>3. /\ loop \in Progress
        /\ loop.turns = caller[c].loop.turns /\ loop.output = caller[c].loop.output
    BY <1>2 DEF Progress, MaybeDocument
  <2>4. Act(c, loop, "saving") /\ At(c, {"acting", "reading"})
    BY <2>1, <2>2 DEF At
  <2> HIDE DEF loop
  <2> QED
    BY <1>2, <1>3, <1>4, <2>2, <2>3, <2>4, ActStep
<1>7. CASE \E s \in Sources : Inspect(c, s)
  <2>1. PICK s \in Sources : Inspect(c, s)
    BY <1>7
  <2> DEFINE loop == Reserved(caller[c].loop, s)
  <2>2. /\ loop \in Progress
        /\ loop.turns = caller[c].loop.turns /\ loop.output = caller[c].loop.output
    BY <1>2 DEF Reserved, Progress
  <2>3. Act(c, loop, "reading") /\ submitted' = submitted /\ At(c, {"acting", "reading"})
    BY <2>1 DEF Inspect
  <2> HIDE DEF loop
  <2> QED
    BY <1>2, <1>3, <1>4, <2>2, <2>3, ActStep
<1>8. CASE \E found \in SUBSET Sources : Search(c, found)
  <2>1. PICK found \in SUBSET Sources : Search(c, found)
    BY <1>8
  <2> DEFINE loop == [caller[c].loop EXCEPT !.known = @ \union found]
  <2>2. /\ loop \in Progress
        /\ loop.turns = caller[c].loop.turns /\ loop.output = caller[c].loop.output
    BY <1>2 DEF Progress
  <2>3. Act(c, loop, "saving") /\ submitted' = submitted /\ At(c, {"acting", "reading"})
    BY <2>1 DEF Search, At
  <2> HIDE DEF loop
  <2> QED
    BY <1>2, <1>3, <1>4, <2>2, <2>3, ActStep
<1>9. CASE \E d \in Documents : Edit(c, d)
  <2>1. PICK d \in Documents : Edit(c, d)
    BY <1>9
  <2> DEFINE loop == [caller[c].loop EXCEPT !.draft = d]
  <2>2. /\ loop \in Progress
        /\ loop.turns = caller[c].loop.turns /\ loop.output = caller[c].loop.output
    BY <1>2 DEF Progress, MaybeDocument
  <2>3. Act(c, loop, "saving") /\ submitted' = submitted /\ At(c, {"acting", "reading"})
    BY <2>1 DEF Edit, At
  <2> HIDE DEF loop
  <2> QED
    BY <1>2, <1>3, <1>4, <2>2, <2>3, ActStep
<1>10. CASE \E d \in Documents : Submit(c, d)
  <2>1. PICK d \in Documents : Submit(c, d)
    BY <1>10
  <2> DEFINE loop == [caller[c].loop EXCEPT !.draft = d, !.output = d]
  <2>2. loop \in Progress /\ loop.turns = caller[c].loop.turns /\ loop.output = d
    BY <1>2 DEF Progress, MaybeDocument
  <2>3. Act(c, loop, "saving") /\ submitted' = submitted \union {d} /\ At(c, {"acting", "reading"})
    BY <2>1 DEF Submit, At
  <2> HIDE DEF loop
  <2> QED
    BY <1>2, <1>3, <2>2, <2>3, ActStep
<1> QED
  BY <1>5, <1>6, <1>7, <1>8, <1>9, <1>10

\* The model is called: a request more was sent, and one less is about to be.
LEMMA CallStep ==
    ASSUME AuthoringInv, NEW c \in Callers, Call(c)
    PROVE  AuthoringInv'
<1>1. /\ calls' = calls + 1 /\ caller[c].at = "call"
      /\ submitted' = submitted /\ published' = published
  BY DEF Call, At
<1>2. CASE Raise(c)
  BY <1>1, <1>2, RaiseStep
<1>3. CASE ~Raise(c)
  <2>1. TypeOK /\ Local(c)
    BY DEF AuthoringInv
  <2>2. PICK where \in {"acting", "saving"} : Goto(c, where)
    BY <1>3 DEF Call
  <2>3. UNCHANGED <<attempts, checkpoint>>
    BY <1>3 DEF Call, execution
  <2>4. /\ caller' \in [Callers -> Caller] /\ \A d \in Callers \ {c} : caller'[d] = caller[d]
        /\ caller'[c].at = where /\ caller'[c].id = caller[c].id
        /\ caller'[c].loop = caller[c].loop
    BY <2>1, <2>2 DEF Goto, TypeOK, Caller, Looking, Changed
  <2>5. Local(c)'
    BY <1>1, <2>1, <2>2, <2>3, <2>4
       DEF Local, Numbered, Mirrors, Agreed, Before, Looking, Changed, Holding
  <2>6. submitted' \subseteq Documents
    BY <1>1, <2>1 DEF TypeOK
  <2> QED
    BY <1>1, <2>2, <2>3, <2>4, <2>5, <2>6, QuietStep
<1> QED
  BY <1>2, <1>3

\* Whatever ends a caller's attempt without a publication.
LEMMA EndSteps ==
    ASSUME AuthoringInv, NEW c \in Callers,
           Exhaust(c) \/ Stale(c) \/ Replay(c) \/ RefusePublish(c) \/ Crash(c)
    PROVE  AuthoringInv'
<1>1. CASE Exhaust(c) \/ Stale(c) \/ RefusePublish(c)
  BY <1>1, RaiseStep DEF Exhaust, Stale, RefusePublish, outcome
<1>2. CASE Replay(c) \/ Crash(c)
  BY <1>2, LeaveStep DEF Replay, Crash, execution, outcome
<1> QED
  BY <1>1, <1>2

\* The latest attempt writes the draft: while a document is saved, nobody is in its loop.
LEMMA OwnerInLoop ==
    ASSUME AuthoringInv, NEW c \in Callers, Owns(c), At(c, Looking \union Changed)
    PROVE  /\ caller[c].id = attempts /\ caller[c].id # 0 /\ Saved = None
           /\ checkpoint.result = None
           /\ caller[c].loop.turns = checkpoint.loop.turns
           /\ caller[c].at \in Looking => caller[c].loop = checkpoint.loop
<1>1. caller[c].id = attempts /\ Numbered(c) /\ Mirrors(c)
  BY DEF Owns, AuthoringInv, Local
<1>2. caller[c].at \notin Before
  BY DEF At, Before, Looking, Changed
<1> QED
  BY <1>1, <1>2 DEF Numbered, Mirrors, Saved, At

LEMMA ReserveStep ==
    ASSUME AuthoringInv, NEW c \in Callers, Reserve(c)
    PROVE  AuthoringInv'
<1> DEFINE loop == [caller[c].loop EXCEPT !.turns = @ + 1]
<1>1. TypeOK /\ Counted /\ Answered /\ Kept
  BY DEF AuthoringInv
<1>2. /\ caller[c].at = "loop" /\ Owns(c)
      /\ caller' = [caller EXCEPT ![c].at = "call", ![c].loop = loop]
      /\ checkpoint' = [loop |-> loop, result |-> None]
      /\ UNCHANGED <<attempts, calls, submitted, published>>
  BY DEF Reserve, SaveLoop, At, execution, outcome
<1>3. /\ caller[c].id = attempts /\ caller[c].id # 0 /\ Saved = None
      /\ checkpoint.result = None /\ caller[c].loop = checkpoint.loop
  BY <1>2, OwnerInLoop DEF At, Looking
<1>4. checkpoint.loop.output = None
  BY <1>3 DEF Saved
<1>5. /\ loop \in Progress /\ loop.turns = checkpoint.loop.turns + 1 /\ loop.output = None
      /\ loop.known = checkpoint.loop.known /\ loop.answered = checkpoint.loop.answered
      /\ checkpoint.loop.turns \in Nat
  BY <1>1, <1>3, <1>4 DEF TypeOK, Progress
<1> HIDE DEF loop
<1>6. /\ caller' \in [Callers -> Caller] /\ \A d \in Callers \ {c} : caller'[d] = caller[d]
      /\ caller'[c].at = "call" /\ caller'[c].id = caller[c].id /\ caller'[c].loop = loop
  BY <1>1, <1>2, <1>5 DEF TypeOK, Caller, Looking
<1>7. checkpoint'.loop = loop /\ checkpoint'.result = None /\ Saved' = None
  BY <1>2, <1>5 DEF Saved
<1>8. TypeOK'
  BY <1>1, <1>2, <1>5, <1>6 DEF TypeOK, MaybeDocument
<1>9. \A d \in Callers \ {c} : Local(d)'
  BY <1>2, <1>3, <1>6, OthersKeep
<1>10. Local(c)'
  <2>1. Numbered(c)
    BY DEF AuthoringInv, Local
  <2> QED
    BY <2>1, <1>2, <1>5, <1>6, <1>7
       DEF Local, Numbered, Mirrors, Agreed, Before, Looking, Changed, Holding
<1>11. Distinct'
  BY <1>6, DistinctKeep
<1>12. Counted'
  BY <1>1, <1>2, <1>3, <1>5, <1>6, <1>7, CallingMoves DEF Counted, TypeOK
<1>13. Answered' /\ Kept'
  BY <1>1, <1>2, <1>3, <1>5, <1>7 DEF Answered, Kept
<1> QED
  BY <1>8, <1>9, <1>10, <1>11, <1>12, <1>13 DEF AuthoringInv

LEMMA SaveTurnStep ==
    ASSUME AuthoringInv, NEW c \in Callers, SaveTurn(c)
    PROVE  AuthoringInv'
<1> DEFINE loop == [caller[c].loop EXCEPT !.answered = caller[c].loop.known]
<1>1. TypeOK /\ Counted /\ Kept /\ Local(c)
  BY DEF AuthoringInv
<1>2. /\ caller[c].at \in Changed /\ Owns(c)
      /\ caller' = [caller EXCEPT ![c].loop = loop, ![c].at = Onward(loop)]
      /\ checkpoint' = [loop |-> loop, result |-> None]
      /\ UNCHANGED <<attempts, calls, submitted, published>>
  BY DEF SaveTurn, SaveLoop, At, Changed, execution, outcome
<1>3. /\ caller[c].id = attempts /\ caller[c].id # 0 /\ Saved = None
      /\ checkpoint.result = None /\ caller[c].loop.turns = checkpoint.loop.turns
  BY <1>2, OwnerInLoop DEF At
<1>4. /\ loop \in Progress /\ loop.turns = checkpoint.loop.turns
      /\ loop.known = loop.answered /\ loop.output = caller[c].loop.output
      /\ checkpoint.loop.turns \in Nat
  BY <1>1, <1>3 DEF TypeOK, Caller, Progress
<1> HIDE DEF loop
<1>5. /\ Onward(loop) \in {"loop"} \union Holding
      /\ Onward(loop) = "loop" <=> loop.output = None
  BY DEF Onward, AfterLoop, Holding
<1>6. /\ caller' \in [Callers -> Caller] /\ \A d \in Callers \ {c} : caller'[d] = caller[d]
      /\ caller'[c].at = Onward(loop) /\ caller'[c].id = caller[c].id /\ caller'[c].loop = loop
  BY <1>1, <1>2, <1>4, <1>5 DEF TypeOK, Caller, Looking
<1>7. checkpoint'.loop = loop /\ checkpoint'.result = None /\ Saved' = loop.output
  BY <1>2 DEF Saved
<1>8. TypeOK'
  BY <1>1, <1>2, <1>4, <1>6 DEF TypeOK, MaybeDocument
<1>9. \A d \in Callers \ {c} : Local(d)'
  BY <1>2, <1>3, <1>6, OthersKeep
<1>10. loop.output # None => loop.output \in submitted
  BY <1>1, <1>4 DEF Local, Agreed
<1>11. Local(c)'
  <2>1. Numbered(c)'
    BY <1>1, <1>2, <1>5, <1>6 DEF Local, Numbered, Before, Changed, Holding
  <2>2. Mirrors(c)'
    BY <1>4, <1>5, <1>6, <1>7 DEF Mirrors, Looking, Changed, Holding
  <2>3. Agreed(c)'
    BY <1>2, <1>5, <1>6, <1>7, <1>10 DEF Agreed, Holding
  <2> QED
    BY <2>1, <2>2, <2>3 DEF Local
<1>12. Distinct'
  BY <1>6, DistinctKeep
<1>13. Counted'
  <2>1. caller'[c].at # "call"
    BY <1>5, <1>6 DEF Holding
  <2> QED
    BY <2>1, <1>1, <1>2, <1>3, <1>4, <1>6, <1>7, CallingMoves DEF Counted, TypeOK
<1>14. Answered' /\ Kept'
  BY <1>1, <1>2, <1>3, <1>4, <1>7, <1>10 DEF Answered, Kept
<1> QED
  BY <1>8, <1>9, <1>11, <1>12, <1>13, <1>14 DEF AuthoringInv

\* A new attempt takes up what the draft holds, and only it may write the draft.
LEMMA StartStep ==
    ASSUME AuthoringInv, NEW c \in Callers, Start(c)
    PROVE  AuthoringInv'
<1> DEFINE loop == Resumed(checkpoint)
<1>1. TypeOK /\ Distinct /\ Counted /\ Answered /\ Kept /\ \A d \in Callers : Local(d)
  BY DEF AuthoringInv
<1>2. /\ attempts' = attempts + 1 /\ caller[c].at = "start"
      /\ caller' = [caller EXCEPT ![c].id = attempts + 1, ![c].loop = loop, ![c].at = Onward(loop)]
      /\ UNCHANGED <<checkpoint, calls, submitted, published>>
  BY DEF Start, At, outcome
<1>3. /\ loop \in Progress /\ loop.output = Saved
      /\ Saved = None => checkpoint.result = None /\ loop = checkpoint.loop
  BY <1>1 DEF Resumed, Saved, NoProgress, TypeOK, Progress, MaybeDocument
<1> HIDE DEF loop
<1>4. /\ Onward(loop) \in {"loop"} \union Holding
      /\ Onward(loop) = "loop" <=> loop.output = None
  BY DEF Onward, AfterLoop, Holding
<1>5. /\ caller' \in [Callers -> Caller] /\ \A d \in Callers \ {c} : caller'[d] = caller[d]
      /\ caller'[c].at = Onward(loop) /\ caller'[c].id = attempts + 1 /\ caller'[c].loop = loop
      /\ attempts \in Nat
  <2> DEFINE where == Onward(loop)
  <2>1. caller[c] \in Caller /\ attempts \in Nat /\ caller \in [Callers -> Caller]
    BY <1>1 DEF TypeOK
  <2>2. where \in Looking \union Holding
    BY <1>4 DEF Looking
  <2>3. caller' = [caller EXCEPT ![c].id = attempts + 1, ![c].loop = loop, ![c].at = where]
    BY <1>2
  <2> HIDE DEF where
  <2>4. /\ caller'[c] = [caller[c] EXCEPT !.id = attempts + 1, !.loop = loop, !.at = where]
        /\ \A d \in Callers \ {c} : caller'[d] = caller[d]
    BY <2>1, <2>3
  <2>5. /\ caller'[c] \in Caller /\ caller'[c].at = where
        /\ caller'[c].id = attempts + 1 /\ caller'[c].loop = loop
    <3> DEFINE number == attempts + 1
    <3>1. number \in Nat /\ loop \in Progress
      BY <1>3, <2>1
    <3>2. caller'[c] = [caller[c] EXCEPT !.id = number, !.loop = loop, !.at = where]
      BY <2>4
    <3> HIDE DEF number
    <3>3. /\ caller'[c] \in Caller /\ caller'[c].at = where
          /\ caller'[c].id = number /\ caller'[c].loop = loop
      BY <2>1, <2>2, <3>1, <3>2 DEF Caller
    <3> QED
      BY <3>3 DEF number
  <2>6. caller' \in [Callers -> Caller]
    BY <2>1, <2>3, <2>4, <2>5
  <2> QED
    BY <2>1, <2>4, <2>5, <2>6 DEF where
<1>6. Saved' = Saved
  BY <1>2 DEF Saved
<1>7. TypeOK'
  BY <1>1, <1>2, <1>5 DEF TypeOK
<1>8. \A d \in Callers \ {c} : Local(d)' /\ caller'[d].id # attempts + 1
  <2> SUFFICES ASSUME NEW d \in Callers \ {c} PROVE Local(d)' /\ caller'[d].id # attempts + 1
    OBVIOUS
  <2>1. caller'[d] = caller[d] /\ Local(d) /\ caller[d].id \in Nat /\ attempts \in Nat
    BY <1>1, <1>5 DEF TypeOK, Caller
  <2>2. Numbered(d)' /\ caller'[d].id # attempts'
    BY <1>2, <2>1 DEF Local, Numbered
  <2>3. Mirrors(d)' /\ Agreed(d)'
    BY <1>2, <1>6, <2>1, <2>2 DEF Local, Mirrors, Agreed
  <2> QED
    BY <1>2, <2>2, <2>3 DEF Local
<1>9. Local(c)'
  <2>1. Numbered(c)'
    BY <1>2, <1>4, <1>5 DEF Numbered, Before, Holding
  <2>2. Mirrors(c)'
    BY <1>2, <1>3, <1>4, <1>5 DEF Mirrors, Looking, Changed, Holding, Saved
  <2>3. Agreed(c)'
    BY <1>1, <1>2, <1>3, <1>4, <1>5, <1>6 DEF Agreed, Kept, Holding
  <2> QED
    BY <2>1, <2>2, <2>3 DEF Local
<1>10. Distinct'
  BY <1>1, <1>5, <1>8 DEF Distinct
<1>11. Counted'
  <2>1. caller'[c].at # "call"
    BY <1>4, <1>5 DEF Holding
  <2> QED
    BY <2>1, <1>1, <1>2, <1>5, CallingMoves DEF Counted, TypeOK, Progress
<1>12. Answered' /\ Kept'
  BY <1>1, <1>2, <1>6 DEF Answered, Kept
<1> QED
  BY <1>7, <1>8, <1>9, <1>10, <1>11, <1>12 DEF AuthoringInv

\* The saved result is the document that the progress held.
LEMMA SaveResultStep ==
    ASSUME AuthoringInv, NEW c \in Callers, SaveResult(c)
    PROVE  AuthoringInv'
<1>1. TypeOK /\ Kept /\ Local(c)
  BY DEF AuthoringInv
<1>2. /\ caller[c].at = "save" /\ caller[c].id = attempts
      /\ checkpoint' = [loop |-> NoProgress, result |-> caller[c].loop.output]
      /\ caller' = [caller EXCEPT ![c].at = "publish"]
      /\ UNCHANGED <<attempts, calls, submitted, published>>
  BY DEF SaveResult, Owns, Goto, At, execution, outcome
<1>3. caller[c].loop.output = Saved /\ Saved # None /\ caller[c].id # 0
  BY <1>1, <1>2 DEF Local, Agreed, Numbered, Holding, Before
<1>4. caller[c].loop.output \in MaybeDocument /\ NoProgress \in Progress
  BY <1>1 DEF TypeOK, Caller, Progress, NoProgress, MaybeDocument
<1>5. /\ caller' \in [Callers -> Caller] /\ \A d \in Callers \ {c} : caller'[d] = caller[d]
      /\ caller'[c].at = "publish" /\ caller'[c].id = caller[c].id
      /\ caller'[c].loop = caller[c].loop
  BY <1>1, <1>2 DEF TypeOK, Caller, Holding
<1>6. checkpoint'.result # None /\ Saved' = Saved
  BY <1>2, <1>3 DEF Saved
<1>7. TypeOK'
  BY <1>1, <1>2, <1>4, <1>5 DEF TypeOK
<1>8. \A d \in Callers \ {c} : Local(d)'
  BY <1>2, <1>3, <1>5, <1>6, OthersKeep
<1>9. Local(c)'
  BY <1>1, <1>2, <1>3, <1>5, <1>6
     DEF Local, Numbered, Mirrors, Agreed, Before, Looking, Changed, Holding
<1>10. Distinct'
  BY <1>5, DistinctKeep
<1>11. Counted' /\ Answered' /\ Kept'
  BY <1>1, <1>2, <1>6 DEF Counted, Answered, Kept
<1> QED
  BY <1>7, <1>8, <1>9, <1>10, <1>11 DEF AuthoringInv

\* The published document is the saved one, held by the caller that publishes it.
LEMMA PublishStep ==
    ASSUME AuthoringInv, NEW c \in Callers, Publish(c)
    PROVE  AuthoringInv'
<1>1. TypeOK /\ Counted /\ Answered /\ Kept /\ Local(c)
  BY DEF AuthoringInv
<1>2. /\ caller[c].at = "publish" /\ published' = caller[c].loop.output
      /\ caller' = [caller EXCEPT ![c] = Idle]
      /\ UNCHANGED <<attempts, checkpoint, calls, submitted>>
  BY DEF Publish, Leave, At
<1>3. caller[c].loop.output = Saved /\ Saved # None /\ Saved \in MaybeDocument
  BY <1>1, <1>2 DEF Local, Agreed, Holding, Saved, TypeOK, Progress, MaybeDocument
<1>4. Idle \in Caller /\ Idle.at = "idle" /\ Idle.id = 0 /\ Idle.loop.output = None
  BY DEF Idle, Caller, Progress, NoProgress, MaybeDocument, Before
<1>5. /\ caller' \in [Callers -> Caller] /\ \A d \in Callers \ {c} : caller'[d] = caller[d]
      /\ caller'[c] = Idle
  BY <1>1, <1>2, <1>4 DEF TypeOK
<1>6. Saved' = Saved
  BY <1>2 DEF Saved
<1>7. TypeOK'
  BY <1>1, <1>2, <1>3, <1>5 DEF TypeOK
<1>8. \A d \in Callers \ {c} : Local(d)'
  BY <1>2, <1>5, <1>6, OthersKeep
<1>9. Local(c)'
  BY <1>1, <1>2, <1>4, <1>5
     DEF TypeOK, Local, Numbered, Mirrors, Agreed, Before, Looking, Changed, Holding
<1>10. Distinct'
  BY <1>4, <1>5, DistinctKeep
<1>11. Counted'
  BY <1>1, <1>2, <1>4, <1>5, CallingMoves DEF Counted, TypeOK, Progress
<1>12. Answered' /\ Kept'
  BY <1>1, <1>2, <1>3, <1>6 DEF Answered, Kept
<1> QED
  BY <1>7, <1>8, <1>9, <1>10, <1>11, <1>12 DEF AuthoringInv

-----------------------------------------------------------------------------
(* The theorems *)

\* Every step of Authoring keeps the inductive invariant.
LEMMA NextInv == AuthoringInv /\ [Next]_vars => AuthoringInv'
<1> SUFFICES ASSUME AuthoringInv, [Next]_vars PROVE AuthoringInv'
  OBVIOUS
<1>1. CASE UNCHANGED <<attempts, checkpoint, caller, calls, submitted, published>>
  BY <1>1 DEF AuthoringInv, TypeOK, Distinct, Local, Numbered, Mirrors, Agreed, Calling, Counted,
              Answered, Kept, Saved
<1>2. CASE LeaseLapses
  BY <1>1, <1>2 DEF LeaseLapses, outcome
<1>3. CASE UNCHANGED vars
  BY <1>1, <1>3 DEF vars
<1>4. ASSUME NEW c \in Callers, See(c) \/ Claim(c) \/ RefuseStart(c) PROVE AuthoringInv'
  BY <1>4, BeforeSteps
<1>5. ASSUME NEW c \in Callers, Start(c) PROVE AuthoringInv'
  BY <1>5, StartStep
<1>6. ASSUME NEW c \in Callers, Reserve(c) PROVE AuthoringInv'
  BY <1>6, ReserveStep
<1>7. ASSUME NEW c \in Callers, Call(c) PROVE AuthoringInv'
  BY <1>7, CallStep
<1>8. ASSUME NEW c \in Callers,
             \/ Look(c) \/ Patch(c)
             \/ \E s \in Sources : Inspect(c, s)
             \/ \E found \in SUBSET Sources : Search(c, found)
             \/ \E d \in Documents : Edit(c, d) \/ Submit(c, d)
      PROVE AuthoringInv'
  BY <1>8, ToolSteps
<1>9. ASSUME NEW c \in Callers, SaveTurn(c) PROVE AuthoringInv'
  BY <1>9, SaveTurnStep
<1>10. ASSUME NEW c \in Callers, SaveResult(c) PROVE AuthoringInv'
  BY <1>10, SaveResultStep
<1>11. ASSUME NEW c \in Callers, Publish(c) PROVE AuthoringInv'
  BY <1>11, PublishStep
<1>12. ASSUME NEW c \in Callers,
              Exhaust(c) \/ Stale(c) \/ Replay(c) \/ RefusePublish(c) \/ Crash(c)
       PROVE AuthoringInv'
  BY <1>12, EndSteps
<1> QED
  BY <1>2, <1>3, <1>4, <1>5, <1>6, <1>7, <1>8, <1>9, <1>10, <1>11, <1>12 DEF Next

\* In every reachable state the latest attempt mirrors the draft and no request is uncounted.
THEOREM AuthoringInvariant == Spec => []AuthoringInv
BY InitInv, NextInv, PTL DEF Spec

\* The draft counts every request that was sent and marks no source as known whose answer
\* the next attempt would not find (run_bounded_tool_loop, record_architect_activity).
THEOREM TheCheckpointIsTrue == Spec => []CheckpointIsTrue
<1>1. AuthoringInv => CheckpointIsTrue
  <2> SUFFICES ASSUME AuthoringInv, checkpoint.result = None
               PROVE  /\ calls <= checkpoint.loop.turns
                      /\ checkpoint.loop.known \subseteq checkpoint.loop.answered
    BY DEF CheckpointIsTrue
  <2>1. TypeOK /\ Counted /\ Answered
    BY DEF AuthoringInv
  <2>2. Cardinality(Calling) \in Nat
    BY Constants, FS_Subset, FS_CardinalityType DEF Calling
  <2> QED
    BY <2>1, <2>2 DEF TypeOK, Progress, Counted, Answered
<1> QED
  BY <1>1, AuthoringInvariant, PTL

\* No two attempts of the task have different documents, and the published one is theirs
\* (complete_architect_task, complete_task_app_spec).
THEOREM TheDocumentIsOne == Spec => []OneDocument
<1>1. AuthoringInv => OneDocument
  BY DEF AuthoringInv, Local, Agreed, Kept, OneDocument, At, Holding
<1> QED
  BY <1>1, AuthoringInvariant, PTL
=============================================================================
