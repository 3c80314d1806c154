------------------------------ MODULE WorkMemory ------------------------------
(***************************************************************************)
(* The working memory of the Code Engineer                                 *)
(* (generation/engineering/work_memory.py, driven by                       *)
(* orchestration/code_engineer.py): the source excerpts a checkpoint keeps *)
(* between model turns, the reads it answers from them, and the counters   *)
(* that close the read tools and stop an execution without progress.       *)
(*                                                                         *)
(* The loop is sequential; the decisions of the model are the inputs.  A   *)
(* line has no text, a content hash is the version of the file, a text's   *)
(* size is its number of lines, and a check's output is its verdict.  The  *)
(* turn number of an excerpt is its age in turns, which saturates.         *)
(***************************************************************************)
EXTENDS Naturals, Sequences, FiniteSets, SequencesExt

CONSTANTS
    Files, LineCount,     \* the files, numbered in the order of their paths, and their lengths
    Items,                \* work items, done in the order of their numbers
    Checks, Covers,       \* checks the model may run, and those each one includes
    Excerpt,              \* MAX_EVIDENCE_CHARS: what one read shows at most
    ContextLimit,         \* MAX_CONTEXT_CHARS: per file, and for the whole projection
    MaxEvidenceFiles,
    GuidanceAfterSteps, GuidanceGraceTurns,
    MaxDuplicateSteps, MaxInspectionSteps,
    MaxInspectionTurns, StalledInspectionTurns,
    MaxRedundantReads, GuidanceAfterRedundantReads,
    BatchLimit,           \* reads of one model turn (agents/code_engineer.py)
    VersionBound, ReplanBound, RetryBound, AgeBound

Lines(file) == 1 .. LineCount[file]

ASSUME MemoryAssumption ==
    /\ Files \subseteq Nat /\ IsFiniteSet(Files) /\ LineCount \in [Files -> Nat \ {0}]
    /\ IsFiniteSet(Items) /\ Items = 1..Cardinality(Items) /\ Items # {}
    /\ Covers \in [Checks -> SUBSET Checks]
    /\ {Excerpt, ContextLimit, MaxEvidenceFiles, BatchLimit} \subseteq Nat \ {0}
    /\ {GuidanceAfterSteps, MaxDuplicateSteps, MaxInspectionSteps, StalledInspectionTurns,
        MaxInspectionTurns, GuidanceAfterRedundantReads, MaxRedundantReads, GuidanceGraceTurns,
        VersionBound, ReplanBound, RetryBound, AgeBound} \subseteq Nat
    /\ Excerpt <= ContextLimit
    /\ GuidanceAfterSteps < MaxDuplicateSteps /\ MaxDuplicateSteps < MaxInspectionSteps
    /\ StalledInspectionTurns < MaxInspectionTurns
    /\ GuidanceAfterRedundantReads < MaxRedundantReads

VARIABLES
    source,   \* the version of each file
    memory,   \* the part of the checkpoint this module is about
    turn,     \* the tools the model may still use in this turn
    shown,    \* history: lines of the present version a read returned in full
    replans, retries

vars == <<source, memory, turn, shown, replans, retries>>

-----------------------------------------------------------------------------
(* Excerpts.  A fragment is a range of lines; seen are those of its lines    *)
(* that an explicit read returned.                                           *)
Fragment(first, last, seen) == [first |-> first, last |-> last, seen |-> seen]
Span(f) == f.first .. f.last
Size(fragments) == Cardinality(UNION {{i} \X Span(fragments[i]) : i \in DOMAIN fragments})
VisibleEnd(first, last) == IF last - first + 1 > Excerpt THEN first + Excerpt - 1 ELSE last

\* Slip: the wider excerpt counts as read as soon as a part of it was.
MergedGenerously(target, absorbed) ==
    [target EXCEPT !.seen = IF @ \union UNION {g.seen : g \in absorbed} = {} THEN {} ELSE Span(target)]
MergeProvenance(target, absorbed) ==
    [target EXCEPT !.seen = @ \union UNION {g.seen : g \in absorbed}]

\* The fragments at some positions, in their order.
UpTo(positions, i) == {j \in positions : j <= i}
Nth(positions, k) == CHOOSE i \in positions : Cardinality(UpTo(positions, i)) = k
Kept(fragments, positions) ==
    [k \in 1..Cardinality(positions) |-> fragments[Nth(positions, k)]]

\* Slip: every excerpt is kept beside those that contain it.
Uncoalesced(fragments, f) == Append(fragments, f)
\* _coalesce_fragments, for fragments that were coalesced before f came.
Coalesce(fragments, f) ==
    LET covering == {i \in DOMAIN fragments : Span(f) \subseteq Span(fragments[i])}
        inside == {i \in DOMAIN fragments : Span(fragments[i]) \subseteq Span(f)}
    IN IF covering # {}
       THEN LET i == CHOOSE i \in covering : \A j \in covering : i <= j
            IN [fragments EXCEPT ![i] = MergeProvenance(@, {f})]
       ELSE Append(Kept(fragments, DOMAIN fragments \ inside),
                   MergeProvenance(f, {fragments[i] : i \in inside}))

\* The shortest prefix is dropped that leaves the file within the limit.
Bounded(fragments) ==
    LET fits == {i \in 0..Len(fragments) :
                    Size(SubSeq(fragments, i + 1, Len(fragments))) <= ContextLimit}
        i == CHOOSE i \in fits : \A j \in fits : i <= j
    IN SubSeq(fragments, i + 1, Len(fragments))

Changed(m) == m.items[m.current].changed
Cached(m) == DOMAIN m.cache
Known(m, file, version) == file \in Cached(m) /\ m.cache[file].version = version

\* The entries after _cache_evidence: one file too many loses its oldest, first
\* of those that are neither changed by the item nor just stored.
Stored(m, file, version, f) ==
    LET old == IF Known(m, file, version) THEN m.cache[file].fragments ELSE <<>>
        entry == [version |-> version, item |-> m.current, age |-> 0,
                  fragments |-> Bounded(Coalesce(old, f))]
        cache == [g \in Cached(m) \union {file} |-> IF g = file THEN entry ELSE m.cache[g]]
        free == DOMAIN cache \ (Changed(m) \union {file})
        worst == IF free = {} THEN DOMAIN cache ELSE free
        oldest == {g \in worst : \A h \in worst : cache[g].age >= cache[h].age}
    IN IF Cardinality(DOMAIN cache) <= MaxEvidenceFiles THEN {cache}
       ELSE {[g \in DOMAIN cache \ {victim} |-> cache[g]] : victim \in oldest}

-----------------------------------------------------------------------------
(* working_context: what the model sees of the cache at a decision           *)
Tier(m, file) ==
    IF file \in Changed(m) THEN 0 ELSE IF m.cache[file].item = m.current THEN 1 ELSE 2
Before(m, f, g) ==
    LET key(x) == <<Tier(m, x), Size(m.cache[x].fragments), m.cache[x].age, x>>
    IN \E i \in 1..4 : /\ key(f)[i] < key(g)[i]
                       /\ \A j \in 1..(i - 1) : key(f)[j] = key(g)[j]

Current(m) == {f \in Cached(m) : m.cache[f].version = source[f]}

\* Newest fragments first, as long as they fit; a set of <<file, fragment>>.
Projection(m) ==
    LET order == SetToSortSeq(Current(m), LAMBDA f, g : Before(m, f, g))
        pairs == FlattenSeq([i \in DOMAIN order |->
                    LET fragments == Reverse(m.cache[order[i]].fragments)
                    IN [k \in DOMAIN fragments |-> <<order[i], fragments[k]>>]])
        step(acc, pair) ==
            LET size == acc.size + Cardinality(Span(pair[2]))
            IN IF size > ContextLimit THEN acc
               ELSE [size |-> size, chosen |-> acc.chosen \union {pair}]
    IN FoldLeft(step, [size |-> 0, chosen |-> {}], pairs).chosen

Coverage(m, file, version) ==
    IF m.coverage[file].version = version THEN m.coverage[file].lines ELSE {}

\* suppress_redundant_read: the whole answer was read and is in the context.
AlreadyVisible(m, file, first, last) ==
    LET projected == {p[2] : p \in {p \in Projection(m) : p[1] = file}}
        read == UNION {Span(f) \intersect (f.seen \union Coverage(m, file, source[file])) :
                          f \in projected}
    IN first .. VisibleEnd(first, last) \subseteq read

-----------------------------------------------------------------------------
(* The clocks of record_progress; each saturates where a test reads it.      *)
Tick(n, limit) == IF n < limit THEN n + 1 ELSE n
Watch(m) == m.items[m.current].watch

\* Only its own pass, or that of a check that includes it, clears a failed check.
Watched(m, verdict) ==
    LET ticked == [c \in DOMAIN Watch(m) |-> Tick(Watch(m)[c], MaxInspectionSteps)]
        passed == UNION {{c} \union Covers[c] : c \in {v[1] : v \in {v \in verdict : v[2]}}}
        failed == {v[1] : v \in {v \in verdict : ~v[2]}}
    IN [c \in (DOMAIN ticked \ passed) \union failed |->
           IF c \in DOMAIN ticked THEN ticked[c] ELSE 0]

\* What a tool's result says to record_progress.
Nothing == [reads |-> FALSE, fresh |-> FALSE, again |-> FALSE,
            edits |-> FALSE, replans |-> FALSE, verdict |-> {}]

Progress(m, step) ==
    LET delivers == step.edits \/ ~(step.verdict \subseteq m.verdicts)
        restarts == step.fresh \/ delivers \/ step.replans
        watch == Watched(m, step.verdict)
        item == m.items[m.current]
    IN [m EXCEPT
          !.items[m.current] = [item EXCEPT
              !.watch = watch,
              !.inspected = IF delivers \/ step.replans THEN 0
                            ELSE IF step.reads /\ ~turn.inspected
                            THEN Tick(@, MaxInspectionTurns) ELSE @,
              !.redundant = IF restarts THEN 0
                            ELSE IF step.again THEN Tick(@, MaxRedundantReads) ELSE @],
          !.verdicts = @ \union step.verdict,
          !.noProgress = IF restarts THEN 0 ELSE Tick(@, MaxDuplicateSteps),
          !.undelivered = IF delivers THEN 0 ELSE Tick(@, GuidanceAfterSteps),
          !.guided = IF delivers /\ DOMAIN watch = {} THEN {} ELSE @]

\* inspection_action_required: the read tools are closed for the next decision.
ReadsClosed(m) ==
    /\ m.planned
    /\ \/ m.items[m.current].inspected >= MaxInspectionTurns
       \/ m.items[m.current].redundant >= MaxRedundantReads
       \/ /\ m.items[m.current].inspected >= StalledInspectionTurns
          /\ m.noProgress >= GuidanceAfterSteps

LongestWatch(m) ==
    IF DOMAIN Watch(m) = {} THEN 0 ELSE CHOOSE n \in {Watch(m)[c] : c \in DOMAIN Watch(m)} :
                                            \A c \in DOMAIN Watch(m) : n >= Watch(m)[c]

Guidance(m) ==
    /\ m.planned
    /\ \/ m.undelivered >= GuidanceAfterSteps \/ LongestWatch(m) >= GuidanceAfterSteps
       \/ m.items[m.current].redundant >= GuidanceAfterRedundantReads
       \/ ReadsClosed(m)

\* implementation_stalled, or a plan that does not come.
Stalled(m) ==
    IF m.planned
    THEN /\ \E n \in m.guided : n >= GuidanceGraceTurns
         /\ m.noProgress >= MaxDuplicateSteps \/ LongestWatch(m) >= MaxInspectionSteps
    ELSE m.noProgress >= GuidanceAfterSteps

\* The end of a step: nothing more happens in the turn of a blocked execution.
Finish(m, left, inspects) ==
    \E end \in {IF Stalled(n) THEN [n EXCEPT !.outcome = "blocked"] ELSE n : n \in {m}} :
       /\ memory' = end
       /\ turn' = [turn EXCEPT !.left = IF end.outcome = "running" THEN left ELSE 0,
                               !.inspected = inspects]

-----------------------------------------------------------------------------
Init ==
    /\ source = [f \in Files |-> 0]
    /\ memory = [outcome |-> "running", planned |-> FALSE, current |-> 1,
                 cache |-> <<>>,
                 coverage |-> [f \in Files |-> [version |-> 0, lines |-> {}]],
                 searched |-> FALSE, verdicts |-> {},
                 items |-> [i \in Items |-> [changed |-> {}, inspected |-> 0,
                                             redundant |-> 0, watch |-> <<>>]],
                 noProgress |-> 0, undelivered |-> 0, guided |-> {}]
    /\ turn = [left |-> 0, window |-> FALSE, inspected |-> FALSE]
    /\ shown = [f \in Files |-> {}]
    /\ replans = 0 /\ retries = 0

Older(entry) == [entry EXCEPT !.age = Tick(@, AgeBound)]
\* A model turn is reserved: guidance is issued once, the window decided.
StartTurn ==
    /\ memory.outcome = "running" /\ turn.left = 0
    /\ memory' = [memory EXCEPT
          !.cache = [f \in DOMAIN @ |-> Older(@[f])],
          !.guided = IF @ # {} THEN {Tick(n, GuidanceGraceTurns) : n \in @}
                     ELSE IF Guidance(memory) THEN {0} ELSE @]
    /\ \E open \in {~ReadsClosed(memory)} :
          turn' \in [left : IF open THEN 1..BatchLimit ELSE {1}, window : {open}, inspected : {FALSE}]
    /\ UNCHANGED <<source, shown, replans, retries>>

\* One read of a batch.
\* Slip: the check of a repetition asks the bounded cache, not the coverage.
RepeatsWhatIsCached(m, file, lines) ==
    /\ file \in Current(m)
    /\ lines \subseteq UNION {f.seen : f \in ToSet(m.cache[file].fragments)}
Repeats(m, file, lines) == lines \subseteq Coverage(m, file, source[file])

Read(file, first, last) ==
    /\ turn.left > 0 /\ turn.window /\ first <= last
    /\ \E hidden \in {AlreadyVisible(memory, file, first, last)},
         visible \in {first .. VisibleEnd(first, last)} :
         LET repeated == Repeats(memory, file, visible)
             covered == [version |-> source[file],
                         lines |-> Coverage(memory, file, source[file]) \union visible]
         IN \E m \in {Progress(memory, [Nothing EXCEPT
                           !.reads = TRUE, !.fresh = ~hidden /\ ~repeated,
                           !.again = hidden \/ repeated])} :
               IF hidden
               THEN Finish(m, turn.left - 1, TRUE) /\ UNCHANGED shown
               ELSE /\ \E cache \in Stored(m, file, source[file],
                                          Fragment(first, VisibleEnd(first, last), visible)) :
                          Finish([m EXCEPT !.cache = cache, !.coverage[file] = covered],
                                 turn.left - 1, TRUE)
                    /\ shown' = [shown EXCEPT ![file] = @ \union visible]
    /\ UNCHANGED <<source, replans, retries>>

\* A search or a listing: the same result twice is no new evidence.
Search ==
    /\ turn.left > 0 /\ turn.window
    /\ Finish([Progress(memory, [Nothing EXCEPT !.reads = TRUE, !.fresh = ~memory.searched])
               EXCEPT !.searched = TRUE], turn.left - 1, TRUE)
    /\ UNCHANGED <<source, shown, replans, retries>>

\* Every other tool is the only call of its turn.
Alone == turn.left = 1

WritesLeft == \A f \in Files : source[f] < VersionBound

\* An edit: the whole new file becomes an excerpt that no read has returned.
Edit(file) ==
    /\ Alone /\ memory.planned /\ WritesLeft
    /\ \E m \in {[Progress(memory, [Nothing EXCEPT !.edits = TRUE])
                  EXCEPT !.items[memory.current].changed = @ \union {file},
                         !.cache = [f \in DOMAIN @ \ {file} |-> @[f]],
                         !.searched = FALSE, !.verdicts = {}]} :
       \E cache \in Stored(m, file, source[file] + 1, Fragment(1, VisibleEnd(1, LineCount[file]), {})) :
             Finish([m EXCEPT !.cache = cache], 0, FALSE)
    /\ source' = [source EXCEPT ![file] = @ + 1]
    /\ shown' = [shown EXCEPT ![file] = {}]
    /\ UNCHANGED <<replans, retries>>

\* Somebody else's write to the workspace, between two steps of this loop.
OutsideChange(file) ==
    /\ WritesLeft
    /\ source' = [source EXCEPT ![file] = @ + 1]
    /\ shown' = [shown EXCEPT ![file] = {}]
    /\ memory' = [memory EXCEPT !.searched = FALSE, !.verdicts = {}]
    /\ UNCHANGED <<turn, replans, retries>>

\* Check tools are closed while a failure stands for the unchanged source.
ChecksOpen == memory.planned /\ \A v \in memory.verdicts : v[2]

RunCheck(check, passes) ==
    /\ Alone /\ ChecksOpen
    /\ Finish(Progress(memory, [Nothing EXCEPT !.verdict = {<<check, passes>>}]), 0, FALSE)
    /\ UNCHANGED <<source, shown, replans, retries>>

\* complete_work_item: a pass ends the item and all its clocks.
CompleteItem(check, passes) ==
    /\ Alone /\ ChecksOpen
    /\ \E m \in {Progress(memory, [Nothing EXCEPT !.verdict = {<<check, passes>>}])} :
          memory' = IF ~passes THEN m
                    ELSE [m EXCEPT
                       !.noProgress = 0, !.undelivered = 0, !.guided = {},
                       !.current = IF @ + 1 \in Items THEN @ + 1 ELSE @,
                       !.outcome = IF m.current + 1 \in Items THEN @ ELSE "generated"]
    /\ turn' = [turn EXCEPT !.left = 0]
    /\ UNCHANGED <<source, shown, replans, retries>>

\* update_delivery_plan: the first plan, or a changed one.
Plan ==
    /\ Alone /\ replans < ReplanBound
    /\ Finish([Progress(memory, [Nothing EXCEPT !.replans = TRUE]) EXCEPT !.planned = TRUE], 0, FALSE)
    /\ replans' = replans + 1
    /\ UNCHANGED <<source, shown, retries>>

\* A rejected call, a failed edit or any other result without evidence.
Fruitless ==
    /\ Alone
    /\ Finish(Progress(memory, Nothing), 0, FALSE)
    /\ UNCHANGED <<source, shown, replans, retries>>

\* prepare_manual_repair_retry: new clocks, the evidence stays.
Retry ==
    /\ memory.outcome = "blocked" /\ memory.planned /\ retries < RetryBound
    /\ memory' = [memory EXCEPT
          !.outcome = "running", !.noProgress = 0, !.undelivered = 0, !.guided = {},
          !.items = [i \in Items |->
             IF i = memory.current THEN [@[i] EXCEPT !.inspected = 0, !.redundant = 0, !.watch = <<>>]
             ELSE [@[i] EXCEPT !.watch = <<>>]]]
    /\ retries' = retries + 1
    /\ UNCHANGED <<source, turn, shown, replans>>

Act ==
    \/ Fruitless
    \/ Search
    \/ Plan
    \/ \E f \in Files : \E a, b \in Lines(f) : Read(f, a, b)
    \/ \E f \in Files : Edit(f)
    \/ \E c \in Checks, ok \in BOOLEAN : RunCheck(c, ok) \/ CompleteItem(c, ok)

Next ==
    \/ StartTurn
    \/ Act
    \/ \E f \in Files : OutsideChange(f)
    \/ Retry

Spec == Init /\ [][Next]_vars

\* The loop takes the next turn, and the model answers it with some call.
FairSpec == Spec /\ WF_vars(StartTurn) /\ WF_vars(Act)

-----------------------------------------------------------------------------
(* Well formed, and bounded: no file holds more than the limit, no excerpt   *)
(* of a file lies within another, and the cache never outgrows its bound     *)
(* (_coalesce_fragments, _cache_evidence).                                   *)
MemoryTypeOK ==
    /\ source \in [Files -> 0..VersionBound]
    /\ memory.outcome \in {"running", "blocked", "generated"}
    /\ memory.current \in Items /\ memory.planned \in BOOLEAN /\ memory.searched \in BOOLEAN
    /\ Cached(memory) \subseteq Files /\ Cardinality(Cached(memory)) <= MaxEvidenceFiles
    /\ \A f \in Cached(memory) :
          LET entry == memory.cache[f]
          IN /\ entry.version \in 0..source[f] /\ entry.item \in Items /\ entry.age \in 0..AgeBound
             /\ Size(entry.fragments) <= ContextLimit
             /\ \A i, j \in DOMAIN entry.fragments :
                   /\ Span(entry.fragments[i]) # {}
                   /\ entry.fragments[i].seen \subseteq Span(entry.fragments[i])
                   /\ Span(entry.fragments[i]) \subseteq Span(entry.fragments[j]) => i = j
    /\ memory.verdicts \subseteq Checks \X BOOLEAN
    /\ memory.noProgress \in 0..MaxDuplicateSteps
    /\ turn \in [left : 0..BatchLimit, window : BOOLEAN, inspected : BOOLEAN]
    /\ \A f \in Files : shown[f] \subseteq Lines(f)

\* What the memory says the model read at the present version of a file, a read
\* of that version returned: neither the seed of an edit, nor a wider excerpt
\* that absorbed a narrower one, nor a version that changed on disk makes the
\* model's next read of unseen lines look redundant.
SeenWasShown ==
    \A f \in Files :
       /\ Coverage(memory, f, source[f]) \subseteq shown[f]
       /\ f \in Current(memory) =>
             UNION {g.seen : g \in ToSet(memory.cache[f].fragments)} \subseteq shown[f]

\* However the model alternates reads that evict each other, searches, checks and
\* plans, an execution that has run out of new source, plans and verdicts ends.
StallIsDetected == <>[](memory.outcome # "running")
=============================================================================
