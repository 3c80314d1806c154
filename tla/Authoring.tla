------------------------------ MODULE Authoring ------------------------------
(***************************************************************************)
(* The two authors of documents: the Product Manager, who writes the PRD   *)
(* (orchestration, services, agents and tools/product_manager.py), and the *)
(* Architect, who writes the system design (the same files of architect).  *)
(* Both run the bounded tool loop of agents/tool_protocol.py, which saves  *)
(* its progress in the draft of the task's execution, so that another      *)
(* attempt takes up the conversation where a crash, an error or a lapsed   *)
(* lease left it.                                                          *)
(*                                                                         *)
(* One task of one role.  A step is one transaction, one call of the       *)
(* model or one tool.  A document is a value; what its sections say, the   *)
(* texts of the conversation and the pages on the web are left out.  A     *)
(* source stands for the key of one reading (Architect) or for the URL of  *)
(* one page (Product Manager).  Pause and cancel are in WorkflowJobs.      *)
(***************************************************************************)
EXTENDS Naturals, FiniteSets

CONSTANTS
    Roles,           \* the roles that may own the task: "architect", "product_manager"
    Callers,         \* workers and request threads
    Documents, Sources,
    Prd,             \* the source of read_artifact
    MaxTurns,        \* MAX_PRODUCT_MANAGER_TOOL_TURNS, MAX_ARCHITECT_TOOL_TURNS
    MaxInspections,  \* MAX_ARCHITECT_INSPECTIONS
    AttemptBound     \* executions of the task

None == "none"
Partial == "partial"  \* sections that are no complete design

ASSUME AuthoringAssumption ==
    /\ Roles \subseteq {"architect", "product_manager"}
    /\ {None, Partial} \cap Documents = {} /\ Prd \in Sources /\ IsFiniteSet(Callers)
    /\ MaxTurns \in Nat /\ MaxInspections \in Nat /\ AttemptBound \in Nat

VARIABLES
    role, task,
    attempts, status, live,  \* the task's executions, the latest one's status, its lease
    checkpoint,              \* draft of the latest execution
    caller,
    calls,                   \* requests sent to the provider, all attempts together
    submitted,               \* documents the model handed to the submitting tool
    published

vars == <<role, task, attempts, status, live, checkpoint, caller, calls, submitted, published>>
execution == <<task, attempts, status, live>>
outcome == <<calls, submitted, published>>

\* progress of run_bounded_tool_loop with the state of the tools: `answered` are the
\* sources whose answer the history holds.
NoProgress == [turns |-> 0, known |-> {}, answered |-> {}, draft |-> None, output |-> None]
NoResult == [loop |-> NoProgress, result |-> None]
Idle == [at |-> "idle", recovery |-> 0, fresh |-> FALSE, id |-> 0, loop |-> NoProgress]

Architect == role = "architect"
At(c, where) == caller[c].at \in where
Goto(c, where) == caller' = [caller EXCEPT ![c].at = where]
Leave(c) == caller' = [caller EXCEPT ![c] = Idle]

\* require_execution and the WHERE clause of save_execution_draft.
Owns(c) == caller[c].id = attempts /\ status = "running" /\ live

\* Every exception ends the attempt of its own caller, and nobody else's.
Raise(c) ==
    /\ IF caller[c].id = attempts /\ status = "running"
       THEN status' = "failed" /\ live' = FALSE
       ELSE UNCHANGED <<status, live>>
    /\ Leave(c)
    /\ UNCHANGED <<role, task, attempts, checkpoint>>

Init ==
    /\ role \in Roles
    /\ task = "pending"
    /\ attempts = 0 /\ status = None /\ live = FALSE
    /\ checkpoint = NoResult
    /\ caller = [c \in Callers |-> Idle]
    /\ calls = 0 /\ submitted = {} /\ published = None

-----------------------------------------------------------------------------
(* Claim the task, start an attempt, take up its progress *)

\* ensure_plan reads the task; the caller brings the execution it recovers.
See(c) ==
    /\ At(c, {"idle"}) /\ task # "succeeded" /\ attempts < AttemptBound
    /\ caller' = [caller EXCEPT ![c] = [Idle EXCEPT !.at = "claim", !.recovery = attempts,
                                                    !.fresh = (task = "pending")]]
    /\ UNCHANGED <<role, execution, checkpoint, outcome>>

\* A Product Manager that saw the task running does not claim it.
Skips(c) == ~Architect /\ ~caller[c].fresh

\* The Product Manager claims a pending task only, the Architect a running one too.
Claim(c) ==
    /\ At(c, {"claim"})
    /\ \/ Skips(c) /\ Goto(c, "start") /\ UNCHANGED task
       \/ ~Skips(c) /\ task = "pending" /\ task' = "running" /\ Goto(c, "start")
       \/ Architect /\ task = "running" /\ Goto(c, "start") /\ UNCHANGED task
       \/ ~Skips(c) /\ (task = "succeeded" \/ (~Architect /\ task = "running"))
          /\ Leave(c) /\ UNCHANGED task
    /\ UNCHANGED <<role, attempts, status, live, checkpoint, outcome>>

\* Where an attempt goes on: a saved document is not asked for again.
AfterLoop == IF Architect THEN "publish" ELSE "save"
Onward(loop) == IF loop.output = None THEN "loop" ELSE AfterLoop

\* A saved result stands for the conversation it came from.
Resumed(draft) ==
    IF draft.result = None THEN draft.loop ELSE [NoProgress EXCEPT !.output = draft.result]

\* start_execution; the loop's checkpoint is the predecessor's draft.
Start(c) ==
    /\ At(c, {"start"})
    /\ task = "running" /\ attempts < AttemptBound
    /\ caller[c].recovery = attempts /\ ~(status = "running" /\ live)
    /\ attempts' = attempts + 1 /\ status' = "running" /\ live' = TRUE
    /\ LET loop == Resumed(checkpoint)
       IN  caller' = [caller EXCEPT ![c].id = attempts + 1, ![c].loop = loop, ![c].at = Onward(loop)]
    /\ UNCHANGED <<role, task, checkpoint, outcome>>

RefuseStart(c) ==
    /\ At(c, {"start"})
    /\ task # "running" \/ caller[c].recovery # attempts \/ (status = "running" /\ live)
    /\ Leave(c)
    /\ UNCHANGED <<role, execution, checkpoint, outcome>>

-----------------------------------------------------------------------------
(* One turn: reserve it, call the model, run its tools, save the exchange *)

SaveLoop(loop) == checkpoint' = [loop |-> loop, result |-> None]

\* Slip: the turn is counted in memory and saved with its exchange.
ReserveInMemory(c) ==
    /\ At(c, {"loop"}) /\ caller[c].loop.turns < MaxTurns /\ Owns(c)
    /\ caller' = [caller EXCEPT ![c].at = "call", ![c].loop.turns = @ + 1]
    /\ UNCHANGED <<role, execution, checkpoint, outcome>>

\* Paid work is saved as spent before the provider is called.
Reserve(c) ==
    /\ At(c, {"loop"}) /\ caller[c].loop.turns < MaxTurns /\ Owns(c)
    /\ LET loop == [caller[c].loop EXCEPT !.turns = @ + 1]
       IN  /\ caller' = [caller EXCEPT ![c].at = "call", ![c].loop = loop]
           /\ SaveLoop(loop)
    /\ UNCHANGED <<role, execution, outcome>>

\* The spent turns travel with the draft: once they are used up, they stay so.
Exhaust(c) ==
    /\ At(c, {"loop"}) /\ caller[c].loop.turns = MaxTurns
    /\ Raise(c) /\ UNCHANGED outcome

\* A response with tools; one that breaks the protocol, which is noted in the history;
\* one without tools, with a tool of another role, or a provider error.
Call(c) ==
    /\ At(c, {"call"})
    /\ calls' = calls + 1
    /\ \/ Goto(c, "acting") /\ UNCHANGED <<role, execution, checkpoint>>
       \/ Goto(c, "saving") /\ UNCHANGED <<role, execution, checkpoint>>
       \/ Raise(c)
    /\ UNCHANGED <<submitted, published>>

\* Slip: the progress shown to the user is saved together with the state of the tools.
RecordWithState(c, loop) ==
    IF Architect THEN Owns(c) /\ SaveLoop([checkpoint.loop EXCEPT !.known = loop.known])
    ELSE UNCHANGED checkpoint

\* record_architect_activity: what the user is shown of a tool's result is saved under
\* the fence; the loop saved in the draft is left as it is.  The Product Manager has none.
Record(c, loop) == (Architect => Owns(c)) /\ UNCHANGED checkpoint

\* A tool has changed the state of the tools to loop; then the turn goes on at where.
Act(c, loop, where) ==
    /\ Record(c, loop)
    /\ caller' = [caller EXCEPT ![c].loop = loop, ![c].at = where]
    /\ UNCHANGED <<role, execution, calls, published>>

\* _reserve_inspection: a reading is reserved before it is made and stays so when it
\* fails; a repeated reading or one too many is answered by a signal.
Reserved(loop, s) ==
    IF s \in loop.known \/ Cardinality(loop.known) >= MaxInspections
    THEN loop ELSE [loop EXCEPT !.known = @ \union {s}]

\* A batch of readings, one after the other.
Inspect(c, s) ==
    /\ Architect /\ At(c, {"acting", "reading"})
    /\ Act(c, Reserved(caller[c].loop, s), "reading")
    /\ UNCHANGED submitted

\* enhanced_search: the pages it returned may be opened from now on.
Search(c, found) ==
    /\ ~Architect /\ At(c, {"acting"})
    /\ Act(c, [caller[c].loop EXCEPT !.known = @ \union found], "saving")
    /\ UNCHANGED submitted

\* Any tool that changes nothing: reading the draft or the product context, opening a
\* page, and every call that is refused.
Look(c) ==
    /\ At(c, {"acting"})
    /\ Act(c, caller[c].loop, "saving")
    /\ UNCHANGED submitted

\* editor_write, edit_prd.
Edit(c, d) ==
    /\ At(c, {"acting"})
    /\ Act(c, [caller[c].loop EXCEPT !.draft = d], "saving")
    /\ UNCHANGED submitted

\* editor_patch replaces or extends sections of the draft.
Patch(c) ==
    /\ Architect /\ At(c, {"acting"})
    /\ \E d \in Documents \union {Partial} : Act(c, [caller[c].loop EXCEPT !.draft = d], "saving")
    /\ UNCHANGED submitted

\* write_system_design, write_prd: a whole document, or the saved draft of a design.
\* The Architect must have been given the PRD.
MaySubmit(c, d) == d \in Documents /\ (Architect => Prd \in caller[c].loop.known)

Submit(c, d) ==
    /\ At(c, {"acting"}) /\ MaySubmit(c, d)
    /\ Act(c, [caller[c].loop EXCEPT !.draft = d, !.output = d], "saving")
    /\ submitted' = submitted \union {d}

\* Slip: the exchange is saved before the document is put into the progress.
SaveTurnFirst(c) ==
    /\ At(c, {"reading", "saving"}) /\ Owns(c)
    /\ LET loop == [caller[c].loop EXCEPT !.answered = caller[c].loop.known]
       IN  /\ caller' = [caller EXCEPT ![c].loop = loop, ![c].at = Onward(loop)]
           /\ SaveLoop([loop EXCEPT !.output = None])
    /\ UNCHANGED <<role, execution, outcome>>

\* The exchange, the state of the tools and the document are saved together.
SaveTurn(c) ==
    /\ At(c, {"reading", "saving"}) /\ Owns(c)
    /\ LET loop == [caller[c].loop EXCEPT !.answered = caller[c].loop.known]
       IN  /\ caller' = [caller EXCEPT ![c].loop = loop, ![c].at = Onward(loop)]
           /\ SaveLoop(loop)
    /\ UNCHANGED <<role, execution, outcome>>

\* Any save or record under the fence, after the fence has fallen.
Stale(c) ==
    /\ At(c, {"loop", "reading", "saving", "save"}) \/ (Architect /\ At(c, {"acting"}))
    /\ ~Owns(c)
    /\ Raise(c) /\ UNCHANGED outcome

-----------------------------------------------------------------------------
(* Publication *)

\* generate_app_spec of the workflow: the result replaces the conversation.
SaveResult(c) ==
    /\ At(c, {"save"}) /\ Owns(c)
    /\ checkpoint' = [loop |-> NoProgress, result |-> caller[c].loop.output]
    /\ Goto(c, "publish")
    /\ UNCHANGED <<role, execution, outcome>>

\* complete_task_app_spec, complete_architect_task.
Publish(c) ==
    /\ At(c, {"publish"}) /\ published = None /\ Owns(c)
    /\ published' = caller[c].loop.output
    /\ task' = "succeeded" /\ status' = "succeeded" /\ live' = FALSE
    /\ Leave(c)
    /\ UNCHANGED <<role, attempts, checkpoint, calls, submitted>>

\* The same design again is answered with the item; anything else is a conflict.  An
\* attempt of the Product Manager publishes once and must be the latest.
Replay(c) ==
    /\ At(c, {"publish"}) /\ Architect /\ published = caller[c].loop.output
    /\ Leave(c)
    /\ UNCHANGED <<role, execution, checkpoint, outcome>>

RefusePublish(c) ==
    /\ At(c, {"publish"})
    /\ ~Owns(c) /\ ~(Architect /\ published = caller[c].loop.output)
    /\ Raise(c) /\ UNCHANGED outcome

-----------------------------------------------------------------------------
(* Faults *)

\* The process dies; its attempt keeps the slot until the lease is over.
Crash(c) ==
    /\ ~At(c, {"idle"})
    /\ Leave(c)
    /\ UNCHANGED <<role, execution, checkpoint, outcome>>

LeaseLapses ==
    /\ live /\ live' = FALSE
    /\ UNCHANGED <<role, task, attempts, status, checkpoint, caller, outcome>>

Next ==
    \/ \E c \in Callers :
          \/ See(c) \/ Claim(c) \/ Start(c) \/ RefuseStart(c)
          \/ Reserve(c) \/ Exhaust(c) \/ Call(c) \/ Look(c) \/ Patch(c)
          \/ \E s \in Sources : Inspect(c, s)
          \/ \E found \in SUBSET Sources : Search(c, found)
          \/ \E d \in Documents : Edit(c, d) \/ Submit(c, d)
          \/ SaveTurn(c) \/ Stale(c)
          \/ SaveResult(c) \/ Publish(c) \/ Replay(c) \/ RefusePublish(c)
          \/ Crash(c)
    \/ LeaseLapses

Spec == Init /\ [][Next]_vars

-----------------------------------------------------------------------------
\* The draft of the task tells the truth about the conversation whoever died on the way:
\* it counts every request the provider was sent, and it marks no source as known whose
\* answer is not in the history the next attempt takes up (run_bounded_tool_loop,
\* record_architect_activity, _reserve_inspection).
CheckpointIsTrue ==
    checkpoint.result = None =>
        /\ calls <= checkpoint.loop.turns
        /\ checkpoint.loop.known \subseteq checkpoint.loop.answered

\* What a caller is about to publish, and what is published, was submitted by the model
\* and is the document that every later attempt takes up: no two attempts have different
\* documents, so that "already registered another result" is never raised.
Saved == IF checkpoint.result = None THEN checkpoint.loop.output ELSE checkpoint.result

OneDocument ==
    /\ \A c \in Callers : At(c, {"save", "publish"}) => caller[c].loop.output = Saved
    /\ published # None => published = Saved /\ published \in submitted
=============================================================================
