------------------------------- MODULE Preview -------------------------------
(***************************************************************************)
(* Local preview sessions (services/preview.py, runtime/preview.py): the   *)
(* table of sessions, a boot thread per session that takes two ports, a    *)
(* container and a proxy, the requests and the sweeper that stop a session *)
(* meanwhile, and the set of reserved ports they share.                    *)
(*                                                                         *)
(* A step is what happens under one lock, or one call of the container     *)
(* runtime or of the network.  The runtime starts a client and not a       *)
(* container: that comes later, or never, and removing it may fail.  A     *)
(* session is numbered when it is created; its container and its proxy are *)
(* named after it.  Everything is in the memory of one process.  A project *)
(* has one run.                                                            *)
(***************************************************************************)
EXTENDS Naturals, FiniteSets

CONSTANTS
    Projects,
    Hashes, First,  \* versions of the source of an application, from 1, and the first previewed
    PortCount,      \* ports of the configured range and of the system's fallback
    SessionBound,   \* sessions created
    PublishBound,   \* revisions published while previews run
    FailureBound    \* containers that exit, checks that time out, starts and stops that fail

Ports == 1..PortCount
Sessions == 1..SessionBound
None == 0

ASSUME PreviewAssumption ==
    /\ First \in Hashes /\ Hashes \subseteq Nat \ {None} /\ PortCount \in Nat /\ SessionBound \in Nat /\ PublishBound \in Nat
    /\ FailureBound \in Nat

VARIABLES
    session,    \* the _PreviewSession objects, by number
    boot,       \* the boot thread of each session and its local variables
    stop,       \* what a stop took from a session and has not freed yet
    table,      \* _sessions: the session of each project
    holder,     \* _sessions_lock: the start that replaces a session under it
    request,    \* the revision that start has read
    reserved,   \* _reserved_ports
    client,     \* docker clients whose container has not come, by session: its source
    container,  \* the running containers: the session and the source each was started for
    proxy,      \* the proxies that serve: the session that bound each port
    deaf,       \* ports bound by the socket of a proxy that was shut down
    source,     \* the revision to preview, per project
    seen,       \* the revisions a request may have read, per project: this one and older ones
    published, failures,
    asked,      \* sessions whose container the runtime was told to remove (history)
    lost        \* ports that a failure left reserved for ever (history)

docker == <<client, container, asked>>
net == <<proxy, deaf>>
world == <<source, seen, published>>
reservations == <<reserved, lost>>
vars == <<session, boot, stop, table, holder, request, reservations, docker, net, world,
          failures>>

-----------------------------------------------------------------------------
Unborn == [project |-> None, hash |-> None, pinned |-> FALSE, status |-> "unborn", handle |-> None,
           runtimePort |-> None, previewPort |-> None, proxy |-> FALSE, stopped |-> FALSE]

NoThread == [at |-> "none", runtime |-> None, preview |-> None, handle |-> None,
             server |-> FALSE, ports |-> {}]
Nothing == [at |-> "none", server |-> FALSE, handle |-> None, ports |-> {}]

Born == {s \in Sessions : session[s].status # "unborn"}
NextNumber(s) == \A t \in Sessions : t < s <=> t \in Born
Bound == {p \in Ports : proxy[p] # None} \union deaf \union {boot[s].runtime : s \in DOMAIN container}
Given(some) == some \ {None}
With(f, s, value) == [t \in DOMAIN f \union {s} |-> IF t = s THEN value ELSE f[t]]
Without(f, s) == [t \in DOMAIN f \ {s} |-> f[t]]
FirstRevision == [hash |-> First, pinned |-> FALSE]
\* Slip: the status reports what the request asked for.
HashAsRequested(s) == session[s].hash
\* source_hash as the status reports it.
HashOf(s) == IF session[s].handle # None THEN session[s].handle ELSE session[s].hash

Init ==
    /\ session = [s \in Sessions |-> Unborn]
    /\ boot = [s \in Sessions |-> NoThread]
    /\ stop = [s \in Sessions |-> Nothing]
    /\ table = [p \in Projects |-> None]
    /\ holder = None /\ request = FirstRevision
    /\ reserved = {} /\ lost = {}
    /\ client = <<>> /\ container = <<>> /\ asked = {}
    /\ proxy = [p \in Ports |-> None] /\ deaf = {}
    /\ source = [p \in Projects |-> FirstRevision] /\ seen = [p \in Projects |-> {FirstRevision}]
    /\ published = 0 /\ failures = 0

\* A revision, whose snapshot a session pins.  Before the first one, as Init has it,
\* the container takes whatever the workspace holds when it starts.
Publish(p) ==
    /\ published < PublishBound
    /\ \E h \in Hashes \ {source[p].hash} : LET revision == [hash |-> h, pinned |-> TRUE]
                                           IN /\ source' = [source EXCEPT ![p] = revision]
                                              /\ seen' = [seen EXCEPT ![p] = @ \union {revision}]
    /\ published' = published + 1
    /\ UNCHANGED <<session, boot, stop, table, holder, request, reservations, docker, net, failures>>

-----------------------------------------------------------------------------
(* _stop_session_locked: take everything under the session's lock, then free *)
(* the proxy, the container and the ports.                                   *)

\* Ports of a boot that has no container yet stay with its thread.
WorkerOwnsPorts(s) == session[s].status = "starting" /\ session[s].handle = None

Taken(s) ==
    [at |-> "running", server |-> session[s].proxy, handle |-> session[s].handle,
     ports |-> IF WorkerOwnsPorts(s) THEN {}
               ELSE Given({session[s].runtimePort, session[s].previewPort})]

Stopped(s) ==
    [session[s] EXCEPT !.proxy = FALSE, !.handle = None, !.stopped = TRUE, !.status = "idle",
        !.runtimePort = IF WorkerOwnsPorts(s) THEN @ ELSE None,
        !.previewPort = IF WorkerOwnsPorts(s) THEN @ ELSE None]

Take(s) ==
    /\ session' = [session EXCEPT ![s] = Stopped(s)]
    /\ stop' = [stop EXCEPT ![s] = Taken(s)]

Removed(s) == Without(container, s)
CanFail == failures < FailureBound
Failed == CanFail /\ failures' = failures + 1

\* server.shutdown: nobody serves the port, whose socket is closed with the last reference.
Shutdown(s) ==
    /\ proxy' = [p \in Ports |-> IF proxy[p] = s THEN None ELSE proxy[p]]
    /\ deaf' = deaf \union {p \in Ports : proxy[p] = s}
SocketCloses(p) ==
    /\ p \in deaf /\ deaf' = deaf \ {p}
    /\ UNCHANGED <<session, boot, stop, table, holder, request, reservations, docker, proxy, world, failures>>

\* runtime.stop removes the container that is there, if a daemon answers in time...
Remove(s) ==
    /\ asked' = asked \union {s}
    /\ \/ container' = Removed(s) /\ UNCHANGED failures
       \/ container' = container /\ Failed
\* ... and raises, whatever it removed, if its client outlives being killed.
RemoveRaises(s) ==
    /\ asked' = asked \union {s}
    /\ container' \in {Removed(s), container} /\ Failed

\* The proxy first, then the container; a failure of either is swallowed.
StopRunning(s) ==
    /\ stop[s].at = "running"
    /\ IF stop[s].server THEN Shutdown(s) ELSE UNCHANGED net
    /\ IF stop[s].handle # None THEN Remove(s) ELSE UNCHANGED <<container, asked, failures>>
    /\ stop' = [stop EXCEPT ![s].at = "ports"]
    /\ UNCHANGED <<session, boot, table, holder, request, reservations, client, world>>

ReleasePorts(s) ==
    /\ stop[s].at = "ports"
    /\ reserved' = reserved \ stop[s].ports
    /\ stop' = [stop EXCEPT ![s] = Nothing]
    /\ UNCHANGED <<session, boot, table, holder, request, lost, docker, net, world, failures>>

-----------------------------------------------------------------------------
(* The requests and the sweeper                                              *)
Free == holder = None

\* A session for a revision; a thread boots it.
Created(s, p, revision) ==
    /\ NextNumber(s)
    /\ session' = [session EXCEPT ![s] = [Unborn EXCEPT
          !.project = p, !.hash = revision.hash, !.pinned = revision.pinned, !.status = "starting"]]
    /\ boot' = [boot EXCEPT ![s].at = "begin"]
    /\ table' = [table EXCEPT ![p] = s]
    /\ UNCHANGED <<stop, reservations, docker, net, world, failures>>

Reusable(s, revision) == session[s].status \in {"starting", "ready"} /\ HashOf(s) = revision.hash

\* start_preview without a session.  The revision was read before the lock was taken.
Start(s, p) ==
    /\ Free /\ table[p] = None
    /\ \E revision \in seen[p] : Created(s, p, revision)
    /\ UNCHANGED <<holder, request>>

\* start_preview over a session of another source: it is stopped under the lock,
\* and replaced when the stop is done.
StartOver(p) ==
    /\ Free /\ table[p] # None /\ Born # Sessions
    /\ \E revision \in seen[p] : ~Reusable(table[p], revision) /\ request' = revision
    /\ holder' = table[p]
    /\ Take(table[p])
    /\ UNCHANGED <<boot, table, reservations, docker, net, world, failures>>

Replace(s) ==
    /\ ~Free /\ stop[holder].at = "none"
    /\ Created(s, session[holder].project, request)
    /\ holder' = None /\ request' = FirstRevision

\* The owner's stop, or that of the sweeper: it lists idle projects under the lock
\* and stops them by number later, whatever session the table then holds.
StopPreview(p) ==
    /\ Free /\ table[p] # None
    /\ table' = [table EXCEPT ![p] = None]
    /\ Take(table[p])
    /\ UNCHANGED <<boot, holder, request, reservations, docker, net, world, failures>>

-----------------------------------------------------------------------------
(* _boot_session                                                             *)
Quiet == <<table, holder, request, world>>
Go(s, at) == boot' = [boot EXCEPT ![s].at = at]
Fails(s) == Failed /\ Go(s, "except")

\* _allocate_port finds the first port that binds and reserves it; another thread
\* may find the same port before that.
Available == Ports \ (reserved \union Bound)
Least(some) == CHOOSE p \in some : \A q \in some : p <= q

FindRuntimePort(s) ==
    /\ boot[s].at = "begin"
    /\ session' = [session EXCEPT ![s].status = "starting"]
    /\ IF Available = {} THEN Go(s, "except")
       ELSE boot' = [boot EXCEPT ![s].at = "reserve", ![s].runtime = Least(Available)]
    /\ UNCHANGED <<stop, reservations, docker, net, failures, Quiet>>

\* Without a second port the handler does not know of the first.
FindPreviewPort(s) ==
    /\ boot[s].at = "reserve"
    /\ reserved' = reserved \union {boot[s].runtime}
    /\ LET free == Available \ {boot[s].runtime}
       IN IF free = {} THEN Go(s, "except") /\ lost' = lost \union {boot[s].runtime}
          ELSE /\ boot' = [boot EXCEPT ![s].at = "record", ![s].preview = Least(free)]
               /\ UNCHANGED lost
    /\ UNCHANGED <<session, stop, docker, net, failures, Quiet>>

RecordPorts(s) ==
    /\ boot[s].at = "record"
    /\ IF session[s].stopped
       THEN /\ reserved' = reserved \ {boot[s].runtime, boot[s].preview}
            /\ Go(s, "none")
            /\ UNCHANGED session
       ELSE /\ reserved' = reserved \union {boot[s].preview}
            /\ session' = [session EXCEPT ![s].runtimePort = boot[s].runtime,
                                          ![s].previewPort = boot[s].preview]
            /\ Go(s, "run")
    /\ UNCHANGED <<stop, lost, docker, net, failures, Quiet>>

\* The version the container is given: the pinned snapshot or the workspace as it is.
HashToRun(s) == IF session[s].pinned THEN session[s].hash ELSE source[session[s].project].hash

\* runtime.start returns once the docker client runs, and raises when that has ended
\* already, as it does when the port is in use, or when the daemon fails.
RunContainer(s) ==
    /\ boot[s].at = "run"
    /\ \/ /\ boot' = [boot EXCEPT ![s].at = "handle", ![s].handle = HashToRun(s)]
          /\ client' = With(client, s, HashToRun(s))
          /\ UNCHANGED failures
       \/ boot[s].runtime \in Bound /\ Go(s, "except") /\ UNCHANGED <<client, failures>>
       \/ Fails(s) /\ UNCHANGED client
    /\ UNCHANGED <<session, stop, reservations, container, asked, net, Quiet>>

\* The container comes, whoever has stopped the session meanwhile, or the client ends
\* without it: it was killed, the daemon failed, or the port is in use.
ContainerComes(s) ==
    /\ s \in DOMAIN client
    /\ client' = Without(client, s)
    /\ \/ boot[s].runtime \notin Bound /\ container' = With(container, s, client[s])
       \/ UNCHANGED container
    /\ UNCHANGED <<session, boot, stop, reservations, asked, net, failures, Quiet>>

\* A session that was stopped meanwhile is ended here.
RecordHandle(s) ==
    /\ boot[s].at = "handle"
    /\ IF session[s].stopped
       THEN /\ session' = [session EXCEPT ![s].handle = None, ![s].runtimePort = None,
                                          ![s].previewPort = None]
            /\ \/ /\ Remove(s) /\ Go(s, "none")
                  /\ reserved' = reserved \ {boot[s].runtime, boot[s].preview}
                  /\ UNCHANGED lost
               \/ /\ RemoveRaises(s) /\ Go(s, "except")
                  /\ lost' = lost \union {boot[s].runtime, boot[s].preview}
                  /\ UNCHANGED reserved
       ELSE /\ session' = [session EXCEPT ![s].handle = boot[s].handle]
            /\ Go(s, "wait")
            /\ UNCHANGED <<container, asked, reservations, failures>>
    /\ UNCHANGED <<stop, client, net, Quiet>>

\* Whatever container listens on the port answers, also through a proxy.
Answers(port) == \E t \in DOMAIN container : boot[t].runtime = port
MayAnswer(port) == Answers(port) \/ (port \in Ports /\ proxy[port] # None)

WaitForContainer(s) ==
    /\ boot[s].at = "wait"
    /\ \/ MayAnswer(boot[s].runtime) /\ Go(s, "proxy") /\ UNCHANGED failures
       \/ ~Answers(boot[s].runtime) /\ Go(s, "except") /\ UNCHANGED failures
       \/ Fails(s)
    /\ UNCHANGED <<session, stop, reservations, docker, net, Quiet>>

StartProxy(s) ==
    /\ boot[s].at = "proxy"
    /\ IF boot[s].preview \in Bound
       THEN Go(s, "except") /\ UNCHANGED proxy
       ELSE proxy' = [proxy EXCEPT ![boot[s].preview] = s] /\ Go(s, "note")
    /\ UNCHANGED <<session, stop, reservations, docker, deaf, failures, Quiet>>

NoteProxy(s) ==
    /\ boot[s].at = "note"
    /\ session' = [session EXCEPT ![s].proxy = TRUE]
    /\ Go(s, "page")
    /\ UNCHANGED <<stop, reservations, docker, net, failures, Quiet>>

WaitForPage(s) ==
    /\ boot[s].at = "page"
    /\ LET listens == proxy[boot[s].preview] # None
       IN \/ listens /\ MayAnswer(boot[s].runtime) /\ Go(s, "final") /\ UNCHANGED failures
          \/ ~(listens /\ Answers(boot[s].runtime)) /\ Go(s, "except") /\ UNCHANGED failures
          \/ Fails(s)
    /\ UNCHANGED <<session, stop, reservations, docker, net, Quiet>>

\* Slip: the page answered, so the session is ready, whoever stopped it.
MakeReadyAnyway(s) ==
    /\ boot[s].at = "final"
    /\ session' = [session EXCEPT ![s].status = "ready"]
    /\ Go(s, "none")
    /\ UNCHANGED <<stop, reservations, docker, net, failures, Quiet>>
\* A daemon that does not answer says that nothing runs.
MakeReady(s) ==
    /\ boot[s].at = "final"
    /\ \/ /\ ~session[s].stopped /\ s \in DOMAIN container
          /\ session' = [session EXCEPT ![s].status = "ready"]
          /\ Go(s, "none") /\ UNCHANGED failures
       \/ /\ session[s].stopped \/ s \notin DOMAIN container
          /\ Go(s, "except") /\ UNCHANGED <<session, failures>>
       \/ Fails(s) /\ UNCHANGED session
    /\ UNCHANGED <<stop, reservations, docker, net, Quiet>>

\* The handler takes what the session still holds under its lock, then frees it.
TakeBack(s) ==
    /\ boot[s].at = "except"
    /\ boot' = [boot EXCEPT ![s].at = "running",
                            ![s].handle = session[s].handle, ![s].server = session[s].proxy,
                            ![s].ports = Given({session[s].runtimePort, session[s].previewPort})]
    /\ session' = [session EXCEPT ![s].handle = None, ![s].proxy = FALSE,
          ![s].runtimePort = None, ![s].previewPort = None,
          ![s].status = IF session[s].stopped THEN "idle" ELSE "error"]
    /\ UNCHANGED <<stop, reservations, docker, net, failures, Quiet>>

\* An error of the removal ends the thread before it frees the ports.
CleanUp(s) ==
    /\ \/ /\ boot[s].at = "running"
          /\ IF boot[s].server THEN Shutdown(s) ELSE UNCHANGED net
          /\ \/ boot[s].handle = None /\ Go(s, "ports") /\ UNCHANGED <<container, asked, lost, failures>>
             \/ boot[s].handle # None /\ Remove(s) /\ Go(s, "ports") /\ UNCHANGED lost
             \/ /\ boot[s].handle # None /\ RemoveRaises(s) /\ Go(s, "none")
                /\ lost' = lost \union boot[s].ports
          /\ UNCHANGED reserved
       \/ /\ boot[s].at = "ports"
          /\ reserved' = reserved \ boot[s].ports
          /\ Go(s, "none")
          /\ UNCHANGED <<net, container, asked, lost, failures>>
    /\ UNCHANGED <<session, stop, client, Quiet>>

Boot(s) ==
    \/ FindRuntimePort(s) \/ FindPreviewPort(s) \/ RecordPorts(s)
    \/ RunContainer(s) \/ RecordHandle(s) \/ WaitForContainer(s)
    \/ StartProxy(s) \/ NoteProxy(s) \/ WaitForPage(s) \/ MakeReady(s)
    \/ TakeBack(s) \/ CleanUp(s)

Stop(s) == StopRunning(s) \/ ReleasePorts(s)

\* The generated application exits.
ContainerExits(s) ==
    /\ s \in DOMAIN container /\ Failed
    /\ container' = Removed(s)
    /\ UNCHANGED <<session, boot, stop, reservations, client, asked, net, Quiet>>

Next ==
    \/ \E p \in Projects : Publish(p) \/ StartOver(p) \/ StopPreview(p)
    \/ \E s \in Sessions, p \in Projects : Start(s, p)
    \/ \E s \in Sessions : Replace(s) \/ Boot(s) \/ Stop(s) \/ ContainerComes(s) \/ ContainerExits(s)
    \/ \E p \in Ports : SocketCloses(p)

Spec == Init /\ [][Next]_vars

-----------------------------------------------------------------------------
InTable(s) == \E p \in Projects : table[p] = s
Working(s) == boot[s].at # "none" \/ stop[s].at # "none"

\* Nothing is forgotten: a docker client, a container or a proxy belongs to a session in the
\* table or to a boot or a stop that will still free it, or the runtime has been told to
\* remove that container (too early, or in vain: nobody tells it again); and a reserved port
\* has somebody who will give it back, unless the boot found no second one or the runtime
\* raised (_boot_session and _stop_session_locked hand all this to each other).
NothingForgotten ==
    /\ \A s \in DOMAIN client \union DOMAIN container :
          Working(s) \/ (InTable(s) /\ session[s].handle # None) \/ s \in asked
    /\ \A p \in Ports : proxy[p] # None =>
          \/ Working(proxy[p])
          \/ InTable(proxy[p]) /\ session[proxy[p]].proxy
    /\ \A p \in reserved \ lost : \E s \in Born :
          \/ p \in {session[s].runtimePort, session[s].previewPort} /\ (InTable(s) \/ Working(s))
          \/ p = boot[s].runtime /\ boot[s].at = "record"
          \/ p \in boot[s].ports /\ boot[s].at \in {"running", "ports"}
          \/ p \in stop[s].ports

\* A preview that is shown as ready is whole: it belongs to the project, its own
\* proxy listens on the port of its url, and while its container lives that is what
\* answers, with the source the status reports (_boot_session, HashOf).
ReadyIsWhole ==
    \A p \in Projects :
       LET s == table[p]
       IN s # None /\ holder # s /\ session[s].status = "ready" =>
          /\ session[s].project = p /\ ~session[s].stopped
          /\ proxy[boot[s].preview] = s
          /\ s \in DOMAIN container =>
                /\ HashOf(s) = container[s]
                /\ \A t \in DOMAIN container \ {s} : boot[t].runtime # boot[s].runtime
=============================================================================
