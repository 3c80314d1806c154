---------------------------- MODULE PreviewProofs ----------------------------
(***************************************************************************)
(* Proofs about Preview, for any projects, ports and number of sessions.   *)
(***************************************************************************)
EXTENDS Preview, NaturalsInduction, WellFoundedInduction, TLAPS

-----------------------------------------------------------------------------
(* The inductive invariant *)

Revision == [hash : Hashes, pinned : BOOLEAN]
Port == Ports \cup {None}
Hash == Hashes \cup {None}
SessionRow == [project : Projects \cup {None}, hash : Hash, pinned : BOOLEAN,
               status : {"unborn", "starting", "ready", "idle", "error"}, handle : Hash,
               runtimePort : Port, previewPort : Port, proxy : BOOLEAN, stopped : BOOLEAN]
Places == {"none", "begin", "reserve", "record", "run", "handle", "wait", "proxy", "note",
           "page", "final", "except", "running", "ports"}
Thread == [at : Places, runtime : Port, preview : Port, handle : Hash,
           server : BOOLEAN, ports : SUBSET Ports]
Stopping == [at : {"none", "running", "ports"}, server : BOOLEAN, handle : Hash,
             ports : SUBSET Ports]

PreviewTypeOK ==
    /\ session \in [Sessions -> SessionRow]
    /\ boot \in [Sessions -> Thread]
    /\ stop \in [Sessions -> Stopping]
    /\ table \in [Projects -> Sessions \cup {None}]
    /\ holder \in Sessions \cup {None}
    /\ reserved \subseteq Ports
    /\ DOMAIN container \subseteq Sessions /\ \A s \in DOMAIN container : container[s] \in Hashes
    /\ DOMAIN client \subseteq Sessions /\ \A s \in DOMAIN client : client[s] \in Hashes
    /\ proxy \in [Ports -> Sessions \cup {None}]
    /\ source \in [Projects -> Revision] /\ seen \in [Projects -> SUBSET Revision]
    /\ request \in Revision

\* The session has a container, or its client will still start one.
Runs(s) == s \in DOMAIN container \/ s \in DOMAIN client
Has(s, hash) ==
    /\ s \in DOMAIN container => container[s] = hash
    /\ s \in DOMAIN client => client[s] = hash
Listens(s) == \E p \in Ports : proxy[p] = s
Empty(row) == row.handle = None /\ ~row.proxy /\ row.runtimePort = None /\ row.previewPort = None

\* A session that does not exist yet has nothing.
Unused(s) ==
    session[s].status = "unborn" =>
       /\ session[s] = Unborn /\ boot[s] = NoThread /\ stop[s] = Nothing
       /\ ~Runs(s) /\ ~Listens(s) /\ s \notin asked
\* Until its handle is recorded the session has no container that a stop could take.
Early(s) ==
    /\ boot[s].at \in {"begin", "reserve", "record", "run", "handle"} =>
          session[s].handle = None /\ ~session[s].proxy /\ stop[s].handle = None /\ s \notin asked
    /\ boot[s].at \in {"begin", "reserve", "record"} =>
          session[s].runtimePort = None /\ session[s].previewPort = None
    /\ boot[s].at \in {"run", "handle"} =>
          {session[s].runtimePort, session[s].previewPort} \subseteq {boot[s].runtime, boot[s].preview, None}
    /\ boot[s].at = "handle" => boot[s].handle # None /\ Has(s, boot[s].handle)
    /\ boot[s].at \in {"reserve", "record", "run", "handle", "wait", "proxy", "note", "page", "final"} =>
          /\ boot[s].runtime \in Ports
          /\ boot[s].at = "reserve" \/ boot[s].preview \in Ports
    /\ boot[s].at \in {"wait", "proxy", "note", "page", "final"} /\ ~session[s].stopped =>
          session[s].handle # None
\* What is over holds nothing, and what was not stopped is where it says.
Late(s) ==
    /\ boot[s].at \in {"running", "ports"} => Empty(session[s]) /\ session[s].status \in {"idle", "error"}
    /\ boot[s].at = "none" /\ session[s].stopped => Empty(session[s])
    /\ boot[s].at \in {"none", "running", "ports"} /\ ~session[s].stopped =>
          session[s].status \in {"unborn", "ready", "error"}
    /\ ~session[s].stopped => stop[s] = Nothing
    /\ session[s].status = "ready" =>
          boot[s].at = "none" /\ ~session[s].stopped /\ session[s].handle # None
\* Who will free the container, and who the proxy.
ContainerOwned(s) ==
    Runs(s) => \/ boot[s].at = "handle" \/ session[s].handle # None \/ s \in asked
               \/ boot[s].at = "running" /\ boot[s].handle # None
               \/ stop[s].at = "running" /\ stop[s].handle # None
ProxyOwned(s) ==
    Listens(s) => \/ boot[s].at = "note" \/ session[s].proxy
                  \/ boot[s].at = "running" /\ boot[s].server
                  \/ stop[s].at = "running" /\ stop[s].server
\* What the page is shown.
Served(s) ==
    /\ session[s].handle # None => Has(s, session[s].handle)
    /\ (boot[s].at \in {"note", "page", "final"} \/ session[s].status = "ready")
       /\ ~session[s].stopped => boot[s].preview \in Ports /\ proxy[boot[s].preview] = s

Local(s) == Unused(s) /\ Early(s) /\ Late(s) /\ ContainerOwned(s) /\ ProxyOwned(s) /\ Served(s)

\* Who is in the table.
Tabled ==
    /\ \A s \in Sessions : session[s].status # "unborn" =>
          /\ session[s].project \in Projects /\ session[s].hash \in Hashes
          /\ ~session[s].stopped => table[session[s].project] = s
    /\ \A p \in Projects : table[p] # None =>
          /\ session[table[p]].status # "unborn" /\ session[table[p]].project = p
          /\ session[table[p]].stopped => holder = table[p]
    /\ holder # None => /\ session[holder].status # "unborn" /\ session[holder].stopped
                        /\ table[session[holder].project] = holder
\* One container per runtime port.
OnePerPort ==
    \A s, t \in DOMAIN container : boot[s].runtime = boot[t].runtime => s = t

PreviewInv ==
    PreviewTypeOK /\ (\A s \in Sessions : Local(s)) /\ Tabled /\ OnePerPort

\* Who will give a port back.
Keeps(s, p) ==
    \/ boot[s].at = "record" /\ p = boot[s].runtime
    \/ p \in {session[s].runtimePort, session[s].previewPort}
    \/ boot[s].at \in {"running", "ports"} /\ p \in boot[s].ports
    \/ p \in stop[s].ports
PortsOwned == \A p \in reserved \ lost : \E s \in Sessions : Keeps(s, p)

-----------------------------------------------------------------------------
(* Values *)

LEMMA Numbers ==
    /\ \A s \in Sessions : s # None /\ s \in Nat
    /\ \A p \in Ports : p # None /\ p \in Nat
    /\ \A h \in Hashes : h # None
BY PreviewAssumption DEF Sessions, Ports, None

\* The first of some ports is one of them.
LEMMA LeastIs ==
    ASSUME NEW ports \in SUBSET Ports, ports # {}
    PROVE  Least(ports) \in ports
<1>1. ports \subseteq Nat BY Numbers
<1>2. PICK p \in ports : \A q \in ports : ~(<<q, p>> \in OpToRel(<, Nat))
  BY <1>1, NatLessThanWellFounded, WFMin
<1>3. ASSUME NEW q \in ports PROVE p <= q
  <2>1. p \in Nat /\ q \in Nat BY <1>1
  <2>2. ~(q < p) BY <1>2, <2>1 DEF OpToRel
  <2> QED BY <2>1, <2>2
<1> QED BY <1>3 DEF Least

LEMMA Here ==
    ASSUME PreviewInv, NEW s \in Sessions
    PROVE  /\ session[s] \in SessionRow /\ boot[s] \in Thread /\ stop[s] \in Stopping
           /\ Local(s) /\ s # None
BY Numbers DEF PreviewInv, PreviewTypeOK

-----------------------------------------------------------------------------
(* A step of one session *)

ContainerStays(s) ==
    /\ DOMAIN container' \subseteq Sessions /\ \A t \in DOMAIN container' : container'[t] \in Hashes
    /\ DOMAIN client' \subseteq Sessions /\ \A t \in DOMAIN client' : client'[t] \in Hashes
    /\ \A t \in Sessions \ {s} :
          /\ t \in DOMAIN container' <=> t \in DOMAIN container
          /\ t \in DOMAIN container => container'[t] = container[t]
          /\ t \in DOMAIN client' <=> t \in DOMAIN client
          /\ t \in DOMAIN client => client'[t] = client[t]
          /\ t \in asked' <=> t \in asked
ProxyStays(s) ==
    /\ proxy' \in [Ports -> Sessions \cup {None}]
    /\ \A t \in Sessions \ {s}, p \in Ports : proxy'[p] = t <=> proxy[p] = t
\* What is left of the session's container is what it was.
SameImage(s) ==
    /\ s \in DOMAIN container' => s \in DOMAIN container /\ container'[s] = container[s]
    /\ s \in DOMAIN client' => s \in DOMAIN client /\ client'[s] = client[s]

LEMMA ContainerSame ==
    ASSUME PreviewInv, NEW s \in Sessions, container' = container, client' = client, asked' = asked
    PROVE  ContainerStays(s) /\ (Runs(s)' <=> Runs(s)) /\ SameImage(s) /\ (s \in asked' <=> s \in asked)
BY DEF PreviewInv, PreviewTypeOK, ContainerStays, Runs, SameImage
\* The runtime is told to remove a container, whatever comes of it.
LEMMA ContainerAsked ==
    ASSUME PreviewInv, NEW s \in Sessions, container' \in {Removed(s), container},
           client' = client, asked' = asked \union {s}
    PROVE  ContainerStays(s) /\ (Runs(s)' => Runs(s)) /\ SameImage(s) /\ s \in asked'
<1>t. /\ DOMAIN container \subseteq Sessions /\ \A t \in DOMAIN container : container[t] \in Hashes
      /\ DOMAIN client \subseteq Sessions /\ \A t \in DOMAIN client : client[t] \in Hashes
  BY DEF PreviewInv, PreviewTypeOK
<1>1. CASE container' = container BY <1>t, <1>1 DEF ContainerStays, Runs, SameImage
<1>2. CASE container' = Removed(s)
  <2>1. DOMAIN container' = DOMAIN container \ {s} /\ \A t \in DOMAIN container' : container'[t] = container[t]
    BY <1>2 DEF Removed, Without
  <2> QED BY <1>t, <2>1 DEF ContainerStays, Runs, SameImage
<1> QED BY <1>1, <1>2
\* A container that exits is not there any more.
LEMMA ContainerGone ==
    ASSUME PreviewInv, NEW s \in Sessions, container' = Removed(s), client' = client, asked' = asked
    PROVE  /\ ContainerStays(s) /\ (Runs(s)' => Runs(s)) /\ SameImage(s) /\ (s \in asked' <=> s \in asked)
           /\ s \notin DOMAIN container'
<1>1. /\ DOMAIN container \subseteq Sessions /\ \A t \in DOMAIN container : container[t] \in Hashes
      /\ DOMAIN client \subseteq Sessions /\ \A t \in DOMAIN client : client[t] \in Hashes
  BY DEF PreviewInv, PreviewTypeOK
<1>2. DOMAIN container' = DOMAIN container \ {s} /\ \A t \in DOMAIN container' : container'[t] = container[t]
  BY DEF Removed, Without
<1> QED BY <1>1, <1>2 DEF ContainerStays, Runs, SameImage
LEMMA RemoveAsks ==
    ASSUME NEW s, Remove(s) \/ RemoveRaises(s)
    PROVE  container' \in {Removed(s), container} /\ asked' = asked \union {s}
BY DEF Remove, RemoveRaises
LEMMA ProxySame ==
    ASSUME PreviewInv, NEW s \in Sessions, proxy' = proxy
    PROVE  ProxyStays(s) /\ (Listens(s)' <=> Listens(s))
BY DEF PreviewInv, PreviewTypeOK, ProxyStays, Listens
LEMMA ProxyGone ==
    ASSUME PreviewInv, NEW s \in Sessions, Shutdown(s)
    PROVE  ProxyStays(s) /\ ~Listens(s)'
<1>1. proxy \in [Ports -> Sessions \cup {None}] BY DEF PreviewInv, PreviewTypeOK
<1>2. s # None /\ \A t \in Sessions : t # None BY Numbers
<1>3. \A p \in Ports : proxy'[p] = IF proxy[p] = s THEN None ELSE proxy[p] BY DEF Shutdown
<1>4. proxy' \in [Ports -> Sessions \cup {None}] BY <1>1 DEF Shutdown
<1> QED BY <1>1, <1>2, <1>3, <1>4 DEF ProxyStays, Listens

\* What happens to one session is nothing to the others.
LEMMA LocalStays ==
    ASSUME NEW s \in Sessions, NEW t \in Sessions \ {s}, Local(t),
           session'[t] = session[t], boot'[t] = boot[t], stop'[t] = stop[t],
           ContainerStays(s), ProxyStays(s)
    PROVE  Local(t)'
<1>1. (Runs(t)' <=> Runs(t)) /\ SameImage(t) /\ (t \in asked' <=> t \in asked)
  BY DEF ContainerStays, Runs, SameImage
<1>2. (Listens(t)' <=> Listens(t)) /\ \A p \in Ports : proxy[p] = t => proxy'[p] = t
  BY DEF ProxyStays, Listens
<1>3. Unused(t)' BY <1>1, <1>2 DEF Local, Unused
<1>4. Early(t)' BY <1>1 DEF Local, Early, Has, SameImage
<1>5. Late(t)' BY DEF Local, Late
<1>6. ContainerOwned(t)' /\ ProxyOwned(t)' BY <1>1, <1>2 DEF Local, ContainerOwned, ProxyOwned
<1>7. Served(t)'
  <2>1. (boot[t].at \in {"note", "page", "final"} \/ session[t].status = "ready") /\ ~session[t].stopped
        => boot[t].preview \in Ports /\ proxy[boot[t].preview] = t
    BY DEF Local, Served, Has, SameImage
  <2>2. session[t].handle # None => Has(t, session[t].handle) BY DEF Local, Served, Has, SameImage
  <2> QED BY <2>1, <2>2, <1>1, <1>2 DEF Served, Has, SameImage
<1> QED BY <1>3, <1>4, <1>5, <1>6, <1>7 DEF Local

\* A step of one session, if the table stays what it should be.
LEMMA AnyStep ==
    ASSUME PreviewInv, NEW s \in Sessions,
           NEW row \in SessionRow, NEW thread \in Thread, NEW stopping \in Stopping,
           session' = [session EXCEPT ![s] = row], boot' = [boot EXCEPT ![s] = thread],
           stop' = [stop EXCEPT ![s] = stopping],
           source' = source, seen' = seen, request' \in Revision,
           table' \in [Projects -> Sessions \cup {None}], holder' \in Sessions \cup {None},
           reserved' \subseteq Ports, ContainerStays(s), ProxyStays(s),
           s \in DOMAIN container' => \A t \in DOMAIN container \ {s} : boot[t].runtime # thread.runtime,
           Local(s)', Tabled'
    PROVE  PreviewInv'
<1>t. PreviewTypeOK BY DEF PreviewInv
<1>0. /\ session'[s] = row /\ boot'[s] = thread
      /\ \A t \in Sessions \ {s} : session'[t] = session[t] /\ boot'[t] = boot[t] /\ stop'[t] = stop[t]
      /\ session' \in [Sessions -> SessionRow] /\ boot' \in [Sessions -> Thread]
      /\ stop' \in [Sessions -> Stopping]
  BY <1>t DEF PreviewTypeOK
<1>1. PreviewTypeOK' BY <1>t, <1>0 DEF PreviewTypeOK, ContainerStays, ProxyStays
<1>2. \A t \in Sessions : Local(t)'
  <2>1. ASSUME NEW t \in Sessions \ {s} PROVE Local(t)'
    <3>1. Local(t) BY DEF PreviewInv
    <3> QED BY <3>1, <1>0, LocalStays
  <2> QED BY <2>1
<1>4. OnePerPort'
  <2>1. OnePerPort /\ DOMAIN container' \subseteq Sessions BY DEF PreviewInv, ContainerStays
  <2>2. SUFFICES ASSUME NEW t \in DOMAIN container', NEW u \in DOMAIN container',
                        boot'[t].runtime = boot'[u].runtime, t # u
                 PROVE  FALSE
    BY DEF OnePerPort
  <2>3. CASE t # s /\ u # s
    <3>1. t \in DOMAIN container /\ u \in DOMAIN container BY <2>1, <2>3 DEF ContainerStays
    <3>2. boot'[t] = boot[t] /\ boot'[u] = boot[u] BY <1>0, <2>1, <2>3
    <3> QED BY <3>1, <3>2, <2>1, <2>2 DEF OnePerPort
  <2>4. CASE t = s
    <3>1. u \in DOMAIN container \ {s} /\ boot'[u] = boot[u] BY <2>1, <2>2, <2>4, <1>0 DEF ContainerStays
    <3> QED BY <3>1, <2>2, <2>4, <1>0
  <2>5. CASE u = s
    <3>1. t \in DOMAIN container \ {s} /\ boot'[t] = boot[t] BY <2>1, <2>2, <2>5, <1>0 DEF ContainerStays
    <3> QED BY <3>1, <2>2, <2>5, <1>0
  <2> QED BY <2>3, <2>4, <2>5
<1> QED BY <1>1, <1>2, <1>4 DEF PreviewInv

\* A step of a session's boot or stop leaves the table alone.
LEMMA SessionStep ==
    ASSUME PreviewInv, NEW s \in Sessions,
           NEW row \in SessionRow, NEW thread \in Thread, NEW stopping \in Stopping,
           session' = [session EXCEPT ![s] = row], boot' = [boot EXCEPT ![s] = thread],
           stop' = [stop EXCEPT ![s] = stopping],
           UNCHANGED <<table, holder, request, source, seen>>, reserved' \subseteq Ports,
           ContainerStays(s), ProxyStays(s),
           row.project = session[s].project, row.hash = session[s].hash,
           row.stopped = session[s].stopped,
           row.status = "unborn" <=> session[s].status = "unborn",
           s \in DOMAIN container' => \A t \in DOMAIN container \ {s} : boot[t].runtime # thread.runtime,
           Local(s)'
    PROVE  PreviewInv'
<1>t. PreviewTypeOK BY DEF PreviewInv
<1>1. session'[s] = row /\ \A t \in Sessions \ {s} : session'[t] = session[t]
  BY <1>t DEF PreviewTypeOK
<1>2. Tabled'
  <2>1. \A t \in Sessions : /\ session'[t].project = session[t].project
                            /\ session'[t].hash = session[t].hash
                            /\ session'[t].stopped = session[t].stopped
                            /\ session'[t].status = "unborn" <=> session[t].status = "unborn"
    BY <1>1
  <2>2. table' = table /\ holder' = holder OBVIOUS
  <2>3. \A p \in Projects : table[p] # None => table[p] \in Sessions BY <1>t DEF PreviewTypeOK
  <2>4. holder # None => holder \in Sessions BY <1>t DEF PreviewTypeOK
  <2>5. Tabled BY DEF PreviewInv
  <2> QED BY <2>1, <2>2, <2>3, <2>4, <2>5 DEF Tabled
<1>3. table' \in [Projects -> Sessions \cup {None}] /\ holder' \in Sessions \cup {None}
      /\ request' \in Revision
  BY <1>t DEF PreviewTypeOK
<1> QED BY <1>2, <1>3, AnyStep

\* The common case: nobody comes to run on another port.
LEMMA SamePort ==
    ASSUME PreviewInv, NEW s \in Sessions, s \in DOMAIN container
    PROVE  \A t \in DOMAIN container \ {s} : boot[t].runtime # boot[s].runtime
BY DEF PreviewInv, OnePerPort

-----------------------------------------------------------------------------
(* The steps of a boot *)

\* Before it is run there is no container.
LEMMA NotYet ==
    ASSUME PreviewInv, NEW s \in Sessions, boot[s].at \in {"begin", "reserve", "record", "run"}
    PROVE  ~Runs(s)
BY Here DEF Local, Early, ContainerOwned

\* The thread of s becomes thread, which is as before but for its place.
Moves(s, thread, at) ==
    /\ thread \in Thread /\ boot' = [boot EXCEPT ![s] = thread] /\ boot'[s] = thread
    /\ thread.at = at /\ thread.runtime = boot[s].runtime /\ thread.preview = boot[s].preview
    /\ thread.handle = boot[s].handle /\ thread.server = boot[s].server
    /\ thread.ports = boot[s].ports
LEMMA GoMoves ==
    ASSUME PreviewInv, NEW s \in Sessions, NEW at \in Places, Go(s, at)
    PROVE  \E thread : Moves(s, thread, at)
<1> DEFINE thread == [boot[s] EXCEPT !.at = at]
<1>1. boot[s] \in Thread /\ boot \in [Sessions -> Thread] BY DEF PreviewInv, PreviewTypeOK
<1>2. thread \in Thread BY <1>1 DEF Thread
<1>3. boot' = [boot EXCEPT ![s] = thread] BY DEF Go
<1>4. boot'[s] = thread BY <1>1, <1>3
<1>5. /\ thread.at = at /\ thread.runtime = boot[s].runtime /\ thread.preview = boot[s].preview
      /\ thread.handle = boot[s].handle /\ thread.server = boot[s].server
      /\ thread.ports = boot[s].ports
  BY <1>1 DEF Thread
<1> QED BY <1>2, <1>3, <1>4, <1>5 DEF Moves

\* Nothing but the thread's place changes.
LEMMA MoveKeeps ==
    ASSUME PreviewInv, NEW s \in Sessions, NEW at \in Places, Go(s, at),
           session' = session, stop' = stop, container' = container, client' = client, asked' = asked,
           proxy' = proxy,
           UNCHANGED <<table, holder, request, source, seen>>, reserved' \subseteq Ports,
           \/ boot[s].at = "wait" /\ at = "proxy"
           \/ boot[s].at = "page" /\ at = "final"
           \/ at = "except" /\ boot[s].at \in {"begin", "reserve", "run", "wait", "proxy", "page", "final"}
    PROVE  PreviewInv'
<1>h. /\ session[s] \in SessionRow /\ boot[s] \in Thread /\ stop[s] \in Stopping /\ Local(s)
  BY Here
<1>1. PICK thread : Moves(s, thread, at) BY GoMoves
<1>2. ContainerStays(s) /\ ProxyStays(s) /\ (Runs(s)' <=> Runs(s)) /\ (Listens(s)' <=> Listens(s))
      /\ SameImage(s) /\ (s \in asked' <=> s \in asked)
  BY ContainerSame, ProxySame
<1>3. session'[s] = session[s] /\ stop'[s] = stop[s] /\ session[s].status # "unborn"
  BY <1>h DEF Local, Unused, NoThread
<1>4. Local(s)'
  BY <1>h, <1>1, <1>2, <1>3
  DEF Local, Unused, Early, Late, ContainerOwned, ProxyOwned, Served, Has, SameImage, Moves
<1>5. /\ session' = [session EXCEPT ![s] = session[s]] /\ stop' = [stop EXCEPT ![s] = stop[s]]
      /\ thread \in Thread /\ boot' = [boot EXCEPT ![s] = thread]
  BY <1>1 DEF PreviewInv, PreviewTypeOK, Moves
<1>6. s \in DOMAIN container' => \A t \in DOMAIN container \ {s} : boot[t].runtime # thread.runtime
  BY <1>1, <1>2, SamePort DEF Moves, SameImage
<1> QED BY <1>h, <1>2, <1>4, <1>5, <1>6, SessionStep

\* The session says that it starts, also when it has been stopped before.
LEMMA FindRuntimePortKeeps ==
    ASSUME PreviewInv, NEW s \in Sessions, FindRuntimePort(s)
    PROVE  PreviewInv'
<1>h. /\ session[s] \in SessionRow /\ boot[s] \in Thread /\ stop[s] \in Stopping
      /\ Local(s) /\ boot[s].at = "begin" /\ ~Runs(s)
  BY Here, NotYet DEF FindRuntimePort
<1>u. /\ UNCHANGED <<table, holder, request, source, seen>> /\ reserved' = reserved
      /\ container' = container /\ client' = client /\ asked' = asked /\ proxy' = proxy /\ stop' = stop
  BY DEF FindRuntimePort, Quiet, world, docker, net, reservations
<1> DEFINE row == [session[s] EXCEPT !.status = "starting"]
<1>1. session' = [session EXCEPT ![s] = row] BY DEF FindRuntimePort
<1>2. PICK thread \in Thread :
         /\ boot' = [boot EXCEPT ![s] = thread] /\ thread.at \in {"except", "reserve"}
         /\ thread.at = "reserve" => thread.runtime \in Ports
  <2>1. CASE Available = {}
    <3>1. Go(s, "except") BY <2>1 DEF FindRuntimePort
    <3>2. "except" \in Places BY DEF Places
    <3> QED BY <3>1, <3>2, GoMoves DEF Moves
  <2>2. CASE Available # {}
    <3> DEFINE moved == [boot[s] EXCEPT !.at = "reserve", !.runtime = Least(Available)]
    <3>1. Least(Available) \in Ports BY <2>2, LeastIs DEF Available
    <3>2. boot' = [boot EXCEPT ![s] = moved] BY <2>2 DEF FindRuntimePort
    <3>3. moved \in Thread BY <3>1, <1>h DEF Thread, Places, Port
    <3>4. moved.at = "reserve" /\ moved.runtime \in Ports BY <3>1, <1>h DEF Thread
    <3> HIDE DEF moved
    <3> QED BY <3>2, <3>3, <3>4
  <2> QED BY <2>1, <2>2
<1>3. row \in SessionRow BY <1>h DEF SessionRow
<1>4. session'[s] = row /\ boot'[s] = thread /\ stop'[s] = stop[s]
  BY <1>1, <1>2, <1>u DEF PreviewInv, PreviewTypeOK
<1>5. /\ row.handle = None /\ ~row.proxy /\ row.runtimePort = None /\ row.previewPort = None
      /\ row.stopped = session[s].stopped /\ row.status = "starting"
      /\ row.project = session[s].project /\ row.hash = session[s].hash
      /\ session[s].status # "unborn"
  BY <1>h DEF SessionRow, Local, Early, Unused, NoThread
<1>6. /\ ContainerStays(s) /\ ProxyStays(s) /\ ~Runs(s)' /\ (Listens(s)' <=> Listens(s))
      /\ s \notin asked' /\ s \notin DOMAIN container'
  BY <1>u, <1>h, ContainerSame, ProxySame DEF Runs, Local, Early
<1>8. reserved' \subseteq Ports /\ stop' = [stop EXCEPT ![s] = stop[s]]
  BY <1>u DEF PreviewInv, PreviewTypeOK
<1> HIDE DEF row
<1>7. Local(s)'
  BY <1>h, <1>2, <1>4, <1>5, <1>6 DEF Local, Unused, Early, Late, ContainerOwned, ProxyOwned, Served, Has, SameImage
<1> QED BY <1>h, <1>u, <1>1, <1>2, <1>3, <1>5, <1>6, <1>7, <1>8, SessionStep

LEMMA FindPreviewPortKeeps ==
    ASSUME PreviewInv, NEW s \in Sessions, FindPreviewPort(s)
    PROVE  PreviewInv'
<1>h. /\ session[s] \in SessionRow /\ boot[s] \in Thread /\ stop[s] \in Stopping
      /\ Local(s) /\ boot[s].at = "reserve" /\ ~Runs(s)
  BY Here, NotYet DEF FindPreviewPort
<1>u. /\ UNCHANGED <<table, holder, request, source, seen>> /\ session' = session
      /\ container' = container /\ client' = client /\ asked' = asked /\ proxy' = proxy /\ stop' = stop
      /\ reserved' = reserved \union {boot[s].runtime}
  BY DEF FindPreviewPort, Quiet, world, docker, net, reservations
<1> DEFINE free == Available \ {boot[s].runtime}
<1>1. boot[s].runtime \in Ports BY <1>h DEF Local, Early
<1>2. reserved' \subseteq Ports BY <1>1, <1>u DEF PreviewInv, PreviewTypeOK
<1>3. CASE free = {}
  <2>1. Go(s, "except") BY <1>3 DEF FindPreviewPort
  <2>2. "except" \in Places BY DEF Places
  <2> QED BY <2>1, <2>2, <1>h, <1>u, <1>2, MoveKeeps
<1>4. CASE free # {}
  <2> DEFINE thread == [boot[s] EXCEPT !.at = "record", !.preview = Least(free)]
  <2>1. Least(free) \in Ports BY <1>4, LeastIs DEF Available
  <2>2. boot' = [boot EXCEPT ![s] = thread] BY <1>4 DEF FindPreviewPort
  <2>3. thread \in Thread BY <2>1, <1>h DEF Thread, Places, Port
  <2>4. thread.at = "record" /\ thread.preview \in Ports /\ thread.runtime = boot[s].runtime
    BY <2>1, <1>h DEF Thread
  <2> HIDE DEF thread
  <2>5. session'[s] = session[s] /\ stop'[s] = stop[s] /\ boot'[s] = thread
    BY <1>u, <2>2 DEF PreviewInv, PreviewTypeOK
  <2>6. /\ ContainerStays(s) /\ ProxyStays(s) /\ ~Runs(s)' /\ (Listens(s)' <=> Listens(s))
        /\ s \notin asked' /\ s \notin DOMAIN container'
    BY <1>u, <1>h, ContainerSame, ProxySame DEF Runs, Local, Early
  <2>7. session[s].status # "unborn" BY <1>h DEF Local, Unused, NoThread
  <2>8. Local(s)'
    BY <1>h, <1>1, <2>4, <2>5, <2>6, <2>7
    DEF Local, Unused, Early, Late, ContainerOwned, ProxyOwned, Served, Has, SameImage
  <2>9. session' = [session EXCEPT ![s] = session[s]] /\ stop' = [stop EXCEPT ![s] = stop[s]]
    BY <1>u DEF PreviewInv, PreviewTypeOK
  <2> QED BY <1>h, <1>u, <1>2, <2>2, <2>3, <2>6, <2>8, <2>9, SessionStep
<1> QED BY <1>3, <1>4

\* A step that changes the session and the place of its thread.
Changes(s, row) ==
    /\ row \in SessionRow /\ session' = [session EXCEPT ![s] = row] /\ session'[s] = row
    /\ row.project = session[s].project /\ row.hash = session[s].hash
    /\ row.stopped = session[s].stopped
    /\ row.status = "unborn" <=> session[s].status = "unborn"
LEMMA ChangeKeeps ==
    ASSUME PreviewInv, NEW s \in Sessions, NEW row, Changes(s, row),
           NEW thread, NEW at, Moves(s, thread, at), stop' = stop,
           UNCHANGED <<table, holder, request, source, seen>>, reserved' \subseteq Ports,
           ContainerStays(s), ProxyStays(s), SameImage(s), Local(s)'
    PROVE  PreviewInv'
<1>1. stop[s] \in Stopping /\ stop' = [stop EXCEPT ![s] = stop[s]]
  BY DEF PreviewInv, PreviewTypeOK
<1>2. /\ row \in SessionRow /\ session' = [session EXCEPT ![s] = row]
      /\ row.project = session[s].project /\ row.hash = session[s].hash
      /\ row.stopped = session[s].stopped
      /\ row.status = "unborn" <=> session[s].status = "unborn"
  BY DEF Changes
<1>3. thread \in Thread /\ boot' = [boot EXCEPT ![s] = thread] /\ thread.runtime = boot[s].runtime
  BY DEF Moves
<1>4. s \in DOMAIN container' => \A t \in DOMAIN container \ {s} : boot[t].runtime # thread.runtime
  BY <1>3, SamePort DEF SameImage
<1> QED BY <1>1, <1>2, <1>3, <1>4, SessionStep
LEMMA Unchanging ==
    ASSUME PreviewInv, NEW s \in Sessions, session' = session
    PROVE  Changes(s, session[s])
BY DEF PreviewInv, PreviewTypeOK, Changes

\* A boot that was stopped meanwhile frees its ports and leaves.
LEMMA RecordPortsKeeps ==
    ASSUME PreviewInv, NEW s \in Sessions, RecordPorts(s)
    PROVE  PreviewInv'
<1>h. /\ session[s] \in SessionRow /\ boot[s] \in Thread /\ stop[s] \in Stopping
      /\ Local(s) /\ boot[s].at = "record" /\ ~Runs(s)
  BY Here, NotYet DEF RecordPorts
<1>u. /\ UNCHANGED <<table, holder, request, source, seen>>
      /\ container' = container /\ client' = client /\ asked' = asked /\ proxy' = proxy /\ stop' = stop /\ stop'[s] = stop[s]
  BY DEF RecordPorts, Quiet, world, docker, net, reservations
<1>1. /\ boot[s].runtime \in Ports /\ boot[s].preview \in Ports /\ session[s].status # "unborn"
      /\ session[s].handle = None /\ ~session[s].proxy
      /\ session[s].runtimePort = None /\ session[s].previewPort = None
  BY <1>h DEF Local, Early, Unused, NoThread
<1>2. /\ ContainerStays(s) /\ ProxyStays(s) /\ ~Runs(s)' /\ (Listens(s)' <=> Listens(s))
      /\ SameImage(s) /\ s \notin asked'
  BY <1>u, <1>h, ContainerSame, ProxySame DEF Local, Early
<1>3. reserved' \subseteq Ports BY <1>1 DEF RecordPorts, PreviewInv, PreviewTypeOK
<1>4. CASE session[s].stopped
  <2>1. "none" \in Places /\ Go(s, "none") /\ session' = session BY <1>4 DEF Places, RecordPorts
  <2>2. PICK thread : Moves(s, thread, "none") BY <2>1, GoMoves
  <2>3. Changes(s, session[s]) BY <2>1, Unchanging
  <2>4. Local(s)'
    BY <1>4, <1>h, <1>u, <1>1, <1>2, <2>2, <2>3
    DEF Local, Unused, Early, Late, ContainerOwned, ProxyOwned, Served, Has, SameImage, Moves, Changes, Empty
  <2> QED BY <1>u, <1>2, <1>3, <2>2, <2>3, <2>4, ChangeKeeps
<1>5. CASE ~session[s].stopped
  <2> DEFINE row == [session[s] EXCEPT !.runtimePort = boot[s].runtime, !.previewPort = boot[s].preview]
  <2>1. "run" \in Places /\ Go(s, "run") /\ session' = [session EXCEPT ![s] = row]
    BY <1>5 DEF Places, RecordPorts
  <2>2. PICK thread : Moves(s, thread, "run") BY <2>1, GoMoves
  <2>3. /\ row.runtimePort = boot[s].runtime /\ row.previewPort = boot[s].preview
        /\ row.handle = None /\ ~row.proxy /\ row.status = session[s].status
        /\ row.stopped = session[s].stopped
    BY <1>1, <1>h DEF SessionRow
  <2>4. Changes(s, row)
    BY <2>1, <1>1, <1>h DEF Changes, SessionRow, Port, PreviewInv, PreviewTypeOK
  <2> HIDE DEF row
  <2>5. Local(s)'
    BY <1>5, <1>h, <1>u, <1>1, <1>2, <2>2, <2>3, <2>4
    DEF Local, Unused, Early, Late, ContainerOwned, ProxyOwned, Served, Has, SameImage, Moves, Changes
  <2> QED BY <1>u, <1>2, <1>3, <2>2, <2>4, <2>5, ChangeKeeps
<1> QED BY <1>4, <1>5

\* What a container is given is a version.
LEMMA RunsAVersion ==
    ASSUME PreviewInv, NEW s \in Sessions, session[s].status # "unborn"
    PROVE  HashToRun(s) \in Hashes
BY DEF PreviewInv, PreviewTypeOK, Revision, Tabled, HashToRun

\* The client runs; its container may come.
LEMMA RunContainerKeeps ==
    ASSUME PreviewInv, NEW s \in Sessions, RunContainer(s)
    PROVE  PreviewInv'
<1>h. /\ session[s] \in SessionRow /\ boot[s] \in Thread /\ stop[s] \in Stopping
      /\ Local(s) /\ boot[s].at = "run" /\ ~Runs(s)
  BY Here, NotYet DEF RunContainer
<1>u. /\ UNCHANGED <<table, holder, request, source, seen>> /\ session' = session
      /\ proxy' = proxy /\ stop' = stop /\ reserved' = reserved
      /\ container' = container /\ asked' = asked
  BY DEF RunContainer, Quiet, world, docker, net, reservations
<1>1. reserved' \subseteq Ports BY <1>u DEF PreviewInv, PreviewTypeOK
<1>2. session[s].status # "unborn" BY <1>h DEF Local, Unused, NoThread
<1>3. CASE Go(s, "except") /\ client' = client
  <2>1. "except" \in Places BY DEF Places
  <2> QED BY <1>3, <2>1, <1>h, <1>u, <1>1, MoveKeeps
<1>4. CASE /\ boot' = [boot EXCEPT ![s].at = "handle", ![s].handle = HashToRun(s)]
           /\ client' = With(client, s, HashToRun(s))
  <2> DEFINE thread == [boot[s] EXCEPT !.at = "handle", !.handle = HashToRun(s)]
  <2>1. HashToRun(s) \in Hashes /\ HashToRun(s) # None BY <1>2, RunsAVersion, Numbers
  <2>2. boot' = [boot EXCEPT ![s] = thread] BY <1>4
  <2>3. thread \in Thread BY <2>1, <1>h DEF Thread, Places, Hash
  <2>4. /\ thread.at = "handle" /\ thread.handle = HashToRun(s)
        /\ thread.runtime = boot[s].runtime /\ thread.preview = boot[s].preview
    BY <1>h DEF Thread
  <2> HIDE DEF thread
  <2>5. session'[s] = session[s] /\ stop'[s] = stop[s] /\ boot'[s] = thread
    BY <1>u, <2>2 DEF PreviewInv, PreviewTypeOK
  <2>6. ProxyStays(s) /\ (Listens(s)' <=> Listens(s)) BY <1>u, ProxySame
  <2>7. ContainerStays(s) /\ s \notin DOMAIN container' /\ client'[s] = HashToRun(s) /\ s \notin asked'
    <3>1. s \notin asked /\ s \notin DOMAIN container BY <1>h DEF Local, Early, Runs
    <3>2. /\ DOMAIN client' = DOMAIN client \union {s} /\ client'[s] = HashToRun(s)
          /\ \A t \in DOMAIN client' \ {s} : client'[t] = client[t]
      BY <1>4 DEF With
    <3>3. /\ DOMAIN container \subseteq Sessions /\ \A t \in DOMAIN container : container[t] \in Hashes
          /\ DOMAIN client \subseteq Sessions /\ \A t \in DOMAIN client : client[t] \in Hashes
      BY DEF PreviewInv, PreviewTypeOK
    <3> QED BY <3>1, <3>2, <3>3, <1>u, <2>1 DEF ContainerStays
  <2>8. Local(s)'
    BY <1>h, <1>2, <2>1, <2>4, <2>5, <2>6, <2>7
    DEF Local, Unused, Early, Late, ContainerOwned, ProxyOwned, Served, Has, SameImage
  <2>9. session' = [session EXCEPT ![s] = session[s]] /\ stop' = [stop EXCEPT ![s] = stop[s]]
    BY <1>u DEF PreviewInv, PreviewTypeOK
  <2> QED BY <1>h, <1>u, <1>1, <2>2, <2>3, <2>6, <2>7, <2>8, <2>9, SessionStep
<1> QED BY <1>3, <1>4 DEF RunContainer, Fails

\* The container takes its port from nobody.
LEMMA ContainerComesKeeps ==
    ASSUME PreviewInv, NEW s \in Sessions, ContainerComes(s)
    PROVE  PreviewInv'
<1>h. /\ session[s] \in SessionRow /\ boot[s] \in Thread /\ stop[s] \in Stopping /\ Local(s)
  BY Here
<1>u. /\ UNCHANGED <<table, holder, request, source, seen>>
      /\ session' = session /\ boot' = boot /\ stop' = stop
      /\ session'[s] = session[s] /\ boot'[s] = boot[s] /\ stop'[s] = stop[s]
      /\ session' = [session EXCEPT ![s] = session[s]] /\ boot' = [boot EXCEPT ![s] = boot[s]]
      /\ stop' = [stop EXCEPT ![s] = stop[s]]
      /\ proxy' = proxy /\ asked' = asked /\ reserved' = reserved
  BY DEF ContainerComes, Quiet, world, net, reservations, PreviewInv, PreviewTypeOK
<1>1. reserved' \subseteq Ports BY <1>u DEF PreviewInv, PreviewTypeOK
<1>2. ProxyStays(s) /\ (Listens(s)' <=> Listens(s)) BY <1>u, ProxySame
<1>3. /\ s \in DOMAIN client /\ DOMAIN client' = DOMAIN client \ {s}
      /\ \A t \in DOMAIN client' : client'[t] = client[t]
  BY DEF ContainerComes, Without
<1>4. \/ container' = container
      \/ /\ DOMAIN container' = DOMAIN container \union {s} /\ container'[s] = client[s]
         /\ \A t \in DOMAIN container' \ {s} : container'[t] = container[t]
         /\ boot[s].runtime \notin Bound
  BY DEF ContainerComes, With
<1>5. /\ DOMAIN container \subseteq Sessions /\ \A t \in DOMAIN container : container[t] \in Hashes
      /\ DOMAIN client \subseteq Sessions /\ \A t \in DOMAIN client : client[t] \in Hashes
  BY DEF PreviewInv, PreviewTypeOK
<1>6. ContainerStays(s) BY <1>3, <1>4, <1>5, <1>u DEF ContainerStays
<1>7. /\ (Runs(s)' => Runs(s)) /\ s \notin DOMAIN client' /\ (s \in asked' <=> s \in asked)
      /\ s \in DOMAIN container' => \/ s \in DOMAIN container /\ container'[s] = container[s]
                                   \/ container'[s] = client[s]
  BY <1>3, <1>4, <1>u DEF Runs
<1>8. Local(s)'
  BY <1>h, <1>u, <1>2, <1>3, <1>7
  DEF Local, Unused, Early, Late, ContainerOwned, ProxyOwned, Served, Has
<1>9. s \in DOMAIN container' => \A t \in DOMAIN container \ {s} : boot[t].runtime # boot[s].runtime
  BY <1>4, SamePort DEF Bound
<1> QED BY <1>h, <1>u, <1>1, <1>2, <1>6, <1>8, <1>9, SessionStep

\* A container that was stopped before its handle was recorded is stopped here.
LEMMA RecordHandleKeeps ==
    ASSUME PreviewInv, NEW s \in Sessions, RecordHandle(s)
    PROVE  PreviewInv'
<1>h. /\ session[s] \in SessionRow /\ boot[s] \in Thread /\ stop[s] \in Stopping
      /\ Local(s) /\ boot[s].at = "handle"
  BY Here DEF RecordHandle
<1>u. /\ UNCHANGED <<table, holder, request, source, seen>>
      /\ proxy' = proxy /\ stop' = stop /\ stop'[s] = stop[s]
  BY DEF RecordHandle, Quiet, world, docker, net, reservations
<1>1. /\ boot[s].runtime \in Ports /\ boot[s].preview \in Ports /\ session[s].status # "unborn"
      /\ session[s].handle = None /\ ~session[s].proxy /\ stop[s].handle = None
      /\ boot[s].handle # None /\ Has(s, boot[s].handle) /\ s \notin asked
  BY <1>h DEF Local, Early, Unused, NoThread
<1>c. client' = client BY DEF RecordHandle
<1>2. ProxyStays(s) /\ (Listens(s)' <=> Listens(s)) BY <1>u, ProxySame
<1>3. reserved' \subseteq Ports BY <1>1 DEF RecordHandle, reservations, PreviewInv, PreviewTypeOK
<1>4. CASE session[s].stopped
  <2> DEFINE row == [session[s] EXCEPT !.handle = None, !.runtimePort = None, !.previewPort = None]
  <2>1. PICK at \in {"none", "except"} : /\ Go(s, at) /\ session' = [session EXCEPT ![s] = row]
                                        /\ (Remove(s) \/ RemoveRaises(s))
    BY <1>4 DEF RecordHandle
  <2>at. at \in Places BY DEF Places
  <2>2. PICK thread : Moves(s, thread, at) BY <2>1, <2>at, GoMoves
  <2>3. /\ row.runtimePort = None /\ row.previewPort = None
        /\ row.handle = None /\ ~row.proxy /\ row.status = session[s].status
        /\ row.stopped = session[s].stopped
    BY <1>1, <1>h DEF SessionRow
  <2>4. Changes(s, row)
    BY <2>1, <1>1, <1>h DEF Changes, SessionRow, Port, Hash, PreviewInv, PreviewTypeOK
  <2>5. ContainerStays(s) /\ (Runs(s)' => Runs(s)) /\ SameImage(s) /\ s \in asked'
    BY <2>1, <1>c, RemoveAsks, ContainerAsked
  <2> HIDE DEF row
  <2>6. Local(s)'
    BY <1>4, <1>h, <1>u, <1>1, <1>2, <2>2, <2>3, <2>4, <2>5
    DEF Local, Unused, Early, Late, ContainerOwned, ProxyOwned, Served, Has, SameImage, Moves, Changes, Empty
  <2> QED BY <1>u, <1>2, <1>3, <2>2, <2>4, <2>5, <2>6, ChangeKeeps
<1>5. CASE ~session[s].stopped
  <2> DEFINE row == [session[s] EXCEPT !.handle = boot[s].handle]
  <2>1. "wait" \in Places /\ Go(s, "wait") /\ session' = [session EXCEPT ![s] = row]
        /\ container' = container /\ asked' = asked
    BY <1>5 DEF Places, RecordHandle
  <2>2. PICK thread : Moves(s, thread, "wait") BY <2>1, GoMoves
  <2>3. /\ row.handle = boot[s].handle /\ ~row.proxy /\ row.status = session[s].status
        /\ row.stopped = session[s].stopped
    BY <1>1, <1>h DEF SessionRow
  <2>4. Changes(s, row)
    BY <2>1, <1>1, <1>h DEF Changes, SessionRow, Thread, PreviewInv, PreviewTypeOK
  <2>5. ContainerStays(s) /\ (Runs(s)' <=> Runs(s)) /\ SameImage(s) /\ (s \in asked' <=> s \in asked)
    BY <2>1, <1>c, ContainerSame
  <2> HIDE DEF row
  <2>6. Local(s)'
    BY <1>5, <1>h, <1>u, <1>1, <1>2, <2>2, <2>3, <2>4, <2>5
    DEF Local, Unused, Early, Late, ContainerOwned, ProxyOwned, Served, Has, SameImage, Moves, Changes
  <2> QED BY <1>u, <1>2, <1>3, <2>2, <2>4, <2>5, <2>6, ChangeKeeps
<1> QED BY <1>4, <1>5

LEMMA WaitsKeep ==
    ASSUME PreviewInv, NEW s \in Sessions, WaitForContainer(s) \/ WaitForPage(s)
    PROVE  PreviewInv'
<1>1. /\ UNCHANGED <<table, holder, request, source, seen>> /\ session' = session /\ stop' = stop
      /\ container' = container /\ client' = client /\ asked' = asked /\ proxy' = proxy /\ reserved' = reserved
  BY DEF WaitForContainer, WaitForPage, Quiet, world, docker, net, reservations
<1>2. reserved' \subseteq Ports BY <1>1 DEF PreviewInv, PreviewTypeOK
<1>3. \/ boot[s].at = "wait" /\ Go(s, "proxy")
      \/ boot[s].at = "page" /\ Go(s, "final")
      \/ boot[s].at \in {"wait", "page"} /\ Go(s, "except")
  BY DEF WaitForContainer, WaitForPage, Fails
<1>4. "proxy" \in Places /\ "final" \in Places /\ "except" \in Places BY DEF Places
<1> QED BY <1>1, <1>2, <1>3, <1>4, MoveKeeps

\* A proxy comes to a port on which nobody listens.
LEMMA StartProxyKeeps ==
    ASSUME PreviewInv, NEW s \in Sessions, StartProxy(s)
    PROVE  PreviewInv'
<1>h. /\ session[s] \in SessionRow /\ boot[s] \in Thread /\ stop[s] \in Stopping
      /\ Local(s) /\ boot[s].at = "proxy" /\ s # None
  BY Here DEF StartProxy
<1>u. /\ UNCHANGED <<table, holder, request, source, seen>> /\ session' = session
      /\ container' = container /\ client' = client /\ asked' = asked /\ stop' = stop /\ stop'[s] = stop[s] /\ reserved' = reserved
  BY DEF StartProxy, Quiet, world, docker, net, reservations
<1>1. reserved' \subseteq Ports BY <1>u DEF PreviewInv, PreviewTypeOK
<1>2. CASE boot[s].preview \in Bound
  <2>1. "except" \in Places /\ Go(s, "except") /\ proxy' = proxy BY <1>2 DEF Places, StartProxy
  <2> QED BY <2>1, <1>h, <1>u, <1>1, MoveKeeps
<1>3. CASE boot[s].preview \notin Bound
  <2>1. "note" \in Places /\ Go(s, "note") /\ proxy' = [proxy EXCEPT ![boot[s].preview] = s]
    BY <1>3 DEF Places, StartProxy
  <2>2. PICK thread : Moves(s, thread, "note") BY <2>1, GoMoves
  <2>3. boot[s].preview \in Ports /\ session[s].status # "unborn" /\ session[s].status # "ready"
    BY <1>h DEF Local, Early, Late, Unused, NoThread
  <2>4. proxy[boot[s].preview] = None BY <1>3, <2>3 DEF Bound
  <2>5. ProxyStays(s) /\ proxy'[boot[s].preview] = s
    <3>1. proxy \in [Ports -> Sessions \cup {None}] BY DEF PreviewInv, PreviewTypeOK
    <3>2. \A t \in Sessions : t # None BY Numbers
    <3> QED BY <3>1, <3>2, <2>1, <2>3, <2>4 DEF ProxyStays
  <2>6. ContainerStays(s) /\ (Runs(s)' <=> Runs(s)) /\ SameImage(s) /\ (s \in asked' <=> s \in asked)
    BY <1>u, ContainerSame
  <2>7. Changes(s, session[s]) BY <1>u, Unchanging
  <2>8. Local(s)'
    BY <1>h, <1>u, <2>2, <2>3, <2>5, <2>6, <2>7
    DEF Local, Unused, Early, Late, ContainerOwned, ProxyOwned, Served, Has, SameImage, Moves, Changes
  <2> QED BY <1>u, <1>1, <2>2, <2>5, <2>6, <2>7, <2>8, ChangeKeeps
<1> QED BY <1>2, <1>3

LEMMA NoteProxyKeeps ==
    ASSUME PreviewInv, NEW s \in Sessions, NoteProxy(s)
    PROVE  PreviewInv'
<1>h. /\ session[s] \in SessionRow /\ boot[s] \in Thread /\ stop[s] \in Stopping
      /\ Local(s) /\ boot[s].at = "note"
  BY Here DEF NoteProxy
<1>u. /\ UNCHANGED <<table, holder, request, source, seen>>
      /\ container' = container /\ client' = client /\ asked' = asked /\ proxy' = proxy /\ stop' = stop /\ stop'[s] = stop[s]
      /\ reserved' = reserved
  BY DEF NoteProxy, Quiet, world, docker, net, reservations
<1>1. reserved' \subseteq Ports BY <1>u DEF PreviewInv, PreviewTypeOK
<1>2. session[s].status # "unborn" BY <1>h DEF Local, Unused, NoThread
<1>3. /\ ProxyStays(s) /\ (Listens(s)' <=> Listens(s))
      /\ ContainerStays(s) /\ (Runs(s)' <=> Runs(s)) /\ SameImage(s) /\ (s \in asked' <=> s \in asked)
  BY <1>u, ProxySame, ContainerSame
<1> DEFINE row == [session[s] EXCEPT !.proxy = TRUE]
<1>4. "page" \in Places /\ Go(s, "page") /\ session' = [session EXCEPT ![s] = row]
  BY DEF Places, NoteProxy
<1>5. PICK thread : Moves(s, thread, "page") BY <1>4, GoMoves
<1>6. /\ row.runtimePort = session[s].runtimePort /\ row.previewPort = session[s].previewPort
      /\ row.handle = session[s].handle /\ row.proxy /\ row.status = session[s].status
      /\ row.stopped = session[s].stopped
  BY <1>h DEF SessionRow
<1>7. Changes(s, row) BY <1>4, <1>h DEF Changes, SessionRow, PreviewInv, PreviewTypeOK
<1> HIDE DEF row
<1>8. Local(s)'
  BY <1>h, <1>u, <1>2, <1>3, <1>5, <1>6, <1>7
  DEF Local, Unused, Early, Late, ContainerOwned, ProxyOwned, Served, Has, SameImage, Moves, Changes
<1> QED BY <1>u, <1>1, <1>3, <1>5, <1>7, <1>8, ChangeKeeps

\* A session that was stopped is never shown as ready.
LEMMA MakeReadyKeeps ==
    ASSUME PreviewInv, NEW s \in Sessions, MakeReady(s)
    PROVE  PreviewInv'
<1>h. /\ session[s] \in SessionRow /\ boot[s] \in Thread /\ stop[s] \in Stopping
      /\ Local(s) /\ boot[s].at = "final"
  BY Here DEF MakeReady
<1>u. /\ UNCHANGED <<table, holder, request, source, seen>>
      /\ container' = container /\ client' = client /\ asked' = asked /\ proxy' = proxy /\ stop' = stop /\ stop'[s] = stop[s]
      /\ reserved' = reserved
  BY DEF MakeReady, Quiet, world, docker, net, reservations
<1>1. reserved' \subseteq Ports BY <1>u DEF PreviewInv, PreviewTypeOK
<1>2. session[s].status # "unborn" BY <1>h DEF Local, Unused, NoThread
<1>3. /\ ProxyStays(s) /\ (Listens(s)' <=> Listens(s))
      /\ ContainerStays(s) /\ (Runs(s)' <=> Runs(s)) /\ SameImage(s) /\ (s \in asked' <=> s \in asked)
  BY <1>u, ProxySame, ContainerSame
<1>4. CASE Go(s, "except") /\ session' = session
  <2>1. "except" \in Places BY DEF Places
  <2> QED BY <1>4, <2>1, <1>h, <1>u, <1>1, MoveKeeps
<1>5. CASE /\ ~session[s].stopped /\ session' = [session EXCEPT ![s].status = "ready"]
           /\ Go(s, "none")
  <2> DEFINE row == [session[s] EXCEPT !.status = "ready"]
  <2>1. "none" \in Places /\ Go(s, "none") /\ session' = [session EXCEPT ![s] = row]
    BY <1>5 DEF Places
  <2>2. PICK thread : Moves(s, thread, "none") BY <2>1, GoMoves
  <2>3. /\ row.handle = session[s].handle /\ row.proxy = session[s].proxy /\ row.status = "ready"
        /\ row.stopped = session[s].stopped /\ ~row.stopped
    BY <1>5, <1>h DEF SessionRow
  <2>4. Changes(s, row) BY <2>1, <1>2, <1>h DEF Changes, SessionRow, PreviewInv, PreviewTypeOK
  <2> HIDE DEF row
  <2>5. Local(s)'
    BY <1>h, <1>u, <1>2, <1>3, <2>2, <2>3, <2>4
    DEF Local, Unused, Early, Late, ContainerOwned, ProxyOwned, Served, Has, SameImage, Moves, Changes
  <2> QED BY <1>u, <1>1, <1>3, <2>2, <2>4, <2>5, ChangeKeeps
<1> QED BY <1>4, <1>5 DEF MakeReady, Fails

\* The handler takes over what the session still holds.
LEMMA TakeBackKeeps ==
    ASSUME PreviewInv, NEW s \in Sessions, TakeBack(s)
    PROVE  PreviewInv'
<1>h. /\ session[s] \in SessionRow /\ boot[s] \in Thread /\ stop[s] \in Stopping
      /\ Local(s) /\ boot[s].at = "except"
  BY Here DEF TakeBack
<1>u. /\ UNCHANGED <<table, holder, request, source, seen>>
      /\ container' = container /\ client' = client /\ asked' = asked /\ proxy' = proxy /\ stop' = stop /\ stop'[s] = stop[s]
      /\ reserved' = reserved
  BY DEF TakeBack, Quiet, world, docker, net, reservations
<1>1. reserved' \subseteq Ports BY <1>u DEF PreviewInv, PreviewTypeOK
<1>2. session[s].status # "unborn" BY <1>h DEF Local, Unused, NoThread
<1>3. /\ ProxyStays(s) /\ (Listens(s)' <=> Listens(s))
      /\ ContainerStays(s) /\ (Runs(s)' <=> Runs(s)) /\ SameImage(s) /\ (s \in asked' <=> s \in asked)
  BY <1>u, ProxySame, ContainerSame
<1> DEFINE row == [session[s] EXCEPT !.handle = None, !.proxy = FALSE,
                      !.runtimePort = None, !.previewPort = None,
                      !.status = IF session[s].stopped THEN "idle" ELSE "error"]
           thread == [boot[s] EXCEPT !.at = "running",
                         !.handle = session[s].handle, !.server = session[s].proxy,
                         !.ports = Given({session[s].runtimePort, session[s].previewPort})]
<1>4. session' = [session EXCEPT ![s] = row] /\ boot' = [boot EXCEPT ![s] = thread]
  BY DEF TakeBack
<1>5. /\ row.handle = None /\ ~row.proxy /\ row.runtimePort = None /\ row.previewPort = None
      /\ row.status = (IF session[s].stopped THEN "idle" ELSE "error")
      /\ row.stopped = session[s].stopped
      /\ row.project = session[s].project /\ row.hash = session[s].hash
  BY <1>h DEF SessionRow
<1>6. row \in SessionRow BY <1>h DEF SessionRow, Hash, Port
<1>7. /\ thread.at = "running" /\ thread.handle = session[s].handle
      /\ (thread.server <=> session[s].proxy) /\ thread.runtime = boot[s].runtime
  BY <1>h DEF Thread
<1>8. thread \in Thread
  <2>1. Given({session[s].runtimePort, session[s].previewPort}) \subseteq Ports
    BY <1>h DEF SessionRow, Given, Port
  <2>2. session[s].handle \in Hash /\ session[s].proxy \in BOOLEAN BY <1>h DEF SessionRow
  <2> QED BY <2>1, <2>2, <1>h DEF Thread, Places
<1> HIDE DEF row, thread
<1>9. session'[s] = row /\ boot'[s] = thread
  BY <1>4 DEF PreviewInv, PreviewTypeOK
<1>10. Local(s)'
  BY <1>h, <1>u, <1>2, <1>3, <1>5, <1>7, <1>9
  DEF Local, Unused, Early, Late, ContainerOwned, ProxyOwned, Served, Has, SameImage, Empty
<1>11. s \in DOMAIN container' => \A t \in DOMAIN container \ {s} : boot[t].runtime # thread.runtime
  BY <1>3, <1>7, SamePort DEF SameImage
<1>12. stop' = [stop EXCEPT ![s] = stop[s]] BY <1>u DEF PreviewInv, PreviewTypeOK
<1>13. row.status = "unborn" <=> session[s].status = "unborn" BY <1>2, <1>5
<1> QED BY <1>h, <1>u, <1>1, <1>3, <1>4, <1>5, <1>6, <1>8, <1>10, <1>11, <1>12, <1>13, SessionStep

LEMMA CleanUpKeeps ==
    ASSUME PreviewInv, NEW s \in Sessions, CleanUp(s)
    PROVE  PreviewInv'
<1>h. /\ session[s] \in SessionRow /\ boot[s] \in Thread /\ stop[s] \in Stopping
      /\ Local(s) /\ boot[s].at \in {"running", "ports"}
  BY Here DEF CleanUp
<1>u. /\ UNCHANGED <<table, holder, request, source, seen>> /\ session' = session
      /\ stop' = stop /\ stop'[s] = stop[s] /\ client' = client
  BY DEF CleanUp, Quiet, world, docker, net, reservations
<1>1. reserved' \subseteq Ports BY DEF CleanUp, PreviewInv, PreviewTypeOK
<1>2. session[s].status # "unborn" BY <1>h DEF Local, Unused, NoThread
<1>3. Changes(s, session[s]) BY <1>u, Unchanging
<1>4. CASE boot[s].at = "running"
  <2>1. PICK at \in {"ports", "none"} :
           /\ Go(s, at)
           /\ IF boot[s].server THEN Shutdown(s) ELSE proxy' = proxy
           /\ IF boot[s].handle # None THEN Remove(s) \/ RemoveRaises(s)
              ELSE container' = container /\ asked' = asked
    BY <1>4 DEF CleanUp, net
  <2>at. at \in Places BY DEF Places
  <2>2. PICK thread : Moves(s, thread, at) BY <2>1, <2>at, GoMoves
  <2>3. ProxyStays(s) /\ (Listens(s)' => Listens(s) /\ ~boot[s].server)
    BY <2>1, ProxySame, ProxyGone
  <2>4. /\ ContainerStays(s) /\ (Runs(s)' => Runs(s)) /\ SameImage(s)
        /\ boot[s].handle = None => (s \in asked' <=> s \in asked)
        /\ boot[s].handle # None => s \in asked'
    <3>1. CASE boot[s].handle = None BY <2>1, <3>1, <1>u, ContainerSame
    <3>2. CASE boot[s].handle # None BY <2>1, <3>2, <1>u, RemoveAsks, ContainerAsked
    <3> QED BY <3>1, <3>2
  <2>5. Local(s)'
    BY <1>4, <1>h, <1>u, <1>2, <1>3, <2>2, <2>3, <2>4
    DEF Local, Unused, Early, Late, ContainerOwned, ProxyOwned, Served, Has, SameImage, Moves, Changes, Empty
  <2> QED BY <1>u, <1>1, <1>3, <2>2, <2>3, <2>4, <2>5, ChangeKeeps
<1>5. CASE boot[s].at = "ports"
  <2>1. "none" \in Places /\ Go(s, "none") /\ proxy' = proxy
        /\ container' = container /\ asked' = asked
    BY <1>5 DEF Places, CleanUp, net
  <2>2. PICK thread : Moves(s, thread, "none") BY <2>1, GoMoves
  <2>3. /\ ProxyStays(s) /\ (Listens(s)' <=> Listens(s))
        /\ ContainerStays(s) /\ (Runs(s)' <=> Runs(s)) /\ SameImage(s) /\ (s \in asked' <=> s \in asked)
    BY <2>1, <1>u, ProxySame, ContainerSame
  <2>4. session[s].status \in {"idle", "error"} /\ Empty(session[s]) BY <1>h DEF Local, Late
  <2>5. Unused(s)' /\ Early(s)'
    BY <1>5, <1>h, <1>u, <1>2, <1>3, <2>2, <2>3, <2>4 DEF Local, Unused, Early, Moves, Changes
  <2>6. Late(s)'
    BY <1>5, <1>h, <1>u, <1>3, <2>2, <2>4 DEF Local, Late, Moves, Changes, Empty
  <2>7. ContainerOwned(s)' /\ ProxyOwned(s)' /\ Served(s)'
    BY <1>5, <1>h, <1>u, <1>3, <2>2, <2>3, <2>4
    DEF Local, ContainerOwned, ProxyOwned, Served, Has, SameImage, Moves, Changes, Empty
  <2>8. Local(s)' BY <2>5, <2>6, <2>7 DEF Local
  <2> QED BY <1>u, <1>1, <1>3, <2>2, <2>3, <2>8, ChangeKeeps
<1> QED BY <1>h, <1>4, <1>5

-----------------------------------------------------------------------------
(* Stops, and a container that exits *)

LEMMA StopKeeps ==
    ASSUME PreviewInv, NEW s \in Sessions, Stop(s)
    PROVE  PreviewInv'
<1>h. /\ session[s] \in SessionRow /\ boot[s] \in Thread /\ stop[s] \in Stopping /\ Local(s)
  BY Here
<1>u. /\ UNCHANGED <<table, holder, request, source, seen>> /\ session' = session /\ boot' = boot
      /\ session'[s] = session[s] /\ boot'[s] = boot[s]
      /\ session' = [session EXCEPT ![s] = session[s]] /\ boot' = [boot EXCEPT ![s] = boot[s]]
      /\ client' = client
  BY DEF Stop, StopRunning, ReleasePorts, world, docker, PreviewInv, PreviewTypeOK
<1>1. reserved' \subseteq Ports
  BY DEF Stop, StopRunning, ReleasePorts, reservations, PreviewInv, PreviewTypeOK
<1>2. CASE StopRunning(s)
  <2> DEFINE stopping == [stop[s] EXCEPT !.at = "ports"]
  <2>1. /\ stop[s].at = "running" /\ stop' = [stop EXCEPT ![s] = stopping]
        /\ IF stop[s].server THEN Shutdown(s) ELSE proxy' = proxy
        /\ IF stop[s].handle # None THEN Remove(s) ELSE container' = container /\ asked' = asked
    BY <1>2 DEF StopRunning, net
  <2>2. stopping \in Stopping /\ stopping.at = "ports" /\ stopping.handle = stop[s].handle
    BY <1>h DEF Stopping
  <2> HIDE DEF stopping
  <2>3. stop'[s] = stopping BY <2>1 DEF PreviewInv, PreviewTypeOK
  <2>4. ProxyStays(s) /\ (Listens(s)' => Listens(s) /\ ~stop[s].server)
        /\ (\A p \in Ports : proxy[p] = s /\ ~stop[s].server => proxy'[p] = s)
    BY <2>1, ProxySame, ProxyGone
  <2>5. /\ ContainerStays(s) /\ (Runs(s)' => Runs(s)) /\ SameImage(s)
        /\ stop[s].handle = None => (s \in asked' <=> s \in asked)
        /\ stop[s].handle # None => s \in asked'
    <3>1. CASE stop[s].handle = None BY <2>1, <3>1, <1>u, ContainerSame
    <3>2. CASE stop[s].handle # None BY <2>1, <3>2, <1>u, RemoveAsks, ContainerAsked
    <3> QED BY <3>1, <3>2
  <2>6. session[s].stopped /\ session[s].status # "unborn"
    BY <2>1, <1>h DEF Local, Late, Unused, Nothing
  <2>7. Local(s)'
    BY <1>h, <1>u, <2>1, <2>2, <2>3, <2>4, <2>5, <2>6
    DEF Local, Unused, Early, Late, ContainerOwned, ProxyOwned, Served, Has, SameImage
  <2>8. s \in DOMAIN container' => \A t \in DOMAIN container \ {s} : boot[t].runtime # boot[s].runtime
    BY <2>5, SamePort DEF SameImage
  <2> QED BY <1>h, <1>u, <1>1, <2>1, <2>2, <2>4, <2>5, <2>7, <2>8, SessionStep
<1>3. CASE ReleasePorts(s)
  <2>1. /\ stop[s].at = "ports" /\ stop' = [stop EXCEPT ![s] = Nothing]
        /\ proxy' = proxy /\ container' = container /\ asked' = asked
    BY <1>3 DEF ReleasePorts, net, docker
  <2>2. Nothing \in Stopping BY DEF Nothing, Stopping, Hash
  <2>3. stop'[s] = Nothing BY <2>1 DEF PreviewInv, PreviewTypeOK
  <2>4. /\ ProxyStays(s) /\ (Listens(s)' <=> Listens(s))
        /\ ContainerStays(s) /\ (Runs(s)' <=> Runs(s)) /\ SameImage(s) /\ (s \in asked' <=> s \in asked)
    BY <2>1, <1>u, ProxySame, ContainerSame
  <2>5. session[s].stopped /\ session[s].status # "unborn"
    BY <2>1, <1>h DEF Local, Late, Unused, Nothing
  <2>6. Local(s)'
    BY <1>h, <1>u, <2>1, <2>3, <2>4, <2>5
    DEF Local, Unused, Early, Late, ContainerOwned, ProxyOwned, Served, Has, SameImage, Nothing
  <2>7. s \in DOMAIN container' => \A t \in DOMAIN container \ {s} : boot[t].runtime # boot[s].runtime
    BY <2>4, SamePort DEF SameImage
  <2> QED BY <1>h, <1>u, <1>1, <2>1, <2>2, <2>4, <2>6, <2>7, SessionStep
<1> QED BY <1>2, <1>3 DEF Stop

LEMMA ContainerExitsKeeps ==
    ASSUME PreviewInv, NEW s \in Sessions, ContainerExits(s)
    PROVE  PreviewInv'
<1>h. /\ session[s] \in SessionRow /\ boot[s] \in Thread /\ stop[s] \in Stopping /\ Local(s)
  BY Here
<1>u. /\ UNCHANGED <<table, holder, request, source, seen>> /\ session' = session /\ boot' = boot /\ stop' = stop
      /\ session'[s] = session[s] /\ boot'[s] = boot[s] /\ stop'[s] = stop[s]
      /\ session' = [session EXCEPT ![s] = session[s]] /\ boot' = [boot EXCEPT ![s] = boot[s]]
      /\ stop' = [stop EXCEPT ![s] = stop[s]]
      /\ proxy' = proxy /\ container' = Removed(s) /\ client' = client /\ asked' = asked
      /\ reserved' = reserved
  BY DEF ContainerExits, Quiet, world, docker, net, reservations, PreviewInv, PreviewTypeOK
<1>1. reserved' \subseteq Ports BY <1>u DEF PreviewInv, PreviewTypeOK
<1>2. /\ ProxyStays(s) /\ (Listens(s)' <=> Listens(s))
      /\ ContainerStays(s) /\ (Runs(s)' => Runs(s)) /\ SameImage(s) /\ (s \in asked' <=> s \in asked)
      /\ s \notin DOMAIN container'
  BY <1>u, ProxySame, ContainerGone
<1>3. Local(s)'
  BY <1>h, <1>u, <1>2 DEF Local, Unused, Early, Late, ContainerOwned, ProxyOwned, Served, Has, SameImage
<1> QED BY <1>h, <1>u, <1>1, <1>2, <1>3, SessionStep

-----------------------------------------------------------------------------
(* Requests *)

\* What a stop takes it will free: it comes once to a session.
LEMMA TakeIs ==
    ASSUME PreviewInv, NEW s \in Sessions, session[s].status # "unborn", ~session[s].stopped, Take(s)
    PROVE  /\ Stopped(s) \in SessionRow /\ session' = [session EXCEPT ![s] = Stopped(s)]
           /\ session'[s] = Stopped(s)
           /\ Taken(s) \in Stopping /\ stop' = [stop EXCEPT ![s] = Taken(s)] /\ stop'[s] = Taken(s)
           /\ Stopped(s).handle = None /\ ~Stopped(s).proxy /\ Stopped(s).stopped
           /\ Stopped(s).status = "idle"
           /\ Stopped(s).project = session[s].project /\ Stopped(s).hash = session[s].hash
           /\ Stopped(s).runtimePort = (IF WorkerOwnsPorts(s) THEN session[s].runtimePort ELSE None)
           /\ Stopped(s).previewPort = (IF WorkerOwnsPorts(s) THEN session[s].previewPort ELSE None)
           /\ Taken(s).at = "running" /\ (Taken(s).server <=> session[s].proxy)
           /\ Taken(s).handle = session[s].handle
           /\ Taken(s).ports = (IF WorkerOwnsPorts(s) THEN {}
                                ELSE Given({session[s].runtimePort, session[s].previewPort}))
           /\ stop[s] = Nothing
<1>h. /\ session[s] \in SessionRow /\ stop[s] = Nothing BY Here DEF Local, Late
<1>1. session' = [session EXCEPT ![s] = Stopped(s)] /\ stop' = [stop EXCEPT ![s] = Taken(s)]
  BY DEF Take
<1>2. session'[s] = Stopped(s) /\ stop'[s] = Taken(s) BY <1>1 DEF PreviewInv, PreviewTypeOK
<1>3. Stopped(s) \in SessionRow
  <2>1. WorkerOwnsPorts(s) \in BOOLEAN BY DEF WorkerOwnsPorts
  <2> QED BY <1>h, <2>1 DEF Stopped, SessionRow, Hash, Port
<1>4. /\ Stopped(s).handle = None /\ ~Stopped(s).proxy /\ Stopped(s).stopped
      /\ Stopped(s).status = "idle"
      /\ Stopped(s).project = session[s].project /\ Stopped(s).hash = session[s].hash
      /\ Stopped(s).runtimePort = (IF WorkerOwnsPorts(s) THEN session[s].runtimePort ELSE None)
      /\ Stopped(s).previewPort = (IF WorkerOwnsPorts(s) THEN session[s].previewPort ELSE None)
  BY <1>h DEF Stopped, SessionRow
<1>5. Taken(s) \in Stopping
  <2>1. Given({session[s].runtimePort, session[s].previewPort}) \subseteq Ports
    BY <1>h DEF SessionRow, Given, Port
  <2>2. session[s].handle \in Hash /\ session[s].proxy \in BOOLEAN BY <1>h DEF SessionRow
  <2> QED BY <2>1, <2>2 DEF Taken, Stopping
<1>6. /\ Taken(s).at = "running" /\ (Taken(s).server <=> session[s].proxy)
      /\ Taken(s).handle = session[s].handle
      /\ Taken(s).ports = (IF WorkerOwnsPorts(s) THEN {}
                           ELSE Given({session[s].runtimePort, session[s].previewPort}))
  BY DEF Taken
<1> QED BY <1>h, <1>1, <1>2, <1>3, <1>4, <1>5, <1>6
LEMMA TakeKeeps ==
    ASSUME PreviewInv, NEW s \in Sessions, session[s].status # "unborn", ~session[s].stopped, Take(s),
           boot' = boot, container' = container, client' = client, asked' = asked,
           proxy' = proxy, reserved' = reserved,
           source' = source, seen' = seen, request' \in Revision, table' \in [Projects -> Sessions \cup {None}],
           holder' \in Sessions \cup {None}, Tabled'
    PROVE  PreviewInv'
<1>h. /\ session[s] \in SessionRow /\ boot[s] \in Thread /\ Local(s) /\ boot'[s] = boot[s]
  BY Here
<1> DEFINE row == Stopped(s)
           stopping == Taken(s)
<1>1. /\ row \in SessionRow /\ session' = [session EXCEPT ![s] = row] /\ session'[s] = row
      /\ stopping \in Stopping /\ stop' = [stop EXCEPT ![s] = stopping] /\ stop'[s] = stopping
      /\ row.handle = None /\ ~row.proxy /\ row.stopped /\ row.status = "idle"
      /\ row.runtimePort \in {session[s].runtimePort, None}
      /\ row.previewPort \in {session[s].previewPort, None}
      /\ stopping.at = "running" /\ (stopping.server <=> session[s].proxy)
      /\ stopping.handle = session[s].handle /\ stop[s] = Nothing
  BY TakeIs
<1>2. boot[s].at = "none" => row.runtimePort = None /\ row.previewPort = None
  BY TakeIs, <1>h DEF WorkerOwnsPorts, Local, Late
<1> HIDE DEF row, stopping
<1>3. /\ ProxyStays(s) /\ (Listens(s)' <=> Listens(s))
      /\ ContainerStays(s) /\ (Runs(s)' <=> Runs(s)) /\ SameImage(s) /\ (s \in asked' <=> s \in asked)
  BY ProxySame, ContainerSame
<1>4. Unused(s)' BY <1>1 DEF Unused
<1>5. Early(s)' BY <1>h, <1>1, <1>3 DEF Local, Early, Has, SameImage
<1>6. Late(s)' BY <1>h, <1>1, <1>2 DEF Local, Late, Empty
<1>7. ContainerOwned(s)' /\ ProxyOwned(s)' /\ Served(s)'
  BY <1>h, <1>1, <1>3 DEF Local, ContainerOwned, ProxyOwned, Served, Has, SameImage, Nothing
<1>8. Local(s)' BY <1>4, <1>5, <1>6, <1>7 DEF Local
<1>9. s \in DOMAIN container' => \A t \in DOMAIN container \ {s} : boot[t].runtime # boot[s].runtime
  BY <1>3, SamePort DEF SameImage
<1>10. reserved' \subseteq Ports /\ boot' = [boot EXCEPT ![s] = boot[s]]
  BY DEF PreviewInv, PreviewTypeOK
<1> QED BY <1>h, <1>1, <1>3, <1>8, <1>9, <1>10, AnyStep

\* Between requests no session in the table has been stopped.
LEMMA InTableIsAlive ==
    ASSUME PreviewInv, holder = None, NEW p \in Projects, table[p] # None
    PROVE  /\ table[p] \in Sessions /\ session[table[p]].status # "unborn"
           /\ session[table[p]].project = p /\ ~session[table[p]].stopped
BY Numbers DEF PreviewInv, PreviewTypeOK, Tabled

LEMMA StopPreviewKeeps ==
    ASSUME PreviewInv, NEW p \in Projects, StopPreview(p)
    PROVE  PreviewInv'
<1>1. /\ holder = None /\ table[p] # None /\ table' = [table EXCEPT ![p] = None] /\ Take(table[p])
      /\ boot' = boot /\ holder' = holder /\ reserved' = reserved /\ container' = container
      /\ client' = client /\ asked' = asked /\ proxy' = proxy /\ source' = source /\ seen' = seen
      /\ request' = request
  BY DEF StopPreview, Free, world, docker, net, reservations
<1> DEFINE s == table[p]
<1>2. /\ s \in Sessions /\ session[s].status # "unborn" /\ session[s].project = p
      /\ ~session[s].stopped
  BY <1>1, InTableIsAlive
<1>3. /\ session'[s].stopped /\ session'[s].project = p /\ session'[s].status # "unborn"
      /\ session'[s].hash = session[s].hash
      /\ \A t \in Sessions \ {s} : session'[t] = session[t]
  <2>1. /\ session' = [session EXCEPT ![s] = Stopped(s)] /\ session'[s] = Stopped(s)
        /\ Stopped(s).stopped /\ Stopped(s).status = "idle"
        /\ Stopped(s).project = session[s].project /\ Stopped(s).hash = session[s].hash
    BY <1>1, <1>2, TakeIs
  <2>2. session \in [Sessions -> SessionRow] BY DEF PreviewInv, PreviewTypeOK
  <2> HIDE DEF s
  <2>3. \A t \in Sessions \ {s} : session'[t] = session[t] BY <2>1, <2>2, <1>2
  <2> QED BY <2>1, <2>3, <1>2
<1>4. /\ table' \in [Projects -> Sessions \cup {None}] /\ holder' \in Sessions \cup {None}
      /\ table'[p] = None /\ (\A q \in Projects \ {p} : table'[q] = table[q]) /\ request' \in Revision
      /\ \A q \in Projects : table[q] \in Sessions \cup {None}
  BY <1>1 DEF PreviewInv, PreviewTypeOK
<1>5. Tabled BY DEF PreviewInv
<1> HIDE DEF s
<1>6. Tabled'
  <2>1. ASSUME NEW t \in Sessions, session'[t].status # "unborn"
        PROVE  /\ session'[t].project \in Projects /\ session'[t].hash \in Hashes
               /\ ~session'[t].stopped => table'[session'[t].project] = t
    <3>1. CASE t = s BY <3>1, <1>2, <1>3, <1>5 DEF Tabled
    <3>2. CASE t # s
      <4>1. session'[t] = session[t] BY <3>2, <1>3
      <4>2. ~session[t].stopped => session[t].project # p BY <4>1, <2>1, <3>2, <1>5 DEF Tabled, s
      <4> QED BY <4>1, <4>2, <2>1, <1>4, <1>5 DEF Tabled
    <3> QED BY <3>1, <3>2
  <2>2. ASSUME NEW q \in Projects, table'[q] # None
        PROVE  /\ session'[table'[q]].status # "unborn" /\ session'[table'[q]].project = q
               /\ session'[table'[q]].stopped => holder' = table'[q]
    <3>1. q # p /\ table'[q] = table[q] /\ table[q] \in Sessions BY <2>2, <1>4
    <3>2. session[table[q]].project = q /\ table[q] # s BY <3>1, <2>2, <1>2, <1>5 DEF Tabled
    <3>3. session'[table[q]] = session[table[q]] BY <3>1, <3>2, <1>3
    <3> QED BY <3>1, <3>3, <2>2, <1>1, <1>5 DEF Tabled
  <2> QED BY <2>1, <2>2, <1>1 DEF Tabled
<1> QED BY <1>1, <1>2, <1>4, <1>6, TakeKeeps DEF s

LEMMA StartOverKeeps ==
    ASSUME PreviewInv, NEW p \in Projects, StartOver(p)
    PROVE  PreviewInv'
<1>1. /\ holder = None /\ table[p] # None /\ table' = table /\ Take(table[p])
      /\ boot' = boot /\ holder' = table[p] /\ reserved' = reserved /\ container' = container
      /\ client' = client /\ asked' = asked /\ proxy' = proxy /\ source' = source /\ seen' = seen
      /\ request' \in seen[p]
  BY DEF StartOver, Free, world, docker, net, reservations
<1> DEFINE s == table[p]
<1>2. /\ s \in Sessions /\ session[s].status # "unborn" /\ session[s].project = p
      /\ ~session[s].stopped
  BY <1>1, InTableIsAlive
<1>3. /\ session'[s].stopped /\ session'[s].project = p /\ session'[s].status # "unborn"
      /\ session'[s].hash = session[s].hash
      /\ \A t \in Sessions \ {s} : session'[t] = session[t]
  <2>1. /\ session' = [session EXCEPT ![s] = Stopped(s)] /\ session'[s] = Stopped(s)
        /\ Stopped(s).stopped /\ Stopped(s).status = "idle"
        /\ Stopped(s).project = session[s].project /\ Stopped(s).hash = session[s].hash
    BY <1>1, <1>2, TakeIs
  <2>2. session \in [Sessions -> SessionRow] BY DEF PreviewInv, PreviewTypeOK
  <2> HIDE DEF s
  <2>3. \A t \in Sessions \ {s} : session'[t] = session[t] BY <2>1, <2>2, <1>2
  <2> QED BY <2>1, <2>3, <1>2
<1>4. /\ table' \in [Projects -> Sessions \cup {None}] /\ holder' \in Sessions \cup {None}
      /\ (\A q \in Projects : table[q] \in Sessions \cup {None}) /\ request' \in Revision
  BY <1>1, <1>2 DEF PreviewInv, PreviewTypeOK
<1>5. Tabled BY DEF PreviewInv
<1>6. Tabled'
  <2>1. ASSUME NEW t \in Sessions, session'[t].status # "unborn"
        PROVE  /\ session'[t].project \in Projects /\ session'[t].hash \in Hashes
               /\ ~session'[t].stopped => table'[session'[t].project] = t
    <3>1. CASE t = s BY <3>1, <1>2, <1>3, <1>5 DEF Tabled
    <3>2. CASE t # s
      <4>1. session'[t] = session[t] BY <3>2, <1>3
      <4> QED BY <4>1, <2>1, <1>1, <1>5 DEF Tabled
    <3> QED BY <3>1, <3>2
  <2>2. ASSUME NEW q \in Projects, table'[q] # None
        PROVE  /\ session'[table'[q]].status # "unborn" /\ session'[table'[q]].project = q
               /\ session'[table'[q]].stopped => holder' = table'[q]
    <3>1. table'[q] = table[q] /\ table[q] \in Sessions BY <2>2, <1>1, <1>4
    <3>2. CASE table[q] = s
      <4>1. session[s].project = q BY <3>1, <3>2, <2>2, <1>5 DEF Tabled
      <4> QED BY <4>1, <3>1, <3>2, <1>1, <1>2, <1>3
    <3>3. CASE table[q] # s
      <4>1. session'[table[q]] = session[table[q]] BY <3>1, <3>3, <1>3
      <4>2. ~session[table[q]].stopped BY <3>1, <2>2, <1>1, InTableIsAlive
      <4> QED BY <4>1, <4>2, <3>1, <2>2, <1>5 DEF Tabled
    <3> QED BY <3>2, <3>3
  <2>3. /\ session'[s].status # "unborn" /\ session'[s].stopped /\ table'[session'[s].project] = s
        /\ holder' = s
    BY <1>1, <1>3
  <2> QED BY <2>1, <2>2, <2>3 DEF Tabled
<1> QED BY <1>1, <1>2, <1>4, <1>6, TakeKeeps

\* A new session takes the place of none, or of the one that was stopped for it.
LEMMA CreatedKeeps ==
    ASSUME PreviewInv, NEW s \in Sessions, NEW p \in Projects, NEW revision \in Revision,
           Created(s, p, revision), holder' = None, request' \in Revision,
           \/ holder = None /\ table[p] = None
           \/ holder # None /\ p = session[holder].project
    PROVE  PreviewInv'
<1> DEFINE row == [Unborn EXCEPT !.project = p, !.hash = revision.hash,
                      !.pinned = revision.pinned, !.status = "starting"]
           thread == [boot[s] EXCEPT !.at = "begin"]
<1>1. /\ session' = [session EXCEPT ![s] = row] /\ boot' = [boot EXCEPT ![s] = thread]
      /\ table' = [table EXCEPT ![p] = s] /\ stop' = stop /\ reserved' = reserved
      /\ container' = container /\ client' = client /\ asked' = asked /\ proxy' = proxy /\ source' = source
      /\ seen' = seen /\ stop' = [stop EXCEPT ![s] = stop[s]]
  BY DEF Created, world, docker, net, reservations, PreviewInv, PreviewTypeOK
<1>h. /\ boot[s] \in Thread /\ stop[s] \in Stopping /\ stop'[s] = stop[s] /\ s # None
  BY <1>1, Here
<1>2. session[s].status = "unborn"
  <2>1. s < s <=> s \in Born BY DEF Created, NextNumber
  <2>2. ~(s < s) BY Numbers
  <2> QED BY <2>1, <2>2 DEF Born
<1>3. boot[s] = NoThread /\ stop[s] = Nothing /\ ~Runs(s) /\ ~Listens(s) /\ s \notin asked
  BY <1>2, Here DEF Local, Unused
<1>4. revision.hash \in Hashes /\ revision.pinned \in BOOLEAN BY DEF Revision
<1>5. row \in SessionRow BY <1>4 DEF Unborn, SessionRow, Hash, Port
<1>6. /\ row.project = p /\ row.hash \in Hashes /\ row.status = "starting" /\ ~row.stopped
      /\ row.handle = None /\ ~row.proxy /\ row.runtimePort = None /\ row.previewPort = None
  BY <1>4 DEF Unborn
<1>7. thread \in Thread /\ thread.at = "begin" BY <1>h DEF Thread, Places
<1> HIDE DEF row, thread
<1>8. /\ session'[s] = row /\ boot'[s] = thread
      /\ \A t \in Sessions \ {s} : session'[t] = session[t]
  BY <1>1 DEF PreviewInv, PreviewTypeOK
<1>9. /\ ProxyStays(s) /\ ~Listens(s)' /\ ContainerStays(s) /\ ~Runs(s)'
      /\ s \notin asked' /\ s \notin DOMAIN container'
  BY <1>1, <1>3, ProxySame, ContainerSame DEF Runs
<1>10. Local(s)'
  BY <1>3, <1>6, <1>7, <1>8, <1>9, <1>h
  DEF Local, Unused, Early, Late, ContainerOwned, ProxyOwned, Served, Has, SameImage, Nothing
<1>11. /\ table' \in [Projects -> Sessions \cup {None}]
       /\ table'[p] = s /\ \A q \in Projects \ {p} : table'[q] = table[q]
       /\ \A q \in Projects : table[q] \in Sessions \cup {None}
       /\ reserved' \subseteq Ports
  BY <1>1 DEF PreviewInv, PreviewTypeOK
<1>12. Tabled BY DEF PreviewInv
<1>13. ASSUME NEW t \in Sessions \ {s}, session[t].status # "unborn", ~session[t].stopped
       PROVE  session[t].project # p
  <2>1. table[session[t].project] = t BY <1>13, <1>12 DEF Tabled
  <2>2. t # None BY Numbers
  <2>3. CASE holder # None /\ p = session[holder].project
    BY <2>1, <2>3, <1>12, <1>13 DEF Tabled
  <2> QED BY <2>1, <2>2, <2>3
<1>14. Tabled'
  <2>1. ASSUME NEW t \in Sessions, session'[t].status # "unborn"
        PROVE  /\ session'[t].project \in Projects /\ session'[t].hash \in Hashes
               /\ ~session'[t].stopped => table'[session'[t].project] = t
    <3>1. CASE t = s BY <3>1, <1>6, <1>8, <1>11
    <3>2. CASE t # s BY <3>2, <2>1, <1>8, <1>11, <1>12, <1>13 DEF Tabled
    <3> QED BY <3>1, <3>2
  <2>2. ASSUME NEW q \in Projects, table'[q] # None
        PROVE  /\ session'[table'[q]].status # "unborn" /\ session'[table'[q]].project = q
               /\ ~session'[table'[q]].stopped
    <3>1. CASE q = p BY <3>1, <1>6, <1>8, <1>11
    <3>2. CASE q # p
      <4>1. table'[q] = table[q] /\ table[q] \in Sessions BY <3>2, <2>2, <1>11
      <4>2. session[table[q]].status # "unborn" /\ session[table[q]].project = q
        BY <4>1, <2>2, <1>12 DEF Tabled
      <4>3. table[q] # s /\ session'[table[q]] = session[table[q]] BY <4>1, <4>2, <1>2, <1>8
      <4>4. ~session[table[q]].stopped
        <5>1. SUFFICES ASSUME session[table[q]].stopped PROVE FALSE OBVIOUS
        <5>2. holder = table[q] BY <5>1, <4>1, <2>2, <1>12 DEF Tabled
        <5>3. holder # None BY <5>2, <4>1, Numbers
        <5> QED BY <5>2, <5>3, <4>2, <3>2
      <4> QED BY <4>1, <4>2, <4>3, <4>4
    <3> QED BY <3>1, <3>2
  <2> QED BY <2>1, <2>2 DEF Tabled
<1>15. holder' \in Sessions \cup {None} OBVIOUS
<1> QED BY <1>1, <1>h, <1>5, <1>7, <1>9, <1>10, <1>11, <1>14, <1>15, AnyStep

LEMMA StartKeeps ==
    ASSUME PreviewInv, NEW s \in Sessions, NEW p \in Projects, Start(s, p)
    PROVE  PreviewInv'
<1>1. PICK revision \in seen[p] : Created(s, p, revision) BY DEF Start
<1>2. /\ holder = None /\ table[p] = None /\ holder' = None /\ request' \in Revision
      /\ revision \in Revision
  BY DEF Start, Free, PreviewInv, PreviewTypeOK
<1> QED BY <1>1, <1>2, CreatedKeeps
LEMMA ReplaceKeeps ==
    ASSUME PreviewInv, NEW s \in Sessions, Replace(s)
    PROVE  PreviewInv'
<1>1. holder # None /\ holder' = None /\ Created(s, session[holder].project, request)
  BY DEF Replace, Free
<1>2. session[holder].project \in Projects /\ request \in Revision
  BY <1>1 DEF PreviewInv, PreviewTypeOK, Tabled
<1>3. request' \in Revision BY PreviewAssumption DEF Replace, FirstRevision, Revision
<1> QED BY <1>1, <1>2, <1>3, CreatedKeeps

LEMMA PublishKeeps ==
    ASSUME PreviewInv, NEW p \in Projects, Publish(p)
    PROVE  PreviewInv'
<1>1. UNCHANGED <<session, boot, stop, table, holder, request, reserved, client, container, asked, proxy>>
  BY DEF Publish, docker, net, reservations
<1>2. source' \in [Projects -> Revision] /\ seen' \in [Projects -> SUBSET Revision]
  <2>1. PICK h \in Hashes :
           /\ source' = [source EXCEPT ![p] = [hash |-> h, pinned |-> TRUE]]
           /\ seen' = [seen EXCEPT ![p] = seen[p] \union {[hash |-> h, pinned |-> TRUE]}]
    BY DEF Publish
  <2>2. [hash |-> h, pinned |-> TRUE] \in Revision BY DEF Revision
  <2> QED BY <2>1, <2>2 DEF PreviewInv, PreviewTypeOK
<1>3. PreviewTypeOK' BY <1>1, <1>2 DEF PreviewInv, PreviewTypeOK
<1>4. \A s \in Sessions : Local(s)'
  BY <1>1 DEF PreviewInv, Local, Unused, Early, Late, ContainerOwned, ProxyOwned, Served, Has, SameImage, Runs, Listens
<1>5. Tabled' /\ OnePerPort' BY <1>1 DEF PreviewInv, Tabled, OnePerPort
<1> QED BY <1>3, <1>4, <1>5 DEF PreviewInv

\* A step of a port nobody serves, or none at all.
LEMMA StutterKeeps ==
    ASSUME PreviewInv, UNCHANGED vars \/ \E p \in Ports : SocketCloses(p)
    PROVE  PreviewInv'
<1>1. UNCHANGED <<session, boot, stop, table, holder, request, reserved, client, container, asked,
                  proxy, source, seen>>
  BY DEF vars, docker, net, world, reservations, SocketCloses
<1>2. PreviewTypeOK' BY <1>1 DEF PreviewInv, PreviewTypeOK
<1>3. \A s \in Sessions : Local(s)'
  BY <1>1 DEF PreviewInv, Local, Unused, Early, Late, ContainerOwned, ProxyOwned, Served, Has, SameImage, Runs, Listens
<1>4. Tabled' /\ OnePerPort' BY <1>1 DEF PreviewInv, Tabled, OnePerPort
<1> QED BY <1>2, <1>3, <1>4 DEF PreviewInv

LEMMA InitInv == Init => PreviewInv
<1> SUFFICES ASSUME Init PROVE PreviewInv OBVIOUS
<1>1. PreviewTypeOK
  <2>1. Unborn \in SessionRow BY DEF Unborn, SessionRow, Hash, Port
  <2>2. NoThread \in Thread BY DEF NoThread, Thread, Places, Hash, Port
  <2>3. Nothing \in Stopping BY DEF Nothing, Stopping, Hash
  <2>4. First \in Hashes BY PreviewAssumption
  <2>5. DOMAIN container = {} /\ DOMAIN client = {} BY DEF Init
  <2>6. FirstRevision \in Revision BY <2>4 DEF FirstRevision, Revision
  <2> QED BY <2>1, <2>2, <2>3, <2>4, <2>5, <2>6 DEF Init, PreviewTypeOK
<1>2. ASSUME NEW s \in Sessions PROVE Local(s)
  <2>1. session[s] = Unborn /\ boot[s] = NoThread /\ stop[s] = Nothing BY DEF Init
  <2>2. ~Runs(s) /\ ~Listens(s) /\ s \notin asked BY Numbers DEF Init, Runs, Listens
  <2> QED BY <2>1, <2>2 DEF Local, Unused, Early, Late, ContainerOwned, ProxyOwned, Served,
                           Unborn, NoThread, Nothing
<1>3. Tabled BY DEF Init, Tabled, Unborn
<1>4. OnePerPort BY DEF Init, OnePerPort
<1> QED BY <1>1, <1>2, <1>3, <1>4 DEF PreviewInv

LEMMA BootKeeps == ASSUME PreviewInv, NEW s \in Sessions, Boot(s) PROVE PreviewInv'
BY FindRuntimePortKeeps, FindPreviewPortKeeps, RecordPortsKeeps, RunContainerKeeps, RecordHandleKeeps,
   WaitsKeep, StartProxyKeeps, NoteProxyKeeps, MakeReadyKeeps, TakeBackKeeps, CleanUpKeeps
DEF Boot

LEMMA PreviewStep == PreviewInv /\ [Next]_vars => PreviewInv'
<1> SUFFICES ASSUME PreviewInv, [Next]_vars PROVE PreviewInv' OBVIOUS
<1>1. CASE \E p \in Projects : Publish(p) \/ StartOver(p) \/ StopPreview(p)
  BY <1>1, PublishKeeps, StartOverKeeps, StopPreviewKeeps
<1>2. CASE \E s \in Sessions, p \in Projects : Start(s, p) BY <1>2, StartKeeps
<1>3. CASE \E s \in Sessions : Replace(s) \/ Boot(s) \/ Stop(s) \/ ContainerComes(s) \/ ContainerExits(s)
  BY <1>3, ReplaceKeeps, BootKeeps, StopKeeps, ContainerComesKeeps, ContainerExitsKeeps
<1>4. CASE UNCHANGED vars \/ \E p \in Ports : SocketCloses(p) BY <1>4, StutterKeeps
<1> QED BY <1>1, <1>2, <1>3, <1>4 DEF Next

-----------------------------------------------------------------------------
(* Ports *)

\* Who works for a session, or lists it, is there to give back what the session has.
LEMMA HeldIsSeen ==
    ASSUME PreviewInv, NEW s \in Sessions, ~Empty(session[s])
    PROVE  s \in Born /\ (InTable(s) \/ Working(s))
<1>1. s \in Born BY Here DEF Local, Unused, Unborn, Empty, Born
<1>2. CASE session[s].stopped BY <1>1, <1>2, Here DEF Local, Late, Working
<1>3. CASE ~session[s].stopped BY <1>1, <1>3 DEF PreviewInv, Tabled, InTable, Born
<1> QED BY <1>1, <1>2, <1>3

\* Only the session's own rows change.
Others(s) ==
    \A t \in Sessions \ {s} : session'[t] = session[t] /\ boot'[t] = boot[t] /\ stop'[t] = stop[t]
Own(s) == Boot(s) \/ Stop(s) \/ ContainerComes(s) \/ ContainerExits(s) \/ (Take(s) /\ boot' = boot)
\* A port that s keeps is kept by s after its step, or is free, or lost.
PortsStay(s) ==
    /\ Others(s) /\ lost \subseteq lost'
    /\ \A p \in Ports : p \in reserved' => p \in reserved \/ p \in lost' \/ Keeps(s, p)'
    /\ \A p \in Ports : p \in reserved' /\ Keeps(s, p) => p \in lost' \/ Keeps(s, p)'
LEMMA StaysOwned ==
    ASSUME PortsOwned, reserved' \subseteq Ports, NEW s \in Sessions, PortsStay(s)
    PROVE  PortsOwned'
<1> SUFFICES ASSUME NEW p \in reserved' \ lost' PROVE \E t \in Sessions : Keeps(t, p)'
  BY DEF PortsOwned
<1>1. CASE p \notin reserved BY <1>1 DEF PortsStay
<1>2. CASE p \in reserved
  <2>1. PICK t \in Sessions : Keeps(t, p) BY <1>2 DEF PortsOwned, PortsStay
  <2>2. CASE t = s BY <2>1, <2>2, <1>2 DEF PortsStay
  <2>3. CASE t # s
    <3>1. session'[t] = session[t] /\ boot'[t] = boot[t] /\ stop'[t] = stop[t]
      BY <2>3 DEF PortsStay, Others
    <3>2. Keeps(t, p)' BY <2>1, <3>1 DEF Keeps
    <3> QED BY <3>2
  <2> QED BY <2>2, <2>3
<1> QED BY <1>1, <1>2

LEMMA OnlyItsOwn ==
    ASSUME PreviewInv, NEW s \in Sessions, Own(s)
    PROVE  Others(s)
<1>t. /\ session \in [Sessions -> SessionRow] /\ boot \in [Sessions -> Thread]
      /\ stop \in [Sessions -> Stopping]
  BY DEF PreviewInv, PreviewTypeOK
<1>1. CASE FindRuntimePort(s) \/ FindPreviewPort(s) BY <1>1, <1>t DEF Others, FindRuntimePort, FindPreviewPort, Go
<1>2. CASE RecordPorts(s) \/ RecordHandle(s) BY <1>2, <1>t DEF Others, RecordPorts, RecordHandle, Go
<1>3. CASE RunContainer(s) BY <1>3, <1>t DEF Others, RunContainer, Fails, Go
<1>4. CASE WaitForContainer(s) \/ WaitForPage(s)
  BY <1>4, <1>t DEF Others, WaitForContainer, WaitForPage, Fails, Go
<1>5. CASE StartProxy(s) \/ NoteProxy(s) \/ MakeReady(s)
  BY <1>5, <1>t DEF Others, StartProxy, NoteProxy, MakeReady, Fails, Go
<1>6. CASE TakeBack(s) \/ CleanUp(s) BY <1>6, <1>t DEF Others, TakeBack, CleanUp, Go
<1>7. CASE Stop(s) BY <1>7, <1>t DEF Others, Stop, StopRunning, ReleasePorts
<1>8. CASE ContainerComes(s) \/ ContainerExits(s)
  BY <1>8 DEF Others, ContainerComes, ContainerExits, Quiet
<1>9. CASE Take(s) /\ boot' = boot BY <1>9, <1>t DEF Others, Take
<1> QED BY <1>1, <1>2, <1>3, <1>4, <1>5, <1>6, <1>7, <1>8, <1>9 DEF Own, Boot

LEMMA RuntimePortStays ==
    ASSUME PreviewInv, NEW s \in Sessions, FindRuntimePort(s)
    PROVE  PortsStay(s)
<1>1. /\ boot[s].at = "begin" /\ reserved' = reserved /\ lost' = lost /\ stop' = stop
      /\ session' = [session EXCEPT ![s] = [session[s] EXCEPT !.status = "starting"]]
  BY DEF FindRuntimePort, reservations
<1>2. session[s] \in SessionRow /\ boot[s] \in Thread BY Here
<1>3. /\ session'[s].runtimePort = session[s].runtimePort
      /\ session'[s].previewPort = session[s].previewPort
  BY <1>1, <1>2 DEF PreviewInv, PreviewTypeOK, SessionRow
<1>4. \A p \in Ports : Keeps(s, p) => Keeps(s, p)' BY <1>1, <1>3 DEF Keeps
<1>5. Others(s) BY OnlyItsOwn DEF Own, Boot
<1> QED BY <1>1, <1>4, <1>5 DEF PortsStay

\* The first port is known to the thread, if it goes on, and lost otherwise.
LEMMA PreviewPortStays ==
    ASSUME PreviewInv, NEW s \in Sessions, FindPreviewPort(s)
    PROVE  PortsStay(s)
<1>1. /\ boot[s].at = "reserve" /\ reserved' = reserved \union {boot[s].runtime}
      /\ session' = session /\ stop' = stop
  BY DEF FindPreviewPort
<1>2. boot[s] \in Thread /\ boot \in [Sessions -> Thread] BY DEF PreviewInv, PreviewTypeOK
<1>3. Others(s) BY OnlyItsOwn DEF Own, Boot
<1>4. CASE Available \ {boot[s].runtime} = {}
  <2>1. Go(s, "except") /\ "except" \in Places /\ lost' = lost \union {boot[s].runtime}
    BY <1>4 DEF FindPreviewPort, Places
  <2>2. PICK thread : Moves(s, thread, "except") BY <2>1, GoMoves
  <2>3. \A p \in Ports : Keeps(s, p) => Keeps(s, p)' BY <1>1, <2>2 DEF Keeps, Moves
  <2> QED BY <1>1, <1>3, <2>1, <2>3 DEF PortsStay
<1>5. CASE Available \ {boot[s].runtime} # {}
  <2> DEFINE thread == [boot[s] EXCEPT !.at = "record", !.preview = Least(Available \ {boot[s].runtime})]
  <2>1. boot' = [boot EXCEPT ![s] = thread] /\ lost' = lost BY <1>5 DEF FindPreviewPort
  <2>2. thread.at = "record" /\ thread.runtime = boot[s].runtime BY <1>2 DEF Thread
  <2> HIDE DEF thread
  <2>3. boot'[s] = thread BY <1>2, <2>1
  <2>4. \A p \in Ports : p = boot[s].runtime => Keeps(s, p)' BY <2>2, <2>3 DEF Keeps
  <2>5. \A p \in Ports : Keeps(s, p) => Keeps(s, p)' BY <1>1, <2>2, <2>3 DEF Keeps
  <2> QED BY <1>1, <1>3, <2>1, <2>4, <2>5 DEF PortsStay
<1> QED BY <1>4, <1>5

\* Ports that the stopped boot kept, or recorded.
LEMMA RecordPortsStay ==
    ASSUME PreviewInv, NEW s \in Sessions, RecordPorts(s)
    PROVE  PortsStay(s)
<1>1. boot[s].at = "record" /\ stop' = stop /\ lost' = lost /\ Others(s)
  BY OnlyItsOwn DEF RecordPorts, Own, Boot
<1>2. session[s] \in SessionRow /\ boot[s] \in Thread BY Here
<1>3. session[s].runtimePort = None /\ session[s].previewPort = None
  BY <1>1, Here DEF Local, Early
<1>4. CASE session[s].stopped
  <2>1. /\ Go(s, "none") /\ "none" \in Places /\ session' = session
        /\ reserved' = reserved \ {boot[s].runtime, boot[s].preview}
    BY <1>4 DEF RecordPorts, Places
  <2>2. PICK thread : Moves(s, thread, "none") BY <2>1, GoMoves
  <2>3. \A p \in Ports : p \in reserved' /\ Keeps(s, p) => Keeps(s, p)'
    BY <1>1, <1>3, <2>1, <2>2 DEF Keeps, Moves
  <2> QED BY <1>1, <2>1, <2>3 DEF PortsStay
<1>5. CASE ~session[s].stopped
  <2> DEFINE row == [session[s] EXCEPT !.runtimePort = boot[s].runtime, !.previewPort = boot[s].preview]
  <2>1. /\ Go(s, "run") /\ "run" \in Places /\ session' = [session EXCEPT ![s] = row]
        /\ reserved' = reserved \union {boot[s].preview}
    BY <1>5 DEF RecordPorts, Places
  <2>2. PICK thread : Moves(s, thread, "run") BY <2>1, GoMoves
  <2>3. row.runtimePort = boot[s].runtime /\ row.previewPort = boot[s].preview
    BY <1>2 DEF SessionRow
  <2> HIDE DEF row
  <2>4. session'[s] = row BY <2>1 DEF PreviewInv, PreviewTypeOK
  <2>5. \A p \in Ports : p \in {boot[s].runtime, boot[s].preview} => Keeps(s, p)'
    BY <2>3, <2>4 DEF Keeps
  <2>6. \A p \in Ports : Keeps(s, p) => Keeps(s, p)'
    <3> SUFFICES ASSUME NEW p \in Ports, Keeps(s, p) PROVE Keeps(s, p)' OBVIOUS
    <3>1. p = boot[s].runtime \/ p \in stop[s].ports BY <1>1, <1>3, Numbers DEF Keeps
    <3>2. p \in stop[s].ports => Keeps(s, p)' BY <1>1 DEF Keeps
    <3> QED BY <3>1, <3>2, <2>5
  <2> QED BY <1>1, <2>1, <2>5, <2>6 DEF PortsStay
<1> QED BY <1>4, <1>5

LEMMA RunContainerPorts ==
    ASSUME PreviewInv, NEW s \in Sessions, RunContainer(s)
    PROVE  PortsStay(s)
<1>1. boot[s].at = "run" /\ stop' = stop /\ session' = session /\ reserved' = reserved
      /\ lost' = lost /\ Others(s)
  BY OnlyItsOwn DEF RunContainer, Own, Boot, reservations
<1>2. \A p \in Ports : Keeps(s, p) => Keeps(s, p)' BY <1>1 DEF Keeps
<1> QED BY <1>1, <1>2 DEF PortsStay

\* The ports of a container that was stopped too early are freed with it.
LEMMA RecordHandlePorts ==
    ASSUME PreviewInv, NEW s \in Sessions, RecordHandle(s)
    PROVE  PortsStay(s)
<1>1. boot[s].at = "handle" /\ stop' = stop /\ Others(s)
  BY OnlyItsOwn DEF RecordHandle, Own, Boot
<1>2. session[s] \in SessionRow /\ boot[s] \in Thread BY Here
<1>3. {session[s].runtimePort, session[s].previewPort} \subseteq {boot[s].runtime, boot[s].preview, None}
  BY <1>1, Here DEF Local, Early
<1>4. CASE session[s].stopped
  <2>1. \/ reserved' = reserved \ {boot[s].runtime, boot[s].preview} /\ lost' = lost
        \/ reserved' = reserved /\ lost' = lost \union {boot[s].runtime, boot[s].preview}
    BY <1>4 DEF RecordHandle
  <2>2. \A p \in Ports : Keeps(s, p) /\ p \in reserved' => p \in lost' \/ p \in stop[s].ports
    BY <1>1, <1>3, <2>1, Numbers DEF Keeps
  <2>3. \A p \in Ports : p \in stop[s].ports => Keeps(s, p)' BY <1>1 DEF Keeps
  <2>4. reserved' \subseteq reserved /\ lost \subseteq lost' BY <2>1
  <2> QED BY <1>1, <2>2, <2>3, <2>4 DEF PortsStay
<1>5. CASE ~session[s].stopped
  <2> DEFINE row == [session[s] EXCEPT !.handle = boot[s].handle]
  <2>1. session' = [session EXCEPT ![s] = row] /\ reserved' = reserved /\ lost' = lost
    BY <1>5 DEF RecordHandle, reservations
  <2>2. row.runtimePort = session[s].runtimePort /\ row.previewPort = session[s].previewPort
    BY <1>2 DEF SessionRow
  <2> HIDE DEF row
  <2>3. session'[s] = row BY <2>1 DEF PreviewInv, PreviewTypeOK
  <2>4. \A p \in Ports : Keeps(s, p) => Keeps(s, p)' BY <1>1, <2>2, <2>3 DEF Keeps
  <2> QED BY <1>1, <2>1, <2>4 DEF PortsStay
<1> QED BY <1>4, <1>5

\* Steps that neither reserve nor free a port.
LEMMA QuietPorts ==
    ASSUME PreviewInv, NEW s \in Sessions,
           WaitForContainer(s) \/ StartProxy(s) \/ NoteProxy(s) \/ WaitForPage(s) \/ MakeReady(s)
    PROVE  PortsStay(s)
<1>1. /\ stop' = stop /\ reserved' = reserved /\ lost' = lost /\ Others(s)
      /\ boot[s].at \in {"wait", "proxy", "note", "page", "final"}
  BY OnlyItsOwn
  DEF WaitForContainer, StartProxy, NoteProxy, WaitForPage, MakeReady, Own, Boot, reservations
<1>2. session[s] \in SessionRow BY Here
<1>3. /\ session'[s].runtimePort = session[s].runtimePort
      /\ session'[s].previewPort = session[s].previewPort
  <2>1. CASE session' = session BY <2>1
  <2>2. CASE session' = [session EXCEPT ![s] = [session[s] EXCEPT !.proxy = TRUE]]
    BY <2>2, <1>2 DEF PreviewInv, PreviewTypeOK, SessionRow
  <2>3. CASE session' = [session EXCEPT ![s] = [session[s] EXCEPT !.status = "ready"]]
    BY <2>3, <1>2 DEF PreviewInv, PreviewTypeOK, SessionRow
  <2> QED BY <2>1, <2>2, <2>3 DEF WaitForContainer, StartProxy, NoteProxy, WaitForPage, MakeReady
<1>4. \A p \in Ports : Keeps(s, p) => Keeps(s, p)' BY <1>1, <1>3 DEF Keeps
<1> QED BY <1>1, <1>4 DEF PortsStay

\* The handler keeps what it takes from the session.
LEMMA TakeBackPorts ==
    ASSUME PreviewInv, NEW s \in Sessions, TakeBack(s)
    PROVE  PortsStay(s)
<1>1. /\ boot[s].at = "except" /\ stop' = stop /\ reserved' = reserved /\ lost' = lost
      /\ Others(s)
  BY OnlyItsOwn DEF TakeBack, Own, Boot, reservations
<1>2. boot[s] \in Thread BY Here
<1> DEFINE thread == [boot[s] EXCEPT !.at = "running",
                         !.handle = session[s].handle, !.server = session[s].proxy,
                         !.ports = Given({session[s].runtimePort, session[s].previewPort})]
<1>3. boot' = [boot EXCEPT ![s] = thread] BY DEF TakeBack
<1>4. thread.at = "running" /\ thread.ports = Given({session[s].runtimePort, session[s].previewPort})
  BY <1>2 DEF Thread
<1> HIDE DEF thread
<1>5. boot'[s] = thread BY <1>3 DEF PreviewInv, PreviewTypeOK
<1>6. \A p \in Ports : Keeps(s, p) => Keeps(s, p)'
  BY <1>1, <1>4, <1>5, Numbers DEF Keeps, Given
<1> QED BY <1>1, <1>6 DEF PortsStay

LEMMA CleanUpPorts ==
    ASSUME PreviewInv, NEW s \in Sessions, CleanUp(s)
    PROVE  PortsStay(s)
<1>1. session' = session /\ stop' = stop /\ Others(s) BY OnlyItsOwn DEF CleanUp, Own, Boot
<1>2. CASE boot[s].at = "running"
  <2>1. PICK at \in {"ports", "none"} :
           /\ Go(s, at) /\ reserved' = reserved
           /\ \/ at = "ports" /\ lost' = lost
              \/ at = "none" /\ lost' = lost \union boot[s].ports
    BY <1>2 DEF CleanUp
  <2>at. at \in Places BY DEF Places
  <2>2. PICK thread : Moves(s, thread, at) BY <2>1, <2>at, GoMoves
  <2>3. \A p \in Ports : Keeps(s, p) => p \in lost' \/ Keeps(s, p)'
    BY <1>1, <1>2, <2>1, <2>2 DEF Keeps, Moves
  <2> QED BY <1>1, <2>1, <2>3 DEF PortsStay
<1>3. CASE boot[s].at = "ports"
  <2>1. reserved' = reserved \ boot[s].ports /\ lost' = lost BY <1>3 DEF CleanUp
  <2>2. \A p \in Ports : p \in reserved' /\ Keeps(s, p) => Keeps(s, p)'
    BY <1>1, <1>3, <2>1 DEF Keeps
  <2> QED BY <1>1, <2>1, <2>2 DEF PortsStay
<1> QED BY <1>2, <1>3 DEF CleanUp

LEMMA StopPorts ==
    ASSUME PreviewInv, NEW s \in Sessions, Stop(s)
    PROVE  PortsStay(s)
<1>1. session' = session /\ boot' = boot /\ lost' = lost /\ Others(s)
  BY OnlyItsOwn DEF Stop, StopRunning, ReleasePorts, Own, reservations
<1>2. CASE StopRunning(s)
  <2>1. reserved' = reserved /\ stop' = [stop EXCEPT ![s] = [stop[s] EXCEPT !.at = "ports"]]
    BY <1>2 DEF StopRunning, reservations
  <2>2. stop[s] \in Stopping BY Here
  <2>3. stop'[s].ports = stop[s].ports BY <2>1, <2>2 DEF PreviewInv, PreviewTypeOK, Stopping
  <2>4. \A p \in Ports : Keeps(s, p) => Keeps(s, p)' BY <1>1, <2>3 DEF Keeps
  <2> QED BY <1>1, <2>1, <2>4 DEF PortsStay
<1>3. CASE ReleasePorts(s)
  <2>1. reserved' = reserved \ stop[s].ports BY <1>3 DEF ReleasePorts
  <2>2. \A p \in Ports : p \in reserved' /\ Keeps(s, p) => Keeps(s, p)' BY <1>1, <2>1 DEF Keeps
  <2> QED BY <1>1, <2>1, <2>2 DEF PortsStay
<1> QED BY <1>2, <1>3 DEF Stop

LEMMA ContainerPorts ==
    ASSUME PreviewInv, NEW s \in Sessions, ContainerComes(s) \/ ContainerExits(s)
    PROVE  PortsStay(s)
<1>1. /\ session' = session /\ boot' = boot /\ stop' = stop /\ reserved' = reserved /\ lost' = lost
      /\ Others(s)
  BY OnlyItsOwn DEF ContainerComes, ContainerExits, Own, reservations
<1>2. \A p \in Ports : Keeps(s, p) => Keeps(s, p)' BY <1>1 DEF Keeps
<1> QED BY <1>1, <1>2 DEF PortsStay

\* A stop takes the ports or leaves them where they are.
LEMMA TakePorts ==
    ASSUME PreviewInv, NEW s \in Sessions, session[s].status # "unborn", ~session[s].stopped,
           Take(s), boot' = boot, reserved' = reserved, lost' = lost
    PROVE  PortsStay(s)
<1>1. Others(s) BY OnlyItsOwn DEF Own
<1>2. stop[s] = Nothing /\ session'[s] = Stopped(s) /\ stop'[s] = Taken(s)
      /\ Stopped(s).runtimePort = (IF WorkerOwnsPorts(s) THEN session[s].runtimePort ELSE None)
      /\ Stopped(s).previewPort = (IF WorkerOwnsPorts(s) THEN session[s].previewPort ELSE None)
      /\ Taken(s).ports = (IF WorkerOwnsPorts(s) THEN {}
                           ELSE Given({session[s].runtimePort, session[s].previewPort}))
  BY TakeIs
<1>3. stop[s].ports = {} BY <1>2 DEF Nothing
<1>4. ASSUME NEW p \in Ports, Keeps(s, p) PROVE Keeps(s, p)'
  <2>1. CASE p \in {session[s].runtimePort, session[s].previewPort}
    <3>1. CASE WorkerOwnsPorts(s) BY <2>1, <3>1, <1>2 DEF Keeps
    <3>2. CASE ~WorkerOwnsPorts(s)
      <4>1. p \in Taken(s).ports BY <2>1, <3>2, <1>2, Numbers DEF Given
      <4> QED BY <4>1, <1>2 DEF Keeps
    <3> QED BY <3>1, <3>2
  <2>2. CASE p \notin {session[s].runtimePort, session[s].previewPort}
    BY <2>2, <1>3, <1>4 DEF Keeps
  <2> QED BY <2>1, <2>2
<1> QED BY <1>1, <1>4 DEF PortsStay

\* A new session keeps what no session kept.
LEMMA CreatedPorts ==
    ASSUME PreviewInv, NEW s \in Sessions, NEW p \in Projects, NEW revision, Created(s, p, revision)
    PROVE  PortsStay(s)
<1>1. /\ stop' = stop /\ reserved' = reserved /\ lost' = lost
      /\ boot' = [boot EXCEPT ![s] = [boot[s] EXCEPT !.at = "begin"]]
  BY DEF Created, reservations
<1>2. session[s].status = "unborn"
  <2>1. s < s <=> s \in Born BY DEF Created, NextNumber
  <2>2. ~(s < s) BY Numbers
  <2> QED BY <2>1, <2>2 DEF Born
<1>3. session[s] = Unborn /\ boot[s] = NoThread /\ stop[s] = Nothing
  BY <1>2, Here DEF Local, Unused
<1>4. \A q \in Ports : ~Keeps(s, q) BY <1>3, Numbers DEF Keeps, Unborn, NoThread, Nothing
<1>5. Others(s) BY <1>1 DEF Others, Created, PreviewInv, PreviewTypeOK
<1> QED BY <1>1, <1>4, <1>5 DEF PortsStay

LEMMA PortsStep ==
    PreviewInv /\ PreviewInv' /\ PortsOwned /\ [Next]_vars => PortsOwned'
<1> SUFFICES ASSUME PreviewInv, PreviewInv', PortsOwned, [Next]_vars PROVE PortsOwned'
  OBVIOUS
<1>0. reserved' \subseteq Ports BY DEF PreviewInv, PreviewTypeOK
<1>1. CASE UNCHANGED <<session, boot, stop, reserved, lost>> BY <1>1 DEF PortsOwned, Keeps
<1>2. CASE \E s \in Sessions : PortsStay(s) BY <1>0, <1>2, StaysOwned
<1>3. ASSUME NEW p \in Projects, StartOver(p) \/ StopPreview(p) PROVE PortsStay(table[p])
  <2>1. /\ holder = None /\ table[p] # None /\ Take(table[p]) /\ boot' = boot
        /\ reserved' = reserved /\ lost' = lost
    BY <1>3 DEF StartOver, StopPreview, Free, reservations
  <2>2. /\ table[p] \in Sessions /\ session[table[p]].status # "unborn"
        /\ ~session[table[p]].stopped
    BY <2>1, InTableIsAlive
  <2> QED BY <2>1, <2>2, TakePorts
<1>4. ASSUME NEW p \in Projects, StartOver(p) \/ StopPreview(p) PROVE table[p] \in Sessions
  BY <1>4, InTableIsAlive DEF StartOver, StopPreview, Free
<1>5. ASSUME NEW s \in Sessions, Replace(s) PROVE PortsStay(s)
  <2>1. holder # None /\ Created(s, session[holder].project, request) BY <1>5 DEF Replace, Free
  <2>2. session[holder].project \in Projects BY <2>1 DEF PreviewInv, PreviewTypeOK, Tabled
  <2> QED BY <2>1, <2>2, CreatedPorts
<1>6. ASSUME NEW s \in Sessions, Boot(s) PROVE PortsStay(s)
  BY <1>6, RuntimePortStays, PreviewPortStays, RecordPortsStay, RunContainerPorts, RecordHandlePorts,
     QuietPorts, TakeBackPorts, CleanUpPorts
  DEF Boot
<1>7. ASSUME NEW s \in Sessions, NEW p \in Projects, Start(s, p) PROVE PortsStay(s)
  BY <1>7, CreatedPorts DEF Start
<1>8. ASSUME NEW s \in Sessions, Stop(s) \/ ContainerComes(s) \/ ContainerExits(s) PROVE PortsStay(s)
  BY <1>8, StopPorts, ContainerPorts
<1>9. CASE \E p \in Projects : Publish(p) BY <1>9, <1>1 DEF Publish, reservations
<1>10. CASE UNCHANGED vars \/ \E p \in Ports : SocketCloses(p)
  BY <1>10, <1>1 DEF vars, SocketCloses, reservations
<1> QED BY <1>2, <1>3, <1>4, <1>5, <1>6, <1>7, <1>8, <1>9, <1>10 DEF Next

-----------------------------------------------------------------------------
(* Theorems *)

\* The inductive invariant: who holds a handle, a proxy or a place in the table, at each
\* place of a boot and of a stop.
THEOREM PreviewInvariant == Spec => []PreviewInv
BY InitInv, PreviewStep, PTL DEF Spec

\* A preview that is ready is served by its own proxy from the one container of its port,
\* with the source that the status reports, however starts, stops, exits and publications
\* are interleaved.
THEOREM ReadyIsServed == Spec => []ReadyIsWhole
<1>1. PreviewInv => ReadyIsWhole
  <2> SUFFICES ASSUME PreviewInv, NEW p \in Projects, table[p] # None, holder # table[p],
                      session[table[p]].status = "ready"
               PROVE  /\ session[table[p]].project = p /\ ~session[table[p]].stopped
                      /\ proxy[boot[table[p]].preview] = table[p]
                      /\ table[p] \in DOMAIN container =>
                            /\ HashOf(table[p]) = container[table[p]]
                            /\ \A t \in DOMAIN container \ {table[p]} :
                                  boot[t].runtime # boot[table[p]].runtime
    BY DEF ReadyIsWhole
  <2>1. table[p] \in Sessions BY DEF PreviewInv, PreviewTypeOK
  <2>2. session[table[p]].project = p /\ ~session[table[p]].stopped BY DEF PreviewInv, Tabled
  <2>3. session[table[p]].handle # None /\ proxy[boot[table[p]].preview] = table[p]
    BY <2>1, <2>2, Here DEF Local, Late, Served
  <2>4. table[p] \in DOMAIN container => HashOf(table[p]) = container[table[p]]
    BY <2>1, <2>3, Here DEF Local, Served, Has, HashOf
  <2>5. table[p] \in DOMAIN container =>
           \A t \in DOMAIN container \ {table[p]} : boot[t].runtime # boot[table[p]].runtime
    BY DEF PreviewInv, OnePerPort
  <2> QED BY <2>2, <2>3, <2>4, <2>5
<1> QED BY <1>1, PreviewInvariant, PTL

\* However starts, stops, boots and failures are interleaved, somebody will still free what
\* runs, serves or is reserved, unless the runtime was told to remove that container already
\* or a failure has lost that port.
THEOREM NothingIsForgotten == Spec => []NothingForgotten
<1>1. Init => PortsOwned BY DEF Init, PortsOwned
<1>2. PreviewInv /\ PortsOwned => NothingForgotten
  <2> SUFFICES ASSUME PreviewInv, PortsOwned PROVE NothingForgotten OBVIOUS
  <2>1. ASSUME NEW s \in DOMAIN client \union DOMAIN container
        PROVE  Working(s) \/ (InTable(s) /\ session[s].handle # None) \/ s \in asked
    <3>1. s \in Sessions /\ Runs(s) BY DEF PreviewInv, PreviewTypeOK, Runs
    <3>2. Working(s) \/ session[s].handle # None \/ s \in asked BY <3>1, Here DEF Local, ContainerOwned, Working
    <3> QED BY <3>1, <3>2, HeldIsSeen DEF Empty
  <2>2. ASSUME NEW p \in Ports, proxy[p] # None
        PROVE  Working(proxy[p]) \/ (InTable(proxy[p]) /\ session[proxy[p]].proxy)
    <3>1. proxy[p] \in Sessions BY <2>2 DEF PreviewInv, PreviewTypeOK
    <3>2. Listens(proxy[p]) BY DEF Listens
    <3>3. Working(proxy[p]) \/ session[proxy[p]].proxy
      BY <3>1, <3>2, Here DEF Local, ProxyOwned, Working
    <3> QED BY <3>1, <3>3, HeldIsSeen DEF Empty
  <2>3. ASSUME NEW p \in reserved \ lost
        PROVE  \E s \in Born :
                  \/ p \in {session[s].runtimePort, session[s].previewPort} /\ (InTable(s) \/ Working(s))
                  \/ p = boot[s].runtime /\ boot[s].at = "record"
                  \/ p \in boot[s].ports /\ boot[s].at \in {"running", "ports"}
                  \/ p \in stop[s].ports
    <3>1. PICK s \in Sessions : Keeps(s, p) BY DEF PortsOwned
    <3>2. p # None BY Numbers DEF PreviewInv, PreviewTypeOK
    <3>3. CASE p \in {session[s].runtimePort, session[s].previewPort}
      <4>1. ~Empty(session[s]) BY <3>2, <3>3 DEF Empty
      <4> QED BY <3>3, <4>1, HeldIsSeen
    <3>4. CASE p \notin {session[s].runtimePort, session[s].previewPort}
      <4>1. session[s].status # "unborn"
        BY <3>1, <3>4, Here DEF Local, Unused, Keeps, NoThread, Nothing
      <4>2. s \in Born BY <4>1 DEF Born
      <4> QED BY <3>1, <3>4, <4>2 DEF Keeps
    <3> QED BY <3>3, <3>4
  <2> QED BY <2>1, <2>2, <2>3 DEF NothingForgotten
<1> QED BY <1>1, <1>2, PortsStep, PreviewInvariant, PTL DEF Spec
=============================================================================
