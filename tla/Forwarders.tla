----------------------------- MODULE Forwarders -----------------------------
(***************************************************************************)
(* Opening packages from the web interface: handleOpen and the goroutine   *)
(* it leaves behind (internal/web/server.go), the port forwarders of       *)
(* pkg/open, and future.All, which joins them (pkg/future).                *)
(*                                                                         *)
(* The map of forwarders is guarded by a mutex that handleOpen holds until *)
(* the forwarders are ready; the goroutine that reopens them, and the      *)
(* informer's DeleteFunc, take it as well.  The informer updates its store *)
(* and calls DeleteFunc in one goroutine.  How the server stops is the     *)
(* subject of WebServer; here it runs until it panics.                     *)
(***************************************************************************)
EXTENDS Integers, Sequences, FiniteSets

CONSTANTS
  Pkgs,        \* packages
  Ports,       \* local ports
  Entrypoints, \* the local ports of each package's entrypoints, in manifest order
  Handlers,    \* goroutines that serve requests
  MaxOpens,    \* bound on the openers that start a forwarder
  MaxFaults,   \* bound on the forwarders that fail
  MaxInstalls  \* bound on the installations of packages

ASSUME ForwardersAssumption ==
  /\ Entrypoints \in [Pkgs -> Seq(Ports)]
  /\ MaxOpens \in Nat \ {0} /\ MaxFaults \in Nat /\ MaxInstalls \in Nat
  /\ "nobody" \notin Handlers /\ 0 \notin Pkgs /\ "waiter" \notin Ports

Openers == 1..MaxOpens

None == 0

VARIABLES
  mutex,      \* who holds forwardersMutex
  forwarders, \* the opener registered for each package, or None
  opener,     \* the openers: package, port forwarders, and the future that joins them
  installed,  \* the packages in the informer's store
  deleting,   \* the package whose DeleteFunc runs, or None
  handler,    \* the requests
  monitor,    \* the goroutine that a request left behind for the opener it created
  panicked,   \* whether the process has ended
  faults,     \* forwarders that have failed so far
  installs,   \* installations so far
  raced       \* history: packages that were opened for a state they had left by then

vars == <<mutex, forwarders, opener, installed, deleting, handler, monitor, panicked, faults, installs, raced>>

\* An opener that does not exist yet.  A forwarder, and then the goroutine of All
\* that waits for it, go through starting, listening, nil or err (the forwarder has
\* ended), check, set, send and end.
Unused == [pkg |-> None, fw |-> [x \in Ports |-> "none"], ready |-> {}, stopped |-> FALSE,
           waiter |-> "none", empty |-> TRUE, closed |-> FALSE]

Idle == [pc |-> "idle", pkg |-> None, id |-> None]

Init ==
  /\ mutex = "nobody"
  /\ forwarders = [p \in Pkgs |-> None]
  /\ opener = [id \in Openers |-> Unused]
  /\ installed = Pkgs /\ deleting = None
  /\ handler = [h \in Handlers |-> Idle]
  /\ monitor = [id \in Openers |-> [pc |-> "none", id |-> id]]
  /\ panicked = FALSE /\ faults = 0 /\ installs = 0 /\ raced = {}

Started(id) == {x \in Ports : opener[id].fw[x] # "none"}

\* The ports that some forwarder listens on.
Listening == {x \in Ports : \E id \in Openers : opener[id].fw[x] = "listening"}

-----------------------------------------------------------------------------
(* pkg/open                                                                *)

\* Open starts a forwarder for each entrypoint in order.  Each needs a free local
\* port, a service and a ready pod; when the n-th cannot be opened those before it
\* are stopped and there is no result.
Opened(p, n) ==
  LET eps == Entrypoints[p]
      up == {eps[i] : i \in 1..(n - 1)}
      all == n > Len(eps)
  IN [Unused EXCEPT !.pkg = p,
                    !.fw = [x \in Ports |-> IF x \in up THEN "starting" ELSE "none"],
                    !.stopped = ~all,
                    !.waiter = IF all THEN "wait" ELSE "none"]

\* Whether Open can start the forwarders of the first n - 1 entrypoints.
CanOpen(p, n) == \A i \in 1..(n - 1) : Entrypoints[p][i] \notin Listening

FreshOpener(id) == opener[id].pkg = None /\ \A j \in 1..(id - 1) : opener[j].pkg # None

\* Open by opener id, with result.
OpenSucceeds(id, p) ==
  LET n == Len(Entrypoints[p]) + 1
  IN /\ FreshOpener(id) /\ n > 1
     /\ CanOpen(p, n)
     /\ opener' = [opener EXCEPT ![id] = Opened(p, n)]

\* Open without a result, at its first entrypoint or at a later one.
OpenFails(p) ==
  \/ UNCHANGED opener
  \/ \E id \in Openers, n \in 2..Len(Entrypoints[p]) :
       /\ FreshOpener(id)
       /\ CanOpen(p, n)
       /\ opener' = [opener EXCEPT ![id] = Opened(p, n)]

\* The channels of WaitReady are all closed.
IsReady(id) == Started(id) \subseteq opener[id].ready

Stop(id) == [opener EXCEPT ![id].stopped = TRUE]

FwGoto(id, x, pc) == opener' = [opener EXCEPT ![id].fw[x] = pc]

rest == <<mutex, forwarders, installed, deleting, handler, monitor, installs, raced>>

Ended == {"nil", "err", "check", "set", "send", "end"}

\* A failure that is due to the port does not count against the bound.
Fails(busy) ==
  /\ busy \/ faults < MaxFaults
  /\ faults' = IF busy THEN faults ELSE faults + 1

\* ForwardPorts: it reaches the pod and listens, or it fails before it is ready.
FwStart(id, x) ==
  /\ ~panicked
  /\ opener[id].fw[x] = "starting"
  /\ \/ /\ x \notin Listening
        /\ opener' = [opener EXCEPT ![id].fw[x] = "listening", ![id].ready = @ \union {x}]
        /\ UNCHANGED faults
     \/ FwGoto(id, x, "err") /\ Fails(x \in Listening)
  /\ UNCHANGED <<rest, panicked>>

\* The connection to the pod is lost.
FwBreaks(id, x) ==
  /\ ~panicked
  /\ opener[id].fw[x] = "listening"
  /\ FwGoto(id, x, "err") /\ Fails(FALSE)
  /\ UNCHANGED <<rest, panicked>>

\* stop has closed the stop channel of each forwarder.
FwStops(id, x) ==
  /\ ~panicked
  /\ opener[id].fw[x] = "listening" /\ opener[id].stopped
  /\ FwGoto(id, x, "nil")
  /\ UNCHANGED <<rest, panicked, faults>>

-----------------------------------------------------------------------------
(* future.All: a goroutine per forwarder and one that waits for them all.  *)
(* They share resultEmpty, here empty, without synchronisation.            *)

\* Mutant of AllReceive: the result of every forwarder is sent.
AllReceiveAny(id, x) ==
  /\ ~panicked
  /\ opener[id].waiter # "none"
  /\ opener[id].fw[x] \in {"nil", "err"} /\ FwGoto(id, x, "check")
  /\ UNCHANGED <<rest, panicked, faults>>

\* err := <-f; wg.Done()
AllReceive(id, x) ==
  /\ ~panicked
  /\ opener[id].waiter # "none"
  /\ \/ opener[id].fw[x] = "nil" /\ FwGoto(id, x, "end")
     \/ opener[id].fw[x] = "err" /\ FwGoto(id, x, "check")
  /\ UNCHANGED <<rest, panicked, faults>>

\* if resultEmpty && err != nil
AllCheck(id, x) ==
  /\ ~panicked
  /\ opener[id].fw[x] = "check"
  /\ FwGoto(id, x, IF opener[id].empty THEN "set" ELSE "end")
  /\ UNCHANGED <<rest, panicked, faults>>

AllSet(id, x) ==
  /\ ~panicked
  /\ opener[id].fw[x] = "set"
  /\ opener' = [opener EXCEPT ![id].fw[x] = "send", ![id].empty = FALSE]
  /\ UNCHANGED <<rest, panicked, faults>>

\* wg.Wait() and the check of resultEmpty
AllWait(id) ==
  /\ ~panicked
  /\ opener[id].waiter = "wait"
  /\ \A x \in Started(id) : opener[id].fw[x] \in Ended \ {"nil", "err"}
  /\ opener' = [opener EXCEPT ![id].waiter = IF opener[id].empty THEN "send" ELSE "end"]
  /\ UNCHANGED <<rest, panicked, faults>>

\* The goroutines of All that have a result to send.
Senders(id) ==
  {x \in Ports : opener[id].fw[x] = "send"} \union (IF opener[id].waiter = "send" THEN {"waiter"} ELSE {})

SenderGoto(id, s, pc) ==
  IF s = "waiter" THEN [opener EXCEPT ![id].waiter = pc] ELSE [opener EXCEPT ![id].fw[s] = pc]

\* The sender closes the channel: a goroutine that still sends on it panics.
AllSendClosed(id) ==
  /\ ~panicked
  /\ opener[id].closed /\ Senders(id) # {}
  /\ panicked' = TRUE
  /\ UNCHANGED <<rest, opener, faults>>

-----------------------------------------------------------------------------
(* handleOpen                                                              *)

\* The package is read from the store.
Click(h, p) ==
  /\ ~panicked
  /\ handler[h].pc = "idle"
  /\ p \in installed
  /\ handler' = [handler EXCEPT ![h] = [pc |-> "lock", pkg |-> p, id |-> None]]
  /\ UNCHANGED <<mutex, forwarders, opener, installed, deleting, monitor, panicked, faults, installs, raced>>

Lock(h) ==
  LET p == handler[h].pkg
  IN /\ ~panicked
     /\ handler[h].pc = "lock"
     /\ mutex = "nobody"
     /\ mutex' = h
     /\ handler' = [handler EXCEPT ![h].pc = IF forwarders[p] = None THEN "open" ELSE "wait",
                                   ![h].id = forwarders[p]]
     /\ UNCHANGED <<forwarders, opener, installed, deleting, monitor, panicked, faults, installs, raced>>

HandlerOpens(h, id) ==
  LET p == handler[h].pkg
  IN /\ ~panicked
     /\ handler[h].pc = "open"
     /\ OpenSucceeds(id, p)
     /\ forwarders' = [forwarders EXCEPT ![p] = id]
     /\ handler' = [handler EXCEPT ![h].pc = "waitNew", ![h].id = id]
     /\ raced' = IF p \notin installed /\ deleting # p THEN raced \union {p} ELSE raced
     /\ UNCHANGED <<mutex, installed, deleting, monitor, panicked, faults, installs>>

\* Mutant of HandlerFails: the mutex is not released.
HandlerFailsLocked(h) ==
  /\ ~panicked
  /\ handler[h].pc = "open"
  /\ OpenFails(handler[h].pkg)
  /\ handler' = [handler EXCEPT ![h] = Idle]
  /\ UNCHANGED <<mutex, forwarders, installed, deleting, monitor, panicked, faults, installs, raced>>

HandlerFails(h) ==
  /\ ~panicked
  /\ handler[h].pc = "open"
  /\ OpenFails(handler[h].pkg)
  /\ mutex' = "nobody"
  /\ handler' = [handler EXCEPT ![h] = Idle]
  /\ UNCHANGED <<forwarders, installed, deleting, monitor, panicked, faults, installs, raced>>

\* WaitReady returns; a new opener gets its goroutine.
Return(h) ==
  LET id == handler[h].id
  IN /\ ~panicked
     /\ handler[h].pc \in {"wait", "waitNew"}
     /\ IsReady(id)
     /\ mutex' = "nobody"
     /\ handler' = [handler EXCEPT ![h] = Idle]
     /\ monitor' = IF handler[h].pc = "wait" THEN monitor
                   ELSE [monitor EXCEPT ![id].pc = "select"]
     /\ UNCHANGED <<forwarders, opener, installed, deleting, panicked, faults, installs, raced>>

-----------------------------------------------------------------------------
(* The goroutine that waits for the forwarders to complete, and reopens    *)
(* them if the package is still installed.                                 *)

PkgOf(m) == opener[m].pkg

\* Completion is received once; its sender then closes the channel.
MonReceive(m) ==
  LET id == monitor[m].id
  IN /\ ~panicked
     /\ monitor[m].pc = "select"
     /\ ~opener[id].closed
     /\ \E s \in Senders(id) : opener' = [SenderGoto(id, s, "end") EXCEPT ![id].closed = TRUE]
     /\ monitor' = [monitor EXCEPT ![m].pc = "get"]
     /\ UNCHANGED <<mutex, forwarders, installed, deleting, handler, panicked, faults, installs, raced>>

\* A package that is gone ends the goroutine, and leaves the map alone.
MonGet(m) ==
  LET p == PkgOf(m)
  IN /\ ~panicked
     /\ monitor[m].pc = "get"
     /\ monitor' = [monitor EXCEPT ![m].pc = IF p \in installed THEN "open" ELSE "end"]
     /\ raced' = IF p \in installed /\ opener[monitor[m].id].stopped THEN raced \union {p} ELSE raced
     /\ UNCHANGED <<mutex, forwarders, opener, installed, deleting, handler, panicked, faults, installs>>

\* Open is called without the mutex.
MonOpen(m) ==
  /\ ~panicked
  /\ monitor[m].pc = "open"
  /\ \/ \E id \in Openers :
          /\ OpenSucceeds(id, PkgOf(m))
          /\ monitor' = [monitor EXCEPT ![m] = [pc |-> "put", id |-> id]]
     \/ OpenFails(PkgOf(m)) /\ monitor' = [monitor EXCEPT ![m].pc = "drop"]
  /\ UNCHANGED <<mutex, forwarders, installed, deleting, handler, panicked, faults, installs, raced>>

\* Mutant of MonPut: the new opener is not registered.
MonPutNot(m) ==
  /\ ~panicked
  /\ monitor[m].pc = "put"
  /\ mutex = "nobody"
  /\ monitor' = [monitor EXCEPT ![m].pc = "select"]
  /\ UNCHANGED <<mutex, forwarders, opener, installed, deleting, handler, panicked, faults, installs, raced>>

MonPut(m) ==
  /\ ~panicked
  /\ monitor[m].pc = "put"
  /\ mutex = "nobody"
  /\ forwarders' = [forwarders EXCEPT ![PkgOf(m)] = monitor[m].id]
  /\ monitor' = [monitor EXCEPT ![m].pc = "select"]
  /\ UNCHANGED <<mutex, opener, installed, deleting, handler, panicked, faults, installs, raced>>

MonDrop(m) ==
  /\ ~panicked
  /\ monitor[m].pc = "drop"
  /\ mutex = "nobody"
  /\ forwarders' = [forwarders EXCEPT ![PkgOf(m)] = None]
  /\ monitor' = [monitor EXCEPT ![m].pc = "end"]
  /\ UNCHANGED <<mutex, opener, installed, deleting, handler, panicked, faults, installs, raced>>

-----------------------------------------------------------------------------
(* The informer                                                            *)

Installs(p) ==
  /\ ~panicked
  /\ deleting = None
  /\ p \notin installed
  /\ installs < MaxInstalls /\ installs' = installs + 1
  /\ installed' = installed \union {p}
  /\ UNCHANGED <<mutex, forwarders, opener, deleting, handler, monitor, panicked, faults, raced>>

Deletes(p) ==
  /\ ~panicked
  /\ deleting = None
  /\ p \in installed
  /\ installed' = installed \ {p} /\ deleting' = p
  /\ UNCHANGED <<mutex, forwarders, opener, handler, monitor, panicked, faults, installs, raced>>

DeleteFunc ==
  LET id == forwarders[deleting]
  IN /\ ~panicked
     /\ deleting # None
     /\ mutex = "nobody"
     /\ opener' = IF id = None THEN opener ELSE Stop(id)
     /\ forwarders' = [forwarders EXCEPT ![deleting] = None]
     /\ deleting' = None
     /\ raced' = IF \E m \in Openers : PkgOf(m) = deleting /\ monitor[m].pc \in {"open", "put", "drop"}
                 THEN raced \union {deleting} ELSE raced
     /\ UNCHANGED <<mutex, installed, handler, monitor, panicked, faults, installs>>

-----------------------------------------------------------------------------

Forwarder(id, x) == FwStart(id, x) \/ FwStops(id, x) \/ AllReceive(id, x) \/ AllCheck(id, x) \/ AllSet(id, x)

Joins(id) == AllWait(id) \/ AllSendClosed(id)

Request(h) == HandlerFails(h) \/ Return(h) \/ \E id \in Openers : HandlerOpens(h, id)

Monitors(m) == MonReceive(m) \/ MonGet(m) \/ MonOpen(m)

Registers(m) == MonPut(m) \/ MonDrop(m)

Next ==
  \/ \E id \in Openers, x \in Ports : Forwarder(id, x) \/ FwBreaks(id, x)
  \/ \E id \in Openers : Joins(id) \/ Monitors(id) \/ Registers(id)
  \/ \E h \in Handlers : Lock(h) \/ Request(h) \/ \E p \in Pkgs : Click(h, p)
  \/ \E p \in Pkgs : Installs(p) \/ Deletes(p)
  \/ DeleteFunc

\* Goroutines keep running, and Go's mutex starves none of those that wait for it.
Spec ==
  /\ Init /\ [][Next]_vars
  /\ \A id \in Openers :
       /\ WF_vars(Joins(id)) /\ WF_vars(Monitors(id)) /\ SF_vars(Registers(id))
       /\ \A x \in Ports : WF_vars(Forwarder(id, x))
  /\ \A h \in Handlers : WF_vars(Request(h)) /\ SF_vars(Lock(h))
  /\ SF_vars(DeleteFunc)

-----------------------------------------------------------------------------
(* Properties                                                              *)

TypeOK ==
  /\ mutex \in Handlers \union {"nobody"}
  /\ forwarders \in [Pkgs -> Openers \union {None}]
  /\ opener \in [Openers ->
       [pkg : Pkgs \union {None}, fw : [Ports -> Ended \union {"none", "starting", "listening"}],
        ready : SUBSET Ports, stopped : BOOLEAN,
        waiter : {"none", "wait", "send", "end"}, empty : BOOLEAN, closed : BOOLEAN]]
  /\ installed \subseteq Pkgs /\ deleting \in Pkgs \union {None}
  /\ handler \in [Handlers -> [pc : {"idle", "lock", "open", "wait", "waitNew"},
                               pkg : Pkgs \union {None}, id : Openers \union {None}]]
  /\ \A h \in Handlers : handler[h].pc \in {"wait", "waitNew"} => handler[h].id # None
  /\ monitor \in [Openers -> [pc : {"none", "select", "get", "open", "put", "drop", "end"}, id : Openers]]
  /\ panicked \in BOOLEAN /\ faults \in 0..MaxFaults /\ installs \in 0..MaxInstalls /\ raced \subseteq Pkgs

\* Another forwarder of the same opener has ended.
Halved(id) == \E x \in Ports : opener[id].fw[x] \in Ended

\* The forwarders of id that ended before they were ready.
Unready(id) == {x \in Started(id) \ opener[id].ready : opener[id].fw[x] \in Ended}

\* WaitReady does not return for the opener of some package.
Unreachable == \E p \in Pkgs : forwarders[p] # None /\ Unready(forwarders[p]) # {}

\* No port is leaked: a forwarder that runs and was not told to stop is that of
\* the registered opener, or of one about to be registered, so that the deletion
\* of its package stops it.  The exceptions are an opener of which another
\* forwarder has ended, which is dropped when it cannot be reopened as a whole,
\* and a package that was deleted, or installed again, while it was opened.
RunningIsOwned ==
  \A id \in Openers, x \in Ports :
    opener[id].fw[x] \in {"starting", "listening"} /\ ~opener[id].stopped =>
      \/ forwarders[opener[id].pkg] = id
      \/ \E m \in Openers : monitor[m] = [pc |-> "put", id |-> id]
      \/ Halved(id)
      \/ opener[id].pkg \in raced

\* Every registered opener is watched: by the request that opens it, or by a
\* goroutine that reopens it or removes it from the map once it completes.  The
\* entry of a deleted package is about to be removed by DeleteFunc.
MonitoredEntries ==
  \A p \in Pkgs \ raced :
    forwarders[p] # None =>
      \/ \E m \in Openers : PkgOf(m) = p /\ monitor[m].pc \notin {"none", "end"}
      \/ \E h \in Handlers : handler[h] = [pc |-> "waitNew", pkg |-> p, id |-> forwarders[p]]
      \/ deleting = p

\* All sends on its result after it was closed only when one of the forwarders
\* failed: forwarders that are stopped never end the process.
PanicNeedsError == panicked => faults > 0 \/ \E id \in Openers : Unready(id) # {}

\* A request to open a package returns, unless a forwarder fails before it is
\* ready: then the request, and all that wait for the mutex, wait for ever.
OpensReturn ==
  \A h \in Handlers : handler[h].pc = "lock" ~> (handler[h].pc = "idle" \/ panicked \/ Unreachable)

\* No port stays occupied by a forwarder that nobody can stop: what runs is in
\* the map of the server or in the hands of a goroutine, and what is in the map
\* has a goroutine that removes or replaces it when it ends.
OwnershipInv == TypeOK /\ RunningIsOwned /\ MonitoredEntries

=============================================================================
