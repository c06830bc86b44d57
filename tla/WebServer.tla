----------------------------- MODULE WebServer -----------------------------
(***************************************************************************)
(* The life of the web server (internal/web/server.go): Start, the checks  *)
(* that requests make before they are handled, the initialisation that the *)
(* first successful check triggers, and shutdown.                          *)
(*                                                                         *)
(* Requests run in goroutines of their own and share the fields of the     *)
(* server without synchronisation.  A panic in a request is caught by      *)
(* net/http; a panic in another goroutine ends the process.                *)
(***************************************************************************)
EXTENDS Integers, FiniteSets

CONSTANTS
  Requests,    \* goroutines that serve requests
  MaxRequests, \* bound on the requests each of them serves
  MaxErrors    \* bound on the errors the verifiers report

ASSUME ServerAssumption ==
  /\ "main" \notin Requests /\ IsFiniteSet(Requests)
  /\ MaxRequests \in Nat /\ MaxErrors \in Nat

\* Start checks the installation like a request.
Procs == Requests \union {"main"}

\* The goroutines that call shutdown: one per initialisation, and that of the signal.
Loops == 1..Cardinality(Procs)

Signal == 0

Threads == Loops \union {Signal}

VARIABLES
  loadable,       \* whether the config loader finds a valid kubeconfig
  crds,           \* whether the cluster is bootstrapped
  pkgClient,      \* "nil", "plain" or "cached"
  isBootstrapped, \* the cached result of the check
  components,     \* repoClientset, dependencyMgr and valueResolver are set
  listers,        \* the listers of namespaces, config maps and secrets are set
  loops,          \* how many loops wait for verification errors
  httpServer,     \* "nil", "serving" or "closed"
  stopCh,         \* whether it is closed
  hasShutdownCh,  \* whether httpServerHasShutdownCh is closed
  process,        \* "running", "exited", "failed" or "panicked"
  proc,           \* where the requests and Start are
  thread,         \* where the calls of shutdown are
  count,          \* requests served so far
  errors,         \* verification errors reported so far
  overlap,        \* history: two initialisations have run next to each other
  early           \* history: shutdown was called before the server listened

fields == <<loadable, crds, pkgClient, isBootstrapped, components, listers, loops>>

ending == <<httpServer, stopCh, hasShutdownCh, process, thread, errors, early>>

vars == <<fields, ending, proc, count, overlap>>

Idle == [pc |-> "idle", kind |-> "none"]

\* The steps of ensureBootstrapped.
Checking == {"check", "load", "crds", "mark", "cache", "lists"}

Init ==
  /\ loadable \in BOOLEAN /\ crds \in BOOLEAN
  /\ pkgClient = "nil" /\ isBootstrapped = FALSE /\ components = FALSE /\ listers = FALSE
  /\ loops = 0
  /\ httpServer = "nil" /\ stopCh = FALSE /\ hasShutdownCh = FALSE /\ process = "running"
  /\ proc = [p \in Procs |-> IF p = "main" THEN [pc |-> "check", kind |-> "page"] ELSE Idle]
  /\ thread = [t \in Threads |-> "wait"]
  /\ count = [r \in Requests |-> 0]
  /\ errors = 0 /\ overlap = FALSE /\ early = FALSE

-----------------------------------------------------------------------------
(* Requests and the checks before their handlers.                          *)

Goto(p, pc) == proc' = [proc EXCEPT ![p].pc = pc]

\* A failed check redirects the request; Start ignores it and goes on.
Leave(p) == Goto(p, IF p = "main" THEN "listen" ELSE "idle")

\* A page needs the server to be ready, the bootstrap page a kubeconfig; the
\* kubeconfig page takes an uploaded one before it checks.
Arrive(r, kind) ==
  /\ process = "running" /\ httpServer = "serving"
  /\ proc[r].pc = "idle"
  /\ count[r] < MaxRequests
  /\ count' = [count EXCEPT ![r] = @ + 1]
  /\ proc' = [proc EXCEPT ![r] = [pc |-> IF kind = "page" /\ isBootstrapped THEN "handle" ELSE "check",
                                  kind |-> kind]]
  /\ overlap' = (overlap \/ \E p \in Procs : proc[p].pc \in Checking)
  /\ IF kind = "kubeconfig" THEN loadable' \in BOOLEAN ELSE UNCHANGED loadable
  /\ UNCHANGED <<crds, pkgClient, isBootstrapped, components, listers, loops, ending>>

\* Where the request goes once there is a client.
Configured(p) == Goto(p, IF proc[p].kind = "page" THEN "crds" ELSE "handle")

checkKubeconfig(p) ==
  /\ process = "running"
  /\ proc[p].pc = "check"
  /\ IF pkgClient = "nil" THEN Goto(p, "load") ELSE Configured(p)
  /\ UNCHANGED <<fields, ending, count, overlap>>

\* initKubeConfig sets the plain client, whatever is there by now.
initKubeConfig(p) ==
  /\ process = "running"
  /\ proc[p].pc = "load"
  /\ IF loadable THEN Configured(p) /\ pkgClient' = "plain"
     ELSE Leave(p) /\ UNCHANGED pkgClient
  /\ UNCHANGED <<loadable, crds, isBootstrapped, components, listers, loops, ending, count, overlap>>

\* The check of the cluster may fail.
checkBootstrapped(p) ==
  /\ process = "running"
  /\ proc[p].pc = "crds"
  /\ Leave(p) \/ (crds /\ Goto(p, "mark"))
  /\ UNCHANGED <<fields, ending, count, overlap>>

\* Mutant of markBootstrapped: the result is not remembered.
markBootstrappedNot(p) ==
  /\ process = "running"
  /\ proc[p].pc = "mark"
  /\ Goto(p, "cache")
  /\ UNCHANGED <<fields, ending, count, overlap>>

markBootstrapped(p) ==
  /\ process = "running"
  /\ proc[p].pc = "mark"
  /\ isBootstrapped' = TRUE
  /\ Goto(p, "cache")
  /\ UNCHANGED <<loadable, crds, pkgClient, components, listers, loops, ending, count, overlap>>

\* initCachedClient with its goroutines, and initClientDependentComponents.
initCachedClient(p) ==
  /\ process = "running"
  /\ proc[p].pc = "cache"
  /\ pkgClient' = "cached"
  /\ loops' = loops + 1
  /\ components' = TRUE
  /\ Goto(p, "lists")
  /\ UNCHANGED <<loadable, crds, isBootstrapped, listers, ending, count, overlap>>

initListers(p) ==
  /\ process = "running"
  /\ proc[p].pc = "lists"
  /\ listers' = TRUE
  /\ Goto(p, IF p = "main" THEN "listen" ELSE "handle")
  /\ UNCHANGED <<loadable, crds, pkgClient, isBootstrapped, components, loops, ending, count, overlap>>

\* The handler of a page finds its components or panics; the bootstrap page
\* installs Glasskube or fails; the kubeconfig page has done its work.
Handle(r) ==
  /\ process = "running"
  /\ proc[r].pc = "handle"
  /\ IF proc[r].kind = "bootstrap" THEN crds' \in {crds, TRUE} ELSE UNCHANGED crds
  /\ Goto(r, "idle")
  /\ UNCHANGED <<loadable, pkgClient, isBootstrapped, components, listers, loops, ending, count, overlap>>

-----------------------------------------------------------------------------
(* The rest of Start, and shutdown.                                        *)

\* Without a free port Start gives up, or its user accepts another one.
Listen ==
  /\ process = "running"
  /\ proc["main"].pc = "listen"
  /\ \/ Goto("main", "serve") /\ httpServer' = "serving" /\ UNCHANGED process
     \/ Goto("main", "idle") /\ process' = "failed" /\ UNCHANGED httpServer
  /\ UNCHANGED <<fields, stopCh, hasShutdownCh, thread, errors, early, count, overlap>>

\* A signal, once the server is there, or an error of one of the verifiers.
Trigger(t) ==
  /\ process = "running"
  /\ thread[t] = "wait"
  /\ IF t = Signal THEN httpServer # "nil" /\ UNCHANGED errors
     ELSE t <= loops /\ errors < MaxErrors /\ errors' = errors + 1
  /\ thread' = [thread EXCEPT ![t] = "close"]
  /\ early' = (early \/ httpServer = "nil")
  /\ UNCHANGED <<fields, httpServer, stopCh, hasShutdownCh, process, proc, count, overlap>>

\* Closing a closed channel panics.
CloseStopCh(t) ==
  /\ process = "running"
  /\ thread[t] = "close"
  /\ IF stopCh THEN process' = "panicked" /\ UNCHANGED <<stopCh, thread>>
     ELSE stopCh' = TRUE /\ thread' = [thread EXCEPT ![t] = "drain"] /\ UNCHANGED process
  /\ UNCHANGED <<fields, httpServer, hasShutdownCh, errors, early, proc, count, overlap>>

\* httpServer.Shutdown stops listening and waits for requests, up to ten seconds.
Drain(t) ==
  /\ process = "running"
  /\ thread[t] = "drain"
  /\ IF httpServer = "nil" THEN process' = "panicked" /\ UNCHANGED <<httpServer, thread>>
     ELSE httpServer' = "closed" /\ thread' = [thread EXCEPT ![t] = "done"] /\ UNCHANGED process
  /\ UNCHANGED <<fields, stopCh, hasShutdownCh, errors, early, proc, count, overlap>>

\* Mutant of CloseDone: the channel stays open.
CloseDoneNever(t) ==
  /\ process = "running"
  /\ thread[t] = "done"
  /\ thread' = [thread EXCEPT ![t] = IF t = Signal THEN "end" ELSE "wait"]
  /\ UNCHANGED <<fields, httpServer, stopCh, hasShutdownCh, process, errors, early, proc, count, overlap>>

\* Start may return now.  The goroutine of the signal ends, a loop waits for the
\* next error.
CloseDone(t) ==
  /\ process = "running"
  /\ thread[t] = "done"
  /\ hasShutdownCh' = TRUE
  /\ thread' = [thread EXCEPT ![t] = IF t = Signal THEN "end" ELSE "wait"]
  /\ UNCHANGED <<fields, httpServer, stopCh, process, errors, early, proc, count, overlap>>

Exit ==
  /\ process = "running"
  /\ proc["main"].pc = "serve"
  /\ httpServer = "closed" /\ hasShutdownCh
  /\ process' = "exited"
  /\ UNCHANGED <<fields, httpServer, stopCh, hasShutdownCh, thread, errors, early, proc, count, overlap>>

-----------------------------------------------------------------------------

Check(p) ==
  \/ checkKubeconfig(p) \/ initKubeConfig(p) \/ checkBootstrapped(p)
  \/ markBootstrapped(p) \/ initCachedClient(p) \/ initListers(p)

shutdown(t) == CloseStopCh(t) \/ Drain(t) \/ CloseDone(t)

Next ==
  \/ \E p \in Procs : Check(p)
  \/ \E r \in Requests : Handle(r)
  \/ \E r \in Requests, kind \in {"page", "bootstrap", "kubeconfig"} : Arrive(r, kind)
  \/ \E t \in Threads : Trigger(t) \/ shutdown(t)
  \/ Listen \/ Exit

\* Goroutines keep running, and the user answers the question about the port.
Spec ==
  /\ Init /\ [][Next]_vars
  /\ WF_vars(Check("main") \/ Listen) /\ WF_vars(Exit)
  /\ \A t \in Threads : WF_vars(shutdown(t))

-----------------------------------------------------------------------------
(* Properties                                                              *)

TypeOK ==
  /\ \A b \in {loadable, crds, isBootstrapped, components, listers, stopCh, hasShutdownCh, overlap, early} :
       b \in BOOLEAN
  /\ pkgClient \in {"nil", "plain", "cached"} /\ httpServer \in {"nil", "serving", "closed"}
  /\ loops \in 0..Cardinality(Procs) /\ errors \in 0..MaxErrors
  /\ process \in {"running", "exited", "failed", "panicked"}
  /\ proc \in [Procs -> [pc : Checking \union {"idle", "handle", "listen", "serve"},
                         kind : {"none", "page", "bootstrap", "kubeconfig"}]]
  /\ count \in [Requests -> 0..MaxRequests]
  /\ thread \in [Threads -> {"wait", "close", "drain", "done", "end"}]

\* A page is handled without all its components only while another request is
\* still initialising them: a server that was ready when it began to listen, or
\* that one request made ready, never panics in a handler.
PagesFindComponents ==
  \A r \in Requests :
    proc[r].pc = "handle" /\ proc[r].kind = "page" /\ ~(components /\ listers)
      => \E p \in Procs \ {r} : proc[p].pc \in {"cache", "lists"}

\* As long as no two requests check at the same time the server is initialised
\* once, so there is one loop that can shut it down, and its client stays the
\* cached one.
InitialisedOnce ==
  ~overlap => /\ loops <= 1
              /\ loops = 1 => pkgClient = "cached"

\* A server that listens survives until its first shutdown is complete, unless a
\* second signal or error arrives: one shutdown alone never closes a channel
\* twice or meets a server that is not there.
PanicNeedsTwo ==
  process = "panicked" => early \/ errors + (IF thread[Signal] = "wait" THEN 0 ELSE 1) >= 2

\* Whoever asks for it, and however many do: the process ends after a signal or a
\* verification error.
ShutdownEnds == \A t \in Threads : thread[t] = "close" ~> process # "running"

\* Every check of isBootstrapped that a request or the start of the server makes
\* leaves the server usable: pages find what they need, one request alone sets up
\* the cached client and its loops once, and one shutdown alone ends cleanly.
ServerInv == TypeOK /\ PagesFindComponents /\ InitialisedOnce /\ PanicNeedsTwo

=============================================================================
