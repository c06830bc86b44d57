------------------------------ MODULE WebProofs ------------------------------
(***************************************************************************)
(* Proofs about the parts of the web server, for any bounds: WebServer,    *)
(* for any finite number of requests at a time; SseHub, that the hub uses  *)
(* no closed channel and that every browser sees the events in the order   *)
(* of the broadcasts; and CacheVerifier.                                   *)
(***************************************************************************)
EXTENDS WebServer, SseHub, CacheVerifier, FiniteSetTheorems, SequenceTheorems, TLAPS

-----------------------------------------------------------------------------
(* The server: the inductive invariant.                                    *)

(* The checks of pages that may still initialise the server.               *)
Pending == {p \in Procs : proc[p].kind = "page"
                          /\ proc[p].pc \in {"check", "load", "crds", "mark", "cache"}}

(* Nothing is initialised before the mark, and every check of a page       *)
(* initialises the server at most once: later pages are not checked.       *)
LoopsBounded ==
  /\ ~isBootstrapped => loops = 0
  /\ loops + Cardinality(Pending) <= Cardinality(Procs)

(* Only pages initialise the server, after the mark; once it is marked     *)
(* somebody is at it until the components and the listers are there.       *)
Marked ==
  /\ \A p \in Procs : proc[p].pc \in {"crds", "mark", "cache", "lists"} => proc[p].kind = "page"
  /\ \A p \in Procs : proc[p].pc \in {"cache", "lists"} => isBootstrapped
  /\ \A p \in Procs : proc[p].pc = "lists" => components
  /\ \A p \in Procs : proc[p].pc = "handle" /\ proc[p].kind = "page" => isBootstrapped
  /\ isBootstrapped => (components /\ listers) \/ \E p \in Procs : proc[p].pc \in {"cache", "lists"}

(* Without an overlap one goroutine checks at a time, and none of them     *)
(* comes past the first check again once a loop runs.                      *)
Alone ==
  ~overlap =>
    /\ \A p, q \in Procs : proc[p].pc \in Checking /\ proc[q].pc \in Checking => p = q
    /\ loops <= 1
    /\ loops = 1 => /\ pkgClient = "cached"
                    /\ \A p \in Procs : /\ proc[p].pc \notin {"load", "crds", "mark", "cache"}
                                        /\ proc[p].pc = "check" => proc[p].kind # "page"

(* How many times somebody has asked for a shutdown.                       *)
Triggers == errors + (IF thread[Signal] = "wait" THEN 0 ELSE 1)

(* Every call of shutdown that has not closed stopCh yet, and the one that *)
(* has, was triggered; early records the ones that preceded the server.    *)
Triggered ==
  /\ \A t \in Threads : thread[t] # "wait" /\ httpServer = "nil" => early
  /\ stopCh => Triggers >= 1
  /\ \A t \in Threads : thread[t] = "close" => Triggers >= 1
  /\ \A t \in Threads : thread[t] = "close" /\ stopCh => Triggers >= 2
  /\ \A t, u \in Threads : thread[t] = "close" /\ thread[u] = "close" /\ t # u => Triggers >= 2

Inv == TypeOK /\ LoopsBounded /\ Marked /\ Alone /\ Triggered /\ PanicNeedsTwo

-----------------------------------------------------------------------------
(* Steps of goroutines.                                                    *)

PCs == Checking \union {"idle", "handle", "listen", "serve"}

LEMMA ProcsFinite == IsFiniteSet(Procs) /\ Cardinality(Procs) \in Nat
<1>1. IsFiniteSet(Procs)
  BY ServerAssumption, FS_AddElement DEF Procs
<1> QED
  BY <1>1, FS_CardinalityType

LEMMA PendingSize ==
  ASSUME NEW S \in SUBSET Procs, NEW T \in SUBSET S
  PROVE  /\ Cardinality(S) \in Nat /\ Cardinality(T) \in Nat
         /\ Cardinality(T) <= Cardinality(S) /\ Cardinality(S) <= Cardinality(Procs)
         /\ \A p \in S : Cardinality(S \ {p}) = Cardinality(S) - 1 /\ Cardinality(S) >= 1
<1>1. IsFiniteSet(S) /\ Cardinality(S) <= Cardinality(Procs)
  BY ProcsFinite, FS_Subset
<1>2. IsFiniteSet(T) /\ Cardinality(T) <= Cardinality(S)
  BY <1>1, FS_Subset
<1>3. Cardinality(S) \in Nat /\ Cardinality(T) \in Nat
  BY <1>1, <1>2, FS_CardinalityType
<1>4. ASSUME NEW p \in S PROVE Cardinality(S \ {p}) = Cardinality(S) - 1 /\ Cardinality(S) >= 1
  <2>1. IsFiniteSet(S \ {p}) /\ Cardinality(S \ {p}) = Cardinality(S) - 1
    BY <1>1, FS_RemoveElement
  <2>2. Cardinality(S \ {p}) \in Nat
    BY <2>1, FS_CardinalityType
  <2> QED
    BY <1>3, <2>1, <2>2
<1> QED
  BY <1>1, <1>2, <1>3, <1>4

(* One goroutine moves, the others stay where they are.                    *)
Moves(p, pc, kind) ==
  /\ proc' \in [Procs -> [pc : PCs, kind : {"none", "page", "bootstrap", "kubeconfig"}]]
  /\ proc'[p].pc = pc /\ proc'[p].kind = kind
  /\ \A q \in Procs \ {p} : proc'[q] = proc[q]

LEMMA GotoMoves ==
  ASSUME TypeOK, NEW p \in Procs, NEW pc \in PCs, Goto(p, pc)
  PROVE  Moves(p, pc, proc[p].kind)
BY DEF TypeOK, Goto, Moves, PCs

(* Every step of a check, of a handler and of Start.                       *)
LEMMA CheckKubeconfigMoves ==
  ASSUME TypeOK, Marked, NEW p \in Procs, checkKubeconfig(p)
  PROVE  \/ pkgClient = "nil" /\ Moves(p, "load", proc[p].kind)
         \/ pkgClient # "nil" /\ proc[p].kind = "page" /\ Moves(p, "crds", proc[p].kind)
         \/ pkgClient # "nil" /\ proc[p].kind # "page" /\ Moves(p, "handle", proc[p].kind)
<1>1. {"load", "crds", "handle"} \subseteq PCs
  BY DEF PCs, Checking
<1> QED
  BY <1>1, GotoMoves DEF checkKubeconfig, Configured

LEMMA InitKubeConfigMoves ==
  ASSUME TypeOK, Marked, NEW p \in Procs, initKubeConfig(p)
  PROVE  \/ pkgClient' = "plain" /\ proc[p].kind = "page" /\ Moves(p, "crds", proc[p].kind)
         \/ pkgClient' = "plain" /\ proc[p].kind # "page" /\ Moves(p, "handle", proc[p].kind)
         \/ pkgClient' = pkgClient /\ \E pc \in {"listen", "idle"} : Moves(p, pc, proc[p].kind)
<1>1. {"crds", "handle", "listen", "idle"} \subseteq PCs
  BY DEF PCs, Checking
<1> QED
  BY <1>1, GotoMoves DEF initKubeConfig, Configured, Leave

LEMMA CheckBootstrappedMoves ==
  ASSUME TypeOK, NEW p \in Procs, checkBootstrapped(p)
  PROVE  \E pc \in {"listen", "idle", "mark"} : Moves(p, pc, proc[p].kind)
<1>1. {"listen", "idle", "mark"} \subseteq PCs
  BY DEF PCs, Checking
<1> QED
  BY <1>1, GotoMoves DEF checkBootstrapped, Leave

LEMMA InitMoves ==
  ASSUME TypeOK, NEW p \in Procs
  PROVE  /\ markBootstrapped(p) => Moves(p, "cache", proc[p].kind)
         /\ initCachedClient(p) => Moves(p, "lists", proc[p].kind)
         /\ initListers(p) => \E pc \in {"listen", "handle"} : Moves(p, pc, proc[p].kind)
         /\ Handle(p) => Moves(p, "idle", proc[p].kind)
<1>1. {"cache", "lists", "listen", "handle", "idle"} \subseteq PCs
  BY DEF PCs, Checking
<1> QED
  BY <1>1, GotoMoves DEF markBootstrapped, initCachedClient, initListers, Handle

LEMMA ArriveMoves ==
  ASSUME TypeOK, NEW r \in Requests, NEW kind \in {"page", "bootstrap", "kubeconfig"}, Arrive(r, kind)
  PROVE  \/ kind = "page" /\ isBootstrapped /\ Moves(r, "handle", kind)
         \/ ~(kind = "page" /\ isBootstrapped) /\ Moves(r, "check", kind)
<1> DEFINE pc == IF kind = "page" /\ isBootstrapped THEN "handle" ELSE "check"
<1>1. r \in Procs /\ pc \in PCs
  BY DEF Procs, PCs, Checking
<1>2. proc' = [proc EXCEPT ![r] = [pc |-> pc, kind |-> kind]]
  BY DEF Arrive
<1> HIDE DEF pc
<1>3. Moves(r, pc, kind)
  BY <1>1, <1>2 DEF TypeOK, Moves, PCs
<1> QED
  BY <1>3 DEF pc

LEMMA ListenMoves ==
  ASSUME TypeOK, Listen
  PROVE  "main" \in Procs /\ \E pc \in {"serve", "idle"} : Moves("main", pc, proc["main"].kind)
<1>1. {"serve", "idle"} \subseteq PCs /\ "main" \in Procs
  BY DEF PCs, Procs
<1> QED
  BY <1>1, GotoMoves DEF Listen

-----------------------------------------------------------------------------
(* The invariant is preserved.  Goroutines leave the shutdown alone, and   *)
(* the shutdown leaves them alone.                                         *)

LEMMA EndingKept ==
  ASSUME Inv, UNCHANGED ending
  PROVE  Triggered' /\ PanicNeedsTwo'
BY DEF Inv, ending, Triggered, Triggers, PanicNeedsTwo

(* A step that takes nobody into the initialisation keeps its bound.       *)
LEMMA LoopsKept ==
  ASSUME Inv, Pending' \subseteq Pending, loops' = loops, isBootstrapped => isBootstrapped'
  PROVE  LoopsBounded'
<1>1. Pending \in SUBSET Procs
  BY DEF Pending
<1>2. /\ Cardinality(Pending) \in Nat /\ Cardinality(Pending') \in Nat
      /\ Cardinality(Pending') <= Cardinality(Pending)
  BY <1>1, PendingSize
<1>3. loops \in Nat /\ Cardinality(Procs) \in Nat
  BY ProcsFinite DEF Inv, TypeOK
<1> QED
  BY <1>2, <1>3 DEF Inv, LoopsBounded

LEMMA CheckKubeconfigStep ==
  ASSUME Inv, NEW p \in Procs, checkKubeconfig(p)
  PROVE  Inv'
<1>1. /\ UNCHANGED <<fields, ending, count, overlap>> /\ proc[p].pc = "check"
      /\ \/ pkgClient = "nil" /\ Moves(p, "load", proc[p].kind)
         \/ pkgClient # "nil" /\ proc[p].kind = "page" /\ Moves(p, "crds", proc[p].kind)
         \/ pkgClient # "nil" /\ proc[p].kind # "page" /\ Moves(p, "handle", proc[p].kind)
  BY CheckKubeconfigMoves DEF checkKubeconfig, Inv
<1>2. Triggered' /\ PanicNeedsTwo'
  BY <1>1, EndingKept
<1>3. TypeOK'
  BY <1>1 DEF Inv, TypeOK, fields, ending, Moves, PCs
<1>4. Pending' \subseteq Pending
  BY <1>1 DEF Pending, Moves
<1>5. LoopsBounded'
  BY <1>1, <1>4, LoopsKept DEF fields
<1>6. Marked'
  BY <1>1 DEF Inv, Marked, Moves, fields
<1>7. Alone'
  BY <1>1 DEF Inv, Alone, Moves, Checking, fields
<1> QED
  BY <1>2, <1>3, <1>5, <1>6, <1>7 DEF Inv

LEMMA InitKubeConfigStep ==
  ASSUME Inv, NEW p \in Procs, initKubeConfig(p)
  PROVE  Inv'
<1>1. /\ UNCHANGED <<loadable, crds, isBootstrapped, components, listers, loops, ending, count, overlap>>
      /\ proc[p].pc = "load"
      /\ \/ pkgClient' = "plain" /\ proc[p].kind = "page" /\ Moves(p, "crds", proc[p].kind)
         \/ pkgClient' = "plain" /\ proc[p].kind # "page" /\ Moves(p, "handle", proc[p].kind)
         \/ pkgClient' = pkgClient /\ \E pc \in {"listen", "idle"} : Moves(p, pc, proc[p].kind)
  BY InitKubeConfigMoves DEF initKubeConfig, Inv
<1>2. Triggered' /\ PanicNeedsTwo'
  BY <1>1, EndingKept
<1>3. TypeOK'
  BY <1>1 DEF Inv, TypeOK, ending, Moves, PCs
<1>4. Pending' \subseteq Pending
  BY <1>1 DEF Pending, Moves
<1>5. LoopsBounded'
  BY <1>1, <1>4, LoopsKept
<1>6. Marked'
  BY <1>1 DEF Inv, Marked, Moves
<1>7. Alone'
  BY <1>1 DEF Inv, Alone, Moves, Checking
<1> QED
  BY <1>2, <1>3, <1>5, <1>6, <1>7 DEF Inv

LEMMA CheckBootstrappedStep ==
  ASSUME Inv, NEW p \in Procs, checkBootstrapped(p)
  PROVE  Inv'
<1>1. /\ UNCHANGED <<fields, ending, count, overlap>> /\ proc[p].pc = "crds"
      /\ \E pc \in {"listen", "idle", "mark"} : Moves(p, pc, proc[p].kind)
  BY CheckBootstrappedMoves DEF checkBootstrapped, Inv
<1>2. Triggered' /\ PanicNeedsTwo'
  BY <1>1, EndingKept
<1>3. TypeOK'
  BY <1>1 DEF Inv, TypeOK, fields, ending, Moves, PCs
<1>4. Pending' \subseteq Pending
  BY <1>1 DEF Pending, Moves
<1>5. LoopsBounded'
  BY <1>1, <1>4, LoopsKept DEF fields
<1>6. Marked'
  BY <1>1 DEF Inv, Marked, Moves, fields
<1>7. Alone'
  BY <1>1 DEF Inv, Alone, Moves, Checking, fields
<1> QED
  BY <1>2, <1>3, <1>5, <1>6, <1>7 DEF Inv

LEMMA MarkBootstrappedStep ==
  ASSUME Inv, NEW p \in Procs, markBootstrapped(p)
  PROVE  Inv'
<1>1. /\ UNCHANGED <<loadable, crds, pkgClient, components, listers, loops, ending, count, overlap>>
      /\ proc[p].pc = "mark" /\ isBootstrapped' = TRUE /\ Moves(p, "cache", proc[p].kind)
  BY InitMoves DEF markBootstrapped, Inv
<1>2. Triggered' /\ PanicNeedsTwo'
  BY <1>1, EndingKept
<1>3. TypeOK'
  BY <1>1 DEF Inv, TypeOK, ending, Moves, PCs
<1>4. Pending' \subseteq Pending
  BY <1>1 DEF Pending, Moves
<1>5. LoopsBounded'
  BY <1>1, <1>4, LoopsKept
<1>6. Marked'
  BY <1>1 DEF Inv, Marked, Moves
<1>7. Alone'
  BY <1>1 DEF Inv, Alone, Moves, Checking
<1> QED
  BY <1>2, <1>3, <1>5, <1>6, <1>7 DEF Inv

(* The initialisation itself: the check that makes it is no longer         *)
(* pending, and pays for the new loop.                                     *)
LEMMA InitCachedClientStep ==
  ASSUME Inv, NEW p \in Procs, initCachedClient(p)
  PROVE  Inv'
<1>1. /\ UNCHANGED <<loadable, crds, isBootstrapped, listers, ending, count, overlap>>
      /\ proc[p].pc = "cache" /\ pkgClient' = "cached" /\ components' = TRUE /\ loops' = loops + 1
      /\ Moves(p, "lists", proc[p].kind)
  BY InitMoves DEF initCachedClient, Inv
<1>2. Triggered' /\ PanicNeedsTwo'
  BY <1>1, EndingKept
<1>3. LoopsBounded' /\ loops' \in 0..Cardinality(Procs)
  <2>1. p \in Pending /\ Pending \in SUBSET Procs /\ isBootstrapped
    BY <1>1 DEF Pending, Inv, Marked
  <2>2. Pending' = Pending \ {p}
    BY <1>1, <2>1 DEF Pending, Moves
  <2>3. /\ Cardinality(Pending) \in Nat /\ Cardinality(Pending) >= 1
        /\ Cardinality(Pending') = Cardinality(Pending) - 1
    BY <2>1, <2>2, PendingSize
  <2>4. loops \in Nat /\ Cardinality(Procs) \in Nat
    BY ProcsFinite DEF Inv, TypeOK
  <2> QED
    BY <1>1, <2>1, <2>3, <2>4 DEF Inv, LoopsBounded
<1>4. TypeOK'
  BY <1>1, <1>3 DEF Inv, TypeOK, ending, Moves, PCs
<1>5. Marked'
  BY <1>1 DEF Inv, Marked, Moves
<1>6. Alone'
  <2> SUFFICES ASSUME ~overlap PROVE Alone'
    BY <1>1 DEF Alone
  <2>1. \A q \in Procs \ {p} : proc[q].pc \notin Checking
    BY <1>1 DEF Inv, Alone, Checking
  <2>2. \A q \in Procs \ {p} : proc'[q].pc \notin Checking
    BY <1>1, <2>1 DEF Moves
  <2>3. loops \in Nat /\ loops <= 1 /\ loops # 1
    BY <1>1, ProcsFinite DEF Inv, TypeOK, Alone
  <2>4. loops' = 1
    BY <1>1, <2>3
  <2>5. proc'[p].pc = "lists"
    BY <1>1 DEF Moves
  <2> QED
    BY <1>1, <2>2, <2>4, <2>5 DEF Alone, Checking
<1> QED
  BY <1>2, <1>3, <1>4, <1>5, <1>6 DEF Inv

LEMMA InitListersStep ==
  ASSUME Inv, NEW p \in Procs, initListers(p)
  PROVE  Inv'
<1>1. /\ UNCHANGED <<loadable, crds, pkgClient, isBootstrapped, components, loops, ending, count, overlap>>
      /\ proc[p].pc = "lists" /\ listers' = TRUE
      /\ \E pc \in {"listen", "handle"} : Moves(p, pc, proc[p].kind)
  BY InitMoves DEF initListers, Inv
<1>2. Triggered' /\ PanicNeedsTwo'
  BY <1>1, EndingKept
<1>3. TypeOK'
  BY <1>1 DEF Inv, TypeOK, ending, Moves, PCs
<1>4. Pending' \subseteq Pending
  BY <1>1 DEF Pending, Moves
<1>5. LoopsBounded'
  BY <1>1, <1>4, LoopsKept
<1>6. Marked'
  BY <1>1 DEF Inv, Marked, Moves
<1>7. Alone'
  BY <1>1 DEF Inv, Alone, Moves, Checking
<1> QED
  BY <1>2, <1>3, <1>5, <1>6, <1>7 DEF Inv

LEMMA HandleStep ==
  ASSUME Inv, NEW r \in Requests, Handle(r)
  PROVE  Inv'
<1>1. /\ UNCHANGED <<loadable, pkgClient, isBootstrapped, components, listers, loops, ending, count, overlap>>
      /\ proc[r].pc = "handle" /\ crds' \in {crds, TRUE} /\ Moves(r, "idle", proc[r].kind) /\ r \in Procs
  BY InitMoves DEF Handle, Inv, Procs
<1>2. Triggered' /\ PanicNeedsTwo'
  BY <1>1, EndingKept
<1>3. TypeOK'
  <2>1. crds \in BOOLEAN /\ crds' \in BOOLEAN
    BY <1>1 DEF Inv, TypeOK
  <2>2. proc' \in [Procs -> [pc : Checking \union {"idle", "handle", "listen", "serve"},
                            kind : {"none", "page", "bootstrap", "kubeconfig"}]]
    BY <1>1 DEF Moves, PCs
  <2>3. UNCHANGED <<loadable, pkgClient, isBootstrapped, components, listers, loops, ending, count, overlap>>
    BY <1>1
  <2> QED
    BY <2>1, <2>2, <2>3 DEF Inv, TypeOK, ending
<1>4. Pending' \subseteq Pending
  BY <1>1 DEF Pending, Moves
<1>5. LoopsBounded'
  BY <1>1, <1>4, LoopsKept
<1>6. Marked'
  BY <1>1 DEF Inv, Marked, Moves
<1>7. Alone'
  BY <1>1 DEF Inv, Alone, Moves, Checking
<1> QED
  BY <1>2, <1>3, <1>5, <1>6, <1>7 DEF Inv

(* A new request: a page is checked only before the mark, when there is no *)
(* loop yet.                                                               *)
LEMMA ArriveStep ==
  ASSUME Inv, NEW r \in Requests, NEW kind \in {"page", "bootstrap", "kubeconfig"}, Arrive(r, kind)
  PROVE  Inv'
<1>1. /\ UNCHANGED <<crds, pkgClient, isBootstrapped, components, listers, loops, ending>>
      /\ r \in Procs /\ proc[r].pc = "idle"
      /\ overlap' = (overlap \/ \E p \in Procs : proc[p].pc \in Checking)
      /\ \/ kind = "page" /\ isBootstrapped /\ Moves(r, "handle", kind)
         \/ ~(kind = "page" /\ isBootstrapped) /\ Moves(r, "check", kind)
  BY ArriveMoves DEF Arrive, Inv, Procs
<1>2. Triggered' /\ PanicNeedsTwo'
  BY <1>1, EndingKept
<1>3. TypeOK'
  <2>1. loadable' \in BOOLEAN /\ overlap' \in BOOLEAN
    BY <1>1 DEF Arrive, Inv, TypeOK
  <2>2. count' \in [Requests -> 0..MaxRequests]
    BY ServerAssumption DEF Arrive, Inv, TypeOK
  <2> QED
    BY <1>1, <2>1, <2>2 DEF Inv, TypeOK, ending, Moves, PCs
<1>4. LoopsBounded'
  <2>1. CASE kind = "page" /\ ~isBootstrapped
    <3>1. loops' = 0 /\ Pending' \in SUBSET Procs
      BY <1>1, <2>1 DEF Inv, LoopsBounded, Pending
    <3>2. Cardinality(Pending') \in Nat /\ Cardinality(Pending') <= Cardinality(Procs)
      BY <3>1, PendingSize
    <3> QED
      BY <3>1, <3>2, ProcsFinite DEF LoopsBounded
  <2>2. CASE ~(kind = "page" /\ ~isBootstrapped)
    <3>1. Pending' \subseteq Pending
      BY <1>1, <2>2 DEF Pending, Moves
    <3> QED
      BY <1>1, <3>1, LoopsKept
  <2> QED
    BY <2>1, <2>2
<1>5. Marked'
  BY <1>1 DEF Inv, Marked, Moves
<1>6. Alone'
  <2> SUFFICES ASSUME ~overlap' PROVE Alone'
    BY DEF Alone
  <2>1. ~overlap /\ \A p \in Procs : proc[p].pc \notin Checking
    BY <1>1
  <2>2. \A p \in Procs \ {r} : proc'[p].pc \notin Checking
    BY <1>1, <2>1 DEF Moves
  <2>3. loops' = 1 => ~(kind = "page" /\ ~isBootstrapped)
    BY <1>1 DEF Inv, LoopsBounded
  <2> QED
    BY <1>1, <2>1, <2>2, <2>3 DEF Inv, Alone, Moves, Checking
<1> QED
  BY <1>2, <1>3, <1>4, <1>5, <1>6 DEF Inv

(* Steps of the shutdown and of the process.                               *)
LEMMA GoroutinesKept ==
  ASSUME Inv, UNCHANGED <<fields, proc, overlap>>
  PROVE  LoopsBounded' /\ Marked' /\ Alone'
BY DEF Inv, fields, LoopsBounded, Pending, Marked, Alone

LEMMA ListenStep ==
  ASSUME Inv, Listen
  PROVE  Inv'
<1>1. /\ UNCHANGED <<fields, stopCh, hasShutdownCh, thread, errors, early, count, overlap>>
      /\ "main" \in Procs /\ proc["main"].pc = "listen"
      /\ \E pc \in {"serve", "idle"} : Moves("main", pc, proc["main"].kind)
      /\ \/ httpServer' = "serving" /\ UNCHANGED process
         \/ process' = "failed" /\ UNCHANGED httpServer
  BY ListenMoves DEF Listen, Inv
<1>2. TypeOK'
  BY <1>1 DEF Inv, TypeOK, fields, Moves, PCs
<1>3. Pending' \subseteq Pending
  BY <1>1 DEF Pending, Moves
<1>4. LoopsBounded'
  BY <1>1, <1>3, LoopsKept DEF fields
<1>5. Marked'
  BY <1>1 DEF Inv, Marked, Moves, fields
<1>6. Alone'
  BY <1>1 DEF Inv, Alone, Moves, Checking, fields
<1>7. Triggered' /\ PanicNeedsTwo'
  BY <1>1 DEF Inv, Triggered, Triggers, PanicNeedsTwo
<1> QED
  BY <1>2, <1>4, <1>5, <1>6, <1>7 DEF Inv

LEMMA ThreadTypes == /\ Signal \in Threads
                     /\ \A t \in Threads : t # Signal => t \in Nat \ {0}
BY ProcsFinite DEF Threads, Loops, Signal

LEMMA TriggerStep ==
  ASSUME Inv, NEW t \in Threads, Trigger(t)
  PROVE  Inv'
<1>1. /\ UNCHANGED <<fields, httpServer, stopCh, hasShutdownCh, process, proc, count, overlap>>
      /\ process = "running"
      /\ thread[t] = "wait" /\ thread' = [thread EXCEPT ![t] = "close"]
      /\ early' = (early \/ httpServer = "nil")
      /\ \/ t = Signal /\ errors' = errors
         \/ t # Signal /\ errors < MaxErrors /\ errors' = errors + 1
  BY DEF Trigger
<1>2. LoopsBounded' /\ Marked' /\ Alone'
  BY <1>1, GoroutinesKept
<1>3. TypeOK'
  <2>1. errors' \in 0..MaxErrors
    BY <1>1, ServerAssumption DEF Inv, TypeOK
  <2>2. thread' \in [Threads -> {"wait", "close", "drain", "done", "end"}]
    BY <1>1 DEF Inv, TypeOK
  <2>3. early' \in BOOLEAN
    BY <1>1 DEF Inv, TypeOK
  <2> QED
    BY <1>1, <2>1, <2>2, <2>3 DEF Inv, TypeOK, fields
<1>4. Triggers' = Triggers + 1 /\ Triggers \in Nat
  BY <1>1, ThreadTypes DEF Inv, TypeOK, Triggers
<1>5. \A u \in Threads : thread'[u] = IF u = t THEN "close" ELSE thread[u]
  BY <1>1 DEF Inv, TypeOK
<1>6. Triggered'
  <2>1. \A u \in Threads : thread'[u] # "wait" /\ httpServer' = "nil" => early'
    BY <1>1, <1>5 DEF Inv, Triggered
  <2>2. (stopCh => Triggers >= 1) /\ \A u \in Threads : thread[u] = "close" => Triggers >= 1
    BY DEF Inv, Triggered
  <2> HIDE DEF Triggers
  <2>3. /\ Triggers' >= 1
        /\ stopCh' => Triggers' >= 2
        /\ \A u \in Threads : thread[u] = "close" => Triggers' >= 2
    BY <1>1, <1>4, <2>2
  <2> QED
    BY <1>5, <2>1, <2>3 DEF Triggered
<1>7. PanicNeedsTwo'
  BY <1>1 DEF PanicNeedsTwo
<1> QED
  BY <1>2, <1>3, <1>6, <1>7 DEF Inv

LEMMA CloseStopChStep ==
  ASSUME Inv, NEW t \in Threads, CloseStopCh(t)
  PROVE  Inv'
<1>1. /\ UNCHANGED <<fields, httpServer, hasShutdownCh, errors, early, proc, count, overlap>>
      /\ thread[t] = "close"
      /\ \/ stopCh /\ process' = "panicked" /\ UNCHANGED <<stopCh, thread>>
         \/ /\ ~stopCh /\ stopCh' = TRUE /\ thread' = [thread EXCEPT ![t] = "drain"]
            /\ process' = process /\ process = "running"
  BY DEF CloseStopCh
<1>2. LoopsBounded' /\ Marked' /\ Alone'
  BY <1>1, GoroutinesKept
<1>3. TypeOK'
  BY <1>1 DEF Inv, TypeOK, fields
<1>4. Triggers' = Triggers
  BY <1>1, ThreadTypes DEF Inv, TypeOK, Triggers
<1>5. \A u \in Threads : thread'[u] \in {thread[u], IF u = t THEN "drain" ELSE thread[u]}
  BY <1>1 DEF Inv, TypeOK
<1>6. Triggered'
  <2>1. CASE UNCHANGED <<stopCh, thread>>
    BY <1>1, <2>1 DEF Inv, Triggered, Triggers
  <2>2. CASE ~stopCh /\ stopCh' = TRUE /\ thread' = [thread EXCEPT ![t] = "drain"]
    <3>1. \A u \in Threads : thread'[u] = IF u = t THEN "drain" ELSE thread[u]
      BY <2>2 DEF Inv, TypeOK
    <3> QED
      BY <1>1, <1>4, <2>2, <3>1 DEF Inv, Triggered
  <2> QED
    BY <1>1, <2>1, <2>2
<1>7. PanicNeedsTwo'
  <2>1. CASE stopCh /\ UNCHANGED <<stopCh, thread>>
    BY <1>1, <2>1 DEF Inv, Triggered, Triggers, PanicNeedsTwo
  <2>2. CASE process' = "running"
    BY <2>2 DEF PanicNeedsTwo
  <2> QED
    BY <1>1, <2>1, <2>2
<1> QED
  BY <1>2, <1>3, <1>6, <1>7 DEF Inv

LEMMA DrainStep ==
  ASSUME Inv, NEW t \in Threads, Drain(t)
  PROVE  Inv'
<1>1. /\ UNCHANGED <<fields, stopCh, hasShutdownCh, errors, early, proc, count, overlap>>
      /\ thread[t] = "drain"
      /\ \/ httpServer = "nil" /\ process' = "panicked" /\ UNCHANGED <<httpServer, thread>>
         \/ /\ httpServer' = "closed" /\ thread' = [thread EXCEPT ![t] = "done"]
            /\ process' = process /\ process = "running"
  BY DEF Drain
<1>2. LoopsBounded' /\ Marked' /\ Alone'
  BY <1>1, GoroutinesKept
<1>3. TypeOK'
  BY <1>1 DEF Inv, TypeOK, fields
<1>4. CASE httpServer = "nil" /\ process' = "panicked" /\ UNCHANGED <<httpServer, thread>>
  BY <1>1, <1>2, <1>3, <1>4 DEF Inv, Triggered, Triggers, PanicNeedsTwo
<1>5. CASE httpServer' = "closed" /\ thread' = [thread EXCEPT ![t] = "done"] /\ process' = "running"
  <2>1. Triggers' = Triggers
    BY <1>1, <1>5, ThreadTypes DEF Inv, TypeOK, Triggers
  <2>2. \A u \in Threads : thread'[u] = IF u = t THEN "done" ELSE thread[u]
    BY <1>5 DEF Inv, TypeOK
  <2>3. Triggered'
    BY <1>1, <1>5, <2>1, <2>2 DEF Inv, Triggered
  <2> QED
    BY <1>2, <1>3, <1>5, <2>3 DEF Inv, PanicNeedsTwo
<1> QED
  BY <1>1, <1>4, <1>5

LEMMA CloseDoneStep ==
  ASSUME Inv, NEW t \in Threads, CloseDone(t)
  PROVE  Inv'
<1>1. /\ UNCHANGED <<fields, httpServer, stopCh, process, errors, early, proc, count, overlap>>
      /\ process = "running" /\ thread[t] = "done" /\ hasShutdownCh' = TRUE
      /\ thread' = [thread EXCEPT ![t] = IF t = Signal THEN "end" ELSE "wait"]
  BY DEF CloseDone
<1>2. LoopsBounded' /\ Marked' /\ Alone'
  BY <1>1, GoroutinesKept
<1>3. TypeOK'
  BY <1>1 DEF Inv, TypeOK, fields
<1>4. Triggers' = Triggers
  BY <1>1, ThreadTypes DEF Inv, TypeOK, Triggers
<1>5. \A u \in Threads : thread'[u] = IF u = t THEN (IF t = Signal THEN "end" ELSE "wait") ELSE thread[u]
  BY <1>1 DEF Inv, TypeOK
<1>6. Triggered'
  BY <1>1, <1>4, <1>5 DEF Inv, Triggered
<1>7. PanicNeedsTwo'
  BY <1>1 DEF PanicNeedsTwo
<1> QED
  BY <1>2, <1>3, <1>6, <1>7 DEF Inv

LEMMA ExitStep ==
  ASSUME Inv, Exit
  PROVE  Inv'
<1>1. /\ UNCHANGED <<fields, httpServer, stopCh, hasShutdownCh, thread, errors, early, proc, count, overlap>>
      /\ process' = "exited"
  BY DEF Exit
<1>2. LoopsBounded' /\ Marked' /\ Alone'
  BY <1>1, GoroutinesKept
<1>3. TypeOK'
  BY <1>1 DEF Inv, TypeOK, fields
<1>4. Triggered' /\ PanicNeedsTwo'
  BY <1>1 DEF Inv, Triggered, Triggers, PanicNeedsTwo
<1> QED
  BY <1>2, <1>3, <1>4 DEF Inv

LEMMA InitInv == Init => Inv
<1> SUFFICES ASSUME Init PROVE Inv
  OBVIOUS
<1>1. /\ \A p \in Procs : proc[p].pc \in {"check", "idle"}
      /\ \A p, q \in Procs : proc[p].pc = "check" /\ proc[q].pc = "check" => p = q
      /\ proc \in [Procs -> [pc : PCs, kind : {"none", "page", "bootstrap", "kubeconfig"}]]
  BY DEF Init, Idle, PCs, Checking
<1>2. TypeOK
  <2>1. loops \in 0..Cardinality(Procs) /\ errors \in 0..MaxErrors
    BY ProcsFinite, ServerAssumption DEF Init
  <2>2. count \in [Requests -> 0..MaxRequests]
    BY ServerAssumption DEF Init
  <2>3. proc \in [Procs -> [pc : Checking \union {"idle", "handle", "listen", "serve"},
                           kind : {"none", "page", "bootstrap", "kubeconfig"}]]
    BY <1>1 DEF PCs
  <2>4. thread \in [Threads -> {"wait", "close", "drain", "done", "end"}]
    BY DEF Init
  <2> QED
    BY <2>1, <2>2, <2>3, <2>4 DEF Init, TypeOK
<1>3. LoopsBounded
  <2>1. Pending \in SUBSET Procs
    BY DEF Pending
  <2>2. Cardinality(Pending) \in Nat /\ Cardinality(Pending) <= Cardinality(Procs)
    BY <2>1, PendingSize
  <2> QED
    BY <2>2, ProcsFinite DEF Init, LoopsBounded
<1>4. Marked
  BY <1>1 DEF Init, Marked
<1>5. Alone
  BY <1>1 DEF Init, Alone, Checking
<1>6. Triggered /\ PanicNeedsTwo
  BY DEF Init, Triggered, PanicNeedsTwo
<1> QED
  BY <1>2, <1>3, <1>4, <1>5, <1>6 DEF Inv

LEMMA NextInv == Inv /\ [Next]_vars => Inv'
<1> SUFFICES ASSUME Inv, [Next]_vars PROVE Inv'
  OBVIOUS
<1>1. ASSUME NEW p \in Procs, Check(p) PROVE Inv'
  BY <1>1, CheckKubeconfigStep, InitKubeConfigStep, CheckBootstrappedStep, MarkBootstrappedStep,
     InitCachedClientStep, InitListersStep DEF Check
<1>2. ASSUME NEW t \in Threads, Trigger(t) \/ shutdown(t) PROVE Inv'
  BY <1>2, TriggerStep, CloseStopChStep, DrainStep, CloseDoneStep DEF shutdown
<1>3. ASSUME UNCHANGED vars PROVE Inv'
  <2>1. LoopsBounded' /\ Marked' /\ Alone' /\ Triggered' /\ PanicNeedsTwo'
    BY <1>3, GoroutinesKept, EndingKept DEF vars
  <2>2. TypeOK'
    BY <1>3 DEF vars, fields, ending, Inv, TypeOK
  <2> QED
    BY <2>1, <2>2 DEF Inv
<1> QED
  BY <1>1, <1>2, <1>3, HandleStep, ArriveStep, ListenStep, ExitStep DEF Next

(* For any number of concurrent requests, and whenever errors of the       *)
(* verifiers or a signal arrive: a page is handled without its components  *)
(* only while another request is still initialising them; without          *)
(* overlapping checks the server is initialised once and keeps its cached  *)
(* client; and a single request for a shutdown never panics in shutdown,   *)
(* unless it precedes the server (ensureBootstrapped, initCachedClient,    *)
(* shutdown in server.go).                                                 *)
THEOREM ServerCorrect == Spec => []ServerInv
<1>1. Inv => ServerInv
  <2> SUFFICES ASSUME Inv PROVE ServerInv
    OBVIOUS
  <2>1. PagesFindComponents
    <3>1. ASSUME NEW r \in Requests, proc[r].pc = "handle", proc[r].kind = "page",
                 ~(components /\ listers)
          PROVE  \E p \in Procs \ {r} : proc[p].pc \in {"cache", "lists"}
      <4>1. r \in Procs /\ isBootstrapped
        BY <3>1 DEF Inv, Marked, Procs
      <4> QED
        BY <3>1, <4>1 DEF Inv, Marked
    <3> QED
      BY <3>1 DEF PagesFindComponents
  <2>2. InitialisedOnce
    BY DEF Inv, Alone, InitialisedOnce
  <2> QED
    BY <2>1, <2>2 DEF Inv, ServerInv
<1> QED
  BY <1>1, InitInv, NextInv, PTL DEF Spec

-----------------------------------------------------------------------------
(* The hub of the events: the inductive invariant.                         *)

(* A client is in the map from its registration until it unregisters, and  *)
(* its channel is new when it is registered.                               *)
HandlerInv ==
  \A c \in Clients :
    /\ handler[c] \in {"none", "register"} =>
         c \notin clients /\ c \notin closed /\ got[c] = <<>> /\ send[c] = <<>>
    /\ handler[c] \in {"range", "ended", "unregister"} => c \in clients

(* Until the hub stops, the channels of the map are open; it sends to      *)
(* clients of the map with an open channel, and what it sends was taken    *)
(* from broadcast last.                                                    *)
ChannelInv ==
  /\ hub.pc \in {"select", "send"} => \A c \in clients : c \notin closed
  /\ hub.pc \in {"send", "stop"} => \A c \in hub.left : c \in clients /\ c \notin closed
  /\ hub.pc = "send" => Len(log) >= 1 /\ hub.msg = log[Len(log)]

(* The events before the good-bye.                                         *)
Before(seen) == IF seen # <<>> /\ Last(seen) = Close THEN Len(seen) - 1 ELSE Len(seen)

(* They are those of the log from a position on.                           *)
InOrder(seen, from, lg) ==
  /\ from + Before(seen) <= Len(lg)
  /\ \A i \in 1..Before(seen) : seen[i] # Close /\ seen[i] = lg[from + i]

(* The good-bye comes with the end of the channel, and the only event that *)
(* a client of the map may lack is the one the hub is about to send.       *)
OrderInv ==
  \A c \in Clients :
    /\ InOrder(Seen(c), since[c], log)
    /\ c \notin closed => Before(Seen(c)) = Len(Seen(c))
    /\ c \in clients => since[c] + Before(Seen(c)) = IF hub.pc = "send" /\ c \in hub.left THEN Len(log) - 1 ELSE Len(log)

BrowserInv == HubTypeOK /\ HandlerInv /\ ChannelInv /\ OrderInv

-----------------------------------------------------------------------------
(* Events and the sequences of them.                                       *)

LEMMA UpdatedFacts ==
  /\ Updated \subseteq Events
  /\ Close \notin Updated
  /\ Close \in Events
<1>1. ASSUME NEW p PROVE detail(p) # Close /\ overview(p) # Close
  <2>1. detail(p) # Close
    <3>1. Len(<<"detail", p>>) = 2 /\ Len(<<"close">>) = 1
      OBVIOUS
    <3> QED
      BY <3>1 DEF detail, Close
  <2>2. <<"packages">> # Close /\ <<"clusterpackages">> # Close
    <3>1. <<"packages">>[1] # Close[1] /\ <<"clusterpackages">>[1] # Close[1]
      BY DEF Close
    <3> QED
      BY <3>1
  <2> QED
    BY <2>1, <2>2 DEF overview
<1>2. Close \notin Updated
  BY <1>1 DEF Updated
<1> QED
  BY <1>2 DEF Events

LEMMA AppendFacts ==
  ASSUME NEW S, NEW s \in Seq(S), NEW e \in S
  PROVE  /\ Append(s, e) \in Seq(S)
         /\ Append(s, e) # <<>>
         /\ Len(Append(s, e)) = Len(s) + 1
         /\ Append(s, e)[Len(s) + 1] = e
         /\ \A i \in 1..Len(s) : Append(s, e)[i] = s[i]
  OBVIOUS

LEMMA SeqFacts ==
  ASSUME NEW S, NEW s \in Seq(S)
  PROVE  /\ Len(s) \in Nat
         /\ Len(s) = 0 <=> s = <<>>
         /\ \A i \in 1..Len(s) : s[i] \in S
  OBVIOUS

(* What a handler takes out of the channel was the first event in it.      *)
LEMMA ReceiveKeepsSeen ==
  ASSUME NEW S, NEW g \in Seq(S), NEW s \in Seq(S), s # <<>>
  PROVE  /\ Append(g, Head(s)) \in Seq(S) /\ Tail(s) \in Seq(S)
         /\ Len(Tail(s)) = Len(s) - 1
         /\ Append(g, Head(s)) \o Tail(s) = g \o s
  OBVIOUS

LEMMA SendAppends ==
  ASSUME NEW S, NEW g \in Seq(S), NEW s \in Seq(S), NEW e \in S
  PROVE  g \o Append(s, e) = Append(g \o s, e) /\ g \o s \in Seq(S)
  OBVIOUS

LEMMA BeforeFacts ==
  ASSUME NEW s \in Seq(Events)
  PROVE  /\ Before(s) \in Nat
         /\ Before(s) <= Len(s)
<1>1. Len(s) \in Nat /\ (s # <<>> => Len(s) >= 1)
  BY SeqFacts
<1> QED
  BY <1>1 DEF Before

LEMMA BeforeAppend ==
  ASSUME NEW s \in Seq(Events), NEW e \in Events
  PROVE  Before(Append(s, e)) = IF e = Close THEN Len(s) ELSE Len(s) + 1
<1>1. /\ Append(s, e) # <<>>
      /\ Len(Append(s, e)) = Len(s) + 1
      /\ Append(s, e)[Len(s) + 1] = e
      /\ Len(s) \in Nat
  BY AppendFacts, SeqFacts
<1>2. Last(Append(s, e)) = e
  BY <1>1 DEF Last
<1> QED
  BY <1>1, <1>2 DEF Before

LEMMA EmptySeen ==
  /\ <<>> \in Seq(Events) /\ Before(<<>>) = 0 /\ Len(<<>>) = 0 /\ <<>> \o <<>> = <<>>
  /\ \A lg \in Seq(Updated) : InOrder(<<>>, Len(lg), lg) /\ InOrder(<<>>, 0, lg)
<1>1. <<>> \in Seq(Events) /\ Before(<<>>) = 0 /\ Len(<<>>) = 0 /\ <<>> \o <<>> = <<>>
  BY DEF Before
<1>2. ASSUME NEW lg \in Seq(Updated) PROVE Len(lg) \in Nat
  OBVIOUS
<1> QED
  BY <1>1, <1>2 DEF InOrder

(* A broadcast leaves what was seen in the order of the log.               *)
LEMMA InOrderOfLongerLog ==
  ASSUME NEW s \in Seq(Events), NEW from \in Nat, NEW lg \in Seq(Updated), NEW e \in Updated,
         InOrder(s, from, lg)
  PROVE  InOrder(s, from, Append(lg, e))
<1>1. Before(s) \in Nat /\ Len(lg) \in Nat
  BY BeforeFacts, SeqFacts
<1>2. Len(Append(lg, e)) = Len(lg) + 1 /\ \A i \in 1..Len(lg) : Append(lg, e)[i] = lg[i]
  BY AppendFacts
<1>3. \A i \in 1..Before(s) : from + i \in 1..Len(lg)
  BY <1>1 DEF InOrder
<1> QED
  BY <1>1, <1>2, <1>3 DEF InOrder

(* The event of the last broadcast, sent, continues the order.             *)
LEMMA InOrderAfterSend ==
  ASSUME NEW s \in Seq(Events), NEW from \in Nat, NEW lg \in Seq(Updated), NEW e \in Events,
         InOrder(s, from, lg), Before(s) = Len(s),
         from + Len(s) = Len(lg) - 1, e = lg[Len(lg)]
  PROVE  /\ InOrder(Append(s, e), from, lg)
         /\ Before(Append(s, e)) = Len(Append(s, e))
         /\ from + Before(Append(s, e)) = Len(lg)
<1>1. Len(s) \in Nat /\ Len(lg) \in Nat /\ Len(lg) \in 1..Len(lg)
  <2>1. Len(s) \in Nat /\ Len(lg) \in Nat
    BY SeqFacts
  <2> QED
    BY <2>1
<1>2. e # Close
  BY <1>1, SeqFacts, UpdatedFacts
<1>3. Before(Append(s, e)) = Len(s) + 1
  BY <1>2, BeforeAppend
<1>4. /\ Len(Append(s, e)) = Len(s) + 1
      /\ Append(s, e)[Len(s) + 1] = e
      /\ \A i \in 1..Len(s) : Append(s, e)[i] = s[i]
  BY AppendFacts
<1>5. ASSUME NEW i \in 1..(Len(s) + 1)
      PROVE  Append(s, e)[i] # Close /\ Append(s, e)[i] = lg[from + i]
  <2>1. CASE i = Len(s) + 1
    <3>1. from + i = Len(lg)
      BY <1>1, <2>1
    <3> QED
      BY <1>2, <1>4, <2>1, <3>1
  <2>2. CASE i # Len(s) + 1
    <3>1. i \in 1..Len(s)
      BY <1>1, <2>2
    <3> QED
      BY <1>4, <3>1 DEF InOrder
  <2> QED
    BY <2>1, <2>2
<1>6. from + (Len(s) + 1) <= Len(lg) /\ from + (Len(s) + 1) = Len(lg)
  BY <1>1
<1> QED
  BY <1>3, <1>4, <1>5, <1>6 DEF InOrder

(* The good-bye changes nothing about the events before it.                *)
LEMMA InOrderAfterClose ==
  ASSUME NEW s \in Seq(Events), NEW from \in Nat, NEW lg \in Seq(Updated),
         InOrder(s, from, lg), Before(s) = Len(s)
  PROVE  /\ InOrder(Append(s, Close), from, lg)
         /\ Before(Append(s, Close)) = Before(s)
<1>1. Before(Append(s, Close)) = Len(s)
  BY BeforeAppend, UpdatedFacts
<1>2. \A i \in 1..Len(s) : Append(s, Close)[i] = s[i]
  BY AppendFacts, UpdatedFacts
<1> QED
  BY <1>1, <1>2 DEF InOrder

-----------------------------------------------------------------------------
(* A call of UpdatesAvailable.                                             *)

Call == [pkgs : Seq(Pkgs), step : {"detail", "overview"}, done : SUBSET Updated]

LEMMA UpdatedEvents ==
  \A p \in Pkgs : detail(p) \in Updated /\ overview(p) \in Updated
  BY DEF Updated

LEMMA CallStarts ==
  ASSUME NEW ps \in Seq(Pkgs)
  PROVE  calling(ps) \in Call
  BY DEF calling, Call

LEMMA CallProceeds ==
  ASSUME NEW call \in Call, call.pkgs # <<>>
  PROVE  eventOf(call) \in Updated /\ afterBroadcast(call) \in Call
<1>1. call.pkgs \in Seq(Pkgs) /\ call.done \subseteq Updated
  BY DEF Call
<1>2. PICK q : q = call.pkgs
  OBVIOUS
<1>3. Head(q) \in Pkgs /\ Tail(q) \in Seq(Pkgs)
  BY <1>1, <1>2
<1>4. PICK p \in Pkgs : p = Head(call.pkgs)
  BY <1>2, <1>3
<1>5. detail(p) \in Updated /\ overview(p) \in Updated
  BY UpdatedEvents
<1>6. eventOf(call) \in Updated
  BY <1>4, <1>5 DEF eventOf
<1>7. [call EXCEPT !.step = "overview"] \in Call
  BY DEF Call
<1>8. [pkgs |-> Tail(call.pkgs), step |-> "detail", done |-> call.done \cup {overview(p)}] \in Call
  BY <1>1, <1>2, <1>3, <1>5 DEF Call
<1>9. afterBroadcast(call) \in Call
  BY <1>4, <1>7, <1>8 DEF afterBroadcast
<1> QED
  BY <1>6, <1>9

-----------------------------------------------------------------------------
(* The hub's record, and the types of the variables one by one.            *)

HubState == [pc : {"select", "send", "stop", "returned"}, msg : Events, left : SUBSET Clients]

HandlerState == {"none", "register", "range", "ended", "unregister", "done"}

LEMMA Types ==
  HubTypeOK <=>
    /\ hub \in HubState
    /\ clients \subseteq Clients
    /\ send \in [Clients -> Seq(Events)]
    /\ \A c \in Clients : Len(send[c]) <= 1
    /\ closed \subseteq Clients
    /\ handler \in [Clients -> HandlerState]
    /\ pending \in [Senders -> Call]
    /\ hubStopCh \in BOOLEAN /\ stopped \in BOOLEAN
    /\ calls \in 0..MaxCalls /\ writeErrors \in 0..MaxWriteErrors
    /\ log \in Seq(Updated)
    /\ got \in [Clients -> Seq(Events)]
    /\ since \in [Clients -> Nat]
  BY Zenon DEF HubTypeOK, HubState, HandlerState, Call

LEMMA NextTypes ==
  ASSUME hub' \in HubState,
         clients' \subseteq Clients,
         send' \in [Clients -> Seq(Events)],
         \A c \in Clients : Len(send'[c]) <= 1,
         closed' \subseteq Clients,
         handler' \in [Clients -> HandlerState],
         pending' \in [Senders -> Call],
         hubStopCh' \in BOOLEAN, stopped' \in BOOLEAN,
         calls' \in 0..MaxCalls, writeErrors' \in 0..MaxWriteErrors,
         log' \in Seq(Updated),
         got' \in [Clients -> Seq(Events)],
         since' \in [Clients -> Nat]
  PROVE  HubTypeOK'
  BY Zenon DEF HubTypeOK, HubState, HandlerState, Call

LEMMA SeenTypes ==
  ASSUME HubTypeOK, NEW c \in Clients
  PROVE  /\ Seen(c) \in Seq(Events) /\ Before(Seen(c)) \in Nat /\ Len(Seen(c)) \in Nat
         /\ send[c] \in Seq(Events) /\ got[c] \in Seq(Events) /\ since[c] \in Nat
         /\ log \in Seq(Updated) /\ Len(log) \in Nat
<1>1. /\ send[c] \in Seq(Events) /\ got[c] \in Seq(Events) /\ since[c] \in Nat
      /\ log \in Seq(Updated)
  BY Types
<1>2. Seen(c) \in Seq(Events)
  BY <1>1 DEF Seen
<1> QED
  BY <1>1, <1>2, SeqFacts, BeforeFacts

(* Steps that touch neither the channels nor the history.                  *)
LEMMA SeenUnchanged ==
  ASSUME UNCHANGED <<got, send>>, NEW c \in Clients
  PROVE  Seen(c)' = Seen(c)
  BY DEF Seen

LEMMA OrderUnchanged ==
  ASSUME OrderInv, UNCHANGED <<got, send, since, log, closed, clients, hub>>
  PROVE  OrderInv'
  BY SeenUnchanged DEF OrderInv

LEMMA ChannelUnchanged ==
  ASSUME ChannelInv, UNCHANGED <<log, closed, clients, hub>>
  PROVE  ChannelInv'
  BY DEF ChannelInv

-----------------------------------------------------------------------------
(* One lemma per action.                                                   *)

LEMMA InitBrowserInv == HubInit => BrowserInv
<1> SUFFICES ASSUME HubInit PROVE BrowserInv
  OBVIOUS
<1>1. hub \in HubState
  BY UpdatedFacts DEF HubInit, HubState
<1>2. pending \in [Senders -> Call]
  <2>1. <<>> \in Seq(Pkgs)
    OBVIOUS
  <2>2. calling(<<>>) \in Call
    BY <2>1, CallStarts
  <2> QED
    BY <2>2 DEF HubInit
<1>3. /\ send \in [Clients -> Seq(Events)] /\ got \in [Clients -> Seq(Events)]
      /\ \A c \in Clients : send[c] = <<>> /\ got[c] = <<>> /\ Len(send[c]) <= 1
  BY EmptySeen DEF HubInit
<1>4. calls \in 0..MaxCalls /\ writeErrors \in 0..MaxWriteErrors
  BY HubAssumption DEF HubInit
<1>5. HubTypeOK
  <2>1. log \in Seq(Updated) /\ since \in [Clients -> Nat]
    BY DEF HubInit
  <2>2. handler \in [Clients -> HandlerState] /\ clients \subseteq Clients /\ closed \subseteq Clients
    BY DEF HubInit, HandlerState
  <2>3. hubStopCh \in BOOLEAN /\ stopped \in BOOLEAN
    BY DEF HubInit
  <2> QED
    BY <1>1, <2>1, <2>2, <2>3, <1>2, <1>3, <1>4, Types
<1>6. HandlerInv
  BY <1>3 DEF HandlerInv, HubInit
<1>7. ChannelInv
  BY DEF ChannelInv, HubInit
<1>8. ASSUME NEW c \in Clients
      PROVE  Seen(c) = <<>> /\ since[c] = 0 /\ log \in Seq(Updated)
  BY <1>3, EmptySeen DEF Seen, HubInit
<1>9. OrderInv
  BY <1>8, EmptySeen DEF OrderInv, HubInit
<1> QED
  BY <1>5, <1>6, <1>7, <1>9 DEF BrowserInv

(* The steps of a handler that touch no channel.                           *)
LEMMA HandlerMoves ==
  ASSUME BrowserInv, NEW c \in Clients, Connect(c) \/ RangeEnds(c) \/ CheckStopped(c)
  PROVE  BrowserInv'
<1>1. /\ UNCHANGED <<hub, clients, chans, pending, hubStopCh, stopped, calls, writeErrors, history>>
      /\ \E pc \in HandlerState :
           /\ handler' = [handler EXCEPT ![c] = pc]
           /\ pc \in {"register"} => handler[c] = "none"
           /\ pc \in {"ended", "unregister"} => handler[c] \in {"range", "ended"}
           /\ pc \notin {"none", "range"}
  BY DEF Connect, RangeEnds, CheckStopped, HandlerGoto, HandlerState
<1>2. PICK pc \in HandlerState :
           /\ handler' = [handler EXCEPT ![c] = pc]
           /\ pc \in {"register"} => handler[c] = "none"
           /\ pc \in {"ended", "unregister"} => handler[c] \in {"range", "ended"}
           /\ pc \notin {"none", "range"}
  BY <1>1
<1>3. UNCHANGED <<hub, clients, send, closed, pending, hubStopCh, stopped, calls, writeErrors, log, got, since>>
  BY <1>1 DEF chans, history
<1>4. HubTypeOK'
  BY <1>2, <1>3, Types, NextTypes DEF BrowserInv
<1>5. HandlerInv'
  <2>1. handler \in [Clients -> HandlerState]
    BY Types DEF BrowserInv
  <2> QED
    BY <1>2, <1>3, <2>1 DEF HandlerInv, BrowserInv
<1> QED
  BY <1>3, <1>4, <1>5, OrderUnchanged, ChannelUnchanged DEF BrowserInv

LEMMA RegisterInv ==
  ASSUME BrowserInv, NEW c \in Clients, Register(c)
  PROVE  BrowserInv'
<1>1. UNCHANGED <<hub, send, closed, pending, hubStopCh, stopped, calls, writeErrors, log, got>>
  BY DEF Register, chans
<1>2. /\ handler \in [Clients -> HandlerState]
      /\ handler' = [handler EXCEPT ![c] = "range"]
      /\ clients' = clients \cup {c}
      /\ since \in [Clients -> Nat]
      /\ since' = [since EXCEPT ![c] = Len(log)]
      /\ hub.pc = "select"
  BY Types DEF BrowserInv, Register, HandlerGoto
<1>3. c \notin closed /\ got[c] = <<>> /\ send[c] = <<>>
  BY DEF BrowserInv, HandlerInv, Register
<1>4. Len(log) \in Nat /\ log \in Seq(Updated)
  BY SeenTypes DEF BrowserInv
<1>5. HubTypeOK'
  <2>1. handler' \in [Clients -> HandlerState]
    BY <1>2 DEF HandlerState
  <2>2. since' \in [Clients -> Nat]
    BY <1>2, <1>4
  <2> QED
    BY <1>1, <1>2, <2>1, <2>2, Types, NextTypes DEF BrowserInv
<1>6. HandlerInv'
  BY <1>1, <1>2 DEF HandlerInv, BrowserInv
<1>7. ChannelInv'
  BY <1>1, <1>2, <1>3 DEF ChannelInv, BrowserInv
<1>8. ASSUME NEW d \in Clients
      PROVE  (/\ InOrder(Seen(d), since[d], log)
              /\ d \notin closed => Before(Seen(d)) = Len(Seen(d))
              /\ d \in clients => since[d] + Before(Seen(d)) = IF hub.pc = "send" /\ d \in hub.left THEN Len(log) - 1 ELSE Len(log))'
  <2>1. Seen(d)' = Seen(d)
    BY <1>1, SeenUnchanged
  <2>2. CASE d = c
    <3>1. Seen(d) = <<>>
      BY <1>3, <2>2, EmptySeen DEF Seen
    <3>2. since'[d] = Len(log)
      BY <1>2, <2>2
    <3> QED
      BY <1>1, <1>2, <1>4, <2>1, <3>1, <3>2, EmptySeen
  <2>3. CASE d # c
    <3>1. since'[d] = since[d] /\ (d \in clients' <=> d \in clients)
      BY <1>2, <2>3
    <3> QED
      BY <1>1, <2>1, <3>1 DEF OrderInv, BrowserInv
  <2> QED
    BY <2>2, <2>3
<1>9. OrderInv'
  BY <1>8 DEF OrderInv
<1> QED
  BY <1>5, <1>6, <1>7, <1>9 DEF BrowserInv

LEMMA UpdatesAvailableInv ==
  ASSUME BrowserInv, NEW s \in Senders, NEW ps \in Updates, UpdatesAvailable(s, ps)
  PROVE  BrowserInv'
<1>1. UNCHANGED <<hub, clients, send, closed, handler, hubStopCh, stopped, writeErrors, log, got, since>>
  BY DEF UpdatesAvailable, chans, history
<1>2. calling(ps) \in Call
  BY HubAssumption, CallStarts
<1>3. pending' \in [Senders -> Call]
  BY <1>2, Types DEF UpdatesAvailable, BrowserInv
<1>4. calls' \in 0..MaxCalls
  BY HubAssumption, Types DEF UpdatesAvailable, BrowserInv
<1>5. HubTypeOK'
  BY <1>1, <1>3, <1>4, Types, NextTypes DEF BrowserInv
<1>6. HandlerInv'
  BY <1>1 DEF HandlerInv, BrowserInv
<1> QED
  BY <1>1, <1>5, <1>6, OrderUnchanged, ChannelUnchanged DEF BrowserInv

LEMMA ShutdownInv ==
  ASSUME BrowserInv, Shutdown
  PROVE  BrowserInv'
<1>1. /\ UNCHANGED <<hub, clients, send, closed, handler, pending, stopped, calls, writeErrors, log, got, since>>
      /\ hubStopCh' = TRUE
  BY DEF Shutdown, chans, history
<1>2. HubTypeOK'
  BY <1>1, Types, NextTypes DEF BrowserInv
<1>3. HandlerInv'
  BY <1>1 DEF HandlerInv, BrowserInv
<1> QED
  BY <1>1, <1>2, <1>3, OrderUnchanged, ChannelUnchanged DEF BrowserInv

(* The record of the hub.                                                  *)
LEMMA HubLeft ==
  ASSUME NEW h \in HubState, NEW k, NEW c, k = [h EXCEPT !.left = @ \ {c}]
  PROVE  k \in HubState /\ k.pc = h.pc /\ k.msg = h.msg /\ k.left = h.left \ {c}
  BY DEF HubState

LEMMA HubPc ==
  ASSUME NEW h \in HubState, NEW k, NEW pc \in {"select", "returned"}, k = [h EXCEPT !.pc = pc]
  PROVE  k \in HubState /\ k.pc = pc /\ k.left = h.left
  BY DEF HubState

LEMMA HubNew ==
  ASSUME NEW pc \in {"send", "stop"}, NEW msg \in Events, NEW left \in SUBSET Clients, NEW k,
         k = [pc |-> pc, msg |-> msg, left |-> left]
  PROVE  k \in HubState /\ k.pc = pc /\ k.msg = msg /\ k.left = left
  BY DEF HubState

(* The event taken from broadcast is the last of the log, and every client *)
(* of the map lacks it.                                                    *)
LEMMA BroadcastInv ==
  ASSUME BrowserInv, NEW s \in Senders, Broadcast(s)
  PROVE  BrowserInv'
<1>1. UNCHANGED <<clients, send, closed, handler, hubStopCh, stopped, calls, writeErrors, got, since>>
  BY DEF Broadcast, chans
<1>2. pending \in [Senders -> Call] /\ clients \in SUBSET Clients /\ log \in Seq(Updated)
  BY Types DEF BrowserInv
<1>3. PICK call \in Call : call = pending[s]
  BY <1>2
<1>4. /\ call.pkgs # <<>>
      /\ hub.pc = "select"
      /\ hub' = [pc |-> "send", msg |-> eventOf(call), left |-> clients]
      /\ pending' = [pending EXCEPT ![s] = afterBroadcast(call)]
      /\ log' = Append(log, eventOf(call))
  BY <1>3 DEF Broadcast
<1>5. PICK e \in Updated : e = eventOf(call)
  BY <1>4, CallProceeds
<1>6. PICK after \in Call : after = afterBroadcast(call)
  BY <1>4, CallProceeds
<1>7. e \in Events
  BY UpdatedFacts
<1>8. hub' \in HubState /\ hub'.pc = "send" /\ hub'.msg = e /\ hub'.left = clients
  <2>1. hub' = [pc |-> "send", msg |-> e, left |-> clients]
    BY <1>4, <1>5
  <2> QED
    BY ONLY <1>2, <1>7, <2>1, HubNew
<1>9. log' = Append(log, e) /\ pending' = [pending EXCEPT ![s] = after]
  BY <1>4, <1>5, <1>6
<1>10. /\ log' \in Seq(Updated) /\ Len(log) \in Nat
       /\ Len(log') = Len(log) + 1 /\ log'[Len(log) + 1] = e
  BY <1>2, <1>9, AppendFacts, SeqFacts
<1>11. HubTypeOK'
  <2>1. pending' \in [Senders -> Call]
    BY <1>2, <1>9
  <2> QED
    BY <1>1, <1>8, <1>10, <2>1, Types, NextTypes DEF BrowserInv
<1>12. HandlerInv'
  BY <1>1 DEF HandlerInv, BrowserInv
<1>13. ChannelInv'
  <2>1. Len(log') >= 1 /\ hub'.msg = log'[Len(log')]
    BY <1>8, <1>10
  <2>2. \A c \in clients : c \notin closed
    BY <1>4 DEF ChannelInv, BrowserInv
  <2> QED
    BY <1>1, <1>8, <2>1, <2>2 DEF ChannelInv
<1>14. ASSUME NEW c \in Clients
       PROVE  (/\ InOrder(Seen(c), since[c], log)
               /\ c \notin closed => Before(Seen(c)) = Len(Seen(c))
               /\ c \in clients => since[c] + Before(Seen(c)) = IF hub.pc = "send" /\ c \in hub.left THEN Len(log) - 1 ELSE Len(log))'
  <2>1. Seen(c)' = Seen(c) /\ Seen(c) \in Seq(Events) /\ since[c] \in Nat
    BY <1>1, SeenUnchanged, SeenTypes DEF BrowserInv
  <2>2. /\ InOrder(Seen(c), since[c], log)
        /\ c \notin closed => Before(Seen(c)) = Len(Seen(c))
        /\ c \in clients => since[c] + Before(Seen(c)) = Len(log)
    BY <1>4 DEF BrowserInv, OrderInv
  <2>3. InOrder(Seen(c), since[c], log')
    BY <1>2, <1>9, <2>1, <2>2, InOrderOfLongerLog
  <2>4. c \in clients => since[c] + Before(Seen(c)) = Len(log') - 1
    BY <1>10, <2>2
  <2> QED
    BY <1>1, <1>8, <2>1, <2>2, <2>3, <2>4
<1>15. OrderInv'
  BY <1>14 DEF OrderInv
<1> QED
  BY <1>11, <1>12, <1>13, <1>15 DEF BrowserInv

(* What c has seen after an event was put into its channel.                *)
LEMMA PutIntoChannel ==
  ASSUME HubTypeOK, NEW c \in Clients, NEW e \in Events, ~Full(c),
         send' = [send EXCEPT ![c] = Append(@, e)], got' = got
  PROVE  /\ send' \in [Clients -> Seq(Events)]
         /\ \A d \in Clients : Len(send'[d]) <= 1
         /\ Seen(c)' = Append(Seen(c), e)
         /\ \A d \in Clients : d # c => Seen(d)' = Seen(d) /\ send'[d] = send[d]
<1>1. send \in [Clients -> Seq(Events)] /\ \A d \in Clients : Len(send[d]) <= 1
  BY Types
<1>2. PICK s \in Seq(Events) : s = send[c]
  BY <1>1
<1>3. PICK g \in Seq(Events) : g = got[c]
  BY SeenTypes
<1>4. PICK t \in Seq(Events) : t = Append(s, e)
  BY AppendFacts
<1>5. Len(t) = Len(s) + 1 /\ g \o t = Append(g \o s, e) /\ Len(s) \in Nat
  BY <1>4, AppendFacts, SeqFacts, SendAppends
<1>6. send' = [send EXCEPT ![c] = t]
  BY <1>2, <1>4
<1>7. Len(t) <= 1
  <2>1. Len(s) <= 1 /\ Len(s) # 1
    BY <1>1, <1>2 DEF Full
  <2>2. PICK n \in Nat : n = Len(s)
    BY <1>5
  <2>3. n = 0
    BY ONLY <2>1, <2>2
  <2>4. Len(t) = n + 1
    BY <1>5, <2>2
  <2> QED
    BY ONLY <2>3, <2>4
<1> QED
  BY <1>1, <1>2, <1>3, <1>5, <1>6, <1>7 DEF Seen

LEMMA SendInv ==
  ASSUME BrowserInv, NEW c \in Clients, Send(c)
  PROVE  BrowserInv'
<1>1. UNCHANGED <<clients, closed, handler, pending, hubStopCh, stopped, calls, writeErrors, log, got, since>>
  BY DEF Send, history
<1>2. /\ hub \in HubState /\ hub.msg \in Events
      /\ hub.pc = "send" /\ c \in hub.left /\ ~Full(c)
      /\ send' = [send EXCEPT ![c] = Append(@, hub.msg)]
      /\ hub' = [hub EXCEPT !.left = @ \ {c}]
  BY Types DEF BrowserInv, Send, HubState
<1>3. hub' \in HubState /\ hub'.pc = "send" /\ hub'.msg = hub.msg /\ hub'.left = hub.left \ {c}
  BY <1>2, HubLeft
<1>4. /\ send' \in [Clients -> Seq(Events)]
      /\ \A d \in Clients : Len(send'[d]) <= 1
      /\ Seen(c)' = Append(Seen(c), hub.msg)
      /\ \A d \in Clients : d # c => Seen(d)' = Seen(d) /\ send'[d] = send[d]
  BY <1>1, <1>2, PutIntoChannel DEF BrowserInv
<1>5. c \in clients /\ c \notin closed /\ hub.msg = log[Len(log)]
  BY <1>2 DEF ChannelInv, BrowserInv
<1>6. HubTypeOK'
  BY <1>1, <1>3, <1>4, Types, NextTypes DEF BrowserInv
<1>7. HandlerInv'
  BY <1>1, <1>4, <1>5 DEF HandlerInv, BrowserInv
<1>8. ChannelInv'
  BY <1>1, <1>2, <1>3 DEF ChannelInv, BrowserInv
<1>9. ASSUME NEW d \in Clients
      PROVE  (/\ InOrder(Seen(d), since[d], log)
              /\ d \notin closed => Before(Seen(d)) = Len(Seen(d))
              /\ d \in clients => since[d] + Before(Seen(d)) = IF hub.pc = "send" /\ d \in hub.left THEN Len(log) - 1 ELSE Len(log))'
  <2>1. CASE d = c
    <3>1. /\ InOrder(Seen(c), since[c], log) /\ Before(Seen(c)) = Len(Seen(c))
          /\ since[c] + Len(Seen(c)) = Len(log) - 1
      BY <1>2, <1>5 DEF BrowserInv, OrderInv
    <3>2. Seen(c) \in Seq(Events) /\ since[c] \in Nat /\ log \in Seq(Updated)
      BY SeenTypes DEF BrowserInv
    <3>3. PICK e \in Events : e = hub.msg
      BY <1>2
    <3>4. /\ InOrder(Append(Seen(c), e), since[c], log)
          /\ Before(Append(Seen(c), e)) = Len(Append(Seen(c), e))
          /\ since[c] + Before(Append(Seen(c), e)) = Len(log)
      BY <1>5, <3>1, <3>2, <3>3, InOrderAfterSend
    <3> QED
      BY <1>1, <1>3, <1>4, <2>1, <3>3, <3>4
  <2>2. CASE d # c
    <3>1. Seen(d)' = Seen(d) /\ (d \in hub'.left <=> d \in hub.left)
      BY <1>3, <1>4, <2>2
    <3> QED
      BY <1>1, <1>2, <1>3, <3>1 DEF OrderInv, BrowserInv
  <2> QED
    BY <2>1, <2>2
<1>10. OrderInv'
  BY <1>9 DEF OrderInv
<1> QED
  BY <1>6, <1>7, <1>8, <1>10 DEF BrowserInv

(* The hub has sent to every client, and returns to select.                *)
LEMMA SendDoneInv ==
  ASSUME BrowserInv, SendDone
  PROVE  BrowserInv'
<1>1. UNCHANGED <<clients, send, closed, handler, pending, hubStopCh, stopped, calls, writeErrors, log, got, since>>
  BY DEF SendDone, chans, history
<1>2. hub \in HubState /\ hub.pc = "send" /\ hub.left = {} /\ hub' = [hub EXCEPT !.pc = "select"]
  BY Types DEF BrowserInv, SendDone
<1>3. hub' \in HubState /\ hub'.pc = "select" /\ hub'.left = hub.left
  BY <1>2, HubPc
<1>4. HubTypeOK'
  BY <1>1, <1>3, Types, NextTypes DEF BrowserInv
<1>5. HandlerInv'
  BY <1>1 DEF HandlerInv, BrowserInv
<1>6. ChannelInv'
  BY <1>1, <1>2, <1>3 DEF ChannelInv, BrowserInv
<1>7. OrderInv'
  BY <1>1, <1>2, <1>3, SeenUnchanged DEF OrderInv, BrowserInv
<1> QED
  BY <1>4, <1>5, <1>6, <1>7 DEF BrowserInv

(* The handler takes an event: what it has seen stays the same.            *)
LEMMA ReceiveInv ==
  ASSUME BrowserInv, NEW c \in Clients, Receive(c), writeErrors' \in 0..MaxWriteErrors,
         handler' = handler \/ HandlerGoto(c, "ended")
  PROVE  BrowserInv'
<1>1. UNCHANGED <<hub, clients, closed, pending, hubStopCh, stopped, calls, log, since>>
  BY DEF Receive
<1>2. /\ send \in [Clients -> Seq(Events)] /\ got \in [Clients -> Seq(Events)]
      /\ handler \in [Clients -> HandlerState]
      /\ \A d \in Clients : Len(send[d]) <= 1
  BY Types DEF BrowserInv
<1>3. PICK s \in Seq(Events) : s = send[c]
  BY <1>2
<1>4. PICK g \in Seq(Events) : g = got[c]
  BY <1>2
<1>5. s # <<>> /\ handler[c] = "range"
  BY <1>3 DEF Receive
<1>6. PICK t \in Seq(Events) : t = Tail(s)
  BY <1>5, ReceiveKeepsSeen
<1>7. PICK h \in Seq(Events) : h = Append(g, Head(s))
  BY <1>5, ReceiveKeepsSeen
<1>8. Len(t) = Len(s) - 1 /\ h \o t = g \o s
  <2>1. Len(Tail(s)) = Len(s) - 1 /\ Append(g, Head(s)) \o Tail(s) = g \o s
    BY <1>5, ReceiveKeepsSeen
  <2> QED
    BY <1>6, <1>7, <2>1, Zenon
<1>9. Len(t) <= 1
  <2>1. PICK n \in Nat : n = Len(s)
    BY SeqFacts
  <2>2. n <= 1 /\ Len(t) = n - 1
    BY <1>2, <1>3, <1>8, <2>1
  <2> QED
    BY ONLY <2>1, <2>2
<1>10. send' = [send EXCEPT ![c] = t] /\ got' = [got EXCEPT ![c] = h]
  BY <1>3, <1>4, <1>6, <1>7 DEF Receive
<1>11. ASSUME NEW d \in Clients PROVE Seen(d)' = Seen(d)
  BY <1>2, <1>3, <1>4, <1>8, <1>10 DEF Seen
<1>12. handler' \in [Clients -> HandlerState]
  BY <1>2 DEF HandlerGoto, HandlerState
<1>13. HubTypeOK'
  <2>1. send' \in [Clients -> Seq(Events)] /\ got' \in [Clients -> Seq(Events)]
    BY <1>2, <1>10
  <2>2. \A d \in Clients : Len(send'[d]) <= 1
    BY <1>2, <1>9, <1>10
  <2> QED
    BY <1>1, <1>12, <2>1, <2>2, Types, NextTypes DEF BrowserInv
<1>14. HandlerInv'
  <2>1. handler'[c] \in {"range", "ended"} /\ \A d \in Clients : d # c => handler'[d] = handler[d]
    BY <1>2, <1>5 DEF HandlerGoto
  <2>2. \A d \in Clients : d # c => send'[d] = send[d] /\ got'[d] = got[d]
    BY <1>2, <1>10
  <2>3. c \in clients
    BY <1>5 DEF HandlerInv, BrowserInv
  <2> QED
    BY <1>1, <2>1, <2>2, <2>3 DEF HandlerInv, BrowserInv
<1>15. ChannelInv'
  BY <1>1, ChannelUnchanged DEF BrowserInv
<1>16. OrderInv'
  BY <1>1, <1>11 DEF OrderInv, BrowserInv
<1> QED
  BY <1>13, <1>14, <1>15, <1>16 DEF BrowserInv

LEMMA WriteInv ==
  ASSUME BrowserInv, NEW c \in Clients, WriteOk(c) \/ WriteFails(c)
  PROVE  BrowserInv'
<1>1. writeErrors \in 0..MaxWriteErrors
  BY Types DEF BrowserInv
<1>2. writeErrors' \in 0..MaxWriteErrors
  BY <1>1, HubAssumption DEF WriteOk, WriteFails
<1> QED
  BY <1>2, ReceiveInv DEF WriteOk, WriteFails

LEMMA UnregisterInv ==
  ASSUME BrowserInv, NEW c \in Clients, Unregister(c)
  PROVE  BrowserInv'
<1>1. UNCHANGED <<hub, send, pending, hubStopCh, stopped, calls, writeErrors, log, got, since>>
  BY DEF Unregister, history
<1>2. /\ handler \in [Clients -> HandlerState]
      /\ handler' = [handler EXCEPT ![c] = "done"]
      /\ clients' = clients \ {c} /\ closed' = closed \cup {c}
      /\ hub.pc = "select"
  BY Types DEF BrowserInv, Unregister, HandlerGoto
<1>3. HubTypeOK'
  <2>1. handler' \in [Clients -> HandlerState]
    BY <1>2 DEF HandlerState
  <2> QED
    BY <1>1, <1>2, <2>1, Types, NextTypes DEF BrowserInv
<1>4. HandlerInv'
  BY <1>1, <1>2 DEF HandlerInv, BrowserInv
<1>5. ChannelInv'
  BY <1>1, <1>2 DEF ChannelInv, BrowserInv
<1>6. OrderInv'
  BY <1>1, <1>2, SeenUnchanged DEF OrderInv, BrowserInv
<1> QED
  BY <1>3, <1>4, <1>5, <1>6 DEF BrowserInv

LEMMA StopInv ==
  ASSUME BrowserInv, Stop
  PROVE  BrowserInv'
<1>1. UNCHANGED <<clients, send, closed, handler, pending, hubStopCh, calls, writeErrors, log, got, since>>
  BY DEF Stop, chans, history
<1>2. /\ hub.pc = "select" /\ clients \in SUBSET Clients /\ stopped' = TRUE
      /\ hub' = [pc |-> "stop", msg |-> Close, left |-> clients]
  BY Types DEF BrowserInv, Stop
<1>3. hub' \in HubState /\ hub'.pc = "stop" /\ hub'.left = clients
  BY <1>2, HubNew, UpdatedFacts
<1>4. HubTypeOK'
  BY <1>1, <1>2, <1>3, Types, NextTypes DEF BrowserInv
<1>5. HandlerInv'
  BY <1>1 DEF HandlerInv, BrowserInv
<1>6. ChannelInv'
  BY <1>1, <1>2, <1>3 DEF ChannelInv, BrowserInv
<1>7. OrderInv'
  BY <1>1, <1>2, <1>3, SeenUnchanged DEF OrderInv, BrowserInv
<1> QED
  BY <1>4, <1>5, <1>6, <1>7 DEF BrowserInv

(* The good-bye and the end of the channel.                                *)
LEMMA SendCloseInv ==
  ASSUME BrowserInv, NEW c \in Clients, SendClose(c)
  PROVE  BrowserInv'
<1>1. UNCHANGED <<clients, handler, pending, hubStopCh, stopped, calls, writeErrors, log, got, since>>
  BY DEF SendClose, history
<1>2. /\ hub \in HubState
      /\ hub.pc = "stop" /\ c \in hub.left /\ ~Full(c)
      /\ send' = [send EXCEPT ![c] = Append(@, Close)]
      /\ closed' = closed \cup {c}
      /\ hub' = [hub EXCEPT !.left = @ \ {c}]
  BY Types DEF BrowserInv, SendClose
<1>3. hub' \in HubState /\ hub'.pc = "stop" /\ hub'.left = hub.left \ {c}
  BY <1>2, HubLeft
<1>4. /\ send' \in [Clients -> Seq(Events)]
      /\ \A d \in Clients : Len(send'[d]) <= 1
      /\ Seen(c)' = Append(Seen(c), Close)
      /\ \A d \in Clients : d # c => Seen(d)' = Seen(d) /\ send'[d] = send[d]
  BY <1>1, <1>2, PutIntoChannel, UpdatedFacts DEF BrowserInv
<1>5. c \in clients /\ c \notin closed
  BY <1>2 DEF ChannelInv, BrowserInv
<1>6. HubTypeOK'
  BY <1>1, <1>2, <1>3, <1>4, Types, NextTypes DEF BrowserInv
<1>7. HandlerInv'
  BY <1>1, <1>2, <1>4, <1>5 DEF HandlerInv, BrowserInv
<1>8. ChannelInv'
  BY <1>1, <1>2, <1>3 DEF ChannelInv, BrowserInv
<1>9. ASSUME NEW d \in Clients
      PROVE  (/\ InOrder(Seen(d), since[d], log)
              /\ d \notin closed => Before(Seen(d)) = Len(Seen(d))
              /\ d \in clients => since[d] + Before(Seen(d)) = IF hub.pc = "send" /\ d \in hub.left THEN Len(log) - 1 ELSE Len(log))'
  <2>1. CASE d = c
    <3>1. /\ InOrder(Seen(c), since[c], log) /\ Before(Seen(c)) = Len(Seen(c))
          /\ since[c] + Before(Seen(c)) = Len(log)
      BY <1>2, <1>5 DEF BrowserInv, OrderInv
    <3>2. Seen(c) \in Seq(Events) /\ since[c] \in Nat /\ log \in Seq(Updated)
      BY SeenTypes DEF BrowserInv
    <3>3. /\ InOrder(Append(Seen(c), Close), since[c], log)
          /\ Before(Append(Seen(c), Close)) = Before(Seen(c))
      BY <3>1, <3>2, InOrderAfterClose
    <3> QED
      BY <1>1, <1>2, <1>3, <1>4, <2>1, <3>1, <3>3
  <2>2. CASE d # c
    BY <1>1, <1>2, <1>3, <1>4, <2>2 DEF OrderInv, BrowserInv
  <2> QED
    BY <2>1, <2>2
<1>10. OrderInv'
  BY <1>9 DEF OrderInv
<1> QED
  BY <1>6, <1>7, <1>8, <1>10 DEF BrowserInv

LEMMA StopDoneInv ==
  ASSUME BrowserInv, StopDone
  PROVE  BrowserInv'
<1>1. UNCHANGED <<clients, send, closed, handler, pending, hubStopCh, stopped, calls, writeErrors, log, got, since>>
  BY DEF StopDone, chans, history
<1>2. hub \in HubState /\ hub.pc = "stop" /\ hub' = [hub EXCEPT !.pc = "returned"]
  BY Types DEF BrowserInv, StopDone
<1>3. hub' \in HubState /\ hub'.pc = "returned" /\ hub'.left = hub.left
  BY <1>2, HubPc
<1>4. HubTypeOK'
  BY <1>1, <1>3, Types, NextTypes DEF BrowserInv
<1>5. HandlerInv'
  BY <1>1 DEF HandlerInv, BrowserInv
<1>6. ChannelInv'
  BY <1>1, <1>2, <1>3 DEF ChannelInv, BrowserInv
<1>7. OrderInv'
  BY <1>1, <1>2, <1>3, SeenUnchanged DEF OrderInv, BrowserInv
<1> QED
  BY <1>4, <1>5, <1>6, <1>7 DEF BrowserInv

LEMMA StutterInv ==
  ASSUME BrowserInv, UNCHANGED hubVars
  PROVE  BrowserInv'
<1>1. UNCHANGED <<hub, clients, send, closed, handler, pending, hubStopCh, stopped, calls, writeErrors, log, got, since>>
  BY DEF hubVars
<1>2. HubTypeOK'
  BY <1>1, Types, NextTypes DEF BrowserInv
<1>3. HandlerInv'
  BY <1>1 DEF HandlerInv, BrowserInv
<1> QED
  BY <1>1, <1>2, <1>3, OrderUnchanged, ChannelUnchanged DEF BrowserInv

LEMMA NextBrowserInv == BrowserInv /\ [HubNext]_hubVars => BrowserInv'
<1> SUFFICES ASSUME BrowserInv, [HubNext]_hubVars PROVE BrowserInv'
  OBVIOUS
<1>1. ASSUME NEW c \in Clients,
             Connect(c) \/ Register(c) \/ Unregister(c) \/ Handler(c) \/ WriteFails(c)
      PROVE  BrowserInv'
  BY <1>1, HandlerMoves, RegisterInv, UnregisterInv, WriteInv DEF Handler
<1>2. ASSUME HubStep PROVE BrowserInv'
  BY <1>2, SendInv, SendCloseInv, SendDoneInv, StopInv, StopDoneInv DEF HubStep
<1> QED
  BY <1>1, <1>2, UpdatesAvailableInv, BroadcastInv, ShutdownInv, StutterInv DEF HubNext

-----------------------------------------------------------------------------
(* The theorems.                                                           *)

LEMMA BrowserInvAlways == HubSpec => []BrowserInv
  BY InitBrowserInv, NextBrowserInv, PTL DEF HubSpec

(* The hub (ssehub.go: run) sends on no closed channel and closes none     *)
(* twice: whoever it is about to send to, or may be asked to unregister,   *)
(* has an open channel, whatever order browsers leave in and whenever the  *)
(* server is shut down.                                                    *)
THEOREM ChannelsUsedOpen == HubSpec => []HubInv
<1>1. BrowserInv => HubInv
  <2> SUFFICES ASSUME BrowserInv PROVE HubInv
    OBVIOUS
  <2>1. ASSUME NEW c \in Clients, hub.pc = "select", handler[c] = "unregister" PROVE c \notin closed
    BY <2>1 DEF BrowserInv, HandlerInv, ChannelInv
  <2>2. ChannelsOpenWhenUsed
    BY <2>1 DEF BrowserInv, ChannelInv, ChannelsOpenWhenUsed
  <2> QED
    BY <2>2 DEF BrowserInv, HubInv
<1> QED
  BY <1>1, BrowserInvAlways, PTL

(* A browser (ssehub.go: handler) sees the events broadcast since its      *)
(* registration, all of them and in order, however the hub, the senders    *)
(* and the other browsers interleave, and nothing after the good-bye.      *)
THEOREM EventsDelivered == HubSpec => []EventsInOrder
<1>1. BrowserInv => EventsInOrder
  <2> SUFFICES ASSUME BrowserInv, NEW c \in Clients
               PROVE  /\ since[c] + Delivered(c) <= Len(log)
                      /\ \A i \in 1..Delivered(c) : Seen(c)[i] # Close /\ Seen(c)[i] = log[since[c] + i]
                      /\ c \in clients /\ ~(hub.pc = "send" /\ c \in hub.left) => since[c] + Delivered(c) = Len(log)
    BY DEF EventsInOrder
  <2>1. Delivered(c) = Before(Seen(c))
    BY DEF Delivered, Before
  <2> QED
    BY <2>1 DEF BrowserInv, OrderInv, InOrder
<1> QED
  BY <1>1, BrowserInvAlways, PTL

-----------------------------------------------------------------------------
(* The verifier of the caches: the inductive invariant of a round.         *)

ResourceVersions == 0..MaxVersion

(* TypeOK, the variables it leaves out included.                           *)
TypeInv ==
  /\ VerifierTypeOK
  /\ events \in [Items -> Seq(ResourceVersions)]
  /\ rv \in ResourceVersions
  /\ removals \in Nat
  /\ lastDiffs \subseteq Items

(* A round leaves a well-formed diffMap.                                   *)
LEMMA DiffMapType ==
  ASSUME TypeInv
  PROVE  /\ diffMapAfter \in [Items -> {None} \cup ResourceVersions]
         /\ diffs \subseteq Items
  BY DEF TypeInv, VerifierTypeOK, diffMapAfter, diffs, ResourceVersions

(* A write or a removal changes one item and queues one event.             *)
LEMMA ChangeType ==
  ASSUME TypeInv, NEW i \in Items, NEW v \in ResourceVersions, Change(i, v)
  PROVE  /\ stored' \in [Items -> ResourceVersions]
         /\ events' \in [Items -> Seq(ResourceVersions)]
         /\ stored'[i] = v
         /\ \A j \in Items : j # i => stored'[j] = stored[j]
  BY DEF TypeInv, VerifierTypeOK, Change, ResourceVersions

(* Every step keeps the types.                                             *)
LEMMA TypeStep == TypeInv /\ [VerifierNext]_verifierVars => TypeInv'
<1> SUFFICES ASSUME TypeInv, [VerifierNext]_verifierVars PROVE TypeInv'
  OBVIOUS
<1> USE BoundsAssumption DEF ResourceVersions
<1>1. ASSUME NEW i \in Items, Write(i) PROVE TypeInv'
  <2>1. rv + 1 \in ResourceVersions
    BY <1>1 DEF Write, TypeInv
  <2>2. Change(i, rv + 1)
    BY <1>1 DEF Write
  <2> QED
    BY <1>1, <2>1, <2>2, ChangeType DEF Write, Change, TypeInv, VerifierTypeOK
<1>2. ASSUME NEW i \in Items, Delete(i) PROVE TypeInv'
  <2>1. 0 \in ResourceVersions /\ Change(i, 0)
    BY <1>2 DEF Delete
  <2> QED
    BY <1>2, <2>1, ChangeType DEF Delete, Change, TypeInv, VerifierTypeOK
<1>3. ASSUME NEW i \in Items, Deliver(i) PROVE TypeInv'
  <2>1. /\ events[i] \in Seq(ResourceVersions)
        /\ events[i] # <<>>
    BY <1>3 DEF Deliver, TypeInv
  <2>2. Head(events[i]) \in ResourceVersions /\ Tail(events[i]) \in Seq(ResourceVersions)
    BY <2>1, HeadTailProperties
  <2> QED
    BY <1>3, <2>2 DEF Deliver, TypeInv, VerifierTypeOK
<1>4. CASE ListNonCached
  BY <1>4 DEF ListNonCached, TypeInv, VerifierTypeOK
<1>5. CASE ListFails
  BY <1>5 DEF ListFails, TypeInv, VerifierTypeOK
<1>6. CASE Compare
  BY <1>6, DiffMapType DEF Compare, TypeInv, VerifierTypeOK
<1>7. ASSUME NEW i \in Items, CloseAndReset(i) PROVE TypeInv'
  BY <1>7 DEF CloseAndReset, TypeInv, VerifierTypeOK
<1>8. CASE UNCHANGED verifierVars
  BY <1>8 DEF verifierVars, TypeInv, VerifierTypeOK
<1> QED
  BY <1>1, <1>2, <1>3, <1>4, <1>5, <1>6, <1>7, <1>8 DEF VerifierNext, Round

(* The types hold in every reachable state.                                *)
LEMMA TypeInvariant == VerifierSpec => []TypeInv
<1>1. VerifierInit => TypeInv
  BY BoundsAssumption DEF VerifierInit, Absent, None, TypeInv, VerifierTypeOK, ResourceVersions
<1> QED
  BY <1>1, TypeStep, PTL DEF VerifierSpec

(* The variables of the verifier and of its environment have their types.  *)
THEOREM VerifierTypeCorrect == VerifierSpec => []VerifierTypeOK
<1>1. TypeInv => VerifierTypeOK
  BY DEF TypeInv
<1> QED
  BY <1>1, TypeInvariant, PTL

(* A sequence without zeros stays one when another number is appended.     *)
LEMMA AppendNonZero ==
  ASSUME NEW S, NEW s \in Seq(S), NEW v \in S, v # 0, \A k \in 1..Len(s) : s[k] # 0
  PROVE  \A k \in 1..Len(Append(s, v)) : Append(s, v)[k] # 0
<1> SUFFICES ASSUME NEW k \in 1..Len(Append(s, v)) PROVE Append(s, v)[k] # 0
  OBVIOUS
<1>1. Len(s) \in Nat /\ Len(Append(s, v)) = Len(s) + 1
  BY AppendProperties, LenProperties
<1>2. CASE k = Len(s) + 1
  BY <1>2, AppendProperties
<1>3. CASE k \in 1..Len(s)
  BY <1>3, AppendProperties
<1> QED
  BY <1>1, <1>2, <1>3

-----------------------------------------------------------------------------
(* Without removals an item that was once seen anywhere is still stored,   *)
(* so an item with an entry in diffMap appears in the next non-cached list *)
(* and its entry cannot survive a round without difference.                *)

NothingVanishes ==
  \A i \in Items :
    /\ cached[i] # 0 => stored[i] # 0
    /\ listed[i] # 0 => stored[i] # 0
    /\ \A k \in 1..Len(events[i]) : events[i][k] # 0
    /\ events[i] # <<>> => stored[i] # 0

EntriesAreDiffs ==
  \A i \in Items : diffMap[i] # None =>
    /\ i \in lastDiffs
    /\ stored[i] # 0
    /\ step = "list" => listed[i] # 0

RoundInv == removals = 0 => NothingVanishes /\ EntriesAreDiffs

(* Every step keeps RoundInv; a removal makes it void.                     *)
LEMMA RoundStep == TypeInv /\ RoundInv /\ [VerifierNext]_verifierVars => RoundInv'
<1> SUFFICES ASSUME TypeInv, RoundInv, [VerifierNext]_verifierVars, removals' = 0
             PROVE  NothingVanishes' /\ EntriesAreDiffs'
  BY DEF RoundInv
<1> USE BoundsAssumption DEF ResourceVersions
<1>0. removals = 0
  BY DEF VerifierNext, Write, Delete, Deliver, Round, ListNonCached, ListFails, Compare, CloseAndReset,
         verifierVars, TypeInv
<1>a. NothingVanishes /\ EntriesAreDiffs
  BY <1>0 DEF RoundInv
<1>1. ASSUME NEW i \in Items, Write(i) PROVE NothingVanishes' /\ EntriesAreDiffs'
  <2>1. rv + 1 \in ResourceVersions /\ rv + 1 # 0 /\ Change(i, rv + 1)
    BY <1>1 DEF Write, TypeInv
  <2>2. \A j \in Items : stored'[j] = (IF j = i THEN rv + 1 ELSE stored[j])
    BY <2>1, ChangeType
  <2>3. \A j \in Items : events'[j] = (IF j = i THEN Append(events[i], rv + 1) ELSE events[j])
    BY <2>1 DEF Change, TypeInv
  <2>4. \A j \in Items : \A k \in 1..Len(events'[j]) : events'[j][k] # 0
    <3> SUFFICES ASSUME NEW j \in Items, NEW k \in 1..Len(events'[j]) PROVE events'[j][k] # 0
      OBVIOUS
    <3>1. events[i] \in Seq(ResourceVersions)
      BY DEF TypeInv
    <3>2. \A n \in 1..Len(Append(events[i], rv + 1)) : Append(events[i], rv + 1)[n] # 0
      BY <1>a, <2>1, <3>1, AppendNonZero DEF NothingVanishes
    <3>3. CASE j = i
      BY <2>3, <3>2, <3>3
    <3>4. CASE j # i
      BY <1>a, <2>3, <3>4 DEF NothingVanishes
    <3> QED
      BY <3>3, <3>4
  <2> QED
    BY <1>a, <1>1, <2>1, <2>2, <2>3, <2>4 DEF Write, Change, NothingVanishes, EntriesAreDiffs
<1>2. ASSUME NEW i \in Items, Delete(i) PROVE FALSE
  BY <1>0, <1>2 DEF Delete
<1>3. ASSUME NEW i \in Items, Deliver(i) PROVE NothingVanishes' /\ EntriesAreDiffs'
  <2>1. /\ events[i] \in Seq(ResourceVersions)
        /\ events[i] # <<>>
    BY <1>3 DEF Deliver, TypeInv
  <2>2. \A j \in Items : cached'[j] = (IF j = i THEN Head(events[i]) ELSE cached[j])
    BY <1>3 DEF Deliver, TypeInv, VerifierTypeOK
  <2>3. \A j \in Items : events'[j] = (IF j = i THEN Tail(events[i]) ELSE events[j])
    BY <1>3 DEF Deliver, TypeInv
  <2>4. Head(events[i]) # 0 /\ stored[i] # 0
    BY <1>a, <2>1 DEF NothingVanishes
  <2>5. \A k \in 1..Len(Tail(events[i])) : Tail(events[i])[k] # 0
    BY <1>a, <2>1 DEF NothingVanishes
  <2> QED
    BY <1>a, <1>3, <2>2, <2>3, <2>4, <2>5 DEF Deliver, NothingVanishes, EntriesAreDiffs
<1>4. CASE ListNonCached
  BY <1>a, <1>4 DEF ListNonCached, NothingVanishes, EntriesAreDiffs
<1>5. CASE ListFails
  BY <1>a, <1>5 DEF ListFails, NothingVanishes, EntriesAreDiffs
<1>6. CASE Compare
  <2>1. NothingVanishes'
    BY <1>a, <1>6 DEF Compare, NothingVanishes
  <2>2. ASSUME NEW i \in Items, diffMapAfter[i] # None PROVE i \in diffs /\ stored[i] # 0
    <3>1. CASE i \in diffs
      BY <1>a, <3>1 DEF diffs, NothingVanishes
    <3>2. CASE i \notin diffs
      <4>1. cached[i] = listed[i] /\ diffMapAfter[i] = diffMap[i]
        BY <2>2, <3>2 DEF diffs, diffMapAfter
      <4>2. listed[i] # 0
        BY <1>a, <1>6, <2>2, <4>1 DEF Compare, EntriesAreDiffs
      <4> QED
        BY <2>2, <3>2, <4>1, <4>2 DEF diffMapAfter
    <3> QED
      BY <3>1, <3>2
  <2> QED
    BY <1>6, <2>1, <2>2 DEF Compare, EntriesAreDiffs
<1>7. ASSUME NEW i \in Items, CloseAndReset(i) PROVE NothingVanishes' /\ EntriesAreDiffs'
  BY <1>a, <1>7 DEF CloseAndReset, NothingVanishes, EntriesAreDiffs
<1>8. CASE UNCHANGED verifierVars
  BY <1>a, <1>8 DEF verifierVars, NothingVanishes, EntriesAreDiffs
<1> QED
  BY <1>1, <1>2, <1>3, <1>4, <1>5, <1>6, <1>7, <1>8 DEF VerifierNext, Round

(* RoundInv holds in every reachable state.                                *)
LEMMA RoundInvariant == VerifierSpec => []RoundInv
<1>1. VerifierInit => RoundInv
  BY DEF VerifierInit, Absent, None, RoundInv, NothingVanishes, EntriesAreDiffs
<1> QED
  BY <1>1, TypeInvariant, RoundStep, PTL DEF VerifierSpec

(* As long as nothing was removed, the verifier reports an item only if it *)
(* also differed in the completed round before, however the informer lags  *)
(* and whichever list calls fail.                                          *)
THEOREM TwoDiffs == VerifierSpec => ReportedAfterTwoDiffs
<1>1. TypeInv /\ RoundInv /\ [VerifierNext]_verifierVars
        => [removals = 0 => reported' \ reported \subseteq lastDiffs]_verifierVars
  <2> SUFFICES ASSUME TypeInv, RoundInv, VerifierNext, removals = 0
               PROVE  reported' \ reported \subseteq lastDiffs
    OBVIOUS
  <2>1. ASSUME NEW i \in Items, CloseAndReset(i) PROVE reported' \ reported \subseteq lastDiffs
    <3>1. diffMap[i] # None
      BY <2>1, BoundsAssumption DEF CloseAndReset, stuckItems, diffs, None, TypeInv, VerifierTypeOK
    <3>2. i \in lastDiffs
      BY <3>1 DEF RoundInv, EntriesAreDiffs
    <3> QED
      BY <2>1, <3>2 DEF CloseAndReset
  <2>2. ASSUME ~ \E i \in Items : CloseAndReset(i) PROVE reported' = reported
    BY <2>2 DEF VerifierNext, Write, Delete, Change, Deliver, Round, ListNonCached, ListFails, Compare
  <2> QED
    BY <2>1, <2>2
<1> QED
  BY <1>1, TypeInvariant, RoundInvariant, PTL DEF VerifierSpec, ReportedAfterTwoDiffs
=============================================================================
