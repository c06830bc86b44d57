----------------------- MODULE DependencyManagerProofs -----------------------
(***************************************************************************)
(* Proofs about DependencyManager, for any set of packages, any manifests  *)
(* and any repository.                                                     *)
(***************************************************************************)
EXTENDS DependencyManager, TLAPS

USE DEF Version, Installed, Dependencies

-----------------------------------------------------------------------------
(* The operators on graphs are well typed, and an uninstalled vertex has   *)
(* no edges.                                                               *)

(* addVertex yields a vertex.                                              *)
LEMMA AddVertexType ==
  ASSUME NEW r \in Refs, NEW v \in Versions \cup {None}, NEW m \in BOOLEAN
  PROVE  addVertex(r, v, m) \in vertex
BY ManifestAssumption DEF addVertex, vertex, deleted

(* add and delete map graphs to graphs.                                    *)
LEMMA AddType ==
  ASSUME NEW h \in vertexMap, NEW r \in Refs, NEW v \in Versions \cup {None}, NEW m \in BOOLEAN
  PROVE  add(h, r, v, m) \in vertexMap
BY AddVertexType DEF add, vertexMap

LEMMA DeleteType ==
  ASSUME NEW h \in vertexMap, NEW r \in Refs
  PROVE  delete(h, r) \in vertexMap
BY DEF delete, deleted, vertexMap, vertex

(* NewGraph of the manager builds a graph from the listed packages.        *)
LEMMA GraphOfType ==
  ASSUME NEW ps \in [Refs -> Package]
  PROVE  graphOf(ps) \in vertexMap
<1> SUFFICES ASSUME NEW r \in Refs
             PROVE  addVertex(r, installedVersion(ps[r]), ~ps[r].dependency) \in vertex
  BY DEF graphOf, vertexMap
<1>1. ps[r] \in Package
  OBVIOUS
<1>2. installedVersion(ps[r]) \in Versions \cup {None}
  BY <1>1 DEF Package, installedVersion
<1>3. (~ps[r].dependency) \in BOOLEAN
  OBVIOUS
<1> QED
  BY <1>2, <1>3, AddVertexType

LEMMA NewGraphType == NewGraph \in vertexMap
BY DEF NewGraph, deleted, vertexMap, vertex

LEMMA ManualType ==
  ASSUME NEW h \in vertexMap, NEW r \in Refs
  PROVE  Manual(h, r) \in BOOLEAN
BY DEF Manual

LEMMA DependenciesType ==
  ASSUME NEW h \in vertexMap, NEW r \in Refs
  PROVE  Dependencies(h, r) \in SUBSET Refs
BY DEF vertexMap, vertex, Edge

-----------------------------------------------------------------------------
(* Type correctness.  The reference of a pending call is a package, and    *)
(* the stack of addDependencies is not empty while it runs.                *)

CallOK ==
  /\ phase # "idle" => call.ref \in Refs
  /\ phase = "resolve" <=> Len(stack) > 0

TypeInv == TypeOK /\ CallOK

(* The innermost frame is a frame, and marking one of its dependencies as  *)
(* visited keeps the stack well typed and leaves its refs and its length   *)
(* alone.                                                                  *)
LEMMA VisitedType ==
  ASSUME TypeInv, phase = "resolve", NEW d \in Refs
  PROVE  /\ Visited(d) \in Seq(Frame)
         /\ Len(Visited(d)) = Len(stack)
         /\ \A i \in 1..Len(stack) : Visited(d)[i].ref = stack[i].ref
<1>1. /\ stack \in Seq(Frame)
      /\ Len(stack) \in Nat
      /\ Len(stack) > 0
  BY DEF TypeInv, TypeOK, CallOK
<1>2. stack[Len(stack)] \in Frame
  BY <1>1
<1> DEFINE f == [stack[Len(stack)] EXCEPT !.left = @ \ {d}]
<1>3. f \in Frame /\ f.ref = stack[Len(stack)].ref
  BY <1>2 DEF Frame
<1>4. Visited(d) = [stack EXCEPT ![Len(stack)] = f]
  BY DEF Visited
<1> HIDE DEF f
<1> QED
  BY <1>1, <1>3, <1>4

(* A call of Validate starts well typed, and with its first frame.         *)
LEMMA StartValidateType ==
  ASSUME TypeInv, NEW kind \in {"write", "reconcile"},
         NEW r \in Refs, NEW v \in Versions, NEW dependency \in BOOLEAN,
         StartValidate(kind, r, v, dependency), todo' \in SUBSET Requirement
  PROVE  TypeInv'
<1> DEFINE g0 == graphOf(cache)
           g1 == add(g0, r, v, Manual(g0, r))
<1>1. g0 \in vertexMap
  BY GraphOfType DEF TypeInv, TypeOK
<1>2. g1 \in vertexMap
  BY <1>1, ManualType, AddType
<1>3. Dependencies(g1, r) \in SUBSET Refs
  BY <1>2, DependenciesType
<1>4. /\ pkgs' = pkgs /\ cache' = cache
      /\ phase' = "resolve"
      /\ call' = [kind |-> kind, ref |-> r, version |-> v, dependency |-> dependency]
      /\ before' = g0 /\ g' = g1
      /\ stack' = <<[ref |-> r, left |-> Dependencies(g1, r)]>>
      /\ reqs' = {}
  BY DEF StartValidate
<1> HIDE DEF g0, g1
<1>5. stack' \in Seq(Frame) /\ Len(stack') = 1
  BY <1>3, <1>4 DEF Frame
<1>6. call' \in Call /\ call'.ref \in Refs
  BY <1>4 DEF Call
<1> QED
  BY <1>1, <1>2, <1>4, <1>5, <1>6 DEF TypeInv, TypeOK, CallOK

(* A call that ends leaves the initial local state behind.                 *)
LEMMA EndCallType ==
  ASSUME EndCall, pkgs' \in [Refs -> Package], cache' \in [Refs -> Package],
         todo' \in SUBSET Requirement
  PROVE  TypeInv'
<1>1. call' \in Call
  BY DEF EndCall, NoCall, Call
<1>2. stack' \in Seq(Frame) /\ Len(stack') = 0
  BY DEF EndCall
<1> QED
  BY <1>1, <1>2, NewGraphType DEF EndCall, TypeInv, TypeOK, CallOK

(* Every action keeps the types.                                           *)
LEMMA TypeInvStep == TypeInv /\ [Next]_vars => TypeInv'
<1> SUFFICES ASSUME TypeInv, [Next]_vars
             PROVE  TypeInv'
  OBVIOUS
<1> USE DEF TypeInv
<1>1. ASSUME NEW r \in Refs, NEW v \in Available[r], UserWrite(r, v)
      PROVE  TypeInv'
  <2>1. v \in Versions
    BY ManifestAssumption
  <2>2. StartValidate("write", r, v, FALSE) /\ todo' \in SUBSET Requirement
    BY <1>1 DEF UserWrite, TypeOK
  <2> QED
    BY <2>1, <2>2, StartValidateType
<1>2. ASSUME NEW q \in todo, ReconcilerWrite(q)
      PROVE  TypeInv'
  <2>1. q.ref \in Refs /\ q.version \in Versions
    BY DEF TypeOK, Requirement
  <2>2. StartValidate("write", q.ref, q.version, TRUE) /\ todo' \in SUBSET Requirement
    BY <1>2 DEF ReconcilerWrite, TypeOK
  <2> QED
    BY <2>1, <2>2, StartValidateType
<1>3. ASSUME NEW q \in todo, ReconcilerSkips(q)
      PROVE  TypeInv'
  BY <1>3 DEF ReconcilerSkips, TypeOK, CallOK
<1>4. ASSUME NEW r \in Refs, Reconcile(r)
      PROVE  TypeInv'
  <2>1. cache[r] \in Package /\ installedVersion(cache[r]) # None
    BY <1>4 DEF Reconcile, TypeOK
  <2>2. cache[r].version \in Versions
    BY <2>1 DEF Package, installedVersion
  <2>3. StartValidate("reconcile", r, cache[r].version, FALSE) /\ todo' \in SUBSET Requirement
    BY <1>4 DEF Reconcile, TypeOK
  <2> QED
    BY <2>2, <2>3, StartValidateType
<1>5. ASSUME NEW d \in Refs, SkipDependency(d)
      PROVE  TypeInv'
  BY <1>5, VisitedType DEF SkipDependency, TypeOK, CallOK
<1>6. ASSUME NEW d \in Refs, NEW v \in Versions, AddDependency(d, v)
      PROVE  TypeInv'
  <2> DEFINE g1 == add(g, d, v, Manual(g, d))
             f == [ref |-> d, left |-> Dependencies(g1, d)]
  <2>1. g1 \in vertexMap
    BY ManualType, AddType DEF TypeOK
  <2>2. f \in Frame
    BY <2>1, DependenciesType DEF Frame
  <2>3. phase = "resolve" /\ g' = g1 /\ stack' = Append(Visited(d), f)
    BY <1>6 DEF AddDependency, adds
  <2>4. Visited(d) \in Seq(Frame)
    BY <2>3, VisitedType
  <2>5. stack' \in Seq(Frame) /\ Len(stack') > 0
    BY <2>2, <2>3, <2>4
  <2>6. reqs' \in SUBSET Requirement
    <3>1. [ref |-> d, version |-> v, transitive |-> Len(stack) > 1] \in Requirement
      <4>1. (Len(stack) > 1) \in BOOLEAN
        OBVIOUS
      <4> QED
        BY <4>1 DEF Requirement
    <3> QED
      BY <1>6, <3>1 DEF AddDependency, adds, TypeOK
  <2> HIDE DEF g1, f
  <2> QED
    BY <1>6, <2>1, <2>3, <2>5, <2>6 DEF AddDependency, adds, TypeOK, CallOK
<1>7. CASE ReturnFromDependency
  <2>1. stack' \in Seq(Frame) /\ Len(stack') > 0
    BY <1>7 DEF ReturnFromDependency, TypeOK
  <2> QED
    BY <1>7, <2>1 DEF ReturnFromDependency, TypeOK, CallOK
<1>8. ASSUME NEW d \in Refs, RepoError(d)
      PROVE  TypeInv'
  BY <1>8, EndCallType DEF RepoError, TypeOK
<1>9. CASE FinishWrite
  <2>1. call.ref \in Refs /\ call \in Call
    BY <1>9 DEF FinishWrite, ResolveDone, CallOK, TypeOK
  <2>2. written \in Package
    BY <2>1 DEF written, Call, Package, TypeOK
  <2>3. pkgs' \in [Refs -> Package]
    BY <1>9, <2>1, <2>2 DEF FinishWrite, TypeOK
  <2> QED
    BY <1>9, <2>3, EndCallType DEF FinishWrite, TypeOK
<1>10. CASE FinishReconcile
  BY <1>10, EndCallType DEF FinishReconcile, TypeOK
<1>11. ASSUME NEW r \in Refs, StartDelete(r)
       PROVE  TypeInv'
  <2>1. call' \in Call /\ call'.ref \in Refs
    BY <1>11 DEF StartDelete, Call
  <2>2. before' \in vertexMap /\ g' \in vertexMap
    BY <1>11, GraphOfType, DeleteType DEF StartDelete, TypeOK
  <2> QED
    BY <1>11, <2>1, <2>2 DEF StartDelete, Idle, TypeOK, CallOK
<1>12. ASSUME NEW r \in Refs, DeleteNamespaced(r)
       PROVE  TypeInv'
  <2>1. pkgs' \in [Refs -> Package]
    BY <1>12 DEF DeleteNamespaced, Package, TypeOK
  <2> QED
    BY <1>12, <2>1 DEF DeleteNamespaced, TypeOK, CallOK
<1>13. ASSUME NEW r \in Refs, PruneVertex(r)
       PROVE  TypeInv'
  BY <1>13, DeleteType DEF PruneVertex, TypeOK, CallOK
<1>14. CASE FinishDelete
  <2>1. pkgs' \in [Refs -> Package]
    BY <1>14 DEF FinishDelete, Package, TypeOK, CallOK
  <2> QED
    BY <1>14, <2>1, EndCallType DEF FinishDelete, TypeOK
<1>15. ASSUME NEW r \in Refs, RemovePackage(r)
       PROVE  TypeInv'
  <2>1. pkgs' \in [Refs -> Package]
    BY <1>15 DEF RemovePackage, Package, absent, TypeOK
  <2> QED
    BY <1>15, <2>1 DEF RemovePackage, TypeOK, CallOK
<1>16. CASE SyncCache
  BY <1>16 DEF SyncCache, TypeOK, CallOK
<1>17. CASE UNCHANGED vars
  BY <1>17 DEF vars, TypeOK, CallOK
<1> QED
  BY <1>1, <1>2, <1>3, <1>4, <1>5, <1>6, <1>7, <1>8, <1>9, <1>10, <1>11, <1>12, <1>13,
     <1>14, <1>15, <1>16, <1>17 DEF Next, ManagerStep

(* TypeInv is an invariant.                                                *)
LEMMA TypeInvariant == Spec => []TypeInv
<1>1. Init => TypeInv
  <2>1. absent \in Package /\ NoCall \in Call
    BY DEF absent, Package, NoCall, Call
  <2> QED
    BY <2>1, NewGraphType DEF Init, TypeInv, TypeOK, CallOK
<1> QED
  BY <1>1, TypeInvStep, PTL DEF Spec

(* Every reachable state of the dependency manager is well typed: the      *)
(* graphs, the frames of addDependencies and the requirements it returns.  *)
THEOREM TypeCorrect == Spec => []TypeOK
BY TypeInvariant, PTL DEF TypeInv

-----------------------------------------------------------------------------
(* Recursion.  The guard of addDependencies says that a dependency is only *)
(* entered if it is not installed; the inductive part is that the package  *)
(* of every active frame is installed in the working graph.                *)

FramesInstalled == \A i \in 1..Len(stack) : Version(g, stack[i].ref) # None

RecursionInv == FramesInstalled /\ RecursionBounded

(* Every action keeps the packages of the active frames installed and      *)
(* pairwise different.                                                     *)
LEMMA RecursionStep == TypeInv /\ RecursionInv /\ [Next]_vars => RecursionInv'
<1> SUFFICES ASSUME TypeInv, RecursionInv, [Next]_vars
             PROVE  RecursionInv'
  OBVIOUS
<1> USE DEF RecursionInv, FramesInstalled, RecursionBounded
<1>1. ASSUME NEW kind, NEW r \in Refs, NEW v \in Versions, NEW dependency,
             StartValidate(kind, r, v, dependency)
      PROVE  RecursionInv'
  <2>1. /\ stack' = <<[ref |-> r, left |-> Dependencies(g', r)]>>
        /\ g' = add(graphOf(cache), r, v, Manual(graphOf(cache), r))
    BY <1>1 DEF StartValidate
  <2>2. g'[r].version = v /\ v # None
    BY <2>1, NoneAssumption DEF add, addVertex, graphOf
  <2>3. Len(stack') = 1 /\ stack'[1].ref = r
    BY <2>1
  <2> QED
    BY <2>2, <2>3
<1>2. ASSUME NEW d \in Refs, SkipDependency(d)
      PROVE  RecursionInv'
  BY <1>2, VisitedType DEF SkipDependency
<1>3. ASSUME NEW d \in Refs, NEW v \in Versions, AddDependency(d, v)
      PROVE  RecursionInv'
  <2> DEFINE f == [ref |-> d, left |-> Dependencies(g', d)]
             s == Visited(d)
  <2>1. /\ phase = "resolve"
        /\ Version(g, d) = None
        /\ g' = add(g, d, v, Manual(g, d))
        /\ stack' = Append(s, f)
    BY <1>3 DEF AddDependency, adds
  <2>2. /\ s \in Seq(Frame)
        /\ Len(s) = Len(stack)
        /\ \A i \in 1..Len(stack) : s[i].ref = stack[i].ref
    BY <2>1, VisitedType
  <2>3. f \in Frame /\ f.ref = d
    <3>1. g' \in vertexMap
      BY <2>1, AddType, ManualType DEF TypeInv, TypeOK
    <3> QED
      BY <3>1, DependenciesType DEF Frame
  <2>4. g'[d].version # None /\ \A r \in Refs \ {d} : g'[r] = g[r]
    BY <2>1, NoneAssumption DEF add, addVertex, TypeInv, TypeOK, vertexMap
  <2>5. \A i \in 1..Len(stack) : stack[i].ref \in Refs \ {d}
    <3> SUFFICES ASSUME NEW i \in 1..Len(stack)
                 PROVE  stack[i].ref \in Refs \ {d}
      OBVIOUS
    <3>1. stack[i] \in Frame
      BY DEF TypeInv, TypeOK
    <3>2. Version(g, stack[i].ref) # None
      OBVIOUS
    <3> QED
      BY <2>1, <3>1, <3>2 DEF Frame
  <2> HIDE DEF f, s
  <2>6. /\ Len(stack') = Len(stack) + 1
        /\ stack'[Len(stack) + 1].ref = d
        /\ \A i \in 1..Len(stack) : stack'[i].ref = stack[i].ref
    BY <2>1, <2>2, <2>3
  <2>7. Len(stack) \in Nat
    BY DEF TypeInv, TypeOK
  <2> QED
    BY <2>4, <2>5, <2>6, <2>7
<1>4. CASE ReturnFromDependency
  <2>1. /\ Len(stack') = Len(stack) - 1
        /\ Len(stack) \in Nat
        /\ \A i \in 1..Len(stack') : stack'[i] = stack[i]
        /\ g' = g
    BY <1>4 DEF ReturnFromDependency, TypeInv, TypeOK
  <2> QED
    BY <2>1
<1>5. ASSUME stack' = <<>>
      PROVE  RecursionInv'
  BY <1>5
<1>6. ASSUME UNCHANGED <<g, stack>>
      PROVE  RecursionInv'
  BY <1>6
<1>7. ASSUME NEW r \in Refs, NEW v \in Available[r], UserWrite(r, v)
      PROVE  RecursionInv'
  BY <1>1, <1>7, ManifestAssumption DEF UserWrite
<1>8. ASSUME NEW q \in todo, ReconcilerWrite(q) \/ ReconcilerSkips(q)
      PROVE  RecursionInv'
  <2>1. q.ref \in Refs /\ q.version \in Versions
    BY DEF TypeInv, TypeOK, Requirement
  <2> QED
    BY <1>1, <1>6, <1>8, <2>1 DEF ReconcilerWrite, ReconcilerSkips
<1>9. ASSUME NEW r \in Refs, Reconcile(r)
      PROVE  RecursionInv'
  <2>1. cache[r] \in Package /\ installedVersion(cache[r]) # None
    BY <1>9 DEF Reconcile, TypeInv, TypeOK
  <2>2. cache[r].version \in Versions
    BY <2>1 DEF Package, installedVersion
  <2> QED
    BY <1>1, <1>9, <2>2 DEF Reconcile
<1>10. ASSUME NEW r \in Refs, StartDelete(r) \/ PruneVertex(r)
       PROVE  RecursionInv'
  <2>1. Len(stack) = 0 /\ stack' = stack
    BY <1>10 DEF StartDelete, PruneVertex, Idle, TypeInv, TypeOK, CallOK
  <2> QED
    BY <2>1
<1>11. ASSUME NEW d \in Refs, RepoError(d)
       PROVE  RecursionInv'
  BY <1>5, <1>11 DEF RepoError, EndCall
<1>12. CASE FinishWrite \/ FinishReconcile \/ FinishDelete
  BY <1>5, <1>12 DEF FinishWrite, FinishReconcile, FinishDelete, EndCall
<1>13. ASSUME NEW r \in Refs, DeleteNamespaced(r) \/ RemovePackage(r)
       PROVE  RecursionInv'
  BY <1>6, <1>13 DEF DeleteNamespaced, RemovePackage
<1>14. CASE SyncCache \/ UNCHANGED vars
  BY <1>6, <1>14 DEF SyncCache, vars
<1> QED
  BY <1>2, <1>3, <1>4, <1>7, <1>8, <1>9, <1>10, <1>11, <1>12, <1>13, <1>14
     DEF Next, ManagerStep

(* Whatever cycles the manifests declare, addDependencies never re-enters  *)
(* a package it is still working on, so that the depth of its recursion is *)
(* bounded by the number of packages.                                      *)
THEOREM RecursionIsBounded == Spec => []RecursionBounded
<1>1. Init => RecursionInv
  BY DEF Init, RecursionInv, FramesInstalled, RecursionBounded
<1> QED
  BY <1>1, TypeInvariant, RecursionStep, PTL DEF Spec, RecursionInv

-----------------------------------------------------------------------------
(* What a step does to the graphs of a call, whoever takes it.             *)
LEMMA StepKinds ==
  ASSUME TypeInv, [Next]_vars
  PROVE  \/ \E kind \in {"write", "reconcile"}, r \in Refs, v \in Versions, dependency \in BOOLEAN :
              StartValidate(kind, r, v, dependency)
         \/ \E d \in Refs, v \in Versions : AddDependency(d, v)
         \/ \E r \in Refs : StartDelete(r) \/ PruneVertex(r)
         \/ EndCall
         \/ UNCHANGED <<call, phase, before, g, reqs>>
<1>1. ASSUME NEW r \in Refs, NEW v \in Available[r], UserWrite(r, v)
      PROVE  v \in Versions /\ StartValidate("write", r, v, FALSE)
  BY <1>1, ManifestAssumption DEF UserWrite
<1>2. ASSUME NEW q \in todo, ReconcilerWrite(q)
      PROVE  q.ref \in Refs /\ q.version \in Versions /\ StartValidate("write", q.ref, q.version, TRUE)
  BY <1>2 DEF ReconcilerWrite, TypeInv, TypeOK, Requirement
<1>3. ASSUME NEW r \in Refs, Reconcile(r)
      PROVE  cache[r].version \in Versions /\ StartValidate("reconcile", r, cache[r].version, FALSE)
  <2>1. cache[r] \in Package /\ installedVersion(cache[r]) # None
    BY <1>3 DEF Reconcile, TypeInv, TypeOK
  <2> QED
    BY <1>3, <2>1 DEF Reconcile, Package, installedVersion
<1>4. ASSUME NEW q \in todo, ReconcilerSkips(q)
      PROVE  UNCHANGED <<call, phase, before, g, reqs>>
  BY <1>4 DEF ReconcilerSkips
<1>5. ASSUME NEW d \in Refs,
             SkipDependency(d) \/ ReturnFromDependency \/ DeleteNamespaced(d) \/ RemovePackage(d)
             \/ SyncCache \/ UNCHANGED vars
      PROVE  UNCHANGED <<call, phase, before, g, reqs>>
  BY <1>5 DEF SkipDependency, ReturnFromDependency, DeleteNamespaced, RemovePackage,
              SyncCache, vars
<1>6. ASSUME NEW d \in Refs, RepoError(d) \/ FinishWrite \/ FinishReconcile \/ FinishDelete
      PROVE  EndCall
  BY <1>6 DEF RepoError, FinishWrite, FinishReconcile, FinishDelete
<1>7. ReturnFromDependency \/ SyncCache \/ UNCHANGED vars => UNCHANGED <<call, phase, before, g, reqs>>
  BY DEF ReturnFromDependency, SyncCache, vars
<1>8. FinishWrite \/ FinishReconcile \/ FinishDelete => EndCall
  BY DEF FinishWrite, FinishReconcile, FinishDelete
<1> QED
  BY <1>1, <1>2, <1>3, <1>4, <1>5, <1>6, <1>7, <1>8 DEF Next, ManagerStep

-----------------------------------------------------------------------------
(* The versions addDependencies chooses.  Installing one more package only *)
(* adds constraints, so a chosen version stays an upper bound; it may stop *)
(* satisfying the constraints, but only those of packages that were not    *)
(* installed before the call, whose violation isErrNew cannot mask.        *)

(* Installing a package that is not installed only shrinks the candidates. *)
LEMMA CandidatesShrink ==
  ASSUME NEW h \in vertexMap, NEW d \in Refs, Version(h, d) = None,
         NEW v, NEW m, NEW r \in Refs
  PROVE  Candidates(add(h, d, v, m), r) \subseteq Candidates(h, r)
<1>1. \A x \in Refs \ {d} : add(h, d, v, m)[x] = h[x]
  BY DEF add, vertexMap
<1> QED
  BY <1>1 DEF Candidates, SatisfiesConstraints

(* A requirement is installed in the working graph, no candidate is        *)
(* greater, and a package whose constraint it violates was not installed   *)
(* when the call began.                                                    *)
RequirementOK(q) ==
  /\ Version(g, q.ref) = q.version
  /\ q.version \in Available[q.ref]
  /\ \A w \in Candidates(g, q.ref) : w <= q.version
  /\ \A x \in Installed(g) : \A e \in g[x].edges :
        e.to = q.ref => q.version \in e.allowed \/ Version(before, x) = None

(* The graphs of a call of Validate: nothing that was installed is         *)
(* changed, except for the package that is validated.                      *)
GraphsOK ==
  /\ \A x \in Refs : Version(before, x) = None => before[x].edges = {}
  /\ \A x \in Installed(before) : x # call.ref => g[x] = before[x]
  /\ Version(g, call.ref) = call.version
  /\ call.version \in Versions

ResolveInv == phase = "resolve" => GraphsOK /\ \A q \in reqs : RequirementOK(q)

(* In a graph built from packages, an uninstalled vertex has no edges.     *)
LEMMA GraphOfWellFormed ==
  ASSUME NEW ps, NEW x \in Refs, Version(graphOf(ps), x) = None
  PROVE  graphOf(ps)[x].edges = {}
<1>1. graphOf(ps)[x] = addVertex(x, installedVersion(ps[x]), ~ps[x].dependency)
  BY DEF graphOf
<1> QED
  BY <1>1 DEF addVertex, deleted

(* Every step keeps ResolveInv: AddDependency is the one that matters.     *)
LEMMA ResolveStep == TypeInv /\ ResolveInv /\ [Next]_vars => ResolveInv'
<1> SUFFICES ASSUME TypeInv, ResolveInv, [Next]_vars
             PROVE  ResolveInv'
  OBVIOUS
<1>1. ASSUME NEW kind, NEW r \in Refs, NEW v \in Versions, NEW dependency,
             StartValidate(kind, r, v, dependency)
      PROVE  ResolveInv'
  <2> DEFINE g0 == graphOf(cache)
  <2>1. /\ before' = g0
        /\ g' = add(g0, r, v, Manual(g0, r))
        /\ call'.ref = r /\ call'.version = v
        /\ reqs' = {}
    BY <1>1 DEF StartValidate
  <2>2. \A x \in Refs : Version(g0, x) = None => g0[x].edges = {}
    BY GraphOfWellFormed
  <2>3. g0 \in vertexMap
    BY GraphOfType DEF TypeInv, TypeOK
  <2> HIDE DEF g0
  <2>4. g'[r].version = v /\ \A x \in Refs \ {r} : g'[x] = g0[x]
    BY <2>1, <2>3, NoneAssumption DEF add, addVertex, vertexMap
  <2> QED
    BY <2>1, <2>2, <2>4 DEF ResolveInv, GraphsOK
<1>2. ASSUME NEW d \in Refs, NEW v \in Versions, AddDependency(d, v)
      PROVE  ResolveInv'
  <2>1. /\ phase = "resolve"
        /\ Version(g, d) = None
        /\ IsMax(g, d, v)
        /\ g' = add(g, d, v, Manual(g, d))
        /\ \A q \in reqs' : q \in reqs \/ (q.ref = d /\ q.version = v)
        /\ UNCHANGED <<call, before>>
    BY <1>2 DEF AddDependency, adds
  <2>2. GraphsOK /\ \A q \in reqs : RequirementOK(q)
    BY <2>1 DEF ResolveInv
  <2>3. /\ g \in vertexMap
        /\ call.ref \in Refs
        /\ \A q \in reqs : q.ref \in Refs /\ q.version \in Versions
    BY <2>1 DEF TypeInv, TypeOK, CallOK, Requirement
  <2>4. g'[d].version = v /\ \A x \in Refs \ {d} : g'[x] = g[x]
    BY <2>1, <2>3, NoneAssumption DEF add, addVertex, vertexMap
  <2>5. d # call.ref
    BY <2>1, <2>2, NoneAssumption DEF GraphsOK
  <2>6. Version(before, d) = None
    BY <2>1, <2>2, <2>5 DEF GraphsOK
  <2>7. GraphsOK'
    BY <2>1, <2>2, <2>3, <2>4, <2>5, <2>6 DEF GraphsOK
  <2>8. ASSUME NEW q \in reqs PROVE RequirementOK(q)'
    <3>1. q.ref \in Refs \ {d}
      BY <2>1, <2>2, <2>3, NoneAssumption DEF RequirementOK
    <3>2. Candidates(g', q.ref) \subseteq Candidates(g, q.ref)
      BY <2>1, <2>3, <3>1, CandidatesShrink
    <3> QED
      BY <2>1, <2>2, <2>4, <2>6, <3>1, <3>2 DEF RequirementOK
  <2>9. ASSUME NEW q, q.ref = d, q.version = v PROVE RequirementOK(q)'
    <3>1. Candidates(g', d) \subseteq Candidates(g, d)
      BY <2>1, <2>3, CandidatesShrink
    <3>2. v \in Candidates(g, d) /\ \A w \in Candidates(g, d) : w <= v
      BY <2>1 DEF IsMax
    <3>3. v \in Available[d] /\ SatisfiesConstraints(g, d, v)
      BY <3>2 DEF Candidates
    <3>4. \A x \in Installed(g)' : \A e \in g'[x].edges :
             e.to = d => v \in e.allowed \/ Version(before, x) = None
      BY <2>1, <2>4, <2>6, <3>3 DEF SatisfiesConstraints
    <3> QED
      BY <2>1, <2>4, <2>9, <3>1, <3>2, <3>3, <3>4 DEF RequirementOK
  <2> QED
    BY <2>1, <2>7, <2>8, <2>9 DEF ResolveInv
<1>3. ASSUME NEW r \in Refs, StartDelete(r) \/ PruneVertex(r)
      PROVE  ResolveInv'
  BY <1>3 DEF ResolveInv, StartDelete, PruneVertex
<1>4. CASE EndCall
  BY <1>4 DEF ResolveInv, EndCall
<1>5. CASE UNCHANGED <<call, phase, before, g, reqs>>
  BY <1>5 DEF ResolveInv, GraphsOK, RequirementOK, Candidates, SatisfiesConstraints
<1> QED
  BY <1>1, <1>2, <1>3, <1>4, <1>5, StepKinds

LEMMA ResolveInvariant == Spec => []ResolveInv
<1>1. Init => ResolveInv
  BY DEF Init, ResolveInv
<1> QED
  BY <1>1, TypeInvariant, ResolveStep, PTL DEF Spec

(* If Validate answers RESOLVABLE, then every requirement it returns is    *)
(* the greatest available version under the constraints of all packages    *)
(* that will be installed, in whatever order the dependencies were visited *)
(* and although isErrNew ignores errors that existed before.               *)
THEOREM RequirementsMax == Spec => []RequirementsAreMax
<1>1. TypeInv /\ ResolveInv => RequirementsAreMax
  <2> SUFFICES ASSUME TypeInv, ResolveInv, ResolveDone, Status = "RESOLVABLE", NEW q \in reqs
               PROVE  IsMax(g, q.ref, q.version)
    BY DEF RequirementsAreMax
  <2>1. GraphsOK /\ RequirementOK(q)
    BY DEF ResolveInv, ResolveDone
  <2>2. newErrors = {}
    BY DEF Status
  <2>3. q.ref \in Refs /\ q.version \in Versions /\ q.version # None
    BY NoneAssumption DEF TypeInv, TypeOK, Requirement
  <2>4. SatisfiesConstraints(g, q.ref, q.version)
    <3> SUFFICES ASSUME NEW x \in Installed(g), NEW e \in g[x].edges, e.to = q.ref,
                        q.version \notin e.allowed
                 PROVE  FALSE
      BY DEF SatisfiesConstraints
    <3> DEFINE err == [pkg |-> x, dep |-> q.ref, cause |-> "Constraint"]
    <3>1. err \in Validate(g)
      BY <2>1, <2>3 DEF Validate, DependencyError, RequirementOK
    <3>2. before[x].edges = {}
      BY <2>1 DEF RequirementOK, GraphsOK
    <3>3. isErrNew(err, Validate(before))
      BY <3>2 DEF isErrNew, Validate
    <3> QED
      BY <2>2, <3>1, <3>3 DEF newErrors
  <2> QED
    BY <2>1, <2>4 DEF IsMax, Candidates, RequirementOK
<1> QED
  BY <1>1, TypeInvariant, ResolveInvariant, PTL

-----------------------------------------------------------------------------
(* Pruning.  Whatever the order of the map, Prune only ever deletes        *)
(* vertices and never one of a self-supporting set.                        *)

unpruned == delete(before, call.ref)

PruneInv ==
  phase = "prune" =>
    /\ \A r \in Refs : g[r] = unpruned[r] \/ Version(g, r) = None
    /\ \A K \in SUBSET Refs : SelfSupporting(unpruned, K) => K \subseteq Installed(g)

(* Every step keeps PruneInv.                                              *)
LEMMA PruneStep == TypeInv /\ PruneInv /\ [Next]_vars => PruneInv'
<1> SUFFICES ASSUME TypeInv, PruneInv, [Next]_vars
             PROVE  PruneInv'
  OBVIOUS
<1>1. ASSUME NEW r \in Refs, StartDelete(r)
      PROVE  PruneInv'
  <2>1. g' = unpruned'
    BY <1>1 DEF StartDelete, unpruned
  <2> QED
    BY <2>1 DEF PruneInv, SelfSupporting
<1>2. ASSUME NEW r \in Refs, PruneVertex(r)
      PROVE  PruneInv'
  <2> DEFINE h == unpruned
  <2>1. /\ phase = "prune"
        /\ r \in Prunable(g)
        /\ g' = delete(g, r)
        /\ h' = h
    BY <1>2 DEF PruneVertex, PruneDue, unpruned
  <2>2. g \in vertexMap
    BY DEF TypeInv, TypeOK
  <2>3. g'[r].version = None /\ \A x \in Refs \ {r} : g'[x] = g[x]
    BY <2>1, <2>2 DEF delete, deleted, vertexMap
  <2>4. /\ \A x \in Refs : g[x] = h[x] \/ Version(g, x) = None
        /\ \A K \in SUBSET Refs : SelfSupporting(h, K) => K \subseteq Installed(g)
    BY <2>1 DEF PruneInv
  <2>5. /\ r \in Installed(g)
        /\ ~g[r].manual
        /\ Dependants(g, r) = {}
    BY <2>1 DEF Prunable
  <2> HIDE DEF h
  <2>6. ASSUME NEW K \in SUBSET Refs, SelfSupporting(h, K)
        PROVE  K \subseteq Installed(g)'
    <3>1. K \subseteq Installed(g)
      BY <2>4, <2>6
    <3>2. r \notin K
      <4> SUFFICES ASSUME r \in K PROVE FALSE
        OBVIOUS
      <4>1. g[r] = h[r] /\ \A y \in K : g[y] = h[y]
        BY <2>4, <2>5, <3>1
      <4>2. PICK y \in K : y \in Dependants(h, r)
        BY <2>5, <2>6, <4>1 DEF SelfSupporting
      <4>3. y \in Dependants(g, r)
        BY <3>1, <4>1, <4>2 DEF Dependants
      <4> QED
        BY <2>5, <4>3
    <3> QED
      BY <2>3, <3>1, <3>2
  <2> QED
    BY <2>1, <2>3, <2>4, <2>6 DEF PruneInv, h
<1>3. ASSUME NEW kind, NEW r, NEW v, NEW dependency, StartValidate(kind, r, v, dependency)
      PROVE  PruneInv'
  BY <1>3 DEF PruneInv, StartValidate
<1>4. ASSUME NEW d, NEW v, AddDependency(d, v)
      PROVE  PruneInv'
  BY <1>4 DEF PruneInv, AddDependency, adds
<1>5. CASE EndCall
  BY <1>5 DEF PruneInv, EndCall
<1>6. CASE UNCHANGED <<call, phase, before, g, reqs>>
  BY <1>6 DEF PruneInv, unpruned
<1> QED
  BY <1>1, <1>2, <1>3, <1>4, <1>5, <1>6, StepKinds

LEMMA PruneInvariant == Spec => []PruneInv
<1>1. Init => PruneInv
  BY DEF Init, PruneInv
<1> QED
  BY <1>1, TypeInvariant, PruneStep, PTL DEF Spec

(* Prune ends in the one largest self-supporting set of packages, so that  *)
(* the verdict of ValidateDelete does not depend on the order in which Go  *)
(* iterates over the vertices.                                             *)
THEOREM PruneConfluent == Spec => []PruneIsConfluent
<1>1. TypeInv /\ PruneInv => PruneIsConfluent
  <2> DEFINE h == unpruned
  <2> SUFFICES ASSUME TypeInv, PruneInv, phase = "prune", PruneDue = {},
                      Version(before, call.ref) # None
               PROVE  /\ SelfSupporting(h, Installed(g))
                      /\ \A K \in SUBSET Refs : SelfSupporting(h, K) => K \subseteq Installed(g)
    BY DEF PruneIsConfluent, unpruned
  <2>1. /\ \A r \in Refs : g[r] = h[r] \/ Version(g, r) = None
        /\ \A K \in SUBSET Refs : SelfSupporting(h, K) => K \subseteq Installed(g)
    BY DEF PruneInv
  <2>2. \A r \in Installed(g) : g[r].manual \/ Dependants(g, r) # {}
    BY DEF PruneDue, Prunable
  <2> HIDE DEF h
  <2>3. \A r \in Installed(g) : Dependants(g, r) \subseteq Dependants(h, r) \cap Installed(g)
    BY <2>1 DEF Dependants
  <2> QED
    BY <2>1, <2>2, <2>3 DEF SelfSupporting
<1> QED
  BY <1>1, TypeInvariant, PruneInvariant, PTL

-----------------------------------------------------------------------------
(* Admission.  While a call runs with a current cache, the graph it        *)
(* started from is the graph of the stored packages.                       *)

CurrentInv ==
  phase # "idle" => cache = pkgs /\ before = graphOf(pkgs)

LEMMA CurrentStep ==
  ASSUME ~CacheLags
  PROVE  TypeInv /\ CurrentInv /\ [Next]_vars => CurrentInv'
<1> SUFFICES ASSUME TypeInv, CurrentInv, [Next]_vars
             PROVE  CurrentInv'
  OBVIOUS
<1>1. ASSUME NEW kind, NEW r, NEW v, NEW dependency, StartValidate(kind, r, v, dependency)
      PROVE  CurrentInv'
  BY <1>1 DEF CurrentInv, StartValidate, Idle
<1>2. ASSUME phase' = "idle" \/ UNCHANGED <<phase, pkgs, cache, before>>
      PROVE  CurrentInv'
  BY <1>2 DEF CurrentInv
<1>3. ASSUME NEW r \in Refs, StartDelete(r)
      PROVE  CurrentInv'
  BY <1>3 DEF CurrentInv, StartDelete, Idle
<1>4. ASSUME NEW r, NEW v, UserWrite(r, v) \/ Reconcile(r)
      PROVE  CurrentInv'
  BY <1>1, <1>4 DEF UserWrite, Reconcile
<1>5. ASSUME NEW q, ReconcilerWrite(q) \/ ReconcilerSkips(q)
      PROVE  CurrentInv'
  BY <1>1, <1>2, <1>5 DEF ReconcilerWrite, ReconcilerSkips
<1>6. ASSUME NEW d, NEW v,
             SkipDependency(d) \/ AddDependency(d, v) \/ PruneVertex(d) \/ RepoError(d)
             \/ DeleteNamespaced(d) \/ RemovePackage(d)
      PROVE  CurrentInv'
  BY <1>2, <1>6 DEF SkipDependency, AddDependency, adds, PruneVertex, RepoError, EndCall,
                    DeleteNamespaced, RemovePackage
<1>7. CASE ReturnFromDependency \/ FinishWrite \/ FinishReconcile \/ FinishDelete
           \/ SyncCache \/ UNCHANGED vars
  BY <1>2, <1>7 DEF ReturnFromDependency, FinishWrite, FinishReconcile, FinishDelete,
                    EndCall, SyncCache, vars
<1> QED
  BY <1>3, <1>4, <1>5, <1>6, <1>7 DEF Next, ManagerStep

(* The graph of the stored packages has the edges of every installed one,  *)
(* and of each of its dependencies at most one.                            *)
LEMMA GraphOfInstalled ==
  ASSUME NEW ps \in [Refs -> Package], NEW x \in Refs, installedVersion(ps[x]) # None
  PROVE  LET v == installedVersion(ps[x]) IN
           /\ v \in Versions
           /\ Version(graphOf(ps), x) = v
           /\ graphOf(ps)[x].manual = ~ps[x].dependency
           /\ graphOf(ps)[x].edges = Manifest[x][v]
           /\ \A e, f \in Manifest[x][v] : e.to = f.to => e = f
<1>1. ps[x] \in Package
  OBVIOUS
<1>2. installedVersion(ps[x]) \in Versions
  BY <1>1 DEF Package, installedVersion
<1>3. graphOf(ps)[x] = addVertex(x, installedVersion(ps[x]), ~ps[x].dependency)
  BY DEF graphOf
<1> QED
  BY <1>2, <1>3, ManifestAssumption DEF addVertex

(* A write that Validate admits keeps every fulfilled dependency: breaking *)
(* one is an error that the graph did not have before.                     *)
LEMMA WriteKeepsFulfilled ==
  ASSUME TypeInv, CurrentInv, ResolveInv, FinishWrite
  PROVE  KeepsFulfilled
<1>1. /\ phase = "resolve" /\ GraphsOK
      /\ call.ref \in Refs
      /\ pkgs \in [Refs -> Package]
      /\ before = graphOf(pkgs)
  BY DEF FinishWrite, ResolveDone, ResolveInv, CurrentInv, TypeInv, TypeOK, CallOK
<1> DEFINE c == call.ref
<1> SUFFICES ASSUME NEW x \in Refs, installedVersion(pkgs[x]) # None,
                    installedVersion(pkgs'[x]) = installedVersion(pkgs[x]),
                    NEW e \in Manifest[x][installedVersion(pkgs[x])],
                    Fulfilled(pkgs, e)
             PROVE  Fulfilled(pkgs', e)
  BY DEF KeepsFulfilled
<1>2. /\ Version(before, x) = installedVersion(pkgs[x])
      /\ before[x].edges = Manifest[x][installedVersion(pkgs[x])]
      /\ \A f \in before[x].edges : f.to = e.to => f = e
      /\ installedVersion(pkgs[x]) \in Versions
  BY <1>1, GraphOfInstalled
<1>3. e.to \in Refs /\ e.allowed \subseteq Versions
  BY <1>2, ManifestAssumption DEF Edge
<1>4. CASE e.to # c \/ pkgs' = pkgs
  BY <1>1, <1>3, <1>4 DEF FinishWrite, Fulfilled, TypeInv, TypeOK
<1>5. CASE e.to = c /\ pkgs' # pkgs
  <2>1. /\ Status \in {"OK", "RESOLVABLE"}
        /\ pkgs' = [pkgs EXCEPT ![c] = written]
    BY <1>5 DEF FinishWrite
  <2>2. newErrors = {}
    BY <2>1 DEF Status
  <2>3. installedVersion(pkgs[c]) # None
    BY <1>3, <1>5, NoneAssumption DEF Fulfilled
  <2>4. written = [pkgs[c] EXCEPT !.version = call.version] /\ ~pkgs[c].deleting
    BY <2>3 DEF written, installedVersion
  <2>5. pkgs[c] \in Package /\ pkgs'[c] = written
    BY <1>1, <2>1
  <2>6. installedVersion(pkgs'[c]) = call.version
    BY <2>4, <2>5 DEF installedVersion, Package
  <2>7. CASE x = c
    BY <1>5, <2>6, <2>7 DEF Fulfilled
  <2>8. CASE x # c /\ call.version \notin e.allowed
    <3> DEFINE err == [pkg |-> x, dep |-> c, cause |-> "Constraint"]
    <3>1. e \in g[x].edges
      BY <1>1, <1>2, <2>8, NoneAssumption DEF GraphsOK
    <3>2. Version(g, c) = call.version /\ call.version # None
      BY <1>1, NoneAssumption DEF GraphsOK
    <3>3. err \in DependencyError
      BY <1>1 DEF DependencyError
    <3>4. err \in Validate(g)
      BY <1>5, <2>8, <3>1, <3>2, <3>3 DEF Validate
    <3>5. Version(before, c) = installedVersion(pkgs[c])
      BY <1>1, <2>3, GraphOfInstalled
    <3>6. Version(before, c) # None /\ Version(before, c) \in e.allowed
      BY <1>5, <2>3, <3>5 DEF Fulfilled
    <3>7. isErrNew(err, Validate(before))
      BY <1>2, <1>5, <3>6 DEF isErrNew, Validate
    <3> QED
      BY <2>2, <3>4, <3>7 DEF newErrors
  <2> QED
    BY <1>5, <2>6, <2>7, <2>8 DEF Fulfilled
<1> QED
  BY <1>4, <1>5

(* An admitted delete keeps the fulfilled dependencies of the packages the *)
(* user installed: such a package is never pruned, so that Validate finds  *)
(* its edge to the deleted package unmet.                                  *)
LEMMA DeleteKeepsFulfilled ==
  ASSUME TypeInv, CurrentInv, PruneInv, FinishDelete
  PROVE  KeepsFulfilled
<1>1. /\ phase = "prune"
      /\ call.ref \in Refs
      /\ pkgs \in [Refs -> Package]
      /\ before = graphOf(pkgs) /\ before \in vertexMap
  BY DEF FinishDelete, CurrentInv, TypeInv, TypeOK, CallOK
<1> DEFINE c == call.ref
<1> SUFFICES ASSUME NEW x \in Refs, installedVersion(pkgs[x]) # None,
                    installedVersion(pkgs'[x]) = installedVersion(pkgs[x]),
                    ~pkgs[x].dependency,
                    NEW e \in Manifest[x][installedVersion(pkgs[x])],
                    Fulfilled(pkgs, e)
             PROVE  Fulfilled(pkgs', e)
  BY <1>1 DEF KeepsFulfilled
<1>2. /\ Version(before, x) # None
      /\ before[x].manual
      /\ e \in before[x].edges
      /\ installedVersion(pkgs[x]) \in Versions
  BY <1>1, GraphOfInstalled
<1>3. e.to \in Refs
  BY <1>2, ManifestAssumption DEF Edge
<1>4. CASE e.to # c \/ pkgs' = pkgs
  BY <1>1, <1>3, <1>4 DEF FinishDelete, Fulfilled, TypeInv, TypeOK
<1>5. CASE e.to = c /\ pkgs' # pkgs
  <2>1. Validate(g) = {} /\ pkgs' = [pkgs EXCEPT ![c].deleting = TRUE]
    BY <1>5 DEF FinishDelete
  <2>2. x # c
    <3>1. pkgs[c] \in Package /\ pkgs'[c] = [pkgs[c] EXCEPT !.deleting = TRUE]
      BY <1>1, <2>1
    <3>2. installedVersion(pkgs'[c]) = None
      BY <3>1 DEF Package, installedVersion
    <3> QED
      BY <3>2
  <2>3. unpruned[x] = before[x] /\ unpruned[c].version = None
    BY <1>1, <2>2 DEF unpruned, delete, deleted, vertexMap
  <2>4. SelfSupporting(unpruned, {x})
    BY <1>2, <2>3 DEF SelfSupporting
  <2>5. Version(g, x) # None /\ g[x] = before[x]
    BY <1>1, <2>3, <2>4 DEF PruneInv
  <2>6. Version(g, c) = None
    BY <1>1, <2>3 DEF PruneInv
  <2>7. [pkg |-> x, dep |-> c, cause |-> "NotInstalled"] \in Validate(g)
    BY <1>1, <1>2, <1>5, <2>5, <2>6 DEF Validate, DependencyError
  <2> QED
    BY <2>1, <2>7
<1> QED
  BY <1>4, <1>5

(* The steps that change stored packages without a call: the deletion of a *)
(* namespaced package and the removal of one that is being deleted.        *)
LEMMA OtherStepsKeepFulfilled ==
  ASSUME TypeInv, NEW r \in Refs, DeleteNamespaced(r) \/ RemovePackage(r)
  PROVE  KeepsFulfilled
<1>1. phase = "idle" /\ pkgs \in [Refs -> Package] /\ pkgs[r] \in Package
  BY DEF DeleteNamespaced, RemovePackage, TypeInv, TypeOK
<1>2. /\ installedVersion(pkgs'[r]) = None
      /\ \A x \in Refs \ {r} : pkgs'[x] = pkgs[x]
      /\ r \in Namespaced \/ installedVersion(pkgs[r]) = None
  BY <1>1 DEF DeleteNamespaced, RemovePackage, installedVersion, absent, Package
<1> SUFFICES ASSUME NEW x \in Refs, installedVersion(pkgs[x]) # None,
                    NEW e \in Manifest[x][installedVersion(pkgs[x])],
                    Fulfilled(pkgs, e), e.to \notin Namespaced
             PROVE  Fulfilled(pkgs', e)
  BY <1>1 DEF KeepsFulfilled
<1>3. installedVersion(pkgs[x]) \in Versions
  BY <1>1, GraphOfInstalled
<1>4. e.to \in Refs /\ e.allowed \subseteq Versions
  BY <1>3, ManifestAssumption DEF Edge
<1>5. e.to # r
  BY <1>2, <1>4, NoneAssumption DEF Fulfilled
<1> QED
  BY <1>2, <1>4, <1>5 DEF Fulfilled

(* A step that leaves the stored packages alone breaks nothing.            *)
LEMMA UnchangedKeepsFulfilled ==
  ASSUME UNCHANGED pkgs
  PROVE  KeepsFulfilled
BY DEF KeepsFulfilled, Fulfilled

(* If the webhook reads a current cache, admission is sound: no admitted   *)
(* write breaks a fulfilled dependency, and no admitted delete breaks one  *)
(* of a package the user installed on a cluster-scoped package.            *)
THEOREM AdmissionSound ==
  ASSUME ~CacheLags
  PROVE  Spec => AdmissionKeepsFulfilled
<1>1. Init => CurrentInv
  BY DEF Init, CurrentInv
<1>2. TypeInv /\ CurrentInv /\ [Next]_vars => CurrentInv'
  BY CurrentStep
<1>3. TypeInv /\ CurrentInv /\ ResolveInv /\ PruneInv /\ [Next]_vars => [KeepsFulfilled]_vars
  <2> SUFFICES ASSUME TypeInv, CurrentInv, ResolveInv, PruneInv, Next
               PROVE  KeepsFulfilled
    OBVIOUS
  <2>1. ASSUME NEW r, NEW v, UserWrite(r, v) \/ Reconcile(r) \/ StartDelete(r)
        PROVE  UNCHANGED pkgs
    BY <2>1 DEF UserWrite, Reconcile, StartDelete, StartValidate
  <2>2. ASSUME NEW q, ReconcilerWrite(q) \/ ReconcilerSkips(q)
        PROVE  UNCHANGED pkgs
    BY <2>2 DEF ReconcilerWrite, ReconcilerSkips, StartValidate
  <2>3. ASSUME NEW d, NEW v,
               SkipDependency(d) \/ AddDependency(d, v) \/ PruneVertex(d) \/ RepoError(d)
        PROVE  UNCHANGED pkgs
    BY <2>3 DEF SkipDependency, AddDependency, adds, PruneVertex, RepoError
  <2>4. ReturnFromDependency \/ FinishReconcile \/ SyncCache => UNCHANGED pkgs
    BY DEF ReturnFromDependency, FinishReconcile, SyncCache
  <2> QED
    BY <2>1, <2>2, <2>3, <2>4, WriteKeepsFulfilled, DeleteKeepsFulfilled,
       OtherStepsKeepFulfilled, UnchangedKeepsFulfilled DEF Next, ManagerStep
<1> QED
  BY <1>1, <1>2, <1>3, TypeInvariant, ResolveInvariant, PruneInvariant, PTL
     DEF Spec, AdmissionKeepsFulfilled
=============================================================================
