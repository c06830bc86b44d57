-------------------------- MODULE DependencyManager --------------------------
(***************************************************************************)
(* The dependency manager (internal/dependency/manager.go), the admission  *)
(* webhook for packages (internal/webhook/package_validator.go) that asks  *)
(* it about every create, update and delete, and the part of the package   *)
(* reconciler (ensureDependencies) that lets it compute the dependencies   *)
(* to install.                                                             *)
(*                                                                         *)
(* The API server's package objects are pkgs; the manager reads them       *)
(* through the controller-runtime cache, which may lag.  One call of the   *)
(* manager runs at a time; its recursion addDependencies is an explicit    *)
(* stack, and the iteration order of Go maps is a nondeterministic choice. *)
(***************************************************************************)
EXTENDS DependencyGraph, Sequences

CONSTANTS
  Namespaced,  \* the refs of namespaced Packages; the others are ClusterPackages
  CacheLags    \* whether a call may start while the cache is stale

ASSUME CallsAssumption == Namespaced \subseteq Refs /\ CacheLags \in BOOLEAN

VARIABLES
  pkgs,     \* the package objects of the API server, by ref
  cache,    \* what the informer cache shows of them
  call,     \* the request being decided
  phase,    \* "idle", "resolve" (addDependencies) or "prune" (Prune)
  before,   \* the graph of the packages in the cache
  g,        \* the graph the call works on
  stack,    \* the frames of addDependencies, outermost first
  reqs,     \* the requirements collected so far (allAdded)
  todo      \* requirements the reconcilers have yet to create

vars == <<pkgs, cache, call, phase, before, g, stack, reqs, todo>>

-----------------------------------------------------------------------------

(* A package object as the manager sees it.  dependency is the             *)
(* InstalledAsDependency annotation; version None means "no such object".  *)
Package == [version : Versions \cup {None}, deleting : BOOLEAN, dependency : BOOLEAN]

absent == [version |-> None, deleting |-> FALSE, dependency |-> FALSE]

Requirement == [ref : Refs, version : Versions, transitive : BOOLEAN]

(* Who asks: a user or the reconciler writes an object (admission), the    *)
(* reconciler resolves dependencies, or someone deletes an object.         *)
Call == [kind : {"none", "write", "reconcile", "delete"}, ref : Refs \cup {None},
         version : Versions \cup {None}, dependency : BOOLEAN]

NoCall == [kind |-> "none", ref |-> None, version |-> None, dependency |-> FALSE]

Frame == [ref : Refs, left : SUBSET Refs]

-----------------------------------------------------------------------------

(* NewGraph: every listed package is added with its spec version, a        *)
(* package that is being deleted as "not installed".                       *)
installedVersion(p) == IF p.deleting THEN None ELSE p.version

graphOf(ps) ==
  [r \in Refs |-> addVertex(r, installedVersion(ps[r]), ~ps[r].dependency)]

(* The manual flag under which add of the manager puts a package into the  *)
(* graph is looked up in the cluster scope: a namespaced package gets      *)
(* "not manual".                                                           *)
Manual(h, r) == r \notin Namespaced /\ h[r].manual

Idle == phase = "idle" /\ (CacheLags \/ cache = pkgs)

(* Validate, up to the first call of addDependencies: the initial graph,   *)
(* then the validated package added to it in the requested version.        *)
StartValidate(kind, r, v, dependency) ==
  LET g0 == graphOf(cache)
      g1 == add(g0, r, v, Manual(g0, r))
  IN  /\ Idle
      /\ phase' = "resolve"
      /\ call' = [kind |-> kind, ref |-> r, version |-> v, dependency |-> dependency]
      /\ before' = g0
      /\ g' = g1
      /\ stack' = <<[ref |-> r, left |-> Dependencies(g1, r)]>>
      /\ reqs' = {}
      /\ UNCHANGED <<pkgs, cache>>

(* ValidateCreate and ValidateUpdate of a user's request.  An update whose *)
(* spec is unchanged is not validated and changes nothing.                 *)
UserWrite(r, v) ==
  /\ pkgs[r].version # v
  /\ StartValidate("write", r, v, FALSE)
  /\ UNCHANGED todo

(* The reconciler writes one of the requirements it computed; the create   *)
(* or update passes the same webhook.  CreateOrUpdate reads the object     *)
(* from the cache: a stale read makes the write fail, an equal spec makes  *)
(* it a no-op.                                                             *)
ReconcilerWrite(q) ==
  /\ cache[q.ref] = pkgs[q.ref]
  /\ pkgs[q.ref].version # q.version
  /\ todo' = todo \ {q}
  /\ StartValidate("write", q.ref, q.version, TRUE)

(* The write fails or is not needed, or the package is not to be found in  *)
(* exactly one repository.                                                 *)
ReconcilerSkips(q) ==
  /\ phase = "idle"
  /\ todo' = todo \ {q}
  /\ UNCHANGED <<pkgs, cache, call, phase, before, g, stack, reqs>>

(* ensureDependencies of the reconciler, for a package in the cache that   *)
(* is not being deleted.                                                   *)
Reconcile(r) ==
  /\ installedVersion(cache[r]) # None
  /\ StartValidate("reconcile", r, cache[r].version, FALSE)
  /\ UNCHANGED todo

-----------------------------------------------------------------------------

(* The loop of addDependencies in the innermost frame, whose remaining     *)
(* dependencies are visited in any order.                                  *)
Top == stack[Len(stack)]

Visited(d) == [stack EXCEPT ![Len(stack)].left = @ \ {d}]

SkipDependency(d) ==
  /\ phase = "resolve"
  /\ d \in Top.left
  /\ \/ Version(g, d) # None         \* installed already
     \/ Candidates(g, d) = {}        \* no suitable version: detected by Validate later
  /\ stack' = Visited(d)
  /\ UNCHANGED <<pkgs, cache, call, phase, before, g, reqs, todo>>

(* One dependency is added to the graph and to the requirements, and its   *)
(* own dependencies are visited next.                                      *)
adds(d, v) ==
  LET g1 == add(g, d, v, Manual(g, d))
  IN  /\ phase = "resolve"
      /\ d \in Top.left
      /\ g' = g1
      /\ reqs' = reqs \cup {[ref |-> d, version |-> v, transitive |-> Len(stack) > 1]}
      /\ stack' = Append(Visited(d), [ref |-> d, left |-> Dependencies(g1, d)])
      /\ UNCHANGED <<pkgs, cache, call, phase, before, todo>>

AddDependencyAgain(d, v) == IsMax(g, d, v) /\ adds(d, v)  \* mutant: without the check

AddDependencyAny(d, v) ==  \* mutant: not the greatest version
  /\ Version(g, d) = None
  /\ v \in Candidates(g, d)
  /\ adds(d, v)

AddDependency(d, v) ==
  /\ Version(g, d) = None
  /\ IsMax(g, d, v)
  /\ adds(d, v)

ReturnFromDependency ==
  /\ phase = "resolve"
  /\ Len(stack) > 1
  /\ Top.left = {}
  /\ stack' = SubSeq(stack, 1, Len(stack) - 1)
  /\ UNCHANGED <<pkgs, cache, call, phase, before, g, reqs, todo>>

(* The end of a call, whose local state is discarded.                      *)
EndCall ==
  /\ phase' = "idle"
  /\ call' = NoCall
  /\ before' = NewGraph
  /\ g' = NewGraph
  /\ stack' = <<>>
  /\ reqs' = {}

(* A repository that cannot be read ends the whole call with an error.     *)
RepoError(d) ==
  /\ phase = "resolve"
  /\ d \in Top.left
  /\ Version(g, d) = None
  /\ EndCall
  /\ UNCHANGED <<pkgs, cache, todo>>

-----------------------------------------------------------------------------

(* isErrNew: an error is old if the same pair of packages had any error.   *)
isErrNew(err, errBefore) ==
  ~ \E old \in errBefore : old.pkg = err.pkg /\ old.dep = err.dep

(* Mutant: the errors before are taken after the package has been added.   *)
newErrorsLate == {err \in Validate(g) : isErrNew(err, Validate(g))}

newErrors == {err \in Validate(g) : isErrNew(err, Validate(before))}

(* The result of Validate.  A new error that is no constraint violation    *)
(* makes errorToConflict, and with it Validate, return an error.           *)
Status ==
  IF \E err \in newErrors : err.cause = "NotInstalled" THEN "error"
  ELSE IF newErrors # {} THEN "CONFLICT"
  ELSE IF reqs # {} THEN "RESOLVABLE"
  ELSE "OK"

ResolveDone == phase = "resolve" /\ Len(stack) = 1 /\ Top.left = {}

(* The object the API server stores once the webhook admits the write.     *)
written ==
  IF pkgs[call.ref].version = None
  THEN [version |-> call.version, deleting |-> FALSE, dependency |-> call.dependency]
  ELSE [pkgs[call.ref] EXCEPT !.version = call.version]

FinishWrite ==
  /\ ResolveDone
  /\ call.kind = "write"
  /\ pkgs' = IF Status \in {"OK", "RESOLVABLE"}
             THEN [pkgs EXCEPT ![call.ref] = written] ELSE pkgs
  /\ EndCall
  /\ UNCHANGED <<cache, todo>>

(* Only direct requirements are created by the reconciliation of a package. *)
FinishReconcile ==
  /\ ResolveDone
  /\ call.kind = "reconcile"
  /\ todo' = IF Status = "RESOLVABLE" THEN todo \cup {q \in reqs : ~q.transitive} ELSE todo
  /\ EndCall
  /\ UNCHANGED <<pkgs, cache>>

-----------------------------------------------------------------------------

(* ValidateDelete of the webhook: delete the vertex and prune, then        *)
(* validate the whole graph.                                               *)
StartDelete(r) ==
  /\ Idle
  /\ pkgs[r].version # None
  /\ r \notin Namespaced
  /\ phase' = "prune"
  /\ call' = [kind |-> "delete", ref |-> r, version |-> None, dependency |-> FALSE]
  /\ before' = graphOf(cache)
  /\ g' = delete(graphOf(cache), r)
  /\ reqs' = {}
  /\ UNCHANGED <<pkgs, cache, stack, todo>>

(* The deletion of a namespaced package is not validated.                  *)
DeleteNamespaced(r) ==
  /\ phase = "idle"
  /\ pkgs[r].version # None
  /\ r \in Namespaced
  /\ pkgs' = [pkgs EXCEPT ![r].deleting = TRUE]
  /\ UNCHANGED <<cache, call, phase, before, g, stack, reqs, todo>>

(* Prune only runs if the vertex was installed (DeleteAndPrune).           *)
PruneDue == IF Version(before, call.ref) = None THEN {} ELSE Prunable(g)

PruneVertex(r) ==
  /\ phase = "prune"
  /\ r \in PruneDue
  /\ g' = delete(g, r)
  /\ UNCHANGED <<pkgs, cache, call, phase, before, stack, reqs, todo>>

FinishDelete ==
  /\ phase = "prune"
  /\ PruneDue = {}
  /\ pkgs' = IF Validate(g) = {} THEN [pkgs EXCEPT ![call.ref].deleting = TRUE] ELSE pkgs
  /\ EndCall
  /\ UNCHANGED <<cache, todo>>

-----------------------------------------------------------------------------

(* The environment: the operator removes the finalizer of a package that   *)
(* is being deleted, and the informers deliver what changed.               *)
RemovePackage(r) ==
  /\ phase = "idle"
  /\ pkgs[r].deleting
  /\ pkgs' = [pkgs EXCEPT ![r] = absent]
  /\ UNCHANGED <<cache, call, phase, before, g, stack, reqs, todo>>

SyncCache ==
  /\ phase = "idle"
  /\ cache # pkgs
  /\ cache' = pkgs
  /\ UNCHANGED <<pkgs, call, phase, before, g, stack, reqs, todo>>

Init ==
  /\ pkgs = [r \in Refs |-> absent]
  /\ cache = [r \in Refs |-> absent]
  /\ call = NoCall
  /\ phase = "idle"
  /\ before = NewGraph
  /\ g = NewGraph
  /\ stack = <<>>
  /\ reqs = {}
  /\ todo = {}

(* The steps of the manager itself, which runs to completion once called.  *)
ManagerStep ==
  \/ \E d \in Refs : SkipDependency(d) \/ RepoError(d) \/ PruneVertex(d)
  \/ \E d \in Refs, v \in Versions : AddDependency(d, v)
  \/ ReturnFromDependency
  \/ FinishWrite
  \/ FinishReconcile
  \/ FinishDelete

Next ==
  \/ \E r \in Refs : \E v \in Available[r] : UserWrite(r, v)
  \/ \E q \in todo : ReconcilerWrite(q) \/ ReconcilerSkips(q)
  \/ \E r \in Refs : Reconcile(r) \/ StartDelete(r) \/ DeleteNamespaced(r) \/ RemovePackage(r)
  \/ ManagerStep
  \/ SyncCache

Spec == Init /\ [][Next]_vars /\ WF_vars(ManagerStep)

-----------------------------------------------------------------------------

TypeOK ==
  /\ pkgs \in [Refs -> Package]
  /\ cache \in [Refs -> Package]
  /\ call \in Call
  /\ phase \in {"idle", "resolve", "prune"}
  /\ before \in vertexMap
  /\ g \in vertexMap
  /\ stack \in Seq(Frame)
  /\ reqs \in SUBSET Requirement
  /\ todo \in SUBSET Requirement

(* addDependencies never re-enters a package whose dependencies it is      *)
(* still adding, whatever cycles the manifests declare: this is what       *)
(* bounds the recursion by the number of packages.                         *)
RecursionBounded ==
  \A i, j \in 1..Len(stack) : stack[i].ref = stack[j].ref => i = j

(* If Validate accepts the requirements it computed, each of them is the   *)
(* greatest available version under the constraints of ALL packages that   *)
(* will then be installed, those that were added after the version had     *)
(* been chosen included (the design document's "Install D pinned in        *)
(* max_available(PDV)").                                                   *)
RequirementsAreMax ==
  (ResolveDone /\ Status = "RESOLVABLE") =>
     \A q \in reqs : IsMax(g, q.ref, q.version)

(* Prune removes exactly the packages outside the largest set in which     *)
(* every package is manual or required by another member: the outcome of   *)
(* ValidateDelete does not depend on the iteration order of the map.       *)
SelfSupporting(h, K) ==
  K \subseteq Installed(h) /\ \A r \in K : h[r].manual \/ Dependants(h, r) \cap K # {}

PruneIsConfluent ==
  (phase = "prune" /\ PruneDue = {} /\ Version(before, call.ref) # None) =>
     /\ SelfSupporting(delete(before, call.ref), Installed(g))
     /\ \A K \in SUBSET Refs :
           SelfSupporting(delete(before, call.ref), K) => K \subseteq Installed(g)

(* A dependency x -> e.to of stored objects is met by an installed package *)
(* that is not being deleted and has an allowed version.                   *)
Fulfilled(ps, e) == installedVersion(ps[e.to]) \in e.allowed

(* A step breaks no fulfilled dependency of a package x that stays as it   *)
(* is: none at all if it ends a call of Validate, otherwise none of a      *)
(* package the user installed on a cluster-scoped package.                 *)
KeepsFulfilled ==
  \A x \in Refs :
    LET v == installedVersion(pkgs[x])
    IN  (/\ v # None
         /\ installedVersion(pkgs'[x]) = v
         /\ phase = "resolve" \/ ~pkgs[x].dependency)
        => \A e \in Manifest[x][v] :
              (Fulfilled(pkgs, e) /\ (phase = "resolve" \/ e.to \notin Namespaced))
              => Fulfilled(pkgs', e)

(* An admitted write never breaks a fulfilled dependency of any package,   *)
(* and an admitted delete of a cluster-scoped package never breaks one of  *)
(* a package the user installed (webhook, validateCreateOrUpdate and       *)
(* ValidateDelete).  It rests on the webhook reading a current cache.      *)
AdmissionKeepsFulfilled == [][KeepsFulfilled]_vars

=============================================================================
