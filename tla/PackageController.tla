-------------------------- MODULE PackageController --------------------------
(***************************************************************************)
(* The package operator: the two controllers that reconcile ClusterPackages*)
(* and Packages (internal/controller/common.go), the PackageInfo           *)
(* controller, the deletion webhook they pass, and the users who create,   *)
(* update, suspend and delete packages meanwhile.                          *)
(*                                                                         *)
(* The API server stores the objects.  Controllers read packages from an   *)
(* informer cache that may lag and write them back with optimistic         *)
(* concurrency: a write fails unless the stored object is still the one    *)
(* that was read.  Equality of the objects stands for the equality of      *)
(* their resource versions.                                                *)
(***************************************************************************)
EXTENDS Integers, FiniteSets

CONSTANTS
  Pkgs,         \* package objects
  Versions,     \* versions that can be installed
  None,         \* no version: the object does not exist
  Controllers,  \* the controllers (Package, ClusterPackage), one worker each
  ControllerOf, \* which controller reconciles a package object
  Namespaced,   \* the Packages; the other objects are ClusterPackages
  PackageName,  \* spec.packageInfo.name of a package object
  Deps,         \* Deps[p][v]: the packages that version v of p requires
  Values,       \* the value configurations a package may have
  NoValues,     \* the empty one (nil)
  ComponentValues, \* ComponentValues[p][d]: what p's manifest sets for component d
  Resources,    \* Resources[p][v]: the resources in the manifests of v
  NamespaceResource, \* the namespace a ClusterPackage creates for its components
  Latest,       \* Latest[p]: the version the dependency manager installs
  CacheLags,    \* whether controllers may act on a stale cache
  MaxRequests,  \* bound on the requests users make
  MaxFaults     \* bound on failed calls and crashes

Infos == {<<PackageName[p], v>> : p \in Pkgs, v \in Versions}

AllResources ==
  UNION {{<<p, x>> : x \in (UNION {Resources[p][v] : v \in Versions}) \cup {NamespaceResource}}
         : p \in Pkgs}

ASSUME ConstantsAssumption ==
  /\ None \notin Versions
  /\ ControllerOf \in [Pkgs -> Controllers]
  /\ Namespaced \subseteq Pkgs
  /\ Deps \in [Pkgs -> [Versions -> SUBSET Pkgs]]
  /\ Latest \in [Pkgs -> Versions]
  /\ NoValues \in Values
  /\ ComponentValues \in [Pkgs -> [Pkgs -> Values]]
  /\ CacheLags \in BOOLEAN
  /\ MaxRequests \in Nat
  /\ MaxFaults \in Nat

VARIABLES
  pkg,       \* the stored package objects
  cache,     \* the informer cache of them
  info,      \* the stored PackageInfos: their Ready condition
  deployed,  \* the resources that exist in the cluster
  queue,     \* the work queues: packages to reconcile
  ctx,       \* the PackageReconcilationContext of each controller
  requests,  \* how many requests users have made
  faults     \* how many faults have happened

vars == <<pkg, cache, info, deployed, queue, ctx, requests, faults>>

-----------------------------------------------------------------------------

(* A status condition stands for the pair (Ready, Failed) and the kind of  *)
(* message: SetUnknown while deleting, for a pending PackageInfo or a      *)
(* missing dependency; SetReady; SetFailed.                                *)
Conditions == {"none", "deleting", "pending", "waiting", "ready", "failed"}

Status == [cond : Conditions, version : Versions \cup {None},
           ownedPackages : SUBSET Pkgs, ownedInfos : SUBSET Infos,
           ownedResources : SUBSET AllResources]

Object == [version : Versions \cup {None}, values : Values, dependency : BOOLEAN, suspend : BOOLEAN,
           deleting : BOOLEAN, finalizer : BOOLEAN, status : Status]

noStatus == [cond |-> "none", version |-> None, ownedPackages |-> {},
             ownedInfos |-> {}, ownedResources |-> {}]

newPackage(v, x, dependency) ==
  [version |-> v, values |-> x, dependency |-> dependency, suspend |-> FALSE,
   deleting |-> FALSE, finalizer |-> FALSE, status |-> noStatus]

absent == newPackage(None, NoValues, FALSE)

InfoStates == {"absent", "unknown", "ready", "failed"}

(* names.PackageInfoName and the resources of a package in its version.    *)
PackageInfoName(p, v) == <<PackageName[p], v>>

(* Mutant: owner and resource change places in a reference.                *)
swappedResources(p, v) == {<<x, p>> : x \in Resources[p][v]}

resourcesOf(p, v) == {<<p, x>> : x \in Resources[p][v]}

Installed(view) == {x \in Pkgs : view[x].version # None /\ ~view[x].deleting}

Needs(view, x) == Deps[x][view[x].version]

(* A manifest requires ClusterPackages as dependencies and namespaced      *)
(* Packages as components.  Only components are given values; a dependency *)
(* is required to have none.                                               *)
requiredValues(p, d) == IF d \in Namespaced THEN ComponentValues[p][d] ELSE NoValues

(* ensureNamespaceForComponents of a ClusterPackage.                       *)
namespaceFor(p, v) ==
  IF p \in Namespaced \/ Deps[p][v] \cap Namespaced = {} THEN {} ELSE {<<p, NamespaceResource>>}

-----------------------------------------------------------------------------

(* ValidateDelete of the webhook: simulate the deletion of d, prune every  *)
(* dependency nothing requires any more, and look for unmet dependencies.  *)
(* Kept is what Prune leaves (DependencyManager, PruneIsConfluent).  The   *)
(* deletion of a namespaced package is not validated.                      *)
Kept(view, d) ==
  UNION {K \in SUBSET (Installed(view) \ {d}) :
           \A x \in K : ~view[x].dependency \/ \E y \in K : x \in Needs(view, y)}

(* Mutant: the deleted package itself is still found in the graph.         *)
ValidateDeleteTooEarly(view, d) ==
  \A x \in Kept(view, d) : Needs(view, x) \subseteq Installed(view)

ValidateDelete(view, d) ==
  LET remaining == IF d \in Installed(view) THEN Kept(view, d) ELSE Installed(view)
  IN  d \in Namespaced \/ \A x \in remaining : Needs(view, x) \subseteq Installed(view) \ {d}

-----------------------------------------------------------------------------

(* The reconcilation context.  base is the object as it was read, obj the  *)
(* copy the reconciliation changes in memory.                              *)
Steps == {"idle", "afterDeletion", "ensurePackageInfo", "ensureDependencies",
          "checkDependencies", "runAdapters", "cleanup", "update"}

Context == [pc : Steps, p : Pkgs \cup {None}, base : Object, obj : Object,
            requirements : SUBSET Pkgs, required : SUBSET Pkgs,
            failed : BOOLEAN, waiting : BOOLEAN,
            currentOwnedPackages : SUBSET Pkgs,
            currentOwnedResources : SUBSET AllResources,
            shouldUpdateStatus : BOOLEAN, shouldUpdateResource : BOOLEAN,
            requeue : BOOLEAN]

context(p, object, step) ==
  [pc |-> step, p |-> p, base |-> object, obj |-> object,
   requirements |-> {}, required |-> {}, failed |-> FALSE, waiting |-> FALSE,
   currentOwnedPackages |-> {}, currentOwnedResources |-> {},
   shouldUpdateStatus |-> FALSE, shouldUpdateResource |-> FALSE, requeue |-> FALSE]

idle == context(None, absent, "idle")

setStatus(c, status) ==
  [c EXCEPT !.obj.status = status,
            !.shouldUpdateStatus = @ \/ status # c.obj.status]

setCondition(c, cond) == setStatus(c, [c.obj.status EXCEPT !.cond = cond])

(* Mutant: the required packages are not recorded.                         *)
finalizeResources(c, step) ==
  [setStatus(c, [c.obj.status EXCEPT !.ownedResources = @ \cup c.currentOwnedResources])
   EXCEPT !.pc = step]

(* finalize: what has been applied so far is recorded, then the object is  *)
(* written, after the cleanup if the reconciliation succeeded.             *)
finalize(c, step) ==
  [setStatus(c, [c.obj.status EXCEPT !.ownedResources = @ \cup c.currentOwnedResources,
                                     !.ownedPackages = @ \cup c.currentOwnedPackages])
   EXCEPT !.pc = step]

Fresh == CacheLags \/ cache = pkg

At(w, step) == Fresh /\ ctx[w].pc = step

Set(w, c) == ctx' = [ctx EXCEPT ![w] = c]

-----------------------------------------------------------------------------

Begin(w, p) ==
  /\ At(w, "idle")
  /\ p \in queue
  /\ ControllerOf[p] = w
  /\ queue' = queue \ {p}
  /\ UNCHANGED <<pkg, cache, info, deployed, requests, faults>>

(* A package that is gone or suspended is left alone, and not requeued.    *)
SkipReconcile(w, p) ==
  /\ Begin(w, p)
  /\ cache[p].version = None \/ cache[p].suspend
  /\ UNCHANGED ctx

(* Mutant: the deletion timestamp is not looked at.                        *)
BeginReconcileDeleted(w, p) ==
  /\ Begin(w, p)
  /\ cache[p].version # None /\ ~cache[p].suspend
  /\ Set(w, [context(p, cache[p], "ensurePackageInfo")
              EXCEPT !.obj.finalizer = TRUE,
                     !.shouldUpdateResource = ~cache[p].finalizer,
                     !.requeue = TRUE])

BeginReconcile(w, p) ==
  /\ Begin(w, p)
  /\ cache[p].version # None /\ ~cache[p].suspend /\ ~cache[p].deleting
  /\ Set(w, [context(p, cache[p], "ensurePackageInfo")
              EXCEPT !.obj.finalizer = TRUE,               \* ensureFinalizer
                     !.shouldUpdateResource = ~cache[p].finalizer,
                     !.requeue = TRUE])

BeginAfterDeletion(w, p) ==
  /\ Begin(w, p)
  /\ cache[p].version # None /\ ~cache[p].suspend /\ cache[p].deleting
  /\ Set(w, setCondition(context(p, cache[p], "afterDeletion"), "deleting"))

(* ensurePackageInfo, and what reconcile makes of its condition.           *)
EnsurePackageInfo(w) ==
  LET c == ctx[w]
      k == PackageInfoName(c.p, c.obj.version)
      owned == setStatus(c, [c.obj.status EXCEPT !.ownedInfos = @ \cup {k}])
  IN  /\ At(w, "ensurePackageInfo")
      /\ info' = IF info[k] = "absent" THEN [info EXCEPT ![k] = "unknown"] ELSE info
      /\ Set(w, CASE info[k] = "ready"  -> [owned EXCEPT !.pc = "ensureDependencies"]
                  [] info[k] = "failed" -> finalize(setCondition(owned, "failed"), "update")
                  [] OTHER              -> finalize(setCondition(owned, "pending"), "update"))
      /\ UNCHANGED <<pkg, cache, deployed, queue, requests, faults>>

(* ensureDependencies: the missing direct dependencies are the             *)
(* requirements the dependency manager returns (module DependencyManager). *)
(* The reference to the namespace is new in currentOwnedResources, which   *)
(* counts as a change of the status every time.                            *)
EnsureDependencies(w) ==
  LET c == ctx[w]
      deps == Deps[c.p][c.obj.version]
      namespace == namespaceFor(c.p, c.obj.version)
  IN  /\ At(w, "ensureDependencies")
      /\ deployed' = deployed \cup namespace
      /\ Set(w, [c EXCEPT !.requirements = deps \ Installed(cache), !.required = deps,
                          !.currentOwnedResources = namespace,
                          !.shouldUpdateStatus = @ \/ namespace # {}, !.pc = "checkDependencies"])
      /\ UNCHANGED <<pkg, cache, info, queue, requests, faults>>

(* CreateOrUpdate of one requirement.  It reads the cache: the write fails *)
(* if the stored object is another one.  An object that exists, which is   *)
(* then being deleted, is pinned to the required version and values.       *)
CreateRequirement(w, d) ==
  LET c == ctx[w]
      x == requiredValues(c.p, d)
      unchanged == cache[d].version = Latest[d] /\ cache[d].values = x
      ok == unchanged \/ cache[d] = pkg[d]
  IN  /\ At(w, "checkDependencies")
      /\ d \in c.requirements
      /\ pkg' = IF unchanged \/ ~ok THEN pkg
                ELSE [pkg EXCEPT ![d] = IF @.version = None THEN newPackage(Latest[d], x, TRUE)
                                        ELSE [@ EXCEPT !.version = Latest[d], !.values = x]]
      /\ Set(w, [c EXCEPT !.requirements = @ \ {d}, !.failed = @ \/ ~ok])
      /\ UNCHANGED <<cache, info, deployed, queue, requests, faults>>

(* Mutant: the values of a package that exists are left alone.             *)
configuredNot(d, x) == pkg

configured(d, x) == [pkg EXCEPT ![d].values = x]

(* handleRequiredPackage: the values of a required package are replaced by *)
(* the ones this package wants, then its condition is looked at.           *)
HandleRequired(w, d) ==
  LET c == ctx[w]
      x == requiredValues(c.p, d)
      found == cache[d].version # None
      changed == found /\ cache[d].values # x
      ok == ~changed \/ cache[d] = pkg[d]
      failed == found /\ (~ok \/ cache[d].status.cond = "failed")
      waiting == ~found \/ cache[d].status.cond \notin {"ready", "failed"}
  IN  /\ At(w, "checkDependencies")
      /\ c.requirements = {} /\ (c.required # Deps[c.p][c.obj.version] \/ ~c.failed)
      /\ d \in c.required
      /\ pkg' = IF changed /\ ok THEN configured(d, x) ELSE pkg
      /\ Set(w, [c EXCEPT !.required = @ \ {d}, !.failed = @ \/ failed, !.waiting = @ \/ waiting])
      /\ UNCHANGED <<cache, info, deployed, queue, requests, faults>>

(* The end of ensureDependencies: every required package must exist and be *)
(* ready.  Only then does this package own them.                           *)
CheckDependencies(w) ==
  LET c == ctx[w]
      deps == Deps[c.p][c.obj.version]
  IN  /\ At(w, "checkDependencies")
      /\ c.requirements = {}
      /\ c.required = {} \/ (c.required = deps /\ c.failed)
      /\ Set(w, CASE c.failed  -> finalize(setCondition(c, "failed"), "update")
                  [] ~c.failed /\ c.waiting -> finalize(setCondition(c, "waiting"), "update")
                  [] OTHER -> [c EXCEPT !.currentOwnedPackages = deps, !.pc = "runAdapters"])
      /\ UNCHANGED <<pkg, cache, info, deployed, queue, requests, faults>>

(* The manifest adapters apply the resources of the version.               *)
RunAdapters(w) ==
  LET c == ctx[w]
      applied == [c EXCEPT !.currentOwnedResources = @ \cup resourcesOf(c.p, c.obj.version)]
      ready == setStatus(applied, [c.obj.status EXCEPT !.cond = "ready", !.version = c.obj.version])
  IN  /\ At(w, "runAdapters")
      /\ deployed' = deployed \cup resourcesOf(c.p, c.obj.version)
      /\ Set(w, finalize(ready, "cleanup"))
      /\ UNCHANGED <<pkg, cache, info, queue, requests, faults>>

(* The adapters report a failure or that resources are not ready yet, or   *)
(* an error after they applied some of the resources; invalid values fail  *)
(* before any is applied.                                                  *)
AdaptersNotReady(w) ==
  LET c == ctx[w]
      all == resourcesOf(c.p, c.obj.version)
  IN  /\ At(w, "runAdapters")
      /\ faults < MaxFaults
      /\ faults' = faults + 1
      /\ \E applied \in SUBSET all, reported \in BOOLEAN, cond \in {"failed", "waiting"} :
            /\ reported => applied = all
            /\ ~reported => cond = "failed"
            /\ deployed' = deployed \cup applied
            /\ LET c1 == [c EXCEPT !.currentOwnedResources = IF reported THEN @ \cup all ELSE @]
               IN  Set(w, finalize(setCondition(c1, cond), "update"))
      /\ UNCHANGED <<pkg, cache, info, queue, requests>>

-----------------------------------------------------------------------------

(* pruneOwnedResources: what is recorded but no longer applied is deleted; *)
(* a reference to something that does not exist is kept.                   *)
staleResources(c) == c.obj.status.ownedResources \ c.currentOwnedResources

(* pruneOwnedPackageInfos: delete what no other package owns; drop the     *)
(* references in any case.                                                 *)
staleInfos(c, all) ==
  IF all THEN c.obj.status.ownedInfos
  ELSE c.obj.status.ownedInfos \ {PackageInfoName(c.p, c.obj.version)}

(* Mutant: other packages are not looked at.                               *)
infoNeverUsed(c, k) == FALSE

infoStillUsed(c, k) ==
  \E x \in Pkgs \ {c.p} : cache[x].version # None /\ k \in cache[x].status.ownedInfos

prunedInfos(c, all) ==
  [k \in Infos |-> IF k \in staleInfos(c, all) /\ ~infoStillUsed(c, k) THEN "absent" ELSE info[k]]

(* pruneOwnedPackages: a stale required package is deleted if it was       *)
(* installed as a dependency and no other package that is not being        *)
(* deleted owns it.  The webhook may reject the deletion.                  *)
stalePackages(c, all) ==
  IF all THEN c.obj.status.ownedPackages
  ELSE c.obj.status.ownedPackages \ c.currentOwnedPackages

packageStillUsed(c, d) ==
  \E x \in Installed(cache) \ {c.p} : d \in cache[x].status.ownedPackages

toDelete(c, all) ==
  {d \in stalePackages(c, all) :
     ~packageStillUsed(c, d) /\ cache[d].version # None /\ cache[d].dependency}

rejected(c, all) == {d \in toDelete(c, all) : ~ValidateDelete(cache, d)}

deletePackages(ds) ==
  [x \in Pkgs |-> IF x \in ds /\ pkg[x].version # None
                  THEN [pkg[x] EXCEPT !.deleting = TRUE] ELSE pkg[x]]

prunedPackages(c, all) == deletePackages(toDelete(c, all) \ rejected(c, all))

(* Kubernetes deletes what is in a deleted namespace: the components.      *)
withoutNamespaces(objects, gone) ==
  [x \in Pkgs |->
     IF /\ x \in Namespaced /\ objects[x].version # None
        /\ \E p \in Pkgs : <<p, NamespaceResource>> \in gone /\ \E v \in Versions : x \in Deps[p][v]
     THEN [objects[x] EXCEPT !.deleting = TRUE] ELSE objects[x]]

(* cleanup after a successful reconciliation, then the update.  Its three  *)
(* parts run in any case: gone are the resources it manages to delete, and *)
(* each of the other two may fail to list the packages.                    *)
cleanup(w, gone, infos, packages, failed) ==
  LET c == ctx[w]
      refused == IF packages THEN rejected(c, FALSE) ELSE {}
      st == [c.obj.status EXCEPT
               !.ownedResources = @ \ gone,
               !.ownedInfos = IF infos THEN @ \ staleInfos(c, FALSE) ELSE @,
               !.ownedPackages = IF packages THEN @ \ (stalePackages(c, FALSE) \ refused) ELSE @,
               !.cond = IF failed \/ refused # {} THEN "failed" ELSE @]
  IN  /\ At(w, "cleanup")
      /\ deployed' = deployed \ gone
      /\ info' = IF infos THEN prunedInfos(c, FALSE) ELSE info
      /\ pkg' = withoutNamespaces(IF packages THEN prunedPackages(c, FALSE) ELSE pkg, gone)
      /\ Set(w, [setStatus(c, st) EXCEPT !.pc = "update"])
      /\ UNCHANGED <<cache, queue, requests>>

Cleanup(w) ==
  /\ cleanup(w, staleResources(ctx[w]) \cap deployed, TRUE, TRUE, FALSE)
  /\ UNCHANGED faults

CleanupFails(w) ==
  /\ faults < MaxFaults
  /\ faults' = faults + 1
  /\ \E gone \in SUBSET (staleResources(ctx[w]) \cap deployed), infos, packages \in BOOLEAN :
        cleanup(w, gone, infos, packages, TRUE)

(* Mutant: the finalizer is kept until the resources are gone, which are   *)
(* collected only after it.                                                *)
deletionStageWaits(st) ==
  CASE st.ownedPackages # {} -> "packages"
    [] st.ownedPackages = {} /\ st.ownedInfos # {} -> "infos"
    [] OTHER -> IF st.ownedResources = {} THEN "finalizer" ELSE "none"

(* reconcileAfterDeletion: first the owned packages go, in a later         *)
(* reconciliation the owned PackageInfos, in a third one the finalizer.    *)
deletionStage(st) ==
  CASE st.ownedPackages # {} -> "packages"
    [] st.ownedPackages = {} /\ st.ownedInfos # {} -> "infos"
    [] OTHER -> "finalizer"

AfterDeletion(w) ==
  LET c == ctx[w]
      st == c.obj.status
      stage == IF c.obj.finalizer THEN deletionStage(st) ELSE "none"
  IN  /\ At(w, "afterDeletion")
      /\ \/ /\ stage = "none"
            /\ Set(w, finalize(c, "update"))
            /\ UNCHANGED <<pkg, info>>
         \/ /\ stage = "packages"
            /\ pkg' = prunedPackages(c, TRUE)
            /\ Set(w, [setStatus(c, [st EXCEPT !.ownedPackages = rejected(c, TRUE)])
                       EXCEPT !.pc = "update", !.requeue = rejected(c, TRUE) # {}])
            /\ UNCHANGED info
         \/ /\ stage = "infos"
            /\ info' = prunedInfos(c, TRUE)
            /\ Set(w, [setStatus(c, [st EXCEPT !.ownedInfos = {}]) EXCEPT !.pc = "update"])
            /\ UNCHANGED pkg
         \/ /\ stage = "finalizer"
            /\ Set(w, [c EXCEPT !.obj.finalizer = FALSE, !.shouldUpdateResource = TRUE,
                                !.pc = "update"])
            /\ UNCHANGED <<pkg, info>>
      /\ UNCHANGED <<cache, deployed, queue, requests, faults>>

(* The end of actualFinalize: the status is written, or else the resource  *)
(* with its finalizers, never both.  A failed write requeues the package.  *)
ConflictMissed(c) == FALSE  \* mutant: the last write wins

Conflict(c) == pkg[c.p] # c.base

updated(c) ==
  IF c.shouldUpdateStatus THEN [pkg[c.p] EXCEPT !.status = c.obj.status]
  ELSE IF c.shouldUpdateResource THEN [pkg[c.p] EXCEPT !.finalizer = c.obj.finalizer]
  ELSE pkg[c.p]

(* requeue.OnError after a deletion, requeue.Always otherwise.             *)
requeuedOnError(c, failed) == failed  \* mutant: OnError everywhere

requeued(c, failed) == failed \/ c.requeue

Update(w) ==
  LET c == ctx[w]
      writes == c.shouldUpdateStatus \/ c.shouldUpdateResource
      failed == writes /\ Conflict(c)
  IN  /\ At(w, "update")
      /\ pkg' = IF failed THEN pkg ELSE [pkg EXCEPT ![c.p] = updated(c)]
      /\ queue' = IF requeued(c, failed) THEN queue \cup {c.p} ELSE queue
      /\ Set(w, idle)
      /\ UNCHANGED <<cache, info, deployed, requests, faults>>

-----------------------------------------------------------------------------

(* A call to the API server or to a repository fails.  The reconciliation  *)
(* is abandoned if that was the PackageInfo or the final update; anywhere  *)
(* else the failure is recorded in the status, which is then written.      *)
CallFails(w) ==
  LET c == ctx[w]
  IN  /\ faults < MaxFaults
      /\ faults' = faults + 1
      /\ \/ /\ c.pc \in {"ensurePackageInfo", "update"}
            /\ queue' = queue \cup {c.p}
            /\ Set(w, idle)
         \/ /\ c.pc \in {"ensureDependencies", "checkDependencies"}
            /\ Set(w, finalize(setCondition(c, "failed"), "update"))
            /\ UNCHANGED queue
         \/ /\ c.pc = "afterDeletion"
            /\ c.obj.finalizer
            /\ deletionStage(c.obj.status) # "finalizer"
            /\ Set(w, [c EXCEPT !.pc = "update", !.requeue = TRUE])
            /\ UNCHANGED queue
      /\ UNCHANGED <<pkg, cache, info, deployed, requests>>

(* The operator crashes and restarts: it lists all packages again.         *)
Crash ==
  /\ faults < MaxFaults
  /\ faults' = faults + 1
  /\ cache' = pkg
  /\ queue' = {p \in Pkgs : pkg[p].version # None}
  /\ ctx' = [w \in Controllers |-> idle]
  /\ UNCHANGED <<pkg, info, deployed, requests>>

(* An event of a package reaches the cache: the package itself and the     *)
(* packages that own it are queued.                                        *)
Sync(p) ==
  /\ cache[p] # pkg[p]
  /\ cache' = [cache EXCEPT ![p] = pkg[p]]
  /\ queue' = queue \cup {p} \cup {x \in Pkgs : p \in cache[x].status.ownedPackages}
  /\ UNCHANGED <<pkg, info, deployed, ctx, requests, faults>>

(* The PackageInfo controller syncs the manifest from the repository, and  *)
(* does so again after the sync interval; the packages that own the        *)
(* PackageInfo are queued.                                                 *)
SyncInfo(k, state) ==
  /\ info[k] \notin {"absent", state}
  /\ info' = [info EXCEPT ![k] = state]
  /\ queue' = queue \cup {x \in Pkgs : k \in cache[x].status.ownedInfos}
  /\ UNCHANGED <<pkg, cache, deployed, ctx, requests>>

SyncInfoOk(k) == SyncInfo(k, "ready") /\ UNCHANGED faults

SyncInfoFails(k) ==
  /\ faults < MaxFaults
  /\ faults' = faults + 1
  /\ SyncInfo(k, "failed")

(* The garbage collector removes an object that is being deleted once its  *)
(* finalizer is gone, and the resources it owns.                           *)
Collect(p) ==
  LET gone == {x \in deployed : x[1] = p}
  IN  /\ pkg[p].deleting /\ ~pkg[p].finalizer
      /\ pkg' = withoutNamespaces([pkg EXCEPT ![p] = absent], gone)
      /\ deployed' = deployed \ gone
      /\ UNCHANGED <<cache, info, queue, ctx, requests, faults>>

-----------------------------------------------------------------------------

Request ==
  /\ requests < MaxRequests
  /\ requests' = requests + 1
  /\ UNCHANGED <<cache, info, deployed, queue, ctx, faults>>

UserInstall(p, v, x) ==
  /\ Request
  /\ pkg[p].version = None
  /\ pkg' = [pkg EXCEPT ![p] = newPackage(v, x, FALSE)]

UserUpdate(p, v) ==
  /\ Request
  /\ pkg[p].version \notin {None, v}
  /\ pkg' = [pkg EXCEPT ![p].version = v]

UserConfigure(p, x) ==
  /\ Request
  /\ pkg[p].version # None /\ pkg[p].values # x
  /\ pkg' = [pkg EXCEPT ![p].values = x]

UserSuspend(p) ==
  /\ Request
  /\ pkg[p].version # None
  /\ pkg' = [pkg EXCEPT ![p].suspend = ~@]

UserUninstall(p) ==
  /\ Request
  /\ pkg[p].version # None /\ ~pkg[p].deleting
  /\ Fresh
  /\ ValidateDelete(cache, p)
  /\ pkg' = [pkg EXCEPT ![p].deleting = TRUE]

-----------------------------------------------------------------------------

Init ==
  /\ pkg = [p \in Pkgs |-> absent]
  /\ cache = [p \in Pkgs |-> absent]
  /\ info = [k \in Infos |-> "absent"]
  /\ deployed = {}
  /\ queue = {}
  /\ ctx = [w \in Controllers |-> idle]
  /\ requests = 0
  /\ faults = 0

Reconcile(w) ==
  \/ EnsurePackageInfo(w)
  \/ EnsureDependencies(w)
  \/ \E d \in Pkgs : CreateRequirement(w, d) \/ HandleRequired(w, d)
  \/ CheckDependencies(w)
  \/ RunAdapters(w)
  \/ Cleanup(w)
  \/ AfterDeletion(w)
  \/ Update(w)

Start(w, p) == SkipReconcile(w, p) \/ BeginReconcile(w, p) \/ BeginAfterDeletion(w, p)

User(p) ==
  \/ \E v \in Versions : UserUpdate(p, v) \/ \E x \in Values : UserInstall(p, v, x)
  \/ \E x \in Values : UserConfigure(p, x)
  \/ UserSuspend(p)
  \/ UserUninstall(p)

Next ==
  \/ \E w \in Controllers : Reconcile(w) \/ AdaptersNotReady(w) \/ CleanupFails(w) \/ CallFails(w)
  \/ \E w \in Controllers, p \in Pkgs : Start(w, p)
  \/ \E p \in Pkgs : Sync(p) \/ Collect(p) \/ User(p)
  \/ \E k \in Infos : SyncInfoOk(k) \/ SyncInfoFails(k)
  \/ Crash

(* A controller finishes what it started and takes every queued package in *)
(* turn (the work queue is first in, first out); informers, the            *)
(* PackageInfo controller and the garbage collector keep up.  Users and    *)
(* faults are not fair.                                                    *)
Fairness ==
  /\ \A w \in Controllers : WF_vars(Reconcile(w))
  /\ \A w \in Controllers, p \in Pkgs : SF_vars(Start(w, p))
  /\ \A p \in Pkgs : WF_vars(Sync(p)) /\ WF_vars(Collect(p))
  /\ \A k \in Infos : WF_vars(SyncInfoOk(k))

Spec == Init /\ [][Next]_vars /\ Fairness

-----------------------------------------------------------------------------

TypeOK ==
  /\ pkg \in [Pkgs -> Object]
  /\ cache \in [Pkgs -> Object]
  /\ info \in [Infos -> InfoStates]
  /\ deployed \subseteq AllResources
  /\ queue \subseteq Pkgs
  /\ ctx \in [Controllers -> Context]
  /\ requests \in 0..MaxRequests
  /\ faults \in 0..MaxFaults

(* Whatever a ready package uses is recorded in its status, so that its    *)
(* deletion and every later cleanup find it: the PackageInfo, the required *)
(* packages and the resources of the version that was installed.           *)
OwnershipCoversUse ==
  \A p \in Pkgs :
    LET st == pkg[p].status
    IN  st.cond = "ready" =>
          /\ st.version # None
          /\ PackageInfoName(p, st.version) \in st.ownedInfos
          /\ Deps[p][st.version] \subseteq st.ownedPackages
          /\ resourcesOf(p, st.version) \subseteq st.ownedResources

(* A reconciliation that read an outdated object never reports a version   *)
(* as installed: when status.version changes it is the version the stored  *)
(* spec asks for (actualFinalize, Status().Update).                        *)
ReportedVersionIsCurrent ==
  [][\A p \in Pkgs : pkg'[p].status.version \notin {None, pkg[p].status.version}
        => pkg'[p].status.version = pkg'[p].version]_vars

(* The operator does not write the status or the finalizer of a package    *)
(* while it is suspended, even if the reconciliation began before.         *)
SuspendedIsFrozen ==
  [][\A p \in Pkgs : pkg[p].suspend /\ pkg'[p].suspend
        => pkg'[p].status = pkg[p].status /\ pkg'[p].finalizer = pkg[p].finalizer]_vars

(* No cluster-scoped package is deleted, by a user or by the pruning of    *)
(* another package, while a package the user installed requires it: when   *)
(* the cache is current, ValidateDelete and pruneOwnedPackages see every   *)
(* dependant, however old the rest of what the reconciliation read is.     *)
NeededPackagesStay ==
  [][cache = pkg =>
       \A d \in Pkgs \ Namespaced, x \in Pkgs :
         (pkg'[d].deleting /\ ~pkg[d].deleting /\ x # d /\ x \in Installed(pkg) /\ ~pkg[x].dependency)
         => d \notin Needs(pkg, x)]_vars

(* The cleanup of one package never deletes the PackageInfo of another     *)
(* package that is installed and has recorded it, when the cache shows     *)
(* what is stored (pruneOwnedPackageInfos).                                *)
NeededInfosStay ==
  [][cache = pkg => \A k \in Infos, x \in Installed(pkg) \ {ctx[w].p : w \in Controllers} :
        (/\ info[k] # "absent"
         /\ PackageInfoName(x, pkg[x].version) = k
         /\ k \in pkg[x].status.ownedInfos)
        => info'[k] # "absent"]_vars

(* An uninstalled package is eventually gone, unless it is suspended.      *)
DeletionCompletes ==
  \A p \in Pkgs : pkg[p].deleting ~> (pkg[p].suspend \/ ~pkg[p].deleting)

(* Once faults and requests stop and no package is left suspended, every   *)
(* package becomes ready in the version of its spec and, unless it has     *)
(* components (see namespaceFor), holds its finalizer: no wake-up of a     *)
(* waiting reconciliation is lost.                                         *)
Converged(p) ==
  \/ pkg[p].version = None \/ pkg[p].deleting
  \/ /\ pkg[p].status.cond = "ready"
     /\ pkg[p].status.version = pkg[p].version
     /\ pkg[p].finalizer \/ namespaceFor(p, pkg[p].version) # {}

EventuallyReady ==
  \A p \in Pkgs : <>[](Converged(p) \/ \E x \in Pkgs : pkg[x].suspend)

(* A component ends up with the values its owner's manifest sets, whatever *)
(* the user does to it meanwhile and whichever of the two controllers has  *)
(* to repeat its reconciliation (handleRequiredPackage).                   *)
ComponentsConfigured ==
  \A p \in Pkgs \ Namespaced, d \in Namespaced :
     <>[](\/ p \notin Installed(pkg) \/ d \notin Needs(pkg, p)
          \/ pkg[d].values = ComponentValues[p][d]
          \/ \E x \in Pkgs : pkg[x].suspend)

-----------------------------------------------------------------------------

(* The life of each package as the stored objects show it.                 *)
phaseOf(p) ==
  CASE pkg[p].version = None -> "absent"
    [] pkg[p].version # None /\ pkg[p].deleting -> "leaving"
    [] pkg[p].version # None /\ ~pkg[p].deleting /\ pkg[p].status.cond = "ready" -> "ready"
    [] OTHER -> "installing"

Life == INSTANCE PackageLife WITH
  phase <- [p \in Pkgs |-> phaseOf(p)],
  held <- {p \in Pkgs : pkg[p].finalizer},
  recorded <- {p \in Pkgs : pkg[p].status.ownedPackages \cup pkg[p].status.ownedInfos # {}}

(* Under stale caches, failures, crashes and concurrent requests every step *)
(* is one that PackageLife allows: a deletion is never undone or forgotten, *)
(* a package that is being deleted is not taken hold of again, and one that *)
(* is held vanishes only after everything it recorded has been given up.    *)
ImplementsPackageLife == Life!Spec

=============================================================================
