----------------------- MODULE PackageControllerProofs -----------------------
(***************************************************************************)
(* Proofs about PackageController, for any packages, versions, manifests   *)
(* and bounds, with current and with lagging caches.                       *)
(***************************************************************************)
EXTENDS PackageController, TLAPS

-----------------------------------------------------------------------------
(* The inductive invariant.  It speaks of one object or one reconciliation *)
(* context at a time: a context carries the object it read as base, so     *)
(* that nothing in it depends on what is stored meanwhile.                 *)

(* What a ready status records covers what the package uses.               *)
Covers(p, st) ==
  st.cond = "ready" =>
    /\ st.version \in Versions
    /\ PackageInfoName(p, st.version) \in st.ownedInfos
    /\ Deps[p][st.version] \subseteq st.ownedPackages
    /\ resourcesOf(p, st.version) \subseteq st.ownedResources

ObjectInv(p, o) ==
  /\ o \in Object
  /\ o.version = None => o = absent
  /\ Covers(p, o.status)

(* A reconciliation of a package that is not being deleted: once the       *)
(* PackageInfo is ensured it is recorded, and what the cleanup looks at is *)
(* complete.                                                               *)
Installing(c) ==
  /\ c.pc # "afterDeletion"
  /\ c.obj.finalizer
  /\ c.pc # "ensurePackageInfo" => PackageInfoName(c.p, c.obj.version) \in c.obj.status.ownedInfos
  /\ c.pc \in {"runAdapters", "cleanup"} => c.currentOwnedPackages = Deps[c.p][c.obj.version]
  /\ c.pc = "cleanup" =>
       /\ c.obj.status.cond = "ready" /\ c.obj.status.version = c.obj.version
       /\ resourcesOf(c.p, c.obj.version) \subseteq c.currentOwnedResources

(* A reconciliation after the deletion: it gives up what is recorded only  *)
(* while the finalizer holds the package, and the finalizer only when      *)
(* nothing is recorded.                                                    *)
Deleting(c) ==
  /\ c.pc \in {"afterDeletion", "update"}
  /\ c.obj.status.cond = "deleting"
  /\ c.currentOwnedPackages = {} /\ c.currentOwnedResources = {}
  /\ c.obj.status.ownedPackages \subseteq c.base.status.ownedPackages
  /\ c.obj.status.ownedInfos \subseteq c.base.status.ownedInfos
  /\ \/ c.base.finalizer
     \/ /\ c.obj.status.ownedPackages = c.base.status.ownedPackages
        /\ c.obj.status.ownedInfos = c.base.status.ownedInfos
  /\ c.shouldUpdateResource =>
       /\ ~c.obj.finalizer
       /\ c.obj.status.ownedPackages = {} /\ c.obj.status.ownedInfos = {}
  /\ c.pc = "afterDeletion" =>
       /\ c.obj.finalizer = c.base.finalizer
       /\ ~c.shouldUpdateResource

ContextInv(c) ==
  /\ c \in Context
  /\ c.pc # "idle" =>
       /\ c.p \in Pkgs
       /\ ObjectInv(c.p, c.base)
       /\ c.base.version \in Versions
       /\ ~c.base.suspend
       /\ c.obj.version = c.base.version
       /\ Covers(c.p, c.obj.status)
       /\ c.obj.status.version \in {c.base.status.version, c.base.version}
       /\ ~c.shouldUpdateStatus => c.obj.status = c.base.status
       /\ IF c.base.deleting THEN Deleting(c) ELSE Installing(c)

ObjectsInv(objects) ==
  /\ objects \in [Pkgs -> Object]
  /\ \A p \in Pkgs : ObjectInv(p, objects[p])

ContextsInv(contexts) ==
  /\ contexts \in [Controllers -> Context]
  /\ \A w \in Controllers : ContextInv(contexts[w])

(* The bookkeeping, which only has to be typed.                            *)
RestOK ==
  /\ info \in [Infos -> InfoStates]
  /\ deployed \subseteq AllResources
  /\ queue \subseteq Pkgs
  /\ requests \in 0..MaxRequests
  /\ faults \in 0..MaxFaults

Inv == ObjectsInv(pkg) /\ ObjectsInv(cache) /\ ContextsInv(ctx) /\ RestOK

-----------------------------------------------------------------------------
(* Operators on objects and contexts.                                      *)

(* A new package is an object that satisfies the invariant.                *)
LEMMA NewPackageInv ==
  ASSUME NEW p \in Pkgs, NEW v \in Versions, NEW x \in Values, NEW dependency \in BOOLEAN
  PROVE  ObjectInv(p, newPackage(v, x, dependency))
BY ConstantsAssumption DEF ObjectInv, newPackage, noStatus, Covers, Object, Status, Conditions

LEMMA AbsentInv ==
  ASSUME NEW p \in Pkgs
  PROVE  ObjectInv(p, absent)
BY ConstantsAssumption DEF ObjectInv, absent, newPackage, noStatus, Covers, Object, Status, Conditions

LEMMA InfoNameType ==
  ASSUME NEW p \in Pkgs, NEW v \in Versions
  PROVE  PackageInfoName(p, v) \in Infos
BY DEF PackageInfoName, Infos

LEMMA ResourcesType ==
  ASSUME NEW p \in Pkgs, NEW v \in Versions
  PROVE  /\ resourcesOf(p, v) \subseteq AllResources
         /\ namespaceFor(p, v) \subseteq AllResources
<1>1. resourcesOf(p, v) \subseteq AllResources
  BY DEF resourcesOf, AllResources
<1>2. <<p, NamespaceResource>> \in AllResources
  BY DEF AllResources
<1> QED
  BY <1>1, <1>2 DEF namespaceFor

(* The idle context satisfies the invariant.                               *)
LEMMA IdleInv == ContextInv(idle)
<1>1. absent \in Object
  BY ConstantsAssumption DEF absent, newPackage, noStatus, Object, Status, Conditions
<1> QED
  BY <1>1 DEF ContextInv, idle, context, Context, Steps

LEMMA ContextParts ==
  ASSUME NEW c \in Context
  PROVE  /\ c.obj \in Object /\ c.base \in Object /\ c.pc \in Steps
         /\ c.currentOwnedPackages \subseteq Pkgs
         /\ c.currentOwnedResources \subseteq AllResources
         /\ c.shouldUpdateStatus \in BOOLEAN /\ c.shouldUpdateResource \in BOOLEAN
BY DEF Context

LEMMA ObjectStatus ==
  ASSUME NEW o \in Object, NEW st \in Status, NEW n, n = [o EXCEPT !.status = st]
  PROVE  /\ n \in Object /\ n.status = st
         /\ n.version = o.version /\ n.finalizer = o.finalizer
BY DEF Object

LEMMA ObjectReleased ==
  ASSUME NEW o \in Object, NEW n, n = [o EXCEPT !.finalizer = FALSE]
  PROVE  /\ n \in Object /\ n.status = o.status
         /\ n.version = o.version /\ ~n.finalizer
BY DEF Object

LEMMA ContextStep ==
  ASSUME NEW c \in Context, NEW step \in Steps, NEW s, s = [c EXCEPT !.pc = step]
  PROVE  /\ s \in Context
         /\ s.pc = step /\ s.p = c.p /\ s.base = c.base /\ s.obj = c.obj
         /\ s.currentOwnedPackages = c.currentOwnedPackages
         /\ s.currentOwnedResources = c.currentOwnedResources
         /\ s.shouldUpdateResource = c.shouldUpdateResource
         /\ s.required = c.required /\ s.requirements = c.requirements
         /\ s.shouldUpdateStatus = c.shouldUpdateStatus
BY DEF Context

(* A new status leaves the rest of a context alone, and one that differs   *)
(* from the status read is to be written.                                  *)
LEMMA SetStatusContext ==
  ASSUME NEW c \in Context, NEW st \in Status, NEW s, s = setStatus(c, st)
  PROVE  /\ s \in Context
         /\ s.pc = c.pc /\ s.p = c.p /\ s.base = c.base
         /\ s.obj \in Object
         /\ s.obj.version = c.obj.version
         /\ s.obj.finalizer = c.obj.finalizer
         /\ s.obj.status = st
         /\ s.currentOwnedPackages = c.currentOwnedPackages
         /\ s.currentOwnedResources = c.currentOwnedResources
         /\ s.shouldUpdateResource = c.shouldUpdateResource
         /\ s.required = c.required /\ s.requirements = c.requirements
         /\ ~s.shouldUpdateStatus => st = c.obj.status /\ ~c.shouldUpdateStatus
<1>1. PICK old \in Object : old = c.obj
  BY ContextParts
<1>2. PICK o \in Object : /\ o = [old EXCEPT !.status = st] /\ o.status = st
                          /\ o.version = old.version /\ o.finalizer = old.finalizer
  BY ObjectStatus
<1>3. PICK u \in BOOLEAN : u = (c.shouldUpdateStatus \/ st # c.obj.status)
  OBVIOUS
<1>4. s = [c EXCEPT !.obj = o, !.shouldUpdateStatus = u]
  BY <1>1, <1>2, <1>3 DEF setStatus
<1>5. /\ s \in Context
      /\ s.pc = c.pc /\ s.p = c.p /\ s.base = c.base /\ s.obj = o
      /\ s.currentOwnedPackages = c.currentOwnedPackages
      /\ s.currentOwnedResources = c.currentOwnedResources
      /\ s.shouldUpdateResource = c.shouldUpdateResource
      /\ s.required = c.required /\ s.requirements = c.requirements
      /\ s.shouldUpdateStatus = u
  BY ONLY c \in Context, o \in Object, u \in BOOLEAN, <1>4 DEF Context
<1> QED
  BY <1>1, <1>2, <1>3, <1>5

(* The same with a next step.                                              *)
LEMMA SetStatusFields ==
  ASSUME NEW c \in Context, NEW st \in Status, NEW step \in Steps
  PROVE  LET s == [setStatus(c, st) EXCEPT !.pc = step]
         IN  /\ s \in Context
             /\ s.pc = step /\ s.p = c.p /\ s.base = c.base
             /\ s.obj \in Object
             /\ s.obj.version = c.obj.version
             /\ s.obj.finalizer = c.obj.finalizer
             /\ s.obj.status = st
             /\ s.currentOwnedPackages = c.currentOwnedPackages
             /\ s.currentOwnedResources = c.currentOwnedResources
             /\ s.shouldUpdateResource <=> c.shouldUpdateResource
             /\ s.required = c.required /\ s.requirements = c.requirements
             /\ ~s.shouldUpdateStatus => st = c.obj.status /\ ~c.shouldUpdateStatus
<1>1. PICK d \in Context : d = setStatus(c, st)
  BY SetStatusContext
<1>2. PICK s \in Context : s = [d EXCEPT !.pc = step]
  BY ContextStep
<1>3. s = [setStatus(c, st) EXCEPT !.pc = step]
  BY <1>1, <1>2
<1>4. /\ s.pc = step /\ s.p = d.p /\ s.base = d.base /\ s.obj = d.obj
      /\ s.currentOwnedPackages = d.currentOwnedPackages
      /\ s.currentOwnedResources = d.currentOwnedResources
      /\ s.shouldUpdateResource = d.shouldUpdateResource
      /\ s.required = d.required /\ s.requirements = d.requirements
      /\ s.shouldUpdateStatus = d.shouldUpdateStatus
  BY <1>2, ContextStep
<1>5. /\ d.pc = c.pc /\ d.p = c.p /\ d.base = c.base
      /\ d.obj \in Object
      /\ d.obj.version = c.obj.version
      /\ d.obj.finalizer = c.obj.finalizer
      /\ d.obj.status = st
      /\ d.currentOwnedPackages = c.currentOwnedPackages
      /\ d.currentOwnedResources = c.currentOwnedResources
      /\ d.shouldUpdateResource = c.shouldUpdateResource
      /\ d.required = c.required /\ d.requirements = c.requirements
      /\ ~d.shouldUpdateStatus => st = c.obj.status /\ ~c.shouldUpdateStatus
  BY <1>1, SetStatusContext
<1>6. /\ s \in Context
      /\ s.pc = step /\ s.p = c.p /\ s.base = c.base
      /\ s.obj \in Object
      /\ s.obj.version = c.obj.version
      /\ s.obj.finalizer = c.obj.finalizer
      /\ s.obj.status = st
      /\ s.currentOwnedPackages = c.currentOwnedPackages
      /\ s.currentOwnedResources = c.currentOwnedResources
      /\ s.shouldUpdateResource <=> c.shouldUpdateResource
      /\ s.required = c.required /\ s.requirements = c.requirements
      /\ ~s.shouldUpdateStatus => st = c.obj.status /\ ~c.shouldUpdateStatus
  BY <1>4, <1>5
<1> QED
  BY <1>3, <1>6, Zenon

(* setStatus without a next step.                                          *)
LEMMA SetStatusKeepsStep ==
  ASSUME NEW c \in Context, NEW st \in Status
  PROVE  LET s == setStatus(c, st)
         IN  /\ s = [s EXCEPT !.pc = c.pc]
             /\ s \in Context
             /\ s.pc = c.pc /\ s.p = c.p /\ s.base = c.base
             /\ s.obj.version = c.obj.version /\ s.obj.status = st
             /\ s.obj.finalizer = c.obj.finalizer
             /\ s.currentOwnedPackages = c.currentOwnedPackages
             /\ s.currentOwnedResources = c.currentOwnedResources
             /\ ~s.shouldUpdateStatus => st = c.obj.status /\ ~c.shouldUpdateStatus
<1> DEFINE s == setStatus(c, st)
<1>1. /\ s \in Context
      /\ s.pc = c.pc /\ s.p = c.p /\ s.base = c.base
      /\ s.obj.version = c.obj.version /\ s.obj.status = st
      /\ s.obj.finalizer = c.obj.finalizer
      /\ s.currentOwnedPackages = c.currentOwnedPackages
      /\ s.currentOwnedResources = c.currentOwnedResources
      /\ ~s.shouldUpdateStatus => st = c.obj.status /\ ~c.shouldUpdateStatus
  BY SetStatusContext
<1> HIDE DEF s
<1>2. s = [s EXCEPT !.pc = c.pc]
  BY <1>1 DEF Context
<1> QED
  BY <1>1, <1>2 DEF s

LEMMA StatusFields ==
  ASSUME NEW c \in Context
  PROVE  /\ c.obj \in Object /\ c.obj.status \in Status
         /\ c.obj.status.ownedInfos \subseteq Infos
         /\ c.obj.status.ownedPackages \subseteq Pkgs
         /\ c.obj.status.ownedResources \subseteq AllResources
         /\ c.currentOwnedPackages \subseteq Pkgs
         /\ c.currentOwnedResources \subseteq AllResources
         /\ setStatus(c, c.obj.status) \in Context
<1>1. PICK o \in Object : o = c.obj
  BY ContextParts
<1>2. PICK st \in Status : st = o.status
  BY DEF Object
<1>3. /\ st.ownedInfos \subseteq Infos /\ st.ownedPackages \subseteq Pkgs
      /\ st.ownedResources \subseteq AllResources
  BY DEF Status
<1>4. setStatus(c, st) \in Context
  BY SetStatusContext
<1> QED
  BY <1>1, <1>2, <1>3, <1>4, ContextParts

(* A reconciliation begins with what the cache holds.                      *)
LEMMA BeginReconcileInv ==
  ASSUME NEW p \in Pkgs, NEW o, ObjectInv(p, o), o.version # None, ~o.suspend, ~o.deleting
  PROVE  ContextInv([context(p, o, "ensurePackageInfo")
                      EXCEPT !.obj.finalizer = TRUE, !.shouldUpdateResource = ~o.finalizer,
                             !.requeue = TRUE])
<1> DEFINE c == [context(p, o, "ensurePackageInfo")
                  EXCEPT !.obj.finalizer = TRUE, !.shouldUpdateResource = ~o.finalizer,
                         !.requeue = TRUE]
<1>1. o \in Object /\ o.version \in Versions
  BY DEF ObjectInv, Object
<1>2. c \in Context
  BY <1>1 DEF context, Context, Steps, Object
<1>3. /\ c.pc = "ensurePackageInfo" /\ c.p = p /\ c.base = o
      /\ c.obj.version = o.version /\ c.obj.status = o.status /\ c.obj.finalizer = TRUE
  BY <1>1 DEF context, Object
<1> HIDE DEF c
<1>4. ContextInv(c)
  BY <1>1, <1>2, <1>3 DEF ContextInv, ObjectInv, Installing
<1> QED
  BY <1>4 DEF c

LEMMA BeginAfterDeletionInv ==
  ASSUME NEW p \in Pkgs, NEW o, ObjectInv(p, o), o.version # None, ~o.suspend, o.deleting
  PROVE  ContextInv(setCondition(context(p, o, "afterDeletion"), "deleting"))
<1> DEFINE c == context(p, o, "afterDeletion")
           st == [o.status EXCEPT !.cond = "deleting"]
           s == [setStatus(c, st) EXCEPT !.pc = "afterDeletion"]
<1>1. o \in Object /\ o.version \in Versions /\ o.status \in Status
  BY DEF ObjectInv, Object
<1>2. c \in Context
  BY <1>1 DEF context, Context, Steps
<1>3. /\ st \in Status
      /\ st.cond = "deleting" /\ st.version = o.status.version
      /\ st.ownedPackages = o.status.ownedPackages /\ st.ownedInfos = o.status.ownedInfos
  BY <1>1 DEF Status, Conditions
<1>4. /\ c.pc = "afterDeletion" /\ c.p = p /\ c.base = o /\ c.obj = o
      /\ c.currentOwnedPackages = {} /\ c.currentOwnedResources = {}
      /\ ~c.shouldUpdateResource /\ ~c.shouldUpdateStatus
  BY DEF context
<1>5. setCondition(c, "deleting") = s
  <2>1. setCondition(c, "deleting") = setStatus(c, st)
    BY <1>4 DEF setCondition
  <2>2. setStatus(c, st) = [setStatus(c, st) EXCEPT !.pc = c.pc]
    BY <1>2, <1>3, SetStatusKeepsStep
  <2> QED
    BY <1>4, <2>1, <2>2
<1> HIDE DEF c, st
<1>a. "afterDeletion" \in Steps
  BY DEF Steps
<1>b. /\ s \in Context
      /\ s.pc = "afterDeletion" /\ s.p = c.p /\ s.base = c.base
      /\ s.obj.version = c.obj.version /\ s.obj.finalizer = c.obj.finalizer
      /\ s.obj.status = st
      /\ s.currentOwnedPackages = c.currentOwnedPackages /\ s.currentOwnedResources = c.currentOwnedResources
      /\ s.shouldUpdateResource <=> c.shouldUpdateResource
      /\ ~s.shouldUpdateStatus => st = c.obj.status /\ ~c.shouldUpdateStatus
  BY <1>2, <1>3, <1>a, SetStatusFields
<1> HIDE DEF s
<1>6. /\ s \in Context
      /\ s.pc = "afterDeletion" /\ s.p = p /\ s.base = o
      /\ s.obj.version = o.version /\ s.obj.finalizer = o.finalizer
      /\ s.obj.status = st
      /\ s.currentOwnedPackages = {} /\ s.currentOwnedResources = {}
      /\ ~s.shouldUpdateResource
      /\ ~s.shouldUpdateStatus => st = o.status
  BY <1>4, <1>b
<1> HIDE DEF s
<1>7. ContextInv(s)
  BY <1>1, <1>3, <1>6 DEF ContextInv, Deleting, Covers
<1> QED
  BY <1>5, <1>7 DEF s, c

(* In a reconciliation of a package that is not being deleted the status   *)
(* may grow, and may be given another condition than "ready".              *)
LEMMA GrowingStatus ==
  ASSUME NEW c, ContextInv(c), c.pc # "idle", ~c.base.deleting,
         NEW st \in Status, NEW step \in Steps \ {"idle", "afterDeletion", "cleanup"},
         st.cond \in {c.obj.status.cond, "failed", "pending", "waiting"},
         st.version = c.obj.status.version,
         c.obj.status.ownedPackages \subseteq st.ownedPackages,
         c.obj.status.ownedInfos \subseteq st.ownedInfos,
         c.obj.status.ownedResources \subseteq st.ownedResources,
         step # "ensurePackageInfo" => PackageInfoName(c.p, c.obj.version) \in st.ownedInfos,
         step = "runAdapters" => c.currentOwnedPackages = Deps[c.p][c.obj.version]
  PROVE  ContextInv([setStatus(c, st) EXCEPT !.pc = step])
<1> DEFINE s == [setStatus(c, st) EXCEPT !.pc = step]
<1>1. c \in Context
  BY DEF ContextInv
<1>2. /\ s \in Context
      /\ s.pc = step /\ s.p = c.p /\ s.base = c.base
      /\ s.obj.version = c.obj.version /\ s.obj.finalizer = c.obj.finalizer
      /\ s.obj.status = st
      /\ s.currentOwnedPackages = c.currentOwnedPackages
      /\ ~s.shouldUpdateStatus => st = c.obj.status /\ ~c.shouldUpdateStatus
  BY <1>1, SetStatusFields
<1> HIDE DEF s
<1>3. Covers(c.p, st)
  BY DEF ContextInv, Covers
<1>4. Installing(s)
  BY <1>2 DEF ContextInv, Installing
<1>5. ContextInv(s)
  BY <1>2, <1>3, <1>4 DEF ContextInv
<1> QED
  BY <1>5 DEF s

(* The status that finalize records.                                       *)
LEMMA FinalizeStatus ==
  ASSUME NEW c \in Context
  PROVE  LET st == [c.obj.status EXCEPT !.ownedResources = @ \cup c.currentOwnedResources,
                                        !.ownedPackages = @ \cup c.currentOwnedPackages]
         IN  /\ st \in Status
             /\ st.cond = c.obj.status.cond /\ st.version = c.obj.status.version
             /\ st.ownedInfos = c.obj.status.ownedInfos
             /\ st.ownedResources = c.obj.status.ownedResources \cup c.currentOwnedResources
             /\ st.ownedPackages = c.obj.status.ownedPackages \cup c.currentOwnedPackages
<1>1. /\ c.obj.status \in Status
      /\ c.currentOwnedPackages \subseteq Pkgs /\ c.currentOwnedResources \subseteq AllResources
  BY StatusFields
<1> QED
  BY <1>1 DEF Status

(* A reconciliation that records its PackageInfo may report any condition  *)
(* but "ready" at any step, finalize and go on to the update.              *)
LEMMA ReportInv ==
  ASSUME NEW c, ContextInv(c), ~c.base.deleting,
         c.pc \in {"ensurePackageInfo", "ensureDependencies", "checkDependencies", "runAdapters"},
         PackageInfoName(c.p, c.obj.version) \in c.obj.status.ownedInfos,
         NEW cond \in {"failed", "pending", "waiting"}
  PROVE  ContextInv(finalize(setCondition(c, cond), "update"))
<1> DEFINE st == [c.obj.status EXCEPT !.cond = cond]
           s == setStatus(c, st)
           t == [setStatus(c, st) EXCEPT !.pc = c.pc]
           st2 == [s.obj.status EXCEPT !.ownedResources = @ \cup s.currentOwnedResources,
                                       !.ownedPackages = @ \cup s.currentOwnedPackages]
<1>1. c \in Context /\ c.obj.status \in Status /\ c.pc \in Steps \ {"idle", "afterDeletion", "cleanup"}
  BY StatusFields DEF ContextInv, Steps
<1>2. /\ st \in Status
      /\ st.cond = cond /\ st.version = c.obj.status.version
      /\ st.ownedPackages = c.obj.status.ownedPackages
      /\ st.ownedInfos = c.obj.status.ownedInfos /\ st.ownedResources = c.obj.status.ownedResources
  BY <1>1 DEF Status, Conditions
<1> HIDE DEF st
<1>3. s = t
  BY <1>1, <1>2, SetStatusKeepsStep
<1>4. /\ t \in Context
      /\ t.pc = c.pc /\ t.p = c.p /\ t.base = c.base
      /\ t.obj.version = c.obj.version
      /\ t.obj.status = st
  BY <1>1, <1>2, SetStatusFields
<1>a. c.pc = "runAdapters" => c.currentOwnedPackages = Deps[c.p][c.obj.version]
  BY <1>1 DEF ContextInv, Installing
<1>b. /\ c.pc # "idle"
      /\ st.cond \in {c.obj.status.cond, "failed", "pending", "waiting"}
      /\ PackageInfoName(c.p, c.obj.version) \in st.ownedInfos
  BY <1>1, <1>2
<1>5. ContextInv(t)
  BY <1>1, <1>2, <1>a, <1>b, GrowingStatus
<1> HIDE DEF s, t
<1>6. /\ st2 \in Status
      /\ st2.cond = s.obj.status.cond /\ st2.version = s.obj.status.version
      /\ st2.ownedInfos = s.obj.status.ownedInfos
      /\ st2.ownedResources = s.obj.status.ownedResources \cup s.currentOwnedResources
      /\ st2.ownedPackages = s.obj.status.ownedPackages \cup s.currentOwnedPackages
  BY <1>3, <1>4, FinalizeStatus
<1> HIDE DEF st2
<1>7. "update" \in Steps \ {"idle", "afterDeletion", "cleanup"}
  BY DEF Steps
<1>c. /\ PackageInfoName(s.p, s.obj.version) \in st2.ownedInfos
      /\ s.pc # "idle" /\ ~s.base.deleting /\ ContextInv(s)
      /\ "update" # "runAdapters"
  BY <1>3, <1>4, <1>5, <1>6, <1>b
<1>8. ContextInv([setStatus(s, st2) EXCEPT !.pc = "update"])
  BY <1>6, <1>7, <1>c, GrowingStatus
<1> QED
  BY <1>8 DEF st, s, st2, setCondition, finalize

(* The context may change in anything but the objects, once the            *)
(* PackageInfo is ensured.                                                 *)
LEMMA SameObject ==
  ASSUME NEW c, ContextInv(c), ~c.base.deleting,
         c.pc \in {"ensureDependencies", "checkDependencies", "runAdapters"},
         NEW s \in Context,
         s.pc \in {"ensureDependencies", "checkDependencies", "runAdapters"},
         s.p = c.p, s.base = c.base, s.obj = c.obj,
         c.shouldUpdateStatus => s.shouldUpdateStatus,
         s.pc = "runAdapters" => s.currentOwnedPackages = Deps[c.p][c.obj.version]
  PROVE  ContextInv(s)
BY DEF ContextInv, Installing

LEMMA NotDeleting ==
  ASSUME NEW c, ContextInv(c), c.pc \notin {"idle", "afterDeletion", "update"}
  PROVE  ~c.base.deleting /\ c.p \in Pkgs /\ c.obj.version \in Versions
BY DEF ContextInv, Deleting

LEMMA EnsurePackageInfoInv ==
  ASSUME NEW c, ContextInv(c), c.pc = "ensurePackageInfo",
         NEW cond \in {"failed", "pending", "waiting"}
  PROVE  LET k == PackageInfoName(c.p, c.obj.version)
             owned == setStatus(c, [c.obj.status EXCEPT !.ownedInfos = @ \cup {k}])
         IN  /\ ContextInv([owned EXCEPT !.pc = "ensureDependencies"])
             /\ ContextInv(finalize(setCondition(owned, cond), "update"))
<1> DEFINE k == PackageInfoName(c.p, c.obj.version)
           st == [c.obj.status EXCEPT !.ownedInfos = @ \cup {k}]
           s == setStatus(c, st)
<1>1. /\ c \in Context /\ ~c.base.deleting /\ c.p \in Pkgs /\ c.obj.version \in Versions
      /\ c.obj.status \in Status
  BY NotDeleting, StatusFields DEF ContextInv
<1>2. k \in Infos
  BY <1>1, InfoNameType
<1> HIDE DEF k
<1>3. /\ st \in Status
      /\ st.cond = c.obj.status.cond /\ st.version = c.obj.status.version
      /\ st.ownedPackages = c.obj.status.ownedPackages
      /\ st.ownedInfos = c.obj.status.ownedInfos \cup {k}
      /\ st.ownedResources = c.obj.status.ownedResources
  BY <1>1, <1>2 DEF Status
<1> HIDE DEF st
<1>4. /\ "ensureDependencies" \in Steps \ {"idle", "afterDeletion", "cleanup"}
      /\ c.pc \in Steps \ {"idle", "afterDeletion", "cleanup"}
      /\ PackageInfoName(c.p, c.obj.version) \in st.ownedInfos
      /\ c.pc # "idle" /\ c.pc # "runAdapters" /\ "ensureDependencies" # "runAdapters"
      /\ st.cond \in {c.obj.status.cond, "failed", "pending", "waiting"}
  BY <1>3 DEF Steps, k
<1>5. ContextInv([setStatus(c, st) EXCEPT !.pc = "ensureDependencies"])
  BY <1>1, <1>3, <1>4, GrowingStatus
<1>6. ContextInv([setStatus(c, st) EXCEPT !.pc = c.pc])
  BY <1>1, <1>3, <1>4, GrowingStatus
<1>7. /\ s = [setStatus(c, st) EXCEPT !.pc = c.pc]
      /\ s.pc = c.pc /\ s.p = c.p /\ s.base = c.base
      /\ s.obj.version = c.obj.version /\ s.obj.status = st
  BY <1>1, <1>3, SetStatusKeepsStep
<1> HIDE DEF s
<1>8. ContextInv(s)
  BY <1>6, <1>7
<1>9. ContextInv(finalize(setCondition(s, cond), "update"))
  BY <1>1, <1>4, <1>7, <1>8, ReportInv
<1> QED
  BY <1>5, <1>9 DEF s, k, st

(* ensureDependencies: what is missing, and the namespace.                 *)
LEMMA EnsureDependenciesInv ==
  ASSUME NEW c, ContextInv(c), c.pc = "ensureDependencies", NEW ds \in SUBSET Pkgs
  PROVE  LET namespace == namespaceFor(c.p, c.obj.version)
         IN  ContextInv([c EXCEPT !.requirements = ds, !.required = Deps[c.p][c.obj.version],
                                  !.currentOwnedResources = namespace,
                                  !.shouldUpdateStatus = @ \/ namespace # {},
                                  !.pc = "checkDependencies"])
<1> DEFINE ns == namespaceFor(c.p, c.obj.version)
           deps == Deps[c.p][c.obj.version]
           s == [c EXCEPT !.requirements = ds, !.required = deps, !.currentOwnedResources = ns,
                          !.shouldUpdateStatus = @ \/ ns # {}, !.pc = "checkDependencies"]
<1>1. c \in Context /\ ~c.base.deleting /\ c.p \in Pkgs /\ c.obj.version \in Versions
  BY NotDeleting DEF ContextInv
<1>2. ns \subseteq AllResources /\ deps \subseteq Pkgs
  BY <1>1, ResourcesType, ConstantsAssumption
<1> HIDE DEF ns, deps
<1>3. /\ s \in Context
      /\ s.pc = "checkDependencies" /\ s.p = c.p /\ s.base = c.base /\ s.obj = c.obj
      /\ c.shouldUpdateStatus => s.shouldUpdateStatus
  BY <1>1, <1>2 DEF Context, Steps
<1> HIDE DEF s
<1>4. ContextInv(s)
  BY <1>1, <1>3, SameObject
<1> QED
  BY <1>4 DEF s, ns, deps

(* One required package is created, or configured.                         *)
LEMMA RequirementInv ==
  ASSUME NEW c, ContextInv(c), c.pc = "checkDependencies",
         NEW d, NEW failed \in BOOLEAN, NEW waiting \in BOOLEAN
  PROVE  /\ ContextInv([c EXCEPT !.requirements = @ \ {d}, !.failed = @ \/ failed])
         /\ ContextInv([c EXCEPT !.required = @ \ {d}, !.failed = @ \/ failed,
                                 !.waiting = @ \/ waiting])
<1> DEFINE s == [c EXCEPT !.requirements = @ \ {d}, !.failed = @ \/ failed]
           t == [c EXCEPT !.required = @ \ {d}, !.failed = @ \/ failed, !.waiting = @ \/ waiting]
<1>1. c \in Context /\ ~c.base.deleting
  BY NotDeleting DEF ContextInv
<1>2. /\ s \in Context /\ s.pc = c.pc /\ s.p = c.p /\ s.base = c.base /\ s.obj = c.obj
      /\ c.shouldUpdateStatus => s.shouldUpdateStatus
  BY <1>1 DEF Context
<1>3. /\ t \in Context /\ t.pc = c.pc /\ t.p = c.p /\ t.base = c.base /\ t.obj = c.obj
      /\ c.shouldUpdateStatus => t.shouldUpdateStatus
  BY <1>1 DEF Context
<1> HIDE DEF s, t
<1>4. ContextInv(s) /\ ContextInv(t)
  BY <1>1, <1>2, <1>3, SameObject
<1> QED
  BY <1>4 DEF s, t

(* The end of ensureDependencies, and a call in it that fails.             *)
LEMMA CheckDependenciesInv ==
  ASSUME NEW c, ContextInv(c), c.pc \in {"ensureDependencies", "checkDependencies", "runAdapters"},
         NEW cond \in {"failed", "waiting"}
  PROVE  /\ ContextInv(finalize(setCondition(c, cond), "update"))
         /\ ContextInv([c EXCEPT !.currentOwnedPackages = Deps[c.p][c.obj.version],
                                 !.pc = "runAdapters"])
<1> DEFINE deps == Deps[c.p][c.obj.version]
           s == [c EXCEPT !.currentOwnedPackages = deps, !.pc = "runAdapters"]
<1>1. /\ c \in Context /\ ~c.base.deleting /\ c.p \in Pkgs /\ c.obj.version \in Versions
      /\ PackageInfoName(c.p, c.obj.version) \in c.obj.status.ownedInfos
  BY NotDeleting DEF ContextInv, Installing
<1>2. deps \subseteq Pkgs
  BY <1>1, ConstantsAssumption
<1> HIDE DEF deps
<1>3. /\ s \in Context
      /\ s.pc = "runAdapters" /\ s.p = c.p /\ s.base = c.base /\ s.obj = c.obj
      /\ c.shouldUpdateStatus => s.shouldUpdateStatus
      /\ s.currentOwnedPackages = deps
  BY <1>1, <1>2 DEF Context, Steps
<1> HIDE DEF s
<1>4. ContextInv(s)
  BY <1>1, <1>3, SameObject DEF deps
<1>5. ContextInv(finalize(setCondition(c, cond), "update"))
  BY <1>1, ReportInv
<1> QED
  BY <1>4, <1>5 DEF s, deps

(* Resources that are applied are added to currentOwnedResources.          *)
LEMMA AppliedFields ==
  ASSUME NEW c \in Context, NEW rs \in SUBSET AllResources
  PROVE  LET s == [c EXCEPT !.currentOwnedResources = @ \cup rs]
         IN  /\ s \in Context
             /\ s.pc = c.pc /\ s.p = c.p /\ s.base = c.base /\ s.obj = c.obj
             /\ s.currentOwnedPackages = c.currentOwnedPackages
             /\ s.currentOwnedResources = c.currentOwnedResources \cup rs
             /\ s.shouldUpdateStatus <=> c.shouldUpdateStatus
BY DEF Context

(* A successful run of the adapters: the package is ready in its version.  *)
LEMMA RunAdaptersInv ==
  ASSUME NEW c, ContextInv(c), c.pc = "runAdapters"
  PROVE  LET applied == [c EXCEPT !.currentOwnedResources = @ \cup resourcesOf(c.p, c.obj.version)]
             ready == setStatus(applied, [c.obj.status EXCEPT !.cond = "ready",
                                                              !.version = c.obj.version])
         IN  ContextInv(finalize(ready, "cleanup"))
<1> DEFINE v == c.obj.version
           rs == resourcesOf(c.p, v)
           a == [c EXCEPT !.currentOwnedResources = @ \cup rs]
           st == [c.obj.status EXCEPT !.cond = "ready", !.version = v]
           r == setStatus(a, st)
           st2 == [r.obj.status EXCEPT !.ownedResources = @ \cup r.currentOwnedResources,
                                       !.ownedPackages = @ \cup r.currentOwnedPackages]
           s == [setStatus(r, st2) EXCEPT !.pc = "cleanup"]
<1>1. /\ c \in Context /\ ~c.base.deleting /\ c.p \in Pkgs /\ v \in Versions
      /\ c.obj.status \in Status
  BY NotDeleting, StatusFields DEF ContextInv
<1>2. rs \subseteq AllResources
  BY <1>1, ResourcesType
<1> HIDE DEF v, rs
<1>3. /\ st \in Status
      /\ st.cond = "ready" /\ st.version = v
      /\ st.ownedInfos = c.obj.status.ownedInfos
  BY <1>1 DEF Status, Conditions
<1>4. /\ a \in Context
      /\ a.p = c.p /\ a.base = c.base /\ a.obj = c.obj
      /\ a.currentOwnedPackages = c.currentOwnedPackages
      /\ a.currentOwnedResources = c.currentOwnedResources \cup rs
      /\ a.shouldUpdateStatus <=> c.shouldUpdateStatus
  BY <1>1, <1>2, AppliedFields
<1> HIDE DEF a, st
<1>5. /\ r \in Context
      /\ r.p = a.p /\ r.base = a.base
      /\ r.obj.version = a.obj.version /\ r.obj.status = st
      /\ r.obj.finalizer = a.obj.finalizer
      /\ r.currentOwnedPackages = a.currentOwnedPackages
      /\ r.currentOwnedResources = a.currentOwnedResources
      /\ ~r.shouldUpdateStatus => st = a.obj.status /\ ~a.shouldUpdateStatus
  BY <1>3, <1>4, SetStatusKeepsStep
<1> HIDE DEF r
<1>6. /\ st2 \in Status
      /\ st2.cond = r.obj.status.cond /\ st2.version = r.obj.status.version
      /\ st2.ownedInfos = r.obj.status.ownedInfos
      /\ st2.ownedResources = r.obj.status.ownedResources \cup r.currentOwnedResources
      /\ st2.ownedPackages = r.obj.status.ownedPackages \cup r.currentOwnedPackages
  BY <1>5, FinalizeStatus
<1> HIDE DEF st2
<1>7. "cleanup" \in Steps
  BY DEF Steps
<1>8. /\ s \in Context
      /\ s.pc = "cleanup" /\ s.p = r.p /\ s.base = r.base
      /\ s.obj.version = r.obj.version
      /\ s.obj.finalizer = r.obj.finalizer
      /\ s.obj.status = st2
      /\ s.currentOwnedPackages = r.currentOwnedPackages
      /\ s.currentOwnedResources = r.currentOwnedResources
      /\ ~s.shouldUpdateStatus => st2 = r.obj.status /\ ~r.shouldUpdateStatus
  BY <1>5, <1>6, <1>7, SetStatusFields
<1> HIDE DEF s
<1>9. /\ s.p = c.p /\ s.base = c.base /\ s.obj.version = v /\ s.obj.finalizer = c.obj.finalizer
      /\ s.obj.status = st2
      /\ s.currentOwnedPackages = c.currentOwnedPackages
      /\ rs \subseteq s.currentOwnedResources
      /\ ~s.shouldUpdateStatus => st2 = c.obj.status /\ ~c.shouldUpdateStatus
      /\ st2.cond = "ready" /\ st2.version = v
      /\ st2.ownedInfos = c.obj.status.ownedInfos
      /\ rs \subseteq st2.ownedResources
      /\ c.currentOwnedPackages \subseteq st2.ownedPackages
  BY <1>3, <1>4, <1>5, <1>6, <1>8 DEF v
<1>a. /\ c.obj.finalizer /\ PackageInfoName(c.p, v) \in c.obj.status.ownedInfos
      /\ c.currentOwnedPackages = Deps[c.p][v]
      /\ ObjectInv(c.p, c.base) /\ v = c.base.version /\ ~c.base.suspend
      /\ ~c.shouldUpdateStatus => c.obj.status = c.base.status
  BY <1>1 DEF ContextInv, Installing, v
<1>b. Covers(c.p, st2)
  BY <1>1, <1>9, <1>a DEF Covers, rs
<1>c. Installing(s)
  BY <1>8, <1>9, <1>a DEF Installing, rs
<1>d. ContextInv(s)
  BY <1>1, <1>8, <1>9, <1>a, <1>b, <1>c DEF ContextInv
<1> QED
  BY <1>d DEF s, st2, r, st, a, rs, v, finalize

(* A failed run of the adapters, which may have reported its resources.    *)
LEMMA AdaptersNotReadyInv ==
  ASSUME NEW c, ContextInv(c), c.pc = "runAdapters",
         NEW reported \in BOOLEAN, NEW cond \in {"failed", "waiting"}
  PROVE  LET all == resourcesOf(c.p, c.obj.version)
             c1 == [c EXCEPT !.currentOwnedResources = IF reported THEN @ \cup all ELSE @]
         IN  ContextInv(finalize(setCondition(c1, cond), "update"))
<1> DEFINE all == resourcesOf(c.p, c.obj.version)
           c1 == [c EXCEPT !.currentOwnedResources = IF reported THEN @ \cup all ELSE @]
<1>1. /\ c \in Context /\ ~c.base.deleting /\ c.p \in Pkgs /\ c.obj.version \in Versions
      /\ c.currentOwnedPackages = Deps[c.p][c.obj.version]
  BY NotDeleting DEF ContextInv, Installing
<1>2. all \subseteq AllResources
  BY <1>1, ResourcesType
<1> HIDE DEF all
<1>3. /\ c1 \in Context /\ c1.pc = c.pc /\ c1.p = c.p /\ c1.base = c.base /\ c1.obj = c.obj
      /\ c1.currentOwnedPackages = c.currentOwnedPackages
      /\ c.shouldUpdateStatus => c1.shouldUpdateStatus
  BY <1>1, <1>2 DEF Context
<1> HIDE DEF c1
<1>4. ContextInv(c1) /\ c1.pc = "runAdapters"
  BY <1>1, <1>3, SameObject
<1>5. ContextInv(finalize(setCondition(c1, cond), "update"))
  BY <1>4, CheckDependenciesInv
<1> QED
  BY <1>5 DEF c1, all

(* The status after the cleanup: what was pruned is no longer recorded.    *)
CleanedStatus(c, gone, infos, packages, failed, refused) ==
  [c.obj.status EXCEPT
     !.ownedResources = @ \ gone,
     !.ownedInfos = IF infos THEN @ \ staleInfos(c, FALSE) ELSE @,
     !.ownedPackages = IF packages THEN @ \ (stalePackages(c, FALSE) \ refused) ELSE @,
     !.cond = IF failed THEN "failed" ELSE @]

(* The cleanup drops references to what is no longer used: never to the    *)
(* PackageInfo, the packages and the resources of the installed version.   *)
LEMMA CleanupInv ==
  ASSUME NEW c, ContextInv(c), c.pc = "cleanup",
         NEW gone \in SUBSET staleResources(c), NEW infos \in BOOLEAN, NEW packages \in BOOLEAN,
         NEW failed \in BOOLEAN, NEW refused
  PROVE  ContextInv([setStatus(c, CleanedStatus(c, gone, infos, packages, failed, refused))
                       EXCEPT !.pc = "update"])
<1> DEFINE ost == c.obj.status
           dropped == IF infos THEN staleInfos(c, FALSE) ELSE {}
           left == IF packages THEN stalePackages(c, FALSE) \ refused ELSE {}
           st == [ost EXCEPT !.ownedResources = @ \ gone,
                    !.ownedInfos = IF infos THEN @ \ staleInfos(c, FALSE) ELSE @,
                    !.ownedPackages = IF packages THEN @ \ (stalePackages(c, FALSE) \ refused) ELSE @,
                    !.cond = IF failed THEN "failed" ELSE @]
           s == [setStatus(c, st) EXCEPT !.pc = "update"]
           v == c.obj.version
<1>1. /\ c \in Context /\ ~c.base.deleting /\ c.p \in Pkgs /\ v \in Versions /\ ost \in Status
  BY NotDeleting, StatusFields DEF ContextInv
<1>2. /\ Installing(c) /\ Covers(c.p, ost) /\ ost.cond = "ready" /\ ost.version = v
      /\ PackageInfoName(c.p, v) \in ost.ownedInfos
      /\ c.currentOwnedPackages = Deps[c.p][v]
      /\ resourcesOf(c.p, v) \subseteq c.currentOwnedResources
  BY <1>1 DEF ContextInv, Installing
<1>3. /\ Deps[c.p][v] \subseteq ost.ownedPackages /\ resourcesOf(c.p, v) \subseteq ost.ownedResources
  BY <1>2 DEF Covers
<1>4. /\ PackageInfoName(c.p, v) \notin dropped
      /\ left \cap Deps[c.p][v] = {}
      /\ gone \cap resourcesOf(c.p, v) = {}
  BY <1>2 DEF staleInfos, stalePackages, staleResources
<1> HIDE DEF ost, v
<1>5. /\ st \in Status
      /\ st.cond \in {ost.cond, "failed"} /\ st.version = ost.version
      /\ st.ownedInfos = ost.ownedInfos \ dropped
      /\ st.ownedPackages = ost.ownedPackages \ left
      /\ st.ownedResources = ost.ownedResources \ gone
  BY <1>1 DEF Status, Conditions
<1> HIDE DEF st, dropped, left
<1>6. "update" \in Steps
  BY DEF Steps
<1>7. /\ s \in Context
      /\ s.pc = "update" /\ s.p = c.p /\ s.base = c.base
      /\ s.obj.version = c.obj.version
      /\ s.obj.finalizer = c.obj.finalizer
      /\ s.obj.status = st
      /\ ~s.shouldUpdateStatus => st = c.obj.status /\ ~c.shouldUpdateStatus
  BY <1>1, <1>5, <1>6, SetStatusFields
<1> HIDE DEF s
<1>8. Covers(c.p, st) /\ PackageInfoName(c.p, v) \in st.ownedInfos
  BY <1>1, <1>2, <1>3, <1>4, <1>5 DEF Covers
<1>9. Installing(s)
  BY <1>2, <1>7, <1>8 DEF Installing, v
<1>a. s.obj.status.version = c.obj.status.version
  BY <1>5, <1>7 DEF ost
<1>b. ContextInv(s)
  BY <1>1, <1>7, <1>8, <1>9, <1>a DEF ContextInv
<1> QED
  BY <1>b DEF s, st, ost, CleanedStatus

(* After the deletion: what is recorded is given up, first the packages,   *)
(* then the PackageInfos, and last the finalizer.                          *)
LEMMA GiveUpInv ==
  ASSUME NEW c, ContextInv(c), c.pc = "afterDeletion", c.base.finalizer,
         NEW ps \in SUBSET c.obj.status.ownedPackages, NEW requeue \in BOOLEAN
  PROVE  /\ ContextInv([setStatus(c, [c.obj.status EXCEPT !.ownedPackages = ps])
                        EXCEPT !.pc = "update", !.requeue = requeue])
         /\ ContextInv([setStatus(c, [c.obj.status EXCEPT !.ownedInfos = {}])
                        EXCEPT !.pc = "update"])
<1> DEFINE ost == c.obj.status
           st1 == [ost EXCEPT !.ownedPackages = ps]
           st2 == [ost EXCEPT !.ownedInfos = {}]
           s1 == [setStatus(c, st1) EXCEPT !.pc = "update"]
           s2 == [setStatus(c, st2) EXCEPT !.pc = "update"]
           t == [setStatus(c, st1) EXCEPT !.pc = "update", !.requeue = requeue]
<1>1. /\ c \in Context /\ ost \in Status /\ c.base.deleting /\ Deleting(c)
  BY StatusFields DEF ContextInv, Installing
<1> HIDE DEF ost
<1>2. /\ st1 \in Status
      /\ st1.cond = ost.cond /\ st1.version = ost.version
      /\ st1.ownedInfos = ost.ownedInfos /\ st1.ownedPackages = ps
  BY <1>1 DEF Status, ost
<1>3. /\ st2 \in Status
      /\ st2.cond = ost.cond /\ st2.version = ost.version
      /\ st2.ownedInfos = {} /\ st2.ownedPackages = ost.ownedPackages
  BY <1>1 DEF Status
<1> HIDE DEF st1, st2
<1>4. "update" \in Steps
  BY DEF Steps
<1>5. /\ s1 \in Context
      /\ s1.pc = "update" /\ s1.p = c.p /\ s1.base = c.base
      /\ s1.obj.version = c.obj.version
      /\ s1.obj.finalizer = c.obj.finalizer
      /\ s1.obj.status = st1
      /\ s1.currentOwnedPackages = c.currentOwnedPackages
      /\ s1.currentOwnedResources = c.currentOwnedResources
      /\ s1.shouldUpdateResource <=> c.shouldUpdateResource
      /\ ~s1.shouldUpdateStatus => st1 = c.obj.status /\ ~c.shouldUpdateStatus
  BY <1>1, <1>2, <1>4, SetStatusFields
<1>6. /\ s2 \in Context
      /\ s2.pc = "update" /\ s2.p = c.p /\ s2.base = c.base
      /\ s2.obj.version = c.obj.version
      /\ s2.obj.finalizer = c.obj.finalizer
      /\ s2.obj.status = st2
      /\ s2.currentOwnedPackages = c.currentOwnedPackages
      /\ s2.currentOwnedResources = c.currentOwnedResources
      /\ s2.shouldUpdateResource <=> c.shouldUpdateResource
      /\ ~s2.shouldUpdateStatus => st2 = c.obj.status /\ ~c.shouldUpdateStatus
  BY <1>1, <1>3, <1>4, SetStatusFields
<1> HIDE DEF s1, s2
<1>7. ContextInv(s2)
  BY <1>1, <1>3, <1>6 DEF ContextInv, Deleting, Covers, ost
<1>8. t = [s1 EXCEPT !.requeue = requeue]
  <2> DEFINE u == setStatus(c, st1)
  <2>1. u \in Context
    BY <1>1, <1>2, SetStatusKeepsStep
  <2> HIDE DEF u
  <2>2. [u EXCEPT !.pc = "update", !.requeue = requeue]
           = [[u EXCEPT !.pc = "update"] EXCEPT !.requeue = requeue]
    BY <2>1 DEF Context
  <2> QED
    BY <2>2 DEF u, s1
<1> HIDE DEF t
<1>9. /\ t \in Context
      /\ t.pc = "update" /\ t.p = s1.p /\ t.base = s1.base /\ t.obj = s1.obj
      /\ t.currentOwnedPackages = s1.currentOwnedPackages
      /\ t.currentOwnedResources = s1.currentOwnedResources
      /\ t.shouldUpdateResource <=> s1.shouldUpdateResource
      /\ t.shouldUpdateStatus <=> s1.shouldUpdateStatus
  BY <1>5, <1>8 DEF Context
<1>a. ContextInv(s1)
  BY <1>1, <1>2, <1>5 DEF ContextInv, Deleting, Covers, ost
<1>b. ContextInv(t)
  <2>1. s1.pc # "idle" /\ s1.base.deleting /\ t.pc # "idle" /\ t.base.deleting
    BY <1>1, <1>5, <1>9
  <2>2. Deleting(s1)
    BY <1>a, <2>1 DEF ContextInv
  <2>3. Deleting(t)
    BY <1>5, <1>9, <2>2 DEF Deleting
  <2> QED
    BY <1>9, <1>a, <2>1, <2>3 DEF ContextInv
<1> QED
  BY <1>7, <1>b DEF t, s2, st1, st2, ost

(* A package whose finalizer is gone already is only reported.             *)
LEMMA NothingLeftInv ==
  ASSUME NEW c, ContextInv(c), c.pc = "afterDeletion"
  PROVE  ContextInv(finalize(c, "update"))
<1> DEFINE st == [c.obj.status EXCEPT !.ownedResources = @ \cup c.currentOwnedResources,
                                      !.ownedPackages = @ \cup c.currentOwnedPackages]
           s == [setStatus(c, st) EXCEPT !.pc = "update"]
<1>1. /\ c \in Context /\ c.base.deleting /\ Deleting(c)
  BY DEF ContextInv, Installing
<1>2. /\ st \in Status
      /\ st.cond = c.obj.status.cond /\ st.version = c.obj.status.version
      /\ st.ownedInfos = c.obj.status.ownedInfos
      /\ st.ownedPackages = c.obj.status.ownedPackages \cup c.currentOwnedPackages
  BY <1>1, FinalizeStatus
<1> HIDE DEF st
<1>3. "update" \in Steps
  BY DEF Steps
<1>4. /\ s \in Context
      /\ s.pc = "update" /\ s.p = c.p /\ s.base = c.base
      /\ s.obj.version = c.obj.version
      /\ s.obj.finalizer = c.obj.finalizer
      /\ s.obj.status = st
      /\ s.currentOwnedPackages = c.currentOwnedPackages
      /\ s.currentOwnedResources = c.currentOwnedResources
      /\ s.shouldUpdateResource <=> c.shouldUpdateResource
      /\ ~s.shouldUpdateStatus => st = c.obj.status /\ ~c.shouldUpdateStatus
  BY <1>1, <1>2, <1>3, SetStatusFields
<1> HIDE DEF s
<1>5. st.ownedPackages = c.obj.status.ownedPackages
  BY <1>1, <1>2 DEF Deleting
<1>6. ContextInv(s)
  BY <1>1, <1>2, <1>4, <1>5 DEF ContextInv, Deleting, Covers
<1> QED
  BY <1>6 DEF s, st, finalize

(* The finalizer is taken off once nothing is recorded; a call that fails  *)
(* ends the reconciliation early.                                          *)
LEMMA LetGoInv ==
  ASSUME NEW c, ContextInv(c), c.pc = "afterDeletion"
  PROVE  /\ c.obj.status.ownedPackages = {} /\ c.obj.status.ownedInfos = {} =>
              ContextInv([c EXCEPT !.obj.finalizer = FALSE, !.shouldUpdateResource = TRUE,
                                   !.pc = "update"])
         /\ ContextInv([c EXCEPT !.pc = "update", !.requeue = TRUE])
<1> DEFINE s == [c EXCEPT !.obj.finalizer = FALSE, !.shouldUpdateResource = TRUE, !.pc = "update"]
           t == [c EXCEPT !.pc = "update", !.requeue = TRUE]
<1>1. /\ c \in Context /\ c.base.deleting /\ Deleting(c)
  BY DEF ContextInv, Installing
<1>2. /\ s \in Context
      /\ s.pc = "update" /\ s.p = c.p /\ s.base = c.base
      /\ s.obj.version = c.obj.version
      /\ ~s.obj.finalizer
      /\ s.obj.status = c.obj.status
      /\ s.currentOwnedPackages = c.currentOwnedPackages
      /\ s.currentOwnedResources = c.currentOwnedResources
      /\ s.shouldUpdateResource
      /\ s.shouldUpdateStatus <=> c.shouldUpdateStatus
  <2>1. PICK old \in Object : old = c.obj
    BY <1>1, ContextParts
  <2>2. PICK o \in Object : /\ o = [old EXCEPT !.finalizer = FALSE] /\ o.status = old.status
                            /\ o.version = old.version /\ ~o.finalizer
    BY ObjectReleased
  <2>3. s = [c EXCEPT !.obj = o, !.shouldUpdateResource = TRUE, !.pc = "update"]
    BY <2>1, <2>2
  <2>4. /\ s \in Context
        /\ s.pc = "update" /\ s.p = c.p /\ s.base = c.base /\ s.obj = o
        /\ s.currentOwnedPackages = c.currentOwnedPackages
        /\ s.currentOwnedResources = c.currentOwnedResources
        /\ s.shouldUpdateResource
        /\ s.shouldUpdateStatus <=> c.shouldUpdateStatus
    <3> HIDE DEF s
    <3> QED
      BY ONLY <1>1, <2>3, o \in Object DEF Context, Steps
  <2> HIDE DEF s
  <2> QED
    BY <2>1, <2>2, <2>4
<1>3. /\ t \in Context
      /\ t.pc = "update" /\ t.p = c.p /\ t.base = c.base /\ t.obj = c.obj
      /\ t.currentOwnedPackages = c.currentOwnedPackages
      /\ t.currentOwnedResources = c.currentOwnedResources
      /\ t.shouldUpdateResource <=> c.shouldUpdateResource
      /\ t.shouldUpdateStatus <=> c.shouldUpdateStatus
  BY <1>1 DEF Context, Steps
<1> HIDE DEF s, t
<1>4. ASSUME c.obj.status.ownedPackages = {}, c.obj.status.ownedInfos = {} PROVE Deleting(s)
  BY <1>1, <1>2, <1>4 DEF Deleting
<1>5. Deleting(t)
  BY <1>1, <1>3 DEF Deleting
<1>6. c.obj.status.ownedPackages = {} /\ c.obj.status.ownedInfos = {} => ContextInv(s)
  BY <1>1, <1>2, <1>4 DEF ContextInv
<1>7. ContextInv(t)
  BY <1>1, <1>3, <1>5 DEF ContextInv
<1> QED
  BY <1>6, <1>7 DEF s, t

-----------------------------------------------------------------------------
(* Changes of stored objects.                                              *)

(* The deletion, the values, the version and the suspension of a package   *)
(* that exists change nothing the invariant says of it.                    *)
LEMMA SpecChanges ==
  ASSUME NEW p \in Pkgs, NEW o, ObjectInv(p, o), o.version # None,
         NEW v \in Versions, NEW x \in Values
  PROVE  /\ ObjectInv(p, [o EXCEPT !.deleting = TRUE])
         /\ ObjectInv(p, [o EXCEPT !.values = x])
         /\ ObjectInv(p, [o EXCEPT !.version = v])
         /\ ObjectInv(p, [o EXCEPT !.suspend = ~@])
         /\ ObjectInv(p, [o EXCEPT !.version = v, !.values = x])
<1>1. o \in Object /\ Covers(p, o.status) /\ v # None
  BY ConstantsAssumption DEF ObjectInv
<1>2. /\ [o EXCEPT !.deleting = TRUE] \in Object
      /\ [o EXCEPT !.deleting = TRUE].version = o.version
      /\ [o EXCEPT !.deleting = TRUE].status = o.status
  BY <1>1 DEF Object
<1>3. /\ [o EXCEPT !.values = x] \in Object
      /\ [o EXCEPT !.values = x].version = o.version
      /\ [o EXCEPT !.values = x].status = o.status
  BY <1>1 DEF Object
<1>4. /\ [o EXCEPT !.version = v] \in Object
      /\ [o EXCEPT !.version = v].version = v
      /\ [o EXCEPT !.version = v].status = o.status
  BY <1>1 DEF Object
<1>5. /\ [o EXCEPT !.suspend = ~@] \in Object
      /\ [o EXCEPT !.suspend = ~@].version = o.version
      /\ [o EXCEPT !.suspend = ~@].status = o.status
  BY <1>1 DEF Object
<1>6. /\ [o EXCEPT !.version = v, !.values = x] \in Object
      /\ [o EXCEPT !.version = v, !.values = x].version = v
      /\ [o EXCEPT !.version = v, !.values = x].status = o.status
  BY <1>1 DEF Object
<1> QED
  BY <1>1, <1>2, <1>3, <1>4, <1>5, <1>6 DEF ObjectInv

LEMMA OneObject ==
  ASSUME NEW objects, ObjectsInv(objects), NEW p \in Pkgs, NEW o, ObjectInv(p, o)
  PROVE  ObjectsInv([objects EXCEPT ![p] = o])
BY DEF ObjectsInv, ObjectInv

LEMMA DeletePackagesInv ==
  ASSUME ObjectsInv(pkg), NEW ds
  PROVE  ObjectsInv(deletePackages(ds))
<1> DEFINE objects == deletePackages(ds)
<1>1. ASSUME NEW p \in Pkgs PROVE ObjectInv(p, objects[p])
  <2>1. ObjectInv(p, pkg[p])
    BY DEF ObjectsInv
  <2>2. pkg[p].version # None => ObjectInv(p, [pkg[p] EXCEPT !.deleting = TRUE])
    BY <2>1, SpecChanges, ConstantsAssumption
  <2>3. objects[p] = IF p \in ds /\ pkg[p].version # None
                     THEN [pkg[p] EXCEPT !.deleting = TRUE] ELSE pkg[p]
    BY DEF deletePackages
  <2> QED
    BY <2>1, <2>2, <2>3
<1>2. objects = [x \in Pkgs |-> objects[x]]
  BY DEF deletePackages
<1> HIDE DEF objects
<1>3. objects \in [Pkgs -> Object]
  BY <1>1, <1>2 DEF ObjectInv
<1> QED
  BY <1>1, <1>3 DEF ObjectsInv, objects

LEMMA WithoutNamespacesInv ==
  ASSUME NEW objects, ObjectsInv(objects), NEW gone
  PROVE  ObjectsInv(withoutNamespaces(objects, gone))
<1> DEFINE after == withoutNamespaces(objects, gone)
<1>1. ASSUME NEW p \in Pkgs PROVE ObjectInv(p, after[p])
  <2>1. ObjectInv(p, objects[p])
    BY DEF ObjectsInv
  <2>2. objects[p].version # None => ObjectInv(p, [objects[p] EXCEPT !.deleting = TRUE])
    BY <2>1, SpecChanges, ConstantsAssumption
  <2>3. \/ after[p] = objects[p]
        \/ objects[p].version # None /\ after[p] = [objects[p] EXCEPT !.deleting = TRUE]
    BY DEF withoutNamespaces
  <2> QED
    BY <2>1, <2>2, <2>3
<1>2. after = [x \in Pkgs |-> after[x]]
  BY DEF withoutNamespaces
<1> HIDE DEF after
<1>3. after \in [Pkgs -> Object]
  BY <1>1, <1>2 DEF ObjectInv
<1> QED
  BY <1>1, <1>3 DEF ObjectsInv, after

(* The write at the end of a reconciliation.                               *)
LEMMA UpdatedInv ==
  ASSUME NEW c, ContextInv(c), c.pc = "update", ObjectsInv(pkg), pkg[c.p] = c.base
  PROVE  ObjectInv(c.p, updated(c))
<1>1. /\ c \in Context /\ c.p \in Pkgs /\ c.base.version \in Versions
      /\ Covers(c.p, c.obj.status) /\ ObjectInv(c.p, c.base) /\ c.base \in Object
      /\ c.obj.status \in Status /\ c.obj.finalizer \in BOOLEAN /\ c.base.version # None
  BY ConstantsAssumption, StatusFields DEF ContextInv, ObjectInv, Context, Object
<1>2. /\ [c.base EXCEPT !.status = c.obj.status] \in Object
      /\ [c.base EXCEPT !.status = c.obj.status].version = c.base.version
      /\ [c.base EXCEPT !.status = c.obj.status].status = c.obj.status
  BY <1>1 DEF Object
<1>3. /\ [c.base EXCEPT !.finalizer = c.obj.finalizer] \in Object
      /\ [c.base EXCEPT !.finalizer = c.obj.finalizer].version = c.base.version
      /\ [c.base EXCEPT !.finalizer = c.obj.finalizer].status = c.base.status
  BY <1>1 DEF Object
<1>4. ObjectInv(c.p, [c.base EXCEPT !.status = c.obj.status])
  BY <1>1, <1>2 DEF ObjectInv
<1>5. ObjectInv(c.p, [c.base EXCEPT !.finalizer = c.obj.finalizer])
  BY <1>1, <1>3 DEF ObjectInv
<1> QED
  BY <1>1, <1>4, <1>5 DEF updated

-----------------------------------------------------------------------------
(* The steps.                                                              *)

LEMMA InitInv == Init => Inv
<1> SUFFICES ASSUME Init PROVE Inv
  OBVIOUS
<1>1. ObjectsInv(pkg) /\ ObjectsInv(cache)
  <2>1. \A p \in Pkgs : ObjectInv(p, absent)
    BY AbsentInv
  <2> QED
    BY <2>1 DEF Init, ObjectsInv, ObjectInv
<1>2. ContextsInv(ctx)
  BY IdleInv DEF Init, ContextsInv, ContextInv
<1>3. RestOK
  BY ConstantsAssumption DEF Init, RestOK, InfoStates
<1> QED
  BY <1>1, <1>2, <1>3 DEF Inv

LEMMA OneContext ==
  ASSUME ContextsInv(ctx), NEW w \in Controllers, NEW c, ContextInv(c), Set(w, c)
  PROVE  ContextsInv(ctx')
BY DEF ContextsInv, ContextInv, Set

LEMMA FaultsType ==
  ASSUME RestOK, faults < MaxFaults, faults' = faults + 1
  PROVE  faults' \in 0..MaxFaults
BY ConstantsAssumption DEF RestOK

(* What the invariant says of the context of one controller.               *)
LEMMA ContextFacts ==
  ASSUME Inv, NEW w \in Controllers
  PROVE  /\ ContextInv(ctx[w])
         /\ ctx[w].pc # "idle" => ctx[w].p \in Pkgs /\ ctx[w].obj.version \in Versions
BY DEF Inv, ContextsInv, ContextInv

LEMMA BeginStep ==
  ASSUME Inv, NEW w \in Controllers, NEW p \in Pkgs, Start(w, p)
  PROVE  Inv'
<1>1. /\ ObjectsInv(pkg') /\ ObjectsInv(cache') /\ RestOK'
      /\ ObjectInv(p, cache[p])
  BY DEF Inv, Start, SkipReconcile, BeginReconcile, BeginAfterDeletion, Begin, RestOK, ObjectsInv
<1>2. ContextsInv(ctx')
  <2>1. CASE SkipReconcile(w, p)
    BY <2>1 DEF SkipReconcile, Inv
  <2>2. CASE BeginReconcile(w, p)
    BY <1>1, <2>2, BeginReconcileInv, OneContext DEF BeginReconcile, Inv
  <2>3. CASE BeginAfterDeletion(w, p)
    BY <1>1, <2>3, BeginAfterDeletionInv, OneContext DEF BeginAfterDeletion, Inv
  <2> QED
    BY <2>1, <2>2, <2>3 DEF Start
<1> QED
  BY <1>1, <1>2 DEF Inv

LEMMA EnsurePackageInfoStep ==
  ASSUME Inv, NEW w \in Controllers, EnsurePackageInfo(w)
  PROVE  Inv'
<1> DEFINE c == ctx[w]
           k == PackageInfoName(c.p, c.obj.version)
           owned == setStatus(c, [c.obj.status EXCEPT !.ownedInfos = @ \cup {k}])
<1>1. ContextInv(c) /\ c.pc = "ensurePackageInfo" /\ k \in Infos
  BY ContextFacts, InfoNameType DEF EnsurePackageInfo, At
<1>2. /\ pkg' = pkg /\ cache' = cache /\ deployed' = deployed /\ queue' = queue
      /\ requests' = requests /\ faults' = faults
      /\ info' = IF info[k] = "absent" THEN [info EXCEPT ![k] = "unknown"] ELSE info
      /\ Set(w, CASE info[k] = "ready"  -> [owned EXCEPT !.pc = "ensureDependencies"]
                  [] info[k] = "failed" -> finalize(setCondition(owned, "failed"), "update")
                  [] OTHER              -> finalize(setCondition(owned, "pending"), "update"))
  BY DEF EnsurePackageInfo
<1>3. /\ ContextInv([owned EXCEPT !.pc = "ensureDependencies"])
      /\ ContextInv(finalize(setCondition(owned, "failed"), "update"))
      /\ ContextInv(finalize(setCondition(owned, "pending"), "update"))
  BY <1>1, EnsurePackageInfoInv
<1> HIDE DEF c, k, owned
<1>4. ContextsInv(ctx')
  BY <1>2, <1>3, OneContext DEF Inv
<1>5. ObjectsInv(pkg') /\ ObjectsInv(cache') /\ RestOK'
  BY <1>1, <1>2 DEF Inv, RestOK, InfoStates
<1> QED
  BY <1>4, <1>5 DEF Inv

LEMMA EnsureDependenciesStep ==
  ASSUME Inv, NEW w \in Controllers, EnsureDependencies(w)
  PROVE  Inv'
<1> DEFINE c == ctx[w]
           ds == Deps[c.p][c.obj.version] \ Installed(cache)
           ns == namespaceFor(c.p, c.obj.version)
<1>1. /\ ContextInv(c) /\ c.pc = "ensureDependencies" /\ c.p \in Pkgs /\ c.obj.version \in Versions
  BY ContextFacts DEF EnsureDependencies, At
<1>2. ns \subseteq AllResources /\ ds \in SUBSET Pkgs
  BY <1>1, ResourcesType, ConstantsAssumption
<1>3. /\ pkg' = pkg /\ cache' = cache /\ info' = info /\ queue' = queue
      /\ requests' = requests /\ faults' = faults /\ deployed' = deployed \cup ns
      /\ Set(w, [c EXCEPT !.requirements = ds, !.required = Deps[c.p][c.obj.version],
                          !.currentOwnedResources = ns,
                          !.shouldUpdateStatus = @ \/ ns # {}, !.pc = "checkDependencies"])
  BY DEF EnsureDependencies
<1> HIDE DEF c, ds
<1>4. ContextInv([c EXCEPT !.requirements = ds, !.required = Deps[c.p][c.obj.version],
                           !.currentOwnedResources = ns,
                           !.shouldUpdateStatus = @ \/ ns # {}, !.pc = "checkDependencies"])
  BY <1>1, <1>2, EnsureDependenciesInv
<1> HIDE DEF ns
<1>5. ContextsInv(ctx')
  BY <1>3, <1>4, OneContext DEF Inv
<1>6. ObjectsInv(pkg') /\ ObjectsInv(cache') /\ RestOK'
  BY <1>2, <1>3 DEF Inv, RestOK
<1> QED
  BY <1>5, <1>6 DEF Inv

LEMMA RequiredValuesType ==
  ASSUME NEW p \in Pkgs, NEW d \in Pkgs
  PROVE  requiredValues(p, d) \in Values
BY ConstantsAssumption DEF requiredValues

LEMMA CreateRequirementStep ==
  ASSUME Inv, NEW w \in Controllers, NEW d \in Pkgs, CreateRequirement(w, d)
  PROVE  Inv'
<1> DEFINE c == ctx[w]
           x == requiredValues(c.p, d)
           unchanged == cache[d].version = Latest[d] /\ cache[d].values = x
           ok == unchanged \/ cache[d] = pkg[d]
           created == IF pkg[d].version = None THEN newPackage(Latest[d], x, TRUE)
                      ELSE [pkg[d] EXCEPT !.version = Latest[d], !.values = x]
<1>1. ContextInv(c) /\ c.pc = "checkDependencies" /\ c.p \in Pkgs
  BY ContextFacts DEF CreateRequirement, At
<1>2. x \in Values /\ Latest[d] \in Versions /\ ok \in BOOLEAN
  BY <1>1, RequiredValuesType, ConstantsAssumption
<1>3. /\ cache' = cache /\ info' = info /\ deployed' = deployed /\ queue' = queue
      /\ requests' = requests /\ faults' = faults
      /\ pkg' = IF unchanged \/ ~ok THEN pkg
                ELSE [pkg EXCEPT ![d] = IF @.version = None THEN newPackage(Latest[d], x, TRUE)
                                        ELSE [@ EXCEPT !.version = Latest[d], !.values = x]]
      /\ Set(w, [c EXCEPT !.requirements = @ \ {d}, !.failed = @ \/ ~ok])
  BY DEF CreateRequirement
<1>a. ObjectsInv(pkg) /\ d \in DOMAIN pkg
  BY DEF Inv, ObjectsInv
<1> HIDE DEF c, x, unchanged, ok
<1>4. pkg' \in {pkg, [pkg EXCEPT ![d] = created]}
  BY <1>3, <1>a
<1>5. ObjectInv(d, created)
  BY <1>2, <1>a, NewPackageInv, SpecChanges DEF ObjectsInv
<1> HIDE DEF created
<1>6. ObjectsInv(pkg')
  BY <1>4, <1>5, <1>a, OneObject
<1>7. ContextInv([c EXCEPT !.requirements = @ \ {d}, !.failed = @ \/ ~ok])
  BY <1>1, <1>2, RequirementInv
<1>8. ContextsInv(ctx')
  BY <1>3, <1>7, OneContext DEF Inv
<1> QED
  BY <1>3, <1>6, <1>8 DEF Inv, RestOK

LEMMA HandleRequiredStep ==
  ASSUME Inv, NEW w \in Controllers, NEW d \in Pkgs, HandleRequired(w, d)
  PROVE  Inv'
<1> DEFINE c == ctx[w]
           x == requiredValues(c.p, d)
           found == cache[d].version # None
           changed == found /\ cache[d].values # x
           ok == ~changed \/ cache[d] = pkg[d]
           failed == found /\ (~ok \/ cache[d].status.cond = "failed")
           waiting == ~found \/ cache[d].status.cond \notin {"ready", "failed"}
<1>1. ContextInv(c) /\ c.pc = "checkDependencies" /\ c.p \in Pkgs
  BY ContextFacts DEF HandleRequired, At
<1>2. x \in Values /\ failed \in BOOLEAN /\ waiting \in BOOLEAN
  BY <1>1, RequiredValuesType
<1>3. /\ cache' = cache /\ info' = info /\ deployed' = deployed /\ queue' = queue
      /\ requests' = requests /\ faults' = faults
      /\ pkg' = IF changed /\ ok THEN configured(d, x) ELSE pkg
      /\ Set(w, [c EXCEPT !.required = @ \ {d}, !.failed = @ \/ failed, !.waiting = @ \/ waiting])
  BY DEF HandleRequired
<1>a. ObjectsInv(pkg) /\ d \in DOMAIN pkg
  BY DEF Inv, ObjectsInv
<1>b. changed /\ ok => pkg[d].version # None
  BY <1>a
<1> HIDE DEF c, x, changed, ok, failed, waiting
<1>4. \/ pkg' = pkg
      \/ pkg[d].version # None /\ pkg' = [pkg EXCEPT ![d] = [pkg[d] EXCEPT !.values = x]]
  BY <1>3, <1>a, <1>b DEF configured
<1>5. pkg[d].version # None => ObjectInv(d, [pkg[d] EXCEPT !.values = x])
  BY <1>2, <1>a, SpecChanges, ConstantsAssumption DEF ObjectsInv
<1>6. ObjectsInv(pkg')
  BY <1>4, <1>5, <1>a, OneObject
<1>7. ContextInv([c EXCEPT !.required = @ \ {d}, !.failed = @ \/ failed, !.waiting = @ \/ waiting])
  BY <1>1, <1>2, RequirementInv
<1>8. ContextsInv(ctx')
  BY <1>3, <1>7, OneContext DEF Inv
<1> QED
  BY <1>3, <1>6, <1>8 DEF Inv, RestOK

LEMMA CheckDependenciesStep ==
  ASSUME Inv, NEW w \in Controllers, CheckDependencies(w)
  PROVE  Inv'
<1> DEFINE c == ctx[w]
<1>1. ContextInv(c) /\ c.pc = "checkDependencies"
  BY ContextFacts DEF CheckDependencies, At
<1>2. UNCHANGED <<pkg, cache, info, deployed, queue, requests, faults>>
  BY DEF CheckDependencies
<1>3. Set(w, CASE c.failed  -> finalize(setCondition(c, "failed"), "update")
               [] ~c.failed /\ c.waiting -> finalize(setCondition(c, "waiting"), "update")
               [] OTHER -> [c EXCEPT !.currentOwnedPackages = Deps[c.p][c.obj.version],
                                     !.pc = "runAdapters"])
  BY DEF CheckDependencies
<1> HIDE DEF c
<1>4. /\ ContextInv(finalize(setCondition(c, "failed"), "update"))
      /\ ContextInv(finalize(setCondition(c, "waiting"), "update"))
      /\ ContextInv([c EXCEPT !.currentOwnedPackages = Deps[c.p][c.obj.version],
                              !.pc = "runAdapters"])
  BY <1>1, CheckDependenciesInv
<1>5. ContextsInv(ctx')
  BY <1>3, <1>4, OneContext DEF Inv
<1> QED
  BY <1>2, <1>5 DEF Inv, RestOK

LEMMA RunAdaptersStep ==
  ASSUME Inv, NEW w \in Controllers, RunAdapters(w)
  PROVE  Inv'
<1> DEFINE c == ctx[w]
           rs == resourcesOf(c.p, c.obj.version)
           applied == [c EXCEPT !.currentOwnedResources = @ \cup rs]
           ready == setStatus(applied, [c.obj.status EXCEPT !.cond = "ready",
                                                            !.version = c.obj.version])
<1>1. ContextInv(c) /\ c.pc = "runAdapters" /\ rs \subseteq AllResources
  BY ContextFacts, ResourcesType DEF RunAdapters, At
<1>2. UNCHANGED <<pkg, cache, info, queue, requests, faults>> /\ deployed' = deployed \cup rs
  BY DEF RunAdapters
<1>3. Set(w, finalize(ready, "cleanup"))
  BY DEF RunAdapters
<1>4. ContextInv(finalize(ready, "cleanup"))
  BY <1>1, RunAdaptersInv
<1> HIDE DEF c, ready, rs
<1>5. ContextsInv(ctx')
  BY <1>3, <1>4, OneContext DEF Inv
<1> QED
  BY <1>1, <1>2, <1>5 DEF Inv, RestOK

LEMMA AdaptersNotReadyStep ==
  ASSUME Inv, NEW w \in Controllers, AdaptersNotReady(w)
  PROVE  Inv'
<1> DEFINE c == ctx[w]
           all == resourcesOf(c.p, c.obj.version)
<1>1. ContextInv(c) /\ c.pc = "runAdapters" /\ all \subseteq AllResources
  BY ContextFacts, ResourcesType DEF AdaptersNotReady, At
<1>2. PICK applied \in SUBSET all, reported \in BOOLEAN, cond \in {"failed", "waiting"} :
         /\ deployed' = deployed \cup applied
         /\ LET c1 == [c EXCEPT !.currentOwnedResources = IF reported THEN @ \cup all ELSE @]
            IN  Set(w, finalize(setCondition(c1, cond), "update"))
  BY DEF AdaptersNotReady
<1>3. UNCHANGED <<pkg, cache, info, queue, requests>> /\ faults < MaxFaults /\ faults' = faults + 1
  BY DEF AdaptersNotReady
<1> DEFINE c1 == [c EXCEPT !.currentOwnedResources = IF reported THEN @ \cup all ELSE @]
<1>4. ContextInv(finalize(setCondition(c1, cond), "update"))
  BY <1>1, AdaptersNotReadyInv
<1>5. Set(w, finalize(setCondition(c1, cond), "update"))
  BY <1>2
<1> HIDE DEF c, c1, all
<1>6. ContextsInv(ctx')
  BY <1>4, <1>5, OneContext DEF Inv
<1>7. faults' \in 0..MaxFaults
  BY <1>3, FaultsType DEF Inv
<1> QED
  BY <1>1, <1>2, <1>3, <1>6, <1>7 DEF Inv, RestOK

LEMMA PrunedInfosType ==
  ASSUME RestOK, NEW c, NEW all
  PROVE  prunedInfos(c, all) \in [Infos -> InfoStates]
BY DEF RestOK, prunedInfos, InfoStates

LEMMA cleanupStep ==
  ASSUME Inv, NEW w \in Controllers, NEW gone \in SUBSET staleResources(ctx[w]),
         NEW infos \in BOOLEAN, NEW packages \in BOOLEAN, NEW failed \in BOOLEAN,
         cleanup(w, gone, infos, packages, failed), faults' \in 0..MaxFaults
  PROVE  Inv'
<1> DEFINE c == ctx[w]
           refused == IF packages THEN rejected(c, FALSE) ELSE {}
           bad == failed \/ refused # {}
           st == CleanedStatus(c, gone, infos, packages, bad, refused)
<1>1. ContextInv(c) /\ c.pc = "cleanup" /\ bad \in BOOLEAN
  BY ContextFacts DEF cleanup, At
<1>2. /\ UNCHANGED <<cache, queue, requests>> /\ deployed' = deployed \ gone
      /\ info' = IF infos THEN prunedInfos(c, FALSE) ELSE info
      /\ pkg' = withoutNamespaces(IF packages THEN prunedPackages(c, FALSE) ELSE pkg, gone)
      /\ Set(w, [setStatus(c, st) EXCEPT !.pc = "update"])
  BY DEF cleanup, CleanedStatus
<1>a. gone \in SUBSET staleResources(c)
  OBVIOUS
<1> HIDE DEF c, refused, bad
<1>3. ContextInv([setStatus(c, st) EXCEPT !.pc = "update"])
  BY <1>1, <1>a, CleanupInv, Zenon
<1> HIDE DEF st
<1>4. ContextsInv(ctx')
  BY <1>2, <1>3, OneContext DEF Inv
<1>5. ObjectsInv(pkg')
  <2>1. ObjectsInv(IF packages THEN prunedPackages(c, FALSE) ELSE pkg)
    BY DeletePackagesInv DEF Inv, prunedPackages
  <2> QED
    BY <1>2, <2>1, WithoutNamespacesInv
<1>6. info' \in [Infos -> InfoStates]
  BY <1>2, PrunedInfosType DEF Inv, RestOK
<1> QED
  BY <1>2, <1>4, <1>5, <1>6 DEF Inv, RestOK

LEMMA CleanupStep ==
  ASSUME Inv, NEW w \in Controllers, Cleanup(w) \/ CleanupFails(w)
  PROVE  Inv'
<1>1. CASE Cleanup(w)
  <2>1. /\ staleResources(ctx[w]) \cap deployed \in SUBSET staleResources(ctx[w])
        /\ cleanup(w, staleResources(ctx[w]) \cap deployed, TRUE, TRUE, FALSE)
        /\ faults' \in 0..MaxFaults
    BY <1>1 DEF Cleanup, Inv, RestOK
  <2> QED
    BY <2>1, cleanupStep
<1>2. CASE CleanupFails(w)
  <2>1. PICK gone \in SUBSET (staleResources(ctx[w]) \cap deployed),
             infos \in BOOLEAN, packages \in BOOLEAN : cleanup(w, gone, infos, packages, TRUE)
    BY <1>2 DEF CleanupFails
  <2>2. gone \in SUBSET staleResources(ctx[w]) /\ faults' \in 0..MaxFaults
    BY <1>2, FaultsType DEF CleanupFails, Inv
  <2> QED
    BY <2>1, <2>2, cleanupStep
<1> QED
  BY <1>1, <1>2

LEMMA AfterDeletionStep ==
  ASSUME Inv, NEW w \in Controllers, AfterDeletion(w)
  PROVE  Inv'
<1> DEFINE c == ctx[w]
           st == c.obj.status
           stage == IF c.obj.finalizer THEN deletionStage(st) ELSE "none"
<1>1. ContextInv(c) /\ c.pc = "afterDeletion"
  BY ContextFacts DEF AfterDeletion, At
<1>2. UNCHANGED <<cache, deployed, queue, requests, faults>>
  BY DEF AfterDeletion
<1>3. \/ /\ Set(w, finalize(c, "update"))
         /\ UNCHANGED <<pkg, info>>
      \/ /\ stage = "packages"
         /\ pkg' = prunedPackages(c, TRUE)
         /\ Set(w, [setStatus(c, [st EXCEPT !.ownedPackages = rejected(c, TRUE)])
                    EXCEPT !.pc = "update", !.requeue = rejected(c, TRUE) # {}])
         /\ UNCHANGED info
      \/ /\ stage = "infos"
         /\ info' = prunedInfos(c, TRUE)
         /\ Set(w, [setStatus(c, [st EXCEPT !.ownedInfos = {}]) EXCEPT !.pc = "update"])
         /\ UNCHANGED pkg
      \/ /\ stage = "finalizer"
         /\ Set(w, [c EXCEPT !.obj.finalizer = FALSE, !.shouldUpdateResource = TRUE,
                             !.pc = "update"])
         /\ UNCHANGED <<pkg, info>>
  BY DEF AfterDeletion
<1>4. stage \in {"packages", "infos"} => c.base.finalizer
  BY <1>1 DEF ContextInv, Deleting, Installing
<1>5. stage = "finalizer" => c.obj.status.ownedPackages = {} /\ c.obj.status.ownedInfos = {}
  BY DEF deletionStage
<1>6. rejected(c, TRUE) \in SUBSET c.obj.status.ownedPackages
  BY DEF rejected, toDelete, stalePackages
<1>a. (rejected(c, TRUE) # {}) \in BOOLEAN
  OBVIOUS
<1> HIDE DEF c, stage
<1>7. CASE Set(w, finalize(c, "update")) /\ UNCHANGED <<pkg, info>>
  <2>1. ContextsInv(ctx')
    BY <1>1, <1>7, NothingLeftInv, OneContext DEF Inv
  <2> QED
    BY <1>2, <1>7, <2>1 DEF Inv, RestOK
<1>8. CASE /\ stage = "packages"
           /\ pkg' = prunedPackages(c, TRUE)
           /\ Set(w, [setStatus(c, [st EXCEPT !.ownedPackages = rejected(c, TRUE)])
                      EXCEPT !.pc = "update", !.requeue = rejected(c, TRUE) # {}])
           /\ UNCHANGED info
  <2>1. ContextInv([setStatus(c, [st EXCEPT !.ownedPackages = rejected(c, TRUE)])
                    EXCEPT !.pc = "update", !.requeue = rejected(c, TRUE) # {}])
    BY <1>1, <1>4, <1>6, <1>8, <1>a, GiveUpInv
  <2>2. ContextsInv(ctx')
    BY <1>8, <2>1, OneContext DEF Inv
  <2>3. ObjectsInv(pkg')
    BY <1>8, DeletePackagesInv DEF Inv, prunedPackages
  <2> QED
    BY <1>2, <1>8, <2>2, <2>3 DEF Inv, RestOK
<1>9. CASE /\ stage = "infos"
           /\ info' = prunedInfos(c, TRUE)
           /\ Set(w, [setStatus(c, [st EXCEPT !.ownedInfos = {}]) EXCEPT !.pc = "update"])
           /\ UNCHANGED pkg
  <2>1. ContextInv([setStatus(c, [st EXCEPT !.ownedInfos = {}]) EXCEPT !.pc = "update"])
    BY <1>1, <1>4, <1>6, <1>9, GiveUpInv
  <2>2. ContextsInv(ctx')
    BY <1>9, <2>1, OneContext DEF Inv
  <2>3. info' \in [Infos -> InfoStates]
    BY <1>9, PrunedInfosType DEF Inv
  <2> QED
    BY <1>2, <1>9, <2>2, <2>3 DEF Inv, RestOK
<1>10. CASE /\ stage = "finalizer"
            /\ Set(w, [c EXCEPT !.obj.finalizer = FALSE, !.shouldUpdateResource = TRUE,
                                !.pc = "update"])
            /\ UNCHANGED <<pkg, info>>
  <2>1. ContextsInv(ctx')
    BY <1>1, <1>5, <1>10, LetGoInv, OneContext DEF Inv
  <2> QED
    BY <1>2, <1>10, <2>1 DEF Inv, RestOK
<1> QED
  BY <1>3, <1>7, <1>8, <1>9, <1>10

(* The write goes through only on the object that was read.                *)
LEMMA UpdateEffect ==
  ASSUME Inv, NEW w \in Controllers, Update(w)
  PROVE  LET c == ctx[w]
         IN  /\ ContextInv(c) /\ c.pc = "update" /\ c.p \in Pkgs
             /\ \/ pkg' = pkg
                \/ /\ pkg[c.p] = c.base
                   /\ c.shouldUpdateStatus \/ c.shouldUpdateResource
                   /\ pkg' = [pkg EXCEPT ![c.p] = updated(c)]
<1> DEFINE c == ctx[w]
           writes == c.shouldUpdateStatus \/ c.shouldUpdateResource
<1>1. ContextInv(c) /\ c.pc = "update" /\ c.p \in Pkgs
  BY ContextFacts DEF Update, At
<1>2. pkg' = IF writes /\ Conflict(c) THEN pkg ELSE [pkg EXCEPT ![c.p] = updated(c)]
  BY DEF Update
<1>3. pkg \in [Pkgs -> Object]
  BY DEF Inv, ObjectsInv
<1> HIDE DEF c
<1>4. ~writes => pkg' = pkg
  BY <1>1, <1>2, <1>3 DEF updated
<1>5. QED
  BY <1>1, <1>2, <1>4 DEF Conflict, c

LEMMA UpdateStep ==
  ASSUME Inv, NEW w \in Controllers, Update(w)
  PROVE  Inv'
<1> DEFINE c == ctx[w]
<1>1. /\ ContextInv(c) /\ c.pc = "update" /\ c.p \in Pkgs
      /\ \/ pkg' = pkg
         \/ pkg[c.p] = c.base /\ pkg' = [pkg EXCEPT ![c.p] = updated(c)]
  BY UpdateEffect
<1>2. /\ UNCHANGED <<cache, info, deployed, requests, faults>>
      /\ queue' \in {queue, queue \cup {c.p}}
      /\ Set(w, idle)
  BY DEF Update
<1>3. ContextsInv(ctx')
  BY <1>2, IdleInv, OneContext DEF Inv
<1> HIDE DEF c
<1>4. ObjectsInv(pkg')
  BY <1>1, UpdatedInv, OneObject DEF Inv
<1> QED
  BY <1>1, <1>2, <1>3, <1>4 DEF Inv, RestOK

LEMMA CallFailsStep ==
  ASSUME Inv, NEW w \in Controllers, CallFails(w)
  PROVE  Inv'
<1> DEFINE c == ctx[w]
<1>1. /\ UNCHANGED <<pkg, cache, info, deployed, requests>>
      /\ faults < MaxFaults /\ faults' = faults + 1
      /\ \/ /\ c.pc \in {"ensurePackageInfo", "update"}
            /\ queue' = queue \cup {c.p}
            /\ Set(w, idle)
         \/ /\ c.pc \in {"ensureDependencies", "checkDependencies"}
            /\ Set(w, finalize(setCondition(c, "failed"), "update"))
            /\ UNCHANGED queue
         \/ /\ c.pc = "afterDeletion"
            /\ Set(w, [c EXCEPT !.pc = "update", !.requeue = TRUE])
            /\ UNCHANGED queue
  BY DEF CallFails
<1>2. ContextInv(c) /\ (c.pc # "idle" => c.p \in Pkgs)
  BY ContextFacts
<1> HIDE DEF c
<1>3. queue' \subseteq Pkgs
  BY <1>1, <1>2 DEF Inv, RestOK
<1>4. ContextsInv(ctx')
  BY <1>1, <1>2, IdleInv, CheckDependenciesInv, LetGoInv, OneContext DEF Inv
<1>5. faults' \in 0..MaxFaults
  BY <1>1, FaultsType DEF Inv
<1> QED
  BY <1>1, <1>3, <1>4, <1>5 DEF Inv, RestOK

LEMMA CrashStep ==
  ASSUME Inv, Crash
  PROVE  Inv'
<1>1. ContextsInv(ctx')
  BY IdleInv DEF Crash, ContextsInv, ContextInv
<1>2. faults' \in 0..MaxFaults
  BY FaultsType DEF Crash, Inv
<1> QED
  BY <1>1, <1>2 DEF Crash, Inv, RestOK

LEMMA SyncStep ==
  ASSUME Inv, NEW p \in Pkgs, Sync(p)
  PROVE  Inv'
<1>1. ObjectsInv(cache')
  <2>1. ObjectInv(p, pkg[p])
    BY DEF Inv, ObjectsInv
  <2> QED
    BY <2>1, OneObject DEF Inv, Sync
<1> QED
  BY <1>1 DEF Sync, Inv, RestOK

LEMMA SyncInfoStep ==
  ASSUME Inv, NEW k \in Infos, SyncInfoOk(k) \/ SyncInfoFails(k)
  PROVE  Inv'
<1>1. faults' \in 0..MaxFaults
  <2>1. CASE SyncInfoOk(k)
    BY <2>1 DEF SyncInfoOk, Inv, RestOK
  <2>2. CASE SyncInfoFails(k)
    BY <2>2, FaultsType DEF SyncInfoFails, Inv
  <2> QED
    BY <2>1, <2>2
<1>2. PICK state \in {"ready", "failed"} : SyncInfo(k, state)
  BY DEF SyncInfoOk, SyncInfoFails
<1> QED
  BY <1>1, <1>2 DEF SyncInfo, Inv, RestOK, InfoStates

LEMMA CollectStep ==
  ASSUME Inv, NEW p \in Pkgs, Collect(p)
  PROVE  Inv'
<1> DEFINE gone == {x \in deployed : x[1] = p}
<1>1. /\ pkg' = withoutNamespaces([pkg EXCEPT ![p] = absent], gone)
      /\ deployed' = deployed \ gone
      /\ UNCHANGED <<cache, info, queue, ctx, requests, faults>>
  BY DEF Collect
<1> HIDE DEF gone
<1>2. ObjectsInv([pkg EXCEPT ![p] = absent])
  BY AbsentInv, OneObject DEF Inv
<1>3. ObjectsInv(pkg')
  BY <1>1, <1>2, WithoutNamespacesInv
<1> QED
  BY <1>1, <1>3 DEF Inv, RestOK

(* The ways in which stored objects change: the write at the end of a      *)
(* reconciliation, a new package, a change of the version, the values or   *)
(* the suspension, deletions and the end of a package.                     *)
Writes(c) ==
  /\ ContextInv(c) /\ c.pc = "update" /\ c.p \in Pkgs
  /\ pkg[c.p] = c.base
  /\ c.shouldUpdateStatus \/ c.shouldUpdateResource
  /\ pkg' = [pkg EXCEPT ![c.p] = updated(c)]

Creates(p, o) ==
  /\ pkg[p].version = None
  /\ \E v \in Versions, x \in Values, dependency \in BOOLEAN : o = newPackage(v, x, dependency)
  /\ pkg' = [pkg EXCEPT ![p] = o]

Edits(p, o) ==
  /\ pkg[p].version # None /\ o.version # None
  /\ o.status = pkg[p].status /\ o.finalizer = pkg[p].finalizer /\ o.deleting = pkg[p].deleting
  /\ pkg' = [pkg EXCEPT ![p] = o]

Deletes(S) ==
  /\ \A d \in S \ Namespaced : ValidateDelete(cache, d)
  /\ pkg' = deletePackages(S)

Collects(p, S) ==
  /\ pkg[p].deleting /\ ~pkg[p].finalizer
  /\ pkg' = [x \in Pkgs |-> IF x = p THEN absent
                            ELSE IF x \in S /\ pkg[x].version # None
                                 THEN [pkg[x] EXCEPT !.deleting = TRUE] ELSE pkg[x]]

LEMMA UserEffect ==
  ASSUME Inv, NEW p \in Pkgs, User(p)
  PROVE  /\ Request
         /\ \/ \E o : ObjectInv(p, o) /\ (Creates(p, o) \/ Edits(p, o))
            \/ Deletes({p})
<1>1. pkg \in [Pkgs -> Object] /\ pkg[p] \in Object /\ ObjectInv(p, pkg[p])
  BY DEF Inv, ObjectsInv
<1>2. CASE \E v \in Versions, x \in Values : UserInstall(p, v, x)
  BY <1>1, <1>2, NewPackageInv DEF UserInstall, Creates
<1>3. CASE \E v \in Versions : UserUpdate(p, v)
  <2>1. PICK v \in Versions : UserUpdate(p, v)
    BY <1>3
  <2> DEFINE o == [pkg[p] EXCEPT !.version = v]
  <2>2. ObjectInv(p, o) /\ pkg[p].version # None
    BY <1>1, <2>1, SpecChanges, ConstantsAssumption DEF UserUpdate
  <2>3. /\ o.status = pkg[p].status /\ o.finalizer = pkg[p].finalizer
        /\ o.version # None /\ o.deleting = pkg[p].deleting
    BY <1>1, <2>1, ConstantsAssumption DEF Object
  <2>4. pkg' = [pkg EXCEPT ![p] = o] /\ Request
    BY <1>1, <2>1 DEF UserUpdate
  <2> HIDE DEF o
  <2> QED
    BY <2>2, <2>3, <2>4 DEF Edits
<1>4. CASE \E x \in Values : UserConfigure(p, x)
  <2>1. PICK x \in Values : UserConfigure(p, x)
    BY <1>4
  <2> DEFINE o == [pkg[p] EXCEPT !.values = x]
  <2>2. ObjectInv(p, o) /\ pkg[p].version # None
    BY <1>1, <2>1, SpecChanges, ConstantsAssumption DEF UserConfigure
  <2>3. /\ o.status = pkg[p].status /\ o.finalizer = pkg[p].finalizer
        /\ o.version = pkg[p].version /\ o.deleting = pkg[p].deleting
    BY <1>1, <2>1 DEF Object
  <2>4. pkg' = [pkg EXCEPT ![p] = o] /\ Request
    BY <1>1, <2>1 DEF UserConfigure
  <2> HIDE DEF o
  <2> QED
    BY <2>2, <2>3, <2>4 DEF Edits
<1>5. CASE UserSuspend(p)
  <2> DEFINE o == [pkg[p] EXCEPT !.suspend = ~@]
  <2>2. ObjectInv(p, o) /\ pkg[p].version # None
    BY <1>1, <1>5, SpecChanges, ConstantsAssumption DEF UserSuspend
  <2>3. /\ o.status = pkg[p].status /\ o.finalizer = pkg[p].finalizer
        /\ o.version = pkg[p].version /\ o.deleting = pkg[p].deleting
    BY <1>1 DEF Object
  <2>4. pkg' = [pkg EXCEPT ![p] = o] /\ Request
    BY <1>1, <1>5 DEF UserSuspend
  <2> HIDE DEF o
  <2> QED
    BY <2>2, <2>3, <2>4 DEF Edits
<1>6. CASE UserUninstall(p)
  <2>1. pkg' = [pkg EXCEPT ![p] = [pkg[p] EXCEPT !.deleting = TRUE]]
    BY <1>1, <1>6 DEF UserUninstall
  <2>2. pkg[p].version # None /\ Request /\ ValidateDelete(cache, p)
    BY <1>6 DEF UserUninstall
  <2>3. pkg' = deletePackages({p})
    BY <1>1, <2>1, <2>2 DEF deletePackages
  <2> QED
    BY <2>2, <2>3 DEF Deletes
<1> QED
  BY <1>2, <1>3, <1>4, <1>5, <1>6 DEF User

LEMMA UserStep ==
  ASSUME Inv, NEW p \in Pkgs, User(p)
  PROVE  Inv'
<1>1. \/ \E o : ObjectInv(p, o) /\ pkg' = [pkg EXCEPT ![p] = o]
      \/ pkg' = deletePackages({p})
  BY UserEffect DEF Creates, Edits, Deletes
<1>2. ObjectsInv(pkg')
  BY <1>1, OneObject, DeletePackagesInv DEF Inv
<1>a. Request
  BY UserEffect
<1>3. UNCHANGED <<cache, info, deployed, queue, ctx, faults>> /\ requests' \in 0..MaxRequests
  BY <1>a, ConstantsAssumption DEF Request, Inv, RestOK
<1> QED
  BY <1>2, <1>3 DEF Inv, RestOK

LEMMA NextInv == Inv /\ [Next]_vars => Inv'
<1> SUFFICES ASSUME Inv, [Next]_vars PROVE Inv'
  OBVIOUS
<1>1. ASSUME NEW w \in Controllers, Reconcile(w) PROVE Inv'
  BY <1>1, EnsurePackageInfoStep, EnsureDependenciesStep, CreateRequirementStep, HandleRequiredStep,
     CheckDependenciesStep, RunAdaptersStep, CleanupStep, AfterDeletionStep, UpdateStep
  DEF Reconcile
<1>2. ASSUME NEW w \in Controllers, AdaptersNotReady(w) \/ CleanupFails(w) \/ CallFails(w)
      PROVE  Inv'
  BY <1>2, AdaptersNotReadyStep, CleanupStep, CallFailsStep
<1>3. ASSUME NEW p \in Pkgs, Sync(p) \/ Collect(p) \/ User(p) PROVE Inv'
  BY <1>3, SyncStep, CollectStep, UserStep
<1>4. ASSUME UNCHANGED vars PROVE Inv'
  BY <1>4 DEF vars, Inv, RestOK
<1> QED
  BY <1>1, <1>2, <1>3, <1>4, BeginStep, SyncInfoStep, CrashStep DEF Next

LEMMA AlwaysInv == Spec => []Inv
BY InitInv, NextInv, PTL DEF Spec

(* Type correctness: every variable keeps its type, for any constants that *)
(* satisfy ConstantsAssumption.                                            *)
THEOREM TypeCorrect == Spec => []TypeOK
<1>1. Inv => TypeOK
  BY DEF Inv, ObjectsInv, ContextsInv, RestOK, TypeOK
<1> QED
  BY <1>1, AlwaysInv, PTL

(* Whatever a ready package uses is recorded in its status, at every       *)
(* moment and under every interleaving with users, faults, crashes and     *)
(* stale caches: the update of the status after the adapters ran           *)
(* (actualFinalize) records it, and neither the cleanup of stale           *)
(* references nor the stages of a deletion forget what is in use.          *)
THEOREM OwnershipCovers == Spec => []OwnershipCoversUse
<1>1. Inv => OwnershipCoversUse
  BY ConstantsAssumption DEF Inv, ObjectsInv, ObjectInv, Covers, OwnershipCoversUse
<1> QED
  BY <1>1, AlwaysInv, PTL

-----------------------------------------------------------------------------
(* What any step does to the stored objects.                               *)

LEMMA RequirementEffect ==
  ASSUME Inv, NEW w \in Controllers, NEW d \in Pkgs, CreateRequirement(w, d) \/ HandleRequired(w, d)
  PROVE  pkg' = pkg \/ \E o : Creates(d, o) \/ Edits(d, o)
<1> DEFINE x == requiredValues(ctx[w].p, d)
           new == newPackage(Latest[d], x, TRUE)
           pinned == [pkg[d] EXCEPT !.version = Latest[d], !.values = x]
           valued == [pkg[d] EXCEPT !.values = x]
<1>1. /\ pkg \in [Pkgs -> Object] /\ pkg[d] \in Object
      /\ ctx[w].pc = "checkDependencies" /\ ctx[w].p \in Pkgs
  BY ContextFacts DEF Inv, ObjectsInv, CreateRequirement, HandleRequired, At
<1>2. x \in Values /\ Latest[d] \in Versions /\ Latest[d] # None
  BY <1>1, RequiredValuesType, ConstantsAssumption
<1> HIDE DEF x
<1>3. /\ pinned.status = pkg[d].status /\ pinned.finalizer = pkg[d].finalizer
      /\ pinned.deleting = pkg[d].deleting /\ pinned.version # None
  BY <1>1, <1>2 DEF Object
<1>4. /\ valued.status = pkg[d].status /\ valued.finalizer = pkg[d].finalizer
      /\ valued.deleting = pkg[d].deleting /\ valued.version = pkg[d].version
  BY <1>1, <1>2 DEF Object
<1>5. CASE CreateRequirement(w, d)
  <2>1. \/ pkg' = pkg
        \/ pkg' = [pkg EXCEPT ![d] = IF @.version = None THEN newPackage(Latest[d], x, TRUE)
                                     ELSE [@ EXCEPT !.version = Latest[d], !.values = x]]
    BY <1>5 DEF CreateRequirement, x
  <2>2. \/ pkg' = pkg
        \/ pkg[d].version = None /\ pkg' = [pkg EXCEPT ![d] = new]
        \/ pkg[d].version # None /\ pkg' = [pkg EXCEPT ![d] = pinned]
    BY <1>1, <2>1
  <2> HIDE DEF pinned
  <2>3. pkg[d].version = None /\ pkg' = [pkg EXCEPT ![d] = new] => Creates(d, new)
    BY <1>2 DEF Creates
  <2>4. pkg[d].version # None /\ pkg' = [pkg EXCEPT ![d] = pinned] => Edits(d, pinned)
    BY <1>3 DEF Edits
  <2> QED
    BY <2>2, <2>3, <2>4
<1>6. CASE HandleRequired(w, d)
  <2>1. \/ pkg' = pkg
        \/ cache[d].version # None /\ cache[d] = pkg[d] /\ pkg' = [pkg EXCEPT ![d].values = x]
    BY <1>6 DEF HandleRequired, configured, x
  <2>2. \/ pkg' = pkg
        \/ pkg[d].version # None /\ pkg' = [pkg EXCEPT ![d] = valued]
    BY <1>1, <2>1
  <2> HIDE DEF valued
  <2> QED
    BY <1>4, <2>2 DEF Edits
<1> QED
  BY <1>5, <1>6

(* The pruning of packages, and with it of what was in a namespace, is a   *)
(* deletion that the webhook has allowed.                                  *)
LEMMA PruneEffect ==
  ASSUME Inv, NEW w \in Controllers, NEW all \in BOOLEAN, ctx[w].pc # "idle",
         pkg' = prunedPackages(ctx[w], all)
  PROVE  Deletes(toDelete(ctx[w], all) \ rejected(ctx[w], all))
BY DEF prunedPackages, Deletes, rejected

LEMMA NamespaceEffect ==
  ASSUME pkg \in [Pkgs -> Object], NEW gone, NEW D, \A d \in D \ Namespaced : ValidateDelete(cache, d),
         pkg' = withoutNamespaces(deletePackages(D), gone)
  PROVE  \E S : Deletes(S)
<1> DEFINE N == {x \in Namespaced : \E p \in Pkgs : /\ <<p, NamespaceResource>> \in gone
                                                    /\ \E v \in Versions : x \in Deps[p][v]}
           S == D \cup N
           objects == deletePackages(D)
           both == deletePackages(S)
<1>1. ASSUME NEW x \in Pkgs
      PROVE  withoutNamespaces(objects, gone)[x] = both[x]
  <2>1. objects[x] = IF x \in D /\ pkg[x].version # None
                     THEN [pkg[x] EXCEPT !.deleting = TRUE] ELSE pkg[x]
    BY DEF deletePackages
  <2>2. both[x] = IF x \in S /\ pkg[x].version # None
                  THEN [pkg[x] EXCEPT !.deleting = TRUE] ELSE pkg[x]
    BY DEF deletePackages
  <2>3. withoutNamespaces(objects, gone)[x] = IF x \in N /\ objects[x].version # None
                                              THEN [objects[x] EXCEPT !.deleting = TRUE] ELSE objects[x]
    BY DEF withoutNamespaces
  <2> HIDE DEF objects, both, N
  <2>4. /\ [pkg[x] EXCEPT !.deleting = TRUE].version = pkg[x].version
        /\ [[pkg[x] EXCEPT !.deleting = TRUE] EXCEPT !.deleting = TRUE] = [pkg[x] EXCEPT !.deleting = TRUE]
    BY DEF Object
  <2> QED
    BY <2>1, <2>2, <2>3, <2>4
<1>2. pkg' = both
  <2>1. /\ withoutNamespaces(objects, gone) = [x \in Pkgs |-> withoutNamespaces(objects, gone)[x]]
        /\ both = [x \in Pkgs |-> both[x]]
    BY DEF withoutNamespaces, deletePackages
  <2> HIDE DEF objects, both
  <2>2. pkg' = withoutNamespaces(objects, gone)
    BY DEF objects
  <2>3. [x \in Pkgs |-> withoutNamespaces(objects, gone)[x]] = [x \in Pkgs |-> both[x]]
    BY <1>1
  <2> QED
    BY <2>1, <2>2, <2>3
<1>3. Deletes(S)
  BY <1>2 DEF Deletes
<1> QED
  BY <1>3

LEMMA CollectEffect ==
  ASSUME pkg \in [Pkgs -> Object], NEW p \in Pkgs, Collect(p)
  PROVE  \E S \in SUBSET Namespaced : Collects(p, S)
<1> DEFINE gone == {x \in deployed : x[1] = p}
           objects == [pkg EXCEPT ![p] = absent]
           N == {x \in Namespaced : \E q \in Pkgs : /\ <<q, NamespaceResource>> \in gone
                                                    /\ \E v \in Versions : x \in Deps[q][v]}
           after == [x \in Pkgs |-> IF x = p THEN absent
                                    ELSE IF x \in N /\ pkg[x].version # None
                                         THEN [pkg[x] EXCEPT !.deleting = TRUE] ELSE pkg[x]]
<1>1. /\ pkg[p].deleting /\ ~pkg[p].finalizer
      /\ pkg' = withoutNamespaces(objects, gone)
  BY DEF Collect
<1>2. absent.version = None
  BY DEF absent, newPackage
<1> HIDE DEF gone
<1>3. \A x \in Pkgs : objects[x] = IF x = p THEN absent ELSE pkg[x]
  OBVIOUS
<1> HIDE DEF objects
<1>4. withoutNamespaces(objects, gone) = after
  BY <1>2, <1>3 DEF withoutNamespaces
<1>5. Collects(p, N)
  BY <1>1, <1>4 DEF Collects
<1> QED
  BY <1>5

LEMMA StepKinds ==
  ASSUME Inv, Next
  PROVE  \/ pkg' = pkg
         \/ \E c : Writes(c)
         \/ \E p \in Pkgs : \E o : Creates(p, o) \/ Edits(p, o)
         \/ \E S : Deletes(S)
         \/ \E p \in Pkgs, S \in SUBSET Namespaced : Collects(p, S)
<1>1. pkg \in [Pkgs -> Object]
  BY DEF Inv, ObjectsInv
<1>2. ASSUME NEW w \in Controllers, NEW gone, NEW infos, NEW packages, NEW failed,
             cleanup(w, gone, infos, packages, failed)
      PROVE  \E S : Deletes(S)
  <2> DEFINE D == IF packages THEN toDelete(ctx[w], FALSE) \ rejected(ctx[w], FALSE) ELSE {}
  <2>1. deletePackages({}) = pkg
    BY <1>1 DEF deletePackages
  <2>2. pkg' = withoutNamespaces(deletePackages(D), gone)
    BY <1>2, <2>1 DEF cleanup, prunedPackages
  <2>3. \A d \in D \ Namespaced : ValidateDelete(cache, d)
    BY DEF rejected
  <2> HIDE DEF D
  <2> QED
    BY <1>1, <2>2, <2>3, NamespaceEffect
<1>3. ASSUME NEW w \in Controllers, AfterDeletion(w)
      PROVE  pkg' = pkg \/ \E S : Deletes(S)
  BY <1>3, PruneEffect DEF AfterDeletion, At
<1>4. ASSUME NEW w \in Controllers, Update(w)
      PROVE  pkg' = pkg \/ \E c : Writes(c)
  BY <1>4, UpdateEffect DEF Writes
<1>5. ASSUME NEW w \in Controllers, Reconcile(w)
      PROVE  \/ pkg' = pkg
             \/ \E c : Writes(c)
             \/ \E p \in Pkgs : \E o : Creates(p, o) \/ Edits(p, o)
             \/ \E S : Deletes(S)
  <2>1. CASE EnsurePackageInfo(w) \/ EnsureDependencies(w) \/ CheckDependencies(w) \/ RunAdapters(w)
    BY <2>1 DEF EnsurePackageInfo, EnsureDependencies, CheckDependencies, RunAdapters
  <2>2. CASE Cleanup(w)
    BY <1>2, <2>2 DEF Cleanup
  <2> QED
    BY <1>3, <1>4, <1>5, <2>1, <2>2, RequirementEffect DEF Reconcile
<1>6. ASSUME NEW w \in Controllers, CleanupFails(w) PROVE \E S : Deletes(S)
  BY <1>2, <1>6 DEF CleanupFails
<1>7. ASSUME NEW p \in Pkgs, User(p)
      PROVE  (\E o : Creates(p, o) \/ Edits(p, o)) \/ \E S : Deletes(S)
  BY <1>7, UserEffect
<1>8. ASSUME NEW p \in Pkgs, Collect(p) PROVE \E S \in SUBSET Namespaced : Collects(p, S)
  BY <1>1, <1>8, CollectEffect
<1>9. ASSUME \/ \E w \in Controllers : AdaptersNotReady(w) \/ CallFails(w)
             \/ \E w \in Controllers, p \in Pkgs : Start(w, p)
             \/ \E p \in Pkgs : Sync(p)
             \/ \E k \in Infos : SyncInfoOk(k) \/ SyncInfoFails(k)
             \/ Crash
      PROVE  pkg' = pkg
  BY <1>9 DEF AdaptersNotReady, CallFails, Start, SkipReconcile, BeginReconcile, BeginAfterDeletion,
              Begin, Sync, SyncInfoOk, SyncInfoFails, SyncInfo, Crash
<1> QED
  BY <1>5, <1>6, <1>7, <1>8, <1>9 DEF Next

-----------------------------------------------------------------------------
(* Action properties.                                                      *)

(* What the write of a reconciliation leaves of the object.                *)
LEMMA WriteEffect ==
  ASSUME pkg \in [Pkgs -> Object], NEW c, Writes(c)
  PROVE  /\ \A p \in Pkgs \ {c.p} : pkg'[p] = pkg[p]
         /\ c.p \in Pkgs /\ ~pkg[c.p].suspend
         /\ pkg[c.p].version \in Versions
         /\ pkg'[c.p].version = pkg[c.p].version
         /\ pkg'[c.p].deleting = pkg[c.p].deleting
         /\ \/ /\ pkg'[c.p].status = c.obj.status
               /\ pkg'[c.p].finalizer = pkg[c.p].finalizer
            \/ /\ pkg'[c.p].status = pkg[c.p].status
               /\ pkg'[c.p].finalizer = c.obj.finalizer
               /\ c.shouldUpdateResource /\ ~c.shouldUpdateStatus
<1>1. /\ ContextInv(c) /\ c.p \in Pkgs /\ c.pc # "idle" /\ pkg[c.p] = c.base
      /\ pkg' = [pkg EXCEPT ![c.p] = updated(c)]
      /\ c.shouldUpdateStatus \/ c.shouldUpdateResource
  BY DEF Writes
<1>2. ~pkg[c.p].suspend /\ pkg[c.p].version \in Versions
  BY <1>1 DEF ContextInv
<1>3. \/ updated(c) = [pkg[c.p] EXCEPT !.status = c.obj.status]
      \/ /\ updated(c) = [pkg[c.p] EXCEPT !.finalizer = c.obj.finalizer]
         /\ c.shouldUpdateResource /\ ~c.shouldUpdateStatus
  BY <1>1 DEF updated
<1>4. /\ pkg'[c.p] = updated(c)
      /\ \A p \in Pkgs \ {c.p} : pkg'[p] = pkg[p]
  BY <1>1
<1>5. /\ updated(c).version = pkg[c.p].version /\ updated(c).deleting = pkg[c.p].deleting
      /\ \/ /\ updated(c).status = c.obj.status
            /\ updated(c).finalizer = pkg[c.p].finalizer
         \/ /\ updated(c).status = pkg[c.p].status
            /\ updated(c).finalizer = c.obj.finalizer
            /\ c.shouldUpdateResource /\ ~c.shouldUpdateStatus
  BY <1>1, <1>3 DEF Object
<1> QED
  BY <1>1, <1>2, <1>4, <1>5

(* A deletion changes nothing but the deletion timestamp.                  *)
LEMMA DeleteEffect ==
  ASSUME pkg \in [Pkgs -> Object], NEW x \in Pkgs, NEW o,
         o \in {pkg[x], [pkg[x] EXCEPT !.deleting = TRUE]}
  PROVE  /\ o.version = pkg[x].version /\ o.suspend = pkg[x].suspend
         /\ o.status = pkg[x].status /\ o.finalizer = pkg[x].finalizer
         /\ o = pkg[x] \/ o.deleting
BY DEF Object

LEMMA AbsentFields ==
  /\ absent.version = None /\ absent.status = noStatus
  /\ ~absent.suspend /\ ~absent.deleting /\ ~absent.finalizer
BY DEF absent, newPackage

LEMMA NewFields ==
  ASSUME NEW v, NEW x, NEW dependency
  PROVE  LET o == newPackage(v, x, dependency)
         IN  o.version = v /\ o.status = noStatus /\ ~o.suspend /\ ~o.deleting /\ ~o.finalizer
BY DEF newPackage

(* What becomes of one package in a step that is not a write.              *)
LEMMA OtherSteps ==
  ASSUME Inv, Next, \A c : ~Writes(c), NEW p \in Pkgs
  PROVE  \/ pkg'[p].status = pkg[p].status /\ pkg'[p].finalizer = pkg[p].finalizer
         \/ pkg'[p] = absent
         \/ /\ pkg[p].version = None
            /\ pkg'[p].status = noStatus /\ ~pkg'[p].suspend
<1>1. pkg \in [Pkgs -> Object]
  BY DEF Inv, ObjectsInv
<1>2. ASSUME NEW q \in Pkgs, NEW o, Creates(q, o) PROVE p = q => pkg'[p] = o /\ o.status = noStatus /\ ~o.suspend
  BY <1>1, <1>2, NewFields DEF Creates
<1>3. ASSUME NEW q \in Pkgs, NEW o, Creates(q, o) \/ Edits(q, o) PROVE p # q => pkg'[p] = pkg[p]
  BY <1>1, <1>3 DEF Creates, Edits
<1>4. ASSUME NEW q \in Pkgs, NEW o, Edits(q, o)
      PROVE  p = q => pkg'[p].status = pkg[p].status /\ pkg'[p].finalizer = pkg[p].finalizer
  BY <1>1, <1>4 DEF Edits
<1>5. ASSUME NEW S, Deletes(S)
      PROVE  pkg'[p].status = pkg[p].status /\ pkg'[p].finalizer = pkg[p].finalizer
  <2>1. pkg'[p] \in {pkg[p], [pkg[p] EXCEPT !.deleting = TRUE]}
    BY <1>5 DEF Deletes, deletePackages
  <2> QED
    BY <1>1, <2>1, DeleteEffect
<1>6. ASSUME NEW q \in Pkgs, NEW S, Collects(q, S)
      PROVE  \/ pkg'[p] = absent
             \/ pkg'[p].status = pkg[p].status /\ pkg'[p].finalizer = pkg[p].finalizer
  <2>1. pkg'[p] \in {absent, pkg[p], [pkg[p] EXCEPT !.deleting = TRUE]}
    BY <1>6 DEF Collects
  <2> QED
    BY <1>1, <2>1, DeleteEffect
<1>7. ASSUME NEW q \in Pkgs, NEW o, Creates(q, o) PROVE pkg[q].version = None
  BY <1>7 DEF Creates
<1> QED
  BY <1>2, <1>3, <1>4, <1>5, <1>6, <1>7, StepKinds

(* While a package is suspended the operator leaves its status and its     *)
(* finalizer alone, in every step: a reconciliation that began before the  *)
(* suspension cannot write, because the stored object is not the one it    *)
(* read (actualFinalize).                                                  *)
THEOREM SuspendedFrozen == Spec => SuspendedIsFrozen
<1> DEFINE Frozen(p) == pkg[p].suspend /\ pkg'[p].suspend
                          => pkg'[p].status = pkg[p].status /\ pkg'[p].finalizer = pkg[p].finalizer
<1>1. ASSUME Inv, Next, NEW p \in Pkgs PROVE Frozen(p)
  <2>1. pkg \in [Pkgs -> Object] /\ (pkg[p].version = None => pkg[p] = absent)
    BY <1>1 DEF Inv, ObjectsInv, ObjectInv
  <2>2. CASE \E c : Writes(c)
    BY <2>1, <2>2, WriteEffect
  <2>3. CASE \A c : ~Writes(c)
    BY <1>1, <2>1, <2>3, OtherSteps, AbsentFields
  <2> QED
    BY <2>2, <2>3
<1>2. ASSUME UNCHANGED vars, NEW p \in Pkgs PROVE Frozen(p)
  BY <1>2 DEF vars
<1>3. Inv /\ [Next]_vars => [\A p \in Pkgs : Frozen(p)]_vars
  BY <1>1, <1>2
<1> QED
  BY <1>3, AlwaysInv, PTL DEF Spec, SuspendedIsFrozen

(* When the version that the status reports changes, it is the version the *)
(* stored spec asks for at that moment, although the reconciliation read   *)
(* the spec long before (Status().Update in actualFinalize).               *)
THEOREM ReportedCurrent == Spec => ReportedVersionIsCurrent
<1> DEFINE Current(p) == pkg'[p].status.version \notin {None, pkg[p].status.version}
                            => pkg'[p].status.version = pkg'[p].version
<1>1. ASSUME Inv, Next, NEW p \in Pkgs PROVE Current(p)
  <2>1. pkg \in [Pkgs -> Object]
    BY <1>1 DEF Inv, ObjectsInv
  <2>2. ASSUME NEW c, Writes(c) PROVE Current(p)
    <3>1. c.obj.status.version \in {pkg[c.p].status.version, pkg[c.p].version}
      BY <2>2 DEF Writes, ContextInv
    <3> QED
      BY <2>1, <2>2, <3>1, WriteEffect
  <2>3. noStatus.version = None
    BY DEF noStatus
  <2>4. CASE \A c : ~Writes(c)
    BY <1>1, <2>3, <2>4, OtherSteps, AbsentFields
  <2> QED
    BY <2>2, <2>4
<1>2. ASSUME UNCHANGED vars, NEW p \in Pkgs PROVE Current(p)
  BY <1>2 DEF vars
<1>3. Inv /\ [Next]_vars => [\A p \in Pkgs : Current(p)]_vars
  BY <1>1, <1>2
<1> QED
  BY <1>3, AlwaysInv, PTL DEF Spec, ReportedVersionIsCurrent

(* ValidateDelete protects what an installed package that the user chose   *)
(* requires.                                                               *)
LEMMA ValidateDeleteProtects ==
  ASSUME NEW d \in Pkgs \ Namespaced, NEW x \in Installed(pkg) \ {d}, ~pkg[x].dependency,
         ValidateDelete(pkg, d)
  PROVE  d \notin Needs(pkg, x)
<1>1. x \in Kept(pkg, d)
  <2>1. {x} \in SUBSET (Installed(pkg) \ {d})
    OBVIOUS
  <2>2. \A y \in {x} : ~pkg[y].dependency \/ \E z \in {x} : y \in Needs(pkg, z)
    OBVIOUS
  <2> QED
    BY <2>1, <2>2 DEF Kept
<1> QED
  BY <1>1 DEF ValidateDelete

(* With a current cache no step, of a user or of a reconciliation that     *)
(* prunes, begins the deletion of a cluster-scoped package that a package  *)
(* the user installed requires (ValidateDelete, pruneOwnedPackages).       *)
THEOREM NeededPackages == Spec => NeededPackagesStay
<1> DEFINE Stays(d, x) == (pkg'[d].deleting /\ ~pkg[d].deleting /\ x # d /\ x \in Installed(pkg)
                             /\ ~pkg[x].dependency) => d \notin Needs(pkg, x)
           AllStay == cache = pkg => \A d \in Pkgs \ Namespaced, x \in Pkgs : Stays(d, x)
<1>1. ASSUME Inv, Next, cache = pkg, NEW d \in Pkgs \ Namespaced, NEW x \in Pkgs PROVE Stays(d, x)
  <2> SUFFICES ASSUME pkg'[d].deleting, ~pkg[d].deleting, x # d, x \in Installed(pkg), ~pkg[x].dependency
               PROVE  d \notin Needs(pkg, x)
    OBVIOUS
  <2>1. pkg \in [Pkgs -> Object]
    BY <1>1 DEF Inv, ObjectsInv
  <2>2. ASSUME NEW c, Writes(c) PROVE FALSE
    BY <2>1, <2>2, WriteEffect
  <2>3. ASSUME NEW p \in Pkgs, NEW o, Creates(p, o) \/ Edits(p, o) PROVE FALSE
    <3>1. ASSUME Creates(p, o) PROVE ~o.deleting /\ pkg' = [pkg EXCEPT ![p] = o]
      BY <3>1, NewFields DEF Creates
    <3>2. ASSUME Edits(p, o) PROVE o.deleting = pkg[p].deleting /\ pkg' = [pkg EXCEPT ![p] = o]
      BY <3>2 DEF Edits
    <3> QED
      BY <2>1, <2>3, <3>1, <3>2
  <2>4. ASSUME NEW S, Deletes(S) PROVE d \notin Needs(pkg, x)
    <3>1. d \in S
      BY <2>4 DEF Deletes, deletePackages
    <3>2. ValidateDelete(pkg, d)
      BY <1>1, <2>4, <3>1 DEF Deletes
    <3> QED
      BY <3>2, ValidateDeleteProtects
  <2>5. ASSUME NEW p \in Pkgs, NEW S \in SUBSET Namespaced, Collects(p, S) PROVE FALSE
    <3>1. pkg'[d] \in {absent, pkg[d]}
      BY <2>5 DEF Collects
    <3> QED
      BY <3>1, AbsentFields
  <2>6. pkg' # pkg
    OBVIOUS
  <2> QED
    BY <1>1, <2>2, <2>3, <2>4, <2>5, <2>6, StepKinds
<1>2. ASSUME UNCHANGED vars PROVE AllStay
  BY <1>2 DEF vars
<1>3. Inv /\ [Next]_vars => [AllStay]_vars
  BY <1>1, <1>2
<1> QED
  BY <1>3, AlwaysInv, PTL DEF Spec, NeededPackagesStay

(* With a current cache no step deletes the PackageInfo of an installed    *)
(* package that has recorded it, unless a reconciliation of that package   *)
(* itself is under way: pruneOwnedPackageInfos finds the other owner.      *)
THEOREM NeededInfos == Spec => NeededInfosStay
<1> DEFINE Stays(k, x) == (/\ info[k] # "absent"
                           /\ PackageInfoName(x, pkg[x].version) = k
                           /\ k \in pkg[x].status.ownedInfos) => info'[k] # "absent"
           AllStay == cache = pkg => \A k \in Infos, x \in Installed(pkg) \ {ctx[w].p : w \in Controllers} :
                                        Stays(k, x)
<1>1. ASSUME Inv, Next, cache = pkg, NEW k \in Infos,
             NEW x \in Installed(pkg) \ {ctx[w].p : w \in Controllers}
      PROVE  Stays(k, x)
  <2> SUFFICES ASSUME info[k] # "absent", k \in pkg[x].status.ownedInfos PROVE info'[k] # "absent"
    OBVIOUS
  <2>1. info \in [Infos -> InfoStates] /\ x \in Pkgs /\ pkg[x].version # None
    BY <1>1 DEF Inv, RestOK, Installed
  <2>2. ASSUME NEW w \in Controllers, NEW all, info' = prunedInfos(ctx[w], all) PROVE info'[k] # "absent"
    <3>1. x # ctx[w].p
      OBVIOUS
    <3>2. infoStillUsed(ctx[w], k)
      BY <1>1, <2>1, <3>1 DEF infoStillUsed
    <3> QED
      BY <2>2, <3>2 DEF prunedInfos
  <2>3. ASSUME NEW w \in Controllers, NEW gone, NEW infos, NEW packages, NEW failed,
               cleanup(w, gone, infos, packages, failed)
        PROVE  info' = info \/ info' = prunedInfos(ctx[w], FALSE)
    BY <2>3 DEF cleanup
  <2>4. ASSUME NEW w \in Controllers, Reconcile(w) PROVE info'[k] # "absent"
    <3>1. ASSUME EnsurePackageInfo(w) PROVE info'[k] # "absent"
      BY <2>1, <3>1 DEF EnsurePackageInfo
    <3>2. ASSUME AfterDeletion(w) PROVE info' = info \/ info' = prunedInfos(ctx[w], TRUE)
      BY <3>2 DEF AfterDeletion
    <3>3. ASSUME Cleanup(w) PROVE info' = info \/ info' = prunedInfos(ctx[w], FALSE)
      BY <2>3, <3>3 DEF Cleanup
    <3>4. ASSUME \/ EnsureDependencies(w) \/ CheckDependencies(w) \/ RunAdapters(w) \/ Update(w)
                 \/ \E d \in Pkgs : CreateRequirement(w, d) \/ HandleRequired(w, d)
          PROVE  info' = info
      BY <3>4 DEF EnsureDependencies, CheckDependencies, RunAdapters, Update, CreateRequirement,
                  HandleRequired
    <3> QED
      BY <2>2, <2>4, <3>1, <3>2, <3>3, <3>4 DEF Reconcile
  <2>5. ASSUME NEW w \in Controllers, CleanupFails(w) PROVE info'[k] # "absent"
    BY <2>2, <2>3, <2>5 DEF CleanupFails
  <2>6. ASSUME NEW l \in Infos, SyncInfoOk(l) \/ SyncInfoFails(l) PROVE info'[k] # "absent"
    BY <2>1, <2>6 DEF SyncInfoOk, SyncInfoFails, SyncInfo
  <2>7. ASSUME \/ \E w \in Controllers : AdaptersNotReady(w) \/ CallFails(w)
               \/ \E w \in Controllers, p \in Pkgs : Start(w, p)
               \/ \E p \in Pkgs : Sync(p) \/ Collect(p) \/ User(p)
               \/ Crash
        PROVE  info' = info
    BY <2>7 DEF AdaptersNotReady, CallFails, Start, SkipReconcile, BeginReconcile,
                BeginAfterDeletion, Begin, Sync, Collect, User, UserInstall, UserUpdate, UserConfigure,
                UserSuspend, UserUninstall, Request, Crash
  <2> QED
    BY <1>1, <2>4, <2>5, <2>6, <2>7 DEF Next
<1>2. ASSUME UNCHANGED vars PROVE AllStay
  BY <1>2 DEF vars
<1>3. Inv /\ [Next]_vars => [AllStay]_vars
  BY <1>1, <1>2
<1> QED
  BY <1>3, AlwaysInv, PTL DEF Spec, NeededInfosStay

-----------------------------------------------------------------------------
(* The refinement of PackageLife.                                          *)

(* The abstract state of one stored object.                                *)
PhaseOf(o) ==
  CASE o.version = None -> "absent"
    [] o.version # None /\ o.deleting -> "leaving"
    [] o.version # None /\ ~o.deleting /\ o.status.cond = "ready" -> "ready"
    [] OTHER -> "installing"

Records(o) == o.status.ownedPackages \cup o.status.ownedInfos # {}

Phases(objects) == [p \in Pkgs |-> PhaseOf(objects[p])]

HeldIn(objects) == {p \in Pkgs : objects[p].finalizer}

RecordedIn(objects) == {p \in Pkgs : Records(objects[p])}

LEMMA Mapping ==
  /\ [p \in Pkgs |-> phaseOf(p)] = Phases(pkg)
  /\ {p \in Pkgs : pkg[p].finalizer} = HeldIn(pkg)
  /\ {p \in Pkgs : pkg[p].status.ownedPackages \cup pkg[p].status.ownedInfos # {}} = RecordedIn(pkg)
  /\ [p \in Pkgs |-> phaseOf(p)]' = Phases(pkg')
  /\ {p \in Pkgs : pkg[p].finalizer}' = HeldIn(pkg')
  /\ {p \in Pkgs : pkg[p].status.ownedPackages \cup pkg[p].status.ownedInfos # {}}' = RecordedIn(pkg')
BY DEF phaseOf, PhaseOf, Phases, HeldIn, RecordedIn, Records

(* Phases of single objects.                                               *)
LEMMA PhaseFacts ==
  ASSUME NEW o
  PROVE  /\ o.version = None => PhaseOf(o) = "absent"
         /\ o.version # None /\ o.deleting => PhaseOf(o) = "leaving"
         /\ o.version # None /\ ~o.deleting => PhaseOf(o) \in {"installing", "ready"}
         /\ o.version # None /\ ~o.deleting /\ o.status.cond # "ready" => PhaseOf(o) = "installing"
         /\ PhaseOf(o) = "ready" => o.status.cond = "ready"
         /\ PhaseOf(o) # "absent" => o.version # None
BY DEF PhaseOf

(* A change of one object changes the abstract state of that one.          *)
LEMMA PointChange ==
  ASSUME pkg \in [Pkgs -> Object], NEW p \in Pkgs, \A x \in Pkgs \ {p} : pkg'[x] = pkg[x]
  PROVE  /\ Phases(pkg') = [Phases(pkg) EXCEPT ![p] = PhaseOf(pkg'[p])]
         /\ pkg'[p].finalizer => HeldIn(pkg') = HeldIn(pkg) \cup {p}
         /\ ~pkg'[p].finalizer => HeldIn(pkg') = HeldIn(pkg) \ {p}
         /\ Records(pkg'[p]) => RecordedIn(pkg') = RecordedIn(pkg) \cup {p}
         /\ ~Records(pkg'[p]) => RecordedIn(pkg') = RecordedIn(pkg) \ {p}
         /\ Phases(pkg)[p] = PhaseOf(pkg[p])
         /\ p \in HeldIn(pkg) <=> pkg[p].finalizer
         /\ p \in RecordedIn(pkg) <=> Records(pkg[p])
<1>1. Phases(pkg') = [Phases(pkg) EXCEPT ![p] = PhaseOf(pkg'[p])]
  BY DEF Phases
<1>2. /\ pkg'[p].finalizer => HeldIn(pkg') = HeldIn(pkg) \cup {p}
      /\ ~pkg'[p].finalizer => HeldIn(pkg') = HeldIn(pkg) \ {p}
  BY DEF HeldIn
<1>3. /\ Records(pkg'[p]) => RecordedIn(pkg') = RecordedIn(pkg) \cup {p}
      /\ ~Records(pkg'[p]) => RecordedIn(pkg') = RecordedIn(pkg) \ {p}
  <2>1. \A x \in Pkgs \ {p} : x \in RecordedIn(pkg') <=> x \in RecordedIn(pkg)
    BY DEF RecordedIn
  <2>2. p \in RecordedIn(pkg') <=> Records(pkg'[p])
    BY DEF RecordedIn
  <2>3. RecordedIn(pkg) \subseteq Pkgs /\ RecordedIn(pkg') \subseteq Pkgs
    BY DEF RecordedIn
  <2> QED
    BY <2>1, <2>2, <2>3
<1>4. /\ Phases(pkg)[p] = PhaseOf(pkg[p])
      /\ p \in HeldIn(pkg) <=> pkg[p].finalizer
      /\ p \in RecordedIn(pkg) <=> Records(pkg[p])
  BY DEF Phases, HeldIn, RecordedIn
<1> QED
  BY <1>1, <1>2, <1>3, <1>4

LEMMA CreateLife ==
  ASSUME Inv, NEW p \in Pkgs, NEW o, Creates(p, o)
  PROVE  Life!Appear(p)
<1>1. /\ pkg \in [Pkgs -> Object] /\ pkg[p] = absent
  BY DEF Inv, ObjectsInv, ObjectInv, Creates
<1>2. /\ pkg' = [pkg EXCEPT ![p] = o]
      /\ o.version # None /\ ~o.deleting /\ ~o.finalizer /\ o.status = noStatus
  BY NewFields, ConstantsAssumption DEF Creates
<1>3. /\ \A x \in Pkgs \ {p} : pkg'[x] = pkg[x]
      /\ pkg'[p] = o
  BY <1>1, <1>2
<1>4. /\ PhaseOf(o) = "installing" /\ PhaseOf(pkg[p]) = "absent"
      /\ ~Records(o) /\ ~Records(pkg[p]) /\ ~pkg[p].finalizer
  <2>1. noStatus.cond # "ready" /\ noStatus.ownedPackages = {} /\ noStatus.ownedInfos = {}
    BY DEF noStatus
  <2> QED
    BY <1>1, <1>2, <2>1, PhaseFacts, AbsentFields DEF Records
<1>5. /\ Phases(pkg') = [Phases(pkg) EXCEPT ![p] = "installing"]
      /\ Phases(pkg)[p] = "absent"
      /\ HeldIn(pkg') = HeldIn(pkg) /\ RecordedIn(pkg') = RecordedIn(pkg)
  <2>1. /\ Phases(pkg') = [Phases(pkg) EXCEPT ![p] = PhaseOf(pkg'[p])]
        /\ HeldIn(pkg') = HeldIn(pkg) \ {p} /\ p \notin HeldIn(pkg)
        /\ RecordedIn(pkg') = RecordedIn(pkg) \ {p} /\ p \notin RecordedIn(pkg)
        /\ Phases(pkg)[p] = PhaseOf(pkg[p])
    BY <1>1, <1>2, <1>3, <1>4, PointChange
  <2> QED
    BY <1>3, <1>4, <2>1
<1> QED
  BY <1>5, Mapping DEF Life!Appear

LEMMA EditLife ==
  ASSUME Inv, NEW p \in Pkgs, NEW o, Edits(p, o)
  PROVE  UNCHANGED <<Phases(pkg), HeldIn(pkg), RecordedIn(pkg)>>
<1>1. pkg \in [Pkgs -> Object]
  BY DEF Inv, ObjectsInv
<1>2. /\ \A x \in Pkgs \ {p} : pkg'[x] = pkg[x]
      /\ pkg'[p].status = pkg[p].status /\ pkg'[p].finalizer = pkg[p].finalizer
      /\ pkg'[p].deleting = pkg[p].deleting /\ pkg'[p].version # None /\ pkg[p].version # None
  BY <1>1 DEF Edits
<1>3. PhaseOf(pkg'[p]) = PhaseOf(pkg[p]) /\ Records(pkg'[p]) = Records(pkg[p])
  BY <1>2 DEF PhaseOf, Records
<1>4. \A x \in Pkgs : PhaseOf(pkg'[x]) = PhaseOf(pkg[x]) /\ Records(pkg'[x]) = Records(pkg[x])
                      /\ pkg'[x].finalizer = pkg[x].finalizer
  BY <1>2, <1>3
<1> QED
  BY <1>4 DEF Phases, HeldIn, RecordedIn

LEMMA DeleteLife ==
  ASSUME Inv, NEW S, Deletes(S)
  PROVE  Life!Leave(S \cap Pkgs)
<1>1. pkg \in [Pkgs -> Object]
  BY DEF Inv, ObjectsInv
<1>2. ASSUME NEW x \in Pkgs
      PROVE  /\ PhaseOf(pkg'[x]) = IF x \in S /\ PhaseOf(pkg[x]) # "absent" THEN "leaving"
                                   ELSE PhaseOf(pkg[x])
             /\ pkg'[x].finalizer = pkg[x].finalizer /\ pkg'[x].status = pkg[x].status
  <2>1. pkg'[x] = IF x \in S /\ pkg[x].version # None
                  THEN [pkg[x] EXCEPT !.deleting = TRUE] ELSE pkg[x]
    BY DEF Deletes, deletePackages
  <2>2. /\ pkg'[x].version = pkg[x].version /\ pkg'[x].status = pkg[x].status
        /\ pkg'[x].finalizer = pkg[x].finalizer
        /\ x \in S /\ pkg[x].version # None => pkg'[x].deleting
    BY <1>1, <2>1, DeleteEffect DEF Object
  <2>3. CASE x \in S /\ pkg[x].version # None
    BY <2>2, <2>3, PhaseFacts
  <2>4. CASE ~(x \in S /\ pkg[x].version # None)
    BY <2>1, <2>4, PhaseFacts
  <2> QED
    BY <2>2, <2>3, <2>4
<1>3. Phases(pkg') = [p \in Pkgs |-> IF p \in S \cap Pkgs /\ Phases(pkg)[p] # "absent" THEN "leaving"
                                     ELSE Phases(pkg)[p]]
  BY <1>2 DEF Phases
<1>4. HeldIn(pkg') = HeldIn(pkg) /\ RecordedIn(pkg') = RecordedIn(pkg)
  BY <1>2 DEF HeldIn, RecordedIn, Records
<1> QED
  BY <1>3, <1>4, Mapping DEF Life!Leave, Life!Leaving

LEMMA CollectLife ==
  ASSUME Inv, NEW p \in Pkgs, NEW S \in SUBSET Pkgs, Collects(p, S)
  PROVE  Life!Vanish(p, S \ {p})
<1>1. pkg \in [Pkgs -> Object] /\ (pkg[p].version = None => pkg[p] = absent)
  BY DEF Inv, ObjectsInv, ObjectInv
<1>2. pkg[p].deleting /\ ~pkg[p].finalizer /\ pkg[p].version # None /\ PhaseOf(pkg[p]) = "leaving"
  BY <1>1, AbsentFields, PhaseFacts DEF Collects
<1>3. ASSUME NEW x \in Pkgs \ {p}
      PROVE  /\ PhaseOf(pkg'[x]) = IF x \in S /\ PhaseOf(pkg[x]) # "absent" THEN "leaving"
                                   ELSE PhaseOf(pkg[x])
             /\ pkg'[x].finalizer = pkg[x].finalizer /\ pkg'[x].status = pkg[x].status
  <2>1. pkg'[x] = IF x \in S /\ pkg[x].version # None
                  THEN [pkg[x] EXCEPT !.deleting = TRUE] ELSE pkg[x]
    BY DEF Collects
  <2>2. /\ pkg'[x].version = pkg[x].version /\ pkg'[x].status = pkg[x].status
        /\ pkg'[x].finalizer = pkg[x].finalizer
        /\ x \in S /\ pkg[x].version # None => pkg'[x].deleting
    BY <1>1, <2>1, DeleteEffect DEF Object
  <2>3. CASE x \in S /\ pkg[x].version # None
    BY <2>2, <2>3, PhaseFacts
  <2>4. CASE ~(x \in S /\ pkg[x].version # None)
    BY <2>1, <2>4, PhaseFacts
  <2> QED
    BY <2>2, <2>3, <2>4
<1>4. pkg'[p] = absent /\ PhaseOf(absent) = "absent" /\ ~Records(absent) /\ ~absent.finalizer
  BY AbsentFields, PhaseFacts DEF Collects, Records, noStatus
<1> DEFINE ph == [Phases(pkg) EXCEPT ![p] = "absent"]
<1>5. \A x \in Pkgs : ph[x] = IF x = p THEN "absent" ELSE PhaseOf(pkg[x])
  BY DEF Phases
<1> HIDE DEF ph
<1>6. Phases(pkg') = [x \in Pkgs |-> IF x \in S \ {p} /\ ph[x] # "absent" THEN "leaving" ELSE ph[x]]
  BY <1>3, <1>4, <1>5 DEF Phases
<1>7. /\ HeldIn(pkg') = HeldIn(pkg) /\ p \notin HeldIn(pkg)
      /\ RecordedIn(pkg') = RecordedIn(pkg) \ {p}
      /\ Phases(pkg)[p] = "leaving"
  BY <1>2, <1>3, <1>4 DEF HeldIn, RecordedIn, Records, Phases
<1> QED
  BY <1>6, <1>7, Mapping DEF Life!Vanish, Life!Leaving, ph

(* The write of a reconciliation: progress or the finalizer while the      *)
(* package is installed; giving up what is recorded, then letting go, once *)
(* it is being deleted.                                                    *)
LEMMA WriteLife ==
  ASSUME Inv, NEW c, Writes(c)
  PROVE  \/ \E next \in {"installing", "ready"} : Life!Progress(c.p, next)
         \/ Life!Hold(c.p) \/ Life!GiveUp(c.p) \/ Life!LetGo(c.p)
         \/ UNCHANGED <<Phases(pkg), HeldIn(pkg), RecordedIn(pkg)>>
<1> DEFINE p == c.p
<1>1. pkg \in [Pkgs -> Object] /\ p \in Pkgs
  BY DEF Inv, ObjectsInv, Writes
<1>2. /\ \A x \in Pkgs \ {p} : pkg'[x] = pkg[x]
      /\ pkg[p].version # None
      /\ pkg'[p].version = pkg[p].version
      /\ pkg'[p].deleting = pkg[p].deleting
      /\ \/ /\ pkg'[p].status = c.obj.status
            /\ pkg'[p].finalizer = pkg[p].finalizer
         \/ /\ pkg'[p].status = pkg[p].status
            /\ pkg'[p].finalizer = c.obj.finalizer
            /\ c.shouldUpdateResource /\ ~c.shouldUpdateStatus
  BY <1>1, WriteEffect, ConstantsAssumption
<1>3. /\ pkg[p] = c.base /\ c.pc = "update" /\ ContextInv(c)
      /\ ~c.shouldUpdateStatus => c.obj.status = c.base.status
      /\ IF c.base.deleting THEN Deleting(c) ELSE Installing(c)
  BY DEF Writes, ContextInv
<1>p. /\ Phases(pkg') = [Phases(pkg) EXCEPT ![p] = PhaseOf(pkg'[p])]
      /\ pkg'[p].finalizer => HeldIn(pkg') = HeldIn(pkg) \cup {p}
      /\ ~pkg'[p].finalizer => HeldIn(pkg') = HeldIn(pkg) \ {p}
      /\ Records(pkg'[p]) => RecordedIn(pkg') = RecordedIn(pkg) \cup {p}
      /\ ~Records(pkg'[p]) => RecordedIn(pkg') = RecordedIn(pkg) \ {p}
      /\ Phases(pkg)[p] = PhaseOf(pkg[p])
      /\ p \in HeldIn(pkg) <=> pkg[p].finalizer
      /\ p \in RecordedIn(pkg) <=> Records(pkg[p])
  BY <1>1, <1>2, PointChange
<1>q. Phases(pkg) = [x \in Pkgs |-> Phases(pkg)[x]]
  BY DEF Phases
<1>4. CASE ~c.base.deleting
  <2>1. Installing(c) /\ c.obj.finalizer /\ c.obj.status.ownedInfos # {}
    BY <1>3, <1>4 DEF Installing
  <2>2. PhaseOf(pkg[p]) \in {"installing", "ready"} /\ PhaseOf(pkg'[p]) \in {"installing", "ready"}
    BY <1>2, <1>3, <1>4, PhaseFacts
  <2>3. CASE pkg'[p].status = c.obj.status /\ pkg'[p].finalizer = pkg[p].finalizer
    <3>1. Records(pkg'[p])
      BY <2>1, <2>3 DEF Records
    <3>2. HeldIn(pkg') = HeldIn(pkg) /\ RecordedIn(pkg') = RecordedIn(pkg) \cup {p}
      BY <1>p, <2>3, <3>1
    <3>3. PICK next \in {"installing", "ready"} : next = PhaseOf(pkg'[p])
      BY <2>2
    <3>4. Life!Progress(p, next)
      BY <1>p, <2>2, <3>2, <3>3, Mapping DEF Life!Progress
    <3> QED
      BY <3>4
  <2>4. CASE pkg'[p].status = pkg[p].status /\ pkg'[p].finalizer = c.obj.finalizer
    <3>1. PhaseOf(pkg'[p]) = PhaseOf(pkg[p]) /\ Records(pkg'[p]) = Records(pkg[p])
      BY <1>2, <2>4 DEF PhaseOf, Records
    <3>2. HeldIn(pkg') = HeldIn(pkg) \cup {p}
      BY <1>p, <2>1, <2>4
    <3>3. Phases(pkg') = Phases(pkg)
      BY <1>p, <1>q, <3>1
    <3>4. RecordedIn(pkg') = RecordedIn(pkg)
      BY <1>p, <3>1
    <3>5. Life!Hold(p)
      BY <1>p, <2>2, <3>2, <3>3, <3>4, Mapping DEF Life!Hold
    <3> QED
      BY <3>5
  <2> QED
    BY <1>2, <2>3, <2>4
<1>5. CASE c.base.deleting
  <2>1. Deleting(c)
    BY <1>3, <1>5
  <2>2. PhaseOf(pkg[p]) = "leaving" /\ PhaseOf(pkg'[p]) = "leaving"
    BY <1>2, <1>3, <1>5, PhaseFacts
  <2>3. Phases(pkg') = Phases(pkg)
    BY <1>p, <1>q, <2>2
  <2>4. CASE pkg'[p].status = c.obj.status /\ pkg'[p].finalizer = pkg[p].finalizer
    <3>1. Records(pkg'[p]) => Records(pkg[p])
      BY <1>3, <2>1, <2>4 DEF Deleting, Records
    <3>2. HeldIn(pkg') = HeldIn(pkg)
      BY <1>p, <2>4
    <3>3. CASE Records(pkg'[p]) \/ ~Records(pkg[p])
      <4>1. RecordedIn(pkg') = RecordedIn(pkg)
        BY <1>p, <3>1, <3>3
      <4> QED
        BY <2>3, <3>2, <4>1
    <3>4. CASE ~Records(pkg'[p]) /\ Records(pkg[p])
      <4>1. pkg[p].finalizer
        BY <1>3, <2>1, <2>4, <3>4 DEF Deleting, Records
      <4>2. Life!GiveUp(p)
        BY <1>p, <2>2, <2>3, <3>2, <3>4, <4>1, Mapping DEF Life!GiveUp
      <4> QED
        BY <4>2
    <3> QED
      BY <3>3, <3>4
  <2>5. CASE /\ pkg'[p].status = pkg[p].status /\ pkg'[p].finalizer = c.obj.finalizer
             /\ c.shouldUpdateResource /\ ~c.shouldUpdateStatus
    <3>1. /\ ~c.obj.finalizer
          /\ ~Records(pkg'[p]) /\ ~Records(pkg[p])
      BY <1>3, <2>1, <2>5 DEF Deleting, Records
    <3>2. /\ HeldIn(pkg') = HeldIn(pkg) \ {p} /\ p \notin RecordedIn(pkg)
          /\ RecordedIn(pkg') = RecordedIn(pkg)
      BY <1>p, <2>5, <3>1
    <3>3. Life!LetGo(p)
      BY <1>p, <2>2, <2>3, <3>2, Mapping DEF Life!LetGo
    <3> QED
      BY <3>3
  <2> QED
    BY <1>2, <2>4, <2>5
<1> QED
  BY <1>4, <1>5

(* Every step of the operator, of its users and of the cluster is a step   *)
(* of PackageLife or leaves the abstract state alone.                      *)
LEMMA LifeStep == Inv /\ [Next]_vars => [Life!Next]_(Life!vars)
<1> SUFFICES ASSUME Inv, [Next]_vars PROVE Life!Next \/ UNCHANGED Life!vars
  OBVIOUS
<1>1. ASSUME UNCHANGED <<Phases(pkg), HeldIn(pkg), RecordedIn(pkg)>> PROVE UNCHANGED Life!vars
  BY <1>1, Mapping DEF Life!vars
<1>2. ASSUME pkg' = pkg PROVE UNCHANGED <<Phases(pkg), HeldIn(pkg), RecordedIn(pkg)>>
  BY <1>2 DEF Phases, HeldIn, RecordedIn
<1>3. ASSUME NEW c, Writes(c) PROVE Life!Next \/ UNCHANGED Life!vars
  <2>1. c.p \in Pkgs
    BY <1>3 DEF Writes
  <2> QED
    BY <1>1, <1>3, <2>1, WriteLife DEF Life!Next
<1>4. ASSUME NEW p \in Pkgs, NEW o, Creates(p, o) \/ Edits(p, o) PROVE Life!Next \/ UNCHANGED Life!vars
  BY <1>1, <1>4, CreateLife, EditLife DEF Life!Next
<1>5. ASSUME NEW S, Deletes(S) PROVE Life!Next
  BY <1>5, DeleteLife DEF Life!Next
<1>6. ASSUME NEW p \in Pkgs, NEW S \in SUBSET Namespaced, Collects(p, S) PROVE Life!Next
  <2>1. S \in SUBSET Pkgs /\ S \ {p} \in SUBSET Pkgs
    BY ConstantsAssumption
  <2> QED
    BY <1>6, <2>1, CollectLife DEF Life!Next
<1>7. CASE UNCHANGED vars
  BY <1>1, <1>2, <1>7 DEF vars
<1> QED
  BY <1>1, <1>2, <1>3, <1>4, <1>5, <1>6, <1>7, StepKinds

(* The operator implements PackageLife, for any packages, manifests and    *)
(* number of controllers, with stale caches, failures, crashes and         *)
(* concurrent requests: a deletion is never undone, a package that is      *)
(* being deleted is not taken hold of again, and one that is held vanishes *)
(* only after everything its status records has been given up              *)
(* (reconcileAfterDeletion, actualFinalize).                               *)
THEOREM LifeRefinement == Spec => ImplementsPackageLife
<1>1. Init => Life!Init
  <2>1. ASSUME Init PROVE /\ Phases(pkg) = [p \in Pkgs |-> "absent"]
                          /\ HeldIn(pkg) = {} /\ RecordedIn(pkg) = {}
    <3>1. /\ PhaseOf(absent) = "absent" /\ ~absent.finalizer /\ ~Records(absent)
      BY AbsentFields, PhaseFacts DEF Records, noStatus
    <3>2. \A p \in Pkgs : pkg[p] = absent
      BY <2>1 DEF Init
    <3> QED
      BY <3>1, <3>2 DEF Phases, HeldIn, RecordedIn
  <2> QED
    BY <2>1, Mapping DEF Life!Init
<1> QED
  BY <1>1, LifeStep, AlwaysInv, PTL DEF Spec, ImplementsPackageLife, Life!Spec
=============================================================================
