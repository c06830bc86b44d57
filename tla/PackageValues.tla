---------------------------- MODULE PackageValues ----------------------------
(***************************************************************************)
(* How the values of a package reach the cluster: a value is a literal or  *)
(* a reference to a key of a ConfigMap or Secret or to the value of a      *)
(* ClusterPackage.  The operator resolves them one call at a time, checks  *)
(* them against the definitions of the manifest (internal/manifestvalues), *)
(* makes patches of them (internal/resourcepatch) and hands these to the   *)
(* adapters that apply plain manifests and Helm releases                   *)
(* (internal/manifest), while users change values and keys.                *)
(*                                                                         *)
(* An object on the cluster is the value at the one place that patches     *)
(* change.  The Package and the ClusterPackage controller reconcile one    *)
(* package each at a time.  What they write to its status is part of the   *)
(* module PackageController.                                               *)
(***************************************************************************)
EXTENDS Integers, Sequences, FiniteSets

CONSTANTS
  Pkgs,         \* the installed packages
  ClusterPkgs,  \* those that are ClusterPackages
  Names,        \* names of value definitions, in the order of maputils.KeysSorted
  Keys,         \* keys of ConfigMaps and Secrets
  Literals,     \* strings
  Length,       \* of each literal
  Number,       \* of each literal that strconv.Atoi accepts, or None
  Booleans,     \* the literals that strconv.ParseBool accepts
  Def,          \* the definition of each name
  Manifests,    \* the plain manifests of each package: sequences of objects
  HelmPkgs,     \* the packages with a Helm chart
  Targets,      \* the names whose patches change an object, or the release
  Release,      \* the HelmRelease
  None, Unset,
  Default,      \* what the manifest says where no patch applies
  InitialSpec,  \* the values of the packages at first
  InitialData,  \* and the data behind the keys
  MaxDepth,     \* how deep the stack of the operator can get
  MaxTries,     \* retry.DefaultRetry
  MaxEdits,     \* bound on changes of values
  MaxChanges,   \* bound on changes of the data behind keys
  MaxFaults     \* bound on failing calls and on conditions that change back

NameSet == {Names[i] : i \in 1..Len(Names)}

Types == {"text", "number", "options", "boolean"}

\* The values that others can refer to.
Nodes == ClusterPkgs \X NameSet

\* The stack takes every chain of references that users can build.
ASSUME PackageValuesAssumption ==
  /\ ClusterPkgs \subseteq Pkgs /\ HelmPkgs \subseteq Pkgs
  /\ IsFiniteSet(ClusterPkgs) /\ Names \in Seq(NameSet)
  /\ None \notin Literals /\ Default \notin Literals
  /\ Length \in [Literals -> Nat]
  /\ Booleans \subseteq Literals
  /\ \A n \in NameSet : Def[n].type \in Types /\ Def[n].options \subseteq Literals /\ Def[n].required \in BOOLEAN
  /\ {MaxDepth, MaxTries, MaxEdits, MaxChanges, MaxFaults} \subseteq Nat /\ MaxTries # 0
  /\ MaxDepth > Cardinality(Nodes) * (MaxEdits + 1)

VARIABLES
  spec,    \* spec.values of each package
  data,    \* the data behind each key
  rec,     \* the reconciliation each controller is in
  obj,     \* the objects of each package on the cluster
  release, \* the HelmRelease of each package, and what Flux made of it
  count,   \* edits, changes of data and faults so far
  cyclic,  \* history: there were values that refer to themselves
  crashed  \* history: the operator ran out of stack

vars == <<spec, data, rec, obj, release, count, cyclic, crashed>>

Literal(v) == [kind |-> "literal", value |-> v]

KeyRef(k) == [kind |-> "key", key |-> k]

PackageRef(q, n) == [kind |-> "package", pkg |-> q, name |-> n]

Sources ==
  {Literal(v) : v \in Literals} \union {KeyRef(k) : k \in Keys} \union {PackageRef(q, n) : q \in ClusterPkgs, n \in NameSet}

Values == [NameSet -> Sources \union {Unset}]

ControllerOf(p) == IF p \in ClusterPkgs THEN "clusterpackage" ELSE "package"

Controllers == {"package", "clusterpackage"}

Idle == [pc |-> "idle", pkg |-> None, values |-> None, resolved |-> None, todo |-> {}, name |-> None, cur |-> None,
         depth |-> 0, manifest |-> 0, left |-> <<>>, fresh |-> TRUE, tries |-> 0, errs |-> FALSE, results |-> {}]

Objects(p) == UNION {{Manifests[p][i][j] : j \in 1..Len(Manifests[p][i])} : i \in 1..Len(Manifests[p])}

ASSUME InitialAssumption ==
  /\ InitialSpec \in [Pkgs -> Values]
  /\ InitialData \in [Keys -> Literals \union {Unset}]
  /\ \A p \in Pkgs : Manifests[p] \in Seq(Seq(Objects(p)) \ {<<>>})

\* Values refer to themselves: each of some values refers to one of them.
RefersTo(source, C) == source # Unset /\ source.kind = "package" /\ <<source.pkg, source.name>> \in C

IsCyclic(sp) == \E C \in SUBSET Nodes : C # {} /\ \A x \in C : RefersTo(sp[x[1]][x[2]], C)

NoRelease == [value |-> None, observed |-> None, ready |-> "unknown"]

Init ==
  /\ spec = InitialSpec
  /\ data = InitialData
  /\ rec = [c \in Controllers |-> Idle]
  /\ obj = [p \in Pkgs |-> [o \in Objects(p) |-> None]]
  /\ release = [p \in Pkgs |-> NoRelease]
  /\ count = [edits |-> 0, changes |-> 0, faults |-> 0]
  /\ cyclic = IsCyclic(spec) /\ crashed = FALSE

Counts(what, max) == count[what] < max /\ count' = [count EXCEPT ![what] = @ + 1]

Fault == Counts("faults", MaxFaults)

-----------------------------------------------------------------------------
(* Validation                                                              *)

\* validatorsForType and the functions it names.
ValidateSingle(n, v) ==
  LET d == Def[n]
      minLength == d.minLength # None => Length[v] >= d.minLength
      maxLength == d.maxLength # None => Length[v] <= d.maxLength
      pattern == d.pattern # None => v \in d.pattern
      formatNumber == Number[v] # None
      min == d.min # None => formatNumber /\ Number[v] >= d.min
      max == d.max # None => formatNumber /\ Number[v] <= d.max
  IN CASE d.type = "text" -> maxLength /\ minLength /\ pattern
       [] d.type = "number" -> formatNumber /\ min /\ max /\ pattern
       [] d.type = "options" -> v \in d.options
       [] d.type = "boolean" -> v \in Booleans

\* ValidateResolvedValues
ValidateResolvedValues(resolved) ==
  \A n \in NameSet : IF resolved[n] = Unset THEN ~Def[n].required ELSE ValidateSingle(n, resolved[n])

\* ValidatePackage, in the webhook: references are there, and that is all.
ValidatePackage(values) ==
  \A n \in NameSet :
    CASE values[n] = Unset -> ~Def[n].required
      [] values[n] # Unset /\ values[n].kind = "literal" -> ValidateSingle(n, values[n].value)
      [] OTHER -> TRUE

\* What a value comes to if nothing changes: Unset, also if it refers to nothing,
\* or None if it refers to itself.
Followed(sp, source) ==
  LET f[d \in 0..MaxDepth, s \in Sources \union {Unset}] ==
        CASE s = Unset -> Unset
          [] s # Unset /\ s.kind = "literal" -> s.value
          [] s # Unset /\ s.kind = "key" -> data[s.key]
          [] OTHER -> IF d = 0 THEN None ELSE f[d - 1, sp[s.pkg][s.name]]
  IN f[MaxDepth, source]

-----------------------------------------------------------------------------
(* Users                                                                   *)

\* install and configure, with ParseValues or Configure of the command line or
\* extractValues of the web form: a name gets another value, the others keep theirs,
\* and the webhook checks them all.  Changes of several names at once are several
\* such steps.
SetValue(p, n, source) ==
  /\ Counts("edits", MaxEdits)
  /\ spec[p][n] # source
  /\ spec' = [spec EXCEPT ![p][n] = source]
  /\ ValidatePackage(spec'[p])
  /\ cyclic' = (cyclic \/ IsCyclic(spec'))
  /\ UNCHANGED <<data, rec, obj, release, crashed>>

\* ConfigMaps and Secrets change as they like.
ChangeData(k, v) ==
  /\ Counts("changes", MaxChanges)
  /\ data[k] # v
  /\ data' = [data EXCEPT ![k] = v]
  /\ UNCHANGED <<spec, rec, obj, release, cyclic, crashed>>

-----------------------------------------------------------------------------
(* Resolving                                                               *)

user == <<spec, data, cyclic>>

cluster == <<obj, release>>

Set(c, r) == rec' = [rec EXCEPT ![c] = r]

\* reconcilePackageInfoReady begins with the package it read; literals need no call.
Begin(p) ==
  LET c == ControllerOf(p)
      references == {n \in NameSet : spec[p][n] # Unset /\ spec[p][n].kind # "literal"}
  IN /\ rec[c].pc = "idle"
     /\ Set(c, [Idle EXCEPT !.pc = "resolve", !.pkg = p, !.values = spec[p], !.todo = references,
                            !.resolved = [n \in NameSet |-> IF spec[p][n] # Unset /\ n \notin references
                                                            THEN spec[p][n].value ELSE Unset]])
     /\ UNCHANGED <<user, cluster, count, crashed>>

\* Resolve goes through the map in any order.
ResolveNext(c, n) ==
  /\ rec[c].pc = "resolve" /\ rec[c].cur = None
  /\ n \in rec[c].todo
  /\ Set(c, [rec[c] EXCEPT !.name = n, !.todo = @ \ {n}, !.cur = rec[c].values[n], !.depth = 1])
  /\ UNCHANGED <<user, cluster, count, crashed>>

\* Mutant of Resolved: the error is an interface around nil, which is not nil.
ResolvedTypedNil(c, v) ==
  Set(c, [rec[c] EXCEPT !.name = None, !.cur = None, !.depth = 0, !.errs = TRUE,
                        !.resolved = [@ EXCEPT ![rec[c].name] = v]])

\* The name is resolved; or it is not, which the other names do not notice.
Resolved(c, v) ==
  Set(c, [rec[c] EXCEPT !.name = None, !.cur = None, !.depth = 0, !.errs = @ \/ v = Unset,
                        !.resolved = [@ EXCEPT ![rec[c].name] = v]])

\* resolveConfigMapRef and resolveSecretRef
ResolveKeyRef(c) ==
  /\ rec[c].pc = "resolve" /\ rec[c].cur # None /\ rec[c].cur.kind = "key"
  /\ \/ Resolved(c, data[rec[c].cur.key]) /\ UNCHANGED count
     \/ Resolved(c, Unset) /\ Fault
  /\ UNCHANGED <<user, cluster, crashed>>

\* Mutant of ResolvePackageRef: the operator takes one reference within another
\* for a cycle, and its stack is full at once.
ResolvePackageRefDeep(c) ==
  /\ rec[c].pc = "resolve" /\ rec[c].cur # None /\ rec[c].cur.kind = "package"
  /\ LET s == spec[rec[c].cur.pkg][rec[c].cur.name]
     IN IF s = Unset THEN Resolved(c, Unset)
        ELSE Set(c, [rec[c] EXCEPT !.cur = s, !.depth = MaxDepth])
  /\ UNCHANGED <<user, cluster, count, crashed>>

\* resolvePackageRef reads the other package and resolves its value, which may be a
\* reference again.
ResolvePackageRef(c) ==
  /\ rec[c].pc = "resolve" /\ rec[c].cur # None /\ rec[c].cur.kind = "package"
  /\ rec[c].depth < MaxDepth
  /\ LET s == spec[rec[c].cur.pkg][rec[c].cur.name]
     IN \/ s = Unset /\ Resolved(c, Unset) /\ UNCHANGED count
        \/ /\ s # Unset
           /\ IF s.kind = "literal" THEN Resolved(c, s.value)
              ELSE Set(c, [rec[c] EXCEPT !.cur = s, !.depth = @ + 1])
           /\ UNCHANGED count
        \/ Resolved(c, Unset) /\ Fault
  /\ UNCHANGED <<user, cluster, crashed>>

\* The stack is full and the process ends, with whatever it was doing.
Overflow(c) ==
  /\ rec[c].pc = "resolve" /\ rec[c].cur # None /\ rec[c].cur.kind = "package"
  /\ rec[c].depth = MaxDepth
  /\ rec' = [d \in Controllers |-> Idle]
  /\ crashed' = TRUE
  /\ UNCHANGED <<user, cluster, count>>

\* The reconciliation ends and is requeued.
Finish(c) == Set(c, Idle)

\* Mutant of ResolveEnds: the values that could be resolved are used.
ResolveEndsAnyway(c) ==
  LET r == rec[c]
  IN /\ r.pc = "resolve" /\ r.cur = None /\ r.todo = {}
     /\ Set(c, [r EXCEPT !.pc = "prepare", !.values = None, !.manifest = 1, !.errs = FALSE])
     /\ UNCHANGED <<user, cluster, count, crashed>>

\* All values are resolved and valid, or nothing is done.  GeneratePatches may fail
\* in a template, and the transformations, which read another object, as well.
ResolveEnds(c) ==
  LET r == rec[c]
  IN /\ r.pc = "resolve" /\ r.cur = None /\ r.todo = {}
     /\ \/ /\ UNCHANGED count
           /\ IF r.errs \/ ~ValidateResolvedValues(r.resolved) THEN Finish(c)
              ELSE Set(c, [r EXCEPT !.pc = "prepare", !.values = None, !.manifest = 1])
        \/ Fault /\ Finish(c)
     /\ UNCHANGED <<user, cluster, crashed>>

-----------------------------------------------------------------------------
(* Applying                                                                *)

\* ApplyToResource and ApplyToHelmRelease: the patches that match an object change
\* it in the order of the names, and the last one wins.
Patched(o, resolved) ==
  LET given == {i \in 1..Len(Names) : Names[i] \in Targets[o] /\ resolved[Names[i]] # Unset}
      last == CHOOSE i \in given : \A j \in given : j <= i
  IN IF given = {} THEN Default ELSE resolved[Names[last]]

\* An adapter that fails does not keep the next one from running.
AfterPlain(r, errs, results) ==
  [r EXCEPT !.pc = IF r.pkg \in HelmPkgs THEN "helm" ELSE "finish", !.left = <<>>, !.manifest = 0,
            !.errs = @ \/ errs, !.results = @ \union results]

\* reconcilePlainManifest fetches the objects, sets namespaces and owners, patches
\* and prefixes them before anything is changed on the cluster.
Prepare(c) ==
  LET r == rec[c]
      n == r.manifest
  IN /\ r.pc = "prepare"
     /\ \/ /\ n <= Len(Manifests[r.pkg])
           /\ Set(c, [r EXCEPT !.pc = "apply", !.left = Manifests[r.pkg][n]])
           /\ UNCHANGED count
        \/ /\ n <= Len(Manifests[r.pkg])
           /\ Set(c, AfterPlain(r, TRUE, {}))
           /\ Fault
        \/ /\ n > Len(Manifests[r.pkg])
           /\ Set(c, IF n = 1 THEN AfterPlain(r, FALSE, {}) ELSE [r EXCEPT !.pc = "check"])
           /\ UNCHANGED count
     /\ UNCHANGED <<user, cluster, crashed>>

\* Server-side apply of one object after the other.  An error leaves the objects
\* before it changed.
ApplyObject(c) ==
  LET r == rec[c]
      o == Head(r.left)
      rest == IF Len(r.left) > 1 THEN [r EXCEPT !.left = Tail(@)]
              ELSE [r EXCEPT !.left = <<>>, !.manifest = @ + 1, !.pc = "prepare"]
  IN /\ r.pc = "apply"
     /\ \/ /\ obj' = [obj EXCEPT ![r.pkg][o] = Patched(o, r.resolved)]
           /\ Set(c, rest)
           /\ UNCHANGED count
        \/ Fault /\ Set(c, AfterPlain(r, TRUE, {})) /\ UNCHANGED obj
     /\ UNCHANGED <<user, release, crashed>>

\* The replicas of the workloads are all ready, or some are not, or an object cannot
\* be read.
CheckReady(c) ==
  LET r == rec[c]
  IN /\ r.pc = "check"
     /\ \/ \E result \in {"ready", "waiting"} : Set(c, AfterPlain(r, FALSE, {result})) /\ UNCHANGED count
        \/ Set(c, AfterPlain(r, TRUE, {})) /\ Fault
     /\ UNCHANGED <<user, cluster, crashed>>

\* ensureNamespace, unless the package has one, and ensureHelmRepository, in which no
\* value goes.  A namespace that is being deleted ends the adapter.
EnsureHelmRepository(c) ==
  LET r == rec[c]
  IN /\ r.pc = "helm"
     /\ \/ Set(c, [r EXCEPT !.pc = "get"]) /\ UNCHANGED count
        \/ /\ r.pkg \in ClusterPkgs
           /\ Set(c, [r EXCEPT !.pc = "finish", !.results = @ \union {"waiting"}])
           /\ Fault
        \/ Set(c, [r EXCEPT !.pc = "finish", !.errs = TRUE]) /\ Fault
     /\ UNCHANGED <<user, cluster, crashed>>

\* CreateOrUpdate reads the release ...
GetRelease(c) ==
  LET r == rec[c]
  IN /\ r.pc = "get"
     /\ \/ Set(c, [r EXCEPT !.pc = "put", !.fresh = TRUE, !.tries = @ + 1]) /\ UNCHANGED count
        \/ Set(c, [r EXCEPT !.pc = "finish", !.errs = TRUE]) /\ Fault
     /\ UNCHANGED <<user, cluster, crashed>>

\* extractResult
extractResult(condition) ==
  CASE condition = "true" -> {"ready"}
    [] condition = "false" -> {"failed", "waiting"}
    [] OTHER -> {"waiting"}

\* ... sets its values to those of the manifest, patched, and writes it if that
\* changes it.  After a conflict it begins again.  The condition is the one that was
\* read.
PutRelease(c) ==
  LET r == rec[c]
      p == r.pkg
      v == Patched(Release, r.resolved)
  IN /\ r.pc = "put"
     /\ IF r.fresh \/ release[p].value = v
        THEN /\ release' = [release EXCEPT ![p].value = v]
             /\ \E result \in extractResult(release[p].ready) :
                  Set(c, [r EXCEPT !.pc = "finish", !.results = @ \union {result}, !.fresh = TRUE, !.tries = 0])
        ELSE /\ Set(c, IF r.tries < MaxTries THEN [r EXCEPT !.pc = "get"]
                       ELSE [r EXCEPT !.pc = "finish", !.errs = TRUE, !.fresh = TRUE, !.tries = 0])
             /\ UNCHANGED release
     /\ UNCHANGED <<user, obj, count, crashed>>

\* handleAdapterResults
handleAdapterResults(r) ==
  CASE r.errs \/ "failed" \in r.results -> "failed"
    [] ~r.errs /\ "failed" \notin r.results /\ "waiting" \in r.results -> "pending"
    [] OTHER -> "ready"

\* The outcome is reported.
Report(c) ==
  /\ rec[c].pc = "finish"
  /\ Finish(c)
  /\ UNCHANGED <<user, cluster, count, crashed>>

\* Flux installs the release as it is and writes a condition, which outdates the
\* copy of the operator; the condition may change later.
Flux(p, condition) ==
  /\ release[p].value # None
  /\ \/ release[p].observed # release[p].value /\ UNCHANGED count
     \/ release[p].observed = release[p].value /\ release[p].ready # condition /\ Fault
  /\ release' = [release EXCEPT ![p].observed = release[p].value, ![p].ready = condition]
  /\ rec' = [c \in Controllers |-> IF rec[c].pkg = p THEN [rec[c] EXCEPT !.fresh = FALSE] ELSE rec[c]]
  /\ UNCHANGED <<user, obj, crashed>>

-----------------------------------------------------------------------------

Reconcile(c) ==
  \/ \E n \in NameSet : ResolveNext(c, n)
  \/ ResolveKeyRef(c) \/ ResolvePackageRef(c) \/ Overflow(c) \/ ResolveEnds(c)
  \/ Prepare(c) \/ ApplyObject(c) \/ CheckReady(c)
  \/ EnsureHelmRepository(c) \/ GetRelease(c) \/ PutRelease(c) \/ Report(c)

Next ==
  \/ \E p \in Pkgs, n \in NameSet, source \in Sources \union {Unset} : SetValue(p, n, source)
  \/ \E k \in Keys, v \in Literals \union {Unset} : ChangeData(k, v)
  \/ \E p \in Pkgs : Begin(p)
  \/ \E c \in Controllers : Reconcile(c)
  \/ \E p \in Pkgs, condition \in {"true", "false"} : Flux(p, condition)

\* Every package is requeued and every reconciliation goes on.
Spec ==
  /\ Init /\ [][Next]_vars
  /\ \A p \in Pkgs : SF_vars(Begin(p))
  /\ \A c \in Controllers : WF_vars(Reconcile(c))

-----------------------------------------------------------------------------
(* Properties                                                              *)

Stored == Literals \union {None, Default}

TypeOK ==
  /\ spec \in [Pkgs -> Values]
  /\ data \in [Keys -> Literals \union {Unset}]
  /\ \A p \in Pkgs : obj[p] \in [Objects(p) -> Stored]
  /\ \A p \in Pkgs : release[p] \in [value : Stored, observed : Stored, ready : {"unknown", "true", "false"}]
  /\ \A c \in Controllers :
       /\ rec[c].pc \in {"idle", "resolve", "prepare", "apply", "check", "helm", "get", "put", "finish"}
       /\ rec[c].depth \in 0..MaxDepth /\ rec[c].tries \in 0..MaxTries

\* What the package's values come to now, and what should be deployed of them.
ResolvedNow(p) == [n \in NameSet |-> Followed(spec, spec[p][n])]

Broken(p) == \E n \in NameSet : spec[p][n] # Unset /\ ResolvedNow(p)[n] = Unset

Deployed(p, resolved) ==
  /\ \A o \in Objects(p) : obj[p][o] = Patched(o, resolved)
  /\ p \in HelmPkgs => release[p].value = Patched(Release, resolved)

\* Whatever the users and the keys do between two calls, what is on the cluster
\* satisfies the definition of a name it may come from: values are checked after they
\* are resolved, not when they are admitted.
DeployedIsValid ==
  \A p \in Pkgs : \A o \in Objects(p) \union {Release} :
    LET v == IF o = Release THEN release[p].value ELSE obj[p][o]
    IN v \in Literals => \E n \in Targets[o] : ValidateSingle(n, v)

\* A package that is reported ready has all its objects and its release from one
\* resolution of its values: a failure half-way is not reported as success.
ReadyIsWhole ==
  \A c \in Controllers :
    rec[c].pc = "finish" /\ handleAdapterResults(rec[c]) = "ready" => Deployed(rec[c].pkg, rec[c].resolved)

\* Reconciliations deploy valid values only, and report readiness for nothing
\* that was applied in part or from two resolutions.
DeploymentInv == TypeOK /\ DeployedIsValid /\ ReadyIsWhole

\* The operator survives every set of references in which no value refers to
\* itself, however they change while it follows them.
OverflowNeedsCycle == crashed => cyclic

\* When the users stop, what is deployed is what the values of the package come to
\* now, through all references; unless they are invalid or some value refers to
\* itself.
ValuesConverge ==
  <>[](\A p \in Pkgs :
         \/ cyclic \/ Broken(p)
         \/ ~ValidateResolvedValues(ResolvedNow(p))
         \/ Deployed(p, ResolvedNow(p)))
=============================================================================
