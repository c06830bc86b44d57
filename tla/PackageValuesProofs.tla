------------------------- MODULE PackageValuesProofs -------------------------
(***************************************************************************)
(* Proofs about PackageValues: what is deployed is valid and whole, and    *)
(* only values that refer to themselves exhaust the stack of the operator, *)
(* for any packages, definitions and manifests and any bounds.             *)
(***************************************************************************)
EXTENDS PackageValues, SequenceTheorems, FiniteSetTheorems, WellFoundedInduction, TLAPS

-----------------------------------------------------------------------------
(* The inductive invariant.                                                *)

Refs == {s \in Sources : s # Unset /\ s.kind # "literal"}

Resolutions == [NameSet -> Literals \union {Unset}]

AllObjects == UNION {Objects(p) : p \in Pkgs}

Reconciliations ==
  [pc : {"idle", "resolve", "prepare", "apply", "check", "helm", "get", "put", "finish"},
   pkg : Pkgs \union {None}, values : Values \union {None}, resolved : Resolutions \union {None},
   todo : SUBSET NameSet, name : NameSet \union {None}, cur : Refs \union {None}, depth : 0..MaxDepth,
   manifest : Nat, left : Seq(AllObjects), fresh : BOOLEAN, tries : 0..MaxTries, errs : BOOLEAN,
   results : SUBSET {"ready", "waiting", "failed"}]

(* What a reconciliation knows by itself.                                  *)
Sound(c, r) ==
  /\ r.pc # "idle" => r.pkg \in Pkgs /\ ControllerOf(r.pkg) = c /\ r.resolved \in Resolutions
  /\ r.pc = "resolve" => /\ r.values \in Values
                         /\ \A n \in r.todo : r.values[n] \in Refs
                         /\ r.cur # None => r.name \in NameSet
  /\ r.pc \notin {"idle", "resolve"} => ValidateResolvedValues(r.resolved)
  /\ r.pc = "get" => r.tries < MaxTries
  /\ r.pc \notin {"get", "put", "finish"} => r.tries = 0

(* Of the objects os of a package, o is the one the values ask for.        *)
Done(os, o, resolved) == os[o] = Patched(o, resolved)

AllDone(r, os) == \A o \in Objects(r.pkg) : Done(os, o, r.resolved)

Elements(s) == {s[i] : i \in 1..Len(s)}

(* The manifests before the current one are applied.                       *)
Before(r, os) == \A i \in 1..Len(Manifests[r.pkg]) :
  i < r.manifest => \A o \in Elements(Manifests[r.pkg][i]) : Done(os, o, r.resolved)

(* How far the objects os and the release, with value v, are.              *)
Progress(r, os, v) ==
  /\ r.pc \in {"prepare", "apply"} => r.manifest >= 1 /\ Before(r, os) /\ ~r.errs
  /\ r.pc = "apply" =>
       /\ r.manifest <= Len(Manifests[r.pkg])
       /\ r.left # <<>> /\ Elements(r.left) \subseteq Objects(r.pkg)
       /\ \A o \in Elements(Manifests[r.pkg][r.manifest]) : Done(os, o, r.resolved) \/ o \in Elements(r.left)
  /\ r.pc \in {"check", "helm", "get", "put", "finish"} /\ ~r.errs => AllDone(r, os)
  /\ r.pc = "finish" /\ ~r.errs /\ "waiting" \notin r.results /\ r.pkg \in HelmPkgs
       => v = Patched(Release, r.resolved)

Counters == [edits : 0..MaxEdits, changes : 0..MaxChanges, faults : 0..MaxFaults]

StateTypes ==
  /\ spec \in [Pkgs -> Values]
  /\ data \in [Keys -> Literals \union {Unset}]
  /\ DOMAIN obj = Pkgs /\ obj = [p \in Pkgs |-> obj[p]]
  /\ \A p \in Pkgs : obj[p] \in [Objects(p) -> Stored]
  /\ release \in [Pkgs -> [value : Stored, observed : Stored, ready : {"unknown", "true", "false"}]]
  /\ rec \in [Controllers -> Reconciliations]
  /\ count \in Counters

Inv ==
  /\ StateTypes
  /\ DeployedIsValid
  /\ \A c \in Controllers : Sound(c, rec[c]) /\ Progress(rec[c], obj[rec[c].pkg], release[rec[c].pkg].value)

(* Ranks: every value that refers to another has a higher one.             *)
Ranks(sp) ==
  {r \in [Nodes -> 1..Cardinality(Nodes)] :
     \A x, y \in Nodes : RefersTo(sp[x[1]][x[2]], {y}) => r[y] < r[x]}

Budget(edits) == Cardinality(Nodes) * (edits + 1)

(* A reference that is followed leaves no more than the budget b.          *)
Within(r, rank, b) ==
  r.pc = "resolve" /\ r.cur # None => \A x \in Nodes : RefersTo(r.cur, {x}) => r.depth + rank[x] <= b + 1

(* How deep the operator is in its references, and can still get.          *)
DepthInv ==
  ~cyclic =>
    /\ ~crashed /\ ~IsCyclic(spec)
    /\ \E rank \in Ranks(spec) : \A c \in Controllers : Within(rec[c], rank, Budget(count.edits))

-----------------------------------------------------------------------------
(* Finite sets.                                                            *)

(* Among subsets of a finite set there is one that contains no other.      *)
HasSmallest(T) == \E X \in T : \A Y \in T : Y \subseteq X => Y = X

LEMMA SmallestSet ==
  ASSUME NEW S, NEW T, IsFiniteSet(S), T \in SUBSET (SUBSET S), T # {}
  PROVE  HasSmallest(T)
<1>1. IsWellFoundedOn(StrictSubsetOrdering(S), FiniteSubsetsOf(S))
  BY FS_StrictSubsetOrderingWellFounded
<1>2. T \subseteq FiniteSubsetsOf(S)
  BY FS_FiniteSubsetsOfFinite
<1>3. PICK X \in T : \A Y \in T : ~ (<<Y, X>> \in StrictSubsetOrdering(S))
  BY <1>1, <1>2, WFMin
<1>4. ASSUME NEW Y \in T, Y \subseteq X PROVE Y = X
  BY <1>3, <1>4 DEF StrictSubsetOrdering
<1> QED
  BY <1>4 DEF HasSmallest

(* And among indices one that no other exceeds.                            *)
LEMMA GreatestIndex ==
  ASSUME NEW n \in Nat, NEW G \in SUBSET (1..n), G # {}
  PROVE  \E i \in G : \A j \in G : j <= i
<1> DEFINE above(i) == {j \in G : j > i}
<1> DEFINE tops == {above(i) : i \in G}
<1>1. IsFiniteSet(G)
  <2>1. IsFiniteSet(1..n)
    BY FS_Interval
  <2> QED
    BY <2>1, FS_Subset
<1>2. PICK V : V = tops
  OBVIOUS
<1>3. V \in SUBSET (SUBSET G) /\ V # {}
  BY <1>2
<1>4. HasSmallest(V)
  <2> HIDE DEF tops, above
  <2> QED
    BY ONLY <1>1, <1>3, SmallestSet
<1>5. PICK i \in G : \A Y \in V : Y \subseteq above(i) => Y = above(i)
  BY <1>2, <1>4 DEF HasSmallest
<1>6. ASSUME NEW j \in G PROVE j <= i
  <2>1. CASE j > i
    <3>1. \A k \in G : k \in Int
      OBVIOUS
    <3>2. \A k \in G : k > j => k > i
      BY <3>1, <2>1
    <3>3. above(j) \in V /\ above(j) \subseteq above(i)
      BY <1>2, <3>2
    <3>4. j \in above(i) /\ j \notin above(j)
      BY <2>1, <3>1
    <3> QED
      BY <1>5, <3>3, <3>4
  <2> QED
    BY <2>1
<1> QED
  BY <1>6

LEMMA NodesFinite == IsFiniteSet(Nodes) /\ Cardinality(Nodes) \in Nat
<1>1. IsFiniteSet(NameSet)
  <2>1. PICK n \in Nat : n = Len(Names) /\ Names \in [1..n -> NameSet]
    BY PackageValuesAssumption, LenProperties
  <2>2. \A t \in NameSet : \E i \in 1..n : Names[i] = t
    BY <2>1 DEF NameSet
  <2>3. Names \in Surjection(1..n, NameSet)
    BY <2>1, <2>2 DEF Surjection
  <2>4. IsFiniteSet(1..n)
    BY FS_Interval
  <2> QED
    BY <2>3, <2>4, FS_Surjection
<1>2. IsFiniteSet(Nodes)
  BY <1>1, FS_Product, PackageValuesAssumption DEF Nodes
<1> QED
  BY <1>2, FS_CardinalityType

-----------------------------------------------------------------------------
(* If no value refers to itself, all of them can be ranked: take a value   *)
(* that refers to none of the others, rank these, and put it below them.   *)

LEMMA RankExists ==
  ASSUME NEW sp, ~IsCyclic(sp)
  PROVE  Ranks(sp) # {}
<1> DEFINE edge(x, y) == RefersTo(sp[x[1]][x[2]], {y})
<1> DEFINE HasRank(T) == \E r \in [T -> 1..Cardinality(T)] : \A x, y \in T : edge(x, y) => r[y] < r[x]
<1> DEFINE Bad == {T \in SUBSET Nodes : ~HasRank(T)}
<1>1. ASSUME NEW T \in SUBSET Nodes, \A U \in SUBSET T : U # T => HasRank(U)
      PROVE  HasRank(T)
  <2>1. CASE T = {}
    <3>1. [x \in T |-> 1] \in [T -> 1..Cardinality(T)]
      BY <2>1
    <3> QED
      BY <2>1, <3>1
  <2>2. CASE T # {}
    <3>1. PICK x \in T : ~RefersTo(sp[x[1]][x[2]], T)
      BY <2>2 DEF IsCyclic
    <3>2. \A y \in T : ~edge(x, y)
      BY <3>1 DEF RefersTo
    <3>3. PICK U \in SUBSET T : U = T \ {x}
      OBVIOUS
    <3>4. PICK n \in Nat : n = Cardinality(U) /\ Cardinality(T) = n + 1
      <4>1. IsFiniteSet(T)
        BY NodesFinite, FS_Subset
      <4>2. IsFiniteSet(U) /\ Cardinality(U) = Cardinality(T) - 1 /\ Cardinality(T) \in Nat
        BY <3>1, <3>3, <4>1, FS_RemoveElement, FS_CardinalityType
      <4>3. Cardinality(U) \in Nat
        BY <4>2, FS_CardinalityType
      <4> QED
        BY <4>2, <4>3
    <3>5. HasRank(U)
      <4>1. U # T
        BY <3>1, <3>3
      <4> HIDE DEF HasRank
      <4> QED
        BY <1>1, <4>1
    <3>6. PICK r \in [U -> 1..n] : \A y, z \in U : edge(y, z) => r[z] < r[y]
      BY <3>4, <3>5
    <3>7. PICK q : q = [y \in T |-> IF y = x THEN 1 ELSE r[y] + 1]
      OBVIOUS
    <3>8. \A y \in U : r[y] \in 1..n
      BY <3>6
    <3>9. /\ \A y \in U : q[y] = r[y] + 1
          /\ q[x] = 1
      BY <3>1, <3>3, <3>7
    <3>10. q \in [T -> 1..n+1]
      BY <3>3, <3>4, <3>7, <3>8
    <3>11. ASSUME NEW y \in T, NEW z \in T, edge(y, z) PROVE q[z] < q[y]
      <4>1. y # x
        BY <3>2, <3>11
      <4>2. y \in U
        BY <3>3, <4>1
      <4>3. CASE z = x
        BY <3>8, <3>9, <4>2, <4>3
      <4>4. CASE z # x
        <5>1. z \in U
          BY <3>3, <4>4
        <5>2. r[z] < r[y]
          BY <3>6, <3>11, <4>2, <5>1
        <5> HIDE DEF edge
        <5> QED
          BY <3>8, <3>9, <4>2, <5>1, <5>2
      <4> QED
        BY <4>3, <4>4
    <3> QED
      BY <3>4, <3>10, <3>11
  <2> QED
    BY <2>1, <2>2
<1> HIDE DEF HasRank
<1>2. Bad = {}
  <2> SUFFICES ASSUME Bad # {} PROVE FALSE
    OBVIOUS
  <2>1. Bad \in SUBSET (SUBSET Nodes)
    OBVIOUS
  <2>2. PICK X \in Bad : \A Y \in Bad : Y \subseteq X => Y = X
    <3>1. HasSmallest(Bad)
      <4> HIDE DEF Bad
      <4> QED
        BY <2>1, NodesFinite, SmallestSet
    <3> HIDE DEF Bad
    <3> QED
      BY <3>1 DEF HasSmallest
  <2>3. \A U \in SUBSET X : U # X => HasRank(U)
    BY <2>2
  <2> QED
    BY <1>1, <2>2, <2>3
<1>3. HasRank(Nodes)
  BY <1>2
<1> QED
  BY <1>3 DEF HasRank, Ranks

-----------------------------------------------------------------------------
(* Patches.                                                                *)

(* What patches make of an object is what the manifest says, or the value  *)
(* of a name with a patch for it.                                          *)
LEMMA PatchedFacts ==
  ASSUME NEW o, NEW res \in Resolutions
  PROVE  \/ Patched(o, res) = Default
         \/ \E n \in NameSet : n \in Targets[o] /\ res[n] # Unset /\ res[n] \in Literals /\ Patched(o, res) = res[n]
<1> DEFINE given == {i \in 1..Len(Names) : Names[i] \in Targets[o] /\ res[Names[i]] # Unset}
<1>1. CASE given = {}
  BY <1>1 DEF Patched
<1>2. CASE given # {}
  <2>1. PICK n \in Nat : n = Len(Names)
    BY PackageValuesAssumption, LenProperties
  <2>2. given \in SUBSET (1..n)
    BY <2>1
  <2>3. \E i \in given : \A j \in given : j <= i
    <3> HIDE DEF given
    <3> QED
      BY <1>2, <2>2, GreatestIndex
  <2>4. PICK last : last = CHOOSE i \in given : \A j \in given : j <= i
    OBVIOUS
  <2>5. last \in given
    <3> HIDE DEF given
    <3> QED
      BY <2>3, <2>4
  <2>6. Patched(o, res) = res[Names[last]]
    BY <1>2, <2>4 DEF Patched
  <2>7. Names[last] \in NameSet /\ Names[last] \in Targets[o] /\ res[Names[last]] # Unset
    BY <2>5 DEF NameSet
  <2>8. res[Names[last]] \in Literals
    BY <2>7 DEF Resolutions
  <2> QED
    BY <2>6, <2>7, <2>8
<1> QED
  BY <1>1, <1>2

LEMMA PatchedValid ==
  ASSUME NEW o, NEW res \in Resolutions, ValidateResolvedValues(res)
  PROVE  /\ Patched(o, res) \in Stored
         /\ Patched(o, res) \in Literals => \E n \in Targets[o] : ValidateSingle(n, Patched(o, res))
<1>1. CASE Patched(o, res) = Default
  BY <1>1, PackageValuesAssumption DEF Stored
<1>2. ASSUME NEW n \in NameSet, n \in Targets[o], res[n] # Unset, res[n] \in Literals, Patched(o, res) = res[n]
      PROVE  Patched(o, res) \in Stored /\ \E m \in Targets[o] : ValidateSingle(m, Patched(o, res))
  <2>1. ValidateSingle(n, res[n])
    BY <1>2 DEF ValidateResolvedValues
  <2> QED
    BY <1>2, <2>1 DEF Stored
<1> QED
  BY <1>1, <1>2, PatchedFacts

-----------------------------------------------------------------------------
(* Manifests.                                                              *)

LEMMA ObjectsAreElements ==
  ASSUME NEW p \in Pkgs
  PROVE  /\ Manifests[p] \in Seq(Seq(Objects(p)) \ {<<>>}) /\ Len(Manifests[p]) \in Nat
         /\ Objects(p) = UNION {Elements(Manifests[p][i]) : i \in 1..Len(Manifests[p])}
         /\ \A i \in 1..Len(Manifests[p]) :
              /\ Manifests[p][i] \in Seq(Objects(p)) /\ Manifests[p][i] # <<>>
              /\ Manifests[p][i] \in Seq(AllObjects)
              /\ Elements(Manifests[p][i]) \subseteq Objects(p)
<1>1. PICK m : m = Manifests[p] /\ m \in Seq(Seq(Objects(p)) \ {<<>>})
  BY InitialAssumption
<1>2. Len(m) \in Nat /\ \A i \in 1..Len(m) : m[i] \in Seq(Objects(p)) /\ m[i] # <<>>
  BY <1>1, ElementOfSeq, LenProperties
<1>3. Objects(p) = UNION {Elements(Manifests[p][i]) : i \in 1..Len(Manifests[p])}
  BY DEF Objects, Elements
<1>4. Objects(p) \subseteq AllObjects
  BY DEF AllObjects
<1>5. Seq(Objects(p)) \subseteq Seq(AllObjects)
  <2> SUFFICES ASSUME NEW s \in Seq(Objects(p)) PROVE s \in Seq(AllObjects)
    OBVIOUS
  <2>1. PICK n \in Nat : n = Len(s) /\ s \in [1..n -> Objects(p)]
    BY LenProperties
  <2>2. s \in [1..n -> AllObjects]
    BY <2>1, <1>4
  <2> QED
    BY <2>1, <2>2, IsASeq
<1> QED
  BY <1>1, <1>2, <1>3, <1>5

(* The rest of a sequence has all elements but the first.                  *)
LEMMA TailElements ==
  ASSUME NEW S, NEW s \in Seq(S), s # <<>>
  PROVE  /\ Len(s) \in Nat /\ Len(s) >= 1 /\ Head(s) \in Elements(s) /\ Head(s) \in S
         /\ Tail(s) \in Seq(S) /\ Elements(Tail(s)) \subseteq Elements(s)
         /\ \A o \in Elements(s) : o = Head(s) \/ o \in Elements(Tail(s))
         /\ Len(s) > 1 => Tail(s) # <<>>
         /\ Len(s) <= 1 => \A o \in Elements(s) : o = Head(s)
<1>1. PICK n \in Nat : n = Len(s) /\ s \in [1..n -> S] /\ n >= 1
  BY LenProperties, EmptySeq
<1>2. PICK t : t = Tail(s)
  OBVIOUS
<1>3. t \in Seq(S) /\ Len(t) = n - 1 /\ \A i \in 1..(n - 1) : t[i] = s[i + 1]
  BY <1>1, <1>2
<1>4. Head(s) = s[1] /\ Head(s) \in S
  BY <1>1
<1>5. Head(s) \in Elements(s)
  BY <1>1, <1>4 DEF Elements
<1>6. Elements(t) \subseteq Elements(s)
  <2> SUFFICES ASSUME NEW i \in 1..(n - 1) PROVE t[i] \in Elements(s)
    BY <1>3 DEF Elements
  <2>1. t[i] = s[i + 1] /\ i + 1 \in 1..n
    BY <1>1, <1>3
  <2> QED
    BY <1>1, <2>1 DEF Elements
<1>7. ASSUME NEW i \in 1..n PROVE s[i] = Head(s) \/ s[i] \in Elements(t)
  <2>1. CASE i = 1
    BY <1>4, <2>1
  <2>2. CASE i # 1
    <3>1. i - 1 \in 1..(n - 1) /\ (i - 1) + 1 = i
      BY <1>1, <2>2
    <3>2. t[i - 1] = s[i]
      BY <1>3, <3>1
    <3> QED
      BY <1>3, <3>1, <3>2 DEF Elements
  <2> QED
    BY <2>1, <2>2
<1>8. \A o \in Elements(s) : o = Head(s) \/ o \in Elements(t)
  BY <1>1, <1>7 DEF Elements
<1>9. n > 1 => t # <<>>
  BY <1>1, <1>3
<1>10. n <= 1 => \A o \in Elements(s) : o = Head(s)
  BY <1>1, <1>4 DEF Elements
<1> QED
  BY <1>1, <1>2, <1>3, <1>4, <1>5, <1>6, <1>8, <1>9, <1>10

-----------------------------------------------------------------------------
(* The steps of one reconciliation, as changes of its record.              *)

Begun(p, values, references, resolved) ==
  [Idle EXCEPT !.pc = "resolve", !.pkg = p, !.values = values, !.todo = references, !.resolved = resolved]

Following(r, n, source) == [r EXCEPT !.name = n, !.todo = @ \ {n}, !.cur = source, !.depth = 1]

ResolvedTo(r, v) == [r EXCEPT !.name = None, !.cur = None, !.depth = 0, !.errs = @ \/ v = Unset,
                              !.resolved = [@ EXCEPT ![r.name] = v]]

Deeper(r, source) == [r EXCEPT !.cur = source, !.depth = @ + 1]

Prepared(r) == [r EXCEPT !.pc = "prepare", !.values = None, !.manifest = 1]

Applying(r, objects) == [r EXCEPT !.pc = "apply", !.left = objects]

AppliedOne(r) == [r EXCEPT !.left = Tail(@)]

AppliedLast(r) == [r EXCEPT !.left = <<>>, !.manifest = @ + 1, !.pc = "prepare"]

At(r, pc) == [r EXCEPT !.pc = pc]

Waiting(r) == [r EXCEPT !.pc = "finish", !.results = @ \union {"waiting"}]

Failed(r) == [r EXCEPT !.pc = "finish", !.errs = TRUE]

Got(r) == [r EXCEPT !.pc = "put", !.fresh = TRUE, !.tries = @ + 1]

Put(r, result) == [r EXCEPT !.pc = "finish", !.results = @ \union {result}, !.fresh = TRUE, !.tries = 0]

GaveUp(r) == [r EXCEPT !.pc = "finish", !.errs = TRUE, !.fresh = TRUE, !.tries = 0]

Outdated(r) == [r EXCEPT !.fresh = FALSE]

(* A reconciliation with a package whose objects are os and whose release  *)
(* has value v.                                                            *)
Good(c, r, os, v) == r \in Reconciliations /\ Sound(c, r) /\ Progress(r, os, v)

LEMMA Constants ==
  /\ MaxDepth \in Nat /\ MaxTries \in Nat /\ MaxEdits \in Nat /\ MaxChanges \in Nat /\ MaxFaults \in Nat
  /\ MaxTries >= 1 /\ MaxDepth >= 1
<1>1. Cardinality(Nodes) \in Nat
  BY NodesFinite
<1>2. {MaxDepth, MaxTries, MaxEdits, MaxChanges, MaxFaults} \subseteq Nat
  BY PackageValuesAssumption
<1>3. PICK d, k, e \in Nat : d = MaxDepth /\ k = Cardinality(Nodes) /\ e = MaxEdits /\ d > k * (e + 1)
  BY <1>1, <1>2, PackageValuesAssumption
<1>4. d >= 1
  <2>1. PICK m : m = k * (e + 1)
    OBVIOUS
  <2>2. m \in Nat
    BY <2>1
  <2> QED
    BY ONLY <1>3, <2>1, <2>2, d \in Nat
<1> QED
  BY <1>2, <1>3, <1>4, PackageValuesAssumption

LEMMA Bounds == 0 \in 0..MaxDepth /\ 1 \in 0..MaxDepth /\ 0 \in 0..MaxTries
BY Constants

LEMMA IdleGood ==
  ASSUME NEW c, NEW os, NEW v
  PROVE  Good(c, Idle, os, v)
<1>1. Idle \in Reconciliations
  BY Bounds DEF Idle, Reconciliations
<1>2. Sound(c, Idle)
  BY DEF Sound, Idle
<1>3. Progress(Idle, os, v)
  BY DEF Progress, Idle
<1> QED
  BY <1>1, <1>2, <1>3 DEF Good

LEMMA BegunGood ==
  ASSUME NEW p \in Pkgs, NEW values \in Values, NEW references \in SUBSET NameSet, NEW resolved \in Resolutions,
         \A n \in references : values[n] \in Refs, NEW os, NEW v
  PROVE  Good(ControllerOf(p), Begun(p, values, references, resolved), os, v)
<1>1. PICK s : s = Begun(p, values, references, resolved)
  OBVIOUS
<1>2. s \in Reconciliations
  <2>1. Idle \in Reconciliations
    BY IdleGood DEF Good
  <2> QED
    BY <1>1, <2>1 DEF Reconciliations, Begun
<1>3. /\ s.pc = "resolve" /\ s.pkg = p /\ s.values = values /\ s.todo = references /\ s.resolved = resolved
      /\ s.cur = None /\ s.tries = 0
  BY <1>1 DEF Begun, Idle
<1>4. Sound(ControllerOf(p), s)
  BY <1>3 DEF Sound
<1>5. Progress(s, os, v)
  BY <1>3 DEF Progress
<1> QED
  BY <1>1, <1>2, <1>4, <1>5 DEF Good

LEMMA FollowingGood ==
  ASSUME NEW c, NEW r, NEW os, NEW v, Good(c, r, os, v), r.pc = "resolve", NEW n \in r.todo
  PROVE  Good(c, Following(r, n, r.values[n]), os, v)
<1>1. PICK s : s = Following(r, n, r.values[n])
  OBVIOUS
<1>2. r \in Reconciliations /\ r.values \in Values /\ r.values[n] \in Refs /\ n \in NameSet
  BY DEF Good, Sound, Reconciliations
<1>3. s \in Reconciliations
  BY <1>1, <1>2, Bounds DEF Reconciliations, Following
<1>4. /\ s.pc = "resolve" /\ s.pkg = r.pkg /\ s.values = r.values /\ s.todo \subseteq r.todo /\ s.resolved = r.resolved
      /\ s.name = n /\ s.tries = r.tries
  BY <1>1, <1>2 DEF Following, Reconciliations
<1>5. Sound(c, s)
  BY <1>2, <1>4 DEF Sound, Good
<1>6. Progress(s, os, v)
  BY <1>4 DEF Progress
<1> QED
  BY <1>1, <1>3, <1>5, <1>6 DEF Good

LEMMA ResolvedGood ==
  ASSUME NEW c, NEW r, NEW os, NEW v, Good(c, r, os, v), r.pc = "resolve", r.cur # None,
         NEW w \in Literals \union {Unset}
  PROVE  Good(c, ResolvedTo(r, w), os, v)
<1>1. PICK s : s = ResolvedTo(r, w)
  OBVIOUS
<1>2. r \in Reconciliations /\ r.name \in NameSet /\ r.resolved \in Resolutions
  BY DEF Good, Sound
<1>3. [r.resolved EXCEPT ![r.name] = w] \in Resolutions
  BY <1>2 DEF Resolutions
<1>4. s \in Reconciliations
  <2>1. PICK q, e : q = [r.resolved EXCEPT ![r.name] = w] /\ e = (r.errs \/ w = Unset)
    OBVIOUS
  <2>2. q \in Resolutions /\ e \in BOOLEAN
    BY <1>2, <1>3, <2>1 DEF Reconciliations
  <2>3. PICK t : t = [r EXCEPT !.name = None, !.cur = None, !.depth = 0]
    OBVIOUS
  <2>4. t \in Reconciliations
    BY <1>2, <2>3, Bounds DEF Reconciliations
  <2>5. s = [t EXCEPT !.errs = e, !.resolved = q]
    BY <1>1, <2>1, <2>3 DEF ResolvedTo
  <2> QED
    BY <2>2, <2>4, <2>5 DEF Reconciliations
<1>5. /\ s.pc = "resolve" /\ s.pkg = r.pkg /\ s.values = r.values /\ s.todo = r.todo
      /\ s.resolved = [r.resolved EXCEPT ![r.name] = w] /\ s.cur = None /\ s.tries = r.tries
  BY <1>1, <1>2 DEF ResolvedTo, Reconciliations
<1>6. Sound(c, s)
  BY <1>2, <1>3, <1>5 DEF Sound, Good
<1>7. Progress(s, os, v)
  BY <1>5 DEF Progress
<1> QED
  BY <1>1, <1>4, <1>6, <1>7 DEF Good

LEMMA DeeperGood ==
  ASSUME NEW c, NEW r, NEW os, NEW v, Good(c, r, os, v), r.pc = "resolve", r.cur # None, r.depth < MaxDepth,
         NEW source \in Refs
  PROVE  Good(c, Deeper(r, source), os, v)
<1>1. PICK s : s = Deeper(r, source)
  OBVIOUS
<1>2. r \in Reconciliations /\ r.name \in NameSet
  BY DEF Good, Sound
<1>3. r.depth + 1 \in 0..MaxDepth
  BY <1>2, Constants DEF Reconciliations
<1>4. s \in Reconciliations
  BY <1>1, <1>2, <1>3 DEF Reconciliations, Deeper
<1>5. /\ s.pc = "resolve" /\ s.pkg = r.pkg /\ s.values = r.values /\ s.todo = r.todo
      /\ s.resolved = r.resolved /\ s.name = r.name /\ s.tries = r.tries
  BY <1>1, <1>2 DEF Deeper, Reconciliations
<1>6. Sound(c, s)
  BY <1>2, <1>5 DEF Sound, Good
<1>7. Progress(s, os, v)
  BY <1>5 DEF Progress
<1> QED
  BY <1>1, <1>4, <1>6, <1>7 DEF Good

LEMMA PreparedGood ==
  ASSUME NEW c, NEW r, NEW os, NEW v, Good(c, r, os, v), r.pc = "resolve", ~r.errs, ValidateResolvedValues(r.resolved)
  PROVE  Good(c, Prepared(r), os, v)
<1>1. PICK s : s = Prepared(r)
  OBVIOUS
<1>2. r \in Reconciliations
  BY DEF Good
<1>3. s \in Reconciliations
  BY <1>1, <1>2 DEF Reconciliations, Prepared
<1>4. s.pc = "prepare" /\ s.pkg = r.pkg /\ s.resolved = r.resolved /\ s.manifest = 1 /\ s.tries = r.tries /\ s.errs = r.errs
  BY <1>1, <1>2 DEF Prepared, Reconciliations
<1>5. Sound(c, s)
  BY <1>4 DEF Sound, Good
<1>6. Before(s, os)
  <2> SUFFICES ASSUME NEW i \in 1..Len(Manifests[s.pkg]) PROVE ~ (i < s.manifest)
    BY DEF Before
  <2>1. i \in Int /\ i >= 1
    BY <1>4, ObjectsAreElements DEF Good, Sound
  <2> QED
    BY <1>4, <2>1
<1>7. Progress(s, os, v)
  BY <1>4, <1>6 DEF Progress
<1> QED
  BY <1>1, <1>3, <1>5, <1>7 DEF Good

LEMMA AfterPlainGood ==
  ASSUME NEW c, NEW r, NEW os, NEW v, Good(c, r, os, v), r.pc \in {"prepare", "apply", "check"},
         NEW errs \in BOOLEAN, NEW results \in SUBSET {"ready", "waiting"},
         ~errs /\ ~r.errs => AllDone(r, os)
  PROVE  Good(c, AfterPlain(r, errs, results), os, v)
<1>1. PICK s : s = AfterPlain(r, errs, results)
  OBVIOUS
<1>2. r \in Reconciliations /\ <<>> \in Seq(AllObjects)
  BY DEF Good
<1>3. s \in Reconciliations
  <2>1. PICK pc, e, q : /\ pc = (IF r.pkg \in HelmPkgs THEN "helm" ELSE "finish")
                        /\ e = (r.errs \/ errs) /\ q = r.results \union results
    OBVIOUS
  <2>2. pc \in {"helm", "finish"} /\ e \in BOOLEAN /\ q \in SUBSET {"ready", "waiting", "failed"}
    BY <1>2, <2>1 DEF Reconciliations
  <2>3. PICK t : t = [r EXCEPT !.pc = pc, !.left = <<>>, !.manifest = 0]
    OBVIOUS
  <2>4. t \in Reconciliations
    BY <1>2, <2>2, <2>3 DEF Reconciliations
  <2>5. s = [t EXCEPT !.errs = e, !.results = q]
    BY <1>1, <2>1, <2>3 DEF AfterPlain
  <2> QED
    BY <2>2, <2>4, <2>5 DEF Reconciliations
<1>4. /\ s.pc = (IF r.pkg \in HelmPkgs THEN "helm" ELSE "finish")
      /\ s.pkg = r.pkg /\ s.resolved = r.resolved /\ s.tries = r.tries
  BY <1>1, <1>2 DEF AfterPlain, Reconciliations
<1>5. s.errs <=> r.errs \/ errs
  BY <1>1, <1>2 DEF AfterPlain, Reconciliations
<1>6. Sound(c, s)
  BY <1>4 DEF Sound, Good
<1>7. ~s.errs => AllDone(s, os)
  BY <1>4, <1>5 DEF AllDone
<1>8. Progress(s, os, v)
  BY <1>4, <1>7 DEF Progress
<1> QED
  BY <1>1, <1>3, <1>6, <1>8 DEF Good

LEMMA ApplyingGood ==
  ASSUME NEW c, NEW r, NEW os, NEW v, Good(c, r, os, v), r.pc = "prepare", r.manifest <= Len(Manifests[r.pkg])
  PROVE  Good(c, Applying(r, Manifests[r.pkg][r.manifest]), os, v)
<1>1. PICK m : m = Manifests[r.pkg][r.manifest]
  OBVIOUS
<1>2. PICK s : s = Applying(r, m)
  OBVIOUS
<1>3. r \in Reconciliations /\ r.manifest >= 1 /\ r.pkg \in Pkgs
  BY DEF Good, Progress, Sound
<1>4. m \in Seq(AllObjects) /\ m # <<>> /\ Elements(m) \subseteq Objects(r.pkg)
  <2>1. r.manifest \in 1..Len(Manifests[r.pkg])
    BY <1>3, ObjectsAreElements DEF Reconciliations
  <2> QED
    BY <1>1, <1>3, <2>1, ObjectsAreElements
<1>5. s \in Reconciliations
  BY <1>2, <1>3, <1>4 DEF Reconciliations, Applying
<1>6. /\ s.pc = "apply" /\ s.pkg = r.pkg /\ s.resolved = r.resolved /\ s.tries = r.tries /\ s.manifest = r.manifest
      /\ s.left = m /\ s.errs = r.errs
  BY <1>2, <1>3 DEF Applying, Reconciliations
<1>7. Sound(c, s)
  BY <1>6 DEF Sound, Good
<1>8. Before(s, os) /\ ~s.errs
  BY <1>6 DEF Good, Progress, Before
<1>9. Progress(s, os, v)
  BY <1>1, <1>3, <1>4, <1>6, <1>8 DEF Progress
<1> QED
  BY <1>1, <1>2, <1>5, <1>7, <1>9 DEF Good

LEMMA AppliedOneGood ==
  ASSUME NEW c, NEW r, NEW os, NEW v, Good(c, r, os, v), r.pc = "apply", os \in [Objects(r.pkg) -> Stored],
         Len(r.left) > 1,
         NEW os2, os2 = [os EXCEPT ![Head(r.left)] = Patched(Head(r.left), r.resolved)]
  PROVE  Good(c, AppliedOne(r), os2, v)
<1>1. PICK s : s = AppliedOne(r)
  OBVIOUS
<1>2. r \in Reconciliations /\ r.pkg \in Pkgs /\ r.left \in Seq(AllObjects) /\ r.left # <<>> /\ Before(r, os) /\ ~r.errs
  BY DEF Good, Progress, Sound, Reconciliations
<1>3. /\ Tail(r.left) \in Seq(AllObjects) /\ Tail(r.left) # <<>> /\ Elements(Tail(r.left)) \subseteq Elements(r.left)
      /\ Head(r.left) \in Elements(r.left) /\ \A o \in Elements(r.left) : o = Head(r.left) \/ o \in Elements(Tail(r.left))
  BY <1>2, TailElements
<1>4. Elements(r.left) \subseteq Objects(r.pkg) /\ r.manifest \in 1..Len(Manifests[r.pkg])
  BY <1>2, ObjectsAreElements DEF Good, Progress, Reconciliations
<1>5. s \in Reconciliations
  BY <1>1, <1>2, <1>3 DEF Reconciliations, AppliedOne
<1>6. /\ s.pc = "apply" /\ s.pkg = r.pkg /\ s.resolved = r.resolved /\ s.tries = r.tries /\ s.manifest = r.manifest
      /\ s.left = Tail(r.left) /\ s.errs = r.errs
  BY <1>1, <1>2 DEF AppliedOne, Reconciliations
<1>7. Sound(c, s)
  BY <1>6 DEF Sound, Good
<1>8. /\ Done(os2, Head(r.left), r.resolved)
      /\ \A q \in Objects(r.pkg) : Done(os, q, r.resolved) => Done(os2, q, r.resolved)
  <2>1. PICK o \in Objects(r.pkg) : o = Head(r.left)
    BY <1>3, <1>4
  <2> QED
    BY <2>1 DEF Done
<1>9. \A i \in 1..Len(Manifests[r.pkg]) : Elements(Manifests[r.pkg][i]) \subseteq Objects(r.pkg)
  BY <1>2, ObjectsAreElements
<1>10. Before(s, os2)
  BY <1>2, <1>6, <1>8, <1>9 DEF Before
<1>11. \A o \in Elements(Manifests[r.pkg][r.manifest]) : Done(os2, o, r.resolved) \/ o \in Elements(Tail(r.left))
  <2> SUFFICES ASSUME NEW o \in Elements(Manifests[r.pkg][r.manifest])
               PROVE  Done(os2, o, r.resolved) \/ o \in Elements(Tail(r.left))
    OBVIOUS
  <2>1. Done(os, o, r.resolved) \/ o \in Elements(r.left)
    BY DEF Good, Progress
  <2>2. o \in Objects(r.pkg)
    BY <1>4, <1>9
  <2> QED
    BY <2>1, <2>2, <1>3, <1>8
<1>12. Progress(s, os2, v)
  BY <1>2, <1>3, <1>4, <1>6, <1>10, <1>11 DEF Progress, Good
<1> QED
  BY <1>1, <1>5, <1>7, <1>12 DEF Good

LEMMA AppliedLastGood ==
  ASSUME NEW c, NEW r, NEW os, NEW v, Good(c, r, os, v), r.pc = "apply", os \in [Objects(r.pkg) -> Stored],
         ~ (Len(r.left) > 1),
         NEW os2, os2 = [os EXCEPT ![Head(r.left)] = Patched(Head(r.left), r.resolved)]
  PROVE  Good(c, AppliedLast(r), os2, v)
<1>1. PICK s : s = AppliedLast(r)
  OBVIOUS
<1>2. /\ r \in Reconciliations /\ r.pkg \in Pkgs /\ r.left \in Seq(AllObjects) /\ r.left # <<>> /\ Before(r, os)
      /\ ~r.errs /\ r.manifest >= 1 /\ r.manifest \in Nat
  BY DEF Good, Progress, Sound, Reconciliations
<1>3. Head(r.left) \in Elements(r.left) /\ \A o \in Elements(r.left) : o = Head(r.left)
  BY <1>2, TailElements
<1>4. Elements(r.left) \subseteq Objects(r.pkg)
  BY DEF Good, Progress
<1>5. s \in Reconciliations
  <2>1. <<>> \in Seq(AllObjects) /\ r.manifest + 1 \in Nat
    BY <1>2
  <2> QED
    BY <1>1, <1>2, <2>1 DEF Reconciliations, AppliedLast
<1>6. /\ s.pc = "prepare" /\ s.pkg = r.pkg /\ s.resolved = r.resolved /\ s.tries = r.tries /\ s.manifest = r.manifest + 1
      /\ s.errs = r.errs
  BY <1>1, <1>2 DEF AppliedLast, Reconciliations
<1>7. Sound(c, s)
  BY <1>6 DEF Sound, Good
<1>8. /\ Done(os2, Head(r.left), r.resolved)
      /\ \A q \in Objects(r.pkg) : Done(os, q, r.resolved) => Done(os2, q, r.resolved)
  <2>1. PICK o \in Objects(r.pkg) : o = Head(r.left)
    BY <1>3, <1>4
  <2> QED
    BY <2>1 DEF Done
<1>9. \A i \in 1..Len(Manifests[r.pkg]) : Elements(Manifests[r.pkg][i]) \subseteq Objects(r.pkg)
  BY <1>2, ObjectsAreElements
<1>10. Before(s, os2)
  <2> SUFFICES ASSUME NEW i \in 1..Len(Manifests[r.pkg]), i < r.manifest + 1, NEW o \in Elements(Manifests[r.pkg][i])
               PROVE  Done(os2, o, r.resolved)
    BY <1>6 DEF Before
  <2>1. i \in Nat /\ o \in Objects(r.pkg)
    BY <1>2, <1>9, ObjectsAreElements
  <2>2. CASE i = r.manifest
    <3>1. Done(os, o, r.resolved) \/ o \in Elements(r.left)
      BY <2>2 DEF Good, Progress
    <3> QED
      BY <3>1, <2>1, <1>3, <1>8
  <2>3. CASE i < r.manifest
    <3>1. Done(os, o, r.resolved)
      BY <2>3, <1>2 DEF Before
    <3> QED
      BY <3>1, <2>1, <1>8
  <2>4. i = r.manifest \/ i < r.manifest
    BY <1>2, <2>1
  <2> QED
    BY <2>2, <2>3, <2>4
<1>11. Progress(s, os2, v)
  BY <1>2, <1>6, <1>10 DEF Progress
<1> QED
  BY <1>1, <1>5, <1>7, <1>11 DEF Good

LEMMA CheckingGood ==
  ASSUME NEW c, NEW r, NEW os, NEW v, Good(c, r, os, v), r.pc = "prepare", r.manifest > Len(Manifests[r.pkg])
  PROVE  AllDone(r, os) /\ Good(c, At(r, "check"), os, v)
<1>1. PICK s : s = At(r, "check")
  OBVIOUS
<1>2. r \in Reconciliations /\ r.pkg \in Pkgs /\ Before(r, os) /\ r.manifest \in Nat
  BY DEF Good, Progress, Sound, Reconciliations
<1>3. s \in Reconciliations
  BY <1>1, <1>2 DEF Reconciliations, At
<1>4. s.pc = "check" /\ s.pkg = r.pkg /\ s.resolved = r.resolved /\ s.tries = r.tries
  BY <1>1, <1>2 DEF At, Reconciliations
<1>5. AllDone(r, os)
  <2> SUFFICES ASSUME NEW o \in Objects(r.pkg) PROVE Done(os, o, r.resolved)
    BY DEF AllDone
  <2>1. PICK i \in 1..Len(Manifests[r.pkg]) : o \in Elements(Manifests[r.pkg][i])
    <3>1. Objects(r.pkg) = UNION {Elements(Manifests[r.pkg][i]) : i \in 1..Len(Manifests[r.pkg])}
      BY <1>2, ObjectsAreElements
    <3> QED
      BY <3>1
  <2>2. i < r.manifest
    BY <1>2, ObjectsAreElements
  <2> QED
    BY <1>2, <2>1, <2>2 DEF Before
<1>6. AllDone(s, os)
  BY <1>4, <1>5 DEF AllDone
<1>7. Sound(c, s)
  BY <1>4 DEF Sound, Good
<1>8. Progress(s, os, v)
  BY <1>4, <1>6 DEF Progress
<1> QED
  BY <1>1, <1>3, <1>5, <1>7, <1>8 DEF Good

(* The release is read again, for the first time or after a conflict.      *)
LEMMA GetGood ==
  ASSUME NEW c, NEW r, NEW os, NEW v, Good(c, r, os, v), r.pc \in {"helm", "put"}, r.tries < MaxTries
  PROVE  Good(c, At(r, "get"), os, v)
<1>1. PICK s : s = At(r, "get")
  OBVIOUS
<1>2. r \in Reconciliations
  BY DEF Good
<1>3. s \in Reconciliations
  BY <1>1, <1>2 DEF Reconciliations, At
<1>4. s.pc = "get" /\ s.pkg = r.pkg /\ s.resolved = r.resolved /\ s.tries = r.tries /\ s.errs = r.errs
  BY <1>1, <1>2 DEF At, Reconciliations
<1>5. ~s.errs => AllDone(s, os)
  BY <1>4 DEF AllDone, Good, Progress
<1>6. Sound(c, s)
  BY <1>4 DEF Sound, Good
<1>7. Progress(s, os, v)
  BY <1>4, <1>5 DEF Progress
<1> QED
  BY <1>1, <1>3, <1>6, <1>7 DEF Good

LEMMA WaitingGood ==
  ASSUME NEW c, NEW r, NEW os, NEW v, Good(c, r, os, v), r.pc = "helm"
  PROVE  Good(c, Waiting(r), os, v)
<1>1. PICK s : s = Waiting(r)
  OBVIOUS
<1>2. r \in Reconciliations
  BY DEF Good
<1>3. s \in Reconciliations
  BY <1>1, <1>2 DEF Reconciliations, Waiting
<1>4. s.pc = "finish" /\ s.pkg = r.pkg /\ s.resolved = r.resolved /\ s.errs = r.errs /\ "waiting" \in s.results
  BY <1>1, <1>2 DEF Waiting, Reconciliations
<1>5. ~s.errs => AllDone(s, os)
  BY <1>4 DEF AllDone, Good, Progress
<1>6. Sound(c, s)
  BY <1>4 DEF Sound, Good
<1>7. Progress(s, os, v)
  BY <1>4, <1>5 DEF Progress
<1> QED
  BY <1>1, <1>3, <1>6, <1>7 DEF Good

LEMMA FailedGood ==
  ASSUME NEW c, NEW r, NEW os, NEW v, Good(c, r, os, v), r.pc \in {"helm", "get"}
  PROVE  Good(c, Failed(r), os, v)
<1>1. PICK s : s = Failed(r)
  OBVIOUS
<1>2. r \in Reconciliations
  BY DEF Good
<1>3. s \in Reconciliations
  BY <1>1, <1>2 DEF Reconciliations, Failed
<1>4. s.pc = "finish" /\ s.pkg = r.pkg /\ s.resolved = r.resolved /\ s.errs
  BY <1>1, <1>2 DEF Failed, Reconciliations
<1>5. Sound(c, s)
  BY <1>4 DEF Sound, Good
<1>6. Progress(s, os, v)
  BY <1>4 DEF Progress
<1> QED
  BY <1>1, <1>3, <1>5, <1>6 DEF Good

LEMMA GotGood ==
  ASSUME NEW c, NEW r, NEW os, NEW v, Good(c, r, os, v), r.pc = "get"
  PROVE  Good(c, Got(r), os, v)
<1>1. PICK s : s = Got(r)
  OBVIOUS
<1>2. r \in Reconciliations
  BY DEF Good
<1>3. r.tries + 1 \in 0..MaxTries
  BY <1>2, Constants DEF Good, Sound, Reconciliations
<1>4. s \in Reconciliations
  BY <1>1, <1>2, <1>3 DEF Reconciliations, Got
<1>5. s.pc = "put" /\ s.pkg = r.pkg /\ s.resolved = r.resolved /\ s.errs = r.errs
  BY <1>1, <1>2 DEF Got, Reconciliations
<1>6. ~s.errs => AllDone(s, os)
  BY <1>5 DEF AllDone, Good, Progress
<1>7. Sound(c, s)
  BY <1>5 DEF Sound, Good
<1>8. Progress(s, os, v)
  BY <1>5, <1>6 DEF Progress
<1> QED
  BY <1>1, <1>4, <1>7, <1>8 DEF Good

LEMMA PutGood ==
  ASSUME NEW c, NEW r, NEW os, NEW v, Good(c, r, os, v), r.pc = "put", NEW result \in {"ready", "waiting", "failed"}
  PROVE  Good(c, Put(r, result), os, Patched(Release, r.resolved))
<1>1. PICK s : s = Put(r, result)
  OBVIOUS
<1>2. r \in Reconciliations
  BY DEF Good
<1>3. s \in Reconciliations
  BY <1>1, <1>2, Bounds DEF Reconciliations, Put
<1>4. s.pc = "finish" /\ s.pkg = r.pkg /\ s.resolved = r.resolved /\ s.errs = r.errs
  BY <1>1, <1>2 DEF Put, Reconciliations
<1>5. ~s.errs => AllDone(s, os)
  BY <1>4 DEF AllDone, Good, Progress
<1>6. Sound(c, s)
  BY <1>4 DEF Sound, Good
<1>7. Progress(s, os, Patched(Release, r.resolved))
  BY <1>4, <1>5 DEF Progress
<1> QED
  BY <1>1, <1>3, <1>6, <1>7 DEF Good

LEMMA GaveUpGood ==
  ASSUME NEW c, NEW r, NEW os, NEW v, Good(c, r, os, v), r.pc = "put"
  PROVE  Good(c, GaveUp(r), os, v)
<1>1. PICK s : s = GaveUp(r)
  OBVIOUS
<1>2. r \in Reconciliations
  BY DEF Good
<1>3. s \in Reconciliations
  BY <1>1, <1>2, Bounds DEF Reconciliations, GaveUp
<1>4. s.pc = "finish" /\ s.pkg = r.pkg /\ s.resolved = r.resolved /\ s.errs
  BY <1>1, <1>2 DEF GaveUp, Reconciliations
<1>5. Sound(c, s)
  BY <1>4 DEF Sound, Good
<1>6. Progress(s, os, v)
  BY <1>4 DEF Progress
<1> QED
  BY <1>1, <1>3, <1>5, <1>6 DEF Good

LEMMA OutdatedGood ==
  ASSUME NEW c, NEW r, NEW os, NEW v, Good(c, r, os, v)
  PROVE  Good(c, Outdated(r), os, v)
<1>1. PICK s : s = Outdated(r)
  OBVIOUS
<1>2. r \in Reconciliations
  BY DEF Good
<1>3. s \in Reconciliations
  BY <1>1, <1>2 DEF Reconciliations, Outdated
<1>4. /\ s.pc = r.pc /\ s.pkg = r.pkg /\ s.values = r.values /\ s.resolved = r.resolved /\ s.errs = r.errs
      /\ s.todo = r.todo /\ s.name = r.name /\ s.cur = r.cur /\ s.tries = r.tries /\ s.manifest = r.manifest
      /\ s.left = r.left /\ s.results = r.results
  BY <1>1, <1>2 DEF Outdated, Reconciliations
<1>5. Sound(c, s)
  BY <1>4 DEF Sound, Good
<1>6. Before(r, os) => Before(s, os)
  BY <1>4 DEF Before
<1>7. AllDone(r, os) => AllDone(s, os)
  BY <1>4 DEF AllDone
<1>8. Progress(s, os, v)
  BY <1>4, <1>6, <1>7 DEF Progress, Good
<1> QED
  BY <1>1, <1>3, <1>5, <1>8 DEF Good

-----------------------------------------------------------------------------
(* The steps of the system.                                                *)

LEMMA InvGood ==
  ASSUME Inv, NEW c \in Controllers
  PROVE  Good(c, rec[c], obj[rec[c].pkg], release[rec[c].pkg].value)
BY DEF Inv, StateTypes, Good

LEMMA InvFromGood ==
  ASSUME StateTypes, DeployedIsValid,
         \A c \in Controllers : Good(c, rec[c], obj[rec[c].pkg], release[rec[c].pkg].value)
  PROVE  Inv
BY DEF Inv, Good

LEMMA CountsTypes ==
  ASSUME count \in Counters
  PROVE  /\ Counts("edits", MaxEdits) => count' \in Counters /\ count'.edits = count.edits + 1
         /\ Counts("changes", MaxChanges) => count' \in Counters /\ count'.edits = count.edits
         /\ Fault => count' \in Counters /\ count'.edits = count.edits
<1>1. PICK k, k2 : k = count /\ k2 = count'
  OBVIOUS
<1>2. k \in Counters /\ k.edits \in 0..MaxEdits /\ k.changes \in 0..MaxChanges /\ k.faults \in 0..MaxFaults
  BY <1>1 DEF Counters
<1>3. ASSUME Counts("edits", MaxEdits) PROVE k2 \in Counters /\ k2.edits = k.edits + 1
  <2>1. k.edits < MaxEdits /\ k2 = [k EXCEPT !.edits = @ + 1]
    BY <1>1, <1>3 DEF Counts
  <2>2. k.edits + 1 \in 0..MaxEdits
    BY <1>2, <2>1, Constants
  <2> QED
    BY <1>2, <2>1, <2>2 DEF Counters
<1>4. ASSUME Counts("changes", MaxChanges) PROVE k2 \in Counters /\ k2.edits = k.edits
  <2>1. k.changes < MaxChanges /\ k2 = [k EXCEPT !.changes = @ + 1]
    BY <1>1, <1>4 DEF Counts
  <2>2. k.changes + 1 \in 0..MaxChanges
    BY <1>2, <2>1, Constants
  <2> QED
    BY <1>2, <2>1, <2>2 DEF Counters
<1>5. ASSUME Fault PROVE k2 \in Counters /\ k2.edits = k.edits
  <2>1. k.faults < MaxFaults /\ k2 = [k EXCEPT !.faults = @ + 1]
    BY <1>1, <1>5 DEF Fault, Counts
  <2>2. k.faults + 1 \in 0..MaxFaults
    BY <1>2, <2>1, Constants
  <2> QED
    BY <1>2, <2>1, <2>2 DEF Counters
<1> QED
  BY <1>1, <1>3, <1>4, <1>5

(* A step of a controller that changes nothing on the cluster.             *)
LEMMA QuietStep ==
  ASSUME Inv, NEW c \in Controllers, NEW s, Set(c, s), UNCHANGED <<user, cluster>>,
         UNCHANGED count \/ Fault,
         Good(c, s, obj[s.pkg], release[s.pkg].value)
  PROVE  Inv'
<1>1. spec' = spec /\ data' = data /\ obj' = obj /\ release' = release
  BY DEF user, cluster
<1>2. rec \in [Controllers -> Reconciliations] /\ s \in Reconciliations
  BY DEF Inv, StateTypes, Good
<1>3. rec' \in [Controllers -> Reconciliations] /\ rec'[c] = s /\ \A d \in Controllers : d # c => rec'[d] = rec[d]
  BY <1>2 DEF Set
<1>4. count' \in Counters
  BY CountsTypes DEF Inv, StateTypes
<1>5. StateTypes'
  BY <1>1, <1>3, <1>4 DEF Inv, StateTypes
<1>6. DeployedIsValid'
  BY <1>1 DEF Inv, DeployedIsValid
<1>7. ASSUME NEW d \in Controllers
      PROVE  Good(d, rec'[d], obj'[rec'[d].pkg], release'[rec'[d].pkg].value)
  <2>1. CASE d = c
    BY <1>1, <1>3, <2>1
  <2>2. CASE d # c
    BY <1>1, <1>3, <2>2, InvGood
  <2> QED
    BY <2>1, <2>2
<1> QED
  BY <1>5, <1>6, <1>7 DEF Inv, Good

(* A step of a controller that changes its package on the cluster.         *)
LEMMA ClusterStep ==
  ASSUME Inv, NEW c \in Controllers, NEW s, Set(c, s), UNCHANGED <<user, count>>,
         rec[c].pc # "idle", s.pkg = rec[c].pkg,
         \A q \in Pkgs : q # s.pkg => obj'[q] = obj[q] /\ release'[q].value = release[q].value,
         DOMAIN obj' = Pkgs /\ obj' = [p \in Pkgs |-> obj'[p]],
         obj'[s.pkg] \in [Objects(s.pkg) -> Stored],
         release' \in [Pkgs -> [value : Stored, observed : Stored, ready : {"unknown", "true", "false"}]],
         DeployedIsValid',
         Good(c, s, obj'[s.pkg], release'[s.pkg].value)
  PROVE  Inv'
<1>1. spec' = spec /\ data' = data /\ count' = count
  BY DEF user
<1>2. rec \in [Controllers -> Reconciliations] /\ s \in Reconciliations
  BY DEF Inv, StateTypes, Good
<1>3. rec' \in [Controllers -> Reconciliations] /\ rec'[c] = s /\ \A d \in Controllers : d # c => rec'[d] = rec[d]
  BY <1>2 DEF Set
<1>4. rec[c].pkg \in Pkgs /\ ControllerOf(rec[c].pkg) = c
  BY DEF Inv, Sound
<1>5. \A p \in Pkgs : obj'[p] \in [Objects(p) -> Stored]
  BY DEF Inv, StateTypes
<1>6. StateTypes'
  BY <1>1, <1>3, <1>5 DEF Inv, StateTypes
<1>7. ASSUME NEW d \in Controllers
      PROVE  Good(d, rec'[d], obj'[rec'[d].pkg], release'[rec'[d].pkg].value)
  <2>1. CASE d = c
    BY <1>3, <2>1
  <2>2. CASE d # c
    <3>1. rec'[d] = rec[d] /\ Good(d, rec[d], obj[rec[d].pkg], release[rec[d].pkg].value)
      BY <1>3, <2>2, InvGood
    <3>2. CASE rec[d].pc = "idle"
      BY <3>1, <3>2 DEF Good, Progress
    <3>3. CASE rec[d].pc # "idle"
      <4>1. rec[d].pkg \in Pkgs /\ ControllerOf(rec[d].pkg) = d
        BY <3>1, <3>3 DEF Good, Sound
      <4>2. rec[d].pkg # s.pkg
        BY <1>4, <2>2, <4>1
      <4> QED
        BY <3>1, <4>1, <4>2
    <3> QED
      BY <3>2, <3>3
  <2> QED
    BY <2>1, <2>2
<1> QED
  BY <1>6, <1>7 DEF Inv, Good

LEMMA InitInv == Init => Inv
<1> SUFFICES ASSUME Init PROVE Inv
  OBVIOUS
<1>1. spec \in [Pkgs -> Values] /\ data \in [Keys -> Literals \union {Unset}]
  BY InitialAssumption DEF Init
<1>2. Idle \in Reconciliations /\ \A c : Sound(c, Idle) /\ \A os, v : Progress(Idle, os, v)
  BY IdleGood DEF Good
<1>3. rec = [c \in Controllers |-> Idle]
  BY DEF Init
<1>4. rec \in [Controllers -> Reconciliations]
  BY <1>2, <1>3
<1>5. /\ DOMAIN obj = Pkgs /\ obj = [p \in Pkgs |-> obj[p]]
      /\ \A p \in Pkgs : obj[p] \in [Objects(p) -> Stored]
  BY DEF Init, Stored
<1>6. release \in [Pkgs -> [value : Stored, observed : Stored, ready : {"unknown", "true", "false"}]]
  BY DEF Init, Stored, NoRelease
<1>7. count \in Counters
  BY Constants DEF Init, Counters
<1>8. DeployedIsValid
  <2> SUFFICES ASSUME NEW p \in Pkgs, NEW o \in Objects(p) \union {Release}
               PROVE  (IF o = Release THEN release[p].value ELSE obj[p][o]) \notin Literals
    BY DEF DeployedIsValid
  <2>1. release[p].value = None
    BY DEF Init, NoRelease
  <2>2. o # Release => obj[p][o] = None
    BY DEF Init
  <2> QED
    BY <2>1, <2>2, PackageValuesAssumption
<1>9. StateTypes
  BY <1>1, <1>4, <1>5, <1>6, <1>7 DEF StateTypes
<1> QED
  BY <1>2, <1>3, <1>8, <1>9 DEF Inv

LEMMA SetValueInv ==
  ASSUME Inv, NEW p \in Pkgs, NEW n \in NameSet, NEW source \in Sources \union {Unset}, SetValue(p, n, source)
  PROVE  Inv'
<1>1. /\ spec' = [spec EXCEPT ![p] = [spec[p] EXCEPT ![n] = source]]
      /\ data' = data /\ rec' = rec /\ obj' = obj /\ release' = release
  BY DEF SetValue
<1>2. spec[p] \in Values
  BY DEF Inv, StateTypes
<1>3. [spec[p] EXCEPT ![n] = source] \in Values
  BY <1>2 DEF Values
<1>4. spec' \in [Pkgs -> Values]
  BY <1>1, <1>3 DEF Inv, StateTypes
<1>5. count' \in Counters
  BY CountsTypes DEF SetValue, Inv, StateTypes
<1>6. StateTypes'
  BY <1>1, <1>4, <1>5 DEF Inv, StateTypes
<1>7. DeployedIsValid'
  BY <1>1 DEF Inv, DeployedIsValid
<1> QED
  BY <1>1, <1>6, <1>7 DEF Inv

LEMMA ChangeDataInv ==
  ASSUME Inv, NEW k \in Keys, NEW v \in Literals \union {Unset}, ChangeData(k, v)
  PROVE  Inv'
<1>1. /\ data' = [data EXCEPT ![k] = v]
      /\ spec' = spec /\ rec' = rec /\ obj' = obj /\ release' = release
  BY DEF ChangeData
<1>2. data' \in [Keys -> Literals \union {Unset}]
  BY <1>1 DEF Inv, StateTypes
<1>3. count' \in Counters
  BY CountsTypes DEF ChangeData, Inv, StateTypes
<1>4. StateTypes'
  BY <1>1, <1>2, <1>3 DEF Inv, StateTypes
<1>5. DeployedIsValid'
  BY <1>1 DEF Inv, DeployedIsValid
<1> QED
  BY <1>1, <1>4, <1>5 DEF Inv

LEMMA BeginInv ==
  ASSUME Inv, NEW p \in Pkgs, Begin(p)
  PROVE  Inv'
<1> DEFINE c == ControllerOf(p)
<1> DEFINE references == {n \in NameSet : spec[p][n] # Unset /\ spec[p][n].kind # "literal"}
<1> DEFINE resolved == [n \in NameSet |-> IF spec[p][n] # Unset /\ n \notin references THEN spec[p][n].value ELSE Unset]
<1>1. c \in Controllers
  BY DEF ControllerOf, Controllers
<1>2. spec[p] \in Values
  BY DEF Inv, StateTypes
<1>3. \A n \in references : spec[p][n] \in Refs
  BY <1>2 DEF Values, Refs
<1>4. resolved \in Resolutions
  <2> SUFFICES ASSUME NEW n \in NameSet, spec[p][n] # Unset, n \notin references
               PROVE  spec[p][n].value \in Literals
    BY DEF Resolutions
  <2>1. spec[p][n] \in Sources /\ spec[p][n].kind = "literal"
    BY <1>2 DEF Values
  <2> QED
    BY <2>1 DEF Sources, Literal, KeyRef, PackageRef
<1>5. Set(c, Begun(p, spec[p], references, resolved)) /\ UNCHANGED <<user, cluster, count>>
  BY DEF Begin, Begun
<1>6. PICK values, refs, res, s :
        values = spec[p] /\ refs = references /\ res = resolved /\ s = Begun(p, values, refs, res)
  OBVIOUS
<1>7. Good(c, s, obj[s.pkg], release[s.pkg].value)
  <2>1. PICK os, v : os = obj[s.pkg] /\ v = release[s.pkg].value
    OBVIOUS
  <2>2. values \in Values /\ refs \in SUBSET NameSet /\ res \in Resolutions /\ \A n \in refs : values[n] \in Refs
    BY <1>2, <1>3, <1>4, <1>6
  <2>3. Good(c, Begun(p, values, refs, res), os, v)
    BY <2>2, BegunGood
  <2> QED
    BY <1>6, <2>1, <2>3
<1>8. Set(c, s)
  BY <1>5, <1>6
<1> HIDE DEF c, references, resolved
<1> QED
  BY <1>1, <1>5, <1>7, <1>8, QuietStep

LEMMA ResolveNextInv ==
  ASSUME Inv, NEW c \in Controllers, NEW n \in NameSet, ResolveNext(c, n)
  PROVE  Inv'
<1>1. PICK r, os, v : r = rec[c] /\ os = obj[r.pkg] /\ v = release[r.pkg].value
  OBVIOUS
<1>2. Good(c, r, os, v)
  BY <1>1, InvGood
<1>3. r.pc = "resolve" /\ n \in r.todo
  BY <1>1 DEF ResolveNext
<1>4. PICK s : s = Following(r, n, r.values[n])
  OBVIOUS
<1>5. Set(c, s) /\ UNCHANGED <<user, cluster, count>>
  BY <1>1, <1>4 DEF ResolveNext, Following
<1>6. Good(c, s, os, v)
  BY <1>2, <1>3, <1>4, FollowingGood
<1>7. s.pkg = r.pkg
  BY <1>2, <1>4 DEF Good, Following, Reconciliations
<1> QED
  BY <1>1, <1>5, <1>6, <1>7, QuietStep

(* One name comes to v, or to nothing.                                     *)
LEMMA ResolvedInv ==
  ASSUME Inv, NEW c \in Controllers, rec[c].pc = "resolve", rec[c].cur # None, NEW w \in Literals \union {Unset},
         Resolved(c, w), UNCHANGED <<user, cluster>>, UNCHANGED count \/ Fault
  PROVE  Inv'
<1>1. PICK r, os, v : r = rec[c] /\ os = obj[r.pkg] /\ v = release[r.pkg].value
  OBVIOUS
<1>2. Good(c, r, os, v)
  BY <1>1, InvGood
<1>3. PICK s : s = ResolvedTo(r, w)
  OBVIOUS
<1>4. Set(c, s)
  BY <1>1, <1>3 DEF Resolved, ResolvedTo
<1>5. Good(c, s, os, v)
  BY <1>1, <1>2, <1>3, ResolvedGood
<1>6. s.pkg = r.pkg
  BY <1>2, <1>3 DEF Good, ResolvedTo, Reconciliations
<1> QED
  BY <1>1, <1>4, <1>5, <1>6, QuietStep

LEMMA KeyRefTypes ==
  ASSUME NEW source \in Refs, source.kind = "key"
  PROVE  source.key \in Keys
BY DEF Refs, Sources, Literal, KeyRef, PackageRef

LEMMA PackageRefTypes ==
  ASSUME NEW source \in Refs, source.kind = "package"
  PROVE  source.pkg \in ClusterPkgs /\ source.name \in NameSet
BY DEF Refs, Sources, Literal, KeyRef, PackageRef

LEMMA LiteralTypes ==
  ASSUME NEW source \in Sources, source.kind = "literal"
  PROVE  source.value \in Literals
BY DEF Sources, Literal, KeyRef, PackageRef

LEMMA ResolveKeyRefInv ==
  ASSUME Inv, NEW c \in Controllers, ResolveKeyRef(c)
  PROVE  Inv'
<1>1. rec[c].pc = "resolve" /\ rec[c].cur # None /\ rec[c].cur.kind = "key" /\ UNCHANGED <<user, cluster>>
  BY DEF ResolveKeyRef
<1>2. PICK w : w = data[rec[c].cur.key]
  OBVIOUS
<1>3. w \in Literals \union {Unset}
  <2>1. rec[c].cur \in Refs
    BY <1>1 DEF Inv, StateTypes, Reconciliations
  <2>2. rec[c].cur.key \in Keys
    BY <1>1, <2>1, KeyRefTypes
  <2> QED
    BY <1>2, <2>2 DEF Inv, StateTypes
<1>4. \/ Resolved(c, w) /\ UNCHANGED count
      \/ Resolved(c, Unset) /\ Fault
  BY <1>2 DEF ResolveKeyRef
<1> QED
  BY <1>1, <1>3, <1>4, ResolvedInv

LEMMA ResolvePackageRefInv ==
  ASSUME Inv, NEW c \in Controllers, ResolvePackageRef(c)
  PROVE  Inv'
<1>1. /\ rec[c].pc = "resolve" /\ rec[c].cur # None /\ rec[c].cur.kind = "package" /\ UNCHANGED <<user, cluster>>
      /\ rec[c].depth < MaxDepth
  BY DEF ResolvePackageRef
<1>2. PICK source : source = spec[rec[c].cur.pkg][rec[c].cur.name]
  OBVIOUS
<1>3. source \in Sources \union {Unset}
  <2>1. rec[c].cur \in Refs
    BY <1>1 DEF Inv, StateTypes, Reconciliations
  <2>2. rec[c].cur.pkg \in Pkgs /\ rec[c].cur.name \in NameSet
    BY <1>1, <2>1, PackageRefTypes, PackageValuesAssumption
  <2>3. spec[rec[c].cur.pkg] \in Values
    BY <2>2 DEF Inv, StateTypes
  <2> QED
    BY <1>2, <2>2, <2>3 DEF Values
<1>4. CASE Resolved(c, Unset) /\ (UNCHANGED count \/ Fault)
  BY <1>1, <1>4, ResolvedInv
<1>5. CASE source # Unset /\ source.kind = "literal" /\ Resolved(c, source.value) /\ UNCHANGED count
  BY <1>1, <1>3, <1>5, LiteralTypes, ResolvedInv
<1>6. CASE /\ source # Unset /\ source.kind # "literal"
           /\ Set(c, [rec[c] EXCEPT !.cur = source, !.depth = @ + 1]) /\ UNCHANGED count
  <2>1. PICK r, os, v : r = rec[c] /\ os = obj[r.pkg] /\ v = release[r.pkg].value
    OBVIOUS
  <2>2. Good(c, r, os, v)
    BY <2>1, InvGood
  <2>3. PICK s : s = Deeper(r, source)
    OBVIOUS
  <2>4. Set(c, s)
    BY <1>6, <2>1, <2>3 DEF Deeper
  <2>5. source \in Refs
    BY <1>3, <1>6 DEF Refs
  <2>6. Good(c, s, os, v)
    BY <1>1, <2>1, <2>2, <2>3, <2>5, DeeperGood
  <2>7. s.pkg = r.pkg
    BY <2>2, <2>3 DEF Good, Deeper, Reconciliations
  <2> QED
    BY <1>1, <1>6, <2>1, <2>4, <2>6, <2>7, QuietStep
<1> QED
  BY <1>2, <1>4, <1>5, <1>6 DEF ResolvePackageRef

LEMMA FinishInv ==
  ASSUME Inv, NEW c \in Controllers, Finish(c), UNCHANGED <<user, cluster>>, UNCHANGED count \/ Fault
  PROVE  Inv'
<1>1. Good(c, Idle, obj[Idle.pkg], release[Idle.pkg].value)
  BY IdleGood
<1> QED
  BY <1>1, QuietStep DEF Finish

LEMMA OverflowInv ==
  ASSUME Inv, NEW c \in Controllers, Overflow(c)
  PROVE  Inv'
<1>1. UNCHANGED <<spec, data, obj, release, count>> /\ rec' = [d \in Controllers |-> Idle]
  BY DEF Overflow, user, cluster
<1>2. Idle \in Reconciliations /\ \A d : Sound(d, Idle) /\ \A os, v : Progress(Idle, os, v)
  BY IdleGood DEF Good
<1>3. StateTypes'
  BY <1>1, <1>2 DEF Inv, StateTypes
<1>4. DeployedIsValid'
  BY <1>1 DEF Inv, DeployedIsValid
<1> QED
  BY <1>1, <1>2, <1>3, <1>4 DEF Inv

LEMMA ResolveEndsInv ==
  ASSUME Inv, NEW c \in Controllers, ResolveEnds(c)
  PROVE  Inv'
<1>1. PICK r, os, v : r = rec[c] /\ os = obj[r.pkg] /\ v = release[r.pkg].value
  OBVIOUS
<1>2. Good(c, r, os, v)
  BY <1>1, InvGood
<1>3. r.pc = "resolve" /\ UNCHANGED <<user, cluster>>
  BY <1>1 DEF ResolveEnds
<1>4. CASE Finish(c) /\ (UNCHANGED count \/ Fault)
  BY <1>3, <1>4, FinishInv
<1>5. CASE ~r.errs /\ ValidateResolvedValues(r.resolved) /\ Set(c, Prepared(r)) /\ UNCHANGED count
  <2>1. PICK s : s = Prepared(r)
    OBVIOUS
  <2>2. Good(c, s, os, v)
    BY <1>2, <1>3, <1>5, <2>1, PreparedGood
  <2>3. s.pkg = r.pkg
    BY <1>2, <2>1 DEF Good, Prepared, Reconciliations
  <2> QED
    BY <1>1, <1>3, <1>5, <2>1, <2>2, <2>3, QuietStep
<1> QED
  BY <1>1, <1>4, <1>5 DEF ResolveEnds, Prepared

LEMMA PkgKept ==
  ASSUME NEW r \in Reconciliations
  PROVE  /\ \A errs, results : AfterPlain(r, errs, results).pkg = r.pkg
         /\ \A objects : Applying(r, objects).pkg = r.pkg
         /\ AppliedOne(r).pkg = r.pkg /\ AppliedLast(r).pkg = r.pkg
         /\ \A pc : At(r, pc).pkg = r.pkg
         /\ Waiting(r).pkg = r.pkg /\ Failed(r).pkg = r.pkg /\ Got(r).pkg = r.pkg
         /\ \A result : Put(r, result).pkg = r.pkg
         /\ GaveUp(r).pkg = r.pkg
<1>1. \A errs, results : AfterPlain(r, errs, results).pkg = r.pkg
  BY DEF AfterPlain, Reconciliations
<1>2. \A objects : Applying(r, objects).pkg = r.pkg
  BY DEF Applying, Reconciliations
<1>3. AppliedOne(r).pkg = r.pkg /\ AppliedLast(r).pkg = r.pkg
  BY DEF AppliedOne, AppliedLast, Reconciliations
<1>4. \A pc : At(r, pc).pkg = r.pkg
  BY DEF At, Reconciliations
<1>5. Waiting(r).pkg = r.pkg /\ Failed(r).pkg = r.pkg /\ Got(r).pkg = r.pkg
  BY DEF Waiting, Failed, Got, Reconciliations
<1>6. \A result : Put(r, result).pkg = r.pkg
  BY DEF Put, Reconciliations
<1>7. GaveUp(r).pkg = r.pkg
  BY DEF GaveUp, Reconciliations
<1> QED
  BY <1>1, <1>2, <1>3, <1>4, <1>5, <1>6, <1>7

LEMMA AfterPlainInv ==
  ASSUME Inv, NEW c \in Controllers, NEW errs \in BOOLEAN, NEW results \in SUBSET {"ready", "waiting"},
         rec[c].pc \in {"prepare", "apply", "check"},
         ~errs /\ ~rec[c].errs => AllDone(rec[c], obj[rec[c].pkg]),
         Set(c, AfterPlain(rec[c], errs, results)), UNCHANGED <<user, cluster>>, UNCHANGED count \/ Fault
  PROVE  Inv'
<1>1. PICK r, os, v : r = rec[c] /\ os = obj[r.pkg] /\ v = release[r.pkg].value
  OBVIOUS
<1>2. Good(c, r, os, v)
  BY <1>1, InvGood
<1>3. PICK s : s = AfterPlain(r, errs, results)
  OBVIOUS
<1>4. r.pc \in {"prepare", "apply", "check"} /\ (~errs /\ ~r.errs => AllDone(r, os))
  BY <1>1
<1>5. Good(c, s, os, v)
  BY <1>2, <1>3, <1>4, AfterPlainGood
<1>6. s.pkg = r.pkg
  BY <1>2, <1>3, PkgKept DEF Good
<1> QED
  BY <1>1, <1>3, <1>5, <1>6, QuietStep

LEMMA PrepareInv ==
  ASSUME Inv, NEW c \in Controllers, Prepare(c)
  PROVE  Inv'
<1>1. PICK r, os, v : r = rec[c] /\ os = obj[r.pkg] /\ v = release[r.pkg].value
  OBVIOUS
<1>2. Good(c, r, os, v) /\ r \in Reconciliations
  BY <1>1, InvGood DEF Good
<1>3. r.pc = "prepare" /\ UNCHANGED <<user, cluster>>
  BY <1>1 DEF Prepare
<1>4. CASE /\ r.manifest <= Len(Manifests[r.pkg]) /\ UNCHANGED count
           /\ Set(c, Applying(r, Manifests[r.pkg][r.manifest]))
  <2>1. PICK s : s = Applying(r, Manifests[r.pkg][r.manifest])
    OBVIOUS
  <2>2. Good(c, s, os, v)
    BY <1>2, <1>3, <1>4, <2>1, ApplyingGood
  <2>3. s.pkg = r.pkg
    BY <1>2, <2>1, PkgKept
  <2> QED
    BY <1>1, <1>3, <1>4, <2>1, <2>2, <2>3, QuietStep
<1>5. CASE Set(c, AfterPlain(r, TRUE, {})) /\ Fault
  BY <1>1, <1>3, <1>5, AfterPlainInv
<1>6. CASE /\ r.manifest > Len(Manifests[r.pkg]) /\ UNCHANGED count
           /\ Set(c, IF r.manifest = 1 THEN AfterPlain(r, FALSE, {}) ELSE At(r, "check"))
  <2>1. AllDone(r, os) /\ Good(c, At(r, "check"), os, v)
    BY <1>2, <1>3, <1>6, CheckingGood
  <2>2. CASE r.manifest = 1
    BY <1>1, <1>3, <1>6, <2>1, <2>2, AfterPlainInv
  <2>3. CASE r.manifest # 1
    <3>1. PICK s : s = At(r, "check")
      OBVIOUS
    <3>2. s.pkg = r.pkg
      BY <1>2, <3>1, PkgKept
    <3> QED
      BY <1>1, <1>3, <1>6, <2>1, <2>3, <3>1, <3>2, QuietStep
  <2> QED
    BY <2>2, <2>3
<1> QED
  BY <1>1, <1>4, <1>5, <1>6 DEF Prepare, Applying, At

LEMMA ApplyObjectInv ==
  ASSUME Inv, NEW c \in Controllers, ApplyObject(c)
  PROVE  Inv'
<1>1. PICK r, os, v : r = rec[c] /\ os = obj[r.pkg] /\ v = release[r.pkg].value
  OBVIOUS
<1>2. Good(c, r, os, v) /\ r \in Reconciliations
  BY <1>1, InvGood DEF Good
<1>3. r.pc = "apply" /\ UNCHANGED <<user, release>>
  BY <1>1 DEF ApplyObject
<1>4. CASE Fault /\ Set(c, AfterPlain(r, TRUE, {})) /\ UNCHANGED obj
  <2>1. UNCHANGED <<user, cluster>>
    BY <1>3, <1>4 DEF cluster
  <2> QED
    BY <1>1, <1>3, <1>4, <2>1, AfterPlainInv
<1>5. ASSUME obj' = [obj EXCEPT ![r.pkg][Head(r.left)] = Patched(Head(r.left), r.resolved)],
             Set(c, IF Len(r.left) > 1 THEN AppliedOne(r) ELSE AppliedLast(r)), UNCHANGED count
      PROVE  Inv'
  <2>1. PICK o, os2 : o = Head(r.left) /\ os2 = [os EXCEPT ![o] = Patched(o, r.resolved)]
    OBVIOUS
  <2>2. PICK s : s = (IF Len(r.left) > 1 THEN AppliedOne(r) ELSE AppliedLast(r))
    OBVIOUS
  <2>3. /\ r.pkg \in Pkgs /\ r.resolved \in Resolutions /\ ValidateResolvedValues(r.resolved)
        /\ r.left \in Seq(AllObjects) /\ r.left # <<>> /\ Elements(r.left) \subseteq Objects(r.pkg)
    BY <1>2, <1>3 DEF Good, Sound, Progress, Reconciliations
  <2>4. o \in Objects(r.pkg)
    BY <2>1, <2>3, TailElements
  <2>5. /\ DOMAIN obj = Pkgs /\ obj = [p \in Pkgs |-> obj[p]]
        /\ os \in [Objects(r.pkg) -> Stored]
    BY <1>1, <2>3 DEF Inv, StateTypes
  <2>6. Good(c, s, os2, v)
    <3>1. CASE Len(r.left) > 1
      BY <1>2, <1>3, <2>1, <2>2, <2>5, <3>1, AppliedOneGood
    <3>2. CASE ~ (Len(r.left) > 1)
      BY <1>2, <1>3, <2>1, <2>2, <2>5, <3>2, AppliedLastGood
    <3> QED
      BY <3>1, <3>2
  <2>7. s.pkg = r.pkg
    BY <1>2, <2>2, PkgKept
  <2>8. obj' = [obj EXCEPT ![r.pkg] = os2]
    BY <1>1, <1>5, <2>1
  <2>9. /\ \A q \in Pkgs : q # r.pkg => obj'[q] = obj[q]
        /\ obj'[r.pkg] = os2
        /\ DOMAIN obj' = Pkgs /\ obj' = [p \in Pkgs |-> obj'[p]]
    BY <2>3, <2>5, <2>8
  <2>10. /\ Patched(o, r.resolved) \in Stored
         /\ Patched(o, r.resolved) \in Literals => \E n \in Targets[o] : ValidateSingle(n, Patched(o, r.resolved))
    BY <2>3, PatchedValid
  <2>11. os2 \in [Objects(r.pkg) -> Stored] /\ \A q \in Objects(r.pkg) : q # o => os2[q] = os[q]
    BY <2>1, <2>4, <2>5, <2>10
  <2>12. os2[o] = Patched(o, r.resolved)
    BY <2>1, <2>4, <2>5
  <2>13. DeployedIsValid'
    <3> SUFFICES ASSUME NEW p \in Pkgs, NEW q \in Objects(p) \union {Release},
                        (IF q = Release THEN release'[p].value ELSE obj'[p][q]) \in Literals
                 PROVE  \E n \in Targets[q] : ValidateSingle(n, IF q = Release THEN release'[p].value ELSE obj'[p][q])
      BY DEF DeployedIsValid
    <3>1. PICK was, is : /\ was = (IF q = Release THEN release[p].value ELSE obj[p][q])
                         /\ is = (IF q = Release THEN release'[p].value ELSE obj'[p][q])
      OBVIOUS
    <3>2. was \in Literals => \E n \in Targets[q] : ValidateSingle(n, was)
      BY <3>1 DEF Inv, DeployedIsValid
    <3>3. CASE p # r.pkg \/ q = Release \/ q # o
      <4>1. was = is
        BY <1>1, <1>3, <2>9, <2>11, <3>1, <3>3
      <4> QED
        BY <3>1, <3>2, <4>1
    <3>4. CASE p = r.pkg /\ q # Release /\ q = o
      <4>1. is = Patched(o, r.resolved)
        BY <2>9, <2>12, <3>1, <3>4
      <4> QED
        BY <2>10, <3>1, <3>4, <4>1
    <3> QED
      BY <3>3, <3>4
  <2>14. release' \in [Pkgs -> [value : Stored, observed : Stored, ready : {"unknown", "true", "false"}]]
    BY <1>3 DEF Inv, StateTypes
  <2>15. Set(c, s) /\ UNCHANGED <<user, count>>
    BY <1>3, <1>5, <2>2
  <2>16. obj'[s.pkg] \in [Objects(s.pkg) -> Stored]
    BY <2>7, <2>9, <2>11
  <2>17. Good(c, s, obj'[s.pkg], release'[s.pkg].value)
    BY <1>1, <1>3, <2>6, <2>7, <2>9
  <2>18. \A q \in Pkgs : q # s.pkg => obj'[q] = obj[q] /\ release'[q].value = release[q].value
    BY <1>3, <2>7, <2>9
  <2>19. rec[c].pc # "idle" /\ s.pkg = rec[c].pkg
    BY <1>1, <1>3, <2>7
  <2> QED
    BY <2>9, <2>13, <2>14, <2>15, <2>16, <2>17, <2>18, <2>19, ClusterStep
<1> QED
  BY <1>1, <1>4, <1>5 DEF ApplyObject, AppliedOne, AppliedLast

LEMMA CheckReadyInv ==
  ASSUME Inv, NEW c \in Controllers, CheckReady(c)
  PROVE  Inv'
<1>1. rec[c].pc = "check" /\ UNCHANGED <<user, cluster>>
  BY DEF CheckReady
<1>2. ~rec[c].errs => AllDone(rec[c], obj[rec[c].pkg])
  BY <1>1, InvGood DEF Good, Progress
<1>3. CASE Set(c, AfterPlain(rec[c], TRUE, {})) /\ Fault
  BY <1>1, <1>3, AfterPlainInv
<1>4. ASSUME NEW result \in {"ready", "waiting"}, Set(c, AfterPlain(rec[c], FALSE, {result})), UNCHANGED count
      PROVE  Inv'
  <2>1. PICK results \in SUBSET {"ready", "waiting"} : results = {result}
    OBVIOUS
  <2> QED
    BY <1>1, <1>2, <1>4, <2>1, AfterPlainInv
<1> QED
  BY <1>3, <1>4 DEF CheckReady

LEMMA EnsureHelmRepositoryInv ==
  ASSUME Inv, NEW c \in Controllers, EnsureHelmRepository(c)
  PROVE  Inv'
<1>1. PICK r, os, v : r = rec[c] /\ os = obj[r.pkg] /\ v = release[r.pkg].value
  OBVIOUS
<1>2. Good(c, r, os, v) /\ r \in Reconciliations
  BY <1>1, InvGood DEF Good
<1>3. r.pc = "helm" /\ UNCHANGED <<user, cluster>>
  BY <1>1 DEF EnsureHelmRepository
<1>4. r.tries < MaxTries
  BY <1>2, <1>3, Constants DEF Good, Sound
<1>5. PICK s : Set(c, s) /\ (UNCHANGED count \/ Fault) /\ (s = At(r, "get") \/ s = Waiting(r) \/ s = Failed(r))
  BY <1>1 DEF EnsureHelmRepository, At, Waiting, Failed
<1>6. Good(c, s, os, v)
  BY <1>2, <1>3, <1>4, <1>5, GetGood, WaitingGood, FailedGood
<1>7. s.pkg = r.pkg
  BY <1>2, <1>5, PkgKept
<1> QED
  BY <1>1, <1>3, <1>5, <1>6, <1>7, QuietStep

LEMMA GetReleaseInv ==
  ASSUME Inv, NEW c \in Controllers, GetRelease(c)
  PROVE  Inv'
<1>1. PICK r, os, v : r = rec[c] /\ os = obj[r.pkg] /\ v = release[r.pkg].value
  OBVIOUS
<1>2. Good(c, r, os, v) /\ r \in Reconciliations
  BY <1>1, InvGood DEF Good
<1>3. r.pc = "get" /\ UNCHANGED <<user, cluster>>
  BY <1>1 DEF GetRelease
<1>4. PICK s : Set(c, s) /\ (UNCHANGED count \/ Fault) /\ (s = Got(r) \/ s = Failed(r))
  BY <1>1 DEF GetRelease, Got, Failed
<1>5. Good(c, s, os, v)
  BY <1>2, <1>3, <1>4, GotGood, FailedGood
<1>6. s.pkg = r.pkg
  BY <1>2, <1>4, PkgKept
<1> QED
  BY <1>1, <1>3, <1>4, <1>5, <1>6, QuietStep

LEMMA PutReleaseInv ==
  ASSUME Inv, NEW c \in Controllers, PutRelease(c)
  PROVE  Inv'
<1>1. PICK r, os, v : r = rec[c] /\ os = obj[r.pkg] /\ v = release[r.pkg].value
  OBVIOUS
<1>2. Good(c, r, os, v) /\ r \in Reconciliations
  BY <1>1, InvGood DEF Good
<1>3. r.pc = "put" /\ UNCHANGED <<user, obj, count>>
  BY <1>1 DEF PutRelease
<1>4. r.pkg \in Pkgs /\ r.resolved \in Resolutions /\ ValidateResolvedValues(r.resolved)
  BY <1>2, <1>3 DEF Good, Sound
<1>5. PICK w : w = Patched(Release, r.resolved)
  OBVIOUS
<1>6. CASE /\ UNCHANGED release
           /\ Set(c, IF r.tries < MaxTries THEN At(r, "get") ELSE GaveUp(r))
  <2>1. PICK s : s = (IF r.tries < MaxTries THEN At(r, "get") ELSE GaveUp(r))
    OBVIOUS
  <2>2. Good(c, s, os, v)
    BY <1>2, <1>3, <2>1, GetGood, GaveUpGood
  <2>3. s.pkg = r.pkg
    BY <1>2, <2>1, PkgKept
  <2>4. UNCHANGED <<user, cluster>> /\ Set(c, s) /\ UNCHANGED count
    BY <1>3, <1>6, <2>1 DEF cluster
  <2> QED
    BY <1>1, <2>2, <2>3, <2>4, QuietStep
<1>7. ASSUME release' = [release EXCEPT ![r.pkg].value = w],
             NEW result \in {"ready", "waiting", "failed"}, Set(c, Put(r, result))
      PROVE  Inv'
  <2>1. PICK s : s = Put(r, result)
    OBVIOUS
  <2>2. Good(c, s, os, w)
    BY <1>2, <1>3, <1>5, <2>1, PutGood
  <2>3. s.pkg = r.pkg
    BY <1>2, <2>1, PkgKept
  <2>4. /\ w \in Stored
        /\ w \in Literals => \E n \in Targets[Release] : ValidateSingle(n, w)
    BY <1>4, <1>5, PatchedValid
  <2>5. release \in [Pkgs -> [value : Stored, observed : Stored, ready : {"unknown", "true", "false"}]]
    BY DEF Inv, StateTypes
  <2>6. /\ release' \in [Pkgs -> [value : Stored, observed : Stored, ready : {"unknown", "true", "false"}]]
        /\ release'[r.pkg].value = w /\ \A q \in Pkgs : q # r.pkg => release'[q] = release[q]
    BY <1>4, <1>7, <2>4, <2>5
  <2>7. DeployedIsValid'
    <3> SUFFICES ASSUME NEW p \in Pkgs, NEW q \in Objects(p) \union {Release},
                        (IF q = Release THEN release'[p].value ELSE obj'[p][q]) \in Literals
                 PROVE  \E n \in Targets[q] : ValidateSingle(n, IF q = Release THEN release'[p].value ELSE obj'[p][q])
      BY DEF DeployedIsValid
    <3>1. PICK was, is : /\ was = (IF q = Release THEN release[p].value ELSE obj[p][q])
                         /\ is = (IF q = Release THEN release'[p].value ELSE obj'[p][q])
      OBVIOUS
    <3>2. was \in Literals => \E n \in Targets[q] : ValidateSingle(n, was)
      BY <3>1 DEF Inv, DeployedIsValid
    <3>3. CASE p # r.pkg \/ q # Release
      <4>1. was = is
        BY <1>3, <2>6, <3>1, <3>3
      <4> QED
        BY <3>1, <3>2, <4>1
    <3>4. CASE p = r.pkg /\ q = Release
      <4>1. is = w
        BY <2>6, <3>1, <3>4
      <4> QED
        BY <2>4, <3>1, <3>4, <4>1
    <3> QED
      BY <3>3, <3>4
  <2>8. DOMAIN obj' = Pkgs /\ obj' = [p \in Pkgs |-> obj'[p]] /\ obj'[s.pkg] \in [Objects(s.pkg) -> Stored]
    BY <1>3, <1>4, <2>3 DEF Inv, StateTypes
  <2>9. Good(c, s, obj'[s.pkg], release'[s.pkg].value)
    BY <1>1, <1>3, <2>2, <2>3, <2>6
  <2>10. \A q \in Pkgs : q # s.pkg => obj'[q] = obj[q] /\ release'[q].value = release[q].value
    BY <1>3, <2>3, <2>6
  <2>11. rec[c].pc # "idle" /\ s.pkg = rec[c].pkg /\ Set(c, s) /\ UNCHANGED <<user, count>>
    BY <1>1, <1>3, <1>7, <2>1, <2>3
  <2> QED
    BY <2>6, <2>7, <2>8, <2>9, <2>10, <2>11, ClusterStep
<1>8. \A condition : extractResult(condition) \subseteq {"ready", "waiting", "failed"}
  BY DEF extractResult
<1>9. CASE r.fresh \/ release[r.pkg].value = w
  <2>1. /\ release' = [release EXCEPT ![r.pkg].value = w]
        /\ \E result \in extractResult(release[r.pkg].ready) : Set(c, Put(r, result))
    BY <1>1, <1>5, <1>9 DEF PutRelease, Put
  <2> QED
    BY <1>7, <1>8, <2>1
<1>10. CASE ~ (r.fresh \/ release[r.pkg].value = w)
  <2>1. /\ UNCHANGED release
        /\ Set(c, IF r.tries < MaxTries THEN At(r, "get") ELSE GaveUp(r))
    BY <1>1, <1>5, <1>10 DEF PutRelease, At, GaveUp
  <2> QED
    BY <1>6, <2>1
<1> QED
  BY <1>9, <1>10

LEMMA ReportInv ==
  ASSUME Inv, NEW c \in Controllers, Report(c)
  PROVE  Inv'
BY FinishInv DEF Report

LEMMA FluxInv ==
  ASSUME Inv, NEW p \in Pkgs, NEW condition \in {"true", "false"}, Flux(p, condition)
  PROVE  Inv'
<1>1. /\ UNCHANGED <<spec, data, obj>>
      /\ release' = [release EXCEPT ![p].observed = release[p].value, ![p].ready = condition]
      /\ rec' = [c \in Controllers |-> IF rec[c].pkg = p THEN Outdated(rec[c]) ELSE rec[c]]
  BY DEF Flux, user, Outdated
<1>2. count' \in Counters
  BY CountsTypes DEF Inv, StateTypes, Flux
<1>3. release \in [Pkgs -> [value : Stored, observed : Stored, ready : {"unknown", "true", "false"}]]
  BY DEF Inv, StateTypes
<1>4. /\ release' \in [Pkgs -> [value : Stored, observed : Stored, ready : {"unknown", "true", "false"}]]
      /\ \A q \in Pkgs : release'[q].value = release[q].value
  BY <1>1, <1>3
<1>5. ASSUME NEW c \in Controllers
      PROVE  Good(c, rec'[c], obj'[rec'[c].pkg], release'[rec'[c].pkg].value)
  <2>1. PICK r, os, v : r = rec[c] /\ os = obj[r.pkg] /\ v = release[r.pkg].value
    OBVIOUS
  <2>2. Good(c, r, os, v) /\ r \in Reconciliations
    BY <2>1, InvGood DEF Good
  <2>3. PICK s : s = rec'[c]
    OBVIOUS
  <2>4. s = Outdated(r) \/ s = r
    BY <1>1, <2>1, <2>3
  <2>5. Good(c, s, os, v)
    BY <2>2, <2>4, OutdatedGood
  <2>6. s.pkg = r.pkg /\ s.pc = r.pc
    BY <2>2, <2>4 DEF Outdated, Reconciliations
  <2>7. CASE r.pc = "idle"
    BY <2>3, <2>5, <2>6, <2>7 DEF Good, Progress
  <2>8. CASE r.pc # "idle"
    <3>1. r.pkg \in Pkgs
      BY <2>2, <2>8 DEF Good, Sound
    <3> QED
      BY <1>1, <1>4, <2>1, <2>3, <2>5, <2>6, <3>1
  <2> QED
    BY <2>7, <2>8
<1>6. rec' \in [Controllers -> Reconciliations]
  BY <1>1, <1>5 DEF Good
<1>7. StateTypes'
  BY <1>1, <1>2, <1>4, <1>6 DEF Inv, StateTypes
<1>8. DeployedIsValid'
  BY <1>1, <1>4 DEF Inv, DeployedIsValid
<1> QED
  BY <1>5, <1>7, <1>8 DEF Inv, Good

LEMMA NextInv ==
  ASSUME Inv, [Next]_vars
  PROVE  Inv'
<1>1. CASE UNCHANGED vars
  BY <1>1 DEF vars, Inv, StateTypes, DeployedIsValid
<1>2. ASSUME NEW p \in Pkgs, NEW n \in NameSet, NEW source \in Sources \union {Unset}, SetValue(p, n, source) PROVE Inv'
  BY <1>2, SetValueInv
<1>3. ASSUME NEW k \in Keys, NEW v \in Literals \union {Unset}, ChangeData(k, v) PROVE Inv'
  BY <1>3, ChangeDataInv
<1>4. ASSUME NEW p \in Pkgs, Begin(p) PROVE Inv'
  BY <1>4, BeginInv
<1>5. ASSUME NEW c \in Controllers, Reconcile(c) PROVE Inv'
  <2>1. ASSUME NEW n \in NameSet, ResolveNext(c, n) PROVE Inv'
    BY <2>1, ResolveNextInv
  <2>2. CASE ResolveKeyRef(c)
    BY <2>2, ResolveKeyRefInv
  <2>3. CASE ResolvePackageRef(c)
    BY <2>3, ResolvePackageRefInv
  <2>4. CASE Overflow(c)
    BY <2>4, OverflowInv
  <2>5. CASE ResolveEnds(c)
    BY <2>5, ResolveEndsInv
  <2>6. CASE Prepare(c)
    BY <2>6, PrepareInv
  <2>7. CASE ApplyObject(c)
    BY <2>7, ApplyObjectInv
  <2>8. CASE CheckReady(c)
    BY <2>8, CheckReadyInv
  <2>9. CASE EnsureHelmRepository(c)
    BY <2>9, EnsureHelmRepositoryInv
  <2>10. CASE GetRelease(c)
    BY <2>10, GetReleaseInv
  <2>11. CASE PutRelease(c)
    BY <2>11, PutReleaseInv
  <2>12. CASE Report(c)
    BY <2>12, ReportInv
  <2> QED
    BY <1>5, <2>1, <2>2, <2>3, <2>4, <2>5, <2>6, <2>7, <2>8, <2>9, <2>10, <2>11, <2>12 DEF Reconcile
<1>6. ASSUME NEW p \in Pkgs, NEW condition \in {"true", "false"}, Flux(p, condition) PROVE Inv'
  BY <1>6, FluxInv
<1> QED
  BY <1>1, <1>2, <1>3, <1>4, <1>5, <1>6 DEF Next

LEMMA InvImpliesDeployment == Inv => DeploymentInv
<1> SUFFICES ASSUME Inv PROVE DeploymentInv
  OBVIOUS
<1>1. TypeOK
  BY DEF Inv, StateTypes, TypeOK, Reconciliations
<1>2. ReadyIsWhole
  <2> SUFFICES ASSUME NEW c \in Controllers, rec[c].pc = "finish", handleAdapterResults(rec[c]) = "ready"
               PROVE  Deployed(rec[c].pkg, rec[c].resolved)
    BY DEF ReadyIsWhole
  <2>1. ~rec[c].errs /\ "failed" \notin rec[c].results /\ "waiting" \notin rec[c].results
    BY DEF handleAdapterResults
  <2>2. Progress(rec[c], obj[rec[c].pkg], release[rec[c].pkg].value)
    BY DEF Inv
  <2> QED
    BY <2>1, <2>2 DEF Progress, AllDone, Done, Deployed
<1> QED
  BY <1>1, <1>2 DEF Inv, DeploymentInv

LEMMA InvAlways == Spec => []Inv
<1>1. Init => Inv
  BY InitInv
<1>2. Inv /\ [Next]_vars => Inv'
  BY NextInv
<1> QED
  BY <1>1, <1>2, PTL DEF Spec

(* Whatever users, keys and Flux do between the calls of the operator, all *)
(* that ValidateResolvedValues lets through and ApplyToResource deploys    *)
(* satisfies a definition, and a package is reported ready only if its     *)
(* objects and its release come from one resolution of its values.         *)
THEOREM DeploymentIsValid == Spec => []DeploymentInv
<1>1. Spec => []Inv
  BY InvAlways
<1>2. Inv => DeploymentInv
  BY InvImpliesDeployment
<1> QED
  BY <1>1, <1>2, PTL

-----------------------------------------------------------------------------
(* How deep references get.  Every edit may make the rest of a chain as    *)
(* long as all values again, but no longer.                                *)

LEMMA BudgetFacts ==
  /\ Cardinality(Nodes) \in Nat
  /\ \A e \in Nat : /\ Budget(e) \in Nat /\ Cardinality(Nodes) <= Budget(e)
                    /\ Budget(e + 1) = Budget(e) + Cardinality(Nodes)
  /\ \A e \in 0..MaxEdits : Budget(e) < MaxDepth
<1>1. PICK k \in Nat : k = Cardinality(Nodes)
  BY NodesFinite
<1>2. ASSUME NEW e \in Nat PROVE k * (e + 1) \in Nat /\ k <= k * (e + 1) /\ k * (e + 1 + 1) = k * (e + 1) + k
  <2>1. k * e \in Nat /\ k * (e + 1) = k * e + k /\ k * (e + 1 + 1) = k * e + k + k
    BY ONLY k \in Nat, e \in Nat
  <2>2. PICK m \in Nat : m = k * e
    BY ONLY <2>1
  <2> QED
    BY ONLY <2>1, <2>2, k \in Nat
<1>3. ASSUME NEW e \in 0..MaxEdits PROVE k * (e + 1) < MaxDepth
  <2>1. PICK f \in Nat : MaxEdits = e + f
    <3>1. MaxEdits \in Nat
      BY Constants
    <3>2. MaxEdits - e \in Nat
      BY <3>1
    <3> QED
      BY <3>1, <3>2
  <2>2. MaxDepth > k * (e + f + 1) /\ MaxDepth \in Nat
    BY <1>1, <2>1, Constants, PackageValuesAssumption
  <2>3. k * (e + f + 1) = k * (e + 1) + k * f /\ k * f \in Nat /\ k * (e + 1) \in Nat
    BY ONLY k \in Nat, e \in 0..MaxEdits, MaxEdits = e + f, f \in Nat
  <2>4. PICK m, n \in Nat : m = k * (e + 1) /\ n = k * f
    BY ONLY <2>3
  <2> QED
    BY ONLY <2>2, <2>3, <2>4
<1> QED
  BY <1>1, <1>2, <1>3 DEF Budget

(* A step of a controller that follows no reference.                       *)
LEMMA DepthStep ==
  ASSUME Inv, DepthInv, NEW c \in Controllers, NEW s, Set(c, s), UNCHANGED <<spec, cyclic, crashed>>,
         UNCHANGED count \/ Fault,
         \A rank \in Ranks(spec) : \A b : Within(rec[c], rank, b) => Within(s, rank, b)
  PROVE  DepthInv'
<1>1. rec \in [Controllers -> Reconciliations] /\ count \in Counters
  BY DEF Inv, StateTypes
<1>2. rec'[c] = s /\ \A d \in Controllers : d # c => rec'[d] = rec[d]
  BY <1>1 DEF Set
<1>3. count'.edits = count.edits
  BY <1>1, CountsTypes
<1> SUFFICES ASSUME ~cyclic PROVE DepthInv'
  BY DEF DepthInv
<1>4. PICK rank \in Ranks(spec) : \A d \in Controllers : Within(rec[d], rank, Budget(count.edits))
  BY DEF DepthInv
<1>5. \A d \in Controllers : Within(rec'[d], rank, Budget(count.edits))
  BY <1>2, <1>4
<1>6. \A d \in Controllers : Within(rec'[d], rank, Budget(count'.edits))
  BY <1>3, <1>5
<1> QED
  BY <1>4, <1>6 DEF DepthInv

LEMMA QuietDepth ==
  ASSUME Inv, DepthInv, NEW c \in Controllers, NEW s, Set(c, s), UNCHANGED <<spec, cyclic, crashed>>,
         UNCHANGED count \/ Fault, s.pc # "resolve" \/ s.cur = None
  PROVE  DepthInv'
<1>1. \A rank \in Ranks(spec) : \A b : Within(s, rank, b)
  BY DEF Within
<1> QED
  BY <1>1, DepthStep

LEMMA InitDepth == Init => DepthInv
<1> SUFFICES ASSUME Init, ~cyclic PROVE DepthInv
  BY DEF DepthInv
<1>1. ~IsCyclic(spec) /\ ~crashed
  BY DEF Init
<1>2. PICK sp : sp = spec
  OBVIOUS
<1>3. Ranks(sp) # {}
  BY <1>1, <1>2, RankExists
<1>4. \A c \in Controllers : rec[c].pc # "resolve"
  BY DEF Init, Idle
<1>5. \A rank, b : \A c \in Controllers : Within(rec[c], rank, b)
  BY <1>4 DEF Within
<1> QED
  BY <1>1, <1>2, <1>3, <1>5 DEF DepthInv

LEMMA SetValueDepth ==
  ASSUME Inv, DepthInv, NEW p \in Pkgs, NEW n \in NameSet, NEW source \in Sources \union {Unset}, SetValue(p, n, source)
  PROVE  DepthInv'
<1>1. UNCHANGED <<rec, crashed>> /\ (cyclic' <=> cyclic \/ IsCyclic(spec'))
  BY DEF SetValue
<1>2. count \in Counters /\ count.edits \in Nat /\ count'.edits = count.edits + 1
  BY CountsTypes, Constants DEF SetValue, Inv, StateTypes, Counters
<1> SUFFICES ASSUME ~cyclic' PROVE DepthInv'
  BY DEF DepthInv
<1>3. ~cyclic /\ ~IsCyclic(spec')
  BY <1>1
<1>4. PICK rank \in Ranks(spec) : \A c \in Controllers : Within(rec[c], rank, Budget(count.edits))
  BY <1>3 DEF DepthInv
<1>5. PICK sp : sp = spec'
  OBVIOUS
<1>6. PICK new \in Ranks(sp) : TRUE
  BY <1>3, <1>5, RankExists
<1>7. PICK k, b, b2 : k = Cardinality(Nodes) /\ b = Budget(count.edits) /\ b2 = Budget(count'.edits)
  OBVIOUS
<1>8. k \in Nat /\ b \in Nat /\ b2 = b + k
  BY <1>2, <1>7, BudgetFacts
<1>9. ASSUME NEW c \in Controllers PROVE Within(rec[c], new, b2)
  <2> SUFFICES ASSUME rec[c].pc = "resolve", rec[c].cur # None, NEW x \in Nodes, RefersTo(rec[c].cur, {x})
               PROVE  rec[c].depth + new[x] <= b2 + 1
    BY DEF Within
  <2>1. rec[c].depth + rank[x] <= b + 1
    BY <1>4, <1>7 DEF Within
  <2>2. rank[x] \in 1..k /\ new[x] \in 1..k
    BY <1>7, <1>6 DEF Ranks
  <2>3. rec[c].depth \in Nat
    BY DEF Inv, StateTypes, Reconciliations
  <2>4. PICK d, i, j : d = rec[c].depth /\ i = rank[x] /\ j = new[x]
    OBVIOUS
  <2>5. d + j <= b2 + 1
    <3>1. d \in Nat /\ i \in 1..k /\ j \in 1..k /\ d + i <= b + 1
      BY <2>1, <2>2, <2>3, <2>4
    <3> QED
      BY ONLY <1>8, <3>1
  <2> QED
    BY <2>4, <2>5
<1>10. \A c \in Controllers : Within(rec'[c], new, Budget(count'.edits))
  BY <1>1, <1>7, <1>9
<1>11. new \in Ranks(spec')
  BY <1>5
<1>12. ~crashed'
  BY <1>1, <1>3 DEF DepthInv
<1> QED
  BY <1>3, <1>10, <1>11, <1>12 DEF DepthInv

LEMMA ChangeDataDepth ==
  ASSUME Inv, DepthInv, NEW k \in Keys, NEW v \in Literals \union {Unset}, ChangeData(k, v)
  PROVE  DepthInv'
<1>1. UNCHANGED <<spec, rec, cyclic, crashed>>
  BY DEF ChangeData
<1>2. count'.edits = count.edits
  BY CountsTypes DEF ChangeData, Inv, StateTypes
<1> QED
  BY <1>1, <1>2 DEF DepthInv

LEMMA FluxDepth ==
  ASSUME Inv, DepthInv, NEW p \in Pkgs, NEW condition \in {"true", "false"}, Flux(p, condition)
  PROVE  DepthInv'
<1>1. /\ UNCHANGED <<spec, cyclic, crashed>>
      /\ rec' = [c \in Controllers |-> IF rec[c].pkg = p THEN Outdated(rec[c]) ELSE rec[c]]
  BY DEF Flux, user, Outdated
<1>2. count'.edits = count.edits
  BY CountsTypes DEF Inv, StateTypes, Flux
<1>3. ASSUME NEW c \in Controllers
      PROVE  rec'[c].pc = rec[c].pc /\ rec'[c].cur = rec[c].cur /\ rec'[c].depth = rec[c].depth
  <2>1. PICK r \in Reconciliations : r = rec[c]
    BY DEF Inv, StateTypes
  <2>2. Outdated(r).pc = r.pc /\ Outdated(r).cur = r.cur /\ Outdated(r).depth = r.depth
    BY DEF Outdated, Reconciliations
  <2> QED
    BY <1>1, <2>1, <2>2
<1>4. \A c \in Controllers : \A rank, b : Within(rec[c], rank, b) => Within(rec'[c], rank, b)
  BY <1>3 DEF Within
<1> QED
  BY <1>1, <1>2, <1>4 DEF DepthInv

LEMMA BeginDepth ==
  ASSUME Inv, DepthInv, NEW p \in Pkgs, Begin(p)
  PROVE  DepthInv'
<1>1. ControllerOf(p) \in Controllers
  BY DEF ControllerOf, Controllers
<1>2. PICK values, references, resolved :
        /\ Set(ControllerOf(p), Begun(p, values, references, resolved))
        /\ UNCHANGED <<spec, cyclic, crashed, count>>
  BY DEF Begin, Begun, user
<1>3. Begun(p, values, references, resolved).cur = None
  BY DEF Begun, Idle
<1> QED
  BY <1>1, <1>2, <1>3, QuietDepth

LEMMA ResolveNextDepth ==
  ASSUME Inv, DepthInv, NEW c \in Controllers, NEW n \in NameSet, ResolveNext(c, n)
  PROVE  DepthInv'
<1>1. PICK r \in Reconciliations : r = rec[c]
  BY DEF Inv, StateTypes
<1>2. PICK s : s = Following(r, n, r.values[n])
  OBVIOUS
<1>3. Set(c, s) /\ UNCHANGED <<spec, cyclic, crashed, count>>
  BY <1>1, <1>2 DEF ResolveNext, Following, user
<1>4. s.depth = 1
  BY <1>1, <1>2 DEF Following, Reconciliations
<1>5. rec'[c] = s /\ \A d \in Controllers : d # c => rec'[d] = rec[d]
  BY <1>3 DEF Set, Inv, StateTypes
<1> SUFFICES ASSUME ~cyclic PROVE DepthInv'
  BY <1>3 DEF DepthInv
<1>6. PICK rank \in Ranks(spec) : \A d \in Controllers : Within(rec[d], rank, Budget(count.edits))
  BY DEF DepthInv
<1>7. Within(s, rank, Budget(count.edits))
  <2> SUFFICES ASSUME NEW x \in Nodes PROVE s.depth + rank[x] <= Budget(count.edits) + 1
    BY DEF Within
  <2>1. PICK k, b, i : k = Cardinality(Nodes) /\ b = Budget(count.edits) /\ i = rank[x]
    OBVIOUS
  <2>2. count.edits \in Nat
    BY Constants DEF Inv, StateTypes, Counters
  <2>3. k \in Nat /\ b \in Nat /\ k <= b
    BY <2>1, <2>2, BudgetFacts
  <2>4. i \in 1..k
    BY <2>1 DEF Ranks
  <2>5. 1 + i <= b + 1
    BY ONLY <2>3, <2>4
  <2> QED
    BY <1>4, <2>1, <2>5
<1>8. \A d \in Controllers : Within(rec'[d], rank, Budget(count'.edits))
  BY <1>3, <1>5, <1>6, <1>7
<1> QED
  BY <1>3, <1>6, <1>8 DEF DepthInv

LEMMA ResolvedDepth ==
  ASSUME Inv, DepthInv, NEW c \in Controllers, NEW w, Resolved(c, w), UNCHANGED <<spec, cyclic, crashed>>,
         UNCHANGED count \/ Fault
  PROVE  DepthInv'
<1>1. PICK r \in Reconciliations : r = rec[c]
  BY DEF Inv, StateTypes
<1>2. PICK s : s = ResolvedTo(r, w)
  OBVIOUS
<1>3. Set(c, s)
  BY <1>1, <1>2 DEF Resolved, ResolvedTo
<1>4. s.cur = None
  BY <1>1, <1>2 DEF ResolvedTo, Reconciliations
<1> QED
  BY <1>3, <1>4, QuietDepth

LEMMA ResolveKeyRefDepth ==
  ASSUME Inv, DepthInv, NEW c \in Controllers, ResolveKeyRef(c)
  PROVE  DepthInv'
<1>1. UNCHANGED <<spec, cyclic, crashed>>
  BY DEF ResolveKeyRef, user
<1>2. PICK w : Resolved(c, w) /\ (UNCHANGED count \/ Fault)
  BY DEF ResolveKeyRef
<1> QED
  BY <1>1, <1>2, ResolvedDepth

(* The node that a reference within a package refers to.                   *)
LEMMA Referred ==
  ASSUME NEW source \in Refs, source.kind = "package"
  PROVE  <<source.pkg, source.name>> \in Nodes /\ RefersTo(source, {<<source.pkg, source.name>>})
<1>1. source.pkg \in ClusterPkgs /\ source.name \in NameSet /\ source # Unset
  BY PackageRefTypes DEF Refs
<1> QED
  BY <1>1 DEF Nodes, RefersTo

LEMMA ResolvePackageRefDepth ==
  ASSUME Inv, DepthInv, NEW c \in Controllers, ResolvePackageRef(c)
  PROVE  DepthInv'
<1>1. /\ rec[c].pc = "resolve" /\ rec[c].cur # None /\ rec[c].cur.kind = "package"
      /\ UNCHANGED <<spec, cyclic, crashed>>
  BY DEF ResolvePackageRef, user
<1>2. PICK source : source = spec[rec[c].cur.pkg][rec[c].cur.name]
  OBVIOUS
<1>3. CASE \E w : Resolved(c, w) /\ (UNCHANGED count \/ Fault)
  BY <1>1, <1>3, ResolvedDepth
<1>4. CASE Set(c, Deeper(rec[c], source)) /\ UNCHANGED count
  <2>1. PICK r \in Reconciliations : r = rec[c]
    BY DEF Inv, StateTypes
  <2>2. PICK s : s = Deeper(r, source)
    OBVIOUS
  <2>3. s.depth = r.depth + 1 /\ s.cur = source
    BY <2>1, <2>2 DEF Deeper, Reconciliations
  <2>4. PICK x : x = <<r.cur.pkg, r.cur.name>>
    OBVIOUS
  <2>5. x \in Nodes /\ RefersTo(r.cur, {x})
    <3>1. r.cur \in Refs /\ r.cur.kind = "package"
      BY <1>1, <2>1 DEF Reconciliations
    <3> QED
      BY <2>4, <3>1, Referred
  <2>6. source = spec[x[1]][x[2]]
    BY <1>2, <2>1, <2>4
  <2>7. ASSUME NEW rank \in Ranks(spec), NEW b, b \in Nat, Within(r, rank, b) PROVE Within(s, rank, b)
    <3> SUFFICES ASSUME NEW y \in Nodes, RefersTo(source, {y}) PROVE s.depth + rank[y] <= b + 1
      BY <2>3 DEF Within
    <3>1. rank[y] < rank[x]
      BY <2>5, <2>6 DEF Ranks
    <3>2. r.depth + rank[x] <= b + 1
      BY <1>1, <2>1, <2>5, <2>7 DEF Within
    <3>3. rank[x] \in 1..Cardinality(Nodes) /\ rank[y] \in 1..Cardinality(Nodes)
      BY <2>5 DEF Ranks
    <3>4. PICK d, i, j : d = r.depth /\ i = rank[x] /\ j = rank[y]
      OBVIOUS
    <3>5. d \in Nat /\ i \in Int /\ j \in Int /\ j < i /\ d + i <= b + 1
      BY <2>1, <3>1, <3>2, <3>3, <3>4 DEF Reconciliations
    <3>6. d + 1 + j <= b + 1
      BY ONLY <3>5, <2>7
    <3> QED
      BY <2>3, <3>4, <3>6
  <2>8. rec'[c] = s /\ \A d \in Controllers : d # c => rec'[d] = rec[d]
    BY <1>4, <2>1, <2>2 DEF Set, Inv, StateTypes
  <2> SUFFICES ASSUME ~cyclic PROVE DepthInv'
    BY <1>1 DEF DepthInv
  <2>9. PICK rank \in Ranks(spec) : \A d \in Controllers : Within(rec[d], rank, Budget(count.edits))
    BY DEF DepthInv
  <2>10. Within(s, rank, Budget(count.edits))
    <3>1. PICK b : b = Budget(count.edits)
      OBVIOUS
    <3>2. b \in Nat
      BY <3>1, BudgetFacts, Constants DEF Inv, StateTypes, Counters
    <3> QED
      BY <2>1, <2>7, <2>9, <3>1, <3>2
  <2>11. \A d \in Controllers : Within(rec'[d], rank, Budget(count'.edits))
    BY <1>4, <2>8, <2>9, <2>10
  <2> QED
    BY <1>1, <2>9, <2>11 DEF DepthInv
<1> QED
  BY <1>2, <1>3, <1>4 DEF ResolvePackageRef, Deeper

(* The stack is full only after a cycle.                                   *)
LEMMA OverflowDepth ==
  ASSUME Inv, DepthInv, NEW c \in Controllers, Overflow(c)
  PROVE  cyclic
<1> SUFFICES ASSUME ~cyclic PROVE FALSE
  OBVIOUS
<1>1. PICK r \in Reconciliations : r = rec[c]
  BY DEF Inv, StateTypes
<1>2. r.pc = "resolve" /\ r.cur # None /\ r.cur.kind = "package" /\ r.depth = MaxDepth
  BY <1>1 DEF Overflow
<1>3. PICK x : x = <<r.cur.pkg, r.cur.name>>
  OBVIOUS
<1>4. x \in Nodes /\ RefersTo(r.cur, {x})
  BY <1>2, <1>3, Referred DEF Reconciliations
<1>5. PICK rank \in Ranks(spec) : Within(r, rank, Budget(count.edits))
  BY <1>1 DEF DepthInv
<1>6. MaxDepth + rank[x] <= Budget(count.edits) + 1
  BY <1>2, <1>4, <1>5 DEF Within
<1>7. rank[x] \in 1..Cardinality(Nodes)
  BY <1>4 DEF Ranks
<1>8. count.edits \in 0..MaxEdits /\ count.edits \in Nat
  BY Constants DEF Inv, StateTypes, Counters
<1>9. PICK b, i : b = Budget(count.edits) /\ i = rank[x]
  OBVIOUS
<1>10. b \in Nat /\ b < MaxDepth /\ MaxDepth \in Nat /\ i \in Int /\ i >= 1 /\ MaxDepth + i <= b + 1
  BY <1>6, <1>7, <1>8, <1>9, BudgetFacts, Constants
<1> QED
  BY ONLY <1>10

LEMMA ResolveEndsDepth ==
  ASSUME Inv, DepthInv, NEW c \in Controllers, ResolveEnds(c)
  PROVE  DepthInv'
<1>1. PICK r \in Reconciliations : r = rec[c]
  BY DEF Inv, StateTypes
<1>2. UNCHANGED <<spec, cyclic, crashed>>
  BY DEF ResolveEnds, user
<1>3. PICK s : Set(c, s) /\ (UNCHANGED count \/ Fault) /\ (s = Idle \/ s = Prepared(r))
  BY <1>1 DEF ResolveEnds, Finish, Prepared
<1>4. Idle.pc # "resolve" /\ Prepared(r).pc # "resolve"
  BY <1>1 DEF Idle, Prepared, Reconciliations
<1> QED
  BY <1>2, <1>3, <1>4, QuietDepth

LEMMA AdapterPcs ==
  ASSUME NEW r \in Reconciliations
  PROVE  /\ \A errs, results : AfterPlain(r, errs, results).pc # "resolve"
         /\ \A objects : Applying(r, objects).pc # "resolve"
         /\ r.pc # "resolve" => AppliedOne(r).pc # "resolve"
         /\ AppliedLast(r).pc # "resolve"
         /\ At(r, "check").pc # "resolve" /\ At(r, "get").pc # "resolve"
         /\ Waiting(r).pc # "resolve" /\ Failed(r).pc # "resolve" /\ Got(r).pc # "resolve"
         /\ \A result : Put(r, result).pc # "resolve"
         /\ GaveUp(r).pc # "resolve" /\ Idle.pc # "resolve"
<1>1. \A errs, results : AfterPlain(r, errs, results).pc # "resolve"
  BY DEF AfterPlain, Reconciliations
<1>2. \A objects : Applying(r, objects).pc # "resolve"
  BY DEF Applying, Reconciliations
<1>3. (r.pc # "resolve" => AppliedOne(r).pc # "resolve") /\ AppliedLast(r).pc # "resolve"
  BY DEF AppliedOne, AppliedLast, Reconciliations
<1>4. At(r, "check").pc # "resolve" /\ At(r, "get").pc # "resolve"
  BY DEF At, Reconciliations
<1>5. Waiting(r).pc # "resolve" /\ Failed(r).pc # "resolve" /\ Got(r).pc # "resolve"
  BY DEF Waiting, Failed, Got, Reconciliations
<1>6. \A result : Put(r, result).pc # "resolve"
  BY DEF Put, Reconciliations
<1>7. GaveUp(r).pc # "resolve" /\ Idle.pc # "resolve"
  BY DEF GaveUp, Idle, Reconciliations
<1> QED
  BY <1>1, <1>2, <1>3, <1>4, <1>5, <1>6, <1>7

(* Once the values are resolved, no reference is followed.                 *)
LEMMA AdapterDepth ==
  ASSUME Inv, DepthInv, NEW c \in Controllers,
         \/ Prepare(c) \/ ApplyObject(c) \/ CheckReady(c) \/ EnsureHelmRepository(c)
         \/ GetRelease(c) \/ PutRelease(c) \/ Report(c)
  PROVE  DepthInv'
<1>1. PICK r \in Reconciliations : r = rec[c]
  BY DEF Inv, StateTypes
<1> DEFINE Leads(s) == s.pc # "resolve" /\ Set(c, s) /\ UNCHANGED <<spec, cyclic, crashed>> /\ (UNCHANGED count \/ Fault)
<1>2. CASE Prepare(c)
  <2>1. UNCHANGED <<spec, cyclic, crashed>>
    BY <1>2 DEF Prepare, user
  <2>2. PICK m : m = Manifests[r.pkg][r.manifest]
    OBVIOUS
  <2>3. \/ Set(c, Applying(r, m)) /\ UNCHANGED count
        \/ Set(c, AfterPlain(r, TRUE, {})) /\ Fault
        \/ Set(c, AfterPlain(r, FALSE, {})) /\ UNCHANGED count
        \/ Set(c, At(r, "check")) /\ UNCHANGED count
    BY <1>1, <1>2, <2>2 DEF Prepare, Applying, At
  <2>4. \E s : Leads(s)
    BY <2>1, <2>3, AdapterPcs
  <2> QED
    BY <2>4, QuietDepth
<1>3. CASE ApplyObject(c)
  <2>1. r.pc # "resolve" /\ UNCHANGED <<spec, cyclic, crashed>>
    BY <1>1, <1>3 DEF ApplyObject, user
  <2>2. PICK s : /\ Set(c, s) /\ (UNCHANGED count \/ Fault)
                 /\ s = AppliedOne(r) \/ s = AppliedLast(r) \/ s = AfterPlain(r, TRUE, {})
    BY <1>1, <1>3 DEF ApplyObject, AppliedOne, AppliedLast
  <2>3. Leads(s)
    BY <2>1, <2>2, AdapterPcs
  <2> QED
    BY <2>3, QuietDepth
<1>4. CASE CheckReady(c)
  <2>1. PICK s : /\ Set(c, s) /\ UNCHANGED <<spec, cyclic, crashed>> /\ (UNCHANGED count \/ Fault)
                 /\ \E errs, results : s = AfterPlain(r, errs, results)
    BY <1>1, <1>4 DEF CheckReady, user
  <2>2. Leads(s)
    BY <2>1, AdapterPcs
  <2> QED
    BY <2>2, QuietDepth
<1>5. CASE EnsureHelmRepository(c)
  <2>1. PICK s : /\ Set(c, s) /\ UNCHANGED <<spec, cyclic, crashed>> /\ (UNCHANGED count \/ Fault)
                 /\ s = At(r, "get") \/ s = Waiting(r) \/ s = Failed(r)
    BY <1>1, <1>5 DEF EnsureHelmRepository, At, Waiting, Failed, user
  <2>2. Leads(s)
    BY <2>1, AdapterPcs
  <2> QED
    BY <2>2, QuietDepth
<1>6. CASE GetRelease(c)
  <2>1. PICK s : /\ Set(c, s) /\ UNCHANGED <<spec, cyclic, crashed>> /\ (UNCHANGED count \/ Fault)
                 /\ s = Got(r) \/ s = Failed(r)
    BY <1>1, <1>6 DEF GetRelease, Got, Failed, user
  <2>2. Leads(s)
    BY <2>1, AdapterPcs
  <2> QED
    BY <2>2, QuietDepth
<1>7. CASE PutRelease(c)
  <2>1. UNCHANGED <<spec, cyclic, crashed, count>>
    BY <1>7 DEF PutRelease, user
  <2>2. PICK s : Set(c, s) /\ (s = At(r, "get") \/ s = GaveUp(r) \/ \E result : s = Put(r, result))
    BY <1>1, <1>7 DEF PutRelease, At, GaveUp, Put
  <2>3. Leads(s)
    BY <2>1, <2>2, AdapterPcs
  <2> QED
    BY <2>3, QuietDepth
<1>8. CASE Report(c)
  <2>1. Leads(Idle)
    BY <1>8, AdapterPcs DEF Report, Finish, user
  <2> QED
    BY <2>1, QuietDepth
<1> QED
  BY <1>2, <1>3, <1>4, <1>5, <1>6, <1>7, <1>8

LEMMA NextDepth ==
  ASSUME Inv, DepthInv, [Next]_vars
  PROVE  DepthInv'
<1>1. CASE UNCHANGED vars
  BY <1>1 DEF vars, DepthInv
<1>2. ASSUME NEW p \in Pkgs, NEW n \in NameSet, NEW source \in Sources \union {Unset}, SetValue(p, n, source)
      PROVE  DepthInv'
  BY <1>2, SetValueDepth
<1>3. ASSUME NEW k \in Keys, NEW v \in Literals \union {Unset}, ChangeData(k, v) PROVE DepthInv'
  BY <1>3, ChangeDataDepth
<1>4. ASSUME NEW p \in Pkgs, Begin(p) PROVE DepthInv'
  BY <1>4, BeginDepth
<1>5. ASSUME NEW c \in Controllers, Reconcile(c) PROVE DepthInv'
  <2>1. ASSUME NEW n \in NameSet, ResolveNext(c, n) PROVE DepthInv'
    BY <2>1, ResolveNextDepth
  <2>2. CASE ResolveKeyRef(c)
    BY <2>2, ResolveKeyRefDepth
  <2>3. CASE ResolvePackageRef(c)
    BY <2>3, ResolvePackageRefDepth
  <2>4. CASE Overflow(c)
    <3>1. cyclic /\ cyclic' = cyclic
      BY <2>4, OverflowDepth DEF Overflow, user
    <3> QED
      BY <3>1 DEF DepthInv
  <2>5. CASE ResolveEnds(c)
    BY <2>5, ResolveEndsDepth
  <2>6. CASE \/ Prepare(c) \/ ApplyObject(c) \/ CheckReady(c) \/ EnsureHelmRepository(c)
             \/ GetRelease(c) \/ PutRelease(c) \/ Report(c)
    BY <2>6, AdapterDepth
  <2> QED
    BY <1>5, <2>1, <2>2, <2>3, <2>4, <2>5, <2>6 DEF Reconcile
<1>6. ASSUME NEW p \in Pkgs, NEW condition \in {"true", "false"}, Flux(p, condition) PROVE DepthInv'
  BY <1>6, FluxDepth
<1> QED
  BY <1>1, <1>2, <1>3, <1>4, <1>5, <1>6 DEF Next

(* resolvePackageRef recurses from one package to the next without         *)
(* looking for cycles, while users edit the values it follows.  As long as *)
(* no value refers to itself, its depth stays below the values there are   *)
(* to refer to times the edits: the stack overflows after a cycle only.    *)
THEOREM ReferencesEnd == Spec => []OverflowNeedsCycle
<1>1. Spec => []Inv
  BY InvAlways
<1>2. Init => DepthInv
  BY InitDepth
<1>3. Inv /\ DepthInv /\ [Next]_vars => DepthInv'
  BY NextDepth
<1>4. DepthInv => OverflowNeedsCycle
  BY DEF DepthInv, OverflowNeedsCycle
<1> QED
  BY <1>1, <1>2, <1>3, <1>4, PTL DEF Spec
=============================================================================
