--------------------------- MODULE DependencyGraph ---------------------------
(***************************************************************************)
(* The in-memory graph of internal/dependency/graph: one vertex per        *)
(* installed or required package instance, one edge per declared           *)
(* dependency or component.  The module is purely functional: a graph is a *)
(* value, and each method of the Go type is an operator on such values.    *)
(*                                                                         *)
(* A vertexRef (name, namespace) is an element of Refs.  A semver          *)
(* constraint is the set of versions that satisfy it; the absent           *)
(* constraint (nil in the code) is the set of all versions.                *)
(***************************************************************************)
EXTENDS Integers, FiniteSets

CONSTANTS
  Refs,       \* vertexRef: names of ClusterPackages and of namespaced Packages
  Versions,   \* parsed semver versions, ordered as semver orders them
  None,       \* the nil version: "not installed"
  Manifest,   \* Manifest[r][v]: the edges declared by version v of package r
  Available   \* Available[r]: the versions the repository lists for package r

(* An edge: the required vertex and the versions its constraint allows.    *)
Edge == [to : Refs, allowed : SUBSET Versions]

ASSUME VersionsAssumption == Versions \subseteq Nat /\ IsFiniteSet(Versions)

ASSUME NoneAssumption == None \notin Versions

ASSUME ManifestAssumption ==
  /\ Manifest \in [Refs -> [Versions -> SUBSET Edge]]
  /\ \A r \in Refs, v \in Versions : \A e, f \in Manifest[r][v] : e.to = f.to => e = f
  /\ Available \in [Refs -> SUBSET Versions]

-----------------------------------------------------------------------------

(* A vertex.  The code's packageName is a function of the ref.             *)
vertex == [version : Versions \cup {None}, manual : BOOLEAN, edges : SUBSET Edge]

(* A graph has a vertex for every ref: a ref that is missing from the      *)
(* code's vertexMap behaves like an uninstalled vertex without edges.      *)
vertexMap == [Refs -> vertex]

(* delete: unset the version and drop the dependencies, but keep the       *)
(* vertex, which others may still reference.                               *)
deletedAsZero ==  \* mutant: the zero version instead of nil
  [version |-> 0, manual |-> FALSE, edges |-> {}]

deleted == [version |-> None, manual |-> FALSE, edges |-> {}]

delete(g, r) == [g EXCEPT ![r] = deleted]

NewGraph == [r \in Refs |-> deleted]

(* add: an empty version means delete; otherwise version, manual flag and  *)
(* outgoing edges are all replaced.                                        *)
addVertex(r, version, manual) ==
  IF version = None THEN deleted
  ELSE [version |-> version, manual |-> manual, edges |-> Manifest[r][version]]

add(g, r, version, manual) == [g EXCEPT ![r] = addVertex(r, version, manual)]

Version(g, r) == g[r].version

Installed(g) == {r \in Refs : Version(g, r) # None}

Dependencies(g, r) == {e.to : e \in g[r].edges}

Dependants(g, r) == {x \in Installed(g) : r \in Dependencies(g, x)}

(* Version v of r violates no constraint of an installed dependant of r.   *)
SatisfiesConstraints(g, r, v) ==
  \A x \in Installed(g) : \A e \in g[x].edges : e.to = r => v \in e.allowed

(* Max of the code returns the greatest candidate, and fails if there is   *)
(* none.                                                                   *)
Candidates(g, r) == {v \in Available[r] : SatisfiesConstraints(g, r, v)}

IsMax(g, r, v) == v \in Candidates(g, r) /\ \A w \in Candidates(g, r) : w <= v

(* One unmet dependency.  errors.go distinguishes two causes.              *)
DependencyError == [pkg : Refs, dep : Refs, cause : {"NotInstalled", "Constraint"}]

Validate(g) ==
  {err \in DependencyError :
     \E e \in g[err.pkg].edges :
        /\ e.to = err.dep
        /\ \/ /\ err.cause = "NotInstalled"
              /\ Version(g, e.to) = None
           \/ /\ err.cause = "Constraint"
              /\ Version(g, e.to) # None
              /\ Version(g, e.to) \notin e.allowed}

(* Mutant: packages the user installed are pruned too.                     *)
PrunableManual(g) == {r \in Installed(g) : Dependants(g, r) = {}}

(* Prune may remove a vertex that was not installed by a user and that no  *)
(* installed vertex depends on.                                            *)
Prunable(g) == {r \in Installed(g) : ~g[r].manual /\ Dependants(g, r) = {}}

=============================================================================
