------------------------- MODULE MCPackageController -------------------------
(* Instances of PackageController.  Lifecycle: app requires db.  Update:   *)
(* two instances of one namespaced package in two versions share           *)
(* PackageInfos.  Component: the ClusterPackage app has the namespaced     *)
(* component db.                                                           *)
EXTENDS PackageController

CONSTANTS app, db, cluster, namespaced, owner

SameController == [p \in Pkgs |-> cluster]

ByScope == [p \in Pkgs |-> IF p \in Namespaced THEN namespaced ELSE cluster]

OwnName == [p \in Pkgs |-> p]

SharedName == [p \in Pkgs |-> app]

AppNeedsDb == [p \in Pkgs |-> [v \in Versions |-> IF p = app THEN {db} ELSE {}]]

NoDeps == [p \in Pkgs |-> [v \in Versions |-> {}]]

OneResource == [p \in Pkgs |-> [v \in Versions |-> {1}]]

ResourcePerVersion == [p \in Pkgs |-> [v \in Versions |-> {v}]]

OwnerSetsValues == [p \in Pkgs |-> [d \in Pkgs |-> IF owner \in Values THEN owner ELSE NoValues]]

LatestIs1 == [p \in Pkgs |-> 1]
=============================================================================
