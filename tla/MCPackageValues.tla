--------------------------- MODULE MCPackageValues ---------------------------
(* A Package with a plain manifest that takes a value from a                *)
(* ClusterPackage with a Helm chart, which takes it from a key.             *)
EXTENDS PackageValues, TLC

CONSTANTS app, db, size, label, key, five, ten, cm, deploy

SizeThenLabel == <<size, label>>

Lengths == five :> 1 @@ ten :> 2

Numbers == five :> 5 @@ ten :> 10

Defs ==
  size :> [type |-> "number", min |-> 1, max |-> 10, minLength |-> None, maxLength |-> None, pattern |-> None,
           options |-> {}, required |-> TRUE]
  @@ label :> [type |-> "text", min |-> None, max |-> None, minLength |-> None, maxLength |-> 1, pattern |-> None,
               options |-> {}, required |-> FALSE]

OneManifest == app :> <<<<cm, deploy>>>> @@ db :> <<>>

TargetsOf == cm :> {size} @@ deploy :> {size, label} @@ Release :> {label}

ThroughDb ==
  app :> (size :> PackageRef(db, size) @@ label :> Unset)
  @@ db :> (size :> KeyRef(key) @@ label :> Literal(five))

FiveAtFirst == key :> five
=============================================================================
