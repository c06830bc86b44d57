------------------------- MODULE MCDependencyManager -------------------------
(* A small package universe for DependencyManager: app needs ing and cert, *)
(* both of which need crd, ing in any version and cert in version 1 only,  *)
(* so that the order of the visits matters; version 2 of crd needs ing     *)
(* again, a cycle.  app is namespaced, the others are cluster-scoped.      *)
EXTENDS DependencyManager

CONSTANTS app, ing, cert, crd

Any == Versions

Needs(r, c) == [to |-> r, allowed |-> c]

MCManifest ==
  [r \in Refs |-> [v \in Versions |->
     CASE r = app  -> {Needs(ing, Any), Needs(cert, Any)}
       [] r = ing  -> {Needs(crd, Any)}
       [] r = cert -> {Needs(crd, {1})}
       [] r = crd  -> IF v = 2 THEN {Needs(ing, Any)} ELSE {}]]

MCNamespaced == {app}

MCAvailable == [r \in Refs |-> IF r = crd THEN {1, 2} ELSE {1}]
=============================================================================
