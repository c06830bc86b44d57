-------------------------- MODULE MCPackageClients --------------------------
(* A command of the CLI and a request of a browser, against a              *)
(* ClusterPackage and a namespaced Package.                                *)
EXTENDS PackageClients

CONSTANTS cli, web, tool, app

OneEach == [c \in Clients |-> 1]

OneOption == {[version |-> 2, values |-> 1, auto |-> FALSE]}
=============================================================================
