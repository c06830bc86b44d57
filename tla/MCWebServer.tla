---------------------------- MODULE MCWebServer ----------------------------
(* Two requests at a time against a server that starts with or without a    *)
(* valid kubeconfig and an installed Glasskube.                             *)
EXTENDS WebServer

CONSTANTS r1, r2
=============================================================================
