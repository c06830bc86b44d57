---------------------------- MODULE MCForwarders ----------------------------
(* A package with two entrypoints; requests to open it follow each other.   *)
EXTENDS Forwarders, TLC

CONSTANTS h1, argo, web, api

OnePackage == argo :> <<web, api>>
=============================================================================
