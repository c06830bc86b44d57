-------------------------- MODULE MCCacheVerifier --------------------------
(* Two items and up to five writes: enough to change an item before,       *)
(* between and after two rounds while the other one is in sync.            *)
EXTENDS CacheVerifier

CONSTANTS a, b
=============================================================================
