--------------------------- MODULE MCRepositories ---------------------------
(* Two repositories at two URLs; one is the default and exists from the     *)
(* beginning.                                                               *)
EXTENDS Repositories

CONSTANTS main, extra, u1, u2, k1

Bootstrapped == <<main, u1>>
=============================================================================
