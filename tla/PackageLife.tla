---------------------------- MODULE PackageLife ----------------------------
(***************************************************************************)
(* What the operator promises about the life of a package, whatever steps, *)
(* failures and stale reads it takes (module PackageController implements  *)
(* this).  A package appears, is installed until it is ready, and leaves.  *)
(* Leaving is final.  Once the operator holds the package, by its          *)
(* finalizer, the package does not vanish before it is let go, and it is   *)
(* let go only when nothing is left that its status records as owned.      *)
(***************************************************************************)
CONSTANT Pkgs

VARIABLES
  phase,    \* "absent", "installing", "ready" or "leaving"
  held,     \* the packages that have the finalizer
  recorded  \* the packages whose status records packages or PackageInfos as owned

vars == <<phase, held, recorded>>

Init ==
  /\ phase = [p \in Pkgs |-> "absent"]
  /\ held = {}
  /\ recorded = {}

\* A user, or a package that requires it, creates the package.
Appear(p) ==
  /\ phase[p] = "absent"
  /\ phase' = [phase EXCEPT ![p] = "installing"]
  /\ UNCHANGED <<held, recorded>>

\* The operator writes the status; a package that is ready uses something.
Progress(p, next) ==
  /\ phase[p] \in {"installing", "ready"}
  /\ next \in {"installing", "ready"}
  /\ phase' = [phase EXCEPT ![p] = next]
  /\ recorded' \in {recorded, recorded \union {p}}
  /\ next = "ready" => p \in recorded'
  /\ UNCHANGED held

Hold(p) ==
  /\ phase[p] \in {"installing", "ready"}
  /\ held' = held \union {p}
  /\ UNCHANGED <<phase, recorded>>

\* Phases after the packages of a set have begun to leave.
Leaving(ph, S) == [p \in Pkgs |-> IF p \in S /\ ph[p] # "absent" THEN "leaving" ELSE ph[p]]

\* Users and other packages delete packages.
Leave(S) ==
  /\ phase' = Leaving(phase, S)
  /\ UNCHANGED <<held, recorded>>

GiveUp(p) ==
  /\ phase[p] = "leaving" /\ p \in held
  /\ recorded' = recorded \ {p}
  /\ UNCHANGED <<phase, held>>

LetGo(p) ==
  /\ phase[p] = "leaving" /\ p \notin recorded
  /\ held' = held \ {p}
  /\ UNCHANGED <<phase, recorded>>

\* The package is gone, and the packages in its namespace begin to leave.
Vanish(p, S) ==
  /\ phase[p] = "leaving" /\ p \notin held
  /\ phase' = Leaving([phase EXCEPT ![p] = "absent"], S)
  /\ recorded' = recorded \ {p}
  /\ UNCHANGED held

Next ==
  \/ \E p \in Pkgs : Appear(p) \/ Hold(p) \/ GiveUp(p) \/ LetGo(p)
  \/ \E p \in Pkgs, next \in {"installing", "ready"} : Progress(p, next)
  \/ \E S \in SUBSET Pkgs : Leave(S) \/ \E p \in Pkgs : Vanish(p, S)

Spec == Init /\ [][Next]_vars
=============================================================================
