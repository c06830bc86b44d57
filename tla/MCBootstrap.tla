----------------------------- MODULE MCBootstrap -----------------------------
(* Two users who install, update and remove Glasskube.                      *)
EXTENDS Bootstrap

CONSTANTS alice, bob

Released ==
  <<"namespace", "packages", "packageinfos", "packagerepositories", "deployment", "job", "webhook">>

Option(entry, v, disable, force, gitops, dry) ==
  [entry |-> entry, version |-> v, disable |-> disable, force |-> force, gitops |-> gitops,
   dry |-> dry, repo |-> entry # "git"]

Chosen ==
  {Option("cli", 1, TRUE, TRUE, FALSE, FALSE),
   Option("cli", 2, FALSE, FALSE, FALSE, TRUE), Option("git", 2, FALSE, FALSE, TRUE, FALSE),
   Option("web", 2, FALSE, FALSE, FALSE, FALSE)}
=============================================================================
