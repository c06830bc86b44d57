------------------------------ MODULE Bootstrap ------------------------------
(***************************************************************************)
(* Installing, updating and removing Glasskube itself: pkg/bootstrap with  *)
(* its users (glasskube bootstrap, bootstrap git, the bootstrap page of    *)
(* the web server), pkg/purge and glasskube telemetry.                     *)
(*                                                                         *)
(* A bootstrap reads what is installed, prepares the manifests and applies *)
(* them one by one; a purge deletes them in reverse.  Any call may fail,   *)
(* commands run next to each other, and the cluster reacts in its own time.*)
(***************************************************************************)
EXTENDS Integers, Sequences, SequencesExt, FiniteSets

CONSTANTS
  Clients,    \* processes of the CLI and requests to the web server
  Manifest,   \* the released objects in the order of the manifest
  Options,    \* the options users choose for a bootstrap
  Breaking,   \* the operator version before which no update is possible
  Steps,      \* attempts of internalErrorBackoff
  Retained,   \* whether packages with finalizers may be installed
  MaxRuns,    \* bound on the commands of a client
  MaxFaults   \* bound on failing calls

Objects == {"namespace", "packages", "packageinfos", "packagerepositories", "deployment",
            "job", "webhook", "repository"}

CRDs == {"packages", "packageinfos", "packagerepositories"}

\* entry: bootstrap, bootstrap git, or the web server and RequireBootstrapped,
\* which do not look at the installed version.
BootstrapOptions ==
  [entry : {"cli", "git", "web"}, version : Nat \ {0}, disable : BOOLEAN, force : BOOLEAN,
   gitops : BOOLEAN, dry : BOOLEAN, repo : BOOLEAN]

ASSUME BootstrapAssumption ==
  /\ Manifest \in Seq(Objects \ {"repository"})
  /\ {"namespace", "packagerepositories", "deployment"} \subseteq ToSet(Manifest)
  /\ Manifest[1] = "namespace"
  /\ Options \subseteq BootstrapOptions
  /\ Breaking \in Nat /\ Steps \in Nat \ {0} /\ MaxRuns \in Nat /\ MaxFaults \in Nat
  /\ Retained \in BOOLEAN

VARIABLES
  present,   \* the objects that exist
  going,     \* those of them that are being deleted
  modified,  \* those that were modified with kubectl
  version,   \* the operator version in the deployment, 0 without one
  rollout,   \* the deployment's status: "new", "available", or "stale", which is
             \* available in the version before an update
  operator,  \* whether an operator is running
  certs,     \* whether the job has provided the certificates of the webhook
  packages,  \* whether packages are installed, which carry finalizers
  ann,       \* the annotations of the namespace
  managers,  \* the field managers of the telemetry annotation
  faults,    \* how many calls have failed
  cmd        \* the commands

cluster == <<present, going, modified, version, rollout, operator, certs, packages, ann, managers>>

vars == <<cluster, faults, cmd>>

\* An annotation that is not set reads as the empty string.
NoAnnotations == [telemetry |-> "unset", id |-> "unset", gitops |-> "unset"]

NoOptions ==
  [entry |-> "cli", version |-> 1, disable |-> FALSE, force |-> FALSE, gitops |-> FALSE,
   dry |-> FALSE, repo |-> FALSE]

Idle(run, result) ==
  [run |-> run, op |-> "none", pc |-> "idle", options |-> NoOptions, todo |-> <<>>, kinds |-> {},
   tries |-> 0, seen |-> NoAnnotations, ann |-> NoAnnotations, alone |-> FALSE, fresh |-> FALSE,
   result |-> result]

\* In the beginning Glasskube is not installed, or installed by an earlier
\* bootstrap.
Installed == ToSet(Manifest) \union {"repository"}

Init ==
  /\ \/ present = {} /\ version = 0 /\ ann = NoAnnotations /\ managers = {}
        /\ rollout = "new" /\ operator = FALSE /\ certs = FALSE /\ packages = FALSE
     \/ /\ present = Installed /\ version = 1
        /\ \/ ann = [telemetry |-> "true", id |-> "old", gitops |-> "unset"]
           \/ ann = [telemetry |-> "false", id |-> "unset", gitops |-> "true"]
        /\ managers = {"glasskube"}
        /\ rollout = "available" /\ operator = TRUE /\ certs = TRUE /\ packages = Retained
  /\ going = {} /\ modified = {}
  /\ faults = 0
  /\ cmd = [c \in Clients |-> Idle(0, "none")]

-----------------------------------------------------------------------------

\* The check of validate.go: both CRDs are there, whatever else is.
IsBootstrapped == {"packages", "packageinfos"} \subseteq present

\* A command begins; the others are no longer alone.
Begin(c, record) ==
  /\ cmd[c].pc = "idle"
  /\ cmd[c].run < MaxRuns
  /\ cmd' = [d \in Clients |->
               IF d = c
               THEN [record EXCEPT !.run = cmd[c].run + 1,
                                   !.alone = going = {} /\ \A e \in Clients : cmd[e].pc = "idle"]
               ELSE [cmd[d] EXCEPT !.alone = FALSE]]
  /\ UNCHANGED <<cluster, faults>>

Goto(c, record) == cmd' = [cmd EXCEPT ![c] = record]

End(c, result) == Goto(c, [Idle(cmd[c].run, result) EXCEPT !.op = cmd[c].op])

\* Discovery: the kinds that are served now.
RestMapper == present \intersect CRDs

\* verifyLegalUpdate: an update across the breaking version is refused; the user
\* confirms everything else.
LegalUpdate(o) ==
  /\ o.entry = "cli" /\ ~o.gitops
  /\ version = 0 \/ ~(version < Breaking /\ Breaking <= o.version)

\* bootstrap git wants no operator at all.
LegalGit(o) ==
  /\ o.entry = "git" /\ o.gitops /\ ~o.disable /\ ~o.force /\ ~o.dry /\ ~o.repo
  /\ version = 0

\* The web server and RequireBootstrapped use the default options.
DefaultOptions(o) ==
  o.entry = "web" /\ o.repo /\ ~o.disable /\ ~o.force /\ ~o.gitops /\ ~o.dry

StartBootstrap(c, o) ==
  /\ LegalUpdate(o) \/ LegalGit(o) \/ DefaultOptions(o)
  /\ Begin(c, [Idle(0, "none") EXCEPT !.op = "bootstrap", !.pc = "preprocess", !.options = o,
                                      !.kinds = RestMapper, !.fresh = version = 0,
                                      !.todo = IF o.repo THEN Append(Manifest, "repository") ELSE Manifest])

\* Mutant of existingAnnotations: the annotations of an earlier installation
\* are not carried over.
existingAnnotationsDropped == NoAnnotations

\* The annotations copied from an existing namespace: every one is set then, if
\* only to the empty string.
existingAnnotations ==
  IF "namespace" \in present
  THEN [f \in DOMAIN ann |-> IF ann[f] = "unset" THEN "empty" ELSE ann[f]]
  ELSE NoAnnotations

\* A new id is named after the process that made it.
UpdateTelemetryAnnotations(a, disabled, c) ==
  LET enable == ~disabled /\ a.telemetry \in {"unset", "true"}
  IN [a EXCEPT !.telemetry = IF disabled THEN "false" ELSE IF enable THEN "true" ELSE @,
               !.id = IF enable /\ @ = "unset" THEN c ELSE @]

prepared(c, o) ==
  LET a == UpdateTelemetryAnnotations(existingAnnotations, o.disable, c)
  IN IF o.gitops THEN [a EXCEPT !.gitops = "true"] ELSE a

\* preprocessManifests: objects modified with kubectl need --force.
Preprocess(c) ==
  LET cl == cmd[c]
  IN /\ cl.pc = "preprocess"
     /\ IF modified # {} /\ ~cl.options.force THEN End(c, "error")
        ELSE Goto(c, [cl EXCEPT !.pc = "apply", !.ann = prepared(c, cl.options), !.seen = ann])
     /\ UNCHANGED <<cluster, faults>>

\* A read fails before the namespace is prepared: with --force the manifests are
\* applied as they are, without any annotations.
PreprocessFails(c) ==
  LET cl == cmd[c]
  IN /\ cl.pc = "preprocess"
     /\ faults < MaxFaults
     /\ faults' = faults + 1
     /\ IF cl.options.force THEN Goto(c, [cl EXCEPT !.pc = "apply", !.seen = ann]) ELSE End(c, "error")
     /\ UNCHANGED cluster
-----------------------------------------------------------------------------
(* applyManifests                                                          *)

\* Server-side apply of the namespace by the field manager glasskube: what it
\* does not mention any more is removed, unless another manager holds it.
ApplyNamespace(a) ==
  LET telemetryBy ==
        CASE a.telemetry = "unset" -> managers \ {"glasskube"}
          [] a.telemetry # "unset" /\ a.telemetry = ann.telemetry -> managers \union {"glasskube"}
          [] OTHER -> {"glasskube"}
  IN /\ managers' = telemetryBy
     /\ ann' = [a EXCEPT !.telemetry = IF @ = "unset" /\ telemetryBy # {} THEN ann.telemetry ELSE @]

\* The next object of the manifest, after o was handled.
Applied(c, o) ==
  LET cl == cmd[c]
  IN Goto(c, [cl EXCEPT !.todo = Tail(@), !.tries = 0,
                        !.kinds = IF o \in CRDs /\ ~cl.options.dry THEN (present \union {o}) \intersect CRDs ELSE @,
                        !.pc = IF Len(cl.todo) = 1 THEN "check" ELSE "apply"])

\* The kind is not known to the mapper: a dry run goes on, a bootstrap ends.
ApplyUnknown(c) ==
  LET cl == cmd[c]
  IN /\ cl.pc = "apply"
     /\ Head(cl.todo) = "repository"
     /\ "packagerepositories" \notin cl.kinds
     /\ IF cl.options.dry THEN Applied(c, "repository") ELSE End(c, "error")
     /\ UNCHANGED <<cluster, faults>>

Known(cl) == Head(cl.todo) = "repository" => "packagerepositories" \in cl.kinds

\* A dry run asks the API server and changes nothing.
ApplyDry(c) ==
  /\ cmd[c].pc = "apply" /\ cmd[c].options.dry
  /\ Known(cmd[c])
  /\ Applied(c, Head(cmd[c].todo))
  /\ UNCHANGED <<cluster, faults>>

\* Whether the API server can carry out the request: objects of the namespace
\* need one that stays, a resource its kind, and a repository the webhook's
\* consent.
Consents == "webhook" \in present => certs /\ operator

Possible(o) ==
  /\ o \in {"deployment", "job"} => "namespace" \in present \ going
  /\ o = "repository" => "packagerepositories" \in present \ going /\ Consents

\* The status of a deployment that is applied in version v.
Updated(v) ==
  CASE version = 0 -> "new"
    [] version \notin {0, v} /\ rollout = "available" -> "stale"
    [] OTHER -> rollout

\* One object is applied.  The job is deleted first and runs again; a changed
\* deployment keeps its status until the cluster has looked at it.
ApplyOne(c) ==
  LET cl == cmd[c]
      o == Head(cl.todo)
  IN /\ cl.pc = "apply" /\ ~cl.options.dry
     /\ Known(cl)
     /\ Possible(o)
     /\ present' = present \union {o}
     /\ version' = IF o = "deployment" THEN cl.options.version ELSE version
     /\ rollout' = IF o = "deployment" THEN Updated(cl.options.version) ELSE rollout
     /\ certs' = IF o = "job" THEN FALSE ELSE certs
     /\ IF o = "namespace" THEN ApplyNamespace(cl.ann) ELSE UNCHANGED <<ann, managers>>
     /\ Applied(c, o)
     /\ UNCHANGED <<going, modified, operator, packages, faults>>

\* An error ends the command, but an internal error, such as that of a webhook
\* without certificates, is retried.
Retry(c) == Goto(c, [cmd[c] EXCEPT !.tries = @ + 1])

\* Mutant of ApplyRefused: the attempts are not counted.
ApplyRefusedForever(c) ==
  LET o == Head(cmd[c].todo)
  IN /\ cmd[c].pc = "apply" /\ ~cmd[c].options.dry
     /\ Known(cmd[c])
     /\ ~Possible(o)
     /\ IF o = "repository" /\ ~Consents THEN Goto(c, [cmd[c] EXCEPT !.tries = 1 - @]) ELSE End(c, "error")
     /\ UNCHANGED <<cluster, faults>>

ApplyRefused(c) ==
  LET o == Head(cmd[c].todo)
  IN /\ cmd[c].pc = "apply" /\ ~cmd[c].options.dry
     /\ Known(cmd[c])
     /\ ~Possible(o)
     /\ IF o = "repository" /\ ~Consents /\ cmd[c].tries < Steps - 1 THEN Retry(c) ELSE End(c, "error")
     /\ UNCHANGED <<cluster, faults>>

\* Another call fails: discovery, a fetch, an apply or a delete.
CallFails(c) ==
  /\ cmd[c].pc \in {"apply", "check", "purge"}
  /\ faults < MaxFaults
  /\ faults' = faults + 1
  /\ End(c, "error")
  /\ UNCHANGED cluster

Ready == {"available", "stale"}

\* Mutant of CheckReady: the deployment only has to exist.
CheckReadyExists(c) ==
  /\ cmd[c].pc = "check"
  /\ IF cmd[c].options.dry \/ "deployment" \in present THEN End(c, "ok") ELSE End(c, "error")
  /\ UNCHANGED <<cluster, faults>>

\* checkWorkloadReady: as many replicas are available as the status knows of,
\* which an update that was not observed yet fulfils as well.
CheckReady(c) ==
  /\ cmd[c].pc = "check"
  /\ \/ cmd[c].options.dry /\ End(c, "ok")
     \/ ~cmd[c].options.dry /\ "deployment" \notin present /\ End(c, "error")
     \/ ~cmd[c].options.dry /\ "deployment" \in present /\ rollout \in Ready /\ End(c, "ok")
  /\ UNCHANGED <<cluster, faults>>

\* The five minutes are over.
CheckTimeout(c) ==
  /\ cmd[c].pc = "check" /\ ~cmd[c].options.dry
  /\ "deployment" \in present /\ rollout \notin Ready
  /\ End(c, "error")
  /\ UNCHANGED <<cluster, faults>>
-----------------------------------------------------------------------------
(* glasskube purge                                                         *)

\* The manifest of the installed version is fetched; without an operator there
\* is no version and nothing to fetch.
StartPurge(c) ==
  /\ IsBootstrapped
  /\ version # 0
  /\ Begin(c, [Idle(0, "none") EXCEPT !.op = "purge", !.pc = "purge", !.todo = Reverse(Manifest)])

\* What is left when o is deleted: a namespace takes its objects along, a CRD its
\* resources, and both may take their time.
Contents(o) ==
  CASE o = "namespace" -> {"deployment", "job"}
    [] o = "packagerepositories" -> {"repository"}
    [] OTHER -> {}

\* A CRD of packages stays until their finalizers are dropped.
Lingers(o) == o = "namespace" \/ (o = "packages" /\ packages)

\* Mutant of PurgeOne: the namespace is left alone.
PurgeOneButNamespace(c) ==
  LET o == Head(cmd[c].todo)
  IN /\ cmd[c].pc = "purge"
     /\ going' = IF Lingers(o) /\ o # "namespace" /\ o \in present THEN going \union {o} ELSE going \ {o}
     /\ present' = IF o = "namespace" \/ Lingers(o) THEN present ELSE present \ ({o} \union Contents(o))
     /\ modified' = modified \ {o}
     /\ version' = IF o = "deployment" THEN 0 ELSE version
     /\ IF Len(cmd[c].todo) = 1 THEN End(c, "ok") ELSE Goto(c, [cmd[c] EXCEPT !.todo = Tail(@)])
     /\ UNCHANGED <<rollout, operator, certs, packages, ann, managers, faults>>

\* purgeManifests: an object that is not found is skipped.
PurgeOne(c) ==
  LET o == Head(cmd[c].todo)
  IN /\ cmd[c].pc = "purge"
     /\ going' = IF Lingers(o) /\ o \in present THEN going \union {o} ELSE going \ {o}
     /\ present' = IF Lingers(o) THEN present ELSE present \ ({o} \union Contents(o))
     /\ modified' = modified \ {o}
     /\ version' = IF o = "deployment" THEN 0 ELSE version
     /\ IF Len(cmd[c].todo) = 1 THEN End(c, "ok") ELSE Goto(c, [cmd[c] EXCEPT !.todo = Tail(@)])
     /\ UNCHANGED <<rollout, operator, certs, packages, ann, managers, faults>>

\* glasskube telemetry enable and disable: one apply, after the bootstrap check,
\* by a field manager of its own.
TelemetryCommand(c, enabled) ==
  LET value == IF enabled THEN "true" ELSE "false"
  IN /\ IsBootstrapped
     /\ cmd[c].pc = "idle" /\ cmd[c].run < MaxRuns
     /\ cmd' = [cmd EXCEPT ![c] = Idle(cmd[c].run + 1, "ok")]
     /\ present' = present \union {"namespace"}
     /\ managers' = IF ann.telemetry = value THEN managers \union {"telemetry"} ELSE {"telemetry"}
     /\ ann' = [ann EXCEPT !.telemetry = value]
     /\ UNCHANGED <<going, modified, version, rollout, operator, certs, packages, faults>>
-----------------------------------------------------------------------------
(* The cluster.                                                            *)

\* The deployment controller looks at an update, and the pods become available.
RolloutBegins ==
  /\ "deployment" \in present
  /\ rollout = "stale"
  /\ rollout' = "new"
  /\ UNCHANGED <<present, going, modified, version, operator, certs, packages, ann, managers, faults, cmd>>

RolloutEnds ==
  /\ "deployment" \in present
  /\ rollout = "new"
  /\ rollout' = "available"
  /\ operator' = TRUE
  /\ UNCHANGED <<present, going, modified, version, certs, packages, ann, managers, faults, cmd>>

\* The pods of a deleted deployment end.
OperatorStops ==
  /\ "deployment" \notin present
  /\ operator
  /\ operator' = FALSE
  /\ UNCHANGED <<present, going, modified, version, rollout, certs, packages, ann, managers, faults, cmd>>

JobRuns ==
  /\ "job" \in present
  /\ ~certs
  /\ certs' = TRUE
  /\ UNCHANGED <<present, going, modified, version, rollout, operator, packages, ann, managers, faults, cmd>>

\* A user installs a package, or modifies an object with kubectl.
PackageInstalled ==
  /\ Retained
  /\ operator /\ "packages" \in present \ going
  /\ ~packages
  /\ packages' = TRUE
  /\ UNCHANGED <<present, going, modified, version, rollout, operator, certs, ann, managers, faults, cmd>>

KubectlApply ==
  /\ "deployment" \in present
  /\ modified = {}
  /\ faults < MaxFaults
  /\ faults' = faults + 1
  /\ modified' = {"deployment"}
  /\ UNCHANGED <<present, going, version, rollout, operator, certs, packages, ann, managers, cmd>>

\* The operator drops the finalizers of packages that are being deleted.
PackagesFinalized ==
  /\ operator
  /\ packages /\ "packages" \in going
  /\ packages' = FALSE
  /\ UNCHANGED <<present, going, modified, version, rollout, operator, certs, ann, managers, faults, cmd>>

\* A deletion completes.
Gone(o) ==
  /\ o \in going
  /\ o = "packages" => ~packages
  /\ going' = going \ {o}
  /\ present' = present \ ({o} \union Contents(o))
  /\ IF o = "namespace" THEN version' = 0 /\ ann' = NoAnnotations /\ managers' = {}
     ELSE UNCHANGED <<version, ann, managers>>
  /\ UNCHANGED <<modified, rollout, operator, certs, packages, faults, cmd>>

Step(c) ==
  \/ Preprocess(c) \/ PreprocessFails(c)
  \/ ApplyUnknown(c) \/ ApplyDry(c) \/ ApplyOne(c) \/ ApplyRefused(c) \/ CallFails(c)
  \/ CheckReady(c) \/ CheckTimeout(c)
  \/ PurgeOne(c)

Command(c) ==
  \/ \E o \in Options : StartBootstrap(c, o)
  \/ StartPurge(c)
  \/ \E enabled \in BOOLEAN : TelemetryCommand(c, enabled)

Cluster ==
  \/ RolloutBegins \/ RolloutEnds \/ OperatorStops \/ JobRuns
  \/ PackageInstalled \/ KubectlApply \/ PackagesFinalized
  \/ \E o \in Objects : Gone(o)

Next ==
  \/ \E c \in Clients : Command(c) \/ Step(c)
  \/ Cluster

\* Commands keep running: calls return and timeouts expire.  The operator and the
\* cluster carry deletions out as long as they can.
Spec ==
  /\ Init /\ [][Next]_vars
  /\ \A c \in Clients : WF_vars(Step(c))
  /\ WF_vars(PackagesFinalized)
  /\ \A o \in {"namespace", "packages"} : WF_vars(Gone(o))
-----------------------------------------------------------------------------
(* Properties                                                              *)

\* A bootstrap that nobody interfered with and that reports success has installed
\* every object of its manifest, its repository and its version, and a first
\* installation an operator that was available, although objects are applied one
\* by one, webhooks fail for a while and CRDs appear on the way.
SuccessMeansInstalled ==
  [][\A c \in Clients :
       /\ cmd[c].pc = "check" /\ cmd[c].alone /\ ~cmd[c].options.dry
       /\ cmd'[c].result = "ok"
       => /\ ToSet(Manifest) \subseteq present \ going
          /\ cmd[c].options.repo => "repository" \in present
          /\ version = cmd[c].options.version
          /\ cmd[c].fresh => operator]_vars

\* A bootstrap over an existing installation keeps what the users chose: telemetry
\* stays disabled, the telemetry id and GitOps mode stay as they are, unless these
\* annotations changed since it read them or --force ignored a failed read.
ChoicesSurvive ==
  [][\A c \in Clients :
       /\ cmd[c].pc = "apply" /\ ann' # ann /\ cmd'[c] # cmd[c]
       /\ cmd[c].seen = ann /\ cmd[c].ann # NoAnnotations /\ "namespace" \in present
       => /\ ann.telemetry = "false" => ann'.telemetry = "false"
          /\ ann.id \notin {"unset", "empty"} => ann'.id = ann.id
          /\ ann.gitops = "true" => ann'.gitops = "true"]_vars

\* A purge that nobody interfered with and that reports success leaves nothing
\* behind that is not on its way out.
PurgedIsGone ==
  [][\A c \in Clients :
       cmd[c].pc = "purge" /\ cmd[c].alone /\ cmd'[c].result = "ok"
         => present' \subseteq going']_vars

\* Every command ends: retries are bounded and waiting for workloads times out.
CommandsEnd == \A c \in Clients : cmd[c].pc # "idle" ~> cmd[c].pc = "idle"
=============================================================================
