--------------------------- MODULE PackageClients ---------------------------
(***************************************************************************)
(* The clients of the package API: the commands of the CLI                 *)
(* (cmd/glasskube/cmd, pkg/install, pkg/update, pkg/uninstall,             *)
(* pkg/suspend) and the POST handlers of the web server                    *)
(* (internal/web/packagedetail.go, suspend.go, server.go), which read      *)
(* through the informer's store (pkg/client/client_cached.go).             *)
(*                                                                         *)
(* Every command reads packages, perhaps asks its user, writes what it     *)
(* changed and perhaps waits on a watch for the outcome.  Between any two  *)
(* of these steps other clients, the operator and the informer act.        *)
(***************************************************************************)
EXTENDS Integers, Sequences, SequencesExt, FiniteSets

CONSTANTS
  Cli,         \* processes of the CLI
  Web,         \* browsers that use the web server
  Packages,    \* names of packages (of ClusterPackages and Packages)
  Namespaced,  \* the names of Packages, all of one namespace
  Annotated,   \* packages that carry annotations besides the auto-update one
  Options,     \* what users choose: records of version, values and auto
  Preinstalled,\* packages that are installed in the beginning, with others perhaps
  Latest,      \* the newest version in the repository; versions are 1..Latest
  MaxCommands, \* bound on the commands of a process or browser
  MaxEvents    \* bound on the operator's status updates

ASSUME ClientsAssumption ==
  /\ IsFiniteSet(Packages)
  /\ Namespaced \subseteq Packages
  /\ Annotated \subseteq Packages
  /\ Preinstalled \subseteq Packages
  /\ Options \subseteq [version : 1..Latest, values : {0, 1}, auto : BOOLEAN]
  /\ Latest \in Nat \ {0}
  /\ MaxEvents \in Nat
  /\ MaxCommands \in [Cli \union Web -> Nat]

VARIABLES
  obj,      \* the package objects in the API server
  store,    \* the informer's store of the web server
  ns,       \* whether the namespace of the namespaced packages exists
  writes,   \* the last resource version given out for a package
  updates,  \* how many status updates the operator has made
  client    \* the commands and requests

vars == <<obj, store, ns, writes, updates, client>>

Clients == Cli \union Web

Versions == 1..Latest

\* The fields of a package the clients read and write.  status is the version
\* reported in the status, ready the state of its conditions.
Package ==
  [uid : Nat, rv : Nat, version : 0..Latest, values : {0, 1}, auto : BOOLEAN,
   suspend : BOOLEAN, deleting : BOOLEAN, status : 0..Latest,
   ready : {"unknown", "ready", "failed"}]

NoObject ==
  [uid |-> 0, rv |-> 0, version |-> 0, values |-> 0, auto |-> FALSE,
   suspend |-> FALSE, deleting |-> FALSE, status |-> 0, ready |-> "unknown"]

Exists(p) == obj[p] # NoObject

\* The builder of a new package: everything else is empty.
Build(option) ==
  [NoObject EXCEPT !.version = option.version, !.values = option.values, !.auto = option.auto]

Item == [pkg : Packages, o : Package]

Event == [type : {"Added", "Modified", "Deleted"}, o : Package]

\* A process or browser between commands, with the result of the last one.
Idle(run, result) ==
  [run |-> run, cmd |-> "none", pc |-> "idle", dry |-> FALSE, wait |-> FALSE, items |-> <<>>,
   createNs |-> FALSE, watch |-> "none", events |-> <<>>, err |-> FALSE,
   targets |-> {}, wrote |-> {}, reached |-> {}, result |-> result]

Commands == {"install", "update", "autoUpdate", "enable", "configure", "suspend", "uninstall"}

Requests == {"webInstall", "webConfigure", "webSuspend", "webUninstall"}

Installed ==
  [NoObject EXCEPT !.uid = 1, !.rv = 1, !.version = 1, !.auto = TRUE, !.status = 1, !.ready = "ready"]

\* In the beginning the store is current, or a request that was refused or a
\* dry run has left its annotations there (see Aliased).
Init ==
  /\ obj \in {o \in [Packages -> {NoObject, Installed}] : \A p \in Preinstalled : o[p] = Installed}
  /\ store \in {obj, [p \in Packages |-> [obj[p] EXCEPT !.auto = FALSE]]}
  /\ ns = \E p \in Namespaced : obj[p] # NoObject
  /\ writes = [p \in Packages |-> 1]
  /\ updates = 0
  /\ client = [c \in Clients |-> Idle(0, "none")]

-----------------------------------------------------------------------------
(* The API server: a write stores an object and tells the open watches.    *)

Target(cl) == Head(cl.items).pkg

Mine(cl) == Head(cl.items).o

\* What a blocking command wants to see of the package it wrote: an installed
\* package that is ready, an updated one whose new version is reported (unless
\* somebody else chose another version since), a deleted one that is gone.
Goal(cl, item, o) ==
  CASE cl.cmd = "install" -> o.ready = "ready"
    [] cl.cmd = "uninstall" -> o = NoObject
    [] OTHER -> o # NoObject /\ (o.status = o.version \/ o.version # item.o.version)

\* What the client record cl knows after object o of package p was stored.
Notified(cl, p, o, last) ==
  LET mine == cl.items # <<>> /\ Target(cl) = p /\ p \in cl.wrote
      event == IF o = NoObject THEN [type |-> "Deleted", o |-> last]
               ELSE [type |-> "Modified", o |-> o]
  IN [cl EXCEPT
        !.reached = IF mine /\ Goal(cl, Head(cl.items), o) THEN @ \union {p} ELSE @,
        !.events = IF mine /\ cl.watch = "open" THEN Append(@, event) ELSE @]

\* Object o is stored as package p while the client records become cls.
Commit(p, o, cls) ==
  LET new == IF o = NoObject THEN o ELSE [o EXCEPT !.rv = writes[p] + 1]
  IN /\ obj' = [obj EXCEPT ![p] = new]
     /\ writes' = [writes EXCEPT ![p] = @ + 1]
     /\ client' = [c \in Clients |-> Notified(cls[c], p, new, obj[p])]

With(c, cl) == [client EXCEPT ![c] = cl]

\* A step of one command that writes nothing.
Local(c, cl) ==
  /\ client' = With(c, cl)
  /\ UNCHANGED <<obj, ns, writes, updates>>

\* The command ends: a process of the CLI exits with a result, a request is
\* answered and forgotten.
End(cl, result) == Idle(cl.run, IF cl.cmd \in Requests THEN "none" ELSE result)

-----------------------------------------------------------------------------
(* Preparation: what a command reads and decides before it asks its user.  *)

Ready(c) == client[c].pc = "idle" /\ client[c].run < MaxCommands[c]

Begin(c, cmd, pc, items, dry, wait, createNs) ==
  /\ Ready(c)
  /\ Local(c, [Idle(client[c].run + 1, "none") EXCEPT !.cmd = cmd, !.pc = pc, !.items = items, !.dry = dry,
                           !.wait = wait, !.createNs = createNs,
                           !.targets = {items[i].pkg : i \in DOMAIN items}])

\* glasskube install: the object is built, and the namespace is looked up.
Install(c, p, option, dry, wait) ==
  /\ dry => wait
  /\ Begin(c, "install", "prepared", <<[pkg |-> p, o |-> Build(option)]>>,
           dry, wait, p \in Namespaced /\ ~ns)
  /\ UNCHANGED store

\* Mutant of IsUpgradable: any requested version is taken.
IsUpgradableAlways(installed, desired) == TRUE


IsUpgradable(installed, desired) == installed < desired

\* Prepare and PrepareForVersion: packages that can be upgraded to version
\* become items, in the order of the list; those whose validation reports
\* conflicts end the command, except in the auto-updater, which leaves them out.
Prepare(c, cmd, ps, version, conflicts, dry) ==
  LET upgradable == {p \in ps : IsUpgradable(obj[p].version, version)}
      items == [i \in 1..Cardinality(upgradable \ conflicts) |->
                  LET p == SetToSeq(upgradable \ conflicts)[i]
                  IN [pkg |-> p, o |-> [obj[p] EXCEPT !.version = version]]]
  IN /\ \A p \in ps : Exists(p)
     /\ ps # {}
     /\ conflicts \subseteq upgradable
     /\ cmd = "update" => conflicts = {}
     /\ IF items = <<>>
        THEN /\ Ready(c)
             /\ Local(c, Idle(client[c].run + 1, "ok"))
        ELSE Begin(c, cmd, "prepared", items, dry, TRUE, FALSE)
     /\ UNCHANGED store

Update(c, ps, version, dry) == Prepare(c, "update", ps, version, {}, dry)

\* The auto-updater takes every package with automatic updates enabled.
AutoUpdate(c, conflicts) ==
  Prepare(c, "autoUpdate", {p \in Packages : obj[p].auto}, Latest, conflicts, FALSE)

\* glasskube auto-update enable and disable: the packages that differ.
EnableOrDisable(c, ps, enabled) ==
  LET differ == SetToSeq({p \in ps : obj[p].auto # enabled})
  IN /\ ps # {} /\ \A p \in ps : Exists(p)
     /\ differ # <<>>
     /\ Begin(c, "enable", "prepared",
              [i \in DOMAIN differ |-> [pkg |-> differ[i], o |-> [obj[differ[i]] EXCEPT !.auto = enabled]]],
              FALSE, FALSE, FALSE)
     /\ UNCHANGED store

Configure(c, p, option, dry) ==
  /\ Exists(p)
  /\ Begin(c, "configure", "prepared", <<[pkg |-> p, o |-> [obj[p] EXCEPT !.values = option.values]]>>,
           dry, FALSE, FALSE)
  /\ UNCHANGED store

\* suspend and resume write only if the package is not in that state already.
Suspend(c, p, suspend) ==
  /\ Exists(p)
  /\ obj[p].suspend # suspend
  /\ Begin(c, "suspend", "write", <<[pkg |-> p, o |-> [obj[p] EXCEPT !.suspend = suspend]]>>,
           FALSE, FALSE, FALSE)
  /\ UNCHANGED store

Uninstall(c, p, dry, wait) ==
  /\ Exists(p)
  /\ Begin(c, "uninstall", "prepared", <<[pkg |-> p, o |-> obj[p]]>>, dry, wait, FALSE)
  /\ UNCHANGED store

-----------------------------------------------------------------------------
(* The web server reads through the store and asks the API server only for *)
(* a package that is not there.                                            *)

Get(p) == IF store[p] # NoObject THEN store[p] ELSE obj[p]

\* The copy a handler works on shares the annotations map of the stored object,
\* unless that map is nil: what the handler sets there is in the store at once.
Aliased(p) == store[p] # NoObject /\ (store[p].auto \/ p \in Annotated)

\* The form submits version, values and the auto-update checkbox together.
WebConfigure(c, p, option, dry) ==
  /\ Get(p) # NoObject
  /\ Begin(c, "webConfigure", "write",
           <<[pkg |-> p, o |-> [Get(p) EXCEPT !.version = option.version, !.values = option.values,
                                                     !.auto = option.auto]]>>,
           dry, FALSE, FALSE)
  /\ store' = IF Aliased(p) THEN [store EXCEPT ![p].auto = option.auto] ELSE store

WebInstall(c, p, option, dry) ==
  /\ Get(p) = NoObject
  /\ Begin(c, "webInstall", "prepared", <<[pkg |-> p, o |-> Build(option)]>>,
           dry, FALSE, FALSE)
  /\ UNCHANGED store

\* Mutant of WebSuspend: the handler works on the stored object itself.
WebSuspendInPlace(c, p, suspend, gitops) ==
  /\ Get(p) # NoObject
  /\ Get(p).suspend # suspend
  /\ Begin(c, "webSuspend", "write", <<[pkg |-> p, o |-> [Get(p) EXCEPT !.suspend = suspend]]>>,
           gitops, FALSE, FALSE)
  /\ store' = [store EXCEPT ![p].suspend = suspend]

\* In GitOps mode (and if it cannot be determined) suspending is a dry run.
WebSuspend(c, p, suspend, gitops) ==
  /\ Get(p) # NoObject
  /\ Get(p).suspend # suspend
  /\ Begin(c, "webSuspend", "write", <<[pkg |-> p, o |-> [Get(p) EXCEPT !.suspend = suspend]]>>,
           gitops, FALSE, FALSE)
  /\ UNCHANGED store

WebUninstall(c, p) ==
  /\ Get(p) # NoObject
  /\ Begin(c, "webUninstall", "write", <<[pkg |-> p, o |-> Get(p)]>>, FALSE, FALSE, FALSE)
  /\ UNCHANGED store

-----------------------------------------------------------------------------
(* Confirmation, namespace and write.                                      *)

\* The command ends before it writes: the prompt was declined, the manifest or
\* the values are not available, or the validation reported conflicts.
Refuse(c) ==
  /\ client[c].pc = "prepared"
  /\ Local(c, End(client[c], "error"))
  /\ UNCHANGED store

\* configure reads the package again and falls back on the copy it has.
Refreshed(item) ==
  {item} \union (IF Exists(item.pkg)
                 THEN {[item EXCEPT !.o = [obj[item.pkg] EXCEPT !.values = item.o.values]]}
                 ELSE {})

\* update offers to change the values along with the version.
Reconfigured(items) ==
  {items} \union {[items EXCEPT ![1].o.values = option.values] : option \in Options}

Confirmed(cl) ==
  CASE cl.cmd = "configure" -> {<<item>> : item \in Refreshed(Head(cl.items))}
    [] cl.cmd = "update" -> Reconfigured(cl.items)
    [] OTHER -> {cl.items}

\* The web handler looks for the namespace here, the CLI did before it asked.
Confirm(c) ==
  LET cl == client[c]
      createNs == IF cl.cmd = "webInstall" THEN Target(cl) \in Namespaced /\ ~ns ELSE cl.createNs
  IN /\ cl.pc = "prepared"
     /\ \E items \in Confirmed(cl) :
          Local(c, [cl EXCEPT !.items = items, !.createNs = createNs,
                              !.pc = IF createNs THEN "namespace" ELSE "write"])
     /\ UNCHANGED store

\* The CLI passes no dry-run option when it creates the namespace.
CreatesForReal(cl) == cl.cmd = "webInstall" => ~cl.dry

CreateNamespace(c) ==
  /\ client[c].pc = "namespace"
  /\ IF ns THEN client' = With(c, End(client[c], "error")) /\ UNCHANGED ns
     ELSE /\ client' = With(c, [client[c] EXCEPT !.pc = "write"])
          /\ ns' = (ns \/ CreatesForReal(client[c]))
  /\ UNCHANGED <<obj, store, writes, updates>>

Creates(cl) == cl.cmd \in {"install", "webInstall"}

Deletes(cl) == cl.cmd \in {"uninstall", "webUninstall"}

\* Mutant of Accepts: updates are sent without a resource version.
AcceptsAnyVersion(cl) ==
  LET p == Target(cl)
  IN CASE Creates(cl) -> ~Exists(p) /\ (p \in Namespaced => ns)
       [] OTHER -> Exists(p)

\* A create needs the name to be free and the namespace to exist, an update the
\* resource version that was read, a delete only the name.
Accepts(cl) ==
  LET p == Target(cl)
  IN CASE Creates(cl) -> ~Exists(p) /\ (p \in Namespaced => ns)
       [] Deletes(cl) -> Exists(p)
       [] OTHER -> Exists(p) /\ obj[p].uid = Mine(cl).uid /\ obj[p].rv = Mine(cl).rv

\* The next state of the command after a write that was answered.
AfterWrite(cl) ==
  LET next == [cl EXCEPT !.wrote = @ \union {Target(cl)}]
      waits == \/ cl.cmd \in {"update", "autoUpdate"}
               \/ cl.cmd \in {"install", "uninstall"} /\ cl.wait /\ ~cl.dry
  IN CASE waits -> [next EXCEPT !.pc = "watch"]
       [] ~waits /\ Len(cl.items) > 1 -> [cl EXCEPT !.items = Tail(@)]
       [] OTHER -> End(cl, IF cl.err THEN "error" ELSE "ok")

\* Only auto-update enable and disable go on after an error.
AfterError(cl) ==
  IF cl.cmd = "enable" /\ Len(cl.items) > 1
  THEN [cl EXCEPT !.items = Tail(@), !.err = TRUE]
  ELSE End(cl, "error")

\* What the API server makes of the request: a package that was never reconciled
\* has no finalizer yet and may be gone at once.  An update that changes nothing
\* and a second delete leave the object as it is.
Effects(cl) ==
  LET p == Target(cl)
  IN IF cl.dry THEN {obj[p]} ELSE
     CASE Creates(cl) -> {[Mine(cl) EXCEPT !.uid = writes[p] + 1]}
       [] Deletes(cl) -> {[obj[p] EXCEPT !.deleting = TRUE]}
                         \union (IF obj[p].ready = "unknown" THEN {NoObject} ELSE {})
       [] OTHER -> {[obj[p] EXCEPT !.version = Mine(cl).version, !.values = Mine(cl).values,
                                   !.auto = Mine(cl).auto, !.suspend = Mine(cl).suspend]}

Store(cl, o, cls) ==
  IF o = obj[Target(cl)]
  THEN client' = cls /\ UNCHANGED <<obj, writes>>
  ELSE Commit(Target(cl), o, cls)

Write(c) ==
  /\ client[c].pc = "write"
  /\ Accepts(client[c])
  /\ \E o \in Effects(client[c]) : Store(client[c], o, With(c, AfterWrite(client[c])))
  /\ UNCHANGED <<store, ns, updates>>

\* The API server or the admission webhook refuses the write, or the answer to
\* a write that was carried out is lost.
WriteFails(c) ==
  /\ client[c].pc = "write"
  /\ \/ client' = With(c, AfterError(client[c])) /\ UNCHANGED <<obj, writes>>
     \/ /\ Accepts(client[c])
        /\ \E o \in Effects(client[c]) : Store(client[c], o, With(c, AfterError(client[c])))
  /\ UNCHANGED <<store, ns, updates>>

-----------------------------------------------------------------------------
(* The blocking commands open a watch after the write and wait for the     *)
(* event that tells them the outcome.                                      *)

\* The watch begins with the object as it is now, if it is still there.
Watch(c) ==
  LET cl == client[c]
      o == obj[Target(cl)]
  IN /\ cl.pc = "watch"
     /\ Local(c, [cl EXCEPT
          !.pc = "await", !.watch = "open",
          !.events = IF o = NoObject THEN <<>> ELSE <<[type |-> "Added", o |-> o]>>,
          !.reached = IF Goal(cl, Head(cl.items), o) THEN @ \union {Target(cl)} ELSE @])
     /\ UNCHANGED store

\* Mutant of Outcome: uninstall takes the deletion mark for the deletion.
OutcomeMarked(cl, event) ==
  CASE cl.cmd = "install" -> IF event.o.ready = "ready" THEN "ok" ELSE "none"
    [] cl.cmd = "uninstall" -> IF event.o.deleting THEN "ok" ELSE "none"
    [] OTHER -> IF event.o.status = event.o.version THEN "ok" ELSE "none"

\* awaitInstall goes by name, await of the updater by UID, awaitDeletion waits
\* for the Deleted event only.
Outcome(cl, event) ==
  LET failed == IF event.o.ready = "failed" THEN "error" ELSE "none"
  IN CASE cl.cmd = "install" ->
            IF event.type = "Deleted" THEN "error"
            ELSE IF event.o.ready = "ready" THEN "ok" ELSE failed
       [] cl.cmd = "uninstall" -> IF event.type = "Deleted" THEN "ok" ELSE "none"
       [] OTHER ->
            IF event.o.uid # Mine(cl).uid THEN "none"
            ELSE IF event.o.status = event.o.version THEN "ok" ELSE failed

\* After a confirmed update the next item of the transaction is written.
AfterAwait(cl, outcome) ==
  IF outcome = "ok" /\ Len(cl.items) > 1
  THEN [cl EXCEPT !.items = Tail(@), !.pc = "write", !.watch = "none", !.events = <<>>]
  ELSE End(cl, outcome)

Await(c) ==
  LET cl == client[c]
      outcome == Outcome(cl, Head(cl.events))
  IN /\ cl.pc = "await"
     /\ cl.events # <<>>
     /\ Local(c, IF outcome = "none" THEN [cl EXCEPT !.events = Tail(@)]
                 ELSE AfterAwait(cl, outcome))
     /\ UNCHANGED store

\* The channel of a closed watch ends once its events are read.
AwaitEnds(c) ==
  /\ client[c].pc = "await"
  /\ client[c].watch = "closed"
  /\ client[c].events = <<>>
  /\ Local(c, End(client[c], "error"))
  /\ UNCHANGED store

-----------------------------------------------------------------------------
(* The environment.                                                        *)

\* The API server closes every watch after a while.
WatchCloses(c) ==
  /\ client[c].watch = "open"
  /\ Local(c, [client[c] EXCEPT !.watch = "closed"])
  /\ UNCHANGED store

\* The operator reports that a package is ready in its version, or failed.
Reconcile(p, ready) ==
  /\ Exists(p)
  /\ ~obj[p].deleting
  /\ ~obj[p].suspend
  /\ updates < MaxEvents
  /\ updates' = updates + 1
  /\ Commit(p, [obj[p] EXCEPT !.ready = ready, !.status = IF ready = "ready" THEN obj[p].version ELSE @],
            client)
  /\ UNCHANGED <<store, ns>>

\* The operator drops the finalizer of a package that is being deleted.
Finalize(p) ==
  /\ obj[p].deleting
  /\ Commit(p, NoObject, client)
  /\ UNCHANGED <<store, ns, updates>>

\* The informer replaces the stored object by the newest one.
Informer(p) ==
  /\ store[p].rv # obj[p].rv
  /\ store' = [store EXCEPT ![p] = obj[p]]
  /\ UNCHANGED <<obj, ns, writes, updates, client>>

-----------------------------------------------------------------------------

Prompted(c) == Confirm(c) \/ Refuse(c)

Step(c) ==
  \/ Prompted(c)
  \/ CreateNamespace(c)
  \/ Write(c) \/ WriteFails(c)
  \/ Watch(c) \/ Await(c) \/ AwaitEnds(c)

Command(c) ==
  \/ \E p \in Packages, option \in Options, dry, wait \in BOOLEAN : Install(c, p, option, dry, wait)
  \/ \E ps \in SUBSET Packages, version \in Versions, dry \in BOOLEAN : Update(c, ps, version, dry)
  \/ \E conflicts \in SUBSET Packages : AutoUpdate(c, conflicts)
  \/ \E ps \in SUBSET Packages, enabled \in BOOLEAN : EnableOrDisable(c, ps, enabled)
  \/ \E p \in Packages, option \in Options, dry \in BOOLEAN : Configure(c, p, option, dry)
  \/ \E p \in Packages, suspend \in BOOLEAN : Suspend(c, p, suspend)
  \/ \E p \in Packages, dry, wait \in BOOLEAN : Uninstall(c, p, dry, wait)

Request(c) ==
  \/ \E p \in Packages, option \in Options, dry \in BOOLEAN :
       WebInstall(c, p, option, dry) \/ WebConfigure(c, p, option, dry)
  \/ \E p \in Packages, suspend, gitops \in BOOLEAN : WebSuspend(c, p, suspend, gitops)
  \/ \E p \in Packages : WebUninstall(c, p)

Next ==
  \/ \E c \in Cli : Command(c)
  \/ \E c \in Web : Request(c)
  \/ \E c \in Clients : Step(c) \/ WatchCloses(c)
  \/ \E p \in Packages : Finalize(p) \/ Informer(p)
  \/ \E p \in Packages, ready \in {"ready", "failed"} : Reconcile(p, ready)

Spec == Init /\ [][Next]_vars

-----------------------------------------------------------------------------
(* Properties                                                              *)

TypeOK ==
  /\ obj \in [Packages -> Package]
  /\ store \in [Packages -> Package]
  /\ ns \in BOOLEAN
  /\ writes \in [Packages -> Nat] /\ updates \in 0..MaxEvents
  /\ client \in
       [Clients ->
          [run : Nat, cmd : Commands \union Requests \union {"none"},
           pc : {"idle", "prepared", "namespace", "write", "watch", "await"},
           dry : BOOLEAN, wait : BOOLEAN, items : Seq(Item), createNs : BOOLEAN,
           watch : {"none", "open", "closed"}, events : Seq(Event), err : BOOLEAN,
           targets : SUBSET Packages, wrote : SUBSET Packages, reached : SUBSET Packages,
           result : {"none", "ok", "error"}]]

\* The fields a command may change in a package that exists.  The web server's
\* suspend may also carry the auto-update annotation of an earlier request that
\* was refused or a dry run, because handlers share the store's annotations.
Fields(cmd) ==
  CASE cmd \in {"update", "autoUpdate"} -> {"version", "values"}
    [] cmd = "enable" -> {"auto"}
    [] cmd = "configure" -> {"values"}
    [] cmd = "suspend" -> {"suspend"}
    [] cmd = "webConfigure" -> {"version", "values", "auto"}
    [] cmd = "webSuspend" -> {"suspend", "auto"}
    [] OTHER -> {"deleting"}

\* A command that writes a package changes only the fields it is about, although
\* it sends a whole copy read earlier, perhaps from a stale store: what other
\* clients changed in between is never reverted.
OnlyOwnFields ==
  [][\A c \in Clients, p \in Packages :
       /\ client[c].pc = "write" /\ client'[c] # client[c]
       /\ Exists(p) /\ obj'[p] # NoObject
       => /\ obj'[p].uid = obj[p].uid
          /\ \A f \in (DOMAIN obj[p]) \ {"rv"} :
               obj'[p][f] # obj[p][f] => f \in Fields(client[c].cmd)]_vars

\* Neither update nor the auto-updater ever lowers the version of a package,
\* whatever happens between the read, the prompt, the updates of other packages
\* of the transaction and the write.
NoDowngrade ==
  [][\A c \in Clients, p \in Packages :
       /\ client[c].cmd \in {"update", "autoUpdate"} /\ client[c].pc = "write"
       /\ client'[c] # client[c] /\ obj'[p] # NoObject
       => obj'[p].version >= obj[p].version]_vars

\* A blocking command that reports success has reached its goal for every
\* package of the command since it wrote it: an old event, an event of another
\* package or of an earlier object of the same name never ends the wait.
SuccessIsObserved ==
  [][\A c \in Clients :
       client[c].pc = "await" /\ client'[c].result = "ok"
         => client[c].targets \subseteq client[c].reached]_vars

\* The store holds what the API server held, except for the annotations that
\* handlers write into it.
StoreDiffersInAnnotations ==
  \A p \in Packages :
    store[p].rv = obj[p].rv => [store[p] EXCEPT !.auto = obj[p].auto] = obj[p]

\* The objects that web handlers read through the cached client share nothing
\* but their annotations with the store of the informer, so that no handler
\* that fails half-way leaves a change of a package in what others read.
StoreInv == TypeOK /\ StoreDiffersInAnnotations

=============================================================================
