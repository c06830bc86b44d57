---------------------------- MODULE Repositories ----------------------------
(***************************************************************************)
(* Package repositories: the commands and web forms that change them, the  *)
(* webhook that guards them, the clients that the operator keeps for them  *)
(* (internal/repo/client), and the PackageRepository and PackageInfo       *)
(* controllers that read them.                                             *)
(*                                                                         *)
(* The goroutines that ask for a client by name take turns, by a mutex of  *)
(* their own, so the PackageInfo controller stands for all of them.  Time  *)
(* is abstracted: a client that is looked up, or a document in its cache,  *)
(* may still be young or have expired, and a PackageInfo becomes due.  A   *)
(* copy of an object is either current or not; a write with a copy that is *)
(* not fails.                                                              *)
(***************************************************************************)
EXTENDS Integers, FiniteSets

CONSTANTS
  Repos,       \* names of repositories
  Unnamed,     \* the empty repository name: that of the default repository
  None,
  Error,       \* the client, or the document, that stands for an error
  Urls,        \* where repositories are served
  Initial,     \* the repository that Bootstrap created, and its URL
  Commands,    \* users who change repositories
  MaxCommands, \* bound on the commands
  MaxEditions, \* bound on how often the documents at a URL change
  MaxInfos,    \* bound on how often the PackageInfo is created
  MaxFaults    \* bound on failed calls, stale reads, crashes and restarts

InfoController == "info"

RepoController == "repo"

Procs == {InfoController, RepoController}

ASSUME RepositoriesAssumption ==
  /\ Unnamed \notin Repos /\ None \notin Repos \union Urls \union {Unnamed} /\ Error \notin Urls
  /\ Initial \in Repos \X Urls
  /\ {MaxCommands, MaxEditions, MaxInfos, MaxFaults} \subseteq Nat

VARIABLES
  repo,      \* the stored PackageRepositories
  info,      \* a PackageInfo
  edition,   \* what is served at each URL
  clients,   \* defaultClientset.clients
  proc,      \* the goroutines of the operator
  cmd,       \* the commands
  count,     \* commands, new editions, PackageInfos and faults so far
  excused    \* history: the default repository was deleted, or two commands or a
             \* failure left it in the wrong place

vars == <<repo, info, edition, clients, proc, cmd, count, excused>>

operator == <<clients, proc>>

Absent == [exists |-> FALSE, url |-> None, default |-> FALSE, cond |-> "none"]

NoInfo == [exists |-> FALSE, repo |-> Unnamed, data |-> None, due |-> TRUE, late |-> FALSE]

Idle == [pc |-> "idle", name |-> None, url |-> None, data |-> None, fresh |-> TRUE]

NoCmd == [pc |-> "idle", kind |-> "none", repo |-> None, url |-> None, default |-> FALSE,
          old |-> None, fresh |-> {}]

Init ==
  /\ repo = [r \in Repos |-> IF r = Initial[1] THEN [exists |-> TRUE, url |-> Initial[2], default |-> TRUE,
                                                     cond |-> "ready"]
                             ELSE Absent]
  /\ info = NoInfo
  /\ edition = [u \in Urls |-> 0]
  /\ clients = [r \in Repos |-> None]
  /\ proc = [c \in Procs |-> Idle]
  /\ cmd = [k \in Commands |-> NoCmd]
  /\ count = [commands |-> 0, editions |-> 0, infos |-> 0, faults |-> 0]
  /\ excused = FALSE

Counts(what, max) == count[what] < max /\ count' = [count EXCEPT ![what] = @ + 1]

Fault == Counts("faults", MaxFaults)

\* A step that fails only within the bound, or one that does not.
MayFail(fails) == IF fails THEN Fault ELSE UNCHANGED count

Defaults == {r \in Repos : repo[r].exists /\ repo[r].default}

\* Whether the PackageInfo keeps the webhook from changing r.
Uses(r) == info.exists /\ info.repo = r

-----------------------------------------------------------------------------
(* Changing repositories: glasskube repo add, update and delete, and the   *)
(* form of the web interface.                                              *)

\* Every other copy of r is out of date after a write.
Outdated(r, except) == [k \in Commands |-> IF k = except THEN cmd[k] ELSE [cmd[k] EXCEPT !.fresh = @ \ {r}]]

OutdatedProcs(r) ==
  [c \in Procs |-> IF c = RepoController /\ proc[c].name = r THEN [proc[c] EXCEPT !.fresh = FALSE] ELSE proc[c]]

\* repo add, repo update and the form of the web interface read the repository
\* (unless it is new); the new URL may be the old one.
StartCommand(k, kind, r, u, d) ==
  /\ cmd[k].pc = "idle"
  /\ Counts("commands", MaxCommands)
  /\ kind = "add" \/ repo[r].exists
  /\ cmd' = [cmd EXCEPT ![k] = [pc |-> IF d THEN "default" ELSE "write", kind |-> kind, repo |-> r, url |-> u,
                                default |-> kind = "update" /\ repo[r].default,
                                old |-> None, fresh |-> {r}]]
  /\ excused' = (excused \/ \E j \in Commands \ {k} : cmd[j].pc # "idle")
  /\ UNCHANGED <<repo, info, edition, operator>>

\* repo delete refuses while packages are installed from the repository.
StartDelete(k, r) ==
  /\ cmd[k].pc = "idle"
  /\ Counts("commands", MaxCommands)
  /\ repo[r].exists /\ ~Uses(r)
  /\ cmd' = [cmd EXCEPT ![k] = [NoCmd EXCEPT !.pc = "write", !.kind = "delete", !.repo = r]]
  /\ excused' = (excused \/ \E j \in Commands \ {k} : cmd[j].pc # "idle")
  /\ UNCHANGED <<repo, info, edition, operator>>

\* GetDefaultRepo
GetDefaultRepo(k) ==
  /\ cmd[k].pc = "default"
  /\ \/ Defaults = {} /\ cmd' = [cmd EXCEPT ![k].pc = "write", ![k].default = TRUE]
     \/ \E o \in Defaults :
          cmd' = IF o = cmd[k].repo THEN [cmd EXCEPT ![k].pc = "write"]
                 ELSE [cmd EXCEPT ![k].pc = "unset", ![k].old = o, ![k].fresh = @ \union {o}]
  /\ UNCHANGED <<repo, info, edition, operator, count, excused>>

\* The old default repository loses its annotation, or the command ends.
UnsetDefault(k) ==
  LET o == cmd[k].old
  IN /\ cmd[k].pc = "unset"
     /\ \E fails \in BOOLEAN :
          /\ MayFail(fails)
          /\ IF o \in cmd[k].fresh /\ repo[o].exists /\ ~fails
             THEN /\ repo' = [repo EXCEPT ![o].default = FALSE]
                  /\ cmd' = [Outdated(o, k) EXCEPT ![k].pc = "write", ![k].default = TRUE]
                  /\ proc' = OutdatedProcs(o)
             ELSE cmd' = [cmd EXCEPT ![k] = NoCmd] /\ UNCHANGED <<repo, proc>>
     /\ UNCHANGED <<info, edition, clients, excused>>

\* Mutant of Validate: the webhook checks deletions only.
ValidateDelete(k) ==
  LET r == cmd[k].repo
  IN /\ cmd[k].pc = "write"
     /\ cmd' = [cmd EXCEPT ![k].pc = IF cmd[k].kind = "delete" /\ Uses(r) THEN "failed" ELSE "commit"]
     /\ UNCHANGED <<repo, info, edition, operator, count, excused>>

\* The webhook: while PackageInfos name the repository it keeps its URL and is
\* not deleted.
Validate(k) ==
  LET r == cmd[k].repo
      changes == cmd[k].kind = "delete" \/ (cmd[k].kind = "update" /\ cmd[k].url # repo[r].url)
  IN /\ cmd[k].pc = "write"
     /\ cmd' = [cmd EXCEPT ![k].pc = IF changes /\ Uses(r) THEN "failed" ELSE "commit"]
     /\ UNCHANGED <<repo, info, edition, operator, count, excused>>

\* What the write of a command makes of the repository.  Its authentication is
\* left out: an update without options for it removes it.
Written(k) ==
  LET r == cmd[k].repo
  IN IF cmd[k].kind = "delete" THEN Absent
     ELSE [exists |-> TRUE, url |-> cmd[k].url, default |-> cmd[k].default,
           cond |-> IF cmd[k].kind = "add" THEN "none" ELSE repo[r].cond]

\* Create, Update or Delete
Commit(k) ==
  LET r == cmd[k].repo
      possible == CASE cmd[k].kind = "add" -> ~repo[r].exists
                    [] cmd[k].kind = "update" -> repo[r].exists /\ r \in cmd[k].fresh
                    [] OTHER -> repo[r].exists
  IN /\ cmd[k].pc = "commit"
     /\ \E fails \in BOOLEAN :
          /\ MayFail(fails)
          /\ IF possible /\ ~fails
             THEN /\ repo' = [repo EXCEPT ![r] = Written(k)]
                  /\ cmd' = [Outdated(r, k) EXCEPT ![k] = NoCmd]
                  /\ proc' = OutdatedProcs(r)
                  /\ excused' = (excused \/ (cmd[k].kind = "delete" /\ repo[r].default))
             ELSE cmd' = [cmd EXCEPT ![k].pc = "failed"] /\ UNCHANGED <<repo, proc, excused>>
     /\ UNCHANGED <<info, edition, clients>>

\* Mutant of Rollback: a command that fails just ends.
RollbackNot(k) ==
  /\ cmd[k].pc = "failed"
  /\ cmd' = [cmd EXCEPT ![k] = NoCmd]
  /\ UNCHANGED <<repo, info, edition, operator, count, excused>>

\* A command that failed makes the old default repository the default again.
Rollback(k) ==
  LET o == cmd[k].old
  IN /\ cmd[k].pc = "failed"
     /\ IF o = None THEN cmd' = [cmd EXCEPT ![k] = NoCmd] /\ UNCHANGED <<repo, proc, count, excused>>
        ELSE \E fails \in BOOLEAN :
               /\ MayFail(fails)
               /\ IF o \in cmd[k].fresh /\ repo[o].exists /\ ~fails
                  THEN /\ repo' = [repo EXCEPT ![o].default = TRUE]
                       /\ cmd' = [Outdated(o, k) EXCEPT ![k] = NoCmd]
                       /\ proc' = OutdatedProcs(o)
                       /\ UNCHANGED excused
                  ELSE cmd' = [cmd EXCEPT ![k] = NoCmd] /\ excused' = TRUE /\ UNCHANGED <<repo, proc>>
     /\ UNCHANGED <<info, edition, clients>>

\* The user interrupts the command.
Interrupt(k) ==
  /\ cmd[k].pc # "idle"
  /\ Fault
  /\ cmd' = [cmd EXCEPT ![k] = NoCmd]
  /\ excused' = (excused \/ cmd[k].old # None)
  /\ UNCHANGED <<repo, info, edition, operator>>

-----------------------------------------------------------------------------
(* The clients of the operator.                                            *)

api == <<repo, info, edition, cmd, excused>>

Goto(c, pc) == proc' = [proc EXCEPT ![c].pc = pc]

\* ForRepoWithName
AskByName(name) == [Idle EXCEPT !.pc = "lookup", !.name = name]

\* The call returns with a client.
Returns(c, client) == proc' = [proc EXCEPT ![c].pc = "fetch", ![c].url = client]

\* A client that was compared with its repository less than
\* clientInfoCheckInterval ago is used as it is.
LookupRecent(c) ==
  LET r == proc[c].name
  IN /\ proc[c].pc = "lookup"
     /\ r \in Repos /\ clients[r] # None
     /\ Returns(c, clients[r].url)
     /\ UNCHANGED <<api, clients, count>>

LookupExpired(c) ==
  /\ proc[c].pc = "lookup"
  /\ Goto(c, "get")
  /\ UNCHANGED <<api, clients, count>>

\* GetPackageRepository, or Default for the empty name.
GetRepository(c) ==
  LET found == IF proc[c].name = Unnamed THEN Defaults ELSE {r \in {proc[c].name} : repo[r].exists}
  IN /\ proc[c].pc = "get"
     /\ \/ \E r \in found :
             /\ proc' = [proc EXCEPT ![c].pc = "repo", ![c].name = r, ![c].url = repo[r].url]
             /\ UNCHANGED count
        \/ found = {} /\ Returns(c, Error) /\ UNCHANGED count
        \/ Fault /\ Returns(c, Error)
     /\ UNCHANGED <<api, clients>>

\* Under repoMutex a client of the same specification stays, and so does the time
\* of its last check: it is set in a copy.  Otherwise a new client, with an empty cache,
\* takes its place; the secret with its credentials may not be there.
ForRepo(c) ==
  LET r == proc[c].name
      u == proc[c].url
  IN /\ proc[c].pc = "repo"
     /\ IF clients[r] # None /\ clients[r].url = u
        THEN Returns(c, u) /\ UNCHANGED <<clients, count>>
        ELSE \/ /\ Returns(c, u)
                /\ clients' = [clients EXCEPT ![r] = [url |-> u, item |-> None]]
                /\ UNCHANGED count
             \/ Fault /\ Returns(c, Error) /\ UNCHANGED clients
     /\ UNCHANGED api

\* fetchYAMLOrJSON of a manifest, with an errorclient, from the cache if that is not
\* older than maxCacheAge, or over the network.  A failure leaves the cache alone.
Fetched(data) ==
  proc' = [proc EXCEPT ![InfoController] = [@ EXCEPT !.pc = "use", !.name = None, !.url = None, !.data = data]]

\* Whether the client is still that of its repository, and its cache is shared.
Held(c) == clients[proc[c].name] # None /\ clients[proc[c].name].url = proc[c].url

FetchError ==
  LET c == InfoController
  IN /\ proc[c].pc = "fetch"
     /\ IF proc[c].url = Error THEN UNCHANGED count ELSE Fault
     /\ Fetched(Error)
     /\ UNCHANGED <<api, clients>>

FetchCached ==
  LET c == InfoController
      r == proc[c].name
  IN /\ proc[c].pc = "fetch" /\ proc[c].url # Error
     /\ Held(c) /\ clients[r].item # None
     /\ Fetched([url |-> proc[c].url, edition |-> clients[r].item])
     /\ UNCHANGED <<api, clients, count>>

FetchServed ==
  LET c == InfoController
      r == proc[c].name
      u == proc[c].url
  IN /\ proc[c].pc = "fetch" /\ u # Error
     /\ Fetched([url |-> u, edition |-> edition[u]])
     /\ clients' = IF Held(c) THEN [clients EXCEPT ![r].item = edition[u]] ELSE clients
     /\ UNCHANGED <<api, count>>

-----------------------------------------------------------------------------
(* The PackageRepository controller calls ForRepo with the object it read. *)

BeginRepo(r) ==
  LET c == RepoController
  IN /\ proc[c].pc = "idle"
     /\ repo[r].exists
     /\ proc' = [proc EXCEPT ![c] = [Idle EXCEPT !.pc = "repo", !.name = r, !.url = repo[r].url]]
     /\ UNCHANGED <<api, clients, count>>

\* The index of packages, with a cache of its own, is fetched; the condition is
\* written if it changes, unless the repository has changed.
UpdateRepo ==
  LET c == RepoController
      r == proc[c].name
  IN /\ proc[c].pc = "fetch"
     /\ proc' = [proc EXCEPT ![c] = Idle]
     /\ \E fails \in BOOLEAN :
          LET cond == IF fails \/ proc[c].url = Error THEN "failed" ELSE "ready"
          IN /\ MayFail(fails)
             /\ IF proc[c].fresh /\ repo[r].exists /\ repo[r].cond # cond
                THEN repo' = [repo EXCEPT ![r].cond = cond] /\ cmd' = Outdated(r, None)
                ELSE UNCHANGED <<repo, cmd>>
     /\ UNCHANGED <<info, edition, clients, excused>>

-----------------------------------------------------------------------------
(* The PackageInfo controller calls ForRepoWithName.                       *)

\* Mutant of shouldSyncFromRepo: a PackageInfo is synchronised once.
shouldSyncFromRepoOnce == info.data = None

shouldSyncFromRepo == info.data = None \/ info.due

\* The object may be read from a cache that is behind.
BeginInfo ==
  LET c == InfoController
  IN /\ proc[c].pc = "idle"
     /\ info.exists /\ shouldSyncFromRepo
     /\ \E fresh \in BOOLEAN :
          /\ MayFail(~fresh)
          /\ proc' = [proc EXCEPT ![c] = [AskByName(info.repo) EXCEPT !.fresh = fresh]]
     /\ UNCHANGED <<api, clients>>

\* isLatestResourceVersion: a newer version cancels the reconciliation.  Without a
\* manifest there is nothing to check.
CheckLatest ==
  LET c == InfoController
  IN /\ proc[c].pc = "use"
     /\ \/ proc[c].data = Error /\ Goto(c, "write")
        \/ proc[c].data # Error /\ info.exists /\ Goto(c, "write")
        \/ proc[c].data # Error /\ ~proc[c].fresh /\ proc' = [proc EXCEPT ![c] = Idle]
     /\ UNCHANGED <<api, clients, count>>

\* Status().Update fails unless the object is the one that was read.  After an
\* error only the conditions change, which are left out.
UpdateInfo ==
  LET c == InfoController
  IN /\ proc[c].pc = "write"
     /\ info' = IF ~info.exists \/ ~proc[c].fresh \/ proc[c].data = Error THEN info
                ELSE [info EXCEPT !.data = proc[c].data, !.due = FALSE]
     /\ proc' = [proc EXCEPT ![c] = Idle]
     /\ UNCHANGED <<repo, edition, clients, cmd, count, excused>>

-----------------------------------------------------------------------------
(* The package controllers create and delete the PackageInfo, publishers   *)
(* change what is served, time passes, and the operator restarts.          *)

OutdatedInfo == [proc EXCEPT ![InfoController].fresh = FALSE]

\* The repository was there when its package was installed.
CreateInfo(name) ==
  /\ ~info.exists
  /\ Counts("infos", MaxInfos)
  /\ name \in Repos => repo[name].exists
  /\ info' = [NoInfo EXCEPT !.exists = TRUE, !.repo = name,
                            !.late = \E k \in Commands : cmd[k].pc = "commit" /\ cmd[k].repo = name]
  /\ proc' = OutdatedInfo
  /\ UNCHANGED <<repo, edition, clients, cmd, excused>>

DeleteInfo ==
  /\ info.exists
  /\ info' = NoInfo
  /\ proc' = OutdatedInfo
  /\ UNCHANGED <<repo, edition, clients, cmd, count, excused>>

Publish(u) ==
  /\ Counts("editions", MaxEditions)
  /\ edition' = [edition EXCEPT ![u] = @ + 1]
  /\ UNCHANGED <<repo, info, operator, cmd, excused>>

\* repositorySyncInterval
InfoExpires ==
  /\ info.exists /\ ~info.due
  /\ info' = [info EXCEPT !.due = TRUE]
  /\ UNCHANGED <<repo, edition, cmd, excused, operator, count>>

\* A restart, or the end of the process because the map of clients, which the two
\* mutexes do not guard together, is read and written at the same time.
Restart ==
  /\ \/ Fault
     \/ /\ proc[InfoController].pc = "lookup" /\ proc[RepoController].pc = "repo"
        /\ Fault
  /\ clients' = [r \in Repos |-> None]
  /\ proc' = [c \in Procs |-> Idle]
  /\ UNCHANGED api

-----------------------------------------------------------------------------

Command(k) ==
  GetDefaultRepo(k) \/ UnsetDefault(k) \/ Validate(k) \/ Commit(k) \/ Rollback(k)

Client(c) ==
  \/ LookupRecent(c) \/ LookupExpired(c) \/ GetRepository(c) \/ ForRepo(c)
  \/ c = RepoController /\ UpdateRepo
  \/ c = InfoController /\ (FetchError \/ FetchCached \/ FetchServed \/ CheckLatest \/ UpdateInfo)

Next ==
  \/ \E k \in Commands : Command(k) \/ Interrupt(k)
  \/ \E k \in Commands, r \in Repos :
       \/ StartDelete(k, r)
       \/ \E u \in Urls, d \in BOOLEAN, kind \in {"add", "update"} : StartCommand(k, kind, r, u, d)
  \/ \E c \in Procs : Client(c)
  \/ \E r \in Repos : BeginRepo(r)
  \/ BeginInfo \/ DeleteInfo \/ InfoExpires \/ Restart
  \/ \E name \in Repos \union {Unnamed} : CreateInfo(name)
  \/ \E u \in Urls : Publish(u)

\* The operator keeps running and reconciles again and again, and its mutexes
\* starve no one.  Time passes: the last check of a client, which no later call
\* renews, and the documents in its cache do not stay young for ever.
Spec ==
  /\ Init /\ [][Next]_vars
  /\ \A c \in Procs : WF_vars(Client(c))
  /\ SF_vars(LookupExpired(InfoController)) /\ SF_vars(FetchServed)
  /\ WF_vars(BeginInfo) /\ WF_vars(InfoExpires)

-----------------------------------------------------------------------------
(* Properties                                                              *)

Data == [url : Urls, edition : 0..MaxEditions] \union {None}

Clients == [url : Urls, item : (0..MaxEditions) \union {None}] \union {None}

TypeOK ==
  /\ repo \in [Repos -> [exists : BOOLEAN, url : Urls \union {None}, default : BOOLEAN,
                         cond : {"none", "ready", "failed"}]]
  /\ info \in [exists : BOOLEAN, repo : Repos \union {Unnamed}, data : Data, due : BOOLEAN, late : BOOLEAN]
  /\ edition \in [Urls -> 0..MaxEditions]
  /\ clients \in [Repos -> Clients]
  /\ proc \in [Procs -> [pc : {"idle", "lookup", "get", "repo", "fetch", "use", "write"},
                         name : Repos \union {Unnamed, None}, url : Urls \union {None, Error},
                         data : Data \union {Error}, fresh : BOOLEAN]]
  /\ cmd \in [Commands -> [pc : {"idle", "default", "unset", "write", "commit", "failed"},
                           kind : {"none", "add", "update", "delete"}, repo : Repos \union {None},
                           url : Urls \union {None}, default : BOOLEAN, old : Repos \union {None},
                           fresh : SUBSET Repos]]
  /\ count \in [commands : 0..MaxCommands, editions : 0..MaxEditions, infos : 0..MaxInfos, faults : 0..MaxFaults]
  /\ excused \in BOOLEAN

\* There is one default repository whenever no command is at work: commands that
\* fail half-way put it back, unless that fails as well, the user interrupts them,
\* or another command runs at the same time.  Only deleting it loses it.
OneDefault ==
  ~excused /\ (\A k \in Commands : cmd[k].pc = "idle") => Cardinality(Defaults) = 1

\* The commands that move the default annotation from one repository to another
\* with two writes leave exactly one default behind, also when one is refused.
RepositoryInv == TypeOK /\ OneDefault

\* A repository from which a package is installed keeps its URL and is not
\* deleted, whichever command or form tries, unless the package came after the
\* webhook had looked.
InstalledKeepsRepo ==
  [][\A r \in Repos :
       repo[r].exists /\ Uses(r) /\ ~info.late => repo'[r].exists /\ repo'[r].url = repo[r].url]_vars

\* The repositories from which the PackageInfo is served.
Repository == IF info.repo = Unnamed THEN Defaults ELSE {r \in {info.repo} : repo[r].exists}

\* What a repository serves reaches the PackageInfo, past the clients and caches
\* of the operator and after any failure: in the end it holds the latest edition
\* from the URL of its repository, or the repository is gone.
InfoConverges ==
  <>[](~info.exists \/ Repository = {}
       \/ \E r \in Repository : info.data = [url |-> repo[r].url, edition |-> edition[repo[r].url]])
=============================================================================
