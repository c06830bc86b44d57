------------------------- MODULE RepositoriesProofs -------------------------
(***************************************************************************)
(* Proofs about Repositories: that commands leave one default repository   *)
(* behind, and that the webhook protects a repository that is in use.      *)
(***************************************************************************)
EXTENDS Repositories, FiniteSetTheorems, TLAPS

\* A repository that exists has a URL.
StoreInv == \A r \in Repos : repo[r].exists => repo[r].url \in Urls

\* An edition is the number of changes of its URL.
EditionInv == \A u \in Urls : edition[u] <= count.editions

\* A controller that has a client has its repository as well.
ProcInv(c) ==
  LET p == proc[c]
  IN /\ c = RepoController => p.pc \in {"idle", "repo", "fetch"} /\ (p.pc # "idle" => p.name \in Repos)
     /\ p.pc \in {"lookup", "get"} => p.name \in Repos \union {Unnamed}
     /\ p.pc = "repo" => p.name \in Repos /\ p.url \in Urls
     /\ p.pc = "fetch" => p.url = Error \/ (p.url \in Urls /\ p.name \in Repos)

\* What a command that runs has read and decided.
CommandInv(k) ==
  LET c == cmd[k]
  IN /\ c.pc = "idle" => c.old = None /\ c.kind = "none" /\ ~c.default
     /\ c.pc # "idle" => c.kind # "none" /\ c.repo \in Repos
     /\ c.pc # "idle" /\ c.kind # "delete" => c.url \in Urls
     /\ c.pc \in {"default", "unset"} => c.kind # "delete"

\* A write that the webhook has allowed leaves a repository in use as it is.
AllowedInv(k) ==
  LET c == cmd[k]
  IN c.pc = "commit" /\ Uses(c.repo) /\ ~info.late =>
       \/ c.kind = "add"
       \/ c.kind = "update" /\ (c.url = repo[c.repo].url \/ c.repo \notin c.fresh)

\* A command has taken the default from its repository, and has not put it elsewhere.
Moves(k) == cmd[k].old # None /\ cmd[k].pc # "unset"

\* What a command knows of the default repository while no other one runs.
DefaultCmd(k) ==
  LET c == cmd[k]
  IN /\ c.pc = "default" => c.old = None
     /\ c.pc = "unset" => c.old # c.repo /\ Defaults = {c.old}
     /\ Moves(k) => Defaults = {} /\ c.default /\ c.kind \in {"add", "update"}
     /\ c.old = None /\ c.kind = "update" => (c.default <=> repo[c.repo].default)
     /\ c.old = None /\ c.kind # "update" => ~c.default

DefaultInv ==
  ~excused =>
    /\ \A j, k \in Commands : cmd[j].pc # "idle" /\ cmd[k].pc # "idle" => j = k
    /\ (\A k \in Commands : ~Moves(k)) => \E r \in Repos : Defaults = {r}
    /\ \A k \in Commands : DefaultCmd(k)

Inv ==
  /\ TypeOK
  /\ StoreInv
  /\ EditionInv
  /\ \A c \in Procs : ProcInv(c)
  /\ \A k \in Commands : CommandInv(k)
  /\ \A k \in Commands : AllowedInv(k)
  /\ DefaultInv

-----------------------------------------------------------------------------
(* Types.                                                                  *)

RepoType == [exists : BOOLEAN, url : Urls \union {None}, default : BOOLEAN, cond : {"none", "ready", "failed"}]

InfoType == [exists : BOOLEAN, repo : Repos \union {Unnamed}, data : Data, due : BOOLEAN, late : BOOLEAN]

ProcType ==
  [pc : {"idle", "lookup", "get", "repo", "fetch", "use", "write"}, name : Repos \union {Unnamed, None},
   url : Urls \union {None, Error}, data : Data \union {Error}, fresh : BOOLEAN]

CmdType ==
  [pc : {"idle", "default", "unset", "write", "commit", "failed"}, kind : {"none", "add", "update", "delete"},
   repo : Repos \union {None}, url : Urls \union {None}, default : BOOLEAN, old : Repos \union {None},
   fresh : SUBSET Repos]

CountType == [commands : 0..MaxCommands, editions : 0..MaxEditions, infos : 0..MaxInfos, faults : 0..MaxFaults]

LEMMA TypeParts ==
  ASSUME TypeOK
  PROVE  /\ repo \in [Repos -> RepoType] /\ info \in InfoType
         /\ edition \in [Urls -> 0..MaxEditions] /\ clients \in [Repos -> Clients]
         /\ proc \in [Procs -> ProcType] /\ cmd \in [Commands -> CmdType]
         /\ count \in CountType /\ excused \in BOOLEAN
  BY DEF TypeOK, RepoType, InfoType, ProcType, CmdType, CountType

LEMMA TypeStays ==
  ASSUME repo' \in [Repos -> RepoType], info' \in InfoType,
         edition' \in [Urls -> 0..MaxEditions], clients' \in [Repos -> Clients],
         proc' \in [Procs -> ProcType], cmd' \in [Commands -> CmdType],
         count' \in CountType, excused' \in BOOLEAN
  PROVE  TypeOK'
  BY DEF TypeOK, RepoType, InfoType, ProcType, CmdType, CountType

LEMMA Names ==
  /\ None \notin Repos /\ None \notin Urls /\ Unnamed \notin Repos /\ Error \notin Urls
  /\ MaxCommands \in Nat /\ MaxEditions \in Nat /\ MaxInfos \in Nat /\ MaxFaults \in Nat
  /\ InfoController # RepoController /\ Procs = {InfoController, RepoController}
  BY RepositoriesAssumption DEF InfoController, RepoController, Procs

LEMMA CountFacts ==
  ASSUME count \in CountType
  PROVE  /\ Counts("commands", MaxCommands) => count' \in CountType /\ count'.editions = count.editions
         /\ Counts("infos", MaxInfos) => count' \in CountType /\ count'.editions = count.editions
         /\ Fault => count' \in CountType /\ count'.editions = count.editions
         /\ Counts("editions", MaxEditions) =>
              count' \in CountType /\ count'.editions = count.editions + 1 /\ count'.editions <= MaxEditions
         /\ \A fails \in BOOLEAN : MayFail(fails) => count' \in CountType /\ count'.editions = count.editions
<1>1. Counts("commands", MaxCommands) => count' \in CountType /\ count'.editions = count.editions
  BY Names DEF Counts, CountType
<1>2. Counts("infos", MaxInfos) => count' \in CountType /\ count'.editions = count.editions
  BY Names DEF Counts, CountType
<1>3. Fault => count' \in CountType /\ count'.editions = count.editions
  BY Names DEF Counts, CountType, Fault
<1>4. Counts("editions", MaxEditions) =>
        count' \in CountType /\ count'.editions = count.editions + 1 /\ count'.editions <= MaxEditions
  BY Names DEF Counts, CountType
<1>5. \A fails \in BOOLEAN : MayFail(fails) => count' \in CountType /\ count'.editions = count.editions
  BY <1>3 DEF MayFail
<1>6. QED
  BY <1>1, <1>2, <1>3, <1>4, <1>5

\* A command that another step has left alone, except that its copies are out of date.
Outlasts(c, n) ==
  /\ n \in CmdType
  /\ n.pc = c.pc /\ n.kind = c.kind /\ n.repo = c.repo /\ n.url = c.url /\ (n.default <=> c.default) /\ n.old = c.old
  /\ n.fresh \subseteq c.fresh

LEMMA OutdatedFacts ==
  ASSUME TypeOK, NEW r, NEW e
  PROVE  /\ Outdated(r, e) \in [Commands -> CmdType]
         /\ \A k \in Commands : Outlasts(cmd[k], Outdated(r, e)[k])
         /\ \A k \in Commands : k # e => r \notin Outdated(r, e)[k].fresh
         /\ \A k \in Commands : k = e => Outdated(r, e)[k] = cmd[k]
<1>1. ASSUME NEW c \in CmdType
      PROVE  LET n == [c EXCEPT !.fresh = c.fresh \ {r}]
             IN Outlasts(c, n) /\ r \notin n.fresh
  BY DEF CmdType, Outlasts
<1>2. ASSUME NEW c \in CmdType
      PROVE  Outlasts(c, c)
  BY DEF Outlasts
<1>3. ASSUME NEW k \in Commands
      PROVE  /\ Outlasts(cmd[k], Outdated(r, e)[k])
             /\ k # e => r \notin Outdated(r, e)[k].fresh
             /\ k = e => Outdated(r, e)[k] = cmd[k]
  <2>1. PICK c \in CmdType : c = cmd[k]
    BY TypeParts
  <2>2. CASE k = e
    BY <2>1, <2>2, <1>2 DEF Outdated
  <2>3. CASE k # e
    BY <2>1, <2>3, <1>1 DEF Outdated
  <2>4. QED
    BY <2>2, <2>3
<1>4. Outdated(r, e) \in [Commands -> CmdType]
  <2>1. \A k \in Commands : Outdated(r, e)[k] \in CmdType
    BY <1>3 DEF Outlasts
  <2>2. QED
    BY <2>1 DEF Outdated
<1>5. QED
  BY <1>3, <1>4

LEMMA OutdatedProcsFacts ==
  ASSUME TypeOK, NEW r
  PROVE  /\ OutdatedProcs(r) \in [Procs -> ProcType]
         /\ \A c \in Procs : LET p == OutdatedProcs(r)[c]
                             IN p.pc = proc[c].pc /\ p.name = proc[c].name /\ p.url = proc[c].url
<1>1. ASSUME NEW p \in ProcType
      PROVE  LET n == [p EXCEPT !.fresh = FALSE]
             IN n \in ProcType /\ n.pc = p.pc /\ n.name = p.name /\ n.url = p.url
  BY DEF ProcType
<1>2. ASSUME NEW c \in Procs
      PROVE  LET p == OutdatedProcs(r)[c]
             IN p \in ProcType /\ p.pc = proc[c].pc /\ p.name = proc[c].name /\ p.url = proc[c].url
  <2>1. PICK p \in ProcType : p = proc[c]
    BY TypeParts
  <2>2. QED
    BY <2>1, <1>1 DEF OutdatedProcs
<1>3. QED
  BY <1>2 DEF OutdatedProcs

-----------------------------------------------------------------------------
(* Steps that are not those of commands.                                   *)

Alike(r) == (repo'[r].exists <=> repo[r].exists) /\ repo'[r].url = repo[r].url /\ (repo'[r].default <=> repo[r].default)

LEMMA DefaultsStay ==
  ASSUME \A r \in Repos : Alike(r)
  PROVE  Defaults' = Defaults
  BY DEF Alike, Defaults

LEMMA ProcsStay ==
  ASSUME \A c \in Procs : ProcInv(c),
         \A c \in Procs : proc'[c].pc = proc[c].pc /\ proc'[c].name = proc[c].name /\ proc'[c].url = proc[c].url
  PROVE  \A c \in Procs : ProcInv(c)'
  BY DEF ProcInv

\* Commands stay as they are while the repositories and the default do, and no
\* PackageInfo comes to use one.
LEMMA CommandsStay ==
  ASSUME Inv, \A r \in Repos : Alike(r), \A k \in Commands : Outlasts(cmd[k], cmd'[k]),
         \A r \in Repos : Uses(r)' /\ ~info'.late => Uses(r) /\ ~info.late,
         excused' = excused
  PROVE  /\ StoreInv'
         /\ \A k \in Commands : CommandInv(k)'
         /\ \A k \in Commands : AllowedInv(k)'
         /\ DefaultInv'
<1>1. StoreInv'
  BY DEF Inv, StoreInv, Alike
<1>2. \A k \in Commands : CommandInv(k)'
  BY DEF Inv, CommandInv, Outlasts
<1>3. ASSUME NEW k \in Commands
      PROVE  AllowedInv(k)'
  <2>1. PICK c \in CmdType : c = cmd[k]
    BY TypeParts DEF Inv
  <2>2. PICK n \in CmdType : n = cmd'[k]
    BY DEF Outlasts
  <2>3. Outlasts(c, n)
    BY <2>1, <2>2
  <2>4. SUFFICES ASSUME n.pc = "commit", Uses(n.repo)', ~info'.late
                 PROVE  n.kind = "add" \/ (n.kind = "update" /\ (n.url = repo'[n.repo].url \/ n.repo \notin n.fresh))
    BY <2>2 DEF AllowedInv
  <2>5. PICK r \in Repos : r = c.repo
    BY <2>1, <2>3, <2>4 DEF Inv, CommandInv, Outlasts
  <2>6. c.pc = "commit" /\ n.repo = r /\ Uses(r)
    BY <2>3, <2>4, <2>5 DEF Outlasts, Uses
  <2>7. c.kind = "add" \/ (c.kind = "update" /\ (c.url = repo[r].url \/ r \notin c.fresh))
    <3>1. Uses(r)' /\ ~info.late
      BY <2>4, <2>5, <2>6 DEF Uses
    <3>2. QED
      BY <2>1, <2>5, <2>6, <3>1 DEF Inv, AllowedInv
  <2>8. QED
    BY <2>3, <2>6, <2>7 DEF Outlasts, Alike
<1>4. DefaultInv'
  <2>1. Defaults' = Defaults
    BY DefaultsStay
  <2>2. \A k \in Commands : Moves(k)' <=> Moves(k)
    BY DEF Moves, Outlasts
  <2>3. ASSUME ~excused, NEW k \in Commands
        PROVE  DefaultCmd(k)'
    <3>1. DefaultCmd(k) /\ Outlasts(cmd[k], cmd'[k])
      BY <2>3 DEF Inv, DefaultInv
    <3>2. cmd[k].kind = "update" => cmd[k].repo \in Repos
      <4>1. CommandInv(k)
        BY DEF Inv
      <4>2. QED
        BY <4>1 DEF CommandInv
    <3>3. cmd[k].kind = "update" => (repo'[cmd[k].repo].default <=> repo[cmd[k].repo].default)
      BY <3>2 DEF Alike
    <3>4. QED
      BY <2>1, <2>2, <3>1, <3>3 DEF DefaultCmd, Outlasts
  <2>4. \A k \in Commands : cmd'[k].pc = cmd[k].pc
    BY DEF Outlasts
  <2>5. QED
    BY <2>1, <2>2, <2>3, <2>4 DEF Inv, DefaultInv
<1>5. QED
  BY <1>1, <1>2, <1>3, <1>4

LEMMA SameCommands ==
  ASSUME TypeOK, cmd' = cmd
  PROVE  \A k \in Commands : Outlasts(cmd[k], cmd'[k])
<1>1. \A c \in CmdType : Outlasts(c, c)
  BY DEF Outlasts
<1>2. QED
  BY <1>1, TypeParts

\* A step of a controller with its client.
LEMMA ClientStep ==
  ASSUME Inv, UNCHANGED api, clients' \in [Repos -> Clients], proc' \in [Procs -> ProcType],
         \A c \in Procs : ProcInv(c)', count' \in CountType, count'.editions = count.editions
  PROVE  Inv'
<1>1. TypeOK'
  BY TypeParts, TypeStays DEF Inv, api
<1>2. \A k \in Commands : Outlasts(cmd[k], cmd'[k])
  BY SameCommands DEF api, Inv
<1>3. /\ StoreInv'
      /\ \A k \in Commands : CommandInv(k)'
      /\ \A k \in Commands : AllowedInv(k)'
      /\ DefaultInv'
  BY <1>2, CommandsStay DEF api, Alike, Uses
<1>4. EditionInv'
  BY DEF Inv, EditionInv, api
<1>5. QED
  BY <1>1, <1>3, <1>4 DEF Inv

\* The record of a controller, and the others as they were.
LEMMA ProcChange ==
  ASSUME Inv, NEW c \in Procs, NEW p \in ProcType, proc' = [proc EXCEPT ![c] = p],
         c = RepoController => p.pc \in {"idle", "repo", "fetch"} /\ (p.pc # "idle" => p.name \in Repos),
         p.pc \in {"lookup", "get"} => p.name \in Repos \union {Unnamed},
         p.pc = "repo" => p.name \in Repos /\ p.url \in Urls,
         p.pc = "fetch" => p.url = Error \/ (p.url \in Urls /\ p.name \in Repos)
  PROVE  proc' \in [Procs -> ProcType] /\ \A d \in Procs : ProcInv(d)'
<1>1. proc \in [Procs -> ProcType]
  BY TypeParts DEF Inv
<1>2. proc' \in [Procs -> ProcType] /\ proc'[c] = p /\ \A d \in Procs : d # c => proc'[d] = proc[d]
  BY <1>1
<1>3. ASSUME NEW d \in Procs
      PROVE  ProcInv(d)'
  <2>1. CASE d = c
    BY <1>2, <2>1 DEF ProcInv
  <2>2. CASE d # c
    BY <1>2, <2>2 DEF ProcInv, Inv
  <2>3. QED
    BY <2>1, <2>2
<1>4. QED
  BY <1>2, <1>3

\* The new records of a controller: it goes to pc, it gets a client, a repository,
\* a document, and it begins.
LEMMA ProcGoes ==
  ASSUME NEW p \in ProcType, NEW pc \in {"idle", "lookup", "get", "repo", "fetch", "use", "write"}
  PROVE  \E n \in ProcType : n = [p EXCEPT !.pc = pc] /\ n.pc = pc /\ n.name = p.name /\ n.url = p.url
<1> DEFINE n == [p EXCEPT !.pc = pc]
<1>1. n \in ProcType /\ n.pc = pc /\ n.name = p.name /\ n.url = p.url
  BY DEF ProcType
<1>2. QED
  BY <1>1

WithClient(p, u) == [p EXCEPT !.pc = "fetch", !.url = u]

WithRepo(p, r, u) == [p EXCEPT !.pc = "repo", !.name = r, !.url = u]

LEMMA ProcGetsClient ==
  ASSUME NEW p \in ProcType, NEW u \in Urls \union {None, Error}
  PROVE  LET n == WithClient(p, u) IN n \in ProcType /\ n.pc = "fetch" /\ n.name = p.name /\ n.url = u
  BY DEF WithClient, ProcType

LEMMA ProcGetsRepo ==
  ASSUME NEW p \in ProcType, NEW r \in Repos, NEW u \in Urls
  PROVE  LET n == WithRepo(p, r, u) IN n \in ProcType /\ n.pc = "repo" /\ n.name = r /\ n.url = u
  BY DEF WithRepo, ProcType

LEMMA ProcGetsData ==
  ASSUME NEW p \in ProcType, NEW d \in Data \union {Error}
  PROVE  \E n \in ProcType : n = [p EXCEPT !.pc = "use", !.name = None, !.url = None, !.data = d] /\ n.pc = "use"
<1> DEFINE n == [p EXCEPT !.pc = "use", !.name = None, !.url = None, !.data = d]
<1>1. n \in ProcType /\ n.pc = "use"
  BY DEF ProcType
<1>2. QED
  BY <1>1

LEMMA IdleType == Idle \in ProcType /\ Idle.pc = "idle"
  BY DEF Idle, ProcType, Data

LEMMA ProcAsks ==
  ASSUME NEW name \in Repos \union {Unnamed}, NEW fresh \in BOOLEAN
  PROVE  \E n \in ProcType : n = [AskByName(name) EXCEPT !.fresh = fresh] /\ n.pc = "lookup" /\ n.name = name
<1> DEFINE n == [AskByName(name) EXCEPT !.fresh = fresh]
<1>1. AskByName(name) \in ProcType /\ AskByName(name).pc = "lookup" /\ AskByName(name).name = name
  BY IdleType DEF AskByName, ProcType
<1>2. n \in ProcType /\ n.pc = "lookup" /\ n.name = name
  BY <1>1 DEF ProcType
<1>3. QED
  BY <1>2

LEMMA LookupInv ==
  ASSUME Inv, NEW c \in Procs, LookupRecent(c) \/ LookupExpired(c)
  PROVE  Inv'
<1>0. /\ proc[c] \in ProcType /\ ProcInv(c) /\ UNCHANGED <<api, clients, count>>
      /\ clients \in [Repos -> Clients] /\ count \in CountType
  BY TypeParts DEF Inv, LookupRecent, LookupExpired
<1>1. c # RepoController
  BY <1>0 DEF ProcInv, LookupRecent, LookupExpired
<1>2. CASE LookupRecent(c)
  <2>1. PICK r \in Repos : r = proc[c].name
    BY <1>2 DEF LookupRecent
  <2>2. clients[r].url \in Urls
    BY <1>0, <1>2, <2>1 DEF LookupRecent, Clients
  <2>3. PICK u \in Urls : u = clients[r].url
    BY <2>2
  <2>4. proc' = [proc EXCEPT ![c] = WithClient(proc[c], u)]
    BY <1>2, <2>1, <2>3 DEF LookupRecent, Returns, WithClient
  <2>5. PICK p \in ProcType : p = proc[c] /\ p.name = r
    BY <1>0, <2>1
  <2>6. PICK n \in ProcType : n = WithClient(p, u) /\ n.pc = "fetch" /\ n.name = r /\ n.url = u
    BY <2>5, ProcGetsClient
  <2>7. proc' \in [Procs -> ProcType] /\ \A d \in Procs : ProcInv(d)'
    BY <1>1, <2>4, <2>5, <2>6, ProcChange
  <2>8. QED
    BY <1>0, <2>7, ClientStep
<1>3. CASE LookupExpired(c)
  <2>1. PICK p \in ProcType : p = proc[c]
    BY <1>0
  <2>2. PICK n \in ProcType : n = [p EXCEPT !.pc = "get"] /\ n.pc = "get" /\ n.name = p.name
    BY ProcGoes
  <2>3. proc' = [proc EXCEPT ![c] = n] /\ n.name \in Repos \union {Unnamed}
    BY <1>0, <1>3, <2>1, <2>2 DEF LookupExpired, Goto, ProcInv
  <2>4. proc' \in [Procs -> ProcType] /\ \A d \in Procs : ProcInv(d)'
    BY <1>1, <2>2, <2>3, ProcChange
  <2>5. QED
    BY <1>0, <2>4, ClientStep
<1>4. QED
  BY <1>2, <1>3

LEMMA ErrorReturned ==
  ASSUME Inv, NEW c \in Procs, Returns(c, Error), c = RepoController => proc[c].name \in Repos
  PROVE  proc' \in [Procs -> ProcType] /\ \A d \in Procs : ProcInv(d)'
<1>1. PICK p \in ProcType : p = proc[c]
  BY TypeParts DEF Inv
<1>2. PICK n \in ProcType : n = WithClient(p, Error) /\ n.pc = "fetch" /\ n.name = p.name /\ n.url = Error
  BY ProcGetsClient
<1>3. proc' = [proc EXCEPT ![c] = n]
  BY <1>1, <1>2 DEF Returns, WithClient
<1>4. QED
  BY <1>1, <1>2, <1>3, ProcChange

LEMMA GetRepositoryInv ==
  ASSUME Inv, NEW c \in Procs, GetRepository(c)
  PROVE  Inv'
<1>0. /\ proc[c] \in ProcType /\ ProcInv(c) /\ UNCHANGED <<api, clients>>
      /\ clients \in [Repos -> Clients] /\ count \in CountType
  BY TypeParts DEF Inv, GetRepository
<1>1. c # RepoController /\ proc[c].name \in Repos \union {Unnamed}
  BY <1>0 DEF ProcInv, GetRepository
<1>2. CASE Returns(c, Error) /\ (UNCHANGED count \/ Fault)
  <2>1. count' \in CountType /\ count'.editions = count.editions
    BY <1>0, <1>2, CountFacts
  <2>2. QED
    BY <1>0, <1>1, <1>2, <2>1, ErrorReturned, ClientStep
<1>3. ASSUME NEW r \in Repos, repo[r].exists, UNCHANGED count,
             proc' = [proc EXCEPT ![c].pc = "repo", ![c].name = r, ![c].url = repo[r].url]
      PROVE  Inv'
  <2>1. PICK u \in Urls : u = repo[r].url
    BY <1>3 DEF Inv, StoreInv
  <2>2. PICK p \in ProcType : p = proc[c]
    BY <1>0
  <2>3. PICK n \in ProcType : n = WithRepo(p, r, u) /\ n.pc = "repo" /\ n.name = r /\ n.url = u
    BY ProcGetsRepo
  <2>4. proc' = [proc EXCEPT ![c] = n]
    BY <1>3, <2>1, <2>2, <2>3 DEF WithRepo
  <2>5. proc' \in [Procs -> ProcType] /\ \A d \in Procs : ProcInv(d)'
    BY <1>1, <2>3, <2>4, ProcChange
  <2>6. QED
    BY <1>0, <1>3, <2>5, ClientStep
<1>4. ASSUME NEW r \in (IF proc[c].name = Unnamed THEN Defaults ELSE {q \in {proc[c].name} : repo[q].exists})
      PROVE  r \in Repos /\ repo[r].exists
  BY <1>1, <1>4 DEF Defaults
<1>5. QED
  BY <1>2, <1>3, <1>4 DEF GetRepository

LEMMA ForRepoInv ==
  ASSUME Inv, NEW c \in Procs, ForRepo(c)
  PROVE  Inv'
<1>0. /\ ProcInv(c) /\ UNCHANGED api
      /\ clients \in [Repos -> Clients] /\ count \in CountType
  BY TypeParts DEF Inv, ForRepo
<1>1. PICK p \in ProcType : p = proc[c]
  BY TypeParts DEF Inv
<1>2. PICK r \in Repos : r = p.name
  BY <1>0, <1>1 DEF ForRepo, ProcInv
<1>3. PICK u \in Urls : u = p.url
  BY <1>0, <1>1 DEF ForRepo, ProcInv
<1>4. ASSUME Returns(c, u)
      PROVE  proc' \in [Procs -> ProcType] /\ \A d \in Procs : ProcInv(d)'
  <2>1. PICK n \in ProcType : n = WithClient(p, u) /\ n.pc = "fetch" /\ n.name = r /\ n.url = u
    BY <1>2, ProcGetsClient
  <2>2. proc' = [proc EXCEPT ![c] = n]
    BY <1>1, <1>4, <2>1 DEF Returns, WithClient
  <2>3. QED
    BY <2>1, <2>2, ProcChange
<1>5. CASE Returns(c, u) /\ UNCHANGED <<clients, count>>
  BY <1>0, <1>4, <1>5, ClientStep
<1>6. CASE Returns(c, u) /\ clients' = [clients EXCEPT ![r] = [url |-> u, item |-> None]] /\ UNCHANGED count
  <2>1. clients' \in [Repos -> Clients]
    BY <1>0, <1>6 DEF Clients
  <2>2. QED
    BY <1>0, <1>4, <1>6, <2>1, ClientStep
<1>7. CASE Fault /\ Returns(c, Error) /\ UNCHANGED clients
  <2>1. count' \in CountType /\ count'.editions = count.editions
    BY <1>0, <1>7, CountFacts
  <2>2. proc' \in [Procs -> ProcType] /\ \A d \in Procs : ProcInv(d)'
    BY <1>1, <1>2, <1>7, ErrorReturned
  <2>3. QED
    BY <1>0, <1>7, <2>1, <2>2, ClientStep
<1>8. QED
  BY <1>1, <1>2, <1>3, <1>5, <1>6, <1>7 DEF ForRepo

LEMMA FetchedFacts ==
  ASSUME Inv, NEW d \in Data \union {Error}, Fetched(d)
  PROVE  proc' \in [Procs -> ProcType] /\ \A c \in Procs : ProcInv(c)'
<1>1. PICK p \in ProcType : p = proc[InfoController]
  BY TypeParts, Names DEF Inv
<1>2. PICK n \in ProcType : n = [p EXCEPT !.pc = "use", !.name = None, !.url = None, !.data = d] /\ n.pc = "use"
  BY ProcGetsData
<1>3. proc' = [proc EXCEPT ![InfoController] = n]
  BY <1>1, <1>2 DEF Fetched
<1>4. QED
  BY <1>2, <1>3, Names, ProcChange

LEMMA FetchInv ==
  ASSUME Inv, FetchError \/ FetchCached \/ FetchServed
  PROVE  Inv'
<1> DEFINE c == InfoController
<1>0. /\ ProcInv(c) /\ UNCHANGED api
      /\ clients \in [Repos -> Clients] /\ count \in CountType /\ edition \in [Urls -> 0..MaxEditions]
  BY TypeParts, Names DEF Inv, FetchError, FetchCached, FetchServed
<1>1. CASE FetchError
  <2>1. count' \in CountType /\ count'.editions = count.editions
    BY <1>0, <1>1, CountFacts DEF FetchError
  <2>2. Fetched(Error) /\ UNCHANGED clients
    BY <1>1 DEF FetchError
  <2>3. QED
    BY <1>0, <2>1, <2>2, FetchedFacts, ClientStep
<1>2. ASSUME FetchCached \/ FetchServed
      PROVE  /\ proc[c].name \in Repos /\ proc[c].url \in Urls
             /\ UNCHANGED count
  BY <1>0, <1>2 DEF FetchCached, FetchServed, ProcInv
<1>3. CASE FetchCached
  <2>1. PICK r \in Repos : r = proc[c].name
    BY <1>2, <1>3
  <2>2. PICK u \in Urls : u = proc[c].url
    BY <1>2, <1>3
  <2>3. clients[r].item \in 0..MaxEditions /\ Fetched([url |-> u, edition |-> clients[r].item]) /\ UNCHANGED clients
    BY <1>0, <1>3, <2>1, <2>2 DEF FetchCached, Held, Clients
  <2>4. PICK e \in 0..MaxEditions : e = clients[r].item
    BY <2>3
  <2>5. [url |-> u, edition |-> e] \in Data
    BY DEF Data
  <2>6. proc' \in [Procs -> ProcType] /\ \A d \in Procs : ProcInv(d)'
    BY <2>3, <2>4, <2>5, FetchedFacts
  <2>7. QED
    BY <1>0, <1>2, <1>3, <2>3, <2>6, ClientStep
<1>4. CASE FetchServed
  <2>1. PICK r \in Repos : r = proc[c].name
    BY <1>2, <1>4
  <2>2. PICK u \in Urls : u = proc[c].url
    BY <1>2, <1>4
  <2>3. PICK e \in 0..MaxEditions : e = edition[u]
    BY <1>0
  <2>4. Fetched([url |-> u, edition |-> e])
    BY <1>4, <2>2, <2>3 DEF FetchServed
  <2>5. clients' \in [Repos -> Clients]
    <3>1. CASE clients' = clients
      BY <1>0, <3>1
    <3>2. CASE Held(c) /\ clients' = [clients EXCEPT ![r].item = e]
      <4>1. PICK cl \in [url : Urls, item : (0..MaxEditions) \union {None}] : cl = clients[r]
        BY <1>0, <2>1, <3>2 DEF Held, Clients
      <4>2. [cl EXCEPT !.item = e] \in Clients
        BY DEF Clients
      <4>3. clients' = [clients EXCEPT ![r] = [cl EXCEPT !.item = e]]
        BY <3>2, <4>1
      <4>4. QED
        BY <1>0, <4>2, <4>3
    <3>3. QED
      BY <1>4, <2>1, <2>2, <2>3, <3>1, <3>2 DEF FetchServed
  <2>6. [url |-> u, edition |-> e] \in Data
    BY DEF Data
  <2>7. proc' \in [Procs -> ProcType] /\ \A d \in Procs : ProcInv(d)'
    BY <2>4, <2>6, FetchedFacts
  <2>8. QED
    BY <1>0, <1>2, <1>4, <2>5, <2>7, ClientStep
<1>5. QED
  BY <1>1, <1>3, <1>4

LEMMA ControllerInv ==
  ASSUME Inv, CheckLatest \/ BeginInfo \/ Restart \/ \E r \in Repos : BeginRepo(r)
  PROVE  Inv'
<1> DEFINE i == InfoController
           q == RepoController
<1>0. /\ UNCHANGED api /\ i \in Procs /\ q \in Procs /\ i # q
      /\ clients \in [Repos -> Clients] /\ count \in CountType /\ proc \in [Procs -> ProcType] /\ info \in InfoType
  BY TypeParts, Names DEF Inv, CheckLatest, BeginInfo, Restart, BeginRepo
<1>1. CASE CheckLatest
  <2>1. UNCHANGED <<clients, count>>
    BY <1>1 DEF CheckLatest
  <2>2. PICK p \in ProcType : p = proc[i]
    BY <1>0
  <2>3. PICK n \in ProcType : n = [p EXCEPT !.pc = "write"] /\ n.pc = "write"
    BY ProcGoes
  <2>4. proc' = [proc EXCEPT ![i] = n] \/ proc' = [proc EXCEPT ![i] = Idle]
    BY <1>1, <2>2, <2>3 DEF CheckLatest, Goto
  <2>5. proc' \in [Procs -> ProcType] /\ \A d \in Procs : ProcInv(d)'
    BY <1>0, <2>3, <2>4, IdleType, ProcChange
  <2>6. QED
    BY <1>0, <2>1, <2>5, ClientStep
<1>2. CASE BeginInfo
  <2>1. PICK fresh \in BOOLEAN : MayFail(~fresh) /\ proc' = [proc EXCEPT ![i] = [AskByName(info.repo) EXCEPT !.fresh = fresh]]
    BY <1>2 DEF BeginInfo
  <2>2. PICK name \in Repos \union {Unnamed} : name = info.repo
    BY <1>0 DEF InfoType
  <2>3. PICK n \in ProcType : n = [AskByName(name) EXCEPT !.fresh = fresh] /\ n.pc = "lookup" /\ n.name = name
    BY ProcAsks
  <2>4. proc' \in [Procs -> ProcType] /\ \A d \in Procs : ProcInv(d)'
    BY <1>0, <2>1, <2>2, <2>3, ProcChange
  <2>5. count' \in CountType /\ count'.editions = count.editions
    BY <1>0, <2>1, CountFacts
  <2>6. QED
    BY <1>0, <1>2, <2>4, <2>5, ClientStep DEF BeginInfo
<1>3. CASE Restart
  <2>1. count' \in CountType /\ count'.editions = count.editions
    BY <1>0, <1>3, CountFacts DEF Restart
  <2>2. clients' \in [Repos -> Clients]
    BY <1>3 DEF Restart, Clients
  <2>3. proc' \in [Procs -> ProcType] /\ \A d \in Procs : proc'[d].pc = "idle"
    BY <1>3, IdleType DEF Restart
  <2>4. \A d \in Procs : ProcInv(d)'
    BY <2>3 DEF ProcInv
  <2>5. QED
    BY <1>0, <2>1, <2>2, <2>3, <2>4, ClientStep
<1>4. ASSUME NEW r \in Repos, BeginRepo(r)
      PROVE  Inv'
  <2>1. PICK u \in Urls : u = repo[r].url
    BY <1>4 DEF BeginRepo, Inv, StoreInv
  <2>2. PICK n \in ProcType : n = WithRepo(Idle, r, u) /\ n.pc = "repo" /\ n.name = r /\ n.url = u
    BY IdleType, ProcGetsRepo
  <2>3. proc' = [proc EXCEPT ![q] = n]
    BY <1>4, <2>1, <2>2 DEF BeginRepo, WithRepo
  <2>4. proc' \in [Procs -> ProcType] /\ \A d \in Procs : ProcInv(d)'
    BY <1>0, <2>2, <2>3, ProcChange
  <2>5. QED
    BY <1>0, <1>4, <2>4, ClientStep DEF BeginRepo
<1>5. QED
  BY <1>1, <1>2, <1>3, <1>4

LEMMA UpdateRepoInv ==
  ASSUME Inv, UpdateRepo
  PROVE  Inv'
<1> DEFINE c == RepoController
<1>0. /\ ProcInv(c) /\ c \in Procs /\ UNCHANGED <<info, edition, clients, excused>>
      /\ count \in CountType /\ proc \in [Procs -> ProcType] /\ repo \in [Repos -> RepoType]
  BY TypeParts, Names DEF Inv, UpdateRepo
<1>1. PICK r \in Repos : r = proc[c].name
  BY <1>0 DEF UpdateRepo, ProcInv
<1>2. proc' \in [Procs -> ProcType] /\ \A d \in Procs : ProcInv(d)'
  BY <1>0, IdleType, ProcChange DEF UpdateRepo
<1>3. PICK fails \in BOOLEAN :
        LET cond == IF fails \/ proc[c].url = Error THEN "failed" ELSE "ready"
        IN /\ MayFail(fails)
           /\ IF proc[c].fresh /\ repo[r].exists /\ repo[r].cond # cond
              THEN repo' = [repo EXCEPT ![r].cond = cond] /\ cmd' = Outdated(r, None)
              ELSE UNCHANGED <<repo, cmd>>
  BY <1>1 DEF UpdateRepo
<1>4. count' \in CountType /\ count'.editions = count.editions
  BY <1>0, <1>3, CountFacts
<1>5. repo' \in [Repos -> RepoType] /\ \A q \in Repos : Alike(q)
  <2>1. CASE UNCHANGED repo
    BY <1>0, <2>1 DEF Alike
  <2>2. ASSUME NEW cond \in {"ready", "failed"}, repo' = [repo EXCEPT ![r].cond = cond]
        PROVE  repo' \in [Repos -> RepoType] /\ \A q \in Repos : Alike(q)
    <3>1. PICK o \in RepoType : o = repo[r]
      BY <1>0
    <3>2. LET n == [o EXCEPT !.cond = cond]
          IN n \in RepoType /\ (n.exists <=> o.exists) /\ n.url = o.url /\ (n.default <=> o.default)
      BY DEF RepoType
    <3>3. repo' = [repo EXCEPT ![r] = [o EXCEPT !.cond = cond]]
      BY <2>2, <3>1
    <3>4. QED
      BY <1>0, <3>1, <3>2, <3>3 DEF Alike
  <2>3. QED
    BY <1>3, <2>1, <2>2
<1>6. \A k \in Commands : Outlasts(cmd[k], cmd'[k])
  <2>1. CASE cmd' = Outdated(r, None)
    BY <2>1, OutdatedFacts DEF Inv
  <2>2. CASE cmd' = cmd
    BY <2>2, SameCommands DEF Inv
  <2>3. QED
    BY <1>3, <2>1, <2>2
<1>7. cmd' \in [Commands -> CmdType]
  <2>1. CASE cmd' = Outdated(r, None)
    BY <2>1, OutdatedFacts DEF Inv
  <2>2. CASE cmd' = cmd
    BY <2>2, TypeParts DEF Inv
  <2>3. QED
    BY <1>3, <2>1, <2>2
<1>8. TypeOK'
  BY <1>0, <1>2, <1>4, <1>5, <1>7, TypeParts, TypeStays DEF Inv
<1>9. /\ StoreInv'
      /\ \A k \in Commands : CommandInv(k)'
      /\ \A k \in Commands : AllowedInv(k)'
      /\ DefaultInv'
  BY <1>0, <1>5, <1>6, CommandsStay DEF Uses
<1>10. EditionInv'
  BY <1>0, <1>4 DEF Inv, EditionInv
<1>11. QED
  BY <1>2, <1>8, <1>9, <1>10 DEF Inv

\* A step that changes the PackageInfo and leaves repositories and commands alone.
LEMMA InfoStep ==
  ASSUME Inv, UNCHANGED <<repo, edition, clients, cmd, excused>>, info' \in InfoType,
         proc' \in [Procs -> ProcType], \A c \in Procs : ProcInv(c)',
         count' \in CountType, count'.editions = count.editions,
         \A r \in Repos : Uses(r)' /\ ~info'.late => Uses(r) /\ ~info.late
  PROVE  Inv'
<1>1. TypeOK'
  BY TypeParts, TypeStays DEF Inv
<1>2. \A k \in Commands : Outlasts(cmd[k], cmd'[k])
  BY SameCommands DEF Inv
<1>3. /\ StoreInv'
      /\ \A k \in Commands : CommandInv(k)'
      /\ \A k \in Commands : AllowedInv(k)'
      /\ DefaultInv'
  BY <1>2, CommandsStay DEF Alike
<1>4. EditionInv'
  BY DEF Inv, EditionInv
<1>5. QED
  BY <1>1, <1>3, <1>4 DEF Inv

LEMMA OutdatedInfoFacts ==
  ASSUME Inv, proc' = OutdatedInfo
  PROVE  proc' \in [Procs -> ProcType] /\ \A c \in Procs : ProcInv(c)'
<1>1. proc \in [Procs -> ProcType] /\ InfoController \in Procs
  BY TypeParts, Names DEF Inv
<1>2. PICK p \in ProcType : p = proc[InfoController]
  BY <1>1
<1>3. LET n == [p EXCEPT !.fresh = FALSE]
      IN n \in ProcType /\ n.pc = p.pc /\ n.name = p.name /\ n.url = p.url
  BY DEF ProcType
<1>4. proc' = [proc EXCEPT ![InfoController] = [p EXCEPT !.fresh = FALSE]]
  BY <1>2 DEF OutdatedInfo
<1>5. /\ proc' \in [Procs -> ProcType]
      /\ \A c \in Procs : proc'[c].pc = proc[c].pc /\ proc'[c].name = proc[c].name /\ proc'[c].url = proc[c].url
  BY <1>1, <1>2, <1>3, <1>4
<1>6. QED
  BY <1>5, ProcsStay DEF Inv

LEMMA InfoUpdates ==
  ASSUME NEW i \in InfoType
  PROVE  /\ \A d \in Data :
              LET n == [i EXCEPT !.data = d, !.due = FALSE]
              IN n \in InfoType /\ (n.exists <=> i.exists) /\ n.repo = i.repo /\ (n.late <=> i.late)
         /\ LET n == [i EXCEPT !.due = TRUE]
            IN n \in InfoType /\ (n.exists <=> i.exists) /\ n.repo = i.repo /\ (n.late <=> i.late)
  BY DEF InfoType

LEMMA InfoStepsInv ==
  ASSUME Inv, UpdateInfo \/ DeleteInfo \/ InfoExpires
  PROVE  Inv'
<1>0. /\ count \in CountType /\ UNCHANGED <<repo, edition, clients, cmd, excused, count>>
      /\ proc \in [Procs -> ProcType] /\ InfoController \in Procs /\ InfoController # RepoController
  BY TypeParts, Names DEF Inv, UpdateInfo, DeleteInfo, InfoExpires, operator
<1>1. PICK i \in InfoType : i = info
  BY TypeParts DEF Inv
<1>2. CASE UpdateInfo
  <2>1. proc' \in [Procs -> ProcType] /\ \A c \in Procs : ProcInv(c)'
    BY <1>0, <1>2, IdleType, ProcChange DEF UpdateInfo
  <2>2. info' \in InfoType /\ (info'.exists <=> info.exists) /\ info'.repo = info.repo /\ (info'.late <=> info.late)
    <3>1. CASE info' = info
      BY <1>1, <3>1
    <3>2. CASE proc[InfoController].data # Error /\ info' = [info EXCEPT !.data = proc[InfoController].data, !.due = FALSE]
      <4>1. PICK d \in Data : d = proc[InfoController].data
        BY <1>0, <3>2 DEF ProcType
      <4>2. QED
        BY <1>1, <3>2, <4>1, InfoUpdates
    <3>3. QED
      BY <1>2, <3>1, <3>2 DEF UpdateInfo
  <2>3. QED
    BY <1>0, <2>1, <2>2, InfoStep DEF Uses
<1>3. CASE DeleteInfo
  <2>1. proc' \in [Procs -> ProcType] /\ \A c \in Procs : ProcInv(c)'
    BY <1>3, OutdatedInfoFacts DEF DeleteInfo
  <2>2. info' = NoInfo /\ NoInfo \in InfoType /\ ~NoInfo.exists
    BY <1>3 DEF DeleteInfo, NoInfo, InfoType, Data
  <2>3. QED
    BY <1>0, <2>1, <2>2, InfoStep DEF Uses
<1>4. CASE InfoExpires
  <2>1. proc' \in [Procs -> ProcType] /\ \A c \in Procs : ProcInv(c)'
    BY <1>0, <1>4, ProcsStay DEF InfoExpires, operator, Inv
  <2>2. info' \in InfoType /\ (info'.exists <=> info.exists) /\ info'.repo = info.repo /\ (info'.late <=> info.late)
    BY <1>1, <1>4, InfoUpdates DEF InfoExpires
  <2>3. QED
    BY <1>0, <2>1, <2>2, InfoStep DEF Uses
<1>5. QED
  BY <1>2, <1>3, <1>4

\* The package that is installed while a write is on its way counts as late.
LEMMA CreateInfoInv ==
  ASSUME Inv, NEW name \in Repos \union {Unnamed}, CreateInfo(name)
  PROVE  Inv'
<1> DEFINE late == \E k \in Commands : cmd[k].pc = "commit" /\ cmd[k].repo = name
<1>0. /\ count' \in CountType /\ count'.editions = count.editions
      /\ UNCHANGED <<repo, edition, clients, cmd, excused>>
  BY TypeParts, CountFacts DEF Inv, CreateInfo
<1>1. proc' \in [Procs -> ProcType] /\ \A c \in Procs : ProcInv(c)'
  BY OutdatedInfoFacts DEF CreateInfo
<1>2. info' = [NoInfo EXCEPT !.exists = TRUE, !.repo = name, !.late = late]
  BY DEF CreateInfo
<1>3. late \in BOOLEAN
  OBVIOUS
<1>4. PICK l \in BOOLEAN : l = late
  BY <1>3
<1>5. NoInfo \in InfoType
  BY DEF NoInfo, InfoType, Data
<1>6. LET n == [NoInfo EXCEPT !.exists = TRUE, !.repo = name, !.late = l]
      IN n \in InfoType /\ n.repo = name /\ (n.late <=> l)
  BY <1>5 DEF InfoType
<1> HIDE DEF late
<1>7. info' \in InfoType /\ info'.repo = name /\ (info'.late <=> late)
  BY <1>2, <1>4, <1>6
<1>8. TypeOK'
  BY <1>0, <1>1, <1>7, TypeParts, TypeStays DEF Inv
<1>9. ASSUME NEW k \in Commands
      PROVE  AllowedInv(k)'
  <2>1. Uses(cmd[k].repo)' => cmd[k].repo = name
    BY <1>0, <1>7 DEF Uses
  <2>2. cmd[k].pc = "commit" /\ cmd[k].repo = name => late
    BY DEF late
  <2>3. QED
    BY <1>0, <1>7, <2>1, <2>2 DEF AllowedInv, Uses
<1>10. StoreInv' /\ EditionInv' /\ \A k \in Commands : CommandInv(k)'
  BY <1>0 DEF Inv, StoreInv, EditionInv, CommandInv
<1>11. Defaults' = Defaults
  BY <1>0 DEF Defaults
<1>12. DefaultInv'
  BY <1>0, <1>11 DEF Inv, DefaultInv, DefaultCmd, Moves
<1>13. QED
  BY <1>1, <1>8, <1>9, <1>10, <1>12 DEF Inv

LEMMA PublishInv ==
  ASSUME Inv, NEW u \in Urls, Publish(u)
  PROVE  Inv'
<1>0. /\ UNCHANGED <<repo, info, clients, proc, cmd, excused>>
      /\ edition \in [Urls -> 0..MaxEditions] /\ count.editions \in Nat /\ MaxEditions \in Nat
      /\ count' \in CountType /\ count'.editions = count.editions + 1 /\ count'.editions <= MaxEditions
  BY TypeParts, Names, CountFacts DEF Inv, Publish, operator, CountType
<1>1. edition' = [edition EXCEPT ![u] = edition[u] + 1]
  BY DEF Publish
<1>2. edition[u] + 1 \in 0..MaxEditions
  BY <1>0 DEF Inv, EditionInv
<1>3. edition' \in [Urls -> 0..MaxEditions]
  BY <1>0, <1>1, <1>2
<1>4. EditionInv'
  BY <1>0, <1>1 DEF Inv, EditionInv
<1>5. TypeOK'
  BY <1>0, <1>3, TypeParts, TypeStays DEF Inv
<1>6. \A k \in Commands : Outlasts(cmd[k], cmd'[k])
  BY <1>0, SameCommands DEF Inv
<1>7. /\ StoreInv'
      /\ \A k \in Commands : CommandInv(k)'
      /\ \A k \in Commands : AllowedInv(k)'
      /\ DefaultInv'
  BY <1>0, <1>6, CommandsStay DEF Alike, Uses
<1>8. \A c \in Procs : ProcInv(c)'
  BY <1>0, ProcsStay DEF Inv
<1>9. QED
  BY <1>4, <1>5, <1>7, <1>8 DEF Inv

-----------------------------------------------------------------------------
(* The steps of commands.                                                  *)

LEMMA OtherCommands ==
  ASSUME Inv, NEW k \in Commands, info' = info,
         \A j \in Commands : j # k => Outlasts(cmd[j], cmd'[j]),
         \A j \in Commands, r \in Repos : j # k /\ r = cmd[j].repo =>
           repo'[r].url = repo[r].url \/ r \notin cmd'[j].fresh
  PROVE  \A j \in Commands : j # k => CommandInv(j)' /\ AllowedInv(j)'
<1> SUFFICES ASSUME NEW j \in Commands, j # k
             PROVE  CommandInv(j)' /\ AllowedInv(j)'
  OBVIOUS
<1>1. CommandInv(j) /\ AllowedInv(j) /\ Outlasts(cmd[j], cmd'[j])
  BY DEF Inv
<1>2. CommandInv(j)'
  BY <1>1 DEF CommandInv, Outlasts
<1>3. ASSUME cmd[j].pc = "commit", Uses(cmd[j].repo), ~info.late
      PROVE  \/ cmd[j].kind = "add"
             \/ cmd[j].kind = "update" /\ (cmd[j].url = repo'[cmd[j].repo].url \/ cmd[j].repo \notin cmd'[j].fresh)
  <2>1. PICK r \in Repos : r = cmd[j].repo
    BY <1>1, <1>3 DEF CommandInv
  <2>2. cmd[j].kind = "add" \/ (cmd[j].kind = "update" /\ (cmd[j].url = repo[r].url \/ r \notin cmd[j].fresh))
    BY <1>1, <1>3, <2>1 DEF AllowedInv
  <2>3. repo'[r].url = repo[r].url \/ r \notin cmd'[j].fresh
    BY <2>1
  <2>4. QED
    BY <1>1, <2>1, <2>2, <2>3 DEF Outlasts
<1>4. AllowedInv(j)'
  BY <1>1, <1>3 DEF AllowedInv, Outlasts, Uses
<1>5. QED
  BY <1>2, <1>4

\* What is left to show of the default repository when one command runs alone.
LEMMA SoleCommand ==
  ASSUME Inv, NEW k \in Commands, ~excused \/ excused',
         \A j \in Commands : j # k => Outlasts(cmd[j], cmd'[j]),
         ~excused' => \A j \in Commands : j # k => cmd[j].pc = "idle",
         ~excused' => DefaultCmd(k)',
         ~excused' /\ ~Moves(k)' => \E r \in Repos : (Defaults = {r})'
  PROVE  DefaultInv'
<1> SUFFICES ASSUME ~excused'
             PROVE  /\ \A i, j \in Commands : cmd'[i].pc # "idle" /\ cmd'[j].pc # "idle" => i = j
                    /\ (\A j \in Commands : ~Moves(j)') => \E r \in Repos : (Defaults = {r})'
                    /\ \A j \in Commands : DefaultCmd(j)'
  BY DEF DefaultInv
<1>1. ASSUME NEW j \in Commands, j # k
      PROVE  /\ cmd'[j].pc = "idle" /\ DefaultCmd(j)'
  <2>1. CommandInv(j) /\ cmd[j].pc = "idle" /\ Outlasts(cmd[j], cmd'[j])
    BY <1>1 DEF Inv
  <2>2. cmd'[j].pc = "idle" /\ cmd'[j].old = None /\ cmd'[j].kind = "none" /\ ~cmd'[j].default
    BY <2>1 DEF CommandInv, Outlasts
  <2>3. QED
    BY <2>2 DEF DefaultCmd, Moves
<1>2. QED
  BY <1>1

\* A command that runs while nothing was excused runs alone.
LEMMA Alone ==
  ASSUME Inv, NEW k \in Commands, cmd[k].pc # "idle", ~excused
  PROVE  /\ \A j \in Commands : j # k => cmd[j].pc = "idle"
         /\ DefaultCmd(k)
         /\ ~Moves(k) => \E r \in Repos : Defaults = {r}
<1>1. \A j \in Commands : j # k => cmd[j].pc = "idle"
  BY DEF Inv, DefaultInv
<1>2. \A j \in Commands : j # k => ~Moves(j)
  BY <1>1 DEF Inv, CommandInv, Moves
<1>3. QED
  BY <1>1, <1>2 DEF Inv, DefaultInv

\* The commands when k alone changes, or when the copies of r are out of date as well.
LEMMA OneChanges ==
  ASSUME TypeOK, NEW k \in Commands, NEW n \in CmdType, NEW r,
         cmd' = [cmd EXCEPT ![k] = n] \/ cmd' = [Outdated(r, k) EXCEPT ![k] = n]
  PROVE  /\ cmd' \in [Commands -> CmdType] /\ cmd'[k] = n
         /\ \A j \in Commands : j # k => Outlasts(cmd[j], cmd'[j])
         /\ cmd' = [Outdated(r, k) EXCEPT ![k] = n] => \A j \in Commands : j # k => r \notin cmd'[j].fresh
<1>1. CASE cmd' = [cmd EXCEPT ![k] = n]
  <2>1. cmd \in [Commands -> CmdType]
    BY TypeParts
  <2>2. cmd' \in [Commands -> CmdType] /\ cmd'[k] = n /\ \A j \in Commands : j # k => cmd'[j] = cmd[j]
    BY <1>1, <2>1
  <2>3. \A c \in CmdType : Outlasts(c, c)
    BY DEF Outlasts
  <2>4. \A j \in Commands : j # k => Outlasts(cmd[j], cmd'[j])
    BY <2>1, <2>2, <2>3
  <2>5. ASSUME cmd' = [Outdated(r, k) EXCEPT ![k] = n], NEW j \in Commands, j # k
        PROVE  r \notin cmd'[j].fresh
    BY <2>5, OutdatedFacts
  <2>6. QED
    BY <2>2, <2>4, <2>5
<1>2. CASE cmd' = [Outdated(r, k) EXCEPT ![k] = n]
  BY <1>2, OutdatedFacts
<1>3. QED
  BY <1>1, <1>2

LEMMA NoCmdFacts ==
  NoCmd \in CmdType /\ NoCmd.pc = "idle" /\ NoCmd.old = None /\ NoCmd.kind = "none" /\ ~NoCmd.default
  BY DEF NoCmd, CmdType

\* A command is done.
LEMMA EndedCommand ==
  ASSUME NEW k \in Commands, cmd'[k] = NoCmd
  PROVE  CommandInv(k)' /\ AllowedInv(k)' /\ DefaultCmd(k)' /\ ~Moves(k)'
  BY NoCmdFacts DEF CommandInv, AllowedInv, DefaultCmd, Moves

\* The parts of the invariant that a step of command k has to show.
LEMMA CommandStep ==
  ASSUME Inv, NEW k \in Commands, UNCHANGED <<info, edition, clients>>,
         repo' \in [Repos -> RepoType], proc' \in [Procs -> ProcType], cmd' \in [Commands -> CmdType],
         count' \in CountType, count'.editions = count.editions, excused' \in BOOLEAN,
         \A c \in Procs : proc'[c].pc = proc[c].pc /\ proc'[c].name = proc[c].name /\ proc'[c].url = proc[c].url,
         StoreInv',
         \A j \in Commands : j # k => Outlasts(cmd[j], cmd'[j]),
         \A j \in Commands, r \in Repos : j # k /\ r = cmd[j].repo =>
           repo'[r].url = repo[r].url \/ r \notin cmd'[j].fresh,
         CommandInv(k)', AllowedInv(k)',
         DefaultInv'
  PROVE  Inv'
<1>1. TypeOK'
  BY TypeParts, TypeStays DEF Inv
<1>2. \A j \in Commands : j # k => CommandInv(j)' /\ AllowedInv(j)'
  BY OtherCommands
<1>3. \A c \in Procs : ProcInv(c)'
  BY ProcsStay DEF Inv
<1>4. EditionInv'
  BY DEF Inv, EditionInv
<1>5. QED
  BY <1>1, <1>2, <1>3, <1>4 DEF Inv

LEMMA StartInv ==
  ASSUME Inv, NEW k \in Commands, NEW r \in Repos,
         \/ StartDelete(k, r)
         \/ \E u \in Urls, d \in BOOLEAN, kind \in {"add", "update"} : StartCommand(k, kind, r, u, d)
  PROVE  Inv'
<1>0. /\ UNCHANGED <<repo, info, edition, clients, proc>>
      /\ cmd[k].pc = "idle"
      /\ count' \in CountType /\ count'.editions = count.editions
      /\ excused' = (excused \/ \E j \in Commands \ {k} : cmd[j].pc # "idle")
  BY TypeParts, CountFacts DEF Inv, StartDelete, StartCommand, operator
<1>1. PICK n \in CmdType :
        /\ cmd' = [cmd EXCEPT ![k] = n]
        /\ n.pc \in {"default", "write"} /\ n.repo = r /\ n.old = None
        /\ n.pc = "default" => n.kind # "delete"
        /\ n.kind \in {"add", "update", "delete"} /\ (n.kind # "delete" => n.url \in Urls)
        /\ n.kind = "update" => (n.default <=> repo[r].default)
        /\ n.kind # "update" => ~n.default
  <2>1. CASE StartDelete(k, r)
    <3> DEFINE n == [NoCmd EXCEPT !.pc = "write", !.kind = "delete", !.repo = r]
    <3>1. n \in CmdType /\ n.pc = "write" /\ n.repo = r /\ n.old = None /\ n.kind = "delete" /\ ~n.default
      BY NoCmdFacts DEF CmdType
    <3>2. cmd' = [cmd EXCEPT ![k] = n]
      BY <2>1 DEF StartDelete
    <3> HIDE DEF n
    <3>3. QED
      BY <3>1, <3>2
  <2>2. ASSUME NEW u \in Urls, NEW d \in BOOLEAN, NEW kind \in {"add", "update"}, StartCommand(k, kind, r, u, d)
        PROVE  \E n \in CmdType :
                 /\ cmd' = [cmd EXCEPT ![k] = n]
                 /\ n.pc \in {"default", "write"} /\ n.repo = r /\ n.old = None
                 /\ n.pc = "default" => n.kind # "delete"
                 /\ n.kind \in {"add", "update", "delete"} /\ (n.kind # "delete" => n.url \in Urls)
                 /\ n.kind = "update" => (n.default <=> repo[r].default)
                 /\ n.kind # "update" => ~n.default
    <3> DEFINE pc == IF d THEN "default" ELSE "write"
               def == kind = "update" /\ repo[r].default
               n == [pc |-> pc, kind |-> kind, repo |-> r, url |-> u, default |-> def, old |-> None, fresh |-> {r}]
    <3>1. pc \in {"default", "write"} /\ def \in BOOLEAN /\ (def <=> kind = "update" /\ repo[r].default)
      OBVIOUS
    <3>2. cmd' = [cmd EXCEPT ![k] = n]
      BY <2>2 DEF StartCommand
    <3> HIDE DEF pc, def
    <3>3. n \in CmdType
      BY <3>1 DEF CmdType
    <3>4. n.pc = pc /\ n.repo = r /\ n.old = None /\ n.kind = kind /\ n.url = u /\ (n.default <=> def)
      OBVIOUS
    <3> HIDE DEF n
    <3>5. QED
      BY <3>1, <3>2, <3>3, <3>4
  <2>3. QED
    BY <2>1, <2>2
<1>2. /\ cmd' \in [Commands -> CmdType] /\ cmd'[k] = n
      /\ \A j \in Commands : j # k => Outlasts(cmd[j], cmd'[j])
  BY <1>1, OneChanges DEF Inv
<1>3. CommandInv(k)' /\ AllowedInv(k)'
  BY <1>1, <1>2 DEF CommandInv, AllowedInv
<1>4. DefaultInv'
  <2>1. Defaults' = Defaults
    BY <1>0 DEF Defaults
  <2>2. DefaultCmd(k)' /\ ~Moves(k)'
    BY <1>0, <1>1, <1>2 DEF DefaultCmd, Moves
  <2>3. ASSUME ~excused'
        PROVE  ~excused /\ \A j \in Commands : cmd[j].pc = "idle"
    BY <1>0, <2>3
  <2>4. ASSUME ~excused'
        PROVE  \E q \in Repos : (Defaults = {q})'
    <3>1. \A j \in Commands : ~Moves(j)
      BY <2>3, <2>4 DEF Moves, Inv, CommandInv
    <3>2. QED
      BY <2>1, <2>3, <2>4, <3>1 DEF Inv, DefaultInv
  <2>5. ~excused \/ excused'
    BY <1>0
  <2>6. QED
    BY <1>2, <2>2, <2>3, <2>4, <2>5, SoleCommand
<1>5. repo' \in [Repos -> RepoType] /\ proc' \in [Procs -> ProcType] /\ excused' \in BOOLEAN
  BY <1>0, TypeParts DEF Inv
<1>6. StoreInv'
  BY <1>0 DEF Inv, StoreInv
<1>7. QED
  BY <1>0, <1>2, <1>3, <1>4, <1>5, <1>6, CommandStep

\* The new records of a command: it goes on, it has no old default, it has one.
CmdGoesTo(c, pc) == [c EXCEPT !.pc = pc]

CmdTakesDefault(c) == [c EXCEPT !.pc = "write", !.default = TRUE]

CmdUnsets(c, o) == [c EXCEPT !.pc = "unset", !.old = o, !.fresh = c.fresh \union {o}]

LEMMA CmdRecords ==
  ASSUME NEW c \in CmdType
  PROVE  /\ \A pc \in {"idle", "default", "unset", "write", "commit", "failed"} :
              LET n == CmdGoesTo(c, pc)
              IN /\ n \in CmdType
                 /\ n.pc = pc /\ n.kind = c.kind /\ n.repo = c.repo /\ n.url = c.url
                 /\ (n.default <=> c.default) /\ n.old = c.old /\ n.fresh = c.fresh
         /\ LET n == CmdTakesDefault(c)
            IN /\ n \in CmdType
               /\ n.pc = "write" /\ n.kind = c.kind /\ n.repo = c.repo /\ n.url = c.url
               /\ n.default /\ n.old = c.old /\ n.fresh = c.fresh
<1>1. ASSUME NEW pc \in {"idle", "default", "unset", "write", "commit", "failed"}
      PROVE  LET n == CmdGoesTo(c, pc)
              IN /\ n \in CmdType
                 /\ n.pc = pc /\ n.kind = c.kind /\ n.repo = c.repo /\ n.url = c.url
                 /\ (n.default <=> c.default) /\ n.old = c.old /\ n.fresh = c.fresh
  BY DEF CmdGoesTo, CmdType
<1>2. LET n == CmdTakesDefault(c)
      IN /\ n \in CmdType
         /\ n.pc = "write" /\ n.kind = c.kind /\ n.repo = c.repo /\ n.url = c.url
         /\ n.default /\ n.old = c.old /\ n.fresh = c.fresh
  BY DEF CmdTakesDefault, CmdType
<1>3. QED
  BY <1>1, <1>2

LEMMA CmdUnsetsRecord ==
  ASSUME NEW c \in CmdType, NEW o \in Repos
  PROVE  LET n == CmdUnsets(c, o)
         IN /\ n \in CmdType
            /\ n.pc = "unset" /\ n.kind = c.kind /\ n.repo = c.repo /\ n.url = c.url
            /\ (n.default <=> c.default) /\ n.old = o
  BY DEF CmdUnsets, CmdType

\* A step of a command that writes nothing.
LEMMA QuietStep ==
  ASSUME Inv, NEW k \in Commands, NEW n \in CmdType, cmd' = [cmd EXCEPT ![k] = n], cmd[k].pc # "idle",
         UNCHANGED <<repo, info, edition, operator>>, count' \in CountType, count'.editions = count.editions,
         excused' \in BOOLEAN, ~excused \/ excused',
         CommandInv(k)', AllowedInv(k)', ~excused' => DefaultCmd(k)',
         ~excused' /\ ~Moves(k)' => \E r \in Repos : (Defaults = {r})'
  PROVE  Inv'
<1>1. /\ cmd' \in [Commands -> CmdType] /\ cmd'[k] = n
      /\ \A j \in Commands : j # k => Outlasts(cmd[j], cmd'[j])
  BY OneChanges DEF Inv
<1>2. ~excused' => \A j \in Commands : j # k => cmd[j].pc = "idle"
  BY Alone
<1>3. DefaultInv'
  BY <1>1, <1>2, SoleCommand
<1>4. repo' \in [Repos -> RepoType] /\ proc' \in [Procs -> ProcType] /\ StoreInv'
  BY TypeParts DEF Inv, operator, StoreInv
<1>5. QED
  BY <1>1, <1>3, <1>4, CommandStep DEF operator

LEMMA InterruptInv ==
  ASSUME Inv, NEW k \in Commands, Interrupt(k)
  PROVE  Inv'
<1>1. /\ UNCHANGED <<repo, info, edition, operator>> /\ count' \in CountType /\ count'.editions = count.editions
      /\ cmd' = [cmd EXCEPT ![k] = NoCmd] /\ NoCmd \in CmdType /\ cmd[k].pc # "idle"
      /\ excused' = (excused \/ cmd[k].old # None)
  BY TypeParts, CountFacts, NoCmdFacts DEF Inv, Interrupt
<1>2. CommandInv(k)' /\ AllowedInv(k)' /\ DefaultCmd(k)'
  <2>1. cmd'[k] = NoCmd
    BY <1>1, OneChanges DEF Inv
  <2>2. QED
    BY <2>1, EndedCommand
<1>3. ASSUME ~excused'
      PROVE  \E r \in Repos : (Defaults = {r})'
  <2>1. ~excused /\ ~Moves(k)
    BY <1>1, <1>3 DEF Moves
  <2>2. Defaults' = Defaults
    BY <1>1 DEF Defaults
  <2>3. QED
    BY <1>1, <2>1, <2>2, Alone
<1>4. excused' \in BOOLEAN /\ (~excused \/ excused')
  BY <1>1, TypeParts DEF Inv
<1>5. QED
  BY <1>1, <1>2, <1>3, <1>4, QuietStep

LEMMA GetDefaultRepoInv ==
  ASSUME Inv, NEW k \in Commands, GetDefaultRepo(k)
  PROVE  Inv'
<1>1. /\ UNCHANGED <<repo, info, edition, operator, count, excused>> /\ count \in CountType /\ excused \in BOOLEAN
      /\ cmd[k].pc = "default" /\ CommandInv(k)
  BY TypeParts DEF Inv, GetDefaultRepo
<1>2. PICK c \in CmdType : c = cmd[k]
  BY TypeParts DEF Inv
<1>3. Defaults' = Defaults
  BY <1>1 DEF Defaults
<1>4. ~excused => DefaultCmd(k) /\ c.old = None /\ \E r \in Repos : Defaults = {r}
  <2>1. ~excused => DefaultCmd(k) /\ (~Moves(k) => \E r \in Repos : Defaults = {r})
    BY <1>1, Alone
  <2>2. QED
    BY <1>1, <1>2, <2>1 DEF DefaultCmd, Moves
<1>5. c.kind # "none" /\ c.kind # "delete" /\ c.repo \in Repos /\ c.url \in Urls
  BY <1>1, <1>2 DEF CommandInv
<1>6. CASE Defaults = {} /\ cmd' = [cmd EXCEPT ![k].pc = "write", ![k].default = TRUE]
  <2>1. PICK n \in CmdType : /\ n = CmdTakesDefault(c)
                             /\ n.pc = "write" /\ n.kind = c.kind /\ n.repo = c.repo /\ n.url = c.url
    BY CmdRecords
  <2>2. cmd' = [cmd EXCEPT ![k] = n]
    BY <1>2, <1>6, <2>1 DEF CmdTakesDefault
  <2>3. cmd'[k] = n
    BY <2>2, OneChanges DEF Inv
  <2>4. CommandInv(k)' /\ AllowedInv(k)'
    BY <1>5, <2>1, <2>3 DEF CommandInv, AllowedInv
  <2>5. excused
    BY <1>4, <1>6
  <2>6. QED
    BY <1>1, <2>2, <2>4, <2>5, QuietStep
<1>7. CASE cmd' = [cmd EXCEPT ![k].pc = "write"]
  <2>1. PICK n \in CmdType : /\ n = CmdGoesTo(c, "write")
                             /\ n.pc = "write" /\ n.kind = c.kind /\ n.repo = c.repo /\ n.url = c.url
                             /\ (n.default <=> c.default) /\ n.old = c.old
    BY CmdRecords
  <2>2. cmd' = [cmd EXCEPT ![k] = n]
    BY <1>2, <1>7, <2>1 DEF CmdGoesTo
  <2>3. cmd'[k] = n
    BY <2>2, OneChanges DEF Inv
  <2>4. CommandInv(k)' /\ AllowedInv(k)'
    BY <1>5, <2>1, <2>3 DEF CommandInv, AllowedInv
  <2>5. ~excused => DefaultCmd(k)'
    BY <1>1, <1>2, <1>4, <2>1, <2>3 DEF DefaultCmd, Moves
  <2>6. QED
    BY <1>1, <1>3, <1>4, <2>2, <2>4, <2>5, QuietStep
<1>8. ASSUME NEW o \in Defaults, o # c.repo,
             cmd' = [cmd EXCEPT ![k].pc = "unset", ![k].old = o, ![k].fresh = @ \union {o}]
      PROVE  Inv'
  <2>0. o \in Repos /\ o # None
    BY Names DEF Defaults
  <2>1. PICK n \in CmdType : /\ n = CmdUnsets(c, o)
                             /\ n.pc = "unset" /\ n.kind = c.kind /\ n.repo = c.repo /\ n.url = c.url
                             /\ (n.default <=> c.default) /\ n.old = o
    BY <2>0, CmdUnsetsRecord
  <2>2. cmd' = [cmd EXCEPT ![k] = n]
    BY <1>2, <1>8, <2>1 DEF CmdUnsets
  <2>3. cmd'[k] = n
    BY <2>2, OneChanges DEF Inv
  <2>4. CommandInv(k)' /\ AllowedInv(k)'
    BY <1>5, <2>1, <2>3 DEF CommandInv, AllowedInv
  <2>5. ~excused => DefaultCmd(k)'
    <3>1. ~excused => Defaults = {o}
      BY <1>4
    <3>2. QED
      BY <1>3, <1>8, <2>0, <2>1, <2>3, <3>1 DEF DefaultCmd, Moves
  <2>6. QED
    BY <1>1, <1>3, <1>4, <2>2, <2>4, <2>5, QuietStep
<1>9. QED
  BY <1>1, <1>2, <1>6, <1>7, <1>8 DEF GetDefaultRepo

LEMMA ValidateInv ==
  ASSUME Inv, NEW k \in Commands, Validate(k)
  PROVE  Inv'
<1>1. /\ UNCHANGED <<repo, info, edition, operator, count, excused>> /\ count \in CountType /\ excused \in BOOLEAN
      /\ cmd[k].pc = "write" /\ CommandInv(k)
  BY TypeParts DEF Inv, Validate
<1>2. PICK c \in CmdType : c = cmd[k]
  BY TypeParts DEF Inv
<1>3. Defaults' = Defaults
  BY <1>1 DEF Defaults
<1>4. ~excused => DefaultCmd(k) /\ (~Moves(k) => \E r \in Repos : Defaults = {r})
  BY <1>1, Alone
<1>5. c.kind # "none" /\ c.repo \in Repos /\ (c.kind # "delete" => c.url \in Urls)
  BY <1>1, <1>2 DEF CommandInv
<1>6. PICK pc \in {"failed", "commit"} :
        /\ cmd' = [cmd EXCEPT ![k].pc = pc]
        /\ pc = "commit" /\ Uses(c.repo) => c.kind # "delete" /\ (c.kind = "update" => c.url = repo[c.repo].url)
  BY <1>2 DEF Validate
<1>7. PICK n \in CmdType : /\ n = CmdGoesTo(c, pc)
                           /\ n.pc = pc /\ n.kind = c.kind /\ n.repo = c.repo /\ n.url = c.url
                           /\ (n.default <=> c.default) /\ n.old = c.old
  BY CmdRecords
<1>8. cmd' = [cmd EXCEPT ![k] = n]
  BY <1>2, <1>6, <1>7 DEF CmdGoesTo
<1>9. cmd'[k] = n
  BY <1>8, OneChanges DEF Inv
<1>10. CommandInv(k)'
  BY <1>5, <1>7, <1>9 DEF CommandInv
<1>11. AllowedInv(k)'
  <2>1. c.kind = "add" \/ c.kind = "update" \/ c.kind = "delete"
    BY <1>5 DEF CmdType
  <2>2. QED
    BY <1>1, <1>6, <1>7, <1>9, <2>1 DEF AllowedInv, Uses
<1>12. (Moves(k)' <=> Moves(k)) /\ (~excused => DefaultCmd(k)')
  BY <1>1, <1>2, <1>3, <1>4, <1>7, <1>9 DEF DefaultCmd, Moves
<1>13. QED
  BY <1>1, <1>3, <1>4, <1>8, <1>10, <1>11, <1>12, QuietStep

\* What a write does to the default repositories.
LEMMA DefaultsAfter ==
  ASSUME TypeOK, NEW r \in Repos, NEW w \in RepoType, repo' = [repo EXCEPT ![r] = w]
  PROVE  /\ repo' \in [Repos -> RepoType] /\ repo'[r] = w /\ \A q \in Repos : q # r => repo'[q] = repo[q]
         /\ w.exists /\ w.default => Defaults' = Defaults \union {r}
         /\ ~(w.exists /\ w.default) => Defaults' = Defaults \ {r}
<1>1. repo \in [Repos -> RepoType]
  BY TypeParts
<1>2. repo' \in [Repos -> RepoType] /\ repo'[r] = w /\ \A q \in Repos : q # r => repo'[q] = repo[q]
  BY <1>1
<1>3. w.exists /\ w.default => Defaults' = Defaults \union {r}
  BY <1>2 DEF Defaults
<1>4. ~(w.exists /\ w.default) => Defaults' = Defaults \ {r}
  BY <1>2 DEF Defaults
<1>5. QED
  BY <1>2, <1>3, <1>4

\* A step of a command that writes repository r.
LEMMA WriteStep ==
  ASSUME Inv, NEW k \in Commands, NEW n \in CmdType, NEW r \in Repos, NEW w \in RepoType,
         repo' = [repo EXCEPT ![r] = w], w.exists => w.url \in Urls,
         cmd' = [Outdated(r, k) EXCEPT ![k] = n], cmd[k].pc # "idle", proc' = OutdatedProcs(r),
         UNCHANGED <<info, edition, clients>>, count' \in CountType, count'.editions = count.editions,
         excused' \in BOOLEAN, ~excused \/ excused',
         CommandInv(k)', AllowedInv(k)', ~excused' => DefaultCmd(k)',
         ~excused' /\ ~Moves(k)' => \E q \in Repos : (Defaults = {q})'
  PROVE  Inv'
<1>1. /\ cmd' \in [Commands -> CmdType] /\ cmd'[k] = n
      /\ \A j \in Commands : j # k => Outlasts(cmd[j], cmd'[j])
      /\ \A j \in Commands : j # k => r \notin cmd'[j].fresh
  BY OneChanges DEF Inv
<1>2. ~excused' => \A j \in Commands : j # k => cmd[j].pc = "idle"
  BY Alone
<1>3. DefaultInv'
  BY <1>1, <1>2, SoleCommand
<1>4. repo' \in [Repos -> RepoType] /\ repo'[r] = w /\ \A q \in Repos : q # r => repo'[q] = repo[q]
  BY DefaultsAfter DEF Inv
<1>5. StoreInv'
  BY <1>4 DEF Inv, StoreInv
<1>6. /\ proc' \in [Procs -> ProcType]
      /\ \A c \in Procs : proc'[c].pc = proc[c].pc /\ proc'[c].name = proc[c].name /\ proc'[c].url = proc[c].url
  BY OutdatedProcsFacts DEF Inv
<1>7. \A j \in Commands, q \in Repos : j # k /\ q = cmd[j].repo => repo'[q].url = repo[q].url \/ q \notin cmd'[j].fresh
  BY <1>1, <1>4
<1>8. QED
  BY <1>1, <1>3, <1>4, <1>5, <1>6, <1>7, CommandStep

WithDefault(w, d) == [w EXCEPT !.default = d]

LEMMA DefaultChanges ==
  ASSUME NEW w \in RepoType, NEW d \in BOOLEAN
  PROVE  LET n == WithDefault(w, d)
         IN n \in RepoType /\ (n.exists <=> w.exists) /\ n.url = w.url /\ (n.default <=> d)
  BY DEF WithDefault, RepoType

\* The command ends as it is, and there is a default repository.
LEMMA QuietEnd ==
  ASSUME Inv, NEW k \in Commands, cmd' = [cmd EXCEPT ![k] = NoCmd], cmd[k].pc # "idle",
         UNCHANGED <<repo, info, edition, operator>>, count' \in CountType, count'.editions = count.editions,
         excused' \in BOOLEAN, ~excused \/ excused',
         ~excused' => \E r \in Repos : Defaults = {r}
  PROVE  Inv'
<1>1. NoCmd \in CmdType
  BY NoCmdFacts
<1>2. cmd'[k] = NoCmd
  BY <1>1, OneChanges DEF Inv
<1>3. CommandInv(k)' /\ AllowedInv(k)' /\ DefaultCmd(k)'
  BY <1>2, EndedCommand
<1>4. Defaults' = Defaults
  BY DEF Defaults
<1>5. QED
  BY <1>1, <1>3, <1>4, QuietStep

LEMMA UnsetDefaultInv ==
  ASSUME Inv, NEW k \in Commands, UnsetDefault(k)
  PROVE  Inv'
<1>1. /\ UNCHANGED <<info, edition, clients, excused>> /\ excused \in BOOLEAN
      /\ cmd[k].pc = "unset" /\ CommandInv(k)
      /\ count' \in CountType /\ count'.editions = count.editions
  BY TypeParts, CountFacts DEF Inv, UnsetDefault
<1>2. PICK c \in CmdType : c = cmd[k]
  BY TypeParts DEF Inv
<1>3. PICK o \in Repos \union {None} : o = c.old
  BY DEF CmdType
<1>4. c.kind \in {"add", "update"} /\ c.repo \in Repos /\ c.url \in Urls
  BY <1>1, <1>2 DEF CommandInv, CmdType
<1>5. ~excused => o # c.repo /\ Defaults = {o} /\ \E r \in Repos : Defaults = {r}
  <2>1. ~excused => DefaultCmd(k) /\ (~Moves(k) => \E r \in Repos : Defaults = {r})
    BY <1>1, Alone
  <2>2. ~Moves(k)
    BY <1>1 DEF Moves
  <2>3. QED
    BY <1>1, <1>2, <1>3, <2>1, <2>2 DEF DefaultCmd
<1>6. CASE cmd' = [cmd EXCEPT ![k] = NoCmd] /\ UNCHANGED <<repo, proc>>
  BY <1>1, <1>5, <1>6, QuietEnd DEF operator
<1>7. CASE /\ o \in c.fresh /\ repo[o].exists
           /\ repo' = [repo EXCEPT ![o].default = FALSE]
           /\ cmd' = [Outdated(o, k) EXCEPT ![k].pc = "write", ![k].default = TRUE]
           /\ proc' = OutdatedProcs(o)
  <2>0. o \in Repos /\ o # None
    BY <1>7, Names DEF CmdType
  <2>1. PICK n \in CmdType : /\ n = CmdTakesDefault(c)
                             /\ n.pc = "write" /\ n.kind = c.kind /\ n.repo = c.repo /\ n.url = c.url
                             /\ n.default /\ n.old = c.old
    BY CmdRecords
  <2>2. cmd' = [Outdated(o, k) EXCEPT ![k] = n]
    <3>1. Outdated(o, k)[k] = c /\ Outdated(o, k) \in [Commands -> CmdType]
      BY <1>2, OutdatedFacts DEF Inv
    <3>2. QED
      BY <1>7, <2>1, <3>1 DEF CmdTakesDefault
  <2>3. cmd'[k] = n
    BY <2>2, OneChanges DEF Inv
  <2>4. PICK w \in RepoType : w = repo[o]
    BY <2>0, TypeParts DEF Inv
  <2>5. PICK v \in RepoType : v = WithDefault(w, FALSE) /\ (v.exists <=> w.exists) /\ v.url = w.url /\ ~v.default
    BY DefaultChanges
  <2>6. repo' = [repo EXCEPT ![o] = v]
    BY <1>7, <2>4, <2>5 DEF WithDefault
  <2>7. v.exists => v.url \in Urls
    BY <2>0, <2>4, <2>5 DEF Inv, StoreInv
  <2>8. Defaults' = Defaults \ {o}
    BY <2>0, <2>5, <2>6, DefaultsAfter DEF Inv
  <2>9. CommandInv(k)' /\ AllowedInv(k)'
    BY <1>4, <2>1, <2>3 DEF CommandInv, AllowedInv
  <2>10. Moves(k)' /\ (~excused => DefaultCmd(k)')
    <3>1. Moves(k)'
      BY <1>3, <2>0, <2>1, <2>3 DEF Moves
    <3>2. ~excused => Defaults' = {}
      BY <1>5, <2>8
    <3>3. QED
      BY <1>3, <1>4, <2>0, <2>1, <2>3, <3>1, <3>2 DEF DefaultCmd
  <2>11. QED
    BY <1>1, <2>0, <2>2, <2>6, <2>7, <2>9, <2>10, <1>7, WriteStep
<1>8. QED
  BY <1>2, <1>3, <1>6, <1>7 DEF UnsetDefault

LEMMA RollbackInv ==
  ASSUME Inv, NEW k \in Commands, Rollback(k)
  PROVE  Inv'
<1>1. /\ UNCHANGED <<info, edition, clients>> /\ excused \in BOOLEAN /\ excused' \in BOOLEAN
      /\ excused => excused'
      /\ cmd[k].pc = "failed" /\ CommandInv(k)
      /\ count' \in CountType /\ count'.editions = count.editions
  BY TypeParts, CountFacts DEF Inv, Rollback
<1>2. PICK c \in CmdType : c = cmd[k]
  BY TypeParts DEF Inv
<1>3. PICK o \in Repos \union {None} : o = c.old
  BY DEF CmdType
<1>4. ~excused => DefaultCmd(k) /\ (~Moves(k) => \E r \in Repos : Defaults = {r})
  BY <1>1, Alone
<1>5. CASE /\ cmd' = [cmd EXCEPT ![k] = NoCmd] /\ UNCHANGED <<repo, proc>>
           /\ o = None \/ excused'
  <2>1. o = None => ~Moves(k)
    BY <1>2, <1>3 DEF Moves
  <2>2. QED
    BY <1>1, <1>4, <1>5, <2>1, QuietEnd DEF operator
<1>6. CASE /\ o # None /\ o \in c.fresh /\ repo[o].exists
           /\ repo' = [repo EXCEPT ![o].default = TRUE]
           /\ cmd' = [Outdated(o, k) EXCEPT ![k] = NoCmd]
           /\ proc' = OutdatedProcs(o)
           /\ excused' = excused
  <2>0. o \in Repos
    BY <1>6, Names
  <2>1. NoCmd \in CmdType
    BY NoCmdFacts
  <2>2. cmd'[k] = NoCmd
    BY <1>6, <2>1, OneChanges DEF Inv
  <2>3. CommandInv(k)' /\ AllowedInv(k)' /\ DefaultCmd(k)'
    BY <2>2, EndedCommand
  <2>4. PICK w \in RepoType : w = repo[o]
    BY <2>0, TypeParts DEF Inv
  <2>5. PICK v \in RepoType : v = WithDefault(w, TRUE) /\ (v.exists <=> w.exists) /\ v.url = w.url /\ v.default
    BY DefaultChanges
  <2>6. repo' = [repo EXCEPT ![o] = v]
    BY <1>6, <2>4, <2>5 DEF WithDefault
  <2>7. v.exists /\ v.url \in Urls
    BY <1>6, <2>0, <2>4, <2>5 DEF Inv, StoreInv
  <2>8. Defaults' = Defaults \union {o}
    BY <2>0, <2>5, <2>6, <2>7, DefaultsAfter DEF Inv
  <2>9. Moves(k)
    BY <1>1, <1>2, <1>3, <1>6 DEF Moves
  <2>10. ~excused => Defaults' = {o}
    BY <1>4, <2>8, <2>9 DEF DefaultCmd
  <2>11. QED
    BY <1>1, <1>6, <2>0, <2>1, <2>3, <2>6, <2>7, <2>10, WriteStep
<1>7. QED
  BY <1>2, <1>3, <1>5, <1>6 DEF Rollback

LEMMA WrittenFacts ==
  ASSUME Inv, NEW k \in Commands, cmd[k].pc # "idle"
  PROVE  /\ Written(k) \in RepoType
         /\ Written(k).exists <=> cmd[k].kind # "delete"
         /\ Written(k).exists => Written(k).url \in Urls /\ Written(k).url = cmd[k].url
         /\ Written(k).default <=> cmd[k].kind # "delete" /\ cmd[k].default
<1>1. PICK c \in CmdType : c = cmd[k]
  BY TypeParts DEF Inv
<1>2. PICK r \in Repos : r = c.repo
  BY <1>1 DEF Inv, CommandInv
<1>3. CASE c.kind = "delete"
  <2>1. Written(k) = Absent
    BY <1>1, <1>3 DEF Written
  <2>2. Absent \in RepoType /\ ~Absent.exists /\ ~Absent.default
    BY DEF Absent, RepoType
  <2>3. QED
    BY <1>1, <1>3, <2>1, <2>2
<1>4. CASE c.kind # "delete"
  <2>1. c.url \in Urls /\ c.default \in BOOLEAN
    BY <1>1, <1>4 DEF Inv, CommandInv, CmdType
  <2>2. PICK cond \in {"none", "ready", "failed"} : cond = IF c.kind = "add" THEN "none" ELSE repo[r].cond
    BY TypeParts DEF Inv, RepoType
  <2>3. Written(k) = [exists |-> TRUE, url |-> c.url, default |-> c.default, cond |-> cond]
    BY <1>1, <1>2, <1>4, <2>2 DEF Written
  <2>4. LET w == [exists |-> TRUE, url |-> c.url, default |-> c.default, cond |-> cond]
        IN w \in RepoType /\ w.exists /\ w.url = c.url /\ (w.default <=> c.default)
    BY <2>1 DEF RepoType
  <2>5. QED
    BY <1>1, <1>4, <2>1, <2>3, <2>4
<1>5. QED
  BY <1>3, <1>4

\* Whether the API server accepts the write of a command.
Possible(k) ==
  LET r == cmd[k].repo
  IN CASE cmd[k].kind = "add" -> ~repo[r].exists
       [] cmd[k].kind = "update" -> repo[r].exists /\ r \in cmd[k].fresh
       [] OTHER -> repo[r].exists

Writes(k, r) ==
  /\ Possible(k)
  /\ repo' = [repo EXCEPT ![r] = Written(k)]
  /\ cmd' = [Outdated(r, k) EXCEPT ![k] = NoCmd]
  /\ proc' = OutdatedProcs(r)
  /\ excused' = (excused \/ (cmd[k].kind = "delete" /\ repo[r].default))

LEMMA CommitCases ==
  ASSUME NEW k, Commit(k)
  PROVE  \/ Writes(k, cmd[k].repo)
         \/ cmd' = [cmd EXCEPT ![k].pc = "failed"] /\ UNCHANGED <<repo, proc, excused>>
  BY DEF Commit, Writes, Possible

\* After a command alone has written, there is one default repository.
LEMMA WrittenDefault ==
  ASSUME Inv, NEW k \in Commands, cmd[k].pc = "commit", NEW r \in Repos, r = cmd[k].repo, Writes(k, r), ~excused'
  PROVE  \E q \in Repos : (Defaults = {q})'
<1>1. ~excused /\ ~(cmd[k].kind = "delete" /\ repo[r].default)
  BY DEF Writes
<1>2. DefaultCmd(k) /\ (~Moves(k) => \E q \in Repos : Defaults = {q})
  BY <1>1, Alone
<1>3. PICK w \in RepoType : w = Written(k)
  BY WrittenFacts
<1>4. /\ w.exists <=> cmd[k].kind # "delete"
      /\ w.default <=> cmd[k].kind # "delete" /\ cmd[k].default
  BY <1>3, WrittenFacts
<1>5. /\ w.exists /\ w.default => Defaults' = Defaults \union {r}
      /\ ~(w.exists /\ w.default) => Defaults' = Defaults \ {r}
  BY <1>3, DefaultsAfter DEF Writes, Inv
<1>6. r \in Defaults <=> repo[r].exists /\ repo[r].default
  BY DEF Defaults
<1>7. CASE Moves(k)
  BY <1>2, <1>4, <1>5, <1>7 DEF DefaultCmd
<1>8. CASE ~Moves(k)
  <2>1. cmd[k].old = None
    BY <1>8 DEF Moves
  <2>2. Defaults' = Defaults
    <3>1. CASE cmd[k].kind = "update"
      <4>1. repo[r].exists /\ (cmd[k].default <=> repo[r].default)
        BY <1>2, <2>1, <3>1 DEF DefaultCmd, Writes, Possible
      <4>2. CASE cmd[k].default
        BY <1>4, <1>5, <1>6, <3>1, <4>1, <4>2
      <4>3. CASE ~cmd[k].default
        BY <1>4, <1>5, <1>6, <3>1, <4>1, <4>3
      <4>4. QED
        BY <4>2, <4>3
    <3>2. CASE cmd[k].kind = "add"
      <4>1. ~repo[r].exists /\ ~cmd[k].default
        BY <1>2, <2>1, <3>2 DEF DefaultCmd, Writes, Possible
      <4>2. QED
        BY <1>4, <1>5, <1>6, <3>2, <4>1
    <3>3. CASE cmd[k].kind = "delete"
      BY <1>1, <1>4, <1>5, <1>6, <3>3
    <3>4. cmd[k].kind \in {"add", "update", "delete"}
      <4>1. CommandInv(k) /\ cmd[k] \in CmdType
        BY TypeParts DEF Inv
      <4>2. QED
        BY <4>1 DEF CommandInv, CmdType
    <3>5. QED
      BY <3>1, <3>2, <3>3, <3>4
  <2>3. QED
    BY <1>2, <1>8, <2>2
<1>9. QED
  BY <1>7, <1>8

LEMMA CommitInv ==
  ASSUME Inv, NEW k \in Commands, Commit(k)
  PROVE  Inv'
<1>1. /\ UNCHANGED <<info, edition, clients>> /\ excused \in BOOLEAN
      /\ cmd[k].pc = "commit" /\ CommandInv(k)
      /\ count' \in CountType /\ count'.editions = count.editions
  BY TypeParts, CountFacts DEF Inv, Commit
<1>2. PICK c \in CmdType : c = cmd[k]
  BY TypeParts DEF Inv
<1>3. PICK r \in Repos : r = c.repo
  BY <1>1, <1>2 DEF CommandInv
<1>4. CASE Writes(k, r)
  <2>1. NoCmd \in CmdType
    BY NoCmdFacts
  <2>2. cmd' = [Outdated(r, k) EXCEPT ![k] = NoCmd] /\ proc' = OutdatedProcs(r)
    BY <1>4 DEF Writes
  <2>3. cmd'[k] = NoCmd
    BY <2>1, <2>2, OneChanges DEF Inv
  <2>4. CommandInv(k)' /\ AllowedInv(k)' /\ DefaultCmd(k)'
    BY <2>3, EndedCommand
  <2>5. PICK w \in RepoType : w = Written(k) /\ (w.exists => w.url \in Urls)
    BY <1>1, WrittenFacts
  <2>6. repo' = [repo EXCEPT ![r] = w]
    BY <1>4, <2>5 DEF Writes
  <2>7. excused' \in BOOLEAN /\ (~excused \/ excused')
    BY <1>1, <1>4 DEF Writes
  <2>8. ~excused' => \E q \in Repos : (Defaults = {q})'
    BY <1>1, <1>2, <1>3, <1>4, WrittenDefault
  <2>9. QED
    BY <1>1, <2>1, <2>2, <2>4, <2>5, <2>6, <2>7, <2>8, WriteStep
<1>5. CASE cmd' = [cmd EXCEPT ![k].pc = "failed"] /\ UNCHANGED <<repo, proc, excused>>
  <2>1. PICK n \in CmdType : /\ n = CmdGoesTo(c, "failed")
                             /\ n.pc = "failed" /\ n.kind = c.kind /\ n.repo = c.repo /\ n.url = c.url
                             /\ (n.default <=> c.default) /\ n.old = c.old
    BY CmdRecords
  <2>2. cmd' = [cmd EXCEPT ![k] = n]
    BY <1>2, <1>5, <2>1 DEF CmdGoesTo
  <2>3. cmd'[k] = n
    BY <2>2, OneChanges DEF Inv
  <2>4. CommandInv(k)' /\ AllowedInv(k)'
    BY <1>1, <1>2, <2>1, <2>3 DEF CommandInv, AllowedInv
  <2>5. Defaults' = Defaults
    BY <1>5 DEF Defaults
  <2>6. ~excused => DefaultCmd(k) /\ (~Moves(k) => \E q \in Repos : Defaults = {q})
    BY <1>1, Alone
  <2>7. (Moves(k)' <=> Moves(k)) /\ (~excused => DefaultCmd(k)')
    BY <1>1, <1>2, <1>5, <2>1, <2>3, <2>5, <2>6 DEF DefaultCmd, Moves
  <2>8. QED
    BY <1>1, <1>5, <2>2, <2>4, <2>5, <2>6, <2>7, QuietStep DEF operator
<1>6. QED
  BY <1>2, <1>3, <1>4, <1>5, CommitCases

-----------------------------------------------------------------------------
(* The theorems.                                                           *)

LEMMA InitInv == Init => Inv
<1> SUFFICES ASSUME Init
             PROVE  Inv
  OBVIOUS
<1>1. PICK i \in Repos, v \in Urls : Initial = <<i, v>>
  BY RepositoriesAssumption
<1>2. PICK first \in RepoType : /\ first = [exists |-> TRUE, url |-> v, default |-> TRUE, cond |-> "ready"]
                                /\ first.exists /\ first.default /\ first.url = v
  <2> DEFINE f == [exists |-> TRUE, url |-> v, default |-> TRUE, cond |-> "ready"]
  <2>1. f \in RepoType /\ f.exists /\ f.default /\ f.url = v
    BY DEF RepoType
  <2> HIDE DEF f
  <2>2. \E g \in RepoType : g = f /\ g.exists /\ g.default /\ g.url = v
    BY <2>1
  <2>3. QED
    BY <2>2 DEF f
<1>3. Absent \in RepoType /\ ~Absent.exists /\ ~Absent.default
  BY DEF Absent, RepoType
<1>4. repo = [r \in Repos |-> IF r = i THEN first ELSE Absent]
  BY <1>1, <1>2 DEF Init
<1>5. repo \in [Repos -> RepoType] /\ StoreInv /\ Defaults = {i}
  BY <1>2, <1>3, <1>4 DEF StoreInv, Defaults
<1>6. cmd \in [Commands -> CmdType] /\ \A k \in Commands : cmd[k] = NoCmd
  BY NoCmdFacts DEF Init
<1>7. proc \in [Procs -> ProcType] /\ \A c \in Procs : proc[c] = Idle
  BY IdleType DEF Init
<1>8. info \in InfoType /\ edition \in [Urls -> 0..MaxEditions] /\ clients \in [Repos -> Clients]
  BY Names DEF Init, NoInfo, InfoType, Data, Clients
<1>9. count \in CountType /\ excused \in BOOLEAN /\ ~excused /\ EditionInv
  <2>1. count \in CountType /\ count.editions = 0
    BY Names DEF Init, CountType
  <2>2. \A u \in Urls : edition[u] = 0
    BY DEF Init
  <2>3. EditionInv
    BY <2>1, <2>2 DEF EditionInv
  <2>4. excused = FALSE
    BY DEF Init
  <2>5. QED
    BY <2>1, <2>3, <2>4
<1>10. TypeOK
  BY <1>5, <1>6, <1>7, <1>8, <1>9 DEF TypeOK, RepoType, InfoType, ProcType, CmdType, CountType
<1>11. \A c \in Procs : ProcInv(c)
  BY <1>7, IdleType DEF ProcInv
<1>12. \A k \in Commands : CommandInv(k) /\ AllowedInv(k) /\ ~Moves(k) /\ DefaultCmd(k)
  BY <1>6, NoCmdFacts DEF CommandInv, AllowedInv, Moves, DefaultCmd
<1>13. DefaultInv
  BY <1>5, <1>6, <1>12, NoCmdFacts DEF DefaultInv
<1>14. QED
  BY <1>5, <1>9, <1>10, <1>11, <1>12, <1>13 DEF Inv

LEMMA StutterInv ==
  ASSUME Inv, UNCHANGED vars
  PROVE  Inv'
<1>1. UNCHANGED api /\ clients' = clients /\ proc' = proc /\ count' = count
  BY DEF vars, api
<1>2. \A c \in Procs : ProcInv(c)'
  BY <1>1, ProcsStay DEF Inv
<1>3. QED
  BY <1>1, <1>2, TypeParts, ClientStep DEF Inv

LEMMA NextInv ==
  ASSUME Inv, [Next]_vars
  PROVE  Inv'
<1>1. ASSUME NEW k \in Commands, Command(k) \/ Interrupt(k)
      PROVE  Inv'
  BY <1>1, GetDefaultRepoInv, UnsetDefaultInv, ValidateInv, CommitInv, RollbackInv, InterruptInv DEF Command
<1>2. ASSUME NEW k \in Commands, NEW r \in Repos,
             \/ StartDelete(k, r)
             \/ \E u \in Urls, d \in BOOLEAN, kind \in {"add", "update"} : StartCommand(k, kind, r, u, d)
      PROVE  Inv'
  BY <1>2, StartInv
<1>3. ASSUME NEW c \in Procs, Client(c)
      PROVE  Inv'
  BY <1>3, LookupInv, GetRepositoryInv, ForRepoInv, UpdateRepoInv, FetchInv, ControllerInv, InfoStepsInv DEF Client
<1>4. ASSUME NEW r \in Repos, BeginRepo(r)
      PROVE  Inv'
  BY <1>4, ControllerInv
<1>5. CASE BeginInfo \/ DeleteInfo \/ InfoExpires \/ Restart
  BY <1>5, ControllerInv, InfoStepsInv
<1>6. ASSUME NEW name \in Repos \union {Unnamed}, CreateInfo(name)
      PROVE  Inv'
  BY <1>6, CreateInfoInv
<1>7. ASSUME NEW u \in Urls, Publish(u)
      PROVE  Inv'
  BY <1>7, PublishInv
<1>8. CASE UNCHANGED vars
  BY <1>8, StutterInv
<1>9. QED
  BY <1>1, <1>2, <1>3, <1>4, <1>5, <1>6, <1>7, <1>8 DEF Next

LEMMA Invariance == Spec => []Inv
<1>1. Inv /\ [Next]_vars => Inv'
  BY NextInv
<1>2. QED
  BY <1>1, InitInv, PTL DEF Spec

\* There is one default repository whenever no command is at work, unless it was
\* deleted, or two commands at once, an interrupted one or a failing rollback
\* lost it: GetDefaultRepo and the two writes of repo add, repo update and the form
\* of the web interface, with the rollback of the first when the second is refused,
\* leave exactly one behind.
THEOREM OneDefaultRepository == Spec => []RepositoryInv
<1>1. ASSUME Inv
      PROVE  RepositoryInv
  <2>1. ASSUME ~excused, \A k \in Commands : cmd[k].pc = "idle"
        PROVE  Cardinality(Defaults) = 1
    <3>1. \A k \in Commands : ~Moves(k)
      BY <1>1, <2>1 DEF Inv, CommandInv, Moves
    <3>2. PICK r \in Repos : Defaults = {r}
      BY <1>1, <2>1, <3>1 DEF Inv, DefaultInv
    <3>3. QED
      BY <3>2, FS_Singleton
  <2>2. QED
    BY <1>1, <2>1 DEF Inv, RepositoryInv, OneDefault
<1>2. QED
  BY <1>1, Invariance, PTL

\* What the webhook protects, in one step: r is in use, and no install was late.
Protected(r) == repo[r].exists /\ Uses(r) /\ ~info.late

Kept(r) == repo'[r].exists /\ repo'[r].url = repo[r].url

\* A write that changes one field of a repository other than its URL keeps it.
LEMMA FieldKept ==
  ASSUME TypeOK, NEW r \in Repos, repo[r].exists, NEW o \in Repos,
         \/ \E d \in BOOLEAN : repo' = [repo EXCEPT ![o].default = d]
         \/ \E cond \in {"ready", "failed"} : repo' = [repo EXCEPT ![o].cond = cond]
  PROVE  Kept(r)
<1>1. PICK w \in RepoType : w = repo[r]
  BY TypeParts
<1>2. \A d \in BOOLEAN, cond \in {"ready", "failed"} :
        /\ [w EXCEPT !.default = d].exists = w.exists /\ [w EXCEPT !.default = d].url = w.url
        /\ [w EXCEPT !.cond = cond].exists = w.exists /\ [w EXCEPT !.cond = cond].url = w.url
  BY DEF RepoType
<1>3. repo \in [Repos -> RepoType]
  BY TypeParts
<1>4. CASE r # o
  BY <1>3, <1>4 DEF Kept
<1>5. CASE r = o
  <2>1. \/ \E d \in BOOLEAN : repo'[r] = [w EXCEPT !.default = d]
        \/ \E cond \in {"ready", "failed"} : repo'[r] = [w EXCEPT !.cond = cond]
    BY <1>1, <1>3, <1>5
  <2>2. QED
    BY <1>1, <1>2, <2>1 DEF Kept
<1>6. QED
  BY <1>4, <1>5

LEMMA CommitKeeps ==
  ASSUME Inv, NEW k \in Commands, Commit(k), NEW r \in Repos, Protected(r)
  PROVE  Kept(r)
<1>1. cmd[k].pc = "commit" /\ CommandInv(k) /\ AllowedInv(k)
  BY DEF Inv, Commit
<1>2. PICK q \in Repos : q = cmd[k].repo
  BY <1>1 DEF CommandInv
<1>3. CASE UNCHANGED repo
  BY <1>3 DEF Kept, Protected
<1>4. CASE Writes(k, q)
  <2>1. PICK w \in RepoType : /\ w = Written(k) /\ (w.exists <=> cmd[k].kind # "delete")
                              /\ w.exists => w.url = cmd[k].url
    BY <1>1, WrittenFacts
  <2>2. repo'[q] = w /\ \A p \in Repos : p # q => repo'[p] = repo[p]
    BY <1>4, <2>1, DefaultsAfter DEF Writes, Inv
  <2>3. CASE q = r
    <3>1. cmd[k].kind = "update" /\ cmd[k].url = repo[r].url
      BY <1>1, <1>2, <1>4, <2>3 DEF AllowedInv, Protected, Writes, Possible
    <3>2. QED
      BY <2>1, <2>2, <2>3, <3>1 DEF Kept
  <2>4. CASE q # r
    BY <2>2, <2>4 DEF Kept, Protected
  <2>5. QED
    BY <2>3, <2>4
<1>5. QED
  BY <1>2, <1>3, <1>4, CommitCases

LEMMA StepKeeps ==
  ASSUME Inv, [Next]_vars, NEW r \in Repos, Protected(r)
  PROVE  Kept(r)
<1>1. CASE UNCHANGED repo
  BY <1>1 DEF Kept, Protected
<1>2. ASSUME NEW k \in Commands, UnsetDefault(k) \/ Rollback(k)
      PROVE  Kept(r)
  <2>1. PICK c \in CmdType : c = cmd[k]
    BY TypeParts DEF Inv
  <2>2. PICK o \in Repos \union {None} : o = c.old
    BY DEF CmdType
  <2>3. \/ UNCHANGED repo
        \/ o \in c.fresh /\ \E d \in BOOLEAN : repo' = [repo EXCEPT ![o].default = d]
    BY <1>2, <2>1, <2>2 DEF UnsetDefault, Rollback
  <2>4. c.fresh \subseteq Repos
    BY DEF CmdType
  <2>5. QED
    BY <1>1, <2>3, <2>4, FieldKept DEF Inv, Protected
<1>3. ASSUME UpdateRepo
      PROVE  Kept(r)
  <2>1. ProcInv(RepoController) /\ proc[RepoController].pc = "fetch"
    BY <1>3, Names DEF Inv, UpdateRepo
  <2>2. PICK o \in Repos : o = proc[RepoController].name
    BY <2>1 DEF ProcInv
  <2>3. UNCHANGED repo \/ \E cond \in {"ready", "failed"} : repo' = [repo EXCEPT ![o].cond = cond]
    BY <1>3, <2>2 DEF UpdateRepo
  <2>4. QED
    BY <1>1, <2>3, FieldKept DEF Inv, Protected
<1>4. ASSUME NEW k \in Commands, Command(k) \/ Interrupt(k)
      PROVE  Kept(r)
  <2>1. GetDefaultRepo(k) \/ Validate(k) \/ Interrupt(k) => UNCHANGED repo
    BY DEF GetDefaultRepo, Validate, Interrupt
  <2>2. QED
    BY <1>1, <1>2, <1>4, <2>1, CommitKeeps DEF Command
<1>5. ASSUME NEW k \in Commands, NEW q \in Repos,
             \/ StartDelete(k, q)
             \/ \E u \in Urls, d \in BOOLEAN, kind \in {"add", "update"} : StartCommand(k, kind, q, u, d)
      PROVE  Kept(r)
  BY <1>1, <1>5 DEF StartDelete, StartCommand
<1>6. ASSUME NEW c \in Procs, Client(c)
      PROVE  Kept(r)
  <2>1. LookupRecent(c) \/ LookupExpired(c) \/ GetRepository(c) \/ ForRepo(c) => UNCHANGED repo
    BY DEF LookupRecent, LookupExpired, GetRepository, ForRepo, api
  <2>2. FetchError \/ FetchCached \/ FetchServed \/ CheckLatest \/ UpdateInfo => UNCHANGED repo
    BY DEF FetchError, FetchCached, FetchServed, CheckLatest, UpdateInfo, api
  <2>3. QED
    BY <1>1, <1>3, <1>6, <2>1, <2>2 DEF Client
<1>7. ASSUME \/ \E q \in Repos : BeginRepo(q)
             \/ BeginInfo \/ DeleteInfo \/ InfoExpires \/ Restart
             \/ \E name \in Repos \union {Unnamed} : CreateInfo(name)
             \/ \E u \in Urls : Publish(u)
             \/ UNCHANGED vars
      PROVE  Kept(r)
  BY <1>1, <1>7 DEF BeginRepo, BeginInfo, DeleteInfo, InfoExpires, Restart, CreateInfo, Publish, api, vars
<1>8. QED
  BY <1>4, <1>5, <1>6, <1>7 DEF Next

\* A repository from which a package is installed keeps its URL and is not
\* deleted, by whichever command or form and with however many at once, unless the
\* package came between the webhook's look at the PackageInfos and the write.
THEOREM UsedRepositoryKept == Spec => InstalledKeepsRepo
<1>1. ASSUME Inv, [Next]_vars
      PROVE  [\A r \in Repos :
                repo[r].exists /\ Uses(r) /\ ~info.late => repo'[r].exists /\ repo'[r].url = repo[r].url]_vars
  BY <1>1, StepKeeps DEF Protected, Kept
<1>2. QED
  BY <1>1, Invariance, PTL DEF Spec, InstalledKeepsRepo

=============================================================================
