------------------------ MODULE PackageClientsProofs ------------------------
(***************************************************************************)
(* Proofs about PackageClients: that commands and requests which send      *)
(* whole copies of packages revert nothing and downgrade nothing, and that *)
(* the success of a blocking command was observed.                         *)
(***************************************************************************)
EXTENDS PackageClients, FiniteSetTheorems, TLAPS

\* A resource version is given out once per package, and only to objects.
VersionsInv ==
  \A p \in Packages :
    /\ obj[p].rv <= writes[p] /\ store[p].rv <= writes[p]
    /\ obj[p].rv = 0 => obj[p] = NoObject
    /\ store[p].rv = 0 => store[p] = NoObject

\* The commands that send back the whole package.
Updating == {"update", "autoUpdate", "enable", "configure", "suspend", "webConfigure", "webSuspend"}

\* The commands that may wait for the outcome of what they write.
Blocking == {"install", "uninstall", "update", "autoUpdate"}

\* A copy with the fields that a command has changed, of the object it read.
CopyOf(cmd, o, read) ==
  /\ o.version = read.version \/ "version" \in Fields(cmd)
  /\ o.values = read.values \/ "values" \in Fields(cmd)
  /\ (o.auto <=> read.auto) \/ "auto" \in Fields(cmd)
  /\ (o.suspend <=> read.suspend) \/ "suspend" \in Fields(cmd)
  /\ cmd \in {"update", "autoUpdate"} => o.version >= read.version

\* An item that a command is about to write is older than any later write; while the
\* object is still the one that was read, the item differs where the command changed it.
ItemInv(cmd, item) ==
  LET p == item.pkg
  IN /\ item.o.rv <= writes[p]
     /\ cmd \in Updating /\ Exists(p) /\ obj[p].rv = item.o.rv => CopyOf(cmd, item.o, obj[p])

\* The items of a command are different packages.  It has written the one it waits
\* for and none of those that follow, and has seen the goal of those that went before.
Shape(cl) ==
  /\ cl.pc = "idle" => cl.items = <<>>
  /\ cl.pc # "idle" => cl.items # <<>> /\ cl.result = "none" /\ cl.cmd # "none"
  /\ cl.pc # "await" => cl.watch = "none"
  /\ cl.pc \in {"watch", "await"} => cl.cmd \in Blocking
  /\ cl.cmd \in {"install", "uninstall"} => Len(cl.items) <= 1
  /\ \A i, j \in 1..Len(cl.items) : cl.items[i].pkg = cl.items[j].pkg => i = j
  /\ \A i \in 1..Len(cl.items) :
       cl.items[i].pkg \in cl.wrote <=> i = 1 /\ cl.pc \in {"watch", "await"}
  /\ cl.cmd \in Blocking => \A t \in cl.targets : t \in cl.reached \/ \E i \in 1..Len(cl.items) : cl.items[i].pkg = t

\* Whatever a watch has to tell that would end the wait was seen to be so.
AwaitInv(cl) ==
  cl.pc = "await" =>
    \/ Target(cl) \in cl.reached
    \/ /\ ~Goal(cl, Head(cl.items), obj[Target(cl)])
       /\ \A i \in 1..Len(cl.events) : Outcome(cl, cl.events[i]) # "ok"

ClientInv(cl) ==
  /\ Shape(cl)
  /\ \A i \in 1..Len(cl.items) : ItemInv(cl.cmd, cl.items[i])
  /\ AwaitInv(cl)

Inv ==
  /\ TypeOK
  /\ VersionsInv
  /\ StoreDiffersInAnnotations
  /\ \A c \in Clients : ClientInv(client[c])

-----------------------------------------------------------------------------
(* Types.                                                                  *)

ClientType ==
  [run : Nat, cmd : Commands \union Requests \union {"none"},
   pc : {"idle", "prepared", "namespace", "write", "watch", "await"},
   dry : BOOLEAN, wait : BOOLEAN, items : Seq(Item), createNs : BOOLEAN,
   watch : {"none", "open", "closed"}, events : Seq(Event), err : BOOLEAN,
   targets : SUBSET Packages, wrote : SUBSET Packages, reached : SUBSET Packages,
   result : {"none", "ok", "error"}]

LEMMA TypeParts ==
  ASSUME TypeOK
  PROVE  /\ obj \in [Packages -> Package] /\ store \in [Packages -> Package] /\ ns \in BOOLEAN
         /\ writes \in [Packages -> Nat] /\ updates \in 0..MaxEvents /\ client \in [Clients -> ClientType]
  BY DEF TypeOK, ClientType

LEMMA TypeStays ==
  ASSUME obj' \in [Packages -> Package], store' \in [Packages -> Package], ns' \in BOOLEAN,
         writes' \in [Packages -> Nat], updates' \in 0..MaxEvents, client' \in [Clients -> ClientType]
  PROVE  TypeOK'
  BY DEF TypeOK, ClientType

LEMMA NoObjectFacts ==
  /\ NoObject \in Package /\ NoObject.rv = 0 /\ NoObject.uid = 0 /\ NoObject.version = 0
  /\ NoObject.values = 0 /\ ~NoObject.auto /\ ~NoObject.suspend
  BY ClientsAssumption DEF NoObject, Package

LEMMA BuildFacts ==
  ASSUME NEW option \in Options
  PROVE  Build(option) \in Package /\ Build(option).rv = 0
<1>1. PICK v \in 1..Latest, w \in {0, 1}, a \in BOOLEAN : option.version = v /\ option.values = w /\ option.auto = a
  BY ClientsAssumption
<1>2. v \in 0..Latest
  BY ClientsAssumption
<1>3. LET n == [NoObject EXCEPT !.version = v, !.values = w, !.auto = a]
      IN n \in Package /\ n.rv = 0
  BY <1>2, NoObjectFacts DEF Package
<1>4. QED
  BY <1>1, <1>3 DEF Build

\* A package equals another one if all fields do.
LEMMA PackageFields ==
  ASSUME NEW o \in Package, NEW b \in Package,
         o.uid = b.uid, o.rv = b.rv, o.version = b.version, o.values = b.values, o.auto <=> b.auto,
         o.suspend <=> b.suspend, o.deleting <=> b.deleting, o.status = b.status, o.ready = b.ready
  PROVE  o = b
<1>1. o = [uid |-> o.uid, rv |-> o.rv, version |-> o.version, values |-> o.values, auto |-> o.auto,
           suspend |-> o.suspend, deleting |-> o.deleting, status |-> o.status, ready |-> o.ready]
  BY DEF Package
<1>2. b = [uid |-> b.uid, rv |-> b.rv, version |-> b.version, values |-> b.values, auto |-> b.auto,
           suspend |-> b.suspend, deleting |-> b.deleting, status |-> b.status, ready |-> b.ready]
  BY DEF Package
<1>3. o.auto = b.auto /\ o.suspend = b.suspend /\ o.deleting = b.deleting
  BY DEF Package
<1>4. QED
  BY <1>1, <1>2, <1>3

\* The copies of a package that commands make of it.
CopyVersion(o, v) == [o EXCEPT !.version = v]

CopyValues(o, v) == [o EXCEPT !.values = v]

CopyAuto(o, b) == [o EXCEPT !.auto = b]

CopySuspend(o, b) == [o EXCEPT !.suspend = b]

CopyForm(o, v, w, b) == [o EXCEPT !.version = v, !.values = w, !.auto = b]

CopyStored(o, n) == [o EXCEPT !.rv = n]

LEMMA CopyVersionFacts ==
  ASSUME NEW o \in Package, NEW v \in 0..Latest
  PROVE  LET n == CopyVersion(o, v)
         IN /\ n \in Package /\ n.uid = o.uid /\ n.rv = o.rv /\ n.version = v /\ n.values = o.values
            /\ (n.auto <=> o.auto) /\ (n.suspend <=> o.suspend)
  BY DEF CopyVersion, Package

LEMMA CopyValuesFacts ==
  ASSUME NEW o \in Package, NEW v \in {0, 1}
  PROVE  LET n == CopyValues(o, v)
         IN /\ n \in Package /\ n.uid = o.uid /\ n.rv = o.rv /\ n.version = o.version /\ n.values = v
            /\ (n.auto <=> o.auto) /\ (n.suspend <=> o.suspend)
  BY DEF CopyValues, Package

LEMMA CopyAutoFacts ==
  ASSUME NEW o \in Package, NEW b \in BOOLEAN
  PROVE  LET n == CopyAuto(o, b)
         IN /\ n \in Package /\ n.uid = o.uid /\ n.rv = o.rv /\ n.version = o.version /\ n.values = o.values
            /\ (n.auto <=> b) /\ (n.suspend <=> o.suspend) /\ (n.deleting <=> o.deleting)
            /\ n.status = o.status /\ n.ready = o.ready
  BY DEF CopyAuto, Package

LEMMA CopySuspendFacts ==
  ASSUME NEW o \in Package, NEW b \in BOOLEAN
  PROVE  LET n == CopySuspend(o, b)
         IN /\ n \in Package /\ n.uid = o.uid /\ n.rv = o.rv /\ n.version = o.version /\ n.values = o.values
            /\ (n.auto <=> o.auto) /\ (n.suspend <=> b)
  BY DEF CopySuspend, Package

LEMMA CopyFormFacts ==
  ASSUME NEW o \in Package, NEW v \in 0..Latest, NEW w \in {0, 1}, NEW b \in BOOLEAN
  PROVE  LET n == CopyForm(o, v, w, b)
         IN /\ n \in Package /\ n.uid = o.uid /\ n.rv = o.rv /\ n.version = v /\ n.values = w
            /\ (n.auto <=> b) /\ (n.suspend <=> o.suspend)
  BY DEF CopyForm, Package

LEMMA CopyStoredFacts ==
  ASSUME NEW o \in Package, NEW r \in Nat
  PROVE  LET n == CopyStored(o, r)
         IN /\ n \in Package /\ n.uid = o.uid /\ n.rv = r /\ n.version = o.version /\ n.values = o.values
            /\ (n.auto <=> o.auto) /\ (n.suspend <=> o.suspend) /\ (n.deleting <=> o.deleting)
            /\ n.status = o.status /\ n.ready = o.ready
  BY DEF CopyStored, Package

-----------------------------------------------------------------------------
(* The API server gives a new resource version to everything it stores.    *)

ObjectsMove ==
  \A p \in Packages :
    /\ writes'[p] >= writes[p] /\ obj'[p].rv <= writes'[p]
    /\ obj'[p].rv = 0 => obj'[p] = NoObject
    /\ obj'[p] = obj[p] \/ obj'[p] = NoObject \/ obj'[p].rv > writes[p]

LEMMA ItemStays ==
  ASSUME TypeOK, ObjectsMove, writes' \in [Packages -> Nat], obj' \in [Packages -> Package],
         NEW cmd, NEW item \in Item, ItemInv(cmd, item)
  PROVE  ItemInv(cmd, item)'
<1>1. PICK p \in Packages : p = item.pkg
  BY DEF Item
<1>2. PICK r \in Nat : r = item.o.rv
  BY DEF Item, Package
<1>3. /\ r <= writes[p] /\ writes[p] \in Nat /\ writes'[p] \in Nat /\ writes'[p] >= writes[p]
      /\ cmd \in Updating /\ Exists(p) /\ obj[p].rv = r => CopyOf(cmd, item.o, obj[p])
  BY <1>1, <1>2, TypeParts DEF ItemInv, ObjectsMove
<1>4. r <= writes'[p]
  BY <1>3
<1>5. ASSUME cmd \in Updating, obj'[p] # NoObject, obj'[p].rv = r
      PROVE  CopyOf(cmd, item.o, obj'[p])
  <2>1. obj'[p].rv > writes[p] => FALSE
    BY <1>3, <1>5
  <2>2. obj'[p] = obj[p]
    BY <1>5, <2>1 DEF ObjectsMove
  <2>3. QED
    BY <1>3, <1>5, <2>2 DEF Exists
<1>6. QED
  BY <1>1, <1>2, <1>4, <1>5 DEF ItemInv, Exists

LEMMA StoreStays ==
  ASSUME TypeOK, VersionsInv, StoreDiffersInAnnotations, ObjectsMove, store' = store,
         writes' \in [Packages -> Nat], obj' \in [Packages -> Package]
  PROVE  VersionsInv' /\ StoreDiffersInAnnotations'
<1>1. \A p \in Packages : store[p] \in Package /\ writes[p] \in Nat /\ writes'[p] \in Nat /\ store[p].rv \in Nat
  BY TypeParts DEF Package
<1>2. VersionsInv'
  BY <1>1 DEF VersionsInv, ObjectsMove
<1>3. ASSUME NEW p \in Packages, store[p].rv = obj'[p].rv
      PROVE  [store[p] EXCEPT !.auto = obj'[p].auto] = obj'[p]
  <2>1. CASE obj'[p] = obj[p]
    BY <1>3, <2>1 DEF StoreDiffersInAnnotations
  <2>2. CASE obj'[p] = NoObject
    <3>1. store[p] = NoObject
      BY <1>3, <2>2, NoObjectFacts DEF VersionsInv
    <3>2. [NoObject EXCEPT !.auto = NoObject.auto] = NoObject
      BY DEF NoObject
    <3>3. QED
      BY <2>2, <3>1, <3>2
  <2>3. CASE obj'[p].rv > writes[p]
    <3>1. store[p].rv <= writes[p]
      BY DEF VersionsInv
    <3>2. QED
      BY <1>1, <1>3, <2>3, <3>1
  <2>4. QED
    BY <2>1, <2>2, <2>3 DEF ObjectsMove
<1>4. QED
  BY <1>2, <1>3 DEF StoreDiffersInAnnotations

\* A step of one client that leaves the packages alone.
LEMMA OneClient ==
  ASSUME Inv, NEW c \in Clients, NEW n \in ClientType, client' = With(c, n), UNCHANGED <<obj, writes, updates>>,
         ns' \in BOOLEAN, ClientInv(n),
         store' \in [Packages -> Package], VersionsInv', StoreDiffersInAnnotations'
  PROVE  Inv'
<1>1. client' \in [Clients -> ClientType] /\ client'[c] = n /\ \A d \in Clients : d # c => client'[d] = client[d]
  BY TypeParts DEF Inv, With
<1>2. TypeOK'
  BY <1>1, TypeParts, TypeStays DEF Inv
<1>3. ASSUME NEW cl, ClientInv(cl)
      PROVE  ClientInv(cl)'
  <2>1. \A i \in 1..Len(cl.items) : ItemInv(cl.cmd, cl.items[i])'
    BY <1>3 DEF ClientInv, ItemInv, Exists
  <2>2. AwaitInv(cl)'
    BY <1>3 DEF ClientInv, AwaitInv
  <2>3. QED
    BY <1>3, <2>1, <2>2 DEF ClientInv
<1>4. ASSUME NEW d \in Clients
      PROVE  ClientInv(client[d])'
  <2>1. PICK cl \in ClientType : cl = client'[d]
    BY <1>1
  <2>2. ClientInv(cl)
    BY <1>1, <2>1 DEF Inv
  <2>3. QED
    BY <1>3, <2>1, <2>2
<1>5. QED
  BY <1>2, <1>4 DEF Inv

LEMMA StoreSame ==
  ASSUME Inv, UNCHANGED <<obj, store, writes>>
  PROVE  store' \in [Packages -> Package] /\ VersionsInv' /\ StoreDiffersInAnnotations'
  BY TypeParts DEF Inv, VersionsInv, StoreDiffersInAnnotations

LEMMA LocalStep ==
  ASSUME Inv, NEW c \in Clients, NEW n \in ClientType, Local(c, n), UNCHANGED store, ClientInv(n)
  PROVE  Inv'
<1>1. client' = With(c, n) /\ UNCHANGED <<obj, ns, writes, updates>>
  BY DEF Local
<1>2. ns' \in BOOLEAN
  BY <1>1, TypeParts DEF Inv
<1>3. QED
  BY <1>1, <1>2, StoreSame, OneClient

-----------------------------------------------------------------------------
(* A command begins and ends.                                              *)

LEMMA IdleFacts ==
  ASSUME NEW run \in Nat, NEW result \in {"none", "ok", "error"}
  PROVE  LET n == Idle(run, result)
         IN /\ n \in ClientType /\ ClientInv(n)
            /\ n.pc = "idle" /\ n.items = <<>> /\ n.result = result /\ n.events = <<>> /\ n.watch = "none"
            /\ n.targets = {} /\ n.wrote = {} /\ n.reached = {}
<1> DEFINE n == Idle(run, result)
<1>1. /\ n \in ClientType
      /\ n.pc = "idle" /\ n.items = <<>> /\ n.result = result /\ n.events = <<>> /\ n.watch = "none"
      /\ n.targets = {} /\ n.wrote = {} /\ n.reached = {} /\ n.cmd = "none"
  BY DEF Idle, ClientType
<1> HIDE DEF n
<1>2. Len(n.items) = 0
  BY <1>1
<1>3. ClientInv(n)
  BY <1>1, <1>2 DEF ClientInv, Shape, AwaitInv, Blocking
<1>4. QED
  BY <1>1, <1>3 DEF n

LEMMA EndFacts ==
  ASSUME NEW cl \in ClientType, NEW result \in {"none", "ok", "error"}
  PROVE  LET n == End(cl, result)
         IN /\ n \in ClientType /\ ClientInv(n)
            /\ n.pc = "idle" /\ n.items = <<>>
            /\ n.result = result \/ n.result = "none"
<1>1. PICK r \in {"none", "ok", "error"} : r = (IF cl.cmd \in Requests THEN "none" ELSE result)
  OBVIOUS
<1>2. PICK run \in Nat : run = cl.run
  BY DEF ClientType
<1>3. End(cl, result) = Idle(run, r) /\ (r = result \/ r = "none")
  BY <1>1, <1>2 DEF End
<1>4. QED
  BY <1>3, IdleFacts

\* The record of a command that begins.
Begun(run, cmd, pc, items, dry, wait, createNs, targets) ==
  [Idle(run, "none") EXCEPT !.cmd = cmd, !.pc = pc, !.items = items, !.dry = dry,
                            !.wait = wait, !.createNs = createNs, !.targets = targets]

LEMMA BegunFacts ==
  ASSUME NEW run \in Nat, NEW cmd \in Commands \union Requests, NEW pc \in {"prepared", "write"},
         NEW items \in Seq(Item), NEW dry \in BOOLEAN, NEW wait \in BOOLEAN, NEW createNs \in BOOLEAN,
         NEW targets \in SUBSET Packages
  PROVE  LET n == Begun(run, cmd, pc, items, dry, wait, createNs, targets)
         IN /\ n \in ClientType
            /\ n.cmd = cmd /\ n.pc = pc /\ n.items = items /\ n.watch = "none" /\ n.result = "none"
            /\ n.targets = targets /\ n.wrote = {} /\ n.reached = {}
<1>1. Idle(run, "none") \in ClientType
  BY IdleFacts
<1>2. Idle(run, "none").watch = "none" /\ Idle(run, "none").result = "none"
      /\ Idle(run, "none").wrote = {} /\ Idle(run, "none").reached = {}
  BY DEF Idle
<1>3. PICK i \in ClientType : i = Idle(run, "none") /\ i.watch = "none" /\ i.result = "none" /\ i.wrote = {} /\ i.reached = {}
  BY <1>1, <1>2
<1> DEFINE n == [i EXCEPT !.cmd = cmd, !.pc = pc, !.items = items, !.dry = dry,
                          !.wait = wait, !.createNs = createNs, !.targets = targets]
<1>4. n \in ClientType
  <2>1. cmd \in Commands \union Requests \union {"none"}
    OBVIOUS
  <2>2. QED
    BY <2>1 DEF ClientType
<1>5. /\ n.cmd = cmd /\ n.pc = pc /\ n.items = items /\ n.watch = "none" /\ n.result = "none"
      /\ n.targets = targets /\ n.wrote = {} /\ n.reached = {}
  BY <1>3 DEF ClientType
<1>6. QED
  BY <1>3, <1>4, <1>5 DEF Begun

\* The items with which a command may begin.
Startable(cmd, items) ==
  /\ items \in Seq(Item) /\ items # <<>>
  /\ cmd \in {"install", "uninstall"} => Len(items) <= 1
  /\ \A i, j \in 1..Len(items) : items[i].pkg = items[j].pkg => i = j
  /\ \A i \in 1..Len(items) : ItemInv(cmd, items[i])

LEMMA BeginFacts ==
  ASSUME Inv, NEW c \in Clients, NEW cmd \in Commands \union Requests, NEW pc \in {"prepared", "write"},
         NEW items, Startable(cmd, items), NEW dry \in BOOLEAN, NEW wait \in BOOLEAN, NEW createNs \in BOOLEAN,
         Begin(c, cmd, pc, items, dry, wait, createNs)
  PROVE  \E n \in ClientType : Local(c, n) /\ ClientInv(n)
<1>1. client[c] \in ClientType
  BY TypeParts DEF Inv
<1>2. PICK run \in Nat : run = client[c].run + 1
  BY <1>1 DEF ClientType
<1>3. items \in Seq(Item) /\ items # <<>> /\ DOMAIN items = 1..Len(items)
  BY DEF Startable
<1>4. PICK targets \in SUBSET Packages : targets = {items[i].pkg : i \in DOMAIN items}
  <2>1. \A i \in DOMAIN items : items[i] \in Item
    BY <1>3
  <2>2. \A i \in DOMAIN items : items[i].pkg \in Packages
    BY <2>1 DEF Item
  <2>3. {items[i].pkg : i \in DOMAIN items} \in SUBSET Packages
    BY <2>2
  <2>4. QED
    BY <2>3
<1>5. PICK n \in ClientType :
        /\ n = Begun(run, cmd, pc, items, dry, wait, createNs, targets)
        /\ n.cmd = cmd /\ n.pc = pc /\ n.items = items /\ n.watch = "none" /\ n.result = "none"
        /\ n.targets = targets /\ n.wrote = {} /\ n.reached = {}
  BY <1>3, BegunFacts
<1>6. Local(c, n)
  BY <1>2, <1>4, <1>5 DEF Begin, Begun
<1>7. cmd # "none"
  BY DEF Commands, Requests
<1>8. \A t \in targets : \E i \in 1..Len(items) : items[i].pkg = t
  BY <1>3, <1>4
<1>9. Shape(n)
  BY <1>3, <1>5, <1>7, <1>8 DEF Shape, Startable
<1>10. ClientInv(n)
  BY <1>5, <1>9 DEF ClientInv, AwaitInv, Startable
<1>11. QED
  BY <1>6, <1>10

LEMMA BeginStep ==
  ASSUME Inv, NEW c \in Clients, NEW cmd \in Commands \union Requests, NEW pc \in {"prepared", "write"},
         NEW items, Startable(cmd, items), NEW dry \in BOOLEAN, NEW wait \in BOOLEAN, NEW createNs \in BOOLEAN,
         Begin(c, cmd, pc, items, dry, wait, createNs), UNCHANGED store
  PROVE  Inv'
  BY BeginFacts, LocalStep

\* One package, and several different ones.
LEMMA StartOne ==
  ASSUME NEW cmd, NEW p \in Packages, NEW o \in Package, ItemInv(cmd, [pkg |-> p, o |-> o])
  PROVE  Startable(cmd, <<[pkg |-> p, o |-> o]>>)
<1>1. PICK item \in Item : item = [pkg |-> p, o |-> o]
  BY DEF Item
<1>2. <<item>> \in Seq(Item) /\ Len(<<item>>) = 1 /\ <<item>> # <<>> /\ <<item>>[1] = item
  OBVIOUS
<1>3. QED
  BY <1>1, <1>2 DEF Startable

LEMMA SetToSeqFacts ==
  ASSUME NEW S \in SUBSET Packages
  PROVE  /\ SetToSeq(S) \in Seq(S) /\ Len(SetToSeq(S)) = Cardinality(S) /\ Cardinality(S) \in Nat
         /\ \A i, j \in 1..Cardinality(S) : SetToSeq(S)[i] = SetToSeq(S)[j] => i = j
         /\ \A i \in 1..Cardinality(S) : SetToSeq(S)[i] \in S
<1>1. IsFiniteSet(S)
  BY ClientsAssumption, FS_Subset
<1>2. PICK n \in Nat : n = Cardinality(S) /\ ExistsBijection(1..n, S)
  BY <1>1, FS_CardinalityType
<1>3. \E f \in [1..n -> S] : IsInjective(f)
  BY <1>2 DEF ExistsBijection, Bijection, Injection
<1>4. PICK s : s = SetToSeq(S)
  OBVIOUS
<1>5. s \in [1..n -> S] /\ IsInjective(s)
  BY <1>2, <1>3, <1>4 DEF SetToSeq
<1>6. s \in Seq(S) /\ Len(s) = n
  BY <1>5
<1>7. QED
  BY <1>2, <1>4, <1>5, <1>6 DEF IsInjective

-----------------------------------------------------------------------------
(* What commands read.                                                     *)

LEMMA FieldsFacts ==
  /\ Fields("update") = {"version", "values"} /\ Fields("autoUpdate") = {"version", "values"}
  /\ Fields("enable") = {"auto"} /\ Fields("configure") = {"values"} /\ Fields("suspend") = {"suspend"}
  /\ Fields("webConfigure") = {"version", "values", "auto"} /\ Fields("webSuspend") = {"suspend", "auto"}
  BY DEF Fields

LEMMA OptionFacts ==
  ASSUME NEW option \in Options
  PROVE  option.version \in 0..Latest /\ option.values \in {0, 1} /\ option.auto \in BOOLEAN
<1>1. option \in [version : 1..Latest, values : {0, 1}, auto : BOOLEAN]
  BY ClientsAssumption
<1>2. option.version \in 1..Latest /\ option.values \in {0, 1} /\ option.auto \in BOOLEAN
  BY <1>1
<1>3. QED
  BY <1>2, ClientsAssumption

\* A copy that is made of the object in the API server.
LEMMA ReadObject ==
  ASSUME Inv, NEW p \in Packages, NEW cmd, NEW o \in Package, o.rv = obj[p].rv,
         cmd \in Updating => CopyOf(cmd, o, obj[p])
  PROVE  ItemInv(cmd, [pkg |-> p, o |-> o])
<1>1. obj[p].rv <= writes[p]
  BY DEF Inv, VersionsInv
<1>2. [pkg |-> p, o |-> o].pkg = p /\ [pkg |-> p, o |-> o].o = o
  OBVIOUS
<1>3. QED
  BY <1>1, <1>2 DEF ItemInv

LEMMA BuiltItem ==
  ASSUME Inv, NEW p \in Packages, NEW cmd \in {"install", "webInstall"}, NEW option \in Options
  PROVE  Startable(cmd, <<[pkg |-> p, o |-> Build(option)]>>)
<1>1. PICK o \in Package : o = Build(option) /\ o.rv = 0
  BY BuildFacts
<1>2. writes[p] \in Nat
  BY TypeParts DEF Inv
<1>3. cmd \notin Updating
  BY DEF Updating
<1>4. [pkg |-> p, o |-> o].pkg = p /\ [pkg |-> p, o |-> o].o = o
  OBVIOUS
<1>5. ItemInv(cmd, [pkg |-> p, o |-> o])
  BY <1>1, <1>2, <1>3, <1>4 DEF ItemInv
<1>6. QED
  BY <1>1, <1>5, StartOne

LEMMA InstallInv ==
  ASSUME Inv, NEW c \in Clients, NEW p \in Packages, NEW option \in Options, NEW dry \in BOOLEAN, NEW wait \in BOOLEAN,
         Install(c, p, option, dry, wait)
  PROVE  Inv'
<1>1. Startable("install", <<[pkg |-> p, o |-> Build(option)]>>)
  BY BuiltItem
<1>2. PICK createNs \in BOOLEAN : createNs = (p \in Namespaced /\ ~ns)
  OBVIOUS
<1>3. Begin(c, "install", "prepared", <<[pkg |-> p, o |-> Build(option)]>>, dry, wait, createNs) /\ UNCHANGED store
  BY <1>2 DEF Install
<1>4. "install" \in Commands \union Requests
  BY DEF Commands
<1>5. QED
  BY <1>1, <1>3, <1>4, BeginStep

LEMMA WebInstallInv ==
  ASSUME Inv, NEW c \in Clients, NEW p \in Packages, NEW option \in Options, NEW dry \in BOOLEAN,
         WebInstall(c, p, option, dry)
  PROVE  Inv'
<1>1. Startable("webInstall", <<[pkg |-> p, o |-> Build(option)]>>)
  BY BuiltItem
<1>2. /\ Begin(c, "webInstall", "prepared", <<[pkg |-> p, o |-> Build(option)]>>, dry, FALSE, FALSE)
      /\ UNCHANGED store
  BY DEF WebInstall
<1>3. "webInstall" \in Commands \union Requests
  BY DEF Requests
<1>4. QED
  BY <1>1, <1>2, <1>3, BeginStep

LEMMA ConfigureInv ==
  ASSUME Inv, NEW c \in Clients, NEW p \in Packages, NEW option \in Options, NEW dry \in BOOLEAN,
         Configure(c, p, option, dry)
  PROVE  Inv'
<1>1. PICK b \in Package : b = obj[p]
  BY TypeParts DEF Inv
<1>2. PICK v \in {0, 1} : v = option.values
  BY OptionFacts
<1>3. PICK o \in Package : /\ o = CopyValues(b, v) /\ o.rv = b.rv /\ o.version = b.version
                           /\ (o.auto <=> b.auto) /\ (o.suspend <=> b.suspend)
  BY CopyValuesFacts
<1>4. CopyOf("configure", o, b)
  BY <1>3, FieldsFacts DEF CopyOf
<1>5. Startable("configure", <<[pkg |-> p, o |-> o]>>)
  BY <1>1, <1>3, <1>4, ReadObject, StartOne
<1>6. Begin(c, "configure", "prepared", <<[pkg |-> p, o |-> o]>>, dry, FALSE, FALSE) /\ UNCHANGED store
  BY <1>1, <1>2, <1>3 DEF Configure, CopyValues
<1>7. "configure" \in Commands \union Requests
  BY DEF Commands
<1>8. QED
  BY <1>5, <1>6, <1>7, BeginStep

LEMMA SuspendInv ==
  ASSUME Inv, NEW c \in Clients, NEW p \in Packages, NEW suspend \in BOOLEAN, Suspend(c, p, suspend)
  PROVE  Inv'
<1>1. PICK b \in Package : b = obj[p]
  BY TypeParts DEF Inv
<1>2. PICK o \in Package : /\ o = CopySuspend(b, suspend) /\ o.rv = b.rv /\ o.version = b.version
                           /\ o.values = b.values /\ (o.auto <=> b.auto)
  BY CopySuspendFacts
<1>3. CopyOf("suspend", o, b)
  BY <1>2, FieldsFacts DEF CopyOf
<1>4. Startable("suspend", <<[pkg |-> p, o |-> o]>>)
  BY <1>1, <1>2, <1>3, ReadObject, StartOne
<1>5. Begin(c, "suspend", "write", <<[pkg |-> p, o |-> o]>>, FALSE, FALSE, FALSE) /\ UNCHANGED store
  BY <1>1, <1>2 DEF Suspend, CopySuspend
<1>6. "suspend" \in Commands \union Requests
  BY DEF Commands
<1>7. QED
  BY <1>4, <1>5, <1>6, BeginStep

LEMMA UninstallInv ==
  ASSUME Inv, NEW c \in Clients, NEW p \in Packages, NEW dry \in BOOLEAN, NEW wait \in BOOLEAN,
         Uninstall(c, p, dry, wait)
  PROVE  Inv'
<1>1. PICK b \in Package : b = obj[p]
  BY TypeParts DEF Inv
<1>2. "uninstall" \notin Updating /\ "uninstall" \in Commands \union Requests
  BY DEF Updating, Commands
<1>3. Startable("uninstall", <<[pkg |-> p, o |-> b]>>)
  BY <1>1, <1>2, ReadObject, StartOne
<1>4. Begin(c, "uninstall", "prepared", <<[pkg |-> p, o |-> b]>>, dry, wait, FALSE) /\ UNCHANGED store
  BY <1>1 DEF Uninstall
<1>5. QED
  BY <1>2, <1>3, <1>4, BeginStep

\* What the web server reads of a package: if it is not out of date it differs from
\* the object in the annotations at most.
LEMMA GetFacts ==
  ASSUME Inv, NEW p \in Packages
  PROVE  /\ Get(p) \in Package /\ Get(p).rv <= writes[p]
         /\ Exists(p) /\ obj[p].rv = Get(p).rv =>
              Get(p).version = obj[p].version /\ Get(p).values = obj[p].values /\ (Get(p).suspend <=> obj[p].suspend)
<1>1. PICK b \in Package : b = obj[p]
  BY TypeParts DEF Inv
<1>2. PICK s \in Package : s = store[p]
  BY TypeParts DEF Inv
<1>3. b.rv <= writes[p] /\ s.rv <= writes[p] /\ (s.rv = b.rv => CopyAuto(s, b.auto) = b)
  BY <1>1, <1>2 DEF Inv, VersionsInv, StoreDiffersInAnnotations, CopyAuto
<1>4. s.rv = b.rv => s.version = b.version /\ s.values = b.values /\ (s.suspend <=> b.suspend)
  <2>1. b.auto \in BOOLEAN
    BY DEF Package
  <2>2. LET n == CopyAuto(s, b.auto)
        IN n.version = s.version /\ n.values = s.values /\ (n.suspend <=> s.suspend)
    BY <2>1, CopyAutoFacts
  <2>3. QED
    BY <1>3, <2>2
<1>5. QED
  BY <1>1, <1>2, <1>3, <1>4 DEF Get

LEMMA ReadStore ==
  ASSUME Inv, NEW p \in Packages, NEW cmd, NEW o \in Package, o.rv = Get(p).rv,
         cmd \in Updating /\ Exists(p) /\ obj[p].rv = o.rv => CopyOf(cmd, o, obj[p])
  PROVE  ItemInv(cmd, [pkg |-> p, o |-> o])
<1>1. o.rv <= writes[p]
  BY GetFacts
<1>2. [pkg |-> p, o |-> o].pkg = p /\ [pkg |-> p, o |-> o].o = o
  OBVIOUS
<1>3. QED
  BY <1>1, <1>2 DEF ItemInv

LEMMA WebSuspendInv ==
  ASSUME Inv, NEW c \in Clients, NEW p \in Packages, NEW suspend \in BOOLEAN, NEW gitops \in BOOLEAN,
         WebSuspend(c, p, suspend, gitops)
  PROVE  Inv'
<1>1. PICK b \in Package : /\ b = Get(p)
                           /\ Exists(p) /\ obj[p].rv = b.rv => b.version = obj[p].version /\ b.values = obj[p].values
  BY GetFacts
<1>2. PICK o \in Package : o = CopySuspend(b, suspend) /\ o.rv = b.rv /\ o.version = b.version /\ o.values = b.values
  BY CopySuspendFacts
<1>3. Exists(p) /\ obj[p].rv = o.rv => CopyOf("webSuspend", o, obj[p])
  BY <1>1, <1>2, FieldsFacts DEF CopyOf
<1>4. Startable("webSuspend", <<[pkg |-> p, o |-> o]>>)
  BY <1>1, <1>2, <1>3, ReadStore, StartOne
<1>5. Begin(c, "webSuspend", "write", <<[pkg |-> p, o |-> o]>>, gitops, FALSE, FALSE) /\ UNCHANGED store
  BY <1>1, <1>2 DEF WebSuspend, CopySuspend
<1>6. "webSuspend" \in Commands \union Requests
  BY DEF Requests
<1>7. QED
  BY <1>4, <1>5, <1>6, BeginStep

LEMMA WebUninstallInv ==
  ASSUME Inv, NEW c \in Clients, NEW p \in Packages, WebUninstall(c, p)
  PROVE  Inv'
<1>1. PICK b \in Package : b = Get(p)
  BY GetFacts
<1>2. "webUninstall" \notin Updating /\ "webUninstall" \in Commands \union Requests
  BY DEF Updating, Requests
<1>3. Startable("webUninstall", <<[pkg |-> p, o |-> b]>>)
  BY <1>1, <1>2, ReadStore, StartOne
<1>4. Begin(c, "webUninstall", "write", <<[pkg |-> p, o |-> b]>>, FALSE, FALSE, FALSE) /\ UNCHANGED store
  BY <1>1 DEF WebUninstall
<1>5. QED
  BY <1>2, <1>3, <1>4, BeginStep

\* The form also changes the annotations of the stored object.
LEMMA WebConfigureInv ==
  ASSUME Inv, NEW c \in Clients, NEW p \in Packages, NEW option \in Options, NEW dry \in BOOLEAN,
         WebConfigure(c, p, option, dry)
  PROVE  Inv'
<1>1. PICK b \in Package : /\ b = Get(p)
                           /\ Exists(p) /\ obj[p].rv = b.rv => (b.suspend <=> obj[p].suspend)
  BY GetFacts
<1>2. PICK v \in 0..Latest, w \in {0, 1}, a \in BOOLEAN : v = option.version /\ w = option.values /\ a = option.auto
  BY OptionFacts
<1>3. PICK o \in Package : o = CopyForm(b, v, w, a) /\ o.rv = b.rv /\ (o.suspend <=> b.suspend)
  BY CopyFormFacts
<1>4. Exists(p) /\ obj[p].rv = o.rv => CopyOf("webConfigure", o, obj[p])
  BY <1>1, <1>3, FieldsFacts DEF CopyOf
<1>5. Startable("webConfigure", <<[pkg |-> p, o |-> o]>>)
  BY <1>1, <1>3, <1>4, ReadStore, StartOne
<1>6. Begin(c, "webConfigure", "write", <<[pkg |-> p, o |-> o]>>, dry, FALSE, FALSE)
  BY <1>1, <1>2, <1>3 DEF WebConfigure, CopyForm
<1>7. "webConfigure" \in Commands \union Requests
  BY DEF Requests
<1>8. PICK n \in ClientType : Local(c, n) /\ ClientInv(n)
  BY <1>5, <1>6, <1>7, BeginFacts
<1>9. client' = With(c, n) /\ UNCHANGED <<obj, ns, writes, updates>>
  BY <1>8 DEF Local
<1>10. store' \in [Packages -> Package] /\ VersionsInv' /\ StoreDiffersInAnnotations'
  <2>1. CASE UNCHANGED store
    BY <1>9, <2>1, StoreSame
  <2>2. CASE Aliased(p) /\ store' = [store EXCEPT ![p].auto = a]
    <3>1. PICK s \in Package : s = store[p]
      BY TypeParts DEF Inv
    <3>2. s # NoObject
      BY <2>2, <3>1 DEF Aliased
    <3>3. PICK t \in Package :
            /\ t = CopyAuto(s, a) /\ t.uid = s.uid /\ t.rv = s.rv /\ t.version = s.version /\ t.values = s.values
            /\ (t.suspend <=> s.suspend) /\ (t.deleting <=> s.deleting) /\ t.status = s.status /\ t.ready = s.ready
      BY CopyAutoFacts
    <3>4. store' = [store EXCEPT ![p] = t]
      BY <2>2, <3>1, <3>3 DEF CopyAuto
    <3>5. store \in [Packages -> Package]
      BY TypeParts DEF Inv
    <3>6. /\ store' \in [Packages -> Package] /\ store'[p] = t
          /\ \A q \in Packages : q # p => store'[q] = store[q]
      BY <3>4, <3>5
    <3>7. s.rv # 0
      BY <3>1, <3>2 DEF Inv, VersionsInv
    <3>8. VersionsInv'
      BY <1>9, <3>1, <3>3, <3>6, <3>7 DEF Inv, VersionsInv
    <3>9. \A d \in BOOLEAN : CopyAuto(t, d) = CopyAuto(s, d)
      <4>1. SUFFICES ASSUME NEW d \in BOOLEAN
                     PROVE  CopyAuto(t, d) = CopyAuto(s, d)
        OBVIOUS
      <4>2. PICK x \in Package :
              /\ x = CopyAuto(t, d) /\ x.uid = t.uid /\ x.rv = t.rv /\ x.version = t.version /\ x.values = t.values
              /\ (x.auto <=> d) /\ (x.suspend <=> t.suspend) /\ (x.deleting <=> t.deleting)
              /\ x.status = t.status /\ x.ready = t.ready
        BY CopyAutoFacts
      <4>3. PICK y \in Package :
              /\ y = CopyAuto(s, d) /\ y.uid = s.uid /\ y.rv = s.rv /\ y.version = s.version /\ y.values = s.values
              /\ (y.auto <=> d) /\ (y.suspend <=> s.suspend) /\ (y.deleting <=> s.deleting)
              /\ y.status = s.status /\ y.ready = s.ready
        BY CopyAutoFacts
      <4>4. x = y
        BY <3>3, <4>2, <4>3, PackageFields
      <4>5. QED
        BY <4>2, <4>3, <4>4
    <3>10. ASSUME NEW q \in Packages, store'[q].rv = obj'[q].rv
           PROVE  [store'[q] EXCEPT !.auto = obj'[q].auto] = obj'[q]
      <4>1. CASE q # p
        BY <1>9, <3>6, <3>10, <4>1 DEF Inv, StoreDiffersInAnnotations
      <4>2. CASE q = p
        <5>1. obj[p].auto \in BOOLEAN
          BY TypeParts DEF Inv, Package
        <5>2. [s EXCEPT !.auto = obj[p].auto] = obj[p]
          BY <1>9, <3>1, <3>3, <3>6, <3>10, <4>2 DEF Inv, StoreDiffersInAnnotations
        <5>3. QED
          BY <1>9, <3>6, <3>9, <4>2, <5>1, <5>2 DEF CopyAuto
      <4>3. QED
        BY <4>1, <4>2
    <3>11. QED
      BY <3>6, <3>8, <3>10 DEF StoreDiffersInAnnotations
  <2>3. QED
    BY <1>2, <2>1, <2>2 DEF WebConfigure
<1>11. ns' \in BOOLEAN
  BY <1>9, TypeParts DEF Inv
<1>12. QED
  BY <1>8, <1>9, <1>10, <1>11, OneClient

LEMMA FunctionIsSeq ==
  ASSUME NEW n \in Nat, NEW X, NEW g \in [1..n -> X]
  PROVE  g \in Seq(X) /\ Len(g) = n
  OBVIOUS

\* Several packages, in some order.
LEMMA StartSeveral ==
  ASSUME NEW S \in SUBSET Packages, NEW cmd, cmd \notin {"install", "uninstall"}, NEW f \in [Packages -> Package],
         \A p \in S : ItemInv(cmd, [pkg |-> p, o |-> f[p]]),
         NEW items, items = [i \in 1..Cardinality(S) |-> [pkg |-> SetToSeq(S)[i], o |-> f[SetToSeq(S)[i]]]],
         items # <<>>
  PROVE  Startable(cmd, items)
<1>1. PICK s \in Seq(S), n \in Nat :
        /\ s = SetToSeq(S) /\ n = Cardinality(S)
        /\ \A i, j \in 1..n : s[i] = s[j] => i = j
        /\ \A i \in 1..n : s[i] \in S
  BY SetToSeqFacts
<1>2. items = [i \in 1..n |-> [pkg |-> s[i], o |-> f[s[i]]]]
  BY <1>1
<1>3. \A i \in 1..n : items[i] = [pkg |-> s[i], o |-> f[s[i]]] /\ items[i].pkg = s[i]
  <2>1. \A i \in 1..n : items[i] = [pkg |-> s[i], o |-> f[s[i]]]
    BY <1>2, Zenon
  <2>2. ASSUME NEW i \in 1..n
        PROVE  items[i].pkg = s[i]
    <3>1. PICK x, y : x = s[i] /\ y = f[s[i]]
      OBVIOUS
    <3>2. items[i] = [pkg |-> x, o |-> y]
      BY <2>1, <3>1, Zenon
    <3>3. [pkg |-> x, o |-> y].pkg = x
      OBVIOUS
    <3>4. QED
      BY <3>1, <3>2, <3>3, Zenon
  <2>3. QED
    BY <2>1, <2>2, Zenon
<1>4. \A i \in 1..n : items[i] \in Item
  <2>1. ASSUME NEW i \in 1..n
        PROVE  items[i] \in Item
    <3>1. PICK p \in Packages : p = s[i]
      BY <1>1
    <3>2. [pkg |-> p, o |-> f[p]] \in Item
      BY DEF Item
    <3>3. QED
      BY <1>3, <3>1, <3>2
  <2>2. QED
    BY <2>1
<1>5. items \in [1..n -> Item]
  BY <1>2, <1>4
<1>6. items \in Seq(Item) /\ Len(items) = n
  BY <1>5, FunctionIsSeq
<1>7. \A i \in 1..n : ItemInv(cmd, items[i])
  BY <1>1, <1>3
<1>8. QED
  BY <1>1, <1>3, <1>6, <1>7 DEF Startable

LEMMA PrepareInv ==
  ASSUME Inv, NEW c \in Clients, NEW cmd \in {"update", "autoUpdate"}, NEW ps \in SUBSET Packages,
         NEW version \in Versions, NEW conflicts, NEW dry \in BOOLEAN, Prepare(c, cmd, ps, version, conflicts, dry)
  PROVE  Inv'
<1> DEFINE S == {p \in ps : IsUpgradable(obj[p].version, version)} \ conflicts
           its == [i \in 1..Cardinality(S) |-> LET p == SetToSeq(S)[i]
                                               IN [pkg |-> p, o |-> [obj[p] EXCEPT !.version = version]]]
<1>1. /\ \/ its = <<>> /\ Local(c, Idle(client[c].run + 1, "ok"))
         \/ its # <<>> /\ Begin(c, cmd, "prepared", its, dry, TRUE, FALSE)
      /\ UNCHANGED store
  BY DEF Prepare
<1>2. PICK T \in SUBSET Packages : T = S
  OBVIOUS
<1>3. \A p \in T : obj[p].version < version
  BY <1>2 DEF IsUpgradable
<1>4. version \in 0..Latest
  BY ClientsAssumption DEF Versions
<1>5. \A p \in Packages : obj[p] \in Package
  BY TypeParts DEF Inv
<1>6. PICK f \in [Packages -> Package] : f = [p \in Packages |-> CopyVersion(obj[p], version)]
  <2>1. \A p \in Packages : CopyVersion(obj[p], version) \in Package
    BY <1>4, <1>5, CopyVersionFacts
  <2>2. QED
    BY <2>1
<1>7. ASSUME NEW p \in T
      PROVE  ItemInv(cmd, [pkg |-> p, o |-> f[p]])
  <2>1. PICK b \in Package : b = obj[p]
    BY <1>5
  <2>2. PICK o \in Package : /\ o = CopyVersion(b, version) /\ o.rv = b.rv /\ o.version = version
                             /\ o.values = b.values /\ (o.auto <=> b.auto) /\ (o.suspend <=> b.suspend)
    BY <1>4, CopyVersionFacts
  <2>3. o.version >= b.version
    <3>1. b.version < version /\ b.version \in Int /\ version \in Int
      BY <1>3, <1>4, <2>1 DEF Package
    <3>2. QED
      BY <2>2, <3>1
  <2>4. Fields(cmd) = {"version", "values"}
    BY FieldsFacts
  <2>5. CopyOf(cmd, o, b)
    BY <2>2, <2>3, <2>4 DEF CopyOf
  <2>6. o = f[p]
    BY <1>6, <2>1, <2>2
  <2>7. QED
    BY <2>1, <2>2, <2>5, <2>6, ReadObject
<1>8. PICK items : items = its
  OBVIOUS
<1>9. items = [i \in 1..Cardinality(T) |-> [pkg |-> SetToSeq(T)[i], o |-> f[SetToSeq(T)[i]]]]
  <2>1. \A i \in 1..Cardinality(T) : SetToSeq(T)[i] \in Packages
    BY SetToSeqFacts
  <2>2. items = [i \in 1..Cardinality(T) |-> [pkg |-> SetToSeq(T)[i], o |-> [obj[SetToSeq(T)[i]] EXCEPT !.version = version]]]
    BY <1>2, <1>8
  <2>3. \A p \in Packages : f[p] = [obj[p] EXCEPT !.version = version]
    BY <1>6 DEF CopyVersion
  <2>4. QED
    BY <2>1, <2>2, <2>3
<1>10. CASE its # <<>> /\ Begin(c, cmd, "prepared", its, dry, TRUE, FALSE)
  <2>1. Startable(cmd, items)
    BY <1>7, <1>8, <1>9, <1>10, StartSeveral
  <2>2. cmd \in Commands \union Requests
    BY DEF Commands
  <2>3. Begin(c, cmd, "prepared", items, dry, TRUE, FALSE)
    BY <1>8, <1>10
  <2>4. QED
    BY <1>1, <2>1, <2>2, <2>3, BeginStep
<1>11. CASE Local(c, Idle(client[c].run + 1, "ok"))
  <2>1. client[c] \in ClientType
    BY TypeParts DEF Inv
  <2>2. PICK run \in Nat : run = client[c].run + 1
    BY <2>1 DEF ClientType
  <2>3. PICK n \in ClientType : n = Idle(run, "ok") /\ ClientInv(n)
    BY IdleFacts
  <2>4. Local(c, n)
    BY <1>11, <2>2, <2>3
  <2>5. QED
    BY <1>1, <2>3, <2>4, LocalStep
<1>12. QED
  BY <1>1, <1>10, <1>11

LEMMA EnableOrDisableInv ==
  ASSUME Inv, NEW c \in Clients, NEW ps \in SUBSET Packages, NEW enabled \in BOOLEAN, EnableOrDisable(c, ps, enabled)
  PROVE  Inv'
<1> DEFINE S == {p \in ps : obj[p].auto # enabled}
           its == [i \in DOMAIN SetToSeq(S) |-> [pkg |-> SetToSeq(S)[i], o |-> [obj[SetToSeq(S)[i]] EXCEPT !.auto = enabled]]]
<1>1. SetToSeq(S) # <<>> /\ Begin(c, "enable", "prepared", its, FALSE, FALSE, FALSE) /\ UNCHANGED store
  BY DEF EnableOrDisable
<1>2. PICK T \in SUBSET Packages : T = S
  OBVIOUS
<1>3. \A p \in Packages : obj[p] \in Package
  BY TypeParts DEF Inv
<1>4. PICK f \in [Packages -> Package] : f = [p \in Packages |-> CopyAuto(obj[p], enabled)]
  <2>1. \A p \in Packages : CopyAuto(obj[p], enabled) \in Package
    BY <1>3, CopyAutoFacts
  <2>2. QED
    BY <2>1
<1>5. ASSUME NEW p \in T
      PROVE  ItemInv("enable", [pkg |-> p, o |-> f[p]])
  <2>1. PICK b \in Package : b = obj[p]
    BY <1>3
  <2>2. PICK o \in Package : /\ o = CopyAuto(b, enabled) /\ o.rv = b.rv /\ o.version = b.version
                             /\ o.values = b.values /\ (o.suspend <=> b.suspend)
    BY CopyAutoFacts
  <2>3. CopyOf("enable", o, b)
    BY <2>2, FieldsFacts DEF CopyOf
  <2>4. o = f[p]
    BY <1>4, <2>1, <2>2
  <2>5. QED
    BY <2>1, <2>2, <2>3, <2>4, ReadObject
<1>6. SetToSeq(T) \in Seq(T) /\ Len(SetToSeq(T)) = Cardinality(T) /\ Cardinality(T) \in Nat
  BY SetToSeqFacts
<1>7. DOMAIN SetToSeq(T) = 1..Cardinality(T)
  BY <1>6
<1>8. PICK items : items = its
  OBVIOUS
<1>9. items = [i \in 1..Cardinality(T) |-> [pkg |-> SetToSeq(T)[i], o |-> f[SetToSeq(T)[i]]]]
  <2>1. \A i \in 1..Cardinality(T) : SetToSeq(T)[i] \in Packages
    BY SetToSeqFacts
  <2>2. items = [i \in 1..Cardinality(T) |-> [pkg |-> SetToSeq(T)[i], o |-> [obj[SetToSeq(T)[i]] EXCEPT !.auto = enabled]]]
    BY <1>2, <1>7, <1>8
  <2>3. \A p \in Packages : f[p] = [obj[p] EXCEPT !.auto = enabled]
    BY <1>4 DEF CopyAuto
  <2>4. QED
    BY <2>1, <2>2, <2>3
<1>10. items # <<>>
  <2>1. SetToSeq(T) # <<>>
    BY <1>1, <1>2
  <2>2. Cardinality(T) # 0
    BY <1>6, <2>1
  <2>3. 1 \in DOMAIN items
    BY <1>6, <1>9, <2>2
  <2>4. QED
    BY <2>3
<1>11. Startable("enable", items)
  <2>1. PICK cmd : cmd = "enable"
    OBVIOUS
  <2>2. cmd \notin {"install", "uninstall"}
    BY <2>1
  <2>3. \A p \in T : ItemInv(cmd, [pkg |-> p, o |-> f[p]])
    BY <1>5, <2>1
  <2> HIDE DEF S, its
  <2>4. Startable(cmd, items)
    BY <1>9, <1>10, <2>2, <2>3, StartSeveral
  <2>5. QED
    BY <2>1, <2>4
<1>12. "enable" \in Commands \union Requests
  BY DEF Commands
<1>13. Begin(c, "enable", "prepared", items, FALSE, FALSE, FALSE)
  BY <1>1, <1>8
<1>14. QED
  BY <1>1, <1>11, <1>12, <1>13, BeginStep

-----------------------------------------------------------------------------
(* Confirmation and namespace.                                             *)

LEMMA RefuseInv ==
  ASSUME Inv, NEW c \in Clients, Refuse(c)
  PROVE  Inv'
<1>1. PICK cl \in ClientType : cl = client[c]
  BY TypeParts DEF Inv
<1>2. PICK n \in ClientType : n = End(cl, "error") /\ ClientInv(n)
  BY EndFacts
<1>3. Local(c, n) /\ UNCHANGED store
  BY <1>1, <1>2 DEF Refuse
<1>4. QED
  BY <1>2, <1>3, LocalStep

ConfirmedClient(cl, items, createNs, pc) == [cl EXCEPT !.items = items, !.createNs = createNs, !.pc = pc]

LEMMA ConfirmedClientFacts ==
  ASSUME NEW cl \in ClientType, NEW items \in Seq(Item), NEW createNs \in BOOLEAN, NEW pc \in {"namespace", "write"}
  PROVE  LET n == ConfirmedClient(cl, items, createNs, pc)
         IN /\ n \in ClientType
            /\ n.cmd = cl.cmd /\ n.pc = pc /\ n.items = items /\ n.watch = cl.watch /\ n.result = cl.result
            /\ n.targets = cl.targets /\ n.wrote = cl.wrote /\ n.reached = cl.reached
  BY DEF ConfirmedClient, ClientType

\* The user may change the values; the packages stay the same.
LEMMA ConfirmedItems ==
  ASSUME Inv, NEW cl \in ClientType, ClientInv(cl), cl.pc = "prepared", NEW items \in Confirmed(cl)
  PROVE  /\ items \in Seq(Item) /\ items # <<>> /\ Len(items) <= Len(cl.items)
         /\ cl.cmd \in Blocking => Len(items) = Len(cl.items)
         /\ \A i \in 1..Len(items) : items[i].pkg = cl.items[i].pkg /\ ItemInv(cl.cmd, items[i])
<1>1. /\ cl.items \in Seq(Item) /\ cl.items # <<>> /\ Len(cl.items) \in Nat /\ Len(cl.items) >= 1
      /\ \A i \in 1..Len(cl.items) : cl.items[i] \in Item /\ ItemInv(cl.cmd, cl.items[i])
  <2>1. cl.items \in Seq(Item) /\ cl.items # <<>>
    BY DEF ClientType, ClientInv, Shape
  <2>2. QED
    BY <2>1 DEF ClientInv
<1>2. CASE items = cl.items
  BY <1>1, <1>2
<1>3. CASE cl.cmd = "configure"
  <2>1. PICK item \in Refreshed(Head(cl.items)) : items = <<item>>
    BY <1>3 DEF Confirmed
  <2>2. PICK first \in Item : first = cl.items[1] /\ first = Head(cl.items)
    BY <1>1
  <2>3. item \in Item /\ item.pkg = first.pkg /\ ItemInv("configure", item)
    <3>1. CASE item = first
      BY <1>1, <1>3, <2>2, <3>1
    <3>2. CASE item = [first EXCEPT !.o = [obj[first.pkg] EXCEPT !.values = first.o.values]]
      <4>1. PICK p \in Packages : p = first.pkg
        BY DEF Item
      <4>2. PICK b \in Package : b = obj[p]
        BY TypeParts DEF Inv
      <4>3. PICK v \in {0, 1} : v = first.o.values
        BY DEF Item, Package
      <4>4. PICK o \in Package : /\ o = CopyValues(b, v) /\ o.rv = b.rv /\ o.version = b.version
                                 /\ (o.auto <=> b.auto) /\ (o.suspend <=> b.suspend)
        BY CopyValuesFacts
      <4>5. CopyOf("configure", o, b)
        BY <4>4, FieldsFacts DEF CopyOf
      <4>6. item = [first EXCEPT !.o = o]
        BY <3>2, <4>1, <4>2, <4>3, <4>4 DEF CopyValues
      <4>7. item = [pkg |-> p, o |-> o]
        BY <4>1, <4>6 DEF Item
      <4>8. ItemInv("configure", [pkg |-> p, o |-> o])
        BY <4>2, <4>4, <4>5, ReadObject
      <4>9. [pkg |-> p, o |-> o] \in Item /\ [pkg |-> p, o |-> o].pkg = p
        BY DEF Item
      <4>10. QED
        BY <4>1, <4>7, <4>8, <4>9
    <3>3. QED
      BY <2>1, <2>2, <3>1, <3>2 DEF Refreshed
  <2>4. Len(<<item>>) = 1 /\ <<item>>[1] = item /\ <<item>> # <<>>
    OBVIOUS
  <2>5. items \in Seq(Item)
    BY <2>1, <2>3
  <2>6. cl.cmd \notin Blocking
    BY <1>3 DEF Blocking
  <2>7. QED
    BY <1>1, <1>3, <2>1, <2>2, <2>3, <2>4, <2>5, <2>6
<1>4. CASE cl.cmd = "update" /\ items # cl.items
  <2>1. PICK option \in Options : items = [cl.items EXCEPT ![1].o.values = option.values]
    BY <1>4 DEF Confirmed, Reconfigured
  <2>2. PICK v \in {0, 1} : v = option.values
    BY OptionFacts
  <2>3. PICK its \in Seq(Item) : its = cl.items /\ Len(its) >= 1
    BY <1>1
  <2>4. PICK first \in Item : first = its[1] /\ ItemInv("update", first)
    BY <1>1, <1>4, <2>3
  <2>5. PICK b \in Package, p \in Packages : b = first.o /\ p = first.pkg
    BY DEF Item
  <2>6. PICK o \in Package : /\ o = CopyValues(b, v) /\ o.rv = b.rv /\ o.version = b.version
                             /\ (o.auto <=> b.auto) /\ (o.suspend <=> b.suspend)
    BY CopyValuesFacts
  <2>7. PICK item \in Item : item = [first EXCEPT !.o = o] /\ item.pkg = p /\ item.o = o
    <3>1. LET n == [first EXCEPT !.o = o] IN n \in Item /\ n.pkg = p /\ n.o = o
      BY <2>5 DEF Item
    <3>2. QED
      BY <3>1
  <2>8. items = [its EXCEPT ![1] = item]
    BY <2>1, <2>2, <2>3, <2>4, <2>5, <2>6, <2>7 DEF CopyValues
  <2>9. items \in Seq(Item) /\ Len(items) = Len(its) /\ items[1] = item /\ \A i \in 2..Len(its) : items[i] = its[i]
    BY <2>3, <2>8
  <2>10. ItemInv("update", item)
    <3>1. CopyOf("update", b, obj[p]) => CopyOf("update", o, obj[p])
      BY <2>6, FieldsFacts DEF CopyOf
    <3>2. QED
      BY <2>4, <2>5, <2>6, <2>7, <3>1 DEF ItemInv
  <2>11. \A i \in 1..Len(items) : i = 1 \/ i \in 2..Len(its)
    BY <2>9
  <2>12. items # <<>>
    BY <2>3, <2>9
  <2>13. ASSUME NEW i \in 1..Len(items)
         PROVE  items[i].pkg = cl.items[i].pkg /\ ItemInv(cl.cmd, items[i])
    <3>1. CASE i = 1
      BY <1>4, <2>3, <2>4, <2>5, <2>7, <2>9, <2>10, <3>1
    <3>2. CASE i \in 2..Len(its)
      BY <1>1, <2>3, <2>9, <2>13, <3>2
    <3>3. QED
      BY <2>11, <3>1, <3>2
  <2>14. QED
    BY <1>1, <2>3, <2>9, <2>12, <2>13
<1>5. QED
  BY <1>2, <1>3, <1>4 DEF Confirmed

LEMMA ConfirmInv ==
  ASSUME Inv, NEW c \in Clients, Confirm(c)
  PROVE  Inv'
<1>1. PICK cl \in ClientType : cl = client[c] /\ ClientInv(cl) /\ cl.pc = "prepared"
  BY TypeParts DEF Inv, Confirm
<1>2. PICK createNs \in BOOLEAN : createNs = (IF cl.cmd = "webInstall" THEN Target(cl) \in Namespaced /\ ~ns ELSE cl.createNs)
  BY DEF ClientType
<1>3. PICK pc \in {"namespace", "write"} : pc = IF createNs THEN "namespace" ELSE "write"
  OBVIOUS
<1>4. PICK items \in Confirmed(cl) : Local(c, ConfirmedClient(cl, items, createNs, pc))
  BY <1>1, <1>2, <1>3 DEF Confirm, ConfirmedClient
<1>5. UNCHANGED store
  BY DEF Confirm
<1>6. /\ items \in Seq(Item) /\ items # <<>> /\ Len(items) <= Len(cl.items) /\ Len(items) \in Nat
      /\ cl.cmd \in Blocking => Len(items) = Len(cl.items)
      /\ \A i \in 1..Len(items) : items[i].pkg = cl.items[i].pkg /\ ItemInv(cl.cmd, items[i])
  BY <1>1, ConfirmedItems
<1>7. PICK n \in ClientType :
        /\ n = ConfirmedClient(cl, items, createNs, pc)
        /\ n.cmd = cl.cmd /\ n.pc = pc /\ n.items = items /\ n.watch = cl.watch /\ n.result = cl.result
        /\ n.targets = cl.targets /\ n.wrote = cl.wrote /\ n.reached = cl.reached
  BY <1>6, ConfirmedClientFacts
<1>8. Len(cl.items) \in Nat /\ \A i \in 1..Len(items) : i \in 1..Len(cl.items)
  <2>1. Len(cl.items) \in Nat
    BY DEF ClientType
  <2>2. QED
    BY <1>6, <2>1
<1>9. Shape(n)
  <2>1. Shape(cl)
    BY <1>1 DEF ClientInv
  <2>2. \A i, j \in 1..Len(items) : items[i].pkg = items[j].pkg => i = j
    BY <1>6, <1>8, <2>1 DEF Shape
  <2>3. \A i \in 1..Len(items) : items[i].pkg \notin cl.wrote
    BY <1>1, <1>6, <1>8, <2>1 DEF Shape
  <2>4. ASSUME cl.cmd \in Blocking, NEW t \in cl.targets
        PROVE  t \in cl.reached \/ \E i \in 1..Len(items) : items[i].pkg = t
    BY <1>6, <2>1, <2>4 DEF Shape
  <2>5. cl.cmd \in {"install", "uninstall"} => Len(items) <= 1
    <3>1. cl.cmd \in {"install", "uninstall"} => cl.cmd \in Blocking
      BY DEF Blocking
    <3>2. QED
      BY <1>6, <2>1, <3>1 DEF Shape
  <2>6. cl.result = "none" /\ cl.cmd # "none" /\ cl.watch = "none"
    BY <1>1, <2>1 DEF Shape
  <2>7. QED
    BY <1>6, <1>7, <2>2, <2>3, <2>4, <2>5, <2>6 DEF Shape
<1>10. ClientInv(n)
  BY <1>6, <1>7, <1>9 DEF ClientInv, AwaitInv
<1>11. QED
  BY <1>4, <1>5, <1>7, <1>10, LocalStep

\* The command goes on to write.
ToWrite(cl) == [cl EXCEPT !.pc = "write"]

LEMMA CreateNamespaceInv ==
  ASSUME Inv, NEW c \in Clients, CreateNamespace(c)
  PROVE  Inv'
<1>1. PICK cl \in ClientType : cl = client[c] /\ ClientInv(cl) /\ cl.pc = "namespace"
  BY TypeParts DEF Inv, CreateNamespace
<1>2. UNCHANGED <<obj, store, writes, updates>>
  BY DEF CreateNamespace
<1>3. ns' \in BOOLEAN
  BY TypeParts DEF CreateNamespace, Inv, CreatesForReal
<1>4. CASE client' = With(c, End(cl, "error"))
  <2>1. PICK n \in ClientType : n = End(cl, "error") /\ ClientInv(n)
    BY EndFacts
  <2>2. QED
    BY <1>2, <1>3, <1>4, <2>1, StoreSame, OneClient
<1>5. CASE client' = With(c, ToWrite(cl))
  <2>1. PICK n \in ClientType :
          /\ n = ToWrite(cl)
          /\ n.cmd = cl.cmd /\ n.pc = "write" /\ n.items = cl.items /\ n.watch = cl.watch /\ n.result = cl.result
          /\ n.targets = cl.targets /\ n.wrote = cl.wrote /\ n.reached = cl.reached
    <3>1. LET n == ToWrite(cl)
          IN /\ n \in ClientType
             /\ n.cmd = cl.cmd /\ n.pc = "write" /\ n.items = cl.items /\ n.watch = cl.watch /\ n.result = cl.result
             /\ n.targets = cl.targets /\ n.wrote = cl.wrote /\ n.reached = cl.reached
      BY DEF ToWrite, ClientType
    <3>2. QED
      BY <3>1
  <2>2. Shape(n)
    BY <1>1, <2>1 DEF ClientInv, Shape
  <2>3. ClientInv(n)
    BY <1>1, <2>1, <2>2 DEF ClientInv, AwaitInv
  <2>4. QED
    BY <1>2, <1>3, <1>5, <2>1, <2>3, StoreSame, OneClient
<1>6. QED
  BY <1>1, <1>4, <1>5 DEF CreateNamespace, ToWrite

-----------------------------------------------------------------------------
(* Waiting for the outcome.                                                *)

LEMMA OutcomeType ==
  ASSUME NEW cl, NEW event
  PROVE  Outcome(cl, event) \in {"none", "ok", "error"}
<1>1. CASE cl.cmd = "install"
  BY <1>1 DEF Outcome
<1>2. CASE cl.cmd = "uninstall"
  BY <1>2 DEF Outcome
<1>3. CASE cl.cmd # "install" /\ cl.cmd # "uninstall"
  BY <1>3 DEF Outcome
<1>4. QED
  BY <1>1, <1>2, <1>3

\* An event that ends the wait with success shows the goal: it is the deletion that
\* was waited for, or carries an object that satisfies the goal.
LEMMA OutcomeIsGoal ==
  ASSUME NEW cl, cl.cmd \in Blocking, NEW item, NEW event, Outcome(cl, event) = "ok", event.o # NoObject
  PROVE  \/ cl.cmd = "uninstall" /\ event.type = "Deleted"
         \/ cl.cmd = "install" /\ event.type # "Deleted" /\ Goal(cl, item, event.o)
         \/ cl.cmd \in {"update", "autoUpdate"} /\ Goal(cl, item, event.o)
<1>1. CASE cl.cmd = "install"
  <2>1. event.type # "Deleted" /\ event.o.ready = "ready"
    BY <1>1 DEF Outcome
  <2>2. QED
    BY <1>1, <2>1 DEF Goal
<1>2. CASE cl.cmd = "uninstall"
  BY <1>2 DEF Outcome
<1>3. CASE cl.cmd \in {"update", "autoUpdate"}
  <2>1. event.o.status = event.o.version
    BY <1>3 DEF Outcome
  <2>2. QED
    BY <1>3, <2>1 DEF Goal
<1>4. QED
  BY <1>1, <1>2, <1>3 DEF Blocking

\* Goals and outcomes depend on the command and its items only.
LEMMA SameGoal ==
  ASSUME NEW cl, NEW n, n.cmd = cl.cmd, n.items = cl.items
  PROVE  /\ Target(n) = Target(cl) /\ Mine(n) = Mine(cl)
         /\ \A item, o : Goal(n, item, o) <=> Goal(cl, item, o)
         /\ \A event : Outcome(n, event) = Outcome(cl, event)
<1>1. Target(n) = Target(cl) /\ Mine(n) = Mine(cl)
  BY DEF Target, Mine
<1>2. \A item, o : Goal(n, item, o) <=> Goal(cl, item, o)
  BY DEF Goal
<1>3. \A event : Outcome(n, event) = Outcome(cl, event)
  BY <1>1 DEF Outcome
<1>4. QED
  BY <1>1, <1>2, <1>3

LEMMA EmptySeq ==
  ASSUME NEW S
  PROVE  <<>> \in Seq(S) /\ Len(<<>>) = 0
  OBVIOUS

LEMMA SingleSeq ==
  ASSUME NEW S, NEW e \in S
  PROVE  \E s \in Seq(S) : s = <<e>> /\ \A i \in 1..Len(s) : s[i] = e
<1>1. <<e>> \in Seq(S) /\ Len(<<e>>) = 1 /\ <<e>>[1] = e
  OBVIOUS
<1>2. \A i \in 1..Len(<<e>>) : <<e>>[i] = e
  BY <1>1
<1>3. QED
  BY <1>1, <1>2

Watching(cl, events, reached) == [cl EXCEPT !.pc = "await", !.watch = "open", !.events = events, !.reached = reached]

LEMMA WatchingFacts ==
  ASSUME NEW cl \in ClientType, NEW events \in Seq(Event), NEW reached \in SUBSET Packages
  PROVE  LET n == Watching(cl, events, reached)
         IN /\ n \in ClientType
            /\ n.cmd = cl.cmd /\ n.pc = "await" /\ n.items = cl.items /\ n.watch = "open" /\ n.result = cl.result
            /\ n.targets = cl.targets /\ n.wrote = cl.wrote /\ n.reached = reached /\ n.events = events
  BY DEF Watching, ClientType

LEMMA ClientFacts ==
  ASSUME NEW cl \in ClientType, Shape(cl), cl.pc # "idle"
  PROVE  /\ cl.items \in Seq(Item) /\ cl.items # <<>> /\ Len(cl.items) \in Nat /\ Len(cl.items) >= 1
         /\ Head(cl.items) = cl.items[1] /\ cl.items[1] \in Item
         /\ Target(cl) = cl.items[1].pkg /\ Target(cl) \in Packages
         /\ Mine(cl) = cl.items[1].o /\ Mine(cl) \in Package
<1>1. cl.items \in Seq(Item) /\ cl.items # <<>>
  BY DEF ClientType, Shape
<1>2. /\ Len(cl.items) \in Nat /\ Len(cl.items) >= 1
      /\ Head(cl.items) = cl.items[1] /\ cl.items[1] \in Item
  BY <1>1
<1>3. QED
  BY <1>1, <1>2 DEF Target, Mine, Item

LEMMA WatchInv ==
  ASSUME Inv, NEW c \in Clients, Watch(c)
  PROVE  Inv'
<1>1. PICK cl \in ClientType : cl = client[c] /\ ClientInv(cl) /\ cl.pc = "watch"
  BY TypeParts DEF Inv, Watch
<1>2. Shape(cl) /\ cl.cmd \in Blocking
  BY <1>1 DEF ClientInv, Shape
<1>3. PICK p \in Packages, first \in Item : p = Target(cl) /\ p = first.pkg /\ first = Head(cl.items)
  BY <1>1, <1>2, ClientFacts
<1>4. PICK o \in Package : o = obj[p]
  BY TypeParts DEF Inv
<1>5. PICK events \in Seq(Event) :
        /\ events = IF o = NoObject THEN <<>> ELSE <<[type |-> "Added", o |-> o]>>
        /\ \A i \in 1..Len(events) : events[i].type = "Added" /\ events[i].o = o /\ o # NoObject
  <2>1. CASE o = NoObject
    <3>1. PICK s \in Seq(Event) : s = <<>> /\ Len(s) = 0
      BY EmptySeq, Zenon
    <3>2. s = IF o = NoObject THEN <<>> ELSE <<[type |-> "Added", o |-> o]>>
      BY <2>1, <3>1
    <3>3. \A i \in 1..Len(s) : s[i].type = "Added" /\ s[i].o = o /\ o # NoObject
      BY <3>1
    <3>4. QED
      BY <3>2, <3>3, Zenon
  <2>2. CASE o # NoObject
    <3>1. PICK e \in Event : e = [type |-> "Added", o |-> o] /\ e.type = "Added" /\ e.o = o
      <4>1. LET e == [type |-> "Added", o |-> o] IN e \in Event /\ e.type = "Added" /\ e.o = o
        BY DEF Event
      <4>2. QED
        BY <4>1
    <3>2. PICK s \in Seq(Event) : s = <<e>> /\ \A i \in 1..Len(s) : s[i] = e
      BY SingleSeq
    <3>4. s = IF o = NoObject THEN <<>> ELSE <<[type |-> "Added", o |-> o]>>
      BY <2>2, <3>1, <3>2
    <3>5. QED
      BY <2>2, <3>1, <3>2, <3>4
  <2>3. QED
    BY <2>1, <2>2
<1>6. PICK reached \in SUBSET Packages : reached = IF Goal(cl, first, o) THEN cl.reached \union {p} ELSE cl.reached
  BY DEF ClientType
<1>7. PICK n \in ClientType :
        /\ n = Watching(cl, events, reached)
        /\ n.cmd = cl.cmd /\ n.pc = "await" /\ n.items = cl.items /\ n.watch = "open" /\ n.result = cl.result
        /\ n.targets = cl.targets /\ n.wrote = cl.wrote /\ n.reached = reached /\ n.events = events
  BY WatchingFacts
<1>8. Local(c, n) /\ UNCHANGED store
  <2>1. /\ Local(c, Watching(cl, IF obj[Target(cl)] = NoObject THEN <<>> ELSE <<[type |-> "Added", o |-> obj[Target(cl)]]>>,
                          IF Goal(cl, Head(cl.items), obj[Target(cl)]) THEN cl.reached \union {Target(cl)}
                          ELSE cl.reached))
        /\ UNCHANGED store
    BY <1>1, Zenon DEF Watch, Watching
  <2>2. QED
    BY <1>3, <1>4, <1>5, <1>6, <1>7, <2>1
<1>9. Shape(n)
  <2>1. cl.reached \subseteq reached
    BY <1>6
  <2>2. cl.result = "none" /\ cl.cmd # "none" /\ cl.items # <<>>
    BY <1>1, <1>2 DEF Shape
  <2>3. \A t \in cl.targets : t \in reached \/ \E i \in 1..Len(cl.items) : cl.items[i].pkg = t
    BY <1>2, <2>1 DEF Shape
  <2>4. /\ cl.cmd \in {"install", "uninstall"} => Len(cl.items) <= 1
        /\ \A i, j \in 1..Len(cl.items) : cl.items[i].pkg = cl.items[j].pkg => i = j
        /\ \A i \in 1..Len(cl.items) : cl.items[i].pkg \in cl.wrote <=> i = 1
    BY <1>1, <1>2 DEF Shape
  <2>5. QED
    BY <1>2, <1>7, <2>2, <2>3, <2>4 DEF Shape
<1>10. AwaitInv(n)
  <2>1. Target(n) = p /\ Head(n.items) = first
    BY <1>3, <1>7, SameGoal
  <2>2. CASE Goal(cl, first, o)
    BY <1>6, <1>7, <2>1, <2>2 DEF AwaitInv
  <2>3. CASE ~Goal(cl, first, o)
    <3>1. ~Goal(n, Head(n.items), obj[Target(n)])
      BY <1>4, <1>7, <2>1, <2>3, SameGoal
    <3>2. ASSUME NEW i \in 1..Len(events), Outcome(cl, events[i]) = "ok"
          PROVE  FALSE
      <4>1. PICK e : e = events[i] /\ e.type = "Added" /\ e.o = o /\ o # NoObject
        BY <1>5
      <4>2. Goal(cl, first, e.o)
        BY <1>2, <3>2, <4>1, OutcomeIsGoal
      <4>3. QED
        BY <2>3, <4>1, <4>2
    <3>3. \A i \in 1..Len(n.events) : Outcome(n, n.events[i]) # "ok"
      BY <1>7, <3>2, SameGoal
    <3>4. QED
      BY <3>1, <3>3 DEF AwaitInv
  <2>4. QED
    BY <2>2, <2>3
<1>11. ClientInv(n)
  BY <1>1, <1>7, <1>9, <1>10 DEF ClientInv
<1>12. QED
  BY <1>8, <1>11, LocalStep

WithEvents(cl, events) == [cl EXCEPT !.events = events]

WithWatch(cl, watch) == [cl EXCEPT !.watch = watch]

ToNext(cl, items) == [cl EXCEPT !.items = items, !.pc = "write", !.watch = "none", !.events = <<>>]

LEMMA WithEventsFacts ==
  ASSUME NEW cl \in ClientType, NEW events \in Seq(Event)
  PROVE  LET n == WithEvents(cl, events)
         IN /\ n \in ClientType
            /\ n.cmd = cl.cmd /\ n.pc = cl.pc /\ n.items = cl.items /\ n.watch = cl.watch /\ n.result = cl.result
            /\ n.targets = cl.targets /\ n.wrote = cl.wrote /\ n.reached = cl.reached /\ n.events = events
  BY DEF WithEvents, ClientType

LEMMA WithWatchFacts ==
  ASSUME NEW cl \in ClientType, NEW watch \in {"none", "open", "closed"}
  PROVE  LET n == WithWatch(cl, watch)
         IN /\ n \in ClientType
            /\ n.cmd = cl.cmd /\ n.pc = cl.pc /\ n.items = cl.items /\ n.watch = watch /\ n.result = cl.result
            /\ n.targets = cl.targets /\ n.wrote = cl.wrote /\ n.reached = cl.reached /\ n.events = cl.events
  BY DEF WithWatch, ClientType

LEMMA ToNextFacts ==
  ASSUME NEW cl \in ClientType, NEW items \in Seq(Item)
  PROVE  LET n == ToNext(cl, items)
         IN /\ n \in ClientType
            /\ n.cmd = cl.cmd /\ n.pc = "write" /\ n.items = items /\ n.watch = "none" /\ n.result = cl.result
            /\ n.targets = cl.targets /\ n.wrote = cl.wrote /\ n.reached = cl.reached
<1>1. PICK none \in Seq(Event) : none = <<>>
  BY EmptySeq, Zenon
<1>2. LET n == [cl EXCEPT !.items = items, !.pc = "write", !.watch = "none", !.events = none]
      IN /\ n \in ClientType
         /\ n.cmd = cl.cmd /\ n.pc = "write" /\ n.items = items /\ n.watch = "none" /\ n.result = cl.result
         /\ n.targets = cl.targets /\ n.wrote = cl.wrote /\ n.reached = cl.reached
  BY DEF ClientType
<1>3. QED
  BY <1>1, <1>2 DEF ToNext

\* The rest of a sequence.
LEMMA TailFacts ==
  ASSUME NEW S, NEW s \in Seq(S), s # <<>>
  PROVE  /\ Tail(s) \in Seq(S) /\ Len(s) \in Nat /\ Len(s) >= 1 /\ Len(Tail(s)) = Len(s) - 1
         /\ \A i \in 1..Len(Tail(s)) : Tail(s)[i] = s[i + 1] /\ i + 1 \in 1..Len(s)
  OBVIOUS

\* The items after the first one.
LEMMA RestFacts ==
  ASSUME NEW items \in Seq(Item), Len(items) > 1
  PROVE  /\ Tail(items) \in Seq(Item) /\ Tail(items) # <<>> /\ Len(Tail(items)) = Len(items) - 1
         /\ \A i \in 1..Len(Tail(items)) : Tail(items)[i] = items[i + 1] /\ i + 1 \in 1..Len(items) /\ i + 1 # 1
         /\ \A i \in 1..Len(items) : i = 1 \/ (i - 1 \in 1..Len(Tail(items)) /\ Tail(items)[i - 1] = items[i])
<1>1. items # <<>>
  OBVIOUS
<1>2. PICK rest \in Seq(Item) :
        /\ rest = Tail(items) /\ Len(rest) = Len(items) - 1 /\ Len(items) \in Nat
        /\ \A i \in 1..Len(rest) : rest[i] = items[i + 1] /\ i + 1 \in 1..Len(items)
  BY <1>1, TailFacts
<1>3. Len(rest) \in Nat /\ Len(rest) # 0
  BY <1>2
<1>4. rest # <<>>
  BY <1>3
<1>5. \A i \in 1..Len(rest) : i + 1 # 1
  BY <1>3
<1>6. ASSUME NEW i \in 1..Len(items), i # 1
      PROVE  i - 1 \in 1..Len(rest) /\ rest[i - 1] = items[i]
  <2>1. i - 1 \in 1..Len(rest) /\ (i - 1) + 1 = i
    BY <1>2, <1>6
  <2>2. QED
    BY <1>2, <2>1
<1>7. QED
  BY <1>2, <1>4, <1>5, <1>6

\* A success ends the wait only when the goal was seen.
LEMMA AwaitedGoal ==
  ASSUME Inv, NEW cl \in ClientType, ClientInv(cl), cl.pc = "await", cl.events # <<>>,
         Outcome(cl, Head(cl.events)) = "ok"
  PROVE  Target(cl) \in cl.reached
<1>1. cl.events \in Seq(Event)
  BY DEF ClientType
<1>2. 1 \in 1..Len(cl.events) /\ Head(cl.events) = cl.events[1]
  BY <1>1
<1>3. QED
  BY <1>2 DEF ClientInv, AwaitInv

LEMMA AwaitInvStep ==
  ASSUME Inv, NEW c \in Clients, Await(c)
  PROVE  Inv'
<1>1. PICK cl \in ClientType : cl = client[c] /\ ClientInv(cl) /\ cl.pc = "await" /\ cl.events # <<>>
  BY TypeParts DEF Inv, Await
<1>2. Shape(cl) /\ cl.cmd \in Blocking /\ UNCHANGED store
  BY <1>1 DEF ClientInv, Shape, Await
<1>3. PICK outcome \in {"none", "ok", "error"} : outcome = Outcome(cl, Head(cl.events))
  BY OutcomeType
<1>4. cl.events \in Seq(Event)
  BY DEF ClientType
<1>5. CASE outcome = "none" /\ Local(c, WithEvents(cl, Tail(cl.events)))
  <2>1. PICK events \in Seq(Event) :
          /\ events = Tail(cl.events)
          /\ \A i \in 1..Len(events) : events[i] = cl.events[i + 1] /\ i + 1 \in 1..Len(cl.events)
    BY <1>1, <1>4, TailFacts
  <2>2. PICK n \in ClientType :
          /\ n = WithEvents(cl, events)
          /\ n.cmd = cl.cmd /\ n.pc = cl.pc /\ n.items = cl.items /\ n.watch = cl.watch /\ n.result = cl.result
          /\ n.targets = cl.targets /\ n.wrote = cl.wrote /\ n.reached = cl.reached /\ n.events = events
    BY WithEventsFacts
  <2>4. Shape(n)
    BY <1>2, <2>2 DEF Shape
  <2>5. AwaitInv(n)
    <3>1. Target(n) = Target(cl) /\ Head(n.items) = Head(cl.items)
      BY <2>2, SameGoal
    <3>2. CASE Target(cl) \in cl.reached
      BY <2>2, <3>1, <3>2 DEF AwaitInv
    <3>3. CASE Target(cl) \notin cl.reached
      <4>1. /\ ~Goal(cl, Head(cl.items), obj[Target(cl)])
            /\ \A i \in 1..Len(cl.events) : Outcome(cl, cl.events[i]) # "ok"
        BY <1>1, <3>3 DEF ClientInv, AwaitInv
      <4>2. ~Goal(n, Head(n.items), obj[Target(n)])
        BY <2>2, <3>1, <4>1, SameGoal
      <4>3. \A i \in 1..Len(events) : Outcome(cl, events[i]) # "ok"
        BY <2>1, <4>1
      <4>5. \A i \in 1..Len(n.events) : Outcome(n, n.events[i]) # "ok"
        BY <2>2, <4>3, SameGoal
      <4>4. QED
        BY <4>2, <4>5 DEF AwaitInv
    <3>4. QED
      BY <3>2, <3>3
  <2>6. ClientInv(n)
    BY <1>1, <2>2, <2>4, <2>5 DEF ClientInv
  <2>7. QED
    BY <1>2, <1>5, <2>1, <2>2, <2>6, LocalStep
<1>6. CASE outcome = "ok" /\ Len(cl.items) > 1 /\ Local(c, ToNext(cl, Tail(cl.items)))
  <2>1. cl.items \in Seq(Item)
    BY DEF ClientType
  <2>2. PICK items \in Seq(Item) :
          /\ items = Tail(cl.items) /\ items # <<>> /\ Len(items) = Len(cl.items) - 1
          /\ \A i \in 1..Len(items) : items[i] = cl.items[i + 1] /\ i + 1 \in 1..Len(cl.items) /\ i + 1 # 1
          /\ \A i \in 1..Len(cl.items) : i = 1 \/ (i - 1 \in 1..Len(items) /\ items[i - 1] = cl.items[i])
    BY <1>6, <2>1, RestFacts
  <2>3. PICK n \in ClientType :
          /\ n = ToNext(cl, items)
          /\ n.cmd = cl.cmd /\ n.pc = "write" /\ n.items = items /\ n.watch = "none" /\ n.result = cl.result
          /\ n.targets = cl.targets /\ n.wrote = cl.wrote /\ n.reached = cl.reached
    BY ToNextFacts
  <2>4. Target(cl) \in cl.reached /\ Target(cl) = cl.items[1].pkg
    BY <1>1, <1>2, <1>3, <1>6, AwaitedGoal, ClientFacts
  <2>5. Shape(n)
    <3>1. ASSUME NEW i \in 1..Len(items), NEW j \in 1..Len(items), items[i].pkg = items[j].pkg
          PROVE  i = j
      <4>1. i + 1 = j + 1
        BY <1>2, <2>2, <3>1 DEF Shape
      <4>2. QED
        BY <4>1
    <3>2. \A i \in 1..Len(items) : items[i].pkg \notin cl.wrote
      BY <1>2, <2>2 DEF Shape
    <3>3. ASSUME NEW t \in cl.targets
          PROVE  t \in cl.reached \/ \E i \in 1..Len(items) : items[i].pkg = t
      <4>1. CASE t \in cl.reached
        BY <4>1
      <4>2. CASE \E i \in 1..Len(cl.items) : cl.items[i].pkg = t
        <5>1. PICK i \in 1..Len(cl.items) : cl.items[i].pkg = t
          BY <4>2
        <5>2. CASE i = 1
          BY <2>4, <5>1, <5>2
        <5>3. CASE i - 1 \in 1..Len(items) /\ items[i - 1] = cl.items[i]
          BY <5>1, <5>3
        <5>4. QED
          BY <2>2, <5>2, <5>3
      <4>3. QED
        BY <1>2, <4>1, <4>2 DEF Shape
    <3>4. ~(cl.cmd \in {"install", "uninstall"})
      <4>1. Len(cl.items) \in Nat
        BY <2>1
      <4>2. QED
        BY <1>2, <1>6, <4>1 DEF Shape
    <3>5. cl.result = "none" /\ cl.cmd # "none"
      BY <1>1, <1>2 DEF Shape
    <3>6. /\ n.pc # "idle" /\ n.pc # "await" /\ ~(n.pc \in {"watch", "await"})
          /\ n.result = "none" /\ n.cmd # "none" /\ n.items # <<>> /\ n.watch = "none"
          /\ ~(n.cmd \in {"install", "uninstall"})
      BY <2>2, <2>3, <3>4, <3>5
    <3>7. /\ \A i, j \in 1..Len(n.items) : n.items[i].pkg = n.items[j].pkg => i = j
          /\ \A i \in 1..Len(n.items) : n.items[i].pkg \notin n.wrote
          /\ \A t \in n.targets : t \in n.reached \/ \E i \in 1..Len(n.items) : n.items[i].pkg = t
      BY <2>3, <3>1, <3>2, <3>3
    <3>8. QED
      BY <3>6, <3>7 DEF Shape
  <2>6. ClientInv(n)
    <3>1. \A i \in 1..Len(items) : ItemInv(cl.cmd, items[i])
      BY <1>1, <2>2 DEF ClientInv
    <3>2. QED
      BY <2>3, <2>5, <3>1 DEF ClientInv, AwaitInv
  <2>7. QED
    BY <1>2, <1>6, <2>2, <2>3, <2>6, LocalStep
<1>7. CASE Local(c, End(cl, outcome))
  <2>1. PICK n \in ClientType : n = End(cl, outcome) /\ ClientInv(n)
    BY EndFacts
  <2>2. QED
    BY <1>2, <1>7, <2>1, LocalStep
<1>8. QED
  BY <1>1, <1>3, <1>5, <1>6, <1>7 DEF Await, AfterAwait, WithEvents, ToNext

LEMMA AwaitEndsInv ==
  ASSUME Inv, NEW c \in Clients, AwaitEnds(c)
  PROVE  Inv'
<1>1. PICK cl \in ClientType : cl = client[c]
  BY TypeParts DEF Inv
<1>2. PICK n \in ClientType : n = End(cl, "error") /\ ClientInv(n)
  BY EndFacts
<1>3. Local(c, n) /\ UNCHANGED store
  BY <1>1, <1>2 DEF AwaitEnds
<1>4. QED
  BY <1>2, <1>3, LocalStep

LEMMA WatchClosesInv ==
  ASSUME Inv, NEW c \in Clients, WatchCloses(c)
  PROVE  Inv'
<1>1. PICK cl \in ClientType : cl = client[c] /\ ClientInv(cl) /\ cl.watch = "open"
  BY TypeParts DEF Inv, WatchCloses
<1>2. PICK n \in ClientType :
        /\ n = WithWatch(cl, "closed")
        /\ n.cmd = cl.cmd /\ n.pc = cl.pc /\ n.items = cl.items /\ n.watch = "closed" /\ n.result = cl.result
        /\ n.targets = cl.targets /\ n.wrote = cl.wrote /\ n.reached = cl.reached /\ n.events = cl.events
  BY WithWatchFacts
<1>3. Local(c, n) /\ UNCHANGED store
  BY <1>1, <1>2 DEF WatchCloses, WithWatch
<1>4. cl.pc = "await"
  BY <1>1 DEF ClientInv, Shape
<1>5. Shape(n)
  <2>1. Shape(cl)
    BY <1>1 DEF ClientInv
  <2> QED
    BY ONLY <1>2, <1>4, <2>1 DEF Shape
<1>6. AwaitInv(n)
  <2>1. /\ Target(n) = Target(cl) /\ Head(n.items) = Head(cl.items)
        /\ \A item, o : Goal(n, item, o) <=> Goal(cl, item, o)
        /\ \A event : Outcome(n, event) = Outcome(cl, event)
    BY <1>2, SameGoal
  <2>2. QED
    BY <1>1, <1>2, <2>1 DEF ClientInv, AwaitInv
<1>7. ClientInv(n)
  BY <1>1, <1>2, <1>5, <1>6 DEF ClientInv
<1>8. QED
  BY <1>3, <1>7, LocalStep

-----------------------------------------------------------------------------
(* A write is told to the clients that wait for it.                        *)

Told(cl, reached, events) == [cl EXCEPT !.reached = reached, !.events = events]

LEMMA ToldFacts ==
  ASSUME NEW cl \in ClientType, NEW reached \in SUBSET Packages, NEW events \in Seq(Event)
  PROVE  LET n == Told(cl, reached, events)
         IN /\ n \in ClientType
            /\ n.cmd = cl.cmd /\ n.pc = cl.pc /\ n.items = cl.items /\ n.watch = cl.watch /\ n.result = cl.result
            /\ n.targets = cl.targets /\ n.wrote = cl.wrote /\ n.reached = reached /\ n.events = events
  BY DEF Told, ClientType

LEMMA ToldNothing ==
  ASSUME NEW cl \in ClientType
  PROVE  Told(cl, cl.reached, cl.events) = cl
  BY DEF Told, ClientType

\* The write of package p concerns a client that has written it and waits.
Concerns(cl, p) == cl.items # <<>> /\ Target(cl) = p /\ p \in cl.wrote

Tells(o, last) == IF o = NoObject THEN [type |-> "Deleted", o |-> last] ELSE [type |-> "Modified", o |-> o]

LEMMA TellsFacts ==
  ASSUME NEW o \in Package, NEW last \in Package
  PROVE  \E e \in Event :
           /\ e = Tells(o, last)
           /\ o = NoObject => e.type = "Deleted" /\ e.o = last
           /\ o # NoObject => e.type = "Modified" /\ e.o = o
<1>1. CASE o = NoObject
  <2>1. LET e == [type |-> "Deleted", o |-> last] IN e \in Event /\ e.type = "Deleted" /\ e.o = last
    BY DEF Event
  <2>2. QED
    BY <1>1, <2>1 DEF Tells
<1>2. CASE o # NoObject
  <2>1. LET e == [type |-> "Modified", o |-> o] IN e \in Event /\ e.type = "Modified" /\ e.o = o
    BY DEF Event
  <2>2. QED
    BY <1>2, <2>1 DEF Tells
<1>3. QED
  BY <1>1, <1>2

LEMMA NotifiedOther ==
  ASSUME NEW cl \in ClientType, NEW p, NEW o, NEW last, ~Concerns(cl, p)
  PROVE  Notified(cl, p, o, last) = cl
<1>1. Notified(cl, p, o, last) = Told(cl, cl.reached, cl.events)
  BY DEF Notified, Told, Concerns
<1>2. QED
  BY <1>1, ToldNothing

LEMMA NotifiedMine ==
  ASSUME NEW cl, NEW p, NEW o, NEW last, Concerns(cl, p), NEW reached, NEW events,
         Goal(cl, Head(cl.items), o) => reached = cl.reached \union {p},
         ~Goal(cl, Head(cl.items), o) => reached = cl.reached,
         cl.watch = "open" => events = Append(cl.events, Tells(o, last)),
         cl.watch # "open" => events = cl.events
  PROVE  Notified(cl, p, o, last) = Told(cl, reached, events)
<1> DEFINE r == IF Goal(cl, Head(cl.items), o) THEN cl.reached \union {p} ELSE cl.reached
<1> DEFINE e == IF cl.watch = "open" THEN Append(cl.events, Tells(o, last)) ELSE cl.events
<1>1. Notified(cl, p, o, last) = Told(cl, r, e)
  BY Zenon DEF Notified, Told, Concerns, Tells
<1>2. r = reached /\ e = events
  OBVIOUS
<1> HIDE DEF r, e
<1>3. QED
  BY <1>1, <1>2

LEMMA AppendFacts ==
  ASSUME NEW S, NEW s \in Seq(S), NEW e \in S
  PROVE  \E t \in Seq(S) : /\ t = Append(s, e)
                           /\ \A i \in 1..Len(t) : t[i] = e \/ (i \in 1..Len(s) /\ t[i] = s[i])
<1>1. PICK t : t = Append(s, e)
  OBVIOUS
<1>2. t \in Seq(S) /\ \A i \in 1..Len(t) : t[i] = e \/ (i \in 1..Len(s) /\ t[i] = s[i])
  BY <1>1
<1>3. QED
  BY <1>1, <1>2, Zenon

LEMMA EventsFacts ==
  ASSUME NEW cl \in ClientType, NEW e \in Event
  PROVE  \E events \in Seq(Event) :
           /\ events = IF cl.watch = "open" THEN Append(cl.events, e) ELSE cl.events
           /\ \A i \in 1..Len(events) : events[i] = e \/ (i \in 1..Len(cl.events) /\ events[i] = cl.events[i])
<1>1. PICK old \in Seq(Event) : old = cl.events
  BY DEF ClientType
<1>2. CASE cl.watch = "open"
  <2>1. \E t \in Seq(Event) : /\ t = Append(old, e)
                              /\ \A i \in 1..Len(t) : t[i] = e \/ (i \in 1..Len(old) /\ t[i] = old[i])
    BY AppendFacts
  <2>2. QED
    BY <1>1, <1>2, <2>1
<1>3. CASE cl.watch # "open"
  BY <1>1, <1>3
<1>4. QED
  BY <1>2, <1>3

\* The record of a client keeps the invariant when the clients are told of a write.
LEMMA NotifiedInv ==
  ASSUME TypeOK, ObjectsMove, writes' \in [Packages -> Nat], obj' \in [Packages -> Package],
         NEW cl \in ClientType, ClientInv(cl), NEW p \in Packages, NEW o \in Package, NEW last \in Package,
         last = obj[p], obj' = [obj EXCEPT ![p] = o], o = NoObject => last # NoObject
  PROVE  Notified(cl, p, o, last) \in ClientType /\ ClientInv(Notified(cl, p, o, last))'
<1>1. cl.items \in Seq(Item) /\ Len(cl.items) \in Nat
  BY DEF ClientType
<1>2. \A i \in 1..Len(cl.items) : ItemInv(cl.cmd, cl.items[i])'
  <2>1. SUFFICES ASSUME NEW i \in 1..Len(cl.items)
                 PROVE  ItemInv(cl.cmd, cl.items[i])'
    OBVIOUS
  <2>2. PICK item \in Item : item = cl.items[i]
    BY <1>1
  <2>3. PICK cmd : cmd = cl.cmd
    OBVIOUS
  <2>4. ItemInv(cmd, item)
    BY <2>2, <2>3 DEF ClientInv
  <2>5. ItemInv(cmd, item)'
    BY <2>4, ItemStays
  <2>6. QED
    BY <2>2, <2>3, <2>5
<1>3. Shape(cl) /\ AwaitInv(cl)
  BY DEF ClientInv
<1>4. obj'[p] = o /\ \A q \in Packages : q # p => obj'[q] = obj[q]
  BY TypeParts
<1>5. CASE ~Concerns(cl, p)
  <2>1. AwaitInv(cl)'
    <3>1. CASE cl.pc # "await"
      BY <3>1 DEF AwaitInv
    <3>2. CASE cl.pc = "await"
      <4>1. /\ cl.items # <<>> /\ 1 \in 1..Len(cl.items) /\ Target(cl) = cl.items[1].pkg /\ Target(cl) \in Packages
        BY <1>1, <1>3, <3>2, ClientFacts
      <4>2. Target(cl) \in cl.wrote
        BY <1>3, <3>2, <4>1 DEF Shape
      <4>3. obj'[Target(cl)] = obj[Target(cl)]
        BY <1>4, <1>5, <4>1, <4>2 DEF Concerns
      <4>4. QED
        BY <1>3, <4>3 DEF AwaitInv
    <3>3. QED
      BY <3>1, <3>2
  <2>2. ClientInv(cl)'
    BY <1>2, <1>3, <2>1 DEF ClientInv
  <2>3. PICK n \in ClientType : n = Notified(cl, p, o, last) /\ n = cl
    BY <1>5, NotifiedOther
  <2>4. QED
    BY <2>2, <2>3
<1>6. CASE Concerns(cl, p)
  <2>1. cl.items # <<>> /\ Target(cl) = p /\ p \in cl.wrote
    BY <1>6 DEF Concerns
  <2>2. cl.pc # "idle"
    BY <1>3, <2>1 DEF Shape
  <2>3. PICK first \in Item : first = Head(cl.items)
    BY <1>3, <2>2, ClientFacts
  <2>4. PICK e \in Event : /\ e = Tells(o, last)
                           /\ o = NoObject => e.type = "Deleted" /\ e.o = last
                           /\ o # NoObject => e.type = "Modified" /\ e.o = o
    BY TellsFacts
  <2>5. PICK reached \in SUBSET Packages :
          reached = IF Goal(cl, first, o) THEN cl.reached \union {p} ELSE cl.reached
    BY DEF ClientType
  <2>7. PICK events \in Seq(Event) :
          /\ events = IF cl.watch = "open" THEN Append(cl.events, e) ELSE cl.events
          /\ \A i \in 1..Len(events) : events[i] = e \/ (i \in 1..Len(cl.events) /\ events[i] = cl.events[i])
    BY EventsFacts
  <2>8. PICK n \in ClientType :
          /\ n = Told(cl, reached, events)
          /\ n.cmd = cl.cmd /\ n.pc = cl.pc /\ n.items = cl.items /\ n.watch = cl.watch /\ n.result = cl.result
          /\ n.targets = cl.targets /\ n.wrote = cl.wrote /\ n.reached = reached /\ n.events = events
    BY ToldFacts
  <2>9. n = Notified(cl, p, o, last)
    <3>1. /\ cl.watch = "open" => events = Append(cl.events, Tells(o, last))
          /\ cl.watch # "open" => events = cl.events
      BY <2>4, <2>7
    <3>2. /\ Goal(cl, Head(cl.items), o) => reached = cl.reached \union {p}
          /\ ~Goal(cl, Head(cl.items), o) => reached = cl.reached
      BY <2>3, <2>5
    <3>3. Notified(cl, p, o, last) = Told(cl, reached, events)
      BY <1>6, <3>1, <3>2, NotifiedMine
    <3>4. QED
      BY <2>8, <3>3
  <2>10. Shape(n)
    <3>1. cl.reached \subseteq n.reached
      BY <2>5, <2>8
    <3>2. cl.cmd \in Blocking => \A t \in cl.targets : t \in n.reached \/ \E i \in 1..Len(cl.items) : cl.items[i].pkg = t
      BY <1>3, <3>1 DEF Shape
    <3>3. QED
      BY <1>3, <2>8, <3>2 DEF Shape
  <2>11. AwaitInv(n)'
    <3>1. SUFFICES ASSUME cl.pc = "await", ~Goal(cl, first, o), p \notin cl.reached
                   PROVE  \A i \in 1..Len(events) : Outcome(cl, events[i]) # "ok"
      <4>1. Target(n) = p /\ Head(n.items) = first
        BY <2>1, <2>3, <2>8, SameGoal
      <4>2. CASE p \in n.reached
        BY <4>1, <4>2 DEF AwaitInv
      <4>3. CASE cl.pc # "await"
        BY <2>8, <4>3 DEF AwaitInv
      <4>4. CASE cl.pc = "await" /\ p \notin n.reached
        <5>1. ~Goal(cl, first, o) /\ p \notin cl.reached
          BY <2>5, <2>8, <4>4
        <5>2. \A i \in 1..Len(events) : Outcome(cl, events[i]) # "ok"
          BY <3>1, <4>4, <5>1
        <5>3. \A i \in 1..Len(n.events) : Outcome(n, n.events[i]) # "ok"
          BY <2>8, <5>2, SameGoal
        <5>4. ~Goal(n, Head(n.items), obj'[Target(n)])
          BY <1>4, <2>8, <4>1, <5>1, SameGoal
        <5>5. QED
          BY <5>3, <5>4 DEF AwaitInv
      <4>5. QED
        BY <4>2, <4>3, <4>4
    <3>2. /\ ~Goal(cl, first, last)
          /\ \A i \in 1..Len(cl.events) : Outcome(cl, cl.events[i]) # "ok"
      BY <1>3, <2>1, <2>3, <3>1 DEF AwaitInv
    <3>3. cl.cmd \in Blocking
      BY <1>3, <3>1 DEF Shape
    <3>4. Outcome(cl, e) # "ok"
      <4>1. SUFFICES ASSUME Outcome(cl, e) = "ok"
                     PROVE  FALSE
        OBVIOUS
      <4>2. e.o # NoObject
        BY <2>4
      <4>3. \/ cl.cmd = "uninstall" /\ e.type = "Deleted"
            \/ cl.cmd = "install" /\ e.type # "Deleted" /\ Goal(cl, first, e.o)
            \/ cl.cmd \in {"update", "autoUpdate"} /\ Goal(cl, first, e.o)
        BY <3>3, <4>1, <4>2, OutcomeIsGoal
      <4>4. CASE o = NoObject
        <5>1. cl.cmd # "uninstall"
          BY <3>1, <4>4 DEF Goal
        <5>2. QED
          BY <2>4, <3>2, <4>3, <4>4, <5>1
      <4>5. CASE o # NoObject
        BY <2>4, <3>1, <4>3, <4>5
      <4>6. QED
        BY <4>4, <4>5
    <3>5. QED
      BY <2>7, <3>2, <3>4
  <2>12. ClientInv(n)'
    BY <1>2, <2>8, <2>10, <2>11 DEF ClientInv
  <2>13. QED
    BY <2>9, <2>12
<1>7. QED
  BY <1>5, <1>6

LEMMA CommitStep ==
  ASSUME Inv, NEW p \in Packages, NEW o \in Package, NEW cls \in [Clients -> ClientType],
         \A d \in Clients : ClientInv(cls[d]), o = NoObject => obj[p] # NoObject,
         Commit(p, o, cls), store' = store, ns' \in BOOLEAN, updates' \in 0..MaxEvents
  PROVE  Inv'
<1>1. PICK w \in Nat : w = writes[p]
  BY TypeParts DEF Inv
<1>2. PICK new \in Package : /\ new = IF o = NoObject THEN o ELSE CopyStored(o, w + 1)
                             /\ new = NoObject \/ new.rv = w + 1
                             /\ new = NoObject => o = NoObject
  <2>1. CASE o = NoObject
    BY <2>1
  <2>2. CASE o # NoObject
    <3>1. PICK r \in Nat : r = w + 1 /\ r # 0
      OBVIOUS
    <3>2. PICK n \in Package : n = CopyStored(o, r) /\ n.rv = r
      BY CopyStoredFacts
    <3>3. n # NoObject
      BY <3>1, <3>2, NoObjectFacts
    <3>4. QED
      BY <2>2, <3>1, <3>2, <3>3
  <2>3. QED
    BY <2>1, <2>2
<1>3. PICK last \in Package : last = obj[p]
  BY TypeParts DEF Inv
<1>4. /\ obj' = [obj EXCEPT ![p] = new]
      /\ writes' = [writes EXCEPT ![p] = writes[p] + 1]
      /\ client' = [c \in Clients |-> Notified(cls[c], p, new, last)]
  BY <1>1, <1>2, <1>3 DEF Commit, CopyStored
<1>5. obj' \in [Packages -> Package] /\ writes' \in [Packages -> Nat]
  BY <1>4, TypeParts DEF Inv
<1>6. ObjectsMove
  <2>1. SUFFICES ASSUME NEW q \in Packages
                 PROVE  /\ writes'[q] >= writes[q] /\ obj'[q].rv <= writes'[q]
                        /\ obj'[q].rv = 0 => obj'[q] = NoObject
                        /\ obj'[q] = obj[q] \/ obj'[q] = NoObject \/ obj'[q].rv > writes[q]
    BY DEF ObjectsMove
  <2>2. CASE q = p
    <3>1. obj'[q] = new /\ writes'[q] = w + 1 /\ writes[q] = w
      BY <1>1, <1>4, <2>2, TypeParts DEF Inv
    <3>2. QED
      BY <1>2, <3>1, NoObjectFacts
  <2>3. CASE q # p
    <3>1. obj'[q] = obj[q] /\ writes'[q] = writes[q] /\ writes[q] \in Nat
      BY <1>4, <2>3, TypeParts DEF Inv
    <3>2. QED
      BY <3>1 DEF Inv, VersionsInv
  <2>4. QED
    BY <2>2, <2>3
<1>7. ASSUME NEW d \in Clients
      PROVE  client'[d] \in ClientType /\ ClientInv(client[d])'
  <2>1. PICK cl \in ClientType : cl = cls[d] /\ ClientInv(cl)
    OBVIOUS
  <2>2. new = NoObject => last # NoObject
    BY <1>2, <1>3
  <2>3. Notified(cl, p, new, last) \in ClientType /\ ClientInv(Notified(cl, p, new, last))'
    BY <1>3, <1>4, <1>5, <1>6, <2>1, <2>2, NotifiedInv DEF Inv
  <2>4. client'[d] = Notified(cl, p, new, last)
    BY <1>4, <2>1
  <2>5. PICK n \in ClientType : n = Notified(cl, p, new, last)
    BY <2>3
  <2>6. ClientInv(n)'
    BY <2>3, <2>5
  <2>7. QED
    BY <2>4, <2>5, <2>6
<1>8. VersionsInv' /\ StoreDiffersInAnnotations'
  BY <1>5, <1>6, StoreStays DEF Inv
<1>9. client' \in [Clients -> ClientType]
  BY <1>4, <1>7
<1>10. TypeOK'
  BY <1>5, <1>9, TypeParts, TypeStays DEF Inv
<1>11. QED
  BY <1>7, <1>8, <1>10 DEF Inv

-----------------------------------------------------------------------------
(* A command after its write.                                              *)

Wrote(cl, wrote) == [[cl EXCEPT !.wrote = wrote] EXCEPT !.pc = "watch"]

Rest(cl, items) == [cl EXCEPT !.items = items]

RestErr(cl, items) == [cl EXCEPT !.items = items, !.err = TRUE]

LEMMA WroteFacts ==
  ASSUME NEW cl \in ClientType, NEW wrote \in SUBSET Packages
  PROVE  LET n == Wrote(cl, wrote)
         IN /\ n \in ClientType
            /\ n.cmd = cl.cmd /\ n.pc = "watch" /\ n.items = cl.items /\ n.watch = cl.watch /\ n.result = cl.result
            /\ n.targets = cl.targets /\ n.wrote = wrote /\ n.reached = cl.reached
  BY DEF Wrote, ClientType

LEMMA RestRecord ==
  ASSUME NEW cl \in ClientType, NEW items \in Seq(Item)
  PROVE  LET n == Rest(cl, items)
         IN /\ n \in ClientType
            /\ n.cmd = cl.cmd /\ n.pc = cl.pc /\ n.items = items /\ n.watch = cl.watch /\ n.result = cl.result
            /\ n.targets = cl.targets /\ n.wrote = cl.wrote /\ n.reached = cl.reached
  BY DEF Rest, ClientType

LEMMA RestErrRecord ==
  ASSUME NEW cl \in ClientType, NEW items \in Seq(Item)
  PROVE  LET n == RestErr(cl, items)
         IN /\ n \in ClientType
            /\ n.cmd = cl.cmd /\ n.pc = cl.pc /\ n.items = items /\ n.watch = cl.watch /\ n.result = cl.result
            /\ n.targets = cl.targets /\ n.wrote = cl.wrote /\ n.reached = cl.reached
  BY DEF RestErr, ClientType

\* The command goes on with the rest of its items without waiting.
LEMMA RestInv ==
  ASSUME NEW cl \in ClientType, ClientInv(cl), cl.pc = "write", cl.cmd \notin Blocking, Len(cl.items) > 1,
         NEW n \in ClientType,
         n.cmd = cl.cmd, n.pc = cl.pc, n.items = Tail(cl.items), n.watch = cl.watch, n.result = cl.result,
         n.targets = cl.targets, n.wrote = cl.wrote, n.reached = cl.reached
  PROVE  ClientInv(n)
<1>1. cl.items \in Seq(Item) /\ Shape(cl)
  BY DEF ClientType, ClientInv
<1>2. PICK items \in Seq(Item) :
        /\ items = Tail(cl.items) /\ items # <<>> /\ Len(items) = Len(cl.items) - 1
        /\ \A i \in 1..Len(items) : items[i] = cl.items[i + 1] /\ i + 1 \in 1..Len(cl.items) /\ i + 1 # 1
  BY <1>1, RestFacts
<1>3. ASSUME NEW i \in 1..Len(items), NEW j \in 1..Len(items), items[i].pkg = items[j].pkg
      PROVE  i = j
  <2>1. i + 1 = j + 1
    BY <1>1, <1>2, <1>3 DEF Shape
  <2>2. QED
    BY <2>1
<1>4. \A i \in 1..Len(items) : items[i].pkg \notin cl.wrote
  BY <1>1, <1>2 DEF Shape
<1>5. /\ n.pc # "idle" /\ n.pc # "await" /\ ~(n.pc \in {"watch", "await"})
      /\ n.result = "none" /\ n.cmd # "none" /\ n.items # <<>> /\ n.watch = "none"
      /\ ~(n.cmd \in {"install", "uninstall"}) /\ n.cmd \notin Blocking
  <2>1. cl.result = "none" /\ cl.cmd # "none" /\ cl.watch = "none"
    BY <1>1 DEF Shape
  <2>2. ~(cl.cmd \in {"install", "uninstall"})
    BY DEF Blocking
  <2>3. QED
    BY <1>2, <2>1, <2>2
<1>6. /\ \A i, j \in 1..Len(n.items) : n.items[i].pkg = n.items[j].pkg => i = j
      /\ \A i \in 1..Len(n.items) : n.items[i].pkg \notin n.wrote
  BY <1>2, <1>3, <1>4
<1>7. Shape(n)
  BY <1>5, <1>6 DEF Shape
<1>8. \A i \in 1..Len(items) : ItemInv(cl.cmd, items[i])
  BY <1>2 DEF ClientInv
<1>9. QED
  BY <1>2, <1>5, <1>7, <1>8 DEF ClientInv, AwaitInv

LEMMA AfterWriteInv ==
  ASSUME NEW cl \in ClientType, ClientInv(cl), cl.pc = "write"
  PROVE  AfterWrite(cl) \in ClientType /\ ClientInv(AfterWrite(cl))
<1>1. Shape(cl) /\ cl.items \in Seq(Item) /\ cl.wrote \in SUBSET Packages
  BY DEF ClientType, ClientInv
<1>2. PICK waits \in BOOLEAN :
        waits <=> \/ cl.cmd \in {"update", "autoUpdate"}
                  \/ cl.cmd \in {"install", "uninstall"} /\ cl.wait /\ ~cl.dry
  OBVIOUS
<1>3. CASE waits
  <2>1. PICK p \in Packages : p = Target(cl) /\ p = cl.items[1].pkg /\ Len(cl.items) \in Nat /\ Len(cl.items) >= 1
    BY <1>1, ClientFacts
  <2>2. PICK wrote \in SUBSET Packages : wrote = cl.wrote \union {p}
    BY <1>1
  <2>3. PICK n \in ClientType :
          /\ n = Wrote(cl, wrote)
          /\ n.cmd = cl.cmd /\ n.pc = "watch" /\ n.items = cl.items /\ n.watch = cl.watch /\ n.result = cl.result
          /\ n.targets = cl.targets /\ n.wrote = wrote /\ n.reached = cl.reached
    BY WroteFacts
  <2>4. AfterWrite(cl) = n
    <3>1. AfterWrite(cl) = [[cl EXCEPT !.wrote = cl.wrote \union {Target(cl)}] EXCEPT !.pc = "watch"]
      BY <1>2, <1>3 DEF AfterWrite
    <3>2. QED
      BY <2>1, <2>2, <2>3, <3>1 DEF Wrote
  <2>5. cl.cmd \in Blocking
    BY <1>2, <1>3 DEF Blocking
  <2>6. \A i \in 1..Len(cl.items) : cl.items[i].pkg \in wrote <=> i = 1
    <3>1. 1 \in 1..Len(cl.items)
      BY <2>1
    <3>2. \A i \in 1..Len(cl.items) : cl.items[i].pkg \notin cl.wrote
      BY <1>1 DEF Shape
    <3>3. \A i \in 1..Len(cl.items) : cl.items[i].pkg = p <=> i = 1
      BY <1>1, <2>1, <3>1 DEF Shape
    <3>4. QED
      BY <2>2, <3>2, <3>3
  <2>7. Shape(n)
    <3>1. cl.items # <<>> /\ cl.result = "none" /\ cl.cmd # "none" /\ cl.watch = "none"
      BY <1>1 DEF Shape
    <3>2. /\ cl.cmd \in {"install", "uninstall"} => Len(cl.items) <= 1
          /\ \A i, j \in 1..Len(cl.items) : cl.items[i].pkg = cl.items[j].pkg => i = j
          /\ \A t \in cl.targets : t \in cl.reached \/ \E i \in 1..Len(cl.items) : cl.items[i].pkg = t
      BY <1>1, <2>5 DEF Shape
    <3>3. QED
      BY <2>3, <2>5, <2>6, <3>1, <3>2 DEF Shape
  <2>8. ClientInv(n)
    BY <2>3, <2>7 DEF ClientInv, AwaitInv
  <2>9. QED
    BY <2>4, <2>8
<1>4. CASE ~waits /\ Len(cl.items) > 1
  <2>1. PICK items \in Seq(Item) : items = Tail(cl.items)
    BY <1>1, <1>4, RestFacts
  <2>2. PICK n \in ClientType :
          /\ n = Rest(cl, items)
          /\ n.cmd = cl.cmd /\ n.pc = cl.pc /\ n.items = items /\ n.watch = cl.watch /\ n.result = cl.result
          /\ n.targets = cl.targets /\ n.wrote = cl.wrote /\ n.reached = cl.reached
    BY RestRecord
  <2>3. AfterWrite(cl) = n
    <3>1. AfterWrite(cl) = [cl EXCEPT !.items = Tail(cl.items)]
      BY <1>2, <1>4 DEF AfterWrite
    <3>2. QED
      BY <2>1, <2>2, <3>1 DEF Rest
  <2>4. cl.cmd \notin Blocking
    <3>1. Len(cl.items) \in Nat
      BY <1>1
    <3>2. cl.cmd \notin {"install", "uninstall"}
      BY <1>1, <1>4, <3>1 DEF Shape
    <3>3. QED
      BY <1>2, <1>4, <3>2 DEF Blocking
  <2>5. ClientInv(n)
    BY <1>4, <2>1, <2>2, <2>4, RestInv
  <2>6. QED
    BY <2>3, <2>5
<1>5. CASE ~waits /\ ~(Len(cl.items) > 1)
  <2>1. PICK r \in {"none", "ok", "error"} : r = IF cl.err THEN "error" ELSE "ok"
    OBVIOUS
  <2>2. AfterWrite(cl) = End(cl, r)
    BY <1>2, <1>5, <2>1 DEF AfterWrite
  <2>3. QED
    BY <2>2, EndFacts
<1>6. QED
  BY <1>3, <1>4, <1>5

LEMMA AfterErrorInv ==
  ASSUME NEW cl \in ClientType, ClientInv(cl), cl.pc = "write"
  PROVE  AfterError(cl) \in ClientType /\ ClientInv(AfterError(cl))
<1>1. CASE cl.cmd = "enable" /\ Len(cl.items) > 1
  <2>1. cl.items \in Seq(Item) /\ cl.cmd \notin Blocking
    BY <1>1 DEF ClientType, Blocking
  <2>2. PICK items \in Seq(Item) : items = Tail(cl.items)
    BY <1>1, <2>1, RestFacts
  <2>3. PICK n \in ClientType :
          /\ n = RestErr(cl, items)
          /\ n.cmd = cl.cmd /\ n.pc = cl.pc /\ n.items = items /\ n.watch = cl.watch /\ n.result = cl.result
          /\ n.targets = cl.targets /\ n.wrote = cl.wrote /\ n.reached = cl.reached
    BY RestErrRecord
  <2>4. AfterError(cl) = n
    BY <1>1, <2>2, <2>3 DEF AfterError, RestErr
  <2>5. ClientInv(n)
    BY <1>1, <2>1, <2>2, <2>3, RestInv
  <2>6. QED
    BY <2>4, <2>5
<1>2. CASE ~(cl.cmd = "enable" /\ Len(cl.items) > 1)
  <2>1. AfterError(cl) = End(cl, "error")
    BY <1>2 DEF AfterError
  <2>2. QED
    BY <2>1, EndFacts
<1>3. QED
  BY <1>1, <1>2

\* The objects that a write makes of the one that is stored.
Written(o, mine) ==
  [o EXCEPT !.version = mine.version, !.values = mine.values, !.auto = mine.auto, !.suspend = mine.suspend]

Marked(o) == [o EXCEPT !.deleting = TRUE]

Created(mine, uid) == [mine EXCEPT !.uid = uid]

LEMMA WrittenFacts ==
  ASSUME NEW o \in Package, NEW mine \in Package
  PROVE  LET n == Written(o, mine)
         IN /\ n \in Package /\ n.uid = o.uid /\ n.version = mine.version /\ n.values = mine.values
            /\ (n.auto <=> mine.auto) /\ (n.suspend <=> mine.suspend) /\ (n.deleting <=> o.deleting)
            /\ n.status = o.status /\ n.ready = o.ready
<1>1. PICK v \in 0..Latest, w \in {0, 1}, a \in BOOLEAN, b \in BOOLEAN :
        v = mine.version /\ w = mine.values /\ a = mine.auto /\ b = mine.suspend
  BY DEF Package
<1>2. LET n == [o EXCEPT !.version = v, !.values = w, !.auto = a, !.suspend = b]
      IN /\ n \in Package /\ n.uid = o.uid /\ n.version = v /\ n.values = w
         /\ (n.auto <=> a) /\ (n.suspend <=> b) /\ (n.deleting <=> o.deleting)
         /\ n.status = o.status /\ n.ready = o.ready
  BY DEF Package
<1>3. QED
  BY <1>1, <1>2 DEF Written

LEMMA MarkedFacts ==
  ASSUME NEW o \in Package
  PROVE  LET n == Marked(o)
         IN /\ n \in Package /\ n.uid = o.uid /\ n.version = o.version /\ n.values = o.values
            /\ (n.auto <=> o.auto) /\ (n.suspend <=> o.suspend)
            /\ n.status = o.status /\ n.ready = o.ready
  BY DEF Marked, Package

LEMMA CreatedFacts ==
  ASSUME NEW mine \in Package, NEW uid \in Nat
  PROVE  Created(mine, uid) \in Package
  BY DEF Created, Package

\* What a write of an item may store.
LEMMA EffectsFacts ==
  ASSUME Inv, NEW cl \in ClientType, ClientInv(cl), cl.pc = "write", NEW o \in Effects(cl),
         NEW p \in Packages, p = Target(cl), NEW mine \in Package, mine = Mine(cl)
  PROVE  /\ o \in Package
         /\ \/ o = obj[p]
            \/ Creates(cl)
            \/ Deletes(cl) /\ (o = Marked(obj[p]) \/ o = NoObject)
            \/ ~Creates(cl) /\ ~Deletes(cl) /\ o = Written(obj[p], mine)
<1>1. obj[p] \in Package /\ writes[p] \in Nat
  BY TypeParts DEF Inv
<1>2. CASE cl.dry
  BY <1>1, <1>2 DEF Effects
<1>3. CASE ~cl.dry /\ Creates(cl)
  <2>1. o = Created(mine, writes[p] + 1)
    <3>1. ~Deletes(cl)
      BY <1>3 DEF Creates, Deletes
    <3>2. QED
      BY <1>3, <3>1 DEF Effects, Created
  <2>2. PICK u \in Nat : u = writes[p] + 1
    BY <1>1
  <2>3. QED
    BY <1>3, <2>1, <2>2, CreatedFacts
<1>4. CASE ~cl.dry /\ Deletes(cl)
  <2>1. ~Creates(cl)
    BY <1>4 DEF Creates, Deletes
  <2>2. o = Marked(obj[p]) \/ o = NoObject
    BY <1>4, <2>1 DEF Effects, Marked
  <2>3. QED
    BY <1>1, <1>4, <2>2, MarkedFacts, NoObjectFacts
<1>5. CASE ~cl.dry /\ ~Creates(cl) /\ ~Deletes(cl)
  <2>1. o = Written(obj[p], mine)
    <3>1. Effects(cl) = {Written(obj[Target(cl)], Mine(cl))}
      BY <1>5, Zenon DEF Effects, Written
    <3>2. QED
      BY <3>1
  <2>2. QED
    BY <1>1, <1>5, <2>1, WrittenFacts
<1>6. QED
  BY <1>2, <1>3, <1>4, <1>5

LEMMA StoreStep ==
  ASSUME Inv, NEW c \in Clients, NEW cl \in ClientType, NEW p \in Packages, p = Target(cl),
         NEW o \in Package, NEW n \in ClientType, ClientInv(n), Store(cl, o, With(c, n)),
         UNCHANGED <<store, ns, updates>>
  PROVE  Inv'
<1>1. ns' \in BOOLEAN /\ updates' \in 0..MaxEvents
  BY TypeParts DEF Inv
<1>2. CASE o = obj[p]
  <2>1. client' = With(c, n) /\ UNCHANGED <<obj, writes>>
    BY <1>2 DEF Store
  <2>2. QED
    BY <1>1, <2>1, StoreSame, OneClient
<1>3. CASE o # obj[p]
  <2>1. Commit(p, o, With(c, n))
    BY <1>3 DEF Store
  <2>2. PICK cls \in [Clients -> ClientType] : cls = With(c, n) /\ \A d \in Clients : cls[d] = IF d = c THEN n ELSE client[d]
    <3>1. client \in [Clients -> ClientType]
      BY TypeParts DEF Inv
    <3>2. With(c, n) \in [Clients -> ClientType] /\ \A d \in Clients : With(c, n)[d] = IF d = c THEN n ELSE client[d]
      BY <3>1 DEF With
    <3>3. QED
      BY <3>2
  <2>3. \A d \in Clients : ClientInv(cls[d])
    <3>1. SUFFICES ASSUME NEW d \in Clients
                   PROVE  ClientInv(cls[d])
      OBVIOUS
    <3>2. CASE d = c
      BY <2>2, <3>2
    <3>3. CASE d # c
      BY <2>2, <3>3 DEF Inv
    <3>4. QED
      BY <3>2, <3>3
  <2>4. o = NoObject => obj[p] # NoObject
    BY <1>3
  <2>5. QED
    BY <1>1, <2>1, <2>2, <2>3, <2>4, CommitStep
<1>4. QED
  BY <1>2, <1>3

LEMMA WriteInv ==
  ASSUME Inv, NEW c \in Clients, Write(c)
  PROVE  Inv'
<1>1. PICK cl \in ClientType : cl = client[c] /\ ClientInv(cl) /\ cl.pc = "write"
  BY TypeParts DEF Inv, Write
<1>2. PICK p \in Packages, mine \in Package : p = Target(cl) /\ mine = Mine(cl)
  BY <1>1, ClientFacts DEF ClientInv
<1>3. PICK o \in Effects(cl) : Store(cl, o, With(c, AfterWrite(cl))) /\ UNCHANGED <<store, ns, updates>>
  BY <1>1 DEF Write
<1>4. o \in Package
  BY <1>1, <1>2, <1>3, EffectsFacts
<1>5. PICK n \in ClientType : n = AfterWrite(cl) /\ ClientInv(n)
  BY <1>1, AfterWriteInv
<1>6. QED
  BY <1>2, <1>3, <1>4, <1>5, StoreStep

LEMMA WriteFailsInv ==
  ASSUME Inv, NEW c \in Clients, WriteFails(c)
  PROVE  Inv'
<1>1. PICK cl \in ClientType : cl = client[c] /\ ClientInv(cl) /\ cl.pc = "write"
  BY TypeParts DEF Inv, WriteFails
<1>2. PICK p \in Packages, mine \in Package : p = Target(cl) /\ mine = Mine(cl)
  BY <1>1, ClientFacts DEF ClientInv
<1>3. PICK n \in ClientType : n = AfterError(cl) /\ ClientInv(n)
  BY <1>1, AfterErrorInv
<1>4. UNCHANGED <<store, ns, updates>>
  BY DEF WriteFails
<1>5. CASE client' = With(c, n) /\ UNCHANGED <<obj, writes>>
  <2>1. ns' \in BOOLEAN
    BY <1>4, TypeParts DEF Inv
  <2>2. QED
    BY <1>3, <1>4, <1>5, <2>1, StoreSame, OneClient
<1>6. CASE \E o \in Effects(cl) : Store(cl, o, With(c, n))
  <2>1. PICK o \in Effects(cl) : Store(cl, o, With(c, n))
    BY <1>6
  <2>2. o \in Package
    BY <1>1, <1>2, <2>1, EffectsFacts
  <2>3. QED
    BY <1>2, <1>3, <1>4, <2>1, <2>2, StoreStep
<1>7. QED
  BY <1>1, <1>3, <1>5, <1>6 DEF WriteFails

-----------------------------------------------------------------------------
(* The operator and the informer.                                          *)

Reported(o, ready, status) == [o EXCEPT !.ready = ready, !.status = status]

LEMMA ReportedFacts ==
  ASSUME NEW o \in Package, NEW ready \in {"ready", "failed"}, NEW status \in 0..Latest
  PROVE  Reported(o, ready, status) \in Package
  BY DEF Reported, Package

LEMMA ClientsInv ==
  ASSUME Inv
  PROVE  client \in [Clients -> ClientType] /\ \A d \in Clients : ClientInv(client[d])
  BY TypeParts DEF Inv

LEMMA ReconcileInv ==
  ASSUME Inv, NEW p \in Packages, NEW ready \in {"ready", "failed"}, Reconcile(p, ready)
  PROVE  Inv'
<1>1. PICK o \in Package : o = obj[p] /\ o # NoObject
  BY TypeParts DEF Inv, Reconcile, Exists
<1>2. PICK status \in 0..Latest : status = IF ready = "ready" THEN o.version ELSE o.status
  BY DEF Package
<1>3. PICK n \in Package : n = Reported(o, ready, status)
  BY ReportedFacts
<1>4. Commit(p, n, client)
  <2>1. Commit(p, Reported(obj[p], ready, IF ready = "ready" THEN obj[p].version ELSE obj[p].status), client)
    BY DEF Reconcile, Reported
  <2>2. QED
    BY <1>1, <1>2, <1>3, <2>1
<1>5. store' = store /\ ns' \in BOOLEAN
  BY TypeParts DEF Inv, Reconcile
<1>6. updates' \in 0..MaxEvents
  <2>1. updates \in 0..MaxEvents /\ updates < MaxEvents /\ updates' = updates + 1
    BY TypeParts DEF Inv, Reconcile
  <2>2. QED
    BY <2>1, ClientsAssumption
<1>7. PICK cls \in [Clients -> ClientType] : cls = client /\ \A d \in Clients : ClientInv(cls[d])
  BY ClientsInv
<1>8. QED
  BY <1>1, <1>4, <1>5, <1>6, <1>7, CommitStep

LEMMA FinalizeInv ==
  ASSUME Inv, NEW p \in Packages, Finalize(p)
  PROVE  Inv'
<1>1. PICK o \in Package : o = NoObject
  BY NoObjectFacts
<1>2. obj[p] # NoObject
  BY DEF Finalize, NoObject
<1>3. Commit(p, o, client) /\ store' = store
  BY <1>1 DEF Finalize
<1>4. ns' \in BOOLEAN /\ updates' \in 0..MaxEvents
  BY TypeParts DEF Inv, Finalize
<1>5. PICK cls \in [Clients -> ClientType] : cls = client /\ \A d \in Clients : ClientInv(cls[d])
  BY ClientsInv
<1>6. QED
  BY <1>2, <1>3, <1>4, <1>5, CommitStep

LEMMA SameAuto ==
  ASSUME NEW o \in Package
  PROVE  [o EXCEPT !.auto = o.auto] = o
  BY DEF Package

\* The store changes while the API server and the clients do not.
LEMMA ClientsStay ==
  ASSUME Inv, UNCHANGED <<obj, writes, client>>
  PROVE  \A d \in Clients : ClientInv(client[d])'
<1>1. SUFFICES ASSUME NEW d \in Clients
               PROVE  ClientInv(client[d])'
  OBVIOUS
<1>2. PICK cl \in ClientType : cl = client[d] /\ cl = client'[d] /\ ClientInv(cl)
  BY TypeParts DEF Inv
<1>3. \A i \in 1..Len(cl.items) : ItemInv(cl.cmd, cl.items[i])'
  BY <1>2 DEF ClientInv, ItemInv, Exists
<1>4. AwaitInv(cl)'
  BY <1>2 DEF ClientInv, AwaitInv
<1>5. ClientInv(cl)'
  BY <1>2, <1>3, <1>4 DEF ClientInv
<1>6. QED
  BY <1>2, <1>5

LEMMA InformerInv ==
  ASSUME Inv, NEW p \in Packages, Informer(p)
  PROVE  Inv'
<1>1. store' = [store EXCEPT ![p] = obj[p]] /\ UNCHANGED <<obj, ns, writes, updates, client>>
  BY DEF Informer
<1>2. /\ store' \in [Packages -> Package] /\ store'[p] = obj[p] /\ obj[p] \in Package
      /\ \A q \in Packages : q # p => store'[q] = store[q]
  BY <1>1, TypeParts DEF Inv
<1>3. TypeOK'
  BY <1>1, <1>2, TypeParts, TypeStays DEF Inv
<1>4. VersionsInv'
  BY <1>1, <1>2 DEF Inv, VersionsInv
<1>5. StoreDiffersInAnnotations'
  <2>1. SUFFICES ASSUME NEW q \in Packages, store'[q].rv = obj[q].rv
                 PROVE  [store'[q] EXCEPT !.auto = obj[q].auto] = obj[q]
    BY <1>1 DEF StoreDiffersInAnnotations
  <2>2. CASE q = p
    BY <1>2, <2>2, SameAuto
  <2>3. CASE q # p
    BY <1>2, <2>1, <2>3 DEF Inv, StoreDiffersInAnnotations
  <2>4. QED
    BY <2>2, <2>3
<1>6. QED
  BY <1>1, <1>3, <1>4, <1>5, ClientsStay DEF Inv

-----------------------------------------------------------------------------
(* The invariant.                                                          *)

LEMMA InstalledFacts ==
  /\ Installed \in Package /\ Installed.rv = 1
<1>1. 1 \in 0..Latest
  BY ClientsAssumption
<1>2. ASSUME NEW o \in Package, NEW v \in 0..Latest
      PROVE  LET n == [o EXCEPT !.uid = 1, !.rv = 1, !.version = v, !.auto = TRUE, !.status = v, !.ready = "ready"]
             IN n \in Package /\ n.rv = 1
  BY DEF Package
<1>3. QED
  BY <1>1, <1>2, NoObjectFacts DEF Installed

LEMMA InitInv ==
  ASSUME Init
  PROVE  Inv
<1>1. \A p \in Packages : obj[p] \in {NoObject, Installed} /\ writes[p] = 1
  BY DEF Init
<1>2. obj \in [Packages -> Package] /\ writes \in [Packages -> Nat] /\ ns \in BOOLEAN /\ updates \in 0..MaxEvents
  BY NoObjectFacts, InstalledFacts, ClientsAssumption DEF Init
<1>3. \A p \in Packages : obj[p] \in Package /\ (store[p] = obj[p] \/ store[p] = CopyAuto(obj[p], FALSE))
  BY <1>2 DEF Init, CopyAuto
<1>4. ASSUME NEW o \in Package
      PROVE  /\ CopyAuto(o, FALSE) \in Package /\ CopyAuto(o, FALSE).rv = o.rv
             /\ [CopyAuto(o, FALSE) EXCEPT !.auto = o.auto] = o
             /\ o = NoObject => CopyAuto(o, FALSE) = o
  <2>1. CopyAuto(o, FALSE) \in Package /\ CopyAuto(o, FALSE).rv = o.rv
    BY CopyAutoFacts
  <2>2. [CopyAuto(o, FALSE) EXCEPT !.auto = o.auto] = o
    BY DEF CopyAuto, Package
  <2>3. CopyAuto(NoObject, FALSE) = NoObject
    <3>1. PICK b \in Package, f \in BOOLEAN : b = NoObject /\ f = FALSE /\ ~b.auto
      BY NoObjectFacts
    <3>2. CopyAuto(b, f) = b
      BY <3>1, CopyAutoFacts, PackageFields
    <3>3. QED
      BY <3>1, <3>2
  <2>4. QED
    BY <2>1, <2>2, <2>3
<1>5. \A p \in Packages : store[p] \in Package /\ store[p].rv = obj[p].rv
  BY <1>3, <1>4
<1>6. store \in [Packages -> Package]
  <2>1. store = [p \in Packages |-> store[p]]
    BY <1>2 DEF Init
  <2>2. QED
    BY <1>5, <2>1
<1>7. VersionsInv
  <2>1. SUFFICES ASSUME NEW p \in Packages
                 PROVE  /\ obj[p].rv <= writes[p] /\ store[p].rv <= writes[p]
                        /\ obj[p].rv = 0 => obj[p] = NoObject
                        /\ store[p].rv = 0 => store[p] = NoObject
    BY DEF VersionsInv
  <2>2. obj[p] = NoObject \/ obj[p] = Installed
    BY <1>1
  <2>3. obj[p].rv <= 1 /\ (obj[p].rv = 0 => obj[p] = NoObject)
    BY <2>2, NoObjectFacts, InstalledFacts
  <2>4. obj[p] = NoObject => store[p] = NoObject
    BY <1>3, <1>4
  <2>5. QED
    BY <1>1, <1>5, <2>3, <2>4
<1>8. StoreDiffersInAnnotations
  <2>1. SUFFICES ASSUME NEW p \in Packages
                 PROVE  [store[p] EXCEPT !.auto = obj[p].auto] = obj[p]
    BY DEF StoreDiffersInAnnotations
  <2>2. CASE store[p] = obj[p]
    BY <1>3, <2>2, SameAuto
  <2>3. CASE store[p] = CopyAuto(obj[p], FALSE)
    BY <1>3, <1>4, <2>3
  <2>4. QED
    BY <1>3, <2>2, <2>3
<1>9. client \in [Clients -> ClientType] /\ \A c \in Clients : ClientInv(client[c])
  <2>1. PICK n \in ClientType : n = Idle(0, "none") /\ ClientInv(n)
    BY IdleFacts
  <2>2. client = [c \in Clients |-> n]
    BY <2>1 DEF Init
  <2>3. QED
    BY <2>1, <2>2
<1>10. TypeOK
  BY <1>2, <1>6, <1>9 DEF TypeOK, ClientType
<1>11. QED
  BY <1>7, <1>8, <1>9, <1>10 DEF Inv

LEMMA CommandInv ==
  ASSUME Inv, NEW c \in Clients, Command(c)
  PROVE  Inv'
<1>1. CASE \E p \in Packages, option \in Options, dry, wait \in BOOLEAN : Install(c, p, option, dry, wait)
  BY <1>1, InstallInv
<1>2. CASE \E ps \in SUBSET Packages, version \in Versions, dry \in BOOLEAN : Update(c, ps, version, dry)
  <2>1. PICK ps \in SUBSET Packages, version \in Versions, dry \in BOOLEAN : Update(c, ps, version, dry)
    BY <1>2
  <2>2. PICK cmd \in {"update", "autoUpdate"}, conflicts \in SUBSET Packages : cmd = "update" /\ conflicts = {}
    OBVIOUS
  <2>3. Prepare(c, cmd, ps, version, conflicts, dry)
    BY <2>1, <2>2 DEF Update
  <2>4. QED
    BY <2>3, PrepareInv
<1>3. CASE \E conflicts \in SUBSET Packages : AutoUpdate(c, conflicts)
  <2>1. PICK conflicts \in SUBSET Packages : AutoUpdate(c, conflicts)
    BY <1>3
  <2>2. PICK ps \in SUBSET Packages : ps = {p \in Packages : obj[p].auto}
    OBVIOUS
  <2>3. PICK cmd \in {"update", "autoUpdate"}, version \in Versions, dry \in BOOLEAN :
          cmd = "autoUpdate" /\ version = Latest /\ dry = FALSE
    <3>1. Latest \in Versions
      BY ClientsAssumption DEF Versions
    <3>2. QED
      BY <3>1
  <2>4. Prepare(c, cmd, ps, version, conflicts, dry)
    BY <2>1, <2>2, <2>3 DEF AutoUpdate
  <2>5. QED
    BY <2>4, PrepareInv
<1>4. CASE \E ps \in SUBSET Packages, enabled \in BOOLEAN : EnableOrDisable(c, ps, enabled)
  BY <1>4, EnableOrDisableInv
<1>5. CASE \E p \in Packages, option \in Options, dry \in BOOLEAN : Configure(c, p, option, dry)
  BY <1>5, ConfigureInv
<1>6. CASE \E p \in Packages, suspend \in BOOLEAN : Suspend(c, p, suspend)
  BY <1>6, SuspendInv
<1>7. CASE \E p \in Packages, dry, wait \in BOOLEAN : Uninstall(c, p, dry, wait)
  BY <1>7, UninstallInv
<1>8. QED
  BY <1>1, <1>2, <1>3, <1>4, <1>5, <1>6, <1>7 DEF Command

LEMMA RequestInv ==
  ASSUME Inv, NEW c \in Clients, Request(c)
  PROVE  Inv'
<1>1. CASE \E p \in Packages, option \in Options, dry \in BOOLEAN : WebInstall(c, p, option, dry)
  BY <1>1, WebInstallInv
<1>2. CASE \E p \in Packages, option \in Options, dry \in BOOLEAN : WebConfigure(c, p, option, dry)
  BY <1>2, WebConfigureInv
<1>3. CASE \E p \in Packages, suspend, gitops \in BOOLEAN : WebSuspend(c, p, suspend, gitops)
  BY <1>3, WebSuspendInv
<1>4. CASE \E p \in Packages : WebUninstall(c, p)
  BY <1>4, WebUninstallInv
<1>5. QED
  BY <1>1, <1>2, <1>3, <1>4 DEF Request

LEMMA StepInv ==
  ASSUME Inv, NEW c \in Clients, Step(c)
  PROVE  Inv'
  BY ConfirmInv, RefuseInv, CreateNamespaceInv, WriteInv, WriteFailsInv, WatchInv, AwaitInvStep, AwaitEndsInv
     DEF Step, Prompted

LEMMA StutterInv ==
  ASSUME Inv, UNCHANGED vars
  PROVE  Inv'
<1>1. UNCHANGED <<obj, store, ns, writes, updates, client>>
  BY DEF vars
<1>2. TypeOK'
  BY <1>1 DEF Inv, TypeOK
<1>3. QED
  BY <1>1, <1>2, StoreSame, ClientsStay DEF Inv

LEMMA NextInv ==
  ASSUME Inv, [Next]_vars
  PROVE  Inv'
<1>1. Cli \subseteq Clients /\ Web \subseteq Clients
  BY DEF Clients
<1>2. CASE \E c \in Cli : Command(c)
  BY <1>1, <1>2, CommandInv
<1>3. CASE \E c \in Web : Request(c)
  BY <1>1, <1>3, RequestInv
<1>4. CASE \E c \in Clients : Step(c) \/ WatchCloses(c)
  BY <1>4, StepInv, WatchClosesInv
<1>5. CASE \E p \in Packages : Finalize(p) \/ Informer(p)
  BY <1>5, FinalizeInv, InformerInv
<1>6. CASE \E p \in Packages, ready \in {"ready", "failed"} : Reconcile(p, ready)
  BY <1>6, ReconcileInv
<1>7. CASE UNCHANGED vars
  BY <1>7, StutterInv
<1>8. QED
  BY <1>2, <1>3, <1>4, <1>5, <1>6, <1>7 DEF Next

\* The invariant of the clients, the API server and the store.
THEOREM ClientsCorrect == Spec => []Inv
<1>1. Init => Inv
  BY InitInv
<1>2. Inv /\ [Next]_vars => Inv'
  BY NextInv
<1>3. QED
  BY <1>1, <1>2, PTL DEF Spec

\* What web handlers read through the store shares nothing but its annotations
\* with what the informer stored, whatever requests fail half-way.
THEOREM StoreCorrect == Spec => []StoreInv
<1>1. Inv => StoreInv
  BY DEF Inv, StoreInv
<1>2. QED
  BY <1>1, ClientsCorrect, PTL

-----------------------------------------------------------------------------
(* Who changes the record of a client.                                     *)

LEMMA BeginIsLocal ==
  ASSUME NEW d, NEW cmd, NEW pc, NEW items, NEW dry, NEW wait, NEW createNs,
         Begin(d, cmd, pc, items, dry, wait, createNs)
  PROVE  Ready(d) /\ \E x : client' = With(d, x)
  BY Zenon DEF Begin, Local

LEMMA CommandIsLocal ==
  ASSUME NEW d, Command(d)
  PROVE  Ready(d) /\ \E x : client' = With(d, x)
<1>1. ASSUME NEW p, NEW option, NEW dry, NEW wait, Install(d, p, option, dry, wait)
      PROVE  Ready(d) /\ \E x : client' = With(d, x)
  BY <1>1, BeginIsLocal, Zenon DEF Install
<1>2. ASSUME NEW cmd, NEW ps, NEW version, NEW conflicts, NEW dry, Prepare(d, cmd, ps, version, conflicts, dry)
      PROVE  Ready(d) /\ \E x : client' = With(d, x)
  BY <1>2, BeginIsLocal, Zenon DEF Prepare, Local
<1>3. ASSUME NEW ps, NEW enabled, EnableOrDisable(d, ps, enabled)
      PROVE  Ready(d) /\ \E x : client' = With(d, x)
  BY <1>3, BeginIsLocal, Zenon DEF EnableOrDisable
<1>4. ASSUME NEW p, NEW option, NEW dry, Configure(d, p, option, dry)
      PROVE  Ready(d) /\ \E x : client' = With(d, x)
  BY <1>4, BeginIsLocal, Zenon DEF Configure
<1>5. ASSUME NEW p, NEW suspend, Suspend(d, p, suspend)
      PROVE  Ready(d) /\ \E x : client' = With(d, x)
  BY <1>5, BeginIsLocal, Zenon DEF Suspend
<1>6. ASSUME NEW p, NEW dry, NEW wait, Uninstall(d, p, dry, wait)
      PROVE  Ready(d) /\ \E x : client' = With(d, x)
  BY <1>6, BeginIsLocal, Zenon DEF Uninstall
<1>7. QED
  BY <1>1, <1>2, <1>3, <1>4, <1>5, <1>6, Zenon DEF Command, Update, AutoUpdate

LEMMA RequestIsLocal ==
  ASSUME NEW d, Request(d)
  PROVE  Ready(d) /\ \E x : client' = With(d, x)
<1>1. ASSUME NEW p, NEW option, NEW dry, WebInstall(d, p, option, dry)
      PROVE  Ready(d) /\ \E x : client' = With(d, x)
  BY <1>1, BeginIsLocal, Zenon DEF WebInstall
<1>2. ASSUME NEW p, NEW option, NEW dry, WebConfigure(d, p, option, dry)
      PROVE  Ready(d) /\ \E x : client' = With(d, x)
  BY <1>2, BeginIsLocal, Zenon DEF WebConfigure
<1>3. ASSUME NEW p, NEW suspend, NEW gitops, WebSuspend(d, p, suspend, gitops)
      PROVE  Ready(d) /\ \E x : client' = With(d, x)
  BY <1>3, BeginIsLocal, Zenon DEF WebSuspend
<1>4. ASSUME NEW p, WebUninstall(d, p)
      PROVE  Ready(d) /\ \E x : client' = With(d, x)
  BY <1>4, BeginIsLocal, Zenon DEF WebUninstall
<1>5. QED
  BY <1>1, <1>2, <1>3, <1>4, Zenon DEF Request

\* What another client sees of a step: nothing, or that something was stored.
Sees(c) ==
  \/ client'[c] = client[c]
  \/ \E p, o, last : client'[c] = Notified(client[c], p, o, last)

LEMMA WithOther ==
  ASSUME Inv, NEW c \in Clients, NEW d, c # d, NEW x
  PROVE  With(d, x)[c] = client[c]
  BY TypeParts DEF Inv, With

LEMMA CommitSeen ==
  ASSUME NEW c \in Clients, NEW p, NEW o, NEW cls, Commit(p, o, cls), cls[c] = client[c]
  PROVE  Sees(c)
<1>1. \E new, last : client' = [d \in Clients |-> Notified(cls[d], p, new, last)]
  BY Zenon DEF Commit
<1>2. QED
  BY <1>1 DEF Sees

LEMMA StepSeen ==
  ASSUME Inv, NEW c \in Clients, NEW d \in Clients, c # d, Step(d) \/ WatchCloses(d)
  PROVE  Sees(c)
<1>1. ASSUME NEW x, client' = With(d, x)
      PROVE  Sees(c)
  BY <1>1, WithOther DEF Sees
<1>2. ASSUME NEW x, NEW o, Store(client[d], o, With(d, x))
      PROVE  Sees(c)
  <2>1. CASE client' = With(d, x)
    BY <1>1, <2>1
  <2>2. CASE Commit(Target(client[d]), o, With(d, x))
    <3>1. PICK cls : cls = With(d, x) /\ cls[c] = client[c]
      BY WithOther
    <3>2. QED
      BY <2>2, <3>1, CommitSeen
  <2>3. QED
    BY <1>2, <2>1, <2>2 DEF Store
<1>3. CASE Confirm(d)
  BY <1>1, <1>3, Zenon DEF Confirm, Local
<1>4. CASE Refuse(d)
  BY <1>1, <1>4, Zenon DEF Refuse, Local
<1>5. CASE CreateNamespace(d)
  BY <1>1, <1>5, Zenon DEF CreateNamespace
<1>6. CASE Write(d)
  BY <1>2, <1>6, Zenon DEF Write
<1>7. CASE WriteFails(d)
  BY <1>1, <1>2, <1>7, Zenon DEF WriteFails
<1>8. CASE Watch(d)
  BY <1>1, <1>8, Zenon DEF Watch, Local
<1>9. CASE Await(d)
  BY <1>1, <1>9, Zenon DEF Await, Local
<1>10. CASE AwaitEnds(d)
  BY <1>1, <1>10, Zenon DEF AwaitEnds, Local
<1>11. CASE WatchCloses(d)
  BY <1>1, <1>11, Zenon DEF WatchCloses, Local
<1>12. QED
  BY <1>3, <1>4, <1>5, <1>6, <1>7, <1>8, <1>9, <1>10, <1>11 DEF Step, Prompted

LEMMA WhoChanges ==
  ASSUME Inv, NEW c \in Clients, [Next]_vars
  PROVE  Sees(c) \/ Ready(c) \/ Step(c) \/ WatchCloses(c)
<1>1. ASSUME NEW d, Ready(d), \E x : client' = With(d, x)
      PROVE  Sees(c) \/ Ready(c)
  <2>1. PICK x : client' = With(d, x)
    BY <1>1
  <2>2. CASE c = d
    BY <1>1, <2>2
  <2>3. CASE c # d
    BY <2>1, <2>3, WithOther DEF Sees
  <2>4. QED
    BY <2>2, <2>3
<1>2. CASE \E d \in Cli : Command(d)
  BY <1>1, <1>2, CommandIsLocal
<1>3. CASE \E d \in Web : Request(d)
  BY <1>1, <1>3, RequestIsLocal
<1>4. CASE \E d \in Clients : Step(d) \/ WatchCloses(d)
  <2>1. PICK d \in Clients : Step(d) \/ WatchCloses(d)
    BY <1>4
  <2>2. CASE c = d
    BY <2>1, <2>2
  <2>3. CASE c # d
    BY <2>1, <2>3, StepSeen
  <2>4. QED
    BY <2>2, <2>3
<1>5. CASE \E p \in Packages : Finalize(p)
  BY <1>5, CommitSeen, Zenon DEF Finalize
<1>6. CASE \E p \in Packages : Informer(p)
  BY <1>6 DEF Informer, Sees
<1>7. CASE \E p \in Packages, ready \in {"ready", "failed"} : Reconcile(p, ready)
  BY <1>7, CommitSeen, Zenon DEF Reconcile
<1>8. CASE UNCHANGED vars
  BY <1>8 DEF vars, Sees
<1>9. QED
  BY <1>2, <1>3, <1>4, <1>5, <1>6, <1>7, <1>8 DEF Next

\* A client that is about to write goes on only by its own write.
LEMMA WhoWrites ==
  ASSUME Inv, NEW c \in Clients, [Next]_vars, client[c].pc = "write", client'[c] # client[c]
  PROVE  Write(c) \/ WriteFails(c)
<1>1. PICK cl \in ClientType : cl = client[c] /\ ClientInv(cl) /\ cl.pc = "write"
  BY ClientsInv
<1>2. Shape(cl)
  BY <1>1 DEF ClientInv
<1>3. ~Sees(c)
  <2>1. ASSUME NEW p, NEW o, NEW last
        PROVE  Notified(cl, p, o, last) = cl
    <3>1. 1 \in 1..Len(cl.items) /\ Target(cl) = cl.items[1].pkg
      BY <1>1, <1>2, ClientFacts
    <3>2. Target(cl) \notin cl.wrote
      BY <1>1, <1>2, <3>1 DEF Shape
    <3>3. ~Concerns(cl, p)
      BY <3>2 DEF Concerns
    <3>4. QED
      BY <3>3, NotifiedOther
  <2>2. QED
    BY <1>1, <2>1 DEF Sees
<1>4. ~Ready(c)
  BY DEF Ready
<1>5. ~WatchCloses(c)
  BY <1>1, <1>2 DEF WatchCloses, Shape
<1>6. Step(c)
  BY <1>3, <1>4, <1>5, WhoChanges
<1>7. ~Confirm(c) /\ ~Refuse(c) /\ ~CreateNamespace(c) /\ ~Watch(c) /\ ~Await(c) /\ ~AwaitEnds(c)
  BY DEF Confirm, Refuse, CreateNamespace, Watch, Await, AwaitEnds
<1>8. QED
  BY <1>6, <1>7 DEF Step, Prompted

-----------------------------------------------------------------------------
(* What a write may do to the packages.                                    *)

\* A write changes nothing, or stores the object that the API server made of it.
LEMMA WriteStores ==
  ASSUME Inv, NEW c \in Clients, Write(c) \/ WriteFails(c), NEW cl \in ClientType, cl = client[c],
         NEW p \in Packages, p = Target(cl)
  PROVE  \/ obj' = obj
         \/ /\ Accepts(cl)
            /\ \E o \in Effects(cl) :
                 o # obj[p] /\ obj' = [obj EXCEPT ![p] = IF o = NoObject THEN o ELSE CopyStored(o, writes[p] + 1)]
<1>1. ASSUME NEW o, NEW cls, Store(cl, o, cls)
      PROVE  \/ obj' = obj
             \/ o # obj[p] /\ obj' = [obj EXCEPT ![p] = IF o = NoObject THEN o ELSE CopyStored(o, writes[p] + 1)]
  BY <1>1 DEF Store, Commit, CopyStored
<1>2. CASE Write(c)
  BY <1>1, <1>2 DEF Write
<1>3. CASE WriteFails(c)
  BY <1>1, <1>3 DEF WriteFails
<1>4. QED
  BY <1>2, <1>3

\* What a write makes of a package that exists and stays.
LEMMA WriteChanges ==
  ASSUME Inv, NEW c \in Clients, [Next]_vars, client[c].pc = "write", client'[c] # client[c],
         NEW q \in Packages, obj'[q] # NoObject, NEW cl \in ClientType, cl = client[c]
  PROVE  \/ obj'[q] = obj[q]
         \/ Creates(cl) /\ ~Exists(q)
         \/ \E n \in Package, r \in Nat :
              /\ obj'[q] = CopyStored(n, r)
              /\ \/ Deletes(cl) /\ n = Marked(obj[q])
                 \/ /\ cl.cmd \in Updating
                    /\ \E mine \in Package : n = Written(obj[q], mine) /\ CopyOf(cl.cmd, mine, obj[q])
<1>1. ClientInv(cl) /\ Shape(cl) /\ cl.pc = "write"
  BY ClientsInv DEF ClientInv
<1>2. PICK p \in Packages, mine \in Package :
        /\ p = Target(cl) /\ mine = Mine(cl) /\ p = cl.items[1].pkg /\ mine = cl.items[1].o
        /\ 1 \in 1..Len(cl.items)
  BY <1>1, ClientFacts
<1>3. Write(c) \/ WriteFails(c)
  BY WhoWrites
<1>4. obj \in [Packages -> Package] /\ writes \in [Packages -> Nat]
  BY TypeParts DEF Inv
<1>s. \/ obj' = obj
      \/ /\ Accepts(cl)
         /\ \E o \in Effects(cl) :
              o # obj[p] /\ obj' = [obj EXCEPT ![p] = IF o = NoObject THEN o ELSE CopyStored(o, writes[p] + 1)]
  <2>1. p = Target(cl)
    BY <1>2
  <2>2. QED
    BY ONLY Inv, c \in Clients, cl \in ClientType, cl = client[c], p \in Packages, <1>3, <2>1, WriteStores, SMT
<1>5. CASE obj' = obj \/ q # p
  <2>1. CASE obj' = obj
    BY <2>1
  <2>2. CASE obj' # obj /\ q # p
    <3>1. PICK o \in Effects(cl) :
            o # obj[p] /\ obj' = [obj EXCEPT ![p] = IF o = NoObject THEN o ELSE CopyStored(o, writes[p] + 1)]
      BY <1>s, <2>2, Zenon
    <3>2. QED
      BY <1>4, <2>2, <3>1
  <2>3. QED
    BY <1>5, <2>1, <2>2
<1>6. CASE obj' # obj /\ q = p
  <2>1. Accepts(cl)
    BY <1>6, <1>s, Zenon
  <2>2. PICK o \in Effects(cl) :
          o # obj[p] /\ obj' = [obj EXCEPT ![p] = IF o = NoObject THEN o ELSE CopyStored(o, writes[p] + 1)]
    BY <1>6, <1>s, Zenon
  <2>3. obj'[q] = CopyStored(o, writes[p] + 1) /\ o # NoObject
    BY <1>4, <1>6, <2>2
  <2>4. /\ o \in Package
        /\ \/ Creates(cl)
           \/ Deletes(cl) /\ o = Marked(obj[p])
           \/ ~Creates(cl) /\ ~Deletes(cl) /\ o = Written(obj[p], mine)
    BY <1>1, <1>2, <2>2, <2>3, EffectsFacts
  <2>5. PICK r \in Nat : r = writes[p] + 1
    BY <1>4
  <2>6. CASE Creates(cl)
    <3>1. ~Deletes(cl)
      BY <2>6 DEF Creates, Deletes
    <3>2. ~Exists(p)
      BY <1>2, <2>1, <2>6, <3>1 DEF Accepts
    <3>3. QED
      BY <1>6, <2>6, <3>2
  <2>7. CASE Deletes(cl) /\ o = Marked(obj[p])
    BY <1>6, <2>3, <2>4, <2>5, <2>7
  <2>8. CASE ~Creates(cl) /\ ~Deletes(cl) /\ o = Written(obj[p], mine)
    <3>1. Exists(p) /\ obj[p].rv = mine.rv
      BY <1>2, <2>1, <2>8 DEF Accepts
    <3>2. cl.cmd \in Updating
      <4>1. cl.cmd \in Commands \union Requests /\ cl.cmd \notin {"install", "webInstall", "uninstall", "webUninstall"}
        BY <1>1, <2>8 DEF Shape, ClientType, Creates, Deletes
      <4>2. QED
        BY <4>1 DEF Commands, Requests, Updating
    <3>3. CopyOf(cl.cmd, mine, obj[p])
      <4>1. ItemInv(cl.cmd, cl.items[1])
        BY <1>1, <1>2 DEF ClientInv
      <4>2. QED
        BY <1>2, <3>1, <3>2, <4>1 DEF ItemInv
    <3>4. QED
      BY <1>6, <2>3, <2>4, <2>5, <2>8, <3>2, <3>3
  <2>9. QED
    BY <2>4, <2>6, <2>7, <2>8
<1>7. QED
  BY <1>5, <1>6

LEMMA FieldsDiffer ==
  ASSUME NEW o \in Package, NEW n \in Package, NEW S,
         n.uid = o.uid, n.version = o.version \/ "version" \in S, n.values = o.values \/ "values" \in S,
         n.auto = o.auto \/ "auto" \in S, n.suspend = o.suspend \/ "suspend" \in S,
         n.deleting = o.deleting \/ "deleting" \in S, n.status = o.status, n.ready = o.ready,
         NEW f \in (DOMAIN o) \ {"rv"}, n[f] # o[f]
  PROVE  f \in S
<1>1. DOMAIN o = {"uid", "rv", "version", "values", "auto", "suspend", "deleting", "status", "ready"}
  BY DEF Package
<1>2. QED
  BY <1>1

\* Booleans that are equivalent are equal.
LEMMA PackageBooleans ==
  ASSUME NEW o \in Package
  PROVE  o.auto \in BOOLEAN /\ o.suspend \in BOOLEAN /\ o.deleting \in BOOLEAN /\ o.version \in Nat
<1>1. o.auto \in BOOLEAN /\ o.suspend \in BOOLEAN /\ o.deleting \in BOOLEAN
  BY DEF Package
<1>2. o.version \in 0..Latest
  BY DEF Package
<1>3. o.version \in Nat
  BY <1>2, ClientsAssumption
<1>4. QED
  BY <1>1, <1>3

LEMMA OwnFieldsStep ==
  ASSUME Inv, [Next]_vars, NEW c \in Clients, NEW q \in Packages,
         client[c].pc = "write", client'[c] # client[c], Exists(q), obj'[q] # NoObject
  PROVE  /\ obj'[q].uid = obj[q].uid
         /\ \A f \in (DOMAIN obj[q]) \ {"rv"} : obj'[q][f] # obj[q][f] => f \in Fields(client[c].cmd)
<1>1. PICK cl \in ClientType : cl = client[c]
  BY ClientsInv
<1>2. PICK o \in Package : o = obj[q]
  BY TypeParts DEF Inv
<1>3. PICK S : S = Fields(cl.cmd)
  OBVIOUS
<1>4. CASE obj'[q] = obj[q]
  BY <1>4
<1>5. ASSUME NEW n \in Package, NEW r \in Nat, obj'[q] = CopyStored(n, r), n.uid = o.uid,
             n.version = o.version \/ "version" \in S, n.values = o.values \/ "values" \in S,
             (n.auto <=> o.auto) \/ "auto" \in S, (n.suspend <=> o.suspend) \/ "suspend" \in S,
             (n.deleting <=> o.deleting) \/ "deleting" \in S, n.status = o.status, n.ready = o.ready
      PROVE  obj'[q].uid = o.uid /\ \A f \in (DOMAIN o) \ {"rv"} : obj'[q][f] # o[f] => f \in S
  <2>1. PICK m \in Package : /\ m = CopyStored(n, r)
                             /\ m.uid = n.uid /\ m.version = n.version /\ m.values = n.values
                             /\ (m.auto <=> n.auto) /\ (m.suspend <=> n.suspend) /\ (m.deleting <=> n.deleting)
                             /\ m.status = n.status /\ m.ready = n.ready
    BY CopyStoredFacts
  <2>2. m.auto = n.auto /\ m.suspend = n.suspend /\ m.deleting = n.deleting
    BY <2>1, PackageBooleans
  <2>3. /\ n.auto = o.auto \/ "auto" \in S
        /\ n.suspend = o.suspend \/ "suspend" \in S
        /\ n.deleting = o.deleting \/ "deleting" \in S
    BY <1>5, PackageBooleans
  <2>4. /\ m.uid = o.uid /\ m.status = o.status /\ m.ready = o.ready
        /\ m.version = o.version \/ "version" \in S
        /\ m.values = o.values \/ "values" \in S
    BY <1>5, <2>1
  <2>5. /\ m.auto = o.auto \/ "auto" \in S
        /\ m.suspend = o.suspend \/ "suspend" \in S
        /\ m.deleting = o.deleting \/ "deleting" \in S
    BY <2>2, <2>3
  <2>6. \A f \in (DOMAIN o) \ {"rv"} : m[f] # o[f] => f \in S
    BY <2>4, <2>5, FieldsDiffer
  <2>7. QED
    BY <1>5, <2>1, <2>4, <2>6
<1>6. ASSUME NEW n \in Package, NEW r \in Nat, obj'[q] = CopyStored(n, r), Deletes(cl), n = Marked(o)
      PROVE  obj'[q].uid = o.uid /\ \A f \in (DOMAIN o) \ {"rv"} : obj'[q][f] # o[f] => f \in S
  <2>1. "deleting" \in S
    BY <1>3, <1>6 DEF Fields, Deletes
  <2>2. QED
    BY <1>5, <1>6, <2>1, MarkedFacts
<1>7. ASSUME NEW n \in Package, NEW r \in Nat, obj'[q] = CopyStored(n, r),
             NEW mine \in Package, n = Written(o, mine), CopyOf(cl.cmd, mine, o)
      PROVE  obj'[q].uid = o.uid /\ \A f \in (DOMAIN o) \ {"rv"} : obj'[q][f] # o[f] => f \in S
  <2>1. /\ mine.version = o.version \/ "version" \in S
        /\ mine.values = o.values \/ "values" \in S
        /\ (mine.auto <=> o.auto) \/ "auto" \in S
        /\ (mine.suspend <=> o.suspend) \/ "suspend" \in S
    BY <1>3, <1>7 DEF CopyOf
  <2>2. /\ n.uid = o.uid /\ n.version = mine.version /\ n.values = mine.values
        /\ (n.auto <=> mine.auto) /\ (n.suspend <=> mine.suspend) /\ (n.deleting <=> o.deleting)
        /\ n.status = o.status /\ n.ready = o.ready
    BY <1>7, WrittenFacts
  <2>3. QED
    BY <1>5, <1>7, <2>1, <2>2
<1>8. \/ obj'[q] = obj[q]
      \/ \E n \in Package, r \in Nat :
           /\ obj'[q] = CopyStored(n, r)
           /\ \/ Deletes(cl) /\ n = Marked(o)
              \/ \E mine \in Package : n = Written(o, mine) /\ CopyOf(cl.cmd, mine, o)
  BY <1>1, <1>2, WriteChanges
<1>9. CASE \E n \in Package, r \in Nat :
             /\ obj'[q] = CopyStored(n, r)
             /\ \/ Deletes(cl) /\ n = Marked(o)
                \/ \E mine \in Package : n = Written(o, mine) /\ CopyOf(cl.cmd, mine, o)
  BY <1>1, <1>2, <1>3, <1>6, <1>7, <1>9
<1>10. QED
  BY <1>4, <1>8, <1>9

LEMMA DowngradeStep ==
  ASSUME Inv, [Next]_vars, NEW c \in Clients, NEW q \in Packages,
         client[c].cmd \in {"update", "autoUpdate"}, client[c].pc = "write", client'[c] # client[c],
         obj'[q] # NoObject
  PROVE  obj'[q].version >= obj[q].version
<1>1. PICK cl \in ClientType : cl = client[c]
  BY ClientsInv
<1>2. PICK o \in Package : o = obj[q] /\ o.version \in Nat
  BY TypeParts, PackageBooleans DEF Inv
<1>3. ~Creates(cl) /\ ~Deletes(cl)
  BY <1>1 DEF Creates, Deletes
<1>4. CASE obj'[q] = obj[q]
  BY <1>2, <1>4
<1>5. ASSUME NEW n \in Package, NEW r \in Nat, obj'[q] = CopyStored(n, r),
             NEW mine \in Package, n = Written(o, mine), CopyOf(cl.cmd, mine, o)
      PROVE  obj'[q].version >= o.version
  <2>1. obj'[q].version = mine.version
    BY <1>5, CopyStoredFacts, WrittenFacts
  <2>2. mine.version >= o.version
    BY <1>1, <1>5 DEF CopyOf
  <2>3. QED
    BY <2>1, <2>2
<1>6. \/ obj'[q] = obj[q]
      \/ \E n \in Package, r \in Nat :
           /\ obj'[q] = CopyStored(n, r)
           /\ \E mine \in Package : n = Written(o, mine) /\ CopyOf(cl.cmd, mine, o)
  BY <1>1, <1>2, <1>3, WriteChanges
<1>7. QED
  BY <1>2, <1>4, <1>5, <1>6

LEMMA SuccessStep ==
  ASSUME Inv, [Next]_vars, NEW c \in Clients, client[c].pc = "await", client'[c].result = "ok"
  PROVE  client[c].targets \subseteq client[c].reached
<1>1. PICK cl \in ClientType : cl = client[c] /\ ClientInv(cl) /\ cl.pc = "await"
  BY ClientsInv
<1>2. Shape(cl) /\ cl.result = "none" /\ cl.cmd \in Blocking
  BY <1>1 DEF ClientInv, Shape
<1>3. ~Sees(c)
  <2>1. ASSUME NEW p, NEW o, NEW last
        PROVE  Notified(cl, p, o, last).result = cl.result
    BY DEF Notified, ClientType
  <2>2. QED
    BY <1>1, <1>2, <2>1 DEF Sees
<1>4. ~Ready(c)
  BY DEF Ready
<1>5. client \in [Clients -> ClientType]
  BY ClientsInv
<1>6. ASSUME NEW n, Local(c, n)
      PROVE  client'[c] = n
  BY <1>5, <1>6 DEF Local, With
<1>7. ~WatchCloses(c)
  <2>1. ASSUME WatchCloses(c)
        PROVE  client'[c].result = cl.result
    <3>1. client'[c] = WithWatch(cl, "closed")
      BY <1>1, <1>6, <2>1 DEF WatchCloses, WithWatch
    <3>2. QED
      BY <3>1, WithWatchFacts
  <2>2. QED
    BY <1>2, <2>1
<1>8. Step(c)
  BY <1>3, <1>4, <1>7, WhoChanges
<1>9. ~Confirm(c) /\ ~Refuse(c) /\ ~CreateNamespace(c) /\ ~Write(c) /\ ~WriteFails(c) /\ ~Watch(c)
  BY DEF Confirm, Refuse, CreateNamespace, Write, WriteFails, Watch
<1>10. ~AwaitEnds(c)
  <2>1. ASSUME AwaitEnds(c)
        PROVE  client'[c].result # "ok"
    <3>1. client'[c] = End(cl, "error")
      BY <1>1, <1>6, <2>1 DEF AwaitEnds
    <3>2. QED
      BY <3>1, EndFacts
  <2>2. QED
    BY <2>1
<1>11. Await(c)
  BY <1>8, <1>9, <1>10 DEF Step, Prompted
<1>12. PICK outcome \in {"none", "ok", "error"} : outcome = Outcome(cl, Head(cl.events))
  BY OutcomeType
<1>13. /\ cl.events # <<>>
       /\ \/ outcome = "none" /\ client'[c] = WithEvents(cl, Tail(cl.events))
          \/ outcome # "none" /\ client'[c] = AfterAwait(cl, outcome)
  BY <1>1, <1>6, <1>11, <1>12 DEF Await, WithEvents
<1>14. cl.events \in Seq(Event) /\ cl.items \in Seq(Item)
  BY DEF ClientType
<1>15. outcome # "none"
  <2>1. ASSUME client'[c] = WithEvents(cl, Tail(cl.events))
        PROVE  FALSE
    <3>1. PICK events \in Seq(Event) : events = Tail(cl.events)
      BY <1>13, <1>14, TailFacts
    <3>2. WithEvents(cl, events).result = cl.result
      BY WithEventsFacts
    <3>4. client'[c].result = cl.result
      BY <2>1, <3>1, <3>2
    <3>3. QED
      BY <1>2, <3>4
  <2>2. QED
    BY <1>13, <2>1
<1>16. ~(outcome = "ok" /\ Len(cl.items) > 1)
  <2>1. ASSUME outcome = "ok", Len(cl.items) > 1
        PROVE  FALSE
    <3>1. PICK items \in Seq(Item) : items = Tail(cl.items)
      BY <1>14, <2>1, RestFacts
    <3>2. client'[c] = ToNext(cl, items)
      BY <1>13, <1>15, <2>1, <3>1 DEF AfterAwait, ToNext
    <3>3. client'[c].result = cl.result
      BY <3>2, ToNextFacts
    <3>4. QED
      BY <1>2, <3>3
  <2>2. QED
    BY <2>1
<1>17. client'[c] = End(cl, outcome)
  BY <1>13, <1>15, <1>16 DEF AfterAwait
<1>18. outcome = "ok"
  BY <1>17, EndFacts
<1>19. Target(cl) \in cl.reached
  BY <1>1, <1>12, <1>13, <1>18, AwaitedGoal
<1>20. Target(cl) = cl.items[1].pkg /\ Len(cl.items) = 1
  <2>1. PICK k \in Nat : k = Len(cl.items) /\ k >= 1
    BY <1>1, <1>2, ClientFacts
  <2>2. ~(k > 1)
    BY <1>16, <1>18, <2>1
  <2>3. k = 1
    <3>1. k >= 1
      BY <2>1
    <3>2. QED
      BY ONLY k \in Nat, <2>2, <3>1
  <2>4. QED
    BY <1>1, <1>2, <2>1, <2>3, ClientFacts
<1>21. \A t \in cl.targets : t \in cl.reached \/ \E i \in 1..Len(cl.items) : cl.items[i].pkg = t
  BY <1>2 DEF Shape
<1>22. \A t \in cl.targets : t \in cl.reached
  BY <1>19, <1>20, <1>21
<1>23. QED
  BY <1>1, <1>22

-----------------------------------------------------------------------------
(* The theorems.                                                           *)

\* A command that sends back a whole copy, read earlier and perhaps from a stale
\* store, changes only the fields it is about: a copy that is accepted has the
\* resource version of the stored object, and differs from it in those only.
THEOREM OwnFieldsOnly == Spec => OnlyOwnFields
<1>1. Inv /\ [Next]_vars =>
        [\A c \in Clients, p \in Packages :
           /\ client[c].pc = "write" /\ client'[c] # client[c]
           /\ Exists(p) /\ obj'[p] # NoObject
           => /\ obj'[p].uid = obj[p].uid
              /\ \A f \in (DOMAIN obj[p]) \ {"rv"} :
                   obj'[p][f] # obj[p][f] => f \in Fields(client[c].cmd)]_vars
  BY OwnFieldsStep
<1>2. QED
  BY <1>1, ClientsCorrect, PTL DEF Spec, OnlyOwnFields

\* update and the auto-updater never lower a version, although they compare it
\* with the one they read before the prompt and the other updates.
THEOREM NeverDowngrades == Spec => NoDowngrade
<1>1. Inv /\ [Next]_vars =>
        [\A c \in Clients, p \in Packages :
           /\ client[c].cmd \in {"update", "autoUpdate"} /\ client[c].pc = "write"
           /\ client'[c] # client[c] /\ obj'[p] # NoObject
           => obj'[p].version >= obj[p].version]_vars
  BY DowngradeStep
<1>2. QED
  BY <1>1, ClientsCorrect, PTL DEF Spec, NoDowngrade

\* A blocking command reports success only after every package it wrote has
\* reached its goal since.
THEOREM SuccessObserved == Spec => SuccessIsObserved
<1>1. Inv /\ [Next]_vars =>
        [\A c \in Clients :
           client[c].pc = "await" /\ client'[c].result = "ok"
             => client[c].targets \subseteq client[c].reached]_vars
  BY SuccessStep
<1>2. QED
  BY <1>1, ClientsCorrect, PTL DEF Spec, SuccessIsObserved

=============================================================================
