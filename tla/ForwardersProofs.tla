-------------------------- MODULE ForwardersProofs --------------------------
(***************************************************************************)
(* Proofs about Forwarders.  The inductive invariant says of each opener   *)
(* what its goroutines have done (OpenerInv), that no goroutine has an     *)
(* error to send before a forwarder failed (CleanInv), and who is          *)
(* responsible for each opener (Owner): the request that opened it until   *)
(* it returns, then one goroutine, which alone may replace the entry.      *)
(***************************************************************************)
EXTENDS Forwarders, TLAPS

Running == {"starting", "listening"}

Active == {"select", "get", "open", "put", "drop"}

\* A forwarder of the opener has ended.
HasEnded(o) == \E x \in Ports : o.fw[x] \in Ended

\* What holds of an opener by itself.
OpenerInv(o) ==
  /\ o.pkg = None => o = Unused
  /\ \A x \in Ports : o.fw[x] = "starting" => x \notin o.ready
  /\ o.waiter # "none" => \E x \in Ports : o.fw[x] # "none"
  /\ o.waiter \in {"send", "end"} => HasEnded(o)

\* No forwarder of the opener ended before it was ready.
NoneUnready(o) == \A x \in Ports : o.fw[x] \in Ended => x \in o.ready

\* No forwarder of the opener has an error to send.
Clean(o) ==
  /\ \A x \in Ports : o.fw[x] \notin {"err", "check", "set", "send"}
  /\ o.closed => o.waiter = "end"

NoFailure == faults = 0 /\ \A id \in Openers : NoneUnready(opener[id])

CleanInv == NoFailure => ~panicked /\ \A id \in Openers : Clean(opener[id])

\* The map names openers of the package.
Registered == \A p \in Pkgs : forwarders[p] # None => opener[forwarders[p]].pkg = p

\* A request holds the mutex from the look at the map until the opener is ready,
\* so that its opener stays registered and without a goroutine until then.
HandlerInv(h) ==
  LET r == handler[h]
  IN /\ r.pc # "idle" => r.pkg \in Pkgs
     /\ r.pc \in {"open", "wait", "waitNew"} => mutex = h
     /\ r.pc = "open" => forwarders[r.pkg] = None
     /\ r.pc = "waitNew" =>
          /\ forwarders[r.pkg] = r.id
          /\ monitor[r.id].pc = "none"
          /\ \A m \in Openers : monitor[m].pc \in Active => monitor[m].id # r.id
          /\ r.pkg \notin raced => \A m \in Openers : PkgOf(m) = r.pkg => monitor[m].pc # "put"

\* A goroutine waits for an opener of its package: the registered one, or one that
\* the deletion of the package has stopped.
MonitorInv(m) ==
  LET p == PkgOf(m)
      r == monitor[m]
  IN /\ r.pc = "none" => r.id = m
     /\ r.pc # "none" => p \in Pkgs
     /\ r.pc \in Active => opener[r.id].pkg = p
     /\ r.pc \in {"get", "open", "drop"} => HasEnded(opener[r.id])
     /\ p \notin raced =>
          /\ r.pc \in {"select", "get"} => forwarders[p] = r.id \/ opener[r.id].stopped
          /\ r.pc \in {"open", "drop"} => forwarders[p] = r.id
          /\ r.pc = "put" => forwarders[p] # None /\ HasEnded(opener[forwarders[p]])

\* Two goroutines never wait for the same opener.
Distinct ==
  \A m, n \in Openers : m # n /\ monitor[m].pc \in Active /\ monitor[n].pc \in Active => monitor[m].id # monitor[n].id

\* m replaces or removes the entry of p when its forwarders have completed.
Minds(m, p) ==
  /\ PkgOf(m) = p
  /\ \/ monitor[m].pc \in {"open", "put", "drop"}
     \/ monitor[m].pc \in {"select", "get"} /\ monitor[m].id = forwarders[p]

\* While a goroutine is about to replace the entry no other minds it.
SolePut ==
  \A m, n \in Openers :
    m # n /\ monitor[m].pc = "put" /\ PkgOf(n) = PkgOf(m) /\ PkgOf(m) \notin raced => ~Minds(n, PkgOf(m))

\* An entry belongs to an installed package and somebody minds it.
EntryInv(p) ==
  p \notin raced /\ forwarders[p] # None =>
    /\ p \in installed \/ deleting = p
    /\ \/ \E m \in Openers : Minds(m, p)
       \/ \E h \in Handlers : handler[h] = [pc |-> "waitNew", pkg |-> p, id |-> forwarders[p]]
       \/ deleting = p

-----------------------------------------------------------------------------
(* Openers by themselves.                                                  *)

FwPcs == Ended \union {"none", "starting", "listening"}

OpenerType ==
  [pkg : Pkgs \union {None}, fw : [Ports -> FwPcs], ready : SUBSET Ports, stopped : BOOLEAN,
   waiter : {"none", "wait", "send", "end"}, empty : BOOLEAN, closed : BOOLEAN]

\* The forwarders of an opener go on.
Evolves(o, n) ==
  /\ n.pkg = o.pkg /\ n.stopped = o.stopped
  /\ \A x \in Ports : /\ n.fw[x] \in Running => o.fw[x] \in Running
                      /\ o.fw[x] \in Ended => n.fw[x] \in Ended

\* A step from o to n, after which there were bad failures or not, leaves an
\* opener without errors without errors.
StaysClean(o, n, bad) ==
  NoneUnready(n) => NoneUnready(o) /\ (~bad /\ Clean(o) => Clean(n))

\* A step of opener id by itself.
OwnStep(id) ==
  /\ opener' = [opener EXCEPT ![id] = opener'[id]]
  /\ opener'[id] \in OpenerType
  /\ Evolves(opener[id], opener'[id])
  /\ OpenerInv(opener'[id])
  /\ StaysClean(opener[id], opener'[id], faults' # 0)
  /\ faults' \in 0..MaxFaults /\ faults' >= faults

\* What a change of a forwarder changes of its opener.
LEMMA FwChange ==
  ASSUME NEW o \in OpenerType, NEW x \in Ports, NEW pc \in FwPcs
  PROVE  LET n == [o EXCEPT !.fw = [o.fw EXCEPT ![x] = pc]]
         IN /\ n \in OpenerType
            /\ n.pkg = o.pkg /\ n.ready = o.ready /\ n.stopped = o.stopped
            /\ n.waiter = o.waiter /\ n.empty = o.empty /\ n.closed = o.closed
            /\ n.fw[x] = pc
            /\ \A y \in Ports : y # x => n.fw[y] = o.fw[y]
  BY DEF OpenerType

\* A forwarder whose opener is not fresh keeps its opener's invariant when it ends
\* or goes on.
LEMMA FwGoes ==
  ASSUME NEW o \in OpenerType, OpenerInv(o), NEW x \in Ports, o.fw[x] # "none",
         NEW pc \in FwPcs, pc # "none", pc # "starting", o.fw[x] \in Ended => pc \in Ended,
         NEW n \in OpenerType, n.pkg = o.pkg, n.stopped = o.stopped, n.waiter = o.waiter, n.closed = o.closed,
         n.fw[x] = pc, \A y \in Ports : y # x => n.fw[y] = o.fw[y],
         n.ready = o.ready \/ n.ready = o.ready \union {x},
         pc = "listening" => o.fw[x] = "starting"
  PROVE  Evolves(o, n) /\ OpenerInv(n)
<1>1. o.pkg # None
  BY DEF OpenerInv, Unused
<1>2. Evolves(o, n)
  BY DEF Evolves, Running, Ended
<1>3. HasEnded(o) => HasEnded(n)
  BY DEF HasEnded
<1>4. \A y \in Ports : n.fw[y] = "starting" => y # x /\ y \notin n.ready
  BY DEF OpenerInv
<1>5. QED
  BY <1>1, <1>2, <1>3, <1>4 DEF OpenerInv

LEMMA TypeFacts ==
  ASSUME TypeOK
  PROVE  opener \in [Openers -> OpenerType] /\ faults \in Nat /\ MaxFaults \in Nat
  BY ForwardersAssumption DEF TypeOK, OpenerType, FwPcs

\* The steps that change only the state of a forwarder.
LEMMA GotoStep ==
  ASSUME TypeOK, \A i \in Openers : OpenerInv(opener[i]), NEW id \in Openers, NEW x \in Ports,
         NEW pc \in FwPcs, pc \notin {"none", "starting", "listening"},
         opener[id].fw[x] # "none", FwGoto(id, x, pc),
         faults' \in 0..MaxFaults, faults' >= faults,
         pc \in {"err", "check", "set", "send"} =>
           \/ opener[id].fw[x] \in {"err", "check", "set", "send"}
           \/ faults' # 0
           \/ opener[id].fw[x] = "starting"
  PROVE  OwnStep(id)
<1> DEFINE o == opener[id]
           n == [o EXCEPT !.fw = [o.fw EXCEPT ![x] = pc]]
<1>0. o \in OpenerType /\ OpenerInv(o)
  BY TypeFacts
<1>1. opener' = [opener EXCEPT ![id] = n]
  BY DEF FwGoto
<1>2. opener'[id] = n
  BY <1>1, TypeFacts
<1>3. /\ n \in OpenerType
      /\ n.pkg = o.pkg /\ n.ready = o.ready /\ n.stopped = o.stopped
      /\ n.waiter = o.waiter /\ n.empty = o.empty /\ n.closed = o.closed
      /\ n.fw[x] = pc
      /\ \A y \in Ports : y # x => n.fw[y] = o.fw[y]
  BY <1>0, FwChange
<1> HIDE DEF n
<1>4. pc \in Ended
  BY DEF FwPcs
<1>5. Evolves(o, n) /\ OpenerInv(n)
  <2> HIDE DEF o
  <2>1. o.fw[x] # "none"
    BY DEF o
  <2>2. pc # "none" /\ pc # "starting" /\ pc # "listening"
    OBVIOUS
  <2>3. QED
    BY <1>0, <1>3, <1>4, <2>1, <2>2, FwGoes
<1>6. ASSUME NoneUnready(n)
      PROVE  NoneUnready(o) /\ (faults' = 0 /\ Clean(o) => Clean(n))
  <2>1. x \in o.ready
    BY <1>6, <1>3, <1>4 DEF NoneUnready
  <2>2. NoneUnready(o)
    BY <1>6, <1>3, <2>1 DEF NoneUnready
  <2>3. o.fw[x] # "starting"
    BY <2>1, <1>0 DEF OpenerInv
  <2>4. faults' = 0 /\ Clean(o) => Clean(n)
    BY <1>3, <2>3 DEF Clean
  <2>5. QED
    BY <2>2, <2>4
<1>7. StaysClean(o, n, faults' # 0)
  BY <1>6 DEF StaysClean
<1>8. QED
  BY <1>1, <1>2, <1>3, <1>5, <1>7 DEF OwnStep

\* Every step of a forwarder, of the goroutine that waits for it and of the one
\* that waits for all of them is a step of its opener by itself.
LEMMA FwSteps ==
  ASSUME TypeOK, \A i \in Openers : OpenerInv(opener[i]), NEW id \in Openers, NEW x \in Ports,
         Forwarder(id, x) \/ FwBreaks(id, x)
  PROVE  OwnStep(id) /\ UNCHANGED <<rest, panicked>>
<1>0. opener[id] \in OpenerType /\ OpenerInv(opener[id]) /\ faults \in 0..MaxFaults /\ MaxFaults \in Nat
  BY TypeFacts DEF TypeOK
<1>1. ASSUME FwBreaks(id, x)
      PROVE  OwnStep(id)
  <2>1. faults' = faults + 1 /\ faults < MaxFaults
    BY <1>1 DEF FwBreaks, Fails
  <2>2. faults' \in 0..MaxFaults /\ faults' >= faults /\ faults' # 0
    BY <2>1, <1>0
  <2>3. opener[id].fw[x] # "none" /\ FwGoto(id, x, "err") /\ "err" \in FwPcs
    BY <1>1 DEF FwBreaks, FwPcs, Ended
  <2>4. QED
    BY <2>2, <2>3, GotoStep
<1>2. ASSUME FwStops(id, x)
      PROVE  OwnStep(id)
  <2>1. opener[id].fw[x] # "none" /\ FwGoto(id, x, "nil") /\ "nil" \in FwPcs
    BY <1>2 DEF FwStops, FwPcs, Ended
  <2>2. faults' \in 0..MaxFaults /\ faults' >= faults
    BY <1>0, <1>2 DEF FwStops
  <2>3. QED
    BY <2>1, <2>2, GotoStep
<1>3. ASSUME AllReceive(id, x)
      PROVE  OwnStep(id)
  <2>1. faults' \in 0..MaxFaults /\ faults' >= faults
    BY <1>0, <1>3 DEF AllReceive
  <2>2. CASE opener[id].fw[x] = "nil" /\ FwGoto(id, x, "end")
    BY <2>1, <2>2, GotoStep DEF FwPcs, Ended
  <2>3. CASE opener[id].fw[x] = "err" /\ FwGoto(id, x, "check")
    BY <2>1, <2>3, GotoStep DEF FwPcs, Ended
  <2>4. QED
    BY <1>3, <2>2, <2>3 DEF AllReceive
<1>4. ASSUME AllCheck(id, x)
      PROVE  OwnStep(id)
  <2>1. faults' \in 0..MaxFaults /\ faults' >= faults
    BY <1>0, <1>4 DEF AllCheck
  <2>2. opener[id].fw[x] = "check" /\ (FwGoto(id, x, "set") \/ FwGoto(id, x, "end"))
    BY <1>4 DEF AllCheck
  <2>3. QED
    BY <2>1, <2>2, GotoStep DEF FwPcs, Ended
<1>5. ASSUME AllSet(id, x)
      PROVE  OwnStep(id)
  <2> DEFINE o == opener[id]
             n == [o EXCEPT !.fw = [o.fw EXCEPT ![x] = "send"], !.empty = FALSE]
  <2>1. opener' = [opener EXCEPT ![id] = n] /\ opener'[id] = n
    BY <1>5, TypeFacts DEF AllSet
  <2>2. faults' \in 0..MaxFaults /\ faults' >= faults /\ o.fw[x] = "set"
    BY <1>0, <1>5 DEF AllSet
  <2>3. /\ n \in OpenerType
        /\ n.pkg = o.pkg /\ n.ready = o.ready /\ n.stopped = o.stopped
        /\ n.waiter = o.waiter /\ n.closed = o.closed
        /\ n.fw[x] = "send"
        /\ \A y \in Ports : y # x => n.fw[y] = o.fw[y]
    BY <1>0 DEF OpenerType, FwPcs, Ended
  <2> HIDE DEF n, o
  <2>4. o \in OpenerType /\ OpenerInv(o)
    BY <1>0 DEF o
  <2>5. Evolves(o, n) /\ OpenerInv(n)
    BY <2>2, <2>3, <2>4, FwGoes DEF FwPcs, Ended
  <2>6. StaysClean(o, n, faults' # 0)
    BY <2>2, <2>3 DEF StaysClean, NoneUnready, Clean, Ended
  <2>7. QED
    BY <2>1, <2>2, <2>3, <2>5, <2>6 DEF OwnStep, o
<1>6. ASSUME FwStart(id, x)
      PROVE  OwnStep(id)
  <2> DEFINE o == opener[id]
             n == [o EXCEPT !.fw = [o.fw EXCEPT ![x] = "listening"], !.ready = o.ready \union {x}]
  <2>1. CASE FwGoto(id, x, "err") /\ Fails(x \in Listening)
    <3>1. opener[id].fw[x] = "starting" /\ "err" \in FwPcs
      BY <1>6 DEF FwStart, FwPcs, Ended
    <3>2. faults' \in 0..MaxFaults /\ faults' >= faults
      BY <1>0, <2>1 DEF Fails
    <3>3. QED
      BY <2>1, <3>1, <3>2, GotoStep
  <2>2. CASE opener' = [opener EXCEPT ![id].fw[x] = "listening", ![id].ready = @ \union {x}] /\ UNCHANGED faults
    <3>1. opener' = [opener EXCEPT ![id] = n] /\ opener'[id] = n
      BY <2>2, TypeFacts
    <3>2. faults' \in 0..MaxFaults /\ faults' >= faults /\ o.fw[x] = "starting"
      BY <1>0, <1>6, <2>2 DEF FwStart
    <3>3. /\ n \in OpenerType
          /\ n.pkg = o.pkg /\ n.ready = o.ready \union {x} /\ n.stopped = o.stopped
          /\ n.waiter = o.waiter /\ n.closed = o.closed
          /\ n.fw[x] = "listening"
          /\ \A y \in Ports : y # x => n.fw[y] = o.fw[y]
      BY <1>0 DEF OpenerType, FwPcs, Ended
    <3> HIDE DEF n, o
    <3>4. o \in OpenerType /\ OpenerInv(o)
      BY <1>0 DEF o
    <3>5. Evolves(o, n) /\ OpenerInv(n)
      BY <3>2, <3>3, <3>4, FwGoes DEF FwPcs, Ended
    <3>6. StaysClean(o, n, faults' # 0)
      BY <3>2, <3>3 DEF StaysClean, NoneUnready, Clean, Ended
    <3>7. QED
      BY <3>1, <3>2, <3>3, <3>5, <3>6 DEF OwnStep, o
  <2>3. QED
    BY <1>6, <2>1, <2>2 DEF FwStart
<1>7. UNCHANGED <<rest, panicked>>
  BY DEF Forwarder, FwStart, FwStops, AllReceive, AllCheck, AllSet, FwBreaks
<1>8. QED
  BY <1>1, <1>2, <1>3, <1>4, <1>5, <1>6, <1>7 DEF Forwarder

LEMMA WaitStep ==
  ASSUME TypeOK, \A i \in Openers : OpenerInv(opener[i]), NEW id \in Openers, AllWait(id)
  PROVE  OwnStep(id) /\ UNCHANGED <<rest, panicked>>
<1> DEFINE o == opener[id]
           n == [o EXCEPT !.waiter = IF o.empty THEN "send" ELSE "end"]
<1>0. o \in OpenerType /\ OpenerInv(o) /\ faults \in 0..MaxFaults /\ MaxFaults \in Nat
  BY TypeFacts DEF TypeOK
<1>1. opener' = [opener EXCEPT ![id] = n] /\ opener'[id] = n
  BY TypeFacts DEF AllWait
<1>2. /\ n \in OpenerType
      /\ n.pkg = o.pkg /\ n.ready = o.ready /\ n.stopped = o.stopped
      /\ n.waiter \in {"send", "end"} /\ n.closed = o.closed
      /\ n.fw = o.fw
  BY <1>0 DEF OpenerType
<1> HIDE DEF n
<1>3. o.waiter = "wait" /\ \A x \in Ports : o.fw[x] # "none" => o.fw[x] \in Ended
  BY DEF AllWait, Started
<1>4. HasEnded(o)
  BY <1>0, <1>3 DEF OpenerInv, HasEnded
<1> HIDE DEF o
<1>5. Evolves(o, n) /\ OpenerInv(n)
  <2>1. Evolves(o, n)
    BY <1>2 DEF Evolves
  <2>2. HasEnded(n)
    BY <1>4, <1>2 DEF HasEnded
  <2>3. o.pkg # None
    BY <1>0, <1>3 DEF OpenerInv, Unused
  <2>4. QED
    BY <1>0, <1>2, <1>3, <2>1, <2>2, <2>3 DEF OpenerInv
<1>6. StaysClean(o, n, faults' # 0)
  BY <1>2, <1>3 DEF StaysClean, NoneUnready, Clean
<1>7. faults' \in 0..MaxFaults /\ faults' >= faults /\ UNCHANGED <<rest, panicked>>
  BY <1>0 DEF AllWait
<1>8. QED
  BY <1>1, <1>2, <1>5, <1>6, <1>7 DEF OwnStep, o

\* Completion is received from one of the goroutines of All.
LEMMA ReceiveStep ==
  ASSUME TypeOK, \A i \in Openers : OpenerInv(opener[i]), NEW m \in Openers, MonReceive(m),
         NEW id \in Openers, id = monitor[m].id
  PROVE  OwnStep(id) /\ HasEnded(opener[id])
<1> DEFINE o == opener[id]
<1>0. o \in OpenerType /\ OpenerInv(o) /\ faults \in 0..MaxFaults /\ MaxFaults \in Nat
  BY TypeFacts DEF TypeOK
<1>1. PICK s \in Senders(id) : opener' = [SenderGoto(id, s, "end") EXCEPT ![id].closed = TRUE]
  BY DEF MonReceive
<1>2. faults' \in 0..MaxFaults /\ faults' >= faults
  BY <1>0 DEF MonReceive
<1>3. CASE s = "waiter"
  <2> DEFINE n == [o EXCEPT !.waiter = "end", !.closed = TRUE]
  <2>1. opener' = [opener EXCEPT ![id] = n] /\ opener'[id] = n
    BY <1>0, <1>1, <1>3, TypeFacts DEF SenderGoto
  <2>2. /\ n \in OpenerType
        /\ n.pkg = o.pkg /\ n.ready = o.ready /\ n.stopped = o.stopped
        /\ n.waiter = "end" /\ n.closed
        /\ n.fw = o.fw
    BY <1>0 DEF OpenerType
  <2>3. o.waiter = "send"
    BY <1>1, <1>3, ForwardersAssumption DEF Senders
  <2> HIDE DEF n, o
  <2>4. HasEnded(o) /\ o.pkg # None
    BY <1>0, <2>3 DEF OpenerInv, Unused
  <2>5. Evolves(o, n) /\ OpenerInv(n)
    <3>1. Evolves(o, n)
      BY <2>2 DEF Evolves
    <3>2. HasEnded(n)
      BY <2>4, <2>2 DEF HasEnded
    <3>3. QED
      BY <1>0, <2>2, <2>3, <2>4, <3>1, <3>2 DEF OpenerInv
  <2>6. StaysClean(o, n, faults' # 0)
    BY <2>2 DEF StaysClean, NoneUnready, Clean
  <2>7. QED
    BY <1>0, <1>2, <2>1, <2>2, <2>4, <2>5, <2>6 DEF OwnStep, o
<1>4. CASE s # "waiter"
  <2> DEFINE n == [o EXCEPT !.fw = [o.fw EXCEPT ![s] = "end"], !.closed = TRUE]
  <2>0. s \in Ports /\ o.fw[s] = "send"
    BY <1>1, <1>4 DEF Senders
  <2>1. opener' = [opener EXCEPT ![id] = n] /\ opener'[id] = n
    BY <1>0, <1>1, <1>4, TypeFacts DEF SenderGoto
  <2>2. /\ n \in OpenerType
        /\ n.pkg = o.pkg /\ n.ready = o.ready /\ n.stopped = o.stopped
        /\ n.waiter = o.waiter
        /\ n.fw[s] = "end"
        /\ \A y \in Ports : y # s => n.fw[y] = o.fw[y]
    BY <1>0, <2>0 DEF OpenerType, FwPcs, Ended
  <2> HIDE DEF n, o
  <2>3. HasEnded(o) /\ HasEnded(n) /\ o.pkg # None
    BY <1>0, <2>0, <2>2 DEF HasEnded, Ended, OpenerInv, Unused
  <2>4. Evolves(o, n)
    BY <2>0, <2>2 DEF Evolves, Running, Ended
  <2>5. OpenerInv(n)
    BY <1>0, <2>0, <2>2, <2>3 DEF OpenerInv
  <2>6. StaysClean(o, n, faults' # 0)
    BY <2>0, <2>2 DEF StaysClean, NoneUnready, Clean, Ended
  <2>7. QED
    BY <1>0, <1>2, <2>1, <2>2, <2>3, <2>4, <2>5, <2>6 DEF OwnStep, o
<1>5. QED
  BY <1>3, <1>4

-----------------------------------------------------------------------------
(* Steps of an opener by itself.                                           *)

LEMMA EvolvesReflexive ==
  ASSUME NEW o
  PROVE  Evolves(o, o)
  BY DEF Evolves

LEMMA OwnStepFacts ==
  ASSUME TypeOK, \A i \in Openers : OpenerInv(opener[i]), NEW id \in Openers, OwnStep(id)
  PROVE  /\ opener' \in [Openers -> OpenerType]
         /\ \A i \in Openers : Evolves(opener[i], opener'[i])
         /\ \A i \in Openers : OpenerInv(opener'[i])
         /\ \A i \in Openers : i # id => opener'[i] = opener[i]
<1>1. \A i \in Openers : i # id => opener'[i] = opener[i]
  BY TypeFacts DEF OwnStep
<1>2. opener' \in [Openers -> OpenerType]
  BY TypeFacts DEF OwnStep
<1>3. \A i \in Openers : Evolves(opener[i], opener'[i])
  BY <1>1, EvolvesReflexive DEF OwnStep
<1>4. QED
  BY <1>1, <1>2, <1>3 DEF OwnStep

LEMMA OwnStepClean ==
  ASSUME TypeOK, \A i \in Openers : OpenerInv(opener[i]), CleanInv, NEW id \in Openers, OwnStep(id), panicked' = panicked
  PROVE  CleanInv'
<1>1. SUFFICES ASSUME NoFailure'
               PROVE  ~panicked' /\ \A i \in Openers : Clean(opener'[i])
  BY DEF CleanInv
<1>2. \A i \in Openers : i # id => opener'[i] = opener[i]
  BY OwnStepFacts
<1>3. NoneUnready(opener'[id]) /\ faults' = 0
  BY <1>1 DEF NoFailure
<1>4. NoneUnready(opener[id]) /\ (Clean(opener[id]) => Clean(opener'[id])) /\ faults = 0
  BY <1>3, TypeFacts DEF OwnStep, StaysClean
<1>5. \A i \in Openers : NoneUnready(opener[i])
  <2> TAKE i \in Openers
  <2>1. CASE i = id
    BY <2>1, <1>4
  <2>2. CASE i # id
    <3>1. NoneUnready(opener'[i])
      BY <1>1 DEF NoFailure
    <3>2. QED
      BY <2>2, <1>2, <3>1
  <2>3. QED
    BY <2>1, <2>2
<1>6. ~panicked /\ \A i \in Openers : Clean(opener[i])
  BY <1>4, <1>5 DEF CleanInv, NoFailure
<1>7. \A i \in Openers : Clean(opener'[i])
  BY <1>2, <1>4, <1>6
<1>8. QED
  BY <1>6, <1>7

-----------------------------------------------------------------------------
(* Who owns the openers.                                                   *)

Owner ==
  /\ RunningIsOwned
  /\ Registered
  /\ \A h \in Handlers : HandlerInv(h)
  /\ \A m \in Openers : MonitorInv(m)
  /\ Distinct
  /\ SolePut
  /\ \A p \in Pkgs : EntryInv(p)

Inv ==
  /\ TypeOK
  /\ \A id \in Openers : OpenerInv(opener[id])
  /\ CleanInv
  /\ Owner

\* The openers go on, or are stopped.
Onward ==
  \A i \in Openers :
    /\ opener'[i].pkg = opener[i].pkg
    /\ opener[i].stopped => opener'[i].stopped
    /\ HasEnded(opener[i]) => HasEnded(opener'[i])
    /\ ~opener'[i].stopped => \A x \in Ports : opener'[i].fw[x] \in Running => opener[i].fw[x] \in Running

LEMMA EvolvesOnward ==
  ASSUME \A i \in Openers : Evolves(opener[i], opener'[i])
  PROVE  Onward
  BY DEF Onward, Evolves, HasEnded

\* Who owns an opener does not change when the openers go on.
LEMMA OwnershipStays ==
  ASSUME TypeOK, RunningIsOwned, Onward, forwarders' = forwarders, raced \subseteq raced',
         \A m \in Openers : monitor[m].pc = "put" => monitor'[m] = monitor[m]
  PROVE  RunningIsOwned'
<1> SUFFICES ASSUME NEW id \in Openers, NEW x \in Ports,
                    opener'[id].fw[x] \in {"starting", "listening"}, ~opener'[id].stopped
             PROVE  \/ forwarders'[opener'[id].pkg] = id
                    \/ \E m \in Openers : monitor'[m] = [pc |-> "put", id |-> id]
                    \/ Halved(id)'
                    \/ opener'[id].pkg \in raced'
  BY DEF RunningIsOwned
<1>1. opener[id].fw[x] \in {"starting", "listening"} /\ ~opener[id].stopped /\ opener'[id].pkg = opener[id].pkg
  BY DEF Onward, Running
<1>2. Halved(id) => Halved(id)'
  BY DEF Onward, Halved, HasEnded
<1>3. ASSUME NEW m \in Openers, monitor[m] = [pc |-> "put", id |-> id]
      PROVE  monitor'[m] = [pc |-> "put", id |-> id]
  BY <1>3
<1>4. QED
  BY <1>1, <1>2, <1>3 DEF RunningIsOwned

LEMMA MonitorOnward ==
  ASSUME TypeOK, Owner, Onward, UNCHANGED <<forwarders, raced>>, NEW m \in Openers, monitor'[m] = monitor[m]
  PROVE  MonitorInv(m)'
<1>1. monitor[m].id \in Openers
  BY DEF TypeOK
<1>2. /\ opener'[monitor[m].id].pkg = opener[monitor[m].id].pkg
      /\ HasEnded(opener[monitor[m].id]) => HasEnded(opener'[monitor[m].id])
      /\ opener[monitor[m].id].stopped => opener'[monitor[m].id].stopped
  BY <1>1 DEF Onward
<1>3. PkgOf(m) \in Pkgs /\ forwarders[PkgOf(m)] # None =>
        (HasEnded(opener[forwarders[PkgOf(m)]]) => HasEnded(opener'[forwarders[PkgOf(m)]]))
  BY DEF Onward, TypeOK
<1>4. MonitorInv(m) /\ PkgOf(m)' = PkgOf(m)
  BY DEF Owner, Onward, PkgOf
<1>5. QED
  BY <1>2, <1>3, <1>4 DEF MonitorInv

LEMMA OwnStepOwner ==
  ASSUME TypeOK, Owner, Onward, UNCHANGED <<mutex, forwarders, installed, deleting, handler, monitor, raced>>
  PROVE  Owner'
<1>1. RunningIsOwned'
  BY OwnershipStays DEF Owner
<1>2. Registered'
  BY DEF Owner, Registered, Onward, TypeOK
<1>0. \A m \in Openers : PkgOf(m)' = PkgOf(m)
  BY DEF Onward, PkgOf
<1>3. \A h \in Handlers : HandlerInv(h)'
  BY <1>0 DEF Owner, HandlerInv
<1>4. \A m \in Openers : MonitorInv(m)'
  BY MonitorOnward
<1>5. Distinct'
  BY DEF Owner, Distinct
<1>6. \A m \in Openers, p \in Pkgs \union {None} : Minds(m, p)' <=> Minds(m, p)
  BY <1>0 DEF Minds
<1>7. SolePut'
  <2>1. \A m \in Openers : PkgOf(m) \in Pkgs \union {None}
    BY DEF TypeOK, PkgOf
  <2>2. QED
    BY <1>0, <1>6, <2>1 DEF Owner, SolePut
<1>8. \A p \in Pkgs : EntryInv(p)'
  BY <1>6 DEF Owner, EntryInv
<1>9. QED
  BY <1>1, <1>2, <1>3, <1>4, <1>5, <1>7, <1>8 DEF Owner

-----------------------------------------------------------------------------
(* Opening a package.                                                      *)

\* Opener id comes to be, for package p.
OpenStep(id, p) ==
  /\ opener[id].pkg = None
  /\ opener' = [opener EXCEPT ![id] = opener'[id]]
  /\ opener'[id] \in OpenerType
  /\ opener'[id].pkg = p
  /\ OpenerInv(opener'[id])
  /\ NoneUnready(opener'[id])
  /\ Clean(opener'[id])

LEMMA OpenedFacts ==
  ASSUME NEW p \in Pkgs, NEW n \in 2..(Len(Entrypoints[p]) + 1)
  PROVE  LET o == Opened(p, n)
         IN /\ o \in OpenerType /\ o.pkg = p /\ (o.stopped <=> n <= Len(Entrypoints[p]))
            /\ OpenerInv(o) /\ NoneUnready(o) /\ Clean(o)
<1> DEFINE eps == Entrypoints[p]
           up == {eps[i] : i \in 1..(n - 1)}
           all == n > Len(eps)
           fw == [x \in Ports |-> IF x \in up THEN "starting" ELSE "none"]
           waiter == IF all THEN "wait" ELSE "none"
           o == [Unused EXCEPT !.pkg = p, !.fw = fw, !.stopped = ~all, !.waiter = waiter]
<1>1. eps \in Seq(Ports) /\ Len(eps) \in Nat /\ n \in Nat /\ n >= 2 /\ 1 \in 1..(n - 1) /\ 1 \in 1..Len(eps)
  BY ForwardersAssumption
<1>2. eps[1] \in Ports /\ eps[1] \in up
  BY <1>1
<1>3. fw \in [Ports -> FwPcs] /\ fw[eps[1]] = "starting" /\ \A x \in Ports : fw[x] \notin Ended /\ fw[x] \in {"starting", "none"}
  BY <1>2 DEF FwPcs, Ended
<1>4. Opened(p, n) = o
  BY DEF Opened
<1>5. all \in BOOLEAN /\ waiter \in {"wait", "none"}
  OBVIOUS
<1> HIDE DEF fw, waiter, all
<1>6. Unused \in [pkg : {None}, fw : [Ports -> {"none"}], ready : {{}}, stopped : BOOLEAN, waiter : {"none"},
                  empty : BOOLEAN, closed : {FALSE}]
  BY DEF Unused
<1>7. o \in OpenerType
  BY <1>3, <1>5, <1>6 DEF OpenerType
<1>8. o.pkg = p /\ o.fw = fw /\ o.ready = {} /\ (o.stopped <=> ~all) /\ o.waiter = waiter /\ ~o.closed
  BY <1>6
<1>9. o.stopped <=> n <= Len(eps)
  BY <1>1, <1>8 DEF all
<1> HIDE DEF o
<1>10. OpenerInv(o)
  BY <1>2, <1>3, <1>5, <1>8, ForwardersAssumption DEF OpenerInv, None
<1>11. NoneUnready(o) /\ Clean(o)
  BY <1>3, <1>8 DEF NoneUnready, Clean
<1>12. QED
  BY <1>4, <1>7, <1>8, <1>9, <1>10, <1>11

LEMMA OpenOne ==
  ASSUME TypeOK, NEW p \in Pkgs, NEW id \in Openers, NEW n \in 2..(Len(Entrypoints[p]) + 1),
         FreshOpener(id), opener' = [opener EXCEPT ![id] = Opened(p, n)]
  PROVE  OpenStep(id, p) /\ (opener'[id].stopped <=> n <= Len(Entrypoints[p]))
<1>1. opener'[id] = Opened(p, n)
  BY TypeFacts
<1>2. opener[id].pkg = None
  BY DEF FreshOpener
<1>3. QED
  BY <1>1, <1>2, OpenedFacts DEF OpenStep

LEMMA OpenSuccess ==
  ASSUME TypeOK, NEW p \in Pkgs, NEW id \in Openers, OpenSucceeds(id, p)
  PROVE  OpenStep(id, p)
<1>1. Len(Entrypoints[p]) \in Nat
  BY ForwardersAssumption
<1>2. Len(Entrypoints[p]) + 1 \in 2..(Len(Entrypoints[p]) + 1)
  BY <1>1 DEF OpenSucceeds
<1>3. QED
  BY <1>2, OpenOne DEF OpenSucceeds

LEMMA OpenFailure ==
  ASSUME TypeOK, NEW p \in Pkgs, OpenFails(p)
  PROVE  UNCHANGED opener \/ \E id \in Openers : OpenStep(id, p) /\ opener'[id].stopped
<1>1. Len(Entrypoints[p]) \in Nat
  BY ForwardersAssumption
<1>2. ASSUME NEW id \in Openers, NEW n \in 2..Len(Entrypoints[p]), FreshOpener(id),
             opener' = [opener EXCEPT ![id] = Opened(p, n)]
      PROVE  OpenStep(id, p) /\ opener'[id].stopped
  <2>1. n \in 2..(Len(Entrypoints[p]) + 1) /\ n <= Len(Entrypoints[p])
    BY <1>1
  <2>2. QED
    BY <2>1, <1>2, OpenOne
<1>3. QED
  BY <1>2 DEF OpenFails

LEMMA OpenFacts ==
  ASSUME TypeOK, \A i \in Openers : OpenerInv(opener[i]), CleanInv,
         NEW id \in Openers, NEW p \in Pkgs, OpenStep(id, p), UNCHANGED <<faults, panicked>>
  PROVE  /\ opener' \in [Openers -> OpenerType]
         /\ \A i \in Openers : OpenerInv(opener'[i])
         /\ \A i \in Openers : i # id => opener'[i] = opener[i]
         /\ CleanInv'
<1>1. \A i \in Openers : i # id => opener'[i] = opener[i]
  BY TypeFacts DEF OpenStep
<1>2. opener' \in [Openers -> OpenerType]
  BY TypeFacts DEF OpenStep
<1>3. \A i \in Openers : OpenerInv(opener'[i])
  BY <1>1 DEF OpenStep
<1>4. NoneUnready(opener[id])
  BY DEF OpenStep, OpenerInv, Unused, NoneUnready, Ended
<1>5. SUFFICES ASSUME NoFailure'
               PROVE  ~panicked' /\ \A i \in Openers : Clean(opener'[i])
  BY <1>1, <1>2, <1>3 DEF CleanInv
<1>6. \A i \in Openers : NoneUnready(opener'[i])
  BY <1>5 DEF NoFailure
<1>7. \A i \in Openers : NoneUnready(opener[i])
  BY <1>1, <1>4, <1>6
<1>8. ~panicked /\ \A i \in Openers : Clean(opener[i])
  BY <1>5, <1>7 DEF CleanInv, NoFailure
<1>9. QED
  BY <1>1, <1>8 DEF OpenStep

LEMMA FreshFacts ==
  ASSUME TypeOK, Owner, NEW id \in Openers, NEW p \in Pkgs, OpenStep(id, p)
  PROVE  /\ monitor[id].pc = "none" /\ monitor[id].id = id
         /\ \A m \in Openers : monitor[m].pc \in Active => monitor[m].id # id
         /\ \A q \in Pkgs : forwarders[q] # id
         /\ \A i \in Openers : i # id => opener'[i] = opener[i] /\ PkgOf(i)' = PkgOf(i)
         /\ PkgOf(id)' = p /\ PkgOf(id) = None
         /\ None \notin Pkgs /\ None \notin Openers
         /\ \A m \in Openers : monitor[m].id \in Openers /\ monitor[m].pc \in {"none", "end"} \union Active
<1>1. None \notin Pkgs /\ None \notin Openers
  BY ForwardersAssumption DEF None, Openers
<1>2. \A i \in Openers : i # id => opener'[i] = opener[i] /\ PkgOf(i)' = PkgOf(i)
  BY TypeFacts DEF OpenStep, PkgOf
<1>3. PkgOf(id)' = p /\ PkgOf(id) = None
  BY DEF OpenStep, PkgOf
<1>4. monitor[id].pc = "none" /\ monitor[id].id = id
  BY <1>1, <1>3 DEF Owner, MonitorInv
<1>5. ASSUME NEW m \in Openers, monitor[m].pc \in Active
      PROVE  monitor[m].id # id
  <2>1. opener[monitor[m].id].pkg = PkgOf(m) /\ PkgOf(m) \in Pkgs
    BY <1>5 DEF Owner, MonitorInv, Active
  <2>2. QED
    BY <1>1, <1>3, <2>1 DEF PkgOf
<1>6. ASSUME NEW q \in Pkgs, forwarders[q] = id
      PROVE  FALSE
  <2>1. opener[id].pkg = q
    BY <1>1, <1>6 DEF Owner, Registered
  <2>2. QED
    BY <1>1, <1>3, <2>1 DEF PkgOf
<1>7. \A m \in Openers : monitor[m].id \in Openers /\ monitor[m].pc \in {"none", "end"} \union Active
  BY DEF TypeOK, Active
<1>8. QED
  BY <1>1, <1>2, <1>3, <1>4, <1>5, <1>6, <1>7

HandlerType ==
  [pc : {"idle", "lock", "open", "wait", "waitNew"}, pkg : Pkgs \union {None}, id : Openers \union {None}]

LEMMA RequestUpdate ==
  ASSUME NEW r \in HandlerType, NEW pc \in {"idle", "lock", "open", "wait", "waitNew"},
         NEW i \in Openers \union {None}
  PROVE  [r EXCEPT !.pc = pc, !.id = i] = [pc |-> pc, pkg |-> r.pkg, id |-> i]
<1> DEFINE n == [r EXCEPT !.pc = pc, !.id = i]
<1>1. n \in HandlerType
  BY DEF HandlerType
<1>2. n.pc = pc /\ n.pkg = r.pkg /\ n.id = i
  BY DEF HandlerType
<1> HIDE DEF n
<1>3. n = [pc |-> n.pc, pkg |-> n.pkg, id |-> n.id]
  BY <1>1 DEF HandlerType
<1>4. n = [pc |-> pc, pkg |-> r.pkg, id |-> i]
  BY <1>2, <1>3
<1>5. QED
  BY <1>4 DEF n

LEMMA HandlerOpensOwner ==
  ASSUME TypeOK, Owner, NEW h \in Handlers, NEW id \in Openers, HandlerOpens(h, id)
  PROVE  Owner'
<1> DEFINE p == handler[h].pkg
<1>0. /\ p \in Pkgs /\ mutex = h /\ forwarders[p] = None
      /\ handler' = [handler EXCEPT ![h] = [pc |-> "waitNew", pkg |-> p, id |-> id]]
      /\ forwarders' = [forwarders EXCEPT ![p] = id]
      /\ UNCHANGED <<mutex, installed, deleting, monitor>>
      /\ OpenSucceeds(id, p)
      /\ raced' = IF p \notin installed /\ deleting # p THEN raced \union {p} ELSE raced
  <2>1. p \in Pkgs /\ mutex = h /\ forwarders[p] = None
    BY DEF HandlerOpens, Owner, HandlerInv
  <2>2. handler' = [handler EXCEPT ![h] = [pc |-> "waitNew", pkg |-> p, id |-> id]]
    <3>1. handler' = [handler EXCEPT ![h] = [handler[h] EXCEPT !.pc = "waitNew", !.id = id]]
      BY DEF HandlerOpens
    <3>2. handler[h] \in HandlerType
      BY DEF TypeOK, HandlerType
    <3>3. QED
      BY <3>1, <3>2, RequestUpdate
  <2>3. QED
    BY <2>1, <2>2 DEF HandlerOpens
<1>q. PICK q \in Pkgs : q = p
  BY <1>0
<1>1. OpenStep(id, q)
  BY <1>0, <1>q, OpenSuccess
<1>2. /\ monitor[id].pc = "none" /\ monitor[id].id = id
      /\ \A m \in Openers : monitor[m].pc \in Active => monitor[m].id # id
      /\ \A r \in Pkgs : forwarders[r] # id
      /\ \A i \in Openers : i # id => opener'[i] = opener[i] /\ PkgOf(i)' = PkgOf(i)
      /\ PkgOf(id)' = q /\ PkgOf(id) = None
      /\ None \notin Pkgs /\ None \notin Openers
      /\ \A m \in Openers : monitor[m].id \in Openers /\ monitor[m].pc \in {"none", "end"} \union Active
  BY <1>1, FreshFacts
<1>3. /\ forwarders'[q] = id /\ forwarders[q] = None
      /\ \A r \in Pkgs : r # q => forwarders'[r] = forwarders[r]
      /\ raced \subseteq raced'
      /\ q \notin raced' => q \in installed \/ deleting = q
  BY <1>0, <1>q DEF TypeOK
<1>4. /\ handler'[h] = [pc |-> "waitNew", pkg |-> q, id |-> id]
      /\ \A g \in Handlers : g # h => handler'[g] = handler[g] /\ handler[g].pc \notin {"open", "wait", "waitNew"}
  BY <1>0, <1>q DEF TypeOK, Owner, HandlerInv
<1>5. \A m \in Openers : PkgOf(m) \in Pkgs \union {None} /\ PkgOf(m) = opener[m].pkg
  BY DEF TypeOK, PkgOf
<1> HIDE DEF p
<1>10. RunningIsOwned'
  <2> SUFFICES ASSUME NEW i \in Openers, NEW x \in Ports,
                      opener'[i].fw[x] \in {"starting", "listening"}, ~opener'[i].stopped
               PROVE  \/ forwarders'[opener'[i].pkg] = i
                      \/ \E m \in Openers : monitor'[m] = [pc |-> "put", id |-> i]
                      \/ Halved(i)'
                      \/ opener'[i].pkg \in raced'
    BY DEF RunningIsOwned
  <2>1. CASE i = id
    BY <2>1, <1>1, <1>3 DEF OpenStep
  <2>2. CASE i # id
    <3>1. opener'[i] = opener[i]
      BY <2>2, <1>2
    <3>2. Halved(i) => Halved(i)'
      BY <3>1 DEF Halved
    <3>3. forwarders[opener[i].pkg] = i => forwarders'[opener[i].pkg] = i
      <4>1. opener[i].fw[x] # "none" => opener[i].pkg \in Pkgs \union {None}
        BY DEF TypeOK
      <4>2. CASE opener[i].pkg = None
        BY <4>2, <1>0, <1>2, <1>q DEF TypeOK
      <4>3. CASE opener[i].pkg \in Pkgs
        BY <4>3, <1>2, <1>3
      <4>4. QED
        BY <4>2, <4>3 DEF TypeOK
    <3>4. QED
      BY <3>1, <3>2, <3>3, <1>0, <1>3 DEF Owner, RunningIsOwned
  <2>3. QED
    BY <2>1, <2>2
<1>11. Registered'
  BY <1>1, <1>2, <1>3 DEF Registered, Owner, OpenStep, TypeOK
<1>12. ASSUME NEW g \in Handlers
       PROVE  HandlerInv(g)'
  <2>1. CASE g # h
    <3>1. HandlerInv(g) /\ handler'[g] = handler[g] /\ handler[g].pc \notin {"open", "wait", "waitNew"}
      BY <2>1, <1>4 DEF Owner
    <3>2. QED
      BY <3>1 DEF HandlerInv
  <2>2. CASE g = h
    <3>1. ASSUME q \notin raced', NEW m \in Openers, PkgOf(m)' = q, monitor[m].pc = "put"
          PROVE  FALSE
      <4>1. m # id
        BY <3>1, <1>2
      <4>2. PkgOf(m) = q /\ q \notin raced
        BY <4>1, <3>1, <1>2, <1>3
      <4>3. QED
        BY <4>2, <3>1, <1>3 DEF Owner, MonitorInv
    <3>2. QED
      BY <3>1, <2>2, <1>0, <1>2, <1>3, <1>4 DEF HandlerInv
  <2>3. QED
    BY <2>1, <2>2
<1>13. ASSUME NEW m \in Openers
       PROVE  MonitorInv(m)'
  <2>1. CASE m = id
    BY <2>1, <1>0, <1>2 DEF MonitorInv, Active
  <2>2. CASE m # id
    <3>1. PkgOf(m)' = PkgOf(m) /\ monitor'[m] = monitor[m] /\ MonitorInv(m)
      BY <2>2, <1>0, <1>2 DEF Owner
    <3>2. monitor[m].pc \in Active => opener'[monitor[m].id] = opener[monitor[m].id]
      BY <1>2
    <3>3. /\ monitor[m].pc = "none" => monitor[m].id = m
          /\ monitor[m].pc # "none" => PkgOf(m) \in Pkgs
          /\ monitor[m].pc \in Active => opener'[monitor[m].id].pkg = PkgOf(m)
          /\ monitor[m].pc \in {"get", "open", "drop"} => HasEnded(opener'[monitor[m].id])
      BY <3>1, <3>2 DEF MonitorInv, Active
    <3>4. ASSUME PkgOf(m) \notin raced', monitor[m].pc \in Active
          PROVE  /\ monitor[m].pc \in {"select", "get"} => forwarders'[PkgOf(m)] = monitor[m].id \/ opener'[monitor[m].id].stopped
                 /\ monitor[m].pc \in {"open", "drop"} => forwarders'[PkgOf(m)] = monitor[m].id
                 /\ monitor[m].pc = "put" => forwarders'[PkgOf(m)] # None /\ HasEnded(opener'[forwarders'[PkgOf(m)]])
      <4>1. PkgOf(m) \in Pkgs /\ PkgOf(m) \notin raced
        BY <3>3, <3>4, <1>3 DEF Active
      <4>2. CASE PkgOf(m) = q
        BY <4>1, <4>2, <3>1, <3>2, <3>4, <1>2, <1>3 DEF MonitorInv
      <4>3. CASE PkgOf(m) # q
        <5>1. forwarders'[PkgOf(m)] = forwarders[PkgOf(m)]
          BY <4>1, <4>3, <1>3
        <5>2. forwarders[PkgOf(m)] # None => opener'[forwarders[PkgOf(m)]] = opener[forwarders[PkgOf(m)]]
          BY <4>1, <1>2 DEF TypeOK
        <5>3. QED
          BY <4>1, <5>1, <5>2, <3>1, <3>2, <3>4 DEF MonitorInv
      <4>4. QED
        BY <4>2, <4>3
    <3>5. QED
      BY <3>1, <3>3, <3>4 DEF MonitorInv, Active
  <2>3. QED
    BY <2>1, <2>2
<1>14. Distinct'
  BY <1>0 DEF Owner, Distinct
<1>15. ASSUME NEW m \in Openers, NEW r \in Pkgs, r # q
       PROVE  Minds(m, r)' <=> Minds(m, r)
  BY <1>0, <1>2, <1>3, <1>15 DEF Minds
<1>16. SolePut'
  <2> SUFFICES ASSUME NEW m \in Openers, NEW n \in Openers, m # n, monitor'[m].pc = "put",
                      PkgOf(n)' = PkgOf(m)', PkgOf(m)' \notin raced', Minds(n, PkgOf(m))'
               PROVE  FALSE
    BY DEF SolePut
  <2>1. m # id /\ monitor[m].pc = "put" /\ PkgOf(m)' = PkgOf(m) /\ PkgOf(m) \in Pkgs
    BY <1>0, <1>2 DEF Owner, MonitorInv
  <2>2. PkgOf(m) # q
    BY <2>1, <1>3 DEF Owner, MonitorInv
  <2>3. n # id
    BY <2>1, <2>2, <1>2
  <2>4. PICK r \in Pkgs : r = PkgOf(m)
    BY <2>1
  <2>5. Minds(n, r)'
    BY <2>1, <2>4 DEF Minds
  <2>6. Minds(n, r) /\ PkgOf(n) = r
    BY <1>15, <2>2, <2>4, <2>5 DEF Minds
  <2>7. QED
    BY <2>1, <2>4, <2>6, <1>3 DEF Owner, SolePut
<1>17. ASSUME NEW r \in Pkgs
       PROVE  EntryInv(r)'
  <2>1. CASE r = q
    BY <2>1, <1>0, <1>3, <1>4 DEF EntryInv
  <2>2. CASE r # q
    <3>1. ASSUME NEW g \in Handlers, handler[g] = [pc |-> "waitNew", pkg |-> r, id |-> forwarders[r]]
          PROVE  FALSE
      <4>1. g # h
        BY <3>1, <1>0, <1>q, <2>2 DEF HandlerOpens
      <4>2. QED
        BY <4>1, <3>1, <1>4
    <3>2. EntryInv(r)
      BY DEF Owner
    <3>3. QED
      BY <3>1, <3>2, <2>2, <1>0, <1>3, <1>15 DEF EntryInv
  <2>3. QED
    BY <2>1, <2>2
<1>20. QED
  BY <1>10, <1>11, <1>12, <1>13, <1>14, <1>16, <1>17 DEF Owner

\* Openers that someone knows stay as they are.
Settled ==
  /\ \A m \in Openers : monitor[m].pc # "none" => PkgOf(m)' = PkgOf(m)
  /\ \A m \in Openers : monitor[m].pc \in Active => opener'[monitor[m].id] = opener[monitor[m].id]
  /\ \A q \in Pkgs : forwarders[q] # None => opener'[forwarders[q]] = opener[forwarders[q]]
  /\ \A m \in Openers : monitor[m].pc = "none" /\ PkgOf(m) \in Pkgs => PkgOf(m)' = PkgOf(m)

LEMMA OpenSettled ==
  ASSUME TypeOK, Owner, NEW id \in Openers, NEW p \in Pkgs, OpenStep(id, p)
  PROVE  Settled
<1>1. /\ monitor[id].pc = "none" /\ monitor[id].id = id
      /\ \A m \in Openers : monitor[m].pc \in Active => monitor[m].id # id
      /\ \A q \in Pkgs : forwarders[q] # id
      /\ \A i \in Openers : i # id => opener'[i] = opener[i] /\ PkgOf(i)' = PkgOf(i)
      /\ PkgOf(id)' = p /\ PkgOf(id) = None
      /\ None \notin Pkgs /\ None \notin Openers
      /\ \A m \in Openers : monitor[m].id \in Openers /\ monitor[m].pc \in {"none", "end"} \union Active
  BY FreshFacts
<1>2. \A m \in Openers : monitor[m].pc # "none" => PkgOf(m)' = PkgOf(m)
  BY <1>1
<1>3. \A m \in Openers : monitor[m].pc \in Active => opener'[monitor[m].id] = opener[monitor[m].id]
  BY <1>1
<1>4. \A q \in Pkgs : forwarders[q] # None => opener'[forwarders[q]] = opener[forwarders[q]]
  BY <1>1 DEF TypeOK
<1>5. \A m \in Openers : monitor[m].pc = "none" /\ PkgOf(m) \in Pkgs => PkgOf(m)' = PkgOf(m)
  BY <1>1
<1>6. QED
  BY <1>2, <1>3, <1>4, <1>5 DEF Settled

LEMMA FailureSettled ==
  ASSUME TypeOK, Owner, NEW p \in Pkgs, OpenFails(p)
  PROVE  Settled /\ \A i \in Openers : opener'[i] = opener[i] \/ opener'[i].stopped
<1>1. CASE UNCHANGED opener
  BY <1>1 DEF Settled, PkgOf
<1>2. ASSUME NEW id \in Openers, OpenStep(id, p), opener'[id].stopped
      PROVE  Settled /\ \A i \in Openers : opener'[i] = opener[i] \/ opener'[i].stopped
  BY <1>2, OpenSettled, TypeFacts DEF OpenStep
<1>3. QED
  BY <1>1, <1>2, OpenFailure

\* Ownership survives a failed attempt to open a package.
LEMMA FailureOwned ==
  ASSUME TypeOK, RunningIsOwned, forwarders' = forwarders, raced' = raced,
         \A m \in Openers : monitor[m].pc = "put" => monitor'[m] = monitor[m],
         \A i \in Openers : opener'[i] = opener[i] \/ opener'[i].stopped
  PROVE  RunningIsOwned'
<1> SUFFICES ASSUME NEW id \in Openers, NEW x \in Ports,
                    opener'[id].fw[x] \in {"starting", "listening"}, ~opener'[id].stopped
             PROVE  \/ forwarders'[opener'[id].pkg] = id
                    \/ \E m \in Openers : monitor'[m] = [pc |-> "put", id |-> id]
                    \/ Halved(id)'
                    \/ opener'[id].pkg \in raced'
  BY DEF RunningIsOwned
<1>1. opener'[id] = opener[id]
  OBVIOUS
<1>2. Halved(id) => Halved(id)'
  BY <1>1 DEF Halved
<1>3. ASSUME NEW m \in Openers, monitor[m] = [pc |-> "put", id |-> id]
      PROVE  monitor'[m] = [pc |-> "put", id |-> id]
  BY <1>3
<1>4. QED
  BY <1>1, <1>2, <1>3 DEF RunningIsOwned

\* A goroutine whose state, opener and entry stay the same keeps its invariant.
LEMMA MonitorStays ==
  ASSUME TypeOK, Owner, Settled, NEW m \in Openers, monitor'[m] = monitor[m],
         PkgOf(m) \in Pkgs => forwarders'[PkgOf(m)] = forwarders[PkgOf(m)], raced \subseteq raced'
  PROVE  MonitorInv(m)'
<1>1. MonitorInv(m) /\ monitor[m].pc \in Active \union {"none", "end"}
  BY DEF Owner, TypeOK, Active
<1>2. CASE monitor[m].pc \in {"none", "end"}
  <2>1. monitor[m].pc = "end" => PkgOf(m)' = PkgOf(m)
    BY DEF Settled
  <2>2. QED
    BY <1>1, <1>2, <2>1 DEF MonitorInv, Active
<1>3. CASE monitor[m].pc \in Active
  <2>1. PkgOf(m)' = PkgOf(m) /\ PkgOf(m) \in Pkgs
    BY <1>1, <1>3 DEF Settled, MonitorInv, Active
  <2>2. opener'[monitor[m].id] = opener[monitor[m].id]
    BY <1>3 DEF Settled
  <2>3. forwarders[PkgOf(m)] # None => opener'[forwarders[PkgOf(m)]] = opener[forwarders[PkgOf(m)]]
    BY <2>1 DEF Settled
  <2>4. QED
    BY <1>1, <2>1, <2>2, <2>3 DEF MonitorInv
<1>4. QED
  BY <1>1, <1>2, <1>3

LEMMA HandlerFailsOwner ==
  ASSUME TypeOK, Owner, NEW h \in Handlers, HandlerFails(h)
  PROVE  Owner'
<1>0. PICK p \in Pkgs : p = handler[h].pkg
  BY DEF HandlerFails, Owner, HandlerInv
<1>1. Settled /\ \A i \in Openers : opener'[i] = opener[i] \/ opener'[i].stopped
  BY <1>0, FailureSettled DEF HandlerFails
<1>2. UNCHANGED <<forwarders, installed, deleting, monitor, raced>>
  BY DEF HandlerFails
<1>3. RunningIsOwned'
  BY <1>1, <1>2, FailureOwned DEF Owner
<1>4. Registered'
  BY <1>1, <1>2 DEF Owner, Registered, Settled
<1>5. /\ handler'[h].pc = "idle" /\ mutex = h
      /\ \A g \in Handlers : g # h => handler'[g] = handler[g] /\ handler[g].pc \notin {"open", "wait", "waitNew"}
  BY DEF HandlerFails, Owner, HandlerInv, TypeOK, Idle
<1>6. ASSUME NEW g \in Handlers
      PROVE  HandlerInv(g)'
  <2>1. HandlerInv(g)
    BY DEF Owner
  <2>2. QED
    BY <2>1, <1>5 DEF HandlerInv
<1>7. \A m \in Openers : MonitorInv(m)'
  BY <1>1, <1>2, MonitorStays
<1>8. Distinct'
  BY <1>2 DEF Owner, Distinct
<1>9. \A m \in Openers, q \in Pkgs : Minds(m, q)' <=> Minds(m, q)
  BY <1>1, <1>2 DEF Minds, Settled
<1>10. SolePut'
  <2> SUFFICES ASSUME NEW m \in Openers, NEW n \in Openers, m # n, monitor'[m].pc = "put",
                      PkgOf(n)' = PkgOf(m)', PkgOf(m)' \notin raced', Minds(n, PkgOf(m))'
               PROVE  FALSE
    BY DEF SolePut
  <2>1. monitor[m].pc = "put" /\ PkgOf(m)' = PkgOf(m) /\ PkgOf(m) \in Pkgs
    BY <1>1, <1>2 DEF Owner, MonitorInv, Settled
  <2>2. PICK r \in Pkgs : r = PkgOf(m)
    BY <2>1
  <2>3. Minds(n, r)'
    BY <2>1, <2>2 DEF Minds
  <2>4. Minds(n, r) /\ PkgOf(n) = r
    BY <1>9, <2>3 DEF Minds
  <2>5. QED
    BY <2>1, <2>2, <2>4, <1>2 DEF Owner, SolePut
<1>11. ASSUME NEW q \in Pkgs
       PROVE  EntryInv(q)'
  <2>1. EntryInv(q)
    BY DEF Owner
  <2>2. \A g \in Handlers : handler[g].pc # "waitNew"
    BY <1>5 DEF HandlerFails
  <2>3. QED
    BY <1>2, <1>9, <2>1, <2>2 DEF EntryInv
<1>12. QED
  BY <1>3, <1>4, <1>6, <1>7, <1>8, <1>10, <1>11 DEF Owner

LEMMA UnchangedSettled ==
  ASSUME opener' = opener
  PROVE  Settled /\ \A m \in Openers : PkgOf(m)' = PkgOf(m)
  BY DEF Settled, PkgOf

LEMMA SolePutStays ==
  ASSUME SolePut, raced \subseteq raced',
         \A m \in Openers : monitor'[m].pc = "put" =>
           monitor[m].pc = "put" /\ PkgOf(m)' = PkgOf(m) /\ PkgOf(m) \in Pkgs,
         \A m \in Openers, q \in Pkgs : q \notin raced' /\ Minds(m, q)' => Minds(m, q)
  PROVE  SolePut'
<1> SUFFICES ASSUME NEW m \in Openers, NEW n \in Openers, m # n, monitor'[m].pc = "put",
                    PkgOf(n)' = PkgOf(m)', PkgOf(m)' \notin raced', Minds(n, PkgOf(m))'
             PROVE  FALSE
  BY DEF SolePut
<1>1. PICK r \in Pkgs : r = PkgOf(m)
  OBVIOUS
<1>2. Minds(n, r)'
  BY <1>1 DEF Minds
<1>3. Minds(n, r) /\ PkgOf(n) = r
  BY <1>1, <1>2 DEF Minds
<1>4. QED
  BY <1>1, <1>3 DEF SolePut

LEMMA ClickOwner ==
  ASSUME TypeOK, Owner, NEW h \in Handlers, NEW p \in Pkgs, Click(h, p)
  PROVE  Owner'
<1>1. UNCHANGED <<mutex, forwarders, opener, installed, deleting, monitor, raced>> /\ handler[h].pc = "idle"
  BY DEF Click
<1>2. Settled /\ \A m \in Openers : PkgOf(m)' = PkgOf(m)
  BY <1>1, UnchangedSettled
<1>3. /\ handler'[h] = [pc |-> "lock", pkg |-> p, id |-> None]
      /\ \A g \in Handlers : g # h => handler'[g] = handler[g]
  BY DEF Click, TypeOK
<1>4. RunningIsOwned' /\ Registered' /\ Distinct'
  BY <1>1 DEF Owner, RunningIsOwned, Registered, Distinct, Halved
<1>5. ASSUME NEW g \in Handlers
      PROVE  HandlerInv(g)'
  <2>1. HandlerInv(g)
    BY DEF Owner
  <2>2. QED
    BY <1>1, <1>2, <1>3, <2>1 DEF HandlerInv
<1>6. \A m \in Openers : MonitorInv(m)'
  BY <1>1, <1>2, MonitorStays
<1>7. \A m \in Openers, q \in Pkgs : Minds(m, q)' <=> Minds(m, q)
  BY <1>1, <1>2 DEF Minds
<1>8. SolePut'
  BY <1>1, <1>2, <1>7, SolePutStays DEF Owner, MonitorInv
<1>9. \A q \in Pkgs : EntryInv(q)'
  BY <1>1, <1>3, <1>7 DEF Owner, EntryInv
<1>10. QED
  BY <1>4, <1>5, <1>6, <1>8, <1>9 DEF Owner

LEMMA LockOwner ==
  ASSUME TypeOK, Owner, NEW h \in Handlers, Lock(h)
  PROVE  Owner'
<1>1. /\ UNCHANGED <<forwarders, opener, installed, deleting, monitor, raced>>
      /\ handler[h].pc = "lock" /\ mutex = "nobody" /\ mutex' = h
  BY DEF Lock
<1>2. Settled /\ \A m \in Openers : PkgOf(m)' = PkgOf(m)
  BY <1>1, UnchangedSettled
<1>3. /\ handler'[h].pc \in {"open", "wait"} /\ handler'[h].pkg = handler[h].pkg
      /\ handler'[h].pc = "open" => forwarders[handler[h].pkg] = None
      /\ \A g \in Handlers : g # h => handler'[g] = handler[g]
  BY DEF Lock, TypeOK
<1>4. RunningIsOwned' /\ Registered' /\ Distinct'
  BY <1>1 DEF Owner, RunningIsOwned, Registered, Distinct, Halved
<1>5. \A g \in Handlers : handler[g].pc \notin {"open", "wait", "waitNew"}
  BY <1>1, ForwardersAssumption DEF Owner, HandlerInv
<1>6. ASSUME NEW g \in Handlers
      PROVE  HandlerInv(g)'
  <2>1. HandlerInv(g)
    BY DEF Owner
  <2>2. QED
    BY <1>1, <1>3, <1>5, <2>1 DEF HandlerInv
<1>7. \A m \in Openers : MonitorInv(m)'
  BY <1>1, <1>2, MonitorStays
<1>8. \A m \in Openers, q \in Pkgs : Minds(m, q)' <=> Minds(m, q)
  BY <1>1, <1>2 DEF Minds
<1>9. SolePut'
  BY <1>1, <1>2, <1>8, SolePutStays DEF Owner, MonitorInv
<1>10. \A q \in Pkgs : EntryInv(q)'
  BY <1>1, <1>5, <1>8 DEF Owner, EntryInv
<1>11. QED
  BY <1>4, <1>6, <1>7, <1>9, <1>10 DEF Owner

\* The informer's own steps.
LEMMA InformerOwner ==
  ASSUME TypeOK, Owner, NEW p \in Pkgs, Installs(p) \/ Deletes(p)
  PROVE  Owner'
<1>1. /\ UNCHANGED <<mutex, forwarders, opener, handler, monitor, raced>>
      /\ deleting = None
      /\ \A q \in Pkgs : q \in installed => q \in installed' \/ deleting' = q
  BY DEF Installs, Deletes
<1>2. Settled /\ \A m \in Openers : PkgOf(m)' = PkgOf(m)
  BY <1>1, UnchangedSettled
<1>3. RunningIsOwned' /\ Registered' /\ Distinct'
  BY <1>1 DEF Owner, RunningIsOwned, Registered, Distinct, Halved
<1>4. \A h \in Handlers : HandlerInv(h)'
  BY <1>1, <1>2 DEF Owner, HandlerInv
<1>5. \A m \in Openers : MonitorInv(m)'
  BY <1>1, <1>2, MonitorStays
<1>6. \A m \in Openers, q \in Pkgs : Minds(m, q)' <=> Minds(m, q)
  BY <1>1, <1>2 DEF Minds
<1>7. SolePut'
  BY <1>1, <1>2, <1>6, SolePutStays DEF Owner, MonitorInv
<1>8. \A q \in Pkgs : deleting # q
  BY <1>1, ForwardersAssumption DEF None
<1>9. \A q \in Pkgs : EntryInv(q)'
  BY <1>1, <1>6, <1>8 DEF Owner, EntryInv
<1>10. QED
  BY <1>3, <1>4, <1>5, <1>7, <1>9 DEF Owner

LEMMA ReturnOwner ==
  ASSUME TypeOK, Owner, NEW h \in Handlers, Return(h)
  PROVE  Owner'
<1>1. /\ UNCHANGED <<forwarders, opener, installed, deleting, raced>>
      /\ handler[h].pc \in {"wait", "waitNew"} /\ mutex = h
      /\ monitor' = IF handler[h].pc = "wait" THEN monitor
                    ELSE [monitor EXCEPT ![handler[h].id].pc = "select"]
  BY DEF Return, Owner, HandlerInv
<1>2. Settled /\ \A m \in Openers : PkgOf(m)' = PkgOf(m)
  BY <1>1, UnchangedSettled
<1>3. /\ handler'[h].pc = "idle"
      /\ \A g \in Handlers : g # h => handler'[g] = handler[g] /\ handler[g].pc \notin {"open", "wait", "waitNew"}
  BY DEF Return, Owner, HandlerInv, TypeOK, Idle
<1>4. PICK id \in Openers : id = handler[h].id
  BY <1>1 DEF TypeOK
<1>5. PICK p \in Pkgs : p = handler[h].pkg
  BY <1>1 DEF Owner, HandlerInv
<1>6. handler[h].pc = "waitNew" =>
        /\ forwarders[p] = id /\ monitor[id].pc = "none" /\ monitor[id].id = id
        /\ \A m \in Openers : monitor[m].pc \in Active => monitor[m].id # id
        /\ p \notin raced => \A m \in Openers : PkgOf(m) = p => monitor[m].pc # "put"
  BY <1>4, <1>5 DEF Owner, HandlerInv, MonitorInv
<1>7. handler[h].pc = "waitNew" => PkgOf(id) = p /\ id # None
  BY <1>4, <1>6, ForwardersAssumption DEF Owner, Registered, PkgOf, Openers, None
<1>8. /\ handler[h].pc = "waitNew" => monitor'[id] = [pc |-> "select", id |-> id]
      /\ handler[h].pc = "waitNew" => \A m \in Openers : m # id => monitor'[m] = monitor[m]
      /\ handler[h].pc = "wait" => monitor' = monitor
  <2>1. monitor[id] \in [pc : {"none", "select", "get", "open", "put", "drop", "end"}, id : Openers]
    BY DEF TypeOK
  <2>2. [monitor[id] EXCEPT !.pc = "select"] = [pc |-> "select", id |-> monitor[id].id]
    BY <2>1
  <2>3. QED
    BY <1>1, <1>4, <1>6, <2>2 DEF TypeOK
<1>9. \A m \in Openers : monitor[m].pc # "none" => monitor'[m] = monitor[m]
  BY <1>1, <1>6, <1>8
<1>10. RunningIsOwned'
  <2>1. Onward
    BY <1>1 DEF Onward
  <2>2. \A m \in Openers : monitor[m].pc = "put" => monitor'[m] = monitor[m]
    BY <1>9
  <2>3. QED
    BY <2>1, <2>2, <1>1, OwnershipStays DEF Owner
<1>11. Registered'
  BY <1>1 DEF Owner, Registered
<1>12. ASSUME NEW g \in Handlers
       PROVE  HandlerInv(g)'
  <2>1. HandlerInv(g)
    BY DEF Owner
  <2>2. QED
    BY <1>3, <2>1 DEF HandlerInv
<1>13. ASSUME NEW m \in Openers
       PROVE  MonitorInv(m)'
  <2>1. CASE monitor'[m] = monitor[m]
    BY <2>1, <1>1, <1>2, MonitorStays
  <2>2. CASE handler[h].pc = "waitNew" /\ m = id
    <3>1. monitor'[m].pc = "select" /\ monitor'[m].id = id
      BY <2>2, <1>8
    <3>2. PkgOf(m)' = p /\ opener'[id].pkg = p /\ forwarders'[p] = id
      BY <2>2, <1>1, <1>2, <1>6, <1>7 DEF PkgOf
    <3>3. QED
      BY <3>1, <3>2 DEF MonitorInv
  <2>3. QED
    BY <2>1, <2>2, <1>1, <1>8
<1>14. Distinct'
  BY <1>1, <1>6, <1>8 DEF Owner, Distinct, Active
<1>15. SolePut'
  <2>1. CASE handler[h].pc = "wait"
    <3>1. \A m \in Openers, q \in Pkgs : Minds(m, q)' <=> Minds(m, q)
      BY <2>1, <1>1, <1>2, <1>8 DEF Minds
    <3>2. QED
      BY <1>1, <1>2, <1>8, <2>1, <3>1, SolePutStays DEF Owner, MonitorInv
  <2>2. CASE handler[h].pc = "waitNew"
    <3> SUFFICES ASSUME NEW m \in Openers, NEW n \in Openers, m # n, monitor'[m].pc = "put",
                        PkgOf(n)' = PkgOf(m)', PkgOf(m)' \notin raced', Minds(n, PkgOf(m))'
                 PROVE  FALSE
      BY DEF SolePut
    <3>1. m # id /\ monitor[m].pc = "put" /\ PkgOf(m)' = PkgOf(m) /\ PkgOf(m) \in Pkgs
      BY <2>2, <1>2, <1>8 DEF Owner, MonitorInv
    <3>2. PkgOf(m) # p
      BY <2>2, <3>1, <1>1, <1>6
    <3>3. n # id
      BY <1>2, <1>7, <2>2, <3>1, <3>2
    <3>4. PICK r \in Pkgs : r = PkgOf(m)
      BY <3>1
    <3>5. Minds(n, r)' /\ monitor'[n] = monitor[n]
      BY <1>8, <2>2, <3>1, <3>3, <3>4 DEF Minds
    <3>6. Minds(n, r) /\ PkgOf(n) = r
      BY <1>1, <1>2, <3>5 DEF Minds
    <3>7. QED
      BY <1>1, <3>1, <3>4, <3>6 DEF Owner, SolePut
  <2>3. QED
    BY <1>1, <2>1, <2>2
<1>16. ASSUME NEW q \in Pkgs
       PROVE  EntryInv(q)'
  <2>1. EntryInv(q)
    BY DEF Owner
  <2>2. \A m \in Openers : Minds(m, q) => Minds(m, q)'
    <3>1. \A m \in Openers : Minds(m, q) => monitor[m].pc # "none"
      BY DEF Minds
    <3>2. QED
      BY <3>1, <1>1, <1>2, <1>9 DEF Minds
  <2>3. ASSUME NEW g \in Handlers, handler[g] = [pc |-> "waitNew", pkg |-> q, id |-> forwarders[q]]
        PROVE  Minds(id, q)'
    <3>1. g = h
      BY <2>3, <1>3
    <3>2. handler[h].pc = "waitNew" /\ q = p
      BY <2>3, <3>1, <1>5
    <3>3. QED
      BY <3>2, <1>1, <1>2, <1>6, <1>7, <1>8 DEF Minds
  <2>4. QED
    BY <1>1, <2>1, <2>2, <2>3 DEF EntryInv
<1>20. QED
  BY <1>10, <1>11, <1>12, <1>13, <1>14, <1>15, <1>16 DEF Owner

-----------------------------------------------------------------------------
(* The goroutine that waits for an opener.                                 *)

\* Requests are not concerned by a step of goroutine m that takes no opener from
\* them, and that holds no mutex.
LEMMA HandlersStay ==
  ASSUME TypeOK, Owner, \A n \in Openers : monitor[n].pc # "none" => PkgOf(n)' = PkgOf(n),
         NEW m \in Openers, monitor[m].pc \in Active,
         UNCHANGED <<mutex, handler>>, raced \subseteq raced',
         \A n \in Openers : n # m => monitor'[n] = monitor[n],
         monitor'[m].pc \in Active \union {"end"},
         mutex # "nobody" => forwarders' = forwarders,
         \A p \in Pkgs : forwarders[p] # None /\ monitor'[m].pc \in Active => forwarders[p] # monitor'[m].id \/ monitor'[m].id = monitor[m].id,
         monitor'[m].pc = "put" =>
           PkgOf(m) \in raced' \/ forwarders[PkgOf(m)] = monitor[m].id
  PROVE  \A h \in Handlers : HandlerInv(h)'
<1> SUFFICES ASSUME NEW h \in Handlers
             PROVE  HandlerInv(h)'
  OBVIOUS
<1>1. HandlerInv(h) /\ handler'[h] = handler[h]
  BY DEF Owner
<1>2. CASE handler[h].pc \notin {"open", "wait", "waitNew"}
  BY <1>1, <1>2 DEF HandlerInv
<1>3. CASE handler[h].pc \in {"open", "wait"}
  BY <1>1, <1>3, ForwardersAssumption DEF HandlerInv
<1>4. CASE handler[h].pc = "waitNew"
  <2>1. /\ forwarders' = forwarders /\ handler[h].pkg \in Pkgs /\ handler[h].id \in Openers
        /\ mutex = h /\ forwarders[handler[h].pkg] = handler[h].id
    BY <1>1, <1>4, ForwardersAssumption DEF HandlerInv, TypeOK
  <2>2. PICK p \in Pkgs : p = handler[h].pkg
    BY <2>1
  <2>3. PICK id \in Openers : id = handler[h].id
    BY <2>1
  <2>4. /\ forwarders[p] = id /\ monitor[id].pc = "none" /\ id # None
        /\ \A n \in Openers : monitor[n].pc \in Active => monitor[n].id # id
        /\ p \notin raced => \A n \in Openers : PkgOf(n) = p => monitor[n].pc # "put"
    BY <1>1, <1>4, <2>2, <2>3 DEF HandlerInv, Openers, None
  <2>5. m # id /\ monitor'[id].pc = "none"
    BY <2>4 DEF Active
  <2>6. ASSUME NEW n \in Openers, monitor'[n].pc \in Active
        PROVE  monitor'[n].id # id
    BY <2>4, <2>6
  <2>7. ASSUME p \notin raced', NEW n \in Openers, PkgOf(n)' = p, monitor'[n].pc = "put"
        PROVE  FALSE
    <3>1. monitor[n].pc # "none"
      BY <2>7 DEF Active
    <3>2. PkgOf(n) = p
      BY <3>1, <2>7
    <3>3. n = m
      BY <2>4, <2>7, <3>2
    <3>4. forwarders[p] = monitor[m].id
      BY <2>7, <3>2, <3>3
    <3>5. QED
      BY <2>4, <3>4
  <2>8. QED
    BY <1>1, <1>4, <2>1, <2>2, <2>3, <2>4, <2>5, <2>6, <2>7 DEF HandlerInv
<1>5. QED
  BY <1>2, <1>3, <1>4

LEMMA MonitorTypes ==
  ASSUME TypeOK, NEW m \in Openers
  PROVE  /\ monitor[m] \in [pc : {"none", "select", "get", "open", "put", "drop", "end"}, id : Openers]
         /\ monitor[m].id \in Openers /\ monitor[m].pc \in Active \union {"none", "end"}
         /\ \A pc \in STRING : [monitor[m] EXCEPT !.pc = pc] = [pc |-> pc, id |-> monitor[m].id]
<1>1. monitor[m] \in [pc : {"none", "select", "get", "open", "put", "drop", "end"}, id : Openers]
  BY DEF TypeOK
<1>2. QED
  BY <1>1 DEF Active

LEMMA MonReceiveOwner ==
  ASSUME TypeOK, \A i \in Openers : OpenerInv(opener[i]), Owner, NEW m \in Openers, MonReceive(m)
  PROVE  Owner'
<1>1. PICK id \in Openers : id = monitor[m].id
  BY MonitorTypes
<1>2. OwnStep(id) /\ HasEnded(opener[id])
  BY <1>1, ReceiveStep
<1>3. Onward
  BY <1>2, OwnStepFacts, EvolvesOnward
<1>4. /\ monitor[m].pc = "select" /\ monitor' = [monitor EXCEPT ![m].pc = "get"]
      /\ UNCHANGED <<mutex, forwarders, installed, deleting, handler, raced>>
  BY DEF MonReceive
<1>5. /\ monitor'[m].pc = "get" /\ monitor'[m].id = id
      /\ \A n \in Openers : n # m => monitor'[n] = monitor[n]
  BY <1>1, <1>4, MonitorTypes DEF TypeOK
<1>6. \A n \in Openers : PkgOf(n)' = PkgOf(n)
  BY <1>3 DEF Onward, PkgOf
<1>7. RunningIsOwned'
  <2>1. \A n \in Openers : monitor[n].pc = "put" => monitor'[n] = monitor[n]
    BY <1>4, <1>5
  <2>2. QED
    BY <2>1, <1>3, <1>4, OwnershipStays DEF Owner
<1>8. Registered'
  BY <1>3, <1>4 DEF Owner, Registered, Onward, TypeOK
<1>9. \A h \in Handlers : HandlerInv(h)'
  BY <1>1, <1>4, <1>5, <1>6, HandlersStay DEF Active
<1>10. ASSUME NEW n \in Openers
       PROVE  MonitorInv(n)'
  <2>1. CASE n # m
    BY <2>1, <1>3, <1>4, <1>5, MonitorOnward
  <2>2. CASE n = m
    <3>1. MonitorInv(m) /\ PkgOf(m)' = PkgOf(m)
      BY <1>6 DEF Owner
    <3>2. /\ opener'[id].pkg = opener[id].pkg /\ HasEnded(opener'[id])
          /\ opener[id].stopped => opener'[id].stopped
      BY <1>2, <1>3 DEF Onward
    <3>3. QED
      BY <2>2, <3>1, <3>2, <1>1, <1>4, <1>5 DEF MonitorInv, Active
  <2>3. QED
    BY <2>1, <2>2
<1>11. Distinct'
  BY <1>1, <1>4, <1>5 DEF Owner, Distinct, Active
<1>12. \A n \in Openers, q \in Pkgs : Minds(n, q)' <=> Minds(n, q)
  BY <1>1, <1>4, <1>5, <1>6 DEF Minds
<1>13. SolePut'
  BY <1>4, <1>5, <1>6, <1>12, SolePutStays DEF Owner, MonitorInv
<1>14. \A q \in Pkgs : EntryInv(q)'
  BY <1>4, <1>12 DEF Owner, EntryInv
<1>20. QED
  BY <1>7, <1>8, <1>9, <1>10, <1>11, <1>13, <1>14 DEF Owner

LEMMA MonGetOwner ==
  ASSUME TypeOK, Owner, NEW m \in Openers, MonGet(m)
  PROVE  Owner'
<1>1. PICK p \in Pkgs : p = PkgOf(m)
  BY DEF MonGet, Owner, MonitorInv
<1>2. PICK id \in Openers : id = monitor[m].id
  BY MonitorTypes
<1>3. /\ monitor[m].pc = "get"
      /\ monitor' = [monitor EXCEPT ![m].pc = IF p \in installed THEN "open" ELSE "end"]
      /\ raced' = IF p \in installed /\ opener[id].stopped THEN raced \union {p} ELSE raced
      /\ UNCHANGED <<mutex, forwarders, opener, installed, deleting, handler>>
  BY <1>1, <1>2 DEF MonGet
<1>4. Settled /\ \A n \in Openers : PkgOf(n)' = PkgOf(n)
  BY <1>3, UnchangedSettled
<1>5. /\ monitor'[m].pc = (IF p \in installed THEN "open" ELSE "end") /\ monitor'[m].id = id
      /\ \A n \in Openers : n # m => monitor'[n] = monitor[n]
      /\ raced \subseteq raced'
  BY <1>2, <1>3, MonitorTypes DEF TypeOK
<1>6. /\ opener[id].pkg = p /\ HasEnded(opener[id])
      /\ p \notin raced => forwarders[p] = id \/ opener[id].stopped
  BY <1>1, <1>2, <1>3 DEF Owner, MonitorInv, Active
<1>7. p \in installed /\ p \notin raced' => forwarders[p] = id
  BY <1>3, <1>6
<1>8. RunningIsOwned'
  <2>1. \A n \in Openers : monitor[n].pc = "put" => monitor'[n] = monitor[n]
    BY <1>3, <1>5
  <2>2. Onward
    BY <1>3 DEF Onward
  <2>3. QED
    BY <2>1, <2>2, <1>3, <1>5, OwnershipStays DEF Owner
<1>9. Registered'
  BY <1>3 DEF Owner, Registered
<1>10. \A h \in Handlers : HandlerInv(h)'
  BY <1>2, <1>3, <1>4, <1>5, HandlersStay DEF Active
<1>11. ASSUME NEW n \in Openers
       PROVE  MonitorInv(n)'
  <2>1. CASE n # m
    BY <2>1, <1>3, <1>4, <1>5, MonitorStays
  <2>2. CASE n = m
    <3>1. PkgOf(m)' = p
      BY <1>1, <1>4
    <3>2. QED
      BY <2>2, <3>1, <1>3, <1>5, <1>6, <1>7 DEF MonitorInv, Active
  <2>3. QED
    BY <2>1, <2>2
<1>12. Distinct'
  BY <1>2, <1>3, <1>5 DEF Owner, Distinct, Active
<1>13. ASSUME NEW n \in Openers, NEW q \in Pkgs, q \notin raced', Minds(n, q)'
       PROVE  Minds(n, q)
  <2>1. CASE n # m
    BY <2>1, <1>3, <1>4, <1>5, <1>13 DEF Minds
  <2>2. CASE n = m
    BY <2>2, <1>1, <1>2, <1>3, <1>4, <1>5, <1>7, <1>13 DEF Minds
  <2>3. QED
    BY <2>1, <2>2
<1>14. SolePut'
  BY <1>4, <1>5, <1>13, SolePutStays DEF Owner, MonitorInv
<1>15. ASSUME NEW q \in Pkgs
       PROVE  EntryInv(q)'
  <2>1. EntryInv(q)
    BY DEF Owner
  <2>2. ASSUME q \notin raced', forwarders[q] # None, deleting # q, NEW n \in Openers, Minds(n, q)
        PROVE  Minds(n, q)'
    <3>1. CASE n # m
      BY <3>1, <2>2, <1>3, <1>4, <1>5 DEF Minds
    <3>2. CASE n = m
      <4>1. q = p
        BY <3>2, <2>2, <1>1 DEF Minds
      <4>2. p \in installed
        BY <4>1, <2>1, <2>2, <1>5 DEF EntryInv
      <4>3. monitor'[m].pc = "open"
        BY <4>2, <1>5
      <4>4. QED
        BY <3>2, <4>1, <4>3, <1>1, <1>4 DEF Minds
    <3>3. QED
      BY <3>1, <3>2
  <2>3. QED
    BY <1>3, <1>5, <2>1, <2>2 DEF EntryInv
<1>20. QED
  BY <1>8, <1>9, <1>10, <1>11, <1>12, <1>14, <1>15 DEF Owner

LEMMA MonOpenedOwner ==
  ASSUME TypeOK, Owner, NEW m \in Openers, MonOpen(m), NEW id \in Openers, OpenSucceeds(id, PkgOf(m)),
         monitor' = [monitor EXCEPT ![m] = [pc |-> "put", id |-> id]]
  PROVE  Owner'
<1>1. PICK p \in Pkgs : p = PkgOf(m)
  BY DEF MonOpen, Owner, MonitorInv
<1>2. OpenStep(id, p)
  BY <1>1, OpenSuccess
<1>3. Settled
  BY <1>2, OpenSettled
<1>4. /\ monitor[id].pc = "none"
      /\ \A n \in Openers : monitor[n].pc \in Active => monitor[n].id # id
      /\ \A q \in Pkgs : forwarders[q] # id
      /\ \A i \in Openers : i # id => opener'[i] = opener[i] /\ PkgOf(i)' = PkgOf(i)
      /\ None \notin Pkgs /\ None \notin Openers
  BY <1>2, FreshFacts
<1>5. monitor[m].pc = "open" /\ UNCHANGED <<mutex, forwarders, installed, deleting, handler, raced>>
  BY DEF MonOpen
<1>6. /\ monitor'[m].pc = "put" /\ monitor'[m].id = id /\ monitor'[m] = [pc |-> "put", id |-> id]
      /\ \A n \in Openers : n # m => monitor'[n] = monitor[n]
  BY DEF TypeOK
<1>7. /\ opener[monitor[m].id].pkg = p /\ HasEnded(opener[monitor[m].id])
      /\ p \notin raced => forwarders[p] = monitor[m].id
      /\ m # id /\ PkgOf(m)' = p /\ monitor[m].id \in Openers
  BY <1>1, <1>4, <1>5, MonitorTypes DEF Owner, MonitorInv, Active
<1>8. RunningIsOwned'
  <2> SUFFICES ASSUME NEW i \in Openers, NEW x \in Ports,
                      opener'[i].fw[x] \in {"starting", "listening"}, ~opener'[i].stopped
               PROVE  \/ forwarders'[opener'[i].pkg] = i
                      \/ \E n \in Openers : monitor'[n] = [pc |-> "put", id |-> i]
                      \/ Halved(i)'
                      \/ opener'[i].pkg \in raced'
    BY DEF RunningIsOwned
  <2>1. CASE i = id
    BY <2>1, <1>6
  <2>2. CASE i # id
    <3>1. opener'[i] = opener[i]
      BY <2>2, <1>4
    <3>2. Halved(i) => Halved(i)'
      BY <3>1 DEF Halved
    <3>3. ASSUME NEW n \in Openers, monitor[n] = [pc |-> "put", id |-> i]
          PROVE  monitor'[n] = [pc |-> "put", id |-> i]
      BY <3>3, <1>5, <1>6
    <3>4. QED
      BY <3>1, <3>2, <3>3, <1>5 DEF Owner, RunningIsOwned
  <2>3. QED
    BY <2>1, <2>2
<1>9. Registered'
  BY <1>3, <1>5 DEF Owner, Registered, Settled
<1>10. \A h \in Handlers : HandlerInv(h)'
  <2>1. \A n \in Openers : monitor[n].pc # "none" => PkgOf(n)' = PkgOf(n)
    BY <1>3 DEF Settled
  <2>2. QED
    BY <2>1, <1>1, <1>4, <1>5, <1>6, <1>7, HandlersStay DEF Active
<1>11. ASSUME NEW n \in Openers
       PROVE  MonitorInv(n)'
  <2>1. CASE n # m
    BY <2>1, <1>3, <1>5, <1>6, MonitorStays
  <2>2. CASE n = m
    <3>1. opener'[id].pkg = p
      BY <1>2 DEF OpenStep
    <3>2. p \notin raced => forwarders[p] # None /\ HasEnded(opener'[forwarders[p]])
      BY <1>3, <1>4, <1>7 DEF Settled
    <3>3. QED
      BY <2>2, <3>1, <3>2, <1>5, <1>6, <1>7 DEF MonitorInv, Active
  <2>3. QED
    BY <2>1, <2>2
<1>12. Distinct'
  BY <1>4, <1>5, <1>6 DEF Owner, Distinct, Active
<1>13. ASSUME NEW n \in Openers, NEW q \in Pkgs
       PROVE  Minds(n, q)' <=> Minds(n, q)
  <2>1. CASE n = m
    BY <2>1, <1>1, <1>5, <1>6, <1>7 DEF Minds
  <2>2. CASE n # m
    BY <2>2, <1>3, <1>5, <1>6 DEF Minds, Settled
  <2>3. QED
    BY <2>1, <2>2
<1>14. SolePut'
  <2> SUFFICES ASSUME NEW k \in Openers, NEW n \in Openers, k # n, monitor'[k].pc = "put",
                      PkgOf(n)' = PkgOf(k)', PkgOf(k)' \notin raced', Minds(n, PkgOf(k))'
               PROVE  FALSE
    BY DEF SolePut
  <2>1. CASE k # m
    <3>1. monitor[k].pc = "put" /\ PkgOf(k)' = PkgOf(k) /\ PkgOf(k) \in Pkgs
      BY <2>1, <1>3, <1>6 DEF Owner, MonitorInv, Settled
    <3>2. PICK r \in Pkgs : r = PkgOf(k)
      BY <3>1
    <3>3. Minds(n, r)'
      BY <3>1, <3>2 DEF Minds
    <3>4. Minds(n, r) /\ PkgOf(n) = r
      BY <3>3, <1>13 DEF Minds
    <3>5. QED
      BY <1>5, <3>1, <3>2, <3>4 DEF Owner, SolePut
  <2>2. CASE k = m
    <3>1. Minds(n, p)'
      BY <2>2, <1>7 DEF Minds
    <3>2. Minds(n, p) /\ PkgOf(n) = p /\ p \notin raced
      BY <2>2, <3>1, <1>5, <1>7, <1>13 DEF Minds
    <3>3. Minds(m, p)
      BY <1>1, <1>5 DEF Minds
    <3>4. monitor[n].pc # "put"
      BY <2>2, <3>2, <3>3, <1>1 DEF Owner, SolePut
    <3>5. monitor[n].pc \in Active /\ monitor[n].id = forwarders[p]
      BY <3>2, <3>4 DEF Minds, Active, Owner, MonitorInv
    <3>6. QED
      BY <2>2, <3>2, <3>5, <1>5, <1>7 DEF Owner, Distinct, Active
  <2>3. QED
    BY <2>1, <2>2
<1>15. \A q \in Pkgs : EntryInv(q)'
  BY <1>5, <1>13 DEF Owner, EntryInv
<1>20. QED
  BY <1>8, <1>9, <1>10, <1>11, <1>12, <1>14, <1>15 DEF Owner

LEMMA MonNotOpenedOwner ==
  ASSUME TypeOK, Owner, NEW m \in Openers, MonOpen(m), OpenFails(PkgOf(m)),
         monitor' = [monitor EXCEPT ![m].pc = "drop"]
  PROVE  Owner'
<1>1. PICK p \in Pkgs : p = PkgOf(m)
  BY DEF MonOpen, Owner, MonitorInv
<1>2. Settled /\ \A i \in Openers : opener'[i] = opener[i] \/ opener'[i].stopped
  BY <1>1, FailureSettled
<1>3. monitor[m].pc = "open" /\ UNCHANGED <<mutex, forwarders, installed, deleting, handler, raced>>
  BY DEF MonOpen
<1>4. /\ monitor'[m].pc = "drop" /\ monitor'[m].id = monitor[m].id
      /\ \A n \in Openers : n # m => monitor'[n] = monitor[n]
  BY MonitorTypes DEF TypeOK
<1>5. RunningIsOwned'
  <2>1. \A n \in Openers : monitor[n].pc = "put" => monitor'[n] = monitor[n]
    BY <1>3, <1>4
  <2>2. QED
    BY <2>1, <1>2, <1>3, FailureOwned DEF Owner
<1>6. Registered'
  BY <1>2, <1>3 DEF Owner, Registered, Settled
<1>7. \A h \in Handlers : HandlerInv(h)'
  <2>1. \A n \in Openers : monitor[n].pc # "none" => PkgOf(n)' = PkgOf(n)
    BY <1>2 DEF Settled
  <2>2. QED
    BY <2>1, <1>3, <1>4, HandlersStay DEF Active
<1>8. ASSUME NEW n \in Openers
      PROVE  MonitorInv(n)'
  <2>1. CASE n # m
    BY <2>1, <1>2, <1>3, <1>4, MonitorStays
  <2>2. CASE n = m
    <3>1. MonitorInv(m) /\ PkgOf(m)' = PkgOf(m) /\ opener'[monitor[m].id] = opener[monitor[m].id]
      BY <1>2, <1>3 DEF Owner, Settled, Active
    <3>2. QED
      BY <2>2, <3>1, <1>3, <1>4 DEF MonitorInv, Active
  <2>3. QED
    BY <2>1, <2>2
<1>9. Distinct'
  BY <1>3, <1>4 DEF Owner, Distinct, Active
<1>10. ASSUME NEW n \in Openers, NEW q \in Pkgs
       PROVE  Minds(n, q)' <=> Minds(n, q)
  <2>1. CASE n = m
    BY <2>1, <1>2, <1>3, <1>4 DEF Minds, Settled
  <2>2. CASE n # m
    BY <2>2, <1>2, <1>3, <1>4 DEF Minds, Settled
  <2>3. QED
    BY <2>1, <2>2
<1>11. SolePut'
  <2>1. \A n \in Openers : monitor'[n].pc = "put" =>
          monitor[n].pc = "put" /\ PkgOf(n)' = PkgOf(n) /\ PkgOf(n) \in Pkgs
    BY <1>2, <1>4 DEF Settled, Owner, MonitorInv
  <2>2. QED
    BY <2>1, <1>3, <1>10, SolePutStays DEF Owner
<1>12. \A q \in Pkgs : EntryInv(q)'
  BY <1>3, <1>10 DEF Owner, EntryInv
<1>20. QED
  BY <1>5, <1>6, <1>7, <1>8, <1>9, <1>11, <1>12 DEF Owner

LEMMA MonPutOwner ==
  ASSUME TypeOK, Owner, NEW m \in Openers, MonPut(m)
  PROVE  Owner'
<1>1. PICK p \in Pkgs : p = PkgOf(m)
  BY DEF MonPut, Owner, MonitorInv
<1>2. PICK id \in Openers : id = monitor[m].id
  BY MonitorTypes
<1>3. /\ monitor[m].pc = "put" /\ mutex = "nobody"
      /\ forwarders' = [forwarders EXCEPT ![p] = id]
      /\ monitor' = [monitor EXCEPT ![m].pc = "select"]
      /\ UNCHANGED <<mutex, opener, installed, deleting, handler, raced>>
  BY <1>1, <1>2 DEF MonPut
<1>4. Settled /\ \A n \in Openers : PkgOf(n)' = PkgOf(n)
  BY <1>3, UnchangedSettled
<1>5. /\ monitor'[m].pc = "select" /\ monitor'[m].id = id
      /\ \A n \in Openers : n # m => monitor'[n] = monitor[n]
      /\ forwarders'[p] = id /\ \A q \in Pkgs : q # p => forwarders'[q] = forwarders[q]
  BY <1>2, <1>3, MonitorTypes DEF TypeOK
<1>6. /\ opener[id].pkg = p
      /\ p \notin raced => forwarders[p] # None /\ HasEnded(opener[forwarders[p]])
      /\ None \notin Pkgs
  BY <1>1, <1>2, <1>3, ForwardersAssumption DEF Owner, MonitorInv, Active, None
<1>7. p \notin raced => \A n \in Openers : n # m => ~Minds(n, p)
  <2>1. ASSUME p \notin raced, NEW n \in Openers, n # m, Minds(n, p)
        PROVE  FALSE
    <3>1. PkgOf(n) = PkgOf(m)
      BY <2>1, <1>1 DEF Minds
    <3>2. QED
      BY <2>1, <3>1, <1>1, <1>3 DEF Owner, SolePut
  <2>2. QED
    BY <2>1
<1>8. RunningIsOwned'
  <2> SUFFICES ASSUME NEW i \in Openers, NEW x \in Ports,
                      opener[i].fw[x] \in {"starting", "listening"}, ~opener[i].stopped
               PROVE  \/ forwarders'[opener[i].pkg] = i
                      \/ \E n \in Openers : monitor'[n] = [pc |-> "put", id |-> i]
                      \/ Halved(i)'
                      \/ opener[i].pkg \in raced
    BY <1>3 DEF RunningIsOwned
  <2>1. Halved(i) <=> Halved(i)'
    BY <1>3 DEF Halved
  <2>2. CASE forwarders[opener[i].pkg] = i
    <3>1. CASE opener[i].pkg = p
      BY <3>1, <2>1, <2>2, <1>6 DEF HasEnded, Halved
    <3>2. CASE opener[i].pkg \in Pkgs /\ opener[i].pkg # p
      BY <3>2, <2>2, <1>5
    <3>3. CASE opener[i].pkg = None
      <4>1. forwarders'[None] = forwarders[None]
        BY <1>3, <1>6 DEF TypeOK
      <4>2. QED
        BY <4>1, <3>3, <2>2
    <3>4. QED
      BY <3>1, <3>2, <3>3 DEF TypeOK
  <2>3. ASSUME NEW n \in Openers, monitor[n] = [pc |-> "put", id |-> i]
        PROVE  \/ forwarders'[opener[i].pkg] = i
               \/ \E k \in Openers : monitor'[k] = [pc |-> "put", id |-> i]
    <3>1. CASE n = m
      <4>1. i = id
        BY <3>1, <2>3, <1>2
      <4>2. QED
        BY <4>1, <1>5, <1>6
    <3>2. CASE n # m
      <4>1. monitor'[n] = [pc |-> "put", id |-> i]
        BY <3>2, <2>3, <1>5
      <4>2. QED
        BY <4>1
    <3>3. QED
      BY <3>1, <3>2
  <2>4. QED
    BY <2>1, <2>2, <2>3 DEF Owner, RunningIsOwned
<1>9. Registered'
  BY <1>3, <1>5, <1>6 DEF Owner, Registered
<1>10. \A h \in Handlers : HandlerInv(h)'
  BY <1>2, <1>3, <1>4, <1>5, HandlersStay DEF Active
<1>11. ASSUME NEW n \in Openers
       PROVE  MonitorInv(n)'
  <2>1. CASE n = m
    <3>1. PkgOf(m)' = p
      BY <1>1, <1>4
    <3>2. QED
      BY <2>1, <3>1, <1>3, <1>5, <1>6 DEF MonitorInv
  <2>2. CASE n # m /\ PkgOf(n) # p
    BY <2>2, <1>3, <1>4, <1>5, MonitorStays
  <2>3. CASE n # m /\ PkgOf(n) = p
    <3>1. MonitorInv(n) /\ PkgOf(n)' = p /\ monitor'[n] = monitor[n]
      BY <2>3, <1>4, <1>5 DEF Owner
    <3>2. p \notin raced => /\ monitor[n].pc \notin {"open", "put", "drop"}
                            /\ monitor[n].pc \in {"select", "get"} => monitor[n].id # forwarders[p]
      BY <2>3, <1>7 DEF Minds
    <3>3. QED
      BY <2>3, <3>1, <3>2, <1>3 DEF MonitorInv
  <2>4. QED
    BY <2>1, <2>2, <2>3
<1>12. Distinct'
  BY <1>2, <1>3, <1>5 DEF Owner, Distinct, Active
<1>13. ASSUME NEW n \in Openers, NEW q \in Pkgs, Minds(n, q)'
       PROVE  Minds(n, q)
  <2>1. CASE n = m
    BY <2>1, <1>1, <1>3, <1>4, <1>13 DEF Minds
  <2>2. CASE n # m /\ q # p
    BY <2>2, <1>4, <1>5, <1>13 DEF Minds
  <2>3. CASE n # m /\ q = p
    <3>1. monitor[n].pc \in {"select", "get"} => monitor[n].id # id
      BY <2>3, <1>2, <1>3 DEF Owner, Distinct, Active
    <3>2. QED
      BY <2>3, <3>1, <1>4, <1>5, <1>13 DEF Minds
  <2>4. QED
    BY <2>1, <2>2, <2>3
<1>14. SolePut'
  <2>1. \A n \in Openers : monitor'[n].pc = "put" =>
          monitor[n].pc = "put" /\ PkgOf(n)' = PkgOf(n) /\ PkgOf(n) \in Pkgs
    BY <1>4, <1>5 DEF Owner, MonitorInv
  <2>2. QED
    BY <2>1, <1>3, <1>13, SolePutStays DEF Owner
<1>15. ASSUME NEW q \in Pkgs
       PROVE  EntryInv(q)'
  <2>1. EntryInv(q)
    BY DEF Owner
  <2>2. CASE q = p
    <3>1. Minds(m, p)'
      BY <1>1, <1>4, <1>5 DEF Minds
    <3>2. QED
      BY <2>1, <2>2, <3>1, <1>3, <1>6 DEF EntryInv
  <2>3. CASE q # p
    <3>1. ASSUME NEW n \in Openers, Minds(n, q)
          PROVE  Minds(n, q)'
      <4>1. n # m
        BY <2>3, <3>1, <1>1 DEF Minds
      <4>2. QED
        BY <2>3, <3>1, <4>1, <1>4, <1>5 DEF Minds
    <3>2. QED
      BY <2>1, <2>3, <3>1, <1>3, <1>5 DEF EntryInv
  <2>4. QED
    BY <2>2, <2>3
<1>20. QED
  BY <1>8, <1>9, <1>10, <1>11, <1>12, <1>14, <1>15 DEF Owner

LEMMA MonDropOwner ==
  ASSUME TypeOK, Owner, NEW m \in Openers, MonDrop(m)
  PROVE  Owner'
<1>1. PICK p \in Pkgs : p = PkgOf(m)
  BY DEF MonDrop, Owner, MonitorInv
<1>2. PICK id \in Openers : id = monitor[m].id
  BY MonitorTypes
<1>3. /\ monitor[m].pc = "drop" /\ mutex = "nobody"
      /\ forwarders' = [forwarders EXCEPT ![p] = None]
      /\ monitor' = [monitor EXCEPT ![m].pc = "end"]
      /\ UNCHANGED <<mutex, opener, installed, deleting, handler, raced>>
  BY <1>1, <1>2 DEF MonDrop
<1>4. Settled /\ \A n \in Openers : PkgOf(n)' = PkgOf(n)
  BY <1>3, UnchangedSettled
<1>5. /\ monitor'[m].pc = "end" /\ monitor'[m].id = id
      /\ \A n \in Openers : n # m => monitor'[n] = monitor[n]
      /\ forwarders'[p] = None /\ \A q \in Pkgs : q # p => forwarders'[q] = forwarders[q]
  BY <1>2, <1>3, MonitorTypes DEF TypeOK
<1>6. /\ HasEnded(opener[id])
      /\ p \notin raced => forwarders[p] = id
      /\ None \notin Pkgs /\ None \notin Openers
  BY <1>1, <1>2, <1>3, ForwardersAssumption DEF Owner, MonitorInv, None, Openers
<1>7. p \notin raced => \A n \in Openers : n # m /\ PkgOf(n) = p => monitor[n].pc \notin {"open", "put", "drop"}
  <2>1. Minds(m, p)
    BY <1>1, <1>3 DEF Minds
  <2>2. ASSUME p \notin raced, NEW n \in Openers, n # m, PkgOf(n) = p
        PROVE  monitor[n].pc \notin {"open", "put", "drop"}
    <3>1. monitor[n].pc # "put"
      BY <2>1, <2>2, <1>1 DEF Owner, SolePut
    <3>2. monitor[n].pc \in {"open", "drop"} => monitor[n].id = id
      BY <2>2, <1>6 DEF Owner, MonitorInv
    <3>3. monitor[n].pc \in {"open", "drop"} => monitor[n].id # id
      BY <2>2, <1>2, <1>3 DEF Owner, Distinct, Active
    <3>4. QED
      BY <3>1, <3>2, <3>3
  <2>3. QED
    BY <2>2
<1>8. RunningIsOwned'
  <2> SUFFICES ASSUME NEW i \in Openers, NEW x \in Ports,
                      opener[i].fw[x] \in {"starting", "listening"}, ~opener[i].stopped
               PROVE  \/ forwarders'[opener[i].pkg] = i
                      \/ \E n \in Openers : monitor'[n] = [pc |-> "put", id |-> i]
                      \/ Halved(i)'
                      \/ opener[i].pkg \in raced
    BY <1>3 DEF RunningIsOwned
  <2>1. Halved(i) <=> Halved(i)'
    BY <1>3 DEF Halved
  <2>2. CASE forwarders[opener[i].pkg] = i
    <3>1. CASE opener[i].pkg = p
      BY <3>1, <2>1, <2>2, <1>6 DEF HasEnded, Halved
    <3>2. CASE opener[i].pkg \in Pkgs /\ opener[i].pkg # p
      BY <3>2, <2>2, <1>5
    <3>3. CASE opener[i].pkg = None
      <4>1. forwarders'[None] = forwarders[None]
        BY <1>3, <1>6 DEF TypeOK
      <4>2. QED
        BY <4>1, <3>3, <2>2
    <3>4. QED
      BY <3>1, <3>2, <3>3 DEF TypeOK
  <2>3. ASSUME NEW n \in Openers, monitor[n] = [pc |-> "put", id |-> i]
        PROVE  monitor'[n] = [pc |-> "put", id |-> i]
    BY <2>3, <1>3, <1>5
  <2>4. QED
    BY <2>1, <2>2, <2>3 DEF Owner, RunningIsOwned
<1>9. Registered'
  BY <1>3, <1>5 DEF Owner, Registered
<1>10. \A h \in Handlers : HandlerInv(h)'
  BY <1>2, <1>3, <1>4, <1>5, HandlersStay DEF Active
<1>11. ASSUME NEW n \in Openers
       PROVE  MonitorInv(n)'
  <2>1. CASE n = m
    <3>1. PkgOf(m)' = p
      BY <1>1, <1>4
    <3>2. QED
      BY <2>1, <3>1, <1>5 DEF MonitorInv, Active
  <2>2. CASE n # m /\ PkgOf(n) # p
    BY <2>2, <1>3, <1>4, <1>5, MonitorStays
  <2>3. CASE n # m /\ PkgOf(n) = p
    <3>1. MonitorInv(n) /\ PkgOf(n)' = p /\ monitor'[n] = monitor[n]
      BY <2>3, <1>4, <1>5 DEF Owner
    <3>2. monitor[n].pc \in {"select", "get"} => monitor[n].id # id
      BY <2>3, <1>2, <1>3 DEF Owner, Distinct, Active
    <3>3. QED
      BY <2>3, <3>1, <3>2, <1>3, <1>6, <1>7 DEF MonitorInv
  <2>4. QED
    BY <2>1, <2>2, <2>3
<1>12. Distinct'
  BY <1>2, <1>3, <1>5 DEF Owner, Distinct, Active
<1>13. ASSUME NEW n \in Openers, NEW q \in Pkgs, Minds(n, q)'
       PROVE  Minds(n, q)
  <2>1. n # m /\ monitor'[n].id \in Openers
    BY <1>2, <1>5, <1>13, MonitorTypes DEF Minds
  <2>2. QED
    BY <2>1, <1>4, <1>5, <1>6, <1>13 DEF Minds
<1>14. SolePut'
  <2>1. \A n \in Openers : monitor'[n].pc = "put" =>
          monitor[n].pc = "put" /\ PkgOf(n)' = PkgOf(n) /\ PkgOf(n) \in Pkgs
    BY <1>4, <1>5 DEF Owner, MonitorInv
  <2>2. QED
    BY <2>1, <1>3, <1>13, SolePutStays DEF Owner
<1>15. ASSUME NEW q \in Pkgs
       PROVE  EntryInv(q)'
  <2>1. EntryInv(q)
    BY DEF Owner
  <2>2. CASE q = p
    BY <2>2, <1>5 DEF EntryInv
  <2>3. CASE q # p
    <3>1. ASSUME NEW n \in Openers, Minds(n, q)
          PROVE  Minds(n, q)'
      <4>1. n # m
        BY <2>3, <3>1, <1>1 DEF Minds
      <4>2. QED
        BY <2>3, <3>1, <4>1, <1>4, <1>5 DEF Minds
    <3>2. QED
      BY <2>1, <2>3, <3>1, <1>3, <1>5 DEF EntryInv
  <2>4. QED
    BY <2>2, <2>3
<1>20. QED
  BY <1>8, <1>9, <1>10, <1>11, <1>12, <1>14, <1>15 DEF Owner

-----------------------------------------------------------------------------
(* The deletion of a package.                                              *)

LEMMA DeleteFacts ==
  ASSUME TypeOK, DeleteFunc
  PROVE  /\ opener' \in [Openers -> OpenerType]
         /\ \A i \in Openers :
              /\ opener'[i].pkg = opener[i].pkg /\ opener'[i].fw = opener[i].fw /\ opener'[i].ready = opener[i].ready
              /\ opener'[i].waiter = opener[i].waiter /\ (opener'[i].closed <=> opener[i].closed)
              /\ opener[i].stopped => opener'[i].stopped
              /\ i # forwarders[deleting] => opener'[i] = opener[i]
              /\ i = forwarders[deleting] => opener'[i].stopped
              /\ PkgOf(i)' = PkgOf(i)
<1>1. CASE forwarders[deleting] = None
  <2>1. opener' = opener
    BY <1>1 DEF DeleteFunc
  <2>2. None \notin Openers
    BY DEF None, Openers
  <2>3. QED
    BY <1>1, <2>1, <2>2, TypeFacts DEF PkgOf
<1>2. CASE forwarders[deleting] # None
  <2>1. PICK d \in Pkgs : d = deleting
    BY ForwardersAssumption DEF TypeOK, DeleteFunc, None
  <2>2. PICK id \in Openers : id = forwarders[deleting]
    BY <1>2, <2>1 DEF TypeOK
  <2>3. opener' = [opener EXCEPT ![id] = [opener[id] EXCEPT !.stopped = TRUE]]
    BY <1>2, <2>2 DEF DeleteFunc, Stop
  <2>4. PICK o \in OpenerType : o = opener[id]
    BY TypeFacts
  <2>5. LET n == [o EXCEPT !.stopped = TRUE]
        IN /\ n \in OpenerType
           /\ n.pkg = o.pkg /\ n.fw = o.fw /\ n.ready = o.ready
           /\ n.waiter = o.waiter /\ (n.closed <=> o.closed) /\ n.stopped
    BY DEF OpenerType
  <2>6. /\ opener'[id] \in OpenerType
        /\ opener'[id].pkg = opener[id].pkg /\ opener'[id].fw = opener[id].fw /\ opener'[id].ready = opener[id].ready
        /\ opener'[id].waiter = opener[id].waiter /\ (opener'[id].closed <=> opener[id].closed) /\ opener'[id].stopped
    BY <2>3, <2>4, <2>5, TypeFacts
  <2>7. \A i \in Openers : i # id => opener'[i] = opener[i]
    BY <2>3, TypeFacts
  <2>8. opener' \in [Openers -> OpenerType]
    BY <2>3, <2>6, <2>7, TypeFacts
  <2>9. \A i \in Openers : i = id \/ opener'[i] = opener[i]
    BY <2>7
  <2>10. QED
    BY <2>2, <2>6, <2>7, <2>8, <2>9 DEF PkgOf
<1>3. QED
  BY <1>1, <1>2

LEMMA DeleteFuncOwner ==
  ASSUME TypeOK, \A i \in Openers : OpenerInv(opener[i]), Owner, DeleteFunc
  PROVE  Owner'
<1>1. PICK p \in Pkgs : p = deleting
  BY ForwardersAssumption DEF TypeOK, DeleteFunc, None
<1>2. /\ mutex = "nobody"
      /\ forwarders' = [forwarders EXCEPT ![p] = None]
      /\ UNCHANGED <<mutex, installed, handler, monitor>>
      /\ raced' = IF \E m \in Openers : PkgOf(m) = p /\ monitor[m].pc \in {"open", "put", "drop"}
                  THEN raced \union {p} ELSE raced
  BY <1>1 DEF DeleteFunc
<1>3. \A i \in Openers :
        /\ opener'[i].pkg = opener[i].pkg /\ opener'[i].fw = opener[i].fw
        /\ opener[i].stopped => opener'[i].stopped
        /\ i = forwarders[p] => opener'[i].stopped
        /\ PkgOf(i)' = PkgOf(i)
  BY <1>1, DeleteFacts
<1>4. /\ forwarders'[p] = None /\ \A q \in Pkgs : q # p => forwarders'[q] = forwarders[q]
      /\ raced \subseteq raced'
      /\ p \notin raced' => \A m \in Openers : PkgOf(m) = p => monitor[m].pc \notin {"open", "put", "drop"}
      /\ None \notin Pkgs /\ None \notin Openers
  BY <1>2, ForwardersAssumption DEF TypeOK, None, Openers
<1>5. RunningIsOwned'
  <2> SUFFICES ASSUME NEW i \in Openers, NEW x \in Ports,
                      opener'[i].fw[x] \in {"starting", "listening"}, ~opener'[i].stopped
               PROVE  \/ forwarders'[opener'[i].pkg] = i
                      \/ \E m \in Openers : monitor'[m] = [pc |-> "put", id |-> i]
                      \/ Halved(i)'
                      \/ opener'[i].pkg \in raced'
    BY DEF RunningIsOwned
  <2>1. opener[i].fw[x] \in {"starting", "listening"} /\ ~opener[i].stopped /\ opener'[i].pkg = opener[i].pkg
    BY <1>3
  <2>2. Halved(i) <=> Halved(i)'
    BY <1>3 DEF Halved
  <2>3. forwarders[opener[i].pkg] = i => forwarders'[opener[i].pkg] = i
    <3>1. CASE opener[i].pkg = p
      BY <3>1, <1>3
    <3>2. CASE opener[i].pkg \in Pkgs /\ opener[i].pkg # p
      BY <3>2, <1>4
    <3>3. CASE opener[i].pkg = None
      BY <3>3, <1>2, <1>4 DEF TypeOK
    <3>4. QED
      BY <3>1, <3>2, <3>3 DEF TypeOK
  <2>4. QED
    BY <2>1, <2>2, <2>3, <1>2, <1>4 DEF Owner, RunningIsOwned
<1>6. Registered'
  BY <1>3, <1>4 DEF Owner, Registered, TypeOK
<1>7. ASSUME NEW h \in Handlers
      PROVE  HandlerInv(h)'
  <2>1. HandlerInv(h) /\ handler'[h] = handler[h]
    BY <1>2 DEF Owner
  <2>2. handler[h].pc \notin {"open", "wait", "waitNew"}
    BY <2>1, <1>2, ForwardersAssumption DEF HandlerInv
  <2>3. QED
    BY <2>1, <2>2 DEF HandlerInv
<1>8. ASSUME NEW m \in Openers
      PROVE  MonitorInv(m)'
  <2>1. MonitorInv(m) /\ PkgOf(m)' = PkgOf(m) /\ monitor'[m] = monitor[m] /\ monitor[m].id \in Openers
    BY <1>2, <1>3, MonitorTypes DEF Owner
  <2>2. /\ opener'[monitor[m].id].pkg = opener[monitor[m].id].pkg
        /\ HasEnded(opener[monitor[m].id]) => HasEnded(opener'[monitor[m].id])
        /\ opener[monitor[m].id].stopped => opener'[monitor[m].id].stopped
        /\ monitor[m].id = forwarders[p] => opener'[monitor[m].id].stopped
    BY <2>1, <1>3 DEF HasEnded
  <2>3. CASE PkgOf(m) = p
    BY <2>1, <2>2, <2>3, <1>4 DEF MonitorInv, Active
  <2>4. CASE PkgOf(m) # p
    <3>1. PkgOf(m) \in Pkgs => forwarders'[PkgOf(m)] = forwarders[PkgOf(m)]
      BY <2>4, <1>4
    <3>2. PkgOf(m) \in Pkgs /\ forwarders[PkgOf(m)] # None =>
            (HasEnded(opener[forwarders[PkgOf(m)]]) => HasEnded(opener'[forwarders[PkgOf(m)]]))
      BY <1>3 DEF TypeOK, HasEnded
    <3>3. QED
      BY <2>1, <2>2, <3>1, <3>2, <1>4 DEF MonitorInv
  <2>5. QED
    BY <2>3, <2>4
<1>9. Distinct'
  BY <1>2 DEF Owner, Distinct
<1>10. ASSUME NEW n \in Openers, NEW q \in Pkgs, Minds(n, q)'
       PROVE  Minds(n, q)
  <2>1. monitor[n].id # None
    BY <1>4, MonitorTypes
  <2>2. QED
    BY <2>1, <1>2, <1>3, <1>4, <1>10 DEF Minds
<1>11. SolePut'
  <2>1. \A n \in Openers : monitor'[n].pc = "put" =>
          monitor[n].pc = "put" /\ PkgOf(n)' = PkgOf(n) /\ PkgOf(n) \in Pkgs
    BY <1>2, <1>3 DEF Owner, MonitorInv
  <2>2. QED
    BY <2>1, <1>4, <1>10, SolePutStays DEF Owner
<1>12. ASSUME NEW q \in Pkgs
       PROVE  EntryInv(q)'
  <2>1. EntryInv(q)
    BY DEF Owner
  <2>2. CASE q = p
    BY <2>2, <1>4 DEF EntryInv
  <2>3. CASE q # p
    <3>1. \A n \in Openers : Minds(n, q) => Minds(n, q)'
      BY <2>3, <1>2, <1>3, <1>4 DEF Minds
    <3>2. QED
      BY <2>1, <2>3, <3>1, <1>1, <1>2, <1>4 DEF EntryInv
  <2>4. QED
    BY <2>2, <2>3
<1>20. QED
  BY <1>5, <1>6, <1>7, <1>8, <1>9, <1>11, <1>12 DEF Owner

-----------------------------------------------------------------------------
(* The types.                                                              *)

LEMMA TypeStays ==
  ASSUME TypeOK, opener' \in [Openers -> OpenerType],
         mutex' \in Handlers \union {"nobody"},
         forwarders' \in [Pkgs -> Openers \union {None}],
         installed' \subseteq Pkgs, deleting' \in Pkgs \union {None},
         handler' \in [Handlers -> HandlerType],
         \A h \in Handlers : handler'[h].pc \in {"wait", "waitNew"} => handler'[h].id # None,
         monitor' \in [Openers -> [pc : {"none", "select", "get", "open", "put", "drop", "end"}, id : Openers]],
         panicked' \in BOOLEAN, faults' \in 0..MaxFaults, installs' \in 0..MaxInstalls, raced' \subseteq Pkgs
  PROVE  TypeOK'
  BY DEF TypeOK, OpenerType, HandlerType, FwPcs

LEMMA TypeParts ==
  ASSUME TypeOK
  PROVE  /\ opener \in [Openers -> OpenerType]
         /\ mutex \in Handlers \union {"nobody"}
         /\ forwarders \in [Pkgs -> Openers \union {None}]
         /\ installed \subseteq Pkgs /\ deleting \in Pkgs \union {None}
         /\ handler \in [Handlers -> HandlerType]
         /\ \A h \in Handlers : handler[h].pc \in {"wait", "waitNew"} => handler[h].id # None
         /\ monitor \in [Openers -> [pc : {"none", "select", "get", "open", "put", "drop", "end"}, id : Openers]]
         /\ panicked \in BOOLEAN /\ faults \in 0..MaxFaults /\ installs \in 0..MaxInstalls /\ raced \subseteq Pkgs
  BY DEF TypeOK, OpenerType, HandlerType, FwPcs

\* What the steps of openers and goroutines make of the openers: their types,
\* what holds of each, and that a panic needs an error.
Sound ==
  /\ TypeOK
  /\ \A id \in Openers : OpenerInv(opener[id])
  /\ CleanInv

LEMMA OpenerStepsSound ==
  ASSUME Sound, NEW id \in Openers, OwnStep(id), UNCHANGED <<rest, panicked>>
  PROVE  Sound'
<1>1. opener' \in [Openers -> OpenerType] /\ \A i \in Openers : OpenerInv(opener'[i])
  BY OwnStepFacts DEF Sound
<1>2. CleanInv'
  BY OwnStepClean DEF Sound
<1>3. faults' \in 0..MaxFaults
  BY DEF OwnStep
<1>4. TypeOK'
  BY <1>1, <1>3, TypeParts, TypeStays DEF rest, Sound
<1>5. QED
  BY <1>1, <1>2, <1>4 DEF Sound

LEMMA SameOpeners ==
  ASSUME Sound, UNCHANGED <<opener, faults, panicked>>
  PROVE  opener' \in [Openers -> OpenerType] /\ CleanInv' /\ \A i \in Openers : OpenerInv(opener'[i])
  BY TypeFacts DEF Sound, CleanInv, NoFailure

LEMMA HandlerSound ==
  ASSUME Sound, Owner, NEW h \in Handlers,
         Lock(h) \/ Request(h) \/ \E p \in Pkgs : Click(h, p)
  PROVE  Sound'
<1>0. /\ TypeOK /\ UNCHANGED <<installed, deleting, panicked, faults, installs>>
      /\ handler[h] \in HandlerType
      /\ handler[h].pc # "idle" => handler[h].pkg \in Pkgs
  BY TypeParts DEF Sound, Lock, Request, Click, HandlerFails, Return, HandlerOpens, Owner, HandlerInv
<1>1. ASSUME NEW p \in Pkgs, Click(h, p)
      PROVE  Sound'
  <2>1. handler' \in [Handlers -> HandlerType] /\
        \A g \in Handlers : handler'[g].pc \in {"wait", "waitNew"} => handler'[g].id # None
    BY <1>0, <1>1, TypeParts DEF Click, HandlerType
  <2>2. UNCHANGED <<mutex, forwarders, opener, monitor, raced>>
    BY <1>1 DEF Click
  <2>3. QED
    BY <1>0, <2>1, <2>2, SameOpeners, TypeParts, TypeStays DEF Sound
<1>2. ASSUME Lock(h)
      PROVE  Sound'
  <2>1. handler[h].pkg \in Pkgs /\ forwarders[handler[h].pkg] \in Openers \union {None}
    BY <1>0, <1>2, TypeParts DEF Lock
  <2>2. handler' = [handler EXCEPT ![h] = handler'[h]] /\ handler'[h] \in HandlerType
    BY <1>0, <1>2, <2>1, TypeParts DEF Lock, HandlerType
  <2>3. handler'[h].pc \in {"wait", "waitNew"} => handler'[h].id # None
    BY <1>0, <1>2, <2>1, TypeParts DEF Lock, HandlerType
  <2>4. handler' \in [Handlers -> HandlerType] /\
        \A g \in Handlers : handler'[g].pc \in {"wait", "waitNew"} => handler'[g].id # None
    BY <1>0, <2>2, <2>3, TypeParts
  <2>5. UNCHANGED <<forwarders, opener, monitor, raced>> /\ mutex' \in Handlers \union {"nobody"}
    BY <1>2 DEF Lock
  <2>6. QED
    BY <1>0, <2>4, <2>5, SameOpeners, TypeParts, TypeStays DEF Sound
<1>3. ASSUME Return(h)
      PROVE  Sound'
  <2>1. handler' \in [Handlers -> HandlerType] /\
        \A g \in Handlers : handler'[g].pc \in {"wait", "waitNew"} => handler'[g].id # None
    BY <1>0, <1>3, TypeParts DEF Return, HandlerType, Idle
  <2>2. monitor' \in [Openers -> [pc : {"none", "select", "get", "open", "put", "drop", "end"}, id : Openers]]
    <3>1. PICK id \in Openers \union {None} : id = handler[h].id
      BY <1>0 DEF HandlerType
    <3>2. monitor' = monitor \/ monitor' = [monitor EXCEPT ![id].pc = "select"]
      BY <1>3, <3>1 DEF Return
    <3>3. QED
      BY <1>0, <3>2, TypeParts
  <2>3. UNCHANGED <<forwarders, opener, raced>> /\ mutex' \in Handlers \union {"nobody"}
    BY <1>3 DEF Return
  <2>4. QED
    BY <1>0, <2>1, <2>2, <2>3, SameOpeners, TypeParts, TypeStays DEF Sound
<1>4. ASSUME HandlerFails(h)
      PROVE  Sound'
  <2>1. PICK p \in Pkgs : p = handler[h].pkg
    BY <1>0, <1>4 DEF HandlerFails
  <2>2. OpenFails(p)
    BY <1>4, <2>1 DEF HandlerFails
  <2>3. opener' \in [Openers -> OpenerType] /\ CleanInv' /\ \A i \in Openers : OpenerInv(opener'[i])
    <3>1. CASE UNCHANGED opener
      BY <1>0, <3>1, SameOpeners
    <3>2. ASSUME NEW id \in Openers, OpenStep(id, p)
          PROVE  opener' \in [Openers -> OpenerType] /\ CleanInv' /\ \A i \in Openers : OpenerInv(opener'[i])
      BY <1>0, <3>2, OpenFacts DEF Sound
    <3>3. QED
      BY <1>0, <2>2, <3>1, <3>2, OpenFailure
  <2>4. handler' \in [Handlers -> HandlerType] /\
        \A g \in Handlers : handler'[g].pc \in {"wait", "waitNew"} => handler'[g].id # None
    BY <1>0, <1>4, TypeParts DEF HandlerFails, HandlerType, Idle
  <2>5. UNCHANGED <<forwarders, monitor, raced>> /\ mutex' \in Handlers \union {"nobody"}
    BY <1>4 DEF HandlerFails
  <2>6. QED
    BY <1>0, <2>3, <2>4, <2>5, TypeParts, TypeStays DEF Sound
<1>5. ASSUME NEW id \in Openers, HandlerOpens(h, id)
      PROVE  Sound'
  <2>1. PICK p \in Pkgs : p = handler[h].pkg
    BY <1>0, <1>5 DEF HandlerOpens
  <2>2. OpenStep(id, p)
    BY <1>0, <1>5, <2>1, OpenSuccess DEF HandlerOpens
  <2>3. opener' \in [Openers -> OpenerType] /\ CleanInv' /\ \A i \in Openers : OpenerInv(opener'[i])
    BY <1>0, <2>2, OpenFacts DEF Sound
  <2>4. handler' = [handler EXCEPT ![h] = [pc |-> "waitNew", pkg |-> p, id |-> id]]
    <3>1. handler' = [handler EXCEPT ![h] = [handler[h] EXCEPT !.pc = "waitNew", !.id = id]]
      BY <1>5 DEF HandlerOpens
    <3>2. QED
      BY <1>0, <2>1, <3>1, RequestUpdate
  <2>5. handler' \in [Handlers -> HandlerType] /\
        \A g \in Handlers : handler'[g].pc \in {"wait", "waitNew"} => handler'[g].id # None
    BY <1>0, <2>4, TypeParts DEF HandlerType, None, Openers
  <2>6. forwarders' \in [Pkgs -> Openers \union {None}] /\ raced' \subseteq Pkgs
    BY <1>0, <1>5, <2>1, TypeParts DEF HandlerOpens
  <2>7. UNCHANGED <<mutex, monitor>>
    BY <1>5 DEF HandlerOpens
  <2>8. QED
    BY <1>0, <2>3, <2>5, <2>6, <2>7, TypeParts, TypeStays DEF Sound
<1>6. QED
  BY <1>1, <1>2, <1>3, <1>4, <1>5 DEF Request

LEMMA MonitorSound ==
  ASSUME Sound, Owner, NEW m \in Openers, Monitors(m) \/ Registers(m)
  PROVE  Sound'
<1> DEFINE MonitorType == [pc : {"none", "select", "get", "open", "put", "drop", "end"}, id : Openers]
<1>0. /\ TypeOK /\ UNCHANGED <<mutex, installed, deleting, handler, panicked, faults, installs>>
      /\ monitor \in [Openers -> MonitorType]
      /\ monitor[m].pc # "none" => PkgOf(m) \in Pkgs
  BY TypeParts DEF Sound, Monitors, Registers, MonReceive, MonGet, MonOpen, MonPut, MonDrop, Owner, MonitorInv
<1>1. ASSUME MonReceive(m)
      PROVE  Sound'
  <2>1. PICK id \in Openers : id = monitor[m].id
    BY <1>0
  <2>2. OwnStep(id)
    BY <1>1, <2>1, ReceiveStep DEF Sound
  <2>3. opener' \in [Openers -> OpenerType] /\ \A i \in Openers : OpenerInv(opener'[i])
    BY <2>2, OwnStepFacts DEF Sound
  <2>4. CleanInv'
    BY <1>0, <2>2, OwnStepClean DEF Sound
  <2>5. monitor' \in [Openers -> MonitorType] /\ UNCHANGED <<forwarders, raced>>
    BY <1>0, <1>1 DEF MonReceive
  <2>6. QED
    BY <1>0, <2>3, <2>4, <2>5, TypeParts, TypeStays DEF Sound
<1>2. ASSUME MonGet(m)
      PROVE  Sound'
  <2>1. monitor' \in [Openers -> MonitorType] /\ UNCHANGED <<forwarders, opener>>
    BY <1>0, <1>2 DEF MonGet
  <2>2. raced' \subseteq Pkgs
    BY <1>0, <1>2, TypeParts DEF MonGet
  <2>3. QED
    BY <1>0, <2>1, <2>2, SameOpeners, TypeParts, TypeStays DEF Sound
<1>3. ASSUME MonOpen(m)
      PROVE  Sound'
  <2>1. PICK p \in Pkgs : p = PkgOf(m)
    BY <1>0, <1>3 DEF MonOpen
  <2>2. UNCHANGED <<forwarders, raced>>
    BY <1>3 DEF MonOpen
  <2>3. ASSUME NEW id \in Openers, OpenSucceeds(id, p), monitor' = [monitor EXCEPT ![m] = [pc |-> "put", id |-> id]]
        PROVE  Sound'
    <3>1. opener' \in [Openers -> OpenerType] /\ CleanInv' /\ \A i \in Openers : OpenerInv(opener'[i])
      BY <1>0, <2>3, OpenSuccess, OpenFacts DEF Sound
    <3>2. monitor' \in [Openers -> MonitorType]
      BY <1>0, <2>3
    <3>3. QED
      BY <1>0, <2>2, <3>1, <3>2, TypeParts, TypeStays DEF Sound
  <2>4. ASSUME OpenFails(p), monitor' = [monitor EXCEPT ![m].pc = "drop"]
        PROVE  Sound'
    <3>1. opener' \in [Openers -> OpenerType] /\ CleanInv' /\ \A i \in Openers : OpenerInv(opener'[i])
      <4>1. CASE UNCHANGED opener
        BY <1>0, <4>1, SameOpeners
      <4>2. ASSUME NEW id \in Openers, OpenStep(id, p)
            PROVE  opener' \in [Openers -> OpenerType] /\ CleanInv' /\ \A i \in Openers : OpenerInv(opener'[i])
        BY <1>0, <4>2, OpenFacts DEF Sound
      <4>3. QED
        BY <1>0, <2>4, <4>1, <4>2, OpenFailure
    <3>2. monitor' \in [Openers -> MonitorType]
      BY <1>0, <2>4
    <3>3. QED
      BY <1>0, <2>2, <3>1, <3>2, TypeParts, TypeStays DEF Sound
  <2>5. QED
    BY <1>3, <2>1, <2>3, <2>4 DEF MonOpen
<1>4. ASSUME MonPut(m) \/ MonDrop(m)
      PROVE  Sound'
  <2>1. monitor' \in [Openers -> MonitorType] /\ UNCHANGED <<opener, raced>>
    BY <1>0, <1>4 DEF MonPut, MonDrop
  <2>2. forwarders' \in [Pkgs -> Openers \union {None}]
    BY <1>0, <1>4, TypeParts DEF MonPut, MonDrop
  <2>3. QED
    BY <1>0, <2>1, <2>2, SameOpeners, TypeParts, TypeStays DEF Sound
<1>5. QED
  BY <1>1, <1>2, <1>3, <1>4 DEF Monitors, Registers

LEMMA InformerSound ==
  ASSUME Sound, Registered, (\E p \in Pkgs : Installs(p) \/ Deletes(p)) \/ DeleteFunc
  PROVE  Sound'
<1>0. /\ TypeOK /\ UNCHANGED <<mutex, handler, monitor, panicked, faults>>
      /\ MaxInstalls \in Nat
  BY ForwardersAssumption DEF Sound, Installs, Deletes, DeleteFunc
<1>1. ASSUME NEW p \in Pkgs, Installs(p)
      PROVE  Sound'
  <2>1. installs' \in 0..MaxInstalls /\ installed' \subseteq Pkgs /\ UNCHANGED <<forwarders, opener, deleting, raced>>
    BY <1>0, <1>1, TypeParts DEF Installs
  <2>2. QED
    BY <1>0, <2>1, SameOpeners, TypeParts, TypeStays DEF Sound
<1>2. ASSUME NEW p \in Pkgs, Deletes(p)
      PROVE  Sound'
  <2>1. installed' \subseteq Pkgs /\ deleting' \in Pkgs /\ UNCHANGED <<forwarders, opener, installs, raced>>
    BY <1>0, <1>2, TypeParts DEF Deletes
  <2>2. QED
    BY <1>0, <2>1, SameOpeners, TypeParts, TypeStays DEF Sound
<1>3. ASSUME DeleteFunc
      PROVE  Sound'
  <2>1. /\ opener' \in [Openers -> OpenerType]
        /\ \A i \in Openers :
             /\ opener'[i].pkg = opener[i].pkg /\ opener'[i].fw = opener[i].fw /\ opener'[i].ready = opener[i].ready
             /\ opener'[i].waiter = opener[i].waiter /\ (opener'[i].closed <=> opener[i].closed)
             /\ i # forwarders[deleting] => opener'[i] = opener[i]
    BY <1>0, <1>3, DeleteFacts
  <2>2. PICK p \in Pkgs : p = deleting
    BY <1>0, <1>3, ForwardersAssumption DEF TypeOK, DeleteFunc, None
  <2>3. ASSUME NEW i \in Openers
        PROVE  OpenerInv(opener'[i])
    <3>1. CASE i # forwarders[p]
      BY <3>1, <2>1, <2>2 DEF Sound
    <3>2. CASE i = forwarders[p]
      <4>1. opener[i].pkg # None
        BY <3>2, ForwardersAssumption DEF Registered, None, Openers
      <4>2. QED
        BY <2>1, <4>1 DEF Sound, OpenerInv, HasEnded
    <3>3. QED
      BY <3>1, <3>2
  <2>4. CleanInv'
    <3>1. \A i \in Openers : (NoneUnready(opener'[i]) <=> NoneUnready(opener[i])) /\ (Clean(opener'[i]) <=> Clean(opener[i]))
      BY <2>1 DEF NoneUnready, Clean
    <3>2. QED
      BY <1>0, <3>1 DEF Sound, CleanInv, NoFailure
  <2>5. /\ forwarders' \in [Pkgs -> Openers \union {None}] /\ deleting' \in Pkgs \union {None}
        /\ raced' \subseteq Pkgs /\ UNCHANGED <<installed, installs>>
    BY <1>0, <1>3, <2>2, TypeParts DEF DeleteFunc
  <2>6. QED
    BY <1>0, <2>1, <2>3, <2>4, <2>5, TypeParts, TypeStays DEF Sound
<1>4. QED
  BY <1>1, <1>2, <1>3

-----------------------------------------------------------------------------
(* The theorems.                                                           *)

LEMMA InitInv == Init => Inv
<1> SUFFICES ASSUME Init
             PROVE  Inv
  OBVIOUS
<1>0. None \notin Openers /\ "none" \notin Ended /\ MaxFaults \in Nat /\ MaxInstalls \in Nat
  BY ForwardersAssumption DEF None, Openers, Ended
<1>1. Unused \in OpenerType
  BY DEF Unused, OpenerType, FwPcs
<1>2. opener = [id \in Openers |-> Unused] /\ \A x \in Ports : Unused.fw[x] = "none"
  BY DEF Init, Unused
<1>3. TypeOK
  <2>1. opener \in [Openers -> OpenerType]
    BY <1>1, <1>2
  <2>2. handler \in [Handlers -> HandlerType] /\ \A h \in Handlers : handler[h].pc = "idle"
    BY DEF Init, Idle, HandlerType
  <2>3. monitor \in [Openers -> [pc : {"none", "select", "get", "open", "put", "drop", "end"}, id : Openers]]
    BY DEF Init
  <2>4. /\ mutex \in Handlers \union {"nobody"}
        /\ forwarders \in [Pkgs -> Openers \union {None}]
        /\ installed \subseteq Pkgs /\ deleting \in Pkgs \union {None} /\ raced \subseteq Pkgs
    BY DEF Init
  <2>5. panicked \in BOOLEAN
    BY DEF Init
  <2>6. faults = 0 /\ installs = 0
    BY DEF Init
  <2>7. faults \in 0..MaxFaults /\ installs \in 0..MaxInstalls
    BY <1>0, <2>6
  <2>8. QED
    BY <2>1, <2>2, <2>3, <2>4, <2>5, <2>7 DEF TypeOK, OpenerType, HandlerType, FwPcs
<1>4. \A id \in Openers : OpenerInv(opener[id])
  BY <1>2 DEF OpenerInv, Unused
<1>5. CleanInv
  <2>1. ~panicked
    BY DEF Init
  <2>2. Clean(Unused)
    BY <1>2 DEF Clean, Unused
  <2>3. QED
    BY <1>2, <2>1, <2>2 DEF CleanInv
<1>6. Owner
  <2>1. \A m \in Openers : monitor[m].pc = "none" /\ monitor[m].id = m
    BY DEF Init
  <2>2. \A h \in Handlers : handler[h].pc = "idle"
    BY DEF Init, Idle
  <2>3. \A p \in Pkgs : forwarders[p] = None
    BY DEF Init
  <2>4. RunningIsOwned
    BY <1>2 DEF RunningIsOwned
  <2>5. Registered
    BY <2>3 DEF Registered
  <2>6. \A h \in Handlers : HandlerInv(h)
    BY <2>2 DEF HandlerInv
  <2>7. \A m \in Openers : MonitorInv(m)
    BY <2>1 DEF MonitorInv, Active
  <2>8. Distinct
    BY <2>1 DEF Distinct, Active
  <2>9. SolePut
    BY <2>1 DEF SolePut
  <2>10. \A p \in Pkgs : EntryInv(p)
    BY <2>3 DEF EntryInv
  <2>11. QED
    BY <2>4, <2>5, <2>6, <2>7, <2>8, <2>9, <2>10 DEF Owner
<1>7. QED
  BY <1>3, <1>4, <1>5, <1>6 DEF Inv

\* The process has ended only after a failure, and ends only so.
LEMMA PanicStep ==
  ASSUME Inv, NEW id \in Openers, AllSendClosed(id)
  PROVE  Inv'
<1>1. UNCHANGED <<rest, opener, faults>> /\ panicked' = TRUE /\ opener[id].closed /\ Senders(id) # {}
  BY DEF AllSendClosed
<1>2. ~NoFailure
  <2>1. SUFFICES ASSUME Clean(opener[id])
                 PROVE  FALSE
    BY DEF Inv, CleanInv
  <2>2. \A x \in Ports : opener[id].fw[x] # "send"
    BY <2>1 DEF Clean
  <2>3. opener[id].waiter = "end"
    BY <1>1, <2>1 DEF Clean
  <2>4. QED
    BY <1>1, <2>2, <2>3 DEF Senders
<1>3. CleanInv'
  BY <1>1, <1>2 DEF CleanInv, NoFailure
<1>4. TypeOK'
  BY <1>1, TypeParts, TypeStays DEF rest, Inv
<1>5. Onward
  BY <1>1 DEF Onward
<1>6. Owner'
  BY <1>1, <1>5, OwnStepOwner DEF rest, Inv
<1>7. QED
  BY <1>1, <1>3, <1>4, <1>6 DEF Inv

LEMMA OwnStepInv ==
  ASSUME Inv, NEW id \in Openers, OwnStep(id), UNCHANGED <<rest, panicked>>
  PROVE  Inv'
<1>1. Sound'
  BY OpenerStepsSound DEF Inv, Sound
<1>2. Onward
  BY OwnStepFacts, EvolvesOnward DEF Inv
<1>3. Owner'
  BY <1>2, OwnStepOwner DEF rest, Inv
<1>4. QED
  BY <1>1, <1>3 DEF Inv, Sound

LEMMA NextInv == Inv /\ [Next]_vars => Inv'
<1> SUFFICES ASSUME Inv, [Next]_vars
             PROVE  Inv'
  OBVIOUS
<1>0. Sound /\ Owner /\ TypeOK /\ \A i \in Openers : OpenerInv(opener[i])
  BY DEF Inv, Sound
<1>1. ASSUME NEW id \in Openers, NEW x \in Ports, Forwarder(id, x) \/ FwBreaks(id, x)
      PROVE  Inv'
  BY <1>0, <1>1, FwSteps, OwnStepInv
<1>2. ASSUME NEW id \in Openers, AllWait(id)
      PROVE  Inv'
  BY <1>0, <1>2, WaitStep, OwnStepInv
<1>3. ASSUME NEW id \in Openers, AllSendClosed(id)
      PROVE  Inv'
  BY <1>3, PanicStep
<1>4. ASSUME NEW m \in Openers, Monitors(m) \/ Registers(m)
      PROVE  Inv'
  <2>1. Sound'
    BY <1>0, <1>4, MonitorSound
  <2>2. CASE MonReceive(m)
    BY <1>0, <2>1, <2>2, MonReceiveOwner DEF Inv, Sound
  <2>3. CASE MonGet(m)
    BY <1>0, <2>1, <2>3, MonGetOwner DEF Inv, Sound
  <2>4. CASE MonOpen(m)
    <3>1. ASSUME NEW id \in Openers, OpenSucceeds(id, PkgOf(m)),
                 monitor' = [monitor EXCEPT ![m] = [pc |-> "put", id |-> id]]
          PROVE  Owner'
      BY <1>0, <2>4, <3>1, MonOpenedOwner
    <3>2. ASSUME OpenFails(PkgOf(m)), monitor' = [monitor EXCEPT ![m].pc = "drop"]
          PROVE  Owner'
      BY <1>0, <2>4, <3>2, MonNotOpenedOwner
    <3>3. Owner'
      BY <2>4, <3>1, <3>2 DEF MonOpen
    <3>4. QED
      BY <2>1, <3>3 DEF Inv, Sound
  <2>5. CASE MonPut(m)
    BY <1>0, <2>1, <2>5, MonPutOwner DEF Inv, Sound
  <2>6. CASE MonDrop(m)
    BY <1>0, <2>1, <2>6, MonDropOwner DEF Inv, Sound
  <2>7. QED
    BY <1>4, <2>2, <2>3, <2>4, <2>5, <2>6 DEF Monitors, Registers
<1>5. ASSUME NEW h \in Handlers, Lock(h) \/ Request(h) \/ \E p \in Pkgs : Click(h, p)
      PROVE  Inv'
  <2>1. Sound'
    BY <1>0, <1>5, HandlerSound
  <2>2. CASE Lock(h)
    BY <1>0, <2>1, <2>2, LockOwner DEF Inv, Sound
  <2>3. CASE HandlerFails(h)
    BY <1>0, <2>1, <2>3, HandlerFailsOwner DEF Inv, Sound
  <2>4. CASE Return(h)
    BY <1>0, <2>1, <2>4, ReturnOwner DEF Inv, Sound
  <2>5. CASE \E id \in Openers : HandlerOpens(h, id)
    BY <1>0, <2>1, <2>5, HandlerOpensOwner DEF Inv, Sound
  <2>6. CASE \E p \in Pkgs : Click(h, p)
    BY <1>0, <2>1, <2>6, ClickOwner DEF Inv, Sound
  <2>7. QED
    BY <1>5, <2>2, <2>3, <2>4, <2>5, <2>6 DEF Request
<1>6. ASSUME NEW p \in Pkgs, Installs(p) \/ Deletes(p)
      PROVE  Inv'
  <2>1. Sound'
    BY <1>0, <1>6, InformerSound DEF Owner
  <2>2. QED
    BY <1>0, <1>6, <2>1, InformerOwner DEF Inv, Sound
<1>7. ASSUME DeleteFunc
      PROVE  Inv'
  <2>1. Sound'
    BY <1>0, <1>7, InformerSound DEF Owner
  <2>2. QED
    BY <1>0, <1>7, <2>1, DeleteFuncOwner DEF Inv, Sound
<1>8. CASE UNCHANGED vars
  <2>1. UNCHANGED <<rest, opener, faults, panicked>>
    BY <1>8 DEF vars, rest
  <2>2. Sound'
    BY <1>0, <2>1, SameOpeners, TypeParts, TypeStays DEF Sound, rest
  <2>3. Onward
    BY <2>1 DEF Onward
  <2>4. Owner'
    BY <1>0, <2>1, <2>3, OwnStepOwner DEF rest
  <2>5. QED
    BY <2>2, <2>4 DEF Inv, Sound
<1>9. QED
  BY <1>1, <1>2, <1>3, <1>4, <1>5, <1>6, <1>7, <1>8 DEF Next, Joins

\* The invariant implies that every registered opener is watched.
LEMMA InvMonitored == Inv => MonitoredEntries
<1> SUFFICES ASSUME Inv, NEW p \in Pkgs \ raced, forwarders[p] # None
             PROVE  \/ \E m \in Openers : PkgOf(m) = p /\ monitor[m].pc \notin {"none", "end"}
                    \/ \E h \in Handlers : handler[h] = [pc |-> "waitNew", pkg |-> p, id |-> forwarders[p]]
                    \/ deleting = p
  BY DEF MonitoredEntries
<1>1. \A m \in Openers : Minds(m, p) => PkgOf(m) = p /\ monitor[m].pc \notin {"none", "end"}
  BY DEF Minds
<1>2. QED
  BY <1>1 DEF Inv, Owner, EntryInv

LEMMA InvPanic == Inv => PanicNeedsError
<1> SUFFICES ASSUME Inv, panicked, ~(faults > 0)
             PROVE  \E id \in Openers : Unready(id) # {}
  BY DEF PanicNeedsError
<1>1. faults = 0
  BY TypeFacts DEF Inv
<1>2. PICK id \in Openers : ~NoneUnready(opener[id])
  BY <1>1 DEF Inv, CleanInv, NoFailure
<1>3. PICK x \in Ports : opener[id].fw[x] \in Ended /\ x \notin opener[id].ready
  BY <1>2 DEF NoneUnready
<1>4. x \in Unready(id)
  BY <1>3 DEF Unready, Started, Ended
<1>5. QED
  BY <1>4

\* The invariant holds for any number of packages, entrypoints, requests, openers
\* and failures.
LEMMA Invariance == Spec => []Inv
  BY InitInv, NextInv, PTL DEF Spec

\* No port is leaked: a forwarder of handleOpen that runs and was not told to stop
\* belongs to the registered opener of its package or to one about to be
\* registered, and every registered opener has a goroutine that replaces it or
\* removes it, apart from the races that OwnershipInv names.
THEOREM OwnedForwarders == Spec => []OwnershipInv
<1>1. Inv => OwnershipInv
  BY InvMonitored DEF Inv, Owner, OwnershipInv
<1>2. QED
  BY <1>1, Invariance, PTL

\* The goroutines of future.All end the process with a send on a closed channel
\* only when a forwarder has failed; stopping forwarders never does.
THEOREM PanicOnlyAfterError == Spec => []PanicNeedsError
  BY InvPanic, Invariance, PTL

=============================================================================
