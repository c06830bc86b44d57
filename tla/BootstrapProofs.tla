--------------------------- MODULE BootstrapProofs ---------------------------
(***************************************************************************)
(* Proofs about Bootstrap, for any number of clients, any options, any     *)
(* manifest that begins with the namespace and any bounds.                 *)
(***************************************************************************)
EXTENDS Bootstrap, SequenceTheorems, TLAPS

-----------------------------------------------------------------------------
(* The inductive invariant.                                                *)

Annotations ==
  [telemetry : {"unset", "empty", "true", "false"}, id : {"unset", "empty", "old"} \union Clients,
   gitops : {"unset", "empty", "true"}]

Commands ==
  [run : Nat, op : {"none", "bootstrap", "purge"}, pc : {"idle", "preprocess", "apply", "check", "purge"},
   options : BootstrapOptions, todo : Seq(Objects), kinds : SUBSET CRDs, tries : Nat, seen : Annotations,
   ann : Annotations, alone : BOOLEAN, fresh : BOOLEAN, result : {"none", "ok", "error"}]

(* The annotations b keep what users chose in a.                           *)
Keeps(a, b) ==
  /\ a.telemetry = "false" => b.telemetry = "false"
  /\ a.id \notin {"unset", "empty"} => b.id = a.id
  /\ a.gitops = "true" => b.gitops = "true"

(* What a command knows by itself: it has no result before it ends, and    *)
(* what it prepared keeps the choices it has seen.                         *)
Sound(r) ==
  /\ r.pc # "idle" => r.result = "none"
  /\ r.pc \in {"preprocess", "apply", "purge"} => r.todo # <<>>
  /\ r.pc = "check" => r.todo = <<>>
  /\ ToSet(r.todo) \subseteq Installed
  /\ r.pc = "preprocess" => r.ann = NoAnnotations
  /\ r.pc = "apply" /\ r.ann # NoAnnotations => Keeps(r.seen, r.ann)

(* Whatever a bootstrap that is alone has not left to do is installed.     *)
Installing(r) ==
  /\ going = {}
  /\ \A o \in ToSet(Manifest) : o \in present \/ o \in ToSet(r.todo)
  /\ r.options.repo => "repository" \in present \/ "repository" \in ToSet(r.todo)
  /\ "deployment" \in ToSet(r.todo) \/ version = r.options.version
  /\ r.fresh => version \in {0, r.options.version}
  /\ r.fresh /\ version # 0 => "deployment" \in present /\ (rollout \in Ready => operator)

(* Whatever a purge that is alone has not left to do is gone or going, and *)
(* the namespace comes last.                                               *)
Purging(r) ==
  /\ r.todo[Len(r.todo)] = "namespace"
  /\ \A o \in present : \/ o \in going \/ o \in ToSet(r.todo)
                        \/ o = "repository" /\ "packagerepositories" \in ToSet(r.todo)

InBootstrap(r) == r.alone /\ r.pc \in {"preprocess", "apply", "check"} /\ ~r.options.dry

InPurge(r) == r.alone /\ r.pc = "purge"

ClusterInv ==
  /\ present \subseteq Installed
  /\ ann \in Annotations
  /\ "namespace" \notin present => ann = NoAnnotations

CommandInv ==
  /\ cmd \in [Clients -> Commands]
  /\ \A c \in Clients : Sound(cmd[c])
  /\ \A c, d \in Clients : cmd[c].alone /\ d # c => cmd[d].pc = "idle"

AloneInv ==
  \A c \in Clients : /\ InBootstrap(cmd[c]) => Installing(cmd[c])
                     /\ InPurge(cmd[c]) => Purging(cmd[c])

Inv == ClusterInv /\ CommandInv /\ AloneInv

-----------------------------------------------------------------------------
(* Sequences of objects.                                                   *)

LEMMA EmptyParts == ToSet(<<>>) = {}
  BY DEF ToSet

LEMMA SeqParts ==
  ASSUME NEW S, NEW s \in Seq(S), s # <<>>
  PROVE  /\ Head(s) \in S /\ Tail(s) \in Seq(S)
         /\ ToSet(s) = {Head(s)} \union ToSet(Tail(s))
         /\ Len(s) = 1 => Tail(s) = <<>> /\ Head(s) = s[Len(s)]
         /\ Len(s) # 1 => Tail(s) # <<>> /\ Tail(s)[Len(Tail(s))] = s[Len(s)]
<1>1. PICK n \in Nat : n = Len(s) /\ n >= 1 /\ DOMAIN s = 1..n
  BY EmptySeq, LenProperties
<1>2. /\ Head(s) = s[1] /\ Head(s) \in S /\ Tail(s) \in Seq(S) /\ Len(Tail(s)) = n - 1
      /\ \A i \in 1..n-1 : Tail(s)[i] = s[i + 1]
  BY <1>1, HeadTailProperties
<1>3. DOMAIN Tail(s) = 1..n-1
  BY <1>2, LenProperties
<1>4. ToSet(s) = {Head(s)} \union ToSet(Tail(s))
  <2>1. ASSUME NEW x \in ToSet(s) PROVE x = Head(s) \/ x \in ToSet(Tail(s))
    <3>1. PICK i \in 1..n : x = s[i]
      BY <1>1, <2>1 DEF ToSet
    <3>2. CASE i = 1
      BY <1>2, <3>1, <3>2
    <3>3. CASE i # 1
      <4>1. i - 1 \in 1..n-1 /\ (i - 1) + 1 = i
        BY <3>1, <3>3
      <4>2. x = Tail(s)[i - 1]
        BY <1>2, <3>1, <4>1
      <4> QED
        BY <1>3, <4>1, <4>2 DEF ToSet
    <3> QED
      BY <3>2, <3>3
  <2>2. ASSUME NEW x \in ToSet(Tail(s)) PROVE x \in ToSet(s)
    <3>1. PICK i \in 1..n-1 : x = Tail(s)[i]
      BY <1>3, <2>2 DEF ToSet
    <3>2. i + 1 \in 1..n /\ x = s[i + 1]
      BY <1>2, <3>1
    <3> QED
      BY <1>1, <3>2 DEF ToSet
  <2>3. Head(s) \in ToSet(s)
    <3>1. 1 \in 1..n
      BY <1>1
    <3> QED
      BY <1>1, <1>2, <3>1 DEF ToSet
  <2> QED
    BY <2>1, <2>2, <2>3
<1>0. Tail(s) = <<>> <=> n - 1 = 0
  BY <1>2, EmptySeq
<1>5. Len(s) = 1 => Tail(s) = <<>> /\ Head(s) = s[Len(s)]
  BY <1>0, <1>1, <1>2
<1>6. ASSUME Len(s) # 1 PROVE Tail(s) # <<>> /\ Tail(s)[Len(Tail(s))] = s[Len(s)]
  <2>1. n - 1 \in 1..n-1 /\ (n - 1) + 1 = n
    BY <1>1, <1>6
  <2>2. Tail(s) # <<>>
    BY <1>0, <1>1, <1>6
  <2> QED
    BY <1>1, <1>2, <2>1, <2>2
<1> QED
  BY <1>2, <1>4, <1>5, <1>6

LEMMA LastInSet ==
  ASSUME NEW S, NEW s \in Seq(S), s # <<>>
  PROVE  s[Len(s)] \in ToSet(s)
<1>1. PICK n \in Nat : n = Len(s) /\ n >= 1 /\ DOMAIN s = 1..n
  BY EmptySeq, LenProperties
<1>2. n \in 1..n
  BY <1>1
<1> QED
  BY <1>1, <1>2 DEF ToSet

LEMMA AppendParts ==
  ASSUME NEW S, NEW s \in Seq(S), NEW x \in S
  PROVE  /\ Append(s, x) \in Seq(S) /\ Append(s, x) # <<>>
         /\ ToSet(Append(s, x)) = ToSet(s) \union {x}
<1>1. PICK n \in Nat : n = Len(s) /\ DOMAIN s = 1..n
  BY LenProperties
<1>2. /\ Append(s, x) \in Seq(S) /\ Len(Append(s, x)) = n + 1 /\ Append(s, x)[n + 1] = x
      /\ \A i \in 1..n : Append(s, x)[i] = s[i]
  BY <1>1, AppendProperties
<1>3. DOMAIN Append(s, x) = 1..n+1
  BY <1>2, LenProperties
<1>4. ASSUME NEW y \in ToSet(Append(s, x)) PROVE y \in ToSet(s) \union {x}
  <2>1. PICK i \in 1..n+1 : y = Append(s, x)[i]
    BY <1>3, <1>4 DEF ToSet
  <2>2. CASE i = n + 1
    BY <1>2, <2>1, <2>2
  <2>3. CASE i # n + 1
    <3>1. i \in 1..n
      BY <2>1, <2>3
    <3> QED
      BY <1>1, <1>2, <2>1, <3>1 DEF ToSet
  <2> QED
    BY <2>2, <2>3
<1>5. ASSUME NEW y \in ToSet(s) PROVE y \in ToSet(Append(s, x))
  <2>1. PICK i \in 1..n : y = s[i]
    BY <1>1, <1>5 DEF ToSet
  <2>2. i \in 1..n+1 /\ y = Append(s, x)[i]
    BY <1>2, <2>1
  <2> QED
    BY <1>3, <2>2 DEF ToSet
<1>6. x \in ToSet(Append(s, x))
  <2>1. n + 1 \in 1..n+1
    BY <1>1
  <2> QED
    BY <1>2, <1>3, <2>1 DEF ToSet
<1>7. Append(s, x) # <<>>
  <2>1. n + 1 # 0
    BY <1>1
  <2> QED
    BY <1>2, <2>1, EmptySeq
<1> QED
  BY <1>2, <1>4, <1>5, <1>6, <1>7

LEMMA ReverseParts ==
  ASSUME NEW S, NEW s \in Seq(S), s # <<>>
  PROVE  /\ Reverse(s) \in Seq(S) /\ Reverse(s) # <<>>
         /\ ToSet(Reverse(s)) = ToSet(s)
         /\ Reverse(s)[Len(Reverse(s))] = s[1]
<1>1. PICK n \in Nat : n = Len(s) /\ n >= 1 /\ DOMAIN s = 1..n /\ \A i \in 1..n : s[i] \in S
  BY EmptySeq, LenProperties, ElementOfSeq
<1>2. Reverse(s) = [i \in 1..n |-> s[(n - i) + 1]]
  BY <1>1 DEF Reverse
<1>3. \A i \in 1..n : (n - i) + 1 \in 1..n
  BY <1>1
<1>4. Reverse(s) \in [1..n -> S]
  BY <1>1, <1>2, <1>3
<1>5. Reverse(s) \in Seq(S) /\ Len(Reverse(s)) = n /\ DOMAIN Reverse(s) = 1..n
  BY <1>1, <1>4, IsASeq, LenProperties
<1>6. \A i \in 1..n : Reverse(s)[i] = s[(n - i) + 1]
  BY <1>2
<1>7. ASSUME NEW y \in ToSet(s) PROVE y \in ToSet(Reverse(s))
  <2>1. PICK i \in 1..n : y = s[i]
    BY <1>1, <1>7 DEF ToSet
  <2>2. (n - i) + 1 \in 1..n /\ (n - ((n - i) + 1)) + 1 = i
    BY <1>1, <2>1
  <2>3. y = Reverse(s)[(n - i) + 1]
    BY <1>6, <2>1, <2>2
  <2> QED
    BY <1>5, <2>2, <2>3 DEF ToSet
<1>8. ASSUME NEW y \in ToSet(Reverse(s)) PROVE y \in ToSet(s)
  <2>1. PICK i \in 1..n : y = Reverse(s)[i]
    BY <1>5, <1>8 DEF ToSet
  <2> QED
    BY <1>1, <1>3, <1>6, <2>1 DEF ToSet
<1>9. Reverse(s)[n] = s[1]
  <2>1. n \in 1..n /\ (n - n) + 1 = 1
    BY <1>1
  <2> QED
    BY <1>6, <2>1
<1>10. Reverse(s) # <<>>
  BY <1>1, <1>5, EmptySeq
<1> QED
  BY <1>5, <1>7, <1>8, <1>9, <1>10

LEMMA ManifestFacts ==
  /\ Manifest \in Seq(Objects) /\ Manifest # <<>>
  /\ ToSet(Manifest) \subseteq Objects
  /\ Manifest[1] = "namespace"
  /\ {"namespace", "packagerepositories", "deployment"} \subseteq ToSet(Manifest)
  /\ "repository" \in Objects
<1>1. Manifest \in Seq(Objects \ {"repository"})
  BY BootstrapAssumption
<1>2. Manifest \in Seq(Objects)
  BY <1>1, SeqMonotonic DEF Objects
<1>3. "namespace" \in ToSet(Manifest)
  BY BootstrapAssumption
<1>4. Manifest # <<>>
  BY <1>3, EmptyParts
<1>5. ToSet(Manifest) \subseteq Objects
  BY <1>2, ElementOfSeq, LenProperties DEF ToSet
<1> QED
  BY <1>2, <1>4, <1>5, BootstrapAssumption DEF Objects

-----------------------------------------------------------------------------
(* The records of commands.                                                *)

(* The records after a step.                                               *)
ended(n, x, op) == [Idle(n, x) EXCEPT !.op = op]

begun(r, n, a) == [r EXCEPT !.run = n, !.alone = a]

bootstrapping(o, k, f, t) ==
  [Idle(0, "none") EXCEPT !.op = "bootstrap", !.pc = "preprocess", !.options = o, !.kinds = k, !.fresh = f, !.todo = t]

purging(t) == [Idle(0, "none") EXCEPT !.op = "purge", !.pc = "purge", !.todo = t]

notAlone(r) == [r EXCEPT !.alone = FALSE]

withAnnotations(r, b, a) == [r EXCEPT !.pc = "apply", !.ann = b, !.seen = a]

withoutAnnotations(r, a) == [r EXCEPT !.pc = "apply", !.seen = a]

handled(r, k) ==
  [r EXCEPT !.todo = Tail(@), !.tries = 0, !.kinds = k, !.pc = IF Len(r.todo) = 1 THEN "check" ELSE "apply"]

LEMMA NothingChosen ==
  /\ NoAnnotations \in Annotations
  /\ NoOptions \in BootstrapOptions
  BY DEF NoAnnotations, Annotations, NoOptions, BootstrapOptions

LEMMA IdleRecord ==
  ASSUME NEW n \in Nat, NEW x \in {"none", "ok", "error"}
  PROVE  /\ Idle(n, x) \in Commands
         /\ Idle(n, x).pc = "idle" /\ Idle(n, x).alone = FALSE
         /\ Sound(Idle(n, x))
<1>1. <<>> \in Seq(Objects)
  BY EmptySeq
<1>2. Idle(n, x) \in Commands
  BY <1>1, NothingChosen DEF Idle, Commands, Objects, CRDs
<1>3. Idle(n, x).pc = "idle" /\ Idle(n, x).alone = FALSE /\ Idle(n, x).todo = <<>>
  BY DEF Idle
<1> QED
  BY <1>2, <1>3, EmptyParts DEF Sound

LEMMA EndRecord ==
  ASSUME NEW n \in Nat, NEW x \in {"none", "ok", "error"}, NEW op \in {"none", "bootstrap", "purge"},
         NEW s, s = ended(n, x, op)
  PROVE  s \in Commands /\ Sound(s) /\ s.pc = "idle" /\ ~s.alone /\ s.result = x
<1>0. PICK i : i = Idle(n, x)
  OBVIOUS
<1>a. i \in Commands /\ i.pc = "idle" /\ ~i.alone /\ i.todo = <<>> /\ i.result = x
  BY <1>0, IdleRecord DEF Idle
<1>b. s = [i EXCEPT !.op = op]
  BY <1>0 DEF ended
<1>1. s \in Commands /\ s.pc = "idle" /\ ~s.alone /\ s.todo = <<>> /\ s.result = x
  BY ONLY <1>a, <1>b, op \in {"none", "bootstrap", "purge"} DEF Commands
<1> QED
  BY <1>1, EmptyParts DEF Sound

LEMMA NotAlone ==
  ASSUME NEW r \in Commands, NEW s, s = notAlone(r)
  PROVE  /\ s \in Commands /\ s.alone = FALSE /\ s.pc = r.pc /\ s.result = r.result
         /\ Sound(r) => Sound(s)
<1>1. /\ s \in Commands /\ s.alone = FALSE /\ s.pc = r.pc /\ s.result = r.result
      /\ s.todo = r.todo /\ s.ann = r.ann /\ s.seen = r.seen
  BY DEF notAlone, Commands
<1> QED
  BY <1>1 DEF Sound

LEMMA BootstrapRecord ==
  ASSUME NEW o \in BootstrapOptions, NEW k \in SUBSET CRDs, NEW f \in BOOLEAN, NEW t \in Seq(Objects),
         NEW n \in Nat, NEW a \in BOOLEAN,
         t # <<>>, ToSet(t) \subseteq Installed,
         NEW r, r = bootstrapping(o, k, f, t),
         NEW s, s = begun(r, n, a)
  PROVE  /\ s \in Commands /\ Sound(s) /\ s.pc = "preprocess" /\ s.result = "none"
         /\ s.options = o /\ s.todo = t /\ (s.fresh <=> f) /\ (s.alone <=> a)
<1>1. /\ r \in Commands /\ r.pc = "preprocess" /\ r.options = o /\ r.todo = t /\ (r.fresh <=> f)
      /\ r.ann = NoAnnotations /\ r.result = "none"
  <2>0. PICK i : i = Idle(0, "none")
    OBVIOUS
  <2>1. i \in Commands /\ i.ann = NoAnnotations /\ i.result = "none"
    BY <2>0, IdleRecord DEF Idle
  <2>2. r = [i EXCEPT !.op = "bootstrap", !.pc = "preprocess", !.options = o, !.kinds = k, !.fresh = f, !.todo = t]
    BY <2>0 DEF bootstrapping
  <2>3. r \in Commands
    BY ONLY <2>1, <2>2, o \in BootstrapOptions, k \in SUBSET CRDs, f \in BOOLEAN, t \in Seq(Objects) DEF Commands
  <2>4. r.pc = "preprocess" /\ r.options = o /\ r.todo = t /\ r.ann = i.ann /\ r.result = i.result /\ (r.fresh <=> f)
    BY ONLY <2>1, <2>2, f \in BOOLEAN DEF Commands
  <2> QED
    BY <2>1, <2>3, <2>4
<1>2. /\ s \in Commands /\ s.pc = "preprocess" /\ s.options = o /\ s.todo = t /\ (s.fresh <=> f)
      /\ s.ann = NoAnnotations /\ (s.alone <=> a) /\ s.result = "none"
  <2>1. /\ s \in Commands /\ s.pc = r.pc /\ s.options = r.options /\ s.todo = r.todo /\ s.fresh = r.fresh
        /\ s.ann = r.ann /\ s.result = r.result /\ s.alone = a
    BY ONLY <1>1, n \in Nat, a \in BOOLEAN, s = begun(r, n, a) DEF begun, Commands
  <2> QED
    BY <1>1, <2>1
<1> QED
  BY <1>2 DEF Sound

LEMMA PurgeRecord ==
  ASSUME NEW t \in Seq(Objects), NEW n \in Nat, NEW a \in BOOLEAN, t # <<>>, ToSet(t) \subseteq Installed,
         NEW r, r = purging(t),
         NEW s, s = begun(r, n, a)
  PROVE  s \in Commands /\ Sound(s) /\ s.pc = "purge" /\ s.result = "none" /\ s.todo = t /\ (s.alone <=> a)
<1>1. r \in Commands /\ r.pc = "purge" /\ r.todo = t /\ r.result = "none"
  BY IdleRecord DEF purging, Idle, Commands
<1>2. s \in Commands /\ s.pc = "purge" /\ s.todo = t /\ (s.alone <=> a) /\ s.result = "none"
  <2>1. /\ s \in Commands /\ s.pc = r.pc /\ s.options = r.options /\ s.todo = r.todo /\ s.fresh = r.fresh
        /\ s.ann = r.ann /\ s.result = r.result /\ s.alone = a
    BY ONLY <1>1, n \in Nat, a \in BOOLEAN, s = begun(r, n, a) DEF begun, Commands
  <2> QED
    BY <1>1, <2>1
<1> QED
  BY <1>2 DEF Sound

LEMMA PreparedRecord ==
  ASSUME NEW r \in Commands, Sound(r), r.pc = "preprocess", NEW a \in Annotations, NEW b \in Annotations,
         b # NoAnnotations => Keeps(a, b),
         NEW s, s = withAnnotations(r, b, a)
  PROVE  /\ s \in Commands /\ Sound(s) /\ s.pc = "apply" /\ s.options = r.options /\ s.todo = r.todo
         /\ s.fresh = r.fresh /\ s.alone = r.alone /\ s.result = r.result
<1>1. /\ s \in Commands /\ s.pc = "apply" /\ s.options = r.options /\ s.todo = r.todo
      /\ s.fresh = r.fresh /\ s.alone = r.alone /\ s.ann = b /\ s.seen = a /\ s.result = r.result
  BY DEF withAnnotations, Commands
<1>2. r.result = "none" /\ r.todo # <<>> /\ ToSet(r.todo) \subseteq Installed
  BY DEF Sound
<1> QED
  BY <1>1, <1>2 DEF Sound

LEMMA UnpreparedRecord ==
  ASSUME NEW r \in Commands, Sound(r), r.pc = "preprocess", NEW a \in Annotations,
         NEW s, s = withoutAnnotations(r, a)
  PROVE  /\ s \in Commands /\ Sound(s) /\ s.pc = "apply" /\ s.options = r.options /\ s.todo = r.todo
         /\ s.fresh = r.fresh /\ s.alone = r.alone /\ s.result = r.result
<1>1. /\ s \in Commands /\ s.pc = "apply" /\ s.options = r.options /\ s.todo = r.todo
      /\ s.fresh = r.fresh /\ s.alone = r.alone /\ s.ann = r.ann /\ s.result = r.result
  BY DEF withoutAnnotations, Commands
<1>2. r.result = "none" /\ r.todo # <<>> /\ ToSet(r.todo) \subseteq Installed /\ r.ann = NoAnnotations
  BY DEF Sound
<1> QED
  BY <1>1, <1>2 DEF Sound

LEMMA AppliedRecord ==
  ASSUME NEW r \in Commands, Sound(r), r.pc = "apply", NEW k \in SUBSET CRDs,
         NEW s, s = handled(r, k)
  PROVE  /\ s \in Commands /\ Sound(s) /\ s.pc \in {"apply", "check"}
         /\ s.options = r.options /\ s.todo = Tail(r.todo) /\ s.fresh = r.fresh /\ s.alone = r.alone
         /\ s.result = r.result /\ s.result = "none"
<1>1. /\ r.todo \in Seq(Objects) /\ r.todo # <<>> /\ ToSet(r.todo) \subseteq Installed
      /\ r.result = "none" /\ (r.ann # NoAnnotations => Keeps(r.seen, r.ann))
  BY DEF Sound, Commands
<1>2. /\ Tail(r.todo) \in Seq(Objects) /\ ToSet(Tail(r.todo)) \subseteq Installed
      /\ Len(r.todo) = 1 => Tail(r.todo) = <<>>
      /\ Len(r.todo) # 1 => Tail(r.todo) # <<>>
  BY <1>1, SeqParts
<1>3. /\ s.todo = Tail(r.todo) /\ s.options = r.options /\ s.fresh = r.fresh /\ s.alone = r.alone
      /\ s.ann = r.ann /\ s.seen = r.seen /\ s.result = r.result
      /\ s.pc = IF Len(r.todo) = 1 THEN "check" ELSE "apply"
  BY DEF handled, Commands
<1>4. s \in Commands
  BY <1>2 DEF handled, Commands
<1>5. /\ Len(r.todo) = 1 => s.pc = "check"
      /\ Len(r.todo) # 1 => s.pc = "apply"
  BY <1>3
<1> QED
  BY <1>1, <1>2, <1>3, <1>4, <1>5 DEF Sound

LEMMA RetryRecord ==
  ASSUME NEW r \in Commands, Sound(r), NEW s, s = [r EXCEPT !.tries = @ + 1]
  PROVE  /\ s \in Commands /\ Sound(s) /\ s.pc = r.pc
         /\ s.options = r.options /\ s.todo = r.todo /\ s.fresh = r.fresh /\ s.alone = r.alone
         /\ s.result = r.result
<1>1. /\ s \in Commands /\ s.pc = r.pc /\ s.ann = r.ann /\ s.seen = r.seen /\ s.result = r.result
      /\ s.options = r.options /\ s.todo = r.todo /\ s.fresh = r.fresh /\ s.alone = r.alone
  BY DEF Commands
<1> QED
  BY <1>1 DEF Sound

LEMMA PurgedRecord ==
  ASSUME NEW r \in Commands, Sound(r), r.pc = "purge", Len(r.todo) # 1, NEW s, s = [r EXCEPT !.todo = Tail(@)]
  PROVE  /\ s \in Commands /\ Sound(s) /\ s.pc = "purge" /\ s.todo = Tail(r.todo) /\ s.alone = r.alone
         /\ s.result = r.result
<1>1. r.todo \in Seq(Objects) /\ r.todo # <<>> /\ ToSet(r.todo) \subseteq Installed /\ r.result = "none"
  BY DEF Sound, Commands
<1>2. Tail(r.todo) \in Seq(Objects) /\ ToSet(Tail(r.todo)) \subseteq Installed /\ Tail(r.todo) # <<>>
  BY <1>1, SeqParts
<1>3. s.pc = "purge" /\ s.todo = Tail(r.todo) /\ s.alone = r.alone /\ s.result = r.result
  BY DEF Commands
<1>4. s \in Commands
  BY <1>2 DEF Commands
<1> QED
  BY <1>1, <1>2, <1>3, <1>4 DEF Sound

-----------------------------------------------------------------------------
(* What a step does to the commands.                                       *)

(* A command that is running moves on, or ends.                            *)
LEMMA Moves ==
  ASSUME CommandInv, NEW c \in Clients, NEW s \in Commands, Sound(s), Goto(c, s),
         s.alone => cmd[c].alone, cmd[c].pc # "idle" \/ s.pc = "idle"
  PROVE  CommandInv' /\ cmd'[c] = s /\ \A d \in Clients : d # c => cmd'[d] = cmd[d]
<1>1. cmd' \in [Clients -> Commands] /\ cmd'[c] = s /\ \A d \in Clients : d # c => cmd'[d] = cmd[d]
  BY DEF Goto, CommandInv
<1>2. \A d \in Clients : Sound(cmd'[d])
  BY <1>1 DEF CommandInv
<1>3. ASSUME NEW d \in Clients, NEW e \in Clients, cmd'[d].alone, e # d PROVE cmd'[e].pc = "idle"
  BY <1>1, <1>3 DEF CommandInv
<1>4. \A d \in Clients : Sound(cmd[d])'
  BY <1>2 DEF Sound
<1> QED
  BY <1>1, <1>3, <1>4 DEF CommandInv

(* Then no other command is alone.                                         *)
LEMMA OthersNotAlone ==
  ASSUME CommandInv, NEW c \in Clients, cmd[c].pc # "idle"
  PROVE  \A d \in Clients : d # c => ~cmd[d].alone
  BY DEF CommandInv

(* A command begins.                                                       *)
LEMMA Begins ==
  ASSUME CommandInv, NEW c \in Clients, NEW record, Begin(c, record),
         NEW s \in Commands, Sound(s),
         cmd'[c] = s, s.alone => \A e \in Clients : cmd[e].pc = "idle"
  PROVE  CommandInv' /\ \A d \in Clients : d # c => cmd'[d].alone = FALSE
<1>1. cmd'[c] = s
  OBVIOUS
<1>2. \A d \in Clients : d # c => cmd'[d] = [cmd[d] EXCEPT !.alone = FALSE]
  BY DEF Begin
<1>3. ASSUME NEW d \in Clients, d # c
      PROVE  cmd'[d] \in Commands /\ cmd'[d].alone = FALSE /\ cmd'[d].pc = cmd[d].pc /\ Sound(cmd'[d])
  <2>1. PICK r \in Commands : r = cmd[d] /\ Sound(r)
    BY DEF CommandInv
  <2>2. PICK t : t = cmd'[d]
    OBVIOUS
  <2>3. t = notAlone(r)
    BY <1>2, <1>3, <2>1, <2>2 DEF notAlone
  <2>4. t \in Commands /\ t.alone = FALSE /\ t.pc = r.pc /\ Sound(t)
    BY ONLY r \in Commands, <2>1, <2>3, NotAlone
  <2> QED
    BY <2>1, <2>2, <2>4
<1>4. cmd' \in [Clients -> Commands]
  <2>1. \A d \in Clients : cmd'[d] \in Commands
    BY <1>1, <1>3
  <2>2. cmd' = [d \in Clients |-> cmd'[d]]
    BY DEF Begin
  <2> QED
    BY <2>1, <2>2
<1>5. \A d \in Clients : Sound(cmd[d])'
  <2>1. \A d \in Clients : Sound(cmd'[d])
    BY <1>1, <1>3
  <2> QED
    BY <2>1 DEF Sound
<1>6. ASSUME NEW d \in Clients, NEW e \in Clients, cmd'[d].alone, e # d PROVE cmd'[e].pc = "idle"
  <2>1. d = c
    BY <1>3, <1>6
  <2> QED
    BY <1>1, <1>3, <1>6, <2>1
<1> QED
  BY <1>1, <1>3, <1>4, <1>5, <1>6 DEF CommandInv

(* Only the command that moves can be alone.                               *)
LEMMA OneAlone ==
  ASSUME CommandInv, NEW c \in Clients, cmd[c].pc # "idle",
         NEW s, cmd'[c] = s, \A d \in Clients : d # c => cmd'[d] = cmd[d],
         InBootstrap(s) => Installing(s)', InPurge(s) => Purging(s)'
  PROVE  AloneInv'
<1>1. ASSUME NEW d \in Clients
      PROVE  /\ InBootstrap(cmd'[d]) => Installing(cmd[d])'
             /\ InPurge(cmd'[d]) => Purging(cmd[d])'
  <2>1. CASE d = c
    <3>1. /\ InBootstrap(cmd'[d]) => InBootstrap(s)
          /\ InPurge(cmd'[d]) => InPurge(s)
      BY <2>1
    <3>2. Installing(s)' => Installing(cmd[d])'
      BY <2>1 DEF Installing
    <3>3. Purging(s)' => Purging(cmd[d])'
      BY <2>1 DEF Purging
    <3> QED
      BY <3>1, <3>2, <3>3
  <2>2. CASE d # c
    <3>1. cmd'[d] = cmd[d] /\ ~cmd[d].alone
      BY <2>2, OthersNotAlone
    <3> QED
      BY <3>1 DEF InBootstrap, InPurge
  <2> QED
    BY <2>1, <2>2
<1> QED
  BY <1>1 DEF AloneInv, InBootstrap, InPurge

(* A step that changes nothing on the cluster.                             *)
LEMMA SameCluster ==
  ASSUME Inv, NEW c \in Clients, cmd[c].pc # "idle", NEW s \in Commands, Sound(s), Goto(c, s),
         s.alone => cmd[c].alone, UNCHANGED cluster,
         InBootstrap(s) => Installing(s), InPurge(s) => Purging(s)
  PROVE  Inv'
<1>1. CommandInv' /\ cmd'[c] = s /\ \A d \in Clients : d # c => cmd'[d] = cmd[d]
  BY Moves DEF Inv
<1>2. ClusterInv'
  BY DEF Inv, ClusterInv, cluster
<1>3. (Installing(s) => Installing(s)') /\ (Purging(s) => Purging(s)')
  BY DEF Installing, Purging, cluster
<1>4. AloneInv'
  BY <1>1, <1>3, OneAlone DEF Inv
<1> QED
  BY <1>1, <1>2, <1>4 DEF Inv

LEMMA Ends ==
  ASSUME CommandInv, NEW c \in Clients, NEW x \in {"none", "ok", "error"}, End(c, x)
  PROVE  \E s \in Commands : /\ Sound(s) /\ Goto(c, s) /\ s.pc = "idle" /\ ~s.alone /\ s.result = x
<1>1. PICK n \in Nat, op \in {"none", "bootstrap", "purge"} : n = cmd[c].run /\ op = cmd[c].op
  BY DEF CommandInv, Commands
<1>2. PICK s : s = ended(n, x, op)
  OBVIOUS
<1>3. Goto(c, s)
  BY <1>1, <1>2 DEF End, ended
<1>4. s \in Commands /\ Sound(s) /\ s.pc = "idle" /\ ~s.alone /\ s.result = x
  BY <1>1, <1>2, EndRecord
<1> QED
  BY <1>3, <1>4

LEMMA EndKeeps ==
  ASSUME Inv, NEW c \in Clients, cmd[c].pc # "idle", NEW x \in {"none", "ok", "error"}, End(c, x),
         UNCHANGED cluster
  PROVE  Inv'
<1>1. PICK s \in Commands : Sound(s) /\ Goto(c, s) /\ s.pc = "idle" /\ ~s.alone
  BY Ends DEF Inv
<1>2. ~InBootstrap(s) /\ ~InPurge(s)
  BY <1>1 DEF InBootstrap, InPurge
<1> QED
  BY <1>1, <1>2, SameCluster

(* A command that keeps its options and has as much left to do.            *)
LEMMA CarriedOver ==
  ASSUME NEW r \in Commands, NEW s \in Commands, s.options = r.options, s.todo = r.todo, s.fresh = r.fresh,
         s.alone = r.alone
  PROVE  /\ Installing(r) => Installing(s)
         /\ Purging(r) => Purging(s)
  BY DEF Installing, Purging

-----------------------------------------------------------------------------
(* The steps of commands that change nothing on the cluster.               *)

(* What a bootstrap prepares keeps the choices it reads.                   *)
LEMMA PreparedKeeps ==
  ASSUME ClusterInv, NEW c \in Clients, NEW o \in BootstrapOptions
  PROVE  prepared(c, o) \in Annotations /\ Keeps(ann, prepared(c, o))
<1>1. PICK a \in Annotations : a = ann
  BY DEF ClusterInv
<1>2. PICK e : e = existingAnnotations
  OBVIOUS
<1>3. e \in Annotations /\ Keeps(a, e) /\ (a.id \notin {"unset", "empty"} => e.id # "unset")
  <2>1. CASE "namespace" \in present
    <3>1. e = [f \in {"telemetry", "id", "gitops"} |-> IF a[f] = "unset" THEN "empty" ELSE a[f]]
      BY <1>1, <1>2, <2>1 DEF existingAnnotations, Annotations
    <3>2. /\ e.telemetry = IF a.telemetry = "unset" THEN "empty" ELSE a.telemetry
          /\ e.id = IF a.id = "unset" THEN "empty" ELSE a.id
          /\ e.gitops = IF a.gitops = "unset" THEN "empty" ELSE a.gitops
      BY <3>1
    <3>3. e = [telemetry |-> e.telemetry, id |-> e.id, gitops |-> e.gitops]
      BY <3>1
    <3>4. e.telemetry \in {"unset", "empty", "true", "false"} /\ e.id \in {"unset", "empty", "old"} \union Clients
          /\ e.gitops \in {"unset", "empty", "true"}
      BY <3>2 DEF Annotations
    <3>5. e \in Annotations
      BY <3>3, <3>4 DEF Annotations
    <3> QED
      BY <3>2, <3>5 DEF Keeps
  <2>2. CASE "namespace" \notin present
    BY <1>1, <1>2, <2>2, NothingChosen DEF existingAnnotations, ClusterInv, Keeps, NoAnnotations
  <2> QED
    BY <2>1, <2>2
<1>4. PICK u : u = UpdateTelemetryAnnotations(e, o.disable, c)
  OBVIOUS
<1>5. u \in Annotations /\ Keeps(a, u)
  <2>1. u \in Annotations
    BY <1>3, <1>4 DEF UpdateTelemetryAnnotations, Annotations, BootstrapOptions
  <2>2. /\ u.telemetry = IF o.disable THEN "false"
                         ELSE IF ~o.disable /\ e.telemetry \in {"unset", "true"} THEN "true" ELSE e.telemetry
        /\ u.id = IF ~o.disable /\ e.telemetry \in {"unset", "true"} /\ e.id = "unset" THEN c ELSE e.id
        /\ u.gitops = e.gitops
    BY <1>3, <1>4 DEF UpdateTelemetryAnnotations, Annotations
  <2> QED
    BY <1>3, <2>1, <2>2 DEF Keeps
<1>6. CASE o.gitops
  <2>1. PICK v : v = [u EXCEPT !.gitops = "true"]
    OBVIOUS
  <2>2. v \in Annotations /\ v.telemetry = u.telemetry /\ v.id = u.id /\ v.gitops = "true"
    BY <1>5, <2>1 DEF Annotations
  <2>3. Keeps(a, v)
    BY <1>5, <2>2 DEF Keeps
  <2>4. prepared(c, o) = v
    BY <1>2, <1>4, <1>6, <2>1 DEF prepared
  <2> QED
    BY <1>1, <2>2, <2>3, <2>4
<1>7. CASE ~o.gitops
  <2>1. prepared(c, o) = u
    BY <1>2, <1>4, <1>7 DEF prepared
  <2> QED
    BY <1>1, <1>5, <2>1
<1> QED
  BY <1>6, <1>7

LEMMA CommandFacts ==
  ASSUME Inv, NEW c \in Clients
  PROVE  \E r \in Commands : /\ r = cmd[c] /\ Sound(r)
                             /\ InBootstrap(r) => Installing(r)
                             /\ InPurge(r) => Purging(r)
  BY DEF Inv, CommandInv, AloneInv

LEMMA PreprocessKeeps ==
  ASSUME Inv, NEW c \in Clients, Preprocess(c)
  PROVE  Inv'
<1>1. PICK r \in Commands : /\ r = cmd[c] /\ Sound(r) /\ (InBootstrap(r) => Installing(r))
  BY CommandFacts
<1>2. r.pc = "preprocess" /\ UNCHANGED cluster
  BY <1>1 DEF Preprocess
<1>3. CASE End(c, "error")
  BY <1>1, <1>2, <1>3, EndKeeps
<1>4. CASE Goto(c, [r EXCEPT !.pc = "apply", !.ann = prepared(c, r.options), !.seen = ann])
  <2>1. r.options \in BootstrapOptions
    BY DEF Commands
  <2>2. PICK a \in Annotations, b \in Annotations : a = ann /\ b = prepared(c, r.options) /\ Keeps(a, b)
    BY <2>1, PreparedKeeps DEF Inv, ClusterInv
  <2>3. PICK s : s = withAnnotations(r, b, a)
    OBVIOUS
  <2>4. /\ s \in Commands /\ Sound(s) /\ s.pc = "apply" /\ s.options = r.options /\ s.todo = r.todo
        /\ s.fresh = r.fresh /\ s.alone = r.alone
    BY <1>1, <1>2, <2>2, <2>3, PreparedRecord
  <2>5. Goto(c, s)
    BY <1>4, <2>2, <2>3 DEF withAnnotations
  <2>6. (InBootstrap(s) => Installing(s)) /\ ~InPurge(s)
    BY <1>1, <1>2, <2>4, CarriedOver DEF InBootstrap, InPurge
  <2> QED
    BY <1>1, <1>2, <2>4, <2>5, <2>6, SameCluster
<1> QED
  BY <1>1, <1>3, <1>4 DEF Preprocess

LEMMA PreprocessFailsKeeps ==
  ASSUME Inv, NEW c \in Clients, PreprocessFails(c)
  PROVE  Inv'
<1>1. PICK r \in Commands : /\ r = cmd[c] /\ Sound(r) /\ (InBootstrap(r) => Installing(r))
  BY CommandFacts
<1>2. r.pc = "preprocess" /\ UNCHANGED cluster
  BY <1>1 DEF PreprocessFails
<1>3. CASE End(c, "error")
  BY <1>1, <1>2, <1>3, EndKeeps
<1>4. CASE Goto(c, [r EXCEPT !.pc = "apply", !.seen = ann])
  <2>2. PICK a \in Annotations : a = ann
    BY DEF Inv, ClusterInv
  <2>3. PICK s : s = withoutAnnotations(r, a)
    OBVIOUS
  <2>4. /\ s \in Commands /\ Sound(s) /\ s.pc = "apply" /\ s.options = r.options /\ s.todo = r.todo
        /\ s.fresh = r.fresh /\ s.alone = r.alone
    BY <1>1, <1>2, <2>2, <2>3, UnpreparedRecord
  <2>5. Goto(c, s)
    BY <1>4, <2>2, <2>3 DEF withoutAnnotations
  <2>6. (InBootstrap(s) => Installing(s)) /\ ~InPurge(s)
    BY <1>1, <1>2, <2>4, CarriedOver DEF InBootstrap, InPurge
  <2> QED
    BY <1>1, <1>2, <2>4, <2>5, <2>6, SameCluster
<1> QED
  BY <1>1, <1>3, <1>4 DEF PreprocessFails

(* The command after an object was handled.                                *)
LEMMA AppliedMoves ==
  ASSUME Inv, NEW c \in Clients, cmd[c].pc = "apply", NEW o, Applied(c, o)
  PROVE  \E s \in Commands :
           /\ Sound(s) /\ Goto(c, s) /\ s.pc \in {"apply", "check"} /\ s.options = cmd[c].options
           /\ s.todo = Tail(cmd[c].todo) /\ s.fresh = cmd[c].fresh /\ s.alone = cmd[c].alone
           /\ s.result = "none"
<1>1. PICK r \in Commands : r = cmd[c] /\ Sound(r)
  BY CommandFacts
<1>2. PICK k : k = IF o \in CRDs /\ ~r.options.dry THEN (present \union {o}) \intersect CRDs ELSE r.kinds
  OBVIOUS
<1>3. k \in SUBSET CRDs
  BY <1>2 DEF Commands
<1>4. PICK s : s = handled(r, k)
  OBVIOUS
<1>5. Goto(c, s)
  BY <1>1, <1>2, <1>4 DEF Applied, handled
<1>6. /\ s \in Commands /\ Sound(s) /\ s.pc \in {"apply", "check"}
      /\ s.options = r.options /\ s.todo = Tail(r.todo) /\ s.fresh = r.fresh /\ s.alone = r.alone
      /\ s.result = "none"
  BY <1>1, <1>3, <1>4, AppliedRecord
<1> QED
  BY <1>1, <1>5, <1>6

LEMMA DryKeeps ==
  ASSUME Inv, NEW c \in Clients, cmd[c].pc = "apply", cmd[c].options.dry, NEW o, Applied(c, o), UNCHANGED cluster
  PROVE  Inv'
<1>1. PICK s \in Commands :
        /\ Sound(s) /\ Goto(c, s) /\ s.pc \in {"apply", "check"} /\ s.options = cmd[c].options
        /\ s.alone = cmd[c].alone
  BY AppliedMoves
<1>2. ~InBootstrap(s) /\ ~InPurge(s)
  BY <1>1 DEF InBootstrap, InPurge
<1> QED
  BY <1>1, <1>2, SameCluster

LEMMA RefusedKeeps ==
  ASSUME Inv, NEW c \in Clients, ApplyRefused(c)
  PROVE  Inv'
<1>1. PICK r \in Commands : /\ r = cmd[c] /\ Sound(r) /\ (InBootstrap(r) => Installing(r))
  BY CommandFacts
<1>2. r.pc = "apply" /\ UNCHANGED cluster
  BY <1>1 DEF ApplyRefused
<1>3. CASE End(c, "error")
  BY <1>1, <1>2, <1>3, EndKeeps
<1>4. CASE Retry(c)
  <2>1. PICK s : s = [r EXCEPT !.tries = @ + 1]
    OBVIOUS
  <2>2. /\ s \in Commands /\ Sound(s) /\ s.pc = "apply" /\ s.options = r.options /\ s.todo = r.todo
        /\ s.fresh = r.fresh /\ s.alone = r.alone
    BY <1>1, <1>2, <2>1, RetryRecord
  <2>3. Goto(c, s)
    BY <1>1, <1>4, <2>1 DEF Retry
  <2>4. (InBootstrap(s) => Installing(s)) /\ ~InPurge(s)
    BY <1>1, <1>2, <2>2, CarriedOver DEF InBootstrap, InPurge
  <2> QED
    BY <1>1, <1>2, <2>2, <2>3, <2>4, SameCluster
<1> QED
  BY <1>1, <1>3, <1>4 DEF ApplyRefused

-----------------------------------------------------------------------------
(* The steps of commands that change the cluster.                          *)

LEMMA NamespaceApplied ==
  ASSUME ann \in Annotations, NEW a \in Annotations, ApplyNamespace(a)
  PROVE  /\ ann' \in Annotations
         /\ ann'.id = a.id /\ ann'.gitops = a.gitops
         /\ a.telemetry # "unset" => ann'.telemetry = a.telemetry
<1>1. PICK t : t = IF a.telemetry = "unset" /\ managers' # {} THEN ann.telemetry ELSE a.telemetry
  OBVIOUS
<1>2. t \in {"unset", "empty", "true", "false"} /\ (a.telemetry # "unset" => t = a.telemetry)
  BY <1>1 DEF Annotations
<1>3. ann' = [a EXCEPT !.telemetry = t]
  BY <1>1 DEF ApplyNamespace
<1>4. PICK b : b = [a EXCEPT !.telemetry = t]
  OBVIOUS
<1>5. b \in Annotations /\ b.id = a.id /\ b.gitops = a.gitops /\ b.telemetry = t
  BY <1>2, <1>4 DEF Annotations
<1> QED
  BY <1>2, <1>3, <1>4, <1>5

LEMMA ApplyOneKeeps ==
  ASSUME Inv, NEW c \in Clients, ApplyOne(c)
  PROVE  Inv'
<1>1. PICK r \in Commands : /\ r = cmd[c] /\ Sound(r) /\ (InBootstrap(r) => Installing(r))
  BY CommandFacts
<1>2. r.pc = "apply" /\ ~r.options.dry /\ r.todo # <<>> /\ r.todo \in Seq(Objects) /\ ToSet(r.todo) \subseteq Installed
  BY <1>1 DEF ApplyOne, Sound, Commands
<1>3. PICK o \in Objects : o = Head(r.todo) /\ ToSet(r.todo) = {o} \union ToSet(Tail(r.todo))
  BY <1>2, SeqParts
<1>4. PICK v \in Nat \ {0} : v = r.options.version
  BY DEF Commands, BootstrapOptions
<1>5. /\ present' = present \union {o}
      /\ version' = IF o = "deployment" THEN v ELSE version
      /\ rollout' = IF o = "deployment" THEN Updated(v) ELSE rollout
      /\ IF o = "namespace" THEN ApplyNamespace(r.ann) ELSE UNCHANGED <<ann, managers>>
      /\ Applied(c, o)
      /\ UNCHANGED <<going, modified, operator, packages, faults>>
  BY <1>1, <1>3, <1>4 DEF ApplyOne
<1>6. PICK s \in Commands :
        /\ Sound(s) /\ Goto(c, s) /\ s.pc \in {"apply", "check"} /\ s.options = r.options
        /\ s.todo = Tail(r.todo) /\ s.fresh = r.fresh /\ s.alone = r.alone
  BY <1>1, <1>2, <1>5, AppliedMoves
<1>7. CommandInv' /\ cmd'[c] = s /\ \A d \in Clients : d # c => cmd'[d] = cmd[d]
  BY <1>1, <1>2, <1>6, Moves DEF Inv
<1>8. ClusterInv'
  <2>1. present' \subseteq Installed
    BY <1>2, <1>3, <1>5 DEF Inv, ClusterInv
  <2>2. r.ann \in Annotations
    BY DEF Commands
  <2>3. ann' \in Annotations
    BY <1>5, <2>2, NamespaceApplied DEF Inv, ClusterInv
  <2>4. "namespace" \notin present' => ann' = NoAnnotations
    BY <1>5 DEF Inv, ClusterInv
  <2> QED
    BY <2>1, <2>3, <2>4 DEF ClusterInv
<1>9. ASSUME InBootstrap(s) PROVE Installing(s)'
  <2>1. Installing(r)
    BY <1>1, <1>2, <1>6, <1>9 DEF InBootstrap
  <2>2. going' = {}
    BY <1>5, <2>1 DEF Installing
  <2>3. \A x \in ToSet(Manifest) : x \in present' \/ x \in ToSet(s.todo)
    BY <1>3, <1>5, <1>6, <2>1 DEF Installing
  <2>4. s.options.repo => "repository" \in present' \/ "repository" \in ToSet(s.todo)
    BY <1>3, <1>5, <1>6, <2>1 DEF Installing
  <2>5. "deployment" \in ToSet(s.todo) \/ version' = s.options.version
    BY <1>3, <1>4, <1>5, <1>6, <2>1 DEF Installing
  <2>6. s.fresh => version' \in {0, s.options.version}
    BY <1>3, <1>4, <1>5, <1>6, <2>1 DEF Installing
  <2>7. s.fresh /\ version' # 0 => "deployment" \in present' /\ (rollout' \in Ready => operator')
    <3> SUFFICES ASSUME s.fresh, version' # 0 PROVE "deployment" \in present' /\ (rollout' \in Ready => operator')
      OBVIOUS
    <3>1. r.fresh
      BY <1>6
    <3>2. version \in {0, v} /\ (version # 0 => "deployment" \in present /\ (rollout \in Ready => operator))
      BY <1>4, <2>1, <3>1 DEF Installing
    <3>3. CASE o # "deployment"
      BY <1>5, <3>2, <3>3
    <3>4. CASE o = "deployment" /\ version = 0
      <4>1. rollout' = "new"
        BY <1>5, <3>4 DEF Updated
      <4> QED
        BY <1>5, <3>4, <4>1 DEF Ready
    <3>5. CASE o = "deployment" /\ version # 0
      <4>1. rollout' = rollout
        BY <1>5, <3>2, <3>5 DEF Updated
      <4> QED
        BY <1>5, <3>2, <3>5, <4>1
    <3> QED
      BY <3>3, <3>4, <3>5
  <2> QED
    BY <2>2, <2>3, <2>4, <2>5, <2>6, <2>7 DEF Installing
<1>10. ~InPurge(s)
  BY <1>6 DEF InPurge
<1>11. AloneInv'
  BY <1>1, <1>2, <1>7, <1>9, <1>10, OneAlone DEF Inv
<1> QED
  BY <1>7, <1>8, <1>11 DEF Inv

LEMMA PurgeOneKeeps ==
  ASSUME Inv, NEW c \in Clients, PurgeOne(c)
  PROVE  /\ Inv'
         /\ cmd[c].alone /\ Len(cmd[c].todo) = 1 => present' \subseteq going'
<1>1. PICK r \in Commands : /\ r = cmd[c] /\ Sound(r) /\ (InPurge(r) => Purging(r))
  BY CommandFacts
<1>2. r.pc = "purge" /\ r.todo # <<>> /\ r.todo \in Seq(Objects)
  BY <1>1 DEF PurgeOne, Sound, Commands
<1>3. PICK o \in Objects : o = Head(r.todo) /\ ToSet(r.todo) = {o} \union ToSet(Tail(r.todo))
  BY <1>2, SeqParts
<1>4. /\ going' = IF Lingers(o) /\ o \in present THEN going \union {o} ELSE going \ {o}
      /\ present' = IF Lingers(o) THEN present ELSE present \ ({o} \union Contents(o))
      /\ UNCHANGED ann
  BY <1>1, <1>3 DEF PurgeOne
<1>5. ClusterInv'
  <2>1. present' \subseteq present
    BY <1>4
  <2>2. "namespace" \notin Contents(o) /\ (o = "namespace" => Lingers(o))
    BY DEF Contents, Lingers
  <2>3. "namespace" \in present => "namespace" \in present'
    BY <1>4, <2>2
  <2> QED
    BY <1>4, <2>1, <2>3 DEF Inv, ClusterInv
<1>6. ASSUME Purging(r), NEW x \in present'
      PROVE  \/ x \in going' \/ x \in ToSet(Tail(r.todo))
             \/ x = "repository" /\ "packagerepositories" \in ToSet(Tail(r.todo))
  <2>0. x \in present
    BY <1>4, <1>6
  <2>1. \/ x \in going \/ x \in ToSet(r.todo)
        \/ x = "repository" /\ "packagerepositories" \in ToSet(r.todo)
    BY <1>6, <2>0 DEF Purging
  <2>2. CASE x = o
    BY <1>4, <1>6, <2>2
  <2>3. CASE x # o /\ o # "packagerepositories"
    BY <1>3, <1>4, <2>1, <2>3
  <2>4. CASE x # o /\ o = "packagerepositories"
    <3>1. ~Lingers(o) /\ Contents(o) = {"repository"}
      BY <2>4 DEF Lingers, Contents
    <3> QED
      BY <1>3, <1>4, <1>6, <2>1, <2>4, <3>1
  <2> QED
    BY <2>2, <2>3, <2>4
<1>7. CASE Len(r.todo) = 1
  <2>1. End(c, "ok")
    BY <1>1, <1>7 DEF PurgeOne
  <2>2. PICK s \in Commands : Sound(s) /\ Goto(c, s) /\ s.pc = "idle" /\ ~s.alone
    BY <2>1, Ends DEF Inv
  <2>3. CommandInv' /\ cmd'[c] = s /\ \A d \in Clients : d # c => cmd'[d] = cmd[d]
    BY <2>2, Moves DEF Inv
  <2>4. ~InBootstrap(s) /\ ~InPurge(s)
    BY <2>2 DEF InBootstrap, InPurge
  <2>5. AloneInv'
    BY <1>1, <1>2, <2>3, <2>4, OneAlone DEF Inv
  <2>6. ToSet(Tail(r.todo)) = {}
    BY <1>2, <1>7, SeqParts, EmptyParts
  <2>7. r.alone => present' \subseteq going'
    BY <1>1, <1>2, <1>6, <2>6 DEF InPurge
  <2> QED
    BY <1>1, <1>5, <2>3, <2>5, <2>7 DEF Inv
<1>8. CASE Len(r.todo) # 1
  <2>1. PICK s : s = [r EXCEPT !.todo = Tail(@)]
    OBVIOUS
  <2>2. Goto(c, s)
    BY <1>1, <1>8, <2>1 DEF PurgeOne
  <2>3. s \in Commands /\ Sound(s) /\ s.pc = "purge" /\ s.todo = Tail(r.todo) /\ s.alone = r.alone
    BY <1>1, <1>2, <1>8, <2>1, PurgedRecord
  <2>4. CommandInv' /\ cmd'[c] = s /\ \A d \in Clients : d # c => cmd'[d] = cmd[d]
    BY <1>1, <1>2, <2>2, <2>3, Moves DEF Inv
  <2>5. ASSUME InPurge(s) PROVE Purging(s)'
    <3>1. Purging(r)
      BY <1>1, <1>2, <2>3, <2>5 DEF InPurge
    <3>2. s.todo[Len(s.todo)] = "namespace"
      BY <1>2, <1>8, <2>3, <3>1, SeqParts DEF Purging
    <3> QED
      BY <1>6, <2>3, <3>1, <3>2 DEF Purging
  <2>6. ~InBootstrap(s)
    BY <2>3 DEF InBootstrap
  <2>7. AloneInv'
    BY <1>1, <1>2, <2>4, <2>5, <2>6, OneAlone DEF Inv
  <2> QED
    BY <1>1, <1>5, <1>8, <2>4, <2>7 DEF Inv
<1> QED
  BY <1>7, <1>8

LEMMA StepKeeps ==
  ASSUME Inv, NEW c \in Clients, Step(c)
  PROVE  Inv'
<1>1. CASE Preprocess(c) \/ PreprocessFails(c)
  BY <1>1, PreprocessKeeps, PreprocessFailsKeeps
<1>2. CASE ApplyUnknown(c)
  <2>1. cmd[c].pc = "apply" /\ UNCHANGED cluster
    BY <1>2 DEF ApplyUnknown
  <2>2. CASE cmd[c].options.dry /\ Applied(c, "repository")
    BY <2>1, <2>2, DryKeeps
  <2>3. CASE End(c, "error")
    BY <2>1, <2>3, EndKeeps
  <2> QED
    BY <1>2, <2>2, <2>3 DEF ApplyUnknown
<1>3. CASE ApplyDry(c)
  <2>1. cmd[c].pc = "apply" /\ cmd[c].options.dry /\ Applied(c, Head(cmd[c].todo)) /\ UNCHANGED cluster
    BY <1>3 DEF ApplyDry
  <2>2. PICK o : o = Head(cmd[c].todo)
    OBVIOUS
  <2>3. Applied(c, o)
    BY <2>1, <2>2
  <2> QED
    BY <2>1, <2>3, DryKeeps
<1>4. CASE ApplyOne(c)
  BY <1>4, ApplyOneKeeps
<1>5. CASE ApplyRefused(c)
  BY <1>5, RefusedKeeps
<1>6. CASE CallFails(c)
  <2>1. cmd[c].pc # "idle" /\ End(c, "error") /\ UNCHANGED cluster
    BY <1>6 DEF CallFails
  <2> QED
    BY <2>1, EndKeeps
<1>7. CASE CheckReady(c)
  <2>1. cmd[c].pc # "idle" /\ (End(c, "error") \/ End(c, "ok")) /\ UNCHANGED cluster
    BY <1>7 DEF CheckReady
  <2> QED
    BY <2>1, EndKeeps
<1>8. CASE CheckTimeout(c)
  <2>1. cmd[c].pc # "idle" /\ End(c, "error") /\ UNCHANGED cluster
    BY <1>8 DEF CheckTimeout
  <2> QED
    BY <2>1, EndKeeps
<1>9. CASE PurgeOne(c)
  BY <1>9, PurgeOneKeeps
<1> QED
  BY <1>1, <1>2, <1>3, <1>4, <1>5, <1>6, <1>7, <1>8, <1>9 DEF Step

-----------------------------------------------------------------------------
(* Commands begin.                                                         *)

(* A command that begins is the only one that can be alone.                *)
LEMMA BeginKeeps ==
  ASSUME Inv, NEW c \in Clients, NEW s, CommandInv', cmd'[c] = s, \A d \in Clients : d # c => cmd'[d].alone = FALSE,
         UNCHANGED cluster, InBootstrap(s) => Installing(s), InPurge(s) => Purging(s)
  PROVE  Inv'
<1>1. ClusterInv'
  BY DEF Inv, ClusterInv, cluster
<1>2. ASSUME NEW d \in Clients
      PROVE  /\ InBootstrap(cmd'[d]) => Installing(cmd[d])'
             /\ InPurge(cmd'[d]) => Purging(cmd[d])'
  <2>1. CASE d = c
    <3>1. /\ InBootstrap(cmd'[d]) => InBootstrap(s)
          /\ InPurge(cmd'[d]) => InPurge(s)
      BY <2>1
    <3>2. Installing(s) => Installing(cmd[d])'
      BY <2>1 DEF Installing, cluster
    <3>3. Purging(s) => Purging(cmd[d])'
      BY <2>1 DEF Purging, cluster
    <3> QED
      BY <3>1, <3>2, <3>3
  <2>2. CASE d # c
    BY <2>2 DEF InBootstrap, InPurge
  <2> QED
    BY <2>1, <2>2
<1>3. AloneInv'
  BY <1>2 DEF AloneInv, InBootstrap, InPurge
<1> QED
  BY <1>1, <1>3 DEF Inv

LEMMA StartBootstrapKeeps ==
  ASSUME Inv, NEW c \in Clients, NEW o \in Options, StartBootstrap(c, o)
  PROVE  Inv'
<1>1. PICK t : t = IF o.repo THEN Append(Manifest, "repository") ELSE Manifest
  OBVIOUS
<1>2. t \in Seq(Objects) /\ t # <<>> /\ ToSet(t) = IF o.repo THEN Installed ELSE ToSet(Manifest)
  <2>1. /\ Append(Manifest, "repository") \in Seq(Objects) /\ Append(Manifest, "repository") # <<>>
        /\ ToSet(Append(Manifest, "repository")) = Installed
    BY ManifestFacts, AppendParts DEF Installed
  <2> QED
    BY <1>1, <2>1, ManifestFacts
<1>3. ToSet(t) \subseteq Installed /\ ToSet(Manifest) \subseteq ToSet(t) /\ (o.repo => "repository" \in ToSet(t))
  BY <1>2 DEF Installed
<1>4. PICK k \in SUBSET CRDs : k = RestMapper
  BY DEF RestMapper
<1>5. PICK f \in BOOLEAN : f = (version = 0)
  OBVIOUS
<1>6. PICK a \in BOOLEAN : a = (going = {} /\ \A e \in Clients : cmd[e].pc = "idle")
  OBVIOUS
<1>7. PICK n \in Nat : n = cmd[c].run + 1
  BY DEF Inv, CommandInv, Commands
<1>8. PICK r : r = bootstrapping(o, k, f, t)
  OBVIOUS
<1>9. PICK s : s = begun(r, n, a)
  OBVIOUS
<1>10. o \in BootstrapOptions
  BY BootstrapAssumption
<1>11. /\ s \in Commands /\ Sound(s) /\ s.pc = "preprocess" /\ s.options = o /\ s.todo = t
       /\ (s.fresh <=> f) /\ (s.alone <=> a)
  BY <1>2, <1>3, <1>4, <1>8, <1>9, <1>10, BootstrapRecord
<1>12. Begin(c, r) /\ UNCHANGED cluster
  BY <1>1, <1>4, <1>5, <1>8 DEF StartBootstrap, Begin, bootstrapping
<1>13. cmd'[c] = s
  BY <1>6, <1>7, <1>9, <1>12 DEF Begin, begun
<1>14. s.alone => going = {} /\ \A e \in Clients : cmd[e].pc = "idle"
  BY <1>6, <1>11
<1>15. CommandInv' /\ \A d \in Clients : d # c => cmd'[d].alone = FALSE
  BY <1>11, <1>12, <1>13, <1>14, Begins DEF Inv
<1>16. ASSUME InBootstrap(s) PROVE Installing(s)
  <2>1. going = {}
    BY <1>14, <1>16 DEF InBootstrap
  <2>2. s.fresh => version = 0
    BY <1>5, <1>11
  <2>3. "deployment" \in ToSet(s.todo)
    BY <1>3, <1>11, ManifestFacts
  <2> QED
    BY <1>3, <1>11, <2>1, <2>2, <2>3 DEF Installing
<1>17. ~InPurge(s)
  BY <1>11 DEF InPurge
<1> QED
  BY <1>12, <1>13, <1>15, <1>16, <1>17, BeginKeeps

LEMMA StartPurgeKeeps ==
  ASSUME Inv, NEW c \in Clients, StartPurge(c)
  PROVE  Inv'
<1>1. PICK t \in Seq(Objects) : t = Reverse(Manifest)
  BY ManifestFacts, ReverseParts
<1>2. t # <<>> /\ ToSet(t) = ToSet(Manifest) /\ t[Len(t)] = "namespace"
  BY <1>1, ManifestFacts, ReverseParts
<1>3. ToSet(t) \subseteq Installed
  BY <1>2 DEF Installed
<1>4. PICK a \in BOOLEAN : a = (going = {} /\ \A e \in Clients : cmd[e].pc = "idle")
  OBVIOUS
<1>5. PICK n \in Nat : n = cmd[c].run + 1
  BY DEF Inv, CommandInv, Commands
<1>6. PICK r : r = purging(t)
  OBVIOUS
<1>7. PICK s : s = begun(r, n, a)
  OBVIOUS
<1>8. s \in Commands /\ Sound(s) /\ s.pc = "purge" /\ s.todo = t /\ (s.alone <=> a)
  BY <1>2, <1>3, <1>6, <1>7, PurgeRecord
<1>9. Begin(c, r) /\ UNCHANGED cluster
  BY <1>1, <1>6 DEF StartPurge, Begin, purging
<1>10. cmd'[c] = s
  BY <1>4, <1>5, <1>7, <1>9 DEF Begin, begun
<1>11. s.alone => \A e \in Clients : cmd[e].pc = "idle"
  BY <1>4, <1>8
<1>12. CommandInv' /\ \A d \in Clients : d # c => cmd'[d].alone = FALSE
  BY <1>8, <1>9, <1>10, <1>11, Begins DEF Inv
<1>13. Purging(s)
  <2>1. present \subseteq ToSet(s.todo) \union {"repository"} /\ "packagerepositories" \in ToSet(s.todo)
    BY <1>2, <1>8, ManifestFacts DEF Inv, ClusterInv, Installed
  <2> QED
    BY <1>2, <1>8, <2>1 DEF Purging
<1>14. ~InBootstrap(s)
  BY <1>8 DEF InBootstrap
<1> QED
  BY <1>9, <1>10, <1>12, <1>13, <1>14, BeginKeeps

LEMMA TelemetryKeeps ==
  ASSUME Inv, NEW c \in Clients, NEW enabled \in BOOLEAN, TelemetryCommand(c, enabled)
  PROVE  /\ Inv' /\ \A d \in Clients : d # c => cmd'[d] = cmd[d]
         /\ cmd[c].pc = "idle"
<1>1. PICK n \in Nat : n = cmd[c].run + 1
  BY DEF Inv, CommandInv, Commands
<1>2. PICK s : s = Idle(n, "ok")
  OBVIOUS
<1>3. s \in Commands /\ Sound(s) /\ s.pc = "idle" /\ s.alone = FALSE
  BY <1>1, <1>2, IdleRecord
<1>4. Goto(c, s)
  BY <1>1, <1>2 DEF TelemetryCommand, Goto
<1>5. CommandInv' /\ cmd'[c] = s /\ \A d \in Clients : d # c => cmd'[d] = cmd[d]
  BY <1>3, <1>4, Moves DEF Inv
<1>6. /\ present' = present \union {"namespace"}
      /\ \E x \in {"true", "false"} : ann' = [ann EXCEPT !.telemetry = x]
      /\ UNCHANGED <<going, version, rollout, operator>>
      /\ cmd[c].pc = "idle"
  BY DEF TelemetryCommand
<1>7. ClusterInv'
  <2>1. "namespace" \in Installed
    BY ManifestFacts DEF Installed
  <2>2. ann' \in Annotations
    BY <1>6 DEF Inv, ClusterInv, Annotations
  <2> QED
    BY <1>6, <2>1, <2>2 DEF Inv, ClusterInv
<1>8. ASSUME NEW d \in Clients
      PROVE  /\ InBootstrap(cmd'[d]) => Installing(cmd[d])'
             /\ InPurge(cmd'[d]) => Purging(cmd[d])'
  <2>1. CASE d = c
    BY <1>3, <1>5, <2>1 DEF InBootstrap, InPurge
  <2>2. CASE d # c
    <3>1. PICK r \in Commands : /\ r = cmd[d] /\ Sound(r) /\ (InBootstrap(r) => Installing(r)) /\ (InPurge(r) => Purging(r))
      BY CommandFacts
    <3>2. cmd'[d] = r
      BY <1>5, <2>2, <3>1
    <3>3. Installing(r) => Installing(r)'
      BY <1>6 DEF Installing
    <3>4. ASSUME InPurge(r), Purging(r) PROVE Purging(r)'
      <4>1. r.todo \in Seq(Objects) /\ r.todo # <<>>
        BY <3>1, <3>4 DEF InPurge, Sound, Commands
      <4>2. "namespace" \in ToSet(r.todo)
        BY <3>4, <4>1, LastInSet DEF Purging
      <4> QED
        BY <1>6, <3>4, <4>2 DEF Purging
    <3>5. (Installing(r)' => Installing(cmd[d])') /\ (Purging(r)' => Purging(cmd[d])')
      BY <3>2 DEF Installing, Purging
    <3> QED
      BY <3>1, <3>2, <3>3, <3>4, <3>5
  <2> QED
    BY <2>1, <2>2
<1>9. AloneInv'
  BY <1>8 DEF AloneInv, InBootstrap, InPurge
<1> QED
  BY <1>5, <1>6, <1>7, <1>9 DEF Inv

-----------------------------------------------------------------------------
(* The cluster.                                                            *)

(* A step of the cluster by itself: what it may do to the objects and to   *)
(* the operator while commands run.                                        *)
LEMMA ClusterStepKeeps ==
  ASSUME Inv, UNCHANGED cmd, ClusterInv',
         \A r \in Commands : Installing(r) => Installing(r)',
         \A r \in Commands : Purging(r) => Purging(r)'
  PROVE  Inv'
<1>1. CommandInv'
  BY DEF Inv, CommandInv, Sound
<1>2. ASSUME NEW d \in Clients
      PROVE  /\ InBootstrap(cmd'[d]) => Installing(cmd[d])'
             /\ InPurge(cmd'[d]) => Purging(cmd[d])'
  <2>1. PICK r \in Commands : /\ r = cmd[d] /\ (InBootstrap(r) => Installing(r)) /\ (InPurge(r) => Purging(r))
    BY CommandFacts
  <2>2. cmd'[d] = r
    BY <2>1
  <2>3. (Installing(r)' => Installing(cmd[d])') /\ (Purging(r)' => Purging(cmd[d])')
    BY <2>2 DEF Installing, Purging
  <2> QED
    BY <2>1, <2>2, <2>3
<1>3. AloneInv'
  BY <1>2 DEF AloneInv, InBootstrap, InPurge
<1> QED
  BY <1>1, <1>3 DEF Inv

LEMMA ClusterKeeps ==
  ASSUME Inv, Cluster
  PROVE  Inv' /\ UNCHANGED cmd
<1>1. CASE RolloutBegins
  <2>1. ClusterInv' /\ UNCHANGED cmd
    BY <1>1 DEF RolloutBegins, Inv, ClusterInv
  <2>2. \A r \in Commands : (Installing(r) => Installing(r)') /\ (Purging(r) => Purging(r)')
    BY <1>1 DEF RolloutBegins, Installing, Purging, Ready
  <2> QED
    BY <2>1, <2>2, ClusterStepKeeps
<1>2. CASE RolloutEnds
  <2>1. ClusterInv' /\ UNCHANGED cmd
    BY <1>2 DEF RolloutEnds, Inv, ClusterInv
  <2>2. \A r \in Commands : (Installing(r) => Installing(r)') /\ (Purging(r) => Purging(r)')
    BY <1>2 DEF RolloutEnds, Installing, Purging
  <2> QED
    BY <2>1, <2>2, ClusterStepKeeps
<1>3. CASE OperatorStops
  <2>1. ClusterInv' /\ UNCHANGED cmd
    BY <1>3 DEF OperatorStops, Inv, ClusterInv
  <2>2. \A r \in Commands : (Installing(r) => Installing(r)') /\ (Purging(r) => Purging(r)')
    BY <1>3 DEF OperatorStops, Installing, Purging
  <2> QED
    BY <2>1, <2>2, ClusterStepKeeps
<1>4. CASE JobRuns \/ PackageInstalled \/ KubectlApply \/ PackagesFinalized
  <2>1. UNCHANGED <<present, going, version, rollout, operator, ann, cmd>>
    BY <1>4 DEF JobRuns, PackageInstalled, KubectlApply, PackagesFinalized
  <2>2. ClusterInv'
    BY <2>1 DEF Inv, ClusterInv
  <2>3. \A r \in Commands : (Installing(r) => Installing(r)') /\ (Purging(r) => Purging(r)')
    BY <2>1 DEF Installing, Purging
  <2> QED
    BY <2>1, <2>2, <2>3, ClusterStepKeeps
<1>5. ASSUME NEW o \in Objects, Gone(o) PROVE Inv' /\ UNCHANGED cmd
  <2>1. /\ o \in going /\ going' = going \ {o} /\ present' = present \ ({o} \union Contents(o))
        /\ o = "namespace" => ann' = NoAnnotations
        /\ o # "namespace" => ann' = ann
        /\ UNCHANGED cmd
    BY <1>5 DEF Gone
  <2>2. "namespace" \notin Contents(o)
    BY DEF Contents
  <2>3. ClusterInv'
    BY <2>1, <2>2, NothingChosen DEF Inv, ClusterInv
  <2>4. \A r \in Commands : (Installing(r) => Installing(r)') /\ (Purging(r) => Purging(r)')
    BY <2>1 DEF Installing, Purging
  <2> QED
    BY <2>1, <2>3, <2>4, ClusterStepKeeps
<1> QED
  BY <1>1, <1>2, <1>3, <1>4, <1>5 DEF Cluster

-----------------------------------------------------------------------------

(* Every step keeps the invariant.                                         *)
LEMMA InvStep == Inv /\ [Next]_vars => Inv'
<1> SUFFICES ASSUME Inv, [Next]_vars PROVE Inv'
  OBVIOUS
<1>1. ASSUME NEW c \in Clients, Command(c) PROVE Inv'
  BY <1>1, StartBootstrapKeeps, StartPurgeKeeps, TelemetryKeeps DEF Command
<1>2. ASSUME NEW c \in Clients, Step(c) PROVE Inv'
  BY <1>2, StepKeeps
<1>3. CASE Cluster
  BY <1>3, ClusterKeeps
<1>4. CASE UNCHANGED vars
  <2>1. UNCHANGED cluster /\ UNCHANGED cmd
    BY <1>4 DEF vars
  <2>2. ClusterInv'
    BY <2>1 DEF Inv, ClusterInv, cluster
  <2>3. \A r \in Commands : (Installing(r) => Installing(r)') /\ (Purging(r) => Purging(r)')
    BY <2>1 DEF Installing, Purging, cluster
  <2> QED
    BY <2>1, <2>2, <2>3, ClusterStepKeeps
<1> QED
  BY <1>1, <1>2, <1>3, <1>4 DEF Next

LEMMA InvInit == Init => Inv
<1> SUFFICES ASSUME Init PROVE Inv
  OBVIOUS
<1>1. \A c \in Clients : cmd[c] = Idle(0, "none")
  BY DEF Init
<1>2. PICK s : s = Idle(0, "none")
  OBVIOUS
<1>3. s \in Commands /\ Sound(s) /\ s.pc = "idle" /\ s.alone = FALSE
  BY <1>2, IdleRecord
<1>4. cmd \in [Clients -> Commands]
  BY <1>2, <1>3 DEF Init
<1>5. \A c \in Clients : Sound(cmd[c])
  BY <1>1, <1>2, <1>3
<1>6. \A c \in Clients : cmd[c].pc = "idle"
  BY <1>1, <1>2, <1>3
<1>7. CommandInv
  BY <1>4, <1>5, <1>6 DEF CommandInv
<1>8. AloneInv
  BY <1>6 DEF AloneInv, InBootstrap, InPurge
<1>9. ClusterInv
  <2>1. CASE present = {} /\ ann = NoAnnotations
    BY <2>1, NothingChosen DEF ClusterInv
  <2>2. CASE present = Installed /\ \/ ann = [telemetry |-> "true", id |-> "old", gitops |-> "unset"]
                                    \/ ann = [telemetry |-> "false", id |-> "unset", gitops |-> "true"]
    <3>1. "namespace" \in Installed
      BY ManifestFacts DEF Installed
    <3>2. ann \in Annotations
      BY <2>2 DEF Annotations
    <3> QED
      BY <2>2, <3>1, <3>2 DEF ClusterInv
  <2> QED
    BY <2>1, <2>2 DEF Init
<1> QED
  BY <1>7, <1>8, <1>9 DEF Inv

LEMMA Invariance == Spec => []Inv
  BY InvInit, InvStep, PTL DEF Spec

-----------------------------------------------------------------------------
(* The theorems.                                                           *)

(* Only its own step gives a command another result or takes it further.   *)
LEMMA OwnSteps ==
  ASSUME Inv, Next, NEW c \in Clients, cmd[c].pc # "idle", ~Step(c)
  PROVE  /\ cmd'[c].result = cmd[c].result
         /\ ann' # ann => cmd'[c] = cmd[c]
<1>1. ASSUME NEW d \in Clients, Step(d) PROVE d # c /\ cmd'[c] = cmd[c]
  <2>1. \E s : cmd' = [cmd EXCEPT ![d] = s]
    BY <1>1 DEF Step, Preprocess, PreprocessFails, ApplyUnknown, ApplyDry, ApplyOne, ApplyRefused, Retry, CallFails,
                CheckReady, CheckTimeout, PurgeOne, Applied, End, Goto
  <2> QED
    BY <1>1, <2>1 DEF Inv, CommandInv
<1>2. ASSUME NEW d \in Clients, NEW enabled \in BOOLEAN, TelemetryCommand(d, enabled) PROVE cmd'[c] = cmd[c]
  BY <1>2, TelemetryKeeps
<1>3. ASSUME NEW d \in Clients, NEW record, Begin(d, record) PROVE ann' = ann /\ cmd'[c].result = cmd[c].result
  <2>1. d # c /\ cmd'[c] = [cmd[c] EXCEPT !.alone = FALSE]
    BY <1>3 DEF Begin
  <2>2. PICK r \in Commands : r = cmd[c]
    BY CommandFacts
  <2>3. PICK s : s = cmd'[c]
    OBVIOUS
  <2>4. s = notAlone(r)
    BY <2>1, <2>2, <2>3 DEF notAlone
  <2>5. s.result = r.result
    BY <2>4, NotAlone
  <2> QED
    BY <1>3, <2>2, <2>3, <2>5 DEF Begin, cluster
<1>4. ASSUME NEW d \in Clients, Command(d) PROVE cmd'[c].result = cmd[c].result /\ (ann' # ann => cmd'[c] = cmd[c])
  BY <1>2, <1>3, <1>4 DEF Command, StartBootstrap, StartPurge
<1>5. CASE Cluster
  BY <1>5, ClusterKeeps
<1> QED
  BY <1>1, <1>4, <1>5 DEF Next

(* A bootstrap nobody interfered with that reports success has installed   *)
(* all it was to install, for every manifest, every choice of options and  *)
(* every order of its steps and those of the cluster.                      *)
THEOREM BootstrapInstalls == Spec => SuccessMeansInstalled
<1>1. ASSUME Inv, [Next]_vars, NEW c \in Clients, vars' # vars,
             cmd[c].pc = "check", cmd[c].alone, ~cmd[c].options.dry, cmd'[c].result = "ok"
      PROVE  /\ ToSet(Manifest) \subseteq present \ going
             /\ cmd[c].options.repo => "repository" \in present
             /\ version = cmd[c].options.version
             /\ cmd[c].fresh => operator
  <2>1. PICK r \in Commands : r = cmd[c] /\ Sound(r) /\ (InBootstrap(r) => Installing(r))
    BY <1>1, CommandFacts
  <2>2. r.result = "none" /\ r.todo = <<>> /\ ToSet(r.todo) = {} /\ Installing(r)
    BY <1>1, <2>1, EmptyParts DEF Sound, InBootstrap
  <2>3. Step(c)
    BY <1>1, <2>1, <2>2, OwnSteps
  <2>4. rollout \in Ready
    <3>1. CASE CheckReady(c) /\ End(c, "error")
      <4>1. \E s \in Commands : Goto(c, s) /\ s.result = "error"
        BY <3>1, Ends, <1>1 DEF Inv
      <4>2. cmd'[c].result = "error"
        BY <1>1, <4>1 DEF Goto, Inv, CommandInv
      <4> QED
        BY <1>1, <4>2
    <3>2. CASE CallFails(c) \/ CheckTimeout(c)
      <4>0. End(c, "error")
        BY <3>2 DEF CallFails, CheckTimeout
      <4>1. \E s \in Commands : Goto(c, s) /\ s.result = "error"
        BY <4>0, Ends, <1>1 DEF Inv
      <4>2. cmd'[c].result = "error"
        BY <1>1, <4>1 DEF Goto, Inv, CommandInv
      <4> QED
        BY <1>1, <4>2
    <3>3. CASE CheckReady(c) /\ ~End(c, "error")
      BY <1>1, <3>3 DEF CheckReady
    <3> QED
      BY <1>1, <2>3, <3>1, <3>2, <3>3 DEF Step, Preprocess, PreprocessFails, ApplyUnknown, ApplyDry, ApplyOne,
                                         ApplyRefused, PurgeOne
  <2>5. r.options.version # 0
    BY DEF Commands, BootstrapOptions
  <2> QED
    BY <2>1, <2>2, <2>4, <2>5 DEF Installing
<1>2. Inv /\ [Next]_vars =>
        [\A c \in Clients :
           /\ cmd[c].pc = "check" /\ cmd[c].alone /\ ~cmd[c].options.dry
           /\ cmd'[c].result = "ok"
           => /\ ToSet(Manifest) \subseteq present \ going
              /\ cmd[c].options.repo => "repository" \in present
              /\ version = cmd[c].options.version
              /\ cmd[c].fresh => operator]_vars
  BY <1>1
<1> QED
  BY <1>2, Invariance, PTL DEF Spec, SuccessMeansInstalled

(* A bootstrap keeps the annotations users have chosen, as it has read     *)
(* them, whatever the other commands do meanwhile.                         *)
THEOREM BootstrapKeepsChoices == Spec => ChoicesSurvive
<1>1. ASSUME Inv, [Next]_vars, NEW c \in Clients, vars' # vars,
             cmd[c].pc = "apply", ann' # ann, cmd'[c] # cmd[c],
             cmd[c].seen = ann, cmd[c].ann # NoAnnotations, "namespace" \in present
      PROVE  /\ ann.telemetry = "false" => ann'.telemetry = "false"
             /\ ann.id \notin {"unset", "empty"} => ann'.id = ann.id
             /\ ann.gitops = "true" => ann'.gitops = "true"
  <2>1. PICK r \in Commands : r = cmd[c] /\ Sound(r)
    BY <1>1, CommandFacts
  <2>2. Keeps(ann, r.ann) /\ r.ann \in Annotations
    BY <1>1, <2>1 DEF Sound, Commands
  <2>3. Step(c)
    BY <1>1, OwnSteps
  <2>4. ApplyNamespace(r.ann)
    BY <1>1, <2>1, <2>3 DEF Step, Preprocess, PreprocessFails, ApplyUnknown, ApplyDry, ApplyOne, ApplyRefused,
                          CallFails, CheckReady, CheckTimeout, PurgeOne, cluster
  <2> QED
    BY <1>1, <2>2, <2>4, NamespaceApplied DEF Keeps, Inv, ClusterInv
<1>2. Inv /\ [Next]_vars =>
        [\A c \in Clients :
           /\ cmd[c].pc = "apply" /\ ann' # ann /\ cmd'[c] # cmd[c]
           /\ cmd[c].seen = ann /\ cmd[c].ann # NoAnnotations /\ "namespace" \in present
           => /\ ann.telemetry = "false" => ann'.telemetry = "false"
              /\ ann.id \notin {"unset", "empty"} => ann'.id = ann.id
              /\ ann.gitops = "true" => ann'.gitops = "true"]_vars
  BY <1>1
<1> QED
  BY <1>2, Invariance, PTL DEF Spec, ChoicesSurvive

(* A purge nobody interfered with that reports success leaves nothing that *)
(* is not being deleted, although the cluster finishes deletions meanwhile *)
(* and glasskube telemetry may bring the namespace back.                   *)
THEOREM PurgeLeavesNothing == Spec => PurgedIsGone
<1>1. ASSUME Inv, [Next]_vars, NEW c \in Clients, vars' # vars,
             cmd[c].pc = "purge", cmd[c].alone, cmd'[c].result = "ok"
      PROVE  present' \subseteq going'
  <2>1. PICK r \in Commands : r = cmd[c] /\ Sound(r)
    BY <1>1, CommandFacts
  <2>2. r.result = "none"
    BY <1>1, <2>1 DEF Sound
  <2>3. Step(c)
    BY <1>1, <2>1, <2>2, OwnSteps
  <2>4. CASE CallFails(c)
    <3>1. \E s \in Commands : Goto(c, s) /\ s.result = "error"
      BY <2>4, Ends, <1>1 DEF Inv, CallFails
    <3>2. cmd'[c].result = "error"
      BY <1>1, <3>1 DEF Goto, Inv, CommandInv
    <3> QED
      BY <1>1, <3>2
  <2>5. CASE PurgeOne(c)
    <3>1. CASE Len(r.todo) = 1
      BY <1>1, <2>1, <2>5, <3>1, PurgeOneKeeps
    <3>2. CASE Len(r.todo) # 1
      <4>1. PICK s : s = [r EXCEPT !.todo = Tail(@)]
        OBVIOUS
      <4>2. s.result = "none"
        BY <1>1, <2>1, <2>2, <3>2, <4>1, PurgedRecord
      <4>3. Goto(c, s)
        BY <2>1, <2>5, <3>2, <4>1 DEF PurgeOne
      <4>4. cmd'[c].result = "none"
        BY <1>1, <4>2, <4>3 DEF Goto, Inv, CommandInv
      <4> QED
        BY <1>1, <4>4
    <3> QED
      BY <3>1, <3>2
  <2> QED
    BY <1>1, <2>3, <2>4, <2>5 DEF Step, Preprocess, PreprocessFails, ApplyUnknown, ApplyDry, ApplyOne,
                                  ApplyRefused, CheckReady, CheckTimeout
<1>2. Inv /\ [Next]_vars =>
        [\A c \in Clients :
           cmd[c].pc = "purge" /\ cmd[c].alone /\ cmd'[c].result = "ok"
             => present' \subseteq going']_vars
  BY <1>1
<1> QED
  BY <1>2, Invariance, PTL DEF Spec, PurgedIsGone
=============================================================================
