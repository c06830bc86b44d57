------------------------------- MODULE SseHub -------------------------------
(***************************************************************************)
(* Server-sent events of the web UI (internal/web/sse): the hub goroutine, *)
(* one handler goroutine per connected browser and the informer callbacks  *)
(* that broadcast updates.  register, unregister and broadcast are         *)
(* unbuffered channels, received from in one select; each client has a     *)
(* channel "send" with a buffer of one.                                    *)
(***************************************************************************)
EXTENDS Integers, SequencesExt

CONSTANTS
  Clients,        \* browsers
  Senders,        \* goroutines that call UpdatesAvailable
  Pkgs,           \* packages
  Updates,        \* the lists of packages they call it with
  NamespaceScoped,\* the packages that are namespace-scoped
  MaxCalls,       \* bound on the calls of UpdatesAvailable
  MaxWriteErrors  \* bound on writes that fail because a browser has gone

ASSUME HubAssumption ==
  /\ Updates \subseteq Seq(Pkgs)
  /\ MaxCalls \in Nat /\ MaxWriteErrors \in Nat

VARIABLES
  hub,       \* the hub: where it is, the message it sends, the clients left to send it to
  clients,   \* the registered clients
  send,      \* the buffer of each client's channel
  closed,    \* the clients whose channel is closed
  handler,   \* where the handler of each client is
  pending,   \* how far each sender is in its call of UpdatesAvailable
  hubStopCh, \* whether the stopCh of the hub is closed
  stopped,   \* the hub's flag, read by the handlers
  calls, writeErrors,
  log,       \* history: the messages the hub has taken from broadcast
  got,       \* history: the events each handler has received
  since      \* history: the length of log when the client was registered

hubVars == <<hub, clients, send, closed, handler, pending, hubStopCh, stopped, calls, writeErrors,
             log, got, since>>

chans == <<send, closed>>
history == <<log, got, since>>

Close == <<"close">>

(* GetPackageRefreshDetailId and the two overview events.                  *)
detail(p) == <<"detail", p>>
overview(p) == IF p \in NamespaceScoped THEN <<"packages">> ELSE <<"clusterpackages">>

Updated == UNION {{detail(p), overview(p)} : p \in Pkgs}

Events == {Close} \cup Updated

(* UpdatesAvailable: a detail event per package, and after the first       *)
(* package of each scope the overview event of the scope.                  *)
calling(ps) == [pkgs |-> ps, step |-> "detail", done |-> {}]

eventOf(call) == IF call.step = "detail" THEN detail(Head(call.pkgs)) ELSE overview(Head(call.pkgs))

afterBroadcast(call) ==
  LET p == Head(call.pkgs)
  IN IF call.step = "detail" /\ overview(p) \notin call.done
     THEN [call EXCEPT !.step = "overview"]
     ELSE [pkgs |-> Tail(call.pkgs), step |-> "detail", done |-> call.done \cup {overview(p)}]

-----------------------------------------------------------------------------

HubInit ==
  /\ hub = [pc |-> "select", msg |-> Close, left |-> {}]
  /\ clients = {}
  /\ send = [c \in Clients |-> <<>>]
  /\ closed = {}
  /\ handler = [c \in Clients |-> "none"]
  /\ pending = [s \in Senders |-> calling(<<>>)]
  /\ hubStopCh = FALSE /\ stopped = FALSE
  /\ calls = 0 /\ writeErrors = 0
  /\ log = <<>>
  /\ got = [c \in Clients |-> <<>>]
  /\ since = [c \in Clients |-> 0]

Full(c) == Len(send[c]) = 1

HandlerGoto(c, pc) == handler' = [handler EXCEPT ![c] = pc]

(* The handler of a new connection blocks until the hub registers it.      *)
Connect(c) ==
  /\ handler[c] = "none"
  /\ HandlerGoto(c, "register")
  /\ UNCHANGED <<hub, clients, chans, pending, hubStopCh, stopped, calls, writeErrors, history>>

Register(c) ==
  /\ hub.pc = "select"
  /\ handler[c] = "register"
  /\ clients' = clients \cup {c}
  /\ HandlerGoto(c, "range")
  /\ since' = [since EXCEPT ![c] = Len(log)]
  /\ UNCHANGED <<hub, chans, pending, hubStopCh, stopped, calls, writeErrors, log, got>>

(* An informer callback calls UpdatesAvailable, which then blocks in       *)
(* broadcast once per event.                                               *)
UpdatesAvailable(s, ps) ==
  /\ pending[s].pkgs = <<>>
  /\ calls < MaxCalls
  /\ calls' = calls + 1
  /\ pending' = [pending EXCEPT ![s] = calling(ps)]
  /\ UNCHANGED <<hub, clients, chans, handler, hubStopCh, stopped, writeErrors, history>>

Broadcast(s) ==
  /\ hub.pc = "select"
  /\ pending[s].pkgs # <<>>
  /\ hub' = [pc |-> "send", msg |-> eventOf(pending[s]), left |-> clients]
  /\ pending' = [pending EXCEPT ![s] = afterBroadcast(@)]
  /\ log' = Append(log, eventOf(pending[s]))
  /\ UNCHANGED <<clients, chans, handler, hubStopCh, stopped, calls, writeErrors, got, since>>

(* Mutant: the hub does not wait for a client whose buffer is full.        *)
SendOrDrop(c) ==
  /\ hub.pc = "send"
  /\ c \in hub.left
  /\ send' = IF Full(c) THEN send ELSE [send EXCEPT ![c] = Append(@, hub.msg)]
  /\ hub' = [hub EXCEPT !.left = @ \ {c}]
  /\ UNCHANGED <<clients, closed, handler, pending, hubStopCh, stopped, calls, writeErrors, history>>

(* client.send <- message, in the order of the map; it blocks the hub as   *)
(* long as the buffer is full.                                             *)
Send(c) ==
  /\ hub.pc = "send"
  /\ c \in hub.left
  /\ ~Full(c)
  /\ send' = [send EXCEPT ![c] = Append(@, hub.msg)]
  /\ hub' = [hub EXCEPT !.left = @ \ {c}]
  /\ UNCHANGED <<clients, closed, handler, pending, hubStopCh, stopped, calls, writeErrors, history>>

SendDone ==
  /\ hub.pc = "send"
  /\ hub.left = {}
  /\ hub' = [hub EXCEPT !.pc = "select"]
  /\ UNCHANGED <<clients, chans, handler, pending, hubStopCh, stopped, calls, writeErrors, history>>

(* The handler takes an event and writes it to the response.               *)
Receive(c) ==
  /\ handler[c] = "range"
  /\ send[c] # <<>>
  /\ send' = [send EXCEPT ![c] = Tail(@)]
  /\ got' = [got EXCEPT ![c] = Append(@, Head(send[c]))]
  /\ UNCHANGED <<hub, clients, closed, pending, hubStopCh, stopped, calls, log, since>>

WriteOnce(c) == Receive(c) /\ HandlerGoto(c, "ended") /\ UNCHANGED writeErrors  \* mutant: no loop

WriteOk(c) == Receive(c) /\ UNCHANGED <<handler, writeErrors>>

WriteFails(c) ==
  /\ writeErrors < MaxWriteErrors
  /\ writeErrors' = writeErrors + 1
  /\ Receive(c)
  /\ HandlerGoto(c, "ended")

RangeEnds(c) ==
  /\ handler[c] = "range"
  /\ send[c] = <<>>
  /\ c \in closed
  /\ HandlerGoto(c, "ended")
  /\ UNCHANGED <<hub, clients, chans, pending, hubStopCh, stopped, calls, writeErrors, history>>

CheckStopped(c) ==
  /\ handler[c] = "ended"
  /\ HandlerGoto(c, IF stopped THEN "done" ELSE "unregister")
  /\ UNCHANGED <<hub, clients, chans, pending, hubStopCh, stopped, calls, writeErrors, history>>

(* Mutant: the client is not removed from the map.                         *)
UnregisterKeeps(c) ==
  /\ hub.pc = "select"
  /\ handler[c] = "unregister"
  /\ closed' = closed \cup {c}
  /\ HandlerGoto(c, "done")
  /\ UNCHANGED <<hub, clients, send, pending, hubStopCh, stopped, calls, writeErrors, history>>

Unregister(c) ==
  /\ hub.pc = "select"
  /\ handler[c] = "unregister"
  /\ closed' = closed \cup {c}
  /\ clients' = clients \ {c}
  /\ HandlerGoto(c, "done")
  /\ UNCHANGED <<hub, send, pending, hubStopCh, stopped, calls, writeErrors, history>>

(* shutdown of the server closes stopCh; the hub then says good-bye.       *)
Shutdown ==
  /\ ~hubStopCh
  /\ hubStopCh' = TRUE
  /\ UNCHANGED <<hub, clients, chans, handler, pending, stopped, calls, writeErrors, history>>

Stop ==
  /\ hub.pc = "select"
  /\ hubStopCh
  /\ stopped' = TRUE
  /\ hub' = [pc |-> "stop", msg |-> Close, left |-> clients]
  /\ UNCHANGED <<clients, chans, handler, pending, hubStopCh, calls, writeErrors, history>>

(* Mutant: the channel is not closed.                                      *)
SendCloseOnly(c) ==
  /\ hub.pc = "stop"
  /\ c \in hub.left
  /\ ~Full(c)
  /\ send' = [send EXCEPT ![c] = Append(@, Close)]
  /\ hub' = [hub EXCEPT !.left = @ \ {c}]
  /\ UNCHANGED <<clients, closed, handler, pending, hubStopCh, stopped, calls, writeErrors, history>>

SendClose(c) ==
  /\ hub.pc = "stop"
  /\ c \in hub.left
  /\ ~Full(c)
  /\ send' = [send EXCEPT ![c] = Append(@, Close)]
  /\ closed' = closed \cup {c}
  /\ hub' = [hub EXCEPT !.left = @ \ {c}]
  /\ UNCHANGED <<clients, handler, pending, hubStopCh, stopped, calls, writeErrors, history>>

StopDone ==
  /\ hub.pc = "stop"
  /\ hub.left = {}
  /\ hub' = [hub EXCEPT !.pc = "returned"]
  /\ UNCHANGED <<clients, chans, handler, pending, hubStopCh, stopped, calls, writeErrors, history>>

-----------------------------------------------------------------------------

Handler(c) == WriteOk(c) \/ RangeEnds(c) \/ CheckStopped(c)

HubStep ==
  \/ \E c \in Clients : Send(c) \/ SendClose(c)
  \/ SendDone \/ Stop \/ StopDone

HubNext ==
  \/ \E c \in Clients : Connect(c) \/ Register(c) \/ Unregister(c) \/ Handler(c) \/ WriteFails(c)
  \/ \E s \in Senders, ps \in Updates : UpdatesAvailable(s, ps)
  \/ \E s \in Senders : Broadcast(s)
  \/ HubStep
  \/ Shutdown

(* The goroutines run, and select, which picks among the ready channels at *)
(* random, ignores none of them forever.                                   *)
HubFairness ==
  /\ WF_hubVars(HubStep)
  /\ \A c \in Clients : WF_hubVars(Handler(c)) /\ SF_hubVars(Register(c)) /\ SF_hubVars(Unregister(c))
  /\ \A s \in Senders : SF_hubVars(Broadcast(s))

HubSpec == HubInit /\ [][HubNext]_hubVars /\ HubFairness

-----------------------------------------------------------------------------

HubTypeOK ==
  /\ hub \in [pc : {"select", "send", "stop", "returned"}, msg : Events, left : SUBSET Clients]
  /\ clients \subseteq Clients
  /\ send \in [Clients -> Seq(Events)] /\ \A c \in Clients : Len(send[c]) <= 1
  /\ closed \subseteq Clients
  /\ handler \in [Clients -> {"none", "register", "range", "ended", "unregister", "done"}]
  /\ pending \in [Senders -> [pkgs : Seq(Pkgs), step : {"detail", "overview"}, done : SUBSET Updated]]
  /\ hubStopCh \in BOOLEAN /\ stopped \in BOOLEAN
  /\ calls \in 0..MaxCalls /\ writeErrors \in 0..MaxWriteErrors
  /\ log \in Seq(Updated) /\ got \in [Clients -> Seq(Events)] /\ since \in [Clients -> Nat]

(* The hub neither sends on a closed channel nor closes one twice, both of *)
(* which would panic: whoever it is about to send to, or may be asked to   *)
(* unregister, has an open channel.                                        *)
ChannelsOpenWhenUsed ==
  /\ hub.pc \in {"send", "stop"} => hub.left \cap closed = {}
  /\ hub.pc = "select" => clients \cap closed = {}
  /\ \A c \in Clients : hub.pc = "select" /\ handler[c] = "unregister" => c \notin closed

(* What the handler of c has received and what is still in the channel,    *)
(* and how much of it comes before the good-bye.                           *)
Seen(c) == got[c] \o send[c]

Delivered(c) == IF Seen(c) # <<>> /\ Last(Seen(c)) = Close THEN Len(Seen(c)) - 1 ELSE Len(Seen(c))

(* A browser sees every event broadcast since it was registered, once, in  *)
(* the order of the broadcasts; what follows them, if anything, is the     *)
(* single "close".  Nothing is missing, until the client is unregistered,  *)
(* but the event that the hub is about to send it.                         *)
EventsInOrder ==
  \A c \in Clients :
    /\ since[c] + Delivered(c) <= Len(log)
    /\ \A i \in 1..Delivered(c) : Seen(c)[i] # Close /\ Seen(c)[i] = log[since[c] + i]
    /\ c \in clients /\ ~(hub.pc = "send" /\ c \in hub.left) => since[c] + Delivered(c) = Len(log)

(* As long as no write fails, no broadcast blocks its sender for ever      *)
(* before the server shuts down, ...                                       *)
BroadcastsReturn ==
  \A s \in Senders : pending[s].pkgs # <<>> ~> (pending[s].pkgs = <<>> \/ hubStopCh \/ writeErrors > 0)

(* ... and at a shutdown the handler of every registered client returns.   *)
HandlersReturn ==
  \A c \in Clients : (c \in clients /\ hubStopCh) ~> (handler[c] = "done" \/ writeErrors > 0)

(* The hub closes the channel of each client at most once, at shutdown or  *)
(* when it unregisters, and never sends on one that is closed: the server  *)
(* does not panic, whoever leaves first.                                   *)
HubInv == HubTypeOK /\ ChannelsOpenWhenUsed

=============================================================================
