-------------------------------- MODULE Hub --------------------------------
(***************************************************************************)
(* internal/sse, the broadcast hub, with the goroutines on both sides of   *)
(* it: publishers (the monitor's tick, the create and delete handlers) and *)
(* HandleEvents, the handler of GET /events, one per open browser tab.     *)
(*                                                                         *)
(* Publish takes the mutex and then visits the clients one by one, while   *)
(* their handlers go on receiving.  Subscribe and Unsubscribe are one      *)
(* statement under the mutex, and one step here.                           *)
(***************************************************************************)
EXTENDS Integers, Sequences, FiniteSets

CONSTANTS
  Clients,     \* browser tabs, each with one connection at a time
  Publishers,  \* goroutines that call Publish
  None,        \* nobody holds the mutex
  Buffer,      \* capacity of a client's channel (32 in HandleEvents)
  MaxEvents    \* bound: events published in a behaviour

ASSUME HubAssumption ==
  /\ None \notin Publishers
  /\ Buffer \in Nat \ {0}
  /\ MaxEvents \in Nat

VARIABLES
  mu,       \* the publisher that holds Hub.mu
  clients,  \* Hub.clients
  ch,       \* what each client's channel holds
  pc,       \* where each HandleEvents is
  conn,     \* each tab's connection: "up" or "gone"
  server,   \* "serving", "done": the base context of requests is, "closed": nor
            \* does the listener accept connections
  ppc,      \* where each publisher is
  frame,    \* the event it publishes
  todo,     \* clients the current Publish has yet to visit
  events,   \* number of calls of Publish so far
  log,      \* history: events in the order in which Publish got the mutex
  taken     \* history: what each handler has received from its channel

handler   == <<pc, conn>>
publisher == <<ppc, frame, events>>
vars      == <<mu, clients, ch, handler, server, publisher, todo, log, taken>>

Init ==
  /\ mu = None
  /\ clients = {}
  /\ ch = [c \in Clients |-> <<>>]
  /\ pc = [c \in Clients |-> "off"]
  /\ conn = [c \in Clients |-> "gone"]
  /\ server = "serving"
  /\ ppc = [p \in Publishers |-> "idle"]
  /\ frame = [p \in Publishers |-> 0]
  /\ todo = {}
  /\ events = 0
  /\ log = <<>>
  /\ taken = [c \in Clients |-> <<>>]

-----------------------------------------------------------------------------
\* Publish: the frame is rendered before the mutex is taken.
Publish(p) ==
  /\ ppc[p] = "idle"
  /\ events < MaxEvents
  /\ events' = events + 1
  /\ frame' = [frame EXCEPT ![p] = events + 1]
  /\ ppc' = [ppc EXCEPT ![p] = "lock"]
  /\ UNCHANGED <<mu, clients, ch, handler, server, todo, log, taken>>

\* Fault: Publish without the mutex.
PublishLock_NoMutex(p) ==
  /\ ppc[p] = "lock"
  /\ mu' = p
  /\ ppc' = [ppc EXCEPT ![p] = "send"]
  /\ todo' = clients
  /\ log' = Append(log, frame[p])
  /\ UNCHANGED <<clients, ch, handler, server, frame, events, taken>>

PublishLock(p) ==
  /\ ppc[p] = "lock"
  /\ mu = None
  /\ mu' = p
  /\ ppc' = [ppc EXCEPT ![p] = "send"]
  /\ todo' = clients
  /\ log' = Append(log, frame[p])
  /\ UNCHANGED <<clients, ch, handler, server, frame, events, taken>>

\* Fault: a plain send, which waits for room.
Send_Blocking(p, c) ==
  /\ ppc[p] = "send"
  /\ c \in todo
  /\ Len(ch[c]) < Buffer
  /\ todo' = todo \ {c}
  /\ ch' = [ch EXCEPT ![c] = Append(@, frame[p])]
  /\ UNCHANGED <<mu, clients, handler, server, publisher, log, taken>>

\* Fault: a frame is dropped although there is room for it.
Send_DropsEarly(p, c) ==
  /\ ppc[p] = "send"
  /\ c \in todo
  /\ todo' = todo \ {c}
  /\ ch' = [ch EXCEPT ![c] = IF Len(@) < Buffer - 1 THEN Append(@, frame[p]) ELSE @]
  /\ UNCHANGED <<mu, clients, handler, server, publisher, log, taken>>

\* Fault: a list of frames that grows in place of a channel.
Send_Unbounded(p, c) ==
  /\ ppc[p] = "send"
  /\ c \in todo
  /\ todo' = todo \ {c}
  /\ ch' = [ch EXCEPT ![c] = Append(@, frame[p])]
  /\ UNCHANGED <<mu, clients, handler, server, publisher, log, taken>>

\* The non-blocking send of the loop, in the map's arbitrary order.
Send(p, c) ==
  /\ ppc[p] = "send"
  /\ c \in todo
  /\ todo' = todo \ {c}
  /\ ch' = [ch EXCEPT ![c] = IF Len(@) < Buffer THEN Append(@, frame[p]) ELSE @]
  /\ UNCHANGED <<mu, clients, handler, server, publisher, log, taken>>

PublishUnlock(p) ==
  /\ ppc[p] = "send"
  /\ todo = {}
  /\ mu' = None
  /\ ppc' = [ppc EXCEPT ![p] = "idle"]
  /\ UNCHANGED <<clients, ch, handler, server, frame, events, todo, log, taken>>

-----------------------------------------------------------------------------
\* HandleEvents: the header is flushed to the tab, then the handler makes its
\* channel and subscribes.
Connect(c) ==
  /\ pc[c] = "off"
  /\ server # "closed"
  /\ pc' = [pc EXCEPT ![c] = "header"]
  /\ conn' = [conn EXCEPT ![c] = "up"]
  /\ ch' = [ch EXCEPT ![c] = <<>>]
  /\ taken' = [taken EXCEPT ![c] = <<>>]
  /\ UNCHANGED <<mu, clients, server, publisher, todo, log>>

Goto(c, from, to) ==
  /\ pc[c] = from
  /\ pc' = [pc EXCEPT ![c] = to]

Subscribe(c) ==
  /\ mu = None
  /\ Goto(c, "header", "loop")
  /\ clients' = clients \union {c}
  /\ UNCHANGED <<mu, ch, conn, server, publisher, todo, log, taken>>

\* The three cases of the loop's select.
Receive(c) ==
  /\ ch[c] # <<>>
  /\ Goto(c, "loop", "write")
  /\ ch' = [ch EXCEPT ![c] = Tail(@)]
  /\ taken' = [taken EXCEPT ![c] = Append(@, Head(ch[c]))]
  /\ UNCHANGED <<mu, clients, conn, server, publisher, todo, log>>

Heartbeat(c) ==
  /\ Goto(c, "loop", "write")
  /\ UNCHANGED <<mu, clients, ch, conn, server, publisher, todo, log, taken>>

\* Fault: the request contexts are not rooted in the process's.
ContextDone_ConnOnly(c) ==
  /\ conn[c] = "gone"
  /\ Goto(c, "loop", "leave")
  /\ UNCHANGED <<mu, clients, ch, conn, server, publisher, todo, log, taken>>

\* Fault: the handler watches the process, not its request.
ContextDone_BaseOnly(c) ==
  /\ server # "serving"
  /\ Goto(c, "loop", "leave")
  /\ UNCHANGED <<mu, clients, ch, conn, server, publisher, todo, log, taken>>

ContextDone(c) ==
  /\ conn[c] = "gone" \/ server # "serving"
  /\ Goto(c, "loop", "leave")
  /\ UNCHANGED <<mu, clients, ch, conn, server, publisher, todo, log, taken>>

\* w.Write and Flush return when the tab reads, or fail when it is gone; a
\* write to a connection just lost may still seem to succeed.
Written(c) ==
  /\ Goto(c, "write", "loop")
  /\ UNCHANGED <<mu, clients, ch, conn, server, publisher, todo, log, taken>>

\* Fault: the return after a failed write skips Unsubscribe.
WriteFails_NoUnsubscribe(c) ==
  /\ conn[c] = "gone"
  /\ Goto(c, "write", "off")
  /\ UNCHANGED <<mu, clients, ch, conn, server, publisher, todo, log, taken>>

WriteFails(c) ==
  /\ conn[c] = "gone"
  /\ Goto(c, "write", "leave")
  /\ UNCHANGED <<mu, clients, ch, conn, server, publisher, todo, log, taken>>

\* The deferred Unsubscribe.
Unsubscribe(c) ==
  /\ mu = None
  /\ Goto(c, "leave", "off")
  /\ clients' = clients \ {c}
  /\ UNCHANGED <<mu, ch, conn, server, publisher, todo, log, taken>>

\* A tab is closed, reloaded or loses its network; the process is told to stop.
HangUp(c) ==
  /\ pc[c] # "off"
  /\ conn[c] = "up"
  /\ conn' = [conn EXCEPT ![c] = "gone"]
  /\ UNCHANGED <<mu, clients, ch, pc, server, publisher, todo, log, taken>>

Stop ==
  /\ server = "serving"
  /\ server' = "done"
  /\ UNCHANGED <<mu, clients, ch, handler, publisher, todo, log, taken>>

\* srv.Shutdown closes the listener; until then tabs may still connect.
Shutdown ==
  /\ server = "done"
  /\ server' = "closed"
  /\ UNCHANGED <<mu, clients, ch, handler, publisher, todo, log, taken>>

Next ==
  \/ \E p \in Publishers :
       \/ Publish(p) \/ PublishLock(p) \/ PublishUnlock(p)
       \/ \E c \in Clients : Send(p, c)
  \/ \E c \in Clients :
       \/ Connect(c) \/ Subscribe(c) \/ Receive(c) \/ Heartbeat(c) \/ ContextDone(c)
       \/ Written(c) \/ WriteFails(c) \/ Unsubscribe(c) \/ HangUp(c)
  \/ Stop \/ Shutdown

Spec == Init /\ [][Next]_vars

\* Goroutines that can run do.  The mutex serves its waiters, and a select
\* chosen at random among ready cases does not pass over one of them for ever.
\* A write to a lost connection fails in the end; a write to a tab that is up
\* but does not read need never return, and no tab need ever go away.
Fairness ==
  /\ \A p \in Publishers :
       /\ SF_vars(PublishLock(p))
       /\ WF_vars(PublishUnlock(p))
       /\ \A c \in Clients : WF_vars(Send(p, c))
  /\ \A c \in Clients :
       /\ SF_vars(Subscribe(c))
       /\ SF_vars(Unsubscribe(c))
       /\ SF_vars(ContextDone(c))
       /\ WF_vars(WriteFails(c))
  /\ WF_vars(Shutdown)

LiveSpec == Spec /\ Fairness

-----------------------------------------------------------------------------
TypeOK ==
  /\ mu \in Publishers \union {None}
  /\ clients \subseteq Clients
  /\ ch \in [Clients -> Seq(1..MaxEvents)]
  /\ \A c \in Clients : Len(ch[c]) <= Buffer
  /\ pc \in [Clients -> {"off", "header", "loop", "write", "leave"}]
  /\ conn \in [Clients -> {"up", "gone"}]
  /\ server \in {"serving", "done", "closed"}
  /\ ppc \in [Publishers -> {"idle", "lock", "send"}]
  /\ frame \in [Publishers -> 0..MaxEvents]
  /\ todo \subseteq Clients
  /\ events \in 0..MaxEvents
  /\ log \in Seq(1..MaxEvents)
  /\ taken \in [Clients -> Seq(1..MaxEvents)]

\* The map holds exactly the handlers between Subscribe and the end of their
\* Unsubscribe: none is left behind by any way out of the loop, and a Publish
\* under way visits nobody who has left.
ClientsLive ==
  /\ clients = {c \in Clients : pc[c] \in {"loop", "write", "leave"}}
  /\ todo \subseteq clients

\* Each tab sees events in the order in which Publish got the mutex, each at
\* most once, whatever was dropped in between and whoever published them.
Position(e) == CHOOSE i \in 1..Len(log) : log[i] = e

InOrder ==
  \A c \in Clients :
    LET stream == taken[c] \o ch[c] IN
    \A i, j \in 1..Len(stream) : i < j => Position(stream[i]) < Position(stream[j])

\* The hub is a lossy broadcast: a frame is dropped for a tab only when the
\* tab's buffer is full, and for that tab alone.
Offered == [c \in Clients |-> Len(log) - (IF c \in todo THEN 1 ELSE 0)]

B == INSTANCE Broadcast WITH subscribers <- clients, queue <- ch, offered <- Offered,
                              Events <- 1..MaxEvents
BroadcastSpec == B!Spec

\* Publish never blocks: the monitor's tick gets through although every tab
\* has stalled with a full buffer.
PublishReturns == \A p \in Publishers : ppc[p] = "lock" ~> ppc[p] = "idle"

\* A tab that goes away is forgotten, in the middle of a write or not.
GoneUnsubscribed == \A c \in Clients : (conn[c] = "gone" /\ c \in clients) ~> c \notin clients

\* A signal ends every stream, one that connects before the listener is closed
\* included, and none comes after (the comment of BaseContext in main), unless
\* a handler stays for ever in a write to a tab that no longer reads.
SignalEndsReaders ==
  \A c \in Clients :
    \/ server # "serving" ~> (server = "closed" /\ pc[c] = "off")
    \/ <>[](pc[c] = "write")
=============================================================================
