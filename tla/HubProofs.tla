----------------------------- MODULE HubProofs -----------------------------
(***************************************************************************)
(* Hub for every set of tabs, of publishers and every buffer size.         *)
(*                                                                         *)
(* The inductive invariant says that whoever sends holds the mutex, that   *)
(* the map follows the handlers, and that the frame being sent is the last *)
(* entry of the log.  With it a step of the hub is a step of Broadcast or  *)
(* leaves its state alone, and what a tab receives keeps to the log.       *)
(***************************************************************************)
EXTENDS Hub, SequenceTheorems, TLAPS

\* Hub.mu is held by the publisher that sends, and only while it sends is
\* there anybody left to visit.
MutexInv ==
  /\ \A p \in Publishers : mu = p <=> ppc[p] = "send"
  /\ mu = None => todo = {}

\* Events are numbered by the calls of Publish: a frame that waits for the
\* mutex is not in the log and nobody else's, and a frame being sent is the
\* last of the log.
FrameInv ==
  /\ \A i \in 1..Len(log) : log[i] <= events
  /\ \A p \in Publishers :
       /\ ppc[p] # "idle" => frame[p] \in 1..events
       /\ ppc[p] = "lock" => \A i \in 1..Len(log) : log[i] # frame[p]
       /\ ppc[p] = "send" => Len(log) > 0 /\ log[Len(log)] = frame[p]
       /\ \A q \in Publishers \ {p} :
            ppc[p] # "idle" /\ ppc[q] # "idle" => frame[p] # frame[q]

Inv == TypeOK /\ MutexInv /\ ClientsLive /\ FrameInv

USE DEF handler, publisher

-----------------------------------------------------------------------------
\* Every variable keeps its type (hub.go and HandleEvents).
LEMMA TypeStep == TypeOK /\ MutexInv /\ FrameInv /\ [Next]_vars => TypeOK'
<1> SUFFICES ASSUME TypeOK, MutexInv, FrameInv, [Next]_vars PROVE TypeOK'
  OBVIOUS
<1> USE HubAssumption DEF TypeOK, Goto
<1>1. ASSUME NEW p \in Publishers, Publish(p) PROVE TypeOK'
  BY <1>1 DEF Publish
<1>2. ASSUME NEW p \in Publishers, PublishLock(p) PROVE TypeOK'
  <2>1. frame[p] \in 1..MaxEvents
    BY <1>2 DEF PublishLock, FrameInv
  <2> QED
    BY <1>2, <2>1 DEF PublishLock
<1>3. ASSUME NEW p \in Publishers, NEW c \in Clients, Send(p, c) PROVE TypeOK'
  <2>1. frame[p] \in 1..MaxEvents
    BY <1>3 DEF Send, FrameInv
  <2>2. /\ Append(ch[c], frame[p]) \in Seq(1..MaxEvents)
        /\ Len(Append(ch[c], frame[p])) = Len(ch[c]) + 1
    BY <2>1
  <2>3. /\ ch' = [ch EXCEPT ![c] = IF Len(@) < Buffer THEN Append(@, frame[p]) ELSE @]
        /\ Len(ch[c]) \in Nat
    BY <1>3 DEF Send
  <2>4. ch' \in [Clients -> Seq(1..MaxEvents)]
    BY <2>2, <2>3
  <2>5. \A d \in Clients : Len(ch'[d]) <= Buffer
    BY <2>2, <2>3
  <2> QED
    BY <1>3, <2>4, <2>5 DEF Send
<1>4. ASSUME NEW p \in Publishers, PublishUnlock(p) PROVE TypeOK'
  BY <1>4 DEF PublishUnlock
<1>5. ASSUME NEW c \in Clients, Connect(c) PROVE TypeOK'
  <2>1. <<>> \in Seq(1..MaxEvents)
    OBVIOUS
  <2> QED
    BY <1>5, <2>1 DEF Connect
<1>6. ASSUME NEW c \in Clients, Receive(c) PROVE TypeOK'
  <2>1. /\ Tail(ch[c]) \in Seq(1..MaxEvents)
        /\ Append(taken[c], Head(ch[c])) \in Seq(1..MaxEvents)
    BY <1>6 DEF Receive
  <2> QED
    BY <1>6, <2>1 DEF Receive
<1>7. ASSUME NEW c \in Clients, Subscribe(c) \/ Unsubscribe(c) PROVE TypeOK'
  BY <1>7 DEF Subscribe, Unsubscribe
<1>8. ASSUME NEW c \in Clients,
             Heartbeat(c) \/ ContextDone(c) \/ Written(c) \/ WriteFails(c)
      PROVE  TypeOK'
  BY <1>8 DEF Heartbeat, ContextDone, Written, WriteFails
<1>9. ASSUME NEW c \in Clients, HangUp(c) PROVE TypeOK'
  BY <1>9 DEF HangUp
<1>10. CASE Stop \/ Shutdown \/ UNCHANGED vars
  BY <1>10 DEF Stop, Shutdown, vars
<1> QED
  BY <1>1, <1>2, <1>3, <1>4, <1>5, <1>6, <1>7, <1>8, <1>9, <1>10 DEF Next

\* Only PublishLock takes the mutex, and it finds nobody to visit yet.
LEMMA MutexStep == TypeOK /\ MutexInv /\ [Next]_vars => MutexInv'
<1> SUFFICES ASSUME TypeOK, MutexInv, [Next]_vars PROVE MutexInv'
  OBVIOUS
<1> USE HubAssumption DEF TypeOK, MutexInv
<1>1. ASSUME NEW p \in Publishers, Publish(p) PROVE MutexInv'
  BY <1>1 DEF Publish
<1>2. ASSUME NEW p \in Publishers, PublishLock(p) PROVE MutexInv'
  BY <1>2 DEF PublishLock
<1>3. ASSUME NEW p \in Publishers, NEW c \in Clients, Send(p, c) PROVE MutexInv'
  BY <1>3 DEF Send
<1>4. ASSUME NEW p \in Publishers, PublishUnlock(p) PROVE MutexInv'
  BY <1>4 DEF PublishUnlock
<1>5. ASSUME UNCHANGED <<mu, ppc, todo>> PROVE MutexInv'
  BY <1>5
<1>6. ASSUME NEW c \in Clients,
             Connect(c) \/ Subscribe(c) \/ Receive(c) \/ Unsubscribe(c) \/ HangUp(c)
      PROVE  MutexInv'
  BY <1>5, <1>6 DEF Connect, Subscribe, Receive, Unsubscribe, HangUp
<1>7. ASSUME NEW c \in Clients,
             Heartbeat(c) \/ ContextDone(c) \/ Written(c) \/ WriteFails(c)
      PROVE  MutexInv'
  BY <1>5, <1>7 DEF Heartbeat, ContextDone, Written, WriteFails
<1>8. CASE Stop \/ Shutdown \/ UNCHANGED vars
  BY <1>5, <1>8 DEF Stop, Shutdown, vars
<1> QED
  BY <1>1, <1>2, <1>3, <1>4, <1>6, <1>7, <1>8 DEF Next

\* Every way out of HandleEvents goes through Unsubscribe, which waits for the
\* Publish under way.
LEMMA ClientsStep == TypeOK /\ MutexInv /\ ClientsLive /\ [Next]_vars => ClientsLive'
<1> SUFFICES ASSUME TypeOK, MutexInv, ClientsLive, [Next]_vars PROVE ClientsLive'
  OBVIOUS
<1> USE DEF TypeOK, MutexInv, ClientsLive, Goto
<1>1. ASSUME NEW p \in Publishers, Publish(p) \/ PublishLock(p) \/ PublishUnlock(p)
      PROVE  ClientsLive'
  BY <1>1 DEF Publish, PublishLock, PublishUnlock
<1>2. ASSUME NEW p \in Publishers, NEW c \in Clients, Send(p, c) PROVE ClientsLive'
  BY <1>2 DEF Send
<1>3. ASSUME NEW c \in Clients, Subscribe(c) PROVE ClientsLive'
  BY <1>3 DEF Subscribe
<1>4. ASSUME NEW c \in Clients, Unsubscribe(c) PROVE ClientsLive'
  BY <1>4 DEF Unsubscribe
<1>5. ASSUME NEW c \in Clients, Connect(c) \/ Receive(c) \/ HangUp(c) PROVE ClientsLive'
  BY <1>5 DEF Connect, Receive, HangUp
<1>6. ASSUME NEW c \in Clients,
             Heartbeat(c) \/ ContextDone(c) \/ Written(c) \/ WriteFails(c)
      PROVE  ClientsLive'
  BY <1>6 DEF Heartbeat, ContextDone, Written, WriteFails
<1>7. CASE Stop \/ Shutdown \/ UNCHANGED vars
  BY <1>7 DEF Stop, Shutdown, vars
<1> QED
  BY <1>1, <1>2, <1>3, <1>4, <1>5, <1>6, <1>7 DEF Next

\* Two calls of Publish never broadcast the same frame, and the one that holds
\* the mutex broadcasts the last entry of the log.
LEMMA FrameStep == TypeOK /\ MutexInv /\ FrameInv /\ [Next]_vars => FrameInv'
<1> SUFFICES ASSUME TypeOK, MutexInv, FrameInv, [Next]_vars PROVE FrameInv'
  OBVIOUS
<1> USE HubAssumption DEF TypeOK, MutexInv, FrameInv
<1>1. ASSUME NEW p \in Publishers, Publish(p) PROVE FrameInv'
  BY <1>1 DEF Publish
<1>2. ASSUME NEW p \in Publishers, PublishLock(p) PROVE FrameInv'
  <2>1. /\ Len(log') = Len(log) + 1
        /\ \A i \in 1..Len(log) : log'[i] = log[i]
        /\ log'[Len(log) + 1] = frame[p]
    BY <1>2 DEF PublishLock
  <2>2. \A i \in 1..Len(log') : log'[i] <= events'
    BY <1>2, <2>1 DEF PublishLock
  <2>3. ASSUME NEW q \in Publishers
        PROVE  /\ ppc'[q] # "idle" => frame'[q] \in 1..events'
               /\ ppc'[q] = "lock" => \A i \in 1..Len(log') : log'[i] # frame'[q]
               /\ ppc'[q] = "send" => Len(log') > 0 /\ log'[Len(log')] = frame'[q]
    BY <1>2, <2>1 DEF PublishLock
  <2> QED
    BY <1>2, <2>2, <2>3 DEF PublishLock
<1>3. ASSUME NEW p \in Publishers, NEW c \in Clients, Send(p, c) PROVE FrameInv'
  BY <1>3 DEF Send
<1>4. ASSUME NEW p \in Publishers, PublishUnlock(p) PROVE FrameInv'
  BY <1>4 DEF PublishUnlock
<1>5. ASSUME UNCHANGED <<ppc, frame, events, log>> PROVE FrameInv'
  BY <1>5
<1>6. ASSUME NEW c \in Clients,
             Connect(c) \/ Subscribe(c) \/ Receive(c) \/ Unsubscribe(c) \/ HangUp(c)
      PROVE  FrameInv'
  BY <1>5, <1>6 DEF Connect, Subscribe, Receive, Unsubscribe, HangUp
<1>7. ASSUME NEW c \in Clients,
             Heartbeat(c) \/ ContextDone(c) \/ Written(c) \/ WriteFails(c)
      PROVE  FrameInv'
  BY <1>5, <1>7 DEF Heartbeat, ContextDone, Written, WriteFails
<1>8. CASE Stop \/ Shutdown \/ UNCHANGED vars
  BY <1>5, <1>8 DEF Stop, Shutdown, vars
<1> QED
  BY <1>1, <1>2, <1>3, <1>4, <1>6, <1>7, <1>8 DEF Next

-----------------------------------------------------------------------------
LEMMA InvInit == Init => Inv
<1> SUFFICES ASSUME Init PROVE Inv
  OBVIOUS
<1>1. <<>> \in Seq(1..MaxEvents) /\ Len(<<>>) = 0
  OBVIOUS
<1>2. TypeOK
  BY <1>1, HubAssumption DEF Init, TypeOK
<1>3. MutexInv /\ ClientsLive
  BY HubAssumption DEF Init, MutexInv, ClientsLive
<1>4. FrameInv
  BY <1>1 DEF Init, FrameInv
<1> QED
  BY <1>2, <1>3, <1>4 DEF Inv

LEMMA InvHolds == Spec => []Inv
<1>1. Inv /\ [Next]_vars => Inv'
  BY TypeStep, MutexStep, ClientsStep, FrameStep DEF Inv
<1> QED
  BY <1>1, InvInit, PTL DEF Spec

\* The hub's state keeps its types, and every channel holds published events.
THEOREM TypeCorrect == Spec => []TypeOK
<1>1. Inv => TypeOK
  BY DEF Inv
<1> QED
  BY <1>1, InvHolds, PTL

\* The map of clients is exact: no tab that left stays in it, and no frame is
\* sent to a tab that has left.
THEOREM NoStaleClient == Spec => []ClientsLive
<1>1. Inv => ClientsLive
  BY DEF Inv
<1> QED
  BY <1>1, InvHolds, PTL

-----------------------------------------------------------------------------
\* The hub implements Broadcast: Send offers one event to one client, and no
\* other step takes anything from a client or gives it anything.
LEMMA SimulateInit == Init => B!Init
<1> SUFFICES ASSUME Init PROVE B!Init
  OBVIOUS
<1>1. Offered = [c \in Clients |-> 0]
  BY DEF Init, Offered
<1> QED
  BY <1>1 DEF Init, B!Init

LEMMA Simulate == Inv /\ Inv' /\ [Next]_vars => [B!Next]_(B!vars)
<1> SUFFICES ASSUME Inv, Inv', [Next]_vars PROVE B!Next \/ UNCHANGED B!vars
  OBVIOUS
<1>a. TypeOK /\ MutexInv /\ ClientsLive /\ FrameInv /\ Len(log) \in Nat
  BY DEF Inv, TypeOK
<1>b. \A c \in Clients : Offered[c] = Len(log) - (IF c \in todo THEN 1 ELSE 0)
  BY DEF Offered
<1> USE <1>a, <1>b
<1>1. ASSUME UNCHANGED <<log, clients, todo, ch, taken>> PROVE UNCHANGED B!vars
  BY <1>1 DEF B!vars, Offered
<1>2. ASSUME NEW p \in Publishers, Publish(p) PROVE UNCHANGED B!vars
  BY <1>1, <1>2 DEF Publish
<1>3. ASSUME NEW p \in Publishers, PublishLock(p) PROVE B!Publish
  <2>1. todo = {} /\ todo' = clients /\ clients' = clients
    BY <1>3 DEF PublishLock, MutexInv
  <2>2. log' = Append(log, frame[p]) /\ Len(log') = Len(log) + 1
    BY <1>3 DEF PublishLock, TypeOK
  <2>3. frame[p] \in (1..MaxEvents) \ {log[i] : i \in 1..Len(log)}
    BY <1>3, HubAssumption DEF PublishLock, TypeOK, FrameInv
  <2>4. \A c \in Clients : Offered[c] = Len(log)
    BY <2>1
  <2>5. Offered' = [c \in Clients |-> IF c \in clients THEN Offered[c] ELSE Len(log')]
    BY <2>1, <2>2, <2>4 DEF Offered
  <2> QED
    BY <1>3, <2>1, <2>2, <2>3, <2>4, <2>5 DEF B!Publish, PublishLock
<1>4. ASSUME NEW p \in Publishers, NEW c \in Clients, Send(p, c) PROVE B!Offer(c)
  <2>1. c \in todo /\ todo' = todo \ {c} /\ log' = log
    BY <1>4 DEF Send
  <2>2. Len(log) > 0 /\ log[Len(log)] = frame[p] /\ Offered[c] + 1 = Len(log)
    BY <1>4, <2>1 DEF Send, FrameInv
  <2>3. Offered' = [Offered EXCEPT ![c] = @ + 1]
    <3>1. \A d \in Clients : Offered'[d] = IF d = c THEN Offered[d] + 1 ELSE Offered[d]
      BY <2>1, <2>2 DEF Offered
    <3> QED
      BY <3>1 DEF Offered
  <2>4. ch' = [ch EXCEPT ![c] =
                 IF Len(@) < Buffer THEN Append(@, log[Offered[c] + 1]) ELSE @]
    BY <1>4, <2>2 DEF Send
  <2>5. Offered[c] < Len(log)
    BY <2>1
  <2>6. UNCHANGED <<log, clients, taken>>
    BY <1>4 DEF Send
  <2> QED
    BY <2>3, <2>4, <2>5, <2>6 DEF B!Offer
<1>5. ASSUME NEW p \in Publishers, PublishUnlock(p) PROVE UNCHANGED B!vars
  BY <1>1, <1>5 DEF PublishUnlock
<1>6. ASSUME UNCHANGED <<log, todo>> PROVE Offered' = Offered
  BY <1>6 DEF Offered
<1>7. ASSUME NEW c \in Clients, Connect(c) PROVE B!Connect(c)
  BY <1>6, <1>7 DEF Connect, B!Connect, ClientsLive
<1>8. ASSUME NEW c \in Clients, Subscribe(c) \/ Unsubscribe(c) PROVE B!Next
  <2>1. Offered[c] = Len(log)
    BY <1>8 DEF Subscribe, Unsubscribe, MutexInv
  <2>2. CASE Subscribe(c)
    <3>1. B!Join(c)
      BY <1>6, <2>1, <2>2 DEF Subscribe, Goto, B!Join, ClientsLive
    <3> QED
      BY <3>1 DEF B!Next
  <2>3. CASE Unsubscribe(c)
    <3>1. B!Leave(c)
      BY <1>6, <2>1, <2>3 DEF Unsubscribe, Goto, B!Leave, ClientsLive
    <3> QED
      BY <3>1 DEF B!Next
  <2> QED
    BY <1>8, <2>2, <2>3
<1>9. ASSUME NEW c \in Clients, Receive(c) PROVE B!Take(c)
  BY <1>6, <1>9 DEF Receive, Goto, B!Take, ClientsLive
<1>10. ASSUME NEW c \in Clients,
              Heartbeat(c) \/ ContextDone(c) \/ Written(c) \/ WriteFails(c)
       PROVE  UNCHANGED B!vars
  BY <1>1, <1>10 DEF Heartbeat, ContextDone, Written, WriteFails
<1>11. ASSUME NEW c \in Clients, HangUp(c) PROVE UNCHANGED B!vars
  BY <1>1, <1>11 DEF HangUp
<1>12. CASE Stop \/ Shutdown \/ UNCHANGED vars
  BY <1>1, <1>12 DEF Stop, Shutdown, vars
<1> QED
  BY <1>2, <1>3, <1>4, <1>5, <1>7, <1>8, <1>9, <1>10, <1>11, <1>12 DEF Next, B!Next

\* Every event is offered once, in one order, to everyone subscribed when it
\* was published, and lost only to a tab whose buffer is full.
THEOREM ImplementsBroadcast == Spec => BroadcastSpec
<1>1. Inv /\ Inv' /\ [Next]_vars => [B!Next]_(B!vars)
  BY Simulate
<1> QED
  BY <1>1, SimulateInit, InvHolds, PTL DEF Spec, BroadcastSpec, B!Spec

-----------------------------------------------------------------------------
\* What the handler of a tab has received, and what waits for it.
Stream(c) == taken[c] \o ch[c]

\* No event is twice in the log; a stream is made of events of the log, older
\* than the one being sent if the tab has yet to be visited, and in its order.
LogInv == \A i, j \in 1..Len(log) : log[i] = log[j] => i = j

OrderOf(c) ==
  /\ \A i \in 1..Len(Stream(c)) : \E a \in 1..Len(log) :
       log[a] = Stream(c)[i] /\ (c \in todo => a < Len(log))
  /\ \A i, j \in 1..Len(Stream(c)) : \A a, b \in 1..Len(log) :
       i < j /\ log[a] = Stream(c)[i] /\ log[b] = Stream(c)[j] => a < b

OrderInv == \A c \in Clients : OrderOf(c)

\* Receiving moves the head of the channel to what is taken; sending adds to
\* the end.
LEMMA Receiving ==
  ASSUME NEW S, NEW s \in Seq(S), NEW q \in Seq(S), q # <<>>
  PROVE  /\ Len(Append(s, Head(q)) \o Tail(q)) = Len(s \o q)
         /\ \A i \in 1..Len(s \o q) : (Append(s, Head(q)) \o Tail(q))[i] = (s \o q)[i]
<1> DEFINE u == Append(s, Head(q))
           v == Tail(q)
<1>1. /\ Len(s) \in Nat /\ Len(q) \in Nat /\ Len(q) > 0
      /\ Head(q) = q[1] /\ q[1] \in S
  OBVIOUS
<1>2. /\ u \in Seq(S) /\ Len(u) = Len(s) + 1 /\ u[Len(s) + 1] = q[1]
      /\ \A i \in 1..Len(s) : u[i] = s[i]
  BY <1>1
<1>3. v \in Seq(S) /\ Len(v) = Len(q) - 1 /\ \A i \in 1..Len(q) - 1 : v[i] = q[i + 1]
  BY <1>1
<1> HIDE DEF u, v
<1>4. /\ Len(u \o v) = Len(u) + Len(v)
      /\ \A i \in 1..Len(u) + Len(v) :
           (u \o v)[i] = IF i <= Len(u) THEN u[i] ELSE v[i - Len(u)]
  BY <1>2, <1>3, ConcatProperties
<1>5. /\ Len(s \o q) = Len(s) + Len(q)
      /\ \A i \in 1..Len(s) + Len(q) :
           (s \o q)[i] = IF i <= Len(s) THEN s[i] ELSE q[i - Len(s)]
  BY ConcatProperties
<1>6. Len(u \o v) = Len(s \o q) /\ Len(u) + Len(v) = Len(s) + Len(q)
  BY <1>1, <1>2, <1>3, <1>4, <1>5
<1>7. ASSUME NEW i \in 1..Len(s \o q)
      PROVE  (u \o v)[i] = (s \o q)[i]
  <2>1. i \in 1..Len(s) + Len(q)
    BY <1>5
  <2>2. CASE i <= Len(s)
    BY <1>1, <1>2, <1>4, <1>5, <1>6, <2>1, <2>2
  <2>3. CASE i = Len(s) + 1
    <3>1. i <= Len(u) /\ ~(i <= Len(s)) /\ i - Len(s) = 1
      BY <1>1, <1>2, <2>3
    <3>2. (u \o v)[i] = u[i] /\ (s \o q)[i] = q[i - Len(s)]
      BY <1>4, <1>5, <1>6, <2>1, <3>1
    <3>3. u[i] = q[1]
      BY <1>2, <2>3
    <3> QED
      BY <3>1, <3>2, <3>3
  <2>4. CASE i > Len(s) + 1
    <3>1. /\ ~(i <= Len(u)) /\ ~(i <= Len(s))
          /\ i - Len(u) \in 1..Len(q) - 1 /\ (i - Len(u)) + 1 = i - Len(s)
      BY <1>1, <1>2, <2>1, <2>4
    <3>2. v[i - Len(u)] = q[i - Len(s)]
      BY <1>3, <3>1
    <3> QED
      BY <1>4, <1>5, <1>6, <2>1, <3>1, <3>2
  <2>5. i <= Len(s) \/ i = Len(s) + 1 \/ i > Len(s) + 1
    BY <1>1, <2>1
  <2> QED
    BY <2>2, <2>3, <2>4, <2>5
<1> QED
  BY <1>6, <1>7 DEF u, v

LEMMA Sending ==
  ASSUME NEW S, NEW s \in Seq(S), NEW q \in Seq(S), NEW e \in S
  PROVE  /\ Len(s \o Append(q, e)) = Len(s \o q) + 1
         /\ (s \o Append(q, e))[Len(s \o q) + 1] = e
         /\ \A i \in 1..Len(s \o q) : (s \o Append(q, e))[i] = (s \o q)[i]
         /\ Len(s \o q) \in Nat
<1> DEFINE v == Append(q, e)
<1>1. Len(s) \in Nat /\ Len(q) \in Nat
  OBVIOUS
<1>2. v \in Seq(S) /\ Len(v) = Len(q) + 1 /\ v[Len(q) + 1] = e
      /\ \A i \in 1..Len(q) : v[i] = q[i]
  BY <1>1
<1> HIDE DEF v
<1>3. /\ Len(s \o v) = Len(s) + Len(v)
      /\ \A i \in 1..Len(s) + Len(v) :
           (s \o v)[i] = IF i <= Len(s) THEN s[i] ELSE v[i - Len(s)]
  BY <1>2, ConcatProperties
<1>4. /\ Len(s \o q) = Len(s) + Len(q)
      /\ \A i \in 1..Len(s) + Len(q) :
           (s \o q)[i] = IF i <= Len(s) THEN s[i] ELSE q[i - Len(s)]
  BY ConcatProperties
<1>5. (s \o v)[Len(s) + Len(q) + 1] = e
  <2>1. /\ Len(s) + Len(q) + 1 \in 1..Len(s) + Len(v)
        /\ ~(Len(s) + Len(q) + 1 <= Len(s))
        /\ (Len(s) + Len(q) + 1) - Len(s) = Len(q) + 1
    BY <1>1, <1>2
  <2> QED
    BY <1>2, <1>3, <2>1
<1>6. ASSUME NEW i \in 1..Len(s) + Len(q)
      PROVE  (s \o v)[i] = (s \o q)[i]
  <2>1. i \in 1..Len(s) + Len(v)
    BY <1>1, <1>2
  <2>2. CASE i <= Len(s)
    BY <1>3, <1>4, <2>1, <2>2
  <2>3. CASE ~(i <= Len(s))
    <3>1. i - Len(s) \in 1..Len(q)
      BY <1>1, <2>3
    <3> QED
      BY <1>2, <1>3, <1>4, <2>1, <2>3, <3>1
  <2> QED
    BY <2>2, <2>3
<1> QED
  BY <1>1, <1>2, <1>3, <1>4, <1>5, <1>6 DEF v

\* The history of the log.
LEMMA LogStep == Inv /\ LogInv /\ [Next]_vars => LogInv'
<1> SUFFICES ASSUME Inv, LogInv, [Next]_vars PROVE LogInv'
  OBVIOUS
<1>a. TypeOK /\ FrameInv
  BY DEF Inv
<1>1. ASSUME NEW p \in Publishers, PublishLock(p) PROVE LogInv'
  <2>1. /\ log \in Seq(1..MaxEvents) /\ frame[p] \in 1..MaxEvents
        /\ log' = Append(log, frame[p])
    BY <1>a, <1>1, HubAssumption DEF PublishLock, FrameInv, TypeOK
  <2>2. \A i \in 1..Len(log) : log[i] # frame[p]
    BY <1>a, <1>1 DEF PublishLock, FrameInv
  <2>3. /\ Len(log') = Len(log) + 1 /\ log'[Len(log) + 1] = frame[p] /\ Len(log) \in Nat
        /\ \A i \in 1..Len(log) : log'[i] = log[i]
    BY <2>1
  <2>4. \A i \in 1..Len(log') : i \in 1..Len(log) \/ i = Len(log) + 1
    BY <2>3
  <2> QED
    BY <2>2, <2>3, <2>4 DEF LogInv
<1>2. CASE UNCHANGED log
  BY <1>2 DEF LogInv
<1> QED
  BY <1>1, <1>2
     DEF Next, vars, Publish, PublishUnlock, Send, Connect, Subscribe, Receive, Heartbeat,
         ContextDone, Written, WriteFails, Unsubscribe, HangUp, Stop, Shutdown

\* The order of a tab's stream depends on the stream, the log and whether the
\* tab has yet to be visited.
LEMMA OrderStep == Inv /\ LogInv /\ OrderInv /\ [Next]_vars => OrderInv'
<1> SUFFICES ASSUME Inv, LogInv, OrderInv, [Next]_vars, NEW d \in Clients PROVE OrderOf(d)'
  BY DEF OrderInv
<1>a. TypeOK /\ FrameInv /\ MutexInv
  BY DEF Inv
<1>b. /\ log \in Seq(1..MaxEvents) /\ Len(log) \in Nat
      /\ taken \in [Clients -> Seq(1..MaxEvents)] /\ ch \in [Clients -> Seq(1..MaxEvents)]
  BY <1>a DEF TypeOK
<1>c. OrderOf(d)
  BY DEF OrderInv
<1>d. ASSUME UNCHANGED <<log, todo, taken, ch>> PROVE OrderOf(d)'
  <2>1. Stream(d)' = Stream(d)
    BY <1>d DEF Stream
  <2> QED
    BY <1>c, <1>d, <2>1 DEF OrderOf
<1>1. ASSUME NEW p \in Publishers, PublishLock(p) PROVE OrderOf(d)'
  <2>1. frame[p] \in 1..MaxEvents /\ log' = Append(log, frame[p])
    BY <1>a, <1>1, HubAssumption DEF PublishLock, FrameInv, TypeOK
  <2>2. \A i \in 1..Len(log) : log[i] # frame[p]
    BY <1>a, <1>1 DEF PublishLock, FrameInv
  <2>3. /\ Len(log') = Len(log) + 1 /\ log'[Len(log) + 1] = frame[p]
        /\ \A a \in 1..Len(log) : log'[a] = log[a]
    BY <1>b, <2>1
  <2>4. Stream(d)' = Stream(d)
    BY <1>1 DEF PublishLock, Stream
  <2>5. \A i \in 1..Len(Stream(d)) : Stream(d)[i] # frame[p]
    BY <1>c, <2>2 DEF OrderOf
  <2>6. \A a \in 1..Len(log') : a \in 1..Len(log) \/ log'[a] = frame[p]
    <3>1. \A a \in 1..Len(log') : a \in 1..Len(log) \/ a = Len(log) + 1
      BY <1>b, <2>3
    <3> QED
      BY <2>3, <3>1
  <2>7. ASSUME NEW i \in 1..Len(Stream(d))
        PROVE  \E a \in 1..Len(log') : log'[a] = Stream(d)[i] /\ a < Len(log')
    <3>1. PICK a \in 1..Len(log) : log[a] = Stream(d)[i]
      BY <1>c DEF OrderOf
    <3>2. a \in 1..Len(log') /\ a < Len(log') /\ log'[a] = log[a]
      BY <1>b, <2>3
    <3> QED
      BY <3>1, <3>2
  <2>8. \A i, j \in 1..Len(Stream(d)) : \A a, b \in 1..Len(log') :
          i < j /\ log'[a] = Stream(d)[i] /\ log'[b] = Stream(d)[j] => a < b
    BY <1>c, <2>3, <2>5, <2>6 DEF OrderOf
  <2> QED
    BY <2>4, <2>7, <2>8 DEF OrderOf
<1>2. ASSUME NEW p \in Publishers, NEW c \in Clients, Send(p, c) PROVE OrderOf(d)'
  <2>1. /\ Len(log) > 0 /\ log[Len(log)] = frame[p] /\ frame[p] \in 1..MaxEvents
        /\ log' = log /\ taken' = taken /\ c \in todo /\ todo' = todo \ {c}
        /\ ch' = [ch EXCEPT ![c] = IF Len(@) < Buffer THEN Append(@, frame[p]) ELSE @]
    BY <1>a, <1>2, HubAssumption DEF Send, FrameInv, TypeOK
  <2>2. CASE ch'[d] = ch[d]
    <3>1. Stream(d)' = Stream(d) /\ (d \in todo' => d \in todo)
      BY <2>1, <2>2 DEF Stream
    <3> QED
      BY <1>c, <2>1, <3>1 DEF OrderOf
  <2>3. CASE d = c /\ ch'[d] = Append(ch[d], frame[p])
    <3> DEFINE n == Len(Stream(d))
    <3>1. /\ Len(Stream(d)') = n + 1 /\ Stream(d)'[n + 1] = frame[p] /\ n \in Nat
          /\ \A i \in 1..n : Stream(d)'[i] = Stream(d)[i]
      <4>1. Stream(d) = taken[d] \o ch[d] /\ Stream(d)' = taken[d] \o Append(ch[d], frame[p])
        BY <2>1, <2>3 DEF Stream
      <4>2. taken[d] \in Seq(1..MaxEvents) /\ ch[d] \in Seq(1..MaxEvents) /\ frame[p] \in 1..MaxEvents
        BY <1>b, <2>1
      <4>3. /\ Len(taken[d] \o Append(ch[d], frame[p])) = Len(taken[d] \o ch[d]) + 1
            /\ (taken[d] \o Append(ch[d], frame[p]))[Len(taken[d] \o ch[d]) + 1] = frame[p]
            /\ \A i \in 1..Len(taken[d] \o ch[d]) :
                 (taken[d] \o Append(ch[d], frame[p]))[i] = (taken[d] \o ch[d])[i]
            /\ Len(taken[d] \o ch[d]) \in Nat
        BY <4>2, Sending
      <4> QED
        BY <4>1, <4>3, Zenon
    <3>2. \A i \in 1..n + 1 : i \in 1..n \/ i = n + 1
      BY <3>1
    <3>3. d \in todo /\ d \notin todo'
      BY <2>1, <2>3
    <3>4. \A i \in 1..n : \A a \in 1..Len(log) : log[a] = Stream(d)[i] => a < Len(log)
      BY <1>c, <3>3 DEF OrderOf, LogInv
    <3>5. ASSUME NEW i \in 1..n + 1
          PROVE  \E a \in 1..Len(log) : log[a] = Stream(d)'[i]
      <4>1. CASE i \in 1..n
        BY <1>c, <3>1, <4>1 DEF OrderOf
      <4>2. CASE i = n + 1
        <5>1. Len(log) \in 1..Len(log)
          BY <1>b, <2>1
        <5> QED
          BY <2>1, <3>1, <4>2, <5>1
      <4> QED
        BY <3>2, <4>1, <4>2
    <3>6. \A i, j \in 1..n + 1 : \A a, b \in 1..Len(log) :
            i < j /\ log[a] = Stream(d)'[i] /\ log[b] = Stream(d)'[j] => a < b
      <4> SUFFICES ASSUME NEW i \in 1..n + 1, NEW j \in 1..n + 1,
                          NEW a \in 1..Len(log), NEW b \in 1..Len(log),
                          i < j, log[a] = Stream(d)'[i], log[b] = Stream(d)'[j]
                   PROVE  a < b
        OBVIOUS
      <4>1. i \in 1..n /\ log[a] = Stream(d)[i]
        BY <3>1, <3>2
      <4>2. CASE j \in 1..n
        BY <1>c, <3>1, <4>1, <4>2 DEF OrderOf
      <4>3. CASE j = n + 1
        <5>1. b = Len(log)
          BY <1>b, <2>1, <3>1, <4>3 DEF LogInv
        <5> QED
          BY <3>4, <4>1, <5>1
      <4> QED
        BY <3>2, <4>2, <4>3
    <3> QED
      BY <2>1, <3>1, <3>3, <3>5, <3>6 DEF OrderOf
  <2> QED
    BY <1>b, <2>1, <2>2, <2>3
<1>3. ASSUME NEW p \in Publishers, PublishUnlock(p) PROVE OrderOf(d)'
  BY <1>d, <1>3 DEF PublishUnlock
<1>4. ASSUME NEW p \in Publishers, Publish(p) PROVE OrderOf(d)'
  BY <1>d, <1>4 DEF Publish
<1>5. ASSUME NEW c \in Clients, Connect(c) PROVE OrderOf(d)'
  <2>1. UNCHANGED <<log, todo>>
    BY <1>5 DEF Connect
  <2>2. CASE d = c
    <3>1. taken'[d] = <<>> /\ ch'[d] = <<>>
      BY <1>b, <1>5, <2>2 DEF Connect
    <3>2. Stream(d)' = <<>>
      BY <3>1 DEF Stream
    <3>3. Len(Stream(d)') = 0
      BY <3>2
    <3> QED
      BY <3>3 DEF OrderOf
  <2>3. CASE d # c
    <3>1. Stream(d)' = Stream(d)
      BY <1>b, <1>5, <2>3 DEF Connect, Stream
    <3> QED
      BY <1>c, <2>1, <3>1 DEF OrderOf
  <2> QED
    BY <2>2, <2>3
<1>6. ASSUME NEW c \in Clients, Receive(c) PROVE OrderOf(d)'
  <2>1. UNCHANGED <<log, todo>>
    BY <1>6 DEF Receive
  <2>2. CASE d = c
    <3>1. ch[d] # <<>> /\ taken'[d] = Append(taken[d], Head(ch[d])) /\ ch'[d] = Tail(ch[d])
      BY <1>b, <1>6, <2>2 DEF Receive
    <3>2. /\ Len(Stream(d)') = Len(Stream(d))
          /\ \A i \in 1..Len(Stream(d)) : Stream(d)'[i] = Stream(d)[i]
      BY <1>b, <3>1, Receiving DEF Stream
    <3> QED
      BY <1>c, <2>1, <3>2 DEF OrderOf
  <2>3. CASE d # c
    <3>1. Stream(d)' = Stream(d)
      BY <1>b, <1>6, <2>3 DEF Receive, Stream
    <3> QED
      BY <1>c, <2>1, <3>1 DEF OrderOf
  <2> QED
    BY <2>2, <2>3
<1>7. ASSUME NEW c \in Clients, Subscribe(c) \/ Unsubscribe(c) \/ HangUp(c) PROVE OrderOf(d)'
  BY <1>d, <1>7 DEF Subscribe, Unsubscribe, HangUp
<1>8. ASSUME NEW c \in Clients, Heartbeat(c) \/ ContextDone(c) \/ Written(c) \/ WriteFails(c)
      PROVE  OrderOf(d)'
  BY <1>d, <1>8 DEF Heartbeat, ContextDone, Written, WriteFails
<1>9. CASE Stop \/ Shutdown \/ UNCHANGED vars
  BY <1>d, <1>9 DEF Stop, Shutdown, vars
<1> QED
  BY <1>1, <1>2, <1>3, <1>4, <1>5, <1>6, <1>7, <1>8, <1>9 DEF Next

\* Each tab sees the events in the order of the log, each at most once, for any
\* number of tabs and publishers and whatever was dropped.
THEOREM StreamsInOrder == Spec => []InOrder
<1>1. Init => LogInv /\ OrderInv
  <2> SUFFICES ASSUME Init PROVE LogInv /\ OrderInv
    OBVIOUS
  <2>1. Len(log) = 0 /\ \A c \in Clients : Stream(c) = <<>>
    BY DEF Init, Stream
  <2>2. \A c \in Clients : Len(Stream(c)) = 0
    BY <2>1
  <2> QED
    BY <2>1, <2>2 DEF LogInv, OrderInv, OrderOf
<1>2. Inv /\ LogInv /\ OrderInv /\ [Next]_vars => LogInv' /\ OrderInv'
  BY LogStep, OrderStep
<1>3. LogInv /\ OrderInv => InOrder
  <2> SUFFICES ASSUME LogInv, OrderInv, NEW c \in Clients,
                      NEW i \in 1..Len(Stream(c)), NEW j \in 1..Len(Stream(c)), i < j
               PROVE  Position(Stream(c)[i]) < Position(Stream(c)[j])
    BY DEF InOrder, Stream
  <2>1. PICK a \in 1..Len(log) : log[a] = Stream(c)[i]
    BY DEF OrderInv, OrderOf
  <2>2. PICK b \in 1..Len(log) : log[b] = Stream(c)[j]
    BY DEF OrderInv, OrderOf
  <2>3. Position(log[a]) = a /\ Position(log[b]) = b
    BY DEF Position, LogInv
  <2>4. a < b
    BY <2>1, <2>2 DEF OrderInv, OrderOf
  <2> QED
    BY <2>1, <2>2, <2>3, <2>4
<1> QED
  BY <1>1, <1>2, <1>3, InvHolds, PTL DEF Spec
=============================================================================
