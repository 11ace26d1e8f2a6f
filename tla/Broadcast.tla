----------------------------- MODULE Broadcast -----------------------------
(***************************************************************************)
(* What the hub promises its subscribers, without locks or goroutines.     *)
(* There is one log of events.  Each event is offered once to everyone who *)
(* was subscribed when it was published, in the order of the log, and is   *)
(* lost to a subscriber only if Buffer events are already waiting for it.  *)
(***************************************************************************)
EXTENDS Integers, Sequences

CONSTANTS
  Clients,  \* connections that may subscribe
  Events,   \* what may be published, each at most once
  Buffer    \* events that can wait for one subscriber

VARIABLES
  log,          \* the events published so far
  subscribers,
  offered,      \* how much of the log each client has been offered or missed
  queue,        \* what waits for each client
  taken         \* what each client has taken since it subscribed

vars == <<log, subscribers, offered, queue, taken>>

Init ==
  /\ log = <<>>
  /\ subscribers = {}
  /\ offered = [c \in Clients |-> 0]
  /\ queue = [c \in Clients |-> <<>>]
  /\ taken = [c \in Clients |-> <<>>]

\* A connection starts from nothing, and what was left for it is gone.
Connect(c) ==
  /\ c \notin subscribers
  /\ queue' = [queue EXCEPT ![c] = <<>>]
  /\ taken' = [taken EXCEPT ![c] = <<>>]
  /\ UNCHANGED <<log, subscribers, offered>>

Join(c) ==
  /\ c \notin subscribers
  /\ offered[c] = Len(log)
  /\ subscribers' = subscribers \union {c}
  /\ UNCHANGED <<log, offered, queue, taken>>

\* Nobody leaves in the middle of a broadcast that concerns it.
Leave(c) ==
  /\ c \in subscribers
  /\ offered[c] = Len(log)
  /\ subscribers' = subscribers \ {c}
  /\ UNCHANGED <<log, offered, queue, taken>>

\* A broadcast begins when the one before it is over.
Publish ==
  /\ \A c \in Clients : offered[c] = Len(log)
  /\ \E e \in Events \ {log[i] : i \in 1..Len(log)} : log' = Append(log, e)
  /\ offered' = [c \in Clients |-> IF c \in subscribers THEN offered[c] ELSE Len(log')]
  /\ UNCHANGED <<subscribers, queue, taken>>

Offer(c) ==
  /\ offered[c] < Len(log)
  /\ offered' = [offered EXCEPT ![c] = @ + 1]
  /\ queue' = [queue EXCEPT ![c] =
                 IF Len(@) < Buffer THEN Append(@, log[offered[c] + 1]) ELSE @]
  /\ UNCHANGED <<log, subscribers, taken>>

Take(c) ==
  /\ c \in subscribers
  /\ queue[c] # <<>>
  /\ taken' = [taken EXCEPT ![c] = Append(@, Head(queue[c]))]
  /\ queue' = [queue EXCEPT ![c] = Tail(@)]
  /\ UNCHANGED <<log, subscribers, offered>>

Next ==
  \/ Publish
  \/ \E c \in Clients : Connect(c) \/ Join(c) \/ Leave(c) \/ Offer(c) \/ Take(c)

Spec == Init /\ [][Next]_vars
=============================================================================
