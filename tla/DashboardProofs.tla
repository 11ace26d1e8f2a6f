--------------------------- MODULE DashboardProofs ---------------------------
(***************************************************************************)
(* Dashboard for every set of tabs, targets and handlers and every buffer. *)
(*                                                                         *)
(* The argument follows one target through one tab.  An id is handed out   *)
(* once, so its target_added is published at most once and its row is      *)
(* deleted by one handler only: until then the frame of the one, and from  *)
(* then on that of the other, is still to be published, is in the stream's *)
(* channel, or has been swapped in.                                        *)
(***************************************************************************)
EXTENDS Dashboard, TLAPS

\* The handlers that are at a step, on behalf of a target.
Doing(at, t) == {r \in Requests : job[r].at = at /\ job[r].id = t}
Adding(t)    == Doing("added", t)
Removing(t)  == Doing("removed", t)
Deleted(t)   == Removing(t) \union Doing("reply", t)

Sent(b)           == 1..Len(queue[b])
InQueue(name, b, t) == \E i \in Sent(b) : queue[b][i] = <<name, t>>

\* An id that is still to be handed out is nowhere.
Unheard(t) ==
  /\ t \notin rows
  /\ \A r \in Requests : HasTarget(r) => job[r].id # t
  /\ \A b \in Tabs :
       /\ t \notin seen[b] /\ t \notin told[b]
       /\ dom[b][t] = <<>>
       /\ \A i \in Sent(b) : queue[b][i][2] # t

\* The histories of a tab, and its queue, last as long as its stream.
LiveInv ==
  \A b \in Tabs : page[b] # "live" => queue[b] = <<>> /\ seen[b] = {} /\ told[b] = {}

\* A row is appended to a tab that shows one already only if it was rendered
\* before its target_added came.
AddedOnce(t) ==
  /\ \A q, r \in Adding(t) : q = r
  /\ \A b \in Tabs :
       /\ Adding(t) # {} => ~InQueue("added", b, t)
       /\ \A i, j \in Sent(b) : queue[b][i] = <<"added", t>> /\ queue[b][j] = <<"added", t>> => i = j
       /\ Adding(t) # {} \/ InQueue("added", b, t) => Len(dom[b][t]) <= 1
       /\ Len(dom[b][t]) <= 2

RemovedOnce(t) ==
  /\ \A q, r \in Deleted(t) : q = r
  /\ Deleted(t) # {} => t \notin rows
  /\ \A b \in Tabs : InQueue("removed", b, t) => t \notin rows /\ Removing(t) = {}

\* The tabs still have to hear of the target, or are to go on showing it.
Coming(b, t) == Adding(t) # {} \/ InQueue("added", b, t)
Stays(t)     == t \in rows \/ Removing(t) # {}

\* A tab that has been told everything shows what follows from what is still
\* on its way.
Follows(b, t) ==
  /\ Adding(t) # {} => t \in rows
  /\ Coming(b, t) => dom[b][t] = <<>>
  /\ Len(dom[b][t]) <= 1
  /\ \A i, j \in Sent(b) : queue[b][i] = <<"added", t>> /\ queue[b][j] = <<"removed", t>> => i < j
  /\ ~InQueue("removed", b, t) =>
       /\ Coming(b, t) => Stays(t)
       /\ ~Coming(b, t) => Len(dom[b][t]) = (IF Stays(t) THEN 1 ELSE 0)

\* Whatever else comes for the target from position k on only removes its row.
OnlyRemoved(b, t, k) ==
  \A i \in Sent(b) : i >= k /\ queue[b][i][2] = t => queue[b][i][1] = "removed"

\* The last status is in the cells, or will be, and nothing overwrites it.
Fresh(b, t) ==
  /\ Adding(t) = {}
  /\ \/ \E j \in Sent(b) : queue[b][j] = <<last[t], t>> /\ OnlyRemoved(b, t, j + 1)
     \/ /\ OnlyRemoved(b, t, 1)
        /\ \A i \in 1..Len(dom[b][t]) : dom[b][t][i] = last[t]

AgreeInv == \A b \in Tabs : \A t \in seen[b] \ (unsaid \union overtaken) : Follows(b, t)
FreshInv == \A b \in Tabs : \A t \in told[b] : Fresh(b, t)

Names  == {"added", "removed", "up", "down"}
Ways   == {"added", "removed", "reply"}
Status == {"pending", "up", "down"}
Busy   == [at : Ways \union {"delete"}, id : Targets, from : Tabs \union {Nobody}]

Types ==
  /\ rows \subseteq Targets
  /\ unborn \subseteq Targets
  /\ job \in [Requests -> {Idle, Inserting} \union Busy]
  /\ page \in [Tabs -> {"closed", "open", "live"}]
  /\ queue \in [Tabs -> Seq(Names \X Targets)]
  /\ \A b \in Tabs : Len(queue[b]) <= Buffer
  /\ dom \in [Tabs -> [Targets -> Seq(Status)]]
  /\ last \in [Targets -> Status]
  /\ told \in [Tabs -> SUBSET Targets]
  /\ seen \in [Tabs -> SUBSET Targets]
  /\ unsaid \subseteq Targets
  /\ overtaken \subseteq Targets

Inv ==
  /\ Types
  /\ \A t \in unborn : Unheard(t)
  /\ LiveInv
  /\ \A t \in Targets : AddedOnce(t) /\ RemovedOnce(t)
  /\ AgreeInv
  /\ FreshInv

USE DEF table, tabs, history, checks

-----------------------------------------------------------------------------
\* A handler that has come to a target has a record of it.
LEMMA Jobs ==
  ASSUME Types, NEW r \in Requests
  PROVE  /\ job[r].at \in {"idle", "insert", "delete"} \union Ways
         /\ HasTarget(r) => job[r] \in Busy /\ job[r].id \in Targets
         /\ job[r] = Idle => ~HasTarget(r)
         /\ job[r] = Inserting => ~HasTarget(r)
<1>1. job[r] \in {Idle, Inserting} \union Busy
  BY DEF Types
<1>2. CASE job[r] = Idle
  BY <1>2 DEF Idle, HasTarget, Inserting
<1>3. CASE job[r] = Inserting
  BY <1>3 DEF Inserting, HasTarget, Idle
<1>4. CASE job[r] \in Busy
  BY <1>4 DEF Busy, HasTarget, Idle, Inserting
<1> QED
  BY <1>1, <1>2, <1>3, <1>4

\* What the steps of a handler do to the sets of handlers at a step.
LEMMA Goes ==
  ASSUME Types, NEW r \in Requests, NEW at \in {"delete", "removed"},
         NEW to \in {"removed", "reply"}, Goto(r, at, to)
  PROVE  /\ job' \in [Requests -> {Idle, Inserting} \union Busy]
         /\ HasTarget(r) /\ job[r].id \in Targets /\ r \in Doing(at, job[r].id)
         /\ \A q \in Requests : HasTarget(q)' => HasTarget(q) /\ job'[q].id = job[q].id
         /\ \A a \in Ways, t \in Targets :
              Doing(a, t)' = (IF a = to /\ t = job[r].id THEN Doing(a, t) \union {r}
                              ELSE IF a = at THEN Doing(a, t) \ {r} ELSE Doing(a, t))
<1>1. job[r] \in Busy /\ job[r].at = at /\ job[r].id \in Targets
  BY Jobs DEF Goto, HasTarget
<1>2. /\ job'[r] \in Busy /\ job'[r].at = to /\ job'[r].id = job[r].id
      /\ \A q \in Requests \ {r} : job'[q] = job[q]
      /\ job' \in [Requests -> {Idle, Inserting} \union Busy]
  BY <1>1 DEF Goto, Types, Busy, Ways
<1>3. ASSUME NEW a \in Ways, NEW t \in Targets
      PROVE  Doing(a, t)' = (IF a = to /\ t = job[r].id THEN Doing(a, t) \union {r}
                             ELSE IF a = at THEN Doing(a, t) \ {r} ELSE Doing(a, t))
  BY <1>1, <1>2 DEF Doing
<1> QED
  BY <1>1, <1>2, <1>3 DEF HasTarget, Doing

LEMMA Returns ==
  ASSUME Types, NEW r \in Requests, NEW at, Return(r, at)
  PROVE  /\ job' \in [Requests -> {Idle, Inserting} \union Busy]
         /\ \A q \in Requests : HasTarget(q)' => q # r /\ HasTarget(q) /\ job'[q].id = job[q].id
         /\ \A a \in Ways, t \in Targets : Doing(a, t)' = Doing(a, t) \ {r}
<1>1. /\ job'[r] = Idle /\ \A q \in Requests \ {r} : job'[q] = job[q]
      /\ job' \in [Requests -> {Idle, Inserting} \union Busy]
  BY DEF Return, Types, Busy
<1>2. \A a \in Ways, t \in Targets : Doing(a, t)' = Doing(a, t) \ {r}
  BY <1>1 DEF Doing, Ways, Idle
<1> QED
  BY <1>1, <1>2 DEF HasTarget, Idle

LEMMA Takes ==
  ASSUME Types, NEW r \in Requests, job[r] \in {Idle, Inserting},
         NEW j \in {Inserting} \union Busy, job' = [job EXCEPT ![r] = j]
  PROVE  /\ job' \in [Requests -> {Idle, Inserting} \union Busy]
         /\ \A q \in Requests : HasTarget(q)' => job'[q].id = (IF q = r THEN j.id ELSE job[q].id)
         /\ \A q \in Requests \ {r} : HasTarget(q)' => HasTarget(q)
         /\ \A a \in Ways, t \in Targets : r \notin Doing(a, t)
         /\ \A a \in Ways, t \in Targets :
              Doing(a, t)' = (IF a = j.at /\ t = j.id
                              THEN Doing(a, t) \union {r} ELSE Doing(a, t))
<1>1. /\ job'[r] = j /\ \A q \in Requests \ {r} : job'[q] = job[q]
      /\ job' \in [Requests -> {Idle, Inserting} \union Busy]
  BY DEF Types, Busy
<1>2. \A a \in Ways, t \in Targets : r \notin Doing(a, t)
  BY DEF Doing, Ways, Idle, Inserting
<1>4. \A a \in Ways, t \in Targets :
        Doing(a, t)' = (IF a = j.at /\ t = j.id
                        THEN Doing(a, t) \union {r} ELSE Doing(a, t))
  BY <1>1, <1>2 DEF Doing
<1> QED
  BY <1>1, <1>2, <1>4 DEF HasTarget

\* A page that is loaded again is no longer waited for.
LEMMA Reindexed ==
  ASSUME Types, NEW b \in Tabs,
         job' = [r \in Requests |->
                   IF HasTarget(r) /\ job[r].from = b
                     THEN [job[r] EXCEPT !.from = Nobody] ELSE job[r]]
  PROVE  /\ job' \in [Requests -> {Idle, Inserting} \union Busy]
         /\ \A q \in Requests : HasTarget(q)' => HasTarget(q) /\ job'[q].id = job[q].id
         /\ \A a \in Ways, t \in Targets : Doing(a, t)' = Doing(a, t)
<1>1. ASSUME NEW q \in Requests
      PROVE  /\ job'[q] \in {Idle, Inserting} \union Busy
             /\ job'[q].at = job[q].at
             /\ HasTarget(q) => job'[q].id = job[q].id
  <2>1. CASE HasTarget(q)
    BY <2>1, Jobs DEF Busy
  <2>2. CASE ~HasTarget(q)
    BY <2>2 DEF Types
  <2> QED
    BY <2>1, <2>2
<1>2. job' \in [Requests -> {Idle, Inserting} \union Busy]
  BY <1>1
<1>3. \A a \in Ways, t \in Targets : Doing(a, t)' = Doing(a, t)
  BY <1>1 DEF Doing, HasTarget, Ways
<1> QED
  BY <1>1, <1>2, <1>3 DEF HasTarget

\* What Publish does to a channel.
LEMMA Offered ==
  ASSUME Types, NEW name \in Names, NEW t \in Targets,
         queue' = [b \in Tabs |-> Offer(b, <<name, t>>)]
  PROVE  /\ queue' \in [Tabs -> Seq(Names \X Targets)]
         /\ \A b \in Tabs :
              /\ Len(queue'[b]) <= Buffer
              /\ ~HasRoom(b) => queue'[b] = queue[b]
              /\ HasRoom(b) =>
                   /\ page[b] = "live"
                   /\ Len(queue'[b]) = Len(queue[b]) + 1
                   /\ queue'[b][Len(queue[b]) + 1] = <<name, t>>
                   /\ \A i \in Sent(b) : queue'[b][i] = queue[b][i]
<1>1. queue \in [Tabs -> Seq(Names \X Targets)] /\ \A b \in Tabs : Len(queue[b]) <= Buffer
  BY DEF Types, Names
<1>2. <<name, t>> \in Names \X Targets
  OBVIOUS
<1>3. ASSUME NEW b \in Tabs
      PROVE  Offer(b, <<name, t>>) \in Seq(Names \X Targets)
  BY <1>1, <1>2 DEF Offer
<1>4. queue' \in [Tabs -> Seq(Names \X Targets)]
  BY <1>3
<1>5. ASSUME NEW b \in Tabs, ~HasRoom(b) PROVE queue'[b] = queue[b]
  BY <1>5 DEF Offer
<1>6. ASSUME NEW b \in Tabs, HasRoom(b)
      PROVE  /\ page[b] = "live" /\ Len(queue[b]) + 1 <= Buffer
             /\ Len(queue'[b]) = Len(queue[b]) + 1
             /\ queue'[b][Len(queue[b]) + 1] = <<name, t>>
             /\ \A i \in Sent(b) : queue'[b][i] = queue[b][i]
  <2>1. queue'[b] = Append(queue[b], <<name, t>>)
    BY <1>6 DEF Offer
  <2>2. queue[b] \in Seq(Names \X Targets)
    BY <1>1
  <2> DEFINE q == queue[b]
  <2>3. Len(q) \in Nat /\ Buffer \in Nat /\ page[b] = "live" /\ Len(q) < Buffer
    BY <1>6, <2>2, DashboardAssumption DEF HasRoom
  <2>4. /\ Len(Append(q, <<name, t>>)) = Len(q) + 1
        /\ Append(q, <<name, t>>)[Len(q) + 1] = <<name, t>>
        /\ \A i \in 1..Len(q) : Append(q, <<name, t>>)[i] = q[i]
    BY <1>2, <2>2
  <2>5. Len(queue'[b]) = Len(q) + 1 /\ queue'[b][Len(q) + 1] = <<name, t>>
    BY ONLY <2>1, <2>4, Zenon
  <2>6. \A i \in Sent(b) : queue'[b][i] = queue[b][i]
    BY ONLY <2>1, <2>4, Zenon DEF Sent
  <2>7. Len(q) + 1 <= Buffer
    BY ONLY <2>3
  <2> QED
    BY <2>3, <2>5, <2>6, <2>7, Zenon
<1> QED
  BY <1>1, <1>4, <1>5, <1>6

\* A frame that is queued after a publication was there, or is the one.
LEMMA OfferedFrames ==
  ASSUME Types, NEW name \in Names, NEW t \in Targets,
         queue' = [b \in Tabs |-> Offer(b, <<name, t>>)]
  PROVE  \A b \in Tabs :
           /\ \A i \in Sent(b)' :
                \/ i \in Sent(b) /\ queue'[b][i] = queue[b][i]
                \/ HasRoom(b) /\ i = Len(queue[b]) + 1 /\ queue'[b][i] = <<name, t>>
           /\ \A n \in Names, u \in Targets :
                InQueue(n, b, u)' <=> InQueue(n, b, u) \/ (HasRoom(b) /\ n = name /\ u = t)
<1> SUFFICES ASSUME NEW b \in Tabs
             PROVE  /\ \A i \in Sent(b)' :
                         \/ i \in Sent(b) /\ queue'[b][i] = queue[b][i]
                         \/ HasRoom(b) /\ i = Len(queue[b]) + 1 /\ queue'[b][i] = <<name, t>>
                    /\ \A n \in Names, u \in Targets :
                         InQueue(n, b, u)' <=> InQueue(n, b, u) \/ (HasRoom(b) /\ n = name /\ u = t)
  OBVIOUS
<1>1. Len(queue[b]) \in Nat
  BY DEF Types
<1>2. CASE ~HasRoom(b)
  BY <1>2, Offered DEF InQueue, Sent
<1>3. CASE HasRoom(b)
  <2>1. Sent(b)' = Sent(b) \union {Len(queue[b]) + 1} /\ Len(queue[b]) + 1 \notin Sent(b)
    <3>1. Len(queue'[b]) = Len(queue[b]) + 1
      BY <1>3, Offered
    <3> QED
      BY <1>1, <3>1 DEF Sent
  <2>2. /\ queue'[b][Len(queue[b]) + 1] = <<name, t>>
        /\ \A i \in Sent(b) : queue'[b][i] = queue[b][i]
    BY <1>3, Offered
  <2>3. ASSUME NEW n \in Names, NEW u \in Targets
        PROVE  InQueue(n, b, u)' <=> InQueue(n, b, u) \/ (n = name /\ u = t)
    <3>1. InQueue(n, b, u)' <=> \E i \in Sent(b)' : queue'[b][i] = <<n, u>>
      BY DEF InQueue
    <3>2. InQueue(n, b, u)' <=> (\E i \in Sent(b) : queue[b][i] = <<n, u>>) \/ <<name, t>> = <<n, u>>
      BY <2>1, <2>2, <3>1
    <3> QED
      BY <3>2 DEF InQueue
  <2> QED
    BY <1>3, <2>1, <2>2, <2>3
<1> QED
  BY <1>2, <1>3

LEMMA Repeated ==
  ASSUME NEW S, NEW n \in Nat, NEW x \in S
  PROVE  [i \in 1..n |-> x] \in Seq(S)
OBVIOUS

\* What Swap does to a channel and to the rows of the frame's target.
LEMMA Taken ==
  ASSUME Types, NEW b \in Tabs, Swap(b)
  PROVE  /\ queue' \in [Tabs -> Seq(Names \X Targets)]
         /\ dom' \in [Tabs -> [Targets -> Seq(Status)]]
         /\ 1 \in Sent(b) /\ queue[b][1] \in Names \X Targets
         /\ Len(queue'[b]) = Len(queue[b]) - 1
         /\ \A i \in Sent(b)' : i + 1 \in Sent(b) /\ queue'[b][i] = queue[b][i + 1]
         /\ \A i \in Sent(b) : i = 1 \/ (i - 1 \in Sent(b)' /\ queue'[b][i - 1] = queue[b][i])
         /\ dom'[b][queue[b][1][2]] = Swapped(queue[b][1][1], dom[b][queue[b][1][2]])
         /\ \A t \in Targets : t # queue[b][1][2] => dom'[b][t] = dom[b][t]
         /\ \A c \in Tabs \ {b} : queue'[c] = queue[c] /\ dom'[c] = dom[c]
<1> DEFINE q == queue[b]
           name == Head(q)[1]
           t    == Head(q)[2]
           s    == dom[b][t]
<1>1. /\ queue \in [Tabs -> Seq(Names \X Targets)] /\ q \in Seq(Names \X Targets) /\ q # <<>>
      /\ dom \in [Tabs -> [Targets -> Seq(Status)]]
  BY DEF Types, Names, Swap
<1>2. Head(q) = q[1] /\ q[1] \in Names \X Targets /\ Len(q) \in Nat /\ Len(q) >= 1
  BY <1>1
<1>3. /\ Tail(q) \in Seq(Names \X Targets) /\ Len(Tail(q)) = Len(q) - 1
      /\ \A i \in 1..Len(q) - 1 : Tail(q)[i] = q[i + 1]
  BY <1>1, <1>2
<1>4. queue'[b] = Tail(q) /\ queue' \in [Tabs -> Seq(Names \X Targets)]
  BY <1>1, <1>3 DEF Swap
<1>5. name \in Names /\ t \in Targets /\ dom[b][t] \in Seq(Status)
  BY <1>1, <1>2
<1>6. Swapped(name, s) \in Seq(Status)
  <2>0. name \in Names /\ s \in Seq(Status)
    BY <1>5
  <2> HIDE DEF s, name
  <2>1. CASE name = "added"
    BY <2>0, <2>1 DEF Swapped, Status
  <2>2. CASE name = "removed"
    BY <2>2 DEF Swapped
  <2>3. CASE name \in {"up", "down"}
    <3>1. Swapped(name, s) = [i \in 1..Len(s) |-> name]
      BY <2>3 DEF Swapped
    <3>2. Len(s) \in Nat /\ name \in Status
      BY <2>0, <2>3 DEF Status
    <3> QED
      BY <3>1, <3>2, Repeated
  <2> QED
    BY <2>0, <2>1, <2>2, <2>3 DEF Names
<1>7. dom' = [dom EXCEPT ![b][t] = Swapped(name, dom[b][t])]
  BY DEF Swap
<1>8. /\ dom'[b][t] = Swapped(name, dom[b][t])
      /\ \A u \in Targets : u # t => dom'[b][u] = dom[b][u]
      /\ \A c \in Tabs \ {b} : dom'[c] = dom[c]
      /\ dom' \in [Tabs -> [Targets -> Seq(Status)]]
  BY <1>1, <1>5, <1>6, <1>7
<1>9. /\ Sent(b) = 1..Len(q) /\ Sent(b)' = 1..Len(q) - 1
      /\ \A c \in Tabs \ {b} : queue'[c] = queue[c]
  BY <1>3, <1>4 DEF Sent, Swap
<1>10. \A i \in Sent(b)' : i + 1 \in Sent(b) /\ queue'[b][i] = queue[b][i + 1]
  BY <1>2, <1>3, <1>4, <1>9
<1>11. \A i \in Sent(b) : i = 1 \/ (i - 1 \in Sent(b)' /\ queue'[b][i - 1] = queue[b][i])
  <2> SUFFICES ASSUME NEW i \in Sent(b), i # 1
               PROVE  i - 1 \in Sent(b)' /\ queue'[b][i - 1] = queue[b][i]
    OBVIOUS
  <2>1. i - 1 \in 1..Len(q) - 1 /\ (i - 1) + 1 = i
    BY <1>2, <1>9
  <2> QED
    BY <1>3, <1>4, <1>9, <2>1
<1> QED
  BY <1>2, <1>3, <1>4, <1>8, <1>9, <1>10, <1>11

\* What is queued after a swap was there; what was there is, but for the head.
LEMMA TakenFrames ==
  ASSUME Types, NEW b \in Tabs, Swap(b), NEW name \in Names, NEW t \in Targets
  PROVE  /\ InQueue(name, b, t)' => InQueue(name, b, t)
         /\ InQueue(name, b, t) => InQueue(name, b, t)' \/ queue[b][1] = <<name, t>>
<1>1. ASSUME InQueue(name, b, t)' PROVE InQueue(name, b, t)
  <2>1. PICK i \in Sent(b)' : queue'[b][i] = <<name, t>>
    BY <1>1 DEF InQueue
  <2>2. i + 1 \in Sent(b) /\ queue[b][i + 1] = <<name, t>>
    BY <2>1, Taken
  <2> QED
    BY <2>2 DEF InQueue
<1>2. ASSUME InQueue(name, b, t), queue[b][1] # <<name, t>> PROVE InQueue(name, b, t)'
  <2>1. PICK i \in Sent(b) : queue[b][i] = <<name, t>>
    BY <1>2 DEF InQueue
  <2>2. i - 1 \in Sent(b)' /\ queue'[b][i - 1] = <<name, t>>
    BY <1>2, <2>1, Taken
  <2> QED
    BY <2>2 DEF InQueue
<1> QED
  BY <1>1, <1>2

-----------------------------------------------------------------------------
LEMMA TypesStep == Types /\ [Next]_vars => Types'
<1> SUFFICES ASSUME Types, [Next]_vars PROVE Types'
  OBVIOUS
<1> USE DEF Types
<1>1. ASSUME NEW r \in Requests, Create(r) PROVE Types'
  <2>1. job' \in [Requests -> {Idle, Inserting} \union Busy]
    BY <1>1, Takes DEF Create
  <2> QED
    BY <1>1, <2>1 DEF Create
<1>2. ASSUME NEW r \in Requests, Insert(r) PROVE Types'
  <2>1. PICK t \in unborn :
          /\ unborn' = unborn \ {t}
          /\ rows' = rows \union {t}
          /\ job' = [job EXCEPT ![r] = Job("added", t, Nobody)]
          /\ seen' = [b \in Tabs |-> IF page[b] = "live" THEN seen[b] \union {t} ELSE seen[b]]
    BY <1>2 DEF Insert
  <2>2. Job("added", t, Nobody) \in Busy
    BY DEF Job, Busy, Ways
  <2>3. job' \in [Requests -> {Idle, Inserting} \union Busy]
    BY <1>2, <2>1, <2>2 DEF Insert
  <2>4. seen' \in [Tabs -> SUBSET Targets]
    BY <2>1
  <2> QED
    BY <1>2, <2>1, <2>3, <2>4 DEF Insert
<1>3. ASSUME NEW r \in Requests, InsertFails(r) \/ DeleteFails(r) PROVE Types'
  <2>1. job' \in [Requests -> {Idle, Inserting} \union Busy]
    BY <1>3, Returns DEF InsertFails, DeleteFails
  <2> QED
    BY <1>3, <2>1 DEF InsertFails, DeleteFails
<1>4. ASSUME NEW r \in Requests, InsertUnsaid(r) PROVE Types'
  <2>1. job' \in [Requests -> {Idle, Inserting} \union Busy]
    BY <1>4, Returns DEF InsertUnsaid
  <2> QED
    BY <1>4, <2>1 DEF InsertUnsaid
<1>5. ASSUME NEW name \in Names, NEW t \in Targets, Publish(name, t)
      PROVE  /\ queue' \in [Tabs -> Seq(Names \X Targets)]
             /\ \A b \in Tabs : Len(queue'[b]) <= Buffer
             /\ seen' \in [Tabs -> SUBSET Targets]
  BY <1>5, Offered DEF Publish
<1>6. ASSUME NEW r \in Requests, PublishTargetAdded(r) PROVE Types'
  <2>1. job' \in [Requests -> {Idle, Inserting} \union Busy] /\ job[r].id \in Targets
    BY <1>6, Returns, Jobs DEF PublishTargetAdded, Return, HasTarget
  <2> QED
    BY <1>5, <1>6, <2>1 DEF PublishTargetAdded, Names
<1>7. ASSUME NEW r \in Requests, NEW b \in Tabs, NEW t \in Targets, ClickDelete(r, b, t)
      PROVE  Types'
  <2>1. Job("delete", t, b) \in Busy
    BY DEF Job, Busy
  <2>2. job' \in [Requests -> {Idle, Inserting} \union Busy]
    BY <1>7, <2>1 DEF ClickDelete
  <2> QED
    BY <1>7, <2>2 DEF ClickDelete
<1>8. ASSUME NEW r \in Requests, Delete(r) PROVE Types'
  <2>1. job' \in [Requests -> {Idle, Inserting} \union Busy] /\ job[r].id \in Targets
    BY <1>8, Goes DEF Delete
  <2> QED
    BY <1>8, <2>1 DEF Delete
<1>9. ASSUME NEW r \in Requests, DeleteUnsaid(r) PROVE Types'
  <2>1. job' \in [Requests -> {Idle, Inserting} \union Busy] /\ job[r].id \in Targets
    BY <1>9, Returns DEF DeleteUnsaid
  <2> QED
    BY <1>9, <2>1 DEF DeleteUnsaid
<1>10. ASSUME NEW r \in Requests, PublishTargetRemoved(r) PROVE Types'
  <2>1. job' \in [Requests -> {Idle, Inserting} \union Busy] /\ job[r].id \in Targets
    BY <1>10, Goes DEF PublishTargetRemoved
  <2> QED
    BY <1>5, <1>10, <2>1 DEF PublishTargetRemoved, Names
<1>11. ASSUME NEW r \in Requests, Reply(r) PROVE Types'
  <2>1. job' \in [Requests -> {Idle, Inserting} \union Busy] /\ job[r].id \in Targets
    BY <1>11, Returns, Jobs DEF Reply, Return, HasTarget
  <2>2. \A s \in Seq(Status) : s # <<>> => Tail(s) \in Seq(Status)
    OBVIOUS
  <2>3. dom' \in [Tabs -> [Targets -> Seq(Status)]]
    BY <1>11, <2>1, <2>2 DEF Reply
  <2> QED
    BY <1>11, <2>1, <2>3 DEF Reply
<1>12. ASSUME NEW b \in Tabs, HandleIndex(b) PROVE Types'
  <2>1. job' \in [Requests -> {Idle, Inserting} \union Busy]
    BY <1>12, Reindexed DEF HandleIndex
  <2>2. <<"pending">> \in Seq(Status) /\ <<>> \in Seq(Status)
    BY DEF Status
  <2>3. dom' \in [Tabs -> [Targets -> Seq(Status)]]
    BY <1>12, <2>2 DEF HandleIndex
  <2>4. page' \in [Tabs -> {"closed", "open", "live"}]
    BY <1>12 DEF HandleIndex
  <2> QED
    BY <1>12, <2>1, <2>3, <2>4 DEF HandleIndex
<1>13. ASSUME NEW b \in Tabs, Subscribe(b) PROVE Types'
  BY <1>13 DEF Subscribe
<1>14. ASSUME NEW b \in Tabs, Unsubscribe(b) PROVE Types'
  <2>1. /\ page' \in [Tabs -> {"closed", "open", "live"}]
        /\ queue' \in [Tabs -> Seq(Names \X Targets)]
        /\ seen' \in [Tabs -> SUBSET Targets] /\ told' \in [Tabs -> SUBSET Targets]
    BY <1>14 DEF Unsubscribe
  <2>2. \A c \in Tabs : Len(queue'[c]) <= Buffer
    BY <1>14, DashboardAssumption DEF Unsubscribe
  <2> QED
    BY <1>14, <2>1, <2>2 DEF Unsubscribe
<1>15. ASSUME NEW b \in Tabs, Swap(b) PROVE Types'
  <2>1. \A c \in Tabs : Len(queue[c]) \in Nat /\ Len(queue[c]) <= Buffer
    OBVIOUS
  <2>2. \A c \in Tabs : Len(queue'[c]) <= Buffer
    <3>1. Len(queue'[b]) = Len(queue[b]) - 1 /\ \A c \in Tabs \ {b} : queue'[c] = queue[c]
      BY <1>15, Taken
    <3>2. Len(queue'[b]) <= Buffer
      BY <2>1, <3>1, DashboardAssumption
    <3> QED
      BY <2>1, <3>1, <3>2
  <2> QED
    BY <1>15, <2>2, Taken DEF Swap
<1>16. ASSUME NEW t \in Targets, NEW status \in {"up", "down"}, PublishCheck(t, status)
       PROVE  Types'
  <2>1. /\ queue' \in [Tabs -> Seq(Names \X Targets)]
        /\ \A b \in Tabs : Len(queue'[b]) <= Buffer
    BY <1>16, Offered DEF PublishCheck, Names
  <2>2. told' \in [Tabs -> SUBSET Targets]
    BY <1>16 DEF PublishCheck
  <2>3. last' \in [Targets -> Status]
    BY <1>16 DEF PublishCheck, Status
  <2> QED
    BY <1>16, <2>1, <2>2, <2>3 DEF PublishCheck
<1>17. CASE UNCHANGED vars
  BY <1>17 DEF vars
<1> QED
  BY <1>1, <1>2, <1>3, <1>4, <1>6, <1>7, <1>8, <1>9, <1>10, <1>11, <1>12, <1>13, <1>14,
     <1>15, <1>16, <1>17 DEF Next

-----------------------------------------------------------------------------
\* A frame of a target is of one that has been handed out, and so is a job.
LEMMA UnheardStep ==
  ASSUME Types, Types', [Next]_vars, \A u \in unborn : Unheard(u), NEW t \in unborn'
  PROVE  Unheard(t)'
<1>0. t \in unborn /\ t \in Targets
  <2>1. t \in unborn \/ UNCHANGED unborn
    BY DEF Next, vars, Create, Insert, InsertFails, InsertUnsaid, PublishTargetAdded, ClickDelete,
       Delete, DeleteFails, DeleteUnsaid, PublishTargetRemoved, Reply, HandleIndex, Subscribe,
       Unsubscribe, Swap, PublishCheck
  <2> QED
    BY <2>1 DEF Types
<1>a. /\ t \notin rows /\ \A r \in Requests : HasTarget(r) => job[r].id # t
      /\ \A b \in Tabs : /\ t \notin seen[b] /\ t \notin told[b] /\ dom[b][t] = <<>>
                         /\ \A i \in Sent(b) : queue[b][i][2] # t
  BY <1>0 DEF Unheard
\* A publication for another target leaves t unheard of.
<1>b. ASSUME NEW name \in Names, NEW u \in Targets, u # t,
             queue' = [b \in Tabs |-> Offer(b, <<name, u>>)]
      PROVE  \A b \in Tabs : \A i \in Sent(b)' : queue'[b][i][2] # t
  BY <1>a, <1>b, OfferedFrames
<1>c. ASSUME UNCHANGED rows, UNCHANGED <<seen, told, dom, queue>>,
             \A q \in Requests : HasTarget(q)' => HasTarget(q) /\ job'[q].id = job[q].id
      PROVE  Unheard(t)'
  BY <1>a, <1>c DEF Unheard, Sent
<1>1. ASSUME NEW r \in Requests, Create(r) PROVE Unheard(t)'
  <2>1. job[r] \in {Idle, Inserting} /\ job' = [job EXCEPT ![r] = Inserting] /\ ~HasTarget(r)'
    BY <1>1 DEF Create, Types, HasTarget, Inserting
  <2>2. \A q \in Requests : HasTarget(q)' => HasTarget(q) /\ job'[q].id = job[q].id
    BY <2>1, Takes
  <2> QED
    BY <1>1, <1>c, <2>2 DEF Create
<1>2. ASSUME NEW r \in Requests, Insert(r) PROVE Unheard(t)'
  <2>1. PICK u \in unborn :
          /\ unborn' = unborn \ {u}
          /\ rows' = rows \union {u}
          /\ job' = [job EXCEPT ![r] = Job("added", u, Nobody)]
          /\ seen' = [b \in Tabs |-> IF page[b] = "live" THEN seen[b] \union {u} ELSE seen[b]]
    BY <1>2 DEF Insert
  <2>2. u # t
    BY <2>1
  <2>3. Job("added", u, Nobody) \in Busy /\ Job("added", u, Nobody).id = u
    BY DEF Job, Busy, Ways, Types
  <2>4. \A q \in Requests : HasTarget(q)' => job'[q].id # t
    BY <1>2, <1>a, <2>1, <2>2, <2>3, Takes DEF Insert
  <2> QED
    BY <1>2, <1>a, <2>1, <2>2, <2>4 DEF Insert, Unheard, Sent
<1>3. ASSUME NEW r \in Requests, InsertFails(r) \/ DeleteFails(r) PROVE Unheard(t)'
  <2>1. \A q \in Requests : HasTarget(q)' => HasTarget(q) /\ job'[q].id = job[q].id
    BY <1>3, Returns DEF InsertFails, DeleteFails
  <2> QED
    BY <1>3, <1>c, <2>1 DEF InsertFails, DeleteFails
<1>4. ASSUME NEW r \in Requests, InsertUnsaid(r) PROVE Unheard(t)'
  <2>1. \A q \in Requests : HasTarget(q)' => HasTarget(q) /\ job'[q].id = job[q].id
    BY <1>4, Returns DEF InsertUnsaid
  <2>2. t \notin rows'
    BY <1>4, <1>a DEF InsertUnsaid
  <2> QED
    BY <1>4, <1>a, <2>1, <2>2 DEF InsertUnsaid, Unheard, Sent
<1>5. ASSUME NEW r \in Requests, PublishTargetAdded(r) \/ PublishTargetRemoved(r)
      PROVE  Unheard(t)'
  <2>1. HasTarget(r) /\ job[r].id \in Targets /\ job[r].id # t
    BY <1>5, <1>a, Jobs
    DEF PublishTargetAdded, PublishTargetRemoved, Return, Goto, HasTarget
  <2>2. \A q \in Requests : HasTarget(q)' => HasTarget(q) /\ job'[q].id = job[q].id
    BY <1>5, Returns, Goes DEF PublishTargetAdded, PublishTargetRemoved
  <2>3. \A b \in Tabs : \A i \in Sent(b)' : queue'[b][i][2] # t
    BY <1>5, <1>b, <2>1 DEF PublishTargetAdded, PublishTargetRemoved, Publish, Names
  <2>4. \A b \in Tabs : t \notin seen'[b]
    BY <1>5, <1>a DEF PublishTargetAdded, PublishTargetRemoved, Publish
  <2> QED
    BY <1>5, <1>a, <2>2, <2>3, <2>4 DEF PublishTargetAdded, PublishTargetRemoved, Unheard
<1>6. ASSUME NEW r \in Requests, NEW b \in Tabs, NEW u \in Targets, ClickDelete(r, b, u)
      PROVE  Unheard(t)'
  <2>1. u # t
    BY <1>6, <1>a DEF ClickDelete
  <2>2. Job("delete", u, b) \in Busy /\ Job("delete", u, b).id = u
    BY DEF Job, Busy
  <2>3. \A q \in Requests : HasTarget(q)' => job'[q].id # t
    BY <1>6, <1>a, <2>1, <2>2, Takes DEF ClickDelete
  <2> QED
    BY <1>6, <1>a, <2>3 DEF ClickDelete, Unheard, Sent
<1>7. ASSUME NEW r \in Requests, Delete(r) \/ DeleteUnsaid(r) PROVE Unheard(t)'
  <2>1. \A q \in Requests : HasTarget(q)' => HasTarget(q) /\ job'[q].id = job[q].id
    BY <1>7, Returns, Goes DEF Delete, DeleteUnsaid
  <2> QED
    BY <1>7, <1>a, <2>1 DEF Delete, DeleteUnsaid, Unheard, Sent
<1>8. ASSUME NEW r \in Requests, Reply(r) PROVE Unheard(t)'
  <2>1. \A q \in Requests : HasTarget(q)' => HasTarget(q) /\ job'[q].id = job[q].id
    BY <1>8, Returns DEF Reply
  <2>2. job[r].id # t
    BY <1>8, <1>a DEF Reply, Return, HasTarget
  <2>3. \A b \in Tabs : dom'[b][t] = <<>>
    BY <1>0, <1>8, <1>a, <2>2 DEF Reply, Types
  <2> QED
    BY <1>8, <1>a, <2>1, <2>3 DEF Reply, Unheard, Sent
<1>9. ASSUME NEW b \in Tabs, HandleIndex(b) PROVE Unheard(t)'
  <2>1. \A q \in Requests : HasTarget(q)' => HasTarget(q) /\ job'[q].id = job[q].id
    BY <1>9, Reindexed DEF HandleIndex
  <2>2. \A c \in Tabs : dom'[c][t] = <<>>
    BY <1>0, <1>9, <1>a DEF HandleIndex, Types
  <2> QED
    BY <1>9, <1>a, <2>1, <2>2 DEF HandleIndex, Unheard, Sent
<1>10. ASSUME NEW b \in Tabs, Subscribe(b) PROVE Unheard(t)'
  BY <1>10, <1>c DEF Subscribe, HasTarget
<1>11. ASSUME NEW b \in Tabs, Unsubscribe(b) PROVE Unheard(t)'
  <2>1. \A c \in Tabs : seen'[c] \subseteq seen[c] /\ told'[c] \subseteq told[c]
    BY <1>11 DEF Unsubscribe, Types
  <2>2. \A c \in Tabs : \A i \in Sent(c)' : queue'[c][i][2] # t
    BY <1>11, <1>a DEF Unsubscribe, Types, Sent
  <2> QED
    BY <1>11, <1>a, <2>1, <2>2 DEF Unsubscribe, Unheard, HasTarget
<1>12. ASSUME NEW b \in Tabs, Swap(b) PROVE Unheard(t)'
  <2>0. /\ queue[b][1][2] # t
        /\ \A c \in Tabs \ {b} : queue'[c] = queue[c] /\ dom'[c] = dom[c]
    BY <1>12, <1>a, Taken
  <2>1. \A i \in Sent(b)' : queue'[b][i][2] # t
    <3>1. \A i \in Sent(b)' : i + 1 \in Sent(b) /\ queue'[b][i] = queue[b][i + 1]
      BY <1>12, Taken
    <3> QED
      BY <1>a, <3>1
  <2>2. \A c \in Tabs : \A i \in Sent(c)' : queue'[c][i][2] # t
    BY <1>a, <2>0, <2>1 DEF Sent
  <2>3. dom'[b][t] = dom[b][t]
    BY <1>0, <1>12, <2>0, Taken
  <2>4. \A c \in Tabs : dom'[c][t] = <<>>
    BY <1>a, <2>0, <2>3
  <2> QED
    BY <1>12, <1>a, <2>2, <2>4 DEF Swap, Unheard, HasTarget
<1>13. ASSUME NEW u \in Targets, NEW status \in {"up", "down"}, PublishCheck(u, status)
       PROVE  Unheard(t)'
  <2>1. u # t
    BY <1>0, <1>13 DEF PublishCheck
  <2>2. \A c \in Tabs : \A i \in Sent(c)' : queue'[c][i][2] # t
    BY <1>13, <1>b, <2>1 DEF PublishCheck, Names
  <2>3. \A c \in Tabs : t \notin told'[c]
    BY <1>13, <1>a, <2>1 DEF PublishCheck
  <2> QED
    BY <1>13, <1>a, <2>2, <2>3 DEF PublishCheck, Unheard, HasTarget
<1>14. CASE UNCHANGED vars
  BY <1>14, <1>c DEF vars, HasTarget
<1> QED
  BY <1>1, <1>2, <1>3, <1>4, <1>5, <1>6, <1>7, <1>8, <1>9, <1>10, <1>11, <1>12, <1>13,
     <1>14 DEF Next

\* A stream that has ended has no frames and no history.
LEMMA LiveStep == ASSUME Types, LiveInv, [Next]_vars PROVE LiveInv'
<1> USE DEF LiveInv, Types
<1>1. ASSUME UNCHANGED <<page, queue, seen, told>> PROVE LiveInv'
  BY <1>1
<1>2. ASSUME NEW name \in Names, NEW t \in Targets, UNCHANGED page,
             queue' = [b \in Tabs |-> Offer(b, <<name, t>>)],
             \A b \in Tabs : page[b] # "live" => seen'[b] = {} /\ told'[b] = {}
      PROVE  LiveInv'
  BY <1>2, Offered DEF HasRoom
<1>3. ASSUME NEW r \in Requests, Insert(r) PROVE LiveInv'
  BY <1>3 DEF Insert
<1>4. ASSUME NEW r \in Requests, PublishTargetAdded(r) \/ PublishTargetRemoved(r) PROVE LiveInv'
  <2>1. job[r].id \in Targets /\ UNCHANGED <<page, told>>
    BY <1>4, Jobs
    DEF PublishTargetAdded, PublishTargetRemoved, Return, Goto, HasTarget
  <2>2. \A b \in Tabs : page[b] # "live" => seen'[b] = {} /\ told'[b] = {}
    BY <1>4, <2>1 DEF PublishTargetAdded, PublishTargetRemoved, Publish, HasRoom
  <2> QED
    BY <1>2, <1>4, <2>1, <2>2 DEF PublishTargetAdded, PublishTargetRemoved, Publish, Names
<1>5. ASSUME NEW b \in Tabs, HandleIndex(b) \/ Subscribe(b) \/ Unsubscribe(b) PROVE LiveInv'
  BY <1>5 DEF HandleIndex, Subscribe, Unsubscribe
<1>6. ASSUME NEW b \in Tabs, Swap(b) PROVE LiveInv'
  BY <1>6, Taken DEF Swap
<1>7. ASSUME NEW t \in Targets, NEW status \in {"up", "down"}, PublishCheck(t, status)
      PROVE  LiveInv'
  <2>1. \A b \in Tabs : page[b] # "live" => seen'[b] = {} /\ told'[b] = {}
    BY <1>7 DEF PublishCheck, HasRoom
  <2> QED
    BY <1>2, <1>7, <2>1 DEF PublishCheck, Names
<1>8. ASSUME NEW r \in Requests,
             \/ Create(r) \/ InsertFails(r) \/ InsertUnsaid(r) \/ Delete(r) \/ DeleteFails(r)
             \/ DeleteUnsaid(r) \/ Reply(r) \/ \E b \in Tabs, t \in Targets : ClickDelete(r, b, t)
      PROVE  LiveInv'
  BY <1>1, <1>8 DEF Create, InsertFails, InsertUnsaid, Delete, DeleteFails, DeleteUnsaid, Reply,
     ClickDelete
<1>9. CASE UNCHANGED vars
  BY <1>1, <1>9 DEF vars
<1> QED
  BY <1>3, <1>4, <1>5, <1>6, <1>7, <1>8, <1>9 DEF Next

\* A stream that ends takes its frames along.
LEMMA Ended ==
  ASSUME Types, NEW b \in Tabs, Unsubscribe(b)
  PROVE  \A c \in Tabs :
           /\ \A i \in Sent(c)' : i \in Sent(c) /\ queue'[c][i] = queue[c][i]
           /\ \A name \in Names, t \in Targets : InQueue(name, c, t)' => InQueue(name, c, t)
<1>1. \A c \in Tabs : \A i \in Sent(c)' : i \in Sent(c) /\ queue'[c][i] = queue[c][i]
  BY DEF Unsubscribe, Sent, Types
<1> QED
  BY <1>1 DEF InQueue

\* What Swap does to the number of a target's rows, by the frame.
LEMMA TakenRows ==
  ASSUME Types, NEW b \in Tabs, Swap(b), NEW t \in Targets
  PROVE  /\ queue[b][1] = <<"added", t>> => Len(dom'[b][t]) = Len(dom[b][t]) + 1
         /\ queue[b][1] = <<"removed", t>> => dom'[b][t] = <<>>
         /\ \A s \in {"up", "down"} : queue[b][1] = <<s, t>> =>
              Len(dom'[b][t]) = Len(dom[b][t]) /\ \A i \in 1..Len(dom'[b][t]) : dom'[b][t][i] = s
         /\ queue[b][1][2] # t => dom'[b][t] = dom[b][t]
<1>1. dom[b][t] \in Seq(Status) /\ Len(dom[b][t]) \in Nat
  BY DEF Types
<1>2. /\ queue[b][1][2] = t => dom'[b][t] = Swapped(queue[b][1][1], dom[b][t])
      /\ queue[b][1][2] # t => dom'[b][t] = dom[b][t]
  BY Taken
<1>3. ASSUME queue[b][1] = <<"added", t>> PROVE Len(dom'[b][t]) = Len(dom[b][t]) + 1
  <2>1. dom'[b][t] = Append(dom[b][t], "pending")
    BY <1>2, <1>3 DEF Swapped
  <2> QED
    BY <1>1, <2>1 DEF Status
<1>4. ASSUME queue[b][1] = <<"removed", t>> PROVE dom'[b][t] = <<>>
  BY <1>2, <1>4 DEF Swapped
<1>5. ASSUME NEW s \in {"up", "down"}, queue[b][1] = <<s, t>>
      PROVE  Len(dom'[b][t]) = Len(dom[b][t]) /\ \A i \in 1..Len(dom'[b][t]) : dom'[b][t][i] = s
  <2>1. dom'[b][t] = [i \in 1..Len(dom[b][t]) |-> s]
    BY <1>2, <1>5 DEF Swapped
  <2> QED
    BY <1>1, <2>1
<1> QED
  BY <1>2, <1>3, <1>4, <1>5

\* No other frame adds a row, and only a target_removed takes rows away.
LEMMA OtherFrame ==
  ASSUME Types, NEW b \in Tabs, Swap(b), NEW t \in Targets,
         queue[b][1] \notin {<<"added", t>>, <<"removed", t>>}
  PROVE  Len(dom'[b][t]) = Len(dom[b][t])
<1>1. CASE queue[b][1][2] # t
  BY <1>1, TakenRows
<1>2. CASE \E s \in {"up", "down"} : queue[b][1] = <<s, t>>
  BY <1>2, TakenRows
<1>3. queue[b][1] \in Names \X Targets
  BY Taken
<1> QED
  BY <1>1, <1>2, <1>3 DEF Names

LEMMA SwapRows ==
  ASSUME Types, NEW b \in Tabs, Swap(b), NEW t \in Targets, queue[b][1] # <<"added", t>>
  PROVE  Len(dom'[b][t]) <= Len(dom[b][t])
<1>1. Len(dom[b][t]) \in Nat
  BY DEF Types
<1>2. CASE queue[b][1] = <<"removed", t>>
  BY <1>1, <1>2, TakenRows
<1> QED
  BY <1>1, <1>2, OtherFrame

\* The answer to a delete takes a row away, or nothing.
LEMMA ReplyRows ==
  ASSUME Types, NEW r \in Requests, Reply(r), NEW b \in Tabs, NEW t \in Targets
  PROVE  \/ dom'[b][t] = dom[b][t]
         \/ /\ t = job[r].id /\ dom[b][t] # <<>>
            /\ dom'[b][t] = Tail(dom[b][t]) /\ Len(dom'[b][t]) = Len(dom[b][t]) - 1
<1>1. dom \in [Tabs -> [Targets -> Seq(Status)]]
  BY DEF Types
<1>2. dom'[b] = (IF b = job[r].from /\ dom[b][job[r].id] # <<>>
                   THEN [dom[b] EXCEPT ![job[r].id] = Tail(dom[b][job[r].id])] ELSE dom[b])
  BY DEF Reply
<1>3. dom'[b][t] = dom[b][t] \/ (t = job[r].id /\ dom[b][t] # <<>> /\ dom'[b][t] = Tail(dom[b][t]))
  BY <1>1, <1>2
<1>4. dom[b][t] # <<>> => Len(Tail(dom[b][t])) = Len(dom[b][t]) - 1
  BY <1>1
<1> QED
  BY <1>3, <1>4

\* Nobody works on a target that is still to be handed out.
LEMMA UnheardIdle ==
  ASSUME NEW t \in unborn, Unheard(t)
  PROVE  \A a \in Ways : Doing(a, t) = {}
BY DEF Unheard, Doing, HasTarget, Ways

\* How a step of a handler changes who is at a step for a target.
LEMMA DoingStep ==
  ASSUME Types, NEW r \in Requests, NEW a \in Ways, NEW t \in Targets
  PROVE  /\ Create(r) \/ InsertFails(r) \/ InsertUnsaid(r) => Doing(a, t)' = Doing(a, t)
         /\ PublishTargetAdded(r) \/ Reply(r) \/ DeleteUnsaid(r) \/ DeleteFails(r) =>
              Doing(a, t)' = Doing(a, t) \ {r}
         /\ (\E b \in Tabs, u \in Targets : ClickDelete(r, b, u)) => Doing(a, t)' = Doing(a, t)
         /\ Delete(r) =>
              Doing(a, t)' = (IF a = "removed" /\ t = job[r].id THEN Doing(a, t) \union {r}
                              ELSE Doing(a, t))
         /\ PublishTargetRemoved(r) =>
              Doing(a, t)' = (IF a = "reply" /\ t = job[r].id THEN Doing(a, t) \union {r}
                              ELSE IF a = "removed" THEN Doing(a, t) \ {r} ELSE Doing(a, t))
<1>1. ASSUME Create(r) PROVE Doing(a, t)' = Doing(a, t)
  <2>1. job[r] \in {Idle, Inserting} /\ job' = [job EXCEPT ![r] = Inserting]
    BY <1>1 DEF Create
  <2>2. Inserting.at \notin Ways /\ Inserting \in {Inserting} \union Busy
    BY DEF Inserting, Ways
  <2>3. \A c \in Ways, v \in Targets :
          Doing(c, v)' = (IF c = Inserting.at /\ v = Inserting.id
                          THEN Doing(c, v) \union {r} ELSE Doing(c, v))
    BY <2>1, <2>2, Takes, Zenon
  <2> QED
    BY <2>2, <2>3
<1>2. ASSUME InsertFails(r) \/ InsertUnsaid(r) PROVE Doing(a, t)' = Doing(a, t)
  <2>1. r \notin Doing(a, t)
    BY <1>2 DEF InsertFails, InsertUnsaid, Return, Doing, Ways
  <2>2. Doing(a, t)' = Doing(a, t) \ {r}
    BY <1>2, Returns DEF InsertFails, InsertUnsaid
  <2> QED
    BY <2>1, <2>2
<1>3. ASSUME PublishTargetAdded(r) \/ Reply(r) \/ DeleteUnsaid(r) \/ DeleteFails(r)
      PROVE  Doing(a, t)' = Doing(a, t) \ {r}
  BY <1>3, Returns DEF PublishTargetAdded, Reply, DeleteUnsaid, DeleteFails
<1>4. ASSUME NEW b \in Tabs, NEW u \in Targets, ClickDelete(r, b, u)
      PROVE  Doing(a, t)' = Doing(a, t)
  <2>1. Job("delete", u, b) \in Busy /\ Job("delete", u, b).at \notin Ways
    BY DEF Job, Busy, Ways
  <2>2. job[r] \in {Idle, Inserting} /\ job' = [job EXCEPT ![r] = Job("delete", u, b)]
    BY <1>4 DEF ClickDelete
  <2> DEFINE j == Job("delete", u, b)
  <2> HIDE DEF j
  <2>3. j \in {Inserting} \union Busy /\ job[r] \in {Idle, Inserting} /\ job' = [job EXCEPT ![r] = j]
    BY <2>1, <2>2 DEF j
  <2>4. \A c \in Ways, v \in Targets :
          Doing(c, v)' = (IF c = j.at /\ v = j.id THEN Doing(c, v) \union {r} ELSE Doing(c, v))
    BY <2>3, Takes, Zenon
  <2> QED
    BY <2>1, <2>4 DEF j
<1>5. ASSUME Delete(r)
      PROVE  Doing(a, t)' = (IF a = "removed" /\ t = job[r].id THEN Doing(a, t) \union {r}
                             ELSE Doing(a, t))
  BY <1>5, Goes DEF Delete, Ways
<1>6. ASSUME PublishTargetRemoved(r)
      PROVE  Doing(a, t)' = (IF a = "reply" /\ t = job[r].id THEN Doing(a, t) \union {r}
                             ELSE IF a = "removed" THEN Doing(a, t) \ {r} ELSE Doing(a, t))
  BY <1>6, Goes DEF PublishTargetRemoved, Ways
<1> QED
  BY <1>1, <1>2, <1>3, <1>4, <1>5, <1>6

\* The target that is inserted is nobody's before, and the handler's then.
LEMMA Inserted ==
  ASSUME Types, \A t \in unborn : Unheard(t), NEW r \in Requests, Insert(r)
  PROVE  \E u \in unborn :
           /\ unborn' = unborn \ {u}
           /\ rows' = rows \union {u}
           /\ \A b \in Tabs : seen'[b] = (IF page[b] = "live" THEN seen[b] \union {u} ELSE seen[b])
           /\ \A a \in Ways, t \in Targets :
                Doing(a, t)' = (IF t # u THEN Doing(a, t) ELSE IF a = "added" THEN {r} ELSE {})
<1>1. PICK u \in unborn :
        /\ unborn' = unborn \ {u}
        /\ rows' = rows \union {u}
        /\ job' = [job EXCEPT ![r] = Job("added", u, Nobody)]
        /\ seen' = [b \in Tabs |-> IF page[b] = "live" THEN seen[b] \union {u} ELSE seen[b]]
  BY DEF Insert
<1> DEFINE j == Job("added", u, Nobody)
<1> HIDE DEF j
<1>2. j \in Busy /\ j.id = u /\ j.at = "added"
  BY DEF j, Job, Busy, Ways, Types
<1>3. j \in {Inserting} \union Busy /\ job[r] \in {Idle, Inserting} /\ job' = [job EXCEPT ![r] = j]
  BY <1>1, <1>2 DEF j, Insert
<1>4. \A a \in Ways, t \in Targets :
        Doing(a, t)' = (IF a = j.at /\ t = j.id THEN Doing(a, t) \union {r} ELSE Doing(a, t))
  BY <1>3, Takes, Zenon
<1>5. \A a \in Ways : Doing(a, u) = {}
  BY UnheardIdle
<1>6. ASSUME NEW a \in Ways, NEW t \in Targets
      PROVE  Doing(a, t)' = (IF t # u THEN Doing(a, t) ELSE IF a = "added" THEN {r} ELSE {})
  BY <1>2, <1>4, <1>5
<1> QED
  BY <1>1, <1>6

-----------------------------------------------------------------------------
\* A target is announced once: an id is handed out to one insertion, which
\* publishes one frame, and a tab takes it from its channel once.
LEMMA AddedStep ==
  ASSUME Types, Types', \A u \in unborn : Unheard(u), [Next]_vars,
         NEW t \in Targets, AddedOnce(t)
  PROVE  AddedOnce(t)'
<1> USE DEF Adding
<1>a. /\ \A q, r \in Adding(t) : q = r
      /\ \A b \in Tabs :
           /\ Adding(t) # {} => ~InQueue("added", b, t)
           /\ \A i, j \in Sent(b) :
                queue[b][i] = <<"added", t>> /\ queue[b][j] = <<"added", t>> => i = j
           /\ Adding(t) # {} \/ InQueue("added", b, t) => Len(dom[b][t]) <= 1
           /\ Len(dom[b][t]) <= 2
  BY DEF AddedOnce
<1>n. \A b \in Tabs : Len(dom[b][t]) \in Nat /\ Len(dom'[b][t]) \in Nat
  BY DEF Types
<1>w. "added" \in Ways /\ "added" \in Names /\ "removed" \in Names /\ "up" \in Names /\ "down" \in Names
  BY DEF Ways, Names
\* Nothing is queued, and the rows become fewer, or those of a page.
<1>q. ASSUME Adding(t)' \subseteq Adding(t), UNCHANGED queue,
             \A b \in Tabs : Len(dom'[b][t]) <= Len(dom[b][t]) \/ Len(dom'[b][t]) <= 1
      PROVE  AddedOnce(t)'
  <2>1. \A b \in Tabs : InQueue("added", b, t)' <=> InQueue("added", b, t)
    BY <1>q DEF InQueue, Sent
  <2>2. \A b \in Tabs : Sent(b)' = Sent(b) /\ queue'[b] = queue[b]
    BY <1>q DEF Sent
  <2> HIDE DEF Adding
  <2> QED
    BY <1>n, <1>q, <2>1, <2>2 DEF AddedOnce
\* Another frame is queued, or the frame of another target.
<1>o. ASSUME NEW name \in Names, NEW u \in Targets, name # "added" \/ u # t,
             queue' = [b \in Tabs |-> Offer(b, <<name, u>>)],
             UNCHANGED dom, Adding(t)' \subseteq Adding(t)
      PROVE  AddedOnce(t)'
  <2>1. \A b \in Tabs : InQueue("added", b, t)' <=> InQueue("added", b, t)
    BY <1>o, <1>w, OfferedFrames
  <2>2. \A b \in Tabs : \A i \in Sent(b)' :
          queue'[b][i] = <<"added", t>> => i \in Sent(b) /\ queue[b][i] = <<"added", t>>
    BY <1>o, OfferedFrames
  <2> HIDE DEF Adding
  <2> QED
    BY <1>a, <1>o, <2>1, <2>2 DEF AddedOnce
<1>1. ASSUME NEW r \in Requests, Create(r) \/ InsertFails(r) \/ InsertUnsaid(r) PROVE AddedOnce(t)'
  <2>1. Adding(t)' = Adding(t)
    BY <1>1, <1>w, DoingStep
  <2>2. UNCHANGED <<queue, dom>>
    BY <1>1 DEF Create, InsertFails, InsertUnsaid
  <2> QED
    BY <1>n, <1>q, <2>1, <2>2
<1>2. ASSUME NEW r \in Requests, Insert(r) PROVE AddedOnce(t)'
  <2>1. PICK u \in unborn : Adding(t)' = (IF t # u THEN Adding(t) ELSE {r})
    BY <1>2, <1>w, Inserted
  <2>2. UNCHANGED <<queue, dom>>
    BY <1>2 DEF Insert
  <2>3. CASE t # u
    BY <1>n, <1>q, <2>1, <2>2, <2>3
  <2>4. CASE t = u
    <3>1. \A b \in Tabs : dom'[b][t] = <<>> /\ ~InQueue("added", b, t)'
      BY <2>2, <2>4 DEF Unheard, InQueue, Sent
    <3>2. \A b \in Tabs : Sent(b)' = Sent(b) /\ queue'[b] = queue[b]
      BY <2>2 DEF Sent
    <3>3. Adding(t)' = {r} /\ \A b \in Tabs : Len(dom'[b][t]) = 0
      BY <2>1, <2>4, <3>1
    <3> HIDE DEF Adding
    <3> QED
      BY <1>a, <3>1, <3>2, <3>3 DEF AddedOnce
  <2> QED
    BY <2>3, <2>4
<1>3. ASSUME NEW r \in Requests, PublishTargetAdded(r) PROVE AddedOnce(t)'
  <2>1. job[r].id \in Targets /\ r \in Adding(job[r].id)
    BY <1>3, Jobs DEF PublishTargetAdded, Return, HasTarget, Doing
  <2>2. Adding(t)' = Adding(t) \ {r}
    BY <1>3, <1>w, DoingStep
  <2>3. queue' = [b \in Tabs |-> Offer(b, <<"added", job[r].id>>)] /\ UNCHANGED dom
    BY <1>3 DEF PublishTargetAdded, Publish
  <2>4. CASE job[r].id # t
    BY <1>o, <1>w, <2>1, <2>2, <2>3, <2>4
  <2>5. CASE job[r].id = t
    <3>1. Adding(t)' = {}
      BY <1>a, <2>1, <2>2, <2>5
    <3>2. \A b \in Tabs : \A i \in Sent(b)' :
            queue'[b][i] = <<"added", t>> => i = Len(queue[b]) + 1
      <4>1. \A b \in Tabs : \A i \in Sent(b) : queue[b][i] # <<"added", t>>
        BY <1>a, <2>1, <2>5 DEF InQueue
      <4> QED
        BY <1>w, <2>1, <2>3, <4>1, OfferedFrames
    <3>3. \A b \in Tabs : Len(dom'[b][t]) <= 1
      BY <1>a, <2>1, <2>3, <2>5
    <3>4. \A b \in Tabs : Len(dom'[b][t]) <= 2
      BY <1>a, <3>3
    <3> HIDE DEF Adding
    <3> QED
      BY <3>1, <3>2, <3>3, <3>4 DEF AddedOnce
  <2> QED
    BY <2>4, <2>5
<1>4. ASSUME NEW r \in Requests, NEW b \in Tabs, NEW u \in Targets, ClickDelete(r, b, u)
      PROVE  AddedOnce(t)'
  <2>1. Adding(t)' = Adding(t)
    BY <1>4, <1>w, DoingStep
  <2>2. UNCHANGED <<queue, dom>>
    BY <1>4 DEF ClickDelete
  <2> QED
    BY <1>n, <1>q, <2>1, <2>2
<1>5. ASSUME NEW r \in Requests, Delete(r) \/ DeleteFails(r) \/ DeleteUnsaid(r) PROVE AddedOnce(t)'
  <2>1. Adding(t)' \subseteq Adding(t)
    BY <1>5, <1>w, DoingStep
  <2>2. UNCHANGED <<queue, dom>>
    BY <1>5 DEF Delete, DeleteFails, DeleteUnsaid
  <2> QED
    BY <1>n, <1>q, <2>1, <2>2
<1>6. ASSUME NEW r \in Requests, PublishTargetRemoved(r) PROVE AddedOnce(t)'
  <2>0. job[r].id \in Targets
    BY <1>6, Goes DEF PublishTargetRemoved
  <2>1. Adding(t)' = Adding(t)
    BY <1>6, <1>w, DoingStep
  <2>2. queue' = [b \in Tabs |-> Offer(b, <<"removed", job[r].id>>)] /\ UNCHANGED dom
    BY <1>6 DEF PublishTargetRemoved, Publish
  <2> QED
    BY <1>o, <1>w, <2>0, <2>1, <2>2
<1>7. ASSUME NEW r \in Requests, Reply(r) PROVE AddedOnce(t)'
  <2>1. Adding(t)' \subseteq Adding(t) /\ UNCHANGED queue
    BY <1>7, <1>w, DoingStep DEF Reply
  <2>2. \A b \in Tabs : Len(dom'[b][t]) <= Len(dom[b][t])
    BY <1>7, ReplyRows
  <2> QED
    BY <1>q, <2>1, <2>2
<1>8. ASSUME NEW b \in Tabs, HandleIndex(b) PROVE AddedOnce(t)'
  <2>1. Adding(t)' = Adding(t) /\ UNCHANGED queue
    BY <1>8, <1>w, Reindexed DEF HandleIndex
  <2>2. \A c \in Tabs : Len(dom'[c][t]) <= Len(dom[c][t]) \/ Len(dom'[c][t]) <= 1
    <3>1. \A c \in Tabs : dom'[c][t] \in {dom[c][t], <<"pending">>, <<>>}
      BY <1>8 DEF HandleIndex, Types
    <3>2. Len(<<"pending">>) = 1 /\ Len(<<>>) = 0
      OBVIOUS
    <3>3. SUFFICES ASSUME NEW c \in Tabs
                   PROVE  Len(dom'[c][t]) <= Len(dom[c][t]) \/ Len(dom'[c][t]) <= 1
      OBVIOUS
    <3>4. CASE dom'[c][t] = dom[c][t]
      BY <1>n, <3>4
    <3>5. CASE dom'[c][t] = <<"pending">>
      BY <3>2, <3>5
    <3>6. CASE dom'[c][t] = <<>>
      BY <3>2, <3>6
    <3> QED
      BY <3>1, <3>4, <3>5, <3>6
  <2> QED
    BY <1>q, <2>1, <2>2
<1>9. ASSUME NEW b \in Tabs, Subscribe(b) PROVE AddedOnce(t)'
  <2>1. Adding(t)' = Adding(t) /\ UNCHANGED <<queue, dom>>
    BY <1>9 DEF Subscribe, Doing
  <2> QED
    BY <1>n, <1>q, <2>1
<1>10. ASSUME NEW b \in Tabs, Unsubscribe(b) PROVE AddedOnce(t)'
  <2>1. Adding(t)' = Adding(t) /\ UNCHANGED dom
    BY <1>10 DEF Unsubscribe, Doing
  <2>2. \A c \in Tabs : /\ \A i \in Sent(c)' : i \in Sent(c) /\ queue'[c][i] = queue[c][i]
                        /\ InQueue("added", c, t)' => InQueue("added", c, t)
    BY <1>10, <1>w, Ended
  <2> HIDE DEF Adding
  <2> QED
    BY <1>a, <2>1, <2>2 DEF AddedOnce
<1>11. ASSUME NEW b \in Tabs, Swap(b) PROVE AddedOnce(t)'
  <2>1. Adding(t)' = Adding(t)
    BY <1>11 DEF Swap, Doing
  <2>2. \A c \in Tabs \ {b} : /\ queue'[c] = queue[c] /\ dom'[c] = dom[c] /\ Sent(c)' = Sent(c)
                              /\ InQueue("added", c, t)' <=> InQueue("added", c, t)
    BY <1>11, Taken DEF Sent, InQueue
  <2>3. InQueue("added", b, t)' => InQueue("added", b, t)
    BY <1>11, <1>w, TakenFrames
  <2>4. \A i, j \in Sent(b)' :
          queue'[b][i] = <<"added", t>> /\ queue'[b][j] = <<"added", t>> => i = j
    <3>1. \A i \in Sent(b)' : i \in Nat /\ i + 1 \in Sent(b) /\ queue'[b][i] = queue[b][i + 1]
      BY <1>11, Taken DEF Sent
    <3> QED
      BY <1>a, <3>1
  <2>5. CASE queue[b][1] = <<"added", t>>
    <3>1. InQueue("added", b, t) /\ Len(dom'[b][t]) = Len(dom[b][t]) + 1
      BY <1>11, <2>5, Taken, TakenRows DEF InQueue
    <3>2. Adding(t) = {} /\ Len(dom'[b][t]) <= 2
      BY <1>a, <1>n, <3>1
    <3>3. ~InQueue("added", b, t)'
      <4>1. \A i \in Sent(b)' : i \in 1..Len(queue'[b]) /\ i + 1 \in Sent(b) /\ queue'[b][i] = queue[b][i + 1]
        BY <1>11, Taken DEF Sent
      <4>2. \A i \in Sent(b)' : i + 1 # 1
        BY <4>1
      <4>3. 1 \in Sent(b)
        BY <1>11, Taken
      <4>4. \A i \in Sent(b)' : queue'[b][i] # <<"added", t>>
        BY <1>a, <2>5, <4>1, <4>2, <4>3
      <4> QED
        BY <4>4 DEF InQueue
    <3> HIDE DEF Adding
    <3> QED
      BY <1>a, <2>1, <2>2, <2>4, <3>2, <3>3 DEF AddedOnce
  <2>6. CASE queue[b][1] # <<"added", t>>
    <3>1. Len(dom'[b][t]) <= Len(dom[b][t])
      BY <1>11, <2>6, SwapRows
    <3> HIDE DEF Adding
    <3> QED
      BY <1>a, <1>n, <2>1, <2>2, <2>3, <2>4, <3>1 DEF AddedOnce
  <2> QED
    BY <2>5, <2>6
<1>12. ASSUME NEW u \in Targets, NEW status \in {"up", "down"}, PublishCheck(u, status)
       PROVE  AddedOnce(t)'
  <2>1. Adding(t)' = Adding(t) /\ UNCHANGED dom
    BY <1>12 DEF PublishCheck, Doing
  <2> QED
    BY <1>12, <1>o, <1>w, <2>1 DEF PublishCheck
<1>13. CASE UNCHANGED vars
  <2>1. Adding(t)' = Adding(t) /\ UNCHANGED <<queue, dom>>
    BY <1>13 DEF vars, Doing
  <2> QED
    BY <1>n, <1>q, <2>1
<1> QED
  BY <1>1, <1>2, <1>3, <1>4, <1>5, <1>6, <1>7, <1>8, <1>9, <1>10, <1>11, <1>12, <1>13 DEF Next

-----------------------------------------------------------------------------
\* A target is deleted once: the statement finds its row once, and the handler
\* that has found it publishes the one frame.
LEMMA RemovedStep ==
  ASSUME Types, \A u \in unborn : Unheard(u), [Next]_vars, NEW t \in Targets, RemovedOnce(t)
  PROVE  RemovedOnce(t)'
<1> USE DEF Removing, Deleted
<1>a. /\ \A q, r \in Deleted(t) : q = r
      /\ Deleted(t) # {} => t \notin rows
      /\ \A b \in Tabs : InQueue("removed", b, t) => t \notin rows /\ Removing(t) = {}
  BY DEF RemovedOnce
<1>w. /\ "added" \in Ways /\ "removed" \in Ways /\ "reply" \in Ways
      /\ "added" \in Names /\ "removed" \in Names /\ "up" \in Names /\ "down" \in Names
  BY DEF Ways, Names
<1>q. ASSUME t \in rows' => t \in rows,
             \A a \in Ways : Doing(a, t)' \subseteq Doing(a, t),
             \A b \in Tabs : InQueue("removed", b, t)' => InQueue("removed", b, t)
      PROVE  RemovedOnce(t)'
  BY <1>a, <1>q, <1>w DEF RemovedOnce
<1>s. ASSUME UNCHANGED queue
      PROVE  \A b \in Tabs : InQueue("removed", b, t)' => InQueue("removed", b, t)
  BY <1>s DEF InQueue, Sent
<1>o. ASSUME NEW name \in Names, NEW u \in Targets, name # "removed" \/ u # t,
             queue' = [b \in Tabs |-> Offer(b, <<name, u>>)]
      PROVE  \A b \in Tabs : InQueue("removed", b, t)' => InQueue("removed", b, t)
  BY <1>o, <1>w, OfferedFrames
<1>1. ASSUME NEW r \in Requests, Create(r) \/ InsertFails(r) PROVE RemovedOnce(t)'
  <2>1. \A a \in Ways : Doing(a, t)' = Doing(a, t)
    BY <1>1, DoingStep
  <2>2. UNCHANGED <<rows, queue>>
    BY <1>1 DEF Create, InsertFails
  <2> QED
    BY <1>q, <1>s, <2>1, <2>2
\* The target that is inserted is one nothing has been heard of.
<1>b. ASSUME NEW u \in unborn, rows' = rows \union {u}, UNCHANGED queue,
             \A a \in {"removed", "reply"} : Doing(a, t)' \subseteq Doing(a, t)
      PROVE  RemovedOnce(t)'
  <2>1. CASE t # u
    BY <1>a, <1>b, <1>s, <2>1 DEF RemovedOnce
  <2>2. CASE t = u
    <3>1. Unheard(t) /\ t \in unborn
      BY <1>b, <2>2
    <3>2. Deleted(t)' = {}
      BY <1>b, <1>w, <3>1, UnheardIdle
    <3>3. \A b \in Tabs : ~InQueue("removed", b, t)
      BY <3>1 DEF Unheard, InQueue
    <3> QED
      BY <1>b, <1>s, <3>2, <3>3 DEF RemovedOnce
  <2> QED
    BY <2>1, <2>2
<1>2. ASSUME NEW r \in Requests, Insert(r) PROVE RemovedOnce(t)'
  <2>1. PICK u \in unborn :
          /\ rows' = rows \union {u}
          /\ \A a \in Ways :
               Doing(a, t)' = (IF t # u THEN Doing(a, t) ELSE IF a = "added" THEN {r} ELSE {})
    BY <1>2, Inserted
  <2>2. UNCHANGED queue
    BY <1>2 DEF Insert
  <2>3. \A a \in {"removed", "reply"} : Doing(a, t)' \subseteq Doing(a, t)
    BY <1>w, <2>1
  <2> QED
    BY <1>b, <2>1, <2>2, <2>3
<1>3. ASSUME NEW r \in Requests, InsertUnsaid(r) PROVE RemovedOnce(t)'
  <2>1. PICK u \in unborn : rows' = rows \union {u}
    BY <1>3 DEF InsertUnsaid
  <2>2. UNCHANGED queue
    BY <1>3 DEF InsertUnsaid
  <2>3. \A a \in {"removed", "reply"} : Doing(a, t)' = Doing(a, t)
    BY <1>3, <1>w, DoingStep
  <2> QED
    BY <1>b, <2>1, <2>2, <2>3
<1>4. ASSUME NEW r \in Requests, PublishTargetAdded(r) PROVE RemovedOnce(t)'
  <2>1. job[r].id \in Targets
    BY <1>4, Jobs DEF PublishTargetAdded, Return, HasTarget
  <2>2. \A a \in Ways : Doing(a, t)' \subseteq Doing(a, t)
    BY <1>4, DoingStep
  <2>3. queue' = [b \in Tabs |-> Offer(b, <<"added", job[r].id>>)] /\ UNCHANGED rows
    BY <1>4 DEF PublishTargetAdded, Publish
  <2>4. \A b \in Tabs : InQueue("removed", b, t)' => InQueue("removed", b, t)
    BY <1>o, <1>w, <2>1, <2>3
  <2> QED
    BY <1>q, <2>2, <2>3, <2>4
<1>5. ASSUME NEW r \in Requests, NEW b \in Tabs, NEW u \in Targets, ClickDelete(r, b, u)
      PROVE  RemovedOnce(t)'
  <2>1. \A a \in Ways : Doing(a, t)' = Doing(a, t)
    BY <1>5, DoingStep
  <2>2. UNCHANGED <<rows, queue>>
    BY <1>5 DEF ClickDelete
  <2> QED
    BY <1>q, <1>s, <2>1, <2>2
<1>6. ASSUME NEW r \in Requests, Delete(r) PROVE RemovedOnce(t)'
  <2>1. job[r].id \in rows /\ rows' = rows \ {job[r].id} /\ UNCHANGED queue
    BY <1>6 DEF Delete
  <2>2. \A a \in Ways :
          Doing(a, t)' = (IF a = "removed" /\ t = job[r].id THEN Doing(a, t) \union {r}
                          ELSE Doing(a, t))
    BY <1>6, DoingStep
  <2>3. CASE job[r].id # t
    BY <1>q, <1>s, <2>1, <2>2, <2>3
  <2>4. CASE job[r].id = t
    <3>1. Deleted(t) = {} /\ \A b \in Tabs : ~InQueue("removed", b, t)
      BY <1>a, <2>1, <2>4
    <3>2. Deleted(t)' = {r} /\ t \notin rows'
      BY <1>w, <2>1, <2>2, <2>4, <3>1
    <3> QED
      BY <1>s, <2>1, <3>1, <3>2 DEF RemovedOnce
  <2> QED
    BY <2>3, <2>4
<1>7. ASSUME NEW r \in Requests, DeleteFails(r) \/ DeleteUnsaid(r) PROVE RemovedOnce(t)'
  <2>1. \A a \in Ways : Doing(a, t)' \subseteq Doing(a, t)
    BY <1>7, DoingStep
  <2>2. UNCHANGED queue /\ rows' \subseteq rows
    BY <1>7 DEF DeleteFails, DeleteUnsaid
  <2> QED
    BY <1>q, <1>s, <2>1, <2>2
<1>8. ASSUME NEW r \in Requests, PublishTargetRemoved(r) PROVE RemovedOnce(t)'
  <2>1. job[r].id \in Targets /\ r \in Removing(job[r].id)
    BY <1>8, Goes DEF PublishTargetRemoved
  <2>2. \A a \in Ways :
          Doing(a, t)' = (IF a = "reply" /\ t = job[r].id THEN Doing(a, t) \union {r}
                          ELSE IF a = "removed" THEN Doing(a, t) \ {r} ELSE Doing(a, t))
    BY <1>8, DoingStep
  <2>3. queue' = [b \in Tabs |-> Offer(b, <<"removed", job[r].id>>)] /\ UNCHANGED rows
    BY <1>8 DEF PublishTargetRemoved, Publish
  <2>4. CASE job[r].id # t
    <3>1. \A b \in Tabs : InQueue("removed", b, t)' => InQueue("removed", b, t)
      BY <1>o, <1>w, <2>1, <2>3, <2>4
    <3> QED
      BY <1>q, <2>2, <2>3, <2>4, <3>1
  <2>5. CASE job[r].id = t
    <3>1. Removing(t) \subseteq {r} /\ t \notin rows
      BY <1>a, <2>1, <2>5
    <3>2. Removing(t)' = {} /\ Deleted(t)' = Deleted(t)
      BY <1>w, <2>1, <2>2, <2>5, <3>1
    <3> HIDE DEF Removing, Deleted
    <3> QED
      BY <1>a, <2>3, <3>1, <3>2 DEF RemovedOnce
  <2> QED
    BY <2>4, <2>5
<1>9. ASSUME NEW r \in Requests, Reply(r) PROVE RemovedOnce(t)'
  <2>1. \A a \in Ways : Doing(a, t)' \subseteq Doing(a, t)
    BY <1>9, DoingStep
  <2>2. UNCHANGED <<rows, queue>>
    BY <1>9 DEF Reply
  <2> QED
    BY <1>q, <1>s, <2>1, <2>2
<1>10. ASSUME NEW b \in Tabs, HandleIndex(b) PROVE RemovedOnce(t)'
  <2>1. \A a \in Ways : Doing(a, t)' = Doing(a, t)
    BY <1>10, Reindexed DEF HandleIndex
  <2>2. UNCHANGED <<rows, queue>>
    BY <1>10 DEF HandleIndex
  <2> QED
    BY <1>q, <1>s, <2>1, <2>2
<1>j. ASSUME UNCHANGED <<rows, job>>,
             \A b \in Tabs : InQueue("removed", b, t)' => InQueue("removed", b, t)
      PROVE  RemovedOnce(t)'
  <2>1. \A a \in Ways : Doing(a, t)' = Doing(a, t)
    BY <1>j DEF Doing
  <2> QED
    BY <1>q, <1>j, <2>1
<1>11. ASSUME NEW b \in Tabs, Subscribe(b) PROVE RemovedOnce(t)'
  BY <1>11, <1>j, <1>s DEF Subscribe
<1>12. ASSUME NEW b \in Tabs, Unsubscribe(b) PROVE RemovedOnce(t)'
  <2>1. \A c \in Tabs : InQueue("removed", c, t)' => InQueue("removed", c, t)
    BY <1>12, <1>w, Ended
  <2> QED
    BY <1>12, <1>j, <2>1 DEF Unsubscribe
<1>13. ASSUME NEW b \in Tabs, Swap(b) PROVE RemovedOnce(t)'
  <2>1. \A c \in Tabs \ {b} : queue'[c] = queue[c]
    BY <1>13, Taken
  <2>2. \A c \in Tabs : InQueue("removed", c, t)' => InQueue("removed", c, t)
    BY <1>13, <1>w, <2>1, TakenFrames DEF InQueue, Sent
  <2> QED
    BY <1>13, <1>j, <2>2 DEF Swap
<1>14. ASSUME NEW u \in Targets, NEW status \in {"up", "down"}, PublishCheck(u, status)
       PROVE  RemovedOnce(t)'
  <2>1. \A c \in Tabs : InQueue("removed", c, t)' => InQueue("removed", c, t)
    BY <1>14, <1>o, <1>w DEF PublishCheck
  <2> QED
    BY <1>14, <1>j, <2>1 DEF PublishCheck
<1>15. CASE UNCHANGED vars
  BY <1>15, <1>j, <1>s DEF vars
<1> QED
  BY <1>1, <1>2, <1>3, <1>4, <1>5, <1>6, <1>7, <1>8, <1>9, <1>10, <1>11, <1>12, <1>13, <1>14,
     <1>15 DEF Next

-----------------------------------------------------------------------------
\* What a tab shows of a target follows from what it is still to be told.
LEMMA FollowsStep ==
  ASSUME Types, Types', \A u \in unborn : Unheard(u), LiveInv, AgreeInv, [Next]_vars,
         NEW t \in Targets, AddedOnce(t), RemovedOnce(t),
         NEW b \in Tabs, t \in seen'[b] \ (unsaid' \union overtaken')
  PROVE  Follows(b, t)'
<1>w. /\ "added" \in Ways /\ "removed" \in Ways /\ "reply" \in Ways
      /\ "added" \in Names /\ "removed" \in Names /\ "up" \in Names /\ "down" \in Names
  BY DEF Ways, Names
<1>n. Len(dom[b][t]) \in Nat /\ Len(dom'[b][t]) \in Nat /\ Len(queue[b]) \in Nat
  BY DEF Types
<1>a. t \in seen[b] /\ t \notin unsaid /\ t \notin overtaken =>
        /\ Follows(b, t)
        /\ Adding(t) # {} => t \in rows
        /\ Coming(b, t) => dom[b][t] = <<>>
        /\ Len(dom[b][t]) <= 1
        /\ \A i, j \in Sent(b) : queue[b][i] = <<"added", t>> /\ queue[b][j] = <<"removed", t>> => i < j
        /\ ~InQueue("removed", b, t) /\ Coming(b, t) => Stays(t)
        /\ ~InQueue("removed", b, t) /\ ~Coming(b, t) =>
             Len(dom[b][t]) = (IF Stays(t) THEN 1 ELSE 0)
  BY DEF AgreeInv, Follows
<1>r. /\ \A q, r \in Deleted(t) : q = r
      /\ Deleted(t) # {} => t \notin rows
      /\ InQueue("removed", b, t) => t \notin rows /\ Removing(t) = {}
  BY DEF RemovedOnce
\* A step that changes nothing the tab or the target has to do with.
<1>q. ASSUME t \in seen[b], t \notin unsaid, t \notin overtaken,
             queue'[b] = queue[b], dom'[b][t] = dom[b][t],
             Adding(t)' = Adding(t), Removing(t)' = Removing(t), t \in rows' <=> t \in rows
      PROVE  Follows(b, t)'
  <2>1. /\ Coming(b, t)' <=> Coming(b, t)
        /\ InQueue("removed", b, t)' <=> InQueue("removed", b, t)
        /\ Sent(b)' = Sent(b)
    BY <1>q DEF Coming, InQueue, Sent
  <2>2. Stays(t)' <=> Stays(t)
    BY <1>q DEF Stays
  <2> QED
    BY <1>a, <1>q, <2>1, <2>2 DEF Follows
<1>j. ASSUME UNCHANGED job PROVE Adding(t)' = Adding(t) /\ Removing(t)' = Removing(t)
  BY <1>j DEF Adding, Removing, Doing
<1>d. ASSUME \A a \in {"added", "removed"} : Doing(a, t)' = Doing(a, t)
      PROVE  Adding(t)' = Adding(t) /\ Removing(t)' = Removing(t)
  BY <1>d DEF Adding, Removing
\* A frame for another target is queued, or a status.
<1>o. ASSUME t \in seen[b], t \notin unsaid, t \notin overtaken,
             NEW name \in Names, NEW u \in Targets, u # t \/ name \notin {"added", "removed"},
             queue' = [c \in Tabs |-> Offer(c, <<name, u>>)], dom' = dom,
             Adding(t)' = Adding(t), Removing(t)' = Removing(t), t \in rows' <=> t \in rows
      PROVE  Follows(b, t)'
  <2>1. \A n \in {"added", "removed"} : InQueue(n, b, t)' <=> InQueue(n, b, t)
    BY <1>o, <1>w, OfferedFrames
  <2>2. \A i \in Sent(b)' : \A n \in {"added", "removed"} :
          queue'[b][i] = <<n, t>> => i \in Sent(b) /\ queue[b][i] = <<n, t>>
    BY <1>o, OfferedFrames
  <2>3. (Coming(b, t)' <=> Coming(b, t)) /\ (Stays(t)' <=> Stays(t))
    BY <1>o, <2>1 DEF Coming, Stays
  <2> QED
    BY <1>a, <1>o, <2>1, <2>2, <2>3 DEF Follows
<1>1. ASSUME NEW r \in Requests, Create(r) \/ InsertFails(r) \/ DeleteFails(r) PROVE Follows(b, t)'
  <2>1. \A a \in {"added", "removed"} : Doing(a, t)' = Doing(a, t)
    <3>1. CASE Create(r) \/ InsertFails(r)
      BY <1>w, <3>1, DoingStep
    <3>2. CASE DeleteFails(r)
      <4>1. \A a \in {"added", "removed"} : r \notin Doing(a, t)
        BY <3>2 DEF DeleteFails, Return, Doing
      <4>2. \A a \in {"added", "removed"} : Doing(a, t)' = Doing(a, t) \ {r}
        BY <1>w, <3>2, DoingStep
      <4> QED
        BY <4>1, <4>2
    <3> QED
      BY <1>1, <3>1, <3>2
  <2>2. UNCHANGED <<rows, queue, dom, seen, unsaid, overtaken>>
    BY <1>1 DEF Create, InsertFails, DeleteFails
  <2> QED
    BY <1>d, <1>q, <2>1, <2>2
<1>2. ASSUME NEW r \in Requests, Insert(r) PROVE Follows(b, t)'
  <2>1. PICK u \in unborn :
          /\ rows' = rows \union {u}
          /\ \A c \in Tabs : seen'[c] = (IF page[c] = "live" THEN seen[c] \union {u} ELSE seen[c])
          /\ \A a \in Ways :
               Doing(a, t)' = (IF t # u THEN Doing(a, t) ELSE IF a = "added" THEN {r} ELSE {})
    BY <1>2, Inserted
  <2>2. UNCHANGED <<queue, dom, unsaid, overtaken>>
    BY <1>2 DEF Insert
  <2>3. CASE t # u
    <3>1. t \in seen[b] /\ (t \in rows' <=> t \in rows)
      BY <2>1, <2>3
    <3>2. \A a \in {"added", "removed"} : Doing(a, t)' = Doing(a, t)
      BY <1>w, <2>1, <2>3
    <3> QED
      BY <1>d, <1>q, <2>2, <3>1, <3>2
  <2>4. CASE t = u
    <3>1. dom'[b][t] = <<>> /\ \A i \in Sent(b)' : queue'[b][i][2] # t
      BY <2>2, <2>4 DEF Unheard, Sent
    <3>2. Adding(t)' = {r} /\ t \in rows'
      BY <1>w, <2>1, <2>4 DEF Adding
    <3>3. Coming(b, t)' /\ Stays(t)' /\ Len(dom'[b][t]) = 0
      BY <3>1, <3>2 DEF Coming, Stays
    <3> QED
      BY <3>1, <3>2, <3>3 DEF Follows
  <2> QED
    BY <2>3, <2>4
<1>3. ASSUME NEW r \in Requests, InsertUnsaid(r) PROVE Follows(b, t)'
  <2>1. PICK u \in unborn : rows' = rows \union {u} /\ unsaid' = unsaid \union {u}
    BY <1>3 DEF InsertUnsaid
  <2>2. \A a \in {"added", "removed"} : Doing(a, t)' = Doing(a, t)
    BY <1>3, <1>w, DoingStep
  <2>3. UNCHANGED <<queue, dom, seen, overtaken>>
    BY <1>3 DEF InsertUnsaid
  <2>4. t \notin unsaid /\ (t \in rows' <=> t \in rows)
    BY <2>1
  <2> QED
    BY <1>d, <1>q, <2>2, <2>3, <2>4
<1>4. ASSUME NEW r \in Requests, PublishTargetAdded(r) PROVE Follows(b, t)'
  <2>1. job[r].id \in Targets /\ r \in Adding(job[r].id) /\ \A u \in Targets : r \notin Removing(u)
    BY <1>4, Jobs DEF PublishTargetAdded, Return, HasTarget, Doing, Adding, Removing
  <2>2. \A a \in Ways : Doing(a, t)' = Doing(a, t) \ {r}
    BY <1>4, DoingStep
  <2>3. /\ queue' = [c \in Tabs |-> Offer(c, <<"added", job[r].id>>)]
        /\ seen'[b] = (IF HasRoom(b) THEN seen[b] ELSE seen[b] \ {job[r].id})
        /\ UNCHANGED <<rows, dom, unsaid, overtaken>>
    BY <1>4 DEF PublishTargetAdded, Publish
  <2>4. t \in seen[b] /\ t \notin unsaid /\ t \notin overtaken /\ Removing(t)' = Removing(t)
    BY <1>w, <2>1, <2>2, <2>3 DEF Removing
  <2>5. CASE job[r].id # t
    <3>1. Adding(t)' = Adding(t)
      BY <1>4, <1>w, <2>2, <2>5 DEF PublishTargetAdded, Return, Adding, Doing
    <3> QED
      BY <1>o, <1>w, <2>1, <2>3, <2>4, <2>5, <3>1
  <2>6. CASE job[r].id = t
    <3>1. HasRoom(b)
      BY <2>3, <2>6
    <3>2. Adding(t)' = {}
      BY <1>w, <2>1, <2>2, <2>6 DEF AddedOnce, Adding
    <3>3. t \in rows /\ ~InQueue("removed", b, t) /\ Coming(b, t)
      BY <1>a, <1>r, <2>1, <2>4, <2>6 DEF Coming
    <3>4. InQueue("added", b, t)' /\ ~InQueue("removed", b, t)'
      BY <1>w, <2>1, <2>3, <2>6, <3>1, <3>3, OfferedFrames
    <3>5. dom'[b][t] = <<>> /\ Coming(b, t)' /\ Stays(t)'
      BY <1>a, <2>3, <2>4, <3>3, <3>4 DEF Coming, Stays
    <3>6. \A j \in Sent(b)' : queue'[b][j] # <<"removed", t>>
      BY <3>4 DEF InQueue
    <3> QED
      BY <3>2, <3>4, <3>5, <3>6 DEF Follows
  <2> QED
    BY <2>5, <2>6
<1>5. ASSUME NEW r \in Requests, NEW c \in Tabs, NEW u \in Targets, ClickDelete(r, c, u)
      PROVE  Follows(b, t)'
  <2>1. \A a \in {"added", "removed"} : Doing(a, t)' = Doing(a, t)
    BY <1>5, <1>w, DoingStep
  <2>2. UNCHANGED <<rows, queue, dom, seen, unsaid, overtaken>>
    BY <1>5 DEF ClickDelete
  <2> QED
    BY <1>d, <1>q, <2>1, <2>2
\* The one that is deleted has been announced, or it would be overtaken.
<1>6. ASSUME NEW r \in Requests, Delete(r) PROVE Follows(b, t)'
  <2>1. /\ job[r].id \in rows /\ rows' = rows \ {job[r].id} /\ UNCHANGED <<queue, dom, seen, unsaid>>
        /\ overtaken' = IF \E q \in Requests : job[q].at = "added" /\ job[q].id = job[r].id
                          THEN overtaken \union {job[r].id} ELSE overtaken
    BY <1>6 DEF Delete
  <2>2. \A a \in Ways :
          Doing(a, t)' = (IF a = "removed" /\ t = job[r].id THEN Doing(a, t) \union {r}
                          ELSE Doing(a, t))
    BY <1>6, DoingStep
  <2>3. t \in seen[b] /\ t \notin unsaid /\ t \notin overtaken
    BY <2>1
  <2>4. CASE job[r].id # t
    <3>1. \A a \in {"added", "removed"} : Doing(a, t)' = Doing(a, t)
      BY <1>w, <2>2, <2>4
    <3> QED
      BY <1>d, <1>q, <2>1, <2>3, <2>4, <3>1
  <2>5. CASE job[r].id = t
    <3>1. Adding(t) = {} /\ Adding(t)' = {}
      BY <1>w, <2>1, <2>2, <2>5 DEF Adding, Doing
    <3>2. Stays(t) /\ Stays(t)'
      BY <1>w, <2>1, <2>2, <2>5 DEF Stays, Removing
    <3>3. /\ Coming(b, t)' <=> Coming(b, t)
          /\ InQueue("removed", b, t)' <=> InQueue("removed", b, t)
          /\ Sent(b)' = Sent(b)
      BY <2>1, <3>1 DEF Coming, InQueue, Sent
    <3> QED
      BY <1>a, <2>1, <2>3, <3>1, <3>2, <3>3 DEF Follows
  <2> QED
    BY <2>4, <2>5
<1>7. ASSUME NEW r \in Requests, DeleteUnsaid(r) PROVE Follows(b, t)'
  <2>1. /\ rows' = rows \ {job[r].id} /\ unsaid' = unsaid \union {job[r].id}
        /\ UNCHANGED <<queue, dom, seen, overtaken>>
    BY <1>7 DEF DeleteUnsaid
  <2>2. \A a \in {"added", "removed"} : Doing(a, t)' = Doing(a, t)
    <3>1. \A a \in {"added", "removed"} : r \notin Doing(a, t)
      BY <1>7 DEF DeleteUnsaid, Return, Doing
    <3>2. \A a \in {"added", "removed"} : Doing(a, t)' = Doing(a, t) \ {r}
      BY <1>7, <1>w, DoingStep
    <3> QED
      BY <3>1, <3>2
  <2> QED
    BY <1>d, <1>q, <2>1, <2>2
<1>8. ASSUME NEW r \in Requests, PublishTargetRemoved(r) PROVE Follows(b, t)'
  <2>1. job[r].id \in Targets /\ r \in Removing(job[r].id)
    BY <1>8, Goes DEF PublishTargetRemoved, Removing
  <2>2. \A a \in Ways :
          Doing(a, t)' = (IF a = "reply" /\ t = job[r].id THEN Doing(a, t) \union {r}
                          ELSE IF a = "removed" THEN Doing(a, t) \ {r} ELSE Doing(a, t))
    BY <1>8, DoingStep
  <2>3. /\ queue' = [c \in Tabs |-> Offer(c, <<"removed", job[r].id>>)]
        /\ seen'[b] = (IF HasRoom(b) THEN seen[b] ELSE seen[b] \ {job[r].id})
        /\ UNCHANGED <<rows, dom, unsaid, overtaken>>
    BY <1>8 DEF PublishTargetRemoved, Publish
  <2>4. t \in seen[b] /\ t \notin unsaid /\ t \notin overtaken /\ Adding(t)' = Adding(t)
    BY <1>w, <2>2, <2>3 DEF Adding
  <2>5. CASE job[r].id # t
    <3>1. Removing(t)' = Removing(t)
      BY <1>8, <1>w, <2>2, <2>5 DEF PublishTargetRemoved, Goto, Removing, Doing
    <3> QED
      BY <1>o, <1>w, <2>1, <2>3, <2>4, <2>5, <3>1
  <2>6. CASE job[r].id = t
    <3>1. HasRoom(b)
      BY <2>3, <2>6
    <3>2. t \notin rows /\ Adding(t) = {} /\ ~InQueue("removed", b, t)
      BY <1>a, <1>r, <2>1, <2>4, <2>6 DEF Deleted
    <3>3. InQueue("removed", b, t)' /\ (InQueue("added", b, t)' <=> InQueue("added", b, t))
      BY <1>w, <2>1, <2>3, <2>6, <3>1, OfferedFrames
    <3>4. Coming(b, t)' <=> Coming(b, t)
      BY <2>4, <3>3 DEF Coming
    <3>5. \A i \in Sent(b)' :
            /\ queue'[b][i] = <<"added", t>> => i \in Sent(b)
            /\ queue'[b][i] = <<"removed", t>> => i = Len(queue[b]) + 1
      <4>1. \A i \in Sent(b) : queue[b][i] # <<"removed", t>>
        BY <3>2 DEF InQueue
      <4> QED
        BY <1>w, <2>1, <2>3, <2>6, <4>1, OfferedFrames
    <3>6. \A i \in Sent(b) : i < Len(queue[b]) + 1
      BY <1>n DEF Sent
    <3> QED
      BY <1>a, <2>3, <2>4, <3>2, <3>3, <3>4, <3>5, <3>6 DEF Follows
  <2> QED
    BY <2>5, <2>6
\* The answer finds a row that the frame has not removed yet, or none.
<1>9. ASSUME NEW r \in Requests, Reply(r) PROVE Follows(b, t)'
  <2>1. r \in Doing("reply", job[r].id) /\ job[r].id \in Targets
    BY <1>9, Jobs DEF Reply, Return, HasTarget, Doing
  <2>2. \A a \in {"added", "removed"} : Doing(a, t)' = Doing(a, t)
    <3>1. \A a \in {"added", "removed"} : r \notin Doing(a, t)
      BY <1>9 DEF Reply, Return, Doing
    <3>2. \A a \in {"added", "removed"} : Doing(a, t)' = Doing(a, t) \ {r}
      BY <1>9, <1>w, DoingStep
    <3> QED
      BY <3>1, <3>2
  <2>3. UNCHANGED <<rows, queue, seen, unsaid, overtaken>>
    BY <1>9 DEF Reply
  <2>4. CASE dom'[b][t] = dom[b][t]
    BY <1>d, <1>q, <2>2, <2>3, <2>4
  <2>5. CASE t = job[r].id /\ dom[b][t] # <<>> /\ Len(dom'[b][t]) = Len(dom[b][t]) - 1
    <3>1. r \in Deleted(t) /\ r \notin Removing(t)
      BY <2>1, <2>5 DEF Deleted, Removing, Doing
    <3>2. t \notin rows /\ Removing(t) = {}
      BY <1>r, <3>1 DEF Deleted
    <3>3. ~Stays(t) /\ ~Coming(b, t)
      BY <1>a, <2>3, <2>5, <3>2 DEF Stays
    <3>4. Len(dom[b][t]) # 0
      BY <2>5 DEF Types
    <3>5. InQueue("removed", b, t)
      BY <1>a, <2>3, <3>3, <3>4
    <3>6. /\ InQueue("removed", b, t)' /\ ~Coming(b, t)' /\ Adding(t)' = {} /\ Sent(b)' = Sent(b)
      BY <1>d, <2>2, <2>3, <3>3, <3>5 DEF InQueue, Coming, Sent
    <3>7. Len(dom'[b][t]) <= 1
      BY <1>a, <1>n, <2>3, <2>5
    <3> QED
      BY <1>a, <2>3, <3>6, <3>7 DEF Follows
  <2> QED
    BY <1>9, <2>4, <2>5, ReplyRows
<1>10. ASSUME NEW c \in Tabs, HandleIndex(c) PROVE Follows(b, t)'
  <2>1. c # b
    BY <1>10 DEF HandleIndex, LiveInv
  <2>2. \A a \in {"added", "removed"} : Doing(a, t)' = Doing(a, t)
    BY <1>10, <1>w, Reindexed DEF HandleIndex
  <2>3. dom'[b][t] = dom[b][t] /\ UNCHANGED <<rows, queue, seen, unsaid, overtaken>>
    BY <1>10, <2>1 DEF HandleIndex, Types
  <2> QED
    BY <1>d, <1>q, <2>2, <2>3
<1>11. ASSUME NEW c \in Tabs, Subscribe(c) PROVE Follows(b, t)'
  BY <1>11, <1>j, <1>q DEF Subscribe
<1>12. ASSUME NEW c \in Tabs, Unsubscribe(c) PROVE Follows(b, t)'
  <2>1. c # b
    BY <1>12 DEF Unsubscribe, Types
  <2>2. queue'[b] = queue[b] /\ seen'[b] = seen[b] /\ UNCHANGED <<rows, job, dom, unsaid, overtaken>>
    BY <1>12, <2>1 DEF Unsubscribe, Types
  <2> QED
    BY <1>j, <1>q, <2>2
<1>13. ASSUME NEW c \in Tabs, Swap(c) PROVE Follows(b, t)'
  <2>1. UNCHANGED <<rows, job, seen, unsaid, overtaken>>
    BY <1>13 DEF Swap
  <2>2. CASE c # b
    <3>1. queue'[b] = queue[b] /\ dom'[b] = dom[b]
      BY <1>13, <2>2, Taken
    <3> QED
      BY <1>j, <1>q, <2>1, <3>1
  <2>3. CASE c = b
    <3> DEFINE head == queue[b][1]
    <3>0. Swap(b)
      BY <1>13, <2>3
    <3>1. /\ Adding(t)' = Adding(t) /\ Removing(t)' = Removing(t) /\ (Stays(t)' <=> Stays(t))
          /\ t \in seen[b] /\ t \notin unsaid /\ t \notin overtaken
      BY <1>j, <2>1 DEF Stays
    <3>2. \A n \in {"added", "removed"} :
            /\ InQueue(n, b, t)' => InQueue(n, b, t)
            /\ InQueue(n, b, t) => InQueue(n, b, t)' \/ head = <<n, t>>
      BY <1>w, <3>0, TakenFrames
    <3>3. /\ 1 \in Sent(b)
          /\ \A i \in Sent(b)' : i \in Nat /\ i + 1 \in Sent(b) /\ i + 1 # 1 /\ queue'[b][i] = queue[b][i + 1]
      <4>1. \A i \in Sent(b)' : i \in 1..Len(queue'[b])
        BY DEF Sent
      <4>2. \A i \in Sent(b)' : i \in Nat /\ i + 1 # 1
        BY <4>1
      <4> QED
        BY <3>0, <4>2, Taken
    <3>4. \A i, j \in Sent(b)' :
            queue'[b][i] = <<"added", t>> /\ queue'[b][j] = <<"removed", t>> => i < j
      <4> SUFFICES ASSUME NEW i \in Sent(b)', NEW j \in Sent(b)',
                          queue'[b][i] = <<"added", t>>, queue'[b][j] = <<"removed", t>>
                   PROVE  i < j
        OBVIOUS
      <4>1. i + 1 < j + 1 /\ i \in Nat /\ j \in Nat
        BY <1>a, <3>1, <3>3
      <4> QED
        BY <4>1
    <3>5. CASE head = <<"added", t>>
      <4>1. InQueue("added", b, t) /\ Coming(b, t)
        BY <3>3, <3>5 DEF InQueue, Coming
      <4>2. Adding(t) = {}
        BY <4>1 DEF AddedOnce
      <4>3. ~InQueue("added", b, t)'
        <5>1. \A i \in Sent(b)' : queue'[b][i] # <<"added", t>>
          BY <3>3, <3>5 DEF AddedOnce
        <5> QED
          BY <5>1 DEF InQueue
      <4>4. ~Coming(b, t)'
        BY <3>1, <4>2, <4>3 DEF Coming
      <4>5. Len(dom'[b][t]) = 1
        <5>1. Len(dom[b][t]) = 0 /\ Len(dom'[b][t]) = Len(dom[b][t]) + 1
          BY <1>a, <3>0, <3>1, <3>5, <4>1, TakenRows
        <5> QED
          BY <5>1
      <4>6. ~InQueue("removed", b, t)' => Stays(t)'
        BY <1>a, <3>1, <3>2, <3>5, <4>1
      <4> QED
        BY <3>1, <3>4, <4>2, <4>4, <4>5, <4>6 DEF Follows
    <3>6. CASE head = <<"removed", t>>
      <4>1. InQueue("removed", b, t)
        BY <3>3, <3>6 DEF InQueue
      <4>2. ~Stays(t) /\ Adding(t) = {}
        BY <1>a, <1>r, <3>1, <4>1 DEF Stays
      <4>3. ~InQueue("added", b, t)
        <5>1. \A i \in Sent(b) : queue[b][i] = <<"added", t>> => i < 1 /\ i \in 1..Len(queue[b])
          BY <1>a, <3>1, <3>3, <3>6 DEF Sent
        <5> QED
          BY <5>1 DEF InQueue
      <4>4. ~Coming(b, t)'
        BY <3>1, <3>2, <4>2, <4>3 DEF Coming
      <4>5. dom'[b][t] = <<>>
        BY <3>0, <3>6, TakenRows
      <4>6. Len(dom'[b][t]) = 0
        BY <4>5
      <4> QED
        BY <3>1, <3>4, <4>2, <4>4, <4>6 DEF Follows
    <3>7. CASE head \notin {<<"added", t>>, <<"removed", t>>}
      <4>1. \A n \in {"added", "removed"} : InQueue(n, b, t)' <=> InQueue(n, b, t)
        BY <3>2, <3>7
      <4>2. (Coming(b, t)' <=> Coming(b, t))
        BY <3>1, <4>1 DEF Coming
      <4>3. Len(dom'[b][t]) = Len(dom[b][t])
        BY <3>0, <3>7, OtherFrame
      <4>4. dom[b][t] = <<>> => dom'[b][t] = <<>>
        BY <4>3 DEF Types
      <4> QED
        BY <1>a, <2>1, <3>1, <3>4, <4>1, <4>2, <4>3, <4>4 DEF Follows
    <3> QED
      BY <3>5, <3>6, <3>7
  <2> QED
    BY <2>2, <2>3
<1>14. ASSUME NEW u \in Targets, NEW status \in {"up", "down"}, PublishCheck(u, status)
       PROVE  Follows(b, t)'
  <2>1. UNCHANGED <<rows, job, dom, seen, unsaid, overtaken>>
    BY <1>14 DEF PublishCheck
  <2>2. queue' = [c \in Tabs |-> Offer(c, <<status, u>>)]
    BY <1>14 DEF PublishCheck
  <2>3. status \in Names /\ status \notin {"added", "removed"}
    BY <1>w
  <2> QED
    BY <1>j, <1>o, <2>1, <2>2, <2>3
<1>15. CASE UNCHANGED vars
  BY <1>15, <1>j, <1>q DEF vars
<1> QED
  BY <1>1, <1>2, <1>3, <1>4, <1>5, <1>6, <1>7, <1>8, <1>9, <1>10, <1>11, <1>12, <1>13, <1>14,
     <1>15 DEF Next

-----------------------------------------------------------------------------
\* The status a tab was told last is in its cells, or on its way there, and
\* behind it come only frames that remove the row.
LEMMA FreshStep ==
  ASSUME Types, Types', \A u \in unborn : Unheard(u), LiveInv, FreshInv, [Next]_vars,
         NEW t \in Targets, NEW b \in Tabs, t \in told'[b]
  PROVE  Fresh(b, t)'
<1>w. /\ "added" \in Ways /\ "removed" \in Ways /\ "reply" \in Ways
      /\ "added" \in Names /\ "removed" \in Names /\ "up" \in Names /\ "down" \in Names
  BY DEF Ways, Names
<1>n. /\ Len(dom[b][t]) \in Nat /\ Len(queue[b]) \in Nat /\ dom[b][t] \in Seq(Status)
      /\ Sent(b) \subseteq Nat
  BY DEF Types, Sent
<1>a. t \in told[b] =>
        /\ Adding(t) = {}
        /\ \/ \E j \in Sent(b) : queue[b][j] = <<last[t], t>> /\ OnlyRemoved(b, t, j + 1)
           \/ /\ OnlyRemoved(b, t, 1)
              /\ \A i \in 1..Len(dom[b][t]) : dom[b][t][i] = last[t]
  BY DEF FreshInv, Fresh
\* A step that takes nothing from the tab but a row.
<1>q. ASSUME t \in told[b], queue'[b] = queue[b], last'[t] = last[t], Adding(t)' = {},
             \A i \in 1..Len(dom'[b][t]) :
               \E k \in 1..Len(dom[b][t]) : dom'[b][t][i] = dom[b][t][k]
      PROVE  Fresh(b, t)'
  <2>1. Sent(b)' = Sent(b) /\ \A k : OnlyRemoved(b, t, k)' <=> OnlyRemoved(b, t, k)
    BY <1>q DEF Sent, OnlyRemoved
  <2> QED
    BY <1>a, <1>q, <2>1 DEF Fresh
<1>s. ASSUME t \in told[b], UNCHANGED <<queue, dom, last>>, Adding(t)' = {} PROVE Fresh(b, t)'
  BY <1>q, <1>s
<1>d. ASSUME t \in told[b], Doing("added", t)' \subseteq Doing("added", t) PROVE Adding(t)' = {}
  BY <1>a, <1>d DEF Adding
<1>j. ASSUME t \in told[b], UNCHANGED job PROVE Adding(t)' = {}
  <2>1. Adding(t)' = Adding(t)
    BY <1>j DEF Adding, Doing
  <2> QED
    BY <1>a, <1>j, <2>1
\* A frame for another target is queued, or one that removes the row.
<1>o. ASSUME t \in told[b], NEW name \in Names, NEW u \in Targets, u # t \/ name = "removed",
             queue' = [c \in Tabs |-> Offer(c, <<name, u>>)],
             dom' = dom, last'[t] = last[t], Adding(t)' = {}
      PROVE  Fresh(b, t)'
  <2>1. \A i \in Sent(b) : i \in Sent(b)' /\ queue'[b][i] = queue[b][i]
    <3>1. Len(queue'[b]) = Len(queue[b]) \/ Len(queue'[b]) = Len(queue[b]) + 1
      BY <1>o, Offered
    <3>2. \A i \in Sent(b) : queue'[b][i] = queue[b][i]
      BY <1>o, Offered
    <3> QED
      BY <1>n, <3>1, <3>2 DEF Sent
  <2>2. ASSUME NEW k, OnlyRemoved(b, t, k) PROVE OnlyRemoved(b, t, k)'
    <3>1. \A i \in Sent(b)' :
            (i \in Sent(b) /\ queue'[b][i] = queue[b][i]) \/ queue'[b][i] = <<name, u>>
      BY <1>o, OfferedFrames
    <3> QED
      BY <1>o, <2>2, <3>1 DEF OnlyRemoved
  <2> QED
    BY <1>a, <1>o, <2>1, <2>2 DEF Fresh
<1>1. ASSUME NEW r \in Requests,
             \/ Create(r) \/ InsertFails(r) \/ InsertUnsaid(r) \/ Delete(r) \/ DeleteFails(r)
             \/ DeleteUnsaid(r) \/ \E c \in Tabs, u \in Targets : ClickDelete(r, c, u)
      PROVE  Fresh(b, t)'
  <2>1. UNCHANGED <<queue, dom, last, told>>
    BY <1>1 DEF Create, InsertFails, InsertUnsaid, Delete, DeleteFails, DeleteUnsaid, ClickDelete
  <2>2. Doing("added", t)' \subseteq Doing("added", t)
    <3>1. CASE Create(r) \/ InsertFails(r) \/ InsertUnsaid(r)
      BY <1>w, <3>1, DoingStep
    <3>2. CASE DeleteFails(r) \/ DeleteUnsaid(r)
      <4>1. Doing("added", t)' = Doing("added", t) \ {r}
        BY <1>w, <3>2, DoingStep
      <4> QED
        BY <4>1
    <3>3. CASE Delete(r)
      BY <1>w, <3>3, DoingStep
    <3>4. CASE \E c \in Tabs, u \in Targets : ClickDelete(r, c, u)
      BY <1>w, <3>4, DoingStep
    <3> QED
      BY <1>1, <3>1, <3>2, <3>3, <3>4
  <2> QED
    BY <1>d, <1>s, <2>1, <2>2
<1>2. ASSUME NEW r \in Requests, Insert(r) PROVE Fresh(b, t)'
  <2>1. PICK u \in unborn :
          \A a \in Ways, v \in Targets :
            Doing(a, v)' = (IF v # u THEN Doing(a, v) ELSE IF a = "added" THEN {r} ELSE {})
    BY <1>2, Inserted
  <2>2. UNCHANGED <<queue, dom, last, told>>
    BY <1>2 DEF Insert
  <2>3. t # u
    BY <2>2 DEF Unheard
  <2>4. Doing("added", t)' = Doing("added", t)
    BY <1>w, <2>1, <2>3
  <2> QED
    BY <1>d, <1>s, <2>2, <2>4
<1>3. ASSUME NEW r \in Requests, PublishTargetAdded(r) PROVE Fresh(b, t)'
  <2>1. job[r].id \in Targets /\ r \in Adding(job[r].id)
    BY <1>3, Jobs DEF PublishTargetAdded, Return, HasTarget, Doing, Adding
  <2>2. /\ queue' = [c \in Tabs |-> Offer(c, <<"added", job[r].id>>)]
        /\ UNCHANGED <<dom, last, told>>
    BY <1>3 DEF PublishTargetAdded, Publish
  <2>3. job[r].id # t
    BY <1>a, <2>1, <2>2
  <2>4. Doing("added", t)' = Doing("added", t) \ {r}
    BY <1>3, <1>w, DoingStep
  <2>5. Adding(t)' = {}
    BY <1>d, <2>2, <2>4
  <2> QED
    BY <1>o, <1>w, <2>1, <2>2, <2>3, <2>5
<1>4. ASSUME NEW r \in Requests, PublishTargetRemoved(r) PROVE Fresh(b, t)'
  <2>1. job[r].id \in Targets
    BY <1>4, Goes DEF PublishTargetRemoved
  <2>2. /\ queue' = [c \in Tabs |-> Offer(c, <<"removed", job[r].id>>)]
        /\ UNCHANGED <<dom, last, told>>
    BY <1>4 DEF PublishTargetRemoved, Publish
  <2>3. Doing("added", t)' = Doing("added", t)
    BY <1>4, <1>w, DoingStep
  <2>4. Adding(t)' = {}
    BY <1>d, <2>2, <2>3
  <2> QED
    BY <1>o, <1>w, <2>1, <2>2, <2>4
<1>5. ASSUME NEW r \in Requests, Reply(r) PROVE Fresh(b, t)'
  <2>1. UNCHANGED <<queue, last, told>>
    BY <1>5 DEF Reply
  <2>2. Doing("added", t)' = Doing("added", t) \ {r}
    BY <1>5, <1>w, DoingStep
  <2>3. Adding(t)' = {}
    BY <1>d, <2>1, <2>2
  <2>4. \A i \in 1..Len(dom'[b][t]) : \E k \in 1..Len(dom[b][t]) : dom'[b][t][i] = dom[b][t][k]
    <3>1. CASE dom'[b][t] = dom[b][t]
      BY <3>1
    <3>2. CASE dom[b][t] # <<>> /\ dom'[b][t] = Tail(dom[b][t])
      <4> DEFINE s == dom[b][t]
      <4>1. Len(Tail(s)) = Len(s) - 1 /\ \A i \in 1..Len(s) - 1 : Tail(s)[i] = s[i + 1]
        BY <1>n, <3>2
      <4>2. \A i \in 1..Len(s) - 1 : i + 1 \in 1..Len(s)
        BY <1>n
      <4> HIDE DEF s
      <4>3. \A i \in 1..Len(Tail(s)) : \E k \in 1..Len(s) : Tail(s)[i] = s[k]
        BY <4>1, <4>2
      <4> QED
        BY <3>2, <4>3 DEF s
    <3> QED
      BY <1>5, <3>1, <3>2, ReplyRows
  <2> QED
    BY <1>q, <2>1, <2>3, <2>4
<1>6. ASSUME NEW c \in Tabs, HandleIndex(c) PROVE Fresh(b, t)'
  <2>1. UNCHANGED <<queue, last, told>>
    BY <1>6 DEF HandleIndex
  <2>2. c # b
    BY <1>6, <2>1 DEF HandleIndex, LiveInv
  <2>3. dom'[b] = dom[b]
    BY <1>6, <2>2 DEF HandleIndex, Types
  <2>4. Doing("added", t)' = Doing("added", t)
    BY <1>6, <1>w, Reindexed DEF HandleIndex
  <2>5. Adding(t)' = {}
    BY <1>d, <2>1, <2>4
  <2> QED
    BY <1>q, <2>1, <2>3, <2>5
<1>7. ASSUME NEW c \in Tabs, Subscribe(c) PROVE Fresh(b, t)'
  BY <1>7, <1>j, <1>s DEF Subscribe
<1>8. ASSUME NEW c \in Tabs, Unsubscribe(c) PROVE Fresh(b, t)'
  <2>1. c # b
    BY <1>8 DEF Unsubscribe, Types
  <2>2. queue'[b] = queue[b] /\ told'[b] = told[b] /\ UNCHANGED <<job, dom, last>>
    BY <1>8, <2>1 DEF Unsubscribe, Types
  <2> QED
    BY <1>j, <1>q, <2>2
<1>9. ASSUME NEW c \in Tabs, Swap(c) PROVE Fresh(b, t)'
  <2>1. UNCHANGED <<job, last, told>>
    BY <1>9 DEF Swap
  <2>2. Adding(t)' = {}
    BY <1>j, <2>1
  <2>3. CASE c # b
    <3>1. queue'[b] = queue[b] /\ dom'[b] = dom[b]
      BY <1>9, <2>3, Taken
    <3> QED
      BY <1>q, <2>1, <2>2, <3>1
  <2>4. CASE c = b
    <3> DEFINE head == queue[b][1]
    <3>0. Swap(b)
      BY <1>9, <2>4
    <3>1. /\ 1 \in Sent(b) /\ head \in Names \X Targets
          /\ \A i \in Sent(b)' : i + 1 \in Sent(b) /\ queue'[b][i] = queue[b][i + 1]
          /\ \A i \in Sent(b) : i = 1 \/ (i - 1 \in Sent(b)' /\ queue'[b][i - 1] = queue[b][i])
      BY <3>0, Taken
    <3>2. \A i \in Sent(b)' : i \in Nat /\ i >= 1
      BY DEF Sent
    <3>3. ASSUME NEW k \in Nat, OnlyRemoved(b, t, k + 1) PROVE OnlyRemoved(b, t, k)'
      <4> SUFFICES ASSUME NEW i \in Sent(b)', i >= k, queue'[b][i][2] = t
                   PROVE  queue'[b][i][1] = "removed"
        BY DEF OnlyRemoved
      <4>1. i + 1 \in Sent(b) /\ queue'[b][i] = queue[b][i + 1] /\ i + 1 >= k + 1
        BY <3>1, <3>2
      <4> QED
        BY <3>3, <4>1 DEF OnlyRemoved
    <3>4. ASSUME NEW j \in Sent(b), queue[b][j] = <<last[t], t>>, OnlyRemoved(b, t, j + 1)
          PROVE  Fresh(b, t)'
      <4>1. OnlyRemoved(b, t, j)'
        BY <1>n, <3>3, <3>4
      <4>2. CASE j = 1
        <5>1. last[t] \in {"up", "down"}
          BY <3>1, <3>4, <4>2 DEF Types, Status, Names
        <5>2. \A i \in 1..Len(dom'[b][t]) : dom'[b][t][i] = last[t]
          BY <3>0, <3>4, <4>2, <5>1, TakenRows
        <5> QED
          BY <2>1, <2>2, <4>1, <4>2, <5>2 DEF Fresh
      <4>3. CASE j # 1
        <5>1. j - 1 \in Sent(b)' /\ queue'[b][j - 1] = <<last'[t], t>>
          BY <2>1, <3>1, <3>4, <4>3
        <5>2. (j - 1) + 1 = j
          BY <1>n
        <5> QED
          BY <2>2, <4>1, <5>1, <5>2 DEF Fresh
      <4> QED
        BY <4>2, <4>3
    <3>5. ASSUME OnlyRemoved(b, t, 1), \A i \in 1..Len(dom[b][t]) : dom[b][t][i] = last[t]
          PROVE  Fresh(b, t)'
      <4>1. OnlyRemoved(b, t, 1)'
        <5> SUFFICES ASSUME NEW i \in Sent(b)', queue'[b][i][2] = t
                     PROVE  queue'[b][i][1] = "removed"
          BY DEF OnlyRemoved
        <5>1. i + 1 \in Sent(b) /\ queue'[b][i] = queue[b][i + 1] /\ i + 1 >= 1
          BY <3>1, <3>2
        <5> QED
          BY <3>5, <5>1 DEF OnlyRemoved
      <4>2. dom'[b][t] = <<>> \/ dom'[b][t] = dom[b][t]
        <5>1. CASE head[2] = t
          <6>1. head = <<"removed", t>>
            BY <3>1, <3>5, <5>1 DEF OnlyRemoved
          <6> QED
            BY <3>0, <6>1, TakenRows
        <5>2. CASE head[2] # t
          BY <3>0, <5>2, TakenRows
        <5> QED
          BY <5>1, <5>2
      <4>3. \A i \in 1..Len(dom'[b][t]) : dom'[b][t][i] = last[t]
        BY <3>5, <4>2
      <4> QED
        BY <2>1, <2>2, <4>1, <4>3 DEF Fresh
    <3> QED
      BY <1>a, <2>1, <3>4, <3>5
  <2> QED
    BY <2>3, <2>4
\* What is said of the check is said last of all.
<1>10. ASSUME NEW u \in Targets, NEW status \in {"up", "down"}, PublishCheck(u, status)
       PROVE  Fresh(b, t)'
  <2>1. /\ last' = [last EXCEPT ![u] = status] /\ UNCHANGED <<job, dom>>
        /\ queue' = [c \in Tabs |-> Offer(c, <<status, u>>)]
        /\ told'[b] = IF HasRoom(b) /\ Announced(b, u) THEN told[b] \union {u} ELSE told[b] \ {u}
    BY <1>10 DEF PublishCheck
  <2>2. status \in Names
    BY <1>w
  <2>3. CASE u # t
    <3>1. t \in told[b] /\ last'[t] = last[t]
      BY <2>1, <2>3 DEF Types
    <3> QED
      BY <1>j, <1>o, <2>1, <2>2, <2>3, <3>1
  <2>4. CASE u = t
    <3>1. HasRoom(b) /\ Announced(b, t) /\ last'[t] = status
      BY <2>1, <2>4 DEF Types
    <3>2. Adding(t)' = {}
      BY <2>1, <3>1 DEF Announced, Adding, Doing
    <3> PICK n \in Nat : n = Len(queue[b]) + 1
      BY <1>n
    <3>3. Len(queue'[b]) = n /\ queue'[b][n] = <<status, t>>
      BY <2>1, <2>2, <2>4, <3>1, Offered
    <3>4. n \in Sent(b)' /\ \A i \in Sent(b)' : ~(i >= n + 1)
      BY <1>n, <3>3 DEF Sent
    <3>5. OnlyRemoved(b, t, n + 1)'
      BY <3>4 DEF OnlyRemoved
    <3> QED
      BY <3>1, <3>2, <3>3, <3>4, <3>5 DEF Fresh
  <2> QED
    BY <2>3, <2>4
<1>11. CASE UNCHANGED vars
  BY <1>11, <1>j, <1>s DEF vars
<1> QED
  BY <1>1, <1>2, <1>3, <1>4, <1>5, <1>6, <1>7, <1>8, <1>9, <1>10, <1>11 DEF Next

-----------------------------------------------------------------------------
LEMMA InvInit == Init => Inv
<1> SUFFICES ASSUME Init PROVE Inv
  OBVIOUS
<1> USE DEF Init
<1>1. Types
  BY DashboardAssumption DEF Types, Idle, Status
<1>2. \A t \in Targets : Unheard(t)
  BY DEF Unheard, HasTarget, Idle, Sent
<1>3. \A t \in Targets, a \in Ways : Doing(a, t) = {}
  BY DEF Doing, Idle, Ways
<1>4. ASSUME NEW t \in Targets PROVE AddedOnce(t) /\ RemovedOnce(t)
  <2>1. Adding(t) = {} /\ Removing(t) = {} /\ Deleted(t) = {}
    BY <1>3 DEF Adding, Removing, Deleted, Ways
  <2> QED
    BY <2>1 DEF AddedOnce, RemovedOnce, InQueue, Sent
<1> QED
  BY <1>1, <1>2, <1>4 DEF Inv, LiveInv, AgreeInv, FreshInv

LEMMA InvStep == Inv /\ [Next]_vars => Inv'
<1> SUFFICES ASSUME Inv, [Next]_vars PROVE Inv'
  OBVIOUS
<1>1. /\ Types /\ \A t \in unborn : Unheard(t)
      /\ LiveInv /\ AgreeInv /\ FreshInv
      /\ \A t \in Targets : AddedOnce(t) /\ RemovedOnce(t)
  BY DEF Inv
<1>2. Types'
  BY <1>1, TypesStep
<1>3. \A t \in unborn' : Unheard(t)'
  BY <1>1, <1>2, UnheardStep
<1>4. LiveInv'
  BY <1>1, LiveStep
<1>5. \A t \in Targets : AddedOnce(t)' /\ RemovedOnce(t)'
  BY <1>1, <1>2, AddedStep, RemovedStep
<1>6. \A b \in Tabs : seen'[b] \subseteq Targets /\ told'[b] \subseteq Targets
  BY <1>2 DEF Types
<1>7. AgreeInv'
  BY <1>1, <1>2, <1>6, FollowsStep DEF AgreeInv
<1>8. FreshInv'
  BY <1>1, <1>2, <1>6, FreshStep DEF FreshInv
<1> QED
  BY <1>2, <1>3, <1>4, <1>5, <1>7, <1>8 DEF Inv

LEMMA InvHolds == Spec => []Inv
BY InvInit, InvStep, PTL DEF Spec

\* A tab never shows more than two rows of a target, and never has more frames
\* on their way than the channel of its stream in HandleEvents takes: the rest
\* are the types of the state.
THEOREM TypeCorrect == Spec => []TypeOK
<1>1. ASSUME Inv PROVE TypeOK
  <2>1. Types /\ (\A t \in unborn : Unheard(t)) /\ \A t \in Targets : AddedOnce(t)
    BY <1>1 DEF Inv
  <2>2. \A b \in Tabs, t \in Targets : Len(dom[b][t]) <= 2
    BY <2>1 DEF AddedOnce
  <2>3. unborn \subseteq Targets \ rows
    BY <2>1 DEF Types, Unheard
  <2>4. job \in [Requests -> {Idle, Inserting} \union
                   [at : {"added", "delete", "removed", "reply"},
                    id : Targets, from : Tabs \union {Nobody}]]
    <3>1. Ways \union {"delete"} = {"added", "delete", "removed", "reply"}
      BY DEF Ways
    <3> QED
      BY <2>1, <3>1 DEF Types, Busy
  <2> QED
    BY <2>1, <2>2, <2>3, <2>4 DEF Types, TypeOK, Names, Status
<1> QED
  BY <1>1, InvHolds, PTL

\* However many tabs and handlers there are, and however the creation, the
\* frames, the swaps and the answer of the delete of a target interleave: a tab
\* that was live when HandleCreateTarget stored it, and lost no frame of it,
\* shows it exactly once while it is stored and not at all when it is gone.
THEOREM TabsAgree == Spec => []AgreeWhenSettled
<1>1. ASSUME Inv PROVE AgreeWhenSettled
  <2> SUFFICES ASSUME NEW b \in Tabs, NEW t \in seen[b] \ (unsaid \union overtaken),
                      Settled(t), ~Pending(b, t)
               PROVE  Len(dom[b][t]) = (IF t \in rows THEN 1 ELSE 0)
    BY DEF AgreeWhenSettled
  <2>1. Follows(b, t)
    BY <1>1 DEF Inv, AgreeInv
  <2>2. Adding(t) = {} /\ Removing(t) = {}
    BY DEF Settled, HasTarget, Adding, Removing, Doing
  <2>3. ~InQueue("added", b, t) /\ ~InQueue("removed", b, t)
    BY DEF Pending, InQueue, Sent
  <2> QED
    BY <2>1, <2>2, <2>3 DEF Follows, Coming, Stays
<1> QED
  BY <1>1, InvHolds, PTL

\* Whatever else is published meanwhile, and whichever tab reconnects, reloads
\* or deletes: once a tab has swapped in the frames of a target, its cells show
\* the status of the last PublishCheck that reached it behind the row.
THEOREM CellsKeepCurrent == Spec => []CellsCurrent
<1>1. ASSUME Inv PROVE CellsCurrent
  <2> SUFFICES ASSUME NEW b \in Tabs, NEW t \in told[b], ~Pending(b, t)
               PROVE  \A i \in 1..Len(dom[b][t]) : dom[b][t][i] = last[t]
    BY DEF CellsCurrent
  <2>1. Fresh(b, t)
    BY <1>1 DEF Inv, FreshInv
  <2>2. \A j \in Sent(b) : queue[b][j] # <<last[t], t>>
    BY DEF Pending, Sent
  <2> QED
    BY <2>1, <2>2 DEF Fresh
<1> QED
  BY <1>1, InvHolds, PTL
=============================================================================
