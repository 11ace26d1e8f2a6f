----------------------------- MODULE Dashboard -----------------------------
(***************************************************************************)
(* The list of targets as the browser tabs show it: the create, delete and *)
(* index handlers of internal/handlers over table targets, the frames they *)
(* publish, and what htmx makes of them in every open tab.                 *)
(*                                                                         *)
(* A tab learns of a target in two ways that nothing keeps in step: the    *)
(* rows HandleIndex rendered, and the target_added and target_removed      *)
(* frames that reach it once its /events stream is subscribed.  The status *)
(* in a row comes with the frames of the engine's checks only.  Publish is *)
(* one step here, and keeps what Broadcast promises: it is lost to a tab   *)
(* whose buffer is full, and to that tab alone.                            *)
(***************************************************************************)
EXTENDS Integers, Sequences

CONSTANTS
  Tabs,      \* open browser tabs
  Targets,   \* ids the database may hand out, each once
  Requests,  \* POST and DELETE handlers that may run at a time
  Nobody,    \* the page that sent the request is gone
  Buffer,    \* capacity of a stream's channel (32 in HandleEvents)
  DBFails    \* TRUE: a statement may fail, committed or not

ASSUME DashboardAssumption ==
  /\ Nobody \notin Tabs
  /\ Buffer \in Nat \ {0}
  /\ DBFails \in BOOLEAN

VARIABLES
  rows,       \* table targets
  unborn,     \* ids not handed out yet
  job,        \* each handler: where it is, its target, the tab that waits for it
  page,       \* each tab: "closed", "open" or "live" (its stream subscribed)
  queue,      \* what each stream's channel holds: <<name, id>>
  dom,        \* the rows with the target's id a tab shows, by their status cells
  last,       \* the status the engine has published last for a target
  seen,       \* history: targets born while the tab was live, no frame of them lost
  unsaid,     \* history: targets changed by a statement that reported failure
  overtaken,  \* history: targets deleted before their target_added was published
  told        \* history: targets whose last check went to the tab, behind their row

table   == <<rows, unborn>>
tabs    == <<page, queue, dom>>
history == <<seen, unsaid, overtaken>>
checks  == <<last, told>>
vars    == <<table, job, tabs, history, checks>>

Job(at, t, b) == [at |-> at, id |-> t, from |-> b]
Idle          == [at |-> "idle"]
Inserting     == [at |-> "insert"]

Init ==
  /\ rows = {}
  /\ unborn = Targets
  /\ job = [r \in Requests |-> Idle]
  /\ page = [b \in Tabs |-> "closed"]
  /\ queue = [b \in Tabs |-> <<>>]
  /\ dom = [b \in Tabs |-> [t \in Targets |-> <<>>]]
  /\ last = [t \in Targets |-> "pending"]
  /\ told = [b \in Tabs |-> {}]
  /\ seen = [b \in Tabs |-> {}]
  /\ unsaid = {}
  /\ overtaken = {}

-----------------------------------------------------------------------------
\* Hub.Publish, in one step.
HasRoom(b) == page[b] = "live" /\ Len(queue[b]) < Buffer

\* Fault: a stream's channel without capacity bound.
Offer_Unbounded(b, frame) == IF page[b] = "live" THEN Append(queue[b], frame) ELSE queue[b]

\* Fault: what came last is sent first.
Offer_NewestFirst(b, frame) == IF HasRoom(b) THEN <<frame>> \o queue[b] ELSE queue[b]

Offer(b, frame) == IF HasRoom(b) THEN Append(queue[b], frame) ELSE queue[b]

Publish(name, t) ==
  /\ queue' = [b \in Tabs |-> Offer(b, <<name, t>>)]
  /\ seen' = [b \in Tabs |-> IF HasRoom(b) THEN seen[b] ELSE seen[b] \ {t}]

HasTarget(r) == job[r].at \notin {"idle", "insert"}

\* The handler goes on to another step, or returns.
Goto(r, at, to) ==
  /\ job[r].at = at
  /\ job' = [job EXCEPT ![r].at = to]

Return(r, at) ==
  /\ job[r].at = at
  /\ job' = [job EXCEPT ![r] = Idle]

-----------------------------------------------------------------------------
\* HandleCreateTarget.  The tab does nothing with the answer's empty body.
Create(r) ==
  /\ job[r] = Idle
  /\ job' = [job EXCEPT ![r] = Inserting]
  /\ UNCHANGED <<table, tabs, history, checks>>

Insert(r) ==
  /\ job[r] = Inserting
  /\ \E t \in unborn :
       /\ unborn' = unborn \ {t}
       /\ rows' = rows \union {t}
       /\ job' = [job EXCEPT ![r] = Job("added", t, Nobody)]
       /\ seen' = [b \in Tabs |-> IF page[b] = "live" THEN seen[b] \union {t} ELSE seen[b]]
  /\ UNCHANGED <<tabs, unsaid, overtaken, checks>>

\* 409 or 500: nothing is published.
InsertFails(r) ==
  /\ Return(r, "insert")
  /\ UNCHANGED <<table, tabs, history, checks>>

\* The row is there all the same: the request's context ends when its tab goes
\* away, and the driver then reports an error although PostgreSQL commits.
InsertUnsaid(r) ==
  /\ DBFails
  /\ Return(r, "insert")
  /\ \E t \in unborn :
       /\ unborn' = unborn \ {t}
       /\ rows' = rows \union {t}
       /\ unsaid' = unsaid \union {t}
  /\ UNCHANGED <<tabs, seen, overtaken, checks>>

PublishTargetAdded(r) ==
  /\ Return(r, "added")
  /\ Publish("added", job[r].id)
  /\ UNCHANGED <<table, page, dom, unsaid, overtaken, checks>>

-----------------------------------------------------------------------------
\* HandleDeleteTarget, from the button of a row.
ClickDelete(r, b, t) ==
  /\ dom[b][t] # <<>>
  /\ job[r] = Idle
  /\ job' = [job EXCEPT ![r] = Job("delete", t, b)]
  /\ UNCHANGED <<table, tabs, history, checks>>

Delete(r) ==
  /\ Goto(r, "delete", "removed")
  /\ job[r].id \in rows
  /\ rows' = rows \ {job[r].id}
  /\ overtaken' = IF \E q \in Requests : job[q].at = "added" /\ job[q].id = job[r].id
                    THEN overtaken \union {job[r].id} ELSE overtaken
  /\ UNCHANGED <<unborn, tabs, seen, unsaid, checks>>

\* 404, or 500: htmx swaps nothing on an error answer.
DeleteFails(r) ==
  /\ Return(r, "delete")
  /\ DBFails \/ job[r].id \notin rows
  /\ UNCHANGED <<table, tabs, history, checks>>

DeleteUnsaid(r) ==
  /\ DBFails
  /\ Return(r, "delete")
  /\ job[r].id \in rows
  /\ rows' = rows \ {job[r].id}
  /\ unsaid' = unsaid \union {job[r].id}
  /\ UNCHANGED <<unborn, tabs, seen, overtaken, checks>>

\* Fault: only the tab that clicked is told.
PublishTargetRemoved_Silent(r) ==
  /\ Goto(r, "removed", "reply")
  /\ UNCHANGED <<table, tabs, history, checks>>

PublishTargetRemoved(r) ==
  /\ Goto(r, "removed", "reply")
  /\ Publish("removed", job[r].id)
  /\ UNCHANGED <<table, page, dom, unsaid, overtaken, checks>>

\* The empty 200 replaces the row the button was in, if it is still there.
Reply(r) ==
  /\ Return(r, "reply")
  /\ dom' = [b \in Tabs |->
               IF b = job[r].from /\ dom[b][job[r].id] # <<>>
                 THEN [dom[b] EXCEPT ![job[r].id] = Tail(@)] ELSE dom[b]]
  /\ UNCHANGED <<table, page, queue, history, checks>>

-----------------------------------------------------------------------------
\* HandleIndex: the rows at the time of its ListTargets, whose status is not
\* asked for.  A reload forgets the requests of the page before.
HandleIndex(b) ==
  /\ page[b] # "live"
  /\ page' = [page EXCEPT ![b] = "open"]
  /\ dom' = [dom EXCEPT ![b] = [t \in Targets |-> IF t \in rows THEN <<"pending">> ELSE <<>>]]
  /\ job' = [r \in Requests |->
               IF HasTarget(r) /\ job[r].from = b
                 THEN [job[r] EXCEPT !.from = Nobody] ELSE job[r]]
  /\ UNCHANGED <<table, queue, history, checks>>

\* HandleEvents, from Subscribe to Unsubscribe.  A page that loses its stream
\* keeps its rows, and its EventSource connects again.
Subscribe(b) ==
  /\ page[b] = "open"
  /\ page' = [page EXCEPT ![b] = "live"]
  /\ UNCHANGED <<table, job, queue, dom, history, checks>>

Unsubscribe(b) ==
  /\ page[b] = "live"
  /\ page' = [page EXCEPT ![b] = "open"]
  /\ queue' = [queue EXCEPT ![b] = <<>>]
  /\ seen' = [seen EXCEPT ![b] = {}]
  /\ told' = [told EXCEPT ![b] = {}]
  /\ UNCHANGED <<table, job, dom, last, unsaid, overtaken>>

\* htmx: "beforeend" appends the row whether or not the tab has one, "delete"
\* removes every row of that id, a status goes to every row of that id; it is
\* no error when there is none.
Swapped(name, shown) ==
  CASE name = "added"   -> Append(shown, "pending")
    [] name = "removed" -> <<>>
    [] OTHER            -> [i \in 1..Len(shown) |-> name]

Swap(b) ==
  /\ queue[b] # <<>>
  /\ queue' = [queue EXCEPT ![b] = Tail(@)]
  /\ dom' = [dom EXCEPT ![b][Head(queue[b])[2]] = Swapped(Head(queue[b])[1], @)]
  /\ UNCHANGED <<table, job, page, history, checks>>

-----------------------------------------------------------------------------
\* The engine's PublishCheck, for a target its tick has listed; it may have
\* been deleted since.
Announced(b, t) ==
  /\ dom[b][t] # <<>> \/ \E i \in 1..Len(queue[b]) : queue[b][i] = <<"added", t>>
  /\ \A r \in Requests : job[r].at = "added" => job[r].id # t

PublishCheck(t, status) ==
  /\ t \notin unborn
  /\ last' = [last EXCEPT ![t] = status]
  /\ queue' = [b \in Tabs |-> Offer(b, <<status, t>>)]
  /\ told' = [b \in Tabs |-> IF HasRoom(b) /\ Announced(b, t) THEN told[b] \union {t}
                                                               ELSE told[b] \ {t}]
  /\ UNCHANGED <<table, job, page, dom, history>>

Next ==
  \/ \E r \in Requests :
       \/ Create(r) \/ Insert(r) \/ InsertFails(r) \/ InsertUnsaid(r) \/ PublishTargetAdded(r)
       \/ \E b \in Tabs, t \in Targets : ClickDelete(r, b, t)
       \/ Delete(r) \/ DeleteFails(r) \/ DeleteUnsaid(r) \/ PublishTargetRemoved(r) \/ Reply(r)
  \/ \E b \in Tabs : HandleIndex(b) \/ Subscribe(b) \/ Unsubscribe(b) \/ Swap(b)
  \/ \E t \in Targets, status \in {"up", "down"} : PublishCheck(t, status)

Spec == Init /\ [][Next]_vars

-----------------------------------------------------------------------------
TypeOK ==
  /\ rows \subseteq Targets
  /\ unborn \subseteq Targets \ rows
  /\ job \in [Requests -> {Idle, Inserting} \union
                [at : {"added", "delete", "removed", "reply"},
                 id : Targets, from : Tabs \union {Nobody}]]
  /\ page \in [Tabs -> {"closed", "open", "live"}]
  /\ queue \in [Tabs -> Seq({"added", "removed", "up", "down"} \X Targets)]
  /\ \A b \in Tabs : Len(queue[b]) <= Buffer
  /\ dom \in [Tabs -> [Targets -> Seq({"pending", "up", "down"})]]
  /\ \A b \in Tabs, t \in Targets : Len(dom[b][t]) <= 2
  /\ last \in [Targets -> {"pending", "up", "down"}]
  /\ told \in [Tabs -> SUBSET Targets]
  /\ seen \in [Tabs -> SUBSET Targets]
  /\ unsaid \subseteq Targets
  /\ overtaken \subseteq Targets

\* Nothing about the target is under way, in a handler or on its way to a tab.
Settled(t) == \A r \in Requests : HasTarget(r) => job[r].id # t
Pending(b, t) == \E i \in 1..Len(queue[b]) : queue[b][i][2] = t

\* A tab that was live when a target was created, and lost no frame of it,
\* shows the target once while it is stored and not at all afterwards,
\* whoever created and deleted it, and however the answer and the frame of its
\* own delete are ordered.
AgreeWhenSettled ==
  \A b \in Tabs : \A t \in seen[b] \ (unsaid \union overtaken) :
    Settled(t) /\ ~Pending(b, t) => Len(dom[b][t]) = (IF t \in rows THEN 1 ELSE 0)

\* Once a tab has caught up, each row it shows has the status of the target's
\* last check, if the frame of that check was not lost to it and came behind
\* the row: no older frame, reconnection or late row of another tab's doing
\* takes the cell back.
CellsCurrent ==
  \A b \in Tabs : \A t \in told[b] :
    ~Pending(b, t) => \A i \in 1..Len(dom[b][t]) : dom[b][t][i] = last[t]

\* The comment of HandleIndex: every target's row is in the page before its
\* stream connects.  Targets still to be announced are not counted.
RowBeforeStream ==
  [][\A b \in Tabs : Subscribe(b) =>
       \A t \in rows \ unsaid : Settled(t) => dom[b][t] # <<>>]_vars
=============================================================================
