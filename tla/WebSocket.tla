----------------------------- MODULE WebSocket ------------------------------
(***************************************************************************)
(* The WebSocket clients of the web server,                                *)
(* components/ovms_webserver/src/ovms_websockethandler.cpp.                *)
(*                                                                         *)
(* A client has a slot, with a reader of the notification framework, and a *)
(* handler with a bounded queue of jobs and the job in transmission.  Four *)
(* tasks meet in it: mongoose creates and destroys handlers and transmits, *)
(* a notifier offers entries, the events task forwards events, the timer   *)
(* service runs the update ticker.  The list of slots has a mutex that     *)
(* only mongoose waits for; the others try it, and use a backlog when they *)
(* do not get it, which the ticker works off.                              *)
(*                                                                         *)
(* A job holds a pointer to its notification entry.  The framework (module *)
(* Notify) deletes an entry when the last of its readers has read it.      *)
(*                                                                         *)
(* The sections in which the notifier and the events task hold the mutex   *)
(* are one step each; so that the others can meet them, a try may fail at  *)
(* any time.  The jobs of log lines are not modelled: they are queued by   *)
(* the log task, and cleared, like those of events.                        *)
(***************************************************************************)
EXTENDS Naturals, Sequences, FiniteSets

CONSTANTS
  MaxSlots,    \* slots there can be
  QueueSize,   \* places of a m_jobqueue (50)
  BacklogSize, \* places of m_client_backlog (50)
  MaxClients,  \* bound on the handlers created
  MaxEntries,  \* bound on the notifications raised
  MaxEvents    \* bound on the events forwarded

ASSUME WebSocketAssumption ==
  /\ {MaxSlots, QueueSize, BacklogSize} \subseteq Nat \ {0}
  /\ {MaxClients, MaxEntries, MaxEvents} \subseteq Nat

Slot  == 1..MaxSlots
Entry == 1..MaxEntries
Other == 0                 \* a reader that is not a WebSocket client
Types == {"info", "data"}  \* always forwarded, or if subscribed to

VARIABLES
  slots,    \* how many there are, m_client_slots.size()
  handler,  \* handler[s]: the number of the client in slot s; 0 is NULL
  queue,    \* queue[s]: m_jobqueue of that handler
  job,      \* job[s]: m_job of that handler
  backlog,  \* m_client_backlog
  mutex,    \* m_client_mutex: "free", or the task that holds it
  mongoose, \* what the mongoose task is doing with which slot
  readers,  \* slots whose reader is registered
  raising,  \* the notification being raised and the readers still to call
  type,     \* type[e] of entry e, as soon as it is raised
  pending,  \* pending[e]: m_pendingreaders
  live,     \* entries that have not been deleted
  clients, raised, events, \* how many there have been
  sent,     \* history: <<e, c>> when sending entry e to client c has begun
  again,    \* history: those begun more than once
  meant,    \* history: <<e, c>> when client c was there as e was raised
  stray     \* history: <<e, s>> for entry e given to slot s without being
            \* pending for it, or left in the backlog by a client destroyed

web    == <<slots, handler, queue, job, backlog, mutex, mongoose>>
notify == <<readers, raising, type, pending, live, raised>>
history == <<sent, again, meant, stray>>
vars == <<web, notify, clients, events, history>>

None    == [kind |-> "none", entry |-> 0]
Metrics == [kind |-> "metrics", entry |-> 0]
Event   == [kind |-> "event", entry |-> 0]
Notification(e) == [kind |-> "notify", entry |-> e]

Idle == [pc |-> "idle", slot |-> 0]
Quiet == [entry |-> 0, todo |-> {}]

Init ==
  /\ slots = 0 /\ handler = [s \in Slot |-> 0]
  /\ queue = [s \in Slot |-> <<>>] /\ job = [s \in Slot |-> None]
  /\ backlog = <<>> /\ mutex = "free" /\ mongoose = Idle
  /\ readers = {} /\ raising = Quiet
  /\ type = [e \in Entry |-> "info"] /\ pending = [e \in Entry |-> {}]
  /\ live = {} /\ clients = 0 /\ raised = 0 /\ events = 0
  /\ sent = {} /\ again = {} /\ meant = {} /\ stray = {}

\* The slots whose client is there.
Connected == {s \in Slot : handler[s] # 0}

\* Handlers and slots keep no count of their own.
m_client_cnt == Cardinality(Connected)

-----------------------------------------------------------------------------
(***************************************************************************)
(* What is used of the notification framework                              *)
(***************************************************************************)
\* The mutex of the type of entry e is free: none of that type is raised.
TypeFree(e) == raising # Quiet => type[raising.entry] # type[e]

\* MarkRead for reader r; an entry all have read is deleted.
MarkRead(r, e) ==
  /\ pending' = [pending EXCEPT ![e] = @ \ {r}]
  /\ live' = IF pending'[e] = {} THEN live \ {e} ELSE live

\* WebSocketTxJob::clear, when the slot is s.
Clear(s, j) ==
  IF j.kind = "notify" THEN TypeFree(j.entry) /\ MarkRead(s, j.entry)
                       ELSE UNCHANGED <<pending, live>>

\* Another channel reads an entry.
OtherReads(e) ==
  /\ Other \in pending[e] /\ TypeFree(e)
  /\ MarkRead(Other, e)
  /\ UNCHANGED <<web, readers, raising, type, raised, clients, events, history>>

\* NotificationFilter, as the set of answers possible now.
Filter(s, t) ==
  {TRUE} \cup
  (IF mutex = "free" /\ (handler[s] = 0 \/ t = "data") THEN {FALSE} ELSE {})

\* The client of slot s, from the moment its reader is registered.
Client(s) == IF mongoose = [pc |-> "create", slot |-> s] THEN clients
             ELSE handler[s]

\* NotifyString: the readers that accept are chosen, and the entry queued.
Raise(t) ==
  /\ raising = Quiet /\ raised < MaxEntries
  /\ raised' = raised + 1
  /\ \E R \in SUBSET (readers \cup {Other}) :
       /\ R # {}
       /\ \A s \in readers : (s \in R) \in Filter(s, t)
       /\ pending' = [pending EXCEPT ![raised'] = R]
       /\ meant' = meant \cup {<<raised', Client(s)>> : s \in R \ {Other}}
  /\ type' = [type EXCEPT ![raised'] = t]
  /\ live' = live \cup {raised'}
  /\ raising' = [entry |-> raised', todo |-> readers]
  /\ UNCHANGED <<web, readers, clients, events, sent, again, stray>>

\* NotifyReaders: a reader that does not accept any more is withdrawn.
Withdraw(s) ==
  /\ s \in raising.todo /\ FALSE \in Filter(s, type[raising.entry])
  /\ raising' = [raising EXCEPT !.todo = @ \ {s}]
  /\ pending' = [pending EXCEPT ![raising.entry] = @ \ {s}]
  /\ UNCHANGED <<web, readers, type, live, raised, clients, events, history>>

\* The client of slot s is being destroyed.
Leaving(s) == mongoose.slot = s /\ mongoose.pc \in {"drain", "clear"}

\* IncomingNotification returned done or not, for a reader that accepts.
Called(s, done) ==
  LET e == raising.entry
  IN  /\ s \in raising.todo
      /\ raising' = [raising EXCEPT !.todo = @ \ {s}]
      /\ pending' = IF done THEN [pending EXCEPT ![e] = @ \ {s}] ELSE pending
      /\ stray' = IF ~done /\ s \notin pending[e]
                  THEN stray \cup {<<e, s>>} ELSE stray

\* The end of QueueEntry, with its Cleanup.
Raised ==
  /\ raising # Quiet /\ raising.todo = {}
  /\ raising' = Quiet
  /\ live' = IF pending[raising.entry] = {} THEN live \ {raising.entry} ELSE live
  /\ UNCHANGED <<web, readers, type, pending, raised, clients, events, history>>

-----------------------------------------------------------------------------
(***************************************************************************)
(* The notifier and the events task                                        *)
(***************************************************************************)
\* AddTxJob, as the queues it makes of Q; a full one drops the job.
Added(Q, S, j) ==
  [s \in Slot |-> IF s \in S /\ Len(Q[s]) < QueueSize THEN Append(Q[s], j)
                  ELSE Q[s]]

\* Mutant: the mutex is waited for.
IncomingBacklogNever(s) ==
  /\ s \in raising.todo /\ FALSE
  /\ UNCHANGED vars

\* IncomingNotification without the mutex: the backlog.
IncomingBacklog(s) ==
  /\ IF Len(backlog) < BacklogSize
       THEN /\ Called(s, FALSE)
            /\ backlog' = Append(backlog, [client |-> s,
                                           job |-> Notification(raising.entry)])
       ELSE Called(s, TRUE) /\ UNCHANGED backlog
  /\ UNCHANGED <<slots, handler, queue, job, mutex, mongoose, readers, type,
                 live, raised, clients, events, sent, again, meant>>

\* Mutant: an entry that finds the queue full is left pending.
IncomingNotificationKeeps(s) ==
  /\ mutex = "free"
  /\ Called(s, handler[s] = 0)
  /\ queue' = Added(queue, {s} \cap Connected, Notification(raising.entry))
  /\ UNCHANGED <<slots, handler, job, backlog, mutex, mongoose, readers, type,
                 live, raised, clients, events, sent, again, meant>>

\* ... and with it: done if there is no client, or no room in its queue.
IncomingNotification(s) ==
  /\ mutex = "free"
  /\ Called(s, handler[s] = 0 \/ Len(queue[s]) = QueueSize)
  /\ queue' = Added(queue, {s} \cap Connected, Notification(raising.entry))
  /\ UNCHANGED <<slots, handler, job, backlog, mutex, mongoose, readers, type,
                 live, raised, clients, events, sent, again, meant>>

\* EventListener with the mutex: a job for every client.
EventListener ==
  /\ mutex = "free" /\ events < MaxEvents /\ slots > 0
  /\ events' = events + 1
  /\ queue' = Added(queue, Connected, Event)
  /\ UNCHANGED <<slots, handler, job, backlog, mutex, mongoose, notify, clients,
                 history>>

\* The numbers of S in ascending order: the one element of this set.
Ascending(S) ==
  {q \in [1..Cardinality(S) -> S] : \A i, j \in DOMAIN q : i < j => q[i] < q[j]}

\* ... and without it: the first m_client_cnt slots are looked at.
ListenerBacklog ==
  /\ events < MaxEvents /\ slots > 0
  /\ events' = events + 1
  /\ \E list \in Ascending({k \in 1..m_client_cnt : handler[k] # 0}) :
       LET jobs == [i \in DOMAIN list |-> [client |-> list[i], job |-> Event]]
           all  == backlog \o jobs
       IN  backlog' = IF Len(all) > BacklogSize THEN SubSeq(all, 1, BacklogSize)
                      ELSE all
  /\ UNCHANGED <<slots, handler, queue, job, mutex, mongoose, notify, clients,
                 history>>
-----------------------------------------------------------------------------
(***************************************************************************)
(* The mongoose task: clients come and go                                  *)
(***************************************************************************)
At(pc, s) == [pc |-> pc, slot |-> s]

\* CreateWebSocketHandler: the first slot without a client, or a new one.
Create(s) ==
  /\ mongoose = Idle /\ mutex = "free" /\ clients < MaxClients
  /\ handler[s] = 0 /\ s <= slots + 1
  /\ \A r \in Slot : r < s => handler[r] # 0
  /\ mutex' = "mongoose" /\ mongoose' = At("register", s)
  /\ clients' = clients + 1
  /\ UNCHANGED <<slots, handler, queue, job, backlog, notify, events, history>>

\* RegisterReader waits for the mutex of the framework; then the slot.
Register(s) ==
  /\ mongoose = At("register", s) /\ raising = Quiet
  /\ readers' = readers \cup {s}
  /\ slots' = IF s > slots THEN s ELSE slots
  /\ mongoose' = At("create", s)
  /\ UNCHANGED <<handler, queue, job, backlog, mutex, raising, type, pending,
                 live, raised, clients, events, history>>

\* The handler; the mutex is given.
NewHandler(s) ==
  /\ mongoose = At("create", s)
  /\ handler' = [handler EXCEPT ![s] = clients]
  /\ mutex' = "free" /\ mongoose' = At("initial", s)
  /\ UNCHANGED <<slots, queue, job, backlog, notify, clients, events, history>>

\* "initial tx"
InitialTx(s) ==
  /\ mongoose = At("initial", s)
  /\ queue' = Added(queue, {s}, Metrics)
  /\ mongoose' = Idle
  /\ UNCHANGED <<slots, handler, job, backlog, mutex, notify, clients, events,
                 history>>

\* DestroyWebSocketHandler: the slot has no client any more.
Destroy(s) ==
  /\ mongoose = Idle /\ mutex = "free" /\ handler[s] # 0
  /\ handler' = [handler EXCEPT ![s] = 0]
  /\ mutex' = "mongoose" /\ mongoose' = At("drain", s)
  /\ UNCHANGED <<slots, queue, job, backlog, notify, clients, events, history>>

\* The destructor of the handler clears the jobs in the queue.
Drain(s) ==
  /\ mongoose = At("drain", s)
  /\ IF queue[s] # <<>>
       THEN /\ Clear(s, Head(queue[s]))
            /\ queue' = [queue EXCEPT ![s] = Tail(@)]
            /\ UNCHANGED <<mongoose, job>>
       ELSE /\ mongoose' = At("clear", s) /\ job' = [job EXCEPT ![s] = None]
            /\ UNCHANGED <<queue, pending, live>>
  /\ UNCHANGED <<slots, handler, backlog, mutex, readers, raising, type, raised,
                 clients, events, history>>

\* Mutant: the reader is left to the next client of the slot.
ClearReaderNot(s) ==
  /\ mongoose = At("clear", s) /\ raising = Quiet
  /\ mutex' = "free" /\ mongoose' = Idle
  /\ UNCHANGED <<slots, handler, queue, job, backlog, notify, clients, events,
                 history>>

\* ClearReader: it has read everything, and is deregistered.  Its jobs in the
\* backlog stay there, with entries that may be deleted now.
ClearReader(s) ==
  /\ mongoose = At("clear", s) /\ raising = Quiet
  /\ pending' = [e \in Entry |-> pending[e] \ {s}]
  /\ live' = {e \in live : pending'[e] # {}}
  /\ readers' = readers \ {s}
  /\ stray' = stray \cup
       {<<e, s>> : e \in {f \in Entry : \E k \in DOMAIN backlog :
                              backlog[k] = [client |-> s, job |-> Notification(f)]}}
  /\ mutex' = "free" /\ mongoose' = Idle
  /\ UNCHANGED <<slots, handler, queue, job, backlog, raising, type, raised,
                 clients, events, sent, again, meant>>

-----------------------------------------------------------------------------
(***************************************************************************)
(* The mongoose task: transmission                                         *)
(***************************************************************************)
\* GetNextTxJob and ProcessTxJob: the first frame of the job is sent.  An
\* update without a modified metric is done at once.
NextTxJob(s) ==
  /\ mongoose = Idle /\ handler[s] # 0 /\ job[s] = None /\ queue[s] # <<>>
  /\ LET j == Head(queue[s])
     IN  /\ job' \in {[job EXCEPT ![s] = j]} \cup
                     {job : x \in {j} \cap {Metrics}}
         /\ sent' = IF j.kind = "notify"
                    THEN sent \cup {<<j.entry, handler[s]>>} ELSE sent
         /\ again' = again \cup (sent \cap {<<j.entry, handler[s]>>})
  /\ queue' = [queue EXCEPT ![s] = Tail(@)]
  /\ UNCHANGED <<slots, handler, backlog, mutex, mongoose, notify, clients,
                 events, meant, stray>>

\* MG_EV_SEND, ContinueTx: there may be more to send of the job; else it is
\* done and cleared.
ContinueTx(s) ==
  /\ mongoose = Idle /\ handler[s] # 0 /\ job[s] # None
  /\ Clear(s, job[s])
  /\ job' = [job EXCEPT ![s] = None]
  /\ UNCHANGED <<slots, handler, queue, backlog, mutex, mongoose, readers,
                 raising, type, raised, clients, events, history>>

-----------------------------------------------------------------------------
(***************************************************************************)
(* UpdateTicker, in the timer service                                      *)
(***************************************************************************)
Ticker ==
  /\ mutex = "free" /\ m_client_cnt > 0
  /\ mutex' = "ticker"
  /\ UNCHANGED <<slots, handler, queue, job, backlog, mongoose, notify, clients,
                 events, history>>

\* The client of the first job in the backlog is gone.
Discard ==
  /\ mutex = "ticker" /\ backlog # <<>> /\ handler[Head(backlog).client] = 0
  /\ Clear(Head(backlog).client, Head(backlog).job)
  /\ backlog' = Tail(backlog)
  /\ UNCHANGED <<slots, handler, queue, job, mutex, mongoose, readers, raising,
                 type, raised, clients, events, history>>

\* Mutant: the job moved stays in the backlog until the next run.
MovePeeks ==
  /\ mutex = "ticker" /\ backlog # <<>>
  /\ LET s == Head(backlog).client
     IN  /\ handler[s] # 0 /\ Len(queue[s]) < QueueSize
         /\ queue' = [queue EXCEPT ![s] = Append(@, Head(backlog).job)]
  /\ mutex' = "free"
  /\ UNCHANGED <<slots, handler, job, backlog, mongoose, notify, clients, events,
                 history>>

\* It gets its job, if there is room.
Move ==
  /\ mutex = "ticker" /\ backlog # <<>>
  /\ LET s == Head(backlog).client
     IN  /\ handler[s] # 0 /\ Len(queue[s]) < QueueSize
         /\ queue' = [queue EXCEPT ![s] = Append(@, Head(backlog).job)]
  /\ backlog' = Tail(backlog)
  /\ UNCHANGED <<slots, handler, job, mutex, mongoose, notify, clients, events,
                 history>>

\* The backlog is empty, or its first job finds a full queue: every client
\* gets a metrics update.
Update ==
  /\ mutex = "ticker"
  /\ backlog # <<>> => LET s == Head(backlog).client
                       IN  handler[s] # 0 /\ Len(queue[s]) = QueueSize
  /\ queue' = Added(queue, Connected, Metrics)
  /\ mutex' = "free"
  /\ UNCHANGED <<slots, handler, job, backlog, mongoose, notify, clients, events,
                 history>>

-----------------------------------------------------------------------------
Mongoose(s) ==
  \/ Register(s) \/ NewHandler(s) \/ InitialTx(s) \/ Drain(s) \/ ClearReader(s)

Transmit(s) == NextTxJob(s) \/ ContinueTx(s)

Notifier ==
  \/ Raised
  \/ \E s \in Slot : Withdraw(s) \/ IncomingBacklog(s) \/ IncomingNotification(s)

TickerRun == Discard \/ Move \/ Update

Next ==
  \/ \E s \in Slot : Create(s) \/ Destroy(s) \/ Mongoose(s) \/ Transmit(s)
  \/ Notifier \/ \E t \in Types : Raise(t)
  \/ EventListener \/ ListenerBacklog
  \/ Ticker \/ TickerRun
  \/ \E e \in Entry : OtherReads(e)

(* A raise is not interrupted, mongoose returns from its handlers, a frame *)
(* is sent or its connection closed, and the ticker gets the mutex now and *)
(* then.                                                                   *)
Fairness ==
  /\ WF_vars(Notifier) /\ WF_vars(TickerRun) /\ SF_vars(Ticker)
  /\ \A s \in Slot : WF_vars(Mongoose(s)) /\ SF_vars(Transmit(s))

Spec == Init /\ [][Next]_vars /\ Fairness

-----------------------------------------------------------------------------
\* The jobs for slot s, each with its place: in transmission, queued and in
\* the backlog.
Jobs(s) ==
  {[at |-> "transmission", place |-> 1, job |-> job[s]]} \cup
  {[at |-> "queue", place |-> k, job |-> queue[s][k]] : k \in DOMAIN queue[s]} \cup
  {[at |-> "backlog", place |-> k, job |-> backlog[k].job] :
     k \in {l \in DOMAIN backlog : backlog[l].client = s}}

\* Those for entry e.
JobsFor(s, e) == {j \in Jobs(s) : j.job = Notification(e)}

(* Every variable has its type; the queues keep to their sizes.            *)
TypeOK ==
  /\ slots \in 0..MaxSlots /\ handler \in [Slot -> 0..MaxClients]
  /\ \A s \in Slot : Len(queue[s]) <= QueueSize
  /\ Len(backlog) <= BacklogSize
  /\ mutex \in {"free", "mongoose", "ticker"}
  /\ readers \subseteq Slot /\ live \subseteq 1..raised
  /\ pending \in [Entry -> SUBSET (Slot \cup {Other})]

(* A notification a job holds has not been deleted, still waits for the    *)
(* reader of its slot, and is in one job of the slot only: whenever it was *)
(* given to a reader it was pending for, and its client has not left.      *)
JobsPending ==
  \A s \in Slot, e \in Entry : <<e, s>> \notin stray =>
    /\ \A i, j \in JobsFor(s, e) : i = j
    /\ JobsFor(s, e) # {} => e \in live /\ s \in pending[e]

(* The converse: what is pending for a slot is in a job of it, or offered  *)
(* to it just now.  Nothing waits for a client that will not send it.      *)
PendingHeld ==
  \A s \in Slot, e \in Entry : s \in pending[e] =>
    \/ raising.entry = e /\ s \in raising.todo
    \/ JobsFor(s, e) # {}
    \/ Leaving(s)

(* Both: a slot has a job for an entry if, and only if, it waits for it.   *)
JobsMatchPending == JobsPending /\ PendingHeld

(* What is used of the notification framework is the board it promises its *)
(* readers (NotifyBoard): an entry, whatever its type, is an item for each *)
(* slot that has not read it, and slots join and leave.                    *)
Items == {i \in {"entry"} \X Entry \X Slot : i[3] \in pending[i[2]]}

Board == INSTANCE NotifyBoard WITH
  Types <- {"entry"}, Readers <- Slot, board <- Items,
  next <- [t \in {"entry"} |-> raised + 1]

ImplementsBoard == Board!Spec

(* A client is sent the notifications raised while it was there, each one  *)
(* once, though slots, readers and the backlog pass from client to client. *)
SentToOwn ==
  \A p \in sent : \/ p \in meant \ again
                  \/ \E s \in Slot : <<p[1], s>> \in stray

(* "assume subscription (safe side)": an entry taken on that assumption is *)
(* there when it is sent.                                                  *)
SentIsLive ==
  [][\A s \in Slot : job[s] = None /\ job'[s].kind = "notify" =>
       job'[s].entry \in live]_vars

(* "forward events to all websocket clients": in the backlog, if need be.  *)
EventsForwarded ==
  [][events' > events /\ Len(backlog') < BacklogSize =>
       \A s \in Connected : \/ queue'[s] # queue[s] \/ Len(queue[s]) = QueueSize
                            \/ \E k \in DOMAIN backlog' : backlog'[k].client = s]_vars

(* A notification is read in the end by every client it waits for: sent,   *)
(* dropped at a full queue, or cleared with its client.                    *)
EntryRead ==
  \A s \in Slot, e \in Entry : s \in pending[e] ~> s \notin pending[e]
=============================================================================
