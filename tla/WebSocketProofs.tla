-------------------------- MODULE WebSocketProofs ---------------------------
(***************************************************************************)
(* The safety of the WebSocket clients, for any number of slots, clients,  *)
(* notifications and events and any length of the queues.                  *)
(*                                                                         *)
(* A slot has one job for each entry that waits for its reader.  To keep   *)
(* that through every step the invariant follows a job from place to place *)
(* (Held, Single), and says who may change what meanwhile: the notifier    *)
(* offers an entry to a reader at most once (RaisingInv), a client being   *)
(* destroyed has the mutex and loses its jobs before its reader (LockInv,  *)
(* ReadersInv), and what has been sent is not waited for any more, but by  *)
(* the job that sends it (SentInv).                                        *)
(***************************************************************************)
EXTENDS WebSocket, FiniteSetTheorems, TLAPS

Job == {None, Metrics, Event} \cup {Notification(e) : e \in Entry}
Backlogged == [client : Slot, job : Job]

WsTypeInv ==
  /\ handler \in [Slot -> Nat] /\ job \in [Slot -> Job]
  /\ queue \in [Slot -> Seq(Job)] /\ backlog \in Seq(Backlogged)
  /\ Len(backlog) <= BacklogSize
  /\ mutex \in {"free", "mongoose", "ticker"}
  /\ mongoose \in [pc : {"idle", "register", "create", "initial", "drain", "clear"},
                   slot : 0..MaxSlots]
  /\ readers \subseteq Slot /\ clients \in Nat /\ raised \in 0..MaxEntries
  /\ raising \in [entry : 0..MaxEntries, todo : SUBSET Slot]
  /\ pending \in [Entry -> SUBSET (Slot \cup {Other})]
  /\ live \subseteq Entry /\ sent \subseteq Entry \X Nat

\* x is in the queue q, and at most once.
Has(q, x)  == \E k \in DOMAIN q : q[k] = x
Once(q, x) == \A i, j \in DOMAIN q : q[i] = x /\ q[j] = x => i = j

\* The places of a job of slot s for entry e.
Queued(s, e)  == Has(queue[s], Notification(e))
Late(s, e)    == [client |-> s, job |-> Notification(e)]
Waiting(s, e) == Has(backlog, Late(s, e))
Held(s, e)    == job[s] = Notification(e) \/ Queued(s, e) \/ Waiting(s, e)
Single(s, e)  ==
  /\ job[s] = Notification(e) => ~Queued(s, e) /\ ~Waiting(s, e)
  /\ Queued(s, e) => ~Waiting(s, e)
  /\ Once(queue[s], Notification(e))
  /\ Once(backlog, Late(s, e))

\* Mongoose has the mutex from the moment it changes a slot until it is done.
LockInv ==
  /\ mutex = "mongoose" <=> mongoose.pc \in {"register", "create", "drain", "clear"}
  /\ mongoose.pc # "idle" => mongoose.slot \in Slot
  /\ mutex = "mongoose" => handler[mongoose.slot] = 0
  /\ mongoose.pc = "clear" => /\ queue[mongoose.slot] = <<>>
                              /\ job[mongoose.slot] = None

\* The readers are those of the clients, of one that comes and one that goes.
ReadersInv ==
  /\ \A s \in Slot :
       s \in readers <=> \/ handler[s] # 0
                         \/ (mongoose.slot = s /\ mongoose.pc \in {"create", "drain", "clear"})
  /\ \A e \in Entry : pending[e] \subseteq readers \cup {Other}

\* The entry being raised is the last, lives, and has not been offered twice.
RaisingInv ==
  /\ raising # Quiet =>
       /\ raising.entry = raised /\ raised \in live
       /\ \A s \in raising.todo : ~Held(s, raised)
  /\ \A s \in Slot, e \in Entry : Held(s, e) => e <= raised
  /\ \A e \in Entry : e > raised => pending[e] = {}

HeldInv ==
  \A s \in Slot, e \in Entry : <<e, s>> \notin stray =>
    Single(s, e) /\ (Held(s, e) => e \in live /\ s \in pending[e])

PendingInv ==
  \A s \in Slot, e \in Entry : s \in pending[e] =>
    (raising.entry = e /\ s \in raising.todo) \/ Held(s, e) \/ Leaving(s)

MeantInv ==
  \A s \in Slot, e \in Entry : s \in pending[e] => <<e, Client(s)>> \in meant \/ Leaving(s)

\* Numbers of clients are not used twice.
ClientsInv ==
  /\ \A s \in Slot : handler[s] <= clients
  /\ \A s, r \in Slot : handler[s] = handler[r] => s = r \/ handler[s] = 0
  /\ \A p \in sent : p[1] <= raised /\ 0 < p[2] /\ p[2] <= clients
  /\ mongoose.pc \in {"register", "create"} =>
       /\ \A s \in Slot : handler[s] # clients
       /\ \A p \in sent : p[2] # clients

SentInv ==
  /\ again \subseteq sent
  /\ \A s \in Slot, e \in Entry :
       <<e, handler[s]>> \in sent /\ s \in pending[e] /\ <<e, s>> \notin stray =>
         job[s] = Notification(e)
  /\ SentToOwn

\* No queue is longer than it may be.
RoomInv == \A s \in Slot : Len(queue[s]) <= QueueSize

WsIInv == /\ WsTypeInv /\ LockInv /\ ReadersInv /\ RaisingInv /\ HeldInv /\ PendingInv
          /\ MeantInv /\ ClientsInv /\ SentInv

-----------------------------------------------------------------------------
(* Jobs, and the queues they are in.                                       *)
LEMMA Notifications ==
  /\ \A e \in Entry : Notification(e) \in Job
  /\ \A e, f : Notification(e) = Notification(f) => e = f
  /\ \A e : Notification(e) \notin {None, Metrics, Event}
  /\ {None, Metrics, Event} \subseteq Job
  /\ \A j \in Job : j.kind = "notify" <=> \E e \in Entry : j = Notification(e)
  /\ \A e : Notification(e).entry = e /\ Notification(e).kind = "notify"
  /\ \A j \in Job : j.kind # "notify" => j.entry = 0
<1>1. \A e, f : Notification(e) = Notification(f) => e = f
  <2> SUFFICES ASSUME NEW e, NEW f, Notification(e) = Notification(f) PROVE e = f
    OBVIOUS
  <2>1. Notification(e).entry = e /\ Notification(f).entry = f
    BY DEF Notification
  <2> QED
    BY <2>1
<1>2. \A e : /\ Notification(e).entry = e /\ Notification(e).kind = "notify"
             /\ Notification(e) \notin {None, Metrics, Event}
  BY DEF Notification, None, Metrics, Event
<1>3. \A j \in Job : \/ j \in {None, Metrics, Event} /\ j.kind # "notify" /\ j.entry = 0
                     \/ \E e \in Entry : j = Notification(e)
  BY DEF Job, None, Metrics, Event
<1>4. /\ \A e \in Entry : Notification(e) \in Job
      /\ {None, Metrics, Event} \subseteq Job
  BY DEF Job
<1> QED
  BY <1>1, <1>2, <1>3, <1>4

LEMMA Grown ==
  ASSUME NEW S, NEW q \in Seq(S), NEW x \in S, NEW y
  PROVE  /\ Append(q, x) \in Seq(S)
         /\ Has(Append(q, x), y) <=> Has(q, y) \/ x = y
         /\ Once(q, y) /\ (x = y => ~Has(q, y)) => Once(Append(q, x), y)
<1>0. PICK r : r = Append(q, x)
  OBVIOUS
<1>1. /\ r \in Seq(S) /\ Len(q) \in Nat /\ DOMAIN q = 1..Len(q) /\ DOMAIN r = 1..(Len(q) + 1)
      /\ \A k \in DOMAIN q : r[k] = q[k]
      /\ r[Len(q) + 1] = x
  BY <1>0
<1>2. \A k \in DOMAIN r : k \in DOMAIN q \/ k = Len(q) + 1
  BY <1>1
<1>3. Has(r, y) <=> Has(q, y) \/ x = y
  <2>1. \A k \in DOMAIN q : k \in DOMAIN r
    BY <1>1
  <2>2. Len(q) + 1 \in DOMAIN r
    BY <1>1
  <2> QED
    BY ONLY <2>1, <2>2, <1>1, <1>2 DEF Has
<1>4. ASSUME Once(q, y), x = y => ~Has(q, y) PROVE Once(r, y)
  BY <1>1, <1>2, <1>4 DEF Has, Once
<1> QED
  BY <1>0, <1>1, <1>3, <1>4

LEMMA Shrunk ==
  ASSUME NEW S, NEW q \in Seq(S), q # <<>>, NEW y
  PROVE  /\ Tail(q) \in Seq(S) /\ Head(q) \in S
         /\ Has(q, y) <=> Head(q) = y \/ Has(Tail(q), y)
         /\ Once(q, y) => Once(Tail(q), y) /\ (Head(q) = y => ~Has(Tail(q), y))
<1>0. PICK r : r = Tail(q)
  OBVIOUS
<1>1. /\ r \in Seq(S) /\ Head(q) = q[1] /\ Head(q) \in S /\ 1 \in DOMAIN q
      /\ \A k \in DOMAIN r : k + 1 \in DOMAIN q /\ k + 1 # 1 /\ r[k] = q[k + 1]
      /\ \A k \in DOMAIN q : k = 1 \/ (k - 1 \in DOMAIN r /\ r[k - 1] = q[k])
      /\ \A i, j \in DOMAIN r : i + 1 = j + 1 => i = j
  BY <1>0
<1>2. Has(q, y) <=> Head(q) = y \/ Has(r, y)
  <2>1. ASSUME NEW k \in DOMAIN q, q[k] = y PROVE Head(q) = y \/ \E i \in DOMAIN r : r[i] = y
    <3>1. CASE k = 1
      BY ONLY <3>1, <2>1, <1>1
    <3>2. CASE k # 1
      <4>1. k - 1 \in DOMAIN r /\ r[k - 1] = q[k]
        BY ONLY <3>2, <1>1, k \in DOMAIN q
      <4> QED
        BY ONLY <4>1, <2>1
    <3> QED
      BY <3>1, <3>2
  <2>2. ASSUME NEW k \in DOMAIN r, r[k] = y PROVE \E i \in DOMAIN q : q[i] = y
    BY ONLY <2>2, <1>1
  <2>3. Head(q) = y => \E i \in DOMAIN q : q[i] = y
    BY ONLY <1>1
  <2> QED
    BY <2>1, <2>2, <2>3 DEF Has
<1>3. ASSUME Once(q, y) PROVE Once(r, y) /\ (Head(q) = y => ~Has(r, y))
  BY <1>1, <1>3 DEF Has, Once
<1> QED
  BY <1>0, <1>1, <1>2, <1>3

\* What AddTxJob does to the queues.
LEMMA AddedFacts ==
  ASSUME NEW Q \in [Slot -> Seq(Job)], NEW S, NEW j \in Job, NEW R, R = Added(Q, S, j)
  PROVE  /\ R \in [Slot -> Seq(Job)]
         /\ \A s \in Slot : R[s] = IF s \in S /\ Len(Q[s]) < QueueSize THEN Append(Q[s], j) ELSE Q[s]
         /\ \A s \in Slot : R[s] = Q[s] \/ R[s] = Append(Q[s], j)
<1>1. \A s \in Slot : Append(Q[s], j) \in Seq(Job)
  OBVIOUS
<1> QED
  BY <1>1 DEF Added

-----------------------------------------------------------------------------
LEMMA InitWs == Init => WsIInv
<1> SUFFICES ASSUME Init PROVE WsIInv
  OBVIOUS
<1>1. WsTypeInv
  <2>1. <<>> \in Seq(Job) /\ <<>> \in Seq(Backlogged) /\ Len(<<>>) <= BacklogSize
    BY WebSocketAssumption
  <2>2. queue \in [Slot -> Seq(Job)] /\ job \in [Slot -> Job]
    BY <2>1, Notifications DEF Init
  <2>3. MaxEntries \in Nat /\ MaxSlots \in Nat
    BY WebSocketAssumption
  <2> QED
    BY <2>1, <2>2, <2>3 DEF Init, WsTypeInv, Idle, Quiet
<1>2. \A s \in Slot, e \in Entry : ~Held(s, e) /\ Single(s, e)
  BY Notifications DEF Init, Held, Queued, Waiting, Single, Has, Once
<1>3. LockInv /\ ReadersInv /\ PendingInv /\ MeantInv /\ ClientsInv
  BY WebSocketAssumption DEF Init, LockInv, ReadersInv, PendingInv, MeantInv, ClientsInv, Idle, Slot
<1>4. RaisingInv /\ HeldInv /\ SentInv
  BY <1>2 DEF Init, RaisingInv, HeldInv, SentInv, SentToOwn, Quiet
<1> QED
  BY <1>1, <1>3, <1>4 DEF WsIInv

-----------------------------------------------------------------------------
(* Steps that leave the notifications where they are.                      *)
JobsSame ==
  \A s \in Slot, e \in Entry : (Held(s, e)' <=> Held(s, e)) /\ (Single(s, e) => Single(s, e)')

LEMMA HeldSame ==
  ASSUME UNCHANGED <<job, queue, backlog>>
  PROVE  \A s, e : (Held(s, e)' <=> Held(s, e)) /\ (Single(s, e)' <=> Single(s, e))
BY DEF Held, Single, Queued, Waiting

LEMMA JobsKept ==
  ASSUME WsIInv, JobsSame, UNCHANGED <<raising, type, pending, live, raised, stray>>,
         \A s \in Slot : Leaving(s) => Leaving(s)'
  PROVE  RaisingInv' /\ HeldInv' /\ PendingInv'
<1>1. RaisingInv /\ HeldInv /\ PendingInv /\ WsTypeInv
  BY DEF WsIInv
<1>2. RaisingInv'
  <2>1. \A s \in Slot, e \in Entry : Held(s, e)' => e <= raised
    BY <1>1 DEF JobsSame, RaisingInv
  <2>2. raising # Quiet => raised \in Entry
    BY <1>1, WebSocketAssumption DEF RaisingInv, WsTypeInv
  <2> QED
    BY <1>1, <2>1, <2>2 DEF RaisingInv, JobsSame, WsTypeInv
<1>3. HeldInv'
  BY <1>1 DEF HeldInv, JobsSame
<1>4. PendingInv'
  BY <1>1 DEF PendingInv, JobsSame
<1> QED
  BY <1>2, <1>3, <1>4

-----------------------------------------------------------------------------
(* Clients come and go; the ticker takes the mutex.                        *)
LEMMA Parts ==
  ASSUME WsIInv
  PROVE  /\ WsTypeInv /\ LockInv /\ ReadersInv /\ RaisingInv /\ HeldInv /\ PendingInv
         /\ MeantInv /\ ClientsInv /\ SentInv
BY DEF WsIInv

LEMMA CreateWs == ASSUME WsIInv, NEW s \in Slot, Create(s) PROVE WsIInv'
<1>1. /\ mongoose = Idle /\ mutex = "free" /\ handler[s] = 0
      /\ mutex' = "mongoose" /\ mongoose' = At("register", s) /\ clients' = clients + 1
      /\ UNCHANGED <<handler, queue, job, backlog, readers, raising, type, pending, live,
                     raised, sent, again, meant, stray>>
  BY DEF Create, notify, history
<1>2. /\ mongoose'.pc = "register" /\ mongoose'.slot = s /\ mongoose.pc = "idle"
  BY <1>1 DEF At, Idle
<1>3. WsTypeInv'
  <2>1. clients' \in Nat
    BY <1>1, Parts DEF WsTypeInv
  <2>2. mongoose' \in [pc : {"idle", "register", "create", "initial", "drain", "clear"},
                       slot : 0..MaxSlots]
    BY <1>1 DEF At, Slot
  <2> QED
    BY <2>1, <2>2, <1>1, Parts DEF WsTypeInv
<1>4. LockInv'
  BY <1>1, <1>2, Parts DEF LockInv
<1>5. ReadersInv'
  BY <1>1, <1>2, Parts DEF ReadersInv
<1>6. \A r : ~Leaving(r) /\ ~Leaving(r)'
  BY <1>2 DEF Leaving
<1>7. RaisingInv' /\ HeldInv' /\ PendingInv'
  BY <1>1, <1>6, HeldSame, JobsKept DEF JobsSame
<1>8. \A r : Client(r) = handler[r] /\ Client(r)' = handler[r]
  BY <1>1, <1>2 DEF Client
<1>9. MeantInv'
  BY <1>1, <1>6, <1>8, Parts DEF MeantInv
<1>10. ClientsInv'
  BY <1>1, Parts DEF ClientsInv, WsTypeInv
<1>11. SentInv'
  BY <1>1, Parts DEF SentInv, SentToOwn
<1> QED
  BY <1>3, <1>4, <1>5, <1>7, <1>9, <1>10, <1>11 DEF WsIInv

LEMMA RegisterWs == ASSUME WsIInv, NEW s \in Slot, Register(s) PROVE WsIInv'
<1>1. /\ mongoose = At("register", s) /\ readers' = readers \cup {s} /\ mongoose' = At("create", s)
      /\ UNCHANGED <<handler, queue, job, backlog, mutex, raising, type, pending, live,
                     raised, clients, sent, again, meant, stray>>
  BY DEF Register, history
<1>2. /\ mongoose'.pc = "create" /\ mongoose'.slot = s
      /\ mongoose.pc = "register" /\ mongoose.slot = s
  BY <1>1 DEF At
<1>3. WsTypeInv'
  BY <1>1, Parts DEF WsTypeInv, At, Slot
<1>4. LockInv'
  BY <1>1, <1>2, Parts DEF LockInv
<1>5. ReadersInv'
  BY <1>1, <1>2, Parts DEF ReadersInv
<1>6. \A r : ~Leaving(r) /\ ~Leaving(r)'
  BY <1>2 DEF Leaving
<1>7. RaisingInv' /\ HeldInv' /\ PendingInv'
  BY <1>1, <1>6, HeldSame, JobsKept DEF JobsSame
<1>8. \A r : r # s => Client(r)' = Client(r)
  BY <1>1, <1>2 DEF Client, At
<1>9. MeantInv'
  <2>1. s \notin readers
    BY <1>2, Parts DEF ReadersInv, LockInv
  <2>2. \A e \in Entry : s \notin pending[e]
    BY <2>1, Parts, WebSocketAssumption DEF ReadersInv, Slot, Other
  <2> QED
    BY <2>2, <1>1, <1>6, <1>8, Parts DEF MeantInv
<1>10. ClientsInv'
  BY <1>1, <1>2, Parts DEF ClientsInv
<1>11. SentInv'
  BY <1>1, Parts DEF SentInv, SentToOwn
<1> QED
  BY <1>3, <1>4, <1>5, <1>7, <1>9, <1>10, <1>11 DEF WsIInv

LEMMA NewHandlerWs == ASSUME WsIInv, NEW s \in Slot, NewHandler(s) PROVE WsIInv'
<1>1. /\ mongoose = At("create", s) /\ handler' = [handler EXCEPT ![s] = clients]
      /\ mutex' = "free" /\ mongoose' = At("initial", s)
      /\ UNCHANGED <<queue, job, backlog, readers, raising, type, pending, live,
                     raised, clients, sent, again, meant, stray>>
  BY DEF NewHandler, notify, history
<1>2. /\ mongoose'.pc = "initial" /\ mongoose'.slot = s
      /\ mongoose.pc = "create" /\ mongoose.slot = s
  BY <1>1 DEF At
<1>3. /\ handler' \in [Slot -> Nat] /\ handler'[s] = clients
      /\ \A r \in Slot : r # s => handler'[r] = handler[r]
  BY <1>1, Parts DEF WsTypeInv
<1>4. WsTypeInv'
  BY <1>1, <1>3, Parts DEF WsTypeInv, At, Slot
<1>5. LockInv'
  BY <1>1, <1>2, Parts DEF LockInv
<1>6. handler[s] = 0 /\ clients \in Nat /\ clients # 0
  BY <1>2, Parts DEF LockInv, ClientsInv, WsTypeInv
<1>7. ReadersInv'
  BY <1>1, <1>2, <1>3, <1>6, Parts DEF ReadersInv
<1>8. \A r : ~Leaving(r) /\ ~Leaving(r)'
  BY <1>2 DEF Leaving
<1>9. RaisingInv' /\ HeldInv' /\ PendingInv'
  BY <1>1, <1>8, HeldSame, JobsKept DEF JobsSame
<1>10. \A r \in Slot : Client(r)' = Client(r)
  BY <1>1, <1>2, <1>3 DEF Client, At
<1>11. MeantInv'
  BY <1>1, <1>8, <1>10, Parts DEF MeantInv
<1>12. ClientsInv'
  <2>1. \A p \in sent : p[2] # clients
    BY <1>2, Parts DEF ClientsInv
  <2>2. \A r \in Slot : handler[r] # clients
    BY <1>2, Parts DEF ClientsInv
  <2> QED
    BY <2>1, <2>2, <1>1, <1>2, <1>3, <1>6, Parts DEF ClientsInv
<1>13. SentInv'
  <2>1. \A e : <<e, clients>> \notin sent
    BY <1>2, Parts DEF ClientsInv
  <2>2. SentToOwn' 
    BY <1>1, Parts DEF SentInv, SentToOwn
  <2> QED
    BY <2>1, <2>2, <1>1, <1>3, Parts DEF SentInv
<1> QED
  BY <1>4, <1>5, <1>7, <1>9, <1>11, <1>12, <1>13 DEF WsIInv

LEMMA DestroyWs == ASSUME WsIInv, NEW s \in Slot, Destroy(s) PROVE WsIInv'
<1>1. /\ mongoose = Idle /\ mutex = "free" /\ handler[s] # 0
      /\ handler' = [handler EXCEPT ![s] = 0]
      /\ mutex' = "mongoose" /\ mongoose' = At("drain", s)
      /\ UNCHANGED <<queue, job, backlog, readers, raising, type, pending, live,
                     raised, clients, sent, again, meant, stray>>
  BY DEF Destroy, notify, history
<1>2. mongoose'.pc = "drain" /\ mongoose'.slot = s /\ mongoose.pc = "idle"
  BY <1>1 DEF At, Idle
<1>3. /\ handler' \in [Slot -> Nat] /\ handler'[s] = 0
      /\ \A r \in Slot : r # s => handler'[r] = handler[r]
  BY <1>1, Parts DEF WsTypeInv
<1>4. WsTypeInv'
  BY <1>1, <1>3, Parts DEF WsTypeInv, At, Slot
<1>5. LockInv'
  BY <1>1, <1>2, <1>3, Parts DEF LockInv
<1>6. ReadersInv'
  BY <1>1, <1>2, <1>3, Parts DEF ReadersInv
<1>7. \A r : ~Leaving(r) /\ (Leaving(r)' <=> r = s)
  BY <1>2 DEF Leaving
<1>8. RaisingInv' /\ HeldInv' /\ PendingInv'
  BY <1>1, <1>7, HeldSame, JobsKept DEF JobsSame
<1>9. \A r \in Slot : r # s => Client(r)' = Client(r)
  BY <1>1, <1>2, <1>3 DEF Client, At
<1>10. MeantInv'
  BY <1>1, <1>7, <1>9, Parts DEF MeantInv
<1>11. ClientsInv'
  BY <1>1, <1>2, <1>3, Parts DEF ClientsInv, WsTypeInv
<1>12. SentInv'
  <2>1. \A e : <<e, 0>> \notin sent
    BY Parts DEF ClientsInv
  <2>2. SentToOwn' 
    BY <1>1, Parts DEF SentInv, SentToOwn
  <2> QED
    BY <2>1, <2>2, <1>1, <1>3, Parts DEF SentInv
<1> QED
  BY <1>4, <1>5, <1>6, <1>8, <1>10, <1>11, <1>12 DEF WsIInv

LEMMA TickerWs == ASSUME WsIInv, Ticker PROVE WsIInv'
<1>1. /\ mutex = "free" /\ mutex' = "ticker"
      /\ UNCHANGED <<handler, queue, job, backlog, mongoose, readers, raising, type, pending,
                     live, raised, clients, sent, again, meant, stray>>
  BY DEF Ticker, notify, history
<1>2. WsTypeInv' /\ LockInv' /\ ReadersInv'
  BY <1>1, Parts DEF WsTypeInv, LockInv, ReadersInv
<1>3. RaisingInv' /\ HeldInv' /\ PendingInv'
  BY <1>1, HeldSame, JobsKept DEF JobsSame, Leaving
<1>4. MeantInv' /\ ClientsInv' /\ SentInv'
  BY <1>1, Parts DEF MeantInv, ClientsInv, SentInv, SentToOwn, Client, Leaving
<1> QED
  BY <1>2, <1>3, <1>4 DEF WsIInv

-----------------------------------------------------------------------------
(* Jobs that are not for notifications.                                    *)
LEMMA OthersAdded ==
  ASSUME WsIInv, NEW S, NEW j \in {Metrics, Event}, queue' = Added(queue, S, j),
         UNCHANGED <<job, backlog>>
  PROVE  queue' \in [Slot -> Seq(Job)] /\ JobsSame
<1>1. queue \in [Slot -> Seq(Job)] /\ j \in Job
  BY Parts, Notifications DEF WsTypeInv
<1>2. /\ queue' \in [Slot -> Seq(Job)]
      /\ \A s \in Slot : queue'[s] = queue[s] \/ queue'[s] = Append(queue[s], j)
  BY ONLY <1>1, AddedFacts, queue' = Added(queue, S, j)
<1>3. ASSUME NEW s \in Slot, NEW e \in Entry
      PROVE  /\ Queued(s, e)' <=> Queued(s, e)
             /\ Once(queue[s], Notification(e)) => Once(queue'[s], Notification(e))
  <2>1. j # Notification(e)
    BY Notifications
  <2>2. CASE queue'[s] = queue[s]
    BY <2>2 DEF Queued
  <2>3. CASE queue'[s] = Append(queue[s], j)
    <3>1. queue[s] \in Seq(Job)
      BY <1>1
    <3> QED
      BY <3>1, <2>1, <2>3, <1>1, Grown DEF Queued
  <2> QED
    BY <2>2, <2>3, <1>2
<1> QED
  BY <1>2, <1>3 DEF JobsSame, Held, Single, Waiting

LEMMA EventListenerWs == ASSUME WsIInv, EventListener PROVE WsIInv'
<1>1. /\ mutex = "free" /\ queue' = Added(queue, Connected, Event)
      /\ UNCHANGED <<handler, job, backlog, mutex, mongoose, readers, raising, type, pending,
                     live, raised, clients, sent, again, meant, stray>>
  BY DEF EventListener, notify, history
<1>2. queue' \in [Slot -> Seq(Job)] /\ JobsSame
  BY <1>1, OthersAdded
<1>3. WsTypeInv' /\ ReadersInv'
  BY <1>1, <1>2, Parts DEF WsTypeInv, ReadersInv
<1>4. LockInv'
  BY <1>1, Parts DEF LockInv
<1>5. RaisingInv' /\ HeldInv' /\ PendingInv'
  BY <1>1, <1>2, JobsKept DEF Leaving
<1>6. MeantInv' /\ ClientsInv' /\ SentInv'
  BY <1>1, Parts DEF MeantInv, ClientsInv, SentInv, SentToOwn, Client, Leaving
<1> QED
  BY <1>3, <1>4, <1>5, <1>6 DEF WsIInv

LEMMA InitialTxWs == ASSUME WsIInv, NEW s \in Slot, InitialTx(s) PROVE WsIInv'
<1>1. /\ mongoose = At("initial", s) /\ queue' = Added(queue, {s}, Metrics) /\ mongoose' = Idle
      /\ UNCHANGED <<handler, job, backlog, mutex, readers, raising, type, pending,
                     live, raised, clients, sent, again, meant, stray>>
  BY DEF InitialTx, notify, history
<1>2. mongoose.pc = "initial" /\ mongoose'.pc = "idle" /\ mongoose' \in
        [pc : {"idle", "register", "create", "initial", "drain", "clear"}, slot : 0..MaxSlots]
  BY <1>1, WebSocketAssumption DEF At, Idle
<1>3. queue' \in [Slot -> Seq(Job)] /\ JobsSame
  BY <1>1, OthersAdded
<1>4. WsTypeInv'
  BY <1>1, <1>2, <1>3, Parts DEF WsTypeInv
<1>5. ReadersInv' /\ LockInv'
  BY <1>1, <1>2, Parts DEF LockInv, ReadersInv
<1>6. \A r : ~Leaving(r) /\ ~Leaving(r)'
  BY <1>2 DEF Leaving
<1>7. RaisingInv' /\ HeldInv' /\ PendingInv'
  BY <1>1, <1>3, <1>6, JobsKept
<1>8. \A r : Client(r) = handler[r] /\ Client(r)' = handler[r]
  BY <1>1, <1>2 DEF Client
<1>9. MeantInv' /\ ClientsInv' /\ SentInv'
  BY <1>1, <1>2, <1>6, <1>8, Parts DEF MeantInv, ClientsInv, SentInv, SentToOwn
<1> QED
  BY <1>4, <1>5, <1>7, <1>9 DEF WsIInv

LEMMA UpdateWs == ASSUME WsIInv, Update PROVE WsIInv'
<1>1. /\ mutex = "ticker" /\ mutex' = "free" /\ queue' = Added(queue, Connected, Metrics)
      /\ UNCHANGED <<handler, job, backlog, mongoose, readers, raising, type, pending,
                     live, raised, clients, sent, again, meant, stray>>
  BY DEF Update, notify, history
<1>2. queue' \in [Slot -> Seq(Job)] /\ JobsSame
  BY <1>1, OthersAdded
<1>3. WsTypeInv' /\ ReadersInv'
  BY <1>1, <1>2, Parts DEF WsTypeInv, ReadersInv
<1>4. LockInv'
  BY <1>1, Parts DEF LockInv
<1>5. RaisingInv' /\ HeldInv' /\ PendingInv'
  BY <1>1, <1>2, JobsKept DEF Leaving
<1>6. MeantInv' /\ ClientsInv' /\ SentInv'
  BY <1>1, Parts DEF MeantInv, ClientsInv, SentInv, SentToOwn, Client, Leaving
<1> QED
  BY <1>3, <1>4, <1>5, <1>6 DEF WsIInv

\* The events put into the backlog, as many as it takes.
LEMMA ListenerAdds ==
  ASSUME WsIInv, ListenerBacklog
  PROVE  /\ backlog' \in Seq(Backlogged) /\ Len(backlog') <= BacklogSize
         /\ DOMAIN backlog \subseteq DOMAIN backlog'
         /\ \A k \in DOMAIN backlog : backlog'[k] = backlog[k]
         /\ \A k \in DOMAIN backlog' : k \notin DOMAIN backlog => backlog'[k].job = Event
<1> DEFINE offered == {k \in 1..m_client_cnt : handler[k] # 0}
<1>1. IsFiniteSet(Slot) /\ Cardinality(Slot) = MaxSlots
  BY FS_Interval, WebSocketAssumption DEF Slot
<1>2. m_client_cnt \in Nat /\ m_client_cnt <= MaxSlots
  BY <1>1, FS_Subset, FS_CardinalityType DEF m_client_cnt, Connected
<1>3. offered \subseteq Slot
  BY <1>2, WebSocketAssumption DEF Slot
<1>4. Cardinality(offered) \in Nat
  BY <1>1, <1>3, FS_Subset, FS_CardinalityType
<1>5. PICK list \in [1..Cardinality(offered) -> offered] :
        LET jobs == [i \in DOMAIN list |-> [client |-> list[i], job |-> Event]]
            all  == backlog \o jobs
        IN  backlog' = IF Len(all) > BacklogSize THEN SubSeq(all, 1, BacklogSize) ELSE all
  BY DEF ListenerBacklog, Ascending
<1> DEFINE jobs == [i \in 1..Cardinality(offered) |-> [client |-> list[i], job |-> Event]]
           all  == backlog \o jobs
<1>6. jobs \in Seq(Backlogged) /\ \A i \in DOMAIN jobs : jobs[i].job = Event
  <2>1. \A i \in 1..Cardinality(offered) : [client |-> list[i], job |-> Event] \in Backlogged
    BY <1>3, Notifications DEF Backlogged
  <2> QED
    BY <2>1, <1>4
<1>7. PICK S : S = Backlogged
  OBVIOUS
<1>8. backlog \in Seq(S) /\ BacklogSize \in Nat /\ Len(backlog) <= BacklogSize
  BY <1>7, Parts, WebSocketAssumption DEF WsTypeInv
<1>9. jobs \in Seq(S) /\ backlog' = IF Len(all) > BacklogSize THEN SubSeq(all, 1, BacklogSize) ELSE all
  BY <1>5, <1>6, <1>7
<1>10. PICK b, js, c, n : b = backlog /\ js = jobs /\ c = backlog' /\ n = BacklogSize
  OBVIOUS
<1>11. /\ b \in Seq(S) /\ n \in Nat /\ Len(b) <= n /\ js \in Seq(S)
       /\ c = IF Len(b \o js) > n THEN SubSeq(b \o js, 1, n) ELSE b \o js
  BY <1>8, <1>9, <1>10
<1>12. /\ b \o js \in Seq(S) /\ Len(b \o js) = Len(b) + Len(js)
       /\ Len(b) \in Nat /\ Len(js) \in Nat /\ DOMAIN b = 1..Len(b) /\ DOMAIN js = 1..Len(js)
       /\ \A k \in 1..(Len(b) + Len(js)) :
            (b \o js)[k] = IF k <= Len(b) THEN b[k] ELSE js[k - Len(b)]
  BY ONLY <1>11
<1>13. /\ c \in Seq(S) /\ Len(b) <= Len(c) /\ Len(c) <= n /\ DOMAIN c = 1..Len(c)
       /\ Len(c) <= Len(b) + Len(js) /\ Len(c) \in Nat
       /\ \A k \in DOMAIN c : c[k] = (b \o js)[k]
  <2> DEFINE al == b \o js
  <2>1. al \in Seq(S) /\ Len(al) \in Nat /\ Len(b) <= Len(al)
    BY ONLY <1>12
  <2>2. c = IF Len(al) > n THEN SubSeq(al, 1, n) ELSE al
    BY ONLY <1>11
  <2> HIDE DEF al
  <2>3. CASE Len(al) > n
    <3>1. c = SubSeq(al, 1, n)
      BY ONLY <2>2, <2>3
    <3>2. /\ c \in Seq(S) /\ Len(c) = n /\ DOMAIN c = 1..n
          /\ \A k \in 1..n : c[k] = al[k]
      BY ONLY <3>1, <2>1, <2>3, <1>11
    <3> QED
      BY ONLY <3>2, <2>1, <2>3, <1>11, <1>12 DEF al
  <2>4. CASE ~ Len(al) > n
    BY ONLY <2>4, <2>2, <2>1, <1>11, <1>12 DEF al
  <2> QED
    BY <2>3, <2>4
<1>14. \A k \in DOMAIN c : IF k \in DOMAIN b THEN c[k] = b[k] ELSE c[k].job = Event
  <2> SUFFICES ASSUME NEW k \in DOMAIN c
               PROVE  IF k \in DOMAIN b THEN c[k] = b[k] ELSE c[k].job = Event
    OBVIOUS
  <2>1. k \in 1..(Len(b) + Len(js)) /\ k \in Nat
    BY ONLY <1>12, <1>13, k \in DOMAIN c
  <2>2. c[k] = IF k <= Len(b) THEN b[k] ELSE js[k - Len(b)]
    BY ONLY <2>1, <1>12, <1>13, k \in DOMAIN c
  <2>3. k \in DOMAIN b <=> k <= Len(b)
    BY ONLY <2>1, <1>12
  <2>4. k \notin DOMAIN b => k - Len(b) \in DOMAIN js
    BY ONLY <2>1, <2>3, <1>12
  <2>5. \A i \in DOMAIN js : js[i].job = Event
    BY <1>6, <1>10
  <2> QED
    BY ONLY <2>2, <2>3, <2>4, <2>5
<1>15. DOMAIN b \subseteq DOMAIN c
  BY ONLY <1>12, <1>13
<1> QED
  BY <1>7, <1>10, <1>13, <1>14, <1>15

LEMMA ListenerBacklogWs == ASSUME WsIInv, ListenerBacklog PROVE WsIInv'
<1>1. UNCHANGED <<handler, queue, job, mutex, mongoose, readers, raising, type, pending,
                  live, raised, clients, sent, again, meant, stray>>
  BY DEF ListenerBacklog, notify, history
<1>2. ASSUME NEW s \in Slot, NEW e \in Entry
      PROVE  /\ Waiting(s, e)' <=> Waiting(s, e)
             /\ Once(backlog, Late(s, e)) => Once(backlog', Late(s, e))
  <2>1. \A k \in DOMAIN backlog' : backlog'[k] = Late(s, e) => k \in DOMAIN backlog
    <3>1. Late(s, e).job = Notification(e)
      BY DEF Late
    <3>2. Late(s, e).job # Event
      BY <3>1, Notifications
    <3> QED
      BY <3>2, ListenerAdds
  <2> QED
    BY <2>1, ListenerAdds DEF Waiting, Has, Once
<1>3. JobsSame
  BY <1>1, <1>2 DEF JobsSame, Held, Single, Queued
<1>4. WsTypeInv' /\ ReadersInv' /\ LockInv'
  BY <1>1, ListenerAdds, Parts DEF WsTypeInv, ReadersInv, LockInv
<1>5. RaisingInv' /\ HeldInv' /\ PendingInv'
  BY <1>1, <1>3, JobsKept DEF Leaving
<1>6. MeantInv' /\ ClientsInv' /\ SentInv'
  BY <1>1, Parts DEF MeantInv, ClientsInv, SentInv, SentToOwn, Client, Leaving
<1> QED
  BY <1>4, <1>5, <1>6 DEF WsIInv

-----------------------------------------------------------------------------
(* The first job leaves the backlog, or the queue of a slot.               *)
LEMMA BacklogHead ==
  ASSUME WsTypeInv, backlog # <<>>, backlog' = Tail(backlog)
  PROVE  /\ backlog' \in Seq(Backlogged) /\ Len(backlog') <= BacklogSize
         /\ Head(backlog).client \in Slot /\ Head(backlog).job \in Job
         /\ \A s \in Slot, e \in Entry :
              LET first == Head(backlog).client = s /\ Head(backlog).job = Notification(e)
              IN  /\ Waiting(s, e) <=> first \/ Waiting(s, e)'
                  /\ Once(backlog, Late(s, e)) =>
                       Once(backlog', Late(s, e)) /\ (first => ~Waiting(s, e)')
<1>1. backlog \in Seq(Backlogged) /\ Len(backlog) <= BacklogSize /\ BacklogSize \in Nat
  BY WebSocketAssumption DEF WsTypeInv
<1>2. Head(backlog) \in Backlogged /\ backlog' \in Seq(Backlogged)
  BY <1>1, Shrunk
<1>3. Len(backlog') <= BacklogSize
  <2>1. PICK S : S = Backlogged
    OBVIOUS
  <2>2. backlog \in Seq(S)
    BY <1>1, <2>1
  <2> QED
    BY ONLY <2>2, <1>1, backlog # <<>>, backlog' = Tail(backlog)
<1>4. Head(backlog).client \in Slot /\ Head(backlog).job \in Job
  BY <1>2 DEF Backlogged
<1>5. ASSUME NEW s \in Slot, NEW e \in Entry
      PROVE  Head(backlog) = Late(s, e)
               <=> Head(backlog).client = s /\ Head(backlog).job = Notification(e)
  BY <1>2 DEF Backlogged, Late
<1>6. ASSUME NEW s \in Slot, NEW e \in Entry
      PROVE  /\ Waiting(s, e) <=> Head(backlog) = Late(s, e) \/ Waiting(s, e)'
             /\ Once(backlog, Late(s, e)) =>
                  Once(backlog', Late(s, e)) /\ (Head(backlog) = Late(s, e) => ~Waiting(s, e)')
  BY <1>1, Shrunk DEF Waiting, Late
<1> QED
  BY <1>2, <1>3, <1>4, <1>5, <1>6

LEMMA QueueHead ==
  ASSUME WsTypeInv, NEW s \in Slot, queue[s] # <<>>, queue' = [queue EXCEPT ![s] = Tail(@)]
  PROVE  /\ queue' \in [Slot -> Seq(Job)] /\ Head(queue[s]) \in Job
         /\ \A r \in Slot : r # s => queue'[r] = queue[r]
         /\ \A e \in Entry :
              /\ Queued(s, e) <=> Head(queue[s]) = Notification(e) \/ Queued(s, e)'
              /\ Once(queue[s], Notification(e)) =>
                   /\ Once(queue'[s], Notification(e))
                   /\ Head(queue[s]) = Notification(e) => ~Queued(s, e)'
<1>1. queue \in [Slot -> Seq(Job)] /\ queue[s] \in Seq(Job)
  BY DEF WsTypeInv
<1>2. queue'[s] = Tail(queue[s]) /\ \A r \in Slot : r # s => queue'[r] = queue[r]
  BY <1>1
<1>3. Tail(queue[s]) \in Seq(Job) /\ Head(queue[s]) \in Job
  BY <1>1, Shrunk
<1>4. queue' \in [Slot -> Seq(Job)]
  BY <1>1, <1>3
<1>5. ASSUME NEW e \in Entry
      PROVE  /\ Queued(s, e) <=> Head(queue[s]) = Notification(e) \/ Queued(s, e)'
             /\ Once(queue[s], Notification(e)) =>
                  /\ Once(queue'[s], Notification(e))
                  /\ Head(queue[s]) = Notification(e) => ~Queued(s, e)'
  BY <1>1, <1>2, Shrunk DEF Queued
<1> QED
  BY <1>2, <1>3, <1>4, <1>5

LEMMA MoveWs == ASSUME WsIInv, Move PROVE WsIInv'
<1>1. PICK s, j : s = Head(backlog).client /\ j = Head(backlog).job
  OBVIOUS
<1>2. /\ mutex = "ticker" /\ mutex' = mutex /\ backlog # <<>> /\ backlog' = Tail(backlog)
      /\ queue' = [queue EXCEPT ![s] = Append(@, j)]
      /\ UNCHANGED <<handler, job, mongoose, readers, raising, type, pending,
                     live, raised, clients, sent, again, meant, stray>>
  <2>1. queue' = [queue EXCEPT ![Head(backlog).client] = Append(@, Head(backlog).job)]
    BY DEF Move
  <2>2. queue' = [queue EXCEPT ![s] = Append(@, j)]
    BY ONLY <2>1, <1>1
  <2>3. /\ mutex = "ticker" /\ mutex' = mutex /\ backlog # <<>> /\ backlog' = Tail(backlog)
        /\ UNCHANGED <<handler, job, mongoose, readers, raising, type, pending,
                       live, raised, clients, sent, again, meant, stray>>
    BY DEF Move, notify, history
  <2> QED
    BY ONLY <2>2, <2>3
<1>3. /\ s \in Slot /\ j \in Job /\ queue[s] \in Seq(Job)
      /\ backlog' \in Seq(Backlogged) /\ Len(backlog') <= BacklogSize
  BY <1>1, <1>2, Parts, BacklogHead DEF WsTypeInv
<1>4. /\ queue' \in [Slot -> Seq(Job)] /\ queue'[s] = Append(queue[s], j)
      /\ \A r \in Slot : r # s => queue'[r] = queue[r]
  <2>1. queue \in [Slot -> Seq(Job)]
    BY Parts DEF WsTypeInv
  <2>2. Append(queue[s], j) \in Seq(Job)
    BY <1>3, Grown
  <2> QED
    BY <2>1, <2>2, <1>2, <1>3
<1>5. ASSUME NEW r \in Slot, NEW e \in Entry
      PROVE  (Held(r, e)' <=> Held(r, e)) /\ (Single(r, e) => Single(r, e)')
  <2>1. /\ Waiting(r, e) <=> (s = r /\ j = Notification(e)) \/ Waiting(r, e)'
        /\ Once(backlog, Late(r, e)) =>
             Once(backlog', Late(r, e)) /\ (s = r /\ j = Notification(e) => ~Waiting(r, e)')
    BY <1>1, <1>2, Parts, BacklogHead
  <2>2. /\ Queued(r, e)' <=> Queued(r, e) \/ (s = r /\ j = Notification(e))
        /\ Once(queue[r], Notification(e)) /\ (s = r /\ j = Notification(e) => ~Queued(r, e)) =>
             Once(queue'[r], Notification(e))
    <3>1. CASE r = s
      BY <3>1, <1>3, <1>4, Grown DEF Queued
    <3>2. CASE r # s
      BY <3>2, <1>4 DEF Queued
    <3> QED
      BY <3>1, <3>2
  <2> QED
    BY <2>1, <2>2, <1>2 DEF Held, Single
<1>6. WsTypeInv' /\ ReadersInv'
  BY <1>2, <1>3, <1>4, Parts DEF WsTypeInv, ReadersInv
<1>7. LockInv'
  BY <1>2, Parts DEF LockInv
<1>8. RaisingInv' /\ HeldInv' /\ PendingInv'
  BY <1>2, <1>5, JobsKept DEF Leaving, JobsSame
<1>9. MeantInv' /\ ClientsInv' /\ SentInv'
  BY <1>2, Parts DEF MeantInv, ClientsInv, SentInv, SentToOwn, Client, Leaving
<1> QED
  BY <1>6, <1>7, <1>8, <1>9 DEF WsIInv

-----------------------------------------------------------------------------
(* A job is taken out and cleared: if it is for a notification, that is    *)
(* read for the slot.                                                      *)
TakenOut(s, j) ==
  /\ \A r \in Slot, f \in Entry : (Held(r, f)' => Held(r, f)) /\ (Single(r, f) => Single(r, f)')
  /\ \A r \in Slot, f \in Entry : ~(r = s /\ j = Notification(f)) => (Held(r, f) => Held(r, f)')
  /\ \A f \in Entry : j = Notification(f) /\ Single(s, f) => ~Held(s, f)'

LEMMA MarkReadFacts ==
  ASSUME WsIInv, NEW r \in Slot \cup {Other}, NEW e \in Entry, MarkRead(r, e)
  PROVE  /\ pending' \in [Entry -> SUBSET (Slot \cup {Other})] /\ live' \subseteq live
         /\ pending'[e] = pending[e] \ {r} /\ \A f \in Entry : f # e => pending'[f] = pending[f]
         /\ \A f \in live : f \in live' \/ (f = e /\ pending'[e] = {})
BY Parts DEF WsTypeInv, MarkRead

LEMMA ClearKeeps ==
  ASSUME WsIInv, NEW s \in Slot, NEW j \in Job, TakenOut(s, j), Clear(s, j),
         UNCHANGED <<raising, type, raised, stray>>, \A r \in Slot : Leaving(r) => Leaving(r)'
  PROVE  /\ RaisingInv' /\ HeldInv' /\ PendingInv' /\ live' \subseteq live
         /\ pending' \in [Entry -> SUBSET (Slot \cup {Other})]
         /\ \A f \in Entry : pending'[f] \subseteq pending[f]
         /\ \A f \in Entry : j = Notification(f) => s \notin pending'[f]
<1>1. CASE j.kind # "notify"
  <2>1. UNCHANGED <<pending, live>> /\ \A f \in Entry : j # Notification(f)
    BY <1>1, Notifications DEF Clear
  <2>2. JobsSame
    BY <2>1 DEF TakenOut, JobsSame
  <2> QED
    BY <2>1, <2>2, JobsKept, Parts DEF WsTypeInv
<1>2. CASE j.kind = "notify"
  <2>1. PICK e \in Entry : j = Notification(e)
    BY <1>2, Notifications
  <2>2. TypeFree(e) /\ MarkRead(s, e)
    BY <1>2, <2>1, Notifications DEF Clear
  <2>3. /\ pending' \in [Entry -> SUBSET (Slot \cup {Other})] /\ live' \subseteq live
        /\ pending'[e] = pending[e] \ {s} /\ \A f \in Entry : f # e => pending'[f] = pending[f]
        /\ \A f \in live : f \in live' \/ (f = e /\ pending'[e] = {})
    BY <2>2, MarkReadFacts
  <2>4. \A f \in Entry : j = Notification(f) => f = e
    BY <2>1, Notifications
  <2>5. RaisingInv'
    <3>1. raising # Quiet => raised # e /\ raised \in live /\ raised \in Entry
      BY <2>2, Parts DEF TypeFree, RaisingInv, WsTypeInv
    <3>2. raising # Quiet => raised \in live' /\ \A r \in raising.todo : ~Held(r, raised)'
      BY <3>1, <2>3, Parts DEF RaisingInv, TakenOut, WsTypeInv
    <3>3. \A f \in Entry : f > raised => pending'[f] = {}
      BY <2>3, Parts DEF RaisingInv
    <3> QED
      BY <3>2, <3>3, Parts DEF RaisingInv, TakenOut
  <2>6. HeldInv'
    <3> SUFFICES ASSUME NEW r \in Slot, NEW f \in Entry, <<f, r>> \notin stray
                 PROVE  Single(r, f)' /\ (Held(r, f)' => f \in live' /\ r \in pending'[f])
      BY DEF HeldInv
    <3>1. Single(r, f) /\ (Held(r, f) => f \in live /\ r \in pending[f])
      BY Parts DEF HeldInv
    <3>2. Single(r, f)' /\ (Held(r, f)' => Held(r, f))
      BY <3>1 DEF TakenOut
    <3>3. CASE r = s /\ f = e
      BY <3>3, <3>1, <3>2, <2>1 DEF TakenOut
    <3>4. CASE ~(r = s /\ f = e)
      BY <3>4, <3>1, <3>2, <2>3
    <3> QED
      BY <3>3, <3>4
  <2>7. PendingInv'
    <3> SUFFICES ASSUME NEW r \in Slot, NEW f \in Entry, r \in pending'[f]
                 PROVE  (raising.entry = f /\ r \in raising.todo) \/ Held(r, f)' \/ Leaving(r)'
      BY DEF PendingInv
    <3>1. r \in pending[f] /\ ~(r = s /\ f = e)
      BY <2>3
    <3>2. (raising.entry = f /\ r \in raising.todo) \/ Held(r, f) \/ Leaving(r)
      BY <3>1, Parts DEF PendingInv
    <3>3. Held(r, f) => Held(r, f)'
      BY <3>1, <2>4 DEF TakenOut
    <3> QED
      BY <3>2, <3>3
  <2> QED
    BY <2>3, <2>4, <2>5, <2>6, <2>7
<1> QED
  BY <1>1, <1>2

\* What does not look at the jobs, when entries are read.
LEMMA ReadKeeps ==
  ASSUME WsIInv, UNCHANGED <<handler, readers, clients, raised, sent, again, meant, stray>>,
         mongoose' = mongoose \/ \E s \in Slot : mongoose = At("drain", s) /\ mongoose' = At("clear", s),
         \A f \in Entry : pending'[f] \subseteq pending[f]
  PROVE  ReadersInv' /\ MeantInv' /\ ClientsInv' /\ SentToOwn'
<1>1. /\ mongoose'.slot = mongoose.slot
      /\ mongoose'.pc = mongoose.pc \/ (mongoose.pc = "drain" /\ mongoose'.pc = "clear")
  BY DEF At
<1>2. \A r \in Slot : Leaving(r) => Leaving(r)'
  BY <1>1 DEF Leaving
<1>3. \A r \in Slot : Client(r)' = Client(r)
  <2>1. CASE mongoose' = mongoose
    BY <2>1 DEF Client
  <2>2. CASE mongoose' # mongoose
    BY <2>2, <1>1 DEF Client, At
  <2> QED
    BY <2>1, <2>2
<1>4. ReadersInv'
  BY <1>1, Parts DEF ReadersInv
<1>5. MeantInv'
  BY <1>2, <1>3, Parts DEF MeantInv
<1>6. ClientsInv' /\ SentToOwn'
  BY <1>1, Parts DEF ClientsInv, SentInv, SentToOwn
<1> QED
  BY <1>4, <1>5, <1>6

LEMMA DrainWs == ASSUME WsIInv, NEW s \in Slot, Drain(s) PROVE WsIInv'
<1>1. /\ mongoose = At("drain", s) /\ mongoose.pc = "drain" /\ mongoose.slot = s
      /\ UNCHANGED <<handler, backlog, mutex, readers, raising, type, raised, clients,
                     sent, again, meant, stray>>
  BY DEF Drain, At, history
<1>2. handler[s] = 0 /\ mutex = "mongoose" /\ \A e : <<e, 0>> \notin sent
  BY <1>1, Parts DEF LockInv, ClientsInv
<1>3. CASE queue[s] # <<>>
  <2>1. PICK j : j = Head(queue[s])
    OBVIOUS
  <2>2. /\ Clear(s, j) /\ queue' = [queue EXCEPT ![s] = Tail(@)] /\ UNCHANGED <<mongoose, job>>
    BY <1>3, <2>1 DEF Drain
  <2>3. /\ queue' \in [Slot -> Seq(Job)] /\ j \in Job
        /\ \A r \in Slot : r # s => queue'[r] = queue[r]
        /\ \A e \in Entry :
             /\ Queued(s, e) <=> j = Notification(e) \/ Queued(s, e)'
             /\ Once(queue[s], Notification(e)) =>
                  /\ Once(queue'[s], Notification(e))
                  /\ j = Notification(e) => ~Queued(s, e)'
    BY <1>3, <2>1, <2>2, QueueHead, Parts
  <2>4. TakenOut(s, j)
    <3>1. ASSUME NEW r \in Slot, NEW f \in Entry
          PROVE  /\ Held(r, f)' => Held(r, f)
                 /\ Single(r, f) => Single(r, f)'
                 /\ ~(r = s /\ j = Notification(f)) => (Held(r, f) => Held(r, f)')
                 /\ r = s /\ j = Notification(f) /\ Single(r, f) => ~Held(r, f)'
      <4>1. CASE r = s
        BY <4>1, <2>2, <2>3, <1>1 DEF Held, Single, Waiting
      <4>2. CASE r # s
        BY <4>2, <2>2, <2>3, <1>1 DEF Held, Single, Waiting, Queued
      <4> QED
        BY <4>1, <4>2
    <3> QED
      BY <3>1 DEF TakenOut
  <2>5. /\ RaisingInv' /\ HeldInv' /\ PendingInv' /\ live' \subseteq live
        /\ pending' \in [Entry -> SUBSET (Slot \cup {Other})]
        /\ \A f \in Entry : pending'[f] \subseteq pending[f]
    BY <2>2, <2>3, <2>4, <1>1, ClearKeeps DEF Leaving
  <2>6. WsTypeInv'
    BY <2>2, <2>3, <2>5, <1>1, Parts DEF WsTypeInv
  <2>7. LockInv'
    BY <2>2, <1>1, Parts DEF LockInv
  <2>8. ReadersInv' /\ MeantInv' /\ ClientsInv' /\ SentToOwn'
    BY <2>2, <2>5, <1>1, ReadKeeps
  <2>9. SentInv'
    BY <2>2, <2>5, <2>8, <1>1, Parts DEF SentInv
  <2> QED
    BY <2>5, <2>6, <2>7, <2>8, <2>9 DEF WsIInv
<1>4. CASE queue[s] = <<>>
  <2>1. /\ mongoose' = At("clear", s) /\ job' = [job EXCEPT ![s] = None]
        /\ UNCHANGED <<queue, pending, live>>
    BY <1>4 DEF Drain
  <2>2. /\ mongoose'.pc = "clear" /\ mongoose'.slot = s
        /\ mongoose' \in [pc : {"idle", "register", "create", "initial", "drain", "clear"},
                          slot : 0..MaxSlots]
    BY <2>1 DEF At, Slot
  <2>3. job' \in [Slot -> Job] /\ job'[s] = None /\ \A r \in Slot : r # s => job'[r] = job[r]
    BY <2>1, Parts, Notifications DEF WsTypeInv
  <2>4. ASSUME NEW r \in Slot, NEW f \in Entry
        PROVE  /\ Held(r, f)' => Held(r, f)
               /\ Single(r, f) => Single(r, f)'
               /\ r # s => (Held(r, f) => Held(r, f)')
    <3>1. job'[r] = job[r] \/ (r = s /\ job'[r] # Notification(f))
      BY <2>3, Notifications
    <3>2. /\ Queued(r, f)' <=> Queued(r, f)
          /\ Waiting(r, f)' <=> Waiting(r, f)
          /\ queue' = queue /\ backlog' = backlog
      BY <2>1, <1>1 DEF Queued, Waiting
    <3> QED
      BY <3>1, <3>2 DEF Held, Single
  <2>5. WsTypeInv'
    BY <2>1, <2>2, <2>3, <1>1, Parts DEF WsTypeInv
  <2>6. LockInv'
    BY <2>1, <2>2, <2>3, <1>1, <1>2, <1>4 DEF LockInv
  <2>7. RaisingInv'
    <3>1. raising # Quiet => raised \in Entry
      BY Parts DEF RaisingInv, WsTypeInv
    <3> QED
      BY <3>1, <2>1, <2>4, <1>1, Parts DEF RaisingInv, WsTypeInv
  <2>8. HeldInv'
    BY <2>1, <2>4, <1>1, Parts DEF HeldInv
  <2>9. PendingInv'
    <3>1. \A r : Leaving(r) <=> r = s
      BY <1>1 DEF Leaving
    <3>2. \A r : Leaving(r)' <=> r = s
      BY <2>2 DEF Leaving
    <3> QED
      BY <3>1, <3>2, <2>1, <2>4, <1>1, Parts DEF PendingInv
  <2>10. ReadersInv' /\ MeantInv' /\ ClientsInv' /\ SentToOwn'
    BY <2>1, <1>1, ReadKeeps
  <2>11. SentInv'
    BY <2>1, <2>3, <2>10, <1>1, <1>2, Parts DEF SentInv
  <2> QED
    BY <2>5, <2>6, <2>7, <2>8, <2>9, <2>10, <2>11 DEF WsIInv
<1> QED
  BY <1>3, <1>4

LEMMA ContinueTxWs == ASSUME WsIInv, NEW s \in Slot, ContinueTx(s) PROVE WsIInv'
<1>1. /\ mongoose = Idle /\ handler[s] # 0 /\ job' = [job EXCEPT ![s] = None]
      /\ Clear(s, job[s])
      /\ UNCHANGED <<handler, queue, backlog, mutex, mongoose, readers, raising, type, raised,
                     clients, sent, again, meant, stray>>
  BY DEF ContinueTx, history
<1>2. PICK j : j = job[s]
  OBVIOUS
<1>3. /\ job' \in [Slot -> Job] /\ job'[s] = None /\ \A r \in Slot : r # s => job'[r] = job[r]
      /\ j \in Job /\ Clear(s, j)
  BY <1>1, <1>2, Parts, Notifications DEF WsTypeInv
<1>4. TakenOut(s, j)
  <2>1. ASSUME NEW r \in Slot, NEW f \in Entry
        PROVE  /\ Held(r, f)' => Held(r, f)
               /\ Single(r, f) => Single(r, f)'
               /\ ~(r = s /\ j = Notification(f)) => (Held(r, f) => Held(r, f)')
               /\ r = s /\ j = Notification(f) /\ Single(r, f) => ~Held(r, f)'
    <3>1. /\ Queued(r, f)' <=> Queued(r, f)
          /\ Waiting(r, f)' <=> Waiting(r, f)
          /\ queue' = queue /\ backlog' = backlog
      BY <1>1 DEF Queued, Waiting
    <3>2. \/ r # s /\ job'[r] = job[r]
          \/ r = s /\ job[r] = j /\ job'[r] # Notification(f)
      BY <1>2, <1>3, Notifications
    <3> QED
      BY <3>1, <3>2 DEF Held, Single
  <2> QED
    BY <2>1 DEF TakenOut
<1>5. /\ RaisingInv' /\ HeldInv' /\ PendingInv' /\ live' \subseteq live
      /\ pending' \in [Entry -> SUBSET (Slot \cup {Other})]
      /\ \A f \in Entry : pending'[f] \subseteq pending[f]
      /\ \A f \in Entry : j = Notification(f) => s \notin pending'[f]
  BY <1>1, <1>3, <1>4, ClearKeeps DEF Leaving
<1>6. WsTypeInv'
  BY <1>1, <1>3, <1>5, Parts DEF WsTypeInv
<1>7. LockInv'
  BY <1>1, <1>3, Parts DEF LockInv, Idle
<1>8. ReadersInv' /\ MeantInv' /\ ClientsInv' /\ SentToOwn'
  BY <1>1, <1>5, ReadKeeps
<1>9. SentInv'
  <2> SUFFICES ASSUME NEW r \in Slot, NEW e \in Entry, <<e, handler[r]>> \in sent,
                      r \in pending'[e], <<e, r>> \notin stray
               PROVE  job'[r] = Notification(e)
    BY <1>1, <1>8, Parts DEF SentInv
  <2>1. job[r] = Notification(e)
    BY <1>5, Parts DEF SentInv
  <2>2. r # s
    BY <2>1, <1>2, <1>5
  <2> QED
    BY <2>1, <2>2, <1>3
<1> QED
  BY <1>5, <1>6, <1>7, <1>8, <1>9 DEF WsIInv

LEMMA DiscardWs == ASSUME WsIInv, Discard PROVE WsIInv'
<1>1. PICK s, j : s = Head(backlog).client /\ j = Head(backlog).job
  OBVIOUS
<1>2. /\ backlog # <<>> /\ backlog' = Tail(backlog)
      /\ Clear(Head(backlog).client, Head(backlog).job)
      /\ UNCHANGED <<handler, queue, job, mutex, mongoose, readers, raising, type, raised,
                     clients, sent, again, meant, stray>>
  BY DEF Discard, history
<1>3. Clear(s, j)
  BY <1>1, <1>2
<1>4. /\ s \in Slot /\ j \in Job
      /\ backlog' \in Seq(Backlogged) /\ Len(backlog') <= BacklogSize
  BY <1>1, <1>2, Parts, BacklogHead
<1>5. TakenOut(s, j)
  <2>1. ASSUME NEW r \in Slot, NEW f \in Entry
        PROVE  /\ Held(r, f)' => Held(r, f)
               /\ Single(r, f) => Single(r, f)'
               /\ ~(r = s /\ j = Notification(f)) => (Held(r, f) => Held(r, f)')
               /\ r = s /\ j = Notification(f) /\ Single(r, f) => ~Held(r, f)'
    <3>1. /\ Waiting(r, f) <=> (s = r /\ j = Notification(f)) \/ Waiting(r, f)'
          /\ Once(backlog, Late(r, f)) =>
               Once(backlog', Late(r, f)) /\ (s = r /\ j = Notification(f) => ~Waiting(r, f)')
      BY <1>1, <1>2, Parts, BacklogHead
    <3>2. (Queued(r, f)' <=> Queued(r, f)) /\ queue' = queue /\ job' = job
      BY <1>2 DEF Queued
    <3> QED
      BY <3>1, <3>2 DEF Held, Single
  <2> QED
    BY <2>1, <1>4 DEF TakenOut
<1>6. /\ RaisingInv' /\ HeldInv' /\ PendingInv' /\ live' \subseteq live
      /\ pending' \in [Entry -> SUBSET (Slot \cup {Other})]
      /\ \A f \in Entry : pending'[f] \subseteq pending[f]
  BY <1>2, <1>3, <1>4, <1>5, ClearKeeps DEF Leaving
<1>7. WsTypeInv' /\ LockInv'
  BY <1>2, <1>4, <1>6, Parts DEF WsTypeInv, LockInv
<1>8. ReadersInv' /\ MeantInv' /\ ClientsInv' /\ SentToOwn'
  BY <1>2, <1>6, ReadKeeps
<1>9. SentInv'
  BY <1>2, <1>6, <1>8, Parts DEF SentInv
<1> QED
  BY <1>6, <1>7, <1>8, <1>9 DEF WsIInv

LEMMA OtherReadsWs == ASSUME WsIInv, NEW e \in Entry, OtherReads(e) PROVE WsIInv'
<1>1. /\ TypeFree(e) /\ MarkRead(Other, e)
      /\ UNCHANGED <<handler, queue, job, backlog, mutex, mongoose, readers, raising, type, raised,
                     clients, sent, again, meant, stray>>
  BY DEF OtherReads, web, history
<1>2. /\ pending' \in [Entry -> SUBSET (Slot \cup {Other})] /\ live' \subseteq live
      /\ pending'[e] = pending[e] \ {Other} /\ \A f \in Entry : f # e => pending'[f] = pending[f]
      /\ \A f \in live : f \in live' \/ (f = e /\ pending'[e] = {})
  BY <1>1, MarkReadFacts
<1>3. \A f \in Entry : /\ pending'[f] \subseteq pending[f]
                       /\ \A s \in Slot : s \in pending[f] <=> s \in pending'[f]
  BY <1>2, WebSocketAssumption DEF Slot, Other
<1>4. \A s, f : (Held(s, f)' <=> Held(s, f)) /\ (Single(s, f)' <=> Single(s, f))
  BY <1>1, HeldSame
<1>5. WsTypeInv' /\ LockInv'
  BY <1>1, <1>2, Parts DEF WsTypeInv, LockInv
<1>6. ReadersInv' /\ MeantInv' /\ ClientsInv' /\ SentToOwn'
  BY <1>1, <1>3, ReadKeeps
<1>7. RaisingInv'
  <2>1. raising # Quiet => raised # e /\ raised \in live
    BY <1>1, Parts DEF TypeFree, RaisingInv
  <2> QED
    BY <2>1, <1>1, <1>2, <1>3, <1>4, Parts DEF RaisingInv
<1>8. HeldInv'
  BY <1>1, <1>2, <1>3, <1>4, Parts DEF HeldInv
<1>9. PendingInv'
  BY <1>1, <1>3, <1>4, Parts DEF PendingInv, Leaving
<1>10. SentInv'
  BY <1>1, <1>3, <1>6, Parts DEF SentInv
<1> QED
  BY <1>5, <1>6, <1>7, <1>8, <1>9, <1>10 DEF WsIInv

-----------------------------------------------------------------------------
(* The reader of a slot is cleared.                                        *)
LEMMA ClearReaderWs == ASSUME WsIInv, NEW s \in Slot, ClearReader(s) PROVE WsIInv'
<1>1. /\ mongoose = At("clear", s) /\ raising = Quiet /\ mongoose' = Idle /\ mutex' = "free"
      /\ pending' = [e \in Entry |-> pending[e] \ {s}]
      /\ live' = {e \in live : pending'[e] # {}} /\ readers' = readers \ {s}
      /\ UNCHANGED <<handler, queue, job, backlog, raising, type, raised, clients, sent, again, meant>>
  BY DEF ClearReader
<1>2. /\ stray \subseteq stray'
      /\ \A e \in Entry : Waiting(s, e) => <<e, s>> \in stray'
  BY DEF ClearReader, Waiting, Has, Late
<1>3. /\ mongoose.pc = "clear" /\ mongoose.slot = s /\ mongoose'.pc = "idle"
      /\ mongoose' \in [pc : {"idle", "register", "create", "initial", "drain", "clear"},
                        slot : 0..MaxSlots]
  BY <1>1, WebSocketAssumption DEF At, Idle
<1>4. /\ pending' \in [Entry -> SUBSET (Slot \cup {Other})]
      /\ \A e \in Entry : pending'[e] = pending[e] \ {s}
  BY <1>1, Parts DEF WsTypeInv
<1>5. /\ handler[s] = 0 /\ mutex = "mongoose"
      /\ queue[s] = <<>> /\ job[s] = None
  BY <1>3, Parts DEF LockInv
<1>6. \A r, e : (Held(r, e)' <=> Held(r, e)) /\ (Single(r, e)' <=> Single(r, e))
  BY <1>1, HeldSame
<1>7. \A e \in Entry : Held(s, e) => <<e, s>> \in stray'
  BY <1>2, <1>5, Notifications DEF Held, Queued, Has
<1>8. WsTypeInv'
  BY <1>1, <1>3, <1>4, Parts DEF WsTypeInv
<1>9. LockInv'
  BY <1>1, <1>3, <1>5 DEF LockInv
<1>10. ReadersInv'
  BY <1>1, <1>3, <1>4, <1>5, Parts DEF ReadersInv
<1>11. RaisingInv'
  BY <1>1, <1>4, <1>6, Parts DEF RaisingInv
<1>12. HeldInv'
  <2> SUFFICES ASSUME NEW r \in Slot, NEW f \in Entry, <<f, r>> \notin stray'
               PROVE  Single(r, f)' /\ (Held(r, f)' => f \in live' /\ r \in pending'[f])
    BY DEF HeldInv
  <2>1. Single(r, f) /\ (Held(r, f) => f \in live /\ r \in pending[f])
    BY <1>2, Parts DEF HeldInv
  <2>2. r = s => ~Held(r, f)
    BY <1>7
  <2> QED
    BY <2>1, <2>2, <1>1, <1>4, <1>6
<1>13. PendingInv'
  <2> SUFFICES ASSUME NEW r \in Slot, NEW f \in Entry, r \in pending'[f] PROVE Held(r, f)'
    BY DEF PendingInv
  <2>1. r # s /\ r \in pending[f]
    BY <1>4
  <2>2. ~(raising.entry = f) /\ ~Leaving(r)
    BY <2>1, <1>1, <1>3 DEF Leaving, Quiet, Entry
  <2> QED
    BY <2>1, <2>2, <1>6, Parts DEF PendingInv
<1>14. MeantInv'
  <2>1. \A r : Client(r) = handler[r] /\ Client(r)' = handler[r]
    BY <1>1, <1>3 DEF Client
  <2>2. \A r : Leaving(r) => r = s
    BY <1>3 DEF Leaving
  <2> QED
    BY <2>1, <2>2, <1>1, <1>4, Parts DEF MeantInv
<1>15. ClientsInv'
  BY <1>1, <1>3, Parts DEF ClientsInv
<1>16. SentInv'
  BY <1>1, <1>2, <1>4, Parts DEF SentInv, SentToOwn
<1> QED
  BY <1>8, <1>9, <1>10, <1>11, <1>12, <1>13, <1>14, <1>15, <1>16 DEF WsIInv

-----------------------------------------------------------------------------
(* A job comes to be transmitted.                                          *)
LEMMA NextTxJobWs == ASSUME WsIInv, NEW s \in Slot, NextTxJob(s) PROVE WsIInv'
<1>1. PICK j : j = Head(queue[s])
  OBVIOUS
<1>2. /\ handler[s] # 0 /\ job[s] = None /\ queue[s] # <<>>
      /\ queue' = [queue EXCEPT ![s] = Tail(@)]
      /\ UNCHANGED <<handler, backlog, mutex, mongoose, readers, raising, type, pending, live, raised,
                     clients, meant, stray>>
  BY DEF NextTxJob, notify
<1>3. /\ job' = [job EXCEPT ![s] = j] \/ (job' = job /\ j = Metrics)
      /\ sent' = IF j.kind = "notify" THEN sent \cup {<<j.entry, handler[s]>>} ELSE sent
      /\ again' = again \cup (sent \cap {<<j.entry, handler[s]>>})
  BY <1>1 DEF NextTxJob
<1>4. /\ queue' \in [Slot -> Seq(Job)] /\ j \in Job
      /\ \A r \in Slot : r # s => queue'[r] = queue[r]
      /\ \A e \in Entry :
           /\ Queued(s, e) <=> j = Notification(e) \/ Queued(s, e)'
           /\ Once(queue[s], Notification(e)) =>
                /\ Once(queue'[s], Notification(e))
                /\ j = Notification(e) => ~Queued(s, e)'
  BY <1>1, <1>2, QueueHead, Parts
<1>5. /\ job' \in [Slot -> Job] /\ \A r \in Slot : r # s => job'[r] = job[r]
      /\ \A e : job'[s] = Notification(e) <=> j = Notification(e)
  <2>1. job \in [Slot -> Job] /\ j \in Job
    BY <1>4, Parts DEF WsTypeInv
  <2>2. CASE job' = [job EXCEPT ![s] = j]
    BY <2>1, <2>2
  <2>3. CASE job' = job /\ j = Metrics
    <3>1. \A e : None # Notification(e) /\ Metrics # Notification(e)
      BY Notifications
    <3> QED
      BY <2>1, <2>3, <3>1, <1>2
  <2> QED
    BY <1>3, <2>2, <2>3
<1>6. ASSUME NEW r \in Slot, NEW e \in Entry
      PROVE  (Held(r, e)' <=> Held(r, e)) /\ (Single(r, e) => Single(r, e)')
  <2>1. (Waiting(r, e)' <=> Waiting(r, e)) /\ backlog' = backlog
    BY <1>2 DEF Waiting
  <2>2. CASE r = s
    <3>1. ~ (job[s] = Notification(e))
      BY <1>2, Notifications
    <3> QED
      BY <3>1, <2>1, <2>2, <1>4, <1>5 DEF Held, Single
  <2>3. CASE r # s
    BY <2>1, <2>3, <1>4, <1>5 DEF Held, Single, Queued
  <2> QED
    BY <2>2, <2>3
<1>7. RaisingInv' /\ HeldInv' /\ PendingInv'
  BY <1>2, <1>6, JobsKept DEF Leaving, JobsSame
<1>8. mongoose.pc = "idle"
  BY DEF NextTxJob, Idle
<1>9. LockInv' /\ ReadersInv'
  BY <1>2, <1>8, Parts DEF LockInv, ReadersInv
<1>10. MeantInv'
  BY <1>2, Parts DEF MeantInv, Client, Leaving
<1>11. CASE j.kind # "notify"
  <2>1. j.entry = 0 /\ \A e \in Entry : j # Notification(e)
    BY <1>11, <1>4, Notifications
  <2>2. <<j.entry, handler[s]>> \notin sent
    BY <2>1, Parts, WebSocketAssumption DEF WsTypeInv, Entry
  <2>3. sent' = sent /\ again' = again
    BY <2>2, <1>3, <1>11
  <2>4. WsTypeInv' /\ ClientsInv'
    BY <2>3, <1>2, <1>4, <1>5, Parts DEF WsTypeInv, ClientsInv
  <2>5. SentToOwn'
    BY <2>3, <1>2, Parts DEF SentInv, SentToOwn
  <2>6. SentInv'
    <3> SUFFICES ASSUME NEW r \in Slot, NEW e \in Entry, <<e, handler[r]>> \in sent,
                        r \in pending[e], <<e, r>> \notin stray
                 PROVE  job'[r] = Notification(e)
      BY <2>3, <2>5, <1>2, Parts DEF SentInv
    <3>1. job[r] = Notification(e)
      BY Parts DEF SentInv
    <3>2. r # s
      BY <3>1, <1>2, Notifications
    <3> QED
      BY <3>1, <3>2, <1>5
  <2> QED
    BY <2>4, <2>6, <1>7, <1>9, <1>10 DEF WsIInv
<1>12. CASE j.kind = "notify"
  <2>1. PICK e \in Entry : j = Notification(e)
    BY <1>4, <1>12, Notifications
  <2>2. PICK p : p = <<e, handler[s]>>
    OBVIOUS
  <2>3. sent' = sent \cup {p} /\ again' = again \cup (sent \cap {p}) /\ handler[s] \in Nat
    BY <2>1, <2>2, <1>3, <1>12, Parts, Notifications DEF WsTypeInv
  <2>4. Queued(s, e) /\ Held(s, e) /\ e <= raised
    BY <2>1, <1>4, Parts DEF Held, RaisingInv
  <2>5. WsTypeInv'
    BY <2>2, <2>3, <1>2, <1>4, <1>5, Parts DEF WsTypeInv
  <2>6. ClientsInv'
    <3>1. p[1] = e /\ p[2] = handler[s] /\ handler[s] <= clients /\ 0 < handler[s]
      BY <2>2, <2>3, <1>2, Parts DEF ClientsInv
    <3> QED
      BY <3>1, <2>3, <2>4, <1>2, <1>8, Parts DEF ClientsInv
  <2>7. <<e, s>> \notin stray => p \in meant /\ p \notin sent
    <3> SUFFICES ASSUME <<e, s>> \notin stray PROVE p \in meant /\ p \notin sent
      OBVIOUS
    <3>1. s \in pending[e]
      BY <2>4, Parts DEF HeldInv
    <3>2. Client(s) = handler[s] /\ ~Leaving(s)
      BY <1>8 DEF Client, Leaving
    <3>3. p \in meant
      BY <3>1, <3>2, <2>2, Parts DEF MeantInv
    <3>4. ~ (job[s] = Notification(e))
      BY <1>2, Notifications
    <3> QED
      BY <3>1, <3>3, <3>4, <2>2, Parts DEF SentInv
  <2>8. SentToOwn'
    <3> SUFFICES ASSUME NEW q \in sent'
                 PROVE  q \in meant \ again' \/ \E r \in Slot : <<q[1], r>> \in stray
      BY <1>2 DEF SentToOwn
    <3>1. CASE q = p
      <4>1. q[1] = e
        BY <3>1, <2>2
      <4>2. <<e, s>> \notin stray => q \notin again'
        BY <3>1, <2>3, <2>7, Parts DEF SentInv
      <4> QED
        BY <4>1, <4>2, <3>1, <2>7
    <3>2. CASE q # p
      BY <3>2, <2>3, Parts DEF SentInv, SentToOwn
    <3> QED
      BY <3>1, <3>2
  <2>9. again' \subseteq sent'
    BY <2>3, Parts DEF SentInv
  <2>10. SentInv'
    <3> SUFFICES ASSUME NEW r \in Slot, NEW f \in Entry, <<f, handler[r]>> \in sent',
                        r \in pending[f], <<f, r>> \notin stray
                 PROVE  job'[r] = Notification(f)
      BY <2>8, <2>9, <1>2 DEF SentInv
    <3>1. CASE <<f, handler[r]>> \in sent
      <4>1. job[r] = Notification(f)
        BY <3>1, Parts DEF SentInv
      <4>2. r # s
        BY <4>1, <1>2, Notifications
      <4> QED
        BY <4>1, <4>2, <1>5
    <3>2. CASE <<f, handler[r]>> = p
      <4>1. f = e /\ handler[r] = handler[s]
        BY <3>2, <2>2
      <4>2. r = s
        BY <4>1, <1>2, Parts DEF ClientsInv
      <4> QED
        BY <4>1, <4>2, <2>1, <1>5
    <3> QED
      BY <3>1, <3>2, <2>3
  <2> QED
    BY <2>5, <2>6, <2>10, <1>7, <1>9, <1>10 DEF WsIInv
<1> QED
  BY <1>11, <1>12

-----------------------------------------------------------------------------
(* A notification is raised, and offered to one reader after the other.    *)
LEMMA RaiseWs == ASSUME WsIInv, NEW t, Raise(t) PROVE WsIInv'
<1>1. PICK n, R : n = raised' /\ R \in SUBSET (readers \cup {Other})
                  /\ pending' = [pending EXCEPT ![n] = R]
                  /\ meant' = meant \cup {<<n, Client(s)>> : s \in R \ {Other}}
  <2>1. \E R \in SUBSET (readers \cup {Other}) :
          /\ pending' = [pending EXCEPT ![raised'] = R]
          /\ meant' = meant \cup {<<raised', Client(s)>> : s \in R \ {Other}}
    BY DEF Raise
  <2> QED
    BY ONLY <2>1
<1>2. /\ raising = Quiet /\ raised < MaxEntries /\ n = raised + 1
      /\ live' = live \cup {n} /\ raising' = [entry |-> n, todo |-> readers]
      /\ UNCHANGED <<handler, queue, job, backlog, mutex, mongoose, readers, clients, sent, again,
                     stray>>
  BY <1>1 DEF Raise, web
<1>3. n \in Entry /\ n \in 0..MaxEntries /\ raised \in Nat /\ ~(n <= raised) /\ raised <= n
  BY <1>2, Parts, WebSocketAssumption DEF WsTypeInv, Entry
<1>4. /\ pending' \in [Entry -> SUBSET (Slot \cup {Other})]
      /\ pending'[n] = R /\ \A e \in Entry : e # n => pending'[e] = pending[e]
  BY <1>1, <1>3, Parts DEF WsTypeInv
<1>5. \A s, e : (Held(s, e)' <=> Held(s, e)) /\ (Single(s, e)' <=> Single(s, e))
  BY <1>2, HeldSame
<1>6. \A s \in Slot : ~Held(s, n)
  BY <1>3, Parts DEF RaisingInv
<1>7. \A s : Client(s)' = Client(s) /\ (Leaving(s)' <=> Leaving(s))
  BY <1>2 DEF Client, Leaving
<1>8. WsTypeInv'
  BY <1>1, <1>2, <1>3, <1>4, Parts DEF WsTypeInv
<1>9. LockInv' /\ ReadersInv'
  BY <1>1, <1>2, <1>4, Parts DEF LockInv, ReadersInv
<1>10. RaisingInv'
  <2>1. raising'.entry = n /\ raising'.todo = readers /\ readers \subseteq Slot /\ n \in live'
    BY <1>2, Parts DEF WsTypeInv
  <2>2. \A s \in Slot, e \in Entry : Held(s, e) => e <= n
    <3> SUFFICES ASSUME NEW s \in Slot, NEW e \in Entry, Held(s, e) PROVE e <= n
      OBVIOUS
    <3>1. e <= raised
      BY Parts DEF RaisingInv
    <3> QED
      BY <3>1, <1>2, <1>3 DEF Entry
  <2>3. \A e \in Entry : e > n => pending'[e] = {}
    <3> SUFFICES ASSUME NEW e \in Entry, e > n PROVE pending'[e] = {}
      OBVIOUS
    <3>1. e > raised /\ e # n
      BY <1>2, <1>3 DEF Entry
    <3> QED
      BY <3>1, <1>4, Parts DEF RaisingInv
  <2> QED
    BY <2>1, <2>2, <2>3, <1>1, <1>5, <1>6 DEF RaisingInv
<1>11. HeldInv'
  <2> SUFFICES ASSUME NEW r \in Slot, NEW f \in Entry, <<f, r>> \notin stray
               PROVE  Single(r, f) /\ (Held(r, f) => f \in live' /\ r \in pending'[f])
    BY <1>2, <1>5 DEF HeldInv
  <2>1. Single(r, f) /\ (Held(r, f) => f \in live /\ r \in pending[f])
    BY Parts DEF HeldInv
  <2> QED
    BY <2>1, <1>2, <1>4, <1>6
<1>12. PendingInv'
  <2> SUFFICES ASSUME NEW r \in Slot, NEW f \in Entry, r \in pending'[f]
               PROVE  (raising'.entry = f /\ r \in raising'.todo) \/ Held(r, f) \/ Leaving(r)
    BY <1>5, <1>7 DEF PendingInv
  <2>1. CASE f = n
    BY <2>1, <1>1, <1>2, <1>4, WebSocketAssumption DEF Slot, Other
  <2>2. CASE f # n
    <3>1. raising.entry # f
      BY <1>2 DEF Quiet, Entry
    <3> QED
      BY <3>1, <2>2, <1>4, Parts DEF PendingInv
  <2> QED
    BY <2>1, <2>2
<1>13. MeantInv'
  <2> SUFFICES ASSUME NEW r \in Slot, NEW f \in Entry, r \in pending'[f]
               PROVE  <<f, Client(r)>> \in meant' \/ Leaving(r)
    BY <1>7 DEF MeantInv
  <2>1. CASE f = n
    <3>1. r \in R \ {Other}
      BY <2>1, <1>4, WebSocketAssumption DEF Slot, Other
    <3> QED
      BY <3>1, <2>1, <1>1
  <2>2. CASE f # n
    BY <2>2, <1>1, <1>4, Parts DEF MeantInv
  <2> QED
    BY <2>1, <2>2
<1>14. ClientsInv'
  <2>1. \A p \in sent : p[1] <= n
    <3> SUFFICES ASSUME NEW p \in sent PROVE p[1] <= n
      OBVIOUS
    <3>1. p[1] <= raised /\ p[1] \in Nat
      BY Parts DEF ClientsInv, WsTypeInv, Entry
    <3> QED
      BY <3>1, <1>2, <1>3
  <2> QED
    BY <2>1, <1>1, <1>2, Parts DEF ClientsInv
<1>15. SentInv'
  <2>1. SentToOwn'
    BY <1>1, <1>2, Parts DEF SentInv, SentToOwn
  <2>2. \A r \in Slot : <<n, handler[r]>> \notin sent
    BY <1>3, Parts DEF ClientsInv
  <2> QED
    BY <2>1, <2>2, <1>2, <1>4, Parts DEF SentInv
<1> QED
  BY <1>8, <1>9, <1>10, <1>11, <1>12, <1>13, <1>14, <1>15 DEF WsIInv

\* The entry being raised, when its next reader is s.
LEMMA Offered ==
  ASSUME WsIInv, NEW s \in raising.todo
  PROVE  /\ s \in Slot /\ raising.entry = raised /\ raised \in Entry /\ raised \in live
         /\ ~Held(s, raised) /\ raising # Quiet
         /\ raising \in [entry : 0..MaxEntries, todo : SUBSET Slot]
<1>1. raising \in [entry : 0..MaxEntries, todo : SUBSET Slot] /\ live \subseteq Entry
  BY Parts DEF WsTypeInv
<1>2. raising # Quiet
  BY DEF Quiet
<1> QED
  BY <1>1, <1>2, Parts DEF RaisingInv

\* It is not taken on: the reader is withdrawn, or has nothing to do.
LEMMA NotTaken ==
  ASSUME WsIInv, NEW s \in raising.todo,
         raising' = [raising EXCEPT !.todo = @ \ {s}],
         pending' = [pending EXCEPT ![raising.entry] = @ \ {s}],
         UNCHANGED <<handler, queue, job, backlog, mutex, mongoose, readers, type, live, raised,
                     clients, sent, again, meant, stray>>
  PROVE  WsIInv'
<1>1. /\ s \in Slot /\ raising.entry = raised /\ raised \in Entry /\ raised \in live
      /\ ~Held(s, raised) /\ raising # Quiet
      /\ raising \in [entry : 0..MaxEntries, todo : SUBSET Slot]
  BY Offered
<1>2. /\ raising' \in [entry : 0..MaxEntries, todo : SUBSET Slot]
      /\ raising'.entry = raised /\ raising'.todo = raising.todo \ {s}
  BY <1>1
<1>3. /\ pending' \in [Entry -> SUBSET (Slot \cup {Other})]
      /\ pending'[raised] = pending[raised] \ {s}
      /\ \A e \in Entry : e # raised => pending'[e] = pending[e]
  BY <1>1, Parts DEF WsTypeInv
<1>4. \A r, e : (Held(r, e)' <=> Held(r, e)) /\ (Single(r, e)' <=> Single(r, e))
  BY HeldSame
<1>5. WsTypeInv' /\ LockInv'
  BY <1>2, <1>3, Parts DEF WsTypeInv, LockInv
<1>6. ReadersInv' /\ MeantInv' /\ ClientsInv' /\ SentToOwn'
  BY <1>3, ReadKeeps
<1>7. RaisingInv'
  BY <1>1, <1>2, <1>3, <1>4, Parts DEF RaisingInv
<1>8. HeldInv'
  BY <1>1, <1>3, <1>4, Parts DEF HeldInv
<1>9. PendingInv'
  BY <1>1, <1>2, <1>3, <1>4, Parts DEF PendingInv, Leaving
<1>10. SentInv'
  BY <1>3, <1>6, Parts DEF SentInv
<1> QED
  BY <1>5, <1>6, <1>7, <1>8, <1>9, <1>10 DEF WsIInv

\* It is: a job holds it now, in the queue or in the backlog.
LEMMA Taken ==
  ASSUME WsIInv, NEW s \in raising.todo, Called(s, FALSE),
         queue' \in [Slot -> Seq(Job)], backlog' \in Seq(Backlogged), Len(backlog') <= BacklogSize,
         \A r \in Slot, e \in Entry :
           /\ Held(r, e)' <=> Held(r, e) \/ (r = s /\ e = raised)
           /\ Single(r, e) /\ (r = s /\ e = raised => ~Held(r, e)) => Single(r, e)',
         UNCHANGED <<handler, job, mutex, mongoose, readers, type, live, raised,
                     clients, sent, again, meant>>,
         mongoose.pc # "clear" \/ queue' = queue
  PROVE  WsIInv'
<1>1. /\ s \in Slot /\ raising.entry = raised /\ raised \in Entry /\ raised \in live
      /\ ~Held(s, raised) /\ raising # Quiet
      /\ raising \in [entry : 0..MaxEntries, todo : SUBSET Slot]
  BY Offered
<1>2. /\ raising' = [raising EXCEPT !.todo = @ \ {s}] /\ pending' = pending
      /\ stray' = IF s \notin pending[raised] THEN stray \cup {<<raised, s>>} ELSE stray
  BY <1>1 DEF Called
<1>3. /\ raising' \in [entry : 0..MaxEntries, todo : SUBSET Slot]
      /\ raising'.entry = raised /\ raising'.todo = raising.todo \ {s}
  BY <1>1, <1>2
<1>4. stray \subseteq stray' /\ (<<raised, s>> \notin stray' => s \in pending[raised])
  BY <1>2
<1>5. WsTypeInv' /\ LockInv'
  BY <1>2, <1>3, Parts DEF WsTypeInv, LockInv
<1>6. ReadersInv' /\ MeantInv' /\ ClientsInv'
  BY <1>2, Parts DEF ReadersInv, MeantInv, ClientsInv, Client, Leaving
<1>7. RaisingInv'
  <2>1. \A r \in raising'.todo : ~Held(r, raised)'
    BY <1>1, <1>3, Parts DEF RaisingInv
  <2>2. \A r \in Slot, e \in Entry : Held(r, e)' => e <= raised
    BY <1>1, Parts DEF RaisingInv, Entry
  <2> QED
    BY <2>1, <2>2, <1>1, <1>2, <1>3, Parts DEF RaisingInv
<1>8. HeldInv'
  <2> SUFFICES ASSUME NEW r \in Slot, NEW f \in Entry, <<f, r>> \notin stray'
               PROVE  Single(r, f)' /\ (Held(r, f)' => f \in live /\ r \in pending[f])
    BY <1>2 DEF HeldInv
  <2>1. Single(r, f) /\ (Held(r, f) => f \in live /\ r \in pending[f])
    BY <1>4, Parts DEF HeldInv
  <2> QED
    BY <2>1, <1>1, <1>4
<1>9. PendingInv'
  <2> SUFFICES ASSUME NEW r \in Slot, NEW f \in Entry, r \in pending[f]
               PROVE  (raising'.entry = f /\ r \in raising'.todo) \/ Held(r, f)' \/ Leaving(r)
    BY <1>2 DEF PendingInv, Leaving
  <2>1. (raising.entry = f /\ r \in raising.todo) \/ Held(r, f) \/ Leaving(r)
    BY Parts DEF PendingInv
  <2> QED
    BY <2>1, <1>1, <1>3
<1>10. SentInv'
  BY <1>2, <1>4, Parts DEF SentInv, SentToOwn
<1> QED
  BY <1>5, <1>6, <1>7, <1>8, <1>9, <1>10 DEF WsIInv

LEMMA WithdrawWs == ASSUME WsIInv, NEW s, Withdraw(s) PROVE WsIInv'
BY NotTaken DEF Withdraw, web, history

LEMMA IncomingBacklogWs == ASSUME WsIInv, NEW s, IncomingBacklog(s) PROVE WsIInv'
<1>1. s \in raising.todo
  BY DEF IncomingBacklog, Called
<1>2. UNCHANGED <<handler, queue, job, mutex, mongoose, readers, type, live, raised, clients, sent,
                  again, meant>>
  BY DEF IncomingBacklog
<1>3. CASE Len(backlog) < BacklogSize
  <2>1. s \in Slot /\ raising.entry = raised /\ raised \in Entry
    BY <1>1, Offered
  <2>2. PICK b : b = Late(s, raised)
    OBVIOUS
  <2>3. Called(s, FALSE) /\ backlog' = Append(backlog, b)
    BY <1>3, <2>1, <2>2 DEF IncomingBacklog, Late
  <2>4. b \in Backlogged /\ backlog \in Seq(Backlogged)
    BY <2>1, <2>2, Notifications, Parts DEF Backlogged, Late, WsTypeInv
  <2>5. backlog' \in Seq(Backlogged) /\ Len(backlog') <= BacklogSize
    <3>1. PICK S : S = Backlogged
      OBVIOUS
    <3>2. b \in S /\ backlog \in Seq(S)
      BY <3>1, <2>4
    <3>3. backlog' \in Seq(S) /\ Len(backlog') <= BacklogSize
      BY ONLY <3>2, <2>3, <1>3, WebSocketAssumption
    <3> QED
      BY <3>1, <3>3
  <2>6. ASSUME NEW r \in Slot, NEW e \in Entry
        PROVE  /\ Held(r, e)' <=> Held(r, e) \/ (r = s /\ e = raised)
               /\ Single(r, e) /\ (r = s /\ e = raised => ~Held(r, e)) => Single(r, e)'
    <3>1. b = Late(r, e) <=> r = s /\ e = raised
      <4>1. Late(r, e) = Late(s, raised) => r = s /\ Notification(e) = Notification(raised)
        BY DEF Late
      <4> QED
        BY <4>1, <2>2, Notifications
    <3>2. /\ Waiting(r, e)' <=> Waiting(r, e) \/ b = Late(r, e)
          /\ Once(backlog, Late(r, e)) /\ (b = Late(r, e) => ~Waiting(r, e)) =>
               Once(backlog', Late(r, e))
      BY <2>3, <2>4, Grown DEF Waiting, Late
    <3>3. (Queued(r, e)' <=> Queued(r, e)) /\ queue' = queue /\ job' = job
      BY <1>2 DEF Queued
    <3> QED
      BY <3>1, <3>2, <3>3 DEF Held, Single
  <2> QED
    BY <1>1, <1>2, <2>3, <2>5, <2>6, Taken, Parts DEF WsTypeInv
<1>4. CASE ~(Len(backlog) < BacklogSize)
  <2>1. Called(s, TRUE) /\ backlog' = backlog
    BY <1>4 DEF IncomingBacklog
  <2> QED
    BY <1>1, <1>2, <2>1, NotTaken DEF Called
<1> QED
  BY <1>3, <1>4

LEMMA IncomingNotificationWs ==
  ASSUME WsIInv, RoomInv, NEW s, IncomingNotification(s) PROVE WsIInv'
<1>1. s \in raising.todo
  BY DEF IncomingNotification, Called
<1>2. /\ UNCHANGED <<handler, job, backlog, mutex, mongoose, readers, type, live, raised, clients,
                     sent, again, meant>>
      /\ mutex = "free"
  BY DEF IncomingNotification
<1>3. s \in Slot /\ raising.entry = raised /\ raised \in Entry
  BY <1>1, Offered
<1>4. PICK j : j = Notification(raised)
  OBVIOUS
<1>5. /\ queue \in [Slot -> Seq(Job)] /\ j \in Job
      /\ \A r \in Slot : Len(queue[r]) \in Nat
      /\ queue' = Added(queue, {s} \cap Connected, j)
  BY <1>3, <1>4, Notifications, Parts DEF WsTypeInv, IncomingNotification
<1>6. /\ queue' \in [Slot -> Seq(Job)]
      /\ \A r \in Slot : queue'[r] = IF r \in {s} \cap Connected /\ Len(queue[r]) < QueueSize
                                     THEN Append(queue[r], j) ELSE queue[r]
  BY <1>5, AddedFacts
<1>7. CASE handler[s] # 0 /\ Len(queue[s]) < QueueSize
  <2>1. Called(s, FALSE)
    <3>1. ~(handler[s] = 0 \/ Len(queue[s]) = QueueSize)
      BY <1>7, <1>3, <1>5, WebSocketAssumption
    <3>2. Called(s, handler[s] = 0 \/ Len(queue[s]) = QueueSize)
      BY DEF IncomingNotification
    <3> QED
      BY ONLY <3>1, <3>2 DEF Called
  <2>2. queue'[s] = Append(queue[s], j) /\ \A r \in Slot : r # s => queue'[r] = queue[r]
    BY <1>3, <1>6, <1>7 DEF Connected
  <2>3. ASSUME NEW r \in Slot, NEW e \in Entry
        PROVE  /\ Held(r, e)' <=> Held(r, e) \/ (r = s /\ e = raised)
               /\ Single(r, e) /\ (r = s /\ e = raised => ~Held(r, e)) => Single(r, e)'
    <3>1. j = Notification(e) <=> e = raised
      BY <1>4, Notifications
    <3>2. /\ Queued(r, e)' <=> Queued(r, e) \/ (r = s /\ j = Notification(e))
          /\ Once(queue[r], Notification(e)) /\ (r = s /\ j = Notification(e) => ~Queued(r, e)) =>
               Once(queue'[r], Notification(e))
      <4>1. CASE r = s
        BY <4>1, <2>2, <1>5, Grown DEF Queued
      <4>2. CASE r # s
        BY <4>2, <2>2 DEF Queued
      <4> QED
        BY <4>1, <4>2
    <3>3. (Waiting(r, e)' <=> Waiting(r, e)) /\ backlog' = backlog /\ job' = job
      BY <1>2 DEF Waiting
    <3> QED
      BY <3>1, <3>2, <3>3 DEF Held, Single
  <2>4. mongoose.pc # "clear"
    BY <1>2, Parts DEF LockInv
  <2> QED
    BY <1>1, <1>2, <1>6, <2>1, <2>3, <2>4, Taken, Parts DEF WsTypeInv
<1>8. CASE handler[s] = 0 \/ ~(Len(queue[s]) < QueueSize)
  <2>1. queue' = queue
    BY <1>5, <1>6, <1>8 DEF Connected
  <2>2. pending' = [pending EXCEPT ![raising.entry] = @ \ {s}] /\ stray' = stray
        /\ raising' = [raising EXCEPT !.todo = @ \ {s}]
    <3>1. CASE handler[s] = 0 \/ Len(queue[s]) = QueueSize
      BY <3>1 DEF IncomingNotification, Called
    <3>2. Len(queue[s]) <= QueueSize
      BY <1>3 DEF RoomInv
    <3> QED
      BY <3>1, <3>2, <1>3, <1>5, <1>8, WebSocketAssumption
  <2> QED
    BY <1>1, <1>2, <2>1, <2>2, NotTaken
<1> QED
  BY <1>7, <1>8

LEMMA RaisedWs == ASSUME WsIInv, Raised PROVE WsIInv'
<1>1. /\ raising # Quiet /\ raising.todo = {} /\ raising' = Quiet
      /\ live' = IF pending[raising.entry] = {} THEN live \ {raising.entry} ELSE live
      /\ UNCHANGED <<handler, queue, job, backlog, mutex, mongoose, readers, type, pending, raised,
                     clients, sent, again, meant, stray>>
  BY DEF Raised, web, history
<1>2. live' \subseteq live /\ \A f \in live : f \in live' \/ pending[f] = {}
  BY <1>1
<1>3. \A r, e : (Held(r, e)' <=> Held(r, e)) /\ (Single(r, e)' <=> Single(r, e))
  BY <1>1, HeldSame
<1>4. WsTypeInv' /\ LockInv'
  BY <1>1, <1>2, Parts, WebSocketAssumption DEF WsTypeInv, LockInv, Quiet
<1>5. ReadersInv' /\ MeantInv' /\ ClientsInv' /\ SentToOwn'
  BY <1>1, ReadKeeps
<1>6. RaisingInv'
  BY <1>1, <1>3, Parts DEF RaisingInv
<1>7. HeldInv'
  BY <1>1, <1>2, <1>3, Parts DEF HeldInv
<1>8. PendingInv'
  BY <1>1, <1>3, Parts DEF PendingInv, Leaving
<1>9. SentInv'
  BY <1>1, <1>5, Parts DEF SentInv
<1> QED
  BY <1>4, <1>5, <1>6, <1>7, <1>8, <1>9 DEF WsIInv

-----------------------------------------------------------------------------
(* No queue gets longer than its size.                                     *)
LEMMA RoomWs == ASSUME WsTypeInv, RoomInv, [Next]_vars PROVE RoomInv'
<1> SUFFICES ASSUME NEW r \in Slot PROVE Len(queue'[r]) <= QueueSize
  BY DEF RoomInv
<1>1. /\ queue \in [Slot -> Seq(Job)] /\ Len(queue[r]) \in Nat /\ Len(queue[r]) <= QueueSize
      /\ QueueSize \in Nat
  BY WebSocketAssumption DEF WsTypeInv, RoomInv
<1>2. ASSUME NEW S, NEW x, queue' = Added(queue, S, x) PROVE Len(queue'[r]) <= QueueSize
  <2>1. queue'[r] = IF r \in S /\ Len(queue[r]) < QueueSize THEN Append(queue[r], x) ELSE queue[r]
    BY <1>2 DEF Added
  <2>2. CASE queue'[r] = queue[r]
    BY <2>2, <1>1
  <2>3. CASE queue'[r] = Append(queue[r], x) /\ Len(queue[r]) < QueueSize
    <3>1. PICK S2 : queue[r] \in Seq(S2) /\ x \in S2
      <4>1. queue[r] \in Seq(Job \cup {x})
        BY <1>1
      <4> QED
        BY <4>1
    <3>2. Len(Append(queue[r], x)) = Len(queue[r]) + 1
      BY ONLY <3>1
    <3> QED
      BY ONLY <3>2, <2>3, <1>1
  <2> QED
    BY <2>1, <2>2, <2>3
<1>3. ASSUME NEW s, queue[s] # <<>>, queue' = [queue EXCEPT ![s] = Tail(@)]
      PROVE  Len(queue'[r]) <= QueueSize
  <2>1. CASE s = r
    <3>1. queue'[r] = Tail(queue[r]) /\ queue[r] \in Seq(Job)
      BY <1>1, <1>3, <2>1
    <3>2. Len(Tail(queue[r])) = Len(queue[r]) - 1
      BY ONLY <3>1, <1>3, <2>1
    <3> QED
      BY ONLY <3>1, <3>2, <1>1
  <2>2. CASE s # r
    BY <1>1, <1>3, <2>2
  <2> QED
    BY <2>1, <2>2
<1>4. CASE Move
  <2>1. PICK s, x : /\ s = Head(backlog).client /\ x = Head(backlog).job
                    /\ Len(queue[s]) < QueueSize /\ queue' = [queue EXCEPT ![s] = Append(@, x)]
    BY <1>4 DEF Move
  <2>2. CASE s = r
    <3>1. queue'[r] = Append(queue[r], x) /\ queue[r] \in Seq(Job \cup {x})
      BY <1>1, <2>1, <2>2
    <3>2. Len(Append(queue[r], x)) = Len(queue[r]) + 1
      BY ONLY <3>1
    <3> QED
      BY ONLY <3>1, <3>2, <1>1, <2>1, <2>2
  <2>3. CASE s # r
    BY <1>1, <2>1, <2>3
  <2> QED
    BY <2>2, <2>3
<1>5. CASE EventListener \/ Update \/ \E s \in Slot : IncomingNotification(s) \/ InitialTx(s)
  BY <1>2, <1>5 DEF EventListener, Update, IncomingNotification, InitialTx
<1>6. CASE \E s \in Slot : NextTxJob(s) \/ Drain(s)
  BY <1>1, <1>3, <1>6 DEF NextTxJob, Drain
<1>7. CASE queue' = queue
  BY <1>1, <1>7
<1>8. \/ Move \/ EventListener \/ Update \/ queue' = queue
      \/ \E s \in Slot : IncomingNotification(s) \/ InitialTx(s) \/ NextTxJob(s) \/ Drain(s)
  BY DEF Next, Mongoose, Transmit, Notifier, TickerRun, vars, web, Create, Destroy, Register,
         NewHandler, ClearReader, ContinueTx, Raised, Withdraw, IncomingBacklog, Raise,
         ListenerBacklog, Ticker, Discard, OtherReads
<1> QED
  BY <1>4, <1>5, <1>6, <1>7, <1>8

-----------------------------------------------------------------------------
(* Every step.                                                             *)
LEMMA NextWs == ASSUME WsIInv, RoomInv, [Next]_vars PROVE WsIInv'
<1>1. ASSUME NEW s \in Slot, Create(s) \/ Destroy(s) \/ Mongoose(s) \/ Transmit(s) PROVE WsIInv'
  BY <1>1, CreateWs, DestroyWs, RegisterWs, NewHandlerWs, InitialTxWs, DrainWs, ClearReaderWs,
     NextTxJobWs, ContinueTxWs DEF Mongoose, Transmit
<1>2. CASE Notifier
  BY <1>2, RaisedWs, WithdrawWs, IncomingBacklogWs, IncomingNotificationWs DEF Notifier
<1>3. CASE \E t \in Types : Raise(t)
  BY <1>3, RaiseWs
<1>4. CASE EventListener \/ ListenerBacklog \/ Ticker \/ TickerRun
  BY <1>4, EventListenerWs, ListenerBacklogWs, TickerWs, DiscardWs, MoveWs, UpdateWs DEF TickerRun
<1>5. CASE \E e \in Entry : OtherReads(e)
  BY <1>5, OtherReadsWs
<1>6. CASE UNCHANGED vars
  <2>1. UNCHANGED <<handler, queue, job, backlog, mutex, mongoose, readers, raising, type, pending,
                    live, raised, clients, sent, again, meant, stray>>
    BY <1>6 DEF vars, web, notify, history
  <2>2. RaisingInv' /\ HeldInv' /\ PendingInv'
    BY <2>1, HeldSame, JobsKept DEF JobsSame, Leaving
  <2>3. ReadersInv' /\ MeantInv' /\ ClientsInv' /\ SentToOwn'
    BY <2>1, ReadKeeps
  <2> QED
    BY <2>1, <2>2, <2>3, Parts DEF WsIInv, WsTypeInv, LockInv, SentInv
<1> QED
  BY <1>1, <1>2, <1>3, <1>4, <1>5, <1>6 DEF Next

LEMMA WebSocketInvariant == Spec => [](WsIInv /\ RoomInv)
<1>1. Init => WsIInv /\ RoomInv
  <2>1. ASSUME Init PROVE RoomInv
    BY <2>1, WebSocketAssumption DEF Init, RoomInv
  <2> QED
    BY <2>1, InitWs
<1>2. WsIInv /\ RoomInv /\ [Next]_vars => (WsIInv /\ RoomInv)'
  BY NextWs, RoomWs, Parts
<1> QED
  BY <1>1, <1>2, PTL DEF Spec

\* A slot has a job for an entry if it is held for it, and one if it is Single.
LEMMA JobsHeld ==
  ASSUME WsTypeInv, NEW s \in Slot, NEW e \in Entry
  PROVE  /\ JobsFor(s, e) # {} <=> Held(s, e)
         /\ Single(s, e) => \A i, j \in JobsFor(s, e) : i = j
<1>1. PICK n : n = Notification(e)
  OBVIOUS
<1>2. backlog \in Seq(Backlogged)
  BY DEF WsTypeInv
<1>3. \A k \in DOMAIN backlog : backlog[k] = Late(s, e) <=> backlog[k].client = s /\ backlog[k].job = n
  <2> SUFFICES ASSUME NEW k \in DOMAIN backlog
               PROVE  backlog[k] = Late(s, e) <=> backlog[k].client = s /\ backlog[k].job = n
    OBVIOUS
  <2>1. backlog[k] \in Backlogged
    BY <1>2
  <2> QED
    BY <2>1, <1>1 DEF Backlogged, Late
<1>4. \A j : j \in JobsFor(s, e) <=>
        \/ job[s] = n /\ j = [at |-> "transmission", place |-> 1, job |-> n]
        \/ \E k \in DOMAIN queue[s] : queue[s][k] = n /\ j = [at |-> "queue", place |-> k, job |-> n]
        \/ \E k \in DOMAIN backlog :
             backlog[k] = Late(s, e) /\ j = [at |-> "backlog", place |-> k, job |-> n]
  BY <1>1, <1>3 DEF JobsFor, Jobs
<1>5. JobsFor(s, e) # {} <=> Held(s, e)
  BY <1>1, <1>4 DEF Held, Queued, Waiting, Has
<1>6. ASSUME Single(s, e), NEW i \in JobsFor(s, e), NEW j \in JobsFor(s, e) PROVE i = j
  BY <1>1, <1>4, <1>6 DEF Single, Queued, Waiting, Has, Once
<1> QED
  BY <1>5, <1>6

(* A slot has a job for a notification if, and only if, the notification   *)
(* waits for the reader of the slot, and one job only: through the queue,  *)
(* the backlog and the transmission, clients that come and go, and the     *)
(* tasks that meet in them, for any number of each.                        *)
THEOREM WebSocketJobsMatchPending == Spec => []JobsMatchPending
<1>1. WsIInv => JobsMatchPending
  <2> SUFFICES ASSUME WsIInv PROVE JobsPending /\ PendingHeld
    BY DEF JobsMatchPending
  <2>1. JobsPending
    BY JobsHeld, Parts DEF JobsPending, HeldInv
  <2>2. PendingHeld
    BY JobsHeld, Parts DEF PendingHeld, PendingInv
  <2> QED
    BY <2>1, <2>2
<1> QED
  BY <1>1, WebSocketInvariant, PTL

(* A client is sent only what was raised while it was there, and that once.*)
THEOREM WebSocketSentToOwn == Spec => []SentToOwn
<1>1. WsIInv => SentToOwn
  BY DEF WsIInv, SentInv
<1> QED
  BY <1>1, WebSocketInvariant, PTL

-----------------------------------------------------------------------------
(***************************************************************************)
(* The notification framework as it is used here is the board that module  *)
(* Notify implements.                                                      *)
(***************************************************************************)
LEMMA ItemIs == \A x : x \in Items <=> \E e \in Entry, s \in Slot : s \in pending[e] /\ x = <<"entry", e, s>>
BY DEF Items

\* One reader has read one entry.
LEMMA ReadTakes ==
  ASSUME NEW r, NEW e \in Entry, pending \in [Entry -> SUBSET (Slot \cup {Other})],
         pending' = [pending EXCEPT ![e] = @ \ {r}], UNCHANGED <<readers, raised>>
  PROVE  [Board!Next]_(Board!vars)
<1> DEFINE b == <<"entry", e, r>>
<1>1. pending'[e] = pending[e] \ {r} /\ \A f \in Entry : f # e => pending'[f] = pending[f]
  OBVIOUS
<1>2. \A x : x \in Items' <=> \E f \in Entry, s \in Slot : s \in pending'[f] /\ x = <<"entry", f, s>>
  BY DEF Items
<1>3. \A x : x \in Items' <=> x \in Items /\ x # b
  <2>1. ASSUME NEW x \in Items' PROVE x \in Items /\ x # b
    BY <1>1, <1>2, <2>1, ItemIs
  <2>2. ASSUME NEW x \in Items, x # b PROVE x \in Items'
    <3>1. PICK f \in Entry, s \in Slot : s \in pending[f] /\ x = <<"entry", f, s>>
      BY ItemIs
    <3>2. s \in pending'[f]
      BY <1>1, <2>2, <3>1
    <3> QED
      BY <1>2, <3>1, <3>2
  <2> QED
    BY <2>1, <2>2
<1>4. Items' = Items \ {b}
  BY <1>3
<1>5. CASE b \in Items
  BY <1>4, <1>5 DEF Board!Take, Board!Next
<1>6. CASE b \notin Items
  BY <1>4, <1>6 DEF Board!vars
<1> QED
  BY <1>5, <1>6

LEMMA RegisterJoins == ASSUME WsIInv, NEW s \in Slot, Register(s) PROVE Board!Join(s)
<1>1. /\ mongoose = At("register", s) /\ readers' = readers \cup {s}
      /\ UNCHANGED <<pending, raised>>
  BY DEF Register
<1>2. s \notin readers
  BY <1>1, Parts DEF ReadersInv, LockInv, At
<1>3. Items' = Items
  BY <1>1 DEF Items
<1> QED
  BY <1>1, <1>2, <1>3 DEF Board!Join

LEMMA ClearReaderLeaves == ASSUME WsIInv, NEW s \in Slot, ClearReader(s) PROVE Board!Leave(s)
<1>1. /\ mongoose = At("clear", s) /\ pending' = [e \in Entry |-> pending[e] \ {s}]
      /\ readers' = readers \ {s} /\ UNCHANGED raised
  BY DEF ClearReader
<1>2. s \in readers
  BY <1>1, Parts DEF ReadersInv, At
<1>3. \A x : x \in Items' <=> x \in Items /\ x[3] # s
  BY <1>1 DEF Items
<1>4. Items' = {x \in Items : x[3] # s}
  BY <1>3
<1> QED
  BY <1>1, <1>2, <1>4 DEF Board!Leave

LEMMA RaisePosts ==
  ASSUME WsIInv, NEW t, Raise(t) PROVE \E S \in SUBSET readers : Board!Post("entry", S)
<1>1. /\ raised' = raised + 1 /\ raised < MaxEntries /\ UNCHANGED readers
      /\ \E R \in SUBSET (readers \cup {Other}) : pending' = [pending EXCEPT ![raised'] = R]
  BY DEF Raise
<1>2. PICK R \in SUBSET (readers \cup {Other}) : pending' = [pending EXCEPT ![raised'] = R]
  BY <1>1
<1>3. PICK n : n = raised'
  OBVIOUS
<1>4. /\ n \in Entry /\ n > raised /\ n = raised + 1 /\ raised' = n /\ raised \in Nat
      /\ readers \subseteq Slot
      /\ pending \in [Entry -> SUBSET (Slot \cup {Other})] /\ Other \notin Slot
  BY <1>1, <1>3, Parts, WebSocketAssumption DEF WsTypeInv, Entry, Slot, Other
<1>5. pending[n] = {} /\ pending'[n] = R /\ \A e \in Entry : e # n => pending'[e] = pending[e]
  BY <1>2, <1>3, <1>4, Parts DEF RaisingInv
<1>6. PICK S : S = R \ {Other}
  OBVIOUS
<1>7. S \in SUBSET readers /\ \A s \in Slot : s \in R <=> s \in S
  BY <1>4, <1>6
<1>8. \A x : x \in Items' <=> \E f \in Entry, s \in Slot : s \in pending'[f] /\ x = <<"entry", f, s>>
  BY DEF Items
<1>9. \A x : x \in Items' <=> x \in Items \/ \E s \in S : x = <<"entry", n, s>>
  <2>1. ASSUME NEW x \in Items' PROVE x \in Items \/ \E s \in S : x = <<"entry", n, s>>
    <3>1. PICK f \in Entry, s \in Slot : s \in pending'[f] /\ x = <<"entry", f, s>>
      BY <1>8, <2>1
    <3> QED
      BY <1>5, <1>7, <3>1, ItemIs
  <2>2. ASSUME NEW x \in Items PROVE x \in Items'
    <3>1. PICK f \in Entry, s \in Slot : s \in pending[f] /\ x = <<"entry", f, s>>
      BY ItemIs
    <3> QED
      BY <1>5, <1>8, <3>1
  <2>3. ASSUME NEW s \in S PROVE <<"entry", n, s>> \in Items'
    BY <1>4, <1>5, <1>7, <1>8
  <2> QED
    BY <2>1, <2>2, <2>3
<1>10. Items' = Items \cup {<<"entry", n, s>> : s \in S}
  BY <1>9
<1>11. [t2 \in {"entry"} |-> raised + 1]' = [[t2 \in {"entry"} |-> raised + 1] EXCEPT !["entry"] = @ + 1]
       /\ [t2 \in {"entry"} |-> raised + 1]["entry"] = n
  BY <1>4
<1>12. Board!Post("entry", S)
  BY <1>1, <1>7, <1>10, <1>11 DEF Board!Post
<1> QED
  BY <1>7, <1>12

LEMMA StepOfBoard == ASSUME WsIInv, [Next]_vars PROVE [Board!Next]_(Board!vars)
<1>1. pending \in [Entry -> SUBSET (Slot \cup {Other})]
  BY Parts DEF WsTypeInv
<1>2. ASSUME UNCHANGED <<readers, raised, pending>> PROVE UNCHANGED Board!vars
  BY <1>2 DEF Board!vars, Items
<1>3. ASSUME NEW s \in Slot, NEW j \in Job, Clear(s, j), UNCHANGED <<readers, raised>>
      PROVE  [Board!Next]_(Board!vars)
  <2>1. CASE j.kind = "notify"
    <3>1. PICK e \in Entry : j = Notification(e)
      BY <2>1, Notifications
    <3>2. MarkRead(s, e)
      BY <1>3, <2>1, <3>1, Notifications DEF Clear
    <3> QED
      BY <1>1, <1>3, <3>2, ReadTakes DEF MarkRead
  <2>2. CASE j.kind # "notify"
    BY <1>2, <1>3, <2>2 DEF Clear
  <2> QED
    BY <2>1, <2>2
<1>4. ASSUME NEW s, Called(s, FALSE) \/ Called(s, TRUE), UNCHANGED <<readers, raised>>
      PROVE  [Board!Next]_(Board!vars)
  <2>1. raising.entry \in Entry
    BY <1>4, Offered DEF Called
  <2> QED
    BY <1>1, <1>2, <1>4, <2>1, ReadTakes DEF Called
<1>5. ASSUME NEW s \in Slot, Register(s) \/ ClearReader(s) PROVE Board!Next
  BY <1>5, RegisterJoins, ClearReaderLeaves DEF Board!Next
<1>6. ASSUME NEW s \in Slot, Drain(s) \/ ContinueTx(s) PROVE [Board!Next]_(Board!vars)
  <2>1. CASE ContinueTx(s)
    <3>1. job[s] \in Job
      BY Parts DEF WsTypeInv
    <3> QED
      BY <1>3, <2>1, <3>1 DEF ContinueTx
  <2>2. CASE Drain(s) /\ queue[s] # <<>>
    <3>1. Head(queue[s]) \in Job
      BY <2>2, Parts, Shrunk DEF WsTypeInv
    <3> QED
      BY <1>3, <2>2, <3>1 DEF Drain
  <2>3. CASE Drain(s) /\ queue[s] = <<>>
    BY <1>2, <2>3 DEF Drain
  <2> QED
    BY <1>6, <2>1, <2>2, <2>3
<1>7. ASSUME NEW s, Withdraw(s) \/ IncomingBacklog(s) \/ IncomingNotification(s)
      PROVE  [Board!Next]_(Board!vars)
  <2>1. CASE Withdraw(s)
    <3>1. raising.entry \in Entry
      BY <2>1, Offered DEF Withdraw
    <3> QED
      BY <1>1, <2>1, <3>1, ReadTakes DEF Withdraw
  <2>2. CASE IncomingBacklog(s)
    BY <1>4, <2>2 DEF IncomingBacklog
  <2>3. CASE IncomingNotification(s)
    <3>1. PICK done \in BOOLEAN : Called(s, done)
      BY <2>3 DEF IncomingNotification
    <3> QED
      BY <1>4, <2>3, <3>1 DEF IncomingNotification
  <2> QED
    BY <1>7, <2>1, <2>2, <2>3
<1>8. CASE Discard
  <2>1. Head(backlog).client \in Slot /\ Head(backlog).job \in Job
    BY <1>8, Parts, BacklogHead DEF Discard
  <2> QED
    BY <1>3, <1>8, <2>1 DEF Discard
<1>9. ASSUME NEW t, Raise(t) PROVE Board!Next
  BY <1>9, RaisePosts DEF Board!Next
<1>10. ASSUME NEW e \in Entry, OtherReads(e) PROVE [Board!Next]_(Board!vars)
  BY <1>1, <1>10, ReadTakes DEF OtherReads, MarkRead
<1>11. ASSUME NEW s \in Slot, Create(s) \/ Destroy(s) \/ NewHandler(s) \/ InitialTx(s) \/ NextTxJob(s)
       PROVE  UNCHANGED <<readers, raised, pending>>
  BY <1>11 DEF Create, Destroy, NewHandler, InitialTx, NextTxJob, notify
<1>12. CASE Raised \/ EventListener \/ ListenerBacklog \/ Ticker \/ Move \/ Update \/ UNCHANGED vars
  <2>1. UNCHANGED <<readers, raised, pending>>
    BY <1>12 DEF Raised, EventListener, ListenerBacklog, Ticker, Move, Update, vars, notify
  <2> QED
    BY <1>2, <2>1
<1> QED
  BY <1>2, <1>5, <1>6, <1>7, <1>8, <1>9, <1>10, <1>11, <1>12
  DEF Next, Mongoose, Transmit, Notifier, TickerRun

(* What this module uses of the notification framework is no more than the *)
(* framework promises: every step is one of the board that Notify          *)
(* implements as well, for any number of slots.                            *)
THEOREM WebSocketImplementsBoard == Spec => ImplementsBoard
<1>1. Init => Board!Init
  BY DEF Init, Board!Init, Items
<1>2. WsIInv /\ [Next]_vars => [Board!Next]_(Board!vars)
  BY StepOfBoard
<1> QED
  BY <1>1, <1>2, WebSocketInvariant, PTL DEF Spec, ImplementsBoard, Board!Spec

-----------------------------------------------------------------------------
(* Types, with the bounds.                                                 *)
CountsInv == slots \in 0..MaxSlots /\ clients <= MaxClients /\ live \subseteq 1..raised

LEMMA CountsWs == ASSUME WsIInv, CountsInv, [Next]_vars PROVE CountsInv'
<1> USE DEF CountsInv
<1>1. /\ MaxSlots \in Nat /\ MaxClients \in Nat /\ clients \in Nat /\ raised \in Nat
      /\ live \subseteq Entry
  BY Parts, WebSocketAssumption DEF WsTypeInv
<1>2. slots' \in 0..MaxSlots
  <2>1. ASSUME NEW s \in Slot, Register(s) PROVE slots' \in 0..MaxSlots
    BY <2>1, <1>1 DEF Register, Slot
  <2>2. slots' = slots \/ \E s \in Slot : Register(s)
    BY DEF Next, Mongoose, Transmit, Notifier, TickerRun, vars, web, Create, Destroy,
           NewHandler, InitialTx, Drain, ClearReader, NextTxJob, ContinueTx, Raised, Withdraw,
           IncomingBacklog, IncomingNotification, Raise, EventListener, ListenerBacklog, Ticker,
           Discard, Move, Update, OtherReads
  <2> QED
    BY <2>1, <2>2
<1>3. clients' <= MaxClients
  <2>1. ASSUME NEW s \in Slot, Create(s) PROVE clients' <= MaxClients
    BY <2>1, <1>1 DEF Create
  <2>2. clients' = clients \/ \E s \in Slot : Create(s)
    BY DEF Next, Mongoose, Transmit, Notifier, TickerRun, vars, Register, Destroy,
           NewHandler, InitialTx, Drain, ClearReader, NextTxJob, ContinueTx, Raised, Withdraw,
           IncomingBacklog, IncomingNotification, Raise, EventListener, ListenerBacklog, Ticker,
           Discard, Move, Update, OtherReads
  <2> QED
    BY <2>1, <2>2
<1>4. live' \subseteq 1..raised'
  <2>1. ASSUME NEW t, Raise(t) PROVE live' \subseteq 1..raised'
    BY <2>1, <1>1 DEF Raise
  <2>2. ASSUME NEW s, NEW j, Clear(s, j) PROVE live' \subseteq live
    BY <2>2 DEF Clear, MarkRead
  <2>3. (raised' = raised /\ live' \subseteq live) \/ \E t \in Types : Raise(t)
    <3>1. ASSUME NEW s \in Slot, Drain(s) \/ ContinueTx(s) \/ ClearReader(s)
          PROVE  raised' = raised /\ live' \subseteq live
      BY <3>1, <2>2 DEF Drain, ContinueTx, ClearReader
    <3>2. ASSUME NEW e \in Entry, OtherReads(e) PROVE raised' = raised /\ live' \subseteq live
      BY <3>2 DEF OtherReads, MarkRead
    <3>3. CASE Discard \/ Raised
      BY <3>3, <2>2 DEF Discard, Raised
    <3>4. ASSUME NEW s \in Slot, \/ Create(s) \/ Destroy(s) \/ Register(s) \/ NewHandler(s)
                                 \/ InitialTx(s) \/ NextTxJob(s) \/ Withdraw(s)
                                 \/ IncomingBacklog(s) \/ IncomingNotification(s)
          PROVE  raised' = raised /\ live' \subseteq live
      BY <3>4 DEF notify, Create, Destroy, Register, NewHandler, InitialTx, NextTxJob, Withdraw,
                  IncomingBacklog, IncomingNotification
    <3>5. CASE EventListener \/ ListenerBacklog \/ Ticker \/ Move \/ Update \/ UNCHANGED vars
      BY <3>5 DEF notify, vars, EventListener, ListenerBacklog, Ticker, Move, Update
    <3> QED
      BY <3>1, <3>2, <3>3, <3>4, <3>5 DEF Next, Mongoose, Transmit, Notifier, TickerRun
  <2> QED
    BY <2>1, <2>3
<1> QED
  BY <1>2, <1>3, <1>4

(* Every variable has its type, and no queue, slot or client is beyond its *)
(* limit.                                                                  *)
THEOREM WebSocketTypes == Spec => []TypeOK
<1>1. Init => CountsInv
  BY WebSocketAssumption DEF Init, CountsInv
<1>2. WsIInv /\ CountsInv /\ [Next]_vars => CountsInv'
  BY CountsWs
<1>3. WsIInv /\ RoomInv /\ CountsInv => TypeOK
  <2> SUFFICES ASSUME WsIInv, RoomInv, CountsInv PROVE TypeOK
    OBVIOUS
  <2>1. handler \in [Slot -> 0..MaxClients]
    <3>1. ASSUME NEW s \in Slot PROVE handler[s] \in 0..MaxClients
      BY Parts, WebSocketAssumption DEF WsTypeInv, ClientsInv, CountsInv
    <3> QED
      BY <3>1, Parts DEF WsTypeInv
  <2> QED
    BY <2>1, Parts DEF TypeOK, WsTypeInv, RoomInv, CountsInv
<1> QED
  BY <1>1, <1>2, <1>3, WebSocketInvariant, PTL DEF Spec
=============================================================================
