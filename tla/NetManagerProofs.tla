-------------------------- MODULE NetManagerProofs --------------------------
(***************************************************************************)
(* The safety of the network manager, for any number of mongoose tasks and *)
(* any length of the event queue.                                          *)
(*                                                                         *)
(* The inductive invariant has three parts that share few variables:       *)
(*   - MongInv: m_mongoose_task is the handle of every task that has not   *)
(*     freed the manager yet, so the wait for a NULL handle is a wait for  *)
(*     the manager;                                                        *)
(*   - WifiInv: the last quality event waiting says what m_wifi_good says, *)
(*     so the events handled before it may be late;                        *)
(*   - ToldInv: what was told is so.                                       *)
(***************************************************************************)
EXTENDS NetManager, NetJobs, SequenceTheorems, TLAPS

Active(t) == task[t] \in {"created", "loop", "stopping"}

Handle == \A t \in Tasks : Active(t) => m_mongoose_task = t

MongInv ==
  /\ m_mongoose_task \in 0..MaxTasks /\ m_mongoose_running \in BOOLEAN
  /\ task \in [Tasks -> {"none", "created", "loop", "stopping", "ending"}]
  /\ epc \in {"idle", "waiting"}
  /\ Handle

WifiInv ==
  /\ m_wifi_sta \in BOOLEAN /\ m_wifi_good \in BOOLEAN
  /\ sq \in {"good", "between", "bad"}
  /\ queue \in Seq({"good", "bad"}) /\ Len(queue) <= MaxQueue
  /\ m_connected_wifi \in BOOLEAN
  /\ m_connected_wifi => m_wifi_sta
  /\ m_wifi_good => m_wifi_sta
  /\ queue = <<>> => m_connected_wifi = m_wifi_good
  /\ queue # <<>> => m_wifi_good = (queue[Len(queue)] = "good")

NetworkEvents == {"network.up", "network.down", "network.reconfigured",
                  "network.mgr.init", "network.mgr.stop"}

ToldInv ==
  /\ m_connected_wifi \in BOOLEAN /\ m_connected_modem \in BOOLEAN
  /\ m_wifi_ap \in BOOLEAN /\ told \in BOOLEAN
  /\ signalled \subseteq NetworkEvents
  /\ told = m_connected_any

IInv == MongInv /\ WifiInv /\ ToldInv

\* What one step does to the interfaces and what it says of it.
ToldStep ==
  Interface # "none" /\ Interface' # "none" =>
    (Interface' # Interface) = ("network.reconfigured" \in signalled')

-----------------------------------------------------------------------------
\* The initial state satisfies the inductive invariant.
LEMMA InitIInv == Init => IInv
<1> SUFFICES ASSUME Init PROVE IInv
  OBVIOUS
<1>1. MongInv
  <2>1. \A t \in Tasks : task[t] = "none"
    BY DEF Init
  <2>2. Handle
    BY <2>1 DEF Handle, Active
  <2>3. 0 \in 0..MaxTasks
    BY NetManagerAssumption
  <2> QED
    BY <2>2, <2>3 DEF Init, MongInv
<1>2. WifiInv
  <2>1. queue = <<>> /\ queue \in Seq({"good", "bad"}) /\ Len(queue) = 0
    BY DEF Init
  <2>2. 0 <= MaxQueue
    BY NetManagerAssumption
  <2>3. queue # <<>> => m_wifi_good = (queue[Len(queue)] = "good")
    BY <2>1
  <2>4. Len(queue) <= MaxQueue
    BY <2>1, <2>2
  <2> QED
    BY <2>1, <2>3, <2>4 DEF Init, WifiInv
<1>3. ToldInv
  BY DEF Init, ToldInv, NetworkEvents, m_connected_any
<1> QED
  BY <1>1, <1>2, <1>3 DEF IInv

\* A step that leaves the mongoose variables alone keeps their invariant.
LEMMA MongUnchanged == MongInv /\ UNCHANGED <<mong, epc>> => MongInv'
  BY DEF MongInv, Handle, Active, Tasks, mong

\* A task is created for a NULL handle only, so it is alone with the manager.
LEMMA CreateKeepsMong ==
  ASSUME MongInv, m_mongoose_task = 0, CreateTask,
         UNCHANGED m_mongoose_running, epc' \in {"idle", "waiting"}
  PROVE  MongInv'
<1>1. PICK t \in Tasks : /\ task[t] = "none"
                         /\ task' = [task EXCEPT ![t] = "created"]
                         /\ m_mongoose_task' = t
  BY DEF CreateTask
<1>2. \A u \in Tasks : ~Active(u)
  BY DEF MongInv, Handle, Tasks
<1>3. Handle'
  BY <1>1, <1>2 DEF MongInv, Handle, Active
<1> QED
  BY <1>1, <1>3, NetManagerAssumption DEF MongInv, Tasks

\* StartMongooseTask and StopMongooseTask keep the invariant of the tasks.
LEMMA StartKeepsMong == MongInv /\ StartMongooseTask => MongInv'
<1> SUFFICES ASSUME MongInv, StartMongooseTask PROVE MongInv'
  OBVIOUS
<1>1. CASE m_mongoose_task = 0 /\ CreateTask /\ UNCHANGED epc
  BY <1>1, CreateKeepsMong DEF StartMongooseTask, MongInv
<1>2. CASE epc' = "waiting" /\ UNCHANGED <<task, m_mongoose_task>>
  BY <1>2 DEF StartMongooseTask, MongInv, Handle, Active
<1>3. CASE UNCHANGED <<epc, task, m_mongoose_task>>
  BY <1>3 DEF StartMongooseTask, MongInv, Handle, Active
<1> QED
  BY <1>1, <1>2, <1>3 DEF StartMongooseTask

LEMMA StopKeepsMong == MongInv /\ StopMongooseTask => MongInv'
<1> SUFFICES ASSUME MongInv, StopMongooseTask PROVE MongInv'
  OBVIOUS
<1>1. m_mongoose_running' \in BOOLEAN
  BY DEF StopMongooseTask
<1> QED
  BY <1>1 DEF MongInv, StopMongooseTask, Handle, Active

\* Every step of a mongoose task keeps it.
LEMMA TaskKeepsMong ==
  ASSUME MongInv, NEW t \in Tasks,
         TaskRuns(t) \/ TaskStops(t) \/ TaskEnds(t) \/ TaskDeleted(t)
  PROVE  MongInv'
<1>1. CASE TaskRuns(t)
  BY <1>1 DEF TaskRuns, MongInv, Handle, Active
<1>2. CASE TaskStops(t)
  BY <1>2 DEF TaskStops, MongInv, Handle, Active
<1>3. CASE TaskEnds(t)
  <2>1. \A u \in Tasks : u # t => ~Active(u)
    BY <1>3 DEF TaskEnds, MongInv, Handle, Active
  <2> QED
    BY <1>3, <2>1, NetManagerAssumption DEF TaskEnds, MongInv, Handle, Active
<1>4. CASE TaskDeleted(t)
  BY <1>4 DEF TaskDeleted, MongInv, Handle, Active
<1> QED
  BY <1>1, <1>2, <1>3, <1>4

\* The whole next-state relation keeps it.
LEMMA NextMong == MongInv /\ [Next]_vars => MongInv'
<1> SUFFICES ASSUME MongInv, [Next]_vars PROVE MongInv'
  OBVIOUS
<1>1. CASE UNCHANGED <<mong, epc>>
  BY <1>1, MongUnchanged
<1>2. CASE StartMongooseTask
  BY <1>2, StartKeepsMong
<1>3. CASE StopMongooseTask
  BY <1>3, StopKeepsMong
<1>4. CASE StartAfterWait
  BY <1>4, CreateKeepsMong DEF StartAfterWait
<1>5. CASE Mongoose
  BY <1>5, TaskKeepsMong DEF Mongoose
<1>6. CASE Wifi
  BY <1>1, <1>2, <1>3, <1>6
  DEF Wifi, SQChanges, ConfigChanged, WifiStaGotIP, WifiStaGood, WifiStaBad, WifiStaStop,
      WifiConnect, WifiDisconnect
<1>7. CASE Other
  BY <1>1, <1>2, <1>3, <1>7 DEF Other, ModemUp, ModemDown, WifiUpAP, WifiDownAP,
      EventSystemShuttingDown
<1>8. CASE UNCHANGED vars
  BY <1>1, <1>8 DEF vars
<1> QED
  BY <1>4, <1>5, <1>6, <1>7, <1>8 DEF Next

-----------------------------------------------------------------------------
\* The events are handled in order: dropping the first or adding a last one.
LEMMA QueueTail ==
  ASSUME NEW q \in Seq({"good", "bad"}), q # <<>>
  PROVE  /\ Tail(q) \in Seq({"good", "bad"}) /\ Len(Tail(q)) = Len(q) - 1
         /\ Tail(q) # <<>> => Tail(q)[Len(Tail(q))] = q[Len(q)]
         /\ Tail(q) = <<>> => Head(q) = q[Len(q)]
<1>1. /\ Tail(q) \in Seq({"good", "bad"}) /\ Len(Tail(q)) = Len(q) - 1
      /\ Len(q) \in Nat /\ Len(q) > 0
  OBVIOUS
<1>2. \A i \in 1..Len(Tail(q)) : Tail(q)[i] = q[i + 1]
  OBVIOUS
<1>3. Tail(q) # <<>> => Tail(q)[Len(Tail(q))] = q[Len(q)]
  <2> SUFFICES ASSUME Tail(q) # <<>> PROVE Tail(q)[Len(Tail(q))] = q[Len(q)]
    OBVIOUS
  <2>1. Len(Tail(q)) \in 1..Len(Tail(q))
    BY <1>1
  <2>2. Tail(q)[Len(Tail(q))] = q[Len(Tail(q)) + 1]
    BY <1>2, <2>1
  <2>3. Len(Tail(q)) + 1 = Len(q)
    BY <1>1
  <2> QED
    BY <2>2, <2>3
<1>4. Tail(q) = <<>> => Len(Tail(q)) = 0
  <2>1. Len(<<>>) = 0
    OBVIOUS
  <2> QED
    BY <2>1, Zenon
<1>5. Len(Tail(q)) = 0 => Head(q) = q[Len(q)]
  <2>1. Head(q) = q[1]
    OBVIOUS
  <2>2. Len(Tail(q)) = 0 => Len(q) = 1
    <3>1. \A n \in Nat : n - 1 = 0 => n = 1
      OBVIOUS
    <3> QED
      BY <1>1, <3>1, Zenon
  <2> QED
    BY <2>1, <2>2
<1> QED
  BY <1>1, <1>3, <1>4, <1>5

LEMMA QueueAppend ==
  ASSUME NEW q \in Seq({"good", "bad"}), NEW e \in {"good", "bad"}
  PROVE  /\ Append(q, e) \in Seq({"good", "bad"})
         /\ Len(Append(q, e)) = Len(q) + 1
         /\ Append(q, e) # <<>>
         /\ Append(q, e)[Len(Append(q, e))] = e
<1>1. /\ Append(q, e) \in Seq({"good", "bad"}) /\ Len(q) \in Nat
      /\ Len(Append(q, e)) = Len(q) + 1
      /\ Append(q, e)[Len(q) + 1] = e
  OBVIOUS
<1>2. Append(q, e) # <<>>
  BY <1>1
<1> QED
  BY <1>1, <1>2

\* What a step does to the quality flag and to the queue of its events.
LastTells == queue # <<>> => m_wifi_good = (queue[Len(queue)] = "good")

\* CheckSQ changes the flag and queues the event that says so, or neither.
LEMMA AppendKeepsLast ==
  ASSUME WifiInv, Len(queue) < MaxQueue, NEW e \in {"good", "bad"},
         queue' = Append(queue, e), m_wifi_good' = (e = "good")
  PROVE  /\ queue' \in Seq({"good", "bad"}) /\ Len(queue') <= MaxQueue
         /\ queue' # <<>> /\ LastTells' /\ m_wifi_good' \in BOOLEAN
<1>1. queue \in Seq({"good", "bad"})
  BY DEF WifiInv
<1>2. /\ queue' \in Seq({"good", "bad"}) /\ Len(queue') = Len(queue) + 1
      /\ queue' # <<>> /\ queue'[Len(queue')] = e
  BY <1>1, QueueAppend
<1>3. Len(queue') <= MaxQueue
  <2>1. Len(queue) \in Nat
    BY <1>1
  <2> QED
    BY <1>2, <2>1, NetManagerAssumption
<1>4. LastTells'
  BY <1>2 DEF LastTells
<1> QED
  BY <1>2, <1>3, <1>4

\* Handling the first event leaves the last one the last.
LEMMA TailKeepsLast ==
  ASSUME WifiInv, queue # <<>>, queue' = Tail(queue), UNCHANGED m_wifi_good
  PROVE  /\ queue' \in Seq({"good", "bad"}) /\ Len(queue') <= MaxQueue
         /\ LastTells'
         /\ queue' = <<>> => m_wifi_good = (Head(queue) = "good")
<1>1. queue \in Seq({"good", "bad"}) /\ Len(queue) <= MaxQueue
      /\ m_wifi_good = (queue[Len(queue)] = "good")
  BY DEF WifiInv
<1>2. /\ queue' \in Seq({"good", "bad"}) /\ Len(queue') = Len(queue) - 1
      /\ queue' # <<>> => queue'[Len(queue')] = queue[Len(queue)]
      /\ queue' = <<>> => Head(queue) = queue[Len(queue)]
  BY <1>1, QueueTail
<1>3. Len(queue') <= MaxQueue
  <2>1. Len(queue) \in Nat
    BY <1>1
  <2> QED
    BY <1>1, <1>2, <2>1, NetManagerAssumption
<1>4. LastTells'
  BY <1>1, <1>2, Zenon DEF LastTells
<1>5. queue' = <<>> => m_wifi_good = (Head(queue) = "good")
  BY <1>1, <1>2, Zenon
<1> QED
  BY <1>2, <1>3, <1>4, <1>5

\* A quality event that is not the last one handled may connect a client whose
\* signal has gone already: the events after it put that right.
LEMMA NextWifi == WifiInv /\ [Next]_vars => WifiInv'
<1> SUFFICES ASSUME WifiInv, [Next]_vars PROVE WifiInv'
  OBVIOUS
<1>0. /\ m_wifi_sta \in BOOLEAN /\ m_wifi_good \in BOOLEAN
      /\ sq \in {"good", "between", "bad"} /\ m_connected_wifi \in BOOLEAN
      /\ queue \in Seq({"good", "bad"}) /\ Len(queue) <= MaxQueue
      /\ m_connected_wifi => m_wifi_sta
      /\ m_wifi_good => m_wifi_sta
      /\ queue = <<>> => m_connected_wifi = m_wifi_good
      /\ LastTells
  BY DEF WifiInv, LastTells
<1>1. CASE UNCHANGED <<wifi, m_connected_wifi>>
  BY <1>1 DEF WifiInv, wifi
<1>2. ASSUME NEW level \in {"good", "between", "bad"}, CheckSQ(level),
             Len(queue) < MaxQueue, m_wifi_sta', UNCHANGED m_wifi_sta \/ sq' = sq,
             m_wifi_sta' \in BOOLEAN, sq' \in {"good", "between", "bad"},
             UNCHANGED m_connected_wifi
      PROVE  WifiInv'
  <2>1. CASE ~m_wifi_good /\ level = "good"
    <3>1. m_wifi_good' = ("good" = "good") /\ queue' = Append(queue, "good")
      BY <1>2, <2>1 DEF CheckSQ
    <3>2. /\ queue' \in Seq({"good", "bad"}) /\ Len(queue') <= MaxQueue
          /\ queue' # <<>> /\ LastTells' /\ m_wifi_good' \in BOOLEAN
      BY <1>2, <3>1, AppendKeepsLast
    <3> QED
      BY <1>0, <1>2, <3>2 DEF WifiInv, LastTells
  <2>2. CASE m_wifi_good /\ level = "bad"
    <3>1. m_wifi_good' = ("bad" = "good") /\ queue' = Append(queue, "bad")
      BY <1>2, <2>2 DEF CheckSQ
    <3>2. /\ queue' \in Seq({"good", "bad"}) /\ Len(queue') <= MaxQueue
          /\ queue' # <<>> /\ LastTells' /\ m_wifi_good' \in BOOLEAN
      BY <1>2, <3>1, AppendKeepsLast
    <3> QED
      BY <1>0, <1>2, <3>2 DEF WifiInv, LastTells
  <2>3. CASE UNCHANGED <<m_wifi_good, queue>>
    BY <1>0, <1>2, <2>3 DEF WifiInv, LastTells
  <2> QED
    BY <1>2, <2>1, <2>2, <2>3 DEF CheckSQ
<1>3. ASSUME NEW level \in {"good", "between", "bad"}, SQChanges(level)
      PROVE  WifiInv'
  <2>1. CASE m_wifi_sta
    BY <1>0, <1>2, <1>3, <2>1 DEF SQChanges, ifaces
  <2>2. CASE ~m_wifi_sta
    BY <1>0, <1>3, <2>2 DEF SQChanges, ifaces, WifiInv
  <2> QED
    BY <2>1, <2>2
<1>10. ASSUME NEW level \in {"good", "between", "bad"}, ConfigChanged(level)
       PROVE  WifiInv'
  <2>1. CASE m_wifi_sta /\ level # "between"
    <3>1. /\ level \in {"good", "bad"} /\ Len(queue) < MaxQueue
          /\ m_wifi_good' = (level = "good") /\ queue' = Append(queue, level)
          /\ sq' = level /\ UNCHANGED <<m_wifi_sta, m_connected_wifi>>
      BY <1>10, <2>1 DEF ConfigChanged, ifaces
    <3>2. /\ queue' \in Seq({"good", "bad"}) /\ Len(queue') <= MaxQueue
          /\ queue' # <<>> /\ LastTells' /\ m_wifi_good' \in BOOLEAN
      BY <3>1, AppendKeepsLast
    <3> QED
      BY <1>0, <2>1, <3>1, <3>2 DEF WifiInv, LastTells
  <2>2. CASE ~(m_wifi_sta /\ level # "between")
    BY <1>0, <1>10, <2>2 DEF ConfigChanged, ifaces, WifiInv
  <2> QED
    BY <2>1, <2>2
<1>4. CASE WifiStaGotIP
  BY <1>0, <1>2, <1>4 DEF WifiStaGotIP, ifaces
<1>5. CASE WifiStaGood
  <2>1. /\ queue # <<>> /\ queue' = Tail(queue) /\ Head(queue) = "good"
        /\ UNCHANGED <<m_wifi_sta, m_wifi_good, sq>>
        /\ m_connected_wifi' = (m_connected_wifi \/ m_wifi_sta)
    BY <1>0, <1>5 DEF WifiStaGood, WifiConnect
  <2>2. /\ queue' \in Seq({"good", "bad"}) /\ Len(queue') <= MaxQueue
        /\ LastTells'
        /\ queue' = <<>> => m_wifi_good
    BY <2>1, TailKeepsLast
  <2> QED
    BY <1>0, <2>1, <2>2 DEF WifiInv, LastTells
<1>6. CASE WifiStaBad
  <2>1. /\ queue # <<>> /\ queue' = Tail(queue) /\ Head(queue) = "bad"
        /\ UNCHANGED <<m_wifi_sta, m_wifi_good, sq>>
        /\ m_connected_wifi' = FALSE
    BY <1>0, <1>6 DEF WifiStaBad, WifiDisconnect
  <2>2. /\ queue' \in Seq({"good", "bad"}) /\ Len(queue') <= MaxQueue
        /\ LastTells'
        /\ queue' = <<>> => ~m_wifi_good
    BY <2>1, TailKeepsLast
  <2> QED
    BY <1>0, <2>1, <2>2 DEF WifiInv, LastTells
<1>7. CASE WifiStaStop
  <2>1. /\ m_connected_wifi' = FALSE /\ m_wifi_sta' = FALSE /\ sq' = sq
        /\ Len(queue) < MaxQueue
    BY <1>0, <1>7 DEF WifiStaStop, WifiDisconnect
  <2>2. CASE m_wifi_sta /\ m_wifi_good
    <3>1. m_wifi_good' = ("bad" = "good") /\ queue' = Append(queue, "bad")
      BY <1>7, <2>2 DEF WifiStaStop
    <3>2. /\ queue' \in Seq({"good", "bad"}) /\ Len(queue') <= MaxQueue
          /\ queue' # <<>> /\ LastTells' /\ m_wifi_good' \in BOOLEAN
      BY <2>1, <3>1, AppendKeepsLast
    <3> QED
      BY <1>0, <2>1, <3>1, <3>2 DEF WifiInv, LastTells
  <2>3. CASE ~(m_wifi_sta /\ m_wifi_good)
    <3>1. UNCHANGED <<m_wifi_good, queue>> /\ ~m_wifi_good
      BY <1>0, <1>7, <2>3 DEF WifiStaStop
    <3> QED
      BY <1>0, <2>1, <3>1 DEF WifiInv, LastTells
  <2> QED
    BY <2>2, <2>3
<1>8. CASE Other \/ StartAfterWait \/ Mongoose
  BY <1>1, <1>8 DEF Other, ModemUp, ModemDown, WifiUpAP, WifiDownAP,
     EventSystemShuttingDown, StartAfterWait,
     Mongoose, TaskRuns, TaskStops, TaskEnds, TaskDeleted, ifaces
<1>9. CASE UNCHANGED vars
  BY <1>1, <1>9 DEF vars, ifaces
<1> QED
  BY <1>3, <1>10, <1>4, <1>5, <1>6, <1>7, <1>8, <1>9 DEF Next, Wifi

-----------------------------------------------------------------------------
(* What is said of the interfaces.  One step per way a handler speaks.     *)

\* Types of the variables ToldInv speaks of, and the step it takes.
LEMMA NextTold == WifiInv /\ ToldInv /\ [Next]_vars => ToldInv' /\ (ToldStep \/ UNCHANGED vars)
<1> SUFFICES ASSUME WifiInv, ToldInv, [Next]_vars
             PROVE  ToldInv' /\ (ToldStep \/ UNCHANGED vars)
  OBVIOUS
<1>0. /\ m_connected_wifi \in BOOLEAN /\ m_connected_modem \in BOOLEAN
      /\ m_wifi_ap \in BOOLEAN /\ told \in BOOLEAN
      /\ told = (m_connected_wifi \/ m_connected_modem)
  BY DEF ToldInv, m_connected_any
<1>1. ASSUME UNCHANGED <<m_connected_wifi, m_connected_modem>>, m_wifi_ap' \in BOOLEAN,
             NEW es \in SUBSET {"network.mgr.init", "network.mgr.stop"}, Signal(es)
      PROVE  ToldInv' /\ ToldStep
  <2>1. /\ "network.up" \notin es /\ "network.down" \notin es
        /\ "network.reconfigured" \notin es
    BY <1>1
  <2>2. /\ told' = told /\ signalled' \subseteq NetworkEvents
        /\ "network.reconfigured" \notin signalled'
    BY <1>1, <2>1 DEF Signal, NetworkEvents
  <2>3. ToldStep
    BY <1>1, <2>2 DEF ToldStep, Interface
  <2> QED
    BY <1>0, <1>1, <2>2, <2>3 DEF ToldInv, m_connected_any
<1>2. ASSUME ~m_connected_wifi, WifiConnect, UNCHANGED <<m_connected_modem, m_wifi_ap>>
      PROVE  ToldInv' /\ ToldStep
  BY <1>0, <1>2
  DEF WifiConnect, Signal, ToldInv, ToldStep, Interface, NetworkEvents, m_connected_any
<1>3. ASSUME m_connected_wifi, WifiDisconnect, UNCHANGED <<m_connected_modem, m_wifi_ap>>
      PROVE  ToldInv' /\ ToldStep
  BY <1>0, <1>3
  DEF WifiDisconnect, Signal, ToldInv, ToldStep, Interface, NetworkEvents, m_connected_any
<1>4. CASE \E level \in {"good", "between", "bad"} : SQChanges(level) \/ ConfigChanged(level)
  BY <1>0, <1>1, <1>4 DEF SQChanges, ConfigChanged, ifaces
<1>5. CASE WifiStaGotIP
  BY <1>0, <1>1, <1>5 DEF WifiStaGotIP, ifaces
<1>6. CASE WifiStaGood
  BY <1>0, <1>1, <1>2, <1>6 DEF WifiStaGood
<1>7. CASE WifiStaBad
  BY <1>0, <1>1, <1>3, <1>7 DEF WifiStaBad
<1>8. CASE WifiStaStop
  BY <1>0, <1>1, <1>3, <1>8 DEF WifiStaStop
<1>9. CASE ModemUp
  <2>1. /\ m_connected_modem' /\ m_connected_modem' = TRUE
        /\ UNCHANGED <<m_connected_wifi, m_wifi_ap>>
    BY <1>9 DEF ModemUp
  <2>2. CASE m_connected_wifi
    <3>1. Signal({})
      BY <1>9, <2>2 DEF ModemUp
    <3>2. told' /\ signalled' = {}
      BY <1>0, <2>2, <3>1 DEF Signal
    <3>3. ToldStep
      BY <2>1, <2>2, <3>2 DEF ToldStep, Interface
    <3>4. /\ signalled' \subseteq NetworkEvents /\ told' \in BOOLEAN
          /\ m_connected_modem' \in BOOLEAN
      BY <1>0, <2>1, <3>2 DEF NetworkEvents
    <3>5. told' = m_connected_any'
      BY <1>0, <2>1, <2>2, <3>2 DEF m_connected_any
    <3> QED
      BY <1>0, <2>1, <3>3, <3>4, <3>5 DEF ToldInv
  <2>3. CASE ~m_connected_wifi
    <3>1. Signal({"network.up"})
      BY <1>9, <2>3 DEF ModemUp
    <3>2. told' /\ told' = TRUE /\ signalled' = {"network.up"}
      BY <3>1 DEF Signal
    <3>3. ToldStep
      BY <2>1, <2>3, <3>2 DEF ToldStep, Interface
    <3>4. /\ signalled' \subseteq NetworkEvents /\ told' \in BOOLEAN
          /\ m_connected_modem' \in BOOLEAN
      BY <1>0, <2>1, <3>2 DEF NetworkEvents
    <3>5. told' = m_connected_any'
      BY <1>0, <2>1, <2>3, <3>2 DEF m_connected_any
    <3> QED
      BY <1>0, <2>1, <3>3, <3>4, <3>5 DEF ToldInv
  <2> QED
    BY <2>2, <2>3
<1>10. CASE ModemDown
  <2>1. /\ m_connected_modem /\ m_connected_modem' = FALSE
        /\ UNCHANGED <<m_connected_wifi, m_wifi_ap>>
    BY <1>10 DEF ModemDown
  <2>2. CASE m_connected_wifi
    <3>1. Signal({})
      BY <1>10, <2>2 DEF ModemDown
    <3>2. told' = told /\ signalled' = {}
      BY <3>1 DEF Signal
    <3>3. ToldStep
      BY <2>1, <2>2, <3>2 DEF ToldStep, Interface
    <3>4. /\ signalled' \subseteq NetworkEvents /\ told' \in BOOLEAN
          /\ m_connected_modem' \in BOOLEAN
      BY <1>0, <2>1, <3>2 DEF NetworkEvents
    <3>5. told' = m_connected_any'
      BY <1>0, <2>1, <2>2, <3>2 DEF m_connected_any
    <3> QED
      BY <1>0, <2>1, <3>3, <3>4, <3>5 DEF ToldInv
  <2>3. CASE ~m_connected_wifi
    <3>1. Signal({"network.down"})
      BY <1>10, <2>3 DEF ModemDown
    <3>2. told' = FALSE /\ signalled' = {"network.down"}
      BY <3>1 DEF Signal
    <3>3. ToldStep
      BY <2>1, <2>3, <3>2 DEF ToldStep, Interface
    <3>4. /\ signalled' \subseteq NetworkEvents /\ told' \in BOOLEAN
          /\ m_connected_modem' \in BOOLEAN
      BY <1>0, <2>1, <3>2 DEF NetworkEvents
    <3>5. told' = m_connected_any'
      BY <1>0, <2>1, <2>3, <3>2 DEF m_connected_any
    <3> QED
      BY <1>0, <2>1, <3>3, <3>4, <3>5 DEF ToldInv
  <2> QED
    BY <2>2, <2>3
<1>11. CASE WifiUpAP \/ WifiDownAP \/ EventSystemShuttingDown
  BY <1>0, <1>1, <1>11 DEF WifiUpAP, WifiDownAP, EventSystemShuttingDown, ifaces
<1>12. CASE StartAfterWait \/ Mongoose
  BY <1>0, <1>1, <1>12
  DEF StartAfterWait, Mongoose, TaskRuns, TaskStops, TaskEnds, TaskDeleted, ifaces
<1>13. CASE UNCHANGED vars
  BY <1>13 DEF vars, ifaces, ToldInv, m_connected_any
<1> QED
  BY <1>4, <1>5, <1>6, <1>7, <1>8, <1>9, <1>10, <1>11, <1>12, <1>13 DEF Next, Wifi, Other

-----------------------------------------------------------------------------
LEMMA NextIInv == IInv /\ [Next]_vars => IInv'
  BY NextMong, NextWifi, NextTold DEF IInv

\* The invariant implies what the runs check.
LEMMA IInvSafe == IInv => TypeOK /\ ToldTruth /\ WifiFollowsSignal /\ OneManager
<1> SUFFICES ASSUME IInv PROVE TypeOK /\ ToldTruth /\ WifiFollowsSignal /\ OneManager
  OBVIOUS
<1>1. TypeOK
  BY DEF IInv, MongInv, WifiInv, ToldInv, TypeOK, NetworkEvents
<1>2. ToldTruth
  BY DEF IInv, ToldInv, ToldTruth
<1>3. WifiFollowsSignal
  BY DEF IInv, WifiInv, WifiFollowsSignal
<1>4. OneManager
  BY DEF IInv, MongInv, Handle, Active, OneManager
<1> QED
  BY <1>1, <1>2, <1>3, <1>4

(* What the module was told last is so, the client follows the quality of  *)
(* its signal however late the events come, and the mongoose manager has   *)
(* one task (WifiConnect to WifiDownAP, StartMongooseTask, MongooseTask).  *)
THEOREM NetManagerSafety ==
  Spec => [](TypeOK /\ ToldTruth /\ WifiFollowsSignal /\ OneManager)
<1>1. Init => IInv
  BY InitIInv
<1>2. IInv /\ [Next]_vars => IInv'
  BY NextIInv
<1>3. IInv => TypeOK /\ ToldTruth /\ WifiFollowsSignal /\ OneManager
  BY IInvSafe
<1> QED
  BY <1>1, <1>2, <1>3, PTL DEF Spec

(* network.up and network.down are the truth, whichever interface of       *)
(* PrioritiseAndIndicate comes or goes.                                    *)
THEOREM NetManagerToldTruth == Spec => []ToldTruth
BY NetManagerSafety, PTL

(* Late network.wifi.sta.good and .bad events of CheckSQ do no harm.       *)
THEOREM NetManagerFollowsSignal == Spec => []WifiFollowsSignal
BY NetManagerSafety, PTL

(* network.reconfigured is signalled by exactly the steps that replace one *)
(* interface by the other, so no connection is left on the one that went   *)
(* and none is cut without a reason.                                       *)
THEOREM NetManagerTellsChanges == Spec => ChangeTold
<1>1. IInv /\ [Next]_vars => [ToldStep]_vars
  BY NextTold DEF IInv
<1>2. Init => IInv
  BY InitIInv
<1>3. IInv /\ [Next]_vars => IInv'
  BY NextIInv
<1>4. Spec => [][ToldStep]_vars
  BY <1>1, <1>2, <1>3, PTL DEF Spec
<1> QED
  BY <1>4, PTL DEF ChangeTold, ToldStep

-----------------------------------------------------------------------------
(***************************************************************************)
(* The jobs of the network manager, for any tasks, interfaces, size of the *)
(* queue and number of commands.                                           *)
(*                                                                         *)
(* The record of the commands has no lock, so the invariant follows one    *)
(* command that is alone with it through the queue and the mongoose task:  *)
(* while its caller waits, the job is queued and not begun, or in process, *)
(* or executed once.                                                       *)
(***************************************************************************)
Job == [cmd : Commands \cup {"none"}, caller : SUBSET Callers, buf : Nat]
Asked == [cmd : Commands \cup {"none"}, buf : Nat]
Filling == {"cleared", "named", "filled", "calling", "sending"}
Pcs == {"idle", "waiting", "answered", "giving up", "failed"} \cup Filling

TypeInv ==
  /\ job \in [Records -> Job] /\ m_jobqueue \in Seq(Records)
  /\ pc \in [Callers -> Pcs] /\ asked \in [Callers -> Asked]
  /\ commands \in Nat /\ mjob \in Records /\ alone \subseteq Callers
  /\ mpc \in {"off", "poll", "jobs", "switch", "listing", "done", "give"}

\* The record of ScheduleCleanup has no caller and lists nothing.
RecordInv ==
  /\ job["cleanup"].caller = {} /\ job["cleanup"].cmd \in {"none", "cleanup"}
  /\ mpc = "listing" => mjob = "command"
  /\ \A t \in Callers : pc[t] # "idle" => asked[t].cmd \in Commands
  /\ \A t \in alone : alone = {t}

Queued == \E k \in 1 .. Len(m_jobqueue) : m_jobqueue[k] = "command"
QueuedOnce ==
  \A k, l \in 1 .. Len(m_jobqueue) :
    m_jobqueue[k] = "command" /\ m_jobqueue[l] = "command" => k = l
NoJob == ~Queued /\ ~Processing("command")

\* Where the job of t is while t waits.
WaitInv(t) ==
  /\ QueuedOnce
  /\ Queued => ~Processing("command") /\ ran = 0 /\ t \notin given
  /\ Processing("command") =>
       t \notin given /\ ran = IF mpc = "switch" THEN 0 ELSE 1
  /\ mpc = "listing" => asked[t].cmd = "list" /\ mbuf = asked[t].buf
  /\ NoJob => ran = 1

\* What t has put into the record is there.
FilledInv(t) ==
  /\ pc[t] \in {"named", "filled", "calling", "sending", "waiting", "answered"} =>
       job["command"].cmd = asked[t].cmd
  /\ pc[t] \in {"filled", "calling", "sending", "waiting", "answered"}
       /\ asked[t].cmd = "list" =>
       job["command"].buf = asked[t].buf /\ asked[t].buf \in live

OwnInv(t) ==
  /\ \A s \in Callers : s # t => pc[s] = "idle"
  /\ pc[t] # "giving up"
  /\ pc[t] # "waiting" => NoJob
  /\ pc[t] \in Filling => ran = 0
  /\ pc[t] = "sending" => t \notin given
  /\ pc[t] = "waiting" => WaitInv(t)
  /\ pc[t] = "answered" => ran = 1
  /\ FilledInv(t)

JobsIInv == TypeInv /\ RecordInv /\ \A t \in alone : OwnInv(t)

-----------------------------------------------------------------------------
LEMMA ClearedIsJob == /\ Cleared \in Job /\ Cleared.caller = {}
                      /\ Cleared.cmd = "none"
BY DEF Cleared, Job

LEMMA InitJobs == JobsInit => JobsIInv
<1> SUFFICES ASSUME JobsInit PROVE JobsIInv
  OBVIOUS
<1>1. TypeInv
  <2>1. [cmd |-> "none", buf |-> 0] \in Asked
    BY DEF Asked
  <2> QED
    BY <2>1, ClearedIsJob DEF JobsInit, TypeInv, Pcs, Records
<1>2. RecordInv
  BY ClearedIsJob DEF JobsInit, RecordInv, Records
<1> QED
  BY <1>1, <1>2 DEF JobsInit, JobsIInv

\* A step of one command while another is alone with the record is none.
LEMMA AloneOnly ==
  ASSUME JobsIInv, NEW t \in Callers, pc[t] # "idle"
  PROVE  alone = {} \/ alone = {t}
BY DEF JobsIInv, RecordInv, OwnInv

\* Steps that leave the commands alone.
LEMMA ElsewhereIInv ==
  ASSUME JobsIInv, TypeInv', RecordInv',
         UNCHANGED <<m_jobqueue, given, pc, asked, live, alone, ran>>,
         job'["command"] = job["command"],
         Processing("command")' = Processing("command"),
         Processing("command") => mpc' = mpc,
         mpc' = "listing" => mpc = "listing" /\ mbuf' = mbuf
  PROVE  JobsIInv'
<1>1. Queued' = Queued /\ NoJob' = NoJob /\ QueuedOnce' = QueuedOnce
  BY DEF Queued, NoJob, QueuedOnce
<1>2. ASSUME NEW t \in alone PROVE OwnInv(t)'
  <2>1. OwnInv(t)
    BY DEF JobsIInv
  <2>2. FilledInv(t)'
    BY <2>1 DEF OwnInv, FilledInv
  <2>3. pc[t] = "waiting" => WaitInv(t)'
    BY <1>1, <2>1 DEF OwnInv, WaitInv
  <2> QED
    BY <1>1, <2>1, <2>2, <2>3 DEF OwnInv
<1> QED
  BY <1>2 DEF JobsIInv

-----------------------------------------------------------------------------
(***************************************************************************)
(* The commands                                                            *)
(***************************************************************************)
LEMMA BeginIInv ==
  ASSUME JobsIInv, NEW t \in Callers, NEW c \in Commands, Begin(t, c)
  PROVE  JobsIInv'
<1> USE DEF JobsIInv
<1>1. /\ pc[t] = "idle" /\ commands' = commands + 1
      /\ asked' = [asked EXCEPT ![t] = [cmd |-> c, buf |-> commands']]
      /\ job' = [job EXCEPT !["command"] = Cleared]
      /\ pc' = [pc EXCEPT ![t] = "cleared"] /\ ran' = 0
      /\ alone' = IF /\ \A s \in Callers : pc[s] = "idle"
                     /\ \A k \in DOMAIN m_jobqueue : m_jobqueue[k] # "command"
                     /\ ~Processing("command")
                  THEN {t} ELSE {}
      /\ UNCHANGED <<m_jobqueue, given, live, mpc, mjob, mbuf>>
  BY DEF Begin, mongoose
<1>2. TypeInv'
  <2>1. commands' \in Nat
    BY <1>1 DEF TypeInv
  <2>2. [cmd |-> c, buf |-> commands'] \in Asked
    BY <2>1 DEF Asked
  <2>3. asked' \in [Callers -> Asked]
    BY <1>1, <2>2 DEF TypeInv
  <2>4. job' \in [Records -> Job] /\ pc' \in [Callers -> Pcs]
    BY <1>1, ClearedIsJob DEF TypeInv, Pcs, Filling
  <2> QED
    BY <1>1, <2>1, <2>3, <2>4 DEF TypeInv
<1>3. /\ pc'[t] = "cleared" /\ asked'[t].cmd = c
      /\ \A s \in Callers : s # t => pc'[s] = pc[s] /\ asked'[s] = asked[s]
      /\ job'["cleanup"] = job["cleanup"]
  BY <1>1 DEF TypeInv, Records
<1>4. RecordInv'
  BY <1>1, <1>3 DEF RecordInv
<1>5. ASSUME NEW s \in alone' PROVE OwnInv(s)'
  <2>1. /\ s = t /\ \A u \in Callers : u # t => pc'[u] = "idle"
        /\ \A k \in DOMAIN m_jobqueue : m_jobqueue[k] # "command"
        /\ ~Processing("command")
    BY <1>1, <1>3, <1>5
  <2>2. NoJob'
    BY <1>1, <2>1 DEF NoJob, Queued, Processing, TypeInv
  <2> QED
    BY <1>1, <1>3, <2>1, <2>2 DEF OwnInv, FilledInv
<1> QED
  BY <1>2, <1>4, <1>5

\* The steps of a command on its record, its notification and itself.
LEMMA FillStep ==
  ASSUME JobsIInv, NEW t \in Callers, pc[t] \in Pcs \ {"idle", "waiting"},
         NEW p \in Pcs \ {"waiting"}, pc' = [pc EXCEPT ![t] = p],
         UNCHANGED <<m_jobqueue, mpc, mjob, mbuf, commands>>,
         job' \in [Records -> Job], job'["cleanup"] = job["cleanup"],
         asked' \in [Callers -> Asked], p # "idle" => asked' = asked,
         \A s \in Callers : s # t => asked'[s] = asked[s],
         alone' \subseteq alone, alone' = {t} => p # "giving up",
         alone' = {t} /\ p \in Filling => ran' = 0,
         alone' = {t} /\ p = "sending" => t \notin given',
         alone' = {t} /\ p = "answered" => ran' = 1,
         alone' = {t} => FilledInv(t)'
  PROVE  JobsIInv'
<1> USE DEF JobsIInv
<1>1. /\ pc'[t] = p /\ \A s \in Callers : s # t => pc'[s] = pc[s]
      /\ pc' \in [Callers -> Pcs]
  BY DEF TypeInv
<1>2. alone = {} \/ alone = {t}
  BY AloneOnly
<1>3. TypeInv'
  BY <1>1, <1>2 DEF TypeInv
<1>4. RecordInv'
  BY <1>1, <1>2 DEF RecordInv
<1>5. ASSUME NEW s \in alone' PROVE OwnInv(s)'
  <2>1. s = t /\ alone = {t} /\ alone' = {t} /\ OwnInv(t)
    BY <1>2, <1>5
  <2>2. NoJob' /\ \A u \in Callers : u # t => pc'[u] = "idle"
    BY <1>1, <2>1 DEF OwnInv, NoJob, Queued, Processing
  <2> QED
    BY <1>1, <2>1, <2>2 DEF OwnInv
<1> QED
  BY <1>3, <1>4, <1>5

LEMMA SetCommandIInv ==
  ASSUME JobsIInv, NEW t \in Callers, SetCommand(t)
  PROVE  JobsIInv'
<1> USE DEF JobsIInv
<1>1. PICK p \in {"named", "filled"} :
        /\ pc[t] = "cleared" /\ pc' = [pc EXCEPT ![t] = p]
        /\ p = (IF asked[t].cmd = "list" THEN "named" ELSE "filled")
        /\ job' = [job EXCEPT !["command"].cmd = asked[t].cmd]
        /\ UNCHANGED <<m_jobqueue, given, asked, commands, live, mpc, mjob, mbuf,
                       alone, ran>>
  BY DEF SetCommand, mongoose, history
<1>2. /\ job' \in [Records -> Job] /\ job'["cleanup"] = job["cleanup"]
      /\ job'["command"].cmd = asked[t].cmd
  <2>1. asked[t].cmd \in Commands \cup {"none"}
    BY DEF TypeInv, Asked
  <2> QED
    BY <1>1, <2>1 DEF TypeInv, Job, Records
<1>3. alone = {t} => ran = 0
  BY <1>1 DEF OwnInv, Filling
<1>4. pc'[t] = p
  BY <1>1 DEF TypeInv
<1>5. alone = {t} => FilledInv(t)'
  BY <1>1, <1>2, <1>4 DEF FilledInv
<1> QED
  BY <1>1, <1>2, <1>3, <1>5, FillStep DEF TypeInv, Pcs, Filling

LEMMA NewBufferIInv ==
  ASSUME JobsIInv, NEW t \in Callers, NewBuffer(t)
  PROVE  JobsIInv'
<1> USE DEF JobsIInv
<1>1. /\ pc[t] = "named" /\ pc' = [pc EXCEPT ![t] = "filled"]
      /\ live' = live \cup {asked[t].buf}
      /\ job' = [job EXCEPT !["command"].buf = asked[t].buf]
      /\ UNCHANGED <<m_jobqueue, given, asked, commands, mpc, mjob, mbuf, alone,
                     ran>>
  BY DEF NewBuffer, mongoose, history
<1>2. /\ job' \in [Records -> Job] /\ job'["cleanup"] = job["cleanup"]
      /\ job'["command"].buf = asked[t].buf
      /\ job'["command"].cmd = job["command"].cmd
  <2>1. asked[t].buf \in Nat
    BY DEF TypeInv, Asked
  <2> QED
    BY <1>1, <2>1 DEF TypeInv, Job, Records
<1>3. alone = {t} => ran = 0 /\ FilledInv(t)'
  BY <1>1, <1>2 DEF OwnInv, FilledInv, Filling, TypeInv
<1> QED
  BY <1>1, <1>2, <1>3, FillStep DEF TypeInv, Pcs, Filling

LEMMA SetCallerIInv ==
  ASSUME JobsIInv, NEW t \in Callers, SetCaller(t)
  PROVE  JobsIInv'
<1> USE DEF JobsIInv
<1>1. /\ pc[t] = "filled"
      /\ \/ /\ job' = [job EXCEPT !["command"].caller = {t}]
            /\ pc' = [pc EXCEPT ![t] = "calling"]
         \/ pc' = [pc EXCEPT ![t] = "failed"] /\ job' = job
      /\ UNCHANGED <<m_jobqueue, given, asked, commands, live, mpc, mjob, mbuf,
                     alone, ran>>
  BY DEF SetCaller, mongoose, history
<1>2. /\ job' \in [Records -> Job] /\ job'["cleanup"] = job["cleanup"]
      /\ job'["command"].buf = job["command"].buf
      /\ job'["command"].cmd = job["command"].cmd
  BY <1>1 DEF TypeInv, Job, Records
<1>3. PICK p \in {"calling", "failed"} : pc' = [pc EXCEPT ![t] = p]
  BY <1>1
<1>4. pc'[t] = p
  BY <1>3 DEF TypeInv
<1>5. alone = {t} => ran = 0 /\ FilledInv(t)'
  BY <1>1, <1>2, <1>4 DEF OwnInv, FilledInv, Filling
<1> QED
  BY <1>1, <1>2, <1>3, <1>5, FillStep DEF TypeInv, Pcs, Filling

LEMMA ClearStateIInv ==
  ASSUME JobsIInv, NEW t \in Callers, ClearState(t) \/ Overflow(t)
  PROVE  JobsIInv'
<1> USE DEF JobsIInv
<1>1. PICK p \in {"sending", "failed"} :
        /\ pc[t] \in {"calling", "sending"} /\ pc' = [pc EXCEPT ![t] = p]
        /\ p = "sending" => given' = given \ {t}
        /\ UNCHANGED <<job, m_jobqueue, asked, commands, live, mpc, mjob, mbuf,
                       alone, ran>>
  BY DEF ClearState, Overflow, shared, mongoose, history
<1>2. pc'[t] = p
  BY <1>1 DEF TypeInv
<1>3. alone = {t} => ran = 0 /\ FilledInv(t)'
  BY <1>1, <1>2 DEF OwnInv, FilledInv, Filling
<1> QED
  BY <1>1, <1>3, FillStep DEF TypeInv, Pcs, Filling

\* The pointer is queued.
LEMMA SendIInv ==
  ASSUME JobsIInv, NEW t \in Callers, Send(t)
  PROVE  JobsIInv'
<1> USE DEF JobsIInv
<1>1. /\ pc[t] = "sending" /\ pc' = [pc EXCEPT ![t] = "waiting"]
      /\ m_jobqueue' = Append(m_jobqueue, "command")
      /\ UNCHANGED <<job, given, asked, commands, live, mpc, mjob, mbuf, alone, ran>>
  BY DEF Send, mongoose, history
<1>2. /\ m_jobqueue' \in Seq(Records) /\ Len(m_jobqueue') = Len(m_jobqueue) + 1
      /\ \A k \in 1 .. Len(m_jobqueue) : m_jobqueue'[k] = m_jobqueue[k]
      /\ m_jobqueue'[Len(m_jobqueue')] = "command" /\ Len(m_jobqueue) \in Nat
  BY <1>1, AppendProperties DEF TypeInv, Records
<1>3. /\ pc'[t] = "waiting" /\ \A s \in Callers : s # t => pc'[s] = pc[s]
      /\ pc' \in [Callers -> Pcs]
  BY <1>1 DEF TypeInv, Pcs
<1>4. TypeInv' /\ RecordInv'
  BY <1>1, <1>2, <1>3 DEF TypeInv, RecordInv
<1>5. ASSUME alone = {t} PROVE OwnInv(t)'
  <2>1. /\ NoJob /\ ran = 0 /\ t \notin given /\ FilledInv(t)
        /\ \A s \in Callers : s # t => pc[s] = "idle"
    BY <1>1, <1>5 DEF OwnInv, Filling
  <2>2. Queued' /\ QueuedOnce' /\ ~Processing("command")'
    BY <1>1, <1>2, <2>1 DEF Queued, QueuedOnce, NoJob, Processing
  <2>3. mpc' # "listing"
    BY <1>1, <2>1 DEF NoJob, Processing, RecordInv
  <2>4. WaitInv(t)'
    BY <1>1, <2>1, <2>2, <2>3 DEF WaitInv, NoJob
  <2>5. FilledInv(t)'
    BY <1>1, <1>3, <2>1 DEF FilledInv
  <2> QED
    BY <1>3, <2>1, <2>4, <2>5 DEF OwnInv, Filling
<1> QED
  BY <1>1, <1>4, <1>5, AloneOnly

LEMMA TakeIInv ==
  ASSUME JobsIInv, NEW t \in Callers, Take(t)
  PROVE  JobsIInv'
<1> USE DEF JobsIInv
<1>1. /\ pc[t] = "waiting" /\ t \in given /\ pc' = [pc EXCEPT ![t] = "answered"]
      /\ UNCHANGED <<job, m_jobqueue, asked, commands, live, mpc, mjob, mbuf, alone,
                     ran>>
  BY DEF Take, mongoose, history
<1>2. /\ pc'[t] = "answered" /\ \A s \in Callers : s # t => pc'[s] = pc[s]
      /\ pc' \in [Callers -> Pcs]
  BY <1>1 DEF TypeInv, Pcs
<1>3. TypeInv' /\ RecordInv'
  BY <1>1, <1>2 DEF TypeInv, RecordInv
<1>4. ASSUME alone = {t} PROVE OwnInv(t)'
  <2>1. /\ WaitInv(t) /\ FilledInv(t)
        /\ \A s \in Callers : s # t => pc[s] = "idle"
    BY <1>1, <1>4 DEF OwnInv
  <2>2. NoJob /\ ran = 1
    BY <1>1, <2>1 DEF WaitInv, NoJob
  <2>3. NoJob' /\ FilledInv(t)'
    BY <1>1, <1>2, <2>1, <2>2 DEF NoJob, Queued, Processing, FilledInv
  <2> QED
    BY <1>1, <1>2, <2>1, <2>2, <2>3 DEF OwnInv, Filling
<1> QED
  BY <1>1, <1>3, <1>4, AloneOnly

\* Who has waited in vain is not alone with the record any more.
LEMMA TimeOutIInv ==
  ASSUME JobsIInv, NEW t \in Callers, TimeOut(t)
  PROVE  JobsIInv'
<1> USE DEF JobsIInv
<1>1. /\ pc[t] = "waiting" /\ pc' = [pc EXCEPT ![t] = "giving up"]
      /\ job' = [job EXCEPT !["command"].cmd = "none"]
      /\ alone' = alone \ {t}
      /\ UNCHANGED <<m_jobqueue, asked, commands, mpc, mjob, mbuf>>
  BY DEF TimeOut, mongoose
<1>2. alone' = {}
  BY <1>1, AloneOnly
<1>3. job' \in [Records -> Job] /\ job'["cleanup"] = job["cleanup"]
  BY <1>1 DEF TypeInv, Job, Records
<1>4. TypeInv'
  BY <1>1, <1>2, <1>3 DEF TypeInv, Pcs
<1>5. RecordInv'
  BY <1>1, <1>2, <1>3 DEF RecordInv, TypeInv
<1> QED
  BY <1>2, <1>4, <1>5

LEMMA GiveUpIInv ==
  ASSUME JobsIInv, NEW t \in Callers, GiveUp(t)
  PROVE  JobsIInv'
<1> USE DEF JobsIInv
<1>1. /\ pc[t] = "giving up" /\ pc' = [pc EXCEPT ![t] = "failed"]
      /\ job' = [job EXCEPT !["command"].caller = {}]
      /\ UNCHANGED <<m_jobqueue, asked, commands, mpc, mjob, mbuf, alone, ran>>
  BY DEF GiveUp, mongoose, history
<1>2. alone = {}
  BY <1>1, AloneOnly DEF OwnInv
<1>3. job' \in [Records -> Job] /\ job'["cleanup"] = job["cleanup"]
  BY <1>1 DEF TypeInv, Job, Records
<1> QED
  BY <1>1, <1>2, <1>3, FillStep DEF TypeInv, Pcs, Filling

LEMMA FinishIInv ==
  ASSUME JobsIInv, NEW t \in Callers, Finish(t)
  PROVE  JobsIInv'
<1> USE DEF JobsIInv
<1>1. /\ pc[t] \in {"answered", "failed"} /\ pc' = [pc EXCEPT ![t] = "idle"]
      /\ job' \in {job, [job EXCEPT !["command"].buf = 0]}
      /\ asked' = [asked EXCEPT ![t] = [cmd |-> "none", buf |-> 0]]
      /\ UNCHANGED <<m_jobqueue, commands, mpc, mjob, mbuf, alone, ran>>
  BY DEF Finish, mongoose, history
<1>2. job' \in [Records -> Job] /\ job'["cleanup"] = job["cleanup"]
  BY <1>1 DEF TypeInv, Job, Records
<1>3. /\ asked' \in [Callers -> Asked]
      /\ \A s \in Callers : s # t => asked'[s] = asked[s]
  <2>1. [cmd |-> "none", buf |-> 0] \in Asked
    BY DEF Asked
  <2> QED
    BY <1>1, <2>1 DEF TypeInv
<1>4. FilledInv(t)'
  BY <1>1 DEF FilledInv, TypeInv
<1> QED
  BY <1>1, <1>2, <1>3, <1>4, FillStep DEF TypeInv, Pcs, Filling

-----------------------------------------------------------------------------
(***************************************************************************)
(* The mongoose task                                                       *)
(***************************************************************************)
LEMMA ReceiveIInv == JobsIInv /\ Receive => JobsIInv'
<1> SUFFICES ASSUME JobsIInv, Receive PROVE JobsIInv'
  OBVIOUS
<1> USE DEF JobsIInv
<1>1. /\ mpc = "jobs" /\ mpc' = "switch" /\ m_jobqueue # <<>>
      /\ mjob' = Head(m_jobqueue) /\ m_jobqueue' = Tail(m_jobqueue)
      /\ UNCHANGED <<job, given, pc, asked, commands, live, mbuf, alone, ran>>
  BY DEF Receive, client, history
<1>2. /\ mjob' = m_jobqueue[1] /\ mjob' \in Records
      /\ m_jobqueue' \in Seq(Records) /\ Len(m_jobqueue') = Len(m_jobqueue) - 1
      /\ \A k \in 1 .. Len(m_jobqueue') : m_jobqueue'[k] = m_jobqueue[k + 1]
      /\ Len(m_jobqueue) \in Nat /\ Len(m_jobqueue) >= 1
  BY <1>1, HeadTailProperties, EmptySeq DEF TypeInv
<1>3. TypeInv' /\ RecordInv'
  BY <1>1, <1>2 DEF TypeInv, RecordInv
<1>4. ~Processing("command") /\ (Processing("command")' <=> mjob' = "command")
  BY <1>1 DEF Processing
<1>5. /\ Queued' => Queued /\ \E k \in 2 .. Len(m_jobqueue) : m_jobqueue[k] = "command"
      /\ mjob' = "command" => Queued
      /\ Queued => Queued' \/ mjob' = "command"
      /\ QueuedOnce => QueuedOnce'
  <2>1. ASSUME NEW k \in 1 .. Len(m_jobqueue'), m_jobqueue'[k] = "command"
        PROVE  /\ k + 1 \in 2 .. Len(m_jobqueue) /\ m_jobqueue[k + 1] = "command"
               /\ k + 1 \in 1 .. Len(m_jobqueue)
    BY <1>2, <2>1
  <2>2. ASSUME NEW k \in 1 .. Len(m_jobqueue), m_jobqueue[k] = "command", k # 1
        PROVE  Queued'
    <3>1. k - 1 \in 1 .. Len(m_jobqueue') /\ m_jobqueue'[k - 1] = m_jobqueue[k]
      BY <1>2, <2>2
    <3> QED
      BY <2>2, <3>1 DEF Queued
  <2>3. QueuedOnce => QueuedOnce'
    BY <1>2, <2>1 DEF QueuedOnce
  <2>4. Queued' => Queued /\ \E k \in 2 .. Len(m_jobqueue) : m_jobqueue[k] = "command"
    BY <2>1 DEF Queued
  <2>5. mjob' = "command" => Queued
    <3>1. 1 \in 1 .. Len(m_jobqueue) /\ m_jobqueue[1] = mjob'
      BY <1>2
    <3> QED
      BY <3>1 DEF Queued
  <2>6. Queued => Queued' \/ mjob' = "command"
    BY <1>2, <2>2 DEF Queued
  <2> QED
    BY <2>3, <2>4, <2>5, <2>6
<1>6. ASSUME NEW t \in alone PROVE OwnInv(t)'
  <2>1. OwnInv(t) /\ FilledInv(t)
    BY DEF OwnInv
  <2>2. FilledInv(t)'
    BY <1>1, <2>1 DEF FilledInv
  <2>3. CASE pc[t] = "waiting"
    <3>1. WaitInv(t)
      BY <2>1, <2>3 DEF OwnInv
    <3>2. mjob' = "command" => ~Queued'
      <4> SUFFICES ASSUME mjob' = "command", Queued' PROVE FALSE
        OBVIOUS
      <4>1. PICK k \in 2 .. Len(m_jobqueue) : m_jobqueue[k] = "command"
        BY <1>5
      <4>2. k \in 1 .. Len(m_jobqueue) /\ 1 \in 1 .. Len(m_jobqueue)
            /\ m_jobqueue[1] = "command" /\ k # 1
        BY <1>2
      <4> QED
        BY <3>1, <4>1, <4>2 DEF WaitInv, QueuedOnce
    <3>3. WaitInv(t)'
      BY <1>1, <1>4, <1>5, <3>1, <3>2 DEF WaitInv, NoJob
    <3> QED
      BY <1>1, <2>1, <2>2, <2>3, <3>3 DEF OwnInv, Filling
  <2>4. CASE pc[t] # "waiting"
    <3>1. NoJob'
      BY <1>4, <1>5, <2>1, <2>4 DEF OwnInv, NoJob
    <3> QED
      BY <1>1, <2>1, <2>2, <2>4, <3>1 DEF OwnInv
  <2> QED
    BY <2>3, <2>4
<1> QED
  BY <1>1, <1>3, <1>6

LEMMA ExecuteIInv == JobsIInv /\ Execute => JobsIInv'
<1> SUFFICES ASSUME JobsIInv, Execute PROVE JobsIInv'
  OBVIOUS
<1> USE DEF JobsIInv
<1>1. /\ mpc = "switch" /\ mpc' \in {"listing", "done"}
      /\ mpc' = "listing" => job[mjob].cmd = "list" /\ mbuf' = job[mjob].buf
      /\ ran' = IF job[mjob].cmd # "none" /\ mjob = "command" /\ alone # {} /\ ran < 2
                THEN ran + 1 ELSE ran
      /\ UNCHANGED <<job, m_jobqueue, given, pc, asked, commands, live, mjob, alone>>
  BY DEF Execute, shared, client
<1>2. mpc' = "listing" => mjob = "command"
  BY <1>1 DEF RecordInv, TypeInv, Records
<1>3. TypeInv' /\ RecordInv'
  BY <1>1, <1>2 DEF TypeInv, RecordInv
<1>4. Queued' = Queued /\ QueuedOnce' = QueuedOnce /\ NoJob' = NoJob
      /\ Processing("command")' = Processing("command")
      /\ (Processing("command") <=> mjob = "command")
  BY <1>1 DEF Queued, QueuedOnce, NoJob, Processing
<1>5. ASSUME NEW t \in alone PROVE OwnInv(t)'
  <2>1. OwnInv(t) /\ FilledInv(t) /\ FilledInv(t)'
    BY <1>1 DEF OwnInv, FilledInv
  <2>2. CASE pc[t] = "waiting" /\ mjob = "command"
    <3>1. WaitInv(t) /\ Processing("command") /\ ran = 0
      BY <1>1, <1>4, <2>1, <2>2 DEF OwnInv, WaitInv
    <3>2. job[mjob].cmd # "none" /\ job[mjob].cmd = asked[t].cmd
      BY <2>1, <2>2 DEF FilledInv, RecordInv, Commands, TypeInv
    <3>3. ran' = 1
      BY <1>1, <2>2, <3>1, <3>2
    <3>4. mpc' = "listing" => asked[t].cmd = "list" /\ mbuf' = asked[t].buf
      BY <1>1, <2>1, <2>2, <3>2 DEF FilledInv
    <3>5. WaitInv(t)'
      BY <1>1, <1>4, <3>1, <3>3, <3>4 DEF WaitInv
    <3> QED
      BY <1>1, <2>1, <2>2, <3>5 DEF OwnInv, Filling
  <2>3. CASE mjob # "command"
    <3>1. ran' = ran
      BY <1>1, <2>3
    <3>2. pc[t] = "waiting" => WaitInv(t)'
      BY <1>1, <1>2, <1>4, <2>1, <2>3, <3>1 DEF OwnInv, WaitInv
    <3> QED
      BY <1>1, <1>4, <2>1, <3>1, <3>2 DEF OwnInv
  <2>4. pc[t] = "waiting" \/ mjob # "command"
    BY <1>4, <2>1 DEF OwnInv, NoJob
  <2> QED
    BY <2>2, <2>3, <2>4
<1> QED
  BY <1>1, <1>3, <1>5

LEMMA ListedIInv == JobsIInv /\ (Listed \/ TestCaller) => JobsIInv'
<1> SUFFICES ASSUME JobsIInv, Listed \/ TestCaller PROVE JobsIInv'
  OBVIOUS
<1> USE DEF JobsIInv
<1>1. /\ UNCHANGED <<job, m_jobqueue, given, pc, asked, commands, live,
                     alone, ran>>
      /\ \/ mpc = "listing" /\ mpc' = "done" /\ mjob' = mjob
         \/ mpc = "done" /\ mpc' = "give" /\ mjob' = mjob
         \/ mpc = "done" /\ mpc' = "jobs" /\ mjob' = "command" /\ job[mjob].caller = {}
  BY DEF Listed, TestCaller, shared, client, history
<1>2. TypeInv' /\ RecordInv'
  BY <1>1 DEF TypeInv, RecordInv, Records
<1>3. Queued' = Queued /\ QueuedOnce' = QueuedOnce
  BY <1>1 DEF Queued, QueuedOnce
<1>4. /\ Processing("command") <=> mjob = "command"
      /\ Processing("command")' => Processing("command") /\ mpc' # "switch"
  BY <1>1 DEF Processing
<1>5. ASSUME NEW t \in alone PROVE OwnInv(t)'
  <2>1. OwnInv(t) /\ FilledInv(t)'
    BY <1>1 DEF OwnInv, FilledInv
  <2>2. NoJob => NoJob'
    BY <1>3, <1>4 DEF NoJob
  <2>3. pc[t] = "waiting" => WaitInv(t)'
    <3> SUFFICES ASSUME WaitInv(t) PROVE WaitInv(t)'
      BY <2>1 DEF OwnInv
    <3>1. Processing("command") => ran = 1
      BY <1>1 DEF WaitInv
    <3>2. NoJob' => ran = 1
      BY <1>3, <3>1 DEF WaitInv, NoJob
    <3> QED
      BY <1>1, <1>3, <1>4, <3>1, <3>2 DEF WaitInv
  <2> QED
    BY <1>1, <2>1, <2>2, <2>3 DEF OwnInv
<1> QED
  BY <1>1, <1>2, <1>5

LEMMA GiveIInv == JobsIInv /\ Give => JobsIInv'
<1> SUFFICES ASSUME JobsIInv, Give PROVE JobsIInv'
  OBVIOUS
<1> USE DEF JobsIInv
<1>1. /\ mpc = "give" /\ mpc' = "jobs" /\ given' = given \cup job[mjob].caller
      /\ mjob' = "command"
      /\ UNCHANGED <<job, m_jobqueue, pc, asked, commands, live, mbuf, alone,
                     ran>>
  BY DEF Give, client, history
<1>2. TypeInv' /\ RecordInv'
  BY <1>1 DEF TypeInv, RecordInv, Records
<1>3. /\ Queued' = Queued /\ QueuedOnce' = QueuedOnce /\ ~Processing("command")'
      /\ Processing("command") <=> mjob = "command"
  BY <1>1 DEF Queued, QueuedOnce, Processing
<1>4. mjob # "command" => given' = given
  BY <1>1 DEF RecordInv, TypeInv, Records
<1>5. ASSUME NEW t \in alone PROVE OwnInv(t)'
  <2>1. OwnInv(t) /\ FilledInv(t)'
    BY <1>1 DEF OwnInv, FilledInv
  <2>2. pc[t] = "waiting" => WaitInv(t)'
    <3> SUFFICES ASSUME WaitInv(t) PROVE WaitInv(t)'
      BY <2>1 DEF OwnInv
    <3>1. Processing("command") => ran = 1 /\ ~Queued
      BY <1>1 DEF WaitInv
    <3> QED
      BY <1>1, <1>3, <1>4, <3>1 DEF WaitInv, NoJob
  <2>3. pc[t] # "waiting" => NoJob' /\ given' = given
    BY <1>3, <1>4, <2>1 DEF OwnInv, NoJob
  <2> QED
    BY <1>1, <2>1, <2>2, <2>3 DEF OwnInv
<1> QED
  BY <1>1, <1>2, <1>5

-----------------------------------------------------------------------------
(***************************************************************************)
(* The rest of the module                                                  *)
(***************************************************************************)
LEMMA PollIInv ==
  ASSUME JobsIInv,
         \/ \E i \in Interfaces : Open(i) \/ InterfaceUp(i) \/ InterfaceDown(i)
         \/ Inline \/ EnterJobs \/ Leave \/ HandleUp \/ StationChange
         \/ UNCHANGED jobVars
  PROVE  JobsIInv'
<1>1. /\ UNCHANGED <<job, m_jobqueue, given, pc, asked, commands, live, mjob, mbuf,
                     alone, ran>>
      /\ \/ mpc' = mpc
         \/ mpc \in {"off", "poll", "jobs"} /\ mpc' \in {"off", "poll", "jobs"}
  BY DEF Open, InterfaceUp, InterfaceDown, Inline, EnterJobs, Leave, HandleUp,
         StationChange, jobVars, shared, client, mongoose, history
<1>2. TypeInv' /\ RecordInv'
  BY <1>1 DEF JobsIInv, TypeInv, RecordInv
<1>3. /\ Processing("command")' = Processing("command")
      /\ Processing("command") => mpc' = mpc
  BY <1>1 DEF Processing
<1> QED
  BY <1>1, <1>2, <1>3, ElsewhereIInv

\* ScheduleCleanup fills the other record, and queues it.
LEMMA HandleDownIInv == JobsIInv /\ (HandleDown \/ HandleChange) => JobsIInv'
<1> SUFFICES ASSUME JobsIInv, HandleDown \/ HandleChange PROVE JobsIInv'
  OBVIOUS
<1>1. /\ job' \in {job, [job EXCEPT !["cleanup"] = Cleared]}
      /\ UNCHANGED <<m_jobqueue, given, pc, asked, commands, live, mpc, mjob, mbuf,
                     alone, ran>>
  BY DEF HandleDown, HandleChange, ClearCleanup, client, mongoose, history
<1>2. /\ job' \in [Records -> Job] /\ job'["command"] = job["command"]
      /\ job'["cleanup"].caller = {} /\ job'["cleanup"].cmd \in {"none", "cleanup"}
  BY <1>1, ClearedIsJob DEF JobsIInv, TypeInv, RecordInv, Records
<1>3. TypeInv' /\ RecordInv'
  BY <1>1, <1>2 DEF JobsIInv, TypeInv, RecordInv
<1>4. Processing("command")' = Processing("command")
  BY <1>1 DEF Processing
<1> QED
  BY <1>1, <1>2, <1>3, <1>4, ElsewhereIInv

LEMMA SendCleanupIInv == JobsIInv /\ SendCleanup => JobsIInv'
<1> SUFFICES ASSUME JobsIInv, SendCleanup PROVE JobsIInv'
  OBVIOUS
<1> USE DEF JobsIInv
<1>1. /\ job' = [job EXCEPT !["cleanup"].cmd = "cleanup"]
      /\ m_jobqueue' \in {m_jobqueue, Append(m_jobqueue, "cleanup")}
      /\ UNCHANGED <<given, pc, asked, commands, live, mpc, mjob, mbuf, alone, ran>>
  BY DEF SendCleanup, PutCleanup, client, mongoose, history
<1>2. /\ job' \in [Records -> Job] /\ job'["command"] = job["command"]
      /\ job'["cleanup"].caller = {} /\ job'["cleanup"].cmd \in {"none", "cleanup"}
  <2>1. [job["cleanup"] EXCEPT !.cmd = "cleanup"] \in Job
    BY DEF TypeInv, Job, Commands, Records
  <2> QED
    BY <1>1, <2>1 DEF TypeInv, Job, RecordInv, Records
<1>3. /\ m_jobqueue' \in Seq(Records) /\ Len(m_jobqueue) \in Nat
      /\ Len(m_jobqueue') \in {Len(m_jobqueue), Len(m_jobqueue) + 1}
      /\ \A k \in 1 .. Len(m_jobqueue) : m_jobqueue'[k] = m_jobqueue[k]
      /\ Len(m_jobqueue') = Len(m_jobqueue) + 1 =>
           m_jobqueue'[Len(m_jobqueue) + 1] = "cleanup"
  <2>1. m_jobqueue \in Seq(Records) /\ "cleanup" \in Records
    BY DEF TypeInv, Records
  <2>2. Len(m_jobqueue) \in Nat
    BY <2>1, LenProperties
  <2>3. CASE m_jobqueue' = m_jobqueue
    BY <2>1, <2>2, <2>3
  <2>4. CASE m_jobqueue' = Append(m_jobqueue, "cleanup")
    BY <2>1, <2>2, <2>4, AppendProperties
  <2> QED
    BY <1>1, <2>3, <2>4
<1>4. Queued' = Queued /\ (QueuedOnce => QueuedOnce')
  BY <1>3 DEF Queued, QueuedOnce
<1>5. Processing("command")' = Processing("command") /\ NoJob' = NoJob
  BY <1>1, <1>4 DEF Processing, NoJob
<1>6. TypeInv' /\ RecordInv'
  BY <1>1, <1>2, <1>3 DEF TypeInv, RecordInv
<1>7. ASSUME NEW t \in alone PROVE OwnInv(t)'
  <2>1. OwnInv(t) /\ FilledInv(t)'
    BY <1>1, <1>2 DEF OwnInv, FilledInv
  <2>2. pc[t] = "waiting" => WaitInv(t)'
    BY <1>1, <1>4, <1>5, <2>1 DEF OwnInv, WaitInv
  <2> QED
    BY <1>1, <1>5, <2>1, <2>2 DEF OwnInv
<1> QED
  BY <1>1, <1>6, <1>7

-----------------------------------------------------------------------------
LEMMA NextJobs == JobsIInv /\ [JobsNext]_jobVars => JobsIInv'
<1> SUFFICES ASSUME JobsIInv, [JobsNext]_jobVars PROVE JobsIInv'
  OBVIOUS
<1>1. ASSUME NEW t \in Callers, Proceed(t) PROVE JobsIInv'
  BY <1>1, SetCommandIInv, NewBufferIInv, SetCallerIInv, ClearStateIInv, SendIInv,
     TakeIInv, TimeOutIInv, GiveUpIInv, FinishIInv DEF Proceed
<1>2. CASE ProcessJobs \/ EventsTask
  BY <1>2, ReceiveIInv, ExecuteIInv, ListedIInv, GiveIInv, PollIInv,
     HandleDownIInv, SendCleanupIInv DEF ProcessJobs, EventsTask
<1> QED
  BY <1>1, <1>2, BeginIInv, PollIInv DEF JobsNext

LEMMA IInvOwn == JobsIInv => JobIsOwn
<1> SUFFICES ASSUME JobsIInv, NEW t \in alone
             PROVE  /\ pc[t] = "answered" => ran = 1
                    /\ mpc = "listing" => mbuf \in live
                    /\ pc[t] = "answered" /\ asked[t].cmd = "list" =>
                         job["command"].buf = asked[t].buf /\ asked[t].buf \in live
  BY DEF JobIsOwn, AnswerIsOwn, BufferLive
<1>1. OwnInv(t)
  BY DEF JobsIInv
<1>2. mpc = "listing" => pc[t] = "waiting"
  BY <1>1 DEF JobsIInv, RecordInv, OwnInv, NoJob, Processing
<1> QED
  BY <1>1, <1>2 DEF OwnInv, WaitInv, FilledInv

LEMMA Safe == JobsSpec => []JobsIInv
BY InitJobs, NextJobs, PTL DEF JobsSpec

(* A command that is alone with the static record gets the answer to it,   *)
(* once, and nothing is written to a StringWriter it has deleted, whatever *)
(* notification a command before it has left (ExecuteJob, ProcessJobs).    *)
THEOREM NetJobsOwn == JobsSpec => []JobIsOwn
BY Safe, IInvOwn, PTL

-----------------------------------------------------------------------------
(* Types, with the bounds: every number in a record is that of a           *)
(* StringWriter once made, or none.                                        *)
BufInv ==
  /\ commands <= MaxCommands /\ live \subseteq 1..MaxCommands
  /\ \A r \in Records : job[r].buf <= MaxCommands
  /\ \A t \in Callers : asked[t].buf <= MaxCommands
  /\ \A t \in Callers : pc[t] \in {"cleared", "named"} => asked[t].buf > 0
  /\ mbuf \in 0..MaxCommands

PlaceInv == Len(m_jobqueue) <= QueueSize /\ given \subseteq Callers /\ ran \in 0..2

Event == [what : {"up", "down", "change"}, nets : SUBSET Interfaces]
InterfaceInv ==
  /\ up \subseteq Interfaces /\ conns \subseteq Interfaces /\ drops \in 0..MaxDrops
  /\ events \in Seq(Event) /\ inUse \subseteq Interfaces
  /\ eventsPc \in {"idle", "cleanup"} /\ taskRuns \in BOOLEAN /\ missed \in BOOLEAN

\* Nothing of the commands changes.
LEMMA SameBuf ==
  ASSUME BufInv, UNCHANGED <<commands, live, job, asked, pc, mbuf>> PROVE BufInv'
BY DEF BufInv

LEMMA NextBuf == TypeInv /\ BufInv /\ [JobsNext]_jobVars => BufInv'
<1> SUFFICES ASSUME TypeInv, BufInv, [JobsNext]_jobVars PROVE BufInv'
  OBVIOUS
<1> USE DEF shared, client, mongoose, network, history
<1>0. /\ MaxCommands \in Nat /\ commands \in Nat
      /\ job \in [Records -> Job] /\ asked \in [Callers -> Asked] /\ pc \in [Callers -> Pcs]
      /\ Cleared.buf = 0 /\ "command" \in Records /\ "cleanup" \in Records
  BY NetJobsAssumption DEF TypeInv, Cleared, Records
<1>1. ASSUME NEW t \in Callers, NEW c \in Commands, Begin(t, c) PROVE BufInv'
  <2>1. /\ commands < MaxCommands /\ commands' = commands + 1
        /\ asked' = [asked EXCEPT ![t] = [cmd |-> c, buf |-> commands']]
        /\ job' = [job EXCEPT !["command"] = Cleared]
        /\ pc' = [pc EXCEPT ![t] = "cleared"] /\ UNCHANGED <<live, mbuf>>
    BY <1>1 DEF Begin
  <2> QED
    BY <1>0, <2>1 DEF BufInv
<1>2. ASSUME NEW t \in Callers, SetCommand(t) PROVE BufInv'
  <2>1. /\ pc[t] = "cleared"
        /\ job' = [job EXCEPT !["command"].cmd = asked[t].cmd]
        /\ pc' = [pc EXCEPT ![t] = IF asked[t].cmd = "list" THEN "named" ELSE "filled"]
        /\ UNCHANGED <<commands, live, asked, mbuf>>
    BY <1>2 DEF SetCommand
  <2>2. \A r \in Records : job'[r].buf = job[r].buf
    BY <1>0, <2>1 DEF Job
  <2> QED
    BY <1>0, <2>1, <2>2 DEF BufInv
<1>3. ASSUME NEW t \in Callers, NewBuffer(t) PROVE BufInv'
  <2>1. /\ pc[t] = "named" /\ live' = live \cup {asked[t].buf}
        /\ job' = [job EXCEPT !["command"].buf = asked[t].buf]
        /\ pc' = [pc EXCEPT ![t] = "filled"]
        /\ UNCHANGED <<commands, asked, mbuf>>
    BY <1>3 DEF NewBuffer
  <2>2. \A r \in Records : job'[r].buf \in {job[r].buf, asked[t].buf}
    BY <1>0, <2>1 DEF Job
  <2>3. asked[t].buf \in 1..MaxCommands
    BY <1>0, <2>1 DEF BufInv, Asked
  <2> QED
    BY <1>0, <2>1, <2>2, <2>3 DEF BufInv
<1>4. ASSUME NEW t \in Callers, SetCaller(t) \/ TimeOut(t) \/ GiveUp(t) PROVE BufInv'
  <2>1. /\ job' \in {job, [job EXCEPT !["command"].caller = {t}], [job EXCEPT !["command"].cmd = "none"],
                     [job EXCEPT !["command"].caller = {}]}
        /\ UNCHANGED <<commands, live, asked, mbuf>>
    BY <1>4 DEF SetCaller, TimeOut, GiveUp
  <2>2. \A r \in Records : job'[r].buf = job[r].buf
    BY <1>0, <2>1 DEF Job
  <2>3. \A s \in Callers : pc'[s] \in {"cleared", "named"} => pc[s] \in {"cleared", "named"}
    BY <1>0, <1>4 DEF SetCaller, TimeOut, GiveUp
  <2> QED
    BY <2>1, <2>2, <2>3 DEF BufInv
<1>5. ASSUME NEW t \in Callers, Finish(t) PROVE BufInv'
  <2>1. /\ job' \in {job, [job EXCEPT !["command"].buf = 0]} /\ live' \subseteq live
        /\ pc' = [pc EXCEPT ![t] = "idle"]
        /\ asked' = [asked EXCEPT ![t] = [cmd |-> "none", buf |-> 0]]
        /\ UNCHANGED <<commands, mbuf>>
    BY <1>5 DEF Finish
  <2>2. \A r \in Records : job'[r].buf \in {0, job[r].buf}
    BY <1>0, <2>1 DEF Job
  <2> QED
    BY <1>0, <2>1, <2>2 DEF BufInv
<1>6. ASSUME NEW t \in Callers, ClearState(t) \/ Send(t) \/ Overflow(t) \/ Take(t) PROVE BufInv'
  <2>1. UNCHANGED <<commands, live, asked, mbuf, job>>
    BY <1>6 DEF ClearState, Send, Overflow, Take
  <2>2. \A s \in Callers : pc'[s] \in {"cleared", "named"} => pc[s] \in {"cleared", "named"}
    BY <1>0, <1>6 DEF ClearState, Send, Overflow, Take
  <2> QED
    BY <2>1, <2>2 DEF BufInv
<1>7. CASE Execute \/ Listed
  <2>1. mbuf' \in {0, job[mjob].buf} /\ UNCHANGED <<commands, live, asked, pc, job>>
    BY <1>7 DEF Execute, Listed
  <2>2. job[mjob].buf \in 0..MaxCommands
    BY <1>0 DEF BufInv, TypeInv, Job
  <2> QED
    BY <1>0, <2>1, <2>2 DEF BufInv
<1>8. CASE HandleDown \/ HandleChange \/ SendCleanup
  <2>1. /\ job' \in {job, [job EXCEPT !["cleanup"] = Cleared], [job EXCEPT !["cleanup"].cmd = "cleanup"]}
        /\ UNCHANGED <<commands, live, asked, pc, mbuf>>
    BY <1>8 DEF HandleDown, HandleChange, ClearCleanup, SendCleanup, PutCleanup
  <2>2. \A r \in Records : job'[r].buf \in {0, job[r].buf}
    BY <1>0, <2>1 DEF Job
  <2> QED
    BY <1>0, <2>1, <2>2 DEF BufInv
<1>9. CASE Inline \/ EnterJobs \/ Receive \/ TestCaller \/ Give \/ Leave \/ HandleUp \/ StationChange
           \/ UNCHANGED jobVars
  BY <1>9, SameBuf DEF Inline, EnterJobs, Receive, TestCaller, Give, Leave, HandleUp, StationChange,
                       jobVars
<1>10. ASSUME NEW i \in Interfaces, Open(i) \/ InterfaceUp(i) \/ InterfaceDown(i) PROVE BufInv'
  BY <1>10, SameBuf DEF Open, InterfaceUp, InterfaceDown
<1> QED
  BY <1>1, <1>2, <1>3, <1>4, <1>5, <1>6, <1>7, <1>8, <1>9, <1>10
  DEF JobsNext, Proceed, ProcessJobs, EventsTask

LEMMA NextPlace == TypeInv /\ PlaceInv /\ RecordInv /\ [JobsNext]_jobVars => PlaceInv'
<1> SUFFICES ASSUME TypeInv, PlaceInv, RecordInv, [JobsNext]_jobVars PROVE PlaceInv'
  OBVIOUS
<1> USE DEF shared, client, mongoose, network, history
<1>0. /\ QueueSize \in Nat /\ m_jobqueue \in Seq(Records) /\ Len(m_jobqueue) \in Nat
      /\ "command" \in Records /\ "cleanup" \in Records
      /\ job[mjob].caller \subseteq Callers
  BY NetJobsAssumption DEF TypeInv, Records, Job
<1>1. Len(m_jobqueue') <= QueueSize
  <2>1. \A r \in Records : Len(Append(m_jobqueue, r)) = Len(m_jobqueue) + 1
    BY <1>0, AppendProperties
  <2>2. m_jobqueue # <<>> => Len(Tail(m_jobqueue)) = Len(m_jobqueue) - 1
    BY <1>0, HeadTailProperties
  <2>3. \/ m_jobqueue' = m_jobqueue
        \/ m_jobqueue # <<>> /\ m_jobqueue' = Tail(m_jobqueue)
        \/ Len(m_jobqueue) < QueueSize /\ \E r \in Records : m_jobqueue' = Append(m_jobqueue, r)
    BY <1>0 DEF JobsNext, Proceed, ProcessJobs, EventsTask, jobVars, Begin, SetCommand, NewBuffer,
       SetCaller, ClearState, Send, Overflow, Take, TimeOut, GiveUp, Finish, Inline, EnterJobs,
       Receive, Execute, Listed, TestCaller, Give, Leave, HandleUp, HandleDown, HandleChange,
       ClearCleanup, SendCleanup, PutCleanup, StationChange, Open, InterfaceUp, InterfaceDown
  <2> QED
    BY <1>0, <2>1, <2>2, <2>3 DEF PlaceInv
<1>2. given' \subseteq Callers
  <2>1. given' \subseteq given \cup job[mjob].caller
    BY DEF JobsNext, Proceed, ProcessJobs, EventsTask, jobVars, Begin, SetCommand, NewBuffer,
       SetCaller, ClearState, Send, Overflow, Take, TimeOut, GiveUp, Finish, Inline, EnterJobs,
       Receive, Execute, Listed, TestCaller, Give, Leave, HandleUp, HandleDown, HandleChange,
       ClearCleanup, SendCleanup, PutCleanup, StationChange, Open, InterfaceUp, InterfaceDown
  <2> QED
    BY <1>0, <2>1 DEF PlaceInv
<1>3. ran' \in 0..2
  <2>1. ran' \in {0, ran} \/ (ran < 2 /\ ran' = ran + 1)
    BY DEF JobsNext, Proceed, ProcessJobs, EventsTask, jobVars, Begin, SetCommand, NewBuffer,
       SetCaller, ClearState, Send, Overflow, Take, TimeOut, GiveUp, Finish, Inline, EnterJobs,
       Receive, Execute, Listed, TestCaller, Give, Leave, HandleUp, HandleDown, HandleChange,
       ClearCleanup, SendCleanup, PutCleanup, StationChange, Open, InterfaceUp, InterfaceDown
  <2> QED
    BY <2>1 DEF PlaceInv
<1> QED
  BY <1>1, <1>2, <1>3 DEF PlaceInv

LEMMA NextInterface == InterfaceInv /\ [JobsNext]_jobVars => InterfaceInv'
<1> SUFFICES ASSUME InterfaceInv, [JobsNext]_jobVars PROVE InterfaceInv'
  OBVIOUS
<1> USE DEF shared, client, mongoose, network, history
<1>1. ASSUME NEW t \in Callers, Proceed(t) \/ \E c \in Commands : Begin(t, c) PROVE InterfaceInv'
  BY <1>1 DEF Proceed, Begin, SetCommand, NewBuffer, SetCaller, ClearState, Send, Overflow, Take,
              TimeOut, GiveUp, Finish, InterfaceInv
<1>2. CASE Inline \/ EnterJobs \/ ProcessJobs \/ UNCHANGED jobVars
  <2>1. conns' \subseteq conns
    BY <1>2 DEF Inline, EnterJobs, ProcessJobs, Receive, Execute, Listed, TestCaller, Give, Leave,
                jobVars
  <2>2. UNCHANGED <<up, drops, events, inUse, eventsPc, taskRuns, missed>>
    BY <1>2 DEF Inline, EnterJobs, ProcessJobs, Receive, Execute, Listed, TestCaller, Give, Leave,
                jobVars
  <2> QED
    BY <2>1, <2>2 DEF InterfaceInv
<1>3. CASE HandleUp \/ HandleDown \/ HandleChange
  <2>1. /\ events # <<>> /\ events' = Tail(events)
        /\ inUse' \in {inUse, inUse \cup Head(events).nets, inUse \ Head(events).nets}
    BY <1>3 DEF HandleUp, HandleDown, HandleChange, HandleEvent
  <2>2. Head(events) \in Event /\ Tail(events) \in Seq(Event)
    BY <2>1, HeadTailProperties DEF InterfaceInv
  <2>3. events' \in Seq(Event) /\ inUse' \subseteq Interfaces
    BY <2>1, <2>2 DEF InterfaceInv, Event
  <2>4. /\ taskRuns' \in BOOLEAN /\ missed' \in BOOLEAN /\ eventsPc' \in {"idle", "cleanup"}
        /\ UNCHANGED <<up, drops, conns>>
    BY <1>3 DEF HandleUp, HandleDown, HandleChange, HandleEvent, ClearCleanup, InterfaceInv
  <2> QED
    BY <2>3, <2>4 DEF InterfaceInv
<1>4. CASE SendCleanup
  BY <1>4 DEF SendCleanup, PutCleanup, InterfaceInv
<1>5. ASSUME NEW i \in Interfaces, InterfaceUp(i) \/ InterfaceDown(i)
      PROVE  InterfaceInv'
  <2>1. /\ up' \subseteq up \cup {i}
        /\ missed' \in {FALSE, missed} /\ UNCHANGED <<inUse, eventsPc, taskRuns, conns>>
        /\ drops' = drops \/ (drops < MaxDrops /\ drops' = drops + 1)
    BY <1>5 DEF InterfaceUp, InterfaceDown
  <2>2. drops' \in 0..MaxDrops
    BY <2>1, NetJobsAssumption DEF InterfaceInv
  <2>3. \E e \in Event : events' = Append(events, e)
    BY <1>5 DEF InterfaceUp, InterfaceDown, Tell, Event
  <2>4. events' \in Seq(Event)
    BY <2>3, AppendProperties DEF InterfaceInv
  <2> QED
    BY <2>1, <2>2, <2>4 DEF InterfaceInv
<1>6. CASE StationChange
  <2>1. /\ UNCHANGED <<up, inUse, eventsPc, taskRuns, conns, missed>>
        /\ drops < MaxDrops /\ drops' = drops + 1
        /\ events' = Append(events, [what |-> "change", nets |-> {}])
    BY <1>6 DEF StationChange, Tell
  <2>2. drops' \in 0..MaxDrops
    BY <2>1, NetJobsAssumption DEF InterfaceInv
  <2>3. [what |-> "change", nets |-> {}] \in Event
    BY DEF Event
  <2>4. events' \in Seq(Event)
    BY <2>1, <2>3, AppendProperties DEF InterfaceInv
  <2> QED
    BY <2>1, <2>2, <2>4 DEF InterfaceInv
<1>7. ASSUME NEW i \in Interfaces, Open(i) PROVE InterfaceInv'
  BY <1>7 DEF Open, InterfaceInv
<1> QED
  BY <1>1, <1>2, <1>3, <1>4, <1>5, <1>6, <1>7 DEF JobsNext, EventsTask

(* Every variable has its type: the queue keeps to its size, and what the  *)
(* static record says of a StringWriter is its number or none.             *)
THEOREM NetJobsTypes == JobsSpec => []JobsTypeOK
<1> DEFINE BInv == BufInv /\ PlaceInv /\ InterfaceInv
<1>1. JobsInit => BInv
  <2> SUFFICES ASSUME JobsInit PROVE BInv
    OBVIOUS
  <2>1. /\ 0 \in 0..MaxCommands /\ 0 \in 0..MaxDrops /\ 0 \in 0..2
        /\ QueueSize \in Nat /\ MaxCommands \in Nat
    BY NetJobsAssumption
  <2>2. BufInv
    BY <2>1 DEF JobsInit, BufInv, Cleared
  <2>3. PlaceInv
    BY <2>1 DEF JobsInit, PlaceInv
  <2>5. <<>> \in Seq(Event)
    BY EmptySeq
  <2>4. InterfaceInv
    BY <2>1, <2>5 DEF JobsInit, InterfaceInv
  <2> QED
    BY <2>2, <2>3, <2>4
<1>2. JobsIInv /\ BInv /\ [JobsNext]_jobVars => BInv'
  BY NextBuf, NextPlace, NextInterface DEF JobsIInv
<1>3. JobsIInv /\ BInv => JobsTypeOK
  <2> SUFFICES ASSUME JobsIInv, BInv PROVE JobsTypeOK
    OBVIOUS
  <2> DEFINE Slot == [cmd : Commands \cup {"none"}, caller : SUBSET Callers, buf : 0..MaxCommands]
             Request == [cmd : Commands \cup {"none"}, buf : 0..MaxCommands]
  <2>0. MaxCommands \in Nat
    BY NetJobsAssumption
  <2>1. job \in [Records -> Slot]
    <3>1. ASSUME NEW r \in Records PROVE job[r] \in Slot
      BY <2>0 DEF JobsIInv, TypeInv, Job, BufInv
    <3> QED
      BY <3>1 DEF JobsIInv, TypeInv
  <2>2. asked \in [Callers -> Request]
    <3>1. ASSUME NEW t \in Callers PROVE asked[t] \in Request
      BY <2>0 DEF JobsIInv, TypeInv, Asked, BufInv
    <3> QED
      BY <3>1 DEF JobsIInv, TypeInv
  <2>3. commands \in 0..MaxCommands
    BY <2>0 DEF JobsIInv, TypeInv, BufInv
  <2>4. pc \in [Callers -> {"idle", "cleared", "named", "filled", "calling", "sending", "waiting",
                            "answered", "giving up", "failed"}]
    BY DEF JobsIInv, TypeInv, Pcs, Filling
  <2> QED
    BY <2>1, <2>2, <2>3, <2>4
    DEF JobsTypeOK, JobsIInv, TypeInv, BufInv, PlaceInv, InterfaceInv, Event
<1> QED
  BY <1>1, <1>2, <1>3, Safe, PTL DEF JobsSpec
=============================================================================
