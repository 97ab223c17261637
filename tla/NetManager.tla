----------------------------- MODULE NetManager -----------------------------
(***************************************************************************)
(* The network manager, main/ovms_netmanager.cpp: which interface is used, *)
(* what the rest of the module is told about it, and the start and stop of *)
(* the mongoose task that serves all connections.                          *)
(*                                                                         *)
(* All handlers run in the events task, one after the other.  The mongoose *)
(* task runs beside it: it is created by StartMongooseTask, but sets       *)
(* m_mongoose_running itself once it runs.                                 *)
(*                                                                         *)
(* m_connected_any and m_network_any are computed anew by each handler     *)
(* that changes what they depend on; here they are definitions.            *)
(***************************************************************************)
EXTENDS Naturals, Sequences

CONSTANTS
  MaxTasks,  \* mongoose tasks that may exist at a time
  MaxQueue   \* bound on the signal quality events waiting

ASSUME NetManagerAssumption == MaxTasks \in Nat \ {0} /\ MaxQueue \in Nat \ {0}

VARIABLES
  m_wifi_sta,         \* the client has an address
  m_wifi_good,        \* its signal is good
  m_connected_wifi,
  m_connected_modem,
  m_wifi_ap,
  sq,                 \* the signal measured last: "good", "bad", "between"
  queue,              \* network.wifi.sta.good and .bad not yet handled
  told,               \* the last of network.up, network.down was "up"
  signalled,          \* network events signalled by the last step
  m_mongoose_task,    \* 0, or the task it is the handle of
  m_mongoose_running,
  task,               \* task[t]: "none", "created", "loop", "stopping", "ending"
  epc                 \* events task: "idle", "waiting" in StartMongooseTask

wifi   == <<m_wifi_sta, m_wifi_good, sq, queue>>
ifaces == <<m_connected_wifi, m_connected_modem, m_wifi_ap>>
mong   == <<m_mongoose_task, m_mongoose_running, task>>
vars   == <<wifi, ifaces, told, signalled, mong, epc>>

Tasks == 1..MaxTasks

m_connected_any == m_connected_wifi \/ m_connected_modem
m_network_any   == m_connected_any \/ m_wifi_ap

Interface == IF m_connected_wifi THEN "wifi"
             ELSE IF m_connected_modem THEN "modem" ELSE "none"

Init ==
  /\ m_wifi_sta = FALSE /\ m_wifi_good = FALSE /\ sq = "bad" /\ queue = <<>>
  /\ m_connected_wifi = FALSE /\ m_connected_modem = FALSE /\ m_wifi_ap = FALSE
  /\ told = FALSE /\ signalled = {}
  /\ m_mongoose_task = 0 /\ m_mongoose_running = FALSE
  /\ task = [t \in Tasks |-> "none"]
  /\ epc = "idle"

-----------------------------------------------------------------------------
Signal(es) ==
  /\ signalled' = es
  /\ told' = IF "network.up" \in es THEN TRUE
             ELSE IF "network.down" \in es THEN FALSE ELSE told

CreateTask ==
  \E t \in Tasks :
    /\ task[t] = "none"
    /\ task' = [task EXCEPT ![t] = "created"]
    /\ m_mongoose_task' = t

\* Mutant: the task is created without waiting for the previous one.
StartMongooseTaskAtOnce ==
  /\ UNCHANGED <<epc, m_mongoose_running>>
  /\ IF ~m_mongoose_running /\ m_network_any'
       THEN CreateTask ELSE UNCHANGED <<task, m_mongoose_task>>

\* Mutant: nothing is started while the previous task has not ended.
StartMongooseTaskNever ==
  /\ UNCHANGED <<epc, m_mongoose_running>>
  /\ IF ~m_mongoose_running /\ m_network_any' /\ m_mongoose_task = 0
       THEN CreateTask ELSE UNCHANGED <<task, m_mongoose_task>>

(* StartMongooseTask, at the end of a handler: wait for the previous task  *)
(* to finish shutting down, then start a new one.                          *)
StartMongooseTask ==
  /\ UNCHANGED m_mongoose_running
  /\ IF ~m_mongoose_running /\ m_network_any'
       THEN IF m_mongoose_task = 0
              THEN CreateTask /\ UNCHANGED epc
              ELSE epc' = "waiting" /\ UNCHANGED <<task, m_mongoose_task>>
       ELSE UNCHANGED <<epc, task, m_mongoose_task>>

StartAfterWait ==
  /\ epc = "waiting" /\ m_mongoose_task = 0
  /\ CreateTask
  /\ epc' = "idle"
  /\ Signal({})
  /\ UNCHANGED <<wifi, ifaces, m_mongoose_running>>

StopMongooseTask ==
  /\ m_mongoose_running' = (m_mongoose_running /\ m_network_any')
  /\ UNCHANGED <<m_mongoose_task, task, epc>>

-----------------------------------------------------------------------------
\* Mutant: the client is connected without a word when the modem is up.
WifiConnectQuiet ==
  /\ m_connected_wifi' = TRUE
  /\ Signal(IF m_connected_modem THEN {} ELSE {"network.up"})
  /\ StartMongooseTask

WifiConnect ==
  /\ m_connected_wifi' = TRUE
  /\ Signal({IF m_connected_modem THEN "network.reconfigured" ELSE "network.up"})
  /\ StartMongooseTask

\* Mutant: the modem is not looked at when the client goes.
WifiDisconnectDown ==
  /\ m_connected_wifi' = FALSE
  /\ Signal({"network.down"})
  /\ StopMongooseTask

WifiDisconnect ==
  /\ m_connected_wifi' = FALSE
  /\ IF m_connected_modem
       THEN Signal({"network.reconfigured"}) /\ UNCHANGED <<mong, epc>>
       ELSE Signal({"network.down"}) /\ StopMongooseTask

(* WifiStaCheckSQ, the listener of the metric, and in WifiStaGotIP.        *)
CheckSQ(level) ==
  IF ~m_wifi_good /\ level = "good"
    THEN m_wifi_good' = TRUE /\ queue' = Append(queue, "good")
    ELSE IF m_wifi_good /\ level = "bad"
           THEN m_wifi_good' = FALSE /\ queue' = Append(queue, "bad")
           ELSE UNCHANGED <<m_wifi_good, queue>>

SQChanges(level) ==
  /\ epc = "idle" /\ Len(queue) < MaxQueue
  /\ level # sq /\ sq' = level
  /\ IF m_wifi_sta THEN CheckSQ(level) ELSE UNCHANGED <<m_wifi_good, queue>>
  /\ Signal({})
  /\ UNCHANGED <<m_wifi_sta, ifaces, mong, epc>>

(* ConfigChanged: with the new thresholds the signal may have another      *)
(* level, and the listener is called without a metric: an event is queued  *)
(* whatever the flag says already.                                         *)
ConfigChanged(level) ==
  /\ epc = "idle" /\ Len(queue) < MaxQueue
  /\ sq' = level
  /\ IF m_wifi_sta /\ level # "between"
       THEN m_wifi_good' = (level = "good") /\ queue' = Append(queue, level)
       ELSE UNCHANGED <<m_wifi_good, queue>>
  /\ Signal({})
  /\ UNCHANGED <<m_wifi_sta, ifaces, mong, epc>>

WifiStaGotIP ==
  /\ epc = "idle" /\ Len(queue) < MaxQueue
  /\ m_wifi_sta' = TRUE
  /\ CheckSQ(sq)
  /\ Signal({})
  /\ UNCHANGED <<sq, ifaces, mong, epc>>

WifiStaGood ==
  /\ epc = "idle" /\ queue # <<>> /\ Head(queue) = "good"
  /\ queue' = Tail(queue)
  /\ UNCHANGED <<m_wifi_sta, m_wifi_good, sq, m_connected_modem, m_wifi_ap>>
  /\ IF m_wifi_sta /\ ~m_connected_wifi
       THEN WifiConnect
       ELSE Signal({}) /\ UNCHANGED <<m_connected_wifi, mong, epc>>

WifiStaBad ==
  /\ epc = "idle" /\ queue # <<>> /\ Head(queue) = "bad"
  /\ queue' = Tail(queue)
  /\ UNCHANGED <<m_wifi_sta, m_wifi_good, sq, m_connected_modem, m_wifi_ap>>
  /\ IF m_wifi_sta /\ m_connected_wifi
       THEN WifiDisconnect
       ELSE Signal({}) /\ UNCHANGED <<m_connected_wifi, mong, epc>>

\* Mutant: the quality flag is left as it was.
WifiStaStopKeepsGood ==
  /\ epc = "idle" /\ Len(queue) < MaxQueue
  /\ m_wifi_sta' = FALSE
  /\ UNCHANGED <<m_wifi_good, queue, sq, m_connected_modem, m_wifi_ap>>
  /\ IF m_wifi_sta /\ m_connected_wifi
       THEN WifiDisconnect
       ELSE Signal({}) /\ UNCHANGED <<m_connected_wifi, mong, epc>>

(* WifiStaStop, WifiStaSetSQ(false) first.                                 *)
WifiStaStop ==
  /\ epc = "idle" /\ Len(queue) < MaxQueue
  /\ IF m_wifi_sta /\ m_wifi_good
       THEN m_wifi_good' = FALSE /\ queue' = Append(queue, "bad")
       ELSE UNCHANGED <<m_wifi_good, queue>>
  /\ m_wifi_sta' = FALSE
  /\ UNCHANGED <<sq, m_connected_modem, m_wifi_ap>>
  /\ IF m_wifi_sta /\ m_connected_wifi
       THEN WifiDisconnect
       ELSE Signal({}) /\ UNCHANGED <<m_connected_wifi, mong, epc>>

ModemUp ==
  /\ epc = "idle"
  /\ m_connected_modem' = TRUE
  /\ Signal(IF m_connected_wifi THEN {} ELSE {"network.up"})
  /\ UNCHANGED <<wifi, m_connected_wifi, m_wifi_ap>>
  /\ StartMongooseTask

ModemDown ==
  /\ epc = "idle" /\ m_connected_modem
  /\ m_connected_modem' = FALSE
  /\ UNCHANGED <<wifi, m_connected_wifi, m_wifi_ap>>
  /\ IF m_connected_wifi
       THEN Signal({}) /\ UNCHANGED <<mong, epc>>
       ELSE Signal({"network.down"}) /\ StopMongooseTask

WifiUpAP ==
  /\ epc = "idle"
  /\ m_wifi_ap' = TRUE
  /\ Signal({})
  /\ UNCHANGED <<wifi, m_connected_wifi, m_connected_modem>>
  /\ StartMongooseTask

WifiDownAP ==
  /\ epc = "idle"
  /\ m_wifi_ap' = FALSE
  /\ Signal({})
  /\ UNCHANGED <<wifi, m_connected_wifi, m_connected_modem>>
  /\ StopMongooseTask

EventSystemShuttingDown ==
  /\ epc = "idle"
  /\ Signal({})
  /\ UNCHANGED <<wifi, ifaces>>
  /\ StopMongooseTask

-----------------------------------------------------------------------------
(* MongooseTask: mg_mgr_init, then m_mongoose_running, which overwrites a  *)
(* StopMongooseTask that came before.                                      *)
TaskRuns(t) ==
  /\ task[t] = "created"
  /\ task' = [task EXCEPT ![t] = "loop"]
  /\ m_mongoose_running' = TRUE
  /\ Signal({"network.mgr.init"})
  /\ UNCHANGED <<wifi, ifaces, m_mongoose_task, epc>>

(* The loop ends once the flag is down (mg_mgr_poll finds no interface     *)
(* only before mg_mgr_init).                                               *)
TaskStops(t) ==
  /\ task[t] = "loop" /\ ~m_mongoose_running
  /\ task' = [task EXCEPT ![t] = "stopping"]
  /\ m_mongoose_running' = FALSE
  /\ Signal({"network.mgr.stop"})
  /\ UNCHANGED <<wifi, ifaces, m_mongoose_task, epc>>

(* mg_mgr_free, then the handle.                                           *)
TaskEnds(t) ==
  /\ task[t] = "stopping"
  /\ task' = [task EXCEPT ![t] = "ending"]
  /\ m_mongoose_task' = 0
  /\ Signal({})
  /\ UNCHANGED <<wifi, ifaces, m_mongoose_running, epc>>

TaskDeleted(t) ==
  /\ task[t] = "ending"
  /\ task' = [task EXCEPT ![t] = "none"]
  /\ Signal({})
  /\ UNCHANGED <<wifi, ifaces, m_mongoose_task, m_mongoose_running, epc>>

Wifi == \/ \E level \in {"good", "between", "bad"} : SQChanges(level) \/ ConfigChanged(level)
        \/ WifiStaGotIP \/ WifiStaGood \/ WifiStaBad \/ WifiStaStop
Other == ModemUp \/ ModemDown \/ WifiUpAP \/ WifiDownAP \/ EventSystemShuttingDown
Mongoose == \E t \in Tasks : TaskRuns(t) \/ TaskStops(t) \/ TaskEnds(t) \/ TaskDeleted(t)

Next == Wifi \/ Other \/ StartAfterWait \/ Mongoose

(* The tasks go on, the events task handles what is queued; nothing makes  *)
(* an interface come or go.                                                *)
Fairness ==
  /\ \A t \in Tasks : WF_vars(TaskRuns(t) \/ TaskStops(t) \/ TaskEnds(t) \/ TaskDeleted(t))
  /\ WF_vars(StartAfterWait)

Spec == Init /\ [][Next]_vars /\ Fairness

-----------------------------------------------------------------------------
(* Every variable has its type; a connected client has an address.         *)
TypeOK ==
  /\ m_wifi_sta \in BOOLEAN /\ m_wifi_good \in BOOLEAN
  /\ sq \in {"good", "between", "bad"}
  /\ queue \in Seq({"good", "bad"}) /\ Len(queue) <= MaxQueue
  /\ m_connected_wifi \in BOOLEAN /\ m_connected_modem \in BOOLEAN
  /\ m_wifi_ap \in BOOLEAN /\ told \in BOOLEAN
  /\ signalled \subseteq {"network.up", "network.down", "network.reconfigured",
                          "network.mgr.init", "network.mgr.stop"}
  /\ m_mongoose_task \in 0..MaxTasks /\ m_mongoose_running \in BOOLEAN
  /\ task \in [Tasks -> {"none", "created", "loop", "stopping", "ending"}]
  /\ epc \in {"idle", "waiting"}
  /\ m_connected_wifi => m_wifi_sta

(* What the module was told last, network.up or network.down, is so,       *)
(* whichever of the two interfaces came or went in whichever order.        *)
ToldTruth == told = m_connected_any

(* The rest of the module is told to reconnect exactly when the interface  *)
(* its connections use is replaced by another.                             *)
ChangeTold ==
  [][Interface # "none" /\ Interface' # "none" =>
       (Interface' # Interface) = ("network.reconfigured" \in signalled')]_vars

(* Once all quality events are handled, the client is connected if its     *)
(* signal is good: late events of an earlier association do no harm.       *)
WifiFollowsSignal == queue = <<>> => m_connected_wifi = m_wifi_good

(* At most one mongoose task works on m_mongoose_mgr.                      *)
OneManager ==
  \A t, u \in Tasks :
    task[t] \in {"created", "loop", "stopping"} /\ task[u] \in {"created", "loop", "stopping"}
      => t = u

(* A network that stays is served: the mongoose task gets to run.          *)
NetworkServed == m_network_any ~> (m_mongoose_running \/ ~m_network_any)

(* "wait for previous task to finish shutting down": the wait in           *)
(* StartMongooseTask, in the events task, ends.                            *)
StartReturns == epc = "waiting" ~> epc = "idle"
=============================================================================
