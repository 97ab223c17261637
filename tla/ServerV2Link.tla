---------------------------- MODULE ServerV2Link ----------------------------
(***************************************************************************)
(* The connection of the server v2 channel: connecting, logging in, losing *)
(* the connection and trying again,                                        *)
(* components/ovms_server_v2/src/ovms_server_v2.cpp.                       *)
(*                                                                         *)
(* Two tasks share the state:                                              *)
(*   - the events task runs Ticker1 and the handlers of network events;    *)
(*   - the mongoose task runs the callback of the connections.             *)
(* Both are pinned to one core and the events task has the higher          *)
(* priority, so its reads and writes between two blocking calls are one    *)
(* step, while it may run between any two steps of the mongoose task.      *)
(*                                                                         *)
(* A connection that was given up is only flagged; the mongoose task       *)
(* closes it later, and the callback of the closed connection works on     *)
(* whatever connection is the current one by then.                         *)
(***************************************************************************)
EXTENDS Integers, FiniteSets

CONSTANTS
  MaxConns,      \* bound on the connections opened
  MaxNetEvents,  \* bound on the changes of the network
  Retry,         \* seconds to the next attempt after a loss        (60)
  AuthRetry,     \* ... after a loss while authenticating          (120)
  ShortRetry,    \* ... after the network was reconfigured          (10)
  UpRetry,       \* ... after the network came up                    (2)
  ConfigRetry,   \* ... after an attempt without a configuration    (20)
  LoginWait      \* seconds the server has to answer a login        (60)

ASSUME LinkAssumption ==
  /\ MaxConns \in Nat /\ MaxNetEvents \in Nat
  /\ {Retry, AuthRetry, ShortRetry, UpRetry, ConfigRetry, LoginWait} \subseteq Nat \ {0}

VARIABLES
  m_mgconn,     \* the current connection, 0 for NULL
  m_connretry,
  m_state,
  connected,    \* the metric ms_s_v2_connected
  conn,         \* conn[c]: "none", "connecting", "open", "in", "closed"
  closing,      \* connections flagged MG_F_CLOSE_IMMEDIATELY
  tpc,          \* events task: "idle", "disconnect", "connecting", "connect"
  mpc, mconn,   \* mongoose task: its next step, the connection it serves
  retry,        \* the parameter of the Reconnect it is about to call
  m_connected_any,
  m_mongoose_running,
  events,       \* network events not yet handled
  netEvents,    \* changes of the network so far
  reconfigured  \* reconfigured, and no attempt to connect since

link  == <<m_mgconn, m_connretry, m_state, connected>>
conns == <<conn, closing>>
mong  == <<mpc, mconn, retry>>
net   == <<m_connected_any, m_mongoose_running, events, netEvents>>
vars  == <<link, conns, tpc, mong, net, reconfigured>>

Conns  == 1..MaxConns
States == {"WaitNetwork", "ConnectWait", "Connecting", "Authenticating",
           "Connected", "WaitReconnect"}
Live   == {c \in Conns : conn[c] \in {"connecting", "open", "in"}}

(* The server is started before there is a network.                        *)
Init ==
  /\ m_mgconn = 0 /\ m_connretry = 0 /\ m_state = "WaitNetwork"
  /\ connected = FALSE
  /\ conn = [c \in Conns |-> "none"] /\ closing = {}
  /\ tpc = "idle" /\ mpc = "idle" /\ mconn = 0 /\ retry = 0
  /\ m_connected_any = FALSE /\ m_mongoose_running = FALSE
  /\ events = {} /\ netEvents = 0
  /\ reconfigured = FALSE

-----------------------------------------------------------------------------
\* Mutant: the connection is forgotten and not closed.
ReconnectLeaks(connretry) ==
  /\ closing'     = closing
  /\ m_mgconn'    = 0
  /\ m_connretry' = connretry
  /\ connected'   = FALSE

\* Mutant: the connection is flagged and stays the current one.
ReconnectKeeps(connretry) ==
  /\ closing'     = IF m_mgconn = 0 THEN closing ELSE closing \cup {m_mgconn}
  /\ m_mgconn'    = m_mgconn
  /\ m_connretry' = connretry
  /\ connected'   = FALSE

(* A new state, told to the rest of the module by an event nobody here     *)
(* listens to.                                                             *)
SetStatus(newstate) == m_state' = newstate

(* Disconnect is Reconnect(0): the mutex m_mgconn_mutex makes it one step. *)
Reconnect(connretry) ==
  /\ closing'     = IF m_mgconn = 0 THEN closing ELSE closing \cup {m_mgconn}
  /\ m_mgconn'    = 0
  /\ m_connretry' = connretry
  /\ connected'   = FALSE

-----------------------------------------------------------------------------
(* Ticker1 with a network: the countdown, and at its end a new attempt.    *)
TickCount ==
  /\ tpc = "idle" /\ m_connected_any /\ m_connretry > 0
  /\ m_connretry' = m_connretry - 1
  /\ tpc' = CASE m_connretry > 1 -> "idle"
              [] m_connretry = 1 /\ m_mgconn # 0 -> "disconnect"
              [] OTHER -> "connecting"
  /\ UNCHANGED <<m_mgconn, m_state, connected, conns, mong, net, reconfigured>>

(* Disconnect first (timeout).                                             *)
TickDisconnect ==
  /\ tpc = "disconnect"
  /\ Reconnect(0)
  /\ tpc' = "connecting"
  /\ UNCHANGED <<m_state, conn, mong, net, reconfigured>>

(* Connect with a parameter missing.                                       *)
ConnectNoConfig ==
  /\ tpc = "connecting"
  /\ SetStatus("WaitReconnect")
  /\ m_connretry' = ConfigRetry
  /\ reconfigured' = FALSE
  /\ tpc' = "idle"
  /\ UNCHANGED <<m_mgconn, connected, conns, mong, net>>

(* Connect up to its mutex ...                                             *)
ConnectStatus ==
  /\ tpc = "connecting"
  /\ SetStatus("Connecting")
  /\ tpc' = "connect"
  /\ UNCHANGED <<m_mgconn, m_connretry, connected, conns, mong, net, reconfigured>>

(* ... and from there on: mg_connect_opt gives a connection or NULL.       *)
Connect ==
  /\ tpc = "connect"
  /\ \/ \E c \in Conns :
          /\ conn[c] = "none" /\ \A d \in 1..(c - 1) : conn[d] # "none"
          /\ conn' = [conn EXCEPT ![c] = "connecting"]
          /\ m_mgconn' = c
          /\ UNCHANGED <<m_connretry, m_state>>
     \/ /\ m_mgconn' = 0
        /\ SetStatus("WaitReconnect")
        /\ m_connretry' = Retry
        /\ UNCHANGED conn
  /\ reconfigured' = FALSE
  /\ tpc' = "idle"
  /\ UNCHANGED <<connected, closing, mong, net>>

(* Ticker1 without a network.                                              *)
TickNoNetwork ==
  /\ tpc = "idle" /\ ~m_connected_any /\ m_state # "WaitNetwork"
  /\ m_connretry' = 0
  /\ SetStatus("WaitNetwork")
  /\ UNCHANGED <<m_mgconn, connected, conns, tpc, mong, net, reconfigured>>

Take(e) ==
  /\ tpc = "idle" /\ e \in events
  /\ events' = events \ {e}

(* NetUp and NetmanInit.                                                   *)
NetUp ==
  /\ \/ Take("network.up") /\ m_mongoose_running
     \/ Take("network.mgr.init") /\ m_connected_any
  /\ m_mgconn = 0
  /\ SetStatus("ConnectWait")
  /\ m_connretry' = UpRetry
  /\ UNCHANGED <<m_mgconn, connected, conns, tpc, mong, m_connected_any,
                 m_mongoose_running, netEvents, reconfigured>>

NetUpIgnored ==
  /\ \/ Take("network.up") /\ (~m_mongoose_running \/ m_mgconn # 0)
     \/ Take("network.mgr.init") /\ (~m_connected_any \/ m_mgconn # 0)
     \/ Take("network.mgr.stop") /\ m_mgconn = 0
  /\ UNCHANGED <<link, conns, tpc, mong, m_connected_any, m_mongoose_running,
                 netEvents, reconfigured>>

NetReconfigured ==
  /\ Take("network.reconfigured")
  /\ SetStatus("ConnectWait")
  /\ Reconnect(ShortRetry)
  /\ reconfigured' = m_connected_any
  /\ UNCHANGED <<conn, tpc, mong, m_connected_any, m_mongoose_running, netEvents>>

NetmanStop ==
  /\ Take("network.mgr.stop") /\ m_mgconn # 0
  /\ SetStatus("WaitNetwork")
  /\ Reconnect(0)
  /\ UNCHANGED <<conn, tpc, mong, m_connected_any, m_mongoose_running,
                 netEvents, reconfigured>>

-----------------------------------------------------------------------------
(* MG_EV_CONNECT with success: SendLogin.                                  *)
SendLogin(c) ==
  /\ mpc = "idle" /\ m_mongoose_running
  /\ conn[c] = "connecting" /\ c \notin closing
  /\ conn' = [conn EXCEPT ![c] = "open"]
  /\ SetStatus("Authenticating")
  /\ m_connretry' = LoginWait
  /\ UNCHANGED <<m_mgconn, connected, closing, tpc, mong, net, reconfigured>>

(* MG_EV_CONNECT with an error, after which mongoose closes.               *)
ConnectFailed(c) ==
  /\ mpc = "idle" /\ m_mongoose_running
  /\ conn[c] = "connecting" /\ c \notin closing
  /\ SetStatus("WaitReconnect")
  /\ m_connretry' = Retry
  /\ closing' = closing \cup {c}
  /\ UNCHANGED <<m_mgconn, connected, conn, tpc, mong, net, reconfigured>>

\* Mutant: the closing of a connection that is no longer current is ignored.
CloseCurrent(c) ==
  /\ mpc = "idle" /\ c \in Live
  /\ conn' = [conn EXCEPT ![c] = "closed"]
  /\ IF c # m_mgconn
       THEN UNCHANGED <<m_state, mpc, retry>>
       ELSE /\ retry' = IF m_state = "Authenticating" THEN AuthRetry ELSE Retry
            /\ SetStatus("WaitReconnect")
            /\ mpc' = "reconnect"
  /\ UNCHANGED <<m_mgconn, m_connretry, connected, closing, tpc, mconn, net,
                 reconfigured>>

(* MG_EV_CLOSE: flagged here, closed by the server or lost; by mg_mgr_free *)
(* when the mongoose task ends.                                            *)
Close(c) ==
  /\ mpc = "idle" /\ c \in Live
  /\ conn' = [conn EXCEPT ![c] = "closed"]
  /\ retry' = IF m_state = "Authenticating" THEN AuthRetry ELSE Retry
  /\ SetStatus("WaitReconnect")
  /\ mpc' = "reconnect"
  /\ UNCHANGED <<m_mgconn, m_connretry, connected, closing, tpc, mconn, net,
                 reconfigured>>

\* Mutant: the closing disconnects, so nothing counts to a new attempt.
CloseReconnectZero ==
  /\ mpc = "reconnect"
  /\ Reconnect(0)
  /\ mpc' = "idle"
  /\ UNCHANGED <<m_state, conn, tpc, mconn, retry, net, reconfigured>>

CloseReconnect ==
  /\ mpc = "reconnect"
  /\ Reconnect(retry)
  /\ mpc' = "idle"
  /\ UNCHANGED <<m_state, conn, tpc, mconn, retry, net, reconfigured>>

(* MG_EV_RECV: a line is processed if there is a current connection, be it *)
(* this one or another.                                                    *)
IncomingData(c) ==
  mpc = "idle" /\ m_mongoose_running /\ m_mgconn # 0 /\ c \notin closing

(* ProcessServerMsg on a bad answer to the login, ...                      *)
LoginBad(c) ==
  /\ IncomingData(c) /\ conn[c] = "open"
  /\ SetStatus("WaitReconnect")
  /\ retry' = Retry
  /\ mpc' = "reconnect"
  /\ UNCHANGED <<m_mgconn, m_connretry, connected, conns, tpc, mconn, net,
                 reconfigured>>

(* ... on a message without the protocol's mark, as the server's messages  *)
(* are when the keys do not fit, ...                                       *)
MessageBad(c) ==
  /\ IncomingData(c) /\ conn[c] \in {"open", "in"}
  /\ SetStatus("WaitReconnect")
  /\ retry' = Retry
  /\ mpc' = "reconnect"
  /\ UNCHANGED <<m_mgconn, m_connretry, connected, conns, tpc, mconn, net,
                 reconfigured>>

(* ... and on a good one: it is checked and the crypto channel primed, ...     *)
LoginGood(c) ==
  /\ IncomingData(c) /\ conn[c] = "open"
  /\ conn' = [conn EXCEPT ![c] = "in"]
  /\ mpc' = "retry0" /\ mconn' = c
  /\ UNCHANGED <<link, closing, tpc, retry, net, reconfigured>>

(* ... m_connretry = 0, ...                                                *)
LoginRetry ==
  /\ mpc = "retry0"
  /\ m_connretry' = 0
  /\ mpc' = "metric"
  /\ UNCHANGED <<m_mgconn, m_state, connected, conns, tpc, mconn, retry, net,
                 reconfigured>>

(* ... the metric, ...                                                     *)
LoginConnected ==
  /\ mpc = "metric"
  /\ connected' = TRUE
  /\ mpc' = "status"
  /\ UNCHANGED <<m_mgconn, m_connretry, m_state, conns, tpc, mconn, retry, net,
                 reconfigured>>

(* ... and the status.                                                     *)
LoginStatus ==
  /\ mpc = "status"
  /\ SetStatus("Connected")
  /\ mpc' = "idle" /\ mconn' = 0
  /\ UNCHANGED <<m_mgconn, m_connretry, connected, conns, tpc, retry, net,
                 reconfigured>>

-----------------------------------------------------------------------------
(* The network manager, as far as the channel sees it.                     *)
NetworkChange(up, running, es) ==
  /\ netEvents < MaxNetEvents
  /\ netEvents' = netEvents + 1
  /\ m_connected_any' = up
  /\ m_mongoose_running' = running
  /\ events' = events \cup es
  /\ UNCHANGED <<link, conns, tpc, mong>>
  /\ reconfigured' = (reconfigured /\ up)

(* The access point may have started the mongoose task before.             *)
NetworkUp ==
  /\ tpc = "idle" /\ ~m_connected_any
  /\ \/ m_mongoose_running /\ NetworkChange(TRUE, TRUE, {"network.up"})
     \/ /\ ~m_mongoose_running /\ mpc = "idle" /\ Live = {}
        /\ NetworkChange(TRUE, TRUE, {"network.up", "network.mgr.init"})

(* The access point may keep the mongoose task running.                    *)
NetworkDown ==
  /\ tpc = "idle" /\ m_connected_any
  /\ \/ NetworkChange(FALSE, TRUE, {})
     \/ NetworkChange(FALSE, FALSE, {"network.mgr.stop"})

NetworkReconfigured ==
  /\ tpc = "idle" /\ m_connected_any
  /\ NetworkChange(TRUE, m_mongoose_running, {"network.reconfigured"})

EventsTask ==
  \/ TickCount \/ TickDisconnect \/ ConnectNoConfig \/ ConnectStatus \/ Connect
  \/ TickNoNetwork \/ NetUp \/ NetUpIgnored \/ NetReconfigured \/ NetmanStop

MongooseTask ==
  \/ \E c \in Conns : \/ SendLogin(c) \/ ConnectFailed(c) \/ Close(c)
                      \/ LoginBad(c) \/ MessageBad(c) \/ LoginGood(c)
  \/ CloseReconnect \/ LoginRetry \/ LoginConnected \/ LoginStatus

Network == NetworkUp \/ NetworkDown \/ NetworkReconfigured

Next == EventsTask \/ MongooseTask \/ Network

(* Ticks and events keep being handled, the mongoose task finishes what it *)
(* has begun, and closes what is flagged or left when it ends.             *)
Flagged(c) == c \in closing \/ ~m_mongoose_running

Fairness ==
  /\ WF_vars(EventsTask)
  /\ WF_vars(CloseReconnect \/ LoginRetry \/ LoginConnected \/ LoginStatus)
  /\ \A c \in Conns : SF_vars(Flagged(c) /\ Close(c))

Spec == Init /\ [][Next]_vars /\ Fairness

-----------------------------------------------------------------------------
(* Every variable has its type; the countdown never goes below zero.       *)
TypeOK ==
  /\ m_mgconn \in 0..MaxConns /\ connected \in BOOLEAN /\ m_state \in States
  /\ m_connretry \in {0} \cup
       1..(Retry + AuthRetry + ShortRetry + UpRetry + ConfigRetry + LoginWait)
  /\ conn \in [Conns -> {"none", "connecting", "open", "in", "closed"}]
  /\ closing \subseteq Conns
  /\ tpc \in {"idle", "disconnect", "connecting", "connect"}
  /\ mpc \in {"idle", "reconnect", "retry0", "metric", "status"} /\ mconn \in 0..MaxConns
  /\ retry \in {0, Retry, AuthRetry}
  /\ m_connected_any \in BOOLEAN /\ m_mongoose_running \in BOOLEAN
  /\ events \subseteq {"network.up", "network.mgr.init", "network.mgr.stop",
                       "network.reconfigured"}
  /\ netEvents \in 0..MaxNetEvents /\ reconfigured \in BOOLEAN

(* No connection is left behind: every connection that is not about to be  *)
(* closed is the current one, through every race of two attempts, so the   *)
(* module never has two connections to the server for long.                *)
NoneLeftBehind == \A c \in Live : c \in closing \/ c = m_mgconn

(* The current connection is one mongoose still knows: Transmit never      *)
(* writes to a connection that was freed.                                  *)
CurrentIsLive == m_mgconn # 0 /\ mpc # "reconnect" => m_mgconn \in Live

(* Both: the connections that are not about to be closed are the current   *)
(* one, if there is one, and no other.                                     *)
OneConnection == NoneLeftBehind /\ CurrentIsLive

(* The channel is never stuck: with a network and no login, a countdown,   *)
(* a connection whose fate mongoose will report, a handler at work or an   *)
(* event to handle is left to bring it forward.                            *)
NeverStuck ==
  m_connected_any /\ ~connected =>
    \/ m_connretry > 0 \/ Live # {} \/ events # {} \/ tpc # "idle" \/ mpc # "idle"

(* A metric that says connected, while the current connection is not       *)
(* logged in (or there is none), does not stay: the closing of the old     *)
(* connection puts it right.                                               *)
LoggedIn == m_mgconn # 0 /\ conn[m_mgconn] = "in"
FalseConnectedHeals == (connected /\ ~LoggedIn) ~> (~connected \/ LoggedIn)

(* "Network was reconfigured: disconnect, and reconnect in 10 seconds".    *)
ReconnectsSoon ==
  reconfigured /\ tpc = "idle" /\ mpc = "idle" => m_connretry \in 1..ShortRetry

(* "OVMS V2 login successful, and crypto channel established": in state    *)
(* Connected the current connection is the one that logged in.             *)
ConnectedMeansLoggedIn ==
  m_state = "Connected" /\ m_mgconn # 0 => conn[m_mgconn] = "in"
=============================================================================
