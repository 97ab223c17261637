------------------------- MODULE ServerV2LinkProofs --------------------------
(***************************************************************************)
(* The connection of the v2 channel, for any number of connections, of     *)
(* changes of the network, and any retry times.                            *)
(*                                                                         *)
(* That one connection is left needs that an attempt to connect begins     *)
(* with none; that the channel is never stuck needs that a network manager *)
(* with a network has its mongoose task, that the closing of a connection  *)
(* leaves a countdown, and that network.mgr.stop, which may be handled     *)
(* late, is never what the channel waits for.                              *)
(***************************************************************************)
EXTENDS ServerV2Link, TLAPS

TypeInv ==
  /\ m_mgconn \in {0} \cup Conns /\ m_connretry \in Nat
  /\ conn \in [Conns -> {"none", "connecting", "open", "in", "closed"}]
  /\ tpc \in {"idle", "disconnect", "connecting", "connect"}
  /\ mpc \in {"idle", "reconnect", "retry0", "metric", "status"}
  /\ retry \in Nat

\* An attempt begins without a connection; a closing one is tried again.
AttemptInv ==
  /\ tpc \in {"connecting", "connect"} => m_mgconn = 0
  /\ mpc = "reconnect" => retry > 0

\* Something is left to bring the channel forward, besides network.mgr.stop.
MovingInv ==
  /\ m_connected_any => m_mongoose_running
  /\ m_connected_any /\ ~connected =>
       \/ m_connretry > 0 \/ Live # {} \/ tpc # "idle" \/ mpc # "idle"
       \/ events \ {"network.mgr.stop"} # {}

\* The connection that logs in is there until the login has come to its end.
LoginInv == mpc \in {"retry0", "metric", "status"} => Live # {}

IInv == TypeInv /\ AttemptInv /\ OneConnection /\ MovingInv /\ LoginInv

-----------------------------------------------------------------------------
LEMMA InitIInv == Init => IInv
<1> SUFFICES ASSUME Init PROVE IInv
  OBVIOUS
<1>1. Live = {}
  BY DEF Init, Live
<1> QED
  BY <1>1 DEF Init, IInv, TypeInv, AttemptInv, MovingInv, OneConnection,
              NoneLeftBehind, CurrentIsLive, LoginInv

\* The retry times are positive.
LEMMA Times ==
  /\ {Retry, AuthRetry, ShortRetry, UpRetry, ConfigRetry, LoginWait} \subseteq Nat
  /\ \A n \in {Retry, AuthRetry, ShortRetry, UpRetry, ConfigRetry, LoginWait} : n > 0
BY LinkAssumption

LEMMA ZeroIsNone == 0 \notin Conns
BY LinkAssumption DEF Conns

\* A connection that is not current or is closed is not missed.
LEMMA SameLive ==
  ASSUME UNCHANGED conn PROVE Live' = Live
BY DEF Live

(* Steps that forget the current connection: Reconnect.                    *)
LEMMA ReconnectOne ==
  ASSUME TypeInv, OneConnection, NEW n, Reconnect(n), UNCHANGED conn
  PROVE  OneConnection' /\ (m_mgconn # 0 => mpc = "reconnect" \/ Live' # {})
<1>1. Live' = Live
  BY SameLive
<1>2. /\ m_mgconn' = 0
      /\ closing' = IF m_mgconn = 0 THEN closing ELSE closing \cup {m_mgconn}
  BY DEF Reconnect
<1>3. \A c \in Live : c # 0
  BY ZeroIsNone DEF Live
<1>4. NoneLeftBehind'
  BY <1>1, <1>2, <1>3 DEF OneConnection, NoneLeftBehind
<1>5. CurrentIsLive'
  BY <1>2 DEF CurrentIsLive
<1>6. m_mgconn # 0 => mpc = "reconnect" \/ Live # {}
  BY DEF OneConnection, CurrentIsLive
<1> QED
  BY <1>1, <1>4, <1>5, <1>6 DEF OneConnection

-----------------------------------------------------------------------------
LEMMA EventsTaskIInv == IInv /\ EventsTask => IInv'
<1> SUFFICES ASSUME IInv, EventsTask PROVE IInv'
  OBVIOUS
<1> USE Times DEF IInv, TypeInv, AttemptInv, MovingInv
<1>0. Live \subseteq Live' /\ UNCHANGED mpc
  BY DEF EventsTask, TickCount, TickDisconnect, ConnectNoConfig, ConnectStatus, Connect,
         TickNoNetwork, NetUp, NetUpIgnored, NetReconfigured, NetmanStop, Live, conns, link, mong
<1>10. LoginInv'
  BY <1>0 DEF LoginInv
<1>1. CASE TickCount
  <2>1. Live' = Live
    BY <1>1, SameLive DEF TickCount, conns
  <2>2. OneConnection'
    BY <1>1, <2>1
    DEF TickCount, conns, mong, OneConnection, NoneLeftBehind, CurrentIsLive
  <2>3. TypeInv' /\ AttemptInv'
    BY <1>1 DEF TickCount, conns, mong
  <2>4. MovingInv'
    BY <1>1, <2>1 DEF TickCount, conns, mong, net
  <2> QED
    BY <1>10, <2>2, <2>3, <2>4
<1>2. CASE TickDisconnect
  <2>1. OneConnection'
    BY <1>2, ReconnectOne DEF TickDisconnect
  <2>2. TypeInv' /\ AttemptInv' /\ MovingInv'
    BY <1>2 DEF TickDisconnect, Reconnect, mong, net
  <2> QED
    BY <1>10, <2>1, <2>2
<1>3. CASE ConnectNoConfig \/ ConnectStatus
  <2>1. Live' = Live
    BY <1>3, SameLive DEF ConnectNoConfig, ConnectStatus, conns
  <2>2. OneConnection'
    BY <1>3, <2>1 DEF ConnectNoConfig, ConnectStatus, conns, mong,
                      OneConnection, NoneLeftBehind, CurrentIsLive
  <2>3. TypeInv' /\ AttemptInv' /\ MovingInv'
    BY <1>3, <2>1 DEF ConnectNoConfig, ConnectStatus, conns, mong, net
  <2> QED
    BY <1>10, <2>2, <2>3
<1>4. CASE Connect
  <2>1. m_mgconn = 0 /\ UNCHANGED <<connected, closing, mong, net>> /\ tpc' = "idle"
    BY <1>4 DEF Connect
  <2>2. CASE \E c \in Conns :
               /\ conn[c] = "none" /\ conn' = [conn EXCEPT ![c] = "connecting"]
               /\ m_mgconn' = c /\ UNCHANGED <<m_connretry, m_state>>
    <3>1. PICK c \in Conns :
               /\ conn[c] = "none" /\ conn' = [conn EXCEPT ![c] = "connecting"]
               /\ m_mgconn' = c /\ UNCHANGED <<m_connretry, m_state>>
      BY <2>2
    <3>2. Live' = Live \cup {c}
      BY <3>1 DEF Live
    <3>3. TypeInv' /\ AttemptInv'
      BY <2>1, <3>1 DEF mong
    <3>4. OneConnection' /\ MovingInv'
      BY <2>1, <3>1, <3>2, ZeroIsNone
      DEF mong, net, OneConnection, NoneLeftBehind, CurrentIsLive, Live
    <3> QED
      BY <1>10, <3>3, <3>4
  <2>3. CASE m_mgconn' = 0 /\ m_connretry' = Retry /\ UNCHANGED conn
    <3>1. Live' = Live
      BY <2>3, SameLive
    <3>2. TypeInv' /\ AttemptInv' /\ MovingInv'
      BY <2>1, <2>3, <3>1 DEF mong, net
    <3>3. OneConnection'
      BY <2>1, <2>3, <3>1
      DEF mong, OneConnection, NoneLeftBehind, CurrentIsLive
    <3> QED
      BY <1>10, <3>2, <3>3
  <2> QED
    BY <1>4, <2>2, <2>3 DEF Connect
<1>5. CASE TickNoNetwork \/ NetUp \/ NetUpIgnored
  <2>1. /\ UNCHANGED <<m_mgconn, connected, conn, closing, tpc, mpc, retry,
                       m_connected_any, m_mongoose_running>>
        /\ m_connretry' \in Nat
    BY <1>5 DEF TickNoNetwork, NetUp, NetUpIgnored, conns, mong, link, net
  <2>2. Live' = Live
    BY <2>1, SameLive
  <2>3. TypeInv' /\ AttemptInv'
    BY <2>1
  <2>4. OneConnection'
    BY <2>1, <2>2 DEF OneConnection, NoneLeftBehind, CurrentIsLive
  <2>5. MovingInv'
    <3>1. CASE TickNoNetwork
      BY <2>1, <3>1 DEF TickNoNetwork
    <3>2. CASE NetUp
      BY <2>1, <3>2 DEF NetUp
    <3>3. CASE NetUpIgnored
      <4>1. m_connretry' = m_connretry
        BY <3>3 DEF NetUpIgnored, link
      <4>2. CASE m_mgconn # 0
        BY <2>1, <2>2, <4>2 DEF OneConnection, CurrentIsLive
      <4>3. CASE m_mgconn = 0 /\ m_connected_any
        <5>1. events' = events \ {"network.mgr.stop"}
          BY <3>3, <4>3 DEF NetUpIgnored, Take
        <5> QED
          BY <2>1, <2>2, <4>1, <5>1
      <4> QED
        BY <2>1, <4>2, <4>3
    <3> QED
      BY <1>5, <3>1, <3>2, <3>3
  <2> QED
    BY <1>10, <2>3, <2>4, <2>5
<1>6. CASE NetReconfigured
  <2>1. OneConnection'
    BY <1>6, ReconnectOne DEF NetReconfigured
  <2>2. TypeInv' /\ AttemptInv' /\ MovingInv'
    BY <1>6 DEF NetReconfigured, Reconnect, mong
  <2> QED
    BY <1>10, <2>1, <2>2
<1>7. CASE NetmanStop
  <2>1. OneConnection' /\ (mpc = "reconnect" \/ Live' # {})
    BY <1>7, ReconnectOne DEF NetmanStop
  <2>2. TypeInv' /\ AttemptInv' /\ MovingInv'
    BY <1>7, <2>1 DEF NetmanStop, Reconnect, mong
  <2> QED
    BY <1>10, <2>1, <2>2
<1> QED
  BY <1>1, <1>2, <1>3, <1>4, <1>5, <1>6, <1>7 DEF EventsTask

LEMMA MongooseTaskIInv == IInv /\ MongooseTask => IInv'
<1> SUFFICES ASSUME IInv, MongooseTask PROVE IInv'
  OBVIOUS
<1> USE Times DEF IInv, TypeInv, AttemptInv, MovingInv
<1>1. ASSUME NEW c \in Conns, SendLogin(c) \/ ConnectFailed(c) PROVE IInv'
  <2>1. /\ UNCHANGED <<m_mgconn, connected, tpc, mpc, mconn, retry, net>>
        /\ conn[c] = "connecting" /\ conn' \in {conn, [conn EXCEPT ![c] = "open"]}
        /\ closing \subseteq closing' /\ m_connretry' \in {Retry, LoginWait}
    BY <1>1 DEF SendLogin, ConnectFailed, mong
  <2>2. Live' = Live
    BY <2>1 DEF Live
  <2>3. TypeInv' /\ AttemptInv' /\ MovingInv' /\ LoginInv'
    BY <2>1, <2>2 DEF net, LoginInv
  <2>4. OneConnection'
    BY <2>1, <2>2 DEF OneConnection, NoneLeftBehind, CurrentIsLive
  <2> QED
    BY <2>3, <2>4
<1>2. ASSUME NEW c \in Conns, Close(c) PROVE IInv'
  <2>1. /\ UNCHANGED <<m_mgconn, m_connretry, connected, closing, tpc, net>>
        /\ conn' = [conn EXCEPT ![c] = "closed"] /\ mpc' = "reconnect"
        /\ retry' \in {Retry, AuthRetry}
    BY <1>2 DEF Close
  <2>2. Live' \subseteq Live
    BY <2>1 DEF Live
  <2>3. TypeInv' /\ AttemptInv' /\ MovingInv' /\ LoginInv'
    BY <2>1, <2>2 DEF net, LoginInv
  <2>4. OneConnection'
    BY <2>1, <2>2 DEF OneConnection, NoneLeftBehind, CurrentIsLive
  <2> QED
    BY <2>3, <2>4
<1>3. ASSUME NEW c \in Conns, LoginBad(c) \/ MessageBad(c) PROVE IInv'
  <2>1. /\ UNCHANGED <<m_mgconn, m_connretry, connected, conn, closing, tpc, net>>
        /\ mpc' = "reconnect" /\ retry' = Retry
    BY <1>3 DEF LoginBad, MessageBad, conns
  <2>2. Live' = Live
    BY <2>1, SameLive
  <2>3. TypeInv' /\ AttemptInv' /\ MovingInv' /\ LoginInv'
    BY <2>1, <2>2 DEF net, LoginInv
  <2>4. OneConnection'
    BY <2>1, <2>2 DEF OneConnection, NoneLeftBehind, CurrentIsLive
  <2> QED
    BY <2>3, <2>4
<1>4. ASSUME NEW c \in Conns, LoginGood(c) PROVE IInv'
  <2>1. /\ UNCHANGED <<m_mgconn, m_connretry, connected, closing, tpc, retry, net>>
        /\ conn[c] = "open" /\ conn' = [conn EXCEPT ![c] = "in"]
        /\ mpc = "idle" /\ mpc' = "retry0"
    BY <1>4 DEF LoginGood, IncomingData, link
  <2>2. Live' = Live /\ Live # {}
    BY <2>1 DEF Live
  <2>3. TypeInv' /\ AttemptInv' /\ MovingInv' /\ LoginInv'
    BY <2>1, <2>2 DEF net, LoginInv
  <2>4. OneConnection'
    BY <2>1, <2>2 DEF OneConnection, NoneLeftBehind, CurrentIsLive
  <2> QED
    BY <2>3, <2>4
<1>5. CASE CloseReconnect
  <2>1. /\ OneConnection /\ Reconnect(retry) /\ UNCHANGED conn
    BY <1>5 DEF CloseReconnect
  <2>2. OneConnection'
    BY <2>1, ReconnectOne
  <2>3. TypeInv' /\ AttemptInv' /\ MovingInv' /\ LoginInv'
    BY <1>5 DEF CloseReconnect, Reconnect, net, LoginInv
  <2> QED
    BY <2>2, <2>3
<1>6. CASE LoginRetry \/ LoginConnected \/ LoginStatus
  <2>1. /\ UNCHANGED <<m_mgconn, conn, closing, tpc, retry, net>>
        /\ mpc \in {"retry0", "metric", "status"} /\ m_connretry' \in {0, m_connretry}
        /\ mpc' \in {"idle", "metric", "status"}
    BY <1>6 DEF LoginRetry, LoginConnected, LoginStatus, conns
  <2>2. Live' = Live /\ Live # {}
    BY <2>1, SameLive DEF LoginInv
  <2>3. TypeInv' /\ AttemptInv' /\ MovingInv' /\ LoginInv'
    BY <2>1, <2>2 DEF net, LoginInv
  <2>4. OneConnection'
    BY <2>1, <2>2 DEF OneConnection, NoneLeftBehind, CurrentIsLive
  <2> QED
    BY <2>3, <2>4
<1> QED
  BY <1>1, <1>2, <1>3, <1>4, <1>5, <1>6 DEF MongooseTask

LEMMA OtherIInv == IInv /\ (Network \/ UNCHANGED vars) => IInv'
<1> SUFFICES ASSUME IInv, Network \/ UNCHANGED vars PROVE IInv'
  OBVIOUS
<1> USE DEF IInv, TypeInv, AttemptInv, MovingInv
<1>1. UNCHANGED <<m_mgconn, m_connretry, connected, conn, closing, tpc, mpc, retry>>
  BY DEF Network, NetworkUp, NetworkDown, NetworkReconfigured, NetworkChange,
         vars, link, conns, mong
<1>2. Live' = Live
  BY <1>1, SameLive
<1>3. TypeInv' /\ AttemptInv' /\ LoginInv'
  BY <1>1, <1>2 DEF LoginInv
<1>4. OneConnection'
  BY <1>1, <1>2 DEF OneConnection, NoneLeftBehind, CurrentIsLive
<1>5. MovingInv'
  <2>1. CASE NetworkUp
    BY <1>1, <2>1 DEF NetworkUp, NetworkChange
  <2>2. CASE NetworkDown
    BY <1>1, <2>2 DEF NetworkDown, NetworkChange
  <2>3. CASE NetworkReconfigured
    <3>1. /\ "network.reconfigured" \in events' \ {"network.mgr.stop"}
          /\ m_connected_any /\ UNCHANGED m_mongoose_running
      BY <2>3 DEF NetworkReconfigured, NetworkChange
    <3> QED
      BY <1>1, <3>1
  <2>4. CASE UNCHANGED vars
    BY <1>1, <1>2, <2>4 DEF vars, net
  <2> QED
    BY <2>1, <2>2, <2>3, <2>4 DEF Network
<1> QED
  BY <1>3, <1>4, <1>5

LEMMA NextIInv == IInv /\ [Next]_vars => IInv'
BY EventsTaskIInv, MongooseTaskIInv, OtherIInv DEF Next

LEMMA IInvNeverStuck == IInv => NeverStuck
BY DEF IInv, MovingInv, NeverStuck

LEMMA Safe == Spec => []IInv
BY InitIInv, NextIInv, PTL DEF Spec

(* Through every race of an attempt in the events task with a closing in   *)
(* the mongoose task, the connections not about to be closed are the       *)
(* current one and no other (Connect, Reconnect, MG_EV_CLOSE).             *)
THEOREM LinkOneConnection == Spec => []OneConnection
<1>1. IInv => OneConnection
  BY DEF IInv
<1> QED
  BY <1>1, Safe, PTL

(* With a network and no login something is left to bring the channel      *)
(* forward, whatever order the events of the network are handled in.       *)
THEOREM LinkNeverStuck == Spec => []NeverStuck
BY Safe, IInvNeverStuck, PTL

-----------------------------------------------------------------------------
(* The countdown is never beyond the longest of the delays.                *)
Delays == {0} \cup 1..(Retry + AuthRetry + ShortRetry + UpRetry + ConfigRetry + LoginWait)

LEMMA DelaysLemma ==
  /\ \A d \in {0, Retry, AuthRetry, ShortRetry, UpRetry, ConfigRetry, LoginWait} : d \in Delays
  /\ \A d \in Delays : d > 0 => d - 1 \in Delays
<1>1. \A d \in {Retry, AuthRetry, ShortRetry, UpRetry, ConfigRetry, LoginWait} : d \in Nat
  BY LinkAssumption
<1> QED
  BY <1>1 DEF Delays

LEMMA InitLinkTypes == Init => TypeOK
<1>1. 0 \in 0..MaxConns /\ 0 \in 0..MaxNetEvents /\ {} \subseteq Conns
  BY LinkAssumption
<1>2. ASSUME Init PROVE conn \in [Conns -> {"none", "connecting", "open", "in", "closed"}]
  BY <1>2 DEF Init
<1> QED
  BY <1>1, <1>2 DEF Init, TypeOK, States

LEMMA NextLinkTypes == TypeOK /\ [Next]_vars => TypeOK'
<1> SUFFICES ASSUME TypeOK, [Next]_vars PROVE TypeOK'
  OBVIOUS
<1> USE DEF link, conns, mong, net
<1>1. /\ m_connretry \in Delays /\ retry \in Delays
      /\ 0 \in 0..MaxConns /\ Conns \subseteq 0..MaxConns
      /\ MaxNetEvents \in Nat
  BY DelaysLemma, LinkAssumption DEF TypeOK, Delays, Conns
<1>2. ASSUME NEW d \in Delays, Reconnect(d)
      PROVE  /\ m_mgconn' \in 0..MaxConns /\ connected' \in BOOLEAN /\ m_connretry' \in Delays
             /\ closing' \subseteq Conns
  <2>1. m_mgconn = 0 \/ m_mgconn \in Conns
    BY LinkAssumption DEF TypeOK, Conns
  <2> QED
    BY <1>1, <1>2, <2>1 DEF Reconnect, TypeOK
<1>3. CASE EventsTask
  <2>1. CASE TickCount
    <3>1. m_connretry' \in Delays
      BY <1>1, <2>1, DelaysLemma DEF TickCount
    <3> QED
      BY <2>1, <3>1 DEF TickCount, TypeOK, Delays
  <2>2. CASE TickDisconnect
    BY <1>2, <2>2, DelaysLemma DEF TickDisconnect, TypeOK, Delays
  <2>3. CASE ConnectNoConfig \/ ConnectStatus
    BY <2>3, DelaysLemma DEF ConnectNoConfig, ConnectStatus, SetStatus, States, TypeOK, Delays
  <2>4. CASE Connect
    BY <1>1, <2>4, DelaysLemma DEF Connect, SetStatus, States, TypeOK, Delays
  <2>5. CASE TickNoNetwork \/ NetUp \/ NetUpIgnored
    <3>1. events' \subseteq events
      BY <2>5 DEF TickNoNetwork, NetUp, NetUpIgnored, Take
    <3>2. m_connretry' \in Delays /\ m_state' \in States
      BY <1>1, <2>5, DelaysLemma DEF TickNoNetwork, NetUp, NetUpIgnored, SetStatus, States, TypeOK
    <3>3. UNCHANGED <<m_mgconn, connected, conn, closing, tpc, mpc, mconn, retry, m_connected_any,
                      m_mongoose_running, netEvents, reconfigured>>
      BY <2>5 DEF TickNoNetwork, NetUp, NetUpIgnored
    <3> QED
      BY <3>1, <3>2, <3>3 DEF TypeOK, Delays
  <2>6. CASE NetReconfigured \/ NetmanStop
    BY <1>2, <2>6, DelaysLemma DEF NetReconfigured, NetmanStop, Take, SetStatus, States, TypeOK, Delays
  <2> QED
    BY <1>3, <2>1, <2>2, <2>3, <2>4, <2>5, <2>6 DEF EventsTask
<1>4. CASE MongooseTask
  <2>1. ASSUME NEW c \in Conns, SendLogin(c) \/ ConnectFailed(c) PROVE TypeOK'
    BY <2>1, DelaysLemma DEF SendLogin, ConnectFailed, SetStatus, States, TypeOK, Delays
  <2>2. ASSUME NEW c \in Conns, Close(c) \/ LoginBad(c) \/ MessageBad(c) PROVE TypeOK'
    BY <2>2 DEF Close, LoginBad, MessageBad, IncomingData, SetStatus, States, TypeOK
  <2>3. ASSUME NEW c \in Conns, LoginGood(c) PROVE TypeOK'
    BY <1>1, <2>3 DEF LoginGood, TypeOK
  <2>4. CASE CloseReconnect
    BY <1>1, <1>2, <2>4 DEF CloseReconnect, TypeOK, Delays
  <2>5. CASE LoginRetry \/ LoginConnected \/ LoginStatus
    <3>1. /\ m_connretry' \in {0, m_connretry} /\ mconn' \in {0, mconn}
          /\ mpc' \in {"idle", "metric", "status"} /\ m_state' \in {"Connected", m_state}
          /\ UNCHANGED <<m_mgconn, conns, tpc, retry, net, reconfigured>>
      BY <2>5 DEF LoginRetry, LoginConnected, LoginStatus, SetStatus
    <3>2. connected' \in BOOLEAN
      BY <2>5 DEF LoginRetry, LoginConnected, LoginStatus, TypeOK
    <3> QED
      BY <1>1, <3>1, <3>2 DEF TypeOK, States, Delays
  <2> QED
    BY <1>4, <2>1, <2>2, <2>3, <2>4, <2>5 DEF MongooseTask
<1>5. CASE Network
  <2>1. PICK up \in BOOLEAN, running \in BOOLEAN,
              es \in SUBSET {"network.up", "network.mgr.init", "network.mgr.stop",
                             "network.reconfigured"} : NetworkChange(up, running, es)
    <3>1. m_mongoose_running \in BOOLEAN
      BY DEF TypeOK
    <3>2. {"network.up"} \subseteq {"network.up", "network.mgr.init", "network.mgr.stop",
                                   "network.reconfigured"}
      OBVIOUS
    <3> QED
      BY <1>5, <3>1, <3>2 DEF Network, NetworkUp, NetworkDown, NetworkReconfigured
  <2>2. /\ netEvents' \in 0..MaxNetEvents /\ m_connected_any' \in BOOLEAN
        /\ m_mongoose_running' \in BOOLEAN
        /\ UNCHANGED <<m_mgconn, m_connretry, m_state, connected, conn, closing, tpc, mpc, mconn, retry>>
    BY <1>1, <2>1 DEF NetworkChange, TypeOK
  <2>3. events' \subseteq {"network.up", "network.mgr.init", "network.mgr.stop",
                          "network.reconfigured"}
    BY <2>1 DEF NetworkChange, TypeOK
  <2>4. reconfigured' \in BOOLEAN
    BY <2>1 DEF NetworkChange
  <2> QED
    BY <2>2, <2>3, <2>4 DEF TypeOK
<1>6. CASE UNCHANGED vars
  BY <1>6 DEF vars, TypeOK
<1> QED
  BY <1>3, <1>4, <1>5, <1>6 DEF Next

(* Every variable has its type: the countdown, which both tasks write, is  *)
(* never negative and never longer than the delays together.               *)
THEOREM LinkTypes == Spec => []TypeOK
BY InitLinkTypes, NextLinkTypes, PTL DEF Spec
=============================================================================
