--------------------------- MODULE ServerV2Notify ---------------------------
(***************************************************************************)
(* How the server v2 channel empties its notification queues,              *)
(* components/ovms_server_v2/src/ovms_server_v2.cpp.                       *)
(*                                                                         *)
(* Three tasks share the channel:                                          *)
(*   - a notifier: any task that raises a notification.  It calls          *)
(*     IncomingNotification with the mutex of the notification type held.  *)
(*     A text (info, error, alert) is sent at once when the server is      *)
(*     connected and flagged for later otherwise; a data record is only    *)
(*     ever flagged;                                                       *)
(*   - the ticker: Ticker1 in the events task, once a second, and the      *)
(*     handlers there that give a connection up and open the next one;     *)
(*   - the network: the mongoose task, which logs in, receives the         *)
(*     server's acknowledgements and closes connections.  The events task  *)
(*     may give a connection up in the middle of a login, which then ends  *)
(*     with the channel connected and no connection, or another one.       *)
(*                                                                         *)
(* The queues are what the notification framework promises one reader      *)
(* (NotifyBoard): a set of ids for this reader, removed one by one.  One   *)
(* text type stands for the three, whose code is the same.                 *)
(***************************************************************************)
EXTENDS Integers, FiniteSets

CONSTANTS
  MaxText,         \* bound on the texts raised
  MaxData,         \* bound on the data records raised; at most the 5 records
                   \* one call of TransmitNotifyData sends
  RetransmitDelay  \* seconds until retransmission (10 in the code)

ASSUME BoundsAssumption ==
  /\ MaxText \in Nat
  /\ MaxData \in 0..5
  /\ RetransmitDelay \in Nat \ {0}

VARIABLES
  text, textNext,          \* unread texts, id of the next text
  data, dataNext,          \* unread data records, id of the next record
  typeMutex,               \* the mutex of the text type is held by a notifier
  connected,               \* the metric ms_s_v2_connected
  m_mgconn,                \* m_mgconn is not NULL
  loggedIn,                \* the server has accepted the login of m_mgconn
  abandoned,               \* a connection given up is not closed yet
  m_pending_notify_text,   \* m_pending_notify_info, _error, _alert
  m_pending_notify_data,
  m_pending_notify_data_last,
  m_pending_notify_data_retransmit,
  npc,                     \* notifier: "idle", "check", "leave", "send"
  tpc, entry,              \* events task: its next step, the entry it works on
  cpc,                     \* network: "idle", "login", "closing"
  wire,                    \* data records sent over this connection, logged in
  got,                     \* data records the server has stored
  textSent                 \* textSent[i]: times text i was sent

queues  == <<text, textNext, data, dataNext, typeMutex>>
conn    == <<connected, m_mgconn, loggedIn, abandoned, cpc>>
flags   == <<m_pending_notify_text, m_pending_notify_data,
             m_pending_notify_data_last, m_pending_notify_data_retransmit>>
ticker  == <<tpc, entry>>
history == <<wire, got, textSent>>
v2vars    == <<queues, conn, flags, npc, ticker, history>>

TextIds == 1..MaxText
DataIds == 1..MaxData

(* What reading m_id of a deleted entry may yield besides the old id.      *)
Garbage == {0, MaxData + 1}

Least(S) == CHOOSE i \in S : \A j \in S : i <= j

V2Init ==
  /\ text = {} /\ textNext = 1 /\ data = {} /\ dataNext = 1
  /\ typeMutex = FALSE
  /\ connected = FALSE /\ m_mgconn = FALSE /\ loggedIn = FALSE /\ abandoned = FALSE
  /\ m_pending_notify_text = FALSE
  /\ m_pending_notify_data = FALSE
  /\ m_pending_notify_data_last = 0
  /\ m_pending_notify_data_retransmit = 0
  /\ npc = "idle" /\ cpc = "idle"
  /\ tpc = "idle" /\ entry = 0
  /\ wire = {} /\ got = {}
  /\ textSent = [i \in TextIds |-> 0]

-----------------------------------------------------------------------------
(* Transmit of text i: nothing happens without a connection.               *)
TransmitText(i) ==
  textSent' = IF m_mgconn THEN [textSent EXCEPT ![i] = @ + 1] ELSE textSent

(* A notifier: QueueEntry up to the callback.                              *)
RaiseText ==
  /\ npc = "idle" /\ ~typeMutex /\ textNext <= MaxText
  /\ text'      = text \cup {textNext}
  /\ textNext'  = textNext + 1
  /\ typeMutex' = TRUE
  /\ npc'       = "check"
  /\ UNCHANGED <<data, dataNext, conn, flags, ticker, history>>

(* IncomingNotification of a text, no connection ...                       *)
SeeDisconnected ==
  /\ npc = "check" /\ ~connected
  /\ npc' = "leave"
  /\ UNCHANGED <<queues, conn, flags, ticker, history>>

(* ... so it is left queued, whatever the network has done since.          *)
LeaveQueued ==
  /\ npc = "leave"
  /\ m_pending_notify_text' = TRUE
  /\ typeMutex' = FALSE
  /\ npc' = "idle"
  /\ UNCHANGED <<text, textNext, data, dataNext, conn, m_pending_notify_data,
                 m_pending_notify_data_last, m_pending_notify_data_retransmit,
                 ticker, history>>

(* IncomingNotification of a text, connected: it will be transmitted.      *)
SeeConnected ==
  /\ npc = "check" /\ connected
  /\ npc' = "send"
  /\ UNCHANGED <<queues, conn, flags, ticker, history>>

(* ... transmitted, and marked read by NotifyReaders.                      *)
SendNow ==
  /\ npc = "send"
  /\ TransmitText(textNext - 1)
  /\ text' = text \ {textNext - 1}
  /\ typeMutex' = FALSE
  /\ npc' = "idle"
  /\ UNCHANGED <<textNext, data, dataNext, conn, flags, ticker, wire, got>>

(* IncomingNotification of a data record, with QueueEntry around it.       *)
RaiseData ==
  /\ dataNext <= MaxData
  /\ data'     = data \cup {dataNext}
  /\ dataNext' = dataNext + 1
  /\ m_pending_notify_data' = TRUE
  /\ UNCHANGED <<text, textNext, typeMutex, conn, npc, ticker, history,
                 m_pending_notify_text, m_pending_notify_data_last,
                 m_pending_notify_data_retransmit>>

-----------------------------------------------------------------------------
(* Ticker1, the connected part.                                            *)
TickStart ==
  /\ tpc = "idle" /\ connected
  /\ tpc' = "text"
  /\ UNCHANGED <<queues, conn, flags, npc, entry, history>>

(* TransmitNotifyInfo withdraws the flag before it looks at the queue.     *)
TextStart ==
  /\ tpc = "text"
  /\ tpc' = IF m_pending_notify_text THEN "textFirst" ELSE "data"
  /\ m_pending_notify_text' = FALSE
  /\ UNCHANGED <<queues, conn, npc, entry, history, m_pending_notify_data,
                 m_pending_notify_data_last, m_pending_notify_data_retransmit>>

\* Mutant: the search does not wait for a notifier at work on the type.
TextFirstUnlocked ==
  /\ tpc = "textFirst"
  /\ IF text = {}
       THEN tpc' = "data" /\ UNCHANGED entry
       ELSE tpc' = "textSend" /\ entry' = Least(text)
  /\ UNCHANGED <<queues, conn, flags, npc, history>>

(* FirstUnreadEntry waits for the mutex of the type.                       *)
TextFirst ==
  /\ tpc = "textFirst" /\ ~typeMutex
  /\ IF text = {}
       THEN tpc' = "data" /\ UNCHANGED entry
       ELSE tpc' = "textSend" /\ entry' = Least(text)
  /\ UNCHANGED <<queues, conn, flags, npc, history>>

TextSend ==
  /\ tpc = "textSend"
  /\ TransmitText(entry)
  /\ tpc' = "textMark"
  /\ UNCHANGED <<queues, conn, flags, npc, entry, wire, got>>

TextMark ==
  /\ tpc = "textMark" /\ ~typeMutex
  /\ text' = text \ {entry}
  /\ tpc'  = "textFirst"
  /\ UNCHANGED <<textNext, data, dataNext, typeMutex, conn, flags, npc, entry, history>>

(* Send new records, or count down to a retransmission of all of them.     *)
DataStart ==
  LET due == m_pending_notify_data_retransmit = 1
  IN  /\ tpc = "data"
      /\ IF m_pending_notify_data
           THEN /\ tpc' = "dataFirst"
                /\ UNCHANGED <<m_pending_notify_data_last, m_pending_notify_data_retransmit>>
           ELSE /\ tpc' = IF due THEN "dataFirst" ELSE "idle"
                /\ m_pending_notify_data_retransmit' =
                     IF m_pending_notify_data_retransmit > 0
                       THEN m_pending_notify_data_retransmit - 1 ELSE 0
                /\ m_pending_notify_data_last' =
                     IF due THEN 0 ELSE m_pending_notify_data_last
      /\ UNCHANGED <<queues, conn, npc, entry, history, m_pending_notify_text,
                     m_pending_notify_data>>

(* TransmitNotifyData: the first unread record above the last one sent.    *)
DataFirst ==
  LET unread == {i \in data : i > m_pending_notify_data_last}
  IN  /\ tpc = "dataFirst"
      /\ IF unread = {}
           THEN tpc' = "dataEnd" /\ UNCHANGED entry
           ELSE tpc' = "dataSend" /\ entry' = Least(unread)
      /\ UNCHANGED <<queues, conn, flags, npc, history>>

(* What the server can read of a record: nothing without a connection, and *)
(* nothing over one whose login has not primed the crypto channel.         *)
TransmitData(i) == wire' = IF m_mgconn /\ loggedIn THEN wire \cup {i} ELSE wire

\* Mutant: a record is marked read when it has been sent, as a text is.
DataSendMarks ==
  /\ tpc = "dataSend"
  /\ TransmitData(entry)
  /\ data' = data \ {entry}
  /\ tpc'  = "dataLast"
  /\ UNCHANGED <<text, textNext, dataNext, typeMutex, conn, flags, npc, entry,
                 got, textSent>>

DataSend ==
  /\ tpc = "dataSend"
  /\ TransmitData(entry)
  /\ tpc'  = "dataLast"
  /\ UNCHANGED <<queues, conn, flags, npc, entry, got, textSent>>

\* Mutant: a call that reaches a limit withdraws the flag.
DataLastWithdraws ==
  /\ tpc = "dataLast"
  /\ m_pending_notify_data_last' \in
       {entry} \cup IF entry \in data THEN {} ELSE Garbage
  /\ tpc' \in {"dataFirst", "idle"}
  /\ m_pending_notify_data' = (m_pending_notify_data /\ tpc' = "dataFirst")
  /\ UNCHANGED <<queues, conn, npc, entry, history, m_pending_notify_text,
                 m_pending_notify_data_retransmit>>

(* m_pending_notify_data_last = e->m_id, after which the limits on time,   *)
(* number and size may end the call.  The acknowledgement may have deleted *)
(* the entry by now.                                                       *)
DataLast ==
  /\ tpc = "dataLast"
  /\ m_pending_notify_data_last' \in
       {entry} \cup IF entry \in data THEN {} ELSE Garbage
  /\ tpc' \in {"dataFirst", "idle"}
  /\ UNCHANGED <<queues, conn, npc, entry, history, m_pending_notify_text,
                 m_pending_notify_data, m_pending_notify_data_retransmit>>

(* No more records: the flag is withdrawn after the queue was looked at.   *)
DataEnd ==
  /\ tpc = "dataEnd"
  /\ m_pending_notify_data' = FALSE
  /\ m_pending_notify_data_retransmit' =
       IF m_pending_notify_data_last # 0 THEN RetransmitDelay
       ELSE m_pending_notify_data_retransmit
  /\ tpc' = "idle"
  /\ UNCHANGED <<queues, conn, npc, entry, history, m_pending_notify_text,
                 m_pending_notify_data_last>>

-----------------------------------------------------------------------------
(* Disconnect and Reconnect in the events task: a login timed out, or the *)
(* network was reconfigured or stopped.  m_mgconn_mutex keeps those of the *)
(* mongoose task away, not the end of a login: the connection goes, ...    *)
Disconnect ==
  /\ tpc = "idle" /\ cpc # "closing" /\ (m_mgconn \/ connected)
  /\ m_mgconn' = FALSE /\ loggedIn' = FALSE
  /\ abandoned' = (abandoned \/ m_mgconn)
  /\ tpc' = "disconnect"
  /\ UNCHANGED <<queues, connected, flags, npc, entry, cpc, history>>

(* ... then the metric.                                                    *)
Disconnected ==
  /\ tpc = "disconnect"
  /\ connected' = FALSE
  /\ tpc' = "idle"
  /\ UNCHANGED <<queues, m_mgconn, loggedIn, abandoned, flags, npc, entry, cpc, history>>

(* Connect, called by Ticker1 before the part above, or after Disconnect.  *)
Connect ==
  /\ tpc = "idle" /\ cpc # "closing" /\ ~m_mgconn
  /\ m_mgconn' = TRUE
  /\ wire' = {}
  /\ UNCHANGED <<queues, connected, loggedIn, abandoned, flags, npc, ticker, cpc,
                 got, textSent>>

\* Mutant: a new login goes on behind the last record sent before.
LoginKeepsLast ==
  /\ cpc = "idle" /\ m_mgconn /\ ~loggedIn
  /\ loggedIn' = TRUE
  /\ m_pending_notify_text' = TRUE
  /\ m_pending_notify_data' = TRUE
  /\ m_pending_notify_data_retransmit' = 0
  /\ cpc' = "login"
  /\ UNCHANGED <<queues, connected, m_mgconn, abandoned, npc, ticker, history,
                 m_pending_notify_data_last>>

(* ProcessServerMsg: the server's answer to the login is good; the crypto  *)
(* channel is primed and the flags are set, ...                            *)
Login ==
  /\ cpc = "idle" /\ m_mgconn /\ ~loggedIn
  /\ loggedIn' = TRUE
  /\ m_pending_notify_text' = TRUE
  /\ m_pending_notify_data' = TRUE
  /\ m_pending_notify_data_last' = 0
  /\ m_pending_notify_data_retransmit' = 0
  /\ cpc' = "login"
  /\ UNCHANGED <<queues, connected, m_mgconn, abandoned, npc, ticker, history>>

(* ... and the metric, whatever has become of the connection meanwhile.    *)
LoginDone ==
  /\ cpc = "login"
  /\ connected' = TRUE
  /\ cpc' = "idle"
  /\ UNCHANGED <<queues, m_mgconn, loggedIn, abandoned, flags, npc, ticker, history>>

(* Reconnect in the mongoose task, on a bad message or on MG_EV_CLOSE, be  *)
(* it of the current connection or of one given up: the current one is     *)
(* given up, and then the metric.  Others given up may be left to close.   *)
Close ==
  /\ cpc = "idle" /\ tpc # "disconnect" /\ (m_mgconn \/ abandoned)
  /\ m_mgconn' = FALSE /\ loggedIn' = FALSE
  /\ abandoned' \in BOOLEAN
  /\ cpc' = "closing"
  /\ UNCHANGED <<queues, connected, flags, npc, ticker, history>>

CloseDone ==
  /\ cpc = "closing"
  /\ connected' = FALSE
  /\ cpc' = "idle"
  /\ UNCHANGED <<queues, m_mgconn, loggedIn, abandoned, flags, npc, ticker, history>>

(* The server stores a record it was sent; TCP may deliver it before or    *)
(* after the connection is given up, or not at all.                        *)
ServerStores(i) ==
  /\ i \in wire \ got
  /\ got' = got \cup {i}
  /\ UNCHANGED <<queues, conn, flags, npc, ticker, wire, textSent>>

(* HandleNotifyDataAck: the server acknowledges a record it has stored.    *)
HandleNotifyDataAck(i) ==
  /\ cpc = "idle" /\ m_mgconn
  /\ i \in got \cap wire \cap data
  /\ data' = data \ {i}
  /\ UNCHANGED <<text, textNext, dataNext, typeMutex, conn, flags, npc, ticker, history>>

Notifier == \/ RaiseText \/ SeeDisconnected \/ LeaveQueued
            \/ SeeConnected \/ SendNow \/ RaiseData
Ticker1  == \/ TickStart
            \/ TextStart \/ TextFirst \/ TextSend \/ TextMark
            \/ DataStart \/ DataFirst \/ DataSend \/ DataLast \/ DataEnd
Network  == \/ Disconnect \/ Disconnected \/ Connect
            \/ Login \/ LoginDone \/ Close \/ CloseDone
            \/ \E i \in DataIds : ServerStores(i) \/ HandleNotifyDataAck(i)

V2Next == Notifier \/ Ticker1 \/ Network

(* ticker.1 keeps coming and every task finishes what it has begun.        *)
(* Nothing makes the server answer or the network come back.               *)
V2Fairness ==
  /\ WF_v2vars(Ticker1)
  /\ WF_v2vars(SeeDisconnected \/ LeaveQueued \/ SeeConnected \/ SendNow)
  /\ WF_v2vars(LoginDone \/ CloseDone) /\ WF_v2vars(Disconnected)

V2Spec == V2Init /\ [][V2Next]_v2vars /\ V2Fairness

-----------------------------------------------------------------------------
(* Every variable has its type: the countdown to a retransmission stays    *)
(* between 0 and its start, the last id is one that was ever possible.     *)
V2TypeOK ==
  /\ text \subseteq TextIds /\ textNext \in 1..(MaxText + 1)
  /\ data \subseteq DataIds /\ dataNext \in 1..(MaxData + 1)
  /\ typeMutex \in BOOLEAN /\ connected \in BOOLEAN /\ m_mgconn \in BOOLEAN
  /\ loggedIn \in BOOLEAN /\ abandoned \in BOOLEAN
  /\ m_pending_notify_text \in BOOLEAN /\ m_pending_notify_data \in BOOLEAN
  /\ m_pending_notify_data_last \in DataIds \cup Garbage
  /\ m_pending_notify_data_retransmit \in 0..RetransmitDelay
  /\ npc \in {"idle", "check", "leave", "send"} /\ cpc \in {"idle", "login", "closing"}
  /\ tpc \in {"idle", "disconnect", "text", "textFirst", "textSend", "textMark",
              "data", "dataFirst", "dataSend", "dataLast", "dataEnd"}
  /\ entry \in 0..(MaxText + MaxData)
  /\ wire \subseteq DataIds /\ got \subseteq DataIds
  /\ textSent \in [TextIds -> Nat]

(* A data record is kept until the server has stored it, through any       *)
(* number of connections and whenever they break.                          *)
DataKept == \A i \in 1..(dataNext - 1) : i \in data \cup got

(* A text is sent at most once, though the notifier that raises it and the *)
(* ticker that empties the queue both send: the ticker cannot find a text  *)
(* whose callback is still running.                                        *)
TextAtMostOnce == \A i \in TextIds : textSent[i] <= 1

(* With no call at work a text still queued is flagged for the next tick,  *)
(* whatever the connection.  It breaks if the flag is withdrawn after the  *)
(* queue is searched, as it is for data.                                   *)
TextFlagged ==
  npc = "idle" /\ tpc \in {"idle", "disconnect", "text", "data"} /\ text # {}
    => m_pending_notify_text

(* The channel is connected and no connection given up is still to close.  *)
(* Until that is closed the metric may belong to a login that came to its  *)
(* end too late: the ticker then passes over records and sends nothing.    *)
Settled == connected /\ m_mgconn /\ ~abandoned

(* Records passed over as sent have been sent over this connection: a new  *)
(* login starts again from the first unacknowledged record, also of those  *)
(* that were passed over while the channel was falsely connected.          *)
NoneSkipped ==
  Settled /\ m_pending_notify_data_last \in DataIds =>
    \A i \in data : i <= m_pending_notify_data_last => i \in wire

(* Nothing that is queued is forgotten: a text is flagged, and a record    *)
(* that is passed over has been sent, once abandoned connections are gone. *)
NothingForgotten == TextFlagged /\ NoneSkipped

(* What is used of the notification framework is the board it promises its *)
(* readers (NotifyBoard), once this one has joined: whatever the ticker and *)
(* the network take off the queues, each step takes off at most one item,  *)
(* and nothing comes back under an id that has been used.                  *)
Queued == {<<"text", i, "v2">> : i \in text} \cup {<<"data", i, "v2">> : i \in data}

Channel == INSTANCE NotifyBoard WITH
  Types <- {"text", "data"}, Readers <- {"v2"}, readers <- {"v2"}, board <- Queued,
  next <- [t \in {"text", "data"} |-> IF t = "text" THEN textNext ELSE dataNext]

ChannelReadsBoard == [][Channel!Next]_(Channel!vars)

(* A record that is flagged, above the last one sent and not overtaken by  *)
(* a search that just ended, is sent unless the connection is lost.        *)
FlaggedDataSent ==
  \A i \in DataIds :
    (/\ Settled /\ m_pending_notify_data
     /\ i \in data /\ i > m_pending_notify_data_last
     /\ tpc # "dataEnd")
      ~> (i \in wire \/ ~Settled)

(* "If a channel is temporarily down (e.g. due to a connection loss), the  *)
(* notifications for that channel will be kept in memory until the channel *)
(* is available again": a text leaves the queue only when it was sent.     *)
TextKeptUntilSent ==
  \A i \in 1..(textNext - 1) : i \in text \/ textSent[i] > 0

(* "if we have sent something, check for retransmissions in 10 seconds":   *)
(* between two ticks, records sent over the connection and not             *)
(* acknowledged are still going to be looked at.                           *)
RetransmissionScheduled ==
  Settled /\ tpc = "idle" /\ data \cap wire # {} =>
    m_pending_notify_data \/ m_pending_notify_data_retransmit > 0

(* "We just flag it for later transmission": between two ticks, a record   *)
(* not yet sent is still going to be looked at.                            *)
NewDataFlagged ==
  Settled /\ tpc = "idle" /\ data \ wire # {} =>
    m_pending_notify_data \/ m_pending_notify_data_retransmit > 0
=============================================================================
