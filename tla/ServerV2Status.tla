--------------------------- MODULE ServerV2Status ---------------------------
(***************************************************************************)
(* How the server v2 channel decides when a status message is sent again,  *)
(* components/ovms_server_v2/src/ovms_server_v2.cpp, on the modified bits  *)
(* of main/ovms_metrics.cpp.                                               *)
(*                                                                         *)
(* A metric keeps one modified bit per modifier; the whole channel is one  *)
(* modifier.  A status message names the metrics it shows, fetches and     *)
(* clears their bits, and is not sent when none was set.  A listener,      *)
(* MetricModified, flags the messages a change should be sent in at once;  *)
(* Ticker1, in the events task, looks at the flags once a second.  Setters *)
(* of metrics run in any task.  Transmit drops a message when there is no  *)
(* connection, which the ticker does not learn: the metric that says the   *)
(* channel is connected is set at the end of a login and withdrawn when    *)
(* the connection is given up, by the mongoose task or the events task.    *)
(*                                                                         *)
(* The lists of the messages are those of ServerV2Messages; a run takes    *)
(* some of the messages and some of the metrics.  The TPMS messages "Y"    *)
(* and "W" are composed as one.                                            *)
(***************************************************************************)
EXTENDS Integers, Sequences, ServerV2Messages

CONSTANTS
  Msgs,        \* the messages of this instance
  Metrics,     \* the metrics that change
  MaxChanges,  \* bound on the changes of each metric
  MaxPeers     \* bound on the peers (apps) the server reports

ASSUME StatusAssumption ==
  /\ Msgs \subseteq Messages
  /\ MaxChanges \in Nat /\ MaxPeers \in Nat

Tests(msg) == Tested[msg] \cap Metrics
Shows(msg) == Shown[msg] \cap Metrics
Asap(msg)  == Important[msg] \cap Metrics

(* The calls of TransmitMsg... Ticker1 makes in each of its parts.         *)
Calls(part) ==
  SelectSeq(CASE part = "periodic" -> Periodic
              [] part = "stream"   -> <<"gps">>
              [] OTHER             -> Flagged,
            LAMBDA msg : msg \in Msgs)

ASSUME CallsAreOfMsgs ==
  \A part \in {"periodic", "stream", "flagged"} : Calls(part) \in Seq(Msgs)

VARIABLES
  value,      \* value[m]: which change of metric m is current
  m_modified, \* metrics whose bit of this modifier is set
  set,        \* set[m]: the setter of m: "idle", "written", "marked"
  m_now,      \* messages flagged, m_now_stat and the like
  peers,      \* the metric ms_s_v2_peers
  m_peers,
  m_lasttx,   \* 0, or 1 for any later time
  connected,  \* the metric ms_s_v2_connected
  m_mgconn,   \* m_mgconn is not NULL
  loggedIn,   \* the server has accepted the login of m_mgconn
  m_mgconn_mutex,  \* the task in Disconnect or Reconnect, or "free"
  mpc,        \* mongoose task: "idle", "login", "peers"
  tpc,        \* ticker: "idle", "periodic", "stream", "flagged"
  pos,        \* the call it is at, an index of Calls(tpc)
  step,       \* within a message: "start", "test", "compose"
  always,     \* the parameter of the call
  composed,   \* history: composed[msg][m]: change of m in the last msg sent
  dropped,    \* history: messages the last of which was dropped
  asked,      \* history: last change of m MetricModified let through
  owed        \* history: no whole transmission has begun since a peer connected

metric  == <<value, m_modified, set>>
link    == <<connected, m_mgconn, loggedIn, m_mgconn_mutex, mpc>>
ticker  == <<tpc, pos, step, always>>
sent    == <<composed, dropped>>
vars    == <<metric, m_now, peers, m_peers, m_lasttx, link, ticker,
             sent, asked, owed>>

Init ==
  /\ value = [m \in Metrics |-> 0] /\ m_modified = {}
  /\ set = [m \in Metrics |-> "idle"]
  /\ m_now = {} /\ peers = 0 /\ m_peers = 0 /\ m_lasttx = 0
  /\ connected = FALSE /\ m_mgconn = FALSE /\ loggedIn = FALSE
  /\ m_mgconn_mutex = "free" /\ mpc = "idle"
  /\ tpc = "idle" /\ pos = 1 /\ step = "start" /\ always = FALSE
  /\ composed = [msg \in Msgs |-> [m \in Metrics |-> 0]]
  /\ dropped = {} /\ asked = [m \in Metrics |-> 0]
  /\ owed = FALSE

-----------------------------------------------------------------------------
(* SetValue of a metric, a changed value: the value ...                    *)
SetValue(m) ==
  /\ set[m] = "idle" /\ value[m] < MaxChanges
  /\ value' = [value EXCEPT ![m] = @ + 1]
  /\ set' = [set EXCEPT ![m] = "written"]
  /\ UNCHANGED <<m_modified, m_now, peers, m_peers, m_lasttx, link, ticker,
                 sent, asked, owed>>

(* ... SetModified: the bits of all modifiers ...                          *)
SetModified(m) ==
  /\ set[m] = "written"
  /\ m_modified' = m_modified \cup {m}
  /\ set' = [set EXCEPT ![m] = "marked"]
  /\ UNCHANGED <<value, m_now, peers, m_peers, m_lasttx, link, ticker,
                 sent, asked, owed>>

(* ... and the listener MetricModified.                                    *)
MetricModified(m) ==
  /\ set[m] = "marked"
  /\ set' = [set EXCEPT ![m] = "idle"]
  /\ IF peers = 0
       THEN UNCHANGED <<m_now, asked>>
       ELSE /\ m_now' = m_now \cup {msg \in Msgs : m \in Asap(msg)}
            /\ asked' = [asked EXCEPT ![m] = value[m]]
  /\ UNCHANGED <<value, m_modified, peers, m_peers, m_lasttx, link, ticker,
                 sent, owed>>

-----------------------------------------------------------------------------
(* Ticker1, while connected: a periodic transmission when it is due (or    *)
(* m_lasttx was reset), else perhaps a streamed position; then the flags.  *)
TickStart ==
  /\ tpc = "idle" /\ connected /\ m_mgconn_mutex # "events"
  /\ tpc' \in IF m_lasttx = 0 THEN {"periodic"}
              ELSE {"periodic", "flagged"} \cup
                   IF m_peers # 0 THEN {"stream"} ELSE {}
  /\ owed' = (owed /\ m_lasttx # 0)
  /\ UNCHANGED <<metric, m_now, peers, m_peers, m_lasttx, link, pos, step,
                 always, sent, asked>>

Ended   == pos > Len(Calls(tpc))
Current == Calls(tpc)[pos]

(* The call of TransmitMsg for the message at pos; its first line takes    *)
(* the flag back.                                                          *)
Call ==
  LET msg == Current
  IN  /\ tpc # "idle" /\ step = "start" /\ ~Ended
      /\ tpc = "flagged" => msg \in m_now
      /\ always' = (tpc = "periodic" /\ (msg \in Always \/ m_lasttx = 0))
      /\ m_now' = m_now \ {msg}
      /\ step' = "test"
      /\ UNCHANGED <<metric, peers, m_peers, m_lasttx, link, tpc, pos,
                     sent, asked, owed>>

(* No call for a message without a flag, or with its condition false.      *)
Skip ==
  /\ step = "start"
  /\ \/ tpc = "flagged" /\ ~Ended /\ Current \notin m_now
     \/ tpc = "periodic" /\ ~Ended /\ Current \in Sometimes
  /\ pos' = pos + 1
  /\ UNCHANGED <<metric, m_now, peers, m_peers, m_lasttx, link, tpc, step,
                 always, sent, asked, owed>>

\* Mutant: one call takes the bits of every metric.
TestModifiedAll ==
  LET msg == Current
      go  == always \/ m_modified \cap Tests(msg) # {}
  IN  /\ step = "test"
      /\ m_modified' = {}
      /\ step' = IF go THEN "compose" ELSE "start"
      /\ always' = (go /\ always)
      /\ pos'  = IF go THEN pos ELSE pos + 1
      /\ UNCHANGED <<value, set, m_now, peers, m_peers, m_lasttx, link, tpc,
                     sent, asked, owed>>

(* IsModifiedAndClear of each metric, and the quick exit.                  *)
TestModified ==
  LET msg == Current
      go  == always \/ m_modified \cap Tests(msg) # {}
  IN  /\ step = "test"
      /\ m_modified' = m_modified \ Tests(msg)
      /\ step' = IF go THEN "compose" ELSE "start"
      /\ always' = (go /\ always)
      /\ pos'  = IF go THEN pos ELSE pos + 1
      /\ UNCHANGED <<value, set, m_now, peers, m_peers, m_lasttx, link, tpc,
                     sent, asked, owed>>

(* The message with the values of now, and Transmit, which waits for the   *)
(* mutex.  Without a connection it drops the message, and before the login *)
(* the server cannot read what it sends.                                   *)
Compose ==
  LET msg == Current
  IN  /\ step = "compose" /\ m_mgconn_mutex = "free"
      /\ IF m_mgconn /\ loggedIn
           THEN /\ composed' = [composed EXCEPT ![msg] =
                     [m \in Metrics |-> IF m \in Shows(msg) THEN value[m] ELSE @[m]]]
                /\ dropped' = dropped \ {msg}
           ELSE dropped' = dropped \cup {msg} /\ UNCHANGED composed
      /\ step' = "start" /\ always' = FALSE
      /\ pos'  = pos + 1
      /\ UNCHANGED <<metric, m_now, peers, m_peers, m_lasttx, link, tpc,
                     asked, owed>>

(* The last message: m_lasttx = now, then the flags; or the end.           *)
TickNext ==
  /\ tpc # "idle" /\ step = "start" /\ Ended
  /\ m_lasttx' = IF tpc = "periodic" THEN 1 ELSE m_lasttx
  /\ tpc' = IF tpc = "flagged" THEN "idle" ELSE "flagged"
  /\ pos' = 1
  /\ UNCHANGED <<metric, m_now, peers, m_peers, link, step, always,
                 sent, asked, owed>>

-----------------------------------------------------------------------------
(* The network.  Connect, in the events task.                              *)
Connect ==
  /\ tpc = "idle" /\ m_mgconn_mutex = "free" /\ ~m_mgconn
  /\ m_mgconn' = TRUE
  /\ UNCHANGED <<metric, m_now, peers, m_peers, m_lasttx, connected, loggedIn,
                 m_mgconn_mutex, mpc, ticker, sent, asked, owed>>

(* ProcessServerMsg: the server's answer to the login is good, ...         *)
Login ==
  /\ mpc = "idle" /\ m_mgconn /\ ~loggedIn
  /\ loggedIn' = TRUE /\ mpc' = "login"
  /\ UNCHANGED <<metric, m_now, peers, m_peers, m_lasttx, connected, m_mgconn,
                 m_mgconn_mutex, ticker, sent, asked, owed>>

(* ... and the metric, though the connection may be gone by now.           *)
LoginDone ==
  /\ mpc = "login"
  /\ connected' = TRUE /\ mpc' = "idle"
  /\ UNCHANGED <<metric, m_now, peers, m_peers, m_lasttx, m_mgconn, loggedIn,
                 m_mgconn_mutex, ticker, sent, asked, owed>>

(* Disconnect and Reconnect, in the events task or the mongoose task: the  *)
(* connection goes, ...                                                    *)
Close(task) ==
  /\ m_mgconn_mutex = "free" /\ (m_mgconn \/ connected)
  /\ task = "events" => tpc = "idle"
  /\ task = "mongoose" => mpc = "idle"
  /\ m_mgconn' = FALSE /\ loggedIn' = FALSE
  /\ m_mgconn_mutex' = task
  /\ UNCHANGED <<metric, m_now, peers, m_peers, m_lasttx, connected, mpc, ticker,
                 sent, asked, owed>>

(* ... then the metrics.                                                   *)
CloseDone ==
  /\ m_mgconn_mutex # "free"
  /\ m_mgconn_mutex' = "free"
  /\ connected' = FALSE /\ peers' = 0
  /\ UNCHANGED <<metric, m_now, m_peers, m_lasttx, m_mgconn, loggedIn, mpc, ticker,
                 sent, asked, owed>>

(* ProcessServerMsg, case 'Z': a message of the server on its peers ...    *)
PeersRead ==
  /\ mpc = "idle" /\ m_mgconn /\ loggedIn /\ m_mgconn_mutex # "mongoose"
  /\ mpc' = "peers"
  /\ UNCHANGED <<metric, m_now, peers, m_peers, m_lasttx, connected, m_mgconn,
                 loggedIn, m_mgconn_mutex, ticker, sent, asked, owed>>

(* ... of which there are n.                                               *)
PeersMsg(n) ==
  /\ mpc = "peers" /\ mpc' = "idle"
  /\ peers' = n
  /\ m_lasttx' = IF n > m_peers THEN 0 ELSE m_lasttx
  /\ m_peers' = n
  /\ owed' = (n > 0 /\ (owed \/ n > peers))
  /\ UNCHANGED <<metric, m_now, connected, m_mgconn, loggedIn, m_mgconn_mutex, ticker,
                 sent, asked>>

Setter  == \E m \in Metrics : SetValue(m) \/ SetModified(m) \/ MetricModified(m)
Ticker1 == TickStart \/ Call \/ Skip \/ TestModified \/ Compose \/ TickNext
Network == \/ Connect \/ Login \/ LoginDone
           \/ (\E task \in {"events", "mongoose"} : Close(task)) \/ CloseDone
           \/ PeersRead \/ \E n \in 0..MaxPeers : PeersMsg(n)

Next == Setter \/ Ticker1 \/ Network

Spec == Init /\ [][Next]_vars

-----------------------------------------------------------------------------
(* Every variable has its type; a call at work is at a message of the tick.*)
TypeOK ==
  /\ value \in [Metrics -> 0..MaxChanges] /\ m_modified \subseteq Metrics
  /\ set \in [Metrics -> {"idle", "written", "marked"}]
  /\ m_now \subseteq Msgs /\ peers \in 0..MaxPeers /\ m_peers \in 0..MaxPeers
  /\ m_lasttx \in 0..1 /\ connected \in BOOLEAN /\ m_mgconn \in BOOLEAN
  /\ loggedIn \in BOOLEAN /\ m_mgconn_mutex \in {"free", "events", "mongoose"}
  /\ mpc \in {"idle", "login", "peers"} /\ dropped \subseteq Msgs
  /\ tpc \in {"idle", "periodic", "stream", "flagged"}
  /\ pos \in 1..(Len(Calls(tpc)) + 1) /\ step \in {"start", "test", "compose"}
  /\ (step # "start" => tpc # "idle" /\ ~Ended) /\ always \in BOOLEAN
  /\ composed \in [Msgs -> [Metrics -> 0..MaxChanges]]
  /\ asked \in [Metrics -> 0..MaxChanges] /\ owed \in BOOLEAN

(* Metrics whose bit only one message fetches.                             *)
Alone == {m \in Metrics : \A x, y \in Messages :
            m \in Tested[x] /\ m \in Tested[y] => x = y}

(* The message that shows m is at work on it.                              *)
AtWork(msg) == step # "start" /\ Current = msg

(* No change is lost between the fetch of the bits and the composition: a  *)
(* message that shows an old value finds the bit set, now or as soon as    *)
(* the setter has finished, unless it is just being composed or the last   *)
(* one was composed with no connection to send it over.                    *)
ChangeKeepsBit ==
  \A msg \in Msgs \ dropped : \A m \in Tests(msg) \cap Alone :
    composed[msg][m] # value[m] =>
      m \in m_modified \/ set[m] = "written" \/ (AtWork(msg) /\ step = "compose")

(* Each change that is to go out at once in a message has gone out in it   *)
(* or still has the message flagged, whenever no call is at work: for the  *)
(* metrics one message shows, and unless the message was dropped.          *)
AskedComposed(S) ==
  \A msg \in Msgs \ dropped : \A m \in Asap(msg) \cap S :
    ~AtWork(msg) => composed[msg][m] >= asked[m] \/ msg \in m_now

ChangesSent == AskedComposed(Alone)

(* The same for every metric: "A metric has been changed: if peers are     *)
(* connected, check for important changes that should be transmitted ASAP".*)
AllChangesSent == AskedComposed(Metrics)

(* "A peer has connected, so force a transmission of status messages":     *)
(* between two ticks, if none has begun since then it is still forced.     *)
PeerForced == tpc = "idle" /\ owed => m_lasttx = 0
=============================================================================
