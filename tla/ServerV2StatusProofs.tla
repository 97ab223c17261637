------------------------ MODULE ServerV2StatusProofs -------------------------
(***************************************************************************)
(* The status messages of the v2 channel, for any of the messages and any  *)
(* metrics, changes and peers.                                             *)
(*                                                                         *)
(* A change that is to go out at once may find its message without a bit   *)
(* to send it for: the flag is taken back before the bits are fetched, and *)
(* the setter runs in between.  So the invariant says how far the message  *)
(* last sent is behind the value, at each point of the setter.  It says    *)
(* nothing of a message the last of which was dropped for want of a        *)
(* connection, until the next one is sent.                                 *)
(***************************************************************************)
EXTENDS ServerV2Status, TLAPS

TypeInv ==
  /\ value \in [Metrics -> Nat] /\ asked \in [Metrics -> Nat]
  /\ set \in [Metrics -> {"idle", "written", "marked"}]
  /\ composed \in [Msgs -> [Metrics -> Nat]]
  /\ tpc \in {"idle", "periodic", "stream", "flagged"} /\ pos \in Nat \ {0}
  /\ step \in {"start", "test", "compose"}

\* A message at work is one of the instance.
WorkInv == step # "start" => tpc # "idle" /\ pos <= Len(Calls(tpc))

\* The last message sent shows m as it is, or as before the setter that runs.
UpToDate(msg, m) ==
  \/ composed[msg][m] = value[m]
  \/ set[m] = "written" /\ composed[msg][m] + 1 = value[m]

Kept(msg, m) ==
  \/ m \in m_modified \/ (AtWork(msg) /\ step = "compose")
  \/ msg \in dropped \/ UpToDate(msg, m)

KeptInv == \A msg \in Msgs : \A m \in Tests(msg) \cap Alone : Kept(msg, m)

\* What has been asked for is not ahead of the value.
AskedInv ==
  \A m \in Metrics : /\ asked[m] <= value[m]
                     /\ set[m] = "written" => asked[m] < value[m]

IInv == TypeInv /\ WorkInv /\ KeptInv /\ AskedInv /\ ChangesSent

-----------------------------------------------------------------------------
LEMMA InitIInv == Init => IInv
<1> SUFFICES ASSUME Init PROVE IInv
  OBVIOUS
<1>1. TypeInv /\ WorkInv /\ AskedInv
  BY DEF Init, TypeInv, WorkInv, AskedInv
<1>2. KeptInv
  BY DEF Init, KeptInv, Kept, UpToDate, Tests
<1>3. ChangesSent
  BY DEF Init, ChangesSent, AskedComposed, Asap
<1> QED
  BY <1>1, <1>2, <1>3 DEF IInv

\* The message a call is at.
LEMMA CurrentIsMsg ==
  ASSUME TypeInv, tpc # "idle", pos <= Len(Calls(tpc))
  PROVE  Current \in Msgs /\ Current \in Messages
<1>1. Calls(tpc) \in Seq(Msgs)
  BY CallsAreOfMsgs DEF TypeInv
<1>2. pos \in 1 .. Len(Calls(tpc))
  BY <1>1 DEF TypeInv
<1> QED
  BY <1>1, <1>2, StatusAssumption DEF Current

\* An important change flags a message that tests its metric.
LEMMA AsapTests == \A msg \in Msgs : Asap(msg) \subseteq Tests(msg)
BY StatusAssumption, FlagsAreTested DEF Asap, Tests

LEMMA TestsMetrics == \A msg : Tests(msg) \subseteq Metrics /\ Asap(msg) \subseteq Metrics
BY DEF Tests, Asap

\* The bit of a metric that is alone is fetched by one message only.
LEMMA OneTests ==
  ASSUME NEW x \in Msgs, NEW y \in Msgs, NEW m \in Alone,
         m \in Tests(x), m \in Tests(y)
  PROVE  x = y
BY StatusAssumption DEF Alone, Tests

\* Where the ticker is does not change.
LEMMA SameWork ==
  ASSUME UNCHANGED <<tpc, pos, step>>
  PROVE  /\ WorkInv' = WorkInv
         /\ \A msg : AtWork(msg)' = AtWork(msg)
BY DEF WorkInv, AtWork, Current

-----------------------------------------------------------------------------
(***************************************************************************)
(* The setters                                                             *)
(***************************************************************************)
LEMMA SetValueIInv ==
  ASSUME IInv, NEW m \in Metrics, SetValue(m)
  PROVE  IInv'
<1> USE DEF IInv
<1>1. /\ set[m] = "idle" /\ value' = [value EXCEPT ![m] = @ + 1]
      /\ set' = [set EXCEPT ![m] = "written"]
      /\ UNCHANGED <<m_modified, m_now, tpc, pos, step, composed, dropped, asked>>
  BY DEF SetValue, ticker, sent
<1>2. /\ value'[m] = value[m] + 1 /\ set'[m] = "written"
      /\ \A n \in Metrics : n # m => value'[n] = value[n] /\ set'[n] = set[n]
  BY <1>1 DEF TypeInv
<1>3. TypeInv' /\ WorkInv'
  BY <1>1, SameWork DEF TypeInv
<1>4. AskedInv'
  BY <1>1, <1>2 DEF AskedInv, TypeInv
<1>5. KeptInv'
  <2> SUFFICES ASSUME NEW msg \in Msgs, NEW n \in Tests(msg) \cap Alone
               PROVE  Kept(msg, n)'
    BY DEF KeptInv, Tests, Alone
  <2>1. Kept(msg, n) /\ n \in Metrics
    BY TestsMetrics DEF KeptInv
  <2> QED
    BY <1>1, <1>2, <2>1, SameWork DEF Kept, UpToDate
<1>6. ChangesSent'
  BY <1>1, SameWork DEF ChangesSent, AskedComposed
<1> QED
  BY <1>3, <1>4, <1>5, <1>6

LEMMA SetModifiedIInv ==
  ASSUME IInv, NEW m \in Metrics, SetModified(m)
  PROVE  IInv'
<1> USE DEF IInv
<1>1. /\ set[m] = "written" /\ m_modified' = m_modified \cup {m}
      /\ set' = [set EXCEPT ![m] = "marked"]
      /\ UNCHANGED <<value, m_now, tpc, pos, step, composed, dropped, asked>>
  BY DEF SetModified, ticker, sent
<1>2. /\ set'[m] = "marked" /\ \A n \in Metrics : n # m => set'[n] = set[n]
  BY <1>1 DEF TypeInv
<1>3. TypeInv' /\ WorkInv'
  BY <1>1, SameWork DEF TypeInv
<1>4. AskedInv'
  BY <1>1, <1>2 DEF AskedInv
<1>5. KeptInv'
  <2> SUFFICES ASSUME NEW msg \in Msgs, NEW n \in Tests(msg) \cap Alone
               PROVE  Kept(msg, n)'
    BY DEF KeptInv, Tests, Alone
  <2>1. Kept(msg, n) /\ n \in Metrics
    BY TestsMetrics DEF KeptInv
  <2> QED
    BY <1>1, <1>2, <2>1, SameWork DEF Kept, UpToDate
<1>6. ChangesSent'
  BY <1>1, SameWork DEF ChangesSent, AskedComposed
<1> QED
  BY <1>3, <1>4, <1>5, <1>6

LEMMA MetricModifiedIInv ==
  ASSUME IInv, NEW m \in Metrics, MetricModified(m)
  PROVE  IInv'
<1> USE DEF IInv
<1>1. /\ set[m] = "marked" /\ set' = [set EXCEPT ![m] = "idle"]
      /\ \/ UNCHANGED <<m_now, asked>>
         \/ /\ m_now' = m_now \cup {msg \in Msgs : m \in Asap(msg)}
            /\ asked' = [asked EXCEPT ![m] = value[m]]
      /\ UNCHANGED <<value, m_modified, tpc, pos, step, composed, dropped>>
  BY DEF MetricModified, ticker, sent
<1>2. /\ set'[m] = "idle" /\ asked'[m] \in {asked[m], value[m]}
      /\ \A n \in Metrics : n # m => set'[n] = set[n] /\ asked'[n] = asked[n]
  BY <1>1 DEF TypeInv
<1>3. TypeInv' /\ WorkInv'
  BY <1>1, SameWork DEF TypeInv
<1>4. AskedInv'
  BY <1>1, <1>2 DEF AskedInv, TypeInv
<1>5. KeptInv'
  <2> SUFFICES ASSUME NEW msg \in Msgs, NEW n \in Tests(msg) \cap Alone
               PROVE  Kept(msg, n)'
    BY DEF KeptInv, Tests, Alone
  <2>1. Kept(msg, n) /\ n \in Metrics
    BY TestsMetrics DEF KeptInv
  <2> QED
    BY <1>1, <1>2, <2>1, SameWork DEF Kept, UpToDate
<1>6. ChangesSent'
  <2> SUFFICES ASSUME NEW msg \in Msgs \ dropped, NEW n \in Asap(msg) \cap Alone,
                      ~AtWork(msg)
               PROVE  composed[msg][n] >= asked'[n] \/ msg \in m_now'
    BY <1>1, SameWork DEF ChangesSent, AskedComposed, Asap, Alone
  <2>1. composed[msg][n] >= asked[n] \/ msg \in m_now
    BY DEF ChangesSent, AskedComposed
  <2>2. n \in Metrics
    BY TestsMetrics
  <2> QED
    BY <1>1, <1>2, <2>1, <2>2
<1> QED
  BY <1>3, <1>4, <1>5, <1>6

-----------------------------------------------------------------------------
(***************************************************************************)
(* The ticker                                                              *)
(***************************************************************************)
\* Between two messages nothing is at work.
LEMMA BetweenIInv ==
  ASSUME IInv, step = "start", step' = "start",
         tpc' \in {"idle", "periodic", "stream", "flagged"}, pos' \in Nat \ {0},
         UNCHANGED <<value, m_modified, set, m_now, composed, dropped, asked>>
  PROVE  IInv'
<1> USE DEF IInv
<1>1. TypeInv' /\ WorkInv' /\ AskedInv'
  BY DEF TypeInv, WorkInv, AskedInv
<1>2. \A msg : ~AtWork(msg) /\ ~AtWork(msg)'
  BY DEF AtWork
<1>3. KeptInv' /\ ChangesSent'
  BY <1>2 DEF KeptInv, Kept, UpToDate, ChangesSent, AskedComposed, Asap, Alone, Tests
<1> QED
  BY <1>1, <1>3

LEMMA CallIInv == IInv /\ Call => IInv'
<1> SUFFICES ASSUME IInv, Call PROVE IInv'
  OBVIOUS
<1> USE DEF IInv
<1>1. /\ tpc # "idle" /\ step = "start" /\ pos <= Len(Calls(tpc))
      /\ m_now' = m_now \ {Current} /\ step' = "test"
      /\ UNCHANGED <<value, m_modified, set, tpc, pos, composed, dropped, asked>>
  <2>1. Calls(tpc) \in Seq(Msgs) \/ tpc = "idle"
    BY CallsAreOfMsgs DEF TypeInv
  <2> QED
    BY <2>1 DEF Call, Ended, metric, sent, TypeInv
<1>2. TypeInv' /\ WorkInv' /\ AskedInv'
  BY <1>1 DEF TypeInv, WorkInv, AskedInv
<1>3. \A msg : ~AtWork(msg) /\ (AtWork(msg)' <=> msg = Current)
  BY <1>1 DEF AtWork, Current
<1>4. KeptInv'
  BY <1>1, <1>3 DEF KeptInv, Kept, UpToDate, Tests, Alone
<1>5. ChangesSent'
  BY <1>1, <1>3 DEF ChangesSent, AskedComposed, Asap, Alone
<1> QED
  BY <1>2, <1>4, <1>5

LEMMA TestModifiedIInv == IInv /\ TestModified => IInv'
<1> SUFFICES ASSUME IInv, TestModified PROVE IInv'
  OBVIOUS
<1> USE DEF IInv
<1>1. PICK msg : msg = Current
  OBVIOUS
<1>2. /\ step = "test" /\ m_modified' = m_modified \ Tests(msg)
      /\ \/ step' = "compose" /\ pos' = pos
         \/ /\ step' = "start" /\ pos' = pos + 1
            /\ m_modified \cap Tests(msg) = {}
      /\ UNCHANGED <<value, set, m_now, tpc, composed, dropped, asked>>
  BY <1>1 DEF TestModified, sent
<1>3. msg \in Msgs
  BY <1>1, <1>2, CurrentIsMsg DEF WorkInv
<1>4. TypeInv' /\ WorkInv' /\ AskedInv'
  BY <1>2 DEF TypeInv, WorkInv, AskedInv
<1>5. \A x : AtWork(x) <=> x = msg
  BY <1>1, <1>2 DEF AtWork
<1>6. step' = "compose" => \A x : AtWork(x)' <=> x = msg
  BY <1>1, <1>2 DEF AtWork, Current
<1>7. step' = "start" => \A x : ~AtWork(x)'
  BY DEF AtWork
<1>8. KeptInv'
  <2> SUFFICES ASSUME NEW x \in Msgs, NEW m \in Tests(x) \cap Alone
               PROVE  Kept(x, m)'
    BY DEF KeptInv, Tests, Alone
  <2>1. m \in m_modified \/ x \in dropped \/ UpToDate(x, m)
    BY <1>2 DEF KeptInv, Kept
  <2>2. UpToDate(x, m)' = UpToDate(x, m)
    BY <1>2 DEF UpToDate
  <2>3. CASE x = msg
    BY <1>2, <1>6, <2>1, <2>2, <2>3 DEF Kept
  <2>4. CASE x # msg
    <3>1. m \notin Tests(msg)
      BY <1>3, <2>4, OneTests
    <3> QED
      BY <1>2, <2>1, <2>2, <3>1 DEF Kept
  <2> QED
    BY <2>3, <2>4
<1>9. ChangesSent'
  <2> SUFFICES ASSUME NEW x \in Msgs \ dropped, NEW m \in Asap(x) \cap Alone, ~AtWork(x)'
               PROVE  composed[x][m] >= asked[m] \/ x \in m_now
    BY <1>2 DEF ChangesSent, AskedComposed, Asap, Alone
  <2>1. CASE x = msg
    <3>1. m \in Tests(x) /\ m \in Metrics
      BY AsapTests, TestsMetrics
    <3>2. m \notin m_modified
      BY <1>2, <1>6, <2>1, <3>1
    <3>3. UpToDate(x, m)
      BY <1>2, <3>1, <3>2 DEF KeptInv, Kept
    <3>4. composed[x][m] \in Nat /\ value[m] \in Nat /\ asked[m] \in Nat
      BY <3>1 DEF TypeInv
    <3> QED
      BY <3>1, <3>3, <3>4 DEF UpToDate, AskedInv
  <2>2. CASE x # msg
    BY <1>5, <2>2 DEF ChangesSent, AskedComposed
  <2> QED
    BY <2>1, <2>2
<1> QED
  BY <1>4, <1>8, <1>9

LEMMA ComposeIInv == IInv /\ Compose => IInv'
<1> SUFFICES ASSUME IInv, Compose PROVE IInv'
  OBVIOUS
<1> USE DEF IInv
<1>1. PICK msg : msg = Current
  OBVIOUS
<1>2. /\ step = "compose" /\ step' = "start" /\ pos' = pos + 1
      /\ \/ /\ composed' = [composed EXCEPT ![msg] =
                 [m \in Metrics |-> IF m \in Shows(msg) THEN value[m] ELSE @[m]]]
            /\ dropped' = dropped \ {msg}
         \/ composed' = composed /\ dropped' = dropped \cup {msg}
      /\ UNCHANGED <<value, m_modified, set, m_now, tpc, asked>>
  BY <1>1 DEF Compose, metric
<1>3. msg \in Msgs /\ msg \in Messages
  BY <1>1, <1>2, CurrentIsMsg DEF WorkInv
<1>4. \A m \in Tests(msg) : m \in Shows(msg) /\ m \in Metrics
  BY <1>3 DEF Tests, Shows, Shown
<1>5. /\ msg \in dropped' \/ \A m \in Tests(msg) : composed'[msg][m] = value[m]
      /\ \A x \in Msgs : x # msg => composed'[x] = composed[x] /\ (x \in dropped' <=> x \in dropped)
      /\ composed' \in [Msgs -> [Metrics -> Nat]]
  BY <1>2, <1>3, <1>4 DEF TypeInv
<1>6. TypeInv' /\ WorkInv' /\ AskedInv'
  BY <1>2, <1>5 DEF TypeInv, WorkInv, AskedInv
<1>7. \A x : ~AtWork(x)' /\ (AtWork(x) <=> x = msg)
  BY <1>1, <1>2 DEF AtWork
<1>8. KeptInv'
  <2> SUFFICES ASSUME NEW x \in Msgs, NEW m \in Tests(x) \cap Alone
               PROVE  Kept(x, m)'
    BY DEF KeptInv, Tests, Alone
  <2> QED
    BY <1>2, <1>5, <1>7 DEF KeptInv, Kept, UpToDate
<1>9. ChangesSent'
  <2> SUFFICES ASSUME NEW x \in Msgs \ dropped', NEW m \in Asap(x) \cap Alone
               PROVE  composed'[x][m] >= asked[m] \/ x \in m_now
    BY <1>2 DEF ChangesSent, AskedComposed, Asap, Alone
  <2>1. m \in Tests(x) /\ m \in Metrics
    BY AsapTests, TestsMetrics
  <2>2. CASE x = msg
    BY <1>5, <2>1, <2>2 DEF AskedInv, TypeInv
  <2>3. CASE x # msg
    BY <1>5, <1>7, <2>3 DEF ChangesSent, AskedComposed
  <2> QED
    BY <2>2, <2>3
<1> QED
  BY <1>6, <1>8, <1>9

LEMMA Ticker1IInv == IInv /\ Ticker1 => IInv'
<1> SUFFICES ASSUME IInv, TickStart \/ Skip \/ TickNext PROVE IInv'
  BY CallIInv, TestModifiedIInv, ComposeIInv DEF Ticker1
<1>1. UNCHANGED <<value, m_modified, set, m_now, composed, dropped, asked>>
  BY DEF TickStart, Skip, TickNext, metric, sent
<1>2. /\ tpc' \in {"idle", "periodic", "stream", "flagged"}
      /\ pos' \in Nat \ {0}
  BY DEF TickStart, Skip, TickNext, IInv, TypeInv
<1>3. step = "start" /\ step' = "start"
  BY DEF TickStart, Skip, TickNext, IInv, WorkInv, TypeInv
<1> QED
  BY <1>1, <1>2, <1>3, BetweenIInv

LEMMA OtherIInv == IInv /\ (Network \/ UNCHANGED vars) => IInv'
<1> SUFFICES ASSUME IInv, Network \/ UNCHANGED vars PROVE IInv'
  OBVIOUS
<1>1. UNCHANGED <<value, m_modified, set, m_now, tpc, pos, step, composed, dropped, asked>>
  BY DEF Network, Connect, Login, LoginDone, Close, CloseDone, PeersRead, PeersMsg, vars,
         metric, ticker, sent
<1>2. TypeInv' /\ WorkInv' /\ AskedInv'
  BY <1>1, SameWork DEF IInv, TypeInv, AskedInv
<1>3. KeptInv' /\ ChangesSent'
  BY <1>1, SameWork
  DEF IInv, KeptInv, Kept, UpToDate, ChangesSent, AskedComposed, Asap, Alone, Tests
<1> QED
  BY <1>2, <1>3 DEF IInv

LEMMA NextIInv == IInv /\ [Next]_vars => IInv'
BY SetValueIInv, SetModifiedIInv, MetricModifiedIInv, Ticker1IInv, OtherIInv
DEF Next, Setter

LEMMA Safe == Spec => []IInv
BY InitIInv, NextIInv, PTL DEF Spec

(* No change is lost between IsModifiedAndClear and the composition of the *)
(* message, whenever the setter runs; only Transmit may drop the message.  *)
THEOREM StatusChangeKeepsBit == Spec => []ChangeKeepsBit
<1>1. IInv => ChangeKeepsBit
  BY DEF IInv, KeptInv, Kept, UpToDate, ChangeKeepsBit
<1> QED
  BY <1>1, Safe, PTL

(* A change MetricModified let through is sent in the message of its       *)
(* metric, though the flag is taken back before the bits are fetched,      *)
(* unless Transmit has no connection and drops the message.                *)
THEOREM StatusChangesSent == Spec => []ChangesSent
<1>1. IInv => ChangesSent
  BY DEF IInv
<1> QED
  BY <1>1, Safe, PTL

-----------------------------------------------------------------------------
(* Types, with the bounds.                                                 *)
ChannelInv ==
  /\ m_modified \subseteq Metrics /\ m_now \subseteq Msgs
  /\ peers \in 0..MaxPeers /\ m_peers \in 0..MaxPeers /\ m_lasttx \in 0..1
  /\ connected \in BOOLEAN /\ m_mgconn \in BOOLEAN /\ loggedIn \in BOOLEAN
  /\ m_mgconn_mutex \in {"free", "events", "mongoose"} /\ mpc \in {"idle", "login", "peers"}
  /\ owed \in BOOLEAN

ValueInv ==
  /\ \A m \in Metrics : value[m] <= MaxChanges
  /\ \A msg \in Msgs : \A m \in Metrics : composed[msg][m] <= MaxChanges

PosInv ==
  /\ pos <= Len(Calls(tpc)) + 1 /\ (tpc = "idle" => pos = 1) /\ always \in BOOLEAN

LEMMA CallsLength ==
  ASSUME NEW part \in {"idle", "periodic", "stream", "flagged"} PROVE Len(Calls(part)) \in Nat
<1>1. Calls("idle") = Calls("flagged")
  BY DEF Calls
<1>2. Calls(part) \in Seq(Msgs)
  BY <1>1, CallsAreOfMsgs
<1> QED
  BY <1>2

LEMMA NextChannel == ChannelInv /\ [Next]_vars => ChannelInv'
<1> SUFFICES ASSUME ChannelInv, [Next]_vars PROVE ChannelInv'
  OBVIOUS
<1> USE DEF metric, link, ticker
<1>1. ASSUME NEW m \in Metrics, SetValue(m) \/ SetModified(m) \/ MetricModified(m)
      PROVE  ChannelInv'
  BY <1>1 DEF SetValue, SetModified, MetricModified, ChannelInv
<1>2. CASE TickStart \/ Call \/ Skip \/ TestModified \/ Compose \/ TickNext
  <2>1. UNCHANGED <<peers, m_peers, connected, m_mgconn, loggedIn, m_mgconn_mutex, mpc>>
    BY <1>2 DEF TickStart, Call, Skip, TestModified, Compose, TickNext
  <2>2. m_modified' \subseteq m_modified /\ m_now' \subseteq m_now
    BY <1>2 DEF TickStart, Call, Skip, TestModified, Compose, TickNext
  <2>3. m_lasttx' \in {1, m_lasttx}
    BY <1>2 DEF TickStart, Call, Skip, TestModified, Compose, TickNext
  <2>4. owed' \in BOOLEAN
    BY <1>2 DEF TickStart, Call, Skip, TestModified, Compose, TickNext, ChannelInv
  <2> QED
    BY <2>1, <2>2, <2>3, <2>4 DEF ChannelInv
<1>3. CASE \/ Connect \/ Login \/ LoginDone \/ CloseDone \/ PeersRead \/ UNCHANGED vars
           \/ \E task \in {"events", "mongoose"} : Close(task)
  <2>1. peers' \in {0, peers} /\ UNCHANGED <<m_modified, m_now, m_peers, m_lasttx, owed>>
    BY <1>3 DEF Connect, Login, LoginDone, Close, CloseDone, PeersRead, vars
  <2>2. /\ connected' \in BOOLEAN /\ m_mgconn' \in BOOLEAN /\ loggedIn' \in BOOLEAN
        /\ m_mgconn_mutex' \in {"free", "events", "mongoose"}
        /\ mpc' \in {"idle", "login", "peers"}
    BY <1>3 DEF Connect, Login, LoginDone, Close, CloseDone, PeersRead, vars, ChannelInv
  <2>3. 0 \in 0..MaxPeers
    BY StatusAssumption
  <2> QED
    BY <2>1, <2>2, <2>3 DEF ChannelInv
<1>4. ASSUME NEW n \in 0..MaxPeers, PeersMsg(n) PROVE ChannelInv'
  BY <1>4 DEF PeersMsg, ChannelInv
<1> QED
  BY <1>1, <1>2, <1>3, <1>4 DEF Next, Setter, Ticker1, Network

LEMMA NextDropped == IInv /\ dropped \subseteq Msgs /\ [Next]_vars => dropped' \subseteq Msgs
<1> SUFFICES ASSUME IInv, dropped \subseteq Msgs, [Next]_vars PROVE dropped' \subseteq Msgs
  OBVIOUS
<1>1. CASE Compose
  <2>1. Current \in Msgs
    BY <1>1, CurrentIsMsg DEF Compose, IInv, WorkInv
  <2> QED
    BY <1>1, <2>1 DEF Compose
<1>2. Compose \/ UNCHANGED dropped
  BY DEF Next, Setter, Ticker1, Network, vars, sent, SetValue, SetModified, MetricModified,
         TickStart, Call, Skip, TestModified, TickNext, Connect, Login, LoginDone, Close,
         CloseDone, PeersRead, PeersMsg
<1> QED
  BY <1>1, <1>2

LEMMA NextValue == IInv /\ ValueInv /\ [Next]_vars => ValueInv'
<1> SUFFICES ASSUME IInv, ValueInv, [Next]_vars PROVE ValueInv'
  OBVIOUS
<1>0. /\ value \in [Metrics -> Nat] /\ composed \in [Msgs -> [Metrics -> Nat]]
      /\ MaxChanges \in Nat
  BY StatusAssumption DEF IInv, TypeInv
<1>1. ASSUME NEW m \in Metrics, SetValue(m) PROVE ValueInv'
  BY <1>0, <1>1 DEF SetValue, ValueInv, sent
<1>2. CASE Compose
  <2>1. /\ \/ composed' = composed
           \/ composed' = [composed EXCEPT ![Current] =
                [m \in Metrics |-> IF m \in Shows(Current) THEN value[m] ELSE @[m]]]
        /\ value' = value
    BY <1>2 DEF Compose, metric
  <2>2. \A msg \in Msgs : \A m \in Metrics : composed'[msg][m] \in {value[m], composed[msg][m]}
    BY <1>0, <2>1
  <2> QED
    BY <1>0, <2>1, <2>2 DEF ValueInv
<1>3. Compose \/ (\E m \in Metrics : SetValue(m)) \/ UNCHANGED <<value, composed>>
  BY DEF Next, Setter, Ticker1, Network, vars, metric, SetModified, MetricModified, TickStart,
         Call, Skip, TestModified, TickNext, Connect, Login, LoginDone, Close, CloseDone,
         PeersRead, PeersMsg, sent
<1> QED
  BY <1>1, <1>2, <1>3 DEF ValueInv

LEMMA NextPos == IInv /\ PosInv /\ [Next]_vars => PosInv'
<1> SUFFICES ASSUME IInv, PosInv, [Next]_vars PROVE PosInv'
  OBVIOUS
<1>0. /\ tpc \in {"idle", "periodic", "stream", "flagged"} /\ pos \in Nat \ {0}
      /\ step # "start" => tpc # "idle" /\ pos <= Len(Calls(tpc))
      /\ \A part \in {"idle", "periodic", "stream", "flagged"} : Len(Calls(part)) \in Nat
  BY CallsLength DEF IInv, TypeInv, WorkInv
<1>1. CASE TickStart
  <2>1. tpc' \in {"periodic", "stream", "flagged"} /\ pos' = 1 /\ always' = always
    BY <1>1 DEF TickStart, PosInv
  <2>2. Len(Calls(tpc')) \in Nat
    BY <1>0, <2>1
  <2> QED
    BY <2>1, <2>2 DEF PosInv
<1>2. CASE Call
  <2>1. tpc' = tpc /\ pos' = pos /\ always' \in BOOLEAN
    BY <1>2 DEF Call
  <2> QED
    BY <2>1 DEF PosInv
<1>3. CASE Skip \/ TestModified \/ Compose
  <2>1. tpc' = tpc /\ pos' \in {pos, pos + 1}
    BY <1>3 DEF Skip, TestModified, Compose
  <2>2. always' \in BOOLEAN
    BY <1>3 DEF Skip, TestModified, Compose, PosInv
  <2>3. tpc # "idle" /\ pos <= Len(Calls(tpc))
    <3>1. CASE Skip
      BY <1>0, <3>1 DEF Skip, Ended
    <3>2. CASE TestModified \/ Compose
      BY <1>0, <3>2 DEF TestModified, Compose
    <3> QED
      BY <1>3, <3>1, <3>2
  <2> QED
    BY <1>0, <2>1, <2>2, <2>3 DEF PosInv
<1>4. CASE TickNext
  <2>1. tpc' \in {"idle", "flagged"} /\ pos' = 1 /\ always' = always
    BY <1>4 DEF TickNext
  <2>2. Len(Calls(tpc')) \in Nat
    BY <1>0, <2>1
  <2> QED
    BY <2>1, <2>2 DEF PosInv
<1>5. CASE Setter \/ Network \/ UNCHANGED vars
  BY <1>5 DEF Setter, Network, vars, ticker, SetValue, SetModified, MetricModified, Connect,
              Login, LoginDone, Close, CloseDone, PeersRead, PeersMsg, PosInv
<1> QED
  BY <1>1, <1>2, <1>3, <1>4, <1>5 DEF Next, Ticker1

(* Every variable has its type, and the call at work is of a message of    *)
(* the tick: the ticker never leaves the list of its calls.                *)
THEOREM StatusTypes == Spec => []TypeOK
<1> DEFINE BInv == ChannelInv /\ ValueInv /\ PosInv /\ dropped \subseteq Msgs
<1>1. Init => BInv
  <2> SUFFICES ASSUME Init PROVE BInv
    OBVIOUS
  <2>1. ChannelInv
    <3>1. 0 \in 0..MaxPeers /\ 0 \in 0..1
      BY StatusAssumption
    <3> QED
      BY <3>1 DEF Init, ChannelInv
  <2>2. ValueInv
    BY StatusAssumption DEF Init, ValueInv
  <2>3. tpc = "idle" /\ pos = 1 /\ always \in BOOLEAN /\ Len(Calls("idle")) \in Nat
    BY CallsLength DEF Init
  <2>4. dropped \subseteq Msgs
    BY DEF Init
  <2> QED
    BY <2>1, <2>2, <2>3, <2>4 DEF PosInv
<1>2. IInv /\ BInv /\ [Next]_vars => BInv'
  BY NextChannel, NextValue, NextPos, NextDropped
<1>3. IInv /\ BInv => TypeOK
  <2> SUFFICES ASSUME IInv, BInv PROVE TypeOK
    OBVIOUS
  <2>1. MaxChanges \in Nat /\ Len(Calls(tpc)) \in Nat
    BY StatusAssumption, CallsLength DEF IInv, TypeInv
  <2>2. /\ value \in [Metrics -> 0..MaxChanges] /\ asked \in [Metrics -> 0..MaxChanges]
        /\ composed \in [Msgs -> [Metrics -> 0..MaxChanges]]
    <3>1. \A m \in Metrics : value[m] \in 0..MaxChanges /\ asked[m] \in 0..MaxChanges
      BY <2>1 DEF IInv, TypeInv, AskedInv, ValueInv
    <3>2. \A msg \in Msgs : \A m \in Metrics : composed[msg][m] \in 0..MaxChanges
      BY <2>1 DEF IInv, TypeInv, ValueInv
    <3> QED
      BY <3>1, <3>2 DEF IInv, TypeInv
  <2>3. pos \in 1..(Len(Calls(tpc)) + 1) /\ (step # "start" => tpc # "idle" /\ ~Ended)
    BY <2>1 DEF IInv, TypeInv, WorkInv, PosInv, Ended
  <2> QED
    BY <2>2, <2>3 DEF TypeOK, IInv, TypeInv, ChannelInv, PosInv
<1> QED
  BY <1>1, <1>2, <1>3, Safe, PTL DEF Spec
=============================================================================
