---------------------------- MODULE EventsProofs ----------------------------
(***************************************************************************)
(* The event system, for any tasks and events, any sizes of the queues and *)
(* of the pool of timers, and any number of flash operations.              *)
(*                                                                         *)
(* A timer of the pool may be taken by an event while commands of the last *)
(* one are still on their way.  What keeps the events apart is that two    *)
(* that claim the same timer are both known to be upset; for an event that *)
(* is not, the timer it waits in is its own, and it is in one place at a   *)
(* time: with its timer, at the timer service, in the queue, or current.   *)
(***************************************************************************)
EXTENDS Events, TLAPS

Pcs == {"running", "overflow", "found", "set id", "start", "called", "send"}

EventsTypeInv ==
  /\ m_taskqueue \in Seq(Event) /\ current \in Event \cup {None}
  /\ m_timers \in Seq([id : Event, active : BOOLEAN, for : Event \cup {None}])
  /\ \A t \in DOMAIN m_timers : m_timers[t].active => m_timers[t].for \in Event
  /\ commands \in Seq([op : {"period", "start"}, timer : Nat, event : Event])
  /\ \A k \in DOMAIN commands : commands[k].timer \in DOMAIN m_timers
  /\ at \in [Callers -> [pc : Pcs, event : Event \cup {None}, timer : Nat]]
  /\ string \in [Event -> {"none", "live", "freed"}]
  /\ msgdup \in [Event -> {"none", "live", "freed"}]
  /\ dispatched \in [Event -> Nat] /\ upset \subseteq Event

\* What the callers are at; one at a time schedules.
CallersInv ==
  \A c \in Callers :
    /\ at[c].pc = "running" => at[c] = Running
    /\ at[c].pc \in {"overflow", "send"} => at[c].event \in Event
    /\ at[c].pc \in {"called", "send"} => c = Service /\ at[c].timer \in DOMAIN m_timers
    /\ at[c].pc = "called" => at[c].event = None /\ ~ m_timers[at[c].timer].active
    /\ Scheduling(c) => /\ c # Service /\ at[c].event \in Event
                        /\ at[c].timer \in DOMAIN m_timers
                        /\ \A d \in Callers : Scheduling(d) => c = d

\* Which events claim timer t: a command is on its way, a caller has taken the
\* timer, the timer is active, or its callback has not yet read the message.
Commanded(t, e) ==
  \E k \in DOMAIN commands : commands[k].timer = t /\ commands[k].event = e
Taken(t, e) == \E c \in Callers : Scheduling(c) /\ at[c].timer = t /\ at[c].event = e
Armed(t, e) == m_timers[t].active /\ m_timers[t].for = e
Called(t) == at[Service].pc = "called" /\ at[Service].timer = t
Claims(t, e) ==
  Commanded(t, e) \/ Taken(t, e) \/ Armed(t, e) \/ (Called(t) /\ m_timers[t].id = e)

\* A caller is between the command for timer t and the ID.
Setting(t, e) == \E c \in Callers : at[c].pc = "set id" /\ at[c].timer = t /\ at[c].event = e

Upset(e, f) == e \in upset /\ f \in upset

\* The IDs of the timers.
IdsInv ==
  /\ \A t, u \in DOMAIN m_timers : m_timers[t].id = m_timers[u].id => t = u
  /\ \A c \in Callers :
       /\ at[c].pc \in {"found", "set id"} =>
            \A t \in DOMAIN m_timers : m_timers[t].id # at[c].event
       /\ at[c].pc = "found" =>
            \A t \in DOMAIN m_timers : /\ ~ Commanded(t, at[c].event)
                                       /\ m_timers[t].for # at[c].event
       /\ at[c].pc = "start" => m_timers[at[c].timer].id = at[c].event

\* Events that claim the same timer are one, or upset, and so is its message.
ClaimsInv ==
  \A t \in DOMAIN m_timers :
    /\ \A e, f \in Event : Claims(t, e) /\ Claims(t, f) => e = f \/ Upset(e, f)
    /\ \A e \in Event : Commanded(t, e) \/ Armed(t, e) =>
         m_timers[t].id = e \/ Setting(t, e) \/ Upset(e, m_timers[t].id)
    /\ Called(t) =>
         \/ m_timers[t].id \in upset
         \/ /\ m_timers[t].for = m_timers[t].id
            /\ \A e \in Event : ~ Commanded(t, e) /\ ~ Taken(t, e)

\* An event that has not been signalled is nowhere.
UnsignalledInv ==
  \A e \in Event : string[e] = "none" =>
    /\ e \notin upset /\ msgdup[e] = "none" /\ dispatched[e] = 0 /\ current # e
    /\ \A k \in DOMAIN m_taskqueue : m_taskqueue[k] # e
    /\ \A k \in DOMAIN commands : commands[k].event # e
    /\ \A t \in DOMAIN m_timers : m_timers[t].id # e /\ m_timers[t].for # e
    /\ \A c \in Callers : at[c].event # e

\* The places of an event.
Waits(e)     == \E t \in DOMAIN m_timers : Claims(t, e)
Sent(e)      == at[Service].pc = "send" /\ at[Service].event = e
Overflows(e) == \E c \in Callers : at[c].pc = "overflow" /\ at[c].event = e
InQueue(e)   == \E k \in DOMAIN m_taskqueue : m_taskqueue[k] = e
OnlyOnce(e)  ==
  \A i, j \in DOMAIN m_taskqueue : m_taskqueue[i] = e /\ m_taskqueue[j] = e => i = j

OnePlace(e) ==
  /\ Waits(e) => ~ Sent(e) /\ ~ Overflows(e) /\ ~ InQueue(e) /\ current # e
  /\ Sent(e) => ~ Overflows(e) /\ ~ InQueue(e) /\ current # e
  /\ Overflows(e) => ~ InQueue(e) /\ current # e
  /\ InQueue(e) => current # e
  /\ OnlyOnce(e)

Kept(e) ==
  /\ Waits(e) \/ Sent(e) \/ Overflows(e) \/ InQueue(e) => string[e] = "live" /\ dispatched[e] = 0
  /\ Waits(e) \/ Sent(e) => msgdup[e] = "live"
  /\ InQueue(e) \/ current = e => msgdup[e] # "live"
  /\ current = e => string[e] = "live" /\ dispatched[e] = 1
  /\ dispatched[e] \in {0, 1} /\ (dispatched[e] = 1 => msgdup[e] # "live")
  /\ dispatched[e] = 1 /\ current # e => string[e] = "freed"
  /\ string[e] = "freed" => msgdup[e] # "live"

PlacesInv == \A e \in Event \ upset : OnePlace(e) /\ Kept(e)

EventsIInv == /\ EventsTypeInv /\ CallersInv /\ IdsInv /\ ClaimsInv /\ UnsignalledInv
              /\ PlacesInv /\ NotEarly
-----------------------------------------------------------------------------
(* Sequences that grow and shrink by one.                                  *)
LEMMA Appended ==
  ASSUME NEW S, NEW s \in Seq(S), NEW x \in S, NEW r, r = Append(s, x)
  PROVE  /\ r \in Seq(S) /\ DOMAIN s \subseteq DOMAIN r
         /\ \A i \in DOMAIN s : r[i] = s[i]
         /\ \A i \in DOMAIN r : i \in DOMAIN s \/ (i = Len(s) + 1 /\ r[i] = x)
         /\ Len(s) + 1 \in DOMAIN r /\ r[Len(s) + 1] = x /\ Len(s) + 1 \notin DOMAIN s
         /\ Len(r) = Len(s) + 1
OBVIOUS

LEMMA Shortened ==
  ASSUME NEW S, NEW s \in Seq(S), s # <<>>, NEW r, r = Tail(s)
  PROVE  /\ r \in Seq(S) /\ Head(s) = s[1] /\ Head(s) \in S /\ 1 \in DOMAIN s
         /\ \A i \in DOMAIN r : i + 1 \in DOMAIN s /\ i + 1 # 1 /\ r[i] = s[i + 1]
         /\ \A i \in DOMAIN s : i = 1 \/ (i - 1 \in DOMAIN r /\ r[i - 1] = s[i])
         /\ \A i, j \in DOMAIN r : i + 1 = j + 1 => i = j
OBVIOUS

LEMMA Updated ==
  ASSUME NEW S, NEW s \in Seq(S), NEW i \in DOMAIN s, NEW x \in S
  PROVE  /\ [s EXCEPT ![i] = x] \in Seq(S)
         /\ DOMAIN [s EXCEPT ![i] = x] = DOMAIN s
OBVIOUS

LEMMA Elements ==
  ASSUME NEW S, NEW s \in Seq(S)
  PROVE  \A i \in DOMAIN s : i \in Nat /\ s[i] \in S
OBVIOUS

LEMMA SequencesIn ==
  ASSUME NEW S, NEW T, NEW s \in Seq(S), \A i \in 1..Len(s) : s[i] \in T
  PROVE  s \in Seq(T)
BY SMT

LEMMA Types ==
  ASSUME EventsTypeInv
  PROVE  /\ \A t \in DOMAIN m_timers : /\ t \in Nat /\ m_timers[t].id \in Event
                                       /\ m_timers[t].active \in BOOLEAN
                                       /\ m_timers[t].for \in Event \cup {None}
         /\ \A k \in DOMAIN commands : /\ commands[k].event \in Event
                                       /\ commands[k].timer \in DOMAIN m_timers
         /\ \A k \in DOMAIN m_taskqueue : m_taskqueue[k] \in Event
         /\ \A c \in Callers : /\ at[c].pc \in Pcs /\ at[c].event \in Event \cup {None}
                               /\ at[c].timer \in Nat
         /\ None \notin Event /\ None \notin Callers
         /\ Service \in Callers /\ EventsTask \in Callers /\ Service # EventsTask
         /\ at \in [Callers -> [pc : Pcs, event : Event \cup {None}, timer : Nat]]
<1>1. \A t \in DOMAIN m_timers : m_timers[t] \in [id : Event, active : BOOLEAN, for : Event \cup {None}] /\ t \in Nat
  BY Elements DEF EventsTypeInv
<1>2. \A k \in DOMAIN commands : commands[k] \in [op : {"period", "start"}, timer : Nat, event : Event]
  BY Elements DEF EventsTypeInv
<1>3. \A k \in DOMAIN m_taskqueue : m_taskqueue[k] \in Event
  BY DEF EventsTypeInv
<1>4. Service \in Callers /\ EventsTask \in Callers /\ Service # EventsTask
  BY DEF Callers, Service, EventsTask
<1>5. \A c \in Callers : at[c] \in [pc : Pcs, event : Event \cup {None}, timer : Nat]
  BY DEF EventsTypeInv
<1> QED
  BY <1>1, <1>2, <1>3, <1>4, <1>5, EventsAssumption DEF EventsTypeInv

LEMMA InitEvents == Init => EventsIInv
<1> SUFFICES ASSUME Init PROVE EventsIInv
  OBVIOUS
<1>1. \A c \in Callers : at[c] = Running /\ at[c].pc = "running" /\ at[c].event = None
  BY DEF Init, Running
<1>2. m_timers = <<>> /\ commands = <<>> /\ m_taskqueue = <<>> /\ current = None /\ upset = {}
      /\ DOMAIN m_timers = {} /\ DOMAIN commands = {} /\ DOMAIN m_taskqueue = {}
  BY DEF Init
<1>3. None \notin Event
  BY EventsAssumption
<1>4. EventsTypeInv
  <2>1. Running \in [pc : Pcs, event : Event \cup {None}, timer : Nat]
    BY DEF Running, Pcs
  <2>2. at \in [Callers -> [pc : Pcs, event : Event \cup {None}, timer : Nat]]
    BY <2>1 DEF Init
  <2> QED
    BY <1>2, <2>2 DEF Init, EventsTypeInv
<1>5. CallersInv
  BY <1>1 DEF CallersInv, Scheduling
<1>6. IdsInv /\ ClaimsInv
  BY <1>1, <1>2 DEF IdsInv, ClaimsInv
<1>7. UnsignalledInv
  BY <1>1, <1>2, <1>3 DEF UnsignalledInv, Init
<1>8. Service \in Callers
  BY DEF Callers
<1>9. PlacesInv /\ NotEarly
  BY <1>1, <1>2, <1>3, <1>8
     DEF PlacesInv, NotEarly, OnePlace, OnlyOnce, Kept, Waits, Sent, Overflows, InQueue, Init
<1> QED
  BY <1>4, <1>5, <1>6, <1>7, <1>9 DEF EventsIInv
-----------------------------------------------------------------------------
(* Steps that leave the timers and the commands as they are: a caller may  *)
(* leave the timers, but not between the command for one and its ID.       *)
Away(c) ==
  \/ at[c] = Running
  \/ at[c].pc = "overflow" /\ at[c].event \in Event
  \/ c = Service /\ at[c].pc = "send" /\ at[c].event \in Event /\ at[c].timer \in DOMAIN m_timers

Leaves(c) == at'[c] = at[c] \/ (at[c].pc # "set id" /\ Away(c)')

LEMMA TimersAlone ==
  ASSUME EventsTypeInv, CallersInv, IdsInv, ClaimsInv,
         m_timers' = m_timers, commands' = commands, upset \subseteq upset',
         \A c \in Callers : Leaves(c)
  PROVE  /\ CallersInv' /\ IdsInv' /\ ClaimsInv'
         /\ \A t, e : Claims(t, e)' => Claims(t, e)
         /\ \A e : Waits(e)' => Waits(e)
<1>1. ASSUME NEW c \in Callers
      PROVE  /\ at'[c].pc \in {"found", "set id", "start", "called"} => at'[c] = at[c]
             /\ at[c].pc = "set id" => at'[c] = at[c]
             /\ Scheduling(c)' => at'[c] = at[c] /\ Scheduling(c)
  <2>1. at'[c] = at[c] \/ (at[c].pc # "set id" /\ Away(c)')
    BY DEF Leaves
  <2>2. Away(c)' => at'[c].pc \in {"running", "overflow", "send"}
    BY DEF Away, Running
  <2> QED
    BY <2>1, <2>2 DEF Scheduling
<1>2. CallersInv'
  <2>1. ASSUME NEW c \in Callers
        PROVE  /\ at'[c].pc = "running" => at'[c] = Running
               /\ at'[c].pc \in {"overflow", "send"} => at'[c].event \in Event
               /\ at'[c].pc \in {"called", "send"} => c = Service /\ at'[c].timer \in DOMAIN m_timers
               /\ at'[c].pc = "called" => at'[c].event = None /\ ~ m_timers[at'[c].timer].active
    <3>1. CASE at'[c] = at[c]
      BY <3>1 DEF CallersInv
    <3>2. CASE Away(c)'
      BY <3>2 DEF Away, Running
    <3> QED
      BY <3>1, <3>2 DEF Leaves
  <2>2. ASSUME NEW c \in Callers, Scheduling(c)'
        PROVE  /\ c # Service /\ at'[c].event \in Event
               /\ at'[c].timer \in DOMAIN m_timers
               /\ \A d \in Callers : Scheduling(d)' => c = d
    BY <1>1, <2>2 DEF CallersInv
  <2> QED
    BY <2>1, <2>2 DEF CallersInv
<1>3. ASSUME NEW t, NEW e
      PROVE  /\ Commanded(t, e)' <=> Commanded(t, e)
             /\ Taken(t, e)' => Taken(t, e)
             /\ Armed(t, e)' <=> Armed(t, e)
             /\ Called(t)' => Called(t)
             /\ Setting(t, e)' <=> Setting(t, e)
  <2>1. (Commanded(t, e)' <=> Commanded(t, e)) /\ (Armed(t, e)' <=> Armed(t, e))
    BY DEF Commanded, Armed
  <2>2. Taken(t, e)' => Taken(t, e)
    BY <1>1 DEF Taken
  <2>3. Called(t)' => Called(t)
    BY <1>1 DEF Called, Callers
  <2>4. Setting(t, e)' <=> Setting(t, e)
    BY <1>1 DEF Setting
  <2> QED
    BY <2>1, <2>2, <2>3, <2>4
<1>4. ASSUME NEW t, NEW e PROVE Claims(t, e)' => Claims(t, e)
  BY <1>3 DEF Claims
<1>5. IdsInv'
  <2>1. \A t, u \in DOMAIN m_timers' : m_timers'[t].id = m_timers'[u].id => t = u
    BY DEF IdsInv
  <2>2. ASSUME NEW c \in Callers, at'[c] = at[c]
        PROVE  /\ at'[c].pc \in {"found", "set id"} =>
                    \A t \in DOMAIN m_timers' : m_timers'[t].id # at'[c].event
               /\ at'[c].pc = "found" =>
                    \A t \in DOMAIN m_timers' : m_timers'[t].for # at'[c].event
               /\ at'[c].pc = "start" => m_timers'[at'[c].timer].id = at'[c].event
    BY <2>2 DEF IdsInv
  <2>3. ASSUME NEW c \in Callers, at'[c] = at[c], at[c].pc = "found", NEW t \in DOMAIN m_timers
        PROVE  ~ Commanded(t, at[c].event)'
    <3>1. ~ Commanded(t, at[c].event)
      BY <2>3 DEF IdsInv
    <3> QED
      BY <2>3, <3>1 DEF Commanded
  <2> QED
    BY <1>1, <2>1, <2>2, <2>3 DEF IdsInv
<1>6. ClaimsInv'
  BY <1>3, <1>4 DEF ClaimsInv, Upset
<1> QED
  BY <1>2, <1>4, <1>5, <1>6 DEF Waits

(* An event that is still where it was, or gone.                           *)
LEMMA PlacesAlone ==
  ASSUME NEW e \in Event \ upset, PlacesInv,
         Waits(e)' => Waits(e), Sent(e)' => Sent(e), Overflows(e)' => Overflows(e),
         InQueue(e)' <=> InQueue(e), OnlyOnce(e) => OnlyOnce(e)', current' = e <=> current = e,
         string'[e] = string[e], msgdup'[e] = msgdup[e], dispatched'[e] = dispatched[e]
  PROVE  OnePlace(e)' /\ Kept(e)'
<1>1. OnePlace(e) /\ Kept(e)
  BY DEF PlacesInv
<1>2. OnePlace(e)'
  BY <1>1 DEF OnePlace
<1> QED
  BY <1>1, <1>2 DEF Kept

(* An event that has not been signalled is in no place.                    *)
LEMMA Nowhere ==
  ASSUME EventsTypeInv, UnsignalledInv, NEW e \in Event, string[e] = "none"
  PROVE  /\ ~ Waits(e) /\ ~ Sent(e) /\ ~ Overflows(e) /\ ~ InQueue(e) /\ current # e
         /\ dispatched[e] = 0 /\ msgdup[e] = "none" /\ OnlyOnce(e) /\ e \notin upset
         /\ \A t \in DOMAIN m_timers : ~ Claims(t, e)
<1> USE Types
<1>1. /\ \A k \in DOMAIN commands : commands[k].event # e
      /\ \A t \in DOMAIN m_timers : m_timers[t].id # e /\ m_timers[t].for # e
      /\ \A c \in Callers : at[c].event # e
      /\ \A k \in DOMAIN m_taskqueue : m_taskqueue[k] # e
  BY DEF UnsignalledInv
<1>2. \A t \in DOMAIN m_timers : ~ Claims(t, e)
  BY <1>1 DEF Claims, Commanded, Taken, Armed, Called
<1> QED
  BY <1>1, <1>2 DEF UnsignalledInv, Waits, Sent, Overflows, InQueue, OnlyOnce

(* What an event that is queued, or dropped, leaves behind.                *)
LEMMA EnqueueFacts ==
  ASSUME EventsTypeInv, NEW c \in Callers, NEW e \in Event, Enqueue(c, e)
  PROVE  /\ m_taskqueue' \in Seq(Event) /\ string' \in [Event -> {"none", "live", "freed"}]
         /\ at' \in [Callers -> [pc : Pcs, event : Event \cup {None}, timer : Nat]]
         /\ \A d \in Callers \ {c} : at'[d] = at[d]
         /\ \A f \in Event \ {e} : /\ string'[f] = string[f]
                                   /\ InQueue(f)' <=> InQueue(f)
                                   /\ OnlyOnce(f) => OnlyOnce(f)'
         /\ \/ /\ at'[c] = Running /\ string'[e] = Allocated(string[e])
               /\ InQueue(e)' /\ (~ InQueue(e) => OnlyOnce(e)')
            \/ /\ at'[c] = Running /\ string'[e] = "freed" /\ m_taskqueue' = m_taskqueue
            \/ /\ at'[c] = Position("overflow", e, 0) /\ string'[e] = Allocated(string[e])
               /\ m_taskqueue' = m_taskqueue
<1> USE Types
<1>1. string \in [Event -> {"none", "live", "freed"}] /\ m_taskqueue \in Seq(Event)
  BY DEF EventsTypeInv
<1>2. Running \in [pc : Pcs, event : Event \cup {None}, timer : Nat]
      /\ Position("overflow", e, 0) \in [pc : Pcs, event : Event \cup {None}, timer : Nat]
  BY DEF Running, Position, Pcs
<1>3. CASE Len(m_taskqueue) < QueueSize
  <2>1. /\ m_taskqueue' = Append(m_taskqueue, e)
        /\ string' = [string EXCEPT ![e] = Allocated(@)] /\ at' = [at EXCEPT ![c] = Running]
    BY <1>3 DEF Enqueue
  <2>2. /\ m_taskqueue' \in Seq(Event) /\ DOMAIN m_taskqueue \subseteq DOMAIN m_taskqueue'
        /\ \A i \in DOMAIN m_taskqueue : m_taskqueue'[i] = m_taskqueue[i]
        /\ \A i \in DOMAIN m_taskqueue' :
             i \in DOMAIN m_taskqueue \/ (i = Len(m_taskqueue) + 1 /\ m_taskqueue'[i] = e)
        /\ Len(m_taskqueue) + 1 \in DOMAIN m_taskqueue' /\ m_taskqueue'[Len(m_taskqueue) + 1] = e
    BY <1>1, <2>1, Appended
  <2>3. InQueue(e)' /\ (~ InQueue(e) => OnlyOnce(e)')
    BY <2>2 DEF InQueue, OnlyOnce
  <2>4. \A f \in Event \ {e} : (InQueue(f)' <=> InQueue(f)) /\ (OnlyOnce(f) => OnlyOnce(f)')
    BY <2>2 DEF InQueue, OnlyOnce
  <2>5. /\ string' \in [Event -> {"none", "live", "freed"}] /\ string'[e] = Allocated(string[e])
        /\ \A f \in Event \ {e} : string'[f] = string[f]
    BY <1>1, <2>1 DEF Allocated
  <2>6. /\ at' \in [Callers -> [pc : Pcs, event : Event \cup {None}, timer : Nat]]
        /\ at'[c] = Running /\ \A d \in Callers \ {c} : at'[d] = at[d]
    BY <1>2, <2>1
  <2> QED
    BY <2>2, <2>3, <2>4, <2>5, <2>6
<1>4. CASE ~ (Len(m_taskqueue) < QueueSize) /\ e \in Tickers
  <2>1. /\ m_taskqueue' = m_taskqueue
        /\ string' = [string EXCEPT ![e] = "freed"] /\ at' = [at EXCEPT ![c] = Running]
    BY <1>4 DEF Enqueue
  <2> QED
    BY <1>1, <1>2, <2>1 DEF InQueue, OnlyOnce
<1>5. CASE ~ (Len(m_taskqueue) < QueueSize) /\ e \notin Tickers
  <2>1. /\ m_taskqueue' = m_taskqueue /\ string' = [string EXCEPT ![e] = Allocated(@)]
        /\ at' = [at EXCEPT ![c] = Position("overflow", e, 0)]
    BY <1>5 DEF Enqueue
  <2>2. /\ string' \in [Event -> {"none", "live", "freed"}] /\ string'[e] = Allocated(string[e])
        /\ \A f \in Event \ {e} : string'[f] = string[f]
    BY <1>1, <2>1 DEF Allocated
  <2> QED
    BY <1>1, <1>2, <2>1, <2>2 DEF InQueue, OnlyOnce
<1> QED
  BY <1>3, <1>4, <1>5
-----------------------------------------------------------------------------
(* One lemma per action, each about the invariant as a whole.              *)
LEMMA Unmoved ==
  ASSUME EventsIInv, UNCHANGED <<m_taskqueue, current, timers, at, memory, history>>
  PROVE  EventsIInv'
<1>1. /\ EventsTypeInv /\ CallersInv /\ IdsInv /\ ClaimsInv /\ UnsignalledInv
      /\ PlacesInv /\ NotEarly
  BY DEF EventsIInv
<1>2. /\ m_taskqueue' = m_taskqueue /\ current' = current /\ m_timers' = m_timers
      /\ commands' = commands /\ at' = at /\ string' = string /\ msgdup' = msgdup
      /\ dispatched' = dispatched /\ upset' = upset
  BY DEF timers, memory, history
<1>3. CallersInv' /\ IdsInv' /\ ClaimsInv' /\ \A e : Waits(e)' => Waits(e)
  BY <1>1, <1>2, TimersAlone DEF Leaves
<1>4. EventsTypeInv' /\ UnsignalledInv' /\ NotEarly'
  BY <1>1, <1>2 DEF EventsTypeInv, UnsignalledInv, NotEarly
<1>5. ASSUME NEW e \in Event \ upset PROVE OnePlace(e)' /\ Kept(e)'
  <2>1. /\ (Sent(e)' => Sent(e)) /\ (Overflows(e)' => Overflows(e))
        /\ (InQueue(e)' <=> InQueue(e)) /\ (OnlyOnce(e) => OnlyOnce(e)')
    BY <1>2 DEF Sent, Overflows, InQueue, OnlyOnce
  <2> QED
    BY <2>1, <1>1, <1>2, <1>3, PlacesAlone
<1> QED
  BY <1>2, <1>3, <1>4, <1>5 DEF EventsIInv, PlacesInv

LEMMA SignalEventKeeps ==
  ASSUME EventsIInv, NEW c \in Callers, NEW e \in Event, SignalEvent(c, e)
  PROVE  EventsIInv'
<1>1. /\ EventsTypeInv /\ CallersInv /\ IdsInv /\ ClaimsInv /\ UnsignalledInv
      /\ PlacesInv /\ NotEarly
  BY DEF EventsIInv
<1>2. /\ at[c].pc = "running" /\ string[e] = "none" /\ Enqueue(c, e)
      /\ current' = current /\ m_timers' = m_timers /\ commands' = commands
      /\ msgdup' = msgdup /\ dispatched' = dispatched /\ upset' = upset
  BY DEF SignalEvent, CanCall, timers, history
<1>3. /\ m_taskqueue' \in Seq(Event) /\ string' \in [Event -> {"none", "live", "freed"}]
      /\ at' \in [Callers -> [pc : Pcs, event : Event \cup {None}, timer : Nat]]
      /\ \A d \in Callers \ {c} : at'[d] = at[d]
      /\ \A f \in Event \ {e} : /\ string'[f] = string[f]
                                /\ InQueue(f)' <=> InQueue(f)
                                /\ OnlyOnce(f) => OnlyOnce(f)'
      /\ \/ /\ at'[c] = Running /\ string'[e] = Allocated(string[e])
            /\ InQueue(e)' /\ (~ InQueue(e) => OnlyOnce(e)')
         \/ /\ at'[c] = Running /\ string'[e] = "freed" /\ m_taskqueue' = m_taskqueue
         \/ /\ at'[c] = Position("overflow", e, 0) /\ string'[e] = Allocated(string[e])
            /\ m_taskqueue' = m_taskqueue
  BY <1>1, <1>2, EnqueueFacts
<1>4. \/ at'[c] = Running
      \/ at'[c].pc = "overflow" /\ at'[c].event = e
  BY <1>3 DEF Position
<1>5. at'[c].pc \in {"running", "overflow"} /\ at'[c].event \in {None, e}
  BY <1>4 DEF Running
<1>6. EventsTypeInv'
  BY <1>1, <1>2, <1>3 DEF EventsTypeInv
<1>7. \A d \in Callers : Leaves(d)
  BY <1>2, <1>3, <1>4 DEF Leaves, Away
<1>8. /\ CallersInv' /\ IdsInv' /\ ClaimsInv'
      /\ \A f : Waits(f)' => Waits(f)
  BY <1>1, <1>2, <1>7, TimersAlone
<1>9. string'[e] # "none"
  BY <1>2, <1>3 DEF Allocated
<1>10. UnsignalledInv'
  <2> SUFFICES ASSUME NEW f \in Event, string'[f] = "none"
               PROVE  /\ f \notin upset' /\ msgdup'[f] = "none" /\ dispatched'[f] = 0 /\ current' # f
                      /\ \A k \in DOMAIN m_taskqueue' : m_taskqueue'[k] # f
                      /\ \A k \in DOMAIN commands' : commands'[k].event # f
                      /\ \A t \in DOMAIN m_timers' : m_timers'[t].id # f /\ m_timers'[t].for # f
                      /\ \A d \in Callers : at'[d].event # f
    BY DEF UnsignalledInv
  <2>1. f # e /\ string[f] = "none"
    BY <1>3, <1>9
  <2>2. ~ InQueue(f)
    BY <2>1, <1>1, Nowhere
  <2>3. \A k \in DOMAIN m_taskqueue' : m_taskqueue'[k] # f
    BY <2>1, <2>2, <1>3 DEF InQueue
  <2>4. \A d \in Callers : at'[d].event # f
    BY <2>1, <1>1, <1>3, <1>5, Types DEF UnsignalledInv
  <2> QED
    BY <2>1, <2>3, <2>4, <1>1, <1>2 DEF UnsignalledInv
<1>11. NotEarly'
  BY <1>1, <1>2, <1>3, <1>5 DEF NotEarly, Callers
<1>12. ASSUME NEW f \in Event \ upset PROVE OnePlace(f)' /\ Kept(f)'
  <2>1. (Sent(f)' => Sent(f)) /\ (f # e => (Overflows(f)' => Overflows(f)))
    BY <1>3, <1>4, <1>5, Types, <1>1 DEF Sent, Overflows, Callers, Running
  <2>2. CASE f # e
    BY <2>1, <2>2, <1>1, <1>2, <1>3, <1>8, PlacesAlone
  <2>3. CASE f = e
    <3>1. /\ ~ Waits(f) /\ ~ Sent(f) /\ ~ Overflows(f) /\ ~ InQueue(f) /\ current # f
          /\ dispatched[f] = 0 /\ msgdup[f] = "none" /\ OnlyOnce(f)
      BY <2>3, <1>1, <1>2, Nowhere
    <3>2. ~ Waits(f)' /\ ~ Sent(f)' /\ current' # f /\ dispatched'[f] = 0 /\ msgdup'[f] = "none"
      BY <3>1, <2>1, <1>2, <1>8
    <3>3. \/ ~ Overflows(f)' /\ InQueue(f)' /\ OnlyOnce(f)' /\ string'[f] = "live"
          \/ ~ Overflows(f)' /\ ~ InQueue(f)' /\ OnlyOnce(f)' /\ string'[f] = "freed"
          \/ Overflows(f)' /\ ~ InQueue(f)' /\ OnlyOnce(f)' /\ string'[f] = "live"
      <4>1. at'[c] = Running => ~ Overflows(f)'
        BY <3>1, <1>3 DEF Overflows, Running
      <4>2. at'[c] = Position("overflow", e, 0) => Overflows(f)'
        BY <2>3 DEF Overflows, Position
      <4>3. m_taskqueue' = m_taskqueue => ~ InQueue(f)' /\ OnlyOnce(f)'
        BY <3>1 DEF InQueue, OnlyOnce
      <4> QED
        BY <4>1, <4>2, <4>3, <3>1, <2>3, <1>2, <1>3 DEF Allocated
    <3> QED
      BY <3>2, <3>3 DEF OnePlace, Kept
  <2> QED
    BY <2>2, <2>3
<1> QED
  BY <1>2, <1>6, <1>8, <1>10, <1>11, <1>12 DEF EventsIInv, PlacesInv
LEMMA GetTimerIDKeeps ==
  ASSUME EventsIInv, GetTimerID
  PROVE  EventsIInv'
<1> DEFINE t0 == at[Service].timer
<1> DEFINE e0 == m_timers[t0].id
<1>1. /\ EventsTypeInv /\ CallersInv /\ IdsInv /\ ClaimsInv /\ UnsignalledInv
      /\ PlacesInv /\ NotEarly
  BY DEF EventsIInv
<1>2. /\ at[Service].pc = "called" /\ at' = [at EXCEPT ![Service] = Position("send", e0, t0)]
      /\ m_taskqueue' = m_taskqueue /\ current' = current /\ m_timers' = m_timers
      /\ commands' = commands /\ string' = string /\ msgdup' = msgdup
      /\ dispatched' = dispatched /\ upset' = upset
  BY DEF GetTimerID, timers, memory, history
<1>3. t0 \in DOMAIN m_timers /\ e0 \in Event /\ t0 \in Nat /\ ~ m_timers[t0].active /\ Service \in Callers
  BY <1>1, <1>2, Types DEF CallersInv
<1>4. /\ at'[Service].pc = "send" /\ at'[Service].event = e0 /\ at'[Service].timer = t0
      /\ \A d \in Callers \ {Service} : at'[d] = at[d]
  BY <1>1, <1>2, <1>3, Types DEF Position
<1>5. EventsTypeInv'
  <2>1. Position("send", e0, t0) \in [pc : Pcs, event : Event \cup {None}, timer : Nat]
    BY <1>3 DEF Position, Pcs
  <2>2. at' \in [Callers -> [pc : Pcs, event : Event \cup {None}, timer : Nat]]
    BY <1>1, <1>2, <2>1, Types
  <2> QED
    BY <1>1, <1>2, <2>2 DEF EventsTypeInv
<1>6. \A d \in Callers : Leaves(d)
  BY <1>2, <1>3, <1>4 DEF Leaves, Away
<1>7. CallersInv' /\ IdsInv' /\ ClaimsInv' /\ \A f : Waits(f)' => Waits(f)
  BY <1>1, <1>2, <1>6, TimersAlone
<1>8. UnsignalledInv'
  BY <1>1, <1>2, <1>3, <1>4 DEF UnsignalledInv
<1>9. e0 \in upset \/ (m_timers[t0].for = e0 /\ \A e \in Event : ~ Commanded(t0, e) /\ ~ Taken(t0, e))
  BY <1>1, <1>2, <1>3 DEF ClaimsInv, Called
<1>10. NotEarly'
  BY <1>2, <1>4, <1>9 DEF NotEarly
<1>11. ASSUME NEW f \in Event \ upset PROVE OnePlace(f)' /\ Kept(f)'
  <2>1. /\ (Overflows(f)' => Overflows(f)) /\ (InQueue(f)' <=> InQueue(f))
        /\ (OnlyOnce(f) => OnlyOnce(f)') /\ (Sent(f)' => f = e0)
    BY <1>2, <1>4 DEF Overflows, InQueue, OnlyOnce, Sent
  <2>2. CASE f # e0
    BY <2>1, <2>2, <1>1, <1>2, <1>7, PlacesAlone
  <2>3. CASE f = e0
    <3>1. Claims(t0, f) /\ Waits(f)
      BY <1>2, <1>3, <2>3 DEF Claims, Called, Waits
    <3>2. ~ Waits(f)'
      <4> SUFFICES ASSUME NEW t \in DOMAIN m_timers, Claims(t, f)' PROVE FALSE
        BY <1>2 DEF Waits
      <4>1. Claims(t, f)
        BY <1>1, <1>2, <1>6, TimersAlone
      <4>2. ~ Setting(t, f)
        BY <2>3, <1>1, <1>3 DEF Setting, IdsInv
      <4>3. CASE Commanded(t, f)
        <5>1. m_timers[t].id = f
          BY <4>2, <4>3, <1>1 DEF ClaimsInv, Upset
        <5>2. t = t0
          BY <5>1, <1>1, <1>3, <2>3 DEF IdsInv
        <5> QED
          BY <5>2, <4>3, <1>9, <2>3
      <4>4. CASE Armed(t, f)
        <5>1. m_timers[t].id = f
          BY <4>2, <4>4, <1>1 DEF ClaimsInv, Upset
        <5>2. t = t0
          BY <5>1, <1>1, <1>3, <2>3 DEF IdsInv
        <5> QED
          BY <5>2, <4>4, <1>3 DEF Armed
      <4>5. CASE Taken(t, f)
        <5>1. PICK c \in Callers : Scheduling(c) /\ at[c].timer = t /\ at[c].event = f
          BY <4>5 DEF Taken
        <5>2. at[c].pc = "start"
          BY <5>1, <1>1, <1>3, <2>3 DEF Scheduling, IdsInv
        <5>3. t = t0
          BY <5>1, <5>2, <1>1, <1>3, <2>3 DEF IdsInv
        <5> QED
          BY <5>3, <4>5, <1>9, <2>3
      <4>6. ~ Called(t)'
        BY <1>4 DEF Called
      <4> QED
        <5>1. Commanded(t, f)' => Commanded(t, f)
          BY <1>2 DEF Commanded
        <5>2. Armed(t, f)' => Armed(t, f)
          BY <1>2 DEF Armed
        <5>3. Taken(t, f)' => Taken(t, f)
          BY <1>4, <1>2, Types, <1>1 DEF Taken, Scheduling
        <5> QED
          BY <5>1, <5>2, <5>3, <4>3, <4>4, <4>5, <4>6 DEF Claims
    <3>3. OnePlace(f) /\ Kept(f)
      BY <1>1 DEF PlacesInv
    <3>4. OnePlace(f)'
      BY <3>1, <3>2, <3>3, <2>1, <1>2 DEF OnePlace
    <3> QED
      BY <3>1, <3>2, <3>3, <3>4, <2>1, <1>2 DEF Kept, OnePlace
  <2> QED
    BY <2>2, <2>3
<1> QED
  BY <1>2, <1>5, <1>7, <1>8, <1>10, <1>11 DEF EventsIInv, PlacesInv

LEMMA ScheduledEventKeeps ==
  ASSUME EventsIInv, SignalScheduledEvent
  PROVE  EventsIInv'
<1>0. PICK e : e = at[Service].event
  OBVIOUS
<1>1. /\ EventsTypeInv /\ CallersInv /\ IdsInv /\ ClaimsInv /\ UnsignalledInv
      /\ PlacesInv /\ NotEarly
  BY DEF EventsIInv
<1>2. /\ at[Service].pc = "send" /\ Enqueue(Service, e)
      /\ msgdup' = IF at'[Service].pc = "overflow" THEN msgdup ELSE [msgdup EXCEPT ![e] = "freed"]
      /\ current' = current /\ m_timers' = m_timers /\ commands' = commands
      /\ dispatched' = dispatched /\ upset' = upset
  BY <1>0 DEF SignalScheduledEvent, timers, history
<1>3. Service \in Callers /\ e \in Event
  BY <1>0, <1>1, <1>2, Types DEF CallersInv
<1>4. /\ m_taskqueue' \in Seq(Event) /\ string' \in [Event -> {"none", "live", "freed"}]
      /\ at' \in [Callers -> [pc : Pcs, event : Event \cup {None}, timer : Nat]]
      /\ \A d \in Callers \ {Service} : at'[d] = at[d]
      /\ \A f \in Event \ {e} : /\ string'[f] = string[f]
                                /\ InQueue(f)' <=> InQueue(f)
                                /\ OnlyOnce(f) => OnlyOnce(f)'
      /\ \/ /\ at'[Service] = Running /\ string'[e] = Allocated(string[e])
            /\ InQueue(e)' /\ (~ InQueue(e) => OnlyOnce(e)')
         \/ /\ at'[Service] = Running /\ string'[e] = "freed" /\ m_taskqueue' = m_taskqueue
         \/ /\ at'[Service] = Position("overflow", e, 0) /\ string'[e] = Allocated(string[e])
            /\ m_taskqueue' = m_taskqueue
  BY <1>1, <1>2, <1>3, EnqueueFacts
<1>5. \/ at'[Service] = Running /\ at'[Service].pc = "running"
      \/ at'[Service].pc = "overflow" /\ at'[Service].event = e
  BY <1>4 DEF Position, Running
<1>6. at'[Service].event \in {None, e}
  BY <1>5 DEF Running
<1>7. /\ msgdup' \in [Event -> {"none", "live", "freed"}]
      /\ \A f \in Event \ {e} : msgdup'[f] = msgdup[f]
      /\ at'[Service] = Running => msgdup'[e] = "freed"
      /\ at'[Service].pc = "overflow" => msgdup' = msgdup
      /\ string'[e] # "none"
  <2>1. msgdup \in [Event -> {"none", "live", "freed"}]
    BY <1>1 DEF EventsTypeInv
  <2>2. string'[e] # "none"
    BY <1>4 DEF Allocated
  <2>3. msgdup' = msgdup \/ msgdup' = [msgdup EXCEPT ![e] = "freed"]
    BY <1>2
  <2>4. at'[Service] = Running => msgdup'[e] = "freed"
    BY <2>1, <1>2, <1>3 DEF Running
  <2>5. at'[Service].pc = "overflow" => msgdup' = msgdup
    BY <1>2
  <2> QED
    BY <2>1, <2>2, <2>3, <2>4, <2>5, <1>3
<1>8. EventsTypeInv'
  BY <1>1, <1>2, <1>4, <1>7 DEF EventsTypeInv
<1>9. \A d \in Callers : Leaves(d)
  BY <1>2, <1>3, <1>4, <1>5 DEF Leaves, Away
<1>10. /\ CallersInv' /\ IdsInv' /\ ClaimsInv'
       /\ \A f : Waits(f)' => Waits(f)
  BY <1>1, <1>2, <1>9, TimersAlone
<1>11. UnsignalledInv'
  <2> SUFFICES ASSUME NEW f \in Event, string'[f] = "none"
               PROVE  /\ f \notin upset' /\ msgdup'[f] = "none" /\ dispatched'[f] = 0 /\ current' # f
                      /\ \A k \in DOMAIN m_taskqueue' : m_taskqueue'[k] # f
                      /\ \A k \in DOMAIN commands' : commands'[k].event # f
                      /\ \A t \in DOMAIN m_timers' : m_timers'[t].id # f /\ m_timers'[t].for # f
                      /\ \A d \in Callers : at'[d].event # f
    BY DEF UnsignalledInv
  <2>1. f # e /\ string[f] = "none"
    BY <1>4, <1>7
  <2>2. ~ InQueue(f)
    BY <2>1, <1>1, Nowhere
  <2>3. \A k \in DOMAIN m_taskqueue' : m_taskqueue'[k] # f
    BY <2>1, <2>2, <1>4 DEF InQueue
  <2>4. \A d \in Callers : at'[d].event # f
    BY <2>1, <1>1, <1>4, <1>6, Types DEF UnsignalledInv
  <2> QED
    BY <2>1, <2>3, <2>4, <1>1, <1>2, <1>7 DEF UnsignalledInv
<1>12. NotEarly'
  BY <1>5 DEF NotEarly
<1>13. ASSUME NEW f \in Event \ upset PROVE OnePlace(f)' /\ Kept(f)'
  <2>1. ~ Sent(f)' /\ (f # e => (Overflows(f)' => Overflows(f)))
    BY <1>4, <1>5, <1>6, Types, <1>1 DEF Sent, Overflows
  <2>2. CASE f # e
    BY <2>1, <2>2, <1>1, <1>2, <1>4, <1>7, <1>10, PlacesAlone
  <2>3. CASE f = e
    <3>1. OnePlace(f) /\ Kept(f) /\ Sent(f)
      BY <2>3, <1>0, <1>1, <1>2 DEF PlacesInv, Sent
    <3>2. /\ ~ Waits(f) /\ ~ Overflows(f) /\ ~ InQueue(f) /\ current # f
          /\ dispatched[f] = 0 /\ msgdup[f] = "live" /\ string[f] = "live" /\ OnlyOnce(f)
      BY <3>1 DEF OnePlace, Kept
    <3>3. ~ Waits(f)' /\ current' # f /\ dispatched'[f] = 0
      BY <3>2, <1>2, <1>10
    <3>4. \/ /\ ~ Overflows(f)' /\ InQueue(f)' /\ OnlyOnce(f)' /\ string'[f] = "live"
             /\ msgdup'[f] = "freed"
          \/ /\ ~ Overflows(f)' /\ ~ InQueue(f)' /\ OnlyOnce(f)' /\ string'[f] = "freed"
             /\ msgdup'[f] = "freed"
          \/ Overflows(f)' /\ ~ InQueue(f)' /\ OnlyOnce(f)' /\ string'[f] = "live"
      <4>1. at'[Service] = Running => ~ Overflows(f)'
        BY <3>2, <1>4 DEF Overflows, Running
      <4>2. at'[Service] = Position("overflow", e, 0) => Overflows(f)'
        BY <2>3, <1>3 DEF Overflows, Position
      <4>3. m_taskqueue' = m_taskqueue => ~ InQueue(f)' /\ OnlyOnce(f)'
        BY <3>2 DEF InQueue, OnlyOnce
      <4> QED
        BY <4>1, <4>2, <4>3, <3>2, <2>3, <1>4, <1>7 DEF Allocated
    <3> QED
      BY <3>3, <3>4, <2>1 DEF OnePlace, Kept
  <2> QED
    BY <2>2, <2>3
<1> QED
  BY <1>2, <1>8, <1>10, <1>11, <1>12, <1>13 DEF EventsIInv, PlacesInv
LEMMA ReceiveKeeps ==
  ASSUME EventsIInv, Receive
  PROVE  EventsIInv'
<1>1. /\ EventsTypeInv /\ CallersInv /\ IdsInv /\ ClaimsInv /\ UnsignalledInv
      /\ PlacesInv /\ NotEarly
  BY DEF EventsIInv
<1>2. PICK e : e = Head(m_taskqueue)
  OBVIOUS
<1>3. /\ m_taskqueue # <<>> /\ current = None /\ current' = e /\ m_taskqueue' = Tail(m_taskqueue)
      /\ dispatched' = [dispatched EXCEPT ![e] = IF @ < 2 THEN @ + 1 ELSE @]
      /\ m_timers' = m_timers /\ commands' = commands /\ at' = at
      /\ string' = string /\ msgdup' = msgdup /\ upset' = upset
  BY <1>2 DEF Receive, timers, memory
<1>4. m_taskqueue \in Seq(Event) /\ dispatched \in [Event -> Nat]
  BY <1>1 DEF EventsTypeInv
<1>5. /\ m_taskqueue' \in Seq(Event) /\ e = m_taskqueue[1] /\ e \in Event /\ 1 \in DOMAIN m_taskqueue
      /\ \A i \in DOMAIN m_taskqueue' :
           i + 1 \in DOMAIN m_taskqueue /\ i + 1 # 1 /\ m_taskqueue'[i] = m_taskqueue[i + 1]
      /\ \A i \in DOMAIN m_taskqueue :
           i = 1 \/ (i - 1 \in DOMAIN m_taskqueue' /\ m_taskqueue'[i - 1] = m_taskqueue[i])
      /\ \A i, j \in DOMAIN m_taskqueue' : i + 1 = j + 1 => i = j
  BY <1>2, <1>3, <1>4, Shortened
<1>6. /\ dispatched' \in [Event -> Nat]
      /\ \A f \in Event \ {e} : dispatched'[f] = dispatched[f]
      /\ dispatched[e] = 0 => dispatched'[e] = 1
  BY <1>3, <1>4, <1>5
<1>7. EventsTypeInv'
  BY <1>1, <1>3, <1>5, <1>6 DEF EventsTypeInv
<1>8. /\ CallersInv' /\ IdsInv' /\ ClaimsInv'
      /\ \A f : Waits(f)' => Waits(f)
  BY <1>1, <1>3, TimersAlone DEF Leaves
<1>9. UnsignalledInv'
  BY <1>1, <1>3, <1>5, <1>6 DEF UnsignalledInv
<1>10. NotEarly'
  BY <1>1, <1>3 DEF NotEarly
<1>11. ASSUME NEW f \in Event \ upset PROVE OnePlace(f)' /\ Kept(f)'
  <2>1. (Sent(f)' <=> Sent(f)) /\ (Overflows(f)' <=> Overflows(f))
    BY <1>3 DEF Sent, Overflows
  <2>2. OnlyOnce(f) => OnlyOnce(f)'
    BY <1>5 DEF OnlyOnce
  <2>3. CASE f # e
    <3>1. InQueue(f)' <=> InQueue(f)
      BY <2>3, <1>5 DEF InQueue
    <3>2. current' # f /\ current # f
      BY <2>3, <1>3, EventsAssumption
    <3> QED
      BY <3>1, <3>2, <2>1, <2>2, <2>3, <1>1, <1>3, <1>6, <1>8, PlacesAlone
  <2>4. CASE f = e
    <3>1. OnePlace(f) /\ Kept(f) /\ InQueue(f)
      BY <2>4, <1>1, <1>5 DEF PlacesInv, InQueue
    <3>2. ~ InQueue(f)'
      BY <2>4, <3>1, <1>5 DEF InQueue, OnlyOnce, OnePlace
    <3>3. /\ ~ Waits(f)' /\ ~ Sent(f)' /\ ~ Overflows(f)' /\ current' = f /\ OnlyOnce(f)'
          /\ string'[f] = "live" /\ msgdup'[f] # "live" /\ dispatched'[f] = 1
      BY <2>1, <2>2, <2>4, <3>1, <1>3, <1>6, <1>8 DEF OnePlace, Kept
    <3> QED
      BY <3>2, <3>3 DEF OnePlace, Kept
  <2> QED
    BY <2>3, <2>4
<1> QED
  BY <1>3, <1>7, <1>8, <1>9, <1>10, <1>11 DEF EventsIInv, PlacesInv

LEMMA DispatchedKeeps ==
  ASSUME EventsIInv, Dispatched
  PROVE  EventsIInv'
<1>1. /\ EventsTypeInv /\ CallersInv /\ IdsInv /\ ClaimsInv /\ UnsignalledInv
      /\ PlacesInv /\ NotEarly
  BY DEF EventsIInv
<1>2. /\ current # None /\ current' = None /\ string' = [string EXCEPT ![current] = "freed"]
      /\ m_taskqueue' = m_taskqueue /\ m_timers' = m_timers /\ commands' = commands /\ at' = at
      /\ msgdup' = msgdup /\ dispatched' = dispatched /\ upset' = upset
  BY DEF Dispatched, timers, history
<1>3. /\ current \in Event /\ string' \in [Event -> {"none", "live", "freed"}]
      /\ \A f \in Event \ {current} : string'[f] = string[f]
      /\ string'[current] = "freed"
  BY <1>1, <1>2 DEF EventsTypeInv
<1>4. EventsTypeInv'
  BY <1>1, <1>2, <1>3 DEF EventsTypeInv
<1>5. /\ CallersInv' /\ IdsInv' /\ ClaimsInv'
      /\ \A f : Waits(f)' => Waits(f)
  BY <1>1, <1>2, TimersAlone DEF Leaves
<1>6. UnsignalledInv'
  <2> SUFFICES ASSUME NEW f \in Event, string'[f] = "none"
               PROVE  string[f] = "none" /\ current' # f
    BY <1>1, <1>2 DEF UnsignalledInv
  <2> QED
    BY <1>2, <1>3, EventsAssumption
<1>7. NotEarly'
  BY <1>1, <1>2 DEF NotEarly
<1>8. ASSUME NEW f \in Event \ upset PROVE OnePlace(f)' /\ Kept(f)'
  <2>1. /\ (Sent(f)' <=> Sent(f)) /\ (Overflows(f)' <=> Overflows(f))
        /\ (InQueue(f)' <=> InQueue(f)) /\ (OnlyOnce(f)' <=> OnlyOnce(f))
    BY <1>2 DEF Sent, Overflows, InQueue, OnlyOnce
  <2>2. current' # f
    BY <1>2, EventsAssumption
  <2>3. CASE f # current
    BY <2>1, <2>2, <2>3, <1>1, <1>2, <1>3, <1>5, PlacesAlone
  <2>4. CASE f = current
    <3>1. OnePlace(f) /\ Kept(f)
      BY <1>1 DEF PlacesInv
    <3>2. /\ ~ Waits(f)' /\ ~ Sent(f)' /\ ~ Overflows(f)' /\ ~ InQueue(f)' /\ OnlyOnce(f)'
          /\ string'[f] = "freed" /\ msgdup'[f] # "live" /\ dispatched'[f] = 1
      BY <2>1, <2>4, <3>1, <1>2, <1>3, <1>5 DEF OnePlace, Kept
    <3> QED
      BY <2>2, <3>2 DEF OnePlace, Kept
  <2> QED
    BY <2>3, <2>4
<1> QED
  BY <1>2, <1>4, <1>5, <1>6, <1>7, <1>8 DEF EventsIInv, PlacesInv

LEMMA RefusedKeeps ==
  ASSUME EventsIInv, NEW c \in Callers, Refused(c)
  PROVE  EventsIInv'
<1>1. /\ EventsTypeInv /\ CallersInv /\ IdsInv /\ ClaimsInv /\ UnsignalledInv
      /\ PlacesInv /\ NotEarly
  BY DEF EventsIInv
<1>2. PICK e : e = at[c].event
  OBVIOUS
<1>3. /\ at[c].pc \in {"found", "start"} /\ at' = [at EXCEPT ![c] = Running]
      /\ msgdup' = [msgdup EXCEPT ![e] = "freed"] /\ string' = [string EXCEPT ![e] = "freed"]
      /\ upset' = IF at[c].pc = "start" THEN upset \cup {e} ELSE upset
      /\ m_taskqueue' = m_taskqueue /\ current' = current /\ m_timers' = m_timers
      /\ commands' = commands /\ dispatched' = dispatched
  BY <1>2 DEF Refused, timers
<1>4. Scheduling(c)
  BY <1>3 DEF Scheduling
<1>5. e \in Event /\ c # Service /\ \A d \in Callers : Scheduling(d) => d = c
  BY <1>1, <1>2, <1>4 DEF CallersInv
<1>6. /\ at'[c] = Running /\ \A d \in Callers \ {c} : at'[d] = at[d]
      /\ at' \in [Callers -> [pc : Pcs, event : Event \cup {None}, timer : Nat]]
  <2>1. Running \in [pc : Pcs, event : Event \cup {None}, timer : Nat]
    BY DEF Running, Pcs
  <2> QED
    BY <2>1, <1>1, <1>3 DEF EventsTypeInv
<1>7. /\ string' \in [Event -> {"none", "live", "freed"}] /\ string'[e] = "freed"
      /\ msgdup' \in [Event -> {"none", "live", "freed"}] /\ msgdup'[e] = "freed"
      /\ \A f \in Event \ {e} : string'[f] = string[f] /\ msgdup'[f] = msgdup[f]
      /\ upset' \subseteq Event /\ upset \subseteq upset' /\ upset' \subseteq upset \cup {e}
      /\ at[c].pc = "start" => e \in upset'
  BY <1>1, <1>3, <1>5 DEF EventsTypeInv
<1>8. EventsTypeInv'
  BY <1>1, <1>3, <1>6, <1>7 DEF EventsTypeInv
<1>9. \A d \in Callers : Leaves(d)
  BY <1>3, <1>6 DEF Leaves, Away
<1>10. /\ CallersInv' /\ IdsInv' /\ ClaimsInv'
       /\ \A t, f : Claims(t, f)' => Claims(t, f)
       /\ \A f : Waits(f)' => Waits(f)
  BY <1>1, <1>3, <1>7, <1>9, TimersAlone
<1>11. UnsignalledInv'
  <2> SUFFICES ASSUME NEW f \in Event, string'[f] = "none"
               PROVE  /\ f \notin upset' /\ msgdup'[f] = "none" /\ dispatched'[f] = 0 /\ current' # f
                      /\ \A k \in DOMAIN m_taskqueue' : m_taskqueue'[k] # f
                      /\ \A k \in DOMAIN commands' : commands'[k].event # f
                      /\ \A t \in DOMAIN m_timers' : m_timers'[t].id # f /\ m_timers'[t].for # f
                      /\ \A d \in Callers : at'[d].event # f
    BY DEF UnsignalledInv
  <2>1. f # e /\ string[f] = "none"
    BY <1>7
  <2>2. \A d \in Callers : at'[d].event # f
    BY <2>1, <1>1, <1>6, Types DEF UnsignalledInv, Running
  <2> QED
    BY <2>1, <2>2, <1>1, <1>3, <1>7 DEF UnsignalledInv
<1>12. NotEarly'
  BY <1>1, <1>3, <1>5, <1>6, <1>7 DEF NotEarly, Callers
<1>13. ASSUME NEW f \in Event \ upset' PROVE OnePlace(f)' /\ Kept(f)'
  <2>1. /\ (Sent(f)' => Sent(f)) /\ (Overflows(f)' => Overflows(f))
        /\ (InQueue(f)' <=> InQueue(f)) /\ (OnlyOnce(f) => OnlyOnce(f)')
    <3>1. Sent(f)' => Sent(f)
      BY <1>5, <1>6 DEF Sent, Callers
    <3>2. Overflows(f)' => Overflows(f)
      BY <1>6 DEF Overflows, Running
    <3> QED
      BY <3>1, <3>2, <1>3 DEF InQueue, OnlyOnce
  <2>2. f \in Event \ upset
    BY <1>7
  <2>3. CASE f # e
    BY <2>1, <2>2, <2>3, <1>1, <1>3, <1>7, <1>10, PlacesAlone
  <2>4. CASE f = e
    <3>1. at[c].pc = "found"
      BY <2>4, <1>3, <1>7
    <3>2. at[c].timer \in DOMAIN m_timers /\ Claims(at[c].timer, f)
      BY <1>1, <1>2, <1>4, <2>4 DEF CallersInv, Claims, Taken
    <3>3. Waits(f) /\ OnePlace(f) /\ Kept(f)
      BY <3>2, <2>2, <1>1 DEF Waits, PlacesInv
    <3>4. ~ Waits(f)'
      <4> SUFFICES ASSUME NEW t \in DOMAIN m_timers, Claims(t, f)' PROVE FALSE
        BY <1>3 DEF Waits
      <4>1. m_timers[t].id # f /\ ~ Commanded(t, f) /\ m_timers[t].for # f
        BY <3>1, <1>1, <1>2, <2>4 DEF IdsInv
      <4>2. ~ Commanded(t, f)' /\ ~ Armed(t, f)'
        BY <4>1, <1>3 DEF Commanded, Armed
      <4>3. ~ Taken(t, f)'
        <5>1. ASSUME NEW d \in Callers PROVE ~ Scheduling(d)'
          <6>1. CASE d = c
            BY <6>1, <1>6 DEF Scheduling, Running
          <6>2. CASE d # c
            BY <6>2, <1>5, <1>6 DEF Scheduling
          <6> QED
            BY <6>1, <6>2
        <5> QED
          BY <5>1 DEF Taken
      <4> QED
        BY <4>1, <4>2, <4>3, <1>3 DEF Claims
    <3>5. OnePlace(f)'
      BY <3>3, <3>4, <2>1, <1>3 DEF OnePlace
    <3> QED
      BY <3>3, <3>4, <3>5, <2>1, <2>4, <1>3, <1>7 DEF Kept, OnePlace
  <2> QED
    BY <2>3, <2>4
<1> QED
  BY <1>8, <1>10, <1>11, <1>12, <1>13 DEF EventsIInv, PlacesInv
(* The caller that takes a timer, and the one that gets a new timer, was   *)
(* not scheduling, and nobody else is.                                     *)
LEMMA Schedules ==
  ASSUME EventsTypeInv, CallersInv, NEW c \in Callers, NEW e \in Event, CanSchedule(c, e),
         NEW t \in Nat, NEW pc \in {"found", "start"},
         at' = [at EXCEPT ![c] = Position(pc, e, t)],
         string' = [string EXCEPT ![e] = "live"], msgdup' = [msgdup EXCEPT ![e] = "live"]
  PROVE  /\ at' \in [Callers -> [pc : Pcs, event : Event \cup {None}, timer : Nat]]
         /\ at'[c].pc = pc /\ at'[c].event = e /\ at'[c].timer = t
         /\ \A d \in Callers \ {c} : at'[d] = at[d] /\ ~ Scheduling(d)'
         /\ c # Service /\ at'[Service] = at[Service]
         /\ string' \in [Event -> {"none", "live", "freed"}] /\ string'[e] = "live"
         /\ msgdup' \in [Event -> {"none", "live", "freed"}] /\ msgdup'[e] = "live"
         /\ \A f \in Event \ {e} : string'[f] = string[f] /\ msgdup'[f] = msgdup[f]
<1> USE DEF EventsTypeInv
<1>1. Position(pc, e, t) \in [pc : Pcs, event : Event \cup {None}, timer : Nat]
  BY DEF Position, Pcs
<1>2. /\ at' \in [Callers -> [pc : Pcs, event : Event \cup {None}, timer : Nat]]
      /\ at'[c] = Position(pc, e, t) /\ \A d \in Callers \ {c} : at'[d] = at[d]
  BY <1>1
<1>3. \A d \in Callers \ {c} : ~ Scheduling(d)'
  BY <1>2 DEF CanSchedule, Scheduling
<1>4. c # Service /\ at'[Service] = at[Service]
  BY <1>2 DEF CanSchedule, Callers
<1>5. /\ string' \in [Event -> {"none", "live", "freed"}] /\ string'[e] = "live"
      /\ msgdup' \in [Event -> {"none", "live", "freed"}] /\ msgdup'[e] = "live"
      /\ \A f \in Event \ {e} : string'[f] = string[f] /\ msgdup'[f] = msgdup[f]
  OBVIOUS
<1> QED
  BY <1>2, <1>3, <1>4, <1>5 DEF Position

LEMMA FindKeeps ==
  ASSUME EventsIInv, NEW c \in Callers, NEW e \in Event, Find(c, e)
  PROVE  EventsIInv'
<1>1. /\ EventsTypeInv /\ CallersInv /\ IdsInv /\ ClaimsInv /\ UnsignalledInv
      /\ PlacesInv /\ NotEarly
  BY DEF EventsIInv
<1>2. PICK t \in Available :
        /\ at' = [at EXCEPT ![c] = Position("found", e, t)]
        /\ upset' = IF AtWork(t) THEN upset \cup {m_timers[t].id, e} ELSE upset
  BY DEF Find
<1>3. /\ CanSchedule(c, e) /\ string[e] = "none" /\ at[c].pc = "running"
      /\ \A d \in Callers : ~ Scheduling(d)
      /\ m_taskqueue' = m_taskqueue /\ current' = current /\ m_timers' = m_timers
      /\ commands' = commands /\ dispatched' = dispatched
      /\ string' = [string EXCEPT ![e] = "live"] /\ msgdup' = [msgdup EXCEPT ![e] = "live"]
  BY DEF Find, CanSchedule, CanCall, timers
<1>4. t \in DOMAIN m_timers /\ t \in Nat /\ ~ m_timers[t].active /\ m_timers[t].id \in Event
  BY <1>1, <1>2, Types DEF Available
<1>5. /\ at' \in [Callers -> [pc : Pcs, event : Event \cup {None}, timer : Nat]]
      /\ at'[c].pc = "found" /\ at'[c].event = e /\ at'[c].timer = t
      /\ \A d \in Callers \ {c} : at'[d] = at[d] /\ ~ Scheduling(d)'
      /\ c # Service /\ at'[Service] = at[Service]
      /\ string' \in [Event -> {"none", "live", "freed"}] /\ string'[e] = "live"
      /\ msgdup' \in [Event -> {"none", "live", "freed"}] /\ msgdup'[e] = "live"
      /\ \A f \in Event \ {e} : string'[f] = string[f] /\ msgdup'[f] = msgdup[f]
  BY <1>1, <1>2, <1>3, <1>4, Schedules
<1>6. /\ upset' \subseteq Event /\ upset \subseteq upset'
      /\ AtWork(t) => e \in upset' /\ m_timers[t].id \in upset'
      /\ upset' \subseteq upset \cup {m_timers[t].id, e}
  BY <1>1, <1>2, <1>4 DEF EventsTypeInv
<1>7. EventsTypeInv'
  BY <1>1, <1>3, <1>5, <1>6 DEF EventsTypeInv
<1>8. CallersInv'
  <2>1. ASSUME NEW d \in Callers \ {c}
        PROVE  /\ at'[d].pc = "running" => at'[d] = Running
               /\ at'[d].pc \in {"overflow", "send"} => at'[d].event \in Event
               /\ at'[d].pc \in {"called", "send"} => d = Service /\ at'[d].timer \in DOMAIN m_timers
               /\ at'[d].pc = "called" => at'[d].event = None /\ ~ m_timers[at'[d].timer].active
    BY <1>1, <1>5 DEF CallersInv
  <2>2. ASSUME NEW d \in Callers, Scheduling(d)'
        PROVE  /\ d # Service /\ at'[d].event \in Event /\ at'[d].timer \in DOMAIN m_timers
               /\ \A x \in Callers : Scheduling(x)' => d = x
    BY <2>2, <1>4, <1>5
  <2> QED
    BY <2>1, <2>2, <1>3, <1>4, <1>5 DEF CallersInv
<1>9. ASSUME NEW f \in Event, f # e, NEW u
      PROVE  /\ Commanded(u, f)' <=> Commanded(u, f)
             /\ Armed(u, f)' <=> Armed(u, f)
             /\ Called(u)' <=> Called(u)
             /\ ~ Taken(u, f)' /\ ~ Setting(u, f)' /\ ~ Setting(u, f)
             /\ Claims(u, f)' => Claims(u, f)
  <2>1. /\ Commanded(u, f)' <=> Commanded(u, f)
        /\ Armed(u, f)' <=> Armed(u, f)
        /\ Called(u)' <=> Called(u)
    BY <1>3, <1>5 DEF Commanded, Armed, Called
  <2>2. ~ Taken(u, f)' /\ ~ Setting(u, f)
    BY <1>3, <1>5, <1>9 DEF Taken, Setting, Scheduling
  <2>3. ~ Setting(u, f)'
    BY <1>5, <1>9 DEF Setting, Scheduling
  <2> QED
    BY <2>1, <2>2, <2>3, <1>3 DEF Claims
<1>10. /\ ~ Waits(e) /\ ~ Sent(e) /\ ~ Overflows(e) /\ ~ InQueue(e) /\ current # e
       /\ dispatched[e] = 0 /\ msgdup[e] = "none" /\ OnlyOnce(e)
       /\ \A u \in DOMAIN m_timers : ~ Claims(u, e)
  BY <1>1, <1>3, Nowhere
<1>11. /\ \A k \in DOMAIN commands : commands[k].event # e
       /\ \A u \in DOMAIN m_timers : m_timers[u].id # e /\ m_timers[u].for # e
  BY <1>1, <1>3 DEF UnsignalledInv
<1>12. \A u \in DOMAIN m_timers : /\ ~ Commanded(u, e)' /\ ~ Armed(u, e)'
                                  /\ Claims(u, e)' => u = t
  <2>1. \A u : Taken(u, e)' => u = t
    BY <1>5 DEF Taken
  <2> QED
    BY <2>1, <1>3, <1>11 DEF Claims, Commanded, Armed
<1>13. IdsInv'
  <2>1. \A u, v \in DOMAIN m_timers' : m_timers'[u].id = m_timers'[v].id => u = v
    BY <1>1, <1>3 DEF IdsInv
  <2>2. ASSUME NEW d \in Callers
        PROVE  /\ at'[d].pc \in {"found", "set id"} =>
                    \A u \in DOMAIN m_timers' : m_timers'[u].id # at'[d].event
               /\ at'[d].pc = "found" =>
                    \A u \in DOMAIN m_timers' : m_timers'[u].for # at'[d].event
               /\ at'[d].pc = "start" => m_timers'[at'[d].timer].id = at'[d].event
               /\ at'[d].pc = "found" => d = c
    <3>1. CASE d = c
      BY <3>1, <1>3, <1>5, <1>11
    <3>2. CASE d # c
      BY <3>2, <1>5 DEF Scheduling
    <3> QED
      BY <3>1, <3>2
  <2>3. \A u \in DOMAIN m_timers' : ~ Commanded(u, at[c].event)'
    BY <1>3, <1>5, <1>11 DEF Commanded
  <2> QED
    BY <2>1, <2>2, <2>3 DEF IdsInv
<1>14. \A f \in Event : Claims(t, f) => AtWork(t) /\ (f = m_timers[t].id \/ f \in upset)
  <2> SUFFICES ASSUME NEW f \in Event, Claims(t, f) PROVE AtWork(t) /\ (f = m_timers[t].id \/ f \in upset)
    OBVIOUS
  <2>1. ~ Taken(t, f) /\ ~ Setting(t, f) /\ ~ Armed(t, f)
    BY <1>3, <1>4 DEF Taken, Setting, Armed, Scheduling
  <2>2. CASE Commanded(t, f)
    BY <2>1, <2>2, <1>1, <1>4 DEF Commanded, AtWork, ClaimsInv, Upset
  <2>3. CASE Called(t) /\ m_timers[t].id = f
    BY <2>3 DEF Called, AtWork
  <2> QED
    BY <2>1, <2>2, <2>3 DEF Claims
<1>15. ClaimsInv'
  <2> SUFFICES ASSUME NEW u \in DOMAIN m_timers
               PROVE  /\ \A f, g \in Event : Claims(u, f)' /\ Claims(u, g)' => f = g \/ Upset(f, g)'
                      /\ \A f \in Event : Commanded(u, f)' \/ Armed(u, f)' =>
                           m_timers'[u].id = f \/ Setting(u, f)' \/ Upset(f, m_timers[u].id)'
                      /\ Called(u)' =>
                           \/ m_timers'[u].id \in upset'
                           \/ /\ m_timers'[u].for = m_timers'[u].id
                              /\ \A f \in Event : ~ Commanded(u, f)' /\ ~ Taken(u, f)'
    BY <1>3 DEF ClaimsInv
  <2>1. ASSUME NEW f \in Event, Claims(u, f)', NEW g \in Event, Claims(u, g)', f # e, f # g
        PROVE  Upset(f, g)'
    <3>1. Claims(u, f)
      BY <2>1, <1>9
    <3>2. CASE g # e
      BY <2>1, <3>1, <3>2, <1>1, <1>6, <1>9 DEF ClaimsInv, Upset
    <3>3. CASE g = e
      BY <2>1, <3>1, <3>3, <1>6, <1>12, <1>14 DEF Upset
    <3> QED
      BY <3>2, <3>3
  <2>2. \A f, g \in Event : Claims(u, f)' /\ Claims(u, g)' => f = g \/ Upset(f, g)'
    BY <2>1 DEF Upset
  <2>3. ASSUME NEW f \in Event, Commanded(u, f)' \/ Armed(u, f)'
        PROVE  m_timers'[u].id = f \/ Setting(u, f)' \/ Upset(f, m_timers[u].id)'
    <3>1. f # e
      BY <2>3, <1>12
    <3> QED
      BY <2>3, <3>1, <1>1, <1>3, <1>6, <1>9 DEF ClaimsInv, Upset
  <2>4. ASSUME Called(u)', m_timers[u].id \notin upset'
        PROVE  /\ m_timers'[u].for = m_timers'[u].id
               /\ \A f \in Event : ~ Commanded(u, f)' /\ ~ Taken(u, f)'
    <3>1. Called(u)
      BY <2>4, <1>5 DEF Called
    <3>2. u # t
      BY <2>4, <3>1, <1>6 DEF Called, AtWork
    <3>3. \A f \in Event : ~ Taken(u, f)'
      BY <3>2, <1>5 DEF Taken
    <3>4. /\ m_timers[u].for = m_timers[u].id
          /\ \A f \in Event : ~ Commanded(u, f)
      BY <2>4, <3>1, <1>1, <1>6 DEF ClaimsInv
    <3> QED
      BY <3>3, <3>4, <1>3 DEF Commanded
  <2> QED
    BY <2>2, <2>3, <2>4, <1>3
<1>16. UnsignalledInv'
  <2> SUFFICES ASSUME NEW f \in Event, string'[f] = "none"
               PROVE  /\ f \notin upset' /\ msgdup'[f] = "none" /\ dispatched'[f] = 0 /\ current' # f
                      /\ \A k \in DOMAIN m_taskqueue' : m_taskqueue'[k] # f
                      /\ \A k \in DOMAIN commands' : commands'[k].event # f
                      /\ \A u \in DOMAIN m_timers' : m_timers'[u].id # f /\ m_timers'[u].for # f
                      /\ \A d \in Callers : at'[d].event # f
    BY DEF UnsignalledInv
  <2>1. f # e /\ string[f] = "none"
    BY <1>5
  <2>2. m_timers[t].id # f /\ f \notin upset
    BY <2>1, <1>1, <1>4 DEF UnsignalledInv
  <2>3. \A d \in Callers : at'[d].event # f
    BY <2>1, <1>1, <1>5 DEF UnsignalledInv
  <2> QED
    BY <2>1, <2>2, <2>3, <1>1, <1>3, <1>5, <1>6 DEF UnsignalledInv
<1>17. NotEarly'
  BY <1>1, <1>3, <1>5, <1>6 DEF NotEarly
<1>18. ASSUME NEW f \in Event \ upset' PROVE OnePlace(f)' /\ Kept(f)'
  <2>1. /\ (Sent(f)' <=> Sent(f)) /\ (InQueue(f)' <=> InQueue(f)) /\ (OnlyOnce(f) <=> OnlyOnce(f)')
    BY <1>3, <1>5 DEF Sent, InQueue, OnlyOnce
  <2>2. Overflows(f)' => Overflows(f)
    BY <1>5 DEF Overflows
  <2>3. f \in Event \ upset
    BY <1>6
  <2>4. CASE f # e
    <3>1. Waits(f)' => Waits(f)
      BY <2>4, <1>3, <1>9 DEF Waits
    <3> QED
      BY <2>1, <2>2, <2>3, <2>4, <3>1, <1>1, <1>3, <1>5, PlacesAlone
  <2>5. CASE f = e
    <3>1. /\ ~ Sent(f)' /\ ~ Overflows(f)' /\ ~ InQueue(f)' /\ current' # f /\ OnlyOnce(f)'
          /\ string'[f] = "live" /\ msgdup'[f] = "live" /\ dispatched'[f] = 0
      BY <2>1, <2>2, <2>5, <1>3, <1>5, <1>10
    <3> QED
      BY <3>1 DEF OnePlace, Kept
  <2> QED
    BY <2>4, <2>5
<1> QED
  BY <1>7, <1>8, <1>13, <1>15, <1>16, <1>17, <1>18 DEF EventsIInv, PlacesInv
LEMMA CreateFailsKeeps ==
  ASSUME EventsIInv, NEW c \in Callers, NEW e \in Event, CreateFails(c, e)
  PROVE  EventsIInv'
<1>1. /\ EventsTypeInv /\ CallersInv /\ IdsInv /\ ClaimsInv /\ UnsignalledInv
      /\ PlacesInv /\ NotEarly
  BY DEF EventsIInv
<1>2. /\ string[e] = "none"
      /\ m_taskqueue' = m_taskqueue /\ current' = current /\ m_timers' = m_timers
      /\ commands' = commands /\ at' = at /\ dispatched' = dispatched /\ upset' = upset
      /\ string' = [string EXCEPT ![e] = "freed"] /\ msgdup' = [msgdup EXCEPT ![e] = "freed"]
  BY DEF CreateFails, CanSchedule, timers, history
<1>3. /\ string' \in [Event -> {"none", "live", "freed"}] /\ string'[e] = "freed"
      /\ msgdup' \in [Event -> {"none", "live", "freed"}] /\ msgdup'[e] = "freed"
      /\ \A f \in Event \ {e} : string'[f] = string[f] /\ msgdup'[f] = msgdup[f]
  BY <1>1, <1>2 DEF EventsTypeInv
<1>4. EventsTypeInv'
  BY <1>1, <1>2, <1>3 DEF EventsTypeInv
<1>5. CallersInv' /\ IdsInv' /\ ClaimsInv' /\ \A f : Waits(f)' => Waits(f)
  BY <1>1, <1>2, TimersAlone DEF Leaves
<1>6. UnsignalledInv'
  <2>1. \A f \in Event : string'[f] = "none" => f # e /\ string[f] = "none" /\ msgdup'[f] = msgdup[f]
    BY <1>3
  <2> QED
    BY <2>1, <1>1, <1>2 DEF UnsignalledInv
<1>7. NotEarly'
  BY <1>1, <1>2 DEF NotEarly
<1>8. ASSUME NEW f \in Event \ upset PROVE OnePlace(f)' /\ Kept(f)'
  <2>1. /\ (Sent(f)' <=> Sent(f)) /\ (Overflows(f)' <=> Overflows(f))
        /\ (InQueue(f)' <=> InQueue(f)) /\ (OnlyOnce(f)' <=> OnlyOnce(f))
    BY <1>2 DEF Sent, Overflows, InQueue, OnlyOnce
  <2>2. CASE f # e
    BY <2>1, <2>2, <1>1, <1>2, <1>3, <1>5, PlacesAlone
  <2>3. CASE f = e
    <3>1. /\ ~ Waits(f)' /\ ~ Sent(f)' /\ ~ Overflows(f)' /\ ~ InQueue(f)' /\ current' # f /\ OnlyOnce(f)'
          /\ dispatched'[f] = 0
      BY <2>1, <2>3, <1>1, <1>2, <1>5, Nowhere
    <3> QED
      BY <2>3, <3>1, <1>3 DEF OnePlace, Kept
  <2> QED
    BY <2>2, <2>3
<1> QED
  BY <1>2, <1>4, <1>5, <1>6, <1>7, <1>8 DEF EventsIInv, PlacesInv

(* A command for the timer that the caller has taken: its event claims the *)
(* timer as before.                                                        *)
LEMMA CommandKeeps ==
  ASSUME EventsIInv, NEW c \in Callers, NEW op \in {"period", "start"},
         \/ at[c].pc = "found" /\ at' = [at EXCEPT ![c].pc = "set id"]
         \/ at[c].pc = "start" /\ at' = [at EXCEPT ![c] = Running],
         commands' = Append(commands, Command(op, c)),
         UNCHANGED <<m_taskqueue, current, m_timers, memory, history>>
  PROVE  EventsIInv'
<1>1. /\ EventsTypeInv /\ CallersInv /\ IdsInv /\ ClaimsInv /\ UnsignalledInv
      /\ PlacesInv /\ NotEarly
  BY DEF EventsIInv
<1>2. PICK t, e, x : t = at[c].timer /\ e = at[c].event /\ x = Command(op, c)
  OBVIOUS
<1>3. Scheduling(c) /\ ~ at[c].pc = "set id"
  BY DEF Scheduling
<1>4. /\ e \in Event /\ t \in DOMAIN m_timers /\ t \in Nat /\ c # Service
      /\ \A d \in Callers : Scheduling(d) => d = c
  BY <1>1, <1>2, <1>3, Types DEF CallersInv
<1>5. /\ x \in [op : {"period", "start"}, timer : Nat, event : Event]
      /\ x.timer = t /\ x.event = e
  BY <1>2, <1>4 DEF Command
<1>6. /\ m_taskqueue' = m_taskqueue /\ current' = current /\ m_timers' = m_timers
      /\ string' = string /\ msgdup' = msgdup /\ dispatched' = dispatched /\ upset' = upset
  BY DEF memory, history
<1>7. /\ commands' \in Seq([op : {"period", "start"}, timer : Nat, event : Event])
      /\ DOMAIN commands \subseteq DOMAIN commands'
      /\ \A i \in DOMAIN commands : commands'[i] = commands[i]
      /\ \A i \in DOMAIN commands' : i \in DOMAIN commands \/ commands'[i] = x
      /\ Len(commands) + 1 \in DOMAIN commands' /\ commands'[Len(commands) + 1] = x
  <2>1. PICK S : S = [op : {"period", "start"}, timer : Nat, event : Event]
    OBVIOUS
  <2>2. commands \in Seq(S) /\ x \in S /\ commands' = Append(commands, x)
    BY <2>1, <1>1, <1>2, <1>5 DEF EventsTypeInv
  <2>3. /\ commands' \in Seq(S)
        /\ DOMAIN commands \subseteq DOMAIN commands'
        /\ \A i \in DOMAIN commands : commands'[i] = commands[i]
        /\ \A i \in DOMAIN commands' : i \in DOMAIN commands \/ commands'[i] = x
        /\ Len(commands) + 1 \in DOMAIN commands' /\ commands'[Len(commands) + 1] = x
    BY ONLY <2>2, Appended
  <2> QED
    BY <2>1, <2>3
<1>8. /\ at' \in [Callers -> [pc : Pcs, event : Event \cup {None}, timer : Nat]]
      /\ \A d \in Callers \ {c} : at'[d] = at[d]
      /\ \/ at[c].pc = "found" /\ at'[c].pc = "set id" /\ at'[c].timer = t /\ at'[c].event = e
         \/ at[c].pc = "start" /\ at'[c] = Running /\ at'[c].pc = "running" /\ at'[c].event = None
  <2>1. Running \in [pc : Pcs, event : Event \cup {None}, timer : Nat]
    BY DEF Running, Pcs
  <2>2. at \in [Callers -> [pc : Pcs, event : Event \cup {None}, timer : Nat]] /\ "set id" \in Pcs
    BY <1>1 DEF EventsTypeInv, Pcs
  <2>3. CASE at[c].pc = "found" /\ at' = [at EXCEPT ![c].pc = "set id"]
    BY <2>2, <2>3, <1>2
  <2>4. CASE at[c].pc = "start" /\ at' = [at EXCEPT ![c] = Running]
    BY <2>1, <2>2, <2>4 DEF Running
  <2> QED
    BY <2>3, <2>4
<1>9. EventsTypeInv'
  <2>1. \A k \in DOMAIN commands' : commands'[k].timer \in DOMAIN m_timers'
    BY <1>1, <1>4, <1>5, <1>6, <1>7 DEF EventsTypeInv
  <2> QED
    BY <2>1, <1>1, <1>6, <1>7, <1>8 DEF EventsTypeInv
<1>10. ASSUME NEW d \in Callers, d # c
       PROVE  at'[d] = at[d] /\ ~ Scheduling(d)' /\ ~ Scheduling(d)
  BY <1>10, <1>4, <1>8 DEF Scheduling
<1>11. at'[c].pc \in {"set id", "running"} /\ at'[Service] = at[Service] /\ Service \in Callers
  BY <1>4, <1>8 DEF Callers
<1>12. CallersInv'
  <2>1. ASSUME NEW d \in Callers, d # c
        PROVE  /\ at'[d].pc = "running" => at'[d] = Running
               /\ at'[d].pc \in {"overflow", "send"} => at'[d].event \in Event
               /\ at'[d].pc \in {"called", "send"} => d = Service /\ at'[d].timer \in DOMAIN m_timers
               /\ at'[d].pc = "called" => at'[d].event = None /\ ~ m_timers[at'[d].timer].active
    BY <1>1, <1>10, <2>1 DEF CallersInv
  <2>2. ASSUME Scheduling(c)'
        PROVE  c # Service /\ at'[c].event \in Event /\ at'[c].timer \in DOMAIN m_timers
    BY <2>2, <1>4, <1>8 DEF Scheduling
  <2> QED
    BY <2>1, <2>2, <1>6, <1>8, <1>10, <1>11 DEF CallersInv
<1>13. ASSUME NEW u, NEW f
       PROVE  /\ Commanded(u, f)' <=> Commanded(u, f) \/ (u = t /\ f = e)
              /\ Taken(u, f)' => Taken(u, f)
              /\ Taken(u, f) <=> (u = t /\ f = e)
              /\ Armed(u, f)' <=> Armed(u, f)
              /\ Called(u)' <=> Called(u)
              /\ ~ Setting(u, f)
  <2>1. Commanded(u, f)' <=> Commanded(u, f) \/ (u = t /\ f = e)
    BY <1>5, <1>7 DEF Commanded
  <2>2. Taken(u, f) <=> (u = t /\ f = e)
    BY <1>2, <1>3, <1>4 DEF Taken
  <2>3. Taken(u, f)' => u = t /\ f = e
    <3> SUFFICES ASSUME NEW d \in Callers, Scheduling(d)', at'[d].timer = u, at'[d].event = f
                 PROVE  u = t /\ f = e
      BY DEF Taken
    <3>1. d = c
      BY <1>10
    <3>2. at'[c].pc # "running"
      BY <3>1 DEF Scheduling
    <3> QED
      BY <3>1, <3>2, <1>8
  <2>4. (Armed(u, f)' <=> Armed(u, f)) /\ (Called(u)' <=> Called(u))
    BY <1>6, <1>11 DEF Armed, Called
  <2>5. ~ Setting(u, f)
    BY <1>3, <1>4 DEF Setting, Scheduling
  <2> QED
    BY <2>1, <2>2, <2>3, <2>4, <2>5
<1>14. ASSUME NEW u, NEW f PROVE Claims(u, f)' => Claims(u, f)
  BY <1>6, <1>13 DEF Claims
<1>15. IdsInv'
  <2>1. \A u, v \in DOMAIN m_timers' : m_timers'[u].id = m_timers'[v].id => u = v
    BY <1>1, <1>6 DEF IdsInv
  <2>2. \A d \in Callers : at'[d].pc \notin {"found", "start"}
    BY <1>10, <1>11 DEF Scheduling
  <2>3. ASSUME NEW d \in Callers, at'[d].pc = "set id", NEW u \in DOMAIN m_timers'
        PROVE  m_timers'[u].id # at'[d].event
    <3>1. d = c
      BY <2>3, <1>10 DEF Scheduling
    <3>2. at[c].pc = "found" /\ at'[c].event = at[c].event
      BY <2>3, <3>1, <1>2, <1>8
    <3> QED
      BY <3>1, <3>2, <1>1, <1>6 DEF IdsInv
  <2> QED
    BY <2>1, <2>2, <2>3 DEF IdsInv
<1>16. ClaimsInv'
  <2> SUFFICES ASSUME NEW u \in DOMAIN m_timers
               PROVE  /\ \A f, g \in Event : Claims(u, f)' /\ Claims(u, g)' => f = g \/ Upset(f, g)
                      /\ \A f \in Event : Commanded(u, f)' \/ Armed(u, f)' =>
                           m_timers[u].id = f \/ Setting(u, f)' \/ Upset(f, m_timers[u].id)
                      /\ Called(u)' =>
                           \/ m_timers[u].id \in upset
                           \/ /\ m_timers[u].for = m_timers[u].id
                              /\ \A f \in Event : ~ Commanded(u, f)' /\ ~ Taken(u, f)'
    BY <1>6 DEF ClaimsInv, Upset
  <2>1. \A f, g \in Event : Claims(u, f)' /\ Claims(u, g)' => f = g \/ Upset(f, g)
    BY <1>1, <1>14 DEF ClaimsInv
  <2>2. ASSUME NEW f \in Event, Commanded(u, f) \/ Armed(u, f)
        PROVE  m_timers[u].id = f \/ Upset(f, m_timers[u].id)
    BY <2>2, <1>1, <1>13 DEF ClaimsInv
  <2>3. Setting(t, e)' \/ m_timers[t].id = e
    <3>1. CASE at[c].pc = "found"
      BY <3>1, <1>8 DEF Setting
    <3>2. CASE at[c].pc = "start"
      BY <3>2, <1>1, <1>2 DEF IdsInv
    <3> QED
      BY <3>1, <3>2, <1>8
  <2>4. \A f \in Event : Commanded(u, f)' \/ Armed(u, f)' =>
          m_timers[u].id = f \/ Setting(u, f)' \/ Upset(f, m_timers[u].id)
    <3> SUFFICES ASSUME NEW f \in Event, Commanded(u, f)' \/ Armed(u, f)'
                 PROVE  m_timers[u].id = f \/ Setting(u, f)' \/ Upset(f, m_timers[u].id)
      OBVIOUS
    <3>1. Commanded(u, f) \/ Armed(u, f) \/ (u = t /\ f = e)
      BY <1>13
    <3> QED
      BY <3>1, <2>2, <2>3
  <2>5. ASSUME Called(u)', m_timers[u].id \notin upset
        PROVE  /\ m_timers[u].for = m_timers[u].id
               /\ \A f \in Event : ~ Commanded(u, f)' /\ ~ Taken(u, f)'
    <3>1. /\ m_timers[u].for = m_timers[u].id
          /\ \A f \in Event : ~ Commanded(u, f) /\ ~ Taken(u, f)
      BY <2>5, <1>1, <1>13 DEF ClaimsInv
    <3> QED
      BY <3>1, <1>13
  <2> QED
    BY <2>1, <2>4, <2>5
<1>17. UnsignalledInv'
  <2> SUFFICES ASSUME NEW f \in Event, string'[f] = "none"
               PROVE  /\ f \notin upset' /\ msgdup'[f] = "none" /\ dispatched'[f] = 0 /\ current' # f
                      /\ \A k \in DOMAIN m_taskqueue' : m_taskqueue'[k] # f
                      /\ \A k \in DOMAIN commands' : commands'[k].event # f
                      /\ \A u \in DOMAIN m_timers' : m_timers'[u].id # f /\ m_timers'[u].for # f
                      /\ \A d \in Callers : at'[d].event # f
    BY DEF UnsignalledInv
  <2>1. f # e /\ string[f] = "none"
    BY <1>1, <1>2, <1>6 DEF UnsignalledInv
  <2>4. /\ f \notin upset /\ msgdup[f] = "none" /\ dispatched[f] = 0 /\ current # f
        /\ \A k \in DOMAIN m_taskqueue : m_taskqueue[k] # f
        /\ \A k \in DOMAIN commands : commands[k].event # f
        /\ \A u \in DOMAIN m_timers : m_timers[u].id # f /\ m_timers[u].for # f
        /\ \A d \in Callers : at[d].event # f
    BY <2>1, <1>1 DEF UnsignalledInv
  <2>2. \A k \in DOMAIN commands' : commands'[k].event # f
    <3> SUFFICES ASSUME NEW k \in DOMAIN commands' PROVE commands'[k].event # f
      OBVIOUS
    <3>1. commands'[k].event = e \/ (k \in DOMAIN commands /\ commands'[k] = commands[k])
      BY ONLY <1>5, <1>7, k \in DOMAIN commands'
    <3> QED
      BY ONLY <3>1, <2>1, <2>4
  <2>3. \A d \in Callers : at'[d].event # f
    BY <2>1, <2>4, <1>8, EventsAssumption
  <2> QED
    BY <2>2, <2>3, <2>4, <1>6
<1>18. NotEarly'
  BY <1>1, <1>6, <1>11 DEF NotEarly
<1>19. ASSUME NEW f \in Event \ upset PROVE OnePlace(f)' /\ Kept(f)'
  <2>1. /\ (Sent(f)' <=> Sent(f)) /\ (InQueue(f)' <=> InQueue(f)) /\ (OnlyOnce(f) <=> OnlyOnce(f)')
    BY <1>6, <1>11 DEF Sent, InQueue, OnlyOnce
  <2>2. Overflows(f)' => Overflows(f)
    BY <1>10, <1>11 DEF Overflows
  <2>3. Waits(f)' => Waits(f)
    BY <1>6, <1>14 DEF Waits
  <2> QED
    BY <2>1, <2>2, <2>3, <1>1, <1>6, PlacesAlone
<1> QED
  BY <1>6, <1>9, <1>12, <1>15, <1>16, <1>17, <1>18, <1>19 DEF EventsIInv, PlacesInv

LEMMA ChangePeriodKeeps ==
  ASSUME EventsIInv, NEW c \in Callers, ChangePeriod(c)
  PROVE  EventsIInv'
BY CommandKeeps DEF ChangePeriod

LEMMA StartKeeps ==
  ASSUME EventsIInv, NEW c \in Callers, Start(c)
  PROVE  EventsIInv'
BY CommandKeeps DEF Start
LEMMA SetTimerIDKeeps ==
  ASSUME EventsIInv, NEW c \in Callers, SetTimerID(c)
  PROVE  EventsIInv'
<1>1. /\ EventsTypeInv /\ CallersInv /\ IdsInv /\ ClaimsInv /\ UnsignalledInv
      /\ PlacesInv /\ NotEarly
  BY DEF EventsIInv
<1>2. PICK t, e : t = at[c].timer /\ e = at[c].event
  OBVIOUS
<1>3. /\ at[c].pc = "set id" /\ at' = [at EXCEPT ![c].pc = "start"]
      /\ m_timers' = [m_timers EXCEPT ![t].id = e]
      /\ m_taskqueue' = m_taskqueue /\ current' = current /\ commands' = commands
      /\ string' = string /\ msgdup' = msgdup /\ dispatched' = dispatched /\ upset' = upset
  BY <1>2 DEF SetTimerID, memory, history
<1>4. Scheduling(c)
  BY <1>3 DEF Scheduling
<1>5. /\ e \in Event /\ t \in DOMAIN m_timers /\ t \in Nat /\ c # Service
      /\ \A d \in Callers : Scheduling(d) => d = c
  BY <1>1, <1>2, <1>4, Types DEF CallersInv
<1>6. /\ at' \in [Callers -> [pc : Pcs, event : Event \cup {None}, timer : Nat]]
      /\ at'[c].pc = "start" /\ at'[c].timer = t /\ at'[c].event = e
  BY <1>1, <1>2, <1>3 DEF EventsTypeInv, Pcs
<1>7. ASSUME NEW d \in Callers, d # c
      PROVE  at'[d] = at[d] /\ ~ Scheduling(d)' /\ ~ Scheduling(d)
  BY <1>7, <1>3, <1>5, <1>1 DEF Scheduling, EventsTypeInv
<1>8. at'[Service] = at[Service] /\ Service \in Callers
  BY <1>5, <1>7 DEF Callers
<1>9. /\ m_timers' \in Seq([id : Event, active : BOOLEAN, for : Event \cup {None}])
      /\ DOMAIN m_timers' = DOMAIN m_timers
      /\ \A u \in DOMAIN m_timers \ {t} : m_timers'[u] = m_timers[u]
      /\ m_timers'[t].id = e /\ m_timers'[t].active = m_timers[t].active
      /\ m_timers'[t].for = m_timers[t].for
  <2>1. m_timers \in Seq([id : Event, active : BOOLEAN, for : Event \cup {None}])
    BY <1>1 DEF EventsTypeInv
  <2>2. m_timers[t] \in [id : Event, active : BOOLEAN, for : Event \cup {None}]
    BY <2>1, <1>5, Elements
  <2>3. [m_timers[t] EXCEPT !.id = e] \in [id : Event, active : BOOLEAN, for : Event \cup {None}]
    BY <2>2, <1>5
  <2>4. m_timers' = [m_timers EXCEPT ![t] = [m_timers[t] EXCEPT !.id = e]]
    BY <1>3
  <2>5. m_timers' \in Seq([id : Event, active : BOOLEAN, for : Event \cup {None}])
        /\ DOMAIN m_timers' = DOMAIN m_timers
    BY <2>1, <2>3, <2>4, <1>5, Updated
  <2>6. /\ \A u \in DOMAIN m_timers \ {t} : m_timers'[u] = m_timers[u]
        /\ m_timers'[t] = [m_timers[t] EXCEPT !.id = e]
    BY <2>4, <1>5
  <2> QED
    BY <2>2, <2>5, <2>6
<1>10. \A u \in DOMAIN m_timers : /\ m_timers'[u].active = m_timers[u].active
                                  /\ m_timers'[u].for = m_timers[u].for
                                  /\ u # t => m_timers'[u].id = m_timers[u].id
  BY <1>9
<1>11. EventsTypeInv'
  <2>1. /\ \A u \in DOMAIN m_timers' : m_timers'[u].active => m_timers'[u].for \in Event
        /\ \A k \in DOMAIN commands' : commands'[k].timer \in DOMAIN m_timers'
    BY <1>1, <1>3, <1>9, <1>10 DEF EventsTypeInv
  <2> QED
    BY <2>1, <1>1, <1>3, <1>6, <1>9 DEF EventsTypeInv
<1>12. CallersInv'
  <2>1. ASSUME NEW d \in Callers, d # c
        PROVE  /\ at'[d].pc = "running" => at'[d] = Running
               /\ at'[d].pc \in {"overflow", "send"} => at'[d].event \in Event
               /\ at'[d].pc \in {"called", "send"} => d = Service /\ at'[d].timer \in DOMAIN m_timers'
               /\ at'[d].pc = "called" => at'[d].event = None /\ ~ m_timers'[at'[d].timer].active
    BY <1>1, <1>7, <1>9, <1>10, <2>1 DEF CallersInv
  <2> QED
    BY <2>1, <1>5, <1>6, <1>7, <1>9 DEF CallersInv
<1>13. Taken(t, e) /\ Claims(t, e) /\ \A u \in DOMAIN m_timers : m_timers[u].id # e
  BY <1>1, <1>2, <1>3, <1>4 DEF Taken, Claims, IdsInv
<1>14. ASSUME NEW u \in DOMAIN m_timers, NEW f
       PROVE  /\ Commanded(u, f)' <=> Commanded(u, f)
              /\ Taken(u, f)' => Taken(u, f)
              /\ Armed(u, f)' <=> Armed(u, f)
              /\ Called(u)' <=> Called(u)
              /\ Setting(u, f) => u = t /\ f = e
  <2>1. Commanded(u, f)' <=> Commanded(u, f)
    BY <1>3 DEF Commanded
  <2>2. Taken(u, f)' => Taken(u, f)
    <3> SUFFICES ASSUME NEW d \in Callers, Scheduling(d)', at'[d].timer = u, at'[d].event = f
                 PROVE  Taken(u, f)
      BY DEF Taken
    <3> QED
      BY <1>6, <1>7, <1>13
  <2>3. Armed(u, f)' <=> Armed(u, f)
    BY <1>10 DEF Armed
  <2>4. Called(u)' <=> Called(u)
    BY <1>8 DEF Called
  <2>5. Setting(u, f) => u = t /\ f = e
    BY <1>2, <1>5 DEF Setting, Scheduling
  <2> QED
    BY <2>1, <2>2, <2>3, <2>4, <2>5
<1>15. ASSUME NEW u \in DOMAIN m_timers, NEW f, Claims(u, f)' PROVE Claims(u, f)
  BY <1>9, <1>10, <1>13, <1>14, <1>15 DEF Claims
<1>16. \A f \in Event : Claims(t, f) => f = e \/ Upset(f, e)
  BY <1>1, <1>5, <1>13 DEF ClaimsInv
<1>17. IdsInv'
  <2>1. \A u, v \in DOMAIN m_timers' : m_timers'[u].id = m_timers'[v].id => u = v
    <3> SUFFICES ASSUME NEW u \in DOMAIN m_timers, NEW v \in DOMAIN m_timers,
                        m_timers'[u].id = m_timers'[v].id, u # v
                 PROVE  FALSE
      BY <1>9
    <3>1. CASE u = t
      BY <3>1, <1>9, <1>10, <1>13
    <3>2. CASE v = t
      BY <3>2, <1>9, <1>10, <1>13
    <3>3. CASE u # t /\ v # t
      BY <3>3, <1>1, <1>10 DEF IdsInv
    <3> QED
      BY <3>1, <3>2, <3>3
  <2>2. ASSUME NEW d \in Callers PROVE at'[d].pc \notin {"found", "set id"} /\ (at'[d].pc = "start" => d = c)
    BY <1>6, <1>7 DEF Scheduling
  <2> QED
    BY <2>1, <2>2, <1>6, <1>9 DEF IdsInv
<1>18. ClaimsInv'
  <2> SUFFICES ASSUME NEW u \in DOMAIN m_timers
               PROVE  /\ \A f, g \in Event : Claims(u, f)' /\ Claims(u, g)' => f = g \/ Upset(f, g)
                      /\ \A f \in Event : Commanded(u, f)' \/ Armed(u, f)' =>
                           m_timers'[u].id = f \/ Setting(u, f)' \/ Upset(f, m_timers'[u].id)
                      /\ Called(u)' =>
                           \/ m_timers'[u].id \in upset
                           \/ /\ m_timers'[u].for = m_timers'[u].id
                              /\ \A f \in Event : ~ Commanded(u, f)' /\ ~ Taken(u, f)'
    BY <1>3, <1>9 DEF ClaimsInv, Upset
  <2>1. \A f, g \in Event : Claims(u, f)' /\ Claims(u, g)' => f = g \/ Upset(f, g)
    BY <1>1, <1>15 DEF ClaimsInv
  <2>2. CASE u = t
    <3>1. ASSUME NEW f \in Event, Commanded(u, f)' \/ Armed(u, f)'
          PROVE  m_timers'[u].id = f \/ Upset(f, m_timers'[u].id)
      <4>1. Claims(t, f)
        BY <3>1, <2>2, <1>14 DEF Claims
      <4> QED
        BY <4>1, <2>2, <1>9, <1>16
    <3>2. ASSUME Called(u)' PROVE m_timers'[u].id \in upset
      <4>1. Claims(t, m_timers[t].id) /\ m_timers[t].id \in Event
        BY <3>2, <2>2, <1>1, <1>14, Types DEF Claims
      <4> QED
        BY <4>1, <2>2, <1>5, <1>9, <1>13, <1>16 DEF Upset
    <3> QED
      BY <2>1, <3>1, <3>2
  <2>3. CASE u # t
    <3>1. ASSUME NEW f \in Event, Commanded(u, f)' \/ Armed(u, f)'
          PROVE  m_timers'[u].id = f \/ Upset(f, m_timers'[u].id)
      BY <3>1, <2>3, <1>1, <1>10, <1>14 DEF ClaimsInv
    <3>2. ASSUME Called(u)'
          PROVE  \/ m_timers'[u].id \in upset
                 \/ /\ m_timers'[u].for = m_timers'[u].id
                    /\ \A f \in Event : ~ Commanded(u, f)' /\ ~ Taken(u, f)'
      <4>1. \/ m_timers[u].id \in upset
            \/ /\ m_timers[u].for = m_timers[u].id
               /\ \A f \in Event : ~ Commanded(u, f) /\ ~ Taken(u, f)
        BY <3>2, <1>1, <1>14 DEF ClaimsInv
      <4> QED
        BY <4>1, <2>3, <1>10, <1>14
    <3> QED
      BY <2>1, <3>1, <3>2
  <2> QED
    BY <2>2, <2>3
<1>19. UnsignalledInv'
  <2> SUFFICES ASSUME NEW f \in Event, string[f] = "none"
               PROVE  /\ f \notin upset /\ msgdup[f] = "none" /\ dispatched[f] = 0 /\ current # f
                      /\ \A k \in DOMAIN m_taskqueue : m_taskqueue[k] # f
                      /\ \A k \in DOMAIN commands : commands[k].event # f
                      /\ \A u \in DOMAIN m_timers' : m_timers'[u].id # f /\ m_timers'[u].for # f
                      /\ \A d \in Callers : at'[d].event # f
    BY <1>3 DEF UnsignalledInv
  <2>1. /\ f \notin upset /\ msgdup[f] = "none" /\ dispatched[f] = 0 /\ current # f
        /\ \A k \in DOMAIN m_taskqueue : m_taskqueue[k] # f
        /\ \A k \in DOMAIN commands : commands[k].event # f
        /\ \A u \in DOMAIN m_timers : m_timers[u].id # f /\ m_timers[u].for # f
        /\ \A d \in Callers : at[d].event # f
    BY <1>1 DEF UnsignalledInv
  <2>2. \A u \in DOMAIN m_timers' : m_timers'[u].id # f /\ m_timers'[u].for # f
    BY <2>1, <1>2, <1>9, <1>10
  <2>3. \A d \in Callers : at'[d].event # f
    BY <2>1, <1>2, <1>6, <1>7
  <2> QED
    BY <2>1, <2>2, <2>3
<1>20. NotEarly'
  <2>1. at[Service].pc = "send" => at[Service].timer \in DOMAIN m_timers
    BY <1>1, <1>8 DEF CallersInv
  <2> QED
    <3>1. ASSUME at[Service].pc = "send", at[Service].event \notin upset
          PROVE  m_timers'[at[Service].timer].for = at[Service].event
      <4>1. m_timers[at[Service].timer].for = at[Service].event
        BY <3>1, <1>1 DEF NotEarly
      <4> QED
        BY <2>1, <3>1, <4>1, <1>10
    <3>2. upset' = upset
      BY <1>3
    <3> QED
      BY ONLY <3>1, <3>2, <1>8 DEF NotEarly
<1>21. ASSUME NEW f \in Event \ upset PROVE OnePlace(f)' /\ Kept(f)'
  <2>1. /\ (Sent(f)' <=> Sent(f)) /\ (InQueue(f)' <=> InQueue(f)) /\ (OnlyOnce(f) <=> OnlyOnce(f)')
    BY <1>3, <1>8 DEF Sent, InQueue, OnlyOnce
  <2>2. Overflows(f)' => Overflows(f)
    BY <1>6, <1>7 DEF Overflows
  <2>3. Waits(f)' => Waits(f)
    BY <1>9, <1>15 DEF Waits
  <2> QED
    BY <2>1, <2>2, <2>3, <1>1, <1>3, PlacesAlone
<1> QED
  BY <1>3, <1>11, <1>12, <1>17, <1>18, <1>19, <1>20, <1>21 DEF EventsIInv, PlacesInv
LEMMA CreateKeeps ==
  ASSUME EventsIInv, NEW c \in Callers, NEW e \in Event, Create(c, e)
  PROVE  EventsIInv'
<1>1. /\ EventsTypeInv /\ CallersInv /\ IdsInv /\ ClaimsInv /\ UnsignalledInv
      /\ PlacesInv /\ NotEarly
  BY DEF EventsIInv
<1>2. PICK t, x : t = Len(m_timers) + 1 /\ x = [id |-> e, active |-> FALSE, for |-> None]
  OBVIOUS
<1>3. /\ CanSchedule(c, e) /\ string[e] = "none" /\ at[c].pc = "running"
      /\ \A d \in Callers : ~ Scheduling(d)
      /\ m_timers' = Append(m_timers, x)
      /\ m_taskqueue' = m_taskqueue /\ current' = current
      /\ commands' = commands /\ dispatched' = dispatched /\ upset' = upset
      /\ string' = [string EXCEPT ![e] = "live"] /\ msgdup' = [msgdup EXCEPT ![e] = "live"]
  BY <1>2 DEF Create, CanSchedule, CanCall, history
<1>4. /\ x.id = e /\ ~ x.active /\ x.for = None
      /\ x \in [id : Event, active : BOOLEAN, for : Event \cup {None}]
  BY <1>2
<1>5. /\ m_timers' \in Seq([id : Event, active : BOOLEAN, for : Event \cup {None}])
      /\ DOMAIN m_timers \subseteq DOMAIN m_timers'
      /\ \A u \in DOMAIN m_timers : m_timers'[u] = m_timers[u] /\ u # t
      /\ \A u \in DOMAIN m_timers' : u \in DOMAIN m_timers \/ u = t
      /\ t \in DOMAIN m_timers' /\ m_timers'[t] = x /\ t \in Nat /\ Len(m_timers') = t
  <2>1. PICK S : S = [id : Event, active : BOOLEAN, for : Event \cup {None}]
    OBVIOUS
  <2>2. m_timers \in Seq(S) /\ x \in S /\ m_timers' = Append(m_timers, x)
    BY <2>1, <1>1, <1>3, <1>4 DEF EventsTypeInv
  <2>3. /\ m_timers' \in Seq(S) /\ Len(m_timers) + 1 \in Nat
        /\ DOMAIN m_timers \subseteq DOMAIN m_timers'
        /\ \A i \in DOMAIN m_timers : m_timers'[i] = m_timers[i]
        /\ \A i \in DOMAIN m_timers' : i \in DOMAIN m_timers \/ i = Len(m_timers) + 1
        /\ Len(m_timers) + 1 \in DOMAIN m_timers' /\ m_timers'[Len(m_timers) + 1] = x
        /\ Len(m_timers) + 1 \notin DOMAIN m_timers /\ Len(m_timers') = Len(m_timers) + 1
    BY ONLY <2>2, Appended
  <2> QED
    BY <2>1, <2>3, <1>2
<1>6. at' = [at EXCEPT ![c] = Position("start", e, t)]
  BY <1>5 DEF Create
<1>7. /\ at' \in [Callers -> [pc : Pcs, event : Event \cup {None}, timer : Nat]]
      /\ at'[c].pc = "start" /\ at'[c].event = e /\ at'[c].timer = t
      /\ \A d \in Callers \ {c} : at'[d] = at[d] /\ ~ Scheduling(d)'
      /\ c # Service /\ at'[Service] = at[Service]
      /\ string' \in [Event -> {"none", "live", "freed"}] /\ string'[e] = "live"
      /\ msgdup' \in [Event -> {"none", "live", "freed"}] /\ msgdup'[e] = "live"
      /\ \A f \in Event \ {e} : string'[f] = string[f] /\ msgdup'[f] = msgdup[f]
  BY <1>1, <1>3, <1>5, <1>6, Schedules
<1>8. EventsTypeInv'
  <2>1. /\ \A u \in DOMAIN m_timers' : m_timers'[u].active => m_timers'[u].for \in Event
        /\ \A k \in DOMAIN commands' : commands'[k].timer \in DOMAIN m_timers'
    BY <1>1, <1>3, <1>4, <1>5 DEF EventsTypeInv
  <2> QED
    BY <2>1, <1>1, <1>3, <1>5, <1>7 DEF EventsTypeInv
<1>9. Service \in Callers
  BY DEF Callers
<1>10. CallersInv'
  <2>1. ASSUME NEW d \in Callers \ {c}
        PROVE  /\ at'[d].pc = "running" => at'[d] = Running
               /\ at'[d].pc \in {"overflow", "send"} => at'[d].event \in Event
               /\ at'[d].pc \in {"called", "send"} => d = Service /\ at'[d].timer \in DOMAIN m_timers'
               /\ at'[d].pc = "called" => at'[d].event = None /\ ~ m_timers'[at'[d].timer].active
    BY <1>1, <1>5, <1>7 DEF CallersInv
  <2>2. ASSUME NEW d \in Callers, Scheduling(d)'
        PROVE  /\ d # Service /\ at'[d].event \in Event /\ at'[d].timer \in DOMAIN m_timers'
               /\ \A y \in Callers : Scheduling(y)' => d = y
    BY <2>2, <1>5, <1>7
  <2> QED
    BY <2>1, <2>2, <1>7 DEF CallersInv
<1>11. /\ ~ Waits(e) /\ ~ Sent(e) /\ ~ Overflows(e) /\ ~ InQueue(e) /\ current # e
       /\ dispatched[e] = 0 /\ msgdup[e] = "none" /\ OnlyOnce(e)
       /\ \A u \in DOMAIN m_timers : ~ Claims(u, e)
  BY <1>1, <1>3, Nowhere
<1>12. /\ \A k \in DOMAIN commands : commands[k].event # e
       /\ \A u \in DOMAIN m_timers : m_timers[u].id # e /\ m_timers[u].for # e
  BY <1>1, <1>3 DEF UnsignalledInv
<1>13. ASSUME NEW u \in DOMAIN m_timers, NEW f
       PROVE  /\ Commanded(u, f)' <=> Commanded(u, f)
              /\ Armed(u, f)' <=> Armed(u, f)
              /\ Called(u)' <=> Called(u)
              /\ ~ Taken(u, f)' /\ ~ Setting(u, f)' /\ ~ Setting(u, f)
              /\ Claims(u, f)' => Claims(u, f)
  <2>1. /\ Commanded(u, f)' <=> Commanded(u, f)
        /\ Armed(u, f)' <=> Armed(u, f)
        /\ Called(u)' <=> Called(u)
    BY <1>3, <1>5, <1>7 DEF Commanded, Armed, Called
  <2>2. ~ Taken(u, f)'
    <3>1. \A d \in Callers : Scheduling(d)' => at'[d].timer = t
      BY <1>7
    <3> QED
      BY <3>1, <1>5 DEF Taken
  <2>3. ~ Setting(u, f)
    BY <1>3 DEF Setting, Scheduling
  <2>4. ~ Setting(u, f)'
    BY <1>7 DEF Setting, Scheduling
  <2> QED
    BY <2>1, <2>2, <2>3, <2>4, <1>5 DEF Claims
<1>14. /\ \A f : ~ Commanded(t, f)' /\ ~ Armed(t, f)'
       /\ ~ Called(t)'
  <2>1. \A k \in DOMAIN commands : commands[k].timer # t
    BY <1>1, <1>5 DEF EventsTypeInv
  <2>2. ~ Called(t)'
    BY <1>1, <1>5, <1>7, <1>9 DEF Called, CallersInv
  <2> QED
    BY <2>1, <2>2, <1>3, <1>4, <1>5 DEF Commanded, Armed
<1>15. \A f : Claims(t, f)' => f = e
  <2>1. \A f : Taken(t, f)' => f = e
    BY <1>7 DEF Taken
  <2> QED
    BY <2>1, <1>14 DEF Claims
<1>16. IdsInv'
  <2>1. ASSUME NEW u \in DOMAIN m_timers', NEW v \in DOMAIN m_timers', m_timers'[u].id = m_timers'[v].id
        PROVE  u = v
    <3>1. CASE u = t
      BY <3>1, <2>1, <1>4, <1>5, <1>12
    <3>2. CASE v = t
      BY <3>2, <2>1, <1>4, <1>5, <1>12
    <3>3. CASE u # t /\ v # t
      <4>1. u \in DOMAIN m_timers /\ v \in DOMAIN m_timers
        BY <3>3, <1>5
      <4>2. m_timers[u].id = m_timers[v].id
        BY <4>1, <2>1, <1>5
      <4> QED
        BY <4>1, <4>2, <1>1 DEF IdsInv
    <3> QED
      BY <3>1, <3>2, <3>3
  <2>2. ASSUME NEW d \in Callers PROVE at'[d].pc \notin {"found", "set id"} /\ (at'[d].pc = "start" => d = c)
    BY <1>7 DEF Scheduling
  <2>3. m_timers'[at'[c].timer].id = at'[c].event
    BY <1>4, <1>5, <1>7
  <2> QED
    BY <2>1, <2>2, <2>3 DEF IdsInv
<1>17. ClaimsInv'
  <2> SUFFICES ASSUME NEW u \in DOMAIN m_timers'
               PROVE  /\ \A f, g \in Event : Claims(u, f)' /\ Claims(u, g)' => f = g \/ Upset(f, g)
                      /\ \A f \in Event : Commanded(u, f)' \/ Armed(u, f)' =>
                           m_timers'[u].id = f \/ Setting(u, f)' \/ Upset(f, m_timers'[u].id)
                      /\ Called(u)' =>
                           \/ m_timers'[u].id \in upset
                           \/ /\ m_timers'[u].for = m_timers'[u].id
                              /\ \A f \in Event : ~ Commanded(u, f)' /\ ~ Taken(u, f)'
    BY <1>3 DEF ClaimsInv, Upset
  <2>1. CASE u = t
    BY <2>1, <1>14, <1>15
  <2>2. CASE u \in DOMAIN m_timers
    <3>1. \A f, g \in Event : Claims(u, f)' /\ Claims(u, g)' => f = g \/ Upset(f, g)
      BY <2>2, <1>1, <1>13 DEF ClaimsInv
    <3>2. ASSUME NEW f \in Event, Commanded(u, f)' \/ Armed(u, f)'
          PROVE  m_timers'[u].id = f \/ Upset(f, m_timers'[u].id)
      BY <2>2, <3>2, <1>1, <1>5, <1>13 DEF ClaimsInv
    <3>3. ASSUME Called(u)'
          PROVE  \/ m_timers'[u].id \in upset
                 \/ /\ m_timers'[u].for = m_timers'[u].id
                    /\ \A f \in Event : ~ Commanded(u, f)' /\ ~ Taken(u, f)'
      <4>1. \/ m_timers[u].id \in upset
            \/ /\ m_timers[u].for = m_timers[u].id
               /\ \A f \in Event : ~ Commanded(u, f) /\ ~ Taken(u, f)
        BY <2>2, <3>3, <1>1, <1>13 DEF ClaimsInv
      <4> QED
        BY <2>2, <4>1, <1>5, <1>13
    <3> QED
      BY <3>1, <3>2, <3>3
  <2> QED
    BY <2>1, <2>2, <1>5
<1>18. UnsignalledInv'
  <2> SUFFICES ASSUME NEW f \in Event, string'[f] = "none"
               PROVE  /\ f \notin upset' /\ msgdup'[f] = "none" /\ dispatched'[f] = 0 /\ current' # f
                      /\ \A k \in DOMAIN m_taskqueue' : m_taskqueue'[k] # f
                      /\ \A k \in DOMAIN commands' : commands'[k].event # f
                      /\ \A u \in DOMAIN m_timers' : m_timers'[u].id # f /\ m_timers'[u].for # f
                      /\ \A d \in Callers : at'[d].event # f
    BY DEF UnsignalledInv
  <2>1. f # e /\ string[f] = "none" /\ f # None
    BY <1>7, EventsAssumption
  <2>2. /\ f \notin upset /\ msgdup[f] = "none" /\ dispatched[f] = 0 /\ current # f
        /\ \A k \in DOMAIN m_taskqueue : m_taskqueue[k] # f
        /\ \A k \in DOMAIN commands : commands[k].event # f
        /\ \A u \in DOMAIN m_timers : m_timers[u].id # f /\ m_timers[u].for # f
        /\ \A d \in Callers : at[d].event # f
    BY <2>1, <1>1 DEF UnsignalledInv
  <2>3. \A u \in DOMAIN m_timers' : m_timers'[u].id # f /\ m_timers'[u].for # f
    BY <2>1, <2>2, <1>4, <1>5
  <2>4. \A d \in Callers : at'[d].event # f
    BY <2>1, <2>2, <1>7
  <2> QED
    BY <2>1, <2>2, <2>3, <2>4, <1>3, <1>7
<1>19. NotEarly'
  <2>1. at[Service].pc = "send" => at[Service].timer \in DOMAIN m_timers
    BY <1>1, <1>9 DEF CallersInv
  <2> QED
    BY <2>1, <1>1, <1>3, <1>5, <1>7 DEF NotEarly
<1>20. ASSUME NEW f \in Event \ upset PROVE OnePlace(f)' /\ Kept(f)'
  <2>1. /\ (Sent(f)' <=> Sent(f)) /\ (InQueue(f)' <=> InQueue(f)) /\ (OnlyOnce(f) <=> OnlyOnce(f)')
    BY <1>3, <1>7 DEF Sent, InQueue, OnlyOnce
  <2>2. Overflows(f)' => Overflows(f)
    BY <1>7 DEF Overflows
  <2>3. CASE f # e
    <3>1. Waits(f)' => Waits(f)
      BY <2>3, <1>5, <1>13, <1>15 DEF Waits
    <3> QED
      BY <2>1, <2>2, <2>3, <3>1, <1>1, <1>3, <1>7, PlacesAlone
  <2>4. CASE f = e
    <3>1. /\ ~ Sent(f)' /\ ~ Overflows(f)' /\ ~ InQueue(f)' /\ current' # f /\ OnlyOnce(f)'
          /\ string'[f] = "live" /\ msgdup'[f] = "live" /\ dispatched'[f] = 0
      BY <2>1, <2>2, <2>4, <1>3, <1>7, <1>11
    <3> QED
      BY <3>1 DEF OnePlace, Kept
  <2> QED
    BY <2>3, <2>4
<1> QED
  BY <1>3, <1>8, <1>10, <1>16, <1>17, <1>18, <1>19, <1>20 DEF EventsIInv, PlacesInv
LEMMA ExecuteKeeps ==
  ASSUME EventsIInv, Execute
  PROVE  EventsIInv'
<1>1. /\ EventsTypeInv /\ CallersInv /\ IdsInv /\ ClaimsInv /\ UnsignalledInv
      /\ PlacesInv /\ NotEarly
  BY DEF EventsIInv
<1>2. PICK h : h = Head(commands)
  OBVIOUS
<1>3. PICK t, e : t = h.timer /\ e = h.event
  OBVIOUS
<1>4. /\ at[Service].pc = "running" /\ commands # <<>>
      /\ m_timers' = [m_timers EXCEPT ![t].active = TRUE, ![t].for = e]
      /\ commands' = Tail(commands)
      /\ m_taskqueue' = m_taskqueue /\ current' = current /\ at' = at
      /\ string' = string /\ msgdup' = msgdup /\ dispatched' = dispatched /\ upset' = upset
  BY <1>2, <1>3 DEF Execute, memory, history
<1>5. /\ commands' \in Seq([op : {"period", "start"}, timer : Nat, event : Event])
      /\ h = commands[1] /\ 1 \in DOMAIN commands
      /\ h \in [op : {"period", "start"}, timer : Nat, event : Event]
      /\ \A i \in DOMAIN commands' : i + 1 \in DOMAIN commands /\ commands'[i] = commands[i + 1]
  <2>1. PICK S : S = [op : {"period", "start"}, timer : Nat, event : Event]
    OBVIOUS
  <2>2. commands \in Seq(S) /\ commands # <<>> /\ commands' = Tail(commands)
    BY <2>1, <1>1, <1>4 DEF EventsTypeInv
  <2>3. /\ commands' \in Seq(S) /\ Head(commands) = commands[1] /\ Head(commands) \in S
        /\ 1 \in DOMAIN commands
        /\ \A i \in DOMAIN commands' : i + 1 \in DOMAIN commands /\ commands'[i] = commands[i + 1]
    BY ONLY <2>2, Shortened
  <2> QED
    BY <2>1, <2>3, <1>2
<1>6. t \in DOMAIN m_timers /\ t \in Nat /\ e \in Event /\ Commanded(t, e)
  BY <1>1, <1>3, <1>5 DEF EventsTypeInv, Commanded
<1>7. /\ m_timers' \in Seq([id : Event, active : BOOLEAN, for : Event \cup {None}])
      /\ DOMAIN m_timers' = DOMAIN m_timers
      /\ \A u \in DOMAIN m_timers \ {t} : m_timers'[u] = m_timers[u]
      /\ m_timers'[t].id = m_timers[t].id /\ m_timers'[t].active /\ m_timers'[t].for = e
  <2>1. m_timers \in Seq([id : Event, active : BOOLEAN, for : Event \cup {None}])
    BY <1>1 DEF EventsTypeInv
  <2>2. m_timers[t] \in [id : Event, active : BOOLEAN, for : Event \cup {None}]
    BY <2>1, <1>6, Elements
  <2>3. PICK x : x = [m_timers[t] EXCEPT !.active = TRUE, !.for = e]
    OBVIOUS
  <2>4. /\ x \in [id : Event, active : BOOLEAN, for : Event \cup {None}]
        /\ x.id = m_timers[t].id /\ x.active /\ x.for = e
    BY <2>2, <2>3, <1>6
  <2>5. m_timers' = [m_timers EXCEPT ![t] = x]
    BY <2>1, <2>3, <1>4, <1>6
  <2>6. m_timers' \in Seq([id : Event, active : BOOLEAN, for : Event \cup {None}])
        /\ DOMAIN m_timers' = DOMAIN m_timers
    BY <2>1, <2>4, <2>5, <1>6, Updated
  <2>7. /\ \A u \in DOMAIN m_timers \ {t} : m_timers'[u] = m_timers[u]
        /\ m_timers'[t] = x
    BY <2>5, <1>6
  <2> QED
    BY <2>4, <2>6, <2>7
<1>8. EventsTypeInv'
  <2>1. /\ \A u \in DOMAIN m_timers' : m_timers'[u].active => m_timers'[u].for \in Event
        /\ \A k \in DOMAIN commands' : commands'[k].timer \in DOMAIN m_timers'
    BY <1>1, <1>5, <1>6, <1>7 DEF EventsTypeInv
  <2> QED
    BY <2>1, <1>1, <1>4, <1>5, <1>7 DEF EventsTypeInv
<1>9. Service \in Callers /\ \A d \in Callers : at[d].pc \notin {"called", "send"}
  BY <1>1, <1>4 DEF CallersInv, Callers
<1>10. CallersInv'
  <2>1. \A d \in Callers : Scheduling(d)' <=> Scheduling(d)
    BY <1>4 DEF Scheduling
  <2> QED
    BY <2>1, <1>1, <1>4, <1>7, <1>9 DEF CallersInv
<1>11. ASSUME NEW u \in DOMAIN m_timers, NEW f
       PROVE  /\ Commanded(u, f)' => Commanded(u, f)
              /\ Taken(u, f)' <=> Taken(u, f)
              /\ Armed(u, f)' => Armed(u, f) \/ Commanded(u, f)
              /\ ~ Called(u) /\ ~ Called(u)'
              /\ Setting(u, f)' <=> Setting(u, f)
              /\ Claims(u, f)' => Claims(u, f)
              /\ m_timers'[u].id = m_timers[u].id
  <2>1. Commanded(u, f)' => Commanded(u, f)
    BY <1>5 DEF Commanded
  <2>2. (Taken(u, f)' <=> Taken(u, f)) /\ (Setting(u, f)' <=> Setting(u, f))
    BY <1>4 DEF Taken, Setting, Scheduling
  <2>3. Armed(u, f)' => Armed(u, f) \/ Commanded(u, f)
    <3>1. CASE u = t
      BY <3>1, <1>6, <1>7 DEF Armed
    <3>2. CASE u # t
      BY <3>2, <1>7 DEF Armed
    <3> QED
      BY <3>1, <3>2
  <2>4. ~ Called(u) /\ ~ Called(u)'
    BY <1>4 DEF Called
  <2>5. m_timers'[u].id = m_timers[u].id
    BY <1>7
  <2> QED
    BY <2>1, <2>2, <2>3, <2>4, <2>5 DEF Claims
<1>12. IdsInv'
  <2>1. \A u, v \in DOMAIN m_timers' : m_timers'[u].id = m_timers'[v].id => u = v
    <3> SUFFICES ASSUME NEW u \in DOMAIN m_timers, NEW v \in DOMAIN m_timers,
                        m_timers'[u].id = m_timers'[v].id
                 PROVE  u = v
      BY <1>7
    <3>1. m_timers[u].id = m_timers[v].id
      BY <1>11
    <3> QED
      BY <3>1, <1>1 DEF IdsInv
  <2>2. ASSUME NEW d \in Callers
        PROVE  /\ at[d].pc \in {"found", "set id"} =>
                    \A u \in DOMAIN m_timers : m_timers'[u].id # at[d].event
               /\ at[d].pc = "start" => m_timers'[at[d].timer].id = at[d].event
    <3>1. at[d].pc = "start" => at[d].timer \in DOMAIN m_timers
      BY <1>1 DEF CallersInv, Scheduling
    <3> QED
      BY <3>1, <1>1, <1>11 DEF IdsInv
  <2>3. ASSUME NEW d \in Callers, at[d].pc = "found", NEW u \in DOMAIN m_timers
        PROVE  ~ Commanded(u, at[d].event)' /\ m_timers'[u].for # at[d].event
    <3>1. /\ ~ Commanded(u, at[d].event) /\ m_timers[u].for # at[d].event
          /\ ~ Commanded(t, at[d].event)
      BY <2>3, <1>1, <1>6 DEF IdsInv
    <3>2. ~ Commanded(u, at[d].event)'
      BY <3>1, <1>4, <1>5 DEF Commanded
    <3>3. m_timers'[u].for # at[d].event
      BY <3>1, <1>6, <1>7
    <3> QED
      BY <3>2, <3>3
  <2>4. at' = at /\ DOMAIN m_timers' = DOMAIN m_timers
    BY <1>4, <1>7
  <2>5. ASSUME NEW d \in Callers
        PROVE  /\ at'[d].pc \in {"found", "set id"} =>
                    \A u \in DOMAIN m_timers' : m_timers'[u].id # at'[d].event
               /\ at'[d].pc = "start" => m_timers'[at'[d].timer].id = at'[d].event
    BY <2>2, <2>4
  <2>6. ASSUME NEW d \in Callers, at'[d].pc = "found", NEW u \in DOMAIN m_timers'
        PROVE  ~ Commanded(u, at[d].event)' /\ m_timers'[u].for # at'[d].event
    BY <2>3, <2>4, <2>6
  <2> QED
    BY ONLY <2>1, <2>5, <2>6 DEF IdsInv
<1>13. ClaimsInv'
  <2> SUFFICES ASSUME NEW u \in DOMAIN m_timers
               PROVE  /\ \A f, g \in Event : Claims(u, f)' /\ Claims(u, g)' => f = g \/ Upset(f, g)
                      /\ \A f \in Event : Commanded(u, f)' \/ Armed(u, f)' =>
                           m_timers'[u].id = f \/ Setting(u, f)' \/ Upset(f, m_timers'[u].id)
                      /\ ~ Called(u)'
    BY <1>4, <1>7 DEF ClaimsInv, Upset
  <2>1. \A f, g \in Event : Claims(u, f)' /\ Claims(u, g)' => f = g \/ Upset(f, g)
    BY <1>1, <1>11 DEF ClaimsInv
  <2>2. ASSUME NEW f \in Event, Commanded(u, f)' \/ Armed(u, f)'
        PROVE  m_timers'[u].id = f \/ Setting(u, f)' \/ Upset(f, m_timers'[u].id)
    BY <2>2, <1>1, <1>11 DEF ClaimsInv
  <2> QED
    BY <2>1, <2>2, <1>11
<1>14. UnsignalledInv'
  <2> SUFFICES ASSUME NEW f \in Event, string[f] = "none"
               PROVE  /\ f \notin upset /\ msgdup[f] = "none" /\ dispatched[f] = 0 /\ current # f
                      /\ \A k \in DOMAIN m_taskqueue : m_taskqueue[k] # f
                      /\ \A k \in DOMAIN commands' : commands'[k].event # f
                      /\ \A u \in DOMAIN m_timers' : m_timers'[u].id # f /\ m_timers'[u].for # f
                      /\ \A d \in Callers : at[d].event # f
    BY <1>4 DEF UnsignalledInv
  <2>1. /\ f \notin upset /\ msgdup[f] = "none" /\ dispatched[f] = 0 /\ current # f
        /\ \A k \in DOMAIN m_taskqueue : m_taskqueue[k] # f
        /\ \A k \in DOMAIN commands : commands[k].event # f
        /\ \A u \in DOMAIN m_timers : m_timers[u].id # f /\ m_timers[u].for # f
        /\ \A d \in Callers : at[d].event # f
    BY <1>1 DEF UnsignalledInv
  <2>2. e # f
    BY <2>1, <1>3, <1>5
  <2>3. \A u \in DOMAIN m_timers' : m_timers'[u].id # f /\ m_timers'[u].for # f
    BY <2>1, <2>2, <1>7
  <2>4. \A k \in DOMAIN commands' : commands'[k].event # f
    BY <2>1, <1>5
  <2> QED
    BY <2>1, <2>3, <2>4
<1>15. NotEarly'
  BY <1>4 DEF NotEarly
<1>16. ASSUME NEW f \in Event \ upset PROVE OnePlace(f)' /\ Kept(f)'
  <2>1. /\ (Sent(f)' <=> Sent(f)) /\ (InQueue(f)' <=> InQueue(f)) /\ (OnlyOnce(f) <=> OnlyOnce(f)')
        /\ (Overflows(f)' <=> Overflows(f))
    BY <1>4 DEF Sent, InQueue, OnlyOnce, Overflows
  <2>2. Waits(f)' => Waits(f)
    BY <1>7, <1>11 DEF Waits
  <2> QED
    BY <2>1, <2>2, <1>1, <1>4, PlacesAlone
<1> QED
  BY <1>4, <1>8, <1>10, <1>12, <1>13, <1>14, <1>15, <1>16 DEF EventsIInv, PlacesInv
LEMMA ExpireKeeps ==
  ASSUME EventsIInv, NEW t \in DOMAIN m_timers, Expire(t)
  PROVE  EventsIInv'
<1>1. /\ EventsTypeInv /\ CallersInv /\ IdsInv /\ ClaimsInv /\ UnsignalledInv
      /\ PlacesInv /\ NotEarly
  BY DEF EventsIInv
<1>2. PICK i, a : i = m_timers[t].id /\ a = m_timers[t].for
  OBVIOUS
<1>3. /\ at[Service].pc = "running" /\ m_timers[t].active
      /\ m_timers' = [m_timers EXCEPT ![t].active = FALSE]
      /\ at' = [at EXCEPT ![Service] = Position("called", None, t)]
      /\ m_taskqueue' = m_taskqueue /\ current' = current /\ commands' = commands
      /\ string' = string /\ msgdup' = msgdup /\ dispatched' = dispatched
  BY DEF Expire, memory
<1>4. upset' = IF AtWork(t) \/ Starting(t) # {}
               THEN upset \cup {i, a} \cup {at[c].event : c \in Starting(t)} ELSE upset
  BY <1>2 DEF Expire
<1>5. i \in Event /\ a \in Event /\ t \in Nat /\ Service \in Callers
  BY <1>1, <1>2, <1>3, Types DEF EventsTypeInv, Callers
<1>6. /\ at' \in [Callers -> [pc : Pcs, event : Event \cup {None}, timer : Nat]]
      /\ at'[Service].pc = "called" /\ at'[Service].event = None /\ at'[Service].timer = t
      /\ \A d \in Callers \ {Service} : at'[d] = at[d]
  <2>1. Position("called", None, t) \in [pc : Pcs, event : Event \cup {None}, timer : Nat]
    BY <1>5 DEF Position, Pcs
  <2> QED
    BY <2>1, <1>1, <1>3, <1>5 DEF EventsTypeInv, Position
<1>7. /\ m_timers' \in Seq([id : Event, active : BOOLEAN, for : Event \cup {None}])
      /\ DOMAIN m_timers' = DOMAIN m_timers
      /\ \A u \in DOMAIN m_timers \ {t} : m_timers'[u] = m_timers[u]
      /\ m_timers'[t].id = i /\ ~ m_timers'[t].active /\ m_timers'[t].for = a
  <2>1. m_timers \in Seq([id : Event, active : BOOLEAN, for : Event \cup {None}])
    BY <1>1 DEF EventsTypeInv
  <2>2. m_timers[t] \in [id : Event, active : BOOLEAN, for : Event \cup {None}]
    BY <2>1, Elements
  <2>3. PICK x : x = [m_timers[t] EXCEPT !.active = FALSE]
    OBVIOUS
  <2>4. /\ x \in [id : Event, active : BOOLEAN, for : Event \cup {None}]
        /\ x.id = i /\ ~ x.active /\ x.for = a
    BY <2>2, <2>3, <1>2
  <2>5. m_timers' = [m_timers EXCEPT ![t] = x]
    BY <2>3, <1>3
  <2>6. m_timers' \in Seq([id : Event, active : BOOLEAN, for : Event \cup {None}])
        /\ DOMAIN m_timers' = DOMAIN m_timers
    BY <2>1, <2>4, <2>5, Updated
  <2>7. /\ \A u \in DOMAIN m_timers \ {t} : m_timers'[u] = m_timers[u]
        /\ m_timers'[t] = x
    BY <2>5
  <2> QED
    BY <2>4, <2>6, <2>7
<1>8. \A u \in DOMAIN m_timers : /\ m_timers'[u].id = m_timers[u].id
                                 /\ m_timers'[u].for = m_timers[u].for
                                 /\ m_timers'[u].active <=> m_timers[u].active /\ u # t
  BY <1>2, <1>7
<1>9. \A d \in Callers : /\ at[d].pc \notin {"called", "send"}
                         /\ at'[d].pc # "called" \/ d = Service
                         /\ Scheduling(d)' <=> Scheduling(d)
                         /\ Scheduling(d) => at'[d] = at[d]
  <2>1. \A d \in Callers : at[d].pc \notin {"called", "send"}
    BY <1>1, <1>3 DEF CallersInv
  <2>2. ~ Scheduling(Service) /\ ~ Scheduling(Service)'
    BY <1>3, <1>6 DEF Scheduling
  <2>3. ASSUME NEW d \in Callers, d # Service
        PROVE  at'[d] = at[d] /\ (Scheduling(d)' <=> Scheduling(d)) /\ at'[d].pc # "called"
    BY <2>1, <2>3, <1>6 DEF Scheduling
  <2> QED
    BY <2>1, <2>2, <2>3
<1>10. /\ upset \subseteq upset' /\ upset' \subseteq Event
       /\ \A f \in upset' : f \in upset \/ f = i \/ f = a \/ \E c \in Starting(t) : f = at[c].event
  <2>1. \A c \in Starting(t) : at[c].event \in Event
    BY <1>1 DEF Starting, CallersInv
  <2> QED
    BY <2>1, <1>1, <1>4, <1>5 DEF EventsTypeInv
<1>11. EventsTypeInv'
  <2>1. /\ \A u \in DOMAIN m_timers' : m_timers'[u].active => m_timers'[u].for \in Event
        /\ \A k \in DOMAIN commands' : commands'[k].timer \in DOMAIN m_timers'
    BY <1>1, <1>3, <1>7, <1>8 DEF EventsTypeInv
  <2> QED
    BY <2>1, <1>1, <1>3, <1>6, <1>7, <1>10 DEF EventsTypeInv
<1>12. CallersInv'
  <2>1. ASSUME NEW d \in Callers, d # Service
        PROVE  /\ at'[d].pc = "running" => at'[d] = Running
               /\ at'[d].pc \in {"overflow", "send"} => at'[d].event \in Event
               /\ at'[d].pc \notin {"called", "send"}
    BY <2>1, <1>1, <1>6, <1>9 DEF CallersInv
  <2>2. ASSUME NEW d \in Callers, Scheduling(d)'
        PROVE  /\ d # Service /\ at'[d].event \in Event /\ at'[d].timer \in DOMAIN m_timers'
               /\ \A y \in Callers : Scheduling(y)' => d = y
    BY <2>2, <1>1, <1>7, <1>9 DEF CallersInv
  <2> QED
    BY <2>1, <2>2, <1>6, <1>7 DEF CallersInv
<1>13. ASSUME NEW u \in DOMAIN m_timers, NEW f
       PROVE  /\ Commanded(u, f)' <=> Commanded(u, f)
              /\ Taken(u, f)' <=> Taken(u, f)
              /\ Armed(u, f)' <=> Armed(u, f) /\ u # t
              /\ ~ Called(u) /\ (Called(u)' <=> u = t)
              /\ Setting(u, f)' <=> Setting(u, f)
  <2>1. Commanded(u, f)' <=> Commanded(u, f)
    BY <1>3 DEF Commanded
  <2>2. Taken(u, f)' <=> Taken(u, f)
    <3>1. Taken(u, f) => Taken(u, f)'
      BY <1>9 DEF Taken
    <3>2. Taken(u, f)' => Taken(u, f)
      BY <1>9 DEF Taken
    <3> QED
      BY <3>1, <3>2
  <2>3. Armed(u, f)' <=> Armed(u, f) /\ u # t
    BY <1>8 DEF Armed
  <2>4. ~ Called(u) /\ (Called(u)' <=> u = t)
    BY <1>3, <1>6 DEF Called
  <2>5. Setting(u, f)' <=> Setting(u, f)
    <3>1. \A d \in Callers : at[d].pc = "set id" \/ at'[d].pc = "set id" => at'[d] = at[d]
      BY <1>9 DEF Scheduling
    <3> QED
      BY <3>1 DEF Setting
  <2> QED
    BY <2>1, <2>2, <2>3, <2>4, <2>5
<1>14. IdsInv'
  <2>1. ASSUME NEW u \in DOMAIN m_timers, NEW v \in DOMAIN m_timers, m_timers'[u].id = m_timers'[v].id
        PROVE  u = v
    BY <2>1, <1>1, <1>8 DEF IdsInv
  <2>2. ASSUME NEW d \in Callers, at'[d].pc \in {"found", "set id", "start"}
        PROVE  at'[d] = at[d] /\ Scheduling(d)
    BY <2>2, <1>9 DEF Scheduling
  <2>3. ASSUME NEW d \in Callers
        PROVE  /\ at'[d].pc \in {"found", "set id"} =>
                    \A u \in DOMAIN m_timers' : m_timers'[u].id # at'[d].event
               /\ at'[d].pc = "start" => m_timers'[at'[d].timer].id = at'[d].event
    <3>1. Scheduling(d) => at[d].timer \in DOMAIN m_timers
      BY <1>1 DEF CallersInv
    <3>2. CASE at'[d].pc \in {"found", "set id"}
      <4>1. at'[d] = at[d]
        BY <2>2, <3>2
      <4>2. \A u \in DOMAIN m_timers : m_timers[u].id # at[d].event
        BY <3>2, <4>1, <1>1 DEF IdsInv
      <4>3. at[d].pc # "start"
        BY <3>2, <4>1
      <4> QED
        BY <4>1, <4>2, <4>3, <1>7, <1>8
    <3>3. CASE at'[d].pc = "start"
      <4>1. at'[d] = at[d] /\ Scheduling(d)
        BY <2>2, <3>3
      <4>2. m_timers[at[d].timer].id = at[d].event
        BY <3>3, <4>1, <1>1 DEF IdsInv
      <4> QED
        BY <3>1, <3>3, <4>1, <4>2, <1>8
    <3>4. CASE at'[d].pc \notin {"found", "set id", "start"}
      BY <3>4
    <3> QED
      BY <3>2, <3>3, <3>4
  <2>4. ASSUME NEW d \in Callers, at'[d].pc = "found", NEW u \in DOMAIN m_timers'
        PROVE  ~ Commanded(u, at[d].event)' /\ m_timers'[u].for # at'[d].event
    <3>1. at'[d] = at[d] /\ u \in DOMAIN m_timers
      BY <2>2, <2>4, <1>7
    <3>2. ~ Commanded(u, at[d].event) /\ m_timers[u].for # at[d].event
      BY <2>4, <3>1, <1>1 DEF IdsInv
    <3>3. ~ Commanded(u, at[d].event)'
      BY <3>1, <3>2, <1>3 DEF Commanded
    <3> QED
      BY <3>1, <3>2, <3>3, <1>8
  <2> QED
    BY ONLY <2>1, <2>3, <2>4, <1>7 DEF IdsInv
<1>15. Armed(t, a) /\ Claims(t, a)
  BY <1>2, <1>3 DEF Armed, Claims
<1>16. \A f : Claims(t, f)' => f = i \/ Commanded(t, f) \/ Taken(t, f)
  BY <1>7, <1>13 DEF Claims
<1>17. /\ \A f, g \in Event : Claims(t, f)' /\ Claims(t, g)' => f = g \/ Upset(f, g)'
       /\ \A f \in Event : Commanded(t, f)' => Upset(f, i)'
       /\ i \in upset' \/ (a = i /\ \A f \in Event : ~ Commanded(t, f)' /\ ~ Taken(t, f)')
       /\ \A f \in Event : Claims(t, f)' => f \in upset' \/ Claims(t, f)
  <2>1. CASE AtWork(t) \/ Starting(t) # {}
    <3>1. /\ i \in upset' /\ a \in upset'
          /\ \A f : Taken(t, f) => f \in upset'
      BY <1>4, <2>1 DEF Taken, Starting
    <3>2. \A f \in Event : Commanded(t, f) => f \in upset'
      <4>1. \A f \in Event : Claims(t, f) => f = a \/ f \in upset
        BY <1>1, <1>5, <1>15 DEF ClaimsInv, Upset
      <4> QED
        BY <3>1, <4>1, <1>10 DEF Claims
    <3> QED
      BY <3>1, <3>2, <1>13, <1>16 DEF Upset
  <2>2. CASE ~ AtWork(t) /\ Starting(t) = {}
    <3>1. \A f : ~ Commanded(t, f) /\ ~ Taken(t, f) /\ ~ Setting(t, f)
      BY <2>2 DEF AtWork, Starting, Commanded, Taken, Setting, Scheduling
    <3>2. i = a \/ i \in upset
      BY <3>1, <1>1, <1>2, <1>5, <1>15 DEF ClaimsInv, Upset
    <3> QED
      BY <3>1, <3>2, <1>10, <1>13, <1>15, <1>16
  <2> QED
    BY <2>1, <2>2
<1>18. ASSUME NEW u \in DOMAIN m_timers, u # t, NEW f
       PROVE  ~ Called(u)' /\ (Claims(u, f)' => Claims(u, f))
  BY <1>13, <1>18 DEF Claims
<1>19. ClaimsInv'
  <2> SUFFICES ASSUME NEW u \in DOMAIN m_timers
               PROVE  /\ \A f, g \in Event : Claims(u, f)' /\ Claims(u, g)' => f = g \/ Upset(f, g)'
                      /\ \A f \in Event : Commanded(u, f)' \/ Armed(u, f)' =>
                           m_timers'[u].id = f \/ Setting(u, f)' \/ Upset(f, m_timers[u].id)'
                      /\ Called(u)' =>
                           \/ m_timers'[u].id \in upset'
                           \/ /\ m_timers'[u].for = m_timers'[u].id
                              /\ \A f \in Event : ~ Commanded(u, f)' /\ ~ Taken(u, f)'
    BY <1>7 DEF ClaimsInv
  <2>1. CASE u = t
    BY <2>1, <1>7, <1>13, <1>17 DEF Upset
  <2>2. CASE u # t
    <3>1. \A f, g \in Event : Claims(u, f)' /\ Claims(u, g)' => f = g \/ Upset(f, g)'
      BY <2>2, <1>1, <1>10, <1>18 DEF ClaimsInv, Upset
    <3>2. ASSUME NEW f \in Event, Commanded(u, f)' \/ Armed(u, f)'
          PROVE  m_timers'[u].id = f \/ Setting(u, f)' \/ Upset(f, m_timers[u].id)'
      BY <2>2, <3>2, <1>1, <1>8, <1>10, <1>13 DEF ClaimsInv, Upset
    <3> QED
      BY <2>2, <3>1, <3>2, <1>18
  <2> QED
    BY <2>1, <2>2
<1>20. UnsignalledInv'
  <2> SUFFICES ASSUME NEW f \in Event, string[f] = "none"
               PROVE  /\ f \notin upset' /\ msgdup[f] = "none" /\ dispatched[f] = 0 /\ current # f
                      /\ \A k \in DOMAIN m_taskqueue : m_taskqueue[k] # f
                      /\ \A k \in DOMAIN commands : commands[k].event # f
                      /\ \A u \in DOMAIN m_timers' : m_timers'[u].id # f /\ m_timers'[u].for # f
                      /\ \A d \in Callers : at'[d].event # f
    BY <1>3 DEF UnsignalledInv
  <2>1. /\ f \notin upset /\ msgdup[f] = "none" /\ dispatched[f] = 0 /\ current # f
        /\ \A k \in DOMAIN m_taskqueue : m_taskqueue[k] # f
        /\ \A k \in DOMAIN commands : commands[k].event # f
        /\ \A u \in DOMAIN m_timers : m_timers[u].id # f /\ m_timers[u].for # f
        /\ \A d \in Callers : at[d].event # f
    BY <1>1 DEF UnsignalledInv
  <2>2. f \notin upset'
    BY <2>1, <1>2, <1>10 DEF Starting
  <2>3. \A u \in DOMAIN m_timers' : m_timers'[u].id # f /\ m_timers'[u].for # f
    BY <2>1, <1>7, <1>8
  <2>4. \A d \in Callers : at'[d].event # f
    BY <2>1, <1>6, EventsAssumption
  <2> QED
    BY <2>1, <2>2, <2>3, <2>4
<1>21. NotEarly'
  BY <1>6 DEF NotEarly
<1>22. ASSUME NEW f \in Event \ upset' PROVE OnePlace(f)' /\ Kept(f)'
  <2>1. ~ Sent(f)' /\ (InQueue(f)' <=> InQueue(f)) /\ (OnlyOnce(f) <=> OnlyOnce(f)')
    BY <1>3, <1>6 DEF Sent, InQueue, OnlyOnce
  <2>2. Overflows(f)' => Overflows(f)
    BY <1>6 DEF Overflows
  <2>3. Waits(f)' => Waits(f)
    <3> SUFFICES ASSUME NEW u \in DOMAIN m_timers, Claims(u, f)' PROVE Claims(u, f)
      BY <1>7 DEF Waits
    <3> QED
      BY <1>17, <1>18
  <2> QED
    BY <2>1, <2>2, <2>3, <1>1, <1>3, <1>10, PlacesAlone
<1> QED
  BY <1>11, <1>12, <1>14, <1>19, <1>20, <1>21, <1>22 DEF EventsIInv, PlacesInv
-----------------------------------------------------------------------------
LEMMA EventsInvariant == Spec => []EventsIInv
<1>1. ASSUME EventsIInv, [Next]_vars PROVE EventsIInv'
  <2>1. ASSUME NEW c \in Callers, Proceed(c) PROVE EventsIInv'
    <3>1. CASE Overflow(c)
      BY <1>1, <3>1, Unmoved DEF Overflow
    <3>2. CASE Flashed(c)
      BY <1>1, <3>2, Unmoved DEF Flashed
    <3> QED
      BY <1>1, <2>1, <3>1, <3>2, ChangePeriodKeeps, SetTimerIDKeeps, StartKeeps, RefusedKeeps
         DEF Proceed
  <2>2. ASSUME NEW c \in Callers, Flash(c) PROVE EventsIInv'
    BY <1>1, <2>2, Unmoved DEF Flash
  <2>3. ASSUME NEW c \in Callers, NEW e \in Event, Call(c, e) PROVE EventsIInv'
    BY <1>1, <2>3, SignalEventKeeps, FindKeeps, CreateKeeps, CreateFailsKeeps DEF Call
  <2>4. CASE TimerService
    BY <1>1, <2>4, ExecuteKeeps, GetTimerIDKeeps, ScheduledEventKeeps, ExpireKeeps DEF TimerService
  <2>5. CASE QueueTimeout \/ Watchdog
    BY <1>1, <2>5, Unmoved DEF QueueTimeout, Watchdog
  <2>6. CASE EventTask
    BY <1>1, <2>5, <2>6, ReceiveKeeps, DispatchedKeeps DEF EventTask
  <2>7. CASE UNCHANGED vars
    BY <1>1, <2>7, Unmoved DEF vars
  <2> QED
    BY <1>1, <2>1, <2>2, <2>3, <2>4, <2>5, <2>6, <2>7 DEF Next
<1> QED
  BY <1>1, InitEvents, PTL DEF Spec

(* An event is queued, dispatched or sent from a timer in one place at a   *)
(* time, its name, data and message are not freed while it is there, it is *)
(* dispatched once, and not by the timer of another: for all those whose   *)
(* timer was not at work for another when it was taken, or expired.        *)
THEOREM EventsOnceInTime == Spec => []OnceInTime
<1>1. ASSUME EventsIInv PROVE OnceInTime
  <2>1. NotEarly /\ EventsTypeInv /\ CallersInv
    BY <1>1 DEF EventsIInv
  <2>2. ASSUME NEW e \in Event \ upset
        PROVE  LET places == {k \in DOMAIN m_taskqueue : m_taskqueue[k] = e} \cup
                             {0 : x \in {current} \cap {e}} \cup
                             {c \in {Service} : at[c].event = e}
               IN  /\ \A p, q \in places : p = q
                   /\ places # {} => string[e] = "live"
                   /\ at[Service].pc = "send" /\ at[Service].event = e => msgdup[e] = "live"
                   /\ dispatched[e] <= 1
    <3> DEFINE places == {k \in DOMAIN m_taskqueue : m_taskqueue[k] = e} \cup
                         {0 : x \in {current} \cap {e}} \cup
                         {c \in {Service} : at[c].event = e}
    <3>1. OnePlace(e) /\ Kept(e)
      BY <1>1 DEF EventsIInv, PlacesInv
    <3>2. at[Service].event = e => Sent(e) \/ Overflows(e)
      <4>1. Service \in Callers /\ e # None
        BY EventsAssumption DEF Callers
      <4>2. at[Service].event = e => at[Service].pc \in {"overflow", "send"}
        <5>1. ~ Scheduling(Service)
          BY <2>1, <4>1 DEF CallersInv
        <5>2. at[Service].pc \in {"running", "called"} => at[Service].event = None
          BY <2>1, <4>1 DEF CallersInv, Running
        <5>3. at[Service].pc \in Pcs
          BY <2>1, <4>1, Types
        <5> QED
          BY <4>1, <5>1, <5>2, <5>3 DEF Scheduling, Pcs
      <4> QED
        BY <4>1, <4>2 DEF Sent, Overflows
    <3>3. \A p \in places : \/ p \in DOMAIN m_taskqueue /\ m_taskqueue[p] = e /\ InQueue(e)
                            \/ p = 0 /\ current = e
                            \/ p = Service /\ (Sent(e) \/ Overflows(e))
      BY <3>2 DEF InQueue
    <3> HIDE DEF places
    <3>4. \A p, q \in places : p = q
      BY <3>1, <3>3 DEF OnePlace, OnlyOnce
    <3>5. places # {} => string[e] = "live"
      BY <3>1, <3>3 DEF Kept
    <3>6. /\ at[Service].pc = "send" /\ at[Service].event = e => msgdup[e] = "live"
          /\ dispatched[e] <= 1
      BY <3>1 DEF Kept, Sent
    <3> QED
      BY <3>4, <3>5, <3>6 DEF places
  <2> QED
    BY <2>1, <2>2 DEF OnceInTime, OnceEach
<1> QED
  BY <1>1, EventsInvariant, PTL

(* The string and the message of an event are deleted by the time it has   *)
(* been dispatched, or dropped.                                            *)
THEOREM EventsNothingLeaked == Spec => []NothingLeaked
<1>1. ASSUME EventsIInv PROVE NothingLeaked
  BY <1>1 DEF EventsIInv, PlacesInv, Kept, NothingLeaked
<1> QED
  BY <1>1, EventsInvariant, PTL

-----------------------------------------------------------------------------
(* Types, with the bounds.                                                 *)
SizesInv ==
  /\ Len(m_taskqueue) <= QueueSize /\ Len(m_timers) <= MaxTimers
  /\ Len(commands) <= TimerQueueSize

TimersInv == \A c \in Callers : at[c].timer <= MaxTimers

FlashInv ==
  /\ m_flashing \in Callers \cup {None} /\ flashes \in 0..MaxFlashes
  /\ aborted \in BOOLEAN /\ lost \in BOOLEAN

TwiceInv == \A e \in Event : dispatched[e] <= 2

\* What a step does to the queues and the pool.
LEMMA QueuesStep ==
  ASSUME EventsTypeInv, [Next]_vars
  PROVE  /\ \/ m_taskqueue' = m_taskqueue
            \/ m_taskqueue # <<>> /\ m_taskqueue' = Tail(m_taskqueue)
            \/ Len(m_taskqueue) < QueueSize /\ \E e : m_taskqueue' = Append(m_taskqueue, e)
         /\ \/ commands' = commands
            \/ commands # <<>> /\ commands' = Tail(commands)
            \/ Room /\ \E m : commands' = Append(commands, m)
         /\ \/ m_timers' = m_timers
            \/ Len(m_timers) < MaxTimers /\ \E m : m_timers' = Append(m_timers, m)
            \/ Len(m_timers') = Len(m_timers)
<1> USE DEF timers
<1>1. ASSUME NEW c \in Callers, Proceed(c) \/ Flash(c)
      PROVE  /\ m_taskqueue' = m_taskqueue
             /\ \/ commands' = commands
                \/ Room /\ \E m : commands' = Append(commands, m)
             /\ m_timers' = m_timers \/ Len(m_timers') = Len(m_timers)
  <2>1. CASE ChangePeriod(c) \/ Start(c)
    BY <2>1 DEF ChangePeriod, Start
  <2>2. CASE SetTimerID(c)
    <3>1. /\ m_timers' = [m_timers EXCEPT ![at[c].timer].id = at[c].event]
          /\ UNCHANGED <<m_taskqueue, commands>>
      BY <2>2 DEF SetTimerID
    <3>2. DOMAIN m_timers' = DOMAIN m_timers /\ DOMAIN m_timers = 1..Len(m_timers)
          /\ Len(m_timers) \in Nat
      BY <3>1 DEF EventsTypeInv
    <3>3. Len(m_timers') = Len(m_timers)
      BY <3>2
    <3> QED
      BY <3>1, <3>3
  <2>3. CASE Refused(c) \/ Overflow(c) \/ Flashed(c) \/ Flash(c)
    BY <2>3 DEF Refused, Overflow, Flashed, Flash
  <2> QED
    BY <1>1, <2>1, <2>2, <2>3 DEF Proceed
<1>2. ASSUME NEW c \in Callers, NEW e \in Event, Call(c, e)
      PROVE  /\ \/ m_taskqueue' = m_taskqueue
                \/ Len(m_taskqueue) < QueueSize /\ m_taskqueue' = Append(m_taskqueue, e)
             /\ commands' = commands
             /\ \/ m_timers' = m_timers
                \/ Len(m_timers) < MaxTimers /\ \E m : m_timers' = Append(m_timers, m)
  BY <1>2 DEF Call, SignalEvent, Enqueue, Find, Create, CreateFails
<1>3. CASE Execute
  BY <1>3 DEF Execute, EventsTypeInv
<1>4. CASE GetTimerID \/ SignalScheduledEvent
  BY <1>4 DEF GetTimerID, SignalScheduledEvent, Enqueue
<1>5. ASSUME NEW t \in DOMAIN m_timers, Expire(t)
      PROVE  Len(m_timers') = Len(m_timers) /\ UNCHANGED <<m_taskqueue, commands>>
  BY <1>5 DEF Expire, EventsTypeInv
<1>6. CASE EventTask \/ Watchdog \/ UNCHANGED vars
  BY <1>6 DEF EventTask, Receive, Dispatched, QueueTimeout, Watchdog, vars
<1> QED
  BY <1>1, <1>2, <1>3, <1>4, <1>5, <1>6 DEF Next, TimerService

LEMMA NextSizes == EventsTypeInv /\ SizesInv /\ [Next]_vars => SizesInv'
<1> SUFFICES ASSUME EventsTypeInv, SizesInv, [Next]_vars PROVE SizesInv'
  OBVIOUS
<1>1. /\ QueueSize \in Nat /\ TimerQueueSize \in Nat /\ MaxTimers \in Nat
      /\ Len(m_taskqueue) \in Nat /\ Len(commands) \in Nat /\ Len(m_timers) \in Nat
  BY EventsAssumption DEF EventsTypeInv
<1>2. /\ \A e : Len(Append(m_taskqueue, e)) = Len(m_taskqueue) + 1
      /\ \A m : Len(Append(commands, m)) = Len(commands) + 1
      /\ \A m : Len(Append(m_timers, m)) = Len(m_timers) + 1
      /\ m_taskqueue # <<>> => Len(Tail(m_taskqueue)) = Len(m_taskqueue) - 1
      /\ commands # <<>> => Len(Tail(commands)) = Len(commands) - 1
  BY DEF EventsTypeInv
<1> QED
  BY <1>1, <1>2, QueuesStep DEF SizesInv, Room

LEMMA NextTimers == EventsTypeInv /\ SizesInv /\ TimersInv /\ [Next]_vars => TimersInv'
<1> SUFFICES ASSUME EventsTypeInv, SizesInv, TimersInv, [Next]_vars PROVE TimersInv'
  OBVIOUS
<1>1. /\ MaxTimers \in Nat /\ DOMAIN m_timers = 1..Len(m_timers) /\ Len(m_timers) \in Nat
      /\ at \in [Callers -> [pc : Pcs, event : Event \cup {None}, timer : Nat]]
      /\ Service \in Callers
  BY EventsAssumption DEF EventsTypeInv, Callers
<1>2. \A t \in DOMAIN m_timers : t <= MaxTimers
  BY <1>1 DEF SizesInv
<1>3. \A c \in Callers : \/ at'[c].timer = at[c].timer \/ at'[c].timer = 0
                         \/ at'[c].timer \in DOMAIN m_timers
                         \/ Len(m_timers) < MaxTimers /\ at'[c].timer = Len(m_timers) + 1
  <2> SUFFICES ASSUME NEW c \in Callers
               PROVE  \/ at'[c].timer = at[c].timer \/ at'[c].timer = 0
                      \/ at'[c].timer \in DOMAIN m_timers
                      \/ Len(m_timers) < MaxTimers /\ at'[c].timer = Len(m_timers) + 1
    OBVIOUS
  <2>1. ASSUME NEW d \in Callers, Proceed(d) \/ Flash(d)
        PROVE  at'[c].timer = at[c].timer \/ at'[c].timer = 0
    <3>1. CASE ChangePeriod(d) \/ SetTimerID(d)
      <4>1. \E pc : at' = [at EXCEPT ![d].pc = pc]
        BY <3>1 DEF ChangePeriod, SetTimerID
      <4> QED
        BY <1>1, <4>1
    <3>2. CASE Start(d) \/ Refused(d)
      <4>1. at' = [at EXCEPT ![d] = Running] /\ Running.timer = 0
        BY <3>2 DEF Start, Refused, Running
      <4> QED
        BY <1>1, <4>1
    <3>3. CASE Overflow(d) \/ Flashed(d) \/ Flash(d)
      BY <3>3 DEF Overflow, Flashed, Flash
    <3> QED
      BY <2>1, <3>1, <3>2, <3>3 DEF Proceed
  <2>2. ASSUME NEW d \in Callers, NEW e \in Event, Call(d, e)
        PROVE  \/ at'[c].timer = at[c].timer \/ at'[c].timer = 0
               \/ at'[c].timer \in DOMAIN m_timers
               \/ Len(m_timers) < MaxTimers /\ at'[c].timer = Len(m_timers) + 1
    <3>1. CASE SignalEvent(d, e)
      <4>1. \/ at' = [at EXCEPT ![d] = Running]
            \/ at' = [at EXCEPT ![d] = Position("overflow", e, 0)]
        BY <3>1 DEF SignalEvent, Enqueue
      <4>2. Running.timer = 0 /\ Position("overflow", e, 0).timer = 0
        BY DEF Running, Position
      <4> QED
        BY <1>1, <4>1, <4>2
    <3>2. CASE Find(d, e)
      BY <3>2, <1>1 DEF Find, Available, Position
    <3>3. CASE Create(d, e)
      <4>1. Len(m_timers') = Len(m_timers) + 1
        BY <3>3 DEF Create, EventsTypeInv
      <4> QED
        BY <3>3, <4>1, <1>1 DEF Create, Position
    <3>4. CASE CreateFails(d, e)
      BY <3>4 DEF CreateFails
    <3> QED
      BY <2>2, <3>1, <3>2, <3>3, <3>4 DEF Call
  <2>3. CASE Execute \/ EventTask \/ Watchdog \/ UNCHANGED vars
    BY <2>3 DEF Execute, EventTask, Receive, Dispatched, QueueTimeout, Watchdog, vars
  <2>4. CASE GetTimerID \/ SignalScheduledEvent
    BY <2>4, <1>1 DEF GetTimerID, SignalScheduledEvent, Enqueue, Running, Position
  <2>5. ASSUME NEW t \in DOMAIN m_timers, Expire(t)
        PROVE  at'[c].timer = at[c].timer \/ at'[c].timer \in DOMAIN m_timers
    BY <2>5, <1>1 DEF Expire, Position
  <2> QED
    BY <2>1, <2>2, <2>3, <2>4, <2>5 DEF Next, TimerService
<1> QED
  BY <1>1, <1>2, <1>3 DEF TimersInv

LEMMA NextFlash == FlashInv /\ [Next]_vars => FlashInv'
<1> SUFFICES ASSUME FlashInv, [Next]_vars PROVE FlashInv'
  OBVIOUS
<1> USE DEF flash, fate
<1>1. ASSUME NEW c \in Callers, Proceed(c) PROVE FlashInv'
  BY <1>1 DEF Proceed, ChangePeriod, SetTimerID, Start, Refused, Overflow, Flashed, FlashInv
<1>2. ASSUME NEW c \in Callers, Flash(c) PROVE FlashInv'
  BY <1>2, EventsAssumption DEF Flash, FlashInv
<1>3. ASSUME NEW c \in Callers, NEW e \in Event, Call(c, e) PROVE FlashInv'
  BY <1>3 DEF Call, SignalEvent, Enqueue, Find, Create, CreateFails, FlashInv
<1>4. CASE TimerService
  BY <1>4 DEF TimerService, Execute, GetTimerID, SignalScheduledEvent, Enqueue, Expire, FlashInv
<1>5. CASE EventTask \/ Watchdog \/ UNCHANGED vars
  BY <1>5 DEF EventTask, Receive, Dispatched, QueueTimeout, Watchdog, vars, FlashInv, Callers
<1> QED
  BY <1>1, <1>2, <1>3, <1>4, <1>5 DEF Next

LEMMA NextTwice == EventsTypeInv /\ TwiceInv /\ [Next]_vars => TwiceInv'
<1> SUFFICES ASSUME EventsTypeInv, TwiceInv, [Next]_vars PROVE TwiceInv'
  OBVIOUS
<1>1. dispatched \in [Event -> Nat]
  BY DEF EventsTypeInv
<1>2. CASE Receive
  BY <1>1, <1>2 DEF Receive, TwiceInv
<1>3. Receive \/ UNCHANGED dispatched
  BY DEF Next, Proceed, Flash, Call, TimerService, EventTask, vars, history, ChangePeriod,
         SetTimerID, Start, Refused, Overflow, Flashed, SignalEvent, Find, Create, CreateFails,
         Execute, GetTimerID, SignalScheduledEvent, Expire, Dispatched, QueueTimeout, Watchdog
<1> QED
  BY <1>2, <1>3 DEF TwiceInv

(* Every variable has its type; the queues, the pool of timers and the     *)
(* queue of their commands keep to their sizes.                            *)
THEOREM EventsTypes == Spec => []TypeOK
<1> DEFINE BInv == SizesInv /\ TimersInv /\ FlashInv /\ TwiceInv
<1>1. Init => BInv
  <2> SUFFICES ASSUME Init PROVE BInv
    OBVIOUS
  <2>1. SizesInv
    BY EventsAssumption DEF Init, SizesInv
  <2>2. TimersInv
    BY EventsAssumption DEF Init, TimersInv, Running
  <2>3. FlashInv
    <3>1. 0 \in 0..MaxFlashes
      BY EventsAssumption
    <3> QED
      BY <3>1 DEF Init, FlashInv
  <2>4. TwiceInv
    BY DEF Init, TwiceInv
  <2> QED
    BY <2>1, <2>2, <2>3, <2>4
<1>2. EventsIInv /\ BInv /\ [Next]_vars => BInv'
  BY NextSizes, NextTimers, NextFlash, NextTwice DEF EventsIInv
<1>3. EventsIInv /\ BInv => TypeOK
  <2> SUFFICES ASSUME EventsIInv, BInv PROVE TypeOK
    OBVIOUS
  <2> DEFINE Message == [op : {"period", "start"}, timer : 1..MaxTimers, event : Event]
             Place == [pc : {"running", "overflow", "found", "set id", "start", "called", "send"},
                       event : Event \cup {None}, timer : 0..MaxTimers]
  <2>1. EventsTypeInv /\ MaxTimers \in Nat
    BY EventsAssumption DEF EventsIInv
  <2>2. commands \in Seq(Message)
    <3>1. ASSUME NEW k \in 1..Len(commands) PROVE commands[k] \in Message
      <4>1. /\ commands[k] \in [op : {"period", "start"}, timer : Nat, event : Event]
            /\ commands[k].timer \in 1..Len(m_timers) /\ Len(m_timers) \in Nat
        <5>1. /\ commands \in Seq([op : {"period", "start"}, timer : Nat, event : Event])
              /\ k \in DOMAIN commands
          BY <2>1 DEF EventsTypeInv
        <5>2. commands[k] \in [op : {"period", "start"}, timer : Nat, event : Event]
          BY <5>1, Elements
        <5>3. commands[k].timer \in DOMAIN m_timers
          BY <2>1, <5>1 DEF EventsTypeInv
        <5>4. DOMAIN m_timers = 1..Len(m_timers) /\ Len(m_timers) \in Nat
          BY <2>1 DEF EventsTypeInv
        <5> QED
          BY <5>2, <5>3, <5>4
      <4>2. commands[k].timer \in 1..MaxTimers
        BY <2>1, <4>1 DEF SizesInv
      <4> QED
        BY <4>1, <4>2
    <3>2. commands \in Seq([op : {"period", "start"}, timer : Nat, event : Event])
      BY <2>1 DEF EventsTypeInv
    <3> QED
      BY <3>1, <3>2, SequencesIn
  <2>3. at \in [Callers -> Place]
    <3>1. ASSUME NEW c \in Callers PROVE at[c] \in Place
      <4>1. /\ at[c] \in [pc : Pcs, event : Event \cup {None}, timer : Nat]
            /\ at[c].timer <= MaxTimers
        BY DEF EventsIInv, EventsTypeInv, TimersInv
      <4>2. at[c].timer \in 0..MaxTimers
        BY <2>1, <4>1
      <4> QED
        BY <4>1, <4>2 DEF Pcs
    <3> QED
      BY <2>1, <3>1 DEF EventsTypeInv
  <2>4. dispatched \in [Event -> 0..2]
    <3>1. ASSUME NEW e \in Event PROVE dispatched[e] \in 0..2
      BY <2>1 DEF EventsTypeInv, TwiceInv
    <3> QED
      BY <2>1, <3>1 DEF EventsTypeInv
  <2> QED
    BY <2>1, <2>2, <2>3, <2>4 DEF TypeOK, EventsTypeInv, SizesInv, FlashInv
<1> QED
  BY <1>1, <1>2, <1>3, EventsInvariant, PTL DEF Spec
=============================================================================
