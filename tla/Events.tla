------------------------------- MODULE Events -------------------------------
(***************************************************************************)
(* The event system, main/ovms_events.cpp: events are signalled by any     *)
(* task, go through a bounded queue and are dispatched one by one by the   *)
(* events task.  An event with a delay waits in a timer, taken from a pool *)
(* that grows when all are active; the callback of the timer runs in the   *)
(* timer service task and queues it.                                       *)
(*                                                                         *)
(* An event that finds the queue full is dropped.  If it is not a ticker,  *)
(* the module is not stable any more and aborts, after waiting for a flash *)
(* that is under way.  Flashing, by a command or by a listener, signals    *)
(* events itself.  The task watchdog has no such patience: it aborts the   *)
(* module when the events task has not come back to its queue for a        *)
(* minute (CONFIG_TASK_WDT_PANIC), whatever it waits for.                  *)
(*                                                                         *)
(* The timer functions of FreeRTOS send commands to the timer service,     *)
(* without waiting: a command is one step, and an expired timer is not     *)
(* active any more when its callback begins.  Delays are not measured: an  *)
(* active timer may expire at any time.                                    *)
(***************************************************************************)
EXTENDS Naturals, Sequences

CONSTANTS
  Tasks,          \* tasks that signal events, besides the two below
  Event,          \* the events that are signalled, each once
  Tickers,        \* those named "ticker.": not important
  Delayed,        \* those signalled with a delay
  QueueSize,      \* CONFIG_OVMS_HW_EVENT_QUEUE_SIZE
  TimerQueueSize, \* CONFIG_TIMER_QUEUE_LENGTH
  MaxTimers,      \* bound on the pool of timers
  MaxFlashes,     \* bound on the flash operations
  None

Service    == "timer service"
EventsTask == "events task"
Callers    == Tasks \cup {Service, EventsTask}

ASSUME EventsAssumption ==
  /\ Tickers \subseteq Event /\ Delayed \subseteq Event
  /\ None \notin Event \cup Callers
  /\ Tasks \cap {Service, EventsTask} = {}
  /\ {QueueSize, TimerQueueSize, MaxTimers} \subseteq Nat \ {0}
  /\ MaxFlashes \in Nat

VARIABLES
  m_taskqueue, \* events queued
  current,     \* the event the events task dispatches, or None
  m_timers,    \* the pool: the message (ID) of each timer, whether it is
               \* active, and, as history, the event it was last started for
  commands,    \* commands sent to the timer service
  at,          \* at[c]: where caller c is, with what event and timer
  m_flashing,  \* the mutex of OTA: its holder, or None
  string,      \* string[e]: the event's name and data, on the heap
  msgdup,      \* msgdup[e]: the copy of its message a timer points to
  flashes, aborted,
  lost,        \* an important event has been dropped
  dispatched,  \* history: dispatched[e] counts the dispatches of e
  upset        \* history: events of a timer that was taken, or expired,
               \* while it was at work for another or not yet started

memory == <<string, msgdup>>
timers == <<m_timers, commands>>
flash  == <<m_flashing, flashes>>
fate   == <<aborted, lost>>
history == <<dispatched, upset>>
vars == <<m_taskqueue, current, timers, at, flash, memory, fate, history>>

Running == [pc |-> "running", event |-> None, timer |-> 0]
Position(pc, e, t) == [pc |-> pc, event |-> e, timer |-> t]

\* A caller is in ScheduleEvent: it holds m_timers_mutex.
Scheduling(c) == at[c].pc \in {"found", "set id", "start"}

\* Timer t has commands pending, or its callback has not yet read the ID.
AtWork(t) ==
  \/ \E k \in DOMAIN commands : commands[k].timer = t
  \/ at[Service].pc = "called" /\ at[Service].timer = t

\* A caller is about to set the ID of timer t, or to start it.
Starting(t) == {c \in Callers : Scheduling(c) /\ at[c].timer = t}

Init ==
  /\ m_taskqueue = <<>> /\ current = None
  /\ m_timers = <<>> /\ commands = <<>>
  /\ at = [c \in Callers |-> Running]
  /\ m_flashing = None /\ flashes = 0
  /\ string = [e \in Event |-> "none"] /\ msgdup = [e \in Event |-> "none"]
  /\ aborted = FALSE /\ lost = FALSE
  /\ dispatched = [e \in Event |-> 0] /\ upset = {}

-----------------------------------------------------------------------------
(***************************************************************************)
(* Signalling                                                              *)
(***************************************************************************)
\* A caller that can signal: the events task only in a listener.
CanCall(c) == at[c].pc = "running" /\ (c = EventsTask => current # None)

Allocated(state) == IF state = "none" THEN "live" ELSE state

\* xQueueSend without waiting; else CheckQueueOverflow and
\* FreeQueueSignalEvent.  From an important event the caller goes on to wait
\* for the flash, and to abort.
Enqueue(c, e) ==
  IF Len(m_taskqueue) < QueueSize
    THEN /\ m_taskqueue' = Append(m_taskqueue, e)
         /\ string' = [string EXCEPT ![e] = Allocated(@)]
         /\ at' = [at EXCEPT ![c] = Running]
         /\ UNCHANGED lost
    ELSE /\ string' = [string EXCEPT ![e] =
                         IF e \in Tickers THEN "freed" ELSE Allocated(@)]
         /\ at' = [at EXCEPT ![c] = IF e \in Tickers THEN Running
                                    ELSE Position("overflow", e, 0)]
         /\ lost' = (lost \/ e \notin Tickers)
         /\ UNCHANGED m_taskqueue

\* SignalEvent without delay.
SignalEvent(c, e) ==
  /\ CanCall(c) /\ string[e] = "none" /\ e \notin Delayed
  /\ Enqueue(c, e)
  /\ UNCHANGED <<current, timers, flash, msgdup, aborted, history>>

\* Mutant: the flash is waited for, but the module goes on.
OverflowGoesOn(c) ==
  /\ at[c].pc = "overflow" /\ m_flashing = None
  /\ at' = [at EXCEPT ![c] = Running]
  /\ string' = [string EXCEPT ![at[c].event] = "freed"]
  /\ UNCHANGED <<m_taskqueue, current, timers, flash, msgdup, fate, history>>

\* The rest of CheckQueueOverflow: the mutex is waited for, then abort().
Overflow(c) ==
  /\ at[c].pc = "overflow" /\ m_flashing = None
  /\ m_flashing' = c /\ aborted' = TRUE
  /\ UNCHANGED <<m_taskqueue, current, timers, at, flashes, memory, lost,
                 history>>
-----------------------------------------------------------------------------
(***************************************************************************)
(* ScheduleEvent, under m_timers_mutex                                     *)
(***************************************************************************)
\* The timers that are not active.
Available == {t \in DOMAIN m_timers : ~m_timers[t].active}

\* Mutant: the mutex is not taken.
CanScheduleUnlocked(c, e) ==
  CanCall(c) /\ c # Service /\ string[e] = "none" /\ e \in Delayed

\* A delayed event is signalled; the timer service only signals others.
CanSchedule(c, e) ==
  /\ CanCall(c) /\ c # Service /\ string[e] = "none" /\ e \in Delayed
  /\ \A d \in Callers : ~Scheduling(d)

\* The first of them is taken.
Find(c, e) ==
  /\ CanSchedule(c, e)
  /\ \E t \in Available :
       /\ \A u \in Available : t <= u
       /\ at' = [at EXCEPT ![c] = Position("found", e, t)]
       /\ upset' = IF AtWork(t) THEN upset \cup {m_timers[t].id, e} ELSE upset
  /\ string' = [string EXCEPT ![e] = "live"]
  /\ msgdup' = [msgdup EXCEPT ![e] = "live"]
  /\ UNCHANGED <<m_taskqueue, current, timers, flash, fate, dispatched>>

\* Mutant: the new timer is left to be started by the next event.
CreateOnly(c, e) ==
  /\ CanSchedule(c, e)
  /\ Available = {} /\ Len(m_timers) < MaxTimers
  /\ m_timers' = Append(m_timers, [id |-> e, active |-> FALSE, for |-> None])
  /\ string' = [string EXCEPT ![e] = "live"]
  /\ msgdup' = [msgdup EXCEPT ![e] = "live"]
  /\ UNCHANGED <<m_taskqueue, current, commands, at, flash, fate, history>>

\* Without any, a new one is created with the message, ...
Create(c, e) ==
  /\ CanSchedule(c, e)
  /\ Available = {} /\ Len(m_timers) < MaxTimers
  /\ m_timers' = Append(m_timers, [id |-> e, active |-> FALSE, for |-> None])
  /\ at' = [at EXCEPT ![c] = Position("start", e, Len(m_timers'))]
  /\ string' = [string EXCEPT ![e] = "live"]
  /\ msgdup' = [msgdup EXCEPT ![e] = "live"]
  /\ UNCHANGED <<m_taskqueue, current, commands, flash, fate, history>>

\* ... or there is no memory for it, and the event is dropped.
CreateFails(c, e) ==
  /\ CanSchedule(c, e)
  /\ Available = {}
  /\ string' = [string EXCEPT ![e] = "freed"]
  /\ msgdup' = [msgdup EXCEPT ![e] = "freed"]
  /\ UNCHANGED <<m_taskqueue, current, timers, at, flash, fate, history>>

Room == Len(commands) < TimerQueueSize

Command(op, c) == [op |-> op, timer |-> at[c].timer, event |-> at[c].event]

\* xTimerChangePeriod, which starts the timer as well.
ChangePeriod(c) ==
  /\ at[c].pc = "found" /\ Room
  /\ commands' = Append(commands, Command("period", c))
  /\ at' = [at EXCEPT ![c].pc = "set id"]
  /\ UNCHANGED <<m_taskqueue, current, m_timers, flash, memory, fate, history>>

SetTimerID(c) ==
  /\ at[c].pc = "set id"
  /\ m_timers' = [m_timers EXCEPT ![at[c].timer].id = at[c].event]
  /\ at' = [at EXCEPT ![c].pc = "start"]
  /\ UNCHANGED <<m_taskqueue, current, commands, flash, memory, fate, history>>

\* xTimerStart
Start(c) ==
  /\ at[c].pc = "start" /\ Room
  /\ commands' = Append(commands, Command("start", c))
  /\ at' = [at EXCEPT ![c] = Running]
  /\ UNCHANGED <<m_taskqueue, current, m_timers, flash, memory, fate, history>>

\* No room for a command: the event is dropped.  If it was the second one,
\* the timer is started all the same, or holds the message deleted here.
Refused(c) ==
  /\ at[c].pc \in {"found", "start"} /\ ~Room
  /\ msgdup' = [msgdup EXCEPT ![at[c].event] = "freed"]
  /\ string' = [string EXCEPT ![at[c].event] = "freed"]
  /\ at' = [at EXCEPT ![c] = Running]
  /\ upset' = IF at[c].pc = "start" THEN upset \cup {at[c].event} ELSE upset
  /\ UNCHANGED <<m_taskqueue, current, timers, flash, fate, dispatched>>

-----------------------------------------------------------------------------
(***************************************************************************)
(* The timer service                                                       *)
(***************************************************************************)
\* A command for a timer: it is active from now.
Execute ==
  /\ at[Service].pc = "running" /\ commands # <<>>
  /\ m_timers' = [m_timers EXCEPT ![Head(commands).timer].active = TRUE,
                                  ![Head(commands).timer].for =
                                     Head(commands).event]
  /\ commands' = Tail(commands)
  /\ UNCHANGED <<m_taskqueue, current, at, flash, memory, fate, history>>

\* A timer expires: it is taken off the active ones, and its callback called.
Expire(t) ==
  /\ at[Service].pc = "running" /\ m_timers[t].active
  /\ m_timers' = [m_timers EXCEPT ![t].active = FALSE]
  /\ at' = [at EXCEPT ![Service] = Position("called", None, t)]
  /\ upset' = IF AtWork(t) \/ Starting(t) # {}
              THEN upset \cup {m_timers[t].id, m_timers[t].for}
                         \cup {at[c].event : c \in Starting(t)}
              ELSE upset
  /\ UNCHANGED <<m_taskqueue, current, commands, flash, memory, fate,
                 dispatched>>

\* SignalScheduledEvent: pvTimerGetTimerID, ...
GetTimerID ==
  /\ at[Service].pc = "called"
  /\ at' = [at EXCEPT ![Service] =
              Position("send", m_timers[at[Service].timer].id,
                       at[Service].timer)]
  /\ UNCHANGED <<m_taskqueue, current, timers, flash, memory, fate, history>>

\* Mutant: the message is kept when the event is queued.
SignalScheduledEventKeeps ==
  /\ at[Service].pc = "send"
  /\ Enqueue(Service, at[Service].event)
  /\ UNCHANGED <<current, timers, flash, msgdup, aborted, history>>

\* Mutant: the event is freed after it was queued, too.
SignalScheduledEventFrees ==
  /\ at[Service].pc = "send" /\ Len(m_taskqueue) < QueueSize
  /\ m_taskqueue' = Append(m_taskqueue, at[Service].event)
  /\ at' = [at EXCEPT ![Service] = Running]
  /\ string' = [string EXCEPT ![at[Service].event] = "freed"]
  /\ msgdup' = [msgdup EXCEPT ![at[Service].event] = "freed"]
  /\ UNCHANGED <<current, timers, flash, fate, history>>

\* ... the event is queued, or dropped, and the message deleted.
SignalScheduledEvent ==
  /\ at[Service].pc = "send"
  /\ Enqueue(Service, at[Service].event)
  /\ msgdup' = IF at'[Service].pc = "overflow" THEN msgdup
               ELSE [msgdup EXCEPT ![at[Service].event] = "freed"]
  /\ UNCHANGED <<current, timers, flash, aborted, history>>

-----------------------------------------------------------------------------
(***************************************************************************)
(* The events task                                                         *)
(***************************************************************************)
Receive ==
  /\ current = None /\ m_taskqueue # <<>>
  /\ current' = Head(m_taskqueue) /\ m_taskqueue' = Tail(m_taskqueue)
  /\ dispatched' = [dispatched EXCEPT ![current'] =
                      IF @ < 2 THEN @ + 1 ELSE @]
  /\ UNCHANGED <<timers, at, flash, memory, fate, upset>>

\* The listeners have returned: FreeQueueSignalEvent.
Dispatched ==
  /\ current # None /\ at[EventsTask].pc = "running"
  /\ m_flashing # EventsTask
  /\ string' = [string EXCEPT ![current] = "freed"]
  /\ current' = None
  /\ UNCHANGED <<m_taskqueue, timers, at, flash, msgdup, fate, history>>

\* Nothing queued for five seconds: not even a ticker came from the timer
\* service, which is stuck.  Without a flash under way, abort().
QueueTimeout ==
  /\ current = None /\ m_taskqueue = <<>> /\ at[Service].pc = "overflow"
  /\ m_flashing = None
  /\ m_flashing' = EventsTask /\ aborted' = TRUE
  /\ UNCHANGED <<m_taskqueue, current, timers, at, flashes, memory, lost,
                 history>>

\* The task watchdog, which Receive and Dispatched reset but the wait for a
\* flash in QueueTimeout does not: a listener has not returned for a minute,
\* or nothing was queued, as above.
Watchdog ==
  /\ \/ current # None
     \/ m_taskqueue = <<>> /\ at[Service].pc = "overflow"
  /\ aborted' = TRUE
  /\ UNCHANGED <<m_taskqueue, current, timers, at, flash, memory, lost,
                 history>>

-----------------------------------------------------------------------------
(***************************************************************************)
(* Flashing, by a command or by a listener: the mutex is tried, and held   *)
(* to the end, the event config.changed included.                          *)
(***************************************************************************)
Flash(c) ==
  /\ c # Service /\ CanCall(c) /\ m_flashing = None /\ flashes < MaxFlashes
  /\ m_flashing' = c /\ flashes' = flashes + 1
  /\ UNCHANGED <<m_taskqueue, current, timers, at, memory, fate, history>>

Flashed(c) ==
  /\ m_flashing = c /\ at[c].pc = "running"
  /\ m_flashing' = None
  /\ UNCHANGED <<m_taskqueue, current, timers, at, flashes, memory, fate,
                 history>>

-----------------------------------------------------------------------------
Proceed(c) ==
  \/ ChangePeriod(c) \/ SetTimerID(c) \/ Start(c) \/ Refused(c)
  \/ Overflow(c) \/ Flashed(c)

Call(c, e) ==
  SignalEvent(c, e) \/ Find(c, e) \/ Create(c, e) \/ CreateFails(c, e)

TimerService ==
  \/ Execute \/ GetTimerID \/ SignalScheduledEvent
  \/ \E t \in DOMAIN m_timers : Expire(t)

EventTask == Receive \/ Dispatched \/ QueueTimeout

Next ==
  /\ ~aborted
  /\ \/ \E c \in Callers : \/ Proceed(c) \/ Flash(c)
                           \/ \E e \in Event : Call(c, e)
     \/ TimerService \/ EventTask \/ Watchdog

(* Every task that has begun goes on, a flash ends, and a timer expires;   *)
(* the watchdog finds an events task that does not come back.              *)
Fairness ==
  /\ \A c \in Callers : WF_vars(~aborted /\ Proceed(c))
  /\ WF_vars(~aborted /\ TimerService) /\ WF_vars(~aborted /\ EventTask)
  /\ WF_vars(~aborted /\ Watchdog)

Spec == Init /\ [][Next]_vars /\ Fairness

-----------------------------------------------------------------------------
(* Every variable has its type; the queues and the pool keep to their      *)
(* sizes.                                                                  *)
TypeOK ==
  /\ m_taskqueue \in Seq(Event) /\ Len(m_taskqueue) <= QueueSize
  /\ current \in Event \cup {None}
  /\ m_timers \in Seq([id : Event, active : BOOLEAN,
                       for : Event \cup {None}])
  /\ Len(m_timers) <= MaxTimers
  /\ commands \in Seq([op : {"period", "start"}, timer : 1..MaxTimers,
                       event : Event])
  /\ Len(commands) <= TimerQueueSize
  /\ at \in [Callers -> [pc : {"running", "overflow", "found", "set id",
                               "start", "called", "send"},
                         event : Event \cup {None}, timer : 0..MaxTimers]]
  /\ m_flashing \in Callers \cup {None} /\ flashes \in 0..MaxFlashes
  /\ string \in [Event -> {"none", "live", "freed"}]
  /\ msgdup \in [Event -> {"none", "live", "freed"}]
  /\ aborted \in BOOLEAN /\ lost \in BOOLEAN
  /\ dispatched \in [Event -> 0..2] /\ upset \subseteq Event

(* An event is in one place only, its name and data there are not freed,   *)
(* and it is not dispatched twice, whatever failed on its way: unless its  *)
(* timer was at work for another.                                          *)
OnceEach ==
  \A e \in Event \ upset :
    LET places == {k \in DOMAIN m_taskqueue : m_taskqueue[k] = e} \cup
                  {0 : x \in {current} \cap {e}} \cup
                  {c \in {Service} : at[c].event = e}
    IN  /\ \A p, q \in places : p = q
        /\ places # {} => string[e] = "live"
        /\ at[Service].pc = "send" /\ at[Service].event = e =>
             msgdup[e] = "live"
        /\ dispatched[e] <= 1

(* The callback of a timer reads the message the timer was started for.    *)
NotEarly ==
  at[Service].pc = "send" /\ at[Service].event \notin upset =>
    m_timers[at[Service].timer].for = at[Service].event

(* Both: an event is dispatched once, and not by the timer of another.     *)
OnceInTime == OnceEach /\ NotEarly

(* Nothing of an event is left on the heap once it has been dispatched or  *)
(* dropped.                                                                *)
NothingLeaked ==
  \A e \in Event \ upset :
    /\ dispatched[e] = 1 => msgdup[e] # "live"
    /\ dispatched[e] = 1 /\ current # e => string[e] = "freed"
    /\ string[e] = "freed" => msgdup[e] # "live"

(* "...wait for a running OTA job to finish...": the module does not abort *)
(* while a flash is under way.                                             *)
NoAbortInFlash == [][aborted' => m_flashing = None]_vars

(* A task that flashes waits for itself: the queue was full when it        *)
(* signalled.  That the events task does so the watchdog finds out.        *)
SelfWait == \E c \in Tasks : at[c].pc = "overflow" /\ m_flashing = c

(* "We've dropped a potentially important event, system is instable now":  *)
(* the module aborts, in the end, whoever dropped it and whoever flashes,  *)
(* unless a task other than the events task has dropped the event of its   *)
(* own flash.                                                              *)
LostAborts == lost ~> aborted \/ SelfWait

(* "...wait for a running OTA job to finish... ...then abort".             *)
AlwaysAborts == lost ~> aborted

(* A delayed event is dispatched in the end, or dropped: no timer is left  *)
(* without being started, whoever uses it.                                 *)
DelayedArrives ==
  \A e \in Event :
    msgdup[e] = "live" ~> \/ dispatched[e] = 1 \/ string[e] = "freed"
                          \/ e \in upset \/ aborted \/ SelfWait

(* "find available timer": a timer that is available has no message still  *)
(* to deliver.                                                             *)
AvailableIsFree ==
  [][\A c \in Callers : at[c].pc = "running" /\ at'[c].pc = "found" =>
       LET m == m_timers[at'[c].timer].id IN msgdup[m] # "live"]_vars
=============================================================================
