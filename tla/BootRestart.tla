---------------------------- MODULE BootRestart -----------------------------
(***************************************************************************)
(* The restart handshake of main/ovms_boot.cpp, with the three parts of    *)
(* the system that answer it: the SD card, the modem and the web server.   *)
(*                                                                         *)
(* Restart gives the system sixty seconds and signals system.shuttingdown. *)
(* Each part that needs time calls RestartPending in its listener and      *)
(* RestartReady when it is done; when nobody is pending any more, the      *)
(* countdown is cut to two seconds.  At zero, system.shutdown is signalled *)
(* and the module resets.  The countdown, the SD card and the modem run in *)
(* the same ticker.1 events, in the order in which they registered:        *)
(* the card, the modem, Boot::Ticker1, and last the web server, which      *)
(* listens to every event.                                                 *)
(*                                                                         *)
(* The listeners of one event run one by one in the events task; Restart   *)
(* and the modem's own task run between any two of them.                   *)
(***************************************************************************)
EXTENDS Integers, Sequences, FiniteSets

CONSTANTS
  RestartTime,   \* the time given to the listeners (60 ticks in the code)
  UintMax,       \* unsigned int wraps below zero (2^32 - 1)
  OffTicks,      \* the modem: PoweringOff to CheckPowerOff (10)
  CheckTicks,    \* the modem: CheckPowerOff to PoweredOff (15)
  MaxRestarts    \* bound: calls of Restart

ASSUME RestartAssumption ==
  /\ {RestartTime, OffTicks, CheckTicks, MaxRestarts} \subseteq Nat \ {0}
  /\ UintMax \in Nat /\ UintMax > 3

VARIABLES
  m_restart_timer, m_restart_pending,
  restarts,              \* calls of Restart: as many Ticker1 are registered
  queue,                 \* the queue of the events task
  running,               \* the event in process, and who is still to be told
  sd,                    \* the SD card
  modem,
  m_restart_countdown,   \* the web server
  restarted,             \* esp_restart has been called
  age,                   \* history: ticks since the last call of Restart
  alone                  \* history: the only restart, and nobody but it has
                         \* had the card or the modem at work since it began

timer == <<m_restart_timer, m_restart_pending>>
events == <<queue, running>>
watched == <<age, alone>>
restartVars == <<timer, restarts, events, sd, modem, m_restart_countdown, restarted,
          watched>>

None == [event |-> "none", todo |-> <<>>]

Cards ==
  [m_mounted : BOOLEAN, m_unmounting : BOOLEAN, mountcount : 0 .. 3]

\* m_state1, the ticks to its timeout, whether the modem is switched on, and
\* whether its MUX is up.  All states of a modem that works are "On" here;
\* they are "PoweringOn" if it came to them out of switching off, in a
\* shutdown, because the MUX had failed.
Modems ==
  [state : {"On", "PoweringOff", "CheckPowerOff", "PoweredOff", "PoweringOn"},
   ticks : 0 .. (OffTicks + CheckTicks), m_powermode : BOOLEAN, mux : BOOLEAN]

On == [state |-> "On", ticks |-> 0, m_powermode |-> TRUE, mux |-> FALSE]
PoweredOff ==
  [state |-> "PoweredOff", ticks |-> 0, m_powermode |-> FALSE, mux |-> FALSE]

RestartInit ==
  /\ m_restart_timer = 0 /\ m_restart_pending = 0 /\ restarts = 0
  /\ queue = <<>> /\ running = None
  /\ sd \in [m_mounted : BOOLEAN, m_unmounting : {FALSE}, mountcount : {0}]
  /\ modem \in {On, PoweredOff}
  /\ m_restart_countdown = 0 /\ restarted = FALSE /\ age = 0
  /\ alone = TRUE

-----------------------------------------------------------------------------
(***************************************************************************)
(* Boot                                                                    *)
(***************************************************************************)
IsShuttingDown == m_restart_timer > 0

\* The parts that are not done: at work, switching off, or, a modem that has
\* been powered on again instead, never to be done.
Busy ==
  {part \in {"sd", "modem", "web"} :
     CASE part = "sd" ->
            sd.m_unmounting \/ (~ sd.m_mounted /\ sd.mountcount > 0)
       [] part = "modem" -> modem.state \in {"PoweringOff", "CheckPowerOff", "PoweringOn"}
       [] part = "web" -> m_restart_countdown > 0}

\* Somebody else uses the card or the modem.
Disturb == alone' = (alone /\ restarts = 0)

Restart ==
  /\ ~ restarted /\ restarts < MaxRestarts
  /\ m_restart_pending' = 0 /\ m_restart_timer' = RestartTime
  /\ queue' = Append(queue, "system.shuttingdown")
  /\ restarts' = restarts + 1
  /\ age' = 0
  /\ alone' = (restarts = 0 /\ Busy = {})
  /\ UNCHANGED <<running, sd, modem, m_restart_countdown, restarted>>

RestartPending ==
  /\ m_restart_pending' = (m_restart_pending + 1) % (UintMax + 1)
  /\ UNCHANGED m_restart_timer

\* Mutant: every answer, not the last one, cuts the countdown short.
RestartReadyAny ==
  /\ m_restart_pending' = (m_restart_pending + UintMax) % (UintMax + 1)
  /\ m_restart_timer' = 2

\* Mutant: the last answer starts the countdown anew.
RestartReadyAnew ==
  /\ m_restart_pending' = (m_restart_pending + UintMax) % (UintMax + 1)
  /\ m_restart_timer' = IF m_restart_pending' = 0 THEN RestartTime
                        ELSE m_restart_timer

RestartReady ==
  /\ m_restart_pending' = (m_restart_pending + UintMax) % (UintMax + 1)
  /\ m_restart_timer' = IF m_restart_pending' = 0 THEN 2 ELSE m_restart_timer

-----------------------------------------------------------------------------
(***************************************************************************)
(* The events task.  One tick is queued at a time (bound: the housekeeping *)
(* timer signals one a second, and the task keeps up with it).             *)
(***************************************************************************)
TickQueued ==
  running.event = "ticker.1" \/ \E i \in DOMAIN queue : queue[i] = "ticker.1"

Tick ==
  /\ ~ restarted /\ ~ TickQueued
  /\ queue' = Append(queue, "ticker.1")
  /\ UNCHANGED <<timer, restarts, running, sd, modem, m_restart_countdown,
                 restarted, watched>>

\* Who is told of an event, in the order of the registrations, and at the end
\* the function that was given with it.
Listeners(event) ==
  CASE event = "ticker.1" ->
         <<"sd", "modem">> \o [i \in 1 .. restarts |-> "boot"] \o <<"web">>
    [] event = "system.shuttingdown" -> <<"sd", "modem", "web", "done">>
    [] event = "sd.unmounting" -> <<"done">>
    [] event = "system.shutdown" -> <<"sd", "done">>

EventTask ==
  /\ ~ restarted /\ running = None /\ queue # <<>>
  /\ running' = [event |-> Head(queue), todo |-> Listeners(Head(queue))]
  /\ queue' = Tail(queue)
  /\ age' = IF Head(queue) = "ticker.1" /\ age < RestartTime /\ restarts > 0
            THEN age + 1 ELSE age
  /\ UNCHANGED alone
  /\ UNCHANGED <<timer, restarts, sd, modem, m_restart_countdown, restarted>>

\* The turn of one listener, and who comes after it.
Turn(event, who) ==
  /\ ~ restarted
  /\ running.event = event /\ Head(running.todo) = who
  /\ running' = IF Tail(running.todo) = <<>> THEN None
                ELSE [running EXCEPT !.todo = Tail(@)]

\* boot_shuttingdown_done, outside the lock: it looks,
ShuttingDownDone ==
  /\ ~ restarted
  /\ running = [event |-> "system.shuttingdown", todo |-> <<"done">>]
  /\ running' = IF m_restart_pending = 0 THEN [running EXCEPT !.todo = <<"cut">>]
                ELSE None
  /\ UNCHANGED <<timer, restarts, queue, sd, modem, m_restart_countdown,
                 restarted, watched>>

\* and then it sets the timer.
ShuttingDownCut ==
  /\ Turn("system.shuttingdown", "cut")
  /\ m_restart_timer' = 2
  /\ UNCHANGED <<m_restart_pending, restarts, queue, sd, modem,
                 m_restart_countdown, restarted, watched>>

\* Mutant: the countdown stands still while anybody is pending.
Ticker1Waits ==
  /\ Turn("ticker.1", "boot")
  /\ IF IsShuttingDown /\ m_restart_pending = 0
     THEN /\ m_restart_timer' = m_restart_timer - 1
          /\ queue' = IF m_restart_timer' = 0
                      THEN Append(queue, "system.shutdown") ELSE queue
     ELSE UNCHANGED <<m_restart_timer, queue>>
  /\ UNCHANGED <<m_restart_pending, restarts, sd, modem, m_restart_countdown,
                 restarted, watched>>

Ticker1 ==
  /\ Turn("ticker.1", "boot")
  /\ IF IsShuttingDown
     THEN /\ m_restart_timer' = m_restart_timer - 1
          /\ queue' = IF m_restart_timer' = 0
                      THEN Append(queue, "system.shutdown") ELSE queue
     ELSE UNCHANGED <<m_restart_timer, queue>>
  /\ UNCHANGED <<m_restart_pending, restarts, sd, modem, m_restart_countdown,
                 restarted, watched>>

\* boot_shutdown_done.
ShutdownDone ==
  /\ Turn("system.shutdown", "done")
  /\ restarted' = TRUE
  /\ UNCHANGED <<timer, restarts, queue, sd, modem, m_restart_countdown, watched>>

-----------------------------------------------------------------------------
(***************************************************************************)
(* The SD card                                                             *)
(***************************************************************************)
Unmounted == [m_mounted |-> FALSE, m_unmounting |-> FALSE, mountcount |-> 3]
Mounted == [m_mounted |-> TRUE, m_unmounting |-> FALSE, mountcount |-> 3]

\* unmount(true): the file system may refuse.
UnmountHard == IF sd.m_mounted THEN sd' \in {Unmounted, sd} ELSE UNCHANGED sd

\* unmount(): the event goes first to those who use the card.
UnmountSoft ==
  IF sd.m_mounted /\ ~ sd.m_unmounting
  THEN /\ sd' = [sd EXCEPT !.m_unmounting = TRUE]
       /\ queue' = Append(queue, "sd.unmounting")
  ELSE UNCHANGED <<sd, queue>>

SdShuttingDown ==
  /\ Turn("system.shuttingdown", "sd")
  /\ IF sd.m_mounted THEN RestartPending ELSE UNCHANGED timer
  /\ UnmountSoft
  /\ UNCHANGED <<restarts, modem, m_restart_countdown, restarted, watched>>

SdUnmountingDone ==
  /\ Turn("sd.unmounting", "done")
  /\ UnmountHard
  /\ UNCHANGED <<timer, restarts, queue, modem, m_restart_countdown, restarted,
                 watched>>

SdShutdown ==
  /\ Turn("system.shutdown", "sd")
  /\ UnmountHard
  /\ UNCHANGED <<timer, restarts, queue, modem, m_restart_countdown, restarted,
                 watched>>

\* CheckCardState: the card has been pulled, or put in (and is mounted).
Checked ==
  {sd, IF sd.m_mounted THEN Unmounted ELSE Mounted}

SdTick ==
  /\ Turn("ticker.1", "sd")
  /\ \E card \in Checked :
       /\ sd' = [card EXCEPT !.mountcount = IF @ > 0 THEN @ - 1 ELSE 0]
       /\ IF card.mountcount = 1 /\ ~ card.m_mounted /\ IsShuttingDown
          THEN RestartReady ELSE UNCHANGED timer
       /\ IF card = sd THEN UNCHANGED alone ELSE Disturb
  /\ UNCHANGED <<restarts, queue, modem, m_restart_countdown, restarted, age>>

\* The command "sd unmount".
SdCommand ==
  /\ ~ restarted /\ sd.m_mounted /\ ~ sd.m_unmounting
  /\ UnmountSoft
  /\ Disturb
  /\ UNCHANGED <<timer, restarts, running, modem, m_restart_countdown,
                 restarted, age>>

-----------------------------------------------------------------------------
(***************************************************************************)
(* The modem                                                               *)
(***************************************************************************)
PoweringOff == [modem EXCEPT !.state = "PoweringOff", !.ticks = OffTicks]

\* Mutant: the modem does not say that it needs time.
ModemShuttingDownSilent ==
  /\ Turn("system.shuttingdown", "modem")
  /\ modem' = IF modem.state # "PoweredOff" THEN PoweringOff ELSE modem
  /\ UNCHANGED <<timer, restarts, queue, sd, m_restart_countdown, restarted, watched>>

ModemShuttingDown ==
  /\ Turn("system.shuttingdown", "modem")
  /\ IF modem.state # "PoweredOff"
     THEN RestartPending /\ modem' = PoweringOff
     ELSE UNCHANGED <<timer, modem>>
  /\ UNCHANGED <<restarts, queue, sd, m_restart_countdown, restarted, watched>>

\* "We haven't had a good MUX frame in 3 minutes": the modem, in whatever state
\* it is, is powered on again, and a listener of the shutdown gets no answer.
MuxFailed ==
  /\ modem.mux
  /\ modem' = [modem EXCEPT
       !.state = IF @ \in {"PoweringOff", "CheckPowerOff"}
                 THEN IF IsShuttingDown THEN "PoweringOn" ELSE "On"
                 ELSE @,
       !.ticks = 0, !.mux = FALSE]
  /\ UNCHANGED timer

\* A modem that works starts or stops its MUX.
MuxChanges ==
  /\ modem.state \in {"On", "PoweringOn"}
  /\ \E up \in BOOLEAN : modem' = [modem EXCEPT !.mux = up]
  /\ UNCHANGED timer

\* The ticks to the next state on the way off.
StateTimeout ==
  CASE modem.ticks = 0 -> UNCHANGED <<modem, timer>>
    [] modem.ticks > 1 ->
         modem' = [modem EXCEPT !.ticks = @ - 1] /\ UNCHANGED timer
    [] modem.ticks = 1 /\ modem.state = "PoweringOff" ->
         /\ modem' = [modem EXCEPT !.state = "CheckPowerOff",
                                   !.ticks = CheckTicks]
         /\ UNCHANGED timer
    [] modem.ticks = 1 /\ modem.state = "CheckPowerOff" ->
         /\ modem' = [modem EXCEPT !.state = "PoweredOff", !.ticks = 0,
                                   !.mux = FALSE]
         /\ IF IsShuttingDown THEN RestartReady ELSE UNCHANGED timer

ModemTick ==
  /\ Turn("ticker.1", "modem")
  /\ MuxFailed \/ MuxChanges \/ StateTimeout
  /\ UNCHANGED <<restarts, queue, sd, m_restart_countdown, restarted, watched>>

\* The modem's task, when the modem still talks.
ModemActivity ==
  /\ ~ restarted
  /\ \/ modem.state = "CheckPowerOff" /\ UNCHANGED alone
     \/ modem.state = "PoweredOff" /\ Disturb
  /\ modem' = PoweringOff
  /\ UNCHANGED <<timer, restarts, events, sd, m_restart_countdown, restarted, age>>

\* SetPowerMode, from a command.
ModemCommand ==
  /\ ~ restarted
  /\ \/ modem' = [PoweringOff EXCEPT !.m_powermode = FALSE]
     \/ /\ ~ modem.m_powermode
        /\ modem' = [modem EXCEPT !.state = "On", !.ticks = 0, !.m_powermode = TRUE]
  /\ Disturb
  /\ UNCHANGED <<timer, restarts, events, sd, m_restart_countdown, restarted, age>>

-----------------------------------------------------------------------------
(***************************************************************************)
(* The web server                                                          *)
(***************************************************************************)
WebShuttingDown ==
  /\ Turn("system.shuttingdown", "web")
  /\ RestartPending
  /\ m_restart_countdown' = 3
  /\ UNCHANGED <<restarts, queue, sd, modem, restarted, watched>>

WebTick ==
  /\ Turn("ticker.1", "web")
  /\ IF m_restart_countdown = 0
     THEN UNCHANGED <<timer, m_restart_countdown>>
     ELSE /\ m_restart_countdown' = m_restart_countdown - 1
          /\ IF m_restart_countdown = 1 THEN RestartReady ELSE UNCHANGED timer
  /\ UNCHANGED <<restarts, queue, sd, modem, restarted, watched>>

-----------------------------------------------------------------------------
Handlers ==
  \/ ShuttingDownDone \/ ShuttingDownCut \/ Ticker1 \/ ShutdownDone
  \/ SdShuttingDown \/ SdUnmountingDone \/ SdShutdown \/ SdTick
  \/ ModemShuttingDown \/ ModemTick
  \/ WebShuttingDown \/ WebTick

RestartNext ==
  \/ Restart
  \/ Tick \/ EventTask \/ Handlers
  \/ SdCommand \/ ModemActivity \/ ModemCommand

\* The timer that signals the ticks and the events task keep running.
Fairness == WF_restartVars(Tick) /\ WF_restartVars(EventTask \/ Handlers)

RestartSpec == RestartInit /\ [][RestartNext]_restartVars /\ Fairness

-----------------------------------------------------------------------------
Events == {"ticker.1", "system.shuttingdown", "sd.unmounting", "system.shutdown"}

\* The variables keep their types: the counters stay in range, a state of the
\* modem that ends by itself has a timeout, and an event has listeners left.
RestartTypeOK ==
  /\ m_restart_timer \in {0, 1, 2} \cup 0 .. RestartTime
  /\ m_restart_pending \in 0 .. UintMax
  /\ restarts \in 0 .. MaxRestarts /\ age \in 0 .. RestartTime
  /\ \A i \in DOMAIN queue : queue[i] \in Events
  /\ running.event \in Events \cup {"none"}
  /\ running = None \/ running.todo # <<>>
  /\ sd \in Cards /\ modem \in Modems
  /\ modem.ticks > 0 <=> modem.state \in {"PoweringOff", "CheckPowerOff"}
  /\ m_restart_countdown \in 0 .. 3
  /\ restarted \in BOOLEAN /\ alone \in BOOLEAN

\* The parts of the system that have still to hear of the restart.
ToBeTold ==
  IF \E i \in DOMAIN queue : queue[i] = "system.shuttingdown"
  THEN {"sd", "modem", "web"}
  ELSE IF running.event = "system.shuttingdown"
       THEN {running.todo[i] : i \in DOMAIN running.todo} \ {"done", "cut"}
       ELSE {}

\* The countdown runs out, cut short.
RunsOutEarly ==
  m_restart_timer = 1 /\ m_restart_timer' = 0 /\ age < RestartTime

\* The module does not reset before its time unless all parts are done,
\* whoever else uses the card and the modem, and for every restart:
\* "Give them 60 seconds to shutdown" (ovms_boot.cpp:344).
TimeGiven ==
  [][RunsOutEarly => ToBeTold = {} /\ Busy = {}]_restartVars

\* As long as nobody else has them at work, m_restart_pending is the number of
\* the parts that have been told of the restart and are not done, and a modem
\* whose MUX fails on its way off stays among them (ovms_boot.cpp:353-365).
PendingCounts ==
  IsShuttingDown /\ alone =>
    m_restart_pending = Cardinality(Busy \ ToBeTold)

\* The handshake of a restart among the parts that take part in it: the count
\* is right, and the module does not reset before its time unless all of them
\* have been told and are done (ovms_boot.cpp:327-328, 353-365).
Handshake ==
  [][PendingCounts' /\ (RunsOutEarly /\ alone => ToBeTold = {} /\ Busy = {})]_restartVars

\* A restart that is asked for happens, whatever the parts of the system do
\* (ovms_boot.cpp:331-351, 367-385).
RestartHappens == m_restart_timer > 0 ~> restarted

\* And it happens in time: the countdown, cut short or started anew, is over
\* RestartTime ticks after the last call of Restart.
InTime == age = RestartTime /\ running = None => m_restart_timer <= 2
=============================================================================
