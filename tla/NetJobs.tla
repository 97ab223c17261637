------------------------------- MODULE NetJobs -------------------------------
(***************************************************************************)
(* The jobs of the network manager, main/ovms_netmanager.cpp: the commands *)
(* "network list", "close" and "cleanup", and the cleanup the events task  *)
(* schedules, are executed by the mongoose task, the only one that may     *)
(* touch the connections.  The queue holds pointers to two static records, *)
(* one of network_connections, one of ScheduleCleanup; the caller of a     *)
(* command waits for a task notification, with a timeout.                  *)
(*                                                                         *)
(* Start and stop of the mongoose task, and the handlers of the interfaces *)
(* (module NetManager), are reduced here to what the jobs see of them: the *)
(* quality of the wifi signal is left out.                                 *)
(***************************************************************************)
EXTENDS Naturals, Sequences

CONSTANTS
  Callers,     \* tasks that run the commands, other than mongoose
  Interfaces,  \* network interfaces; each carries one connection at most
  Clients,     \* those that lead to the internet; the others are access points
  QueueSize,   \* CONFIG_OVMS_HW_NETMANAGER_QUEUE_SIZE
  MaxCommands, \* bound on the commands run
  MaxDrops,    \* bound on how often an interface goes down, or an address
               \* or a station changes
  MaxEvents    \* bound on the events about interfaces that wait

ASSUME NetJobsAssumption ==
  /\ QueueSize \in Nat /\ MaxDrops \in Nat /\ MaxCommands \in Nat
  /\ MaxEvents \in Nat
  /\ Clients \subseteq Interfaces

VARIABLES
  job,         \* job[r]: the static record r
  m_jobqueue,  \* the records pointed to
  given,       \* tasks with a notification pending
  pc,          \* pc[t]: where task t is in its command
  asked,       \* asked[t]: that command and the number of its StringWriter
  commands,    \* commands begun
  live,        \* numbers of the StringWriters that exist
  mpc,         \* mongoose task: "off", "poll", "jobs", "switch", "listing",
               \* "done", "give"
  mjob, mbuf,  \* the record it processes, if it does, the StringWriter it
               \* writes to
  taskRuns,    \* m_mongoose_running
  up,          \* interfaces that are up
  drops,       \* how often one went down, or something else changed
  conns,       \* interfaces that carry a connection
  events,      \* events about interfaces not yet handled, in order
  inUse,       \* m_connected_wifi, m_connected_modem, m_wifi_ap
  eventsPc,    \* events task: "idle" or "cleanup", in ScheduleCleanup
  alone,       \* history: the task, if any, whose command, the latest, found
               \* the record free and has not timed out
  ran,         \* history: how often its record has been executed
  missed       \* history: since the last interface went down nothing was done
               \* about one that had, or the cleanup found no room

shared   == <<job, m_jobqueue, given>>
client   == <<pc, asked, commands, live>>
mongoose == <<mpc, mjob, mbuf, conns>>
network  == <<up, drops, events, inUse, eventsPc>>
history  == <<alone, ran, missed>>
jobVars  == <<shared, client, mongoose, taskRuns, network, history>>

Records  == {"command", "cleanup"}
Commands == {"list", "close", "cleanup"}
Cleared  == [cmd |-> "none", caller |-> {}, buf |-> 0]   \* after memset

JobsInit ==
  /\ job = [r \in Records |-> Cleared] /\ m_jobqueue = <<>> /\ given = {}
  /\ pc = [t \in Callers |-> "idle"] /\ commands = 0 /\ live = {}
  /\ asked = [t \in Callers |-> [cmd |-> "none", buf |-> 0]]
  /\ mpc = "off" /\ mjob = "command" /\ mbuf = 0 /\ taskRuns = FALSE
  /\ up = {} /\ drops = 0 /\ conns = {}
  /\ events = <<>> /\ inUse = {} /\ eventsPc = "idle"
  /\ alone = {} /\ ran = 0 /\ missed = FALSE

(* The mongoose task has taken a pointer to record r and is not done.      *)
Processing(r) == mjob = r /\ mpc \in {"switch", "listing", "done", "give"}

-----------------------------------------------------------------------------
(* network_connections, from another task than mongoose: the record is     *)
(* cleared, ...                                                            *)
Begin(t, c) ==
  /\ pc[t] = "idle" /\ taskRuns /\ commands < MaxCommands
  /\ commands' = commands + 1
  /\ asked' = [asked EXCEPT ![t] = [cmd |-> c, buf |-> commands']]
  /\ job' = [job EXCEPT !["command"] = Cleared]
  /\ pc' = [pc EXCEPT ![t] = "cleared"]
  /\ alone' = IF /\ \A s \in Callers : pc[s] = "idle"
                 /\ \A k \in DOMAIN m_jobqueue : m_jobqueue[k] # "command"
                 /\ ~Processing("command")
              THEN {t} ELSE {}
  /\ ran' = 0
  /\ UNCHANGED <<m_jobqueue, given, live, mongoose, taskRuns,
                 network, missed>>

(* ... gets its command, ...                                               *)
SetCommand(t) ==
  /\ pc[t] = "cleared"
  /\ job' = [job EXCEPT !["command"].cmd = asked[t].cmd]
  /\ pc' = [pc EXCEPT ![t] =
       IF asked[t].cmd = "list" THEN "named" ELSE "filled"]
  /\ UNCHANGED <<m_jobqueue, given, asked, commands, live, mongoose,
                 taskRuns, network, history>>

(* ... and, for a list, a StringWriter.                                    *)
NewBuffer(t) ==
  /\ pc[t] = "named"
  /\ live' = live \cup {asked[t].buf}
  /\ job' = [job EXCEPT !["command"].buf = asked[t].buf]
  /\ pc' = [pc EXCEPT ![t] = "filled"]
  /\ UNCHANGED <<m_jobqueue, given, asked, commands, mongoose,
                 taskRuns, network, history>>

(* ExecuteJob: the caller, ...                                             *)
SetCaller(t) ==
  /\ pc[t] = "filled"
  /\ IF taskRuns
       THEN /\ job' = [job EXCEPT !["command"].caller = {t}]
            /\ pc' = [pc EXCEPT ![t] = "calling"]
       ELSE /\ pc' = [pc EXCEPT ![t] = "failed"]
            /\ UNCHANGED job
  /\ UNCHANGED <<m_jobqueue, given, asked, commands, live, mongoose,
                 taskRuns, network, history>>

\* Mutant: a notification of the past is left.
ClearStateNot(t) ==
  /\ pc[t] = "calling"
  /\ pc' = [pc EXCEPT ![t] = "sending"]
  /\ UNCHANGED <<shared, asked, commands, live, mongoose, taskRuns,
                 network, history>>

(* ... whose notifications of the past are cleared, ...                    *)
ClearState(t) ==
  /\ pc[t] = "calling"
  /\ given' = given \ {t}
  /\ pc' = [pc EXCEPT ![t] = "sending"]
  /\ UNCHANGED <<job, m_jobqueue, asked, commands, live, mongoose,
                 taskRuns, network, history>>

(* ... and the pointer, which waits for a place in the queue, in vain      *)
(* perhaps.                                                                *)
Send(t) ==
  /\ pc[t] = "sending" /\ Len(m_jobqueue) < QueueSize
  /\ m_jobqueue' = Append(m_jobqueue, "command")
  /\ pc' = [pc EXCEPT ![t] = "waiting"]
  /\ UNCHANGED <<job, given, asked, commands, live, mongoose,
                 taskRuns, network, history>>

Overflow(t) ==
  /\ pc[t] = "sending" /\ Len(m_jobqueue) = QueueSize
  /\ pc' = [pc EXCEPT ![t] = "failed"]
  /\ UNCHANGED <<shared, asked, commands, live, mongoose, taskRuns,
                 network, history>>

(* ulTaskNotifyTake: the job is done ...                                   *)
Take(t) ==
  /\ pc[t] = "waiting" /\ t \in given
  /\ given' = given \ {t}
  /\ pc' = [pc EXCEPT ![t] = "answered"]
  /\ UNCHANGED <<job, m_jobqueue, asked, commands, live, mongoose,
                 taskRuns, network, history>>

(* ... or the time is up: "try to prevent delayed processing (cannot stop  *)
(* if already started)", by the command and the caller in the record.      *)
TimeOut(t) ==
  /\ pc[t] = "waiting" /\ t \notin given
  /\ job' = [job EXCEPT !["command"].cmd = "none"]
  /\ pc' = [pc EXCEPT ![t] = "giving up"]
  /\ alone' = alone \ {t} /\ ran' = 0
  /\ UNCHANGED <<m_jobqueue, given, asked, commands, live, mongoose,
                 taskRuns, network, missed>>

GiveUp(t) ==
  /\ pc[t] = "giving up"
  /\ job' = [job EXCEPT !["command"].caller = {}]
  /\ pc' = [pc EXCEPT ![t] = "failed"]
  /\ UNCHANGED <<m_jobqueue, given, asked, commands, live, mongoose,
                 taskRuns, network, history>>

(* The end of the command: a list writes the answer out and deletes the    *)
(* StringWriter of the record.                                             *)
Finish(t) ==
  /\ pc[t] \in {"answered", "failed"}
  /\ IF asked[t].cmd = "list"
       THEN /\ live' = live \ {job["command"].buf}
            /\ job' = [job EXCEPT !["command"].buf = 0]
       ELSE UNCHANGED <<live, job>>
  /\ pc' = [pc EXCEPT ![t] = "idle"]
  /\ asked' = [asked EXCEPT ![t] = [cmd |-> "none", buf |-> 0]]
  /\ UNCHANGED <<m_jobqueue, given, commands, mongoose, taskRuns,
                 network, history>>

-----------------------------------------------------------------------------
(* MongooseTask: mg_mgr_poll opens connections, here (a bound) one at a    *)
(* time; then ProcessJobs.                                                 *)
Open(i) ==
  /\ mpc = "poll" /\ i \in up
  /\ conns = {} /\ conns' = {i}
  /\ UNCHANGED <<shared, client, mpc, mjob, mbuf, taskRuns, network,
                 history>>

(* In the callbacks it calls connections end, also by the commands of a    *)
(* console of mongoose's own, which are executed in line.                  *)
Inline ==
  /\ mpc = "poll"
  /\ conns' \in SUBSET conns
  /\ UNCHANGED <<shared, client, mpc, mjob, mbuf, taskRuns, network,
                 history>>

EnterJobs ==
  /\ mpc = "poll"
  /\ mpc' = "jobs"
  /\ UNCHANGED <<shared, client, mjob, mbuf, conns, taskRuns, network,
                 history>>

\* Mutant: the pointer stays in the queue (xQueuePeek).
ReceivePeeks ==
  /\ mpc = "jobs" /\ m_jobqueue # <<>>
  /\ mjob' = Head(m_jobqueue)
  /\ mpc' = "switch"
  /\ UNCHANGED <<shared, client, mbuf, conns, taskRuns, network,
                 history>>

Receive ==
  /\ mpc = "jobs" /\ m_jobqueue # <<>>
  /\ mjob' = Head(m_jobqueue) /\ m_jobqueue' = Tail(m_jobqueue)
  /\ mpc' = "switch"
  /\ UNCHANGED <<job, given, client, mbuf, conns, taskRuns, network,
                 history>>

(* The command of the record as it is now.  CloseConnection closes one     *)
(* connection or all, CleanupConnections those whose interface is down; no *)
(* command does anything once the task is to stop.  The number it leaves   *)
(* in the record, for the answer, is left out.                             *)
Execute ==
  /\ mpc = "switch"
  /\ LET cmd == job[mjob].cmd
         running == taskRuns
     IN  /\ conns' \in CASE cmd = "close" /\ running   -> SUBSET conns
                         [] cmd = "cleanup" /\ running -> {conns \cap up}
                         [] OTHER                      -> {conns}
         /\ mpc' = IF cmd = "list" /\ running THEN "listing" ELSE "done"
         /\ mbuf' = IF cmd = "list" /\ running THEN job[mjob].buf ELSE 0
         /\ ran' = IF cmd # "none" /\ mjob = "command" /\ alone # {} /\ ran < 2
                   THEN ran + 1 ELSE ran
  /\ UNCHANGED <<shared, client, mjob, taskRuns, network, alone, missed>>

(* ListConnections returns; it has written to the buffer until now.        *)
Listed ==
  /\ mpc = "listing"
  /\ mpc' = "done" /\ mbuf' = 0
  /\ UNCHANGED <<shared, client, mjob, conns, taskRuns, network,
                 history>>

(* "if (job->caller)", and then xTaskNotifyGive(job->caller).              *)
TestCaller ==
  /\ mpc = "done"
  /\ mpc' = IF job[mjob].caller = {} THEN "jobs" ELSE "give"
  /\ mjob' = IF job[mjob].caller = {} THEN "command" ELSE mjob
  /\ UNCHANGED <<shared, client, mbuf, conns, taskRuns, network,
                 history>>

Give ==
  /\ mpc = "give"
  /\ given' = given \cup job[mjob].caller
  /\ mpc' = "jobs" /\ mjob' = "command"
  /\ UNCHANGED <<job, m_jobqueue, client, mbuf, conns,
                 taskRuns, network, history>>

(* No more jobs: poll again, or end and close all connections.             *)
Leave ==
  /\ mpc = "jobs" /\ m_jobqueue = <<>>
  /\ IF taskRuns
       THEN mpc' = "poll" /\ UNCHANGED conns
       ELSE mpc' = "off" /\ conns' = {}
  /\ UNCHANGED <<shared, client, mjob, mbuf, taskRuns, network,
                 history>>

-----------------------------------------------------------------------------
(* The interfaces, and the events about them, which wait their turn.       *)
Tell(what, nets) ==
  /\ Len(events) < MaxEvents
  /\ events' = Append(events, [what |-> what, nets |-> nets])

InterfaceUp(i) ==
  /\ i \notin up
  /\ up' = up \cup {i} /\ Tell("up", {i})
  /\ UNCHANGED <<shared, client, mongoose, taskRuns, drops, inUse, eventsPc,
                 history>>

InterfaceDown(i) ==
  /\ i \in up /\ drops < MaxDrops
  /\ up' = up \ {i} /\ Tell("down", {i}) /\ drops' = drops + 1
  /\ missed' = FALSE
  /\ UNCHANGED <<shared, client, mongoose, taskRuns, inUse, eventsPc,
                 alone, ran>>

(* An address comes or is lost, a station of the access point leaves, or   *)
(* an interface is told to be down that was not in use any more.           *)
StationChange ==
  /\ drops < MaxDrops
  /\ Tell("change", {}) /\ drops' = drops + 1
  /\ UNCHANGED <<shared, client, mongoose, taskRuns, up, inUse, eventsPc,
                 history>>

HandleEvent(what) ==
  /\ eventsPc = "idle" /\ events # <<>> /\ Head(events).what = what
  /\ events' = Tail(events)

(* WifiConnect, WifiUpAP and ModemUp: StartMongooseTask, once the task     *)
(* before has ended.                                                       *)
HandleUp ==
  /\ HandleEvent("up")
  /\ inUse' = inUse \cup Head(events).nets
  /\ IF taskRuns
       THEN UNCHANGED <<mpc, taskRuns>>
       ELSE mpc = "off" /\ mpc' = "poll" /\ taskRuns' = TRUE
  /\ UNCHANGED <<shared, client, mjob, mbuf, conns, up, drops, eventsPc,
                 history>>

(* Begin of ScheduleCleanup: memset of its record.                         *)
ClearCleanup ==
  /\ job' = [job EXCEPT !["cleanup"] = Cleared]
  /\ eventsPc' = "cleanup"

(* WifiDisconnect, ModemDown and WifiDownAP: ScheduleCleanup after a       *)
(* client if another client is in use; else StopMongooseTask, which does   *)
(* nothing while any interface is left.                                    *)
HandleDown ==
  /\ HandleEvent("down")
  /\ LET nets == Head(events).nets
     IN  /\ inUse' = inUse \ nets
         /\ IF nets \subseteq Clients /\ inUse' \cap Clients # {}
              THEN ClearCleanup /\ UNCHANGED <<taskRuns, missed>>
              ELSE /\ taskRuns' = (taskRuns /\ inUse' # {})
                   /\ missed' = (missed \/ inUse' # {})
                   /\ UNCHANGED <<job, eventsPc>>
  /\ UNCHANGED <<m_jobqueue, given, client, mongoose, up, drops, alone, ran>>

(* WifiStaGotIP, WifiStaLostIP, WifiStaConnected, WifiApStaDisconnect; or  *)
(* WifiStaStop and ModemDown when the client is not in use.                *)
HandleChange ==
  /\ HandleEvent("change")
  /\ ClearCleanup
  /\ UNCHANGED <<m_jobqueue, given, client, mongoose, taskRuns, up, drops, inUse,
                 history>>

(* ... then its command, and the pointer, if there is room for it at once: *)
(* ExecuteJob does not wait, and the caller does not ask.                  *)
PutCleanup ==
  /\ m_jobqueue' = IF taskRuns /\ Len(m_jobqueue) < QueueSize
                   THEN Append(m_jobqueue, "cleanup") ELSE m_jobqueue
  /\ missed' = (missed \/ (taskRuns /\ Len(m_jobqueue) = QueueSize))
  /\ eventsPc' = "idle"
  /\ UNCHANGED <<given, client, mongoose, taskRuns, up, drops, events, inUse,
                 alone, ran>>

\* Mutant: the command is not set again after memset.
SendCleanupNone == eventsPc = "cleanup" /\ PutCleanup /\ UNCHANGED job

SendCleanup ==
  /\ eventsPc = "cleanup"
  /\ job' = [job EXCEPT !["cleanup"].cmd = "cleanup"]
  /\ PutCleanup

-----------------------------------------------------------------------------
Proceed(t) ==
  \/ SetCommand(t) \/ NewBuffer(t) \/ SetCaller(t) \/ ClearState(t)
  \/ Send(t) \/ Overflow(t) \/ Take(t) \/ TimeOut(t) \/ GiveUp(t) \/ Finish(t)

ProcessJobs == Receive \/ Execute \/ Listed \/ TestCaller \/ Give \/ Leave

EventsTask == HandleUp \/ HandleDown \/ HandleChange \/ SendCleanup

JobsNext ==
  \/ \E t \in Callers : Proceed(t) \/ \E c \in Commands : Begin(t, c)
  \/ Inline \/ EnterJobs \/ ProcessJobs \/ EventsTask \/ StationChange
  \/ \E i \in Interfaces : Open(i) \/ InterfaceUp(i) \/ InterfaceDown(i)

(* Mongoose and the events task go on; nothing is asked of the callers.    *)
JobsFairness ==
  /\ WF_jobVars(EnterJobs \/ ProcessJobs)
  /\ WF_jobVars(EventsTask)

JobsSpec == JobsInit /\ [][JobsNext]_jobVars /\ JobsFairness

-----------------------------------------------------------------------------
(* Every variable has its type; the queue keeps to its size.               *)
JobsTypeOK ==
  /\ job \in [Records -> [cmd : Commands \cup {"none"}, caller : SUBSET Callers,
                          buf : 0..MaxCommands]]
  /\ m_jobqueue \in Seq(Records) /\ Len(m_jobqueue) <= QueueSize
  /\ given \subseteq Callers
  /\ pc \in [Callers -> {"idle", "cleared", "named", "filled", "calling",
                       "sending", "waiting", "answered", "giving up", "failed"}]
  /\ asked \in [Callers -> [cmd : Commands \cup {"none"}, buf : 0..MaxCommands]]
  /\ commands \in 0..MaxCommands /\ live \subseteq 1..MaxCommands
  /\ mpc \in {"off", "poll", "jobs", "switch", "listing", "done", "give"}
  /\ mjob \in Records /\ mbuf \in 0..MaxCommands
  /\ taskRuns \in BOOLEAN
  /\ up \subseteq Interfaces /\ conns \subseteq Interfaces
  /\ drops \in 0..MaxDrops
  /\ events \in Seq([what : {"up", "down", "change"}, nets : SUBSET Interfaces])
  /\ inUse \subseteq Interfaces /\ eventsPc \in {"idle", "cleanup"}
  /\ alone \subseteq Callers /\ ran \in 0..2 /\ missed \in BOOLEAN

(* A command that is answered has been executed, exactly once and since it *)
(* was asked: if no other task runs one and the job of the one before is   *)
(* out of the queue, whatever notification that one may have left.         *)
AnswerIsOwn == \A t \in alone : pc[t] = "answered" => ran = 1

(* Under the same condition mongoose writes to a StringWriter that exists, *)
(* after the end of the command too, and the caller prints and deletes its *)
(* own.                                                                    *)
BufferLive ==
  /\ alone # {} /\ mpc = "listing" => mbuf \in live
  /\ \A t \in alone : pc[t] = "answered" /\ asked[t].cmd = "list" =>
       job["command"].buf = asked[t].buf /\ asked[t].buf \in live

(* Both: a command that is alone with its job gets the answer to it, and   *)
(* nothing is written to what it has deleted.                              *)
JobIsOwn == AnswerIsOwn /\ BufferLive

(* "a timeout occurring after the job has begun processing will result in  *)
(* a crash here due to the StringWriter being deleted": until then there   *)
(* is no crash, so the StringWriter a list is begun with exists.           *)
ListBegunLive ==
  [][mpc # "listing" /\ mpc' = "listing" => mbuf' \in live]_jobVars

(* The caller mongoose has tested is there when it is notified.            *)
CallerGiven == mpc = "give" => job[mjob].caller # {}

(* A connection over an interface that has gone down is closed, unless the *)
(* interface comes back, or nothing is done about it: the access point is  *)
(* all that is left, or the queue is full at the cleanup.  No cleanup that *)
(* is queued is lost, though its static record is cleared for the next.    *)
OrphansClosed ==
  \A i \in Interfaces :
    i \in conns /\ i \notin up ~> i \notin conns \/ i \in up \/ missed

(* The same with neither excuse, which the code does not keep.             *)
AllOrphansClosed ==
  \A i \in Interfaces : i \in conns /\ i \notin up ~> i \notin conns \/ i \in up
=============================================================================
