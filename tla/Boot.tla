-------------------------------- MODULE Boot --------------------------------
(***************************************************************************)
(* The boot record of main/ovms_boot.cpp: boot_data lives in RAM that      *)
(* survives a reset, under a CRC.  It tells a requested restart from a     *)
(* crash, counts the crashes that happen before the system is considered   *)
(* stable, and so lets housekeeping stop a module that crashes again and   *)
(* again while it starts its components.                                   *)
(*                                                                         *)
(* The setters write a field, compute the CRC of the whole record and      *)
(* store it, with no lock: they are called by the events task (SetStable), *)
(* by whoever restarts the module (SetSoftReset, SetFirmwareUpdate) and by *)
(* the console (boot clear), on two cores.  Each of the three steps is an  *)
(* action, and the system may reset between any two of them.               *)
(***************************************************************************)
EXTENDS Naturals, Sequences

CONSTANTS
  Tasks,         \* the tasks that change the record beside the events task
  InhibitCount,  \* AUTO_INIT_INHIBIT_CRASHCOUNT (5 in the code)
  MaxResets      \* bound: resets in a behaviour

ASSUME BootAssumption ==
  InhibitCount \in Nat \ {0} /\ MaxResets \in Nat /\ "events" \notin Tasks

VARIABLES
  boot_data,            \* the payload of the record
  crc,                  \* the payload the stored CRC was computed from
  m_bootreason,
  m_resetreason,
  m_crash_count_early,  \* the early crashes as of this boot
  setter,               \* what each task is doing to the record
  reset,                \* the reset the module is booting from, or "none"
  resets,               \* how many there have been
  shuttingdown,         \* Restart has marked the record and waits
  asked,                \* history: Restart was called since the boot
  wasAsked,             \* history: and in the run before this one
  stable,               \* history: this run has been considered stable
  earlies               \* history: unexpected early resets in a row

record == <<boot_data, crc>>
boot == <<m_bootreason, m_resetreason, m_crash_count_early>>
history == <<asked, wasAsked, stable, earlies>>
vars == <<record, boot, setter, shuttingdown, reset, resets, history>>

\* A power cycle; a crash that runs the panic handler; a reset that does not
\* (brownout, reset pin, hardware watchdog); esp_restart.
Resets == {"power", "panic", "hardware", "restart"}
Hints == {"unknown", "panic"}

Cleared == [soft_reset |-> FALSE, firmware_update |-> FALSE,
            stable_reached |-> FALSE, crash_count_early |-> 0,
            crash_count_total |-> 0, reset_hint |-> "unknown"]

Idle == [todo |-> <<>>, at |-> "write", sum |-> Cleared]

AllIdle == [t \in Tasks \cup {"events"} |-> Idle]

Init ==
  /\ boot_data = Cleared /\ crc = Cleared
  /\ m_bootreason = "PowerOn" /\ m_resetreason = "power"
  /\ m_crash_count_early = 0
  /\ setter = AllIdle
  /\ reset = "none" /\ resets = 0 /\ shuttingdown = FALSE
  /\ asked = FALSE /\ wasAsked = FALSE /\ stable = FALSE /\ earlies = 0

-----------------------------------------------------------------------------
(***************************************************************************)
(* The constructor, run by every boot.                                     *)
(***************************************************************************)
Lost == reset = "power" \/ boot_data # crc

Reason ==
  IF Lost THEN "PowerOn"
  ELSE IF boot_data.soft_reset THEN "SoftReset"
  ELSE IF boot_data.firmware_update THEN "FirmwareUpdate"
  ELSE IF ~ boot_data.stable_reached THEN "EarlyCrash"
  ELSE "Crash"

Counted ==
  CASE Reason = "PowerOn" -> Cleared
    [] Reason \in {"SoftReset", "FirmwareUpdate"} ->
         [boot_data EXCEPT !.crash_count_total = 0, !.crash_count_early = 0]
    [] Reason = "EarlyCrash" ->
         [boot_data EXCEPT !.crash_count_total = @ + 1,
                           !.crash_count_early = @ + 1]
    [] Reason = "Crash" -> [boot_data EXCEPT !.crash_count_total = @ + 1]

\* Mutant: the flag of the restart is left for the next boot.
BootedStillSoft ==
  [Counted EXCEPT !.firmware_update = FALSE, !.stable_reached = FALSE]

\* Mutant: the stable flag is left for the next boot.
BootedStillStable ==
  [Counted EXCEPT !.soft_reset = FALSE, !.firmware_update = FALSE]

\* The flags are taken back for the run that begins.
Booted ==
  [Counted EXCEPT !.soft_reset = FALSE, !.firmware_update = FALSE,
                  !.stable_reached = FALSE]

BootConstructor ==
  /\ reset # "none" /\ reset' = "none"
  /\ boot_data' = Booted /\ crc' = Booted
  /\ m_bootreason' = Reason
  /\ m_resetreason' = IF Lost THEN reset ELSE boot_data.reset_hint
  /\ m_crash_count_early' = Booted.crash_count_early
  /\ earlies' = CASE Lost \/ asked -> 0
                  [] ~ Lost /\ ~ asked /\ ~ stable -> earlies + 1
                  [] OTHER -> earlies
  /\ wasAsked' = asked /\ asked' = FALSE /\ stable' = FALSE
  /\ UNCHANGED <<setter, shuttingdown, resets>>

-----------------------------------------------------------------------------
(***************************************************************************)
(* Resets.  RAM keeps what has been written; every task is gone.  The      *)
(* panic handler computes the CRC anew.                                    *)
(***************************************************************************)
Reset(kind) ==
  /\ resets < MaxResets /\ resets' = resets + 1
  /\ reset' = kind
  /\ setter' = AllIdle /\ shuttingdown' = FALSE
  /\ UNCHANGED <<boot, history>>

\* Mutant: the panic handler leaves the CRC alone.
PanicNoCrc ==
  /\ reset = "none" /\ Reset("panic")
  /\ boot_data' = [boot_data EXCEPT !.reset_hint = "panic"]
  /\ crc' = crc

Panic ==
  /\ reset = "none" /\ Reset("panic")
  /\ boot_data' = [boot_data EXCEPT !.reset_hint = "panic"]
  /\ crc' = boot_data'

PowerCycle == reset = "none" /\ Reset("power") /\ UNCHANGED record

HardwareReset == reset = "none" /\ Reset("hardware") /\ UNCHANGED record

\* The constructor itself is cut short, before it has stored the CRC.
BootCut ==
  /\ reset # "none" /\ Reset("hardware")
  /\ boot_data' = Booted /\ UNCHANGED crc

\* boot_shutdown_done: the listeners are done, or have had their time.  That
\* takes seconds, so whoever was writing the record has finished.
EspRestart ==
  /\ reset = "none" /\ shuttingdown /\ setter = AllIdle
  /\ Reset("restart") /\ UNCHANGED record

-----------------------------------------------------------------------------
(***************************************************************************)
(* The setters.                                                            *)
(***************************************************************************)
Set(t, ops) ==
  /\ reset = "none" /\ setter[t] = Idle
  /\ setter' = [setter EXCEPT ![t].todo = ops]
  /\ UNCHANGED <<record, boot, shuttingdown, reset, resets>>

\* Housekeeping::Metrics, every ten seconds.
Stable ==
  /\ ~ boot_data.stable_reached
  /\ Set("events", <<"SetStable">>)
  /\ UNCHANGED history

\* module reset, a command of the server, a page of the web server.
RestartBy(t) ==
  /\ Set(t, <<"SetSoftReset">>)
  /\ asked' = TRUE /\ UNCHANGED <<wasAsked, stable, earlies>>

\* OvmsOTA, after it has flashed: it marks the update when Restart returns.
RestartUpdated(t) ==
  /\ Set(t, <<"SetSoftReset", "SetFirmwareUpdate">>)
  /\ asked' = TRUE /\ UNCHANGED <<wasAsked, stable, earlies>>

\* The console command "boot clear".
BootClear(t) ==
  /\ Set(t, <<"boot_clear">>)
  /\ UNCHANGED history

\* Mutant: SetStable keeps the counter of the early crashes.
WrittenStableKeeps(op) ==
  CASE op = "SetStable" -> [boot_data EXCEPT !.stable_reached = TRUE]
    [] op = "SetSoftReset" -> [boot_data EXCEPT !.soft_reset = TRUE]
    [] op = "SetFirmwareUpdate" ->
         [boot_data EXCEPT !.soft_reset = FALSE, !.firmware_update = TRUE]
    [] op = "boot_clear" -> Cleared

Written(op) ==
  CASE op = "SetStable" ->
         [boot_data EXCEPT !.stable_reached = TRUE, !.crash_count_early = 0]
    [] op = "SetSoftReset" -> [boot_data EXCEPT !.soft_reset = TRUE]
    [] op = "SetFirmwareUpdate" ->
         [boot_data EXCEPT !.soft_reset = FALSE, !.firmware_update = TRUE]
    [] op = "boot_clear" -> Cleared

Write(t) ==
  /\ setter[t].todo # <<>> /\ setter[t].at = "write"
  /\ boot_data' = Written(Head(setter[t].todo))
  /\ setter' = [setter EXCEPT ![t].at = "sum"]
  /\ earlies' = IF Head(setter[t].todo) \in {"SetStable", "boot_clear"}
                THEN 0 ELSE earlies
  /\ stable' = (stable \/ Head(setter[t].todo) = "SetStable")
  /\ UNCHANGED <<crc, boot, shuttingdown, reset, resets, asked, wasAsked>>

CalcCrc(t) ==
  /\ setter[t].at = "sum"
  /\ setter' = [setter EXCEPT ![t].at = "store", ![t].sum = boot_data]
  /\ UNCHANGED <<record, boot, shuttingdown, reset, resets, history>>

StoreCrc(t) ==
  /\ setter[t].at = "store"
  /\ crc' = setter[t].sum
  /\ setter' = [setter EXCEPT ![t] = [Idle EXCEPT !.todo = Tail(setter[t].todo)]]
  /\ shuttingdown' = (shuttingdown \/ Head(setter[t].todo) = "SetSoftReset")
  /\ UNCHANGED <<boot_data, boot, reset, resets, history>>

Next ==
  \/ BootConstructor
  \/ Panic \/ PowerCycle \/ HardwareReset \/ BootCut \/ EspRestart
  \/ Stable
  \/ \E t \in Tasks : RestartBy(t) \/ RestartUpdated(t) \/ BootClear(t)
  \/ \E t \in Tasks \cup {"events"} : Write(t) \/ CalcCrc(t) \/ StoreCrc(t)

Spec == Init /\ [][Next]_vars

-----------------------------------------------------------------------------
Payload ==
  [soft_reset : BOOLEAN, firmware_update : BOOLEAN, stable_reached : BOOLEAN,
   crash_count_early : 0 .. MaxResets, crash_count_total : 0 .. MaxResets,
   reset_hint : Hints]

\* The variables keep the types of the declarations; the early crashes are
\* among the crashes counted, and a reset_hint is the panic handler's.
TypeOK ==
  /\ boot_data \in Payload /\ crc \in Payload
  /\ boot_data.crash_count_early <= boot_data.crash_count_total
  /\ m_bootreason \in {"PowerOn", "SoftReset", "FirmwareUpdate", "EarlyCrash",
                       "Crash"}
  /\ m_resetreason \in Resets \cup Hints
  /\ m_crash_count_early \in 0 .. MaxResets
  /\ reset \in Resets \cup {"none"} /\ resets \in 0 .. MaxResets
  /\ shuttingdown \in BOOLEAN /\ asked \in BOOLEAN /\ wasAsked \in BOOLEAN
  /\ stable \in BOOLEAN /\ earlies \in 0 .. MaxResets
  /\ \A t \in DOMAIN setter :
       /\ setter[t].at \in {"write", "sum", "store"}
       /\ setter[t].at # "write" => setter[t].todo # <<>>

\* housekeeping.cpp:179: the components are not started in this boot.
Inhibited == m_crash_count_early >= InhibitCount

\* A module that has crashed InhibitCount times in a row before it was stable,
\* with no restart asked for, does not start its components again
\* (userguide/boot.rst; ovms_boot.cpp:245-260, ovms_housekeeping.cpp:179).
LoopInhibited == reset = "none" /\ earlies >= InhibitCount => Inhibited

\* A boot is put down to the user or to a firmware update only if Restart was
\* called in the run that ended (ovms_boot.cpp:231-244, 265-268).
SoftOnlyWhenAsked ==
  m_bootreason \in {"SoftReset", "FirmwareUpdate"} => wasAsked

\* The crash of a run that had become stable ends a series of early crashes:
\* the components are started again (ovms_boot.cpp:252-256, 285-290).
StableForgets == m_bootreason = "Crash" => ~ Inhibited

\* The flags in the record are believed by the run after the one that set
\* them, and by no other (ovms_boot.cpp:263-268).
FlagsOfLastRun == SoftOnlyWhenAsked /\ StableForgets

\* A crash is told from a power cycle even when it comes while the record is
\* being written (ovms_boot.cpp:217-222, 392-430).
PanicTold ==
  [][reset = "panic" /\ reset' = "none" => m_bootreason' # "PowerOn"]_vars

\* A crash before the module is stable is counted (userguide/boot.rst:15).
EarlyCrashCounted ==
  [][reset = "panic" /\ ~ boot_data.stable_reached /\ reset' = "none"
     => boot_data'.crash_count_early = boot_data.crash_count_early + 1]_vars

\* A restart that was asked for and ran to its end is not taken for a crash
\* or a power cycle (ovms_boot.h:45).
RestartRecognised ==
  [][reset = "restart" /\ reset' = "none"
     => m_bootreason' \in {"SoftReset", "FirmwareUpdate"}]_vars

\* What "boot status" shows is the reason of the last reset
\* (userguide/boot.rst:5).
ResetReasonTrue ==
  [][reset # "none" /\ reset' = "none" => m_resetreason' = reset]_vars
=============================================================================
