----------------------------- MODULE BootProofs -----------------------------
(***************************************************************************)
(* The boot record, for any tasks that change it, any number of resets and *)
(* any limit of early crashes, and after it the restart handshake.         *)
(*                                                                         *)
(* What makes the record trustworthy without a lock: the flags are set     *)
(* only by what they tell of and taken back by the constructor, the panic  *)
(* handler leaves a record and a CRC that agree, and the CRC, though it    *)
(* may be of an older record, is never of one with fewer early crashes     *)
(* than there have been.                                                   *)
(***************************************************************************)
EXTENDS Boot, BootRestart, SequenceTheorems, FiniteSetTheorems, TLAPS

Record ==
  [soft_reset : BOOLEAN, firmware_update : BOOLEAN, stable_reached : BOOLEAN,
   crash_count_early : Nat, crash_count_total : Nat, reset_hint : Hints]

Ops    == {"SetStable", "SetSoftReset", "SetFirmwareUpdate", "boot_clear"}
Asks   == {"SetSoftReset", "SetFirmwareUpdate"}
Setters == Tasks \cup {"events"}
Work   == [todo : Seq(Ops), at : {"write", "sum", "store"}, sum : Record]

TypeInv ==
  /\ boot_data \in Record /\ crc \in Record
  /\ setter \in [Setters -> Work]
  /\ m_crash_count_early \in Nat /\ earlies \in Nat
  /\ asked \in BOOLEAN /\ stable \in BOOLEAN

\* What a task that changes the record is doing.
SetterInv ==
  /\ reset # "none" => setter = AllIdle
  /\ \A t \in Setters :
       /\ setter[t].at # "write" => setter[t].todo # <<>>
       /\ setter[t].at = "store" => earlies <= setter[t].sum.crash_count_early
       /\ \A i \in 1 .. Len(setter[t].todo) : setter[t].todo[i] \in Asks => asked

\* The flags are those of the run that set them.
FlagInv ==
  /\ boot_data.soft_reset \/ boot_data.firmware_update => asked
  /\ boot_data.stable_reached => stable /\ boot_data.crash_count_early = 0
  /\ reset = "panic" => boot_data = crc

\* The early crashes are counted, in the record and under the CRC.
CountInv ==
  /\ earlies <= crc.crash_count_early
  /\ reset = "none" => /\ earlies <= boot_data.crash_count_early
                       /\ earlies <= m_crash_count_early

IInv == TypeInv /\ SetterInv /\ FlagInv /\ CountInv /\ FlagsOfLastRun

-----------------------------------------------------------------------------
LEMMA ClearedIsRecord == Cleared \in Record
BY DEF Cleared, Record, Hints

LEMMA IdleIsWork == /\ AllIdle \in [Setters -> Work]
                    /\ \A t \in Setters : /\ AllIdle[t].at = "write"
                                          /\ AllIdle[t].todo = <<>>
<1>1. Idle \in Work
  BY ClearedIsRecord DEF Idle, Work
<1> QED
  BY <1>1 DEF AllIdle, Setters, Idle

LEMMA InitIInv == Init => IInv
<1> SUFFICES ASSUME Init PROVE IInv
  OBVIOUS
<1>1. TypeInv
  BY ClearedIsRecord, IdleIsWork DEF Init, TypeInv
<1>2. SetterInv
  BY IdleIsWork DEF Init, SetterInv
<1>3. FlagInv /\ CountInv
  BY DEF Init, FlagInv, CountInv, Cleared
<1>4. FlagsOfLastRun
  BY DEF Init, FlagsOfLastRun, SoftOnlyWhenAsked, StableForgets
<1> QED
  BY <1>1, <1>2, <1>3, <1>4 DEF IInv

-----------------------------------------------------------------------------
(***************************************************************************)
(* The constructor and the resets                                          *)
(***************************************************************************)
\* The record as the constructor leaves it.

LEMMA BootedRecord ==
  ASSUME boot_data \in Record
  PROVE  /\ Booted \in Record
         /\ ~Booted.soft_reset /\ ~Booted.firmware_update /\ ~Booted.stable_reached
         /\ Booted.crash_count_early =
              CASE Reason = "EarlyCrash" -> boot_data.crash_count_early + 1
                [] Reason = "Crash" -> boot_data.crash_count_early
                [] OTHER -> 0
<1>1. Counted \in Record /\ Counted.crash_count_early =
              CASE Reason = "EarlyCrash" -> boot_data.crash_count_early + 1
                [] Reason = "Crash" -> boot_data.crash_count_early
                [] OTHER -> 0
  <2>1. CASE Reason = "PowerOn"
    BY <2>1, ClearedIsRecord DEF Counted, Cleared
  <2>2. CASE Reason \in {"SoftReset", "FirmwareUpdate"}
    <3>1. Counted = [boot_data EXCEPT !.crash_count_total = 0,
                                      !.crash_count_early = 0]
      BY <2>2 DEF Counted
    <3> QED
      BY <2>2, <3>1 DEF Record
  <2>3. CASE Reason = "EarlyCrash"
    <3>1. Counted = [boot_data EXCEPT !.crash_count_total = @ + 1,
                                      !.crash_count_early = @ + 1]
      BY <2>3 DEF Counted
    <3>2. PICK n, m \in Nat : /\ n = boot_data.crash_count_total + 1
                              /\ m = boot_data.crash_count_early + 1
      BY DEF Record
    <3>3. Counted = [boot_data EXCEPT !.crash_count_total = n,
                                      !.crash_count_early = m]
      BY <3>1, <3>2
    <3>4. Counted \in Record /\ Counted.crash_count_early = m
      BY <3>3 DEF Record
    <3> QED
      BY <2>3, <3>2, <3>4
  <2>4. CASE Reason = "Crash"
    <3>1. Counted = [boot_data EXCEPT !.crash_count_total = @ + 1]
      BY <2>4 DEF Counted
    <3> QED
      BY <2>4, <3>1 DEF Record
  <2> QED
    BY <2>1, <2>2, <2>3, <2>4 DEF Reason
<1>2. Booted = [Counted EXCEPT !.soft_reset = FALSE, !.firmware_update = FALSE,
                               !.stable_reached = FALSE]
  BY DEF Booted
<1>3. Booted \in Record
  BY Zenon, <1>1, <1>2 DEF Record
<1> QED
  BY <1>1, <1>2, <1>3 DEF Record

LEMMA BootConstructorIInv == IInv /\ BootConstructor => IInv'
<1> SUFFICES ASSUME IInv, BootConstructor PROVE IInv'
  OBVIOUS
<1> USE DEF IInv, TypeInv
<1>1. /\ reset # "none" /\ reset' = "none" /\ setter = AllIdle
      /\ boot_data' = Booted /\ crc' = Booted /\ m_bootreason' = Reason
      /\ m_crash_count_early' = Booted.crash_count_early
      /\ wasAsked' = asked /\ asked' = FALSE /\ stable' = FALSE
      /\ setter' = setter
  BY DEF BootConstructor, SetterInv
<1>2. earlies' \in {0, earlies, earlies + 1}
  BY DEF BootConstructor
<1>3. Booted \in Record /\ Booted.crash_count_early \in Nat
  BY BootedRecord DEF Record
<1>4. TypeInv'
  <2>1. earlies' \in Nat
    BY <1>2
  <2>2. setter' \in [Setters -> Work]
    BY <1>1
  <2>3. asked' \in BOOLEAN /\ stable' \in BOOLEAN
    BY <1>1
  <2> QED
    BY <1>1, <1>3, <2>1, <2>2, <2>3
<1>5. SetterInv'
  BY <1>1, IdleIsWork DEF SetterInv
<1>6. FlagInv'
  BY <1>1, BootedRecord DEF FlagInv
<1>7. earlies' <= Booted.crash_count_early
  <2>1. CASE Lost \/ asked
    BY <1>3, <2>1 DEF BootConstructor
  <2>2. CASE ~Lost /\ ~asked
    <3>1. /\ earlies <= boot_data.crash_count_early
          /\ boot_data.crash_count_early \in Nat
      BY <2>2 DEF Lost, CountInv, Record
    <3>2. ~boot_data.soft_reset /\ ~boot_data.firmware_update
      BY <2>2 DEF FlagInv
    <3>3. CASE boot_data.stable_reached
      <4>1. stable /\ Reason = "Crash"
        BY <2>2, <3>2, <3>3 DEF FlagInv, Reason
      <4>2. earlies' = earlies
        BY <2>2, <4>1 DEF BootConstructor
      <4> QED
        BY <3>1, <4>1, <4>2, BootedRecord
    <3>4. CASE ~boot_data.stable_reached
      <4>1. Reason = "EarlyCrash"
        BY <2>2, <3>2, <3>4 DEF Reason
      <4>2. Booted.crash_count_early = boot_data.crash_count_early + 1
        BY <4>1, BootedRecord
      <4>3. earlies' \in {earlies, earlies + 1}
        BY <2>2 DEF BootConstructor
      <4> QED
        BY <3>1, <4>2, <4>3
    <3> QED
      BY <3>3, <3>4
  <2> QED
    BY <2>1, <2>2
<1>8. CountInv'
  BY <1>1, <1>7 DEF CountInv
<1>9. SoftOnlyWhenAsked'
  BY <1>1 DEF SoftOnlyWhenAsked, Reason, FlagInv
<1>10. StableForgets'
  <2> SUFFICES ASSUME Reason = "Crash" PROVE Booted.crash_count_early < InhibitCount
    BY <1>1, <1>3, BootAssumption DEF StableForgets, Inhibited
  <2>1. boot_data.crash_count_early = 0
    BY DEF Reason, FlagInv
  <2> QED
    BY <2>1, BootedRecord, BootAssumption
<1> QED
  BY <1>4, <1>5, <1>6, <1>8, <1>9, <1>10 DEF FlagsOfLastRun

\* Every reset ends all tasks; the record keeps its counts or is not believed.

LEMMA ResetIInv ==
  ASSUME IInv, NEW kind, kind # "none", Reset(kind),
         boot_data' \in Record, crc' \in Record, FlagInv',
         crc'.crash_count_early \in {crc.crash_count_early,
                                     boot_data.crash_count_early},
         crc' = crc \/ reset = "none"
  PROVE  IInv'
<1> USE DEF IInv, TypeInv
<1>1. /\ reset' # "none" /\ setter' = AllIdle
      /\ UNCHANGED <<m_bootreason, m_crash_count_early, asked, wasAsked, stable,
                     earlies>>
  BY DEF Reset, boot, history
<1>2. TypeInv' /\ SetterInv'
  BY <1>1, IdleIsWork DEF SetterInv
<1>3. CountInv'
  BY <1>1 DEF CountInv
<1>4. FlagsOfLastRun'
  BY <1>1 DEF FlagsOfLastRun, SoftOnlyWhenAsked, StableForgets, Inhibited
<1> QED
  BY <1>2, <1>3, <1>4

LEMMA PanicIInv == IInv /\ Panic => IInv'
<1> SUFFICES ASSUME IInv, Panic PROVE IInv'
  OBVIOUS
<1>1. /\ reset = "none" /\ Reset("panic") /\ crc' = boot_data'
      /\ boot_data' = [boot_data EXCEPT !.reset_hint = "panic"]
      /\ boot_data \in Record
  BY DEF Panic, IInv, TypeInv
<1>2. /\ boot_data' \in Record
      /\ boot_data'.crash_count_early = boot_data.crash_count_early
      /\ boot_data'.soft_reset = boot_data.soft_reset
      /\ boot_data'.firmware_update = boot_data.firmware_update
      /\ boot_data'.stable_reached = boot_data.stable_reached
  BY <1>1 DEF Record, Hints
<1>3. FlagInv'
  BY <1>1, <1>2 DEF IInv, FlagInv, Reset, history
<1> QED
  BY <1>1, <1>2, <1>3, ResetIInv

LEMMA OtherResetsIInv ==
  IInv /\ (PowerCycle \/ HardwareReset \/ BootCut \/ EspRestart) => IInv'
<1> SUFFICES ASSUME IInv, PowerCycle \/ HardwareReset \/ BootCut \/ EspRestart
             PROVE  IInv'
  OBVIOUS
<1>1. PICK kind \in {"power", "hardware", "restart"} :
        /\ Reset(kind) /\ crc' = crc
        /\ boot_data' \in {boot_data, Booted}
  BY DEF PowerCycle, HardwareReset, BootCut, EspRestart, record
<1>2. boot_data' \in Record /\ crc' \in Record
  BY <1>1, BootedRecord DEF IInv, TypeInv
<1>3. FlagInv'
  <2>1. reset' # "panic" /\ UNCHANGED <<asked, stable>>
    BY <1>1 DEF Reset, history
  <2> QED
    BY <1>1, <2>1, BootedRecord DEF IInv, TypeInv, FlagInv
<1> QED
  BY <1>1, <1>2, <1>3, ResetIInv

-----------------------------------------------------------------------------
(***************************************************************************)
(* The setters                                                             *)
(***************************************************************************)
LEMMA SetIInv ==
  ASSUME IInv, NEW t \in Setters, NEW ops \in Seq(Ops), Set(t, ops),
         UNCHANGED <<wasAsked, stable, earlies>>, asked' \in {asked, TRUE},
         \A i \in 1 .. Len(ops) : ops[i] \in Asks => asked'
  PROVE  IInv'
<1> USE DEF IInv, TypeInv
<1>1. /\ reset = "none" /\ setter[t] = Idle
      /\ setter' = [setter EXCEPT ![t].todo = ops]
      /\ UNCHANGED <<boot_data, crc, m_bootreason, m_crash_count_early, reset>>
  BY DEF Set, record, boot
<1>2. /\ setter'[t].todo = ops /\ setter'[t].at = "write"
      /\ \A u \in Setters : u # t => setter'[u] = setter[u]
      /\ setter'[t] \in Work
  <2>1. setter'[t] = [Idle EXCEPT !.todo = ops]
    BY <1>1
  <2>2. [Idle EXCEPT !.todo = ops] = [todo |-> ops, at |-> "write", sum |-> Cleared]
    BY DEF Idle
  <2> QED
    BY <1>1, <2>1, <2>2, ClearedIsRecord DEF Work
<1>3. TypeInv'
  BY <1>1, <1>2
<1>4. SetterInv'
  BY <1>1, <1>2 DEF SetterInv
<1>5. FlagInv' /\ CountInv'
  BY <1>1 DEF FlagInv, CountInv
<1>6. FlagsOfLastRun'
  BY <1>1 DEF FlagsOfLastRun, SoftOnlyWhenAsked, StableForgets, Inhibited
<1> QED
  BY <1>3, <1>4, <1>5, <1>6

LEMMA SettersIInv ==
  ASSUME IInv,
         Stable \/ \E t \in Tasks : RestartBy(t) \/ RestartUpdated(t) \/ BootClear(t)
  PROVE  IInv'
<1>1. CASE Stable
  <2>1. <<"SetStable">> \in Seq(Ops) /\ "events" \in Setters
    BY DEF Ops, Setters
  <2>2. /\ Set("events", <<"SetStable">>)
        /\ UNCHANGED <<asked, wasAsked, stable, earlies>>
    BY <1>1 DEF Stable, history
  <2>3. \A i \in 1 .. Len(<<"SetStable">>) : <<"SetStable">>[i] \notin Asks
    BY DEF Asks
  <2> QED
    BY <2>1, <2>2, <2>3, SetIInv
<1>2. ASSUME NEW t \in Tasks, RestartBy(t) PROVE IInv'
  <2>1. <<"SetSoftReset">> \in Seq(Ops) /\ t \in Setters
    BY DEF Ops, Setters
  <2> QED
    BY <1>2, <2>1, SetIInv DEF RestartBy
<1>3. ASSUME NEW t \in Tasks, RestartUpdated(t) PROVE IInv'
  <2>1. <<"SetSoftReset", "SetFirmwareUpdate">> \in Seq(Ops) /\ t \in Setters
    BY DEF Ops, Setters
  <2> QED
    BY <1>3, <2>1, SetIInv DEF RestartUpdated
<1>4. ASSUME NEW t \in Tasks, BootClear(t) PROVE IInv'
  <2>1. <<"boot_clear">> \in Seq(Ops) /\ t \in Setters
    BY DEF Ops, Setters
  <2>2. /\ Set(t, <<"boot_clear">>)
        /\ UNCHANGED <<asked, wasAsked, stable, earlies>>
    BY <1>4 DEF BootClear, history
  <2>3. \A i \in 1 .. Len(<<"boot_clear">>) : <<"boot_clear">>[i] \notin Asks
    BY DEF Asks
  <2> QED
    BY <2>1, <2>2, <2>3, SetIInv
<1> QED
  BY <1>1, <1>2, <1>3, <1>4

LEMMA ZeroIsNat == 0 \in Nat /\ TRUE \in BOOLEAN
OBVIOUS

\* What each setter makes of the record.

LEMMA WrittenRecord ==
  ASSUME boot_data \in Record, NEW op \in Ops
  PROVE  /\ Written(op) \in Record
         /\ Written(op).crash_count_early =
              IF op \in {"SetStable", "boot_clear"} THEN 0
              ELSE boot_data.crash_count_early
         /\ Written(op).stable_reached =>
              boot_data.stable_reached \/ op = "SetStable"
         /\ Written(op).soft_reset \/ Written(op).firmware_update =>
              boot_data.soft_reset \/ boot_data.firmware_update \/ op \in Asks
<1>1. CASE op = "SetStable"
  <2>1. Written(op) = [boot_data EXCEPT !.stable_reached = TRUE,
                                        !.crash_count_early = 0]
    BY <1>1 DEF Written
  <2>2. Written(op) \in Record
    BY Zenon, <2>1, ZeroIsNat DEF Record
  <2>3. /\ Written(op).crash_count_early = 0
        /\ Written(op).soft_reset = boot_data.soft_reset
        /\ Written(op).firmware_update = boot_data.firmware_update
    BY <2>1 DEF Record
  <2> QED
    BY <1>1, <2>2, <2>3
<1>2. CASE op = "SetSoftReset"
  <2>1. Written(op) = [boot_data EXCEPT !.soft_reset = TRUE]
    BY <1>2 DEF Written
  <2> QED
    BY <1>2, <2>1 DEF Record, Asks
<1>3. CASE op = "SetFirmwareUpdate"
  <2>1. Written(op) = [boot_data EXCEPT !.soft_reset = FALSE,
                                        !.firmware_update = TRUE]
    BY <1>3 DEF Written
  <2> QED
    BY <1>3, <2>1 DEF Record, Asks
<1>4. CASE op = "boot_clear"
  <2>1. Written(op) = Cleared
    BY <1>4 DEF Written
  <2>2. /\ Cleared.crash_count_early = 0 /\ Cleared.stable_reached = FALSE
        /\ Cleared.soft_reset = FALSE /\ Cleared.firmware_update = FALSE
    BY DEF Cleared
  <2> QED
    BY <1>4, <2>1, <2>2, ClearedIsRecord
<1> QED
  BY <1>1, <1>2, <1>3, <1>4 DEF Ops

LEMMA WriteIInv ==
  ASSUME IInv, NEW t \in Setters, Write(t)
  PROVE  IInv'
<1> USE DEF IInv, TypeInv
<1>1. PICK op : op = Head(setter[t].todo)
  OBVIOUS
<1>2. /\ setter[t].todo # <<>> /\ setter[t].at = "write"
      /\ boot_data' = Written(op)
      /\ setter' = [setter EXCEPT ![t].at = "sum"]
      /\ earlies' = IF op \in {"SetStable", "boot_clear"} THEN 0 ELSE earlies
      /\ stable' = (stable \/ op = "SetStable")
      /\ UNCHANGED <<crc, m_bootreason, m_crash_count_early, reset, asked, wasAsked>>
  BY <1>1 DEF Write, boot
<1>3. reset = "none"
  BY <1>2, IdleIsWork DEF SetterInv
<1>4. setter[t] \in Work /\ setter[t].todo \in Seq(Ops)
  BY DEF Work
<1>5. op \in Ops /\ (op \in Asks => asked)
  BY <1>1, <1>2, <1>4 DEF SetterInv
<1>6. /\ setter'[t] \in Work /\ setter'[t].at = "sum"
      /\ setter'[t].todo = setter[t].todo
      /\ \A u \in Setters : u # t => setter'[u] = setter[u]
  <2>1. setter'[t] = [setter[t] EXCEPT !.at = "sum"]
    BY <1>2
  <2> QED
    BY <1>2, <1>4, <2>1 DEF Work
<1>7. TypeInv'
  BY <1>2, <1>5, <1>6, WrittenRecord
<1>8. SetterInv'
  <2>1. earlies' <= earlies
    BY <1>2
  <2>2. \A u \in Setters : setter[u].sum.crash_count_early \in Nat
    BY DEF Work, Record
  <2> QED
    BY <1>2, <1>3, <1>6, <2>1, <2>2 DEF SetterInv
<1>9. FlagInv'
  <2>1. Written(op).stable_reached => Written(op).crash_count_early = 0
    BY <1>5, WrittenRecord DEF FlagInv
  <2>2. Written(op).stable_reached => stable \/ op = "SetStable"
    BY <1>5, WrittenRecord DEF FlagInv
  <2>3. Written(op).soft_reset \/ Written(op).firmware_update => asked
    BY <1>5, WrittenRecord DEF FlagInv
  <2> QED
    BY <1>2, <1>3, <2>1, <2>2, <2>3 DEF FlagInv
<1>10. CountInv'
  <2>1. crc.crash_count_early \in Nat /\ boot_data.crash_count_early \in Nat
    BY DEF Record
  <2> QED
    BY <1>2, <1>5, <2>1, WrittenRecord DEF CountInv
<1>11. FlagsOfLastRun'
  BY <1>2 DEF FlagsOfLastRun, SoftOnlyWhenAsked, StableForgets, Inhibited
<1> QED
  BY <1>7, <1>8, <1>9, <1>10, <1>11

LEMMA CalcCrcIInv ==
  ASSUME IInv, NEW t \in Setters, CalcCrc(t)
  PROVE  IInv'
<1> USE DEF IInv, TypeInv
<1>1. /\ setter[t].at = "sum" /\ setter[t] \in Work
      /\ setter' = [setter EXCEPT ![t].at = "store", ![t].sum = boot_data]
      /\ UNCHANGED <<boot_data, crc, m_bootreason, m_crash_count_early, reset,
                     asked, wasAsked, stable, earlies>>
  BY DEF CalcCrc, record, boot, history
<1>2. reset = "none" /\ setter[t].todo # <<>>
  BY <1>1, IdleIsWork DEF SetterInv
<1>3. /\ setter'[t] \in Work /\ setter'[t].sum = boot_data
      /\ setter'[t].todo = setter[t].todo
      /\ \A u \in Setters : u # t => setter'[u] = setter[u]
  <2>1. setter'[t] = [setter[t] EXCEPT !.at = "store", !.sum = boot_data]
    BY <1>1
  <2> QED
    BY <1>1, <2>1 DEF Work
<1>4. TypeInv'
  BY <1>1, <1>3
<1>5. SetterInv'
  BY <1>1, <1>2, <1>3 DEF SetterInv, CountInv
<1>6. FlagInv' /\ CountInv'
  BY <1>1 DEF FlagInv, CountInv
<1>7. FlagsOfLastRun'
  BY <1>1 DEF FlagsOfLastRun, SoftOnlyWhenAsked, StableForgets, Inhibited
<1> QED
  BY <1>4, <1>5, <1>6, <1>7

LEMMA StoreCrcIInv ==
  ASSUME IInv, NEW t \in Setters, StoreCrc(t)
  PROVE  IInv'
<1> USE DEF IInv, TypeInv
<1>1. /\ setter[t].at = "store" /\ setter[t] \in Work
      /\ crc' = setter[t].sum
      /\ setter' = [setter EXCEPT ![t] = [Idle EXCEPT !.todo = Tail(setter[t].todo)]]
      /\ UNCHANGED <<boot_data, m_bootreason, m_crash_count_early, reset,
                     asked, wasAsked, stable, earlies>>
  BY DEF StoreCrc, boot, history
<1>2. reset = "none" /\ setter[t].todo # <<>> /\ setter[t].todo \in Seq(Ops)
  BY <1>1, IdleIsWork DEF SetterInv, Work
<1>3. /\ Tail(setter[t].todo) \in Seq(Ops)
      /\ \A i \in 1 .. Len(Tail(setter[t].todo)) :
           Tail(setter[t].todo)[i] \in Asks => asked
  BY <1>2, HeadTailProperties DEF SetterInv
<1>4. /\ setter'[t] \in Work /\ setter'[t].at = "write"
      /\ setter'[t].todo = Tail(setter[t].todo)
      /\ \A u \in Setters : u # t => setter'[u] = setter[u]
  <2>1. setter'[t] = [todo |-> Tail(setter[t].todo), at |-> "write", sum |-> Cleared]
    BY <1>1 DEF Idle
  <2> QED
    BY <1>1, <1>3, <2>1, ClearedIsRecord DEF Work
<1>5. TypeInv'
  BY <1>1, <1>4 DEF Work
<1>6. SetterInv'
  BY <1>1, <1>2, <1>3, <1>4 DEF SetterInv
<1>7. FlagInv' /\ CountInv'
  BY <1>1, <1>2 DEF FlagInv, CountInv, SetterInv
<1>8. FlagsOfLastRun'
  BY <1>1 DEF FlagsOfLastRun, SoftOnlyWhenAsked, StableForgets, Inhibited
<1> QED
  BY <1>5, <1>6, <1>7, <1>8

-----------------------------------------------------------------------------
LEMMA NextIInv == IInv /\ [Next]_vars => IInv'
<1> SUFFICES ASSUME IInv, [Next]_vars PROVE IInv'
  OBVIOUS
<1>1. CASE UNCHANGED vars
  BY <1>1 DEF vars, record, boot, history, IInv, TypeInv, SetterInv, FlagInv,
              CountInv, FlagsOfLastRun, SoftOnlyWhenAsked, StableForgets, Inhibited
<1> QED
  BY <1>1, BootConstructorIInv, PanicIInv, OtherResetsIInv, SettersIInv,
     WriteIInv, CalcCrcIInv, StoreCrcIInv DEF Next, Setters

LEMMA Safe == Spec => []IInv
BY InitIInv, NextIInv, PTL DEF Spec

(* A boot is put down to a restart or an update only if it was asked for   *)
(* in the run that ended, and the crash of a stable run ends a series of   *)
(* early crashes: the constructor takes the flags back.                    *)
THEOREM BootFlagsOfLastRun == Spec => []FlagsOfLastRun
<1>1. IInv => FlagsOfLastRun
  BY DEF IInv
<1> QED
  BY <1>1, Safe, PTL

(* After InhibitCount early crashes in a row the components are not        *)
(* started, whatever the setters of the last runs had half done            *)
(* (AUTO_INIT_INHIBIT_CRASHCOUNT).                                         *)
THEOREM BootLoopInhibited == Spec => []LoopInhibited
<1>1. IInv => LoopInhibited
  BY BootAssumption DEF IInv, TypeInv, CountInv, LoopInhibited, Inhibited
<1> QED
  BY <1>1, Safe, PTL

\* What the constructor makes of a record the panic handler left.
PanicToldStep == reset = "panic" /\ reset' = "none" => m_bootreason' # "PowerOn"

LEMMA StepPanicTold == IInv /\ [Next]_vars => [PanicToldStep]_vars
<1> SUFFICES ASSUME IInv, [Next]_vars, reset = "panic", reset' = "none"
             PROVE  m_bootreason' # "PowerOn"
  BY DEF PanicToldStep
<1>1. setter = AllIdle /\ boot_data = crc
  BY DEF IInv, SetterInv, FlagInv
<1>2. BootConstructor
  BY DEF Next, vars, Panic, PowerCycle, HardwareReset, BootCut, EspRestart, Reset,
         Stable, RestartBy, RestartUpdated, BootClear, Set, Write, CalcCrc, StoreCrc
<1> QED
  BY <1>1, <1>2 DEF BootConstructor, Reason, Lost

(* A crash is told from a power cycle even when it comes while the record  *)
(* is being written: the panic handler computes the CRC anew.              *)
THEOREM BootPanicTold == Spec => PanicTold
<1>1. Spec => [][PanicToldStep]_vars
  BY Safe, StepPanicTold, PTL DEF Spec
<1> QED
  BY <1>1, PTL DEF PanicTold, PanicToldStep

-----------------------------------------------------------------------------
(* Types, with the bounds: no count is beyond the resets the module has    *)
(* come up from.                                                           *)
Past == IF reset = "none" THEN resets ELSE resets - 1

Counts(p, n) == p.crash_count_early <= p.crash_count_total /\ p.crash_count_total <= n

CountedInv ==
  /\ resets \in 0 .. MaxResets /\ reset \in Resets \cup {"none"}
  /\ reset # "none" => resets > 0
  /\ Counts(boot_data, Past) /\ Counts(crc, Past)
  /\ \A t \in Setters : Counts(setter[t].sum, Past)
  /\ m_crash_count_early <= resets
  /\ m_bootreason \in {"PowerOn", "SoftReset", "FirmwareUpdate", "EarlyCrash", "Crash"}
  /\ m_resetreason \in Resets \cup Hints
  /\ shuttingdown \in BOOLEAN /\ wasAsked \in BOOLEAN

LEMMA IdleCounts ==
  ASSUME NEW n \in Nat PROVE Counts(Cleared, n) /\ \A t \in Setters : Counts(AllIdle[t].sum, n)
BY DEF Counts, Cleared, AllIdle, Idle, Setters

LEMMA InitCounted == Init => CountedInv
<1> SUFFICES ASSUME Init PROVE CountedInv
  OBVIOUS
<1>1. Past = 0 /\ 0 \in 0 .. MaxResets
  BY BootAssumption DEF Init, Past
<1>2. Counts(boot_data, Past) /\ Counts(crc, Past) /\ \A t \in Setters : Counts(setter[t].sum, Past)
  BY <1>1, IdleCounts DEF Init
<1>3. /\ resets = 0 /\ reset = "none" /\ m_crash_count_early = 0 /\ m_bootreason = "PowerOn"
      /\ m_resetreason \in Resets
  BY DEF Init, Resets
<1>4. shuttingdown \in BOOLEAN /\ wasAsked \in BOOLEAN
  BY DEF Init
<1> QED
  BY <1>1, <1>2, <1>3, <1>4 DEF CountedInv

(* The constructor counts at most the reset it boots from.                 *)
LEMMA BootedCounts ==
  ASSUME IInv, CountedInv, reset # "none"
  PROVE  Counts(Booted, resets) /\ Booted.crash_count_early <= resets
<1>1. /\ boot_data \in Record /\ resets \in Nat /\ Past = resets - 1 /\ resets > 0
      /\ Counts(boot_data, resets - 1)
  BY DEF IInv, TypeInv, CountedInv, Past
<1>2. PICK e \in Nat, c \in Nat : /\ e = boot_data.crash_count_early
                                  /\ c = boot_data.crash_count_total
                                  /\ e <= c /\ c <= resets - 1
  BY <1>1 DEF Record, Counts
<1>3. /\ Booted.crash_count_early \in Nat /\ Booted.crash_count_total \in Nat
      /\ Booted.crash_count_early <= Booted.crash_count_total
      /\ Booted.crash_count_total <= c + 1
  <2>1. CASE Reason = "PowerOn"
    <3>1. Counted = Cleared
      BY <2>1 DEF Counted
    <3>2. Booted.crash_count_early = 0 /\ Booted.crash_count_total = 0
      BY <3>1 DEF Booted, Cleared
    <3> QED
      BY <1>2, <3>2
  <2>2. CASE Reason \in {"SoftReset", "FirmwareUpdate"}
    <3>1. Counted = [boot_data EXCEPT !.crash_count_total = 0, !.crash_count_early = 0]
      BY <2>2 DEF Counted
    <3>2. Booted.crash_count_early = 0 /\ Booted.crash_count_total = 0
      BY <1>1, <3>1 DEF Booted, Record
    <3> QED
      BY <1>2, <3>2
  <2>3. CASE Reason = "EarlyCrash"
    <3>1. Counted = [boot_data EXCEPT !.crash_count_total = @ + 1,
                                      !.crash_count_early = @ + 1]
      BY <2>3 DEF Counted
    <3>2. Booted.crash_count_early = e + 1 /\ Booted.crash_count_total = c + 1
      BY <1>1, <1>2, <3>1 DEF Booted, Record
    <3> QED
      BY <1>2, <3>2
  <2>4. CASE Reason = "Crash"
    <3>1. Counted = [boot_data EXCEPT !.crash_count_total = @ + 1]
      BY <2>4 DEF Counted
    <3>2. Booted.crash_count_early = e /\ Booted.crash_count_total = c + 1
      BY <1>1, <1>2, <3>1 DEF Booted, Record
    <3> QED
      BY <1>2, <3>2
  <2> QED
    BY <2>1, <2>2, <2>3, <2>4 DEF Reason
<1> QED
  BY <1>1, <1>2, <1>3 DEF Counts

LEMMA ConstructorCounted == IInv /\ CountedInv /\ BootConstructor => CountedInv'
<1> SUFFICES ASSUME IInv, CountedInv, BootConstructor PROVE CountedInv'
  OBVIOUS
<1>1. reset # "none" /\ reset' = "none" /\ resets' = resets /\ Past' = resets /\ setter = AllIdle
      /\ setter' = setter
  BY DEF BootConstructor, IInv, SetterInv, Past
<1>2. m_bootreason' \in {"PowerOn", "SoftReset", "FirmwareUpdate", "EarlyCrash", "Crash"}
  BY DEF BootConstructor, Reason
<1>3. m_resetreason' \in Resets \cup Hints
  BY DEF BootConstructor, IInv, TypeInv, Record, CountedInv
<1> QED
  BY <1>1, <1>2, <1>3, BootedCounts, IdleCounts DEF BootConstructor, CountedInv, IInv, TypeInv

LEMMA ResetCounted ==
  IInv /\ CountedInv /\ (Panic \/ PowerCycle \/ HardwareReset \/ BootCut \/ EspRestart)
    => CountedInv'
<1> SUFFICES ASSUME IInv, CountedInv, Panic \/ PowerCycle \/ HardwareReset \/ BootCut \/ EspRestart
             PROVE  CountedInv'
  OBVIOUS
<1>1. /\ resets < MaxResets /\ resets' = resets + 1 /\ reset' \in Resets
      /\ setter' = AllIdle /\ shuttingdown' = FALSE /\ UNCHANGED <<boot, wasAsked>>
  BY DEF Panic, PowerCycle, HardwareReset, BootCut, EspRestart, Reset, Resets, history
<1>2. /\ resets \in Nat /\ MaxResets \in Nat /\ Past' = resets /\ Past \in Int /\ Past <= resets
      /\ reset' # "none"
  BY <1>1, BootAssumption DEF CountedInv, Past, Resets
<1>3. Counts(boot_data, resets) /\ Counts(crc, resets)
  BY <1>2 DEF Counts, CountedInv, IInv, TypeInv, Record
<1>4. Counts(boot_data', resets)
  <2>1. CASE Panic
    <3>1. /\ boot_data'.crash_count_early = boot_data.crash_count_early
          /\ boot_data'.crash_count_total = boot_data.crash_count_total
      BY <2>1 DEF Panic, IInv, TypeInv, Record
    <3> QED
      BY <1>3, <3>1 DEF Counts
  <2>2. CASE BootCut
    BY <2>2, BootedCounts DEF BootCut
  <2>3. CASE PowerCycle \/ HardwareReset \/ EspRestart
    BY <1>3, <2>3 DEF PowerCycle, HardwareReset, EspRestart, record
  <2> QED
    BY <2>1, <2>2, <2>3
<1>5. Counts(crc', resets)
  BY <1>3, <1>4 DEF Panic, PowerCycle, HardwareReset, BootCut, EspRestart, record
<1>6. m_crash_count_early' <= resets'
  BY <1>1, <1>2 DEF boot, CountedInv, IInv, TypeInv
<1>7. \A t \in Setters : Counts(setter'[t].sum, resets)
  BY <1>1, <1>2, IdleCounts
<1>8. resets' \in 0 .. MaxResets /\ resets' > 0
  BY <1>1, <1>2
<1>9. UNCHANGED <<m_bootreason, m_resetreason, wasAsked>>
  BY <1>1 DEF boot
<1> QED
  BY <1>1, <1>2, <1>4, <1>5, <1>6, <1>7, <1>8, <1>9 DEF CountedInv

LEMMA SettersCounted ==
  ASSUME IInv, CountedInv, NEW t \in Setters,
         \/ \E ops : Set(t, ops) /\ UNCHANGED wasAsked
         \/ Write(t) \/ CalcCrc(t) \/ StoreCrc(t)
  PROVE  CountedInv'
<1>1. /\ UNCHANGED <<boot, reset, resets, wasAsked>> /\ Past' = Past
      /\ resets \in Nat /\ Past \in Nat
  BY DEF Set, Write, CalcCrc, StoreCrc, Past, history, CountedInv
<1>2. Counts(boot_data', Past)
  <2>1. CASE Write(t)
    <3>1. /\ setter[t] \in Work /\ setter[t].todo # <<>> /\ boot_data \in Record
      BY <2>1 DEF Write, IInv, TypeInv
    <3>2. Head(setter[t].todo) \in Ops
      BY <3>1 DEF Work
    <3>3. \/ boot_data' = Cleared
          \/ /\ boot_data'.crash_count_early \in {0, boot_data.crash_count_early}
             /\ boot_data'.crash_count_total = boot_data.crash_count_total
      BY <2>1, <3>1, <3>2 DEF Write, Written, Ops, Record
    <3> QED
      BY <1>1, <3>1, <3>3, IdleCounts DEF Counts, CountedInv, Record
  <2>2. CASE ~Write(t)
    BY <2>2 DEF Set, CalcCrc, StoreCrc, record, CountedInv
  <2> QED
    BY <2>1, <2>2
<1>3. Counts(crc', Past)
  BY DEF Set, Write, CalcCrc, StoreCrc, record, CountedInv
<1>4. \A u \in Setters : Counts(setter'[u].sum, Past)
  <2>1. \A u \in Setters : setter'[u].sum \in {setter[u].sum, boot_data, Cleared}
    <3>1. setter \in [Setters -> Work]
      BY DEF IInv, TypeInv
    <3> SUFFICES ASSUME NEW u \in Setters
                 PROVE  setter'[u].sum \in {setter[u].sum, boot_data, Cleared}
      OBVIOUS
    <3>2. CASE u # t
      BY <3>1, <3>2 DEF Set, Write, CalcCrc, StoreCrc
    <3>3. CASE u = t /\ (Write(t) \/ \E ops : Set(t, ops))
      BY <3>1, <3>3 DEF Set, Write, Work
    <3>4. CASE u = t /\ CalcCrc(t)
      <4>1. setter'[t] = [setter[t] EXCEPT !.at = "store", !.sum = boot_data]
        BY <3>1, <3>4 DEF CalcCrc
      <4> QED
        BY <3>1, <3>4, <4>1 DEF Work
    <3>5. CASE u = t /\ StoreCrc(t)
      BY <3>1, <3>5 DEF StoreCrc, Idle
    <3> QED
      BY <3>2, <3>3, <3>4, <3>5
  <2> QED
    BY <1>1, <2>1, IdleCounts DEF CountedInv
<1>5. shuttingdown' \in BOOLEAN
  BY DEF Set, Write, CalcCrc, StoreCrc, CountedInv
<1> QED
  BY <1>1, <1>2, <1>3, <1>4, <1>5 DEF CountedInv, boot

LEMMA NextCounted == IInv /\ CountedInv /\ [Next]_vars => CountedInv'
<1> SUFFICES ASSUME IInv, CountedInv, [Next]_vars PROVE CountedInv'
  OBVIOUS
<1>1. CASE UNCHANGED vars
  BY <1>1 DEF vars, record, boot, history, CountedInv, Past
<1>2. ASSUME NEW t \in Tasks, RestartBy(t) \/ RestartUpdated(t) \/ BootClear(t)
      PROVE  CountedInv'
  BY <1>2, SettersCounted DEF Setters, RestartBy, RestartUpdated, BootClear, history
<1>3. CASE Stable
  BY <1>3, SettersCounted DEF Setters, Stable, history
<1>4. ASSUME NEW t \in Setters, Write(t) \/ CalcCrc(t) \/ StoreCrc(t) PROVE CountedInv'
  BY <1>4, SettersCounted
<1> QED
  BY <1>1, <1>2, <1>3, <1>4, ConstructorCounted, ResetCounted DEF Next, Setters

(* Every variable has its type: the early crashes are among those counted, *)
(* and no more are counted than resets happened, though the record, its    *)
(* CRC and what the setters are about to store may disagree at any time.   *)
THEOREM BootTypes == Spec => []TypeOK
<1>1. IInv /\ CountedInv => TypeOK
  <2> SUFFICES ASSUME IInv, CountedInv PROVE TypeOK
    OBVIOUS
  <2>1. Past \in Nat /\ Past <= MaxResets /\ resets \in Nat /\ MaxResets \in Nat
    BY BootAssumption DEF CountedInv, Past
  <2>2. ASSUME NEW p \in Record, Counts(p, Past)
        PROVE  p \in Payload /\ p.crash_count_early <= p.crash_count_total
               /\ p.crash_count_early <= MaxResets
    <3>1. /\ p.crash_count_early \in 0 .. MaxResets /\ p.crash_count_total \in 0 .. MaxResets
      BY <2>1, <2>2 DEF Record, Counts
    <3> QED
      BY <2>2, <3>1 DEF Record, Payload, Counts
  <2>3. earlies \in 0 .. MaxResets
    BY <2>1, <2>2 DEF IInv, TypeInv, CountInv, CountedInv, Record
  <2>4. m_crash_count_early \in 0 .. MaxResets
    BY <2>1 DEF IInv, TypeInv, CountedInv
  <2>5. DOMAIN setter = Setters
    BY DEF IInv, TypeInv
  <2> QED
    BY <2>1, <2>2, <2>3, <2>4, <2>5 DEF TypeOK, IInv, TypeInv, SetterInv, CountedInv, Work
<1> QED
  BY <1>1, Safe, InitCounted, NextCounted, PTL DEF Spec

-----------------------------------------------------------------------------
(***************************************************************************)
(* The restart handshake, for any time given, any timeouts of the modem    *)
(* and any number of restarts.                                             *)
(***************************************************************************)
Who == {"sd", "modem", "boot", "web", "done", "cut"}
Parts == {"sd", "modem", "web"}

RestartTypeInv ==
  /\ m_restart_timer \in Nat /\ m_restart_pending \in Nat
  /\ restarts \in Nat /\ age \in 0 .. RestartTime
  /\ queue \in Seq(Events)
  /\ running \in [event : Events \cup {"none"}, todo : Seq(Who)]
  /\ running.event = "none" <=> running.todo = <<>>
  /\ sd \in Cards /\ modem \in Modems /\ m_restart_countdown \in 0 .. 3
  /\ modem.ticks > 0 <=> modem.state \in {"PoweringOff", "CheckPowerOff"}
  /\ restarted \in BOOLEAN /\ alone \in BOOLEAN

Queued(event) == \E i \in DOMAIN queue : queue[i] = event
ToDo(who) == \E i \in DOMAIN running.todo : running.todo[i] = who
WillTick == running.event = "ticker.1" /\ ToDo("boot")
Num(b) == IF b THEN 1 ELSE 0

\* Who is left to be told of an event: Boot once for each restart.
TodoInv ==
  /\ running.event = "ticker.1" =>
       /\ \A i \in DOMAIN running.todo : running.todo[i] = "sd" => i = 1
       /\ restarts = 0 => ~ ToDo("boot")
       /\ restarts = 1 => \A i, j \in DOMAIN running.todo :
            running.todo[i] = "boot" /\ running.todo[j] = "boot" => i = j
  /\ running.event = "system.shuttingdown" =>
       running.todo \in {<<"sd", "modem", "web", "done">>, <<"modem", "web", "done">>,
                         <<"web", "done">>, <<"done">>, <<"cut">>}
  /\ running.event = "sd.unmounting" => running.todo = <<"done">>

\* The countdown does not fall behind the ticks.
CountdownInv ==
  m_restart_timer > 2 => m_restart_timer + age <= RestartTime + Num(WillTick)

\* A card whose unmounting has been announced is busy until it is unmounted:
\* it can be back only by a second tick, which comes after the event.
UnmountingInv ==
  /\ sd.m_unmounting => sd.m_mounted
  /\ \A i, j \in DOMAIN queue : queue[i] = queue[j] /\ queue[i] = "ticker.1" => i = j
  /\ running.event = "ticker.1" => ~ Queued("ticker.1")
  /\ restarts = 0 =>
       /\ \A i \in DOMAIN queue : queue[i] = "sd.unmounting" =>
            /\ "sd" \in Busy
            /\ \/ sd.m_unmounting
               \/ /\ ~ (running.event = "ticker.1" /\ ToDo("sd"))
                  /\ \A j \in 1 .. (i - 1) : queue[j] # "ticker.1"
       /\ \A i, j \in DOMAIN queue : queue[i] = queue[j] /\ queue[i] = "sd.unmounting" => i = j
       /\ running.event = "sd.unmounting" => "sd" \in Busy /\ ~ Queued("sd.unmounting")

\* Before the first restart, and the order of events after it.
FirstInv ==
  /\ alone => restarts <= 1
  /\ restarts = 0 =>
       /\ m_restart_timer = 0
       /\ ~ Queued("system.shuttingdown") /\ ~ Queued("system.shutdown")
       /\ running.event \notin {"system.shuttingdown", "system.shutdown"}
  /\ restarts = 1 /\ Queued("system.shuttingdown") =>
       running.event \notin {"system.shuttingdown", "system.shutdown"}
  /\ restarts = 1 =>
       \A i \in DOMAIN queue : queue[i] = "system.shuttingdown" =>
         /\ \A j \in DOMAIN queue : queue[j] = "system.shuttingdown" => i = j
         /\ \A j \in 1 .. (i - 1) : queue[j] # "system.shutdown"

Open(part) == part \in Busy \ ToBeTold
Opens == Num(Open("sd")) + Num(Open("modem")) + Num(Open("web"))
Untold == Num("sd" \in ToBeTold) + Num("modem" \in ToBeTold) + Num("web" \in ToBeTold)
Cut == ToBeTold = {} /\ Busy = {}

\* The one restart, with nobody else at work.
AloneInv ==
  alone /\ restarts = 1 =>
    /\ Busy \cap ToBeTold = {}
    /\ "sd" \in ToBeTold => ~ Queued("sd.unmounting") /\ running.event # "sd.unmounting"
    /\ "sd" \notin ToBeTold => (sd.m_mounted => sd.m_unmounting)
    /\ m_restart_pending >= Opens /\ m_restart_pending + Untold <= 3
    /\ IsShuttingDown => m_restart_pending = Opens
    /\ running.event = "system.shuttingdown" /\ running.todo = <<"cut">> =>
         m_restart_pending = 0
    /\ age < RestartTime =>
         m_restart_timer + age >= RestartTime + Num(WillTick) \/ Cut

\* The web server counts down only after a restart.
WebInv == restarts = 0 => m_restart_countdown = 0

RestartIInv == /\ RestartTypeInv /\ TodoInv /\ CountdownInv /\ UnmountingInv /\ FirstInv
        /\ AloneInv

-----------------------------------------------------------------------------
(* The queue and the listeners of an event.                                *)
LEMMA AppendQueue ==
  ASSUME queue \in Seq(Events), NEW e \in Events, queue' = Append(queue, e)
  PROVE  /\ queue' \in Seq(Events)
         /\ DOMAIN queue = 1 .. Len(queue) /\ Len(queue) \in Nat
         /\ DOMAIN queue' = 1 .. (Len(queue) + 1)
         /\ \A i \in DOMAIN queue : queue'[i] = queue[i]
         /\ queue'[Len(queue) + 1] = e
OBVIOUS

LEMMA QueuedAppend ==
  ASSUME queue \in Seq(Events), NEW e \in Events, queue' = Append(queue, e)
  PROVE  \A event : Queued(event)' <=> Queued(event) \/ event = e
BY AppendQueue DEF Queued

LEMMA TailQueue ==
  ASSUME queue \in Seq(Events), queue # <<>>, queue' = Tail(queue)
  PROVE  /\ queue' \in Seq(Events) /\ Head(queue) = queue[1] /\ Head(queue) \in Events
         /\ DOMAIN queue = 1 .. Len(queue) /\ Len(queue) \in Nat /\ 1 \in DOMAIN queue
         /\ \A i \in DOMAIN queue' : i + 1 \in DOMAIN queue /\ queue'[i] = queue[i + 1]
         /\ \A i \in DOMAIN queue : i > 1 => i - 1 \in DOMAIN queue' /\ queue'[i - 1] = queue[i]
OBVIOUS

LEMMA QueuedTail ==
  ASSUME queue \in Seq(Events), queue # <<>>, queue' = Tail(queue)
  PROVE  \A event : Queued(event) <=> Queued(event)' \/ event = Head(queue)
<1>1. \A i \in DOMAIN queue : i = 1 \/ i > 1
  BY TailQueue
<1> QED
  BY <1>1, TailQueue DEF Queued

LEMMA Shape ==
  ASSUME RestartTypeInv
  PROVE  /\ running.event \in Events \cup {"none"} /\ running.todo \in Seq(Who)
         /\ DOMAIN running.todo = 1 .. Len(running.todo) /\ Len(running.todo) \in Nat
         /\ running = None <=> running.event = "none"
<1>1. running = [event |-> running.event, todo |-> running.todo]
  BY DEF RestartTypeInv
<1> QED
  BY <1>1 DEF RestartTypeInv, None

LEMMA TurnTail ==
  ASSUME RestartTypeInv, NEW e \in Events, NEW w, Turn(e, w)
  PROVE  /\ running.event = e /\ Len(running.todo) > 0 /\ running.todo[1] = w
         /\ 1 \in DOMAIN running.todo
         /\ running' \in [event : Events \cup {"none"}, todo : Seq(Who)]
         /\ running'.todo = Tail(running.todo)
         /\ running'.event = IF running'.todo = <<>> THEN "none" ELSE e
<1> USE DEF Turn
<1>1. /\ running.event = e /\ running.todo \in Seq(Who) /\ running.todo # <<>>
  BY DEF RestartTypeInv, Events
<1>2. Len(running.todo) > 0 /\ running.todo[1] = w /\ 1 \in DOMAIN running.todo
      /\ Tail(running.todo) \in Seq(Who)
  BY <1>1
<1>3. CASE Tail(running.todo) = <<>>
  BY <1>1, <1>2, <1>3 DEF None, RestartTypeInv
<1>4. CASE Tail(running.todo) # <<>>
  <2>1. running' = [running EXCEPT !.todo = Tail(@)]
    BY <1>4
  <2>2. running'.event = e /\ running'.todo = Tail(running.todo)
        /\ running' \in [event : Events \cup {"none"}, todo : Seq(Who)]
    BY <1>1, <1>2, <2>1 DEF RestartTypeInv
  <2> QED
    BY <1>1, <1>2, <1>4, <2>2
<1> QED
  BY <1>3, <1>4

LEMMA TurnRest ==
  ASSUME RestartTypeInv, NEW e \in Events, NEW w, Turn(e, w)
  PROVE  /\ \A i \in DOMAIN running'.todo :
              i + 1 \in DOMAIN running.todo /\ running'.todo[i] = running.todo[i + 1]
         /\ \A i \in DOMAIN running.todo : i > 1 =>
              i - 1 \in DOMAIN running'.todo /\ running'.todo[i - 1] = running.todo[i]
         /\ \A i \in DOMAIN running.todo : i = 1 \/ i > 1
<1>1. running'.todo = Tail(running.todo) /\ running.todo \in Seq(Who)
      /\ Len(running.todo) > 0
  BY TurnTail, Shape
<1> QED
  BY <1>1

(* The turn of one of those told of a tick.                                *)
LEMMA TickTurn ==
  ASSUME RestartTypeInv, TodoInv, NEW w, Turn("ticker.1", w), restarts' = restarts
  PROVE  /\ TodoInv'
         /\ running'.event \in {"ticker.1", "none"}
         /\ ~ (running'.event = "ticker.1" /\ ToDo("sd")')
         /\ w # "boot" => (WillTick' <=> WillTick)
         /\ w = "boot" => WillTick /\ (restarts = 1 => ~ WillTick')
<1> DEFINE t == running.todo
           u == running'.todo
<1>1. /\ running.event = "ticker.1" /\ t[1] = w /\ 1 \in DOMAIN t
      /\ running'.event = IF u = <<>> THEN "none" ELSE "ticker.1"
      /\ DOMAIN t \subseteq Nat
  BY TurnTail, Shape DEF Events
<1>2. /\ \A i \in DOMAIN u : i + 1 \in DOMAIN t /\ u[i] = t[i + 1]
      /\ \A i \in DOMAIN t : i > 1 => i - 1 \in DOMAIN u /\ u[i - 1] = t[i]
      /\ \A i \in DOMAIN t : i = 1 \/ i > 1
      /\ u = <<>> => DOMAIN u = {}
      /\ DOMAIN u \subseteq Nat \ {0}
  <2>1. u \in Seq(Who)
    BY TurnTail DEF Events
  <2> QED
    BY <2>1, TurnRest DEF Events
<1> HIDE DEF t, u
<1>3. /\ \A i \in DOMAIN t : t[i] = "sd" => i = 1
      /\ restarts = 0 => ~ ToDo("boot")
      /\ restarts = 1 => \A i, j \in DOMAIN t : t[i] = "boot" /\ t[j] = "boot" => i = j
  BY <1>1 DEF TodoInv, t
<1>4. \A x : /\ ToDo(x) <=> \E i \in DOMAIN t : t[i] = x
             /\ ToDo(x)' <=> \E i \in DOMAIN u : u[i] = x
  BY DEF ToDo, t, u
<1>5. ~ ToDo("sd")'
  BY <1>2, <1>3, <1>4
<1>6. w # "boot" => (ToDo("boot")' <=> ToDo("boot"))
  BY <1>1, <1>2, <1>4
<1>7. w = "boot" => ToDo("boot") /\ (restarts = 1 => ~ ToDo("boot")')
  BY <1>1, <1>2, <1>3, <1>4
<1>8. \A x : ToDo(x)' => ToDo(x) /\ u # <<>>
  BY <1>2, <1>4
<1>9. TodoInv'
  <2>1. \A i \in DOMAIN u : u[i] # "sd"
    BY <1>4, <1>5
  <2>2. restarts' = 0 => ~ ToDo("boot")'
    BY <1>3, <1>8
  <2>3. restarts' = 1 => \A i, j \in DOMAIN u : u[i] = "boot" /\ u[j] = "boot" => i = j
    <3> SUFFICES ASSUME restarts = 1, NEW i \in DOMAIN u, NEW j \in DOMAIN u,
                        u[i] = "boot", u[j] = "boot"
                 PROVE  i = j
      OBVIOUS
    <3>1. i + 1 = j + 1
      BY <1>2, <1>3
    <3> QED
      BY <3>1, <1>2
  <2> QED
    BY <1>1, <2>1, <2>2, <2>3 DEF TodoInv, u
<1> QED
  BY <1>1, <1>5, <1>6, <1>7, <1>8, <1>9 DEF WillTick

(* Which parts are busy, and which are to be told.                         *)
BusyFacts ==
  /\ Busy \subseteq Parts
  /\ "sd" \in Busy <=> sd.m_unmounting \/ (~ sd.m_mounted /\ sd.mountcount > 0)
  /\ "modem" \in Busy <=> modem.state \in {"PoweringOff", "CheckPowerOff", "PoweringOn"}
  /\ "web" \in Busy <=> m_restart_countdown > 0

ToldFacts ==
  /\ ToBeTold \subseteq Parts
  /\ Queued("system.shuttingdown") => ToBeTold = Parts
  /\ ~ Queued("system.shuttingdown") /\ running.event # "system.shuttingdown" =>
       ToBeTold = {}
  /\ ~ Queued("system.shuttingdown") /\ running.event = "system.shuttingdown" =>
       /\ "sd" \in ToBeTold <=> running.todo[1] = "sd"
       /\ "modem" \in ToBeTold <=> running.todo[1] \in {"sd", "modem"}
       /\ "web" \in ToBeTold <=> running.todo[1] \in {"sd", "modem", "web"}

LEMMA BusyParts == BusyFacts
BY DEF BusyFacts, Busy, Parts

LEMMA BusyPartsNext == BusyFacts'
BY BusyParts, PTL

LEMMA NotToldParts == TodoInv => ToldFacts
<1> SUFFICES ASSUME TodoInv PROVE ToldFacts
  OBVIOUS
<1> USE DEF ToldFacts
<1>1. CASE Queued("system.shuttingdown")
  BY <1>1 DEF Queued, ToBeTold, Parts
<1>2. CASE ~ Queued("system.shuttingdown") /\ running.event # "system.shuttingdown"
  BY <1>2 DEF Queued, ToBeTold
<1>3. CASE ~ Queued("system.shuttingdown") /\ running.event = "system.shuttingdown"
  <2>1. ToBeTold = {running.todo[i] : i \in DOMAIN running.todo} \ {"done", "cut"}
    BY <1>3 DEF ToBeTold, Queued
  <2>2. running.todo \in {<<"sd", "modem", "web", "done">>, <<"modem", "web", "done">>,
                          <<"web", "done">>, <<"done">>, <<"cut">>}
    BY <1>3 DEF TodoInv
  <2>3. CASE running.todo = <<"sd", "modem", "web", "done">>
    <3>1. ToBeTold = {"sd", "modem", "web"} /\ running.todo[1] = "sd"
      BY <2>1, <2>3
    <3> QED
      BY <1>3, <3>1 DEF Parts
  <2>4. CASE running.todo = <<"modem", "web", "done">>
    <3>1. ToBeTold = {"modem", "web"} /\ running.todo[1] = "modem"
      BY <2>1, <2>4
    <3> QED
      BY <1>3, <3>1 DEF Parts
  <2>5. CASE running.todo = <<"web", "done">>
    <3>1. ToBeTold = {"web"} /\ running.todo[1] = "web"
      BY <2>1, <2>5
    <3> QED
      BY <1>3, <3>1 DEF Parts
  <2>6. CASE running.todo \in {<<"done">>, <<"cut">>}
    <3>1. ToBeTold = {} /\ running.todo[1] \in {"done", "cut"}
      BY <2>1, <2>6
    <3> QED
      BY <1>3, <3>1 DEF Parts
  <2> QED
    BY <2>2, <2>3, <2>4, <2>5, <2>6
<1> QED
  BY <1>1, <1>2, <1>3

LEMMA NotToldPartsNext == TodoInv' => ToldFacts'
BY NotToldParts, PTL

(* The counter, while it does not wrap.                                    *)
LEMMA Counting ==
  ASSUME m_restart_pending \in Nat
  PROVE  /\ (m_restart_pending + 1) % (UintMax + 1) \in Nat
         /\ (m_restart_pending + UintMax) % (UintMax + 1) \in Nat
         /\ m_restart_pending < 3 =>
              (m_restart_pending + 1) % (UintMax + 1) = m_restart_pending + 1
         /\ m_restart_pending \in 1 .. 3 =>
              (m_restart_pending + UintMax) % (UintMax + 1) = m_restart_pending - 1
<1>1. UintMax \in Nat /\ UintMax > 3
  BY RestartAssumption
<1>2. m_restart_pending < 3 =>
        (m_restart_pending + 1) % (UintMax + 1) = m_restart_pending + 1
  BY <1>1
<1>3. (1 + UintMax) % (UintMax + 1) = 0
  BY <1>1
<1>4. (2 + UintMax) % (UintMax + 1) = 1
  BY <1>1
<1>5. (3 + UintMax) % (UintMax + 1) = 2
  BY <1>1
<1>6. m_restart_pending \in 1 .. 3 =>
        m_restart_pending = 1 \/ m_restart_pending = 2 \/ m_restart_pending = 3
  OBVIOUS
<1>7. (m_restart_pending + 1) % (UintMax + 1) \in Nat
      /\ (m_restart_pending + UintMax) % (UintMax + 1) \in Nat
  BY <1>1
<1> QED
  BY <1>2, <1>3, <1>4, <1>5, <1>6, <1>7

LEMMA TickListeners ==
  ASSUME restarts \in Nat
  PROVE  LET L == Listeners("ticker.1")
         IN  /\ L \in Seq(Who) /\ Len(L) = restarts + 3
             /\ \A i \in DOMAIN L : /\ L[i] = "sd" => i = 1
                                    /\ L[i] = "boot" <=> i \in 3 .. (restarts + 2)
<1> DEFINE B == [i \in 1 .. restarts |-> "boot"]
<1>1. B \in Seq(Who) /\ Len(B) = restarts
  BY DEF Who
<1> DEFINE M == <<"sd", "modem">> \o B
<1>2. /\ M \in Seq(Who) /\ Len(M) = restarts + 2
      /\ M[1] = "sd" /\ M[2] = "modem" /\ \A i \in 3 .. (restarts + 2) : M[i] = "boot"
  BY <1>1 DEF Who
<1> HIDE DEF M
<1> DEFINE N == M \o <<"web">>
<1>3. /\ N \in Seq(Who) /\ Len(N) = restarts + 3 /\ N[restarts + 3] = "web"
      /\ \A i \in 1 .. (restarts + 2) : N[i] = M[i]
  BY <1>2 DEF Who
<1>4. Listeners("ticker.1") = N
  BY DEF Listeners, M
<1>5. DOMAIN N = 1 .. (restarts + 3)
  BY <1>3
<1> HIDE DEF N
<1>6. \A i \in DOMAIN N : /\ N[i] = "sd" => i = 1
                          /\ N[i] = "boot" <=> i \in 3 .. (restarts + 2)
  <2> TAKE i \in DOMAIN N
  <2>1. i = 1 \/ i = 2 \/ i \in 3 .. (restarts + 2) \/ i = restarts + 3
    BY <1>5
  <2> QED
    BY <2>1, <1>2, <1>3
<1> QED
  BY <1>3, <1>4, <1>6

-----------------------------------------------------------------------------
LEMMA InitRestart == RestartInit => RestartIInv
<1> SUFFICES ASSUME RestartInit PROVE RestartIInv
  OBVIOUS
<1>1. queue = <<>> /\ running.event = "none" /\ running.todo = <<>> /\ ~ ToDo("boot")
      /\ \A e : ~ Queued(e)
  BY DEF RestartInit, None, ToDo, Queued
<1>2. RestartTypeInv
  <2>1. sd \in Cards
    <3>1. 0 \in 0 .. 3 /\ {FALSE} \subseteq BOOLEAN
      OBVIOUS
    <3> QED
      BY <3>1, Zenon DEF RestartInit, Cards
  <2>2. modem \in Modems /\ (modem.ticks > 0 <=> modem.state \in {"PoweringOff", "CheckPowerOff"})
    <3>1. 0 \in 0 .. (OffTicks + CheckTicks)
      BY RestartAssumption
    <3>2. modem \in {On, PoweredOff}
      BY DEF RestartInit
    <3>3. On \in Modems /\ PoweredOff \in Modems
      BY <3>1 DEF Modems, On, PoweredOff
    <3>4. modem.ticks = 0 /\ modem.state \in {"On", "PoweredOff"}
      BY <3>2 DEF On, PoweredOff
    <3> QED
      BY <3>2, <3>3, <3>4
  <2>3. running \in [event : Events \cup {"none"}, todo : Seq(Who)] /\ queue \in Seq(Events)
    BY DEF RestartInit, None
  <2>4. 0 \in 0 .. RestartTime
    BY RestartAssumption
  <2>5. /\ m_restart_timer = 0 /\ m_restart_pending = 0 /\ restarts = 0 /\ age = 0
        /\ m_restart_countdown = 0 /\ restarted = FALSE /\ alone = TRUE
    BY DEF RestartInit
  <2>6. /\ m_restart_timer \in Nat /\ m_restart_pending \in Nat /\ restarts \in Nat
        /\ age \in 0 .. RestartTime /\ m_restart_countdown \in 0 .. 3
    BY <2>4, <2>5
  <2>7. restarted \in BOOLEAN /\ alone \in BOOLEAN
    BY <2>5, Zenon
  <2>8. running.event = "none" <=> running.todo = <<>>
    BY <1>1
  <2> QED
    BY <2>1, <2>2, <2>3, <2>6, <2>7, <2>8, Zenon DEF RestartTypeInv
<1>3. TodoInv /\ CountdownInv /\ FirstInv /\ AloneInv
  BY <1>1 DEF RestartInit, TodoInv, CountdownInv, FirstInv, AloneInv
<1>4. UnmountingInv
  <2>1. sd.m_unmounting = FALSE
    BY DEF RestartInit
  <2> QED
    BY <1>1, <2>1 DEF RestartInit, UnmountingInv
<1> QED
  BY <1>2, <1>3, <1>4 DEF RestartIInv

-----------------------------------------------------------------------------
(* What a step does not touch.                                             *)
LEMMA SameTodo ==
  ASSUME TodoInv, UNCHANGED <<running, restarts>>
  PROVE  TodoInv' /\ (WillTick' <=> WillTick) /\ \A who : ToDo(who)' <=> ToDo(who)
BY DEF TodoInv, ToDo, WillTick

LEMMA SameQueue == UNCHANGED queue => \A e : Queued(e)' <=> Queued(e)
BY DEF Queued

LEMMA SameTold ==
  ASSUME UNCHANGED running, Queued("system.shuttingdown")' <=> Queued("system.shuttingdown")
  PROVE  ToBeTold' = ToBeTold
BY DEF ToBeTold, Queued

LEMMA SameBusy == UNCHANGED <<sd, modem, m_restart_countdown>> => Busy' = Busy
BY DEF Busy

LEMMA SameAlone ==
  ASSUME AloneInv, UNCHANGED <<timer, restarts, running, sd, alone, age>>,
         Busy' = Busy, ToBeTold' = ToBeTold,
         Queued("sd.unmounting")' => Queued("sd.unmounting")
  PROVE  AloneInv'
<1>1. WillTick' <=> WillTick
  BY DEF WillTick, ToDo
<1> QED
  BY <1>1 DEF AloneInv, timer, IsShuttingDown, Opens, Untold, Open, Cut, Num

LEMMA SameFirst ==
  ASSUME FirstInv, UNCHANGED <<restarts, queue>>,
         running'.event \in {running.event, "none"},
         restarts = 0 => m_restart_timer' = 0, alone' => alone
  PROVE  FirstInv'
<1>1. \A e : Queued(e)' <=> Queued(e)
  BY SameQueue
<1> QED
  BY <1>1 DEF FirstInv

LEMMA SameUnmounting ==
  ASSUME UnmountingInv, UNCHANGED <<restarts, queue>>,
         running'.event \in {running.event, "none"},
         running'.event = "ticker.1" /\ ToDo("sd")' => ToDo("sd"),
         sd'.m_unmounting => sd'.m_mounted,
         restarts = 0 => UNCHANGED sd
  PROVE  UnmountingInv'
<1>1. \A e : Queued(e)' <=> Queued(e)
  BY SameQueue
<1>2. restarts = 0 => ("sd" \in Busy' <=> "sd" \in Busy)
  BY BusyParts, BusyPartsNext DEF BusyFacts
<1> QED
  BY <1>1, <1>2 DEF UnmountingInv

LEMMA NotAlone == ~ alone' => AloneInv'
BY DEF AloneInv

-----------------------------------------------------------------------------
LEMMA TickStep == RestartIInv /\ Tick => RestartIInv'
<1> SUFFICES ASSUME RestartIInv, Tick PROVE RestartIInv'
  OBVIOUS
<1> USE DEF RestartIInv, Tick, timer, watched
<1>1. /\ "ticker.1" \in Events /\ queue \in Seq(Events)
      /\ queue' = Append(queue, "ticker.1")
      /\ ~ Queued("ticker.1") /\ running.event # "ticker.1"
  BY DEF RestartTypeInv, Events, TickQueued, Queued
<1>2. \A e : Queued(e)' <=> Queued(e) \/ e = "ticker.1"
  BY <1>1, QueuedAppend
<1>3. RestartTypeInv'
  BY <1>1, AppendQueue DEF RestartTypeInv
<1>4. TodoInv' /\ CountdownInv'
  BY SameTodo DEF CountdownInv, Num
<1>5. Busy' = Busy
  BY SameBusy
<1>6. ToBeTold' = ToBeTold
  BY <1>2, SameTold
<1>7. UnmountingInv'
  <2> USE DEF UnmountingInv
  <2>1. /\ DOMAIN queue' = 1 .. (Len(queue) + 1) /\ DOMAIN queue = 1 .. Len(queue)
        /\ Len(queue) \in Nat /\ queue'[Len(queue) + 1] = "ticker.1"
        /\ \A i \in DOMAIN queue : queue'[i] = queue[i] /\ queue[i] # "ticker.1"
    BY <1>1, AppendQueue DEF Queued
  <2>2. \A i, j \in DOMAIN queue' :
          queue'[i] = queue'[j] /\ queue'[i] = "ticker.1" => i = j
    BY <2>1
  <2>3. restarts = 0 => \A i \in DOMAIN queue' : queue'[i] = "sd.unmounting" =>
          "sd" \in Busy /\ \A j \in 1 .. (i - 1) : queue'[j] # "ticker.1"
    BY <2>1
  <2>4. restarts = 0 => \A i, j \in DOMAIN queue' :
          queue'[i] = queue'[j] /\ queue'[i] = "sd.unmounting" => i = j
    BY <2>1
  <2> QED
    BY <1>1, <1>2, <1>5, <2>2, <2>3, <2>4
<1>8. FirstInv'
  <2> USE DEF FirstInv
  <2>1. /\ DOMAIN queue' = 1 .. (Len(queue) + 1) /\ DOMAIN queue = 1 .. Len(queue)
        /\ Len(queue) \in Nat /\ queue'[Len(queue) + 1] = "ticker.1"
        /\ \A i \in DOMAIN queue : queue'[i] = queue[i]
    BY <1>1, AppendQueue
  <2>2. restarts = 1 =>
          \A i \in DOMAIN queue' : queue'[i] = "system.shuttingdown" =>
            /\ \A j \in DOMAIN queue' : queue'[j] = "system.shuttingdown" => i = j
            /\ \A j \in 1 .. (i - 1) : queue'[j] # "system.shutdown"
    BY <2>1
  <2> QED
    BY <1>2, <2>2
<1>9. AloneInv'
  BY <1>2, <1>5, <1>6, SameAlone
<1> QED
  BY <1>3, <1>4, <1>7, <1>8, <1>9

LEMMA Disturbed == Disturb => /\ alone' \in BOOLEAN /\ (alone' => alone)
                              /\ (restarts # 0 => ~ alone')
BY Zenon DEF Disturb

LEMMA PowerOff ==
  ASSUME RestartTypeInv
  PROVE  /\ PoweringOff \in Modems
         /\ PoweringOff.ticks = OffTicks /\ OffTicks > 0 /\ PoweringOff.state = "PoweringOff"
<1>1. OffTicks \in 0 .. (OffTicks + CheckTicks) /\ OffTicks > 0
  BY RestartAssumption
<1> QED
  BY <1>1 DEF RestartTypeInv, Modems, PoweringOff

LEMMA ModemCommandStep == RestartIInv /\ (ModemActivity \/ ModemCommand) => RestartIInv'
<1> SUFFICES ASSUME RestartIInv, ModemActivity \/ ModemCommand PROVE RestartIInv'
  OBVIOUS
<1> USE DEF RestartIInv, timer, watched, events
<1>1. /\ UNCHANGED <<timer, restarts, queue, running, sd, m_restart_countdown, restarted, age>>
      /\ alone' \in BOOLEAN /\ (alone' => alone)
      /\ alone' /\ restarts = 1 => modem.state = "CheckPowerOff" /\ modem' = PoweringOff
  BY Disturbed DEF RestartTypeInv, ModemActivity, ModemCommand
<1>2. modem' \in Modems /\ (modem'.ticks > 0 <=> modem'.state \in {"PoweringOff", "CheckPowerOff"})
  <2> DEFINE P == PoweringOff
             Q == [P EXCEPT !.m_powermode = FALSE]
             O == [modem EXCEPT !.state = "On", !.ticks = 0, !.m_powermode = TRUE]
  <2>1. Q \in Modems /\ Q.ticks = OffTicks /\ Q.state = "PoweringOff"
    BY PowerOff DEF Modems
  <2>2. O \in Modems /\ O.ticks = 0 /\ O.state = "On"
    <3>1. 0 \in 0 .. (OffTicks + CheckTicks)
      BY RestartAssumption
    <3> QED
      BY <3>1 DEF RestartTypeInv, Modems
  <2>3. modem' \in {P, Q, O}
    BY DEF ModemActivity, ModemCommand
  <2> HIDE DEF P, Q, O
  <2>4. CASE modem' = O
    BY <2>4, <2>2
  <2>5. CASE modem' = P
    BY <2>5, PowerOff DEF P
  <2>6. CASE modem' = Q
    BY <2>6, <2>1, PowerOff
  <2> QED
    BY <2>3, <2>4, <2>5, <2>6
<1>3. RestartTypeInv'
  BY <1>1, <1>2 DEF RestartTypeInv
<1>4. TodoInv' /\ CountdownInv' /\ ToBeTold' = ToBeTold
  BY <1>1, SameTodo, SameQueue, SameTold DEF CountdownInv, Num
<1>5. UnmountingInv' /\ FirstInv'
  BY <1>1, SameUnmounting, SameFirst, SameTodo DEF UnmountingInv, FirstInv
<1>6. AloneInv'
  <2>1. CASE alone' /\ restarts = 1
    <3>1. \A x \in Parts : x \in Busy' <=> x \in Busy
      BY <2>1, <1>1, PowerOff, BusyParts, BusyPartsNext DEF BusyFacts, Parts
    <3>2. Busy' = Busy
      BY <3>1, BusyParts, BusyPartsNext DEF BusyFacts
    <3>3. UNCHANGED alone
      BY <2>1, <1>1 DEF RestartTypeInv
    <3> QED
      BY <3>2, <3>3, <1>1, <1>4, SameAlone, SameQueue
  <2> QED
    BY <2>1, <1>1 DEF AloneInv
<1> QED
  BY <1>3, <1>4, <1>5, <1>6

(* The turn of one of those told of another event.                         *)
LEMMA EventTurn ==
  ASSUME RestartTypeInv, TodoInv, NEW e \in Events, e # "ticker.1", NEW w, Turn(e, w),
         restarts' = restarts
  PROVE  /\ TodoInv' /\ running'.event \in {e, "none"}
         /\ ~ WillTick /\ ~ WillTick'
         /\ e = "sd.unmounting" => running'.event = "none"
         /\ e = "system.shuttingdown" =>
              /\ running.todo \in {<<"sd", "modem", "web", "done">>, <<"modem", "web", "done">>,
                                   <<"web", "done">>, <<"done">>, <<"cut">>}
              /\ w = "sd" => running'.todo = <<"modem", "web", "done">>
              /\ w = "modem" => running'.todo = <<"web", "done">>
              /\ w = "web" => running'.todo = <<"done">>
              /\ w = "cut" => running'.todo = <<>>
<1>1. /\ running.event = e /\ running.todo[1] = w
      /\ running'.todo = Tail(running.todo)
      /\ running'.event = IF running'.todo = <<>> THEN "none" ELSE e
  BY TurnTail
<1>2. CASE e = "sd.unmounting"
  <2>1. running.todo = <<"done">>
    BY <1>1, <1>2 DEF TodoInv
  <2>2. running'.event = "none"
    BY <1>1, <2>1
  <2> QED
    BY <1>1, <1>2, <2>2 DEF TodoInv, WillTick
<1>3. CASE e = "system.shuttingdown"
  <2>1. running.todo \in {<<"sd", "modem", "web", "done">>, <<"modem", "web", "done">>,
                          <<"web", "done">>, <<"done">>, <<"cut">>}
    BY <1>1, <1>3 DEF TodoInv
  <2>2. /\ w = "sd" => running'.todo = <<"modem", "web", "done">>
        /\ w = "modem" => running'.todo = <<"web", "done">>
        /\ w = "web" => running'.todo = <<"done">>
        /\ w = "cut" => running'.todo = <<>>
        /\ running'.todo \in {<<"modem", "web", "done">>, <<"web", "done">>, <<"done">>, <<>>}
    <3>1. /\ Tail(<<"sd", "modem", "web", "done">>) = <<"modem", "web", "done">>
          /\ Tail(<<"modem", "web", "done">>) = <<"web", "done">>
          /\ Tail(<<"web", "done">>) = <<"done">>
          /\ Tail(<<"done">>) = <<>> /\ Tail(<<"cut">>) = <<>>
      OBVIOUS
    <3>2. CASE running.todo = <<"sd", "modem", "web", "done">>
      BY <1>1, <3>1, <3>2
    <3>3. CASE running.todo = <<"modem", "web", "done">>
      BY <1>1, <3>1, <3>3
    <3>4. CASE running.todo = <<"web", "done">>
      BY <1>1, <3>1, <3>4
    <3>5. CASE running.todo = <<"done">>
      BY <1>1, <3>1, <3>5
    <3>6. CASE running.todo = <<"cut">>
      BY <1>1, <3>1, <3>6
    <3> QED
      BY <2>1, <3>2, <3>3, <3>4, <3>5, <3>6
  <2>3. running'.event = "system.shuttingdown" =>
          running'.todo \in {<<"modem", "web", "done">>, <<"web", "done">>, <<"done">>}
    BY <1>1, <1>3, <2>2
  <2> QED
    BY <1>1, <1>3, <2>1, <2>2, <2>3 DEF TodoInv, WillTick
<1>4. CASE e = "system.shutdown"
  BY <1>1, <1>4 DEF TodoInv, WillTick
<1> QED
  BY <1>2, <1>3, <1>4 DEF Events

(* The SD card, unmounted or not.                                          *)
LEMMA Unmounting ==
  ASSUME RestartTypeInv, UnmountHard
  PROVE  /\ sd' \in Cards
         /\ sd' = sd \/ (sd.m_mounted /\ sd' = Unmounted)
         /\ ~ Unmounted.m_mounted /\ ~ Unmounted.m_unmounting
         /\ Unmounted.mountcount = 3
<1>1. /\ ~ Unmounted.m_mounted /\ ~ Unmounted.m_unmounting
      /\ Unmounted.mountcount = 3 /\ Unmounted \in Cards
  BY DEF Unmounted, Cards
<1>2. sd \in Cards
  BY DEF RestartTypeInv
<1> QED
  BY <1>1, <1>2 DEF UnmountHard

LEMMA SdUnmountStep == RestartIInv /\ (SdUnmountingDone \/ SdShutdown) => RestartIInv'
<1> SUFFICES ASSUME RestartIInv, SdUnmountingDone \/ SdShutdown PROVE RestartIInv'
  OBVIOUS
<1> USE DEF RestartIInv, timer, watched
<1>1. PICK e \in {"sd.unmounting", "system.shutdown"}, w \in {"done", "sd"} : Turn(e, w)
  BY DEF SdUnmountingDone, SdShutdown
<1>2. /\ UnmountHard
      /\ UNCHANGED <<timer, restarts, queue, modem, m_restart_countdown, restarted, watched>>
  BY DEF SdUnmountingDone, SdShutdown
<1>3. e \in Events /\ e # "ticker.1" /\ e # "system.shuttingdown"
  BY DEF Events
<1>4. /\ running.event = e /\ running' \in [event : Events \cup {"none"}, todo : Seq(Who)]
      /\ running'.event = "none" <=> running'.todo = <<>>
  BY <1>1, <1>3, TurnTail
<1>5. TodoInv' /\ running'.event \in {e, "none"} /\ ~ WillTick /\ ~ WillTick'
  BY <1>1, <1>2, <1>3, EventTurn
<1>6. RestartTypeInv'
  BY <1>2, <1>4, Unmounting DEF RestartTypeInv
<1>7. CountdownInv'
  BY <1>2, <1>5 DEF CountdownInv, Num
<1>8. FirstInv'
  BY <1>2, <1>4, <1>5, SameFirst DEF FirstInv
<1>9. UnmountingInv'
  <2>1. \A x : Queued(x)' <=> Queued(x)
    BY <1>2, SameQueue
  <2>2. restarts = 0 => e = "sd.unmounting" /\ ~ Queued("sd.unmounting")
    BY <1>4 DEF FirstInv, UnmountingInv
  <2>3. e = "sd.unmounting" => running'.event = "none"
    BY <1>1, <1>2, <1>3, EventTurn
  <2>4. sd'.m_unmounting => sd'.m_mounted
    BY <1>2, Unmounting DEF UnmountingInv
  <2> QED
    BY <1>2, <1>3, <1>5, <2>1, <2>2, <2>3, <2>4 DEF UnmountingInv, Queued
<1>10. AloneInv'
  <2> SUFFICES ASSUME alone, restarts = 1 PROVE AloneInv'
    BY <1>2 DEF AloneInv
  <2>1. \A x : Queued(x)' <=> Queued(x)
    BY <1>2, SameQueue
  <2>2. ToBeTold' = ToBeTold
    BY <1>3, <1>4, <1>5, <2>1, NotToldParts, NotToldPartsNext DEF ToldFacts
  <2>3. "sd" \notin ToBeTold
    BY <1>3, <1>4, NotToldParts DEF ToldFacts, AloneInv, FirstInv, Parts
  <2>4. \A x \in Parts : x \in Busy' <=> x \in Busy
    <3>1. sd.m_mounted => sd.m_unmounting
      BY <2>3 DEF AloneInv
    <3>2. "sd" \in Busy' <=> "sd" \in Busy
      <4>1. CASE UNCHANGED sd
        BY <4>1, BusyParts, BusyPartsNext DEF BusyFacts
      <4>2. CASE sd.m_mounted /\ sd' = Unmounted
        <5>1. "sd" \in Busy
          BY <3>1, <4>2, BusyParts DEF BusyFacts
        <5>2. "sd" \in Busy'
          BY <4>2, <1>2, Unmounting, BusyPartsNext DEF BusyFacts
        <5> QED
          BY <5>1, <5>2
      <4> QED
        BY <1>2, <4>1, <4>2, Unmounting
    <3> QED
      BY <1>2, <3>2, BusyParts, BusyPartsNext DEF BusyFacts, Parts
  <2>5. Busy' = Busy
    BY <2>4, BusyParts, BusyPartsNext DEF BusyFacts
  <2>6. sd'.m_mounted => sd'.m_unmounting
    BY <1>2, <2>3, Unmounting DEF AloneInv
  <2> QED
    BY <1>2, <1>3, <1>5, <2>1, <2>2, <2>3, <2>5, <2>6
       DEF AloneInv, IsShuttingDown, Opens, Untold, Open, Cut, Num
<1> QED
  BY <1>5, <1>6, <1>7, <1>8, <1>9, <1>10

LEMMA ShutdownDoneStep == RestartIInv /\ ShutdownDone => RestartIInv'
<1> SUFFICES ASSUME RestartIInv, ShutdownDone PROVE RestartIInv'
  OBVIOUS
<1> USE DEF RestartIInv, ShutdownDone, timer, watched
<1>1. "system.shutdown" \in Events
  BY DEF Events
<1>2. /\ running.event = "system.shutdown"
      /\ running' \in [event : Events \cup {"none"}, todo : Seq(Who)]
      /\ running'.event = "none" <=> running'.todo = <<>>
  BY <1>1, TurnTail
<1>3. TodoInv' /\ running'.event \in {"system.shutdown", "none"} /\ ~ WillTick /\ ~ WillTick'
  BY <1>1, EventTurn
<1>4. restarted' \in BOOLEAN
  BY Zenon
<1>5. RestartTypeInv'
  BY <1>2, <1>4 DEF RestartTypeInv
<1>6. CountdownInv'
  BY <1>3 DEF CountdownInv, Num
<1>7. FirstInv' /\ UnmountingInv'
  BY <1>2, <1>3, SameFirst, SameUnmounting DEF FirstInv, UnmountingInv
<1>8. AloneInv'
  <2>1. \A x : Queued(x)' <=> Queued(x)
    BY SameQueue
  <2>2. ToBeTold' = ToBeTold
    BY <1>2, <1>3, <2>1, NotToldParts, NotToldPartsNext DEF ToldFacts
  <2>3. Busy' = Busy
    BY SameBusy
  <2> QED
    BY <1>2, <1>3, <2>1, <2>2, <2>3
       DEF AloneInv, IsShuttingDown, Opens, Untold, Open, Cut, Num
<1> QED
  BY <1>3, <1>5, <1>6, <1>7, <1>8

LEMMA ShuttingDownDoneStep == RestartIInv /\ ShuttingDownDone => RestartIInv'
<1> SUFFICES ASSUME RestartIInv, ShuttingDownDone PROVE RestartIInv'
  OBVIOUS
<1> USE DEF RestartIInv
<1>1. running.event = "system.shuttingdown" /\ running.todo = <<"done">>
      /\ UNCHANGED <<m_restart_timer, m_restart_pending, restarts, queue, sd, modem,
                     m_restart_countdown, restarted, age, alone>>
  BY DEF ShuttingDownDone, timer, watched
<1>2. /\ running' \in [event : Events \cup {"none"}, todo : Seq(Who)]
      /\ \/ /\ running'.event = "system.shuttingdown" /\ running'.todo = <<"cut">>
            /\ m_restart_pending = 0
         \/ running'.event = "none" /\ running'.todo = <<>>
  <2>1. CASE m_restart_pending = 0
    <3>1. running' = [running EXCEPT !.todo = <<"cut">>]
      BY <2>1 DEF ShuttingDownDone
    <3>2. <<"cut">> \in Seq(Who)
      BY DEF Who
    <3> QED
      BY <2>1, <3>1, <3>2, <1>1 DEF RestartTypeInv
  <2>2. CASE m_restart_pending # 0
    BY <2>2 DEF ShuttingDownDone, None
  <2> QED
    BY <2>1, <2>2
<1>3. RestartTypeInv'
  BY <1>1, <1>2 DEF RestartTypeInv
<1>4. TodoInv' /\ ~ WillTick /\ ~ WillTick'
  BY <1>1, <1>2 DEF TodoInv, WillTick
<1>5. CountdownInv'
  BY <1>1, <1>4 DEF CountdownInv, Num
<1>6. FirstInv' /\ UnmountingInv'
  BY <1>1, <1>2, SameFirst, SameUnmounting DEF FirstInv, UnmountingInv
<1>7. AloneInv'
  <2> SUFFICES ASSUME alone, restarts = 1 PROVE AloneInv'
    BY <1>1 DEF AloneInv
  <2>1. \A x : Queued(x)' <=> Queued(x)
    BY <1>1, SameQueue
  <2>2. ~ Queued("system.shuttingdown")
    BY <1>1 DEF FirstInv
  <2>3. ToBeTold = {} /\ ToBeTold' = {}
    <3>1. "done" \notin {"sd", "modem", "web"} /\ "cut" \notin {"sd", "modem", "web"}
          /\ <<"done">>[1] = "done" /\ <<"cut">>[1] = "cut"
      OBVIOUS
    <3>2. ToBeTold = {}
      BY <1>1, <2>2, <3>1, NotToldParts DEF ToldFacts, Parts
    <3>3. ~ Queued("system.shuttingdown")' /\ ToldFacts'
      BY <1>4, <2>1, <2>2, NotToldPartsNext
    <3>4. CASE running'.event = "none"
      BY <3>2, <3>3, <3>4 DEF ToldFacts
    <3>5. CASE running'.event # "none"
      BY <1>2, <3>1, <3>2, <3>3, <3>5 DEF ToldFacts, Parts
    <3> QED
      BY <3>4, <3>5
  <2>4. Busy' = Busy
    BY <1>1, SameBusy
  <2> QED
    BY <1>1, <1>2, <1>4, <2>1, <2>3, <2>4
       DEF AloneInv, IsShuttingDown, Opens, Untold, Open, Cut, Num
<1> QED
  BY <1>3, <1>4, <1>5, <1>6, <1>7

LEMMA ShuttingDownCutStep == RestartIInv /\ ShuttingDownCut => RestartIInv'
<1> SUFFICES ASSUME RestartIInv, ShuttingDownCut PROVE RestartIInv'
  OBVIOUS
<1> USE DEF RestartIInv, ShuttingDownCut, watched
<1>1. "system.shuttingdown" \in Events
  BY DEF Events
<1>2. /\ running.event = "system.shuttingdown" /\ running.todo[1] = "cut"
      /\ running' \in [event : Events \cup {"none"}, todo : Seq(Who)]
      /\ running'.event = "none" <=> running'.todo = <<>>
  BY <1>1, TurnTail
<1>3. /\ TodoInv' /\ running'.event = "none" /\ ~ WillTick /\ ~ WillTick'
      /\ running.todo = <<"cut">>
  BY <1>1, <1>2, EventTurn
<1>4. RestartTypeInv'
  BY <1>2 DEF RestartTypeInv
<1>5. CountdownInv'
  BY DEF CountdownInv
<1>6. FirstInv' /\ UnmountingInv'
  BY <1>2, <1>3, SameFirst, SameUnmounting DEF FirstInv, UnmountingInv
<1>7. AloneInv'
  <2> SUFFICES ASSUME alone, restarts = 1 PROVE AloneInv'
    BY DEF AloneInv
  <2>1. \A x : Queued(x)' <=> Queued(x)
    BY SameQueue
  <2>2. ~ Queued("system.shuttingdown")
    BY <1>2 DEF FirstInv
  <2>3. ToBeTold = {} /\ ToBeTold' = {}
    BY <1>2, <1>3, <2>1, <2>2, NotToldParts, NotToldPartsNext DEF ToldFacts, Parts
  <2>4. Busy' = Busy /\ Busy \subseteq Parts
    BY SameBusy, BusyParts DEF BusyFacts
  <2>5. Opens = 0 /\ m_restart_pending = 0
    BY <1>2, <1>3 DEF AloneInv, Opens, Num
  <2>6. Busy = {}
    BY <2>3, <2>4, <2>5 DEF Opens, Open, Num, Parts
  <2> QED
    BY <1>2, <1>3, <2>1, <2>3, <2>4, <2>5, <2>6
       DEF AloneInv, IsShuttingDown, Opens, Untold, Open, Cut, Num
<1> QED
  BY <1>3, <1>4, <1>5, <1>6, <1>7

(* A part is told of the restart.                                          *)
LEMMA Telling ==
  ASSUME RestartIInv, NEW part \in Parts, Turn("system.shuttingdown", part), alone, restarts = 1,
         UNCHANGED restarts, Queued("system.shuttingdown")' <=> Queued("system.shuttingdown")
  PROVE  /\ part \in ToBeTold /\ part \notin Busy /\ ToBeTold' = ToBeTold \ {part}
         /\ running'.event # "ticker.1" /\ running'.todo # <<"cut">>
         /\ m_restart_pending < 3 /\ Untold' = Untold - 1
<1> USE DEF RestartIInv
<1>1. /\ "system.shuttingdown" \in Events /\ running.event = "system.shuttingdown"
      /\ running.todo[1] = part /\ running'.event = IF running'.todo = <<>> THEN "none"
                                                    ELSE "system.shuttingdown"
  BY TurnTail DEF Events
<1>2. TodoInv' /\ running'.todo = IF part = "sd" THEN <<"modem", "web", "done">>
                                  ELSE IF part = "modem" THEN <<"web", "done">> ELSE <<"done">>
  BY <1>1, EventTurn DEF Parts
<1>3. ~ Queued("system.shuttingdown") /\ ~ Queued("system.shuttingdown")'
  BY <1>1 DEF FirstInv
<1>4. ToldFacts /\ ToldFacts'
  BY <1>2, NotToldParts, NotToldPartsNext
<1>5. /\ "sd" \in ToBeTold <=> part = "sd"
      /\ "modem" \in ToBeTold <=> part \in {"sd", "modem"}
      /\ "web" \in ToBeTold /\ ToBeTold \subseteq Parts
  BY <1>1, <1>3, <1>4 DEF ToldFacts, Parts
<1>6. running'.event = "system.shuttingdown" /\ running'.todo # <<"cut">>
      /\ running'.todo[1] = IF part = "sd" THEN "modem"
                            ELSE IF part = "modem" THEN "web" ELSE "done"
  BY <1>1, <1>2 DEF Parts
<1>7. /\ "sd" \notin ToBeTold'
      /\ "modem" \in ToBeTold' <=> part = "sd"
      /\ "web" \in ToBeTold' <=> part \in {"sd", "modem"}
      /\ ToBeTold' \subseteq Parts
  BY <1>3, <1>4, <1>6 DEF ToldFacts, Parts
<1>8. part \in ToBeTold /\ ToBeTold' = ToBeTold \ {part} /\ Untold' = Untold - 1 /\ Untold > 0
  <2>1. part \in {"sd", "modem", "web"}
    BY DEF Parts
  <2>2. part \in ToBeTold
    BY <1>5, <2>1
  <2>3. \A x \in Parts : x \in ToBeTold' <=> x \in ToBeTold /\ x # part
    BY <1>5, <1>7, <2>1 DEF Parts
  <2>4. ToBeTold' = ToBeTold \ {part}
    BY <1>5, <1>7, <2>3
  <2>5. /\ Num("sd" \in ToBeTold') = IF part = "sd" THEN 0 ELSE Num("sd" \in ToBeTold)
        /\ Num("modem" \in ToBeTold') = IF part = "modem" THEN 0 ELSE Num("modem" \in ToBeTold)
        /\ Num("web" \in ToBeTold') = IF part = "web" THEN 0 ELSE Num("web" \in ToBeTold)
        /\ Num(part \in ToBeTold) = 1
    BY <2>2, <2>3 DEF Parts, Num
  <2>6. \A b \in BOOLEAN : Num(b) \in Nat
    BY DEF Num
  <2> QED
    BY <2>1, <2>2, <2>4, <2>5, <2>6 DEF Untold
<1>9. part \notin Busy /\ m_restart_pending < 3
  BY <1>8 DEF AloneInv, Untold, Num, RestartTypeInv
<1> QED
  BY <1>6, <1>8, <1>9

LEMMA TellingAlone ==
  ASSUME RestartIInv, NEW part \in Parts, Turn("system.shuttingdown", part),
         UNCHANGED <<m_restart_timer, restarts, age, alone>>,
         Queued("system.shuttingdown")' <=> Queued("system.shuttingdown"),
         alone /\ restarts = 1 /\ "sd" \in ToBeTold' =>
           (Queued("sd.unmounting")' <=> Queued("sd.unmounting")),
         \A x \in Parts \ {part} : x \in Busy' <=> x \in Busy,
         \/ /\ m_restart_pending' = (m_restart_pending + 1) % (UintMax + 1)
            /\ part \in Busy'
         \/ m_restart_pending' = m_restart_pending /\ (part \in Busy' <=> part \in Busy),
         IF part = "sd" THEN sd'.m_mounted => sd'.m_unmounting ELSE UNCHANGED sd
  PROVE  AloneInv'
<1> USE DEF RestartIInv
<1> SUFFICES ASSUME alone, restarts = 1 PROVE AloneInv'
  BY DEF AloneInv
<1>1. /\ "system.shuttingdown" \in Events /\ running.event = "system.shuttingdown"
      /\ running'.event \in {"system.shuttingdown", "none"} /\ ~ WillTick /\ ~ WillTick'
  BY TurnTail, EventTurn DEF Events
<1>2. /\ part \in ToBeTold /\ part \notin Busy /\ ToBeTold' = ToBeTold \ {part}
      /\ running'.todo # <<"cut">> /\ m_restart_pending < 3 /\ Untold' = Untold - 1
  BY Telling
<1>3. Busy' \subseteq Parts /\ part \in {"sd", "modem", "web"}
  BY BusyPartsNext DEF BusyFacts, Parts
<1>4. /\ Num(Open("sd")') = IF part = "sd" THEN Num(part \in Busy') ELSE Num(Open("sd"))
      /\ Num(Open("modem")') = IF part = "modem" THEN Num(part \in Busy') ELSE Num(Open("modem"))
      /\ Num(Open("web")') = IF part = "web" THEN Num(part \in Busy') ELSE Num(Open("web"))
      /\ Num(Open(part)) = 0
  BY <1>2, <1>3 DEF Open, Parts, Num
<1>6. Opens' = Opens + Num(part \in Busy') /\ Opens \in Nat /\ Untold \in Nat
  <2>1. /\ Num(part \in Busy') \in Nat
        /\ Num(Open("sd")) \in Nat /\ Num(Open("modem")) \in Nat /\ Num(Open("web")) \in Nat
        /\ Untold \in Nat
    BY DEF Num, Untold
  <2>2. Opens' = Num(Open("sd")') + Num(Open("modem")') + Num(Open("web")')
    BY DEF Opens
  <2>3. CASE part = "sd"
    BY <1>4, <2>1, <2>2, <2>3 DEF Opens
  <2>4. CASE part = "modem"
    BY <1>4, <2>1, <2>2, <2>4 DEF Opens
  <2>5. CASE part = "web"
    BY <1>4, <2>1, <2>2, <2>5 DEF Opens
  <2> QED
    BY <1>3, <2>3, <2>4, <2>5
<1>7. m_restart_pending' = m_restart_pending + Num(part \in Busy')
  BY <1>2, Counting DEF Num, RestartTypeInv
<1>8. /\ m_restart_pending >= Opens /\ m_restart_pending + Untold <= 3
      /\ (IsShuttingDown => m_restart_pending = Opens)
      /\ Busy \cap ToBeTold = {}
      /\ "sd" \in ToBeTold => ~ Queued("sd.unmounting")
      /\ "sd" \notin ToBeTold => (sd.m_mounted => sd.m_unmounting)
  BY DEF AloneInv
<1>9. Busy' \cap ToBeTold' = {}
  BY <1>2, <1>3, <1>8
<1>10. /\ m_restart_pending' >= Opens' /\ m_restart_pending' + Untold' <= 3
       /\ (IsShuttingDown' => m_restart_pending' = Opens')
  <2>1. m_restart_pending \in Nat /\ Num(part \in Busy') \in 0 .. 1
    BY DEF RestartTypeInv, Num
  <2> QED
    BY <1>2, <1>6, <1>7, <1>8, <2>1 DEF IsShuttingDown
<1>11. age < RestartTime => m_restart_timer + age >= RestartTime
  <2>1. Num(WillTick) = 0 /\ RestartTime + 0 = RestartTime /\ ~ Cut
    BY <1>1, <1>2, RestartAssumption DEF Num, Cut
  <2> QED
    BY <2>1 DEF AloneInv
<1>12. Num(WillTick') = 0 /\ RestartTime + 0 = RestartTime
  BY <1>1, RestartAssumption DEF Num
<1>13. /\ "sd" \in ToBeTold' => ~ Queued("sd.unmounting")'
       /\ "sd" \notin ToBeTold' => (sd'.m_mounted => sd'.m_unmounting)
  BY <1>2, <1>3, <1>8
<1> QED
  BY <1>1, <1>2, <1>9, <1>10, <1>11, <1>12, <1>13 DEF AloneInv

LEMMA ModemShuttingDownStep == RestartIInv /\ ModemShuttingDown => RestartIInv'
<1> SUFFICES ASSUME RestartIInv, ModemShuttingDown PROVE RestartIInv'
  OBVIOUS
<1> USE DEF RestartIInv
<1>1. /\ "system.shuttingdown" \in Events /\ Turn("system.shuttingdown", "modem")
      /\ UNCHANGED <<m_restart_timer, restarts, queue, sd, m_restart_countdown, restarted,
                     age, alone>>
      /\ \/ /\ m_restart_pending' = (m_restart_pending + 1) % (UintMax + 1)
            /\ modem' = PoweringOff
         \/ modem.state = "PoweredOff" /\ UNCHANGED <<modem, m_restart_pending>>
  BY DEF ModemShuttingDown, Events, RestartPending, timer, watched
<1>2. /\ running.event = "system.shuttingdown"
      /\ running' \in [event : Events \cup {"none"}, todo : Seq(Who)]
      /\ running'.event = "none" <=> running'.todo = <<>>
  BY <1>1, TurnTail
<1>3. TodoInv' /\ running'.event \in {"system.shuttingdown", "none"} /\ ~ WillTick /\ ~ WillTick'
  BY <1>1, EventTurn
<1>4. RestartTypeInv'
  <2>1. m_restart_pending' \in Nat
    BY <1>1, Counting DEF RestartTypeInv
  <2>2. modem' \in Modems /\ (modem'.ticks > 0 <=> modem'.state \in {"PoweringOff", "CheckPowerOff"})
    BY <1>1, PowerOff DEF RestartTypeInv
  <2> QED
    BY <1>1, <1>2, <2>1, <2>2 DEF RestartTypeInv
<1>5. CountdownInv'
  BY <1>1, <1>3 DEF CountdownInv, Num
<1>6. FirstInv' /\ UnmountingInv'
  BY <1>1, <1>2, <1>3, SameFirst, SameUnmounting DEF FirstInv, UnmountingInv
<1>7. AloneInv'
  <2>1. \A x : Queued(x)' <=> Queued(x)
    BY <1>1, SameQueue
  <2>2. \A x \in Parts \ {"modem"} : x \in Busy' <=> x \in Busy
    BY <1>1, BusyParts, BusyPartsNext DEF BusyFacts, Parts
  <2>3. IF m_restart_pending' = m_restart_pending /\ modem' = modem
          THEN "modem" \in Busy' <=> "modem" \in Busy ELSE "modem" \in Busy'
    BY <1>1, PowerOff, BusyParts, BusyPartsNext DEF BusyFacts
  <2>4. "modem" \in Parts /\ "modem" # "sd"
    BY DEF Parts
  <2> QED
    BY <1>1, <2>1, <2>2, <2>3, <2>4, TellingAlone
<1> QED
  BY <1>3, <1>4, <1>5, <1>6, <1>7

LEMMA WebShuttingDownStep == RestartIInv /\ WebShuttingDown => RestartIInv'
<1> SUFFICES ASSUME RestartIInv, WebShuttingDown PROVE RestartIInv'
  OBVIOUS
<1> USE DEF RestartIInv
<1>1. /\ "system.shuttingdown" \in Events /\ Turn("system.shuttingdown", "web")
      /\ UNCHANGED <<m_restart_timer, restarts, queue, sd, modem, restarted, age, alone>>
      /\ m_restart_pending' = (m_restart_pending + 1) % (UintMax + 1)
      /\ m_restart_countdown' = 3
  BY DEF WebShuttingDown, Events, RestartPending, watched
<1>2. /\ running.event = "system.shuttingdown"
      /\ running' \in [event : Events \cup {"none"}, todo : Seq(Who)]
      /\ running'.event = "none" <=> running'.todo = <<>>
  BY <1>1, TurnTail
<1>3. TodoInv' /\ running'.event \in {"system.shuttingdown", "none"} /\ ~ WillTick /\ ~ WillTick'
  BY <1>1, EventTurn
<1>4. RestartTypeInv'
  BY <1>1, <1>2, Counting DEF RestartTypeInv
<1>5. CountdownInv'
  BY <1>1, <1>3 DEF CountdownInv, Num
<1>6. FirstInv' /\ UnmountingInv'
  BY <1>1, <1>2, <1>3, SameFirst, SameUnmounting DEF FirstInv, UnmountingInv
<1>7. AloneInv'
  <2>1. \A x : Queued(x)' <=> Queued(x)
    BY <1>1, SameQueue
  <2>2. \A x \in Parts \ {"web"} : x \in Busy' <=> x \in Busy
    BY <1>1, BusyParts, BusyPartsNext DEF BusyFacts, Parts
  <2>3. "web" \in Busy'
    BY <1>1, BusyPartsNext DEF BusyFacts
  <2>4. "web" \in Parts /\ "web" # "sd"
    BY DEF Parts
  <2> QED
    BY <1>1, <2>1, <2>2, <2>3, <2>4, TellingAlone
<1> QED
  BY <1>3, <1>4, <1>5, <1>6, <1>7

(* An event other than system.shuttingdown is queued.                      *)
LEMMA AppendFirst ==
  ASSUME FirstInv, queue \in Seq(Events), NEW e \in Events, queue' = Append(queue, e),
         UNCHANGED restarts, running'.event \in {running.event, "none"},
         e # "system.shuttingdown", restarts = 0 => e # "system.shutdown" /\ m_restart_timer' = 0,
         alone' => alone
  PROVE  FirstInv'
<1>1. \A x : Queued(x)' <=> Queued(x) \/ x = e
  BY QueuedAppend
<1>2. /\ DOMAIN queue' = 1 .. (Len(queue) + 1) /\ DOMAIN queue = 1 .. Len(queue)
      /\ Len(queue) \in Nat /\ queue'[Len(queue) + 1] = e
      /\ \A i \in DOMAIN queue : queue'[i] = queue[i]
  BY AppendQueue
<1>3. restarts = 1 =>
        \A i \in DOMAIN queue' : queue'[i] = "system.shuttingdown" =>
          /\ \A j \in DOMAIN queue' : queue'[j] = "system.shuttingdown" => i = j
          /\ \A j \in 1 .. (i - 1) : queue'[j] # "system.shutdown"
  BY <1>2 DEF FirstInv
<1> QED
  BY <1>1, <1>3 DEF FirstInv

(* After a restart, only the ticks matter.                                 *)
LEMMA AppendUnmounting ==
  ASSUME UnmountingInv, queue \in Seq(Events), NEW e \in Events, queue' = Append(queue, e),
         restarts' # 0, running'.event \in {running.event, "none"}, e # "ticker.1",
         sd'.m_unmounting => sd'.m_mounted
  PROVE  UnmountingInv'
<1>1. \A x : Queued(x)' <=> Queued(x) \/ x = e
  BY QueuedAppend
<1>2. /\ DOMAIN queue' = 1 .. (Len(queue) + 1) /\ DOMAIN queue = 1 .. Len(queue)
      /\ Len(queue) \in Nat /\ queue'[Len(queue) + 1] = e
      /\ \A i \in DOMAIN queue : queue'[i] = queue[i]
  BY AppendQueue
<1>3. \A i, j \in DOMAIN queue' : queue'[i] = queue'[j] /\ queue'[i] = "ticker.1" => i = j
  <2>1. \A i \in DOMAIN queue' : queue'[i] = "ticker.1" =>
          i \in DOMAIN queue /\ queue[i] = "ticker.1"
    BY <1>2
  <2>2. \A i, j \in DOMAIN queue : queue[i] = queue[j] /\ queue[i] = "ticker.1" => i = j
    BY DEF UnmountingInv
  <2> QED
    BY <2>1, <2>2
<1> QED
  BY <1>1, <1>3 DEF UnmountingInv

LEMMA UnmountsSoft ==
  ASSUME RestartTypeInv, UnmountingInv, UnmountSoft
  PROVE  /\ sd' \in Cards /\ (sd'.m_unmounting => sd'.m_mounted)
         /\ sd'.m_mounted => sd'.m_unmounting
         /\ IF sd.m_mounted /\ ~ sd.m_unmounting
              THEN queue' = Append(queue, "sd.unmounting") ELSE UNCHANGED <<sd, queue>>
         /\ "sd" \in Busy' <=> sd.m_mounted \/ "sd" \in Busy
         /\ "sd.unmounting" \in Events
<1>1. CASE sd.m_mounted /\ ~ sd.m_unmounting
  <2>1. sd' = [sd EXCEPT !.m_unmounting = TRUE] /\ queue' = Append(queue, "sd.unmounting")
    BY <1>1 DEF UnmountSoft
  <2>2. sd' \in Cards /\ sd'.m_unmounting /\ sd'.m_mounted
    BY <1>1, <2>1 DEF RestartTypeInv, Cards
  <2> QED
    BY <1>1, <2>1, <2>2, BusyPartsNext DEF BusyFacts, Events
<1>2. CASE ~ (sd.m_mounted /\ ~ sd.m_unmounting)
  <2>1. UNCHANGED <<sd, queue>>
    BY <1>2, Zenon DEF UnmountSoft
  <2> QED
    BY <1>2, <2>1, BusyParts, BusyPartsNext DEF BusyFacts, RestartTypeInv, UnmountingInv, Events
<1> QED
  BY <1>1, <1>2

LEMMA SdShuttingDownStep == RestartIInv /\ SdShuttingDown => RestartIInv'
<1> SUFFICES ASSUME RestartIInv, SdShuttingDown PROVE RestartIInv'
  OBVIOUS
<1> USE DEF RestartIInv
<1>1. /\ "system.shuttingdown" \in Events /\ Turn("system.shuttingdown", "sd")
      /\ UNCHANGED <<m_restart_timer, restarts, modem, m_restart_countdown, restarted, age, alone>>
      /\ IF sd.m_mounted THEN m_restart_pending' = (m_restart_pending + 1) % (UintMax + 1)
                         ELSE UNCHANGED m_restart_pending
      /\ UnmountSoft
  BY DEF SdShuttingDown, Events, RestartPending, timer, watched
<1>2. /\ running.event = "system.shuttingdown"
      /\ running' \in [event : Events \cup {"none"}, todo : Seq(Who)]
      /\ running'.event = "none" <=> running'.todo = <<>>
  BY <1>1, TurnTail
<1>3. TodoInv' /\ running'.event \in {"system.shuttingdown", "none"} /\ ~ WillTick /\ ~ WillTick'
  BY <1>1, EventTurn
<1>4. /\ sd' \in Cards /\ (sd'.m_unmounting => sd'.m_mounted)
      /\ sd'.m_mounted => sd'.m_unmounting
      /\ "sd" \in Busy' <=> sd.m_mounted \/ "sd" \in Busy
      /\ "sd.unmounting" \in Events
      /\ queue' = Append(queue, "sd.unmounting") \/ UNCHANGED <<sd, queue>>
  BY <1>1, UnmountsSoft
<1>5. RestartTypeInv'
  <2>1. m_restart_pending' \in Nat
    BY <1>1, Counting DEF RestartTypeInv
  <2>2. queue' \in Seq(Events)
    BY <1>4, AppendQueue DEF RestartTypeInv
  <2> QED
    BY <1>1, <1>2, <1>4, <2>1, <2>2 DEF RestartTypeInv
<1>6. CountdownInv'
  BY <1>1, <1>3 DEF CountdownInv, Num
<1>7. restarts # 0
  BY <1>2 DEF FirstInv
<1>8. FirstInv' /\ UnmountingInv'
  <2>1. CASE queue' = Append(queue, "sd.unmounting")
    BY <2>1, <1>1, <1>2, <1>3, <1>4, <1>7, AppendFirst, AppendUnmounting DEF RestartTypeInv
  <2>2. CASE UNCHANGED <<sd, queue>>
    BY <2>2, <1>1, <1>2, <1>3, <1>4, SameFirst, SameUnmounting DEF FirstInv
  <2> QED
    BY <1>4, <2>1, <2>2
<1>9. AloneInv'
  <2>1. \A x : x # "sd.unmounting" => (Queued(x)' <=> Queued(x))
    BY <1>4, QueuedAppend, SameQueue DEF RestartTypeInv
  <2>2. \A x \in Parts \ {"sd"} : x \in Busy' <=> x \in Busy
    BY <1>1, BusyParts, BusyPartsNext DEF BusyFacts, Parts
  <2>3. IF sd.m_mounted THEN "sd" \in Busy' ELSE "sd" \in Busy' <=> "sd" \in Busy
    BY <1>4
  <2>4. "sd" \in Parts
    BY DEF Parts
  <2>5. alone /\ restarts = 1 => "sd" \notin ToBeTold'
    BY <1>1, <2>1, <2>4, Telling
  <2> QED
    BY <1>1, <1>4, <2>1, <2>2, <2>3, <2>4, <2>5, TellingAlone
<1> QED
  BY <1>3, <1>5, <1>6, <1>8, <1>9

LEMMA SdCommandStep == RestartIInv /\ SdCommand => RestartIInv'
<1> SUFFICES ASSUME RestartIInv, SdCommand PROVE RestartIInv'
  OBVIOUS
<1> USE DEF RestartIInv
<1>1. /\ UNCHANGED <<m_restart_timer, m_restart_pending, restarts, running, modem,
                     m_restart_countdown, restarted, age>>
      /\ sd.m_mounted /\ ~ sd.m_unmounting /\ UnmountSoft
      /\ alone' \in BOOLEAN /\ (alone' => alone) /\ (restarts # 0 => ~ alone')
  BY Disturbed DEF SdCommand, timer
<1>2. /\ sd' \in Cards /\ sd'.m_mounted /\ sd'.m_unmounting
      /\ queue' = Append(queue, "sd.unmounting") /\ "sd.unmounting" \in Events
      /\ "sd" \in Busy'
  <2>1. sd' = [sd EXCEPT !.m_unmounting = TRUE] /\ queue' = Append(queue, "sd.unmounting")
    BY <1>1 DEF UnmountSoft
  <2>2. sd' \in Cards /\ sd'.m_unmounting /\ sd'.m_mounted
    BY <1>1, <2>1 DEF RestartTypeInv, Cards
  <2> QED
    BY <2>1, <2>2, BusyPartsNext DEF BusyFacts, Events
<1>3. queue \in Seq(Events)
  BY DEF RestartTypeInv
<1>4. RestartTypeInv'
  BY <1>1, <1>2, AppendQueue DEF RestartTypeInv
<1>5. TodoInv' /\ CountdownInv'
  BY <1>1, SameTodo DEF CountdownInv, Num
<1>6. FirstInv'
  BY <1>1, <1>2, <1>3, AppendFirst DEF FirstInv
<1>7. UnmountingInv'
  <2>1. CASE restarts # 0
    BY <2>1, <1>1, <1>2, <1>3, AppendUnmounting
  <2>2. CASE restarts = 0
    <3>1. "sd" \notin Busy /\ ~ Queued("sd.unmounting") /\ running.event # "sd.unmounting"
      BY <1>1, <2>2, BusyParts DEF BusyFacts, UnmountingInv, Queued
    <3>2. \A x : Queued(x)' <=> Queued(x) \/ x = "sd.unmounting"
      BY <1>2, <1>3, QueuedAppend
    <3>3. /\ DOMAIN queue' = 1 .. (Len(queue) + 1) /\ DOMAIN queue = 1 .. Len(queue)
          /\ Len(queue) \in Nat /\ queue'[Len(queue) + 1] = "sd.unmounting"
          /\ \A i \in DOMAIN queue : queue'[i] = queue[i]
      BY <1>2, <1>3, AppendQueue
    <3>4. \A i \in DOMAIN queue' : /\ queue'[i] = "sd.unmounting" => i = Len(queue) + 1
                                   /\ queue'[i] = "ticker.1" =>
                                        i \in DOMAIN queue /\ queue[i] = "ticker.1"
      BY <3>1, <3>3 DEF Queued
    <3> QED
      BY <1>1, <1>2, <3>1, <3>2, <3>4 DEF UnmountingInv
  <2> QED
    BY <2>1, <2>2
<1>8. AloneInv'
  <2>1. restarts = 1 => restarts # 0
    OBVIOUS
  <2> QED
    BY <1>1, <2>1 DEF AloneInv
<1> QED
  BY <1>4, <1>5, <1>6, <1>7, <1>8

LEMMA RestartStep == RestartIInv /\ Restart => RestartIInv'
<1> SUFFICES ASSUME RestartIInv, Restart PROVE RestartIInv'
  OBVIOUS
<1> USE DEF RestartIInv
<1>1. /\ m_restart_pending' = 0 /\ m_restart_timer' = RestartTime
      /\ queue' = Append(queue, "system.shuttingdown")
      /\ restarts' = restarts + 1 /\ age' = 0
      /\ alone' = (restarts = 0 /\ Busy = {})
      /\ UNCHANGED <<running, sd, modem, m_restart_countdown, restarted>>
  BY DEF Restart
<1>2. queue \in Seq(Events) /\ "system.shuttingdown" \in Events /\ restarts \in Nat
      /\ RestartTime \in Nat \ {0}
  BY RestartAssumption DEF RestartTypeInv, Events
<1>3. alone' \in BOOLEAN /\ (alone' => restarts = 0 /\ Busy = {})
  BY <1>1, Zenon
<1>4. RestartTypeInv'
  BY <1>1, <1>2, <1>3, AppendQueue DEF RestartTypeInv
<1>5. TodoInv' /\ (restarts = 0 => ~ WillTick')
  BY <1>1, <1>2 DEF TodoInv, ToDo, WillTick
<1>6. CountdownInv'
  <2>1. Num(WillTick)' \in 0 .. 1
    BY DEF Num
  <2> QED
    BY <1>1, <1>2, <2>1 DEF CountdownInv
<1>7. UnmountingInv'
  BY <1>1, <1>2, AppendUnmounting DEF UnmountingInv
<1>8. \A x : Queued(x)' <=> Queued(x) \/ x = "system.shuttingdown"
  BY <1>1, <1>2, QueuedAppend
<1>9. FirstInv'
  <2>1. alone' => restarts' <= 1
    BY <1>1, <1>2, <1>3
  <2>2. restarts' # 0
    BY <1>1, <1>2
  <2>3. restarts' = 1 =>
          \A i \in DOMAIN queue' : queue'[i] = "system.shuttingdown" =>
            /\ \A j \in DOMAIN queue' : queue'[j] = "system.shuttingdown" => i = j
            /\ \A j \in 1 .. (i - 1) : queue'[j] # "system.shutdown"
    <3> SUFFICES ASSUME restarts' = 1
                 PROVE  \A i \in DOMAIN queue' : queue'[i] = "system.shuttingdown" =>
                          /\ \A j \in DOMAIN queue' : queue'[j] = "system.shuttingdown" => i = j
                          /\ \A j \in 1 .. (i - 1) : queue'[j] # "system.shutdown"
      OBVIOUS
    <3>1. restarts = 0
      BY <1>1, <1>2
    <3>2. /\ DOMAIN queue' = 1 .. (Len(queue) + 1) /\ DOMAIN queue = 1 .. Len(queue)
          /\ Len(queue) \in Nat /\ \A i \in DOMAIN queue : queue'[i] = queue[i]
      BY <1>1, <1>2, AppendQueue
    <3>3. \A i \in DOMAIN queue :
            queue'[i] # "system.shuttingdown" /\ queue'[i] # "system.shutdown"
      BY <3>1, <3>2 DEF FirstInv, Queued
    <3> QED
      BY <3>2, <3>3
  <2>4. restarts' = 1 => running'.event \notin {"system.shuttingdown", "system.shutdown"}
    BY <1>1, <1>2 DEF FirstInv
  <2> QED
    BY <2>1, <2>2, <2>3, <2>4 DEF FirstInv
<1>10. AloneInv'
  <2> SUFFICES ASSUME alone' PROVE AloneInv'
    BY DEF AloneInv
  <2>1. restarts = 0 /\ Busy = {} /\ Busy' = {} /\ ~ WillTick'
    BY <1>1, <1>3, <1>5, SameBusy
  <2>2. ToBeTold' = Parts
    BY <1>5, <1>8, NotToldPartsNext DEF ToldFacts
  <2>3. ~ Queued("sd.unmounting") /\ running.event # "sd.unmounting"
    BY <2>1 DEF UnmountingInv, Queued
  <2>4. Opens' = 0 /\ Untold' = 3
    BY <2>1, <2>2 DEF Opens, Untold, Open, Num, Parts
  <2>5. running'.event # "system.shuttingdown" /\ "sd" \in ToBeTold'
    BY <1>1, <2>1, <2>2 DEF FirstInv, Parts
  <2>6. m_restart_timer' + age' >= RestartTime + Num(WillTick')
    BY <1>1, <1>2, <2>1 DEF Num
  <2> QED
    BY <1>1, <1>8, <2>1, <2>3, <2>4, <2>5, <2>6 DEF AloneInv
<1> QED
  BY <1>4, <1>5, <1>6, <1>7, <1>9, <1>10

-----------------------------------------------------------------------------
(* What a tick leaves to one part: to go on, or to be done and to say so.   *)
PartTicks(part) ==
  \/ UNCHANGED timer /\ (part \in Busy' <=> part \in Busy)
  \/ /\ part \in Busy /\ part \notin Busy'
     /\ RestartReady \/ (~ IsShuttingDown /\ UNCHANGED timer)

LEMMA ToldAtTick ==
  ASSUME TodoInv, TodoInv', UNCHANGED queue, running.event = "ticker.1",
         running'.event \in {"ticker.1", "none"}
  PROVE  ToBeTold' = ToBeTold /\ ToBeTold \in {{}, Parts}
<1>1. \A x : Queued(x)' <=> Queued(x)
  BY SameQueue
<1> QED
  BY <1>1, NotToldParts, NotToldPartsNext DEF ToldFacts

LEMMA PartDone ==
  ASSUME RestartIInv, alone, restarts = 1, NEW part \in Parts, ToBeTold \in {{}, Parts},
         part \in Busy, part \notin Busy', ToBeTold' = ToBeTold,
         \A x \in Parts \ {part} : x \in Busy' <=> x \in Busy
  PROVE  /\ ToBeTold = {} /\ m_restart_pending \in 1 .. 3
         /\ Opens \in 1 .. 3 /\ Opens' = Opens - 1 /\ (Opens' = 0 => Cut')
<1>1. ToBeTold = {}
  BY DEF RestartIInv, AloneInv
<1>2. /\ Num(part \in Busy) = 1 /\ Num(part \in Busy') = 0
      /\ \A x \in Parts \ {part} : Num(x \in Busy') = Num(x \in Busy)
      /\ \A x \in Parts : Num(x \in Busy) \in 0 .. 1 /\ Num(x \in Busy') \in 0 .. 1
  BY DEF Num
<1>3. /\ Opens = Num("sd" \in Busy) + Num("modem" \in Busy) + Num("web" \in Busy)
      /\ Opens' = Num("sd" \in Busy') + Num("modem" \in Busy') + Num("web" \in Busy')
  BY <1>1 DEF Opens, Open
<1>4. Opens \in 1 .. 3 /\ Opens' = Opens - 1
  <2>1. part \in {"sd", "modem", "web"}
    BY DEF Parts
  <2>2. CASE part = "sd"
    BY <2>2, <1>2, <1>3 DEF Parts
  <2>3. CASE part = "modem"
    BY <2>3, <1>2, <1>3 DEF Parts
  <2>4. CASE part = "web"
    BY <2>4, <1>2, <1>3 DEF Parts
  <2> QED
    BY <2>1, <2>2, <2>3, <2>4
<1>5. Opens' = 0 => \A x \in Parts : x \notin Busy'
  BY <1>3 DEF Num, Parts
<1>6. Opens' = 0 => Busy' = {}
  BY <1>5, BusyPartsNext DEF BusyFacts
<1>7. m_restart_pending >= Opens /\ m_restart_pending <= 3
  <2>1. Untold = 0
    BY <1>1 DEF Untold, Num
  <2> QED
    BY <2>1 DEF RestartIInv, AloneInv, RestartTypeInv
<1> QED
  BY <1>1, <1>4, <1>6, <1>7 DEF Cut, RestartIInv, RestartTypeInv

LEMMA PartTickAlone ==
  ASSUME RestartIInv, NEW part \in Parts, PartTicks(part),
         NEW w, w # "boot", Turn("ticker.1", w), UNCHANGED <<restarts, queue, alone, age>>,
         sd'.m_mounted = sd.m_mounted, sd'.m_unmounting = sd.m_unmounting,
         \A x \in Parts \ {part} : x \in Busy' <=> x \in Busy
  PROVE  AloneInv'
<1> USE DEF RestartIInv
<1> SUFFICES ASSUME alone, restarts = 1 PROVE AloneInv'
  BY DEF AloneInv
<1>1. /\ running.event = "ticker.1" /\ TodoInv' /\ running'.event \in {"ticker.1", "none"}
      /\ WillTick' <=> WillTick
  BY TurnTail, TickTurn DEF Events
<1>2. ToBeTold' = ToBeTold /\ ToBeTold \in {{}, Parts}
  BY <1>1, ToldAtTick
<1>3. \A x : Queued(x)' <=> Queued(x)
  BY SameQueue
<1>4. Num(WillTick') = Num(WillTick)
  BY <1>1 DEF Num
<1>5. CASE UNCHANGED timer /\ (part \in Busy' <=> part \in Busy)
  <2>1. Busy' = Busy
    BY <1>5, BusyParts, BusyPartsNext DEF BusyFacts
  <2> QED
    BY <1>1, <1>2, <1>3, <1>4, <1>5, <2>1
       DEF AloneInv, timer, IsShuttingDown, Opens, Untold, Open, Cut
<1>6. CASE /\ part \in Busy /\ part \notin Busy'
           /\ RestartReady \/ (~ IsShuttingDown /\ UNCHANGED timer)
  <2>1. /\ ToBeTold = {} /\ m_restart_pending \in 1 .. 3
        /\ Opens \in 1 .. 3 /\ Opens' = Opens - 1 /\ (Opens' = 0 => Cut')
    BY <1>2, <1>6, PartDone
  <2>2. Untold' = 0 /\ ToBeTold' = {} /\ ~ Cut
    BY <1>2, <1>6, <2>1 DEF Untold, Num, Cut
  <2>3. \/ /\ m_restart_pending' = m_restart_pending - 1
           /\ m_restart_timer' = IF m_restart_pending' = 0 THEN 2 ELSE m_restart_timer
        \/ /\ m_restart_timer = 0
           /\ m_restart_timer' = m_restart_timer /\ m_restart_pending' = m_restart_pending
    BY <1>6, <2>1, Counting DEF RestartTypeInv, RestartReady, IsShuttingDown, timer
  <2>4. m_restart_pending' >= Opens' /\ m_restart_pending' <= 3
    BY <2>1, <2>3 DEF AloneInv
  <2>5. IsShuttingDown' => m_restart_pending' = Opens'
    BY <2>1, <2>3 DEF AloneInv, IsShuttingDown, RestartTypeInv
  <2>6. age' < RestartTime => m_restart_timer' + age' >= RestartTime + Num(WillTick') \/ Cut'
    BY <1>4, <2>1, <2>2, <2>3 DEF AloneInv
  <2>7. sd'.m_mounted => sd'.m_unmounting
    BY <2>1 DEF AloneInv
  <2>8. running'.event # "system.shuttingdown" /\ Busy' \cap ToBeTold' = {}
        /\ m_restart_pending' + Untold' <= 3 /\ "sd" \notin ToBeTold'
    BY <1>1, <2>1, <2>2, <2>3, <2>4 DEF RestartTypeInv
  <2> QED
    BY <2>4, <2>5, <2>6, <2>7, <2>8 DEF AloneInv
<1> QED
  BY <1>5, <1>6 DEF PartTicks

(* The turn of a part at a tick: the counter, the countdown and the events. *)
LEMMA TickOfPart ==
  ASSUME RestartIInv, NEW w, w # "boot", Turn("ticker.1", w),
         UNCHANGED <<restarts, queue, age, restarted>>,
         sd' \in Cards, modem' \in Modems, m_restart_countdown' \in 0 .. 3,
         modem'.ticks > 0 <=> modem'.state \in {"PoweringOff", "CheckPowerOff"},
         alone' \in BOOLEAN, alone' => alone,
         RestartReady \/ UNCHANGED timer, restarts = 0 => UNCHANGED timer
  PROVE  RestartTypeInv' /\ TodoInv' /\ CountdownInv' /\ FirstInv'
<1> USE DEF RestartIInv
<1>1. "ticker.1" \in Events
  BY DEF Events
<1>2. /\ running.event = "ticker.1"
      /\ running' \in [event : Events \cup {"none"}, todo : Seq(Who)]
      /\ running'.event = "none" <=> running'.todo = <<>>
  BY <1>1, TurnTail
<1>3. TodoInv' /\ running'.event \in {"ticker.1", "none"} /\ (WillTick' <=> WillTick)
  BY TickTurn
<1>4. /\ m_restart_timer' \in {m_restart_timer, 2}
      /\ m_restart_timer' \in Nat /\ m_restart_pending' \in Nat
  BY Counting DEF RestartReady, RestartTypeInv, timer
<1>5. RestartTypeInv'
  BY <1>2, <1>4 DEF RestartTypeInv
<1>6. CountdownInv'
  <2>1. Num(WillTick') = Num(WillTick)
    BY <1>3 DEF Num
  <2> QED
    BY <1>4, <2>1 DEF CountdownInv
<1>7. FirstInv'
  BY <1>2, <1>3, SameFirst DEF FirstInv, timer
<1> QED
  BY <1>3, <1>5, <1>6, <1>7

LEMMA WebTickStep == RestartIInv /\ WebInv /\ WebTick => RestartIInv'
<1> SUFFICES ASSUME RestartIInv, WebInv, WebTick PROVE RestartIInv'
  OBVIOUS
<1>1. /\ Turn("ticker.1", "web")
      /\ UNCHANGED <<restarts, queue, sd, modem, restarted, age, alone>>
      /\ IF m_restart_countdown = 0
           THEN UNCHANGED timer /\ m_restart_countdown' = m_restart_countdown
           ELSE /\ m_restart_countdown' = m_restart_countdown - 1
                /\ IF m_restart_countdown = 1 THEN RestartReady ELSE UNCHANGED timer
  BY DEF WebTick, watched
<1>2. /\ m_restart_countdown \in 0 .. 3 /\ sd \in Cards /\ modem \in Modems /\ alone \in BOOLEAN
      /\ modem.ticks > 0 <=> modem.state \in {"PoweringOff", "CheckPowerOff"}
  BY DEF RestartIInv, RestartTypeInv
<1>3. RestartReady \/ UNCHANGED timer
  BY <1>1
<1>4. restarts = 0 => UNCHANGED timer
  BY <1>1 DEF WebInv
<1>5. RestartTypeInv' /\ TodoInv' /\ CountdownInv' /\ FirstInv'
  <2>1. m_restart_countdown' \in 0 .. 3
    BY <1>1, <1>2
  <2> QED
    BY <1>1, <1>2, <1>3, <1>4, <2>1, TickOfPart
<1>6. UnmountingInv'
  <2>1. running.event = "ticker.1" /\ running'.event \in {"ticker.1", "none"}
        /\ ~ (running'.event = "ticker.1" /\ ToDo("sd")')
    BY <1>1, TurnTail, TickTurn DEF Events, RestartIInv
  <2> QED
    BY <1>1, <2>1, SameUnmounting DEF RestartIInv, UnmountingInv
<1>7. PartTicks("web")
  <2>1. ("web" \in Busy <=> m_restart_countdown > 0)
        /\ ("web" \in Busy' <=> m_restart_countdown' > 0)
    BY BusyParts, BusyPartsNext DEF BusyFacts
  <2>2. CASE m_restart_countdown = 1
    BY <1>1, <2>1, <2>2 DEF PartTicks
  <2>3. CASE m_restart_countdown # 1
    <3>1. m_restart_countdown' > 0 <=> m_restart_countdown > 0
      BY <1>1, <1>2, <2>3
    <3> QED
      BY <1>1, <2>1, <2>3, <3>1 DEF PartTicks
  <2> QED
    BY <2>2, <2>3
<1>8. AloneInv'
  <2>1. \A x \in Parts \ {"web"} : x \in Busy' <=> x \in Busy
    BY <1>1, BusyParts, BusyPartsNext DEF BusyFacts, Parts
  <2> QED
    BY <1>1, <1>7, <2>1, PartTickAlone DEF Parts
<1> QED
  BY <1>5, <1>6, <1>8 DEF RestartIInv

(* What a tick does to the modem.                                          *)
LEMMA ModemTicks ==
  ASSUME RestartTypeInv, ModemTick
  PROVE  \/ UNCHANGED <<modem, timer>>
         \/ MuxFailed
         \/ MuxChanges
         \/ modem.ticks > 1 /\ modem' = [modem EXCEPT !.ticks = @ - 1] /\ UNCHANGED timer
         \/ /\ modem.ticks = 1 /\ modem.state = "PoweringOff"
            /\ modem' = [modem EXCEPT !.state = "CheckPowerOff", !.ticks = CheckTicks]
            /\ UNCHANGED timer
         \/ /\ modem.ticks = 1 /\ modem.state = "CheckPowerOff"
            /\ modem' = [modem EXCEPT !.state = "PoweredOff", !.ticks = 0, !.mux = FALSE]
            /\ IF IsShuttingDown THEN RestartReady ELSE UNCHANGED timer
<1>1. modem.ticks \in Nat /\ (modem.ticks > 0 <=> modem.state \in {"PoweringOff", "CheckPowerOff"})
  BY RestartAssumption DEF RestartTypeInv, Modems
<1>2. modem.ticks = 0 \/ modem.ticks > 1
      \/ (modem.ticks = 1 /\ modem.state \in {"PoweringOff", "CheckPowerOff"})
  BY <1>1
<1> QED
  BY <1>1, <1>2 DEF ModemTick, StateTimeout

(* A MUX that fails takes the modem back, and it is never done in a        *)
(* shutdown.                                                               *)
LEMMA MuxFailure ==
  ASSUME RestartTypeInv, MuxFailed
  PROVE  /\ modem' \in Modems
         /\ modem'.ticks > 0 <=> modem'.state \in {"PoweringOff", "CheckPowerOff"}
         /\ PartTicks("modem") /\ UNCHANGED timer
<1> DEFINE st == IF modem.state \in {"PoweringOff", "CheckPowerOff"}
                 THEN IF IsShuttingDown THEN "PoweringOn" ELSE "On"
                 ELSE modem.state
<1>1. modem' = [modem EXCEPT !.state = st, !.ticks = 0, !.mux = FALSE] /\ UNCHANGED timer
  BY DEF MuxFailed
<1>2. /\ st \in {"On", "PoweringOff", "CheckPowerOff", "PoweredOff", "PoweringOn"}
      /\ st \notin {"PoweringOff", "CheckPowerOff"}
      /\ st = "PoweringOn" => modem.state \in {"PoweringOff", "CheckPowerOff", "PoweringOn"}
      /\ modem.state = "PoweringOn" => st = "PoweringOn"
      /\ modem.state \in {"PoweringOff", "CheckPowerOff"} /\ IsShuttingDown => st = "PoweringOn"
  <2>1. modem.state \in {"On", "PoweringOff", "CheckPowerOff", "PoweredOff", "PoweringOn"}
    BY DEF RestartTypeInv, Modems
  <2>2. CASE modem.state \notin {"PoweringOff", "CheckPowerOff"}
    BY <2>1, <2>2
  <2>3. CASE modem.state \in {"PoweringOff", "CheckPowerOff"} /\ IsShuttingDown
    <3>1. st = "PoweringOn"
      BY <2>3
    <3> QED
      BY <2>3, <3>1
  <2>4. CASE modem.state \in {"PoweringOff", "CheckPowerOff"} /\ ~ IsShuttingDown
    <3>1. st = "On"
      BY <2>4
    <3> QED
      BY <2>4, <3>1
  <2> QED
    BY <2>2, <2>3, <2>4
<1> HIDE DEF st
<1>3. 0 \in 0 .. (OffTicks + CheckTicks)
  BY RestartAssumption
<1>4. modem' \in Modems /\ modem'.state = st /\ modem'.ticks = 0
  BY <1>1, <1>2, <1>3 DEF RestartTypeInv, Modems
<1>5. /\ "modem" \in Busy <=> modem.state \in {"PoweringOff", "CheckPowerOff", "PoweringOn"}
      /\ "modem" \in Busy' <=> modem'.state \in {"PoweringOff", "CheckPowerOff", "PoweringOn"}
  BY BusyParts, BusyPartsNext DEF BusyFacts
<1>6. PartTicks("modem")
  BY <1>1, <1>2, <1>4, <1>5 DEF PartTicks
<1> QED
  BY <1>1, <1>2, <1>4, <1>6

LEMMA ModemTickStep == RestartIInv /\ ModemTick => RestartIInv'
<1> SUFFICES ASSUME RestartIInv, ModemTick PROVE RestartIInv'
  OBVIOUS
<1>1. /\ Turn("ticker.1", "modem")
      /\ UNCHANGED <<restarts, queue, sd, m_restart_countdown, restarted, age, alone>>
  BY DEF ModemTick, watched
<1>2. /\ m_restart_countdown \in 0 .. 3 /\ sd \in Cards /\ modem \in Modems /\ alone \in BOOLEAN
      /\ modem.ticks > 0 <=> modem.state \in {"PoweringOff", "CheckPowerOff"}
      /\ modem.ticks \in Nat /\ modem.ticks <= OffTicks + CheckTicks
      /\ OffTicks \in Nat /\ CheckTicks \in Nat \ {0}
  BY RestartAssumption DEF RestartIInv, RestartTypeInv, Modems
<1>3. \/ UNCHANGED <<modem, timer>>
      \/ MuxFailed
      \/ MuxChanges
      \/ modem.ticks > 1 /\ modem' = [modem EXCEPT !.ticks = @ - 1] /\ UNCHANGED timer
      \/ /\ modem.ticks = 1 /\ modem.state = "PoweringOff"
         /\ modem' = [modem EXCEPT !.state = "CheckPowerOff", !.ticks = CheckTicks]
         /\ UNCHANGED timer
      \/ /\ modem.ticks = 1 /\ modem.state = "CheckPowerOff"
         /\ modem' = [modem EXCEPT !.state = "PoweredOff", !.ticks = 0, !.mux = FALSE]
         /\ IF IsShuttingDown THEN RestartReady ELSE UNCHANGED timer
  BY ModemTicks DEF RestartIInv
<1>4. /\ modem' \in Modems
      /\ modem'.ticks > 0 <=> modem'.state \in {"PoweringOff", "CheckPowerOff"}
      /\ PartTicks("modem")
  <2>1. /\ "modem" \in Busy <=> modem.state \in {"PoweringOff", "CheckPowerOff", "PoweringOn"}
        /\ "modem" \in Busy' <=> modem'.state \in {"PoweringOff", "CheckPowerOff", "PoweringOn"}
    BY BusyParts, BusyPartsNext DEF BusyFacts
  <2>2. CASE UNCHANGED <<modem, timer>>
    BY <1>2, <2>1, <2>2 DEF PartTicks
  <2>3. CASE modem.ticks > 1 /\ modem' = [modem EXCEPT !.ticks = @ - 1] /\ UNCHANGED timer
    <3>1. modem.ticks - 1 \in 0 .. (OffTicks + CheckTicks) /\ modem.ticks - 1 > 0
      BY <1>2, <2>3
    <3>2. modem' \in Modems /\ modem'.state = modem.state /\ modem'.ticks = modem.ticks - 1
      BY <1>2, <2>3, <3>1 DEF Modems
    <3> QED
      BY <1>2, <2>1, <2>3, <3>1, <3>2 DEF PartTicks
  <2>4. CASE /\ modem.ticks = 1 /\ modem.state = "PoweringOff"
             /\ modem' = [modem EXCEPT !.state = "CheckPowerOff", !.ticks = CheckTicks]
             /\ UNCHANGED timer
    <3>1. CheckTicks \in 0 .. (OffTicks + CheckTicks) /\ CheckTicks > 0
      BY <1>2
    <3>2. modem' \in Modems /\ modem'.state = "CheckPowerOff" /\ modem'.ticks = CheckTicks
      BY <1>2, <2>4, <3>1 DEF Modems
    <3> QED
      BY <2>1, <2>4, <3>1, <3>2 DEF PartTicks
  <2>5. CASE /\ modem.ticks = 1 /\ modem.state = "CheckPowerOff"
             /\ modem' = [modem EXCEPT !.state = "PoweredOff", !.ticks = 0, !.mux = FALSE]
             /\ IF IsShuttingDown THEN RestartReady ELSE UNCHANGED timer
    <3>1. 0 \in 0 .. (OffTicks + CheckTicks)
      BY <1>2
    <3>2. modem' \in Modems /\ modem'.state = "PoweredOff" /\ modem'.ticks = 0
      BY <1>2, <2>5, <3>1 DEF Modems
    <3> QED
      BY <2>1, <2>5, <3>2 DEF PartTicks
  <2>6. CASE MuxFailed
    BY <2>6, MuxFailure DEF RestartIInv
  <2>7. CASE MuxChanges
    <3>1. PICK up \in BOOLEAN : modem' = [modem EXCEPT !.mux = up]
      BY <2>7 DEF MuxChanges
    <3>2. modem' \in Modems /\ modem'.state = modem.state /\ modem'.ticks = modem.ticks
      BY <1>2, <3>1 DEF Modems
    <3>3. UNCHANGED timer
      BY <2>7 DEF MuxChanges
    <3> QED
      BY <1>2, <2>1, <3>2, <3>3 DEF PartTicks
  <2> QED
    BY <1>3, <2>2, <2>3, <2>4, <2>5, <2>6, <2>7
<1>5. RestartTypeInv' /\ TodoInv' /\ CountdownInv' /\ FirstInv'
  <2>1. RestartReady \/ UNCHANGED timer
    BY <1>3 DEF MuxFailed, MuxChanges
  <2>2. restarts = 0 => UNCHANGED timer
    BY <1>3 DEF RestartIInv, FirstInv, IsShuttingDown, MuxFailed, MuxChanges
  <2> QED
    BY <1>1, <1>2, <1>4, <2>1, <2>2, TickOfPart
<1>6. UnmountingInv'
  <2>1. running.event = "ticker.1" /\ running'.event \in {"ticker.1", "none"}
        /\ ~ (running'.event = "ticker.1" /\ ToDo("sd")')
    BY <1>1, TurnTail, TickTurn DEF Events, RestartIInv
  <2> QED
    BY <1>1, <2>1, SameUnmounting DEF RestartIInv, UnmountingInv
<1>7. AloneInv'
  <2>1. \A x \in Parts \ {"modem"} : x \in Busy' <=> x \in Busy
    BY <1>1, BusyParts, BusyPartsNext DEF BusyFacts, Parts
  <2> QED
    BY <1>1, <1>4, <2>1, PartTickAlone DEF Parts
<1> QED
  BY <1>5, <1>6, <1>7 DEF RestartIInv

LEMMA SdTickStep == RestartIInv /\ SdTick => RestartIInv'
<1> SUFFICES ASSUME RestartIInv, SdTick PROVE RestartIInv'
  OBVIOUS
<1> USE DEF RestartIInv
<1>1. PICK card \in Checked :
        /\ sd' = [card EXCEPT !.mountcount = IF @ > 0 THEN @ - 1 ELSE 0]
        /\ IF card.mountcount = 1 /\ ~ card.m_mounted /\ IsShuttingDown
             THEN RestartReady ELSE UNCHANGED timer
        /\ IF card = sd THEN UNCHANGED alone ELSE Disturb
  BY DEF SdTick
<1>2. /\ Turn("ticker.1", "sd") /\ "ticker.1" \in Events
      /\ UNCHANGED <<restarts, queue, modem, m_restart_countdown, restarted, age>>
  BY DEF SdTick, Events
<1>3. /\ m_restart_countdown \in 0 .. 3 /\ sd \in Cards /\ modem \in Modems /\ alone \in BOOLEAN
      /\ modem.ticks > 0 <=> modem.state \in {"PoweringOff", "CheckPowerOff"}
      /\ sd.m_unmounting => sd.m_mounted
  BY DEF RestartTypeInv, UnmountingInv
<1>4. /\ card \in Cards /\ (card.m_unmounting => card.m_mounted)
      /\ card = sd \/ card.mountcount = 3
      /\ sd.m_mounted /\ card # sd => ~ card.m_mounted
  <2>1. Unmounted \in Cards /\ Mounted \in Cards
    BY DEF Unmounted, Mounted, Cards
  <2>2. /\ ~ Unmounted.m_unmounting /\ ~ Mounted.m_unmounting /\ ~ Unmounted.m_mounted
        /\ Unmounted.mountcount = 3 /\ Mounted.mountcount = 3
    BY DEF Unmounted, Mounted
  <2> QED
    BY <1>3, <2>1, <2>2 DEF Checked
<1>5. /\ sd' \in Cards /\ sd'.m_mounted = card.m_mounted /\ sd'.m_unmounting = card.m_unmounting
      /\ sd'.mountcount = IF card.mountcount > 0 THEN card.mountcount - 1 ELSE 0
      /\ card.mountcount \in 0 .. 3
  BY <1>1, <1>4 DEF Cards
<1>6. alone' \in BOOLEAN /\ (alone' => alone) /\ (card # sd /\ restarts # 0 => ~ alone')
  BY <1>1, <1>3, Disturbed
<1>7. RestartTypeInv' /\ TodoInv' /\ CountdownInv' /\ FirstInv'
  <2>1. restarts = 0 => UNCHANGED timer
    BY <1>1 DEF FirstInv, IsShuttingDown
  <2>2. RestartReady \/ UNCHANGED timer
    BY <1>1
  <2> QED
    BY <1>2, <1>3, <1>5, <1>6, <2>1, <2>2, TickOfPart
<1>8. /\ running.event = "ticker.1" /\ running'.event \in {"ticker.1", "none"} /\ ToDo("sd")
      /\ ~ (running'.event = "ticker.1" /\ ToDo("sd")')
  BY <1>2, TurnTail, TickTurn DEF ToDo
<1>9. UnmountingInv'
  <2>1. (\A x : Queued(x)' <=> Queued(x)) /\ ~ Queued("ticker.1")
    BY <1>2, <1>8, SameQueue DEF UnmountingInv
  <2>2. sd'.m_unmounting => sd'.m_mounted
    BY <1>4, <1>5
  <2>3. restarts = 0 =>
          \A i \in DOMAIN queue : queue[i] = "sd.unmounting" =>
            "sd" \in Busy' /\ \A j \in 1 .. (i - 1) : queue[j] # "ticker.1"
    <3> SUFFICES ASSUME restarts = 0, NEW i \in DOMAIN queue, queue[i] = "sd.unmounting"
                 PROVE  "sd" \in Busy' /\ \A j \in 1 .. (i - 1) : queue[j] # "ticker.1"
      OBVIOUS
    <3>1. sd.m_unmounting /\ sd.m_mounted
      BY <1>3, <1>8 DEF UnmountingInv
    <3>2. "sd" \in Busy'
      BY <1>4, <1>5, <3>1, BusyPartsNext DEF BusyFacts
    <3>3. \A j \in 1 .. (i - 1) : j \in DOMAIN queue
      BY DEF RestartTypeInv
    <3> QED
      BY <2>1, <3>2, <3>3 DEF Queued
  <2> QED
    BY <1>2, <1>8, <2>1, <2>2, <2>3 DEF UnmountingInv
<1>10. AloneInv'
  <2>1. CASE card # sd
    <3>1. restarts = 1 => restarts # 0
      OBVIOUS
    <3> QED
      BY <1>2, <1>6, <2>1, <3>1 DEF AloneInv
  <2>2. CASE card = sd
    <3>1. /\ "sd" \in Busy <=> sd.m_unmounting \/ (~ sd.m_mounted /\ sd.mountcount > 0)
          /\ "sd" \in Busy' <=> sd'.m_unmounting \/ (~ sd'.m_mounted /\ sd'.mountcount > 0)
      BY BusyParts, BusyPartsNext DEF BusyFacts
    <3>2. PartTicks("sd")
      <4>1. CASE sd.mountcount = 1 /\ ~ sd.m_mounted
        BY <1>1, <1>3, <1>5, <2>2, <3>1, <4>1 DEF PartTicks
      <4>2. CASE ~ (sd.mountcount = 1 /\ ~ sd.m_mounted)
        <5>1. UNCHANGED timer
          BY <1>1, <2>2, <4>2
        <5>2. ~ sd.m_mounted => (sd'.mountcount > 0 <=> sd.mountcount > 0)
          BY <1>5, <2>2, <4>2
        <5> QED
          BY <1>5, <2>2, <3>1, <5>1, <5>2 DEF PartTicks
      <4> QED
        BY <4>1, <4>2
    <3>3. \A x \in Parts \ {"sd"} : x \in Busy' <=> x \in Busy
      BY <1>2, BusyParts, BusyPartsNext DEF BusyFacts, Parts
    <3>4. UNCHANGED <<restarts, queue, alone, age>>
      BY <1>1, <1>2, <2>2
    <3> QED
      BY <1>2, <1>5, <2>2, <3>2, <3>3, <3>4, PartTickAlone DEF Parts
  <2> QED
    BY <2>1, <2>2
<1> QED
  BY <1>7, <1>9, <1>10

LEMMA Ticker1Step == RestartIInv /\ Ticker1 => RestartIInv'
<1> SUFFICES ASSUME RestartIInv, Ticker1 PROVE RestartIInv'
  OBVIOUS
<1> USE DEF RestartIInv
<1>1. /\ Turn("ticker.1", "boot") /\ "ticker.1" \in Events /\ "system.shutdown" \in Events
      /\ UNCHANGED <<m_restart_pending, restarts, sd, modem, m_restart_countdown, restarted,
                     age, alone>>
      /\ IF m_restart_timer > 0
           THEN /\ m_restart_timer' = m_restart_timer - 1
                /\ queue' = Append(queue, "system.shutdown") \/ UNCHANGED queue
           ELSE UNCHANGED <<m_restart_timer, queue>>
  BY DEF Ticker1, Events, watched, IsShuttingDown
<1>2. /\ running.event = "ticker.1" /\ queue \in Seq(Events) /\ m_restart_timer \in Nat
      /\ running' \in [event : Events \cup {"none"}, todo : Seq(Who)]
      /\ running'.event = "none" <=> running'.todo = <<>>
  BY <1>1, TurnTail DEF RestartTypeInv
<1>3. /\ TodoInv' /\ running'.event \in {"ticker.1", "none"}
      /\ WillTick /\ (restarts = 1 => ~ WillTick')
      /\ ~ (running'.event = "ticker.1" /\ ToDo("sd")')
  BY <1>1, TickTurn
<1>4. m_restart_timer' \in Nat
      /\ m_restart_timer' = IF m_restart_timer > 0 THEN m_restart_timer - 1 ELSE 0
  BY <1>1, <1>2
<1>5. RestartTypeInv'
  <2>1. queue' \in Seq(Events)
    BY <1>1, <1>2, AppendQueue
  <2> QED
    BY <1>1, <1>2, <1>4, <2>1 DEF RestartTypeInv
<1>6. CountdownInv'
  <2>1. Num(WillTick) = 1 /\ Num(WillTick') \in 0 .. 1
    BY <1>3 DEF Num
  <2>2. age \in Nat /\ RestartTime \in Nat
    BY RestartAssumption DEF RestartTypeInv
  <2> QED
    BY <1>1, <1>2, <1>4, <2>1, <2>2 DEF CountdownInv
<1>7. restarts = 0 => m_restart_timer = 0 /\ UNCHANGED <<m_restart_timer, queue>>
  BY <1>1 DEF FirstInv
<1>8. FirstInv' /\ UnmountingInv'
  <2>1. CASE UNCHANGED queue
    BY <1>1, <1>2, <1>3, <1>7, <2>1, SameFirst, SameUnmounting DEF UnmountingInv
  <2>2. CASE queue' = Append(queue, "system.shutdown") /\ restarts # 0
    BY <1>1, <1>2, <1>3, <2>2, AppendFirst, AppendUnmounting DEF UnmountingInv
  <2> QED
    BY <1>1, <1>7, <2>1, <2>2
<1>9. AloneInv'
  <2> SUFFICES ASSUME alone, restarts = 1 PROVE AloneInv'
    BY <1>1 DEF AloneInv
  <2>1. \A x : x # "system.shutdown" => (Queued(x)' <=> Queued(x))
    BY <1>1, <1>2, QueuedAppend, SameQueue
  <2>2. ToBeTold' = ToBeTold
    BY <1>2, <1>3, <2>1, NotToldParts, NotToldPartsNext DEF ToldFacts
  <2>3. Busy' = Busy
    BY <1>1, SameBusy
  <2>4. Num(WillTick) = 1 /\ Num(WillTick') = 0 /\ (Cut' <=> Cut)
    BY <1>3, <2>2, <2>3 DEF Num, Cut
  <2>5. age < RestartTime => m_restart_timer' + age >= RestartTime + 0 \/ Cut
    <3>1. age \in Nat /\ RestartTime \in Nat
      BY RestartAssumption DEF RestartTypeInv
    <3> QED
      BY <1>2, <1>4, <2>4, <3>1 DEF AloneInv
  <2>6. IsShuttingDown' => IsShuttingDown
    BY <1>2, <1>4 DEF IsShuttingDown
  <2>7. running'.event \notin {"sd.unmounting", "system.shuttingdown"}
    BY <1>3
  <2>8. Opens' = Opens /\ Untold' = Untold
    BY <2>2, <2>3 DEF Opens, Open, Untold
  <2> QED
    BY <1>1, <2>1, <2>2, <2>3, <2>4, <2>5, <2>6, <2>7, <2>8 DEF AloneInv
<1> QED
  BY <1>3, <1>5, <1>6, <1>8, <1>9

LEMMA EventListeners ==
  ASSUME RestartTypeInv, NEW e \in Events
  PROVE  /\ Listeners(e) \in Seq(Who) /\ Listeners(e) # <<>>
         /\ e = "system.shuttingdown" => Listeners(e) = <<"sd", "modem", "web", "done">>
         /\ e = "sd.unmounting" => Listeners(e) = <<"done">>
<1>1. CASE e = "ticker.1"
  <2>1. Listeners("ticker.1") \in Seq(Who) /\ Len(Listeners("ticker.1")) = restarts + 3
    BY TickListeners DEF RestartTypeInv
  <2>2. restarts + 3 # 0 /\ Len(<<>>) = 0
    BY DEF RestartTypeInv
  <2> QED
    BY <1>1, <2>1, <2>2
<1>2. CASE e # "ticker.1"
  <2>1. e \in {"system.shuttingdown", "sd.unmounting", "system.shutdown"}
    BY <1>2 DEF Events
  <2>2. /\ <<"sd", "modem", "web", "done">> \in Seq(Who) /\ <<"done">> \in Seq(Who)
        /\ <<"sd", "done">> \in Seq(Who)
    BY DEF Who
  <2> QED
    BY <2>1, <2>2 DEF Listeners
<1> QED
  BY <1>1, <1>2

LEMMA EventTaskStep == RestartIInv /\ EventTask => RestartIInv'
<1> SUFFICES ASSUME RestartIInv, EventTask PROVE RestartIInv'
  OBVIOUS
<1> USE DEF RestartIInv
<1> DEFINE e == Head(queue)
<1>1. /\ running = None /\ queue # <<>> /\ queue' = Tail(queue)
      /\ running' = [event |-> e, todo |-> Listeners(e)]
      /\ age' = IF e = "ticker.1" /\ age < RestartTime /\ restarts > 0 THEN age + 1 ELSE age
      /\ UNCHANGED <<m_restart_timer, m_restart_pending, restarts, sd, modem,
                     m_restart_countdown, restarted, alone>>
  BY DEF EventTask, timer
<1>2. /\ queue' \in Seq(Events) /\ e = queue[1] /\ e \in Events
      /\ DOMAIN queue = 1 .. Len(queue) /\ Len(queue) \in Nat /\ 1 \in DOMAIN queue
      /\ \A i \in DOMAIN queue' : i + 1 \in DOMAIN queue /\ queue'[i] = queue[i + 1]
      /\ DOMAIN queue' \subseteq Nat \ {0}
  <2>1. queue \in Seq(Events)
    BY DEF RestartTypeInv
  <2>2. queue' \in Seq(Events) /\ DOMAIN queue' = 1 .. Len(queue') /\ Len(queue') \in Nat
    BY <1>1, <2>1
  <2> QED
    BY <1>1, <2>1, <2>2, TailQueue
<1>3. \A x : Queued(x) <=> Queued(x)' \/ x = e
  BY <1>1, QueuedTail DEF RestartTypeInv
<1> HIDE DEF e
<1>4. /\ running'.event = e /\ running'.todo = Listeners(e)
      /\ Listeners(e) \in Seq(Who) /\ Listeners(e) # <<>>
      /\ e = "system.shuttingdown" => Listeners(e) = <<"sd", "modem", "web", "done">>
      /\ e = "sd.unmounting" => Listeners(e) = <<"done">>
      /\ "none" \notin Events
  BY <1>1, <1>2, EventListeners DEF Events
<1>5. running.event = "none" /\ running.todo = <<>> /\ ~ WillTick
  BY <1>1 DEF None, WillTick
<1>6. age' \in 0 .. RestartTime /\ age \in 0 .. RestartTime
      /\ restarts \in Nat /\ RestartTime \in Nat
  BY <1>1, RestartAssumption DEF RestartTypeInv
<1>7. RestartTypeInv'
  <2>1. running' \in [event : Events \cup {"none"}, todo : Seq(Who)]
    BY <1>1, <1>2, <1>4
  <2>2. running'.event # "none" /\ running'.todo # <<>>
    BY <1>2, <1>4
  <2> QED
    BY <1>1, <1>2, <1>6, <2>1, <2>2 DEF RestartTypeInv
<1>8. e = "ticker.1" =>
        LET L == running'.todo
        IN  \A i \in DOMAIN L : /\ i \in Nat
                                /\ L[i] = "sd" => i = 1
                                /\ L[i] = "boot" <=> i \in 3 .. (restarts + 2)
  BY <1>4, <1>6, TickListeners
<1>9. TodoInv'
  <2>1. CASE e = "ticker.1"
    <3>1. \A i \in DOMAIN running'.todo : running'.todo[i] = "sd" => i = 1
      BY <2>1, <1>8
    <3>2. restarts = 0 => ~ ToDo("boot")'
      BY <2>1, <1>8 DEF ToDo
    <3>3. restarts = 1 => \A i, j \in DOMAIN running'.todo :
            running'.todo[i] = "boot" /\ running'.todo[j] = "boot" => i = j
      BY <2>1, <1>8
    <3> QED
      BY <1>1, <1>4, <2>1, <3>1, <3>2, <3>3 DEF TodoInv
  <2>2. CASE e # "ticker.1"
    BY <1>4, <2>2 DEF TodoInv
  <2> QED
    BY <2>1, <2>2
<1>10. WillTick' <=> e = "ticker.1" /\ restarts # 0
  <2>1. CASE e = "ticker.1" /\ restarts # 0
    <3>1. Len(running'.todo) = restarts + 3 /\ running'.todo \in Seq(Who)
      BY <1>4, <1>6, <2>1, TickListeners
    <3>2. 3 \in DOMAIN running'.todo
      BY <1>6, <3>1
    <3>3. running'.todo[3] = "boot"
      BY <1>6, <1>8, <2>1, <3>2
    <3> QED
      BY <1>4, <2>1, <3>2, <3>3 DEF WillTick, ToDo
  <2> QED
    BY <2>1, <1>1, <1>4, <1>9 DEF TodoInv, WillTick
<1>11. /\ Num(WillTick) = 0
       /\ Num(WillTick') = IF e = "ticker.1" /\ restarts # 0 THEN 1 ELSE 0
       /\ age' <= age + Num(WillTick')
       /\ age' < RestartTime => age < RestartTime /\ age' = age + Num(WillTick')
  BY <1>1, <1>5, <1>6, <1>10 DEF Num
<1>12. CountdownInv'
  <2>1. m_restart_timer \in Nat /\ Num(WillTick') \in 0 .. 1
    BY <1>11 DEF RestartTypeInv
  <2> QED
    BY <1>1, <1>6, <1>11, <2>1 DEF CountdownInv
<1>13. Busy' = Busy
  BY <1>1, SameBusy
<1>14. UnmountingInv'
  <2> USE DEF UnmountingInv
  <2>1. \A i, j \in DOMAIN queue : i + 1 \in DOMAIN queue /\ j + 1 \in DOMAIN queue /\ i + 1 = j + 1 => i = j
    BY <1>2
  <2>2. \A x : (\A i, j \in DOMAIN queue : queue[i] = queue[j] /\ queue[i] = x => i = j) =>
          /\ \A i, j \in DOMAIN queue' : queue'[i] = queue'[j] /\ queue'[i] = x => i = j
          /\ e = x => ~ Queued(x)'
    <3> SUFFICES ASSUME NEW x, \A i, j \in DOMAIN queue : queue[i] = queue[j] /\ queue[i] = x => i = j
                 PROVE  /\ \A i, j \in DOMAIN queue' : queue'[i] = queue'[j] /\ queue'[i] = x => i = j
                        /\ e = x => ~ Queued(x)'
      OBVIOUS
    <3>1. ASSUME NEW i \in DOMAIN queue', NEW j \in DOMAIN queue', queue'[i] = queue'[j], queue'[i] = x
          PROVE  i = j
      <4>1. i + 1 = j + 1
        BY <1>2, <3>1
      <4> QED
        BY <1>2, <4>1
    <3>2. ASSUME e = x, NEW i \in DOMAIN queue', queue'[i] = x
          PROVE  FALSE
      <4>1. i + 1 = 1
        BY <1>2, <3>2
      <4> QED
        BY <1>2, <4>1
    <3> QED
      BY <3>1, <3>2 DEF Queued
  <2>3. restarts = 0 => \A i \in DOMAIN queue' : queue'[i] = "sd.unmounting" =>
          /\ "sd" \in Busy
          /\ \/ sd.m_unmounting
             \/ /\ e # "ticker.1"
                /\ \A j \in 1 .. (i - 1) : queue'[j] # "ticker.1"
    <3> SUFFICES ASSUME restarts = 0, NEW i \in DOMAIN queue', queue'[i] = "sd.unmounting"
                 PROVE  /\ "sd" \in Busy
                        /\ \/ sd.m_unmounting
                           \/ /\ e # "ticker.1"
                              /\ \A j \in 1 .. (i - 1) : queue'[j] # "ticker.1"
      OBVIOUS
    <3>1. i + 1 \in DOMAIN queue /\ queue[i + 1] = "sd.unmounting" /\ i \in Nat \ {0}
      BY <1>2
    <3>2. "sd" \in Busy /\ (sd.m_unmounting \/ \A j \in 1 .. i : queue[j] # "ticker.1")
      BY <3>1
    <3>3. ASSUME \A j \in 1 .. i : queue[j] # "ticker.1"
          PROVE  e # "ticker.1" /\ \A j \in 1 .. (i - 1) : queue'[j] # "ticker.1"
      <4>1. e # "ticker.1"
        BY <1>2, <3>1, <3>3
      <4>2. ASSUME NEW j \in 1 .. (i - 1)
            PROVE  queue'[j] # "ticker.1"
        <5>1. j \in DOMAIN queue' /\ j + 1 \in 1 .. i
          BY <1>2, <3>1
        <5> QED
          BY <1>2, <3>3, <5>1
      <4> QED
        BY <4>1, <4>2
    <3> QED
      BY <3>2, <3>3
  <2>4. e = "sd.unmounting" /\ restarts = 0 => "sd" \in Busy
    BY <1>2
  <2>5. /\ \A i, j \in DOMAIN queue' : queue'[i] = queue'[j] /\ queue'[i] = "ticker.1" => i = j
        /\ e = "ticker.1" => ~ Queued("ticker.1")'
    BY <2>2
  <2>6. restarts = 0 =>
          /\ \A i, j \in DOMAIN queue' : queue'[i] = queue'[j] /\ queue'[i] = "sd.unmounting" => i = j
          /\ e = "sd.unmounting" => ~ Queued("sd.unmounting")'
    BY <2>2
  <2> QED
    BY <1>1, <1>4, <1>13, <2>3, <2>4, <2>5, <2>6
<1>15. FirstInv'
  <2>1. restarts = 0 => /\ ~ Queued("system.shuttingdown")' /\ ~ Queued("system.shutdown")'
                        /\ e \notin {"system.shuttingdown", "system.shutdown"}
    BY <1>3 DEF FirstInv
  <2>2. ASSUME restarts = 1, NEW i \in DOMAIN queue', queue'[i] = "system.shuttingdown"
        PROVE  /\ \A j \in DOMAIN queue' : queue'[j] = "system.shuttingdown" => i = j
               /\ \A j \in 1 .. (i - 1) : queue'[j] # "system.shutdown"
               /\ e \notin {"system.shuttingdown", "system.shutdown"}
    <3>1. i + 1 \in DOMAIN queue /\ queue[i + 1] = "system.shuttingdown" /\ i \in Nat \ {0}
      BY <1>2, <2>2
    <3>2. /\ \A j \in DOMAIN queue : queue[j] = "system.shuttingdown" => i + 1 = j
          /\ \A j \in 1 .. i : queue[j] # "system.shutdown"
      BY <2>2, <3>1 DEF FirstInv
    <3>3. ASSUME NEW j \in DOMAIN queue', queue'[j] = "system.shuttingdown"
          PROVE  i = j
      <4>1. i + 1 = j + 1 /\ j \in Nat
        BY <1>2, <3>2, <3>3
      <4> QED
        BY <3>1, <4>1
    <3>4. ASSUME NEW j \in 1 .. (i - 1)
          PROVE  queue'[j] # "system.shutdown"
      <4>1. j \in DOMAIN queue' /\ j + 1 \in 1 .. i
        <5>1. DOMAIN queue' = 1 .. Len(queue') /\ Len(queue') \in Nat
          BY <1>2
        <5> QED
          BY <3>1, <5>1
      <4> QED
        BY <1>2, <3>2, <4>1
    <3>5. e # "system.shuttingdown"
      <4> SUFFICES ASSUME e = "system.shuttingdown" PROVE FALSE
        OBVIOUS
      <4>1. i + 1 = 1
        BY <1>2, <3>2
      <4> QED
        BY <3>1, <4>1
    <3>6. e # "system.shutdown"
      BY <1>2, <3>1, <3>2
    <3> QED
      BY <3>3, <3>4, <3>5, <3>6
  <2> QED
    BY <1>1, <1>4, <2>1, <2>2 DEF FirstInv, Queued
<1>16. AloneInv'
  <2> SUFFICES ASSUME alone, restarts = 1 PROVE AloneInv'
    BY <1>1 DEF AloneInv
  <2>1. ToBeTold' = ToBeTold
    <3>1. ToldFacts /\ ToldFacts'
      BY <1>9, NotToldParts, NotToldPartsNext
    <3>2. CASE e = "system.shuttingdown"
      <4>1. ~ Queued("system.shuttingdown")'
        BY <1>1, <1>4, <1>15, <3>2 DEF FirstInv
      <4>2. running'.event = "system.shuttingdown" /\ running'.todo[1] = "sd"
        BY <1>4, <3>2
      <4>3. ToBeTold = Parts
        BY <1>3, <3>1, <3>2 DEF ToldFacts
      <4>4. ToBeTold' = Parts
        BY <3>1, <4>1, <4>2 DEF ToldFacts, Parts
      <4> QED
        BY <4>3, <4>4
    <3>3. CASE e # "system.shuttingdown"
      BY <1>3, <1>4, <1>5, <3>1, <3>3 DEF ToldFacts
    <3> QED
      BY <3>2, <3>3
  <2>2. /\ Queued("sd.unmounting")' => Queued("sd.unmounting")
        /\ e = "sd.unmounting" => Queued("sd.unmounting")
    BY <1>3
  <2>3. running'.todo # <<"cut">> \/ running'.event # "system.shuttingdown"
    BY <1>4
  <2>4. age' < RestartTime => m_restart_timer + age' >= RestartTime + Num(WillTick') \/ Cut
    <3>1. age < RestartTime => m_restart_timer + age >= RestartTime + 0 \/ Cut
      BY <1>11 DEF AloneInv
    <3> DEFINE n == Num(WillTick')
    <3>2. m_restart_timer \in Nat /\ n \in 0 .. 1
          /\ (age' < RestartTime => age < RestartTime /\ age' = age + n)
      BY <1>11 DEF RestartTypeInv
    <3> HIDE DEF n
    <3>3. age' < RestartTime => m_restart_timer + age' >= RestartTime + n \/ Cut
      BY <1>6, <3>1, <3>2
    <3> QED
      BY <3>3 DEF n
  <2>5. Opens' = Opens /\ Untold' = Untold /\ (Cut' <=> Cut)
        /\ (IsShuttingDown' <=> IsShuttingDown)
    BY <1>1, <1>13, <2>1 DEF Opens, Open, Untold, Cut, IsShuttingDown
  <2> QED
    BY <1>1, <1>4, <1>13, <2>1, <2>2, <2>3, <2>4, <2>5 DEF AloneInv
<1> QED
  BY <1>7, <1>9, <1>12, <1>14, <1>15, <1>16

-----------------------------------------------------------------------------
LEMMA WebStep == RestartIInv /\ WebInv /\ [RestartNext]_restartVars => WebInv'
<1> SUFFICES ASSUME RestartIInv, WebInv, [RestartNext]_restartVars PROVE WebInv'
  OBVIOUS
<1> USE DEF WebInv, timer, watched, events
<1>1. CASE Restart
  BY <1>1 DEF Restart, RestartIInv, RestartTypeInv
<1>2. CASE WebShuttingDown
  <2>1. restarts # 0
    BY <1>2, TurnTail DEF WebShuttingDown, RestartIInv, FirstInv, Events
  <2> QED
    BY <1>2, <2>1 DEF WebShuttingDown
<1>3. CASE WebTick
  BY <1>3 DEF WebTick
<1>4. CASE \/ Tick \/ EventTask \/ ShuttingDownDone \/ ShuttingDownCut \/ Ticker1 \/ ShutdownDone
           \/ SdShuttingDown \/ SdUnmountingDone \/ SdShutdown \/ SdTick
           \/ ModemShuttingDown \/ ModemTick \/ SdCommand \/ ModemActivity \/ ModemCommand
           \/ UNCHANGED restartVars
  BY <1>4 DEF Tick, EventTask, ShuttingDownDone, ShuttingDownCut, Ticker1, ShutdownDone,
              SdShuttingDown, SdUnmountingDone, SdShutdown, SdTick, ModemShuttingDown, ModemTick,
              SdCommand, ModemActivity, ModemCommand, restartVars
<1> QED
  BY <1>1, <1>2, <1>3, <1>4 DEF RestartNext, Handlers

LEMMA NextRestart == RestartIInv /\ WebInv /\ [RestartNext]_restartVars => RestartIInv'
<1> SUFFICES ASSUME RestartIInv, WebInv, [RestartNext]_restartVars PROVE RestartIInv'
  OBVIOUS
<1>1. CASE \/ Restart \/ Tick \/ EventTask \/ SdCommand \/ ModemActivity \/ ModemCommand
  BY <1>1, RestartStep, TickStep, EventTaskStep, SdCommandStep, ModemCommandStep
<1>2. CASE Handlers
  BY <1>2, ShuttingDownDoneStep, ShuttingDownCutStep, Ticker1Step, ShutdownDoneStep,
     SdShuttingDownStep, SdUnmountStep, SdTickStep, ModemShuttingDownStep, ModemTickStep,
     WebShuttingDownStep, WebTickStep DEF Handlers
<1>3. CASE UNCHANGED restartVars
  <2> USE <1>3 DEF restartVars, timer, events, watched, RestartIInv
  <2>1. RestartTypeInv'
    BY DEF RestartTypeInv
  <2>2. TodoInv' /\ CountdownInv' /\ (WillTick' <=> WillTick) /\ (\A x : ToDo(x)' <=> ToDo(x))
    BY SameTodo DEF CountdownInv, Num
  <2>3. FirstInv' /\ UnmountingInv'
    BY <2>2, SameFirst, SameUnmounting DEF FirstInv, UnmountingInv
  <2>4. AloneInv'
    BY SameQueue, SameTold, SameBusy, SameAlone
  <2> QED
    BY <2>1, <2>2, <2>3, <2>4
<1> QED
  BY <1>1, <1>2, <1>3 DEF RestartNext

LEMMA RestartInvariant == RestartSpec => [](RestartIInv /\ WebInv)
<1>1. RestartInit => RestartIInv /\ WebInv
  BY InitRestart DEF RestartInit, WebInv
<1>2. RestartIInv /\ WebInv /\ [RestartNext]_restartVars => (RestartIInv /\ WebInv)'
  BY NextRestart, WebStep
<1> QED
  BY <1>1, <1>2, PTL DEF RestartSpec

(* The restart is not put off: RestartTime ticks after the last call, at    *)
(* most the two seconds of the cut countdown are left, whatever the parts   *)
(* and those who use them do (Ticker1, RestartReady, Restart).             *)
THEOREM RestartInTime == RestartSpec => []InTime
<1>1. RestartIInv => InTime
  <2> SUFFICES ASSUME RestartIInv, age = RestartTime, running = None PROVE m_restart_timer <= 2
    BY DEF InTime
  <2>1. ~ WillTick
    BY DEF WillTick, None
  <2>2. Num(WillTick) = 0
    BY <2>1 DEF Num
  <2>3. m_restart_timer \in Nat /\ RestartTime \in Nat
    BY RestartAssumption DEF RestartIInv, RestartTypeInv
  <2> QED
    BY <2>2, <2>3 DEF RestartIInv, CountdownInv
<1> QED
  BY <1>1, RestartInvariant, PTL

LEMMA CountOfParts ==
  ASSUME NEW S \in SUBSET {"sd", "modem", "web"}
  PROVE  Cardinality(S) = Num("sd" \in S) + Num("modem" \in S) + Num("web" \in S)
<1> DEFINE A == S \cap {"sd"}
           B == A \cup (S \cap {"modem"})
           C == B \cup (S \cap {"web"})
<1>1. IsFiniteSet(A) /\ Cardinality(A) = Num("sd" \in S)
  <2>1. CASE "sd" \in S
    <3>1. A = {"sd"}
      BY <2>1
    <3> QED
      BY <2>1, <3>1, FS_Singleton DEF Num
  <2>2. CASE "sd" \notin S
    <3>1. A = {}
      BY <2>2
    <3> QED
      BY <2>2, <3>1, FS_EmptySet DEF Num
  <2> QED
    BY <2>1, <2>2
<1>2. IsFiniteSet(B) /\ Cardinality(B) = Cardinality(A) + Num("modem" \in S)
  <2>1. CASE "modem" \in S
    <3>1. B = A \cup {"modem"} /\ "modem" \notin A
      BY <2>1
    <3> QED
      BY <1>1, <2>1, <3>1, FS_AddElement DEF Num
  <2>2. CASE "modem" \notin S
    <3>1. B = A /\ Cardinality(A) \in Nat
      BY <1>1, <2>2 DEF Num
    <3> QED
      BY <1>1, <2>2, <3>1 DEF Num
  <2> QED
    BY <2>1, <2>2
<1>3. Cardinality(C) = Cardinality(B) + Num("web" \in S)
  <2>1. CASE "web" \in S
    <3>1. C = B \cup {"web"} /\ "web" \notin B
      BY <2>1
    <3> QED
      BY <1>2, <2>1, <3>1, FS_AddElement DEF Num
  <2>2. CASE "web" \notin S
    <3>1. C = B /\ Cardinality(B) \in Nat
      BY <1>1, <1>2, <2>2 DEF Num
    <3> QED
      BY <1>2, <2>2, <3>1 DEF Num
  <2> QED
    BY <2>1, <2>2
<1>4. C = S
  OBVIOUS
<1> HIDE DEF A, B, C
<1> QED
  BY <1>1, <1>2, <1>3, <1>4 DEF Num

LEMMA PendingCounted == RestartIInv => PendingCounts
<1> SUFFICES ASSUME RestartIInv, IsShuttingDown, alone
             PROVE  m_restart_pending = Cardinality(Busy \ ToBeTold)
  BY DEF PendingCounts
<1>1. restarts = 1
  BY DEF RestartIInv, FirstInv, IsShuttingDown, RestartTypeInv
<1>2. m_restart_pending = Opens
  BY <1>1 DEF RestartIInv, AloneInv
<1>3. Busy \ ToBeTold \in SUBSET {"sd", "modem", "web"}
  BY BusyParts DEF BusyFacts, Parts
<1> QED
  BY <1>2, <1>3, CountOfParts DEF Opens, Open

(* Only Ticker1 ends the countdown.                                        *)
LEMMA RunsOut ==
  ASSUME RestartIInv, [RestartNext]_restartVars, m_restart_timer = 1, m_restart_timer' = 0
  PROVE  Ticker1
<1> USE DEF timer, watched, events, RestartReady, RestartPending
<1>1. RestartTime # 0
  BY RestartAssumption
<1>2. CASE \/ Tick \/ EventTask \/ ShuttingDownDone \/ ShuttingDownCut \/ ShutdownDone
           \/ SdShuttingDown \/ SdUnmountingDone \/ SdShutdown \/ SdTick
           \/ ModemShuttingDown \/ SdCommand \/ ModemActivity \/ ModemCommand
           \/ WebShuttingDown \/ WebTick \/ Restart \/ UNCHANGED restartVars
  BY <1>1, <1>2
     DEF Tick, EventTask, ShuttingDownDone, ShuttingDownCut, ShutdownDone,
         SdShuttingDown, SdUnmountingDone, SdShutdown, SdTick, ModemShuttingDown,
         SdCommand, ModemActivity, ModemCommand, WebShuttingDown, WebTick, Restart, restartVars
<1>3. CASE ModemTick
  BY <1>3, ModemTicks DEF RestartIInv, IsShuttingDown, MuxFailed, MuxChanges
<1> QED
  BY <1>2, <1>3 DEF RestartNext, Handlers

(* In a restart with nobody else at work on the card and the modem, the     *)
(* counter of the pending parts is right, and the countdown is cut short    *)
(* only when all of them have been told and are done (RestartPending,       *)
(* RestartReady, boot_shuttingdown_done).                                  *)
THEOREM RestartHandshake == RestartSpec => Handshake
<1>1. ASSUME RestartIInv, RestartIInv', [RestartNext]_restartVars
      PROVE  PendingCounts' /\ (RunsOutEarly /\ alone => ToBeTold = {} /\ Busy = {})
  <2>1. PendingCounts'
    <3>1. (RestartIInv => PendingCounts)'
      BY PendingCounted, PTL
    <3> QED
      BY <1>1, <3>1
  <2>2. ASSUME RunsOutEarly, alone
        PROVE  ToBeTold = {} /\ Busy = {}
    <3>1. Turn("ticker.1", "boot") /\ UNCHANGED restarts
      BY <1>1, <2>2, RunsOut DEF RunsOutEarly, Ticker1
    <3>2. WillTick
      BY <1>1, <3>1, TickTurn DEF RestartIInv
    <3>3. Num(WillTick) = 1
      BY <3>2 DEF Num
    <3>4. restarts = 1 /\ age \in Nat /\ RestartTime \in Nat
      BY <1>1, <2>2, RestartAssumption DEF RestartIInv, FirstInv, RestartTypeInv, RunsOutEarly
    <3>5. Cut
      BY <1>1, <2>2, <3>3, <3>4 DEF RestartIInv, AloneInv, RunsOutEarly
    <3> QED
      BY <3>5 DEF Cut
  <2> QED
    BY <2>1, <2>2
<1> QED
  BY <1>1, RestartInvariant, PTL DEF Handshake, RestartSpec

-----------------------------------------------------------------------------
(* Types, with the bounds.                                                 *)
RangeInv ==
  /\ m_restart_timer \in {0, 1, 2} \cup 0 .. RestartTime
  /\ m_restart_pending \in 0 .. UintMax /\ restarts \in 0 .. MaxRestarts

LEMMA ReadyRange ==
  ASSUME RestartTypeInv, RangeInv, RestartReady \/ RestartPending
  PROVE  /\ m_restart_timer' \in {0, 1, 2} \cup 0 .. RestartTime
         /\ m_restart_pending' \in 0 .. UintMax
<1>1. UintMax \in Nat /\ m_restart_pending \in Nat
  BY RestartAssumption DEF RestartTypeInv
<1>2. \A n \in Nat : n % (UintMax + 1) \in 0 .. UintMax
  BY <1>1
<1>3. m_restart_pending' \in 0 .. UintMax
  BY <1>1, <1>2 DEF RestartReady, RestartPending
<1> QED
  BY <1>3 DEF RestartReady, RestartPending, RangeInv

LEMMA NextRange == RestartTypeInv /\ RangeInv /\ [RestartNext]_restartVars => RangeInv'
<1> SUFFICES ASSUME RestartTypeInv, RangeInv, [RestartNext]_restartVars PROVE RangeInv'
  OBVIOUS
<1>1. /\ RestartTime \in Nat \ {0} /\ MaxRestarts \in Nat /\ UintMax \in Nat
  BY RestartAssumption
<1>2. CASE Restart
  BY <1>1, <1>2 DEF Restart, RangeInv
<1>3. CASE Ticker1
  <2>1. m_restart_timer' \in {m_restart_timer, m_restart_timer - 1}
        /\ (m_restart_timer' # m_restart_timer => m_restart_timer > 0)
    BY <1>3 DEF Ticker1, IsShuttingDown
  <2>2. UNCHANGED <<m_restart_pending, restarts>>
    BY <1>3 DEF Ticker1
  <2> QED
    BY <1>1, <2>1, <2>2 DEF RangeInv
<1>4. CASE ShuttingDownCut
  BY <1>4 DEF ShuttingDownCut, RangeInv
<1>5. CASE SdShuttingDown \/ SdTick \/ ModemShuttingDown \/ ModemTick \/ WebShuttingDown \/ WebTick
  <2>1. UNCHANGED restarts
    BY <1>5 DEF SdShuttingDown, SdTick, ModemShuttingDown, ModemTick, WebShuttingDown, WebTick
  <2>2. RestartReady \/ RestartPending \/ UNCHANGED timer
    <3>1. CASE ModemTick
      <4>1. /\ modem.ticks \in 0 .. (OffTicks + CheckTicks)
            /\ modem.ticks > 0 <=> modem.state \in {"PoweringOff", "CheckPowerOff"}
            /\ OffTicks \in Nat /\ CheckTicks \in Nat
        BY RestartAssumption DEF RestartTypeInv, Modems
      <4>2. \/ modem.ticks = 0 \/ modem.ticks > 1
            \/ modem.ticks = 1 /\ modem.state = "PoweringOff"
            \/ modem.ticks = 1 /\ modem.state = "CheckPowerOff"
        BY <4>1
      <4> QED
        BY <3>1, <4>1, <4>2 DEF ModemTick, StateTimeout, MuxFailed, MuxChanges
    <3>2. CASE SdShuttingDown \/ SdTick \/ ModemShuttingDown \/ WebShuttingDown \/ WebTick
      BY <3>2 DEF SdShuttingDown, SdTick, ModemShuttingDown, WebShuttingDown, WebTick, timer
    <3> QED
      BY <1>5, <3>1, <3>2
  <2> QED
    BY <2>1, <2>2, ReadyRange DEF RangeInv, timer
<1>6. CASE \/ Tick \/ EventTask \/ ShuttingDownDone \/ ShutdownDone \/ SdUnmountingDone
           \/ SdShutdown \/ SdCommand \/ ModemActivity \/ ModemCommand \/ UNCHANGED restartVars
  BY <1>6 DEF Tick, EventTask, ShuttingDownDone, ShutdownDone, SdUnmountingDone, SdShutdown,
              SdCommand, ModemActivity, ModemCommand, restartVars, timer, RangeInv
<1> QED
  BY <1>2, <1>3, <1>4, <1>5, <1>6 DEF RestartNext, Handlers

(* Every variable has its type: m_restart_pending never leaves its width,  *)
(* the countdown its range, and the modem has a timeout exactly in the     *)
(* states that end by one.                                                 *)
THEOREM RestartTypes == RestartSpec => []RestartTypeOK
<1>1. RestartInit => RangeInv
  BY RestartAssumption DEF RestartInit, RangeInv
<1>2. RestartTypeInv /\ RangeInv => RestartTypeOK
  <2> SUFFICES ASSUME RestartTypeInv, RangeInv PROVE RestartTypeOK
    OBVIOUS
  <2>1. \A i \in DOMAIN queue : queue[i] \in Events
    BY DEF RestartTypeInv
  <2>2. running = None \/ running.todo # <<>>
    BY DEF RestartTypeInv, None
  <2>3. running.event \in Events \cup {"none"}
    BY DEF RestartTypeInv
  <2> QED
    BY <2>1, <2>2, <2>3 DEF RestartTypeInv, RangeInv, RestartTypeOK
<1>3. RestartIInv => RestartTypeInv
  BY DEF RestartIInv
<1> QED
  BY <1>1, <1>2, <1>3, NextRange, RestartInvariant, PTL DEF RestartSpec
=============================================================================
