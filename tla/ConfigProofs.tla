---------------------------- MODULE ConfigProofs ----------------------------
(***************************************************************************)
(* The safety of the configuration store, for any parameters, instances,   *)
(* values and tasks, and any number of changes, restores and crashes.      *)
(*                                                                         *)
(* The mutex makes writing a file and installing an archive exclusive, but *)
(* the maps have none.  The inductive invariant therefore says of a file   *)
(* being written that every entry done is up to date, unless a write has   *)
(* failed, or a task that has changed the map since still waits to write   *)
(* the file itself; and of an installation where the two configurations    *)
(* are at each of its steps.                                               *)
(***************************************************************************)
EXTENDS Config, TLAPS

Installs == {"install", "moved", "cleanup", "finish"}
Pcs      == {"idle", "rewrite", "write"} \cup Installs
Directories == [ovms_config : Store \cup {None},
                scripts : {None} \cup SUBSET Script]

Position == [pc : Pcs, param : Param \cup {None}, todo : SUBSET Instance,
             dir : 0..2, ok : BOOLEAN]

TypeInv ==
  /\ m_map \in Store /\ known \in Store /\ changed \subseteq Param
  /\ live \in Directories /\ old \in Directories
  /\ temp \in Directories /\ zip \in Directories
  /\ before \in Store \cup {None}
  /\ m_store_lock \in Callers \cup {None} /\ shutdown \in BOOLEAN
  /\ unsaved \subseteq Param /\ replaced \in BOOLEAN
  /\ at \in [Callers -> Position]
  /\ zip.ovms_config # None

\* Who writes or installs has the mutex; so it is held until the boot.
LockInv ==
  /\ \A c \in Callers :
       /\ at[c].pc \in {"write"} \cup Installs => m_store_lock = c
       /\ at[c].pc \in {"rewrite", "write"} => at[c].param # None
       /\ at[c].pc \notin {"rewrite", "write"} => at[c].param = None
  /\ shutdown => /\ m_store_lock # None
                 /\ \A c \in Callers : at[c].pc \in {"idle", "rewrite"}

\* A task has changed p and waits for the mutex.
Waits(p) == \E d \in Callers : In(d, "rewrite") /\ at[d].param = p

\* The file that c is writing: what is in it of instance i.
WriteDone(c, i) ==
  LET v == live.ovms_config[at[c].param][i]
  IN  IF i \in at[c].todo THEN v = None
      ELSE v = m_map[at[c].param][i] \/ Waits(at[c].param) \/ ~at[c].ok

WriteOf(c) == live.ovms_config # None /\ \A i \in Instance : WriteDone(c, i)

WriteInv == \A c \in Callers : at[c].pc = "write" => WriteOf(c)

\* Configuration conf is the one in memory, but for what is not yet saved.
Saved(conf) ==
  /\ conf # None
  /\ \A p \in Param : Changing(p) \/ p \in unsaved \/ conf[p] = m_map[p]

StoreInv ==
  ~replaced /\ ~shutdown => Saved(IF Installing THEN before ELSE live.ovms_config)

\* Where the archive and the former configuration are, at each step of c.
InstallOf(c) ==
  /\ at[c].pc \in {"install", "moved", "cleanup"} => at[c].ok /\ at[c].dir \in {1, 2}
  /\ at[c].pc \in {"install", "moved", "cleanup"} /\ at[c].dir = 1 =>
       /\ temp.scripts = zip.scripts
       /\ at[c].pc # "cleanup" => temp.ovms_config = zip.ovms_config
       /\ at[c].pc = "install" => live.ovms_config = before
       /\ at[c].pc = "moved" => /\ live.ovms_config = None
                                /\ before \in {old.ovms_config, None}
       /\ at[c].pc = "cleanup" => live.ovms_config = zip.ovms_config
  /\ at[c].pc \in {"install", "moved", "cleanup"} /\ at[c].dir = 2 =>
       /\ live.ovms_config = zip.ovms_config
       /\ at[c].pc # "cleanup" => temp.scripts = zip.scripts
       /\ at[c].pc = "cleanup" => live.scripts = zip.scripts
  /\ at[c].pc = "finish" /\ at[c].ok =>
       live.ovms_config = zip.ovms_config /\ live.scripts = zip.scripts
  /\ at[c].pc = "finish" =>
       \/ before \in {live.ovms_config, old.ovms_config}
       \/ live.ovms_config = zip.ovms_config

InstallInv == \A c \in Callers : InstallOf(c)

RestoreInv ==
  shutdown => live.ovms_config = zip.ovms_config /\ live.scripts = zip.scripts

IInv ==
  /\ TypeInv /\ LockInv /\ WriteInv /\ StoreInv
  /\ ListenersKnow /\ InstallInv /\ RestoreInv

-----------------------------------------------------------------------------
LEMMA InitIInv == Init => IInv
<1> SUFFICES ASSUME Init PROVE IInv
  OBVIOUS
<1>1. Empty \in Map /\ [p \in Param |-> Empty] \in Store
  BY DEF Empty, Map, Store
<1>2. m_map \in Store /\ m_map # None
  BY <1>1, ConfigAssumption DEF Init
<1>3. TypeInv
  <2>1. live \in Directories
    <3>1. {} \in {None} \cup SUBSET Script
      OBVIOUS
    <3> QED
      BY <1>2, <3>1 DEF Init, Directories
  <2>2. NoDirs \in Directories
    BY DEF NoDirs, Directories
  <2>3. zip \in Directories /\ zip.ovms_config # None
    BY ConfigAssumption DEF Init, Directories
  <2>4. Idle \in Position
    BY DEF Idle, Position, Pcs
  <2>5. at \in [Callers -> Position]
    BY <2>4 DEF Init
  <2> QED
    BY <1>2, <2>1, <2>2, <2>3, <2>5 DEF Init, TypeInv
<1>4. \A c \in Callers : at[c].pc = "idle" /\ at[c].param = None
  BY DEF Init, Idle
<1>5. ~Installing /\ ~shutdown
  BY <1>4 DEF Init, Installing
<1>6. LockInv
  BY <1>4, <1>5 DEF LockInv, Installs
<1>7. WriteInv /\ InstallInv
  BY <1>4 DEF WriteInv, InstallInv, InstallOf, In
<1>8. StoreInv
  BY <1>2, <1>5 DEF Init, StoreInv, Saved
<1>9. ListenersKnow /\ RestoreInv
  BY <1>5 DEF Init, ListenersKnow, RestoreInv
<1> QED
  BY <1>3, <1>6, <1>7, <1>8, <1>9 DEF IInv

-----------------------------------------------------------------------------
\* While the mutex is free nobody writes or installs.
LEMMA Free ==
  ASSUME TypeInv, LockInv, m_store_lock = None
  PROVE  ~shutdown /\ \A c \in Callers : at[c].pc \in {"idle", "rewrite"}
BY ConfigAssumption DEF TypeInv, LockInv, Position, Pcs

\* Who writes or installs is alone in that.
LEMMA Alone ==
  ASSUME TypeInv, LockInv, NEW c \in Callers,
         at[c].pc \in {"write"} \cup Installs
  PROVE  /\ ~shutdown /\ m_store_lock = c
         /\ \A d \in Callers : d # c => at[d].pc \in {"idle", "rewrite"}
BY DEF TypeInv, LockInv, Position, Pcs, Installs

\* A caller that goes on, with the same parameter.
LEMMA SameChanging ==
  ASSUME NEW c \in Callers, at'[c].param = at[c].param,
         \A d \in Callers : d # c => at'[d] = at[d],
         NEW p
  PROVE  Changing(p)' = Changing(p)
BY DEF Changing

-----------------------------------------------------------------------------
(***************************************************************************)
(* Changes                                                                 *)
(***************************************************************************)
LEMMA ChangeIInv ==
  ASSUME IInv, NEW c \in Callers, NEW p \in Param, NEW m \in Map,
         In(c, "idle"), Change(c, p, m)
  PROVE  IInv'
<1> USE DEF IInv
<1>1. /\ m_map \in Store /\ m_map' = [m_map EXCEPT ![p] = m]
      /\ at \in [Callers -> Position] /\ at[c].pc = "idle"
      /\ at' = [at EXCEPT ![c] = [Idle EXCEPT !.pc = "rewrite", !.param = p]]
  BY DEF Change, TypeInv, In
<1>2. UNCHANGED <<known, changed, live, old, temp, zip, m_store_lock, shutdown,
                  before, unsaved, replaced>>
  BY DEF Change, disk, history
<1>3. /\ at'[c].pc = "rewrite" /\ at'[c].param = p
      /\ \A d \in Callers : d # c => at'[d] = at[d]
  BY <1>1 DEF Idle
<1>4. \A q \in Param : q # p => m_map'[q] = m_map[q]
  BY <1>1 DEF Store
<1>5. p # None /\ at[c].param = None
  BY <1>1, ConfigAssumption DEF LockInv
<1>6. \A q \in Param : /\ Changing(q) => Changing(q)'
                       /\ q = p => Changing(q)'
  BY <1>3, <1>5, ConfigAssumption DEF Changing
<1>7. Waits(p)' /\ \A q : Waits(q) => Waits(q)'
  BY <1>1, <1>3 DEF Waits, In
<1>8. Installing' = Installing
  BY <1>1, <1>3 DEF Installing
<1>9. TypeInv'
  <2>1. m_map' \in Store
    BY <1>1 DEF Store
  <2>2. [pc |-> "rewrite", param |-> p, todo |-> {}, dir |-> 0, ok |-> TRUE]
          \in Position
    BY DEF Position, Pcs
  <2>3. at' \in [Callers -> Position]
    BY <1>1, <2>2 DEF Idle
  <2> QED
    BY <1>2, <2>1, <2>3 DEF TypeInv
<1>10. LockInv'
  BY <1>1, <1>2, <1>3, <1>5 DEF LockInv, Installs
<1>11. WriteInv'
  <2> SUFFICES ASSUME NEW d \in Callers, at'[d].pc = "write"
               PROVE  WriteOf(d)'
    BY DEF WriteInv
  <2>1. d # c /\ at[d].pc = "write" /\ at'[d] = at[d] /\ at[d].param \in Param
    BY <1>1, <1>3 DEF LockInv, TypeInv, Position
  <2>2. WriteOf(d)
    BY <2>1 DEF WriteInv
  <2>3. ASSUME NEW i \in Instance PROVE WriteDone(d, i)'
    BY <1>2, <1>4, <1>7, <2>1, <2>2 DEF WriteOf, WriteDone
  <2> QED
    BY <1>2, <2>2, <2>3 DEF WriteOf
<1>12. StoreInv'
  BY <1>2, <1>4, <1>6, <1>8 DEF StoreInv, Saved
<1>13. ListenersKnow'
  BY <1>2, <1>4, <1>6 DEF ListenersKnow
<1>14. InstallInv'
  BY <1>1, <1>2, <1>3 DEF InstallInv, InstallOf
<1> QED
  BY <1>2, <1>9, <1>10, <1>11, <1>12, <1>13, <1>14 DEF RestoreInv

\* Deleting what is not there, and telling a listener.
LEMMA ToldIInv ==
  ASSUME IInv, NEW p \in Param,
         UNCHANGED <<m_map, disk, m_store_lock, at, shutdown, history>>,
         \/ changed' = changed \cup {p} /\ UNCHANGED known
         \/ /\ changed' = changed \ {p}
            /\ known' = [known EXCEPT ![p] = m_map[p]]
  PROVE  IInv'
<1> USE DEF IInv
<1>1. UNCHANGED <<m_map, live, old, temp, zip, m_store_lock, at, shutdown,
                  before, unsaved, replaced>>
  BY DEF disk, history
<1>2. known \in Store /\ m_map \in Store /\ changed \subseteq Param
  BY DEF TypeInv
<1>3. known' \in Store /\ changed' \subseteq Param
  BY <1>2 DEF Store
<1>4. TypeInv'
  BY <1>1, <1>3 DEF TypeInv
<1>5. \A q : Changing(q)' = Changing(q) /\ Waits(q)' = Waits(q)
  BY <1>1 DEF Changing, Waits, In
<1>6. Installing' = Installing
  BY <1>1 DEF Installing
<1>7. ListenersKnow'
  BY <1>1, <1>2, <1>5 DEF ListenersKnow, Store
<1>8. LockInv' /\ WriteInv' /\ InstallInv' /\ RestoreInv'
  BY <1>1, <1>5
  DEF LockInv, WriteInv, WriteOf, WriteDone, InstallInv, InstallOf, RestoreInv
<1>9. StoreInv'
  BY <1>1, <1>5, <1>6 DEF StoreInv, Saved
<1> QED
  BY <1>4, <1>7, <1>8, <1>9

-----------------------------------------------------------------------------
(***************************************************************************)
(* Rewriting a file                                                        *)
(***************************************************************************)
LEMMA OpenIInv ==
  ASSUME IInv, NEW c \in Callers, Open(c)
  PROVE  IInv'
<1> USE DEF IInv
<1> DEFINE p == at[c].param
<1>1. /\ at[c].pc = "rewrite" /\ live.ovms_config # None
      /\ m_store_lock = None /\ m_store_lock' = c
      /\ live' = [live EXCEPT !["ovms_config"][p] = Empty]
      /\ at' = [at EXCEPT ![c].pc = "write", ![c].todo = Instance]
  BY DEF Open, In, Lock
<1>2. UNCHANGED <<m_map, known, changed, old, temp, zip, shutdown, before,
                  unsaved, replaced>>
  BY DEF Open, history
<1>3. ~shutdown /\ \A d \in Callers : at[d].pc \in {"idle", "rewrite"}
  BY <1>1, Free
<1>4. /\ at \in [Callers -> Position] /\ p \in Param
      /\ live \in Directories /\ live.ovms_config \in Store
  BY <1>1, ConfigAssumption DEF TypeInv, LockInv, Position, Directories
<1>5. /\ at'[c] = [at[c] EXCEPT !.pc = "write", !.todo = Instance]
      /\ \A d \in Callers : d # c => at'[d] = at[d]
  BY <1>1, <1>4
<1>6. /\ at'[c].pc = "write" /\ at'[c].todo = Instance /\ at'[c].param = p
      /\ at'[c] \in Position
  BY <1>4, <1>5 DEF Position, Pcs
<1>7. /\ live'.ovms_config = [live.ovms_config EXCEPT ![p] = Empty]
      /\ live'.ovms_config \in Store /\ live' \in Directories
  <2>1. Empty \in Map
    BY DEF Empty, Map
  <2>2. [live.ovms_config EXCEPT ![p] = Empty] \in Store
    BY <1>4, <2>1 DEF Store
  <2> QED
    BY <1>1, <1>4, <2>2 DEF Directories
<1>8. \A q : Changing(q)' = Changing(q)
  BY <1>5, <1>6, SameChanging
<1>9. ~Installing /\ ~Installing'
  BY <1>3, <1>5, <1>6 DEF Installing
<1>10. TypeInv'
  <2>1. at' \in [Callers -> Position]
    BY <1>1, <1>4, <1>5, <1>6
  <2> QED
    BY <1>1, <1>2, <1>7, <2>1 DEF TypeInv
<1>11. LockInv'
  BY <1>1, <1>2, <1>3, <1>5, <1>6, ConfigAssumption DEF LockInv, Installs
<1>12. WriteInv'
  <2>1. live'.ovms_config # None
    BY <1>7, ConfigAssumption
  <2>2. \A i \in Instance : live'.ovms_config[p][i] = None
    BY <1>4, <1>7 DEF Store, Empty
  <2>3. WriteOf(c)'
    BY <1>6, <2>1, <2>2 DEF WriteOf, WriteDone
  <2> QED
    BY <1>3, <1>5, <2>3 DEF WriteInv
<1>13. StoreInv'
  <2> SUFFICES ASSUME ~replaced PROVE Saved(live.ovms_config)'
    BY <1>2, <1>9 DEF StoreInv
  <2>1. Saved(live.ovms_config)
    BY <1>3, <1>9 DEF StoreInv
  <2>2. Changing(p)
    BY DEF Changing
  <2>3. \A q \in Param : q # p => live'.ovms_config[q] = live.ovms_config[q]
    BY <1>4, <1>7 DEF Store
  <2>4. live'.ovms_config # None
    BY <1>6, <1>12 DEF WriteInv, WriteOf
  <2> QED
    BY <1>2, <1>8, <2>1, <2>2, <2>3, <2>4 DEF Saved
<1>14. ListenersKnow'
  BY <1>2, <1>8 DEF ListenersKnow
<1>15. InstallInv' /\ RestoreInv'
  BY <1>2, <1>3, <1>5, <1>6 DEF InstallInv, InstallOf, RestoreInv
<1> QED
  BY <1>10, <1>11, <1>12, <1>13, <1>14, <1>15

LEMMA OpenFailsIInv ==
  ASSUME IInv, NEW c \in Callers, In(c, "rewrite"), OpenFails(c)
  PROVE  IInv'
<1> USE DEF IInv
<1> DEFINE p == at[c].param
<1>1. /\ at[c].pc = "rewrite" /\ m_store_lock = None
      /\ unsaved' = unsaved \cup {p} /\ changed' = changed \cup {p}
      /\ at' = [at EXCEPT ![c] = Idle]
      /\ UNCHANGED <<m_map, known, live, old, temp, zip, m_store_lock, shutdown,
                     before, replaced>>
  BY DEF OpenFails, In, disk
<1>2. ~shutdown /\ \A d \in Callers : at[d].pc \in {"idle", "rewrite"}
  BY <1>1, Free
<1>3. at \in [Callers -> Position] /\ p \in Param
  BY <1>1 DEF TypeInv, LockInv, Position
<1>4. /\ at'[c].pc = "idle" /\ at'[c].param = None
      /\ \A d \in Callers : d # c => at'[d] = at[d]
  BY <1>1, <1>3 DEF Idle
<1>5. \A q \in Param : q # p => Changing(q)' = Changing(q)
  BY <1>3, <1>4, ConfigAssumption DEF Changing
<1>6. ~Installing /\ ~Installing'
  BY <1>2, <1>4 DEF Installing
<1>7. TypeInv'
  <2>1. Idle \in Position
    BY DEF Idle, Position, Pcs
  <2> QED
    BY <1>1, <1>3, <2>1 DEF TypeInv
<1>8. LockInv'
  BY <1>1, <1>2, <1>4 DEF LockInv, Installs
<1>9. WriteInv' /\ InstallInv' /\ RestoreInv'
  BY <1>1, <1>2, <1>4 DEF WriteInv, InstallInv, InstallOf, RestoreInv
<1>10. StoreInv'
  BY <1>1, <1>5, <1>6 DEF StoreInv, Saved
<1>11. ListenersKnow'
  BY <1>1, <1>5 DEF ListenersKnow
<1> QED
  BY <1>7, <1>8, <1>9, <1>10, <1>11

LEMMA WriteIInv ==
  ASSUME IInv, NEW c \in Callers, NEW i \in Instance,
         Write(c, i) \/ WriteFails(c, i)
  PROVE  IInv'
<1> USE DEF IInv
<1> DEFINE p == at[c].param
<1>0. PICK v \in Value \cup {None}, done \in BOOLEAN :
        /\ live' = [live EXCEPT !["ovms_config"][p][i] = IF v = None THEN @ ELSE v]
        /\ at' = [at EXCEPT ![c].todo = @ \ {i}, ![c].ok = done]
        /\ done => v = m_map[p][i] /\ at[c].ok
  <2>0. /\ at \in [Callers -> Position] /\ m_map \in Store /\ at[c].pc = "write"
        /\ i \in at[c].todo /\ p \in Param /\ live \in Directories
        /\ live.ovms_config \in Store /\ live.ovms_config[p][i] = None
    BY DEF TypeInv, LockInv, WriteInv, WriteOf, WriteDone, Write, WriteFails, In,
           Position, Directories
  <2>1. CASE Write(c, i)
    <3>1. m_map[p][i] \in Value \cup {None} /\ at[c].ok \in BOOLEAN
      BY <2>0 DEF Store, Map, Position
    <3>2. [at EXCEPT ![c].todo = @ \ {i}] =
            [at EXCEPT ![c].todo = @ \ {i}, ![c].ok = at[c].ok]
      BY <2>0 DEF Position
    <3> QED
      BY <2>1, <3>1, <3>2 DEF Write
  <2>2. CASE WriteFails(c, i)
    BY <2>0, <2>2 DEF WriteFails
  <2> QED
    BY <2>1, <2>2
<1>1. /\ at[c].pc = "write" /\ i \in at[c].todo
      /\ UNCHANGED <<m_map, known, changed, old, temp, zip, m_store_lock,
                     shutdown, before, unsaved, replaced>>
  BY DEF Write, WriteFails, In, history
<1>2. /\ ~shutdown /\ m_store_lock = c
      /\ \A d \in Callers : d # c => at[d].pc \in {"idle", "rewrite"}
  BY <1>1, Alone
<1>3. WriteOf(c)
  BY <1>1 DEF WriteInv
<1>4. /\ at \in [Callers -> Position] /\ p \in Param /\ live \in Directories
      /\ live.ovms_config \in Store /\ v \in Value \cup {None}
  <2>1. live.ovms_config # None /\ at[c].param # None
    BY <1>1, <1>3 DEF WriteOf, LockInv
  <2> QED
    BY <2>1 DEF TypeInv, Position, Directories, Store, Map
<1>5. /\ at'[c] = [at[c] EXCEPT !.todo = @ \ {i}, !.ok = done]
      /\ \A d \in Callers : d # c => at'[d] = at[d]
  BY <1>0, <1>4
<1>6. /\ at'[c].pc = "write" /\ at'[c].todo = at[c].todo \ {i}
      /\ at'[c].param = p /\ at'[c] \in Position
      /\ at'[c].ok => v = m_map[p][i] /\ at[c].ok
  <2>1. at[c] \in Position /\ at[c].todo \in SUBSET Instance
    BY <1>4 DEF Position
  <2>2. at'[c] \in Position
    BY Zenon, <1>5, <2>1 DEF Position
  <2>3. at'[c].pc = "write" /\ at'[c].todo = at[c].todo \ {i} /\ at'[c].param = p
    BY <1>1, <1>5, <2>1 DEF Position
  <2>4. at'[c].ok = done
    BY <1>5, <2>1 DEF Position
  <2> QED
    BY <1>0, <2>2, <2>3, <2>4
<1>7. live.ovms_config[p][i] = None
  BY <1>1, <1>3 DEF WriteOf, WriteDone
<1>8. /\ live'.ovms_config = [live.ovms_config EXCEPT ![p] = [@ EXCEPT ![i] = v]]
      /\ live'.scripts = live.scripts /\ live' \in Directories
  <2>1. [live.ovms_config[p] EXCEPT ![i] = v] \in Map
    BY <1>4 DEF Store, Map
  <2>2. [live.ovms_config EXCEPT ![p] = [@ EXCEPT ![i] = v]] \in Store
    BY <1>4, <2>1 DEF Store
  <2>3. live'.ovms_config = [live.ovms_config EXCEPT ![p] = [@ EXCEPT ![i] = v]]
    BY <1>0, <1>4, <1>7 DEF Directories, Store, Map
  <2> QED
    BY <1>0, <1>4, <2>2, <2>3 DEF Directories
<1>9. /\ live'.ovms_config # None /\ live'.ovms_config[p][i] = v
      /\ \A k \in Instance : k # i =>
           live'.ovms_config[p][k] = live.ovms_config[p][k]
      /\ \A q \in Param : q # p => live'.ovms_config[q] = live.ovms_config[q]
  <2>1. live'.ovms_config \in Store
    BY <1>4, <1>8 DEF Store, Map
  <2> QED
    BY <1>4, <1>8, <2>1, ConfigAssumption DEF Store, Map
<1>10. \A q : Changing(q)' = Changing(q)
  BY <1>5, <1>6, SameChanging
<1>11. ~Installing /\ ~Installing'
  BY <1>1, <1>2, <1>5, <1>6 DEF Installing
<1>12. TypeInv'
  <2>1. at' \in [Callers -> Position]
    BY <1>0, <1>4, <1>5, <1>6
  <2> QED
    BY <1>1, <1>8, <2>1 DEF TypeInv
<1>13. LockInv'
  <2>1. \A d \in Callers : at'[d].pc = at[d].pc /\ at'[d].param = at[d].param
    BY <1>1, <1>5, <1>6
  <2> QED
    BY <1>1, <2>1 DEF LockInv, Installs
<1>14. WriteInv'
  <2>1. Waits(p)' = Waits(p)
    <3>1. \A d \in Callers : at'[d].pc = at[d].pc /\ at'[d].param = at[d].param
      BY <1>1, <1>5, <1>6
    <3> QED
      BY <3>1 DEF Waits, In
  <2>2. ASSUME NEW k \in Instance PROVE WriteDone(c, k)'
    <3>1. WriteDone(c, k)
      BY <1>3 DEF WriteOf
    <3>2. CASE k = i
      BY <1>1, <1>6, <1>9, <3>2 DEF WriteDone
    <3>3. CASE k # i
      BY <1>1, <1>6, <1>9, <2>1, <3>1, <3>3 DEF WriteDone
    <3> QED
      BY <3>2, <3>3
  <2>3. WriteOf(c)'
    BY <1>9, <2>2 DEF WriteOf
  <2> QED
    BY <1>2, <1>5, <2>3 DEF WriteInv
<1>15. StoreInv'
  <2>1. Changing(p)
    BY DEF Changing
  <2> QED
    BY <1>1, <1>9, <1>10, <1>11, <2>1 DEF StoreInv, Saved
<1>16. ListenersKnow'
  BY <1>1, <1>10 DEF ListenersKnow
<1>17. InstallInv' /\ RestoreInv'
  BY <1>1, <1>2, <1>5, <1>6 DEF InstallInv, InstallOf, RestoreInv
<1> QED
  BY <1>12, <1>13, <1>14, <1>15, <1>16, <1>17

LEMMA CloseIInv ==
  ASSUME IInv, NEW c \in Callers, Close(c)
  PROVE  IInv'
<1> USE DEF IInv
<1>0. PICK p : p = at[c].param
  OBVIOUS
<1>1. /\ at[c].pc = "write" /\ at[c].todo = {}
      /\ unsaved' = (IF at[c].ok THEN unsaved \ {p} ELSE unsaved \cup {p})
      /\ changed' = changed \cup {p}
      /\ m_store_lock' = None /\ at' = [at EXCEPT ![c] = Idle]
      /\ UNCHANGED <<m_map, known, live, old, temp, zip, shutdown, before,
                     replaced>>
  BY <1>0 DEF Close, In, disk
<1>2. ~shutdown /\ \A d \in Callers : d # c => at[d].pc \in {"idle", "rewrite"}
  BY <1>1, Alone
<1>3. /\ at \in [Callers -> Position] /\ p \in Param /\ m_map \in Store
      /\ live \in Directories /\ live.ovms_config \in Store
  BY <1>0, <1>1 DEF TypeInv, LockInv, Position, Directories, WriteInv, WriteOf
<1>4. /\ at'[c].pc = "idle" /\ at'[c].param = None
      /\ \A d \in Callers : d # c => at'[d] = at[d]
  BY <1>1, <1>3 DEF Idle
<1>5. \A q \in Param : q # p => Changing(q)' = Changing(q)
  BY <1>0, <1>3, <1>4, ConfigAssumption DEF Changing
<1>6. ~Installing /\ ~Installing'
  BY <1>1, <1>2, <1>4 DEF Installing
<1>7. TypeInv'
  <2>1. Idle \in Position
    BY DEF Idle, Position, Pcs
  <2> QED
    BY <1>1, <1>3, <2>1 DEF TypeInv
<1>8. LockInv'
  BY <1>1, <1>2, <1>4 DEF LockInv, Installs
<1>9. WriteInv' /\ InstallInv' /\ RestoreInv'
  BY <1>1, <1>2, <1>4 DEF WriteInv, InstallInv, InstallOf, RestoreInv
<1>10. Changing(p)' \/ ~at[c].ok \/ live.ovms_config[p] = m_map[p]
  <2>1. CASE Waits(p)
    <3>1. PICK d \in Callers : at[d].pc = "rewrite" /\ at[d].param = p
      BY <2>1 DEF Waits, In
    <3> QED
      BY <1>1, <1>4, <3>1 DEF Changing
  <2>2. CASE ~Waits(p) /\ at[c].ok
    <3>1. \A i \in Instance : live.ovms_config[p][i] = m_map[p][i]
      BY <1>0, <1>1, <2>2 DEF WriteInv, WriteOf, WriteDone
    <3>2. live.ovms_config[p] \in Map /\ m_map[p] \in Map
      BY <1>3 DEF Store
    <3> QED
      BY <3>1, <3>2 DEF Map
  <2> QED
    BY <2>1, <2>2
<1>11. StoreInv'
  <2> SUFFICES ASSUME ~replaced PROVE Saved(live.ovms_config)'
    BY <1>1, <1>6 DEF StoreInv
  <2>1. Saved(live.ovms_config)
    BY <1>2, <1>6 DEF StoreInv
  <2>2. ASSUME NEW q \in Param
        PROVE  Changing(q)' \/ q \in unsaved' \/ live.ovms_config[q] = m_map[q]
    BY <1>1, <1>5, <1>10, <2>1 DEF Saved
  <2> QED
    BY <1>1, <2>1, <2>2 DEF Saved
<1>12. ListenersKnow'
  BY <1>1, <1>5 DEF ListenersKnow
<1> QED
  BY <1>7, <1>8, <1>9, <1>11, <1>12

-----------------------------------------------------------------------------
(***************************************************************************)
(* Installing an archive                                                   *)
(***************************************************************************)
\* The directories in their order, and what follows one.
LEMMA Directory ==
  ASSUME TypeInv, InstallInv, NEW c \in Callers,
         at[c].pc \in {"install", "moved", "cleanup"}
  PROVE  \/ at[c].dir = 1 /\ Dir(c) = "ovms_config"
         \/ at[c].dir = 2 /\ Dir(c) = "scripts"
BY DEF InstallInv, InstallOf, Dir, Dirs

LEMMA MovedOn ==
  ASSUME NEW r \in Position, NEW q \in Pcs, NEW n \in 0..2, NEW b \in BOOLEAN
  PROVE  [r EXCEPT !.pc = q, !.dir = n, !.ok = @ /\ b] \in Position
BY Zenon DEF Position

LEMMA MovedFields ==
  ASSUME NEW r \in Position, NEW q, NEW n, NEW b \in BOOLEAN
  PROVE  /\ [r EXCEPT !.pc = q, !.dir = n, !.ok = @ /\ b].pc = q
         /\ [r EXCEPT !.pc = q, !.dir = n, !.ok = @ /\ b].dir = n
         /\ [r EXCEPT !.pc = q, !.dir = n, !.ok = @ /\ b].param = r.param
         /\ [r EXCEPT !.pc = q, !.dir = n, !.ok = @ /\ b].ok = (r.ok /\ b)
<1>1. [r EXCEPT !.pc = q, !.dir = n, !.ok = @ /\ b].pc = q
  BY DEF Position
<1>2. [r EXCEPT !.pc = q, !.dir = n, !.ok = @ /\ b].dir = n
  BY DEF Position
<1>3. [r EXCEPT !.pc = q, !.dir = n, !.ok = @ /\ b].param = r.param
  BY DEF Position
<1>4. [r EXCEPT !.pc = q, !.dir = n, !.ok = @ /\ b].ok = (r.ok /\ b)
  BY DEF Position
<1> QED
  BY Zenon, <1>1, <1>2, <1>3, <1>4

LEMMA Following ==
  ASSUME TypeInv, LockInv, InstallInv, NEW c \in Callers, NEW done \in BOOLEAN,
         at[c].pc \in {"install", "moved", "cleanup"},
         at' = [at EXCEPT ![c] = Installed(c, done)]
  PROVE  /\ at' \in [Callers -> Position]
         /\ \A d \in Callers : d # c => at'[d] = at[d]
         /\ at'[c].param = None /\ at'[c].ok = done
         /\ IF at[c].dir = 1 /\ done THEN at'[c].pc = "install" /\ at'[c].dir = 2
                                     ELSE at'[c].pc = "finish"
<1>1. at \in [Callers -> Position] /\ at[c].param = None /\ at[c].ok
  BY DEF TypeInv, LockInv, InstallInv, InstallOf
<1>2. Len(Dirs) = 2
  BY DEF Dirs
<1>3. at'[c] = Installed(c, done) /\ \A d \in Callers : d # c => at'[d] = at[d]
  BY <1>1
<1>4. \A q \in {"install", "finish"}, n \in {1, 2} :
        [at[c] EXCEPT !.pc = q, !.dir = n, !.ok = @ /\ done] \in Position
  <2> SUFFICES ASSUME NEW q \in {"install", "finish"}, NEW n \in {1, 2}
               PROVE  [at[c] EXCEPT !.pc = q, !.dir = n, !.ok = @ /\ done] \in Position
    OBVIOUS
  <2>1. at[c] \in Position /\ q \in Pcs /\ n \in 0..2
    BY <1>1 DEF Pcs, Installs
  <2> QED
    BY Zenon, <2>1, MovedOn
<1>5. \A q \in {"install", "finish"}, n \in {1, 2} :
        at'[c] = [at[c] EXCEPT !.pc = q, !.dir = n, !.ok = @ /\ done] =>
          /\ at'[c].param = None /\ at'[c].ok = done
          /\ at'[c].pc = q /\ at'[c].dir = n
  <2> SUFFICES ASSUME NEW q \in {"install", "finish"}, NEW n \in {1, 2},
                      at'[c] = [at[c] EXCEPT !.pc = q, !.dir = n, !.ok = @ /\ done]
               PROVE  /\ at'[c].param = None /\ at'[c].ok = done
                      /\ at'[c].pc = q /\ at'[c].dir = n
    OBVIOUS
  <2>1. at[c] \in Position
    BY <1>1
  <2>2. /\ [at[c] EXCEPT !.pc = q, !.dir = n, !.ok = @ /\ done].pc = q
        /\ [at[c] EXCEPT !.pc = q, !.dir = n, !.ok = @ /\ done].dir = n
        /\ [at[c] EXCEPT !.pc = q, !.dir = n, !.ok = @ /\ done].param = at[c].param
        /\ [at[c] EXCEPT !.pc = q, !.dir = n, !.ok = @ /\ done].ok = (at[c].ok /\ done)
    BY <2>1, MovedFields
  <2>3. /\ at'[c].pc = q /\ at'[c].dir = n
        /\ at'[c].param = at[c].param /\ at'[c].ok = (at[c].ok /\ done)
    BY Zenon, <2>2
  <2> QED
    BY <1>1, <2>3
<1>6. CASE at[c].dir = 1 /\ Dir(c) = "ovms_config"
  <2>1. CASE done
    <3>1. at'[c] = [at[c] EXCEPT !.pc = "install", !.dir = 2, !.ok = @ /\ done]
      BY <1>2, <1>3, <1>6, <2>1 DEF Installed
    <3>2. at'[c] \in Position
      BY Zenon, <1>4, <3>1
    <3>3. /\ at'[c].param = None /\ at'[c].ok = done
          /\ at'[c].pc = "install" /\ at'[c].dir = 2
      BY <1>5, <3>1
    <3> QED
      BY <1>1, <1>3, <1>6, <2>1, <3>2, <3>3
  <2>2. CASE ~done
    <3>1. at'[c] = [at[c] EXCEPT !.pc = "finish", !.dir = 1, !.ok = @ /\ done]
      BY <1>1, <1>2, <1>3, <1>6, <2>2 DEF Installed, Optional, Position
    <3>2. at'[c] \in Position
      BY Zenon, <1>4, <3>1
    <3>3. at'[c].param = None /\ at'[c].ok = done /\ at'[c].pc = "finish"
      BY <1>5, <3>1
    <3> QED
      BY <1>1, <1>3, <1>6, <2>2, <3>2, <3>3
  <2> QED
    BY <2>1, <2>2
<1>7. CASE at[c].dir = 2
  <2>1. at'[c] = [at[c] EXCEPT !.pc = "finish", !.dir = 2, !.ok = @ /\ done]
    BY <1>1, <1>2, <1>3, <1>7 DEF Installed, Position
  <2>2. at'[c] \in Position
    BY Zenon, <1>4, <2>1
  <2>3. at'[c].param = None /\ at'[c].ok = done /\ at'[c].pc = "finish"
    BY <1>5, <2>1
  <2> QED
    BY <1>1, <1>3, <1>7, <2>2, <2>3
<1> QED
  BY <1>6, <1>7, Directory

\* A step of an installation disturbs its own part of the invariant only.
LEMMA InstallStep ==
  ASSUME IInv, NEW c \in Callers, at[c].pc \in Installs,
         at' \in [Callers -> Position],
         \A d \in Callers : d # c => at'[d] = at[d],
         at'[c].pc \in Installs, at'[c].param = None,
         live' \in Directories, old' \in Directories, temp' \in Directories,
         UNCHANGED <<m_map, known, changed, zip, m_store_lock, shutdown, before,
                     unsaved, replaced>>,
         InstallOf(c)'
  PROVE  IInv'
<1> USE DEF IInv
<1>1. /\ ~shutdown /\ m_store_lock = c
      /\ \A d \in Callers : d # c => at[d].pc \in {"idle", "rewrite"}
  BY Alone
<1>2. at[c].param = None
  BY DEF LockInv, Installs
<1>3. \A q : Changing(q)' = Changing(q)
  BY <1>2, SameChanging
<1>4. Installing /\ Installing'
  BY DEF Installing, Installs
<1>5. TypeInv'
  BY DEF TypeInv
<1>6. LockInv'
  BY <1>1 DEF LockInv, Installs
<1>7. WriteInv' /\ InstallInv' /\ RestoreInv'
  BY <1>1 DEF WriteInv, InstallInv, InstallOf, RestoreInv, Installs
<1>8. StoreInv'
  BY <1>3, <1>4 DEF StoreInv, Saved
<1>9. ListenersKnow'
  BY <1>3 DEF ListenersKnow
<1> QED
  BY <1>5, <1>6, <1>7, <1>8, <1>9

LEMMA RestoreIInv ==
  ASSUME IInv, NEW c \in Callers, Restore(c)
  PROVE  IInv'
<1> USE DEF IInv
<1>1. /\ at[c].pc = "idle" /\ m_store_lock = None /\ m_store_lock' = c
      /\ temp' = zip /\ before' = live.ovms_config
      /\ at' = [at EXCEPT ![c] = [Idle EXCEPT !.pc = "install", !.dir = 1]]
      /\ UNCHANGED <<m_map, known, changed, live, old, zip, shutdown, unsaved,
                     replaced>>
  BY DEF Restore, In, Lock
<1>2. ~shutdown /\ \A d \in Callers : at[d].pc \in {"idle", "rewrite"}
  BY <1>1, Free
<1>3. at \in [Callers -> Position] /\ at[c].param = None
  BY <1>1 DEF TypeInv, LockInv
<1>4. /\ at'[c].pc = "install" /\ at'[c].param = None /\ at'[c].dir = 1
      /\ at'[c].ok
      /\ \A d \in Callers : d # c => at'[d] = at[d]
  BY <1>1, <1>3 DEF Idle
<1>5. at'[c] \in Position
  <2>1. at'[c] = [pc |-> "install", param |-> None, todo |-> {}, dir |-> 1,
                  ok |-> TRUE]
    BY <1>1, <1>3 DEF Idle
  <2> QED
    BY <2>1 DEF Position, Pcs, Installs
<1>6. \A q : Changing(q)' = Changing(q)
  BY <1>3, <1>4, SameChanging
<1>7. ~Installing /\ Installing'
  BY <1>2, <1>4 DEF Installing
<1>8. TypeInv'
  <2>1. at' \in [Callers -> Position]
    BY <1>1, <1>3, <1>4, <1>5
  <2> QED
    BY <1>1, <2>1 DEF TypeInv, Directories
<1>9. LockInv'
  BY <1>1, <1>2, <1>4 DEF LockInv, Installs
<1>10. WriteInv' /\ RestoreInv'
  BY <1>1, <1>2, <1>4 DEF WriteInv, RestoreInv
<1>11. InstallInv'
  <2>1. InstallOf(c)'
    BY <1>1, <1>4 DEF InstallOf
  <2> QED
    BY <1>2, <1>4, <2>1 DEF InstallInv, InstallOf
<1>12. StoreInv'
  BY <1>1, <1>2, <1>6, <1>7 DEF StoreInv, Saved
<1>13. ListenersKnow'
  BY <1>1, <1>6 DEF ListenersKnow
<1> QED
  BY <1>8, <1>9, <1>10, <1>11, <1>12, <1>13

\* The lock is free, so the archive may be replaced, or unpacked for nothing.
LEMMA BackupIInv ==
  ASSUME IInv, m_store_lock = None,
         UNCHANGED <<m_map, known, changed, live, old, m_store_lock, at,
                     shutdown, history>>,
         temp' \in Directories, zip' \in Directories, zip'.ovms_config # None
  PROVE  IInv'
<1> USE DEF IInv
<1>1. ~shutdown /\ \A d \in Callers : at[d].pc \in {"idle", "rewrite"}
  BY Free
<1>2. UNCHANGED <<before, unsaved, replaced>>
  BY DEF history
<1>3. \A q : Changing(q)' = Changing(q) /\ Waits(q)' = Waits(q)
  BY DEF Changing, Waits, In
<1>4. ~Installing /\ ~Installing'
  BY <1>1 DEF Installing
<1>5. TypeInv' /\ LockInv'
  BY <1>2 DEF TypeInv, LockInv
<1>6. WriteInv' /\ InstallInv' /\ RestoreInv'
  BY <1>1 DEF WriteInv, InstallInv, InstallOf, RestoreInv
<1>7. StoreInv' /\ ListenersKnow'
  BY <1>2, <1>3, <1>4 DEF StoreInv, Saved, ListenersKnow
<1> QED
  BY <1>5, <1>6, <1>7

\* install_dir without a source: only the optional directory can be missing.
LEMMA RemoveIInv ==
  ASSUME IInv, NEW c \in Callers, Remove(c)
  PROVE  IInv'
<1> USE DEF IInv
<1>1. /\ at[c].pc = "install" /\ temp[Dir(c)] = None
      /\ live' = [live EXCEPT ![Dir(c)] = None]
      /\ at' = [at EXCEPT ![c] = Installed(c, TRUE)]
      /\ UNCHANGED <<m_map, known, changed, old, temp, zip, m_store_lock,
                     shutdown, before, unsaved, replaced>>
  BY DEF Remove, In, history
<1>2. InstallOf(c) /\ zip.ovms_config # None
  BY DEF InstallInv, TypeInv
<1>3. at[c].dir = 2 /\ Dir(c) = "scripts"
  BY <1>1, <1>2, Directory DEF InstallOf
<1>4. /\ at' \in [Callers -> Position]
      /\ \A d \in Callers : d # c => at'[d] = at[d]
      /\ at'[c].param = None /\ at'[c].ok = TRUE /\ at'[c].pc = "finish"
  <2>1. at[c].pc \in {"install", "moved", "cleanup"} /\ ~(at[c].dir = 1)
    BY <1>1, <1>3
  <2> QED
    BY <1>1, <2>1, Following
<1>5. /\ live \in Directories /\ live' \in Directories
      /\ live'.ovms_config = live.ovms_config /\ live'.scripts = None
  BY <1>1, <1>3 DEF TypeInv, Directories
<1>6. InstallOf(c)'
  BY <1>1, <1>2, <1>3, <1>4, <1>5 DEF InstallOf
<1>7. at[c].pc \in Installs /\ at'[c].pc \in Installs
  BY <1>1, <1>4 DEF Installs
<1>8. old' \in Directories /\ temp' \in Directories
  BY <1>1 DEF TypeInv
<1> QED
  BY <1>1, <1>4, <1>5, <1>6, <1>7, <1>8, InstallStep

LEMMA MoveAwayIInv ==
  ASSUME IInv, NEW c \in Callers, MoveAway(c)
  PROVE  IInv'
<1> USE DEF IInv
<1>1. /\ at[c].pc = "install"
      /\ old' = [old EXCEPT ![Dir(c)] = IF live[Dir(c)] = None THEN Made(Dir(c))
                                        ELSE live[Dir(c)]]
      /\ live' = [live EXCEPT ![Dir(c)] = None]
      /\ at' = [at EXCEPT ![c].pc = "moved"]
      /\ UNCHANGED <<m_map, known, changed, temp, zip, m_store_lock, shutdown,
                     before, unsaved, replaced>>
  BY DEF MoveAway, In, history
<1>2. InstallOf(c) /\ live \in Directories /\ old \in Directories
  BY DEF InstallInv, TypeInv
<1>3. /\ at'[c] = [at[c] EXCEPT !.pc = "moved"]
      /\ at[c] \in Position /\ at[c].param = None
      /\ \A d \in Callers : d # c => at'[d] = at[d]
  BY <1>1 DEF TypeInv, LockInv
<1>4. /\ at' \in [Callers -> Position] /\ at'[c].pc = "moved"
      /\ at'[c].param = None /\ at'[c].dir = at[c].dir /\ at'[c].ok = at[c].ok
  <2>1. [at[c] EXCEPT !.pc = "moved"] \in Position
    BY <1>3 DEF Position, Pcs, Installs
  <2>2. at' \in [Callers -> Position]
    BY <1>1, <1>3, <2>1 DEF TypeInv
  <2> QED
    BY <1>3, <2>2 DEF Position
<1>5. CASE at[c].dir = 1 /\ Dir(c) = "ovms_config"
  <2>1. Made("ovms_config") \in Store
    BY DEF Made, Store, Map, Empty
  <2>2. /\ live'.ovms_config = None /\ live'.scripts = live.scripts
        /\ live.ovms_config = None \/ old'.ovms_config = live.ovms_config
        /\ live' \in Directories /\ old' \in Directories
    BY <1>1, <1>2, <1>5, <2>1 DEF Directories
  <2>3. InstallOf(c)'
    BY <1>1, <1>2, <1>4, <1>5, <2>2 DEF InstallOf
  <2> QED
    BY <1>1, <1>3, <1>4, <2>2, <2>3, InstallStep DEF Installs, TypeInv
<1>6. CASE at[c].dir = 2 /\ Dir(c) = "scripts"
  <2>1. Made("scripts") \in SUBSET Script
    BY DEF Made
  <2>2. /\ live'.ovms_config = live.ovms_config
        /\ live' \in Directories /\ old' \in Directories
    BY <1>1, <1>2, <1>6, <2>1 DEF Directories
  <2>3. InstallOf(c)'
    BY <1>1, <1>2, <1>4, <1>6, <2>2 DEF InstallOf
  <2> QED
    BY <1>1, <1>3, <1>4, <2>2, <2>3, InstallStep DEF Installs, TypeInv
<1> QED
  BY <1>1, <1>5, <1>6, Directory

LEMMA MoveAwayFailsIInv ==
  ASSUME IInv, NEW c \in Callers, MoveAwayFails(c)
  PROVE  IInv'
<1> USE DEF IInv
<1>1. /\ at[c].pc = "install"
      /\ old' = [old EXCEPT ![Dir(c)] = None]
      /\ live' \in {live, [live EXCEPT ![Dir(c)] = IF @ = None THEN Made(Dir(c))
                                                   ELSE @]}
      /\ at' = [at EXCEPT ![c] = Installed(c, FALSE)]
      /\ UNCHANGED <<m_map, known, changed, temp, zip, m_store_lock, shutdown,
                     before, unsaved, replaced>>
  BY DEF MoveAwayFails, In, history
<1>2. InstallOf(c) /\ live \in Directories /\ old \in Directories
  BY DEF InstallInv, TypeInv
<1>3. /\ at' \in [Callers -> Position]
      /\ \A d \in Callers : d # c => at'[d] = at[d]
      /\ at'[c].param = None /\ ~at'[c].ok /\ at'[c].pc = "finish"
  BY <1>1, Following
<1>4. CASE at[c].dir = 1 /\ Dir(c) = "ovms_config"
  <2>1. Made("ovms_config") \in Store
    BY DEF Made, Store, Map, Empty
  <2>2. /\ live.ovms_config = before
        /\ live.ovms_config # None => live'.ovms_config = live.ovms_config
        /\ old'.ovms_config = None
        /\ live' \in Directories /\ old' \in Directories
    BY <1>1, <1>2, <1>4, <2>1 DEF Directories, InstallOf
  <2>3. InstallOf(c)'
    BY <1>1, <1>3, <2>2 DEF InstallOf
  <2> QED
    BY <1>1, <1>3, <2>2, <2>3, InstallStep DEF Installs, TypeInv
<1>5. CASE at[c].dir = 2 /\ Dir(c) = "scripts"
  <2>1. Made("scripts") \in SUBSET Script
    BY DEF Made
  <2>2. /\ live.ovms_config = zip.ovms_config
        /\ live'.ovms_config = live.ovms_config
        /\ live' \in Directories /\ old' \in Directories
    BY <1>1, <1>2, <1>5, <2>1 DEF Directories, InstallOf
  <2>3. InstallOf(c)'
    BY <1>1, <1>3, <2>2 DEF InstallOf
  <2> QED
    BY <1>1, <1>3, <2>2, <2>3, InstallStep DEF Installs, TypeInv
<1> QED
  BY <1>1, <1>4, <1>5, Directory

LEMMA MoveInIInv ==
  ASSUME IInv, NEW c \in Callers, MoveIn(c)
  PROVE  IInv'
<1> USE DEF IInv
<1>1. /\ at[c].pc = "moved"
      /\ live' = [live EXCEPT ![Dir(c)] = temp[Dir(c)]]
      /\ temp' = [temp EXCEPT ![Dir(c)] = None]
      /\ at' = [at EXCEPT ![c].pc = "cleanup"]
      /\ UNCHANGED <<m_map, known, changed, old, zip, m_store_lock, shutdown,
                     before, unsaved, replaced>>
  BY DEF MoveIn, In, history
<1>2. InstallOf(c) /\ live \in Directories /\ temp \in Directories
  BY DEF InstallInv, TypeInv
<1>3. /\ at'[c] = [at[c] EXCEPT !.pc = "cleanup"]
      /\ at[c] \in Position /\ at[c].param = None
      /\ \A d \in Callers : d # c => at'[d] = at[d]
  BY <1>1 DEF TypeInv, LockInv
<1>4. /\ at' \in [Callers -> Position] /\ at'[c].pc = "cleanup"
      /\ at'[c].param = None /\ at'[c].dir = at[c].dir /\ at'[c].ok = at[c].ok
  <2>1. [at[c] EXCEPT !.pc = "cleanup"] \in Position
    BY <1>3 DEF Position, Pcs, Installs
  <2>2. at' \in [Callers -> Position]
    BY <1>1, <1>3, <2>1 DEF TypeInv
  <2> QED
    BY <1>3, <2>2 DEF Position
<1>5. CASE at[c].dir = 1 /\ Dir(c) = "ovms_config"
  <2>1. /\ live'.ovms_config = temp.ovms_config /\ temp'.scripts = temp.scripts
        /\ live' \in Directories /\ temp' \in Directories
    BY <1>1, <1>2, <1>5 DEF Directories
  <2>2. InstallOf(c)'
    BY <1>1, <1>2, <1>4, <1>5, <2>1 DEF InstallOf
  <2> QED
    BY <1>1, <1>3, <1>4, <2>1, <2>2, InstallStep DEF Installs, TypeInv
<1>6. CASE at[c].dir = 2 /\ Dir(c) = "scripts"
  <2>1. /\ live'.ovms_config = live.ovms_config /\ live'.scripts = temp.scripts
        /\ live' \in Directories /\ temp' \in Directories
    BY <1>1, <1>2, <1>6 DEF Directories
  <2>2. InstallOf(c)'
    BY <1>1, <1>2, <1>4, <1>6, <2>1 DEF InstallOf
  <2> QED
    BY <1>1, <1>3, <1>4, <2>1, <2>2, InstallStep DEF Installs, TypeInv
<1> QED
  BY <1>1, <1>5, <1>6, Directory

LEMMA MoveBackIInv ==
  ASSUME IInv, NEW c \in Callers, MoveBack(c)
  PROVE  IInv'
<1> USE DEF IInv
<1>1. /\ at[c].pc = "moved"
      /\ \/ /\ live' = [live EXCEPT ![Dir(c)] = old[Dir(c)]]
            /\ old' = [old EXCEPT ![Dir(c)] = None]
         \/ UNCHANGED <<live, old>>
      /\ at' = [at EXCEPT ![c] = Installed(c, FALSE)]
      /\ UNCHANGED <<m_map, known, changed, temp, zip, m_store_lock, shutdown,
                     before, unsaved, replaced>>
  BY DEF MoveBack, In, history
<1>2. InstallOf(c) /\ live \in Directories /\ old \in Directories
  BY DEF InstallInv, TypeInv
<1>3. /\ at' \in [Callers -> Position]
      /\ \A d \in Callers : d # c => at'[d] = at[d]
      /\ at'[c].param = None /\ ~at'[c].ok /\ at'[c].pc = "finish"
  BY <1>1, Following
<1>4. CASE at[c].dir = 1 /\ Dir(c) = "ovms_config"
  <2>1. /\ before \in {live'.ovms_config, old'.ovms_config}
        /\ live' \in Directories /\ old' \in Directories
    BY <1>1, <1>2, <1>4 DEF Directories, InstallOf
  <2>2. InstallOf(c)'
    BY <1>1, <1>3, <2>1 DEF InstallOf
  <2> QED
    BY <1>1, <1>3, <2>1, <2>2, InstallStep DEF Installs, TypeInv
<1>5. CASE at[c].dir = 2 /\ Dir(c) = "scripts"
  <2>1. /\ live'.ovms_config = zip.ovms_config
        /\ live' \in Directories /\ old' \in Directories
    BY <1>1, <1>2, <1>5 DEF Directories, InstallOf
  <2>2. InstallOf(c)'
    BY <1>1, <1>3, <2>1 DEF InstallOf
  <2> QED
    BY <1>1, <1>3, <2>1, <2>2, InstallStep DEF Installs, TypeInv
<1> QED
  BY <1>1, <1>4, <1>5, Directory

LEMMA CleanupIInv ==
  ASSUME IInv, NEW c \in Callers, Cleanup(c)
  PROVE  IInv'
<1> USE DEF IInv
<1>1. /\ at[c].pc = "cleanup" /\ old' = [old EXCEPT ![Dir(c)] = None]
      /\ at' = [at EXCEPT ![c] = Installed(c, TRUE)]
      /\ UNCHANGED <<m_map, known, changed, live, temp, zip, m_store_lock,
                     shutdown, before, unsaved, replaced>>
  BY DEF Cleanup, In, history
<1>2. InstallOf(c) /\ old' \in Directories
  BY <1>1 DEF InstallInv, TypeInv, Directories
<1>3. /\ at' \in [Callers -> Position]
      /\ \A d \in Callers : d # c => at'[d] = at[d]
      /\ at'[c].param = None /\ at'[c].ok = TRUE
      /\ IF at[c].dir = 1 THEN at'[c].pc = "install" /\ at'[c].dir = 2
                          ELSE at'[c].pc = "finish"
  BY <1>1, Following
<1>4. InstallOf(c)'
  <2>1. CASE at[c].dir = 1
    <3>1. temp.scripts = zip.scripts /\ live.ovms_config = zip.ovms_config
      BY <1>1, <1>2, <2>1 DEF InstallOf
    <3>2. at'[c].pc = "install" /\ at'[c].dir = 2 /\ at'[c].ok
      BY <1>3, <2>1
    <3>3. /\ temp'.scripts = zip'.scripts
          /\ live'.ovms_config = zip'.ovms_config
      BY <1>1, <3>1
    <3> QED
      BY <3>2, <3>3 DEF InstallOf
  <2>2. CASE at[c].dir = 2
    <3>1. live.scripts = zip.scripts /\ live.ovms_config = zip.ovms_config
      BY <1>1, <1>2, <2>2 DEF InstallOf
    <3>2. at'[c].pc = "finish"
      BY <1>3, <2>2
    <3>3. live'.scripts = zip'.scripts /\ live'.ovms_config = zip'.ovms_config
      BY <1>1, <3>1
    <3> QED
      BY <3>2, <3>3 DEF InstallOf
  <2> QED
    BY <1>1, <1>2, <2>1, <2>2 DEF InstallOf
<1> QED
  BY <1>1, <1>2, <1>3, <1>4, InstallStep DEF Installs, TypeInv

-----------------------------------------------------------------------------
\* The end of a restore: the mutex is kept if all is installed.
LEMMA FinishIInv ==
  ASSUME IInv, NEW c \in Callers, Finish(c)
  PROVE  IInv'
<1> USE DEF IInv
<1>1. /\ at[c].pc = "finish" /\ temp' = NoDirs /\ shutdown' = at[c].ok
      /\ m_store_lock' = IF at[c].ok THEN c ELSE None
      /\ replaced' = (replaced \/ (~at[c].ok /\ live.ovms_config # before))
      /\ at' = [at EXCEPT ![c] = Idle]
      /\ UNCHANGED <<m_map, known, changed, live, old, zip, before, unsaved>>
  BY DEF Finish, In
<1>2. /\ ~shutdown
      /\ \A d \in Callers : d # c => at[d].pc \in {"idle", "rewrite"}
  BY <1>1, Alone DEF Installs
<1>3. /\ at \in [Callers -> Position] /\ at[c].param = None
      /\ at[c].ok \in BOOLEAN
  BY <1>1 DEF TypeInv, LockInv, Position
<1>4. /\ at'[c].pc = "idle" /\ at'[c].param = None
      /\ \A d \in Callers : d # c => at'[d] = at[d]
  BY <1>1, <1>3 DEF Idle
<1>5. \A q : Changing(q)' = Changing(q)
  BY <1>3, <1>4, SameChanging
<1>6. Installing /\ ~Installing'
  BY <1>1, <1>2, <1>4 DEF Installing
<1>7. TypeInv'
  <2>1. Idle \in Position
    BY DEF Idle, Position, Pcs
  <2>2. NoDirs \in Directories
    BY DEF NoDirs, Directories
  <2>3. at' \in [Callers -> Position]
    BY <1>1, <1>3, <2>1
  <2>4. shutdown' \in BOOLEAN /\ m_store_lock' \in Callers \cup {None}
    BY <1>1, <1>3
  <2>5. replaced' \in BOOLEAN
    BY <1>1
  <2> QED
    BY <1>1, <2>2, <2>3, <2>4, <2>5 DEF TypeInv
<1>8. LockInv'
  <2>1. \A d \in Callers : at'[d].pc \in {"idle", "rewrite"}
    BY <1>2, <1>4
  <2>2. shutdown' => m_store_lock' # None
    BY <1>1, ConfigAssumption
  <2>3. \A d \in Callers :
          /\ at'[d].pc = "rewrite" => at'[d].param # None
          /\ at'[d].pc = "idle" => at'[d].param = None
    BY <1>4 DEF LockInv
  <2> QED
    BY <2>1, <2>2, <2>3 DEF LockInv, Installs
<1>9. WriteInv' /\ InstallInv'
  BY <1>2, <1>4 DEF WriteInv, InstallInv, InstallOf
<1>10. RestoreInv'
  <2>1. InstallOf(c)
    BY DEF InstallInv
  <2> QED
    BY <1>1, <2>1 DEF RestoreInv, InstallOf
<1>11. StoreInv'
  <2> SUFFICES ASSUME ~replaced', ~shutdown' PROVE Saved(live.ovms_config)'
    BY <1>6 DEF StoreInv
  <2>1. ~replaced /\ live.ovms_config = before
    BY <1>1
  <2>2. Saved(before)
    BY <1>2, <1>6, <2>1 DEF StoreInv
  <2> QED
    BY <1>1, <1>5, <2>1, <2>2 DEF Saved
<1>12. ListenersKnow'
  BY <1>1, <1>5 DEF ListenersKnow
<1> QED
  BY <1>7, <1>8, <1>9, <1>10, <1>11, <1>12

\* A boot, after a restore or a crash, whatever has been going on.
LEMMA MountIInv ==
  ASSUME IInv, Mount
  PROVE  IInv'
<1> USE DEF IInv
<1>1. PICK conf : /\ conf = (IF live.ovms_config = None THEN Made("ovms_config")
                             ELSE live.ovms_config)
                  /\ live' = [live EXCEPT !["ovms_config"] = conf]
                  /\ m_map' = conf /\ known' = conf
  BY DEF Mount
<1>2. /\ changed' = {} /\ at' = [c \in Callers |-> Idle]
      /\ m_store_lock' = None /\ shutdown' = FALSE
      /\ unsaved' = {} /\ replaced' = FALSE
      /\ UNCHANGED <<old, temp, zip, before>>
  BY DEF Mount
<1>3. conf \in Store /\ conf # None
  <2>1. Made("ovms_config") \in Store
    BY DEF Made, Store, Map, Empty
  <2> QED
    BY <1>1, <2>1, ConfigAssumption DEF TypeInv, Directories
<1>4. live' \in Directories /\ live'.ovms_config = conf
  BY <1>1, <1>3 DEF TypeInv, Directories
<1>5. \A c \in Callers : at'[c].pc = "idle" /\ at'[c].param = None
  BY <1>2 DEF Idle
<1>6. ~Installing'
  BY <1>5 DEF Installing
<1>7. TypeInv'
  <2>1. Idle \in Position
    BY DEF Idle, Position, Pcs
  <2>2. at' \in [Callers -> Position]
    BY <1>2, <2>1
  <2> QED
    BY <1>1, <1>2, <1>3, <1>4, <2>2 DEF TypeInv
<1>8. LockInv' /\ WriteInv' /\ InstallInv' /\ RestoreInv'
  BY <1>2, <1>5
  DEF LockInv, Installs, WriteInv, InstallInv, InstallOf, RestoreInv
<1>9. StoreInv' /\ ListenersKnow'
  BY <1>1, <1>3, <1>4, <1>6 DEF StoreInv, Saved, ListenersKnow
<1> QED
  BY <1>7, <1>8, <1>9

LEMMA UnchangedIInv ==
  ASSUME IInv, UNCHANGED vars
  PROVE  IInv'
<1>1. UNCHANGED <<m_map, known, changed, live, old, temp, zip, m_store_lock, at,
                  shutdown, before, unsaved, replaced>>
  BY DEF vars, disk, history
<1>2. \A q : Changing(q)' = Changing(q) /\ Waits(q)' = Waits(q)
  BY <1>1 DEF Changing, Waits, In
<1>3. Installing' = Installing
  BY <1>1 DEF Installing
<1>4. TypeInv' /\ LockInv'
  BY <1>1 DEF IInv, TypeInv, LockInv
<1>5. WriteInv' /\ InstallInv' /\ RestoreInv'
  BY <1>1, <1>2
  DEF IInv, WriteInv, WriteOf, WriteDone, InstallInv, InstallOf, RestoreInv
<1>6. StoreInv' /\ ListenersKnow'
  BY <1>1, <1>2, <1>3 DEF IInv, StoreInv, Saved, ListenersKnow
<1> QED
  BY <1>4, <1>5, <1>6 DEF IInv

-----------------------------------------------------------------------------
LEMMA NextIInv == IInv /\ [Next]_vars => IInv'
<1> SUFFICES ASSUME IInv, [Next]_vars PROVE IInv'
  OBVIOUS
<1>1. ASSUME NEW c \in Callers, NEW p \in Param, NEW i \in Instance,
             DeleteInstance(c, p, i)
      PROVE  IInv'
  <2>1. CASE m_map[p][i] # None
    <3>1. In(c, "idle") /\ Change(c, p, [m_map[p] EXCEPT ![i] = None])
      BY <1>1, <2>1 DEF DeleteInstance
    <3>2. [m_map[p] EXCEPT ![i] = None] \in Map
      BY DEF IInv, TypeInv, Store, Map
    <3> QED
      BY <3>1, <3>2, ChangeIInv
  <2>2. CASE m_map[p][i] = None
    <3>1. /\ changed' = changed \cup {p}
          /\ UNCHANGED <<m_map, known, disk, m_store_lock, at, shutdown, history>>
      BY <1>1, <2>2 DEF DeleteInstance
    <3> QED
      BY <3>1, ToldIInv
  <2> QED
    BY <2>1, <2>2
<1>2. ASSUME NEW c \in Callers, NEW p \in Param, NEW i \in Instance,
             NEW v \in Value, SetValue(c, p, i, v)
      PROVE  IInv'
  <2>1. In(c, "idle") /\ Change(c, p, [m_map[p] EXCEPT ![i] = v])
    BY <1>2 DEF SetValue
  <2>2. [m_map[p] EXCEPT ![i] = v] \in Map
    BY DEF IInv, TypeInv, Store, Map
  <2> QED
    BY <2>1, <2>2, ChangeIInv
<1>3. ASSUME NEW c \in Callers, NEW p \in Param, NEW m \in Map, SetMap(c, p, m)
      PROVE  IInv'
  BY <1>3, ChangeIInv DEF SetMap
<1>4. ASSUME NEW c \in Callers, Rewrite(c) PROVE IInv'
  <2>1. CASE OpenFails(c)
    BY <2>1, OpenFailsIInv DEF OpenFails
  <2> QED
    BY <1>4, <2>1, OpenIInv, CloseIInv, WriteIInv DEF Rewrite
<1>5. ASSUME NEW c \in Callers, Backup(c) PROVE IInv'
  <2>1. /\ m_store_lock = None /\ live.ovms_config # None /\ zip' = live
        /\ UNCHANGED <<m_map, known, changed, live, old, temp, m_store_lock, at,
                       shutdown, history>>
    BY <1>5 DEF Backup
  <2>2. /\ temp' \in Directories /\ zip' \in Directories
        /\ zip'.ovms_config # None
    BY <2>1 DEF IInv, TypeInv
  <2> QED
    BY <2>1, <2>2, BackupIInv
<1>6. ASSUME NEW c \in Callers, RestoreFails(c) PROVE IInv'
  <2>1. /\ m_store_lock = None /\ temp' = NoDirs
        /\ UNCHANGED <<m_map, known, changed, live, old, zip, m_store_lock, at,
                       shutdown, history>>
    BY <1>6 DEF RestoreFails
  <2>2. /\ temp' \in Directories /\ zip' \in Directories
        /\ zip'.ovms_config # None
    BY <2>1 DEF IInv, TypeInv, NoDirs, Directories
  <2> QED
    BY <2>1, <2>2, BackupIInv
<1>7. ASSUME NEW c \in Callers, Install(c) PROVE IInv'
  BY <1>7, RemoveIInv, MoveAwayIInv, MoveAwayFailsIInv, MoveInIInv, MoveBackIInv,
     CleanupIInv, FinishIInv DEF Install
<1>8. ASSUME NEW p \in Param, Listener(p) PROVE IInv'
  <2>1. /\ changed' = changed \ {p} /\ known' = [known EXCEPT ![p] = m_map[p]]
        /\ UNCHANGED <<m_map, disk, m_store_lock, at, shutdown, history>>
    BY <1>8 DEF Listener
  <2> QED
    BY <2>1, ToldIInv
<1>9. CASE Restart \/ Abort \/ Crash
  BY <1>9, MountIInv DEF Restart, Abort, Crash
<1>10. CASE UNCHANGED vars
  BY <1>10, UnchangedIInv
<1> QED
  BY <1>1, <1>2, <1>3, <1>4, <1>5, <1>6, <1>7, <1>8, <1>9, <1>10, RestoreIInv
  DEF Next

(* The configuration in the store follows the one in memory, except where  *)
(* a change is not yet saved.                                              *)
LEMMA IInvChanges == IInv => ChangesKept
BY DEF IInv, StoreInv, Saved, ChangesKept, StoreFollows

(* The two directories of the archive are all there is.                    *)
LEMMA IInvRestored == IInv => RestoredKept
<1> SUFFICES ASSUME IInv, shutdown PROVE live = zip
  BY DEF RestoredKept
<1>1. live \in Directories /\ zip \in Directories
  BY DEF IInv, TypeInv
<1>2. live.ovms_config = zip.ovms_config /\ live.scripts = zip.scripts
  BY DEF IInv, RestoreInv
<1> QED
  BY <1>1, <1>2 DEF Directories

(* At every step of an installation a whole configuration is somewhere.    *)
LEMMA IInvRecoverable == IInv => Recoverable
<1> SUFFICES ASSUME IInv, NEW c \in Callers, at[c].pc \in Installs
             PROVE  \/ before \in {live.ovms_config, old.ovms_config}
                    \/ live.ovms_config = zip.ovms_config
  BY DEF Recoverable, Installing, Installs
<1>1. InstallOf(c)
  BY DEF IInv, InstallInv
<1> QED
  BY <1>1 DEF InstallOf, Installs

-----------------------------------------------------------------------------
LEMMA Safe == Spec => []IInv
BY InitIInv, NextIInv, PTL DEF Spec

(* A change is told to the listeners, and in the store unless that refused *)
(* it, however the tasks that share the maps interleave, and after any     *)
(* crash: RewriteConfig writes what is in memory, not what its caller has  *)
(* set, so that it also makes up for a rewrite that failed.                *)
THEOREM ChangesAreKept == Spec => []ChangesKept
BY Safe, IInvChanges, PTL

(* From a restore to the reboot the store is the archive: the mutex that   *)
(* Restore keeps holds off every writer.                                   *)
THEOREM RestoreIsKept == Spec => []RestoredKept
BY Safe, IInvRestored, PTL

(* install_dir never loses a whole configuration, whichever of its steps   *)
(* fails.                                                                  *)
THEOREM RestoreIsRecoverable == Spec => []Recoverable
BY Safe, IInvRecoverable, PTL

(* Every variable has its type, as long as maps, files and archives may be *)
(* changed by any task.                                                    *)
THEOREM ConfigTypes == Spec => []TypeOK
<1>1. IInv => TypeOK
  BY DEF IInv, TypeInv, TypeOK, Directories
<1> QED
  BY <1>1, Safe, PTL
=============================================================================
