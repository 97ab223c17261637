------------------------------- MODULE Config -------------------------------
(***************************************************************************)
(* The configuration store, main/ovms_config.cpp: parameters, each a map   *)
(* of instances to values in memory and a file in /store/ovms_config, and  *)
(* the backup and restore of the store.                                    *)
(*                                                                         *)
(* A change is made to the map, then the file is written anew, entry by    *)
(* entry, under the mutex m_store_lock; then "config.changed" is           *)
(* signalled.  The maps have no mutex.  A restore installs the directories *)
(* of an archive one by one, by renaming, and keeps the mutex until the    *)
(* module boots.  A crash may come between any two steps; what it leaves   *)
(* of a file that is being written is any part of it.  Nor does the result *)
(* of writing count: a file that could not be opened, or was left short as *)
(* the store is full, is logged, and the change returns as any other.      *)
(*                                                                         *)
(* Every parameter is registered at boot.  Its change by m_map.clear and a *)
(* move (SetMap) is one step.  Modules are told of changes by the events   *)
(* task; module Events has the queue, and the abort when it overflows,     *)
(* module BootRestart the restart.                                         *)
(***************************************************************************)
EXTENDS Naturals, Sequences

CONSTANTS
  Tasks,       \* those that change the configuration, besides the events task
  Param, Instance, Value,
  Script,      \* files in the other directory of the store
  None,        \* no value, no directory, no task
  MaxChanges,  \* bound on the changes
  MaxRestores, \* bound on the restores
  MaxCrashes   \* bound on the crashes

EventsTask == "events task"
Callers    == Tasks \cup {EventsTask}

Map    == [Instance -> Value \cup {None}]
Store  == [Param -> Map]
Empty  == [i \in Instance |-> None]

ASSUME ConfigAssumption ==
  /\ EventsTask \notin Tasks
  /\ None \notin Value \cup Callers \cup Param \cup Store
  /\ {MaxChanges, MaxRestores, MaxCrashes} \subseteq Nat

\* backup_dir: the configuration, and the optional ones, here one.
Dirs     == <<"ovms_config", "scripts">>
Optional == {"scripts"}
NoDirs   == [ovms_config |-> None, scripts |-> None]

\* What a directory just made contains.
Made(d) == IF d = "scripts" THEN {} ELSE [p \in Param |-> Empty]

VARIABLES
  m_map,        \* m_map[p]: the instances of p in memory
  known,        \* known[p]: what the listeners have last read of p
  changed,      \* parameters with an event "config.changed" queued
  live,         \* the directories of the store, or None
  old, temp,    \* those with the suffix ".old", and in ovms_config_restore
  zip,          \* the archive; an optional directory may be missing
  m_store_lock, \* its holder, or None
  at,           \* at[c]: what caller c is doing
  shutdown,     \* MyBoot.Restart has been called after a restore
  changes, restores, crashes,
  before,       \* history: the configuration when an installation began
  unsaved,      \* history: parameters whose last rewrite has failed
  replaced      \* history: a restore that failed has left another
                \* configuration in the store than the one in memory

disk    == <<live, old, temp, zip>>
counts  == <<changes, restores, crashes>>
history == <<before, unsaved, replaced>>
vars == <<m_map, known, changed, disk, m_store_lock, at, shutdown, counts,
          history>>

Idle == [pc |-> "idle", param |-> None, todo |-> {}, dir |-> 0, ok |-> TRUE]
In(c, pc) == at[c].pc = pc

Init ==
  /\ m_map = [p \in Param |-> Empty] /\ known = m_map /\ changed = {}
  /\ live = [ovms_config |-> m_map, scripts |-> {}]
  /\ old = NoDirs /\ temp = NoDirs
  /\ zip \in [ovms_config : Store, scripts : {None} \cup SUBSET Script]
  /\ m_store_lock = None /\ at = [c \in Callers |-> Idle] /\ shutdown = FALSE
  /\ changes = 0 /\ restores = 0 /\ crashes = 0
  /\ before = m_map /\ unsaved = {} /\ replaced = FALSE

\* The caller takes the mutex.
Lock(c) == m_store_lock = None /\ m_store_lock' = c

-----------------------------------------------------------------------------
(***************************************************************************)
(* Changes                                                                 *)
(***************************************************************************)
\* The map of p becomes m; the file is to be written.
Change(c, p, m) ==
  /\ changes < MaxChanges /\ changes' = changes + 1
  /\ m_map' = [m_map EXCEPT ![p] = m]
  /\ at' = [at EXCEPT ![c] = [Idle EXCEPT !.pc = "rewrite", !.param = p]]
  /\ UNCHANGED <<known, changed, disk, m_store_lock, shutdown, restores,
                 crashes, history>>

\* A value that is there already changes nothing.
SetValue(c, p, i, v) ==
  /\ In(c, "idle") /\ m_map[p][i] # v
  /\ Change(c, p, [m_map[p] EXCEPT ![i] = v])

\* The event is signalled, if there is no such instance too.
DeleteInstance(c, p, i) ==
  /\ In(c, "idle")
  /\ IF m_map[p][i] # None
       THEN Change(c, p, [m_map[p] EXCEPT ![i] = None])
       ELSE /\ changed' = changed \cup {p}
            /\ UNCHANGED <<m_map, known, disk, m_store_lock, at, shutdown,
                           counts, history>>

SetMap(c, p, m) == In(c, "idle") /\ Change(c, p, m)

\* Mutant: the file is not truncated.
OpenAppends(c) ==
  /\ In(c, "rewrite") /\ live["ovms_config"] # None /\ Lock(c)
  /\ at' = [at EXCEPT ![c].pc = "write", ![c].todo = Instance]
  /\ UNCHANGED <<m_map, known, changed, disk, shutdown, counts, history>>

\* RewriteConfig: the file is truncated.
Open(c) ==
  /\ In(c, "rewrite") /\ live["ovms_config"] # None /\ Lock(c)
  /\ live' = [live EXCEPT !["ovms_config"][at[c].param] = Empty]
  /\ at' = [at EXCEPT ![c].pc = "write", ![c].todo = Instance]
  /\ UNCHANGED <<m_map, known, changed, old, temp, zip, shutdown, counts,
                 history>>

\* Mutant: a change that cannot be saved is not signalled.
OpenFailsSilently(c) ==
  /\ In(c, "rewrite") /\ m_store_lock = None
  /\ unsaved' = unsaved \cup {at[c].param}
  /\ at' = [at EXCEPT ![c] = Idle]
  /\ UNCHANGED <<m_map, known, changed, disk, m_store_lock, shutdown, counts,
                 before, replaced>>

\* ... or it cannot be opened.
OpenFails(c) ==
  /\ In(c, "rewrite") /\ m_store_lock = None
  /\ unsaved' = unsaved \cup {at[c].param}
  /\ changed' = changed \cup {at[c].param}
  /\ at' = [at EXCEPT ![c] = Idle]
  /\ UNCHANGED <<m_map, known, disk, m_store_lock, shutdown, counts, before,
                 replaced>>

\* The entry of an instance that is there now is written.
Write(c, i) ==
  /\ In(c, "write") /\ i \in at[c].todo
  /\ LET v == m_map[at[c].param][i]
     IN  live' = [live EXCEPT !["ovms_config"][at[c].param][i] =
                                IF v = None THEN @ ELSE v]
  /\ at' = [at EXCEPT ![c].todo = @ \ {i}]
  /\ UNCHANGED <<m_map, known, changed, old, temp, zip, m_store_lock, shutdown,
                 counts, history>>

\* fprintf, or fclose in the end, cannot: a part of the entry is there, or
\* nothing.
WriteFails(c, i) ==
  /\ In(c, "write") /\ i \in at[c].todo /\ m_map[at[c].param][i] # None
  /\ \E part \in Value \cup {None} :
       live' = [live EXCEPT !["ovms_config"][at[c].param][i] = part]
  /\ at' = [at EXCEPT ![c].todo = @ \ {i}, ![c].ok = FALSE]
  /\ UNCHANGED <<m_map, known, changed, old, temp, zip, m_store_lock, shutdown,
                 counts, history>>

\* The file is closed, the mutex given, the event signalled: as well if it is
\* short.
Close(c) ==
  /\ In(c, "write") /\ at[c].todo = {}
  /\ unsaved' = IF at[c].ok THEN unsaved \ {at[c].param}
                 ELSE unsaved \cup {at[c].param}
  /\ changed' = changed \cup {at[c].param}
  /\ m_store_lock' = None /\ at' = [at EXCEPT ![c] = Idle]
  /\ UNCHANGED <<m_map, known, disk, shutdown, counts, before, replaced>>

\* A listener of "config.changed" reads the parameter.
Listener(p) ==
  /\ In(EventsTask, "idle") /\ p \in changed
  /\ changed' = changed \ {p}
  /\ known' = [known EXCEPT ![p] = m_map[p]]
  /\ UNCHANGED <<m_map, disk, m_store_lock, at, shutdown, counts, history>>

-----------------------------------------------------------------------------
(***************************************************************************)
(* Backup and restore                                                      *)
(***************************************************************************)
\* Backup; the mutex is held until the archive is written.
Backup(c) ==
  /\ In(c, "idle") /\ m_store_lock = None /\ live["ovms_config"] # None
  /\ zip' = live
  /\ UNCHANGED <<m_map, known, changed, live, old, temp, m_store_lock, at,
                 shutdown, counts, history>>

\* Restore: the archive is unzipped into the temporary directory ...
Restore(c) ==
  /\ In(c, "idle") /\ restores < MaxRestores /\ Lock(c)
  /\ restores' = restores + 1
  /\ temp' = zip /\ before' = live["ovms_config"]
  /\ at' = [at EXCEPT ![c] = [Idle EXCEPT !.pc = "install", !.dir = 1]]
  /\ UNCHANGED <<m_map, known, changed, live, old, zip, shutdown, changes,
                 crashes, unsaved, replaced>>

\* ... or cannot be.
RestoreFails(c) ==
  /\ In(c, "idle") /\ restores < MaxRestores /\ m_store_lock = None
  /\ restores' = restores + 1
  /\ temp' = NoDirs
  /\ UNCHANGED <<m_map, known, changed, live, old, zip, m_store_lock, at,
                 shutdown, changes, crashes, history>>

Dir(c) == Dirs[at[c].dir]

\* A directory is done: the next one, unless one that is not optional failed.
Installed(c, done) ==
  LET next == at[c].dir + 1
      stop == next > Len(Dirs) \/ (~done /\ Dir(c) \notin Optional)
  IN  [at[c] EXCEPT !.pc = IF stop THEN "finish" ELSE "install",
                    !.dir = IF stop THEN @ ELSE next, !.ok = @ /\ done]

\* install_dir for a directory the archive does not have.
Remove(c) ==
  /\ In(c, "install") /\ temp[Dir(c)] = None
  /\ live' = [live EXCEPT ![Dir(c)] = None]
  /\ at' = [at EXCEPT ![c] = Installed(c, TRUE)]
  /\ UNCHANGED <<m_map, known, changed, old, temp, zip, m_store_lock, shutdown,
                 counts, history>>

\* Mutant: the directory is removed instead of renamed.
MoveAwayDeletes(c) ==
  /\ In(c, "install") /\ temp[Dir(c)] # None
  /\ old' = [old EXCEPT ![Dir(c)] = None]
  /\ live' = [live EXCEPT ![Dir(c)] = None]
  /\ at' = [at EXCEPT ![c].pc = "moved"]
  /\ UNCHANGED <<m_map, known, changed, temp, zip, m_store_lock, shutdown,
                 counts, history>>

\* rmtree(dstbak), and rename(dst, dstbak), with the directory made if need be.
MoveAway(c) ==
  /\ In(c, "install") /\ temp[Dir(c)] # None
  /\ old' = [old EXCEPT ![Dir(c)] = IF live[Dir(c)] = None THEN Made(Dir(c))
                                    ELSE live[Dir(c)]]
  /\ live' = [live EXCEPT ![Dir(c)] = None]
  /\ at' = [at EXCEPT ![c].pc = "moved"]
  /\ UNCHANGED <<m_map, known, changed, temp, zip, m_store_lock, shutdown,
                 counts, history>>

MoveAwayFails(c) ==
  /\ In(c, "install") /\ temp[Dir(c)] # None
  /\ old' = [old EXCEPT ![Dir(c)] = None]
  /\ live' \in {live, [live EXCEPT ![Dir(c)] = IF @ = None THEN Made(Dir(c))
                                               ELSE @]}
  /\ at' = [at EXCEPT ![c] = Installed(c, FALSE)]
  /\ UNCHANGED <<m_map, known, changed, temp, zip, m_store_lock, shutdown,
                 counts, history>>

\* rename(src, dst)
MoveIn(c) ==
  /\ In(c, "moved")
  /\ live' = [live EXCEPT ![Dir(c)] = temp[Dir(c)]]
  /\ temp' = [temp EXCEPT ![Dir(c)] = None]
  /\ at' = [at EXCEPT ![c].pc = "cleanup"]
  /\ UNCHANGED <<m_map, known, changed, old, zip, m_store_lock, shutdown, counts,
                 history>>

\* ... fails, and dst is moved back, which may fail too.
MoveBack(c) ==
  /\ In(c, "moved")
  /\ \/ /\ live' = [live EXCEPT ![Dir(c)] = old[Dir(c)]]
        /\ old' = [old EXCEPT ![Dir(c)] = None]
     \/ UNCHANGED <<live, old>>
  /\ at' = [at EXCEPT ![c] = Installed(c, FALSE)]
  /\ UNCHANGED <<m_map, known, changed, temp, zip, m_store_lock, shutdown,
                 counts, history>>

Cleanup(c) ==
  /\ In(c, "cleanup")
  /\ old' = [old EXCEPT ![Dir(c)] = None]
  /\ at' = [at EXCEPT ![c] = Installed(c, TRUE)]
  /\ UNCHANGED <<m_map, known, changed, live, temp, zip, m_store_lock, shutdown,
                 counts, history>>

\* Mutant: the mutex is given before the reboot.
FinishUnlocks(c) ==
  /\ In(c, "finish")
  /\ temp' = NoDirs
  /\ shutdown' = at[c].ok /\ m_store_lock' = None
  /\ replaced' = (replaced \/ (~at[c].ok /\ live["ovms_config"] # before))
  /\ at' = [at EXCEPT ![c] = Idle]
  /\ UNCHANGED <<m_map, known, changed, live, old, zip, counts, before, unsaved>>

\* "cleanup & reboot": with the mutex held, if all directories are installed.
Finish(c) ==
  /\ In(c, "finish")
  /\ temp' = NoDirs
  /\ shutdown' = at[c].ok
  /\ m_store_lock' = IF at[c].ok THEN c ELSE None
  /\ replaced' = (replaced \/ (~at[c].ok /\ live["ovms_config"] # before))
  /\ at' = [at EXCEPT ![c] = Idle]
  /\ UNCHANGED <<m_map, known, changed, live, old, zip, counts, before, unsaved>>

-----------------------------------------------------------------------------
(***************************************************************************)
(* Boot and mount                                                          *)
(***************************************************************************)
\* mount: the directory is made if need be, every file is loaded; then
\* "config.mounted".  The registered parameters without a file are empty.
Mount ==
  LET conf == IF live["ovms_config"] = None THEN Made("ovms_config")
              ELSE live["ovms_config"]
  IN  /\ live' = [live EXCEPT !["ovms_config"] = conf]
      /\ m_map' = conf /\ known' = conf
      /\ changed' = {} /\ at' = [c \in Callers |-> Idle]
      /\ m_store_lock' = None /\ shutdown' = FALSE
      /\ unsaved' = {} /\ replaced' = FALSE
      /\ UNCHANGED <<old, temp, zip, changes, restores, before>>

\* Mutant: unmounting takes the mutex.
RestartLocks ==
  /\ shutdown /\ In(EventsTask, "idle") /\ m_store_lock = None
  /\ Mount /\ UNCHANGED crashes

\* The countdown of the restart is in the events task.
Restart == shutdown /\ In(EventsTask, "idle") /\ Mount /\ UNCHANGED crashes

\* If that waits for the mutex, the queue of events overflows in the end.
Abort == shutdown /\ ~In(EventsTask, "idle") /\ Mount /\ UNCHANGED crashes

Crash == crashes < MaxCrashes /\ crashes' = crashes + 1 /\ Mount

-----------------------------------------------------------------------------
Rewrite(c) ==
  \/ Open(c) \/ OpenFails(c) \/ Close(c)
  \/ \E i \in Instance : Write(c, i) \/ WriteFails(c, i)

Install(c) ==
  \/ Remove(c) \/ MoveAway(c) \/ MoveAwayFails(c) \/ MoveIn(c) \/ MoveBack(c)
  \/ Cleanup(c) \/ Finish(c)

Next ==
  \/ \E c \in Callers :
       \/ \E p \in Param :
            \/ \E i \in Instance :
                 DeleteInstance(c, p, i) \/ \E v \in Value : SetValue(c, p, i, v)
            \/ \E m \in Map : SetMap(c, p, m)
       \/ Rewrite(c) \/ Backup(c) \/ Restore(c) \/ RestoreFails(c) \/ Install(c)
  \/ \E p \in Param : Listener(p)
  \/ Restart \/ Abort \/ Crash

\* Who can go on does; the events task reads its queue; the tickers count.
Fairness ==
  /\ \A c \in Callers : WF_vars(Rewrite(c)) /\ WF_vars(Install(c))
  /\ WF_vars(Restart) /\ WF_vars(Abort)
  /\ \A p \in Param : WF_vars(Listener(p))

Spec == Init /\ [][Next]_vars /\ Fairness

-----------------------------------------------------------------------------
Installing == \E c \in Callers : at[c].pc \in {"install", "moved", "cleanup", "finish"}
Changing(p) == \E c \in Callers : at[c].param = p

(* Every variable has its type.                                            *)
TypeOK ==
  /\ m_map \in Store /\ known \in Store /\ changed \subseteq Param
  /\ \A D \in {live, old, temp, zip} :
       D \in [ovms_config : Store \cup {None}, scripts : {None} \cup SUBSET Script]
  /\ m_store_lock \in Callers \cup {None} /\ shutdown \in BOOLEAN
  /\ unsaved \subseteq Param /\ replaced \in BOOLEAN

(* The store has what memory has, of every parameter no caller is about to *)
(* save, in spite of changes by several tasks without a mutex: a crash     *)
(* takes nothing else.  Not so after a rewrite that failed, to the next    *)
(* one of the same parameter, after a restore that failed, and from a      *)
(* restore to the boot.                                                    *)
StoreFollows ==
  Installing \/ shutdown \/ replaced \/
  \A p \in Param : \/ Changing(p) \/ p \in unsaved
                   \/ live["ovms_config"][p] = m_map[p]

(* A listener that has nothing more to be told knows the configuration.    *)
ListenersKnow ==
  \A p \in Param : Changing(p) \/ p \in changed \/ known[p] = m_map[p]

(* Both: a change that has returned is told, saved or not, and it is saved *)
(* unless the store refused it; then the next change of the parameter that *)
(* is saved saves it as well.                                              *)
ChangesKept == StoreFollows /\ ListenersKnow

(* Between a restore and the boot no task saves what it has in memory: the *)
(* module boots with the archive, and nothing but the archive.             *)
RestoredKept == shutdown => live = zip

(* While a restore installs, the configuration as it was, or the one of    *)
(* the archive, is whole in one place, whatever fails and whenever.        *)
Recoverable ==
  Installing =>
    \/ before \in {live["ovms_config"], old["ovms_config"]}
    \/ live["ovms_config"] = zip["ovms_config"]

(* "The module will perform a reboot after successful restore.": though    *)
(* the events task, which counts down to it, may wait for the mutex.       *)
RebootFollows == shutdown ~> ~shutdown
=============================================================================
