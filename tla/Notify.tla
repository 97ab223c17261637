------------------------------- MODULE Notify -------------------------------
(***************************************************************************)
(* The notification framework, main/ovms_notify.cpp.                       *)
(*                                                                         *)
(* Any task may raise a notification.  NotifyString and NotifyCommand hold *)
(* MyNotify.m_mutex from end to end: they first work out which registered  *)
(* readers accept the message, then queue one entry per message.  Queueing *)
(* an entry (OvmsNotifyType::QueueEntry) also holds the mutex of the type, *)
(* offers the entry to every reader through its callback, and deletes the  *)
(* entry at once when nobody is left to read it.                           *)
(*                                                                         *)
(* Readers later fetch what they still have to read (FirstUnreadEntry,     *)
(* FindEntry) and report it done (MarkRead) from tasks of their own, under *)
(* the mutex of the type only, so these steps interleave with a raise that *)
(* is between two entries.  Registering and clearing a reader needs        *)
(* MyNotify.m_mutex and therefore waits for a raise to end.                *)
(***************************************************************************)
EXTENDS Integers, FiniteSets

CONSTANTS
  Types,       \* the notification types: "info", "alert", "data", ...
  Readers,     \* reader numbers that RegisterReader may hand out
  Verbosity,   \* Verbosity[r]: longest message reader r accepts
  Lengths,     \* lengths a message can have
  MaxId        \* bound: no raise starts for a type that queued this many

ASSUME VerbosityAssumption == Verbosity \in [Readers -> Nat]
ASSUME LengthsAssumption   == Lengths \subseteq Nat

VARIABLES
  m_readers,  \* keys of OvmsNotify::m_readers
  m_nextid,   \* m_nextid[t]: the id the next entry of type t gets
  m_entries,  \* the entries in the maps of all types, by type and id
  raising     \* the raise that holds MyNotify.m_mutex: messages to queue

vars == <<m_readers, m_nextid, m_entries, raising>>

Entry   == [type : Types, id : Nat \ {0}, pending : SUBSET Readers]
Message == [type : Types, level : Nat, len : Lengths, pending : SUBSET Readers]

(* MyNotify.m_mutex is free. *)
Unlocked == raising = {}

Init ==
  /\ m_readers = {}
  /\ m_nextid  = [t \in Types |-> 1]
  /\ m_entries = {}
  /\ raising   = {}

-----------------------------------------------------------------------------
(* OvmsNotifyCallbackEntry::Accepts.  The configured filter and the        *)
(* reader's own filter callback are evaluated anew each time and may have  *)
(* changed in between, so their outcome is a parameter: the set of         *)
(* registered readers that pass them.                                      *)
Accepting(filter, len) == {r \in filter : len <= Verbosity[r]}

(* OvmsNotifyType::Cleanup: entries everybody has read are deleted.        *)
Cleanup(entries) == {e \in entries : e.pending # {}}

(* Reader r is done with the entries of S.                                 *)
Read(entries, r, S) ==
  {IF e \in S THEN [e EXCEPT !.pending = @ \ {r}] ELSE e : e \in entries}

(* OvmsNotifyType::FirstUnreadEntry: what it returns, as a set of at most  *)
(* one entry.                                                              *)
FirstUnreadEntry(r, t, floor) ==
  LET unread == {e \in m_entries : e.type = t /\ r \in e.pending /\ e.id > floor}
  IN  {e \in unread : \A f \in unread : e.id <= f.id}

\* The next verbosity level above v, unless v is the highest.
NextAbove(levels, v) ==
  CHOOSE u \in levels : u > v /\ \A w \in levels : w > v => u <= w

\* Mutant: the result is compared with its own level, not the reader's.
ProducersOwnLevel(levels, out) ==
  {p \in [levels -> levels] :
     \A v \in levels :
       p[v] = IF \A u \in levels : u <= v THEN v
              ELSE LET last == p[NextAbove(levels, v)]
                   IN  IF out[last] <= last THEN last ELSE v}

(* NotifyCommand runs the command once per verbosity level, from the       *)
(* highest down, and reuses the last result for a lower level it fits:     *)
(* p[v] is the level whose result level v is given, out[v] the length of   *)
(* the result at level v.  There is one such p, determined from above.     *)
Producers(levels, out) ==
  {p \in [levels -> levels] :
     \A v \in levels :
       p[v] = IF \A u \in levels : u <= v THEN v
              ELSE LET last == p[NextAbove(levels, v)]
                   IN  IF out[last] <= v THEN last ELSE v}

-----------------------------------------------------------------------------
(* OvmsNotify::RegisterReader: a new number, or one cleared before.        *)
RegisterReader(r) ==
  /\ Unlocked
  /\ r \notin m_readers
  /\ m_readers' = m_readers \cup {r}
  /\ UNCHANGED <<m_nextid, m_entries, raising>>

\* Mutant: MyNotify.m_mutex is not taken.
ClearReaderUnlocked(r) ==
  /\ r \in m_readers
  /\ m_readers' = m_readers \ {r}
  /\ m_entries' = Cleanup(Read(m_entries, r, m_entries))
  /\ UNCHANGED <<m_nextid, raising>>

\* Mutant: the entries are not visited.
ClearReaderOnly(r) ==
  /\ Unlocked
  /\ r \in m_readers
  /\ m_readers' = m_readers \ {r}
  /\ UNCHANGED <<m_nextid, m_entries, raising>>

(* OvmsNotify::ClearReader: withdraw the reader from every entry.          *)
ClearReader(r) ==
  /\ Unlocked
  /\ r \in m_readers
  /\ m_readers' = m_readers \ {r}
  /\ m_entries' = Cleanup(Read(m_entries, r, m_entries))
  /\ UNCHANGED <<m_nextid, raising>>

(* OvmsNotify::NotifyString, up to QueueEntry: nothing is queued when no   *)
(* reader accepts the message.                                             *)
NotifyString(t, len, filter) ==
  /\ Unlocked
  /\ m_nextid[t] <= MaxId
  /\ filter \subseteq m_readers
  /\ Accepting(filter, len) # {}
  /\ raising' = {[type |-> t, level |-> 0, len |-> len,
                  pending |-> Accepting(filter, len)]}
  /\ UNCHANGED <<m_readers, m_nextid, m_entries>>

\* Mutant: a reader is added to the messages of lower levels as well.
NotifyCommandAll(t, out, filter) ==
  LET levels == {Verbosity[r] : r \in filter}
  IN  /\ Unlocked
      /\ m_nextid[t] <= MaxId
      /\ filter \subseteq m_readers
      /\ filter # {}
      /\ \E producer \in Producers(levels, out) :
           raising' = {[type |-> t, level |-> v, len |-> out[v],
                        pending |-> {r \in filter : producer[Verbosity[r]] >= v}] :
                       v \in {w \in levels : \E u \in levels : producer[u] = w}}
      /\ UNCHANGED <<m_readers, m_nextid, m_entries>>

(* OvmsNotify::NotifyCommand, up to its first QueueEntry.  Readers are     *)
(* selected before a length is known (size 0 passes every verbosity).      *)
NotifyCommand(t, out, filter) ==
  LET levels == {Verbosity[r] : r \in filter}
  IN  /\ Unlocked
      /\ m_nextid[t] <= MaxId
      /\ filter \subseteq m_readers
      /\ filter # {}
      /\ \E producer \in Producers(levels, out) :
           raising' = {[type |-> t, level |-> v, len |-> out[v],
                        pending |-> {r \in filter : producer[Verbosity[r]] = v}] :
                       v \in {w \in levels : \E u \in levels : producer[u] = w}}
      /\ UNCHANGED <<m_readers, m_nextid, m_entries>>

(* NotifyReaders: every reader that accepts the message is called back; it *)
(* stays pending unless its callback returns true (done), and a registered *)
(* reader that does not accept it any more is withdrawn.                   *)
NotifyReaders(pending, accepting, done) ==
  pending \ ((m_readers \ accepting) \cup done)

\* Mutant: the id is not used up.
QueueEntrySameId(filter, done) ==
  \E m \in raising :
    LET accepting == Accepting(filter, m.len)
        entry == [type |-> m.type, id |-> m_nextid[m.type],
                  pending |-> NotifyReaders(m.pending, accepting, done)]
    IN  /\ \A n \in raising : m.level <= n.level
        /\ filter \subseteq m_readers
        /\ done \subseteq accepting
        /\ m_entries' = Cleanup(m_entries \cup {entry})
        /\ raising'   = raising \ {m}
        /\ UNCHANGED <<m_readers, m_nextid>>

(* OvmsNotifyType::QueueEntry with NotifyReaders and Cleanup: the message  *)
(* of the lowest level gets the next id and is offered to the readers.     *)
QueueEntry(filter, done) ==
  \E m \in raising :
    LET accepting == Accepting(filter, m.len)
        entry == [type |-> m.type, id |-> m_nextid[m.type],
                  pending |-> NotifyReaders(m.pending, accepting, done)]
    IN  /\ \A n \in raising : m.level <= n.level
        /\ filter \subseteq m_readers
        /\ done \subseteq accepting
        /\ m_nextid'  = [m_nextid EXCEPT ![m.type] = @ + 1]
        /\ m_entries' = Cleanup(m_entries \cup {entry})
        /\ raising'   = raising \ {m}
        /\ UNCHANGED m_readers

\* Mutant: the entry is deleted when its first reader is done.
MarkReadDeletes(r, e) ==
  /\ e \in m_entries
  /\ m_entries' = m_entries \ {e}
  /\ UNCHANGED <<m_readers, m_nextid, raising>>

(* OvmsNotifyType::MarkRead, by a reader that holds entry e.  The type     *)
(* mutex is free, as no QueueEntry step is half done.                      *)
MarkRead(r, e) ==
  /\ e \in m_entries
  /\ m_entries' = Cleanup(Read(m_entries, r, {e}))
  /\ UNCHANGED <<m_readers, m_nextid, raising>>

(* A reader takes its first unread entry and marks it read.                *)
ReadFirst(r, t) == \E e \in FirstUnreadEntry(r, t, 0) : MarkRead(r, e)

Next ==
  \/ \E r \in Readers : RegisterReader(r) \/ ClearReader(r)
  \/ \E t \in Types, filter \in SUBSET m_readers :
       \/ \E len \in Lengths : NotifyString(t, len, filter)
       \/ \E out \in [{Verbosity[r] : r \in Readers} -> Lengths] :
            NotifyCommand(t, out, filter)
  \/ \E filter \in SUBSET m_readers, done \in SUBSET m_readers :
       QueueEntry(filter, done)
  \/ \E r \in Readers, e \in m_entries : MarkRead(r, e)

(* A raise runs to its end once it holds the mutex, and every reader task  *)
(* keeps reading the entries that wait for it: the pollers from ticker.1   *)
(* while connected, the webserver while its socket drains.                 *)
Fairness ==
  /\ WF_vars(\E filter \in SUBSET m_readers, done \in SUBSET m_readers :
               QueueEntry(filter, done))
  /\ \A r \in Readers, t \in Types : WF_vars(r \in m_readers /\ ReadFirst(r, t))

Spec == Init /\ [][Next]_vars

FairSpec == Spec /\ Fairness

-----------------------------------------------------------------------------
(* Every variable has its type; ids are positive, as FirstUnreadEntry with  *)
(* a floor of 0 presumes.                                                  *)
TypeOK ==
  /\ m_readers \subseteq Readers
  /\ m_nextid  \in [Types -> Nat \ {0}]
  /\ m_entries \subseteq Entry
  /\ raising   \subseteq Message

(* Every entry kept in memory still waits for a reader, and only for       *)
(* registered ones: nothing is kept that nobody will ever collect.  Breaks *)
(* when a reader is cleared between the choice of the readers of a message *)
(* and the queueing of its entry.                                          *)
NoOrphan ==
  \A e \in m_entries : e.pending # {} /\ e.pending \subseteq m_readers

(* The same for the messages a raise has still to queue.                   *)
RaiseForRegistered ==
  \A m \in raising : m.pending # {} /\ m.pending \subseteq m_readers

(* The acknowledgement protocol of the data channels names an entry by its *)
(* id alone: within a type an id belongs to one entry, below m_nextid.     *)
IdsUnique ==
  /\ \A e \in m_entries : e.id < m_nextid[e.type]
  /\ \A e, f \in m_entries : e.type = f.type /\ e.id = f.id => e = f

(* One raise hands each reader at most one message of its own.             *)
OneMessageEach ==
  \A m, n \in raising : m # n => m.pending \cap n.pending = {}

(* A reader that is given the result of a higher verbosity can take it     *)
(* whole; only the result made for its own level may be too long for it.   *)
ReusedFits ==
  \A m \in raising : \A r \in m.pending :
    m.level > Verbosity[r] => m.len <= Verbosity[r]

(* The user guide says of a message longer than a channel's verbosity that *)
(* it may be truncated.  Nothing truncates it: a reader waiting for such a *)
(* message is withdrawn from it unseen when the entry is queued.           *)
SelectedReadersServed ==
  \A m \in raising : \A r \in m.pending : m.len <= Verbosity[r]

(* The framework is a board of items (NotifyBoard): an item is put up for  *)
(* registered readers under a fresh number, and leaves it one reader at a  *)
(* time.  In particular no reader finds again what it has read.            *)
Items(entries) == UNION {{<<e.type, e.id, r>> : r \in e.pending} : e \in entries}

Board == INSTANCE NotifyBoard WITH
  readers <- m_readers, next <- m_nextid, board <- Items(m_entries)

ImplementsBoard == Board!Spec

(* Every entry is eventually deleted: the memory of a notification is      *)
(* returned once its readers have read it or gone.                         *)
EntriesLeave ==
  \A t \in Types, i \in 1..(MaxId + Cardinality(Readers)) :
    (\E e \in m_entries : e.type = t /\ e.id = i) ~>
      ~(\E e \in m_entries : e.type = t /\ e.id = i)
=============================================================================
