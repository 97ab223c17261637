---------------------------- MODULE NotifyProofs ----------------------------
(***************************************************************************)
(* Safety of the notification framework for any number of types, readers,  *)
(* verbosities and messages.  The invariant is inductive as it stands once *)
(* the messages a raise has yet to queue are part of it: that they are     *)
(* only for registered readers is what ClearReader's wait for the mutex    *)
(* preserves, and what the entry made from them inherits.                  *)
(***************************************************************************)
EXTENDS Notify, ServerV2Notify, WellFoundedInduction, TLAPS

Inv == TypeOK /\ NoOrphan /\ RaiseForRegistered /\ IdsUnique /\ OneMessageEach

-----------------------------------------------------------------------------
(* Entry f is what is left of an entry of E when reader r is done with the *)
(* entries of S: of the same type and id, it lost no reader but r.         *)
LeftOf(f, E, r, S) ==
  /\ f \in Entry
  /\ f.pending # {}
  /\ \E e \in E : /\ f.type = e.type /\ f.id = e.id
                  /\ f.pending = IF e \in S THEN e.pending \ {r} ELSE e.pending

LEMMA ReadLemma ==
  ASSUME NEW E \in SUBSET Entry, NEW r, NEW S, NEW f \in Cleanup(Read(E, r, S))
  PROVE  LeftOf(f, E, r, S)
<1>1. f \in Read(E, r, S) /\ f.pending # {}
  BY DEF Cleanup
<1>2. PICK e \in E : f = IF e \in S THEN [e EXCEPT !.pending = @ \ {r}] ELSE e
  BY <1>1 DEF Read
<1>3. e \in Entry
  OBVIOUS
<1>4. e = [type |-> e.type, id |-> e.id, pending |-> e.pending]
  BY <1>3 DEF Entry
<1>5. CASE e \in S
  <2>1. f = [type |-> e.type, id |-> e.id, pending |-> e.pending \ {r}]
    BY <1>2, <1>4, <1>5
  <2>2. f \in Entry
    BY <2>1, <1>3 DEF Entry
  <2>3. QED
    BY <2>1, <2>2, <1>1, <1>5 DEF LeftOf
<1>6. CASE e \notin S
  BY <1>1, <1>2, <1>3, <1>6 DEF LeftOf
<1>7. QED
  BY <1>5, <1>6

(* Reading and clearing keep ids unique.                                   *)
LEMMA ReadKeepsIds ==
  ASSUME Inv, UNCHANGED m_nextid, NEW r, NEW STATE S,
         \A f \in m_entries' : LeftOf(f, m_entries, r, S)
  PROVE  IdsUnique'
<1>1. \A f \in m_entries' : f.id < m_nextid'[f.type]
  BY DEF Inv, IdsUnique, LeftOf
<1>2. ASSUME NEW f \in m_entries', NEW g \in m_entries', f.type = g.type, f.id = g.id
      PROVE  f = g
  <2>1. PICK e \in m_entries : /\ f.type = e.type /\ f.id = e.id
                               /\ f.pending = IF e \in S THEN e.pending \ {r} ELSE e.pending
    BY DEF LeftOf
  <2>2. PICK h \in m_entries : /\ g.type = h.type /\ g.id = h.id
                               /\ g.pending = IF h \in S THEN h.pending \ {r} ELSE h.pending
    BY DEF LeftOf
  <2>3. e = h
    BY <2>1, <2>2, <1>2 DEF Inv, IdsUnique
  <2>4. f.pending = g.pending
    BY <2>1, <2>2, <2>3
  <2>5. f \in Entry /\ g \in Entry
    BY DEF LeftOf
  <2>6. QED
    BY <2>4, <2>5, <1>2 DEF Entry
<1>3. QED
  BY <1>1, <1>2 DEF IdsUnique

-----------------------------------------------------------------------------
LEMMA InitInv == Init => Inv
BY DEF Init, Inv, TypeOK, NoOrphan, RaiseForRegistered, IdsUnique, OneMessageEach

LEMMA RegisterReaderInv ==
  ASSUME Inv, NEW r \in Readers, RegisterReader(r) PROVE Inv'
BY DEF RegisterReader, Unlocked, Inv, TypeOK, NoOrphan, RaiseForRegistered,
       IdsUnique, OneMessageEach

(* Nothing is being raised, so only the entries hold on to the reader.     *)
LEMMA ClearReaderInv ==
  ASSUME Inv, NEW r \in Readers, ClearReader(r) PROVE Inv'
<1>1. m_entries \in SUBSET Entry
  BY DEF Inv, TypeOK
<1>2. \A f \in m_entries' : LeftOf(f, m_entries, r, m_entries)
  BY <1>1, ReadLemma DEF ClearReader
<1>3. IdsUnique'
  BY <1>2, ReadKeepsIds DEF ClearReader
<1>4. m_entries' \subseteq Entry
  BY <1>2 DEF LeftOf
<1>5. NoOrphan'
  BY <1>2 DEF Inv, NoOrphan, ClearReader, LeftOf
<1>6. QED
  BY <1>3, <1>4, <1>5
  DEF ClearReader, Unlocked, Inv, TypeOK, RaiseForRegistered, OneMessageEach

LEMMA MarkReadInv ==
  ASSUME Inv, NEW r \in Readers, NEW e \in m_entries, MarkRead(r, e) PROVE Inv'
<1>1. m_entries \in SUBSET Entry
  BY DEF Inv, TypeOK
<1>2. \A f \in m_entries' : LeftOf(f, m_entries, r, {e})
  BY <1>1, ReadLemma DEF MarkRead
<1>3. IdsUnique'
  BY <1>2, ReadKeepsIds DEF MarkRead
<1>4. m_entries' \subseteq Entry
  BY <1>2 DEF LeftOf
<1>5. NoOrphan'
  BY <1>2 DEF Inv, NoOrphan, MarkRead, LeftOf
<1>6. QED
  BY <1>3, <1>4, <1>5 DEF MarkRead, Inv, TypeOK, RaiseForRegistered, OneMessageEach

LEMMA NotifyStringInv ==
  ASSUME Inv, NEW t \in Types, NEW len \in Lengths, NEW filter,
         NotifyString(t, len, filter)
  PROVE  Inv'
<1>1. Accepting(filter, len) \subseteq m_readers /\ Accepting(filter, len) # {}
  BY DEF NotifyString, Accepting
<1> DEFINE m == [type |-> t, level |-> 0, len |-> len, pending |-> Accepting(filter, len)]
<1>2. raising' = {m}
  BY DEF NotifyString
<1>3. m \in Message
  BY <1>1 DEF Message, Inv, TypeOK
<1> HIDE DEF m
<1>4. m.pending = Accepting(filter, len)
  BY DEF m
<1>5. QED
  BY <1>1, <1>2, <1>3, <1>4
  DEF NotifyString, Inv, TypeOK, NoOrphan, RaiseForRegistered, IdsUnique, OneMessageEach

LEMMA NotifyCommandInv ==
  ASSUME Inv, NEW t \in Types, NEW out \in [{Verbosity[r] : r \in Readers} -> Lengths],
         NEW filter, NotifyCommand(t, out, filter)
  PROVE  Inv'
<1> DEFINE levels == {Verbosity[r] : r \in filter}
<1>0. PICK producer \in Producers(levels, out) :
        raising' = {[type |-> t, level |-> v, len |-> out[v],
                     pending |-> {r \in filter : producer[Verbosity[r]] = v}] :
                    v \in {w \in levels : \E u \in levels : producer[u] = w}}
  BY DEF NotifyCommand
<1> DEFINE msg(v)   == [type |-> t, level |-> v, len |-> out[v],
                        pending |-> {r \in filter : producer[Verbosity[r]] = v}]
           used     == {w \in levels : \E u \in levels : producer[u] = w}
<1>1. raising' = {msg(v) : v \in used} /\ filter \subseteq m_readers
  BY <1>0 DEF NotifyCommand
<1>2. filter \subseteq Readers
  BY <1>1 DEF Inv, TypeOK
<1>3. ASSUME NEW m \in raising'
      PROVE  m \in Message /\ m.pending # {} /\ m.pending \subseteq filter
  <2>1. PICK v \in used : m = msg(v)
    BY <1>1
  <2>2. v \in Nat /\ out[v] \in Lengths
    BY <1>2, VerbosityAssumption
  <2>3. m \in Message
    BY <1>2, <2>1, <2>2 DEF Message
  <2>4. \E r \in filter : producer[Verbosity[r]] = v
    BY <2>1
  <2>5. m.pending = {r \in filter : producer[Verbosity[r]] = v}
    BY <2>1
  <2>6. QED
    BY <2>3, <2>4, <2>5
<1>4. OneMessageEach'
  <2>1. SUFFICES ASSUME NEW m \in raising', NEW n \in raising', m # n
                 PROVE  m.pending \cap n.pending = {}
    BY DEF OneMessageEach
  <2>2. PICK v \in used : m = msg(v)
    BY <1>1
  <2>3. PICK w \in used : n = msg(w)
    BY <1>1
  <2>4. v # w
    BY <2>1, <2>2, <2>3
  <2>5. /\ m.pending = {r \in filter : producer[Verbosity[r]] = v}
        /\ n.pending = {r \in filter : producer[Verbosity[r]] = w}
    BY <2>2, <2>3
  <2>6. QED
    BY <2>4, <2>5
<1>5. RaiseForRegistered'
  BY <1>1, <1>3 DEF RaiseForRegistered, NotifyCommand
<1>6. QED
  BY <1>3, <1>4, <1>5 DEF NotifyCommand, Inv, TypeOK, NoOrphan, IdsUnique

(* The new entry gets a fresh id and only readers of its message.          *)
LEMMA QueueEntryInv ==
  ASSUME Inv, NEW filter, NEW done, QueueEntry(filter, done) PROVE Inv'
<1>1. PICK m \in raising :
        LET posted == [type |-> m.type, id |-> m_nextid[m.type],
                       pending |-> m.pending \ ((m_readers \ Accepting(filter, m.len)) \cup done)]
        IN  /\ m_nextid'  = [m_nextid EXCEPT ![m.type] = @ + 1]
            /\ m_entries' = Cleanup(m_entries \cup {posted})
            /\ raising'   = raising \ {m}
            /\ UNCHANGED m_readers
  BY DEF QueueEntry, NotifyReaders
<1> DEFINE posted == [type |-> m.type, id |-> m_nextid[m.type],
                     pending |-> m.pending \ ((m_readers \ Accepting(filter, m.len)) \cup done)]
<1>2. m \in Message /\ m.pending \subseteq m_readers /\ m_nextid[m.type] \in Nat \ {0}
  BY DEF Inv, TypeOK, RaiseForRegistered, Message
<1>3. /\ posted \in Entry
      /\ posted.type = m.type
      /\ posted.id = m_nextid[m.type]
      /\ posted.pending \subseteq m_readers
  BY <1>2 DEF Entry, Message
<1> HIDE DEF posted
<1>4. /\ \A e \in m_entries' : e.pending # {} /\ (e \in m_entries \/ e = posted)
      /\ m_nextid' = [m_nextid EXCEPT ![m.type] = @ + 1]
      /\ raising' \subseteq raising
      /\ UNCHANGED m_readers
  BY <1>1 DEF Cleanup, posted
<1>5. m_nextid' \in [Types -> Nat \ {0}]
  <2>1. m_nextid \in [Types -> Nat \ {0}] /\ m.type \in Types
    BY <1>2 DEF Inv, TypeOK, Message
  <2>2. m_nextid[m.type] + 1 \in Nat \ {0}
    BY <1>2
  <2>3. QED
    BY <1>4, <2>1, <2>2
<1>6. TypeOK'
  BY <1>3, <1>4, <1>5 DEF Inv, TypeOK
<1>7. NoOrphan'
  BY <1>3, <1>4 DEF Inv, NoOrphan
<1>8. RaiseForRegistered' /\ OneMessageEach'
  BY <1>4 DEF Inv, RaiseForRegistered, OneMessageEach
<1>9. IdsUnique'
  <2>1. \A e \in m_entries : e.id \in Nat /\ e.type \in Types /\ e.id < m_nextid[e.type]
    BY DEF Inv, TypeOK, Entry, IdsUnique
  <2>2. \A e \in m_entries : e.id < m_nextid'[e.type]
    BY <1>2, <1>4, <2>1 DEF Inv, TypeOK
  <2>3. posted.id < m_nextid'[posted.type]
    BY <1>2, <1>3, <1>4 DEF Inv, TypeOK, Message
  <2>4. \A e \in m_entries : e.type = posted.type => e.id # posted.id
    BY <1>2, <1>3, <2>1
  <2>5. QED
    BY <1>4, <2>2, <2>3, <2>4 DEF Inv, IdsUnique
<1>10. QED
  BY <1>6, <1>7, <1>8, <1>9 DEF Inv

LEMMA NextInv == Inv /\ [Next]_vars => Inv'
<1>1. SUFFICES ASSUME Inv, [Next]_vars PROVE Inv'
  OBVIOUS
<1>2. ASSUME NEW r \in Readers, RegisterReader(r) PROVE Inv'
  BY <1>1, <1>2, RegisterReaderInv
<1>3. ASSUME NEW r \in Readers, ClearReader(r) PROVE Inv'
  BY <1>1, <1>3, ClearReaderInv
<1>4. ASSUME NEW t \in Types, NEW filter \in SUBSET m_readers, NEW len \in Lengths,
             NotifyString(t, len, filter)
      PROVE  Inv'
  BY <1>1, <1>4, NotifyStringInv
<1>5. ASSUME NEW t \in Types, NEW filter \in SUBSET m_readers,
             NEW out \in [{Verbosity[r] : r \in Readers} -> Lengths],
             NotifyCommand(t, out, filter)
      PROVE  Inv'
  BY <1>1, <1>5, NotifyCommandInv
<1>6. ASSUME NEW filter \in SUBSET m_readers, NEW done \in SUBSET m_readers,
             QueueEntry(filter, done)
      PROVE  Inv'
  BY <1>1, <1>6, QueueEntryInv
<1>7. ASSUME NEW r \in Readers, NEW e \in m_entries, MarkRead(r, e) PROVE Inv'
  BY <1>1, <1>7, MarkReadInv
<1>8. CASE UNCHANGED vars
  BY <1>1, <1>8 DEF vars, Inv, TypeOK, NoOrphan, RaiseForRegistered, IdsUnique, OneMessageEach
<1>9. QED
  BY <1>1, <1>2, <1>3, <1>4, <1>5, <1>6, <1>7, <1>8 DEF Next

(* Nothing stays in memory that no registered reader will collect, an id   *)
(* names one posted of its type, and a raise hands a reader one message,    *)
(* whatever steps the tasks that raise, read, register and clear take.     *)
THEOREM NotifySafety ==
  Spec => [](TypeOK /\ NoOrphan /\ RaiseForRegistered /\ IdsUnique /\ OneMessageEach)
<1>1. Inv => TypeOK /\ NoOrphan /\ RaiseForRegistered /\ IdsUnique /\ OneMessageEach
  BY DEF Inv
<1>2. QED
  BY InitInv, NextInv, <1>1, PTL DEF Spec

(* The acknowledgements of the data channels name one posted: an id is      *)
(* below the type's counter and is not given twice.                        *)
THEOREM NotifyIdsUnique == Spec => []IdsUnique
BY NotifySafety, PTL

(* A reader that gets the result of a higher verbosity can take it whole.  *)
LEMMA CommandReuses ==
  ASSUME Inv, NEW t \in Types, NEW out \in [{Verbosity[r] : r \in Readers} -> Lengths],
         NEW filter, NotifyCommand(t, out, filter)
  PROVE  ReusedFits'
<1> DEFINE levels == {Verbosity[r] : r \in filter}
<1>1. PICK producer \in Producers(levels, out) :
        raising' = {[type |-> t, level |-> v, len |-> out[v],
                     pending |-> {r \in filter : producer[Verbosity[r]] = v}] :
                    v \in {w \in levels : \E u \in levels : producer[u] = w}}
  BY DEF NotifyCommand
<1>2. filter \subseteq Readers
  BY DEF NotifyCommand, Inv, TypeOK
<1>3. SUFFICES ASSUME NEW m \in raising', NEW r \in m.pending, m.level > Verbosity[r]
               PROVE  m.len <= Verbosity[r]
  BY DEF ReusedFits
<1>4. r \in filter /\ m.level = producer[Verbosity[r]] /\ m.len = out[producer[Verbosity[r]]]
  BY <1>1
<1>5. Verbosity[r] \in levels /\ Verbosity[r] \in Nat
  BY <1>2, <1>4, VerbosityAssumption
<1>6. PICK last : producer[Verbosity[r]] = IF \A u \in levels : u <= Verbosity[r] THEN Verbosity[r]
                                           ELSE IF out[last] <= Verbosity[r] THEN last
                                           ELSE Verbosity[r]
  BY <1>1, <1>5 DEF Producers
<1>7. producer[Verbosity[r]] # Verbosity[r]
  BY <1>3, <1>4, <1>5
<1> QED
  BY <1>4, <1>6, <1>7

(* The result of one verbosity is handed on to a lower one only if it is   *)
(* no longer than that one allows: NotifyCommand compares it with the      *)
(* verbosity of the reader, for any set of verbosities.                    *)
THEOREM NotifyReusedFits == Spec => []ReusedFits
<1>1. Init => ReusedFits
  BY DEF Init, ReusedFits
<1>2. Inv /\ ReusedFits /\ [Next]_vars => ReusedFits'
  <2> SUFFICES ASSUME Inv, ReusedFits, [Next]_vars PROVE ReusedFits'
    OBVIOUS
  <2>1. CASE \E t \in Types, filter \in SUBSET m_readers :
               \E out \in [{Verbosity[r] : r \in Readers} -> Lengths] : NotifyCommand(t, out, filter)
    BY <2>1, CommandReuses
  <2>2. CASE \E t \in Types, filter \in SUBSET m_readers, len \in Lengths : NotifyString(t, len, filter)
    <3>1. \A m \in raising' : m.level = 0 /\ m.pending \subseteq Readers
      BY <2>2 DEF NotifyString, Accepting, Inv, TypeOK
    <3> QED
      BY <3>1, VerbosityAssumption DEF ReusedFits
  <2>3. CASE raising' \subseteq raising
    BY <2>3 DEF ReusedFits
  <2> QED
    BY <2>1, <2>2, <2>3 DEF Next, RegisterReader, ClearReader, QueueEntry, MarkRead, vars
<1> QED
  BY <1>1, <1>2, InitInv, NextInv, PTL DEF Spec

(* Of what one raise makes for the verbosities, each reader is in one      *)
(* message at most: NotifyCommand divides the readers.                     *)
THEOREM NotifyOneMessageEach == Spec => []OneMessageEach
BY NotifySafety, PTL

-----------------------------------------------------------------------------
(* Refinement of the board.  A raise is invisible until its posted is       *)
(* queued; queueing posts the record for the readers the callbacks left    *)
(* pending; MarkRead takes one item, or none when it comes a second time.  *)

LEMMA ItemsLemma ==
  ASSUME NEW E
  PROVE  \A b : b \in Items(E) <=>
                \E e \in E : \E r \in e.pending : b = <<e.type, e.id, r>>
BY DEF Items

LEMMA ClearReaderLeaves ==
  ASSUME Inv, NEW r \in Readers, ClearReader(r) PROVE Board!Leave(r)
<1>1. m_entries' = Cleanup(Read(m_entries, r, m_entries)) /\ m_entries \in SUBSET Entry
  BY DEF ClearReader, Inv, TypeOK
<1>2. \A f \in m_entries' : \E e \in m_entries :
        f.type = e.type /\ f.id = e.id /\ f.pending = e.pending \ {r}
  <2>1. \A f \in m_entries' : LeftOf(f, m_entries, r, m_entries)
    BY <1>1, ReadLemma
  <2>2. QED
    BY <2>1 DEF LeftOf
<1>3. ASSUME NEW e \in m_entries, e.pending \ {r} # {}
      PROVE  \E f \in m_entries' :
               f.type = e.type /\ f.id = e.id /\ f.pending = e.pending \ {r}
  <2> DEFINE f == [e EXCEPT !.pending = @ \ {r}]
  <2>1. e = [type |-> e.type, id |-> e.id, pending |-> e.pending]
    BY <1>1 DEF Entry
  <2>2. f.type = e.type /\ f.id = e.id /\ f.pending = e.pending \ {r}
    BY <2>1
  <2>3. f \in Read(m_entries, r, m_entries)
    BY DEF Read
  <2>4. f \in m_entries'
    BY <1>1, <1>3, <2>2, <2>3 DEF Cleanup
  <2>5. QED
    BY <2>2, <2>4
<1>4. \A b : b \in Items(m_entries)' <=> b \in Items(m_entries) /\ b[3] # r
  <2>1. ASSUME NEW b \in Items(m_entries') PROVE b \in Items(m_entries) /\ b[3] # r
    BY <1>2, <2>1, ItemsLemma
  <2>2. ASSUME NEW b \in Items(m_entries), b[3] # r PROVE b \in Items(m_entries')
    <3>1. PICK e \in m_entries : \E q \in e.pending : b = <<e.type, e.id, q>>
      BY ItemsLemma
    <3>2. PICK q \in e.pending : b = <<e.type, e.id, q>>
      BY <3>1
    <3>3. q \in e.pending \ {r}
      BY <2>2, <3>2
    <3>4. PICK f \in m_entries' :
            f.type = e.type /\ f.id = e.id /\ f.pending = e.pending \ {r}
      BY <1>3, <3>3
    <3>5. QED
      BY <3>2, <3>3, <3>4, ItemsLemma
  <2>3. QED
    BY <2>1, <2>2
<1>5. Items(m_entries)' = {b \in Items(m_entries) : b[3] # r}
  BY <1>4
<1>6. QED
  BY <1>5 DEF ClearReader, Board!Leave

LEMMA MarkReadTakes ==
  ASSUME Inv, NEW r \in Readers, NEW e \in m_entries, MarkRead(r, e)
  PROVE  UNCHANGED Board!vars \/ \E b \in Items(m_entries) : Board!Take(b)
<1> DEFINE b == <<e.type, e.id, r>>
<1>1. m_entries' = Cleanup(Read(m_entries, r, {e})) /\ m_entries \in SUBSET Entry
  BY DEF MarkRead, Inv, TypeOK
<1>2. \A f \in m_entries' : \E g \in m_entries :
        /\ f.type = g.type /\ f.id = g.id
        /\ f.pending = IF g \in {e} THEN g.pending \ {r} ELSE g.pending
  <2>1. \A f \in m_entries' : LeftOf(f, m_entries, r, {e})
    BY <1>1, ReadLemma
  <2>2. QED
    BY <2>1 DEF LeftOf
<1>3. \A g \in m_entries : g = [type |-> g.type, id |-> g.id, pending |-> g.pending]
  BY <1>1 DEF Entry
<1>4. ASSUME NEW g \in m_entries, g # e
      PROVE  g \in m_entries'
  <2>1. g \in Read(m_entries, r, {e})
    BY <1>4 DEF Read
  <2>2. QED
    BY <1>1, <2>1 DEF Cleanup, Inv, NoOrphan
<1>5. ASSUME e.pending \ {r} # {}
      PROVE  [type |-> e.type, id |-> e.id, pending |-> e.pending \ {r}] \in m_entries'
  <2>1. [e EXCEPT !.pending = @ \ {r}] = [type |-> e.type, id |-> e.id, pending |-> e.pending \ {r}]
    BY <1>3
  <2>2. [e EXCEPT !.pending = @ \ {r}] \in Read(m_entries, r, {e})
    BY DEF Read
  <2>3. QED
    BY <1>1, <1>5, <2>1, <2>2 DEF Cleanup
<1>6. \A x \in Items(m_entries') : x \in Items(m_entries) /\ x # b
  <2>1. SUFFICES ASSUME NEW f \in m_entries', NEW q \in f.pending
                 PROVE  <<f.type, f.id, q>> \in Items(m_entries) /\ <<f.type, f.id, q>> # b
    BY ItemsLemma
  <2>2. PICK g \in m_entries :
          /\ f.type = g.type /\ f.id = g.id
          /\ f.pending = IF g \in {e} THEN g.pending \ {r} ELSE g.pending
    BY <1>2
  <2>3. q \in g.pending
    BY <2>2
  <2>4. <<f.type, f.id, q>> \in Items(m_entries)
    BY <2>2, <2>3, ItemsLemma
  <2>5. CASE g = e
    BY <2>2, <2>4, <2>5
  <2>6. CASE g # e
    <3>1. g.type # e.type \/ g.id # e.id
      BY <2>6 DEF Inv, IdsUnique
    <3>2. QED
      BY <2>2, <2>4, <3>1
  <2>7. QED
    BY <2>5, <2>6
<1>7. ASSUME NEW x \in Items(m_entries), x # b PROVE x \in Items(m_entries')
  <2>1. PICK g \in m_entries : \E q \in g.pending : x = <<g.type, g.id, q>>
    BY ItemsLemma
  <2>2. PICK q \in g.pending : x = <<g.type, g.id, q>>
    BY <2>1
  <2>3. CASE g # e
    BY <1>4, <2>2, <2>3, ItemsLemma
  <2>4. CASE g = e
    <3>1. q \in e.pending \ {r}
      BY <1>7, <2>2, <2>4
    <3> DEFINE f == [type |-> e.type, id |-> e.id, pending |-> e.pending \ {r}]
    <3>2. f \in m_entries'
      BY <1>5, <3>1
    <3>3. f.type = e.type /\ f.id = e.id /\ q \in f.pending
      BY <3>1
    <3>4. QED
      BY <2>2, <2>4, <3>2, <3>3, ItemsLemma
  <2>5. QED
    BY <2>3, <2>4
<1>8. Items(m_entries)' = Items(m_entries) \ {b}
  BY <1>6, <1>7
<1>9. CASE b \in Items(m_entries)
  BY <1>8, <1>9 DEF MarkRead, Board!Take
<1>10. CASE b \notin Items(m_entries)
  BY <1>8, <1>10 DEF MarkRead, Board!vars
<1>11. QED
  BY <1>9, <1>10

LEMMA QueueEntryPosts ==
  ASSUME Inv, NEW filter, NEW done, QueueEntry(filter, done)
  PROVE  \E t \in Types, S \in SUBSET m_readers : Board!Post(t, S)
<1>1. PICK m \in raising :
        LET posted == [type |-> m.type, id |-> m_nextid[m.type],
                       pending |-> m.pending \ ((m_readers \ Accepting(filter, m.len)) \cup done)]
        IN  /\ m_nextid'  = [m_nextid EXCEPT ![m.type] = @ + 1]
            /\ m_entries' = Cleanup(m_entries \cup {posted})
            /\ UNCHANGED m_readers
  BY DEF QueueEntry, NotifyReaders
<1> DEFINE S == m.pending \ ((m_readers \ Accepting(filter, m.len)) \cup done)
           posted == [type |-> m.type, id |-> m_nextid[m.type], pending |-> S]
<1>2. m.type \in Types /\ S \in SUBSET m_readers
  BY DEF Inv, TypeOK, RaiseForRegistered, Message
<1>3. posted.type = m.type /\ posted.id = m_nextid[m.type] /\ posted.pending = S
  OBVIOUS
<1>4. m_entries' = {e \in m_entries \cup {posted} : e.pending # {}}
  BY <1>1 DEF Cleanup
<1> HIDE DEF S, posted
<1>5. \A x : x \in Items(m_entries') <=>
        x \in Items(m_entries) \/ \E r \in S : x = <<m.type, m_nextid[m.type], r>>
  <2>1. ASSUME NEW x \in Items(m_entries')
        PROVE  x \in Items(m_entries) \/ \E r \in S : x = <<m.type, m_nextid[m.type], r>>
    <3>1. PICK e \in m_entries' : \E q \in e.pending : x = <<e.type, e.id, q>>
      BY ItemsLemma
    <3>2. e \in m_entries \/ e = posted
      BY <1>4
    <3>3. QED
      BY <1>3, <3>1, <3>2, ItemsLemma
  <2>2. ASSUME NEW x \in Items(m_entries) PROVE x \in Items(m_entries')
    BY <1>4, ItemsLemma
  <2>3. ASSUME NEW r \in S PROVE <<m.type, m_nextid[m.type], r>> \in Items(m_entries')
    BY <1>3, <1>4, ItemsLemma
  <2>4. QED
    BY <2>1, <2>2, <2>3
<1>6. Items(m_entries)' = Items(m_entries) \cup {<<m.type, m_nextid[m.type], r>> : r \in S}
  BY <1>5
<1>7. Board!Post(m.type, S)
  BY <1>1, <1>2, <1>6 DEF Board!Post
<1>8. QED
  BY <1>2, <1>7

LEMMA StepOfBoard == Inv /\ [Next]_vars => [Board!Next]_(Board!vars)
<1>1. SUFFICES ASSUME Inv, [Next]_vars PROVE Board!Next \/ UNCHANGED Board!vars
  OBVIOUS
<1>2. ASSUME NEW r \in Readers, RegisterReader(r) PROVE Board!Next
  BY <1>2 DEF RegisterReader, Board!Join, Board!Next
<1>3. ASSUME NEW r \in Readers, ClearReader(r) PROVE Board!Next
  BY <1>1, <1>3, ClearReaderLeaves DEF Board!Next
<1>4. ASSUME NEW t, NEW filter, NEW len, NotifyString(t, len, filter)
      PROVE  UNCHANGED Board!vars
  BY <1>4 DEF NotifyString, Board!vars
<1>5. ASSUME NEW t, NEW filter, NEW out, NotifyCommand(t, out, filter)
      PROVE  UNCHANGED Board!vars
  BY <1>5 DEF NotifyCommand, Board!vars
<1>6. ASSUME NEW filter, NEW done, QueueEntry(filter, done) PROVE Board!Next
  BY <1>1, <1>6, QueueEntryPosts DEF Board!Next
<1>7. ASSUME NEW r \in Readers, NEW e \in m_entries, MarkRead(r, e)
      PROVE  Board!Next \/ UNCHANGED Board!vars
  BY <1>1, <1>7, MarkReadTakes DEF Board!Next
<1>8. CASE UNCHANGED vars
  BY <1>8 DEF vars, Board!vars
<1>9. QED
  BY <1>1, <1>2, <1>3, <1>4, <1>5, <1>6, <1>7, <1>8 DEF Next

(* The framework implements the board: numbers are fresh, records go to    *)
(* registered readers, and each reader's item leaves on its own.           *)
THEOREM NotifyImplementsBoard == Spec => ImplementsBoard
<1>1. Init => Board!Init
  BY DEF Init, Board!Init, Items
<1>2. QED
  BY InitInv, NextInv, StepOfBoard, <1>1, PTL DEF Spec, ImplementsBoard, Board!Spec

-----------------------------------------------------------------------------
(***************************************************************************)
(* The queues of the v2 channel, for any number of texts, of data records  *)
(* up to those of one call, and any delay of a retransmission.             *)
(*                                                                         *)
(* Three tasks work without a common mutex.  What keeps a text from being  *)
(* sent twice is the mutex of the type, which the notifier holds until its *)
(* text is sent or flagged.  The id of the last record sent is false while *)
(* the channel is connected by a login of a connection given up; it is set *)
(* right because such a connection still has to close, which ends the      *)
(* connection there is by then, and the next login starts from 0.  No      *)
(* connection is made while the ticker is at work, so a search that goes   *)
(* on after the connection was lost never counts for the next.             *)
(***************************************************************************)
TypeInv ==
  /\ text \subseteq TextIds /\ textNext \in 1..(MaxText + 1)
  /\ data \subseteq DataIds /\ dataNext \in 1..(MaxData + 1)
  /\ typeMutex \in BOOLEAN /\ connected \in BOOLEAN /\ m_mgconn \in BOOLEAN
  /\ loggedIn \in BOOLEAN /\ abandoned \in BOOLEAN
  /\ m_pending_notify_text \in BOOLEAN /\ m_pending_notify_data \in BOOLEAN
  /\ m_pending_notify_data_last \in DataIds \cup Garbage
  /\ npc \in {"idle", "check", "leave", "send"}
  /\ cpc \in {"idle", "login", "closing"}
  /\ tpc \in {"idle", "disconnect", "text", "textFirst", "textSend", "textMark",
              "data", "dataFirst", "dataSend", "dataLast", "dataEnd"}
  /\ entry \in Nat
  /\ textSent \in [TextIds -> Nat]

\* The text a notifier is raising, whose mutex it holds.
Raising == IF npc = "idle" THEN {} ELSE {textNext - 1}

\* A text still queued has not been sent, but by the ticker just now.
TextInv ==
  /\ typeMutex <=> npc # "idle"
  /\ \A i \in text : i < textNext
  /\ \A i \in TextIds : i >= textNext => textSent[i] = 0
  /\ \A i \in text : textSent[i] = 0 \/ (tpc = "textMark" /\ i = entry)
  /\ npc # "idle" => /\ textNext > 1 /\ textNext - 1 \in text
                     /\ textSent[textNext - 1] = 0
  /\ tpc \in {"textSend", "textMark"} => entry \in text \ Raising

Searching == tpc \in {"textFirst", "textSend", "textMark"}

\* What is queued is flagged, unless it is searched for or its notifier is
\* still at work.
FlagInv == ~Searching /\ text \ Raising # {} => m_pending_notify_text

\* No other connection than the current one is left.
Alone == m_mgconn /\ ~abandoned

\* The connection and the metric: with no other connection left the metric is
\* that of the current one, and none is made while the ticker is at work.
ConnInv ==
  /\ loggedIn => m_mgconn
  /\ cpc = "closing" \/ tpc = "disconnect" => ~m_mgconn
  /\ cpc = "login" /\ ~abandoned =>
       /\ Alone /\ loggedIn /\ ~connected /\ tpc = "idle"
       /\ m_pending_notify_data_last = 0
  /\ cpc = "idle" /\ tpc # "disconnect" /\ connected => m_mgconn \/ abandoned
  /\ Alone /\ connected => loggedIn
  /\ Alone /\ tpc # "idle" => connected

\* Where the search for records is.
DataInv ==
  /\ \A i \in data : i < dataNext
  /\ m_pending_notify_data_last \in DataIds => m_pending_notify_data_last < dataNext
  /\ tpc \in {"dataSend", "dataLast"} =>
       /\ entry \in DataIds /\ entry < dataNext
       /\ Alone => \A i \in data : i < entry => i \in wire
  /\ tpc = "dataLast" /\ Alone => entry \in wire

IInv == /\ TypeInv /\ TextInv /\ FlagInv /\ ConnInv /\ DataInv
        /\ TextAtMostOnce /\ DataKept /\ NoneSkipped

-----------------------------------------------------------------------------
(* The id a search returns is the least of those it may return.            *)
LEMMA LeastProperties ==
  ASSUME NEW S \in SUBSET Nat, S # {}
  PROVE  Least(S) \in S /\ \A j \in S : Least(S) <= j
<1>1. PICK i \in S : \A j \in S : <<j, i>> \notin OpToRel(<, Nat)
  BY NatLessThanWellFounded, WFMin
<1>2. \A j \in S : i <= j
  <2> TAKE j \in S
  <2>1. ~(j < i)
    <3>1. <<j, i>>[1] = j /\ <<j, i>>[2] = i /\ <<j, i>> \in Nat \X Nat
      OBVIOUS
    <3> QED
      BY <1>1, <3>1 DEF OpToRel
  <2> QED
    BY <2>1
<1> QED
  BY <1>2 DEF Least

LEMMA InitIInv == V2Init => IInv
<1> SUFFICES ASSUME V2Init PROVE IInv
  OBVIOUS
<1>1. TypeInv
  <2>1. textSent \in [TextIds -> Nat]
    BY DEF V2Init
  <2>2. 1 \in 1..(MaxText + 1) /\ 1 \in 1..(MaxData + 1)
    BY BoundsAssumption
  <2>3. text \subseteq TextIds /\ data \subseteq DataIds
    BY DEF V2Init
  <2> QED
    BY <2>1, <2>2, <2>3 DEF V2Init, TypeInv, Garbage
<1>2. ConnInv /\ TextInv /\ FlagInv /\ TextAtMostOnce
  BY DEF V2Init, ConnInv, Alone, TextInv, FlagInv, TextAtMostOnce
<1>3. DataInv /\ DataKept /\ NoneSkipped
  BY DEF V2Init, DataInv, Alone, DataKept, NoneSkipped, Settled
<1> QED
  BY <1>1, <1>2, <1>3 DEF IInv

LEMMA TransmitType ==
  ASSUME textSent \in [TextIds -> Nat], NEW i, TransmitText(i)
  PROVE  textSent' \in [TextIds -> Nat]
<1>1. CASE i \in TextIds
  BY <1>1 DEF TransmitText
<1>2. CASE i \notin TextIds
  BY <1>2 DEF TransmitText
<1> QED
  BY <1>1, <1>2

LEMMA RaiseTextStep == IInv /\ RaiseText => IInv'
<1> SUFFICES ASSUME IInv, RaiseText PROVE IInv'
  OBVIOUS
<1> USE BoundsAssumption DEF IInv, RaiseText, queues, conn, flags, ticker, history
<1>1. TypeInv'
  BY DEF TypeInv, TextIds, DataIds, Garbage
<1>2. ConnInv'
  BY DEF ConnInv, Alone
<1>3. TextInv'
  BY DEF TextInv, TypeInv, Raising, TextIds
<1>4. FlagInv'
  BY DEF FlagInv, TextInv, ConnInv, Searching, Raising, TypeInv, TextIds
<1>5. DataInv'
  BY DEF DataInv, ConnInv, Alone, TypeInv, DataIds, NoneSkipped, Settled, Garbage
<1>6. TextAtMostOnce'
  BY DEF TextAtMostOnce, TextInv, TypeInv
<1>7. DataKept'
  BY DEF DataKept, TypeInv
<1>8. NoneSkipped'
  BY DEF NoneSkipped, Settled, DataInv, ConnInv, Alone, TypeInv, DataIds, Garbage
<1> QED
  BY <1>1, <1>2, <1>3, <1>4, <1>5, <1>6, <1>7, <1>8

LEMMA SeeDisconnectedStep == IInv /\ SeeDisconnected => IInv'
<1> SUFFICES ASSUME IInv, SeeDisconnected PROVE IInv'
  OBVIOUS
<1> USE BoundsAssumption DEF IInv, SeeDisconnected, queues, conn, flags, ticker, history
<1>1. TypeInv'
  BY DEF TypeInv, TextIds, DataIds, Garbage
<1>2. ConnInv'
  BY DEF ConnInv, Alone
<1>3. TextInv'
  BY DEF TextInv, TypeInv, Raising, TextIds
<1>4. FlagInv'
  BY DEF FlagInv, TextInv, ConnInv, Searching, Raising, TypeInv, TextIds
<1>5. DataInv'
  BY DEF DataInv, ConnInv, Alone, TypeInv, DataIds, NoneSkipped, Settled, Garbage
<1>6. TextAtMostOnce'
  BY DEF TextAtMostOnce, TextInv, TypeInv
<1>7. DataKept'
  BY DEF DataKept, TypeInv
<1>8. NoneSkipped'
  BY DEF NoneSkipped, Settled, DataInv, ConnInv, Alone, TypeInv, DataIds, Garbage
<1> QED
  BY <1>1, <1>2, <1>3, <1>4, <1>5, <1>6, <1>7, <1>8

LEMMA LeaveQueuedStep == IInv /\ LeaveQueued => IInv'
<1> SUFFICES ASSUME IInv, LeaveQueued PROVE IInv'
  OBVIOUS
<1> USE BoundsAssumption DEF IInv, LeaveQueued, queues, conn, flags, ticker, history
<1>1. TypeInv'
  BY DEF TypeInv, TextIds, DataIds, Garbage
<1>2. ConnInv'
  BY DEF ConnInv, Alone
<1>3. TextInv'
  BY DEF TextInv, TypeInv, Raising, TextIds
<1>4. FlagInv'
  BY DEF FlagInv, TextInv, ConnInv, Searching, Raising, TypeInv, TextIds
<1>5. DataInv'
  BY DEF DataInv, ConnInv, Alone, TypeInv, DataIds, NoneSkipped, Settled, Garbage
<1>6. TextAtMostOnce'
  BY DEF TextAtMostOnce, TextInv, TypeInv
<1>7. DataKept'
  BY DEF DataKept, TypeInv
<1>8. NoneSkipped'
  BY DEF NoneSkipped, Settled, DataInv, ConnInv, Alone, TypeInv, DataIds, Garbage
<1> QED
  BY <1>1, <1>2, <1>3, <1>4, <1>5, <1>6, <1>7, <1>8

LEMMA SeeConnectedStep == IInv /\ SeeConnected => IInv'
<1> SUFFICES ASSUME IInv, SeeConnected PROVE IInv'
  OBVIOUS
<1> USE BoundsAssumption DEF IInv, SeeConnected, queues, conn, flags, ticker, history
<1>1. TypeInv'
  BY DEF TypeInv, TextIds, DataIds, Garbage
<1>2. ConnInv'
  BY DEF ConnInv, Alone
<1>3. TextInv'
  BY DEF TextInv, TypeInv, Raising, TextIds
<1>4. FlagInv'
  BY DEF FlagInv, TextInv, ConnInv, Searching, Raising, TypeInv, TextIds
<1>5. DataInv'
  BY DEF DataInv, ConnInv, Alone, TypeInv, DataIds, NoneSkipped, Settled, Garbage
<1>6. TextAtMostOnce'
  BY DEF TextAtMostOnce, TextInv, TypeInv
<1>7. DataKept'
  BY DEF DataKept, TypeInv
<1>8. NoneSkipped'
  BY DEF NoneSkipped, Settled, DataInv, ConnInv, Alone, TypeInv, DataIds, Garbage
<1> QED
  BY <1>1, <1>2, <1>3, <1>4, <1>5, <1>6, <1>7, <1>8

LEMMA SendNowStep == IInv /\ SendNow => IInv'
<1> SUFFICES ASSUME IInv, SendNow PROVE IInv'
  OBVIOUS
<1> USE BoundsAssumption DEF IInv, SendNow, TransmitText, queues, conn, flags, ticker, history
<1>1. TypeInv'
  <2>1. textSent \in [TextIds -> Nat]
    BY DEF TypeInv
  <2>2. textSent' \in [TextIds -> Nat]
    BY <2>1, TransmitType
  <2>3. text' \subseteq TextIds /\ typeMutex' \in BOOLEAN /\ npc' = "idle"
    BY DEF TypeInv
  <2>4. UNCHANGED <<textNext, data, dataNext, connected, m_mgconn, loggedIn, abandoned,
                    cpc, m_pending_notify_text, m_pending_notify_data,
                    m_pending_notify_data_last, m_pending_notify_data_retransmit,
                    tpc, entry>>
    OBVIOUS
  <2> HIDE DEF IInv, SendNow
  <2>5. TypeInv
    BY DEF IInv
  <2> QED
    BY <2>2, <2>3, <2>4, <2>5 DEF TypeInv
<1>2. ConnInv'
  BY DEF ConnInv, Alone
<1>3. TextInv'
  BY DEF TextInv, TypeInv, Raising, TextIds
<1>4. FlagInv'
  BY DEF FlagInv, TextInv, ConnInv, Searching, Raising, TypeInv, TextIds
<1>5. DataInv'
  BY DEF DataInv, ConnInv, Alone, TypeInv, DataIds, NoneSkipped, Settled, Garbage
<1>6. TextAtMostOnce'
  BY DEF TextAtMostOnce, TextInv, TypeInv
<1>7. DataKept'
  BY DEF DataKept, TypeInv
<1>8. NoneSkipped'
  BY DEF NoneSkipped, Settled, DataInv, ConnInv, Alone, TypeInv, DataIds, Garbage
<1> QED
  BY <1>1, <1>2, <1>3, <1>4, <1>5, <1>6, <1>7, <1>8

LEMMA RaiseDataStep == IInv /\ RaiseData => IInv'
<1> SUFFICES ASSUME IInv, RaiseData PROVE IInv'
  OBVIOUS
<1> USE BoundsAssumption DEF IInv, RaiseData, queues, conn, flags, ticker, history
<1>1. TypeInv'
  BY DEF TypeInv, TextIds, DataIds, Garbage
<1>2. ConnInv'
  BY DEF ConnInv, Alone
<1>3. TextInv'
  BY DEF TextInv, TypeInv, Raising, TextIds
<1>4. FlagInv'
  BY DEF FlagInv, TextInv, ConnInv, Searching, Raising, TypeInv, TextIds
<1>5. DataInv'
  BY DEF DataInv, ConnInv, Alone, TypeInv, DataIds, NoneSkipped, Settled, Garbage
<1>6. TextAtMostOnce'
  BY DEF TextAtMostOnce, TextInv, TypeInv
<1>7. DataKept'
  BY DEF DataKept, TypeInv
<1>8. NoneSkipped'
  BY DEF NoneSkipped, Settled, DataInv, ConnInv, Alone, TypeInv, DataIds, Garbage
<1> QED
  BY <1>1, <1>2, <1>3, <1>4, <1>5, <1>6, <1>7, <1>8

LEMMA TickStartStep == IInv /\ TickStart => IInv'
<1> SUFFICES ASSUME IInv, TickStart PROVE IInv'
  OBVIOUS
<1> USE BoundsAssumption DEF IInv, TickStart, queues, conn, flags, ticker, history
<1>1. TypeInv'
  BY DEF TypeInv, TextIds, DataIds, Garbage
<1>2. ConnInv'
  BY DEF ConnInv, Alone
<1>3. TextInv'
  BY DEF TextInv, TypeInv, Raising, TextIds
<1>4. FlagInv'
  BY DEF FlagInv, TextInv, ConnInv, Searching, Raising, TypeInv, TextIds
<1>5. DataInv'
  BY DEF DataInv, ConnInv, Alone, TypeInv, DataIds, NoneSkipped, Settled, Garbage
<1>6. TextAtMostOnce'
  BY DEF TextAtMostOnce, TextInv, TypeInv
<1>7. DataKept'
  BY DEF DataKept, TypeInv
<1>8. NoneSkipped'
  BY DEF NoneSkipped, Settled, DataInv, ConnInv, Alone, TypeInv, DataIds, Garbage
<1> QED
  BY <1>1, <1>2, <1>3, <1>4, <1>5, <1>6, <1>7, <1>8

LEMMA TextStartStep == IInv /\ TextStart => IInv'
<1> SUFFICES ASSUME IInv, TextStart PROVE IInv'
  OBVIOUS
<1> USE BoundsAssumption DEF IInv, TextStart, queues, conn, flags, ticker, history
<1>1. TypeInv'
  BY DEF TypeInv
<1>2. ConnInv'
  BY DEF ConnInv, Alone
<1>3. TextInv'
  BY DEF TextInv, TypeInv, Raising, TextIds
<1>4. FlagInv'
  BY DEF FlagInv, TextInv, ConnInv, Searching, Raising, TypeInv, TextIds
<1>5. DataInv'
  BY DEF DataInv, ConnInv, Alone, TypeInv, DataIds, NoneSkipped, Settled, Garbage
<1>6. TextAtMostOnce'
  BY DEF TextAtMostOnce, TextInv, TypeInv
<1>7. DataKept'
  BY DEF DataKept, TypeInv
<1>8. NoneSkipped'
  BY DEF NoneSkipped, Settled, DataInv, ConnInv, Alone, TypeInv, DataIds, Garbage
<1> QED
  BY <1>1, <1>2, <1>3, <1>4, <1>5, <1>6, <1>7, <1>8

LEMMA TextFirstStep == IInv /\ TextFirst => IInv'
<1> SUFFICES ASSUME IInv, TextFirst PROVE IInv'
  OBVIOUS
<1> USE BoundsAssumption DEF IInv, TextFirst, queues, conn, flags, ticker, history
<1>1. TypeInv'
  <2>1. text # {} => Least(text) \in text
    BY LeastProperties DEF TypeInv, TextIds
  <2>2. text \subseteq Nat
    BY DEF TypeInv, TextIds
  <2>3. entry' \in Nat
    BY <2>1, <2>2 DEF TypeInv
  <2> QED
    BY <2>3 DEF TypeInv, TextIds, DataIds, Garbage
<1>2. ConnInv'
  BY DEF ConnInv, Alone
<1>3. TextInv'
  <2>1. text # {} => Least(text) \in text
    BY LeastProperties DEF TypeInv, TextIds
  <2> QED
    BY <2>1 DEF TextInv, TypeInv, Raising, TextIds
<1>4. FlagInv'
  BY DEF FlagInv, TextInv, ConnInv, Searching, Raising, TypeInv, TextIds
<1>5. DataInv'
  BY DEF DataInv, ConnInv, Alone, TypeInv, DataIds, NoneSkipped, Settled, Garbage
<1>6. TextAtMostOnce'
  BY DEF TextAtMostOnce, TextInv, TypeInv
<1>7. DataKept'
  BY DEF DataKept, TypeInv
<1>8. NoneSkipped'
  BY DEF NoneSkipped, Settled, DataInv, ConnInv, Alone, TypeInv, DataIds, Garbage
<1> QED
  BY <1>1, <1>2, <1>3, <1>4, <1>5, <1>6, <1>7, <1>8

LEMMA TextSendStep == IInv /\ TextSend => IInv'
<1> SUFFICES ASSUME IInv, TextSend PROVE IInv'
  OBVIOUS
<1> USE BoundsAssumption DEF IInv, TextSend, TransmitText, queues, conn, flags, ticker, history
<1>1. TypeInv'
  <2>1. textSent \in [TextIds -> Nat]
    BY DEF TypeInv
  <2>2. textSent' \in [TextIds -> Nat]
    BY <2>1, TransmitType
  <2>3. UNCHANGED <<queues, conn, flags, npc, entry>> /\ tpc' = "textMark"
    OBVIOUS
  <2> HIDE DEF IInv, TextSend
  <2>4. TypeInv
    BY DEF IInv
  <2> QED
    BY <2>2, <2>3, <2>4 DEF TypeInv
<1>2. ConnInv'
  BY DEF ConnInv, Alone
<1>3. TextInv'
  BY DEF TextInv, TypeInv, Raising, TextIds
<1>4. FlagInv'
  BY DEF FlagInv, TextInv, ConnInv, Searching, Raising, TypeInv, TextIds
<1>5. DataInv'
  BY DEF DataInv, ConnInv, Alone, TypeInv, DataIds, NoneSkipped, Settled, Garbage
<1>6. TextAtMostOnce'
  BY DEF TextAtMostOnce, TextInv, TypeInv
<1>7. DataKept'
  BY DEF DataKept, TypeInv
<1>8. NoneSkipped'
  BY DEF NoneSkipped, Settled, DataInv, ConnInv, Alone, TypeInv, DataIds, Garbage
<1> QED
  BY <1>1, <1>2, <1>3, <1>4, <1>5, <1>6, <1>7, <1>8

LEMMA TextMarkStep == IInv /\ TextMark => IInv'
<1> SUFFICES ASSUME IInv, TextMark PROVE IInv'
  OBVIOUS
<1> USE BoundsAssumption DEF IInv, TextMark, queues, conn, flags, ticker, history
<1>1. TypeInv'
  BY DEF TypeInv, TextIds, DataIds, Garbage
<1>2. ConnInv'
  BY DEF ConnInv, Alone
<1>3. TextInv'
  BY DEF TextInv, TypeInv, Raising, TextIds
<1>4. FlagInv'
  BY DEF FlagInv, TextInv, ConnInv, Searching, Raising, TypeInv, TextIds
<1>5. DataInv'
  BY DEF DataInv, ConnInv, Alone, TypeInv, DataIds, NoneSkipped, Settled, Garbage
<1>6. TextAtMostOnce'
  BY DEF TextAtMostOnce, TextInv, TypeInv
<1>7. DataKept'
  BY DEF DataKept, TypeInv
<1>8. NoneSkipped'
  BY DEF NoneSkipped, Settled, DataInv, ConnInv, Alone, TypeInv, DataIds, Garbage
<1> QED
  BY <1>1, <1>2, <1>3, <1>4, <1>5, <1>6, <1>7, <1>8

LEMMA DataStartStep == IInv /\ DataStart => IInv'
<1> SUFFICES ASSUME IInv, DataStart PROVE IInv'
  OBVIOUS
<1> USE BoundsAssumption DEF IInv, DataStart, queues, conn, flags, ticker, history
<1>1. TypeInv'
  BY DEF TypeInv, TextIds, DataIds, Garbage
<1>2. ConnInv'
  BY DEF ConnInv, Alone
<1>3. TextInv'
  BY DEF TextInv, TypeInv, Raising, TextIds
<1>4. FlagInv'
  BY DEF FlagInv, TextInv, ConnInv, Searching, Raising, TypeInv, TextIds
<1>5. DataInv'
  BY DEF DataInv, ConnInv, Alone, TypeInv, DataIds, NoneSkipped, Settled, Garbage
<1>6. TextAtMostOnce'
  BY DEF TextAtMostOnce, TextInv, TypeInv
<1>7. DataKept'
  BY DEF DataKept, TypeInv
<1>8. NoneSkipped'
  BY DEF NoneSkipped, Settled, DataInv, ConnInv, Alone, TypeInv, DataIds, Garbage
<1> QED
  BY <1>1, <1>2, <1>3, <1>4, <1>5, <1>6, <1>7, <1>8

LEMMA DataFirstStep == IInv /\ DataFirst => IInv'
<1> SUFFICES ASSUME IInv, DataFirst PROVE IInv'
  OBVIOUS
<1> USE BoundsAssumption DEF IInv, DataFirst, queues, conn, flags, ticker, history
<1>1. TypeInv'
  <2> DEFINE unread == {i \in data : i > m_pending_notify_data_last}
  <2>1. data \subseteq Nat /\ unread \in SUBSET Nat
    BY data \subseteq DataIds, DataIds \subseteq Nat DEF TypeInv, DataIds
  <2>2. unread # {} => /\ Least(unread) \in unread
                       /\ \A j \in unread : Least(unread) <= j
    BY <2>1, LeastProperties
  <2>3. entry' \in Nat
    BY <2>1, <2>2 DEF TypeInv
  <2> QED
    BY <2>3 DEF TypeInv, TextIds, DataIds, Garbage
<1>2. ConnInv'
  BY DEF ConnInv, Alone
<1>3. TextInv'
  BY DEF TextInv, TypeInv, Raising, TextIds
<1>4. FlagInv'
  BY DEF FlagInv, TextInv, ConnInv, Searching, Raising, TypeInv, TextIds
<1>5. DataInv'
  <2> DEFINE unread == {i \in data : i > m_pending_notify_data_last}
  <2>1. data \subseteq Nat /\ unread \in SUBSET Nat
    BY data \subseteq DataIds, DataIds \subseteq Nat DEF TypeInv, DataIds
  <2>2. unread # {} => /\ Least(unread) \in unread
                       /\ \A j \in unread : Least(unread) <= j
    BY <2>1, LeastProperties
  <2>3. CASE unread = {}
    BY <2>3 DEF DataInv, TypeInv
  <2>4. CASE unread # {}
    <3>1. /\ entry' \in data /\ entry' > m_pending_notify_data_last
          /\ \A i \in data : i < entry' => ~(i > m_pending_notify_data_last)
      BY <2>1, <2>2, <2>4 DEF TypeInv, DataIds
    <3>2. tpc' = "dataSend"
      BY <2>4
    <3>3. Alone' => \A i \in data : i < entry' => i \in wire
      BY <3>1 DEF NoneSkipped, Settled, ConnInv, Alone, TypeInv, DataIds, Garbage
    <3> QED
      BY <3>1, <3>2, <3>3 DEF DataInv, TypeInv, DataIds, NoneSkipped
  <2> QED
    BY <2>3, <2>4
<1>6. TextAtMostOnce'
  BY DEF TextAtMostOnce, TextInv, TypeInv
<1>7. DataKept'
  BY DEF DataKept, TypeInv
<1>8. NoneSkipped'
  BY DEF NoneSkipped, Settled, DataInv, ConnInv, Alone, TypeInv, DataIds, Garbage
<1> QED
  BY <1>1, <1>2, <1>3, <1>4, <1>5, <1>6, <1>7, <1>8

LEMMA DataSendStep == IInv /\ DataSend => IInv'
<1> SUFFICES ASSUME IInv, DataSend PROVE IInv'
  OBVIOUS
<1> USE BoundsAssumption DEF IInv, DataSend, TransmitData, queues, conn, flags, ticker, history
<1>1. TypeInv'
  BY DEF TypeInv, TextIds, DataIds, Garbage
<1>2. ConnInv'
  BY DEF ConnInv, Alone
<1>3. TextInv'
  BY DEF TextInv, TypeInv, Raising, TextIds
<1>4. FlagInv'
  BY DEF FlagInv, TextInv, ConnInv, Searching, Raising, TypeInv, TextIds
<1>5. DataInv'
  BY DEF DataInv, ConnInv, Alone, TypeInv, DataIds, NoneSkipped, Settled, Garbage
<1>6. TextAtMostOnce'
  BY DEF TextAtMostOnce, TextInv, TypeInv
<1>7. DataKept'
  BY DEF DataKept, TypeInv
<1>8. NoneSkipped'
  BY DEF NoneSkipped, Settled, DataInv, ConnInv, Alone, TypeInv, DataIds, Garbage
<1> QED
  BY <1>1, <1>2, <1>3, <1>4, <1>5, <1>6, <1>7, <1>8

LEMMA DataLastStep == IInv /\ DataLast => IInv'
<1> SUFFICES ASSUME IInv, DataLast PROVE IInv'
  OBVIOUS
<1> USE BoundsAssumption DEF IInv, DataLast, queues, conn, flags, ticker, history
<1>1. TypeInv'
  BY DEF TypeInv, DataInv, TextIds, DataIds, Garbage
<1>2. ConnInv'
  BY DEF ConnInv, Alone
<1>3. TextInv'
  BY DEF TextInv, TypeInv, Raising, TextIds
<1>4. FlagInv'
  BY DEF FlagInv, TextInv, ConnInv, Searching, Raising, TypeInv, TextIds
<1>5. DataInv'
  BY DEF DataInv, ConnInv, Alone, TypeInv, DataIds, NoneSkipped, Settled, Garbage
<1>6. TextAtMostOnce'
  BY DEF TextAtMostOnce, TextInv, TypeInv
<1>7. DataKept'
  BY DEF DataKept, TypeInv
<1>8. NoneSkipped'
  BY DEF NoneSkipped, Settled, DataInv, ConnInv, Alone, TypeInv, DataIds, Garbage
<1> QED
  BY <1>1, <1>2, <1>3, <1>4, <1>5, <1>6, <1>7, <1>8

LEMMA DataEndStep == IInv /\ DataEnd => IInv'
<1> SUFFICES ASSUME IInv, DataEnd PROVE IInv'
  OBVIOUS
<1> USE BoundsAssumption DEF IInv, DataEnd, queues, conn, flags, ticker, history
<1>1. TypeInv'
  BY DEF TypeInv, TextIds, DataIds, Garbage
<1>2. ConnInv'
  BY DEF ConnInv, Alone
<1>3. TextInv'
  BY DEF TextInv, TypeInv, Raising, TextIds
<1>4. FlagInv'
  BY DEF FlagInv, TextInv, ConnInv, Searching, Raising, TypeInv, TextIds
<1>5. DataInv'
  BY DEF DataInv, ConnInv, Alone, TypeInv, DataIds, NoneSkipped, Settled, Garbage
<1>6. TextAtMostOnce'
  BY DEF TextAtMostOnce, TextInv, TypeInv
<1>7. DataKept'
  BY DEF DataKept, TypeInv
<1>8. NoneSkipped'
  BY DEF NoneSkipped, Settled, DataInv, ConnInv, Alone, TypeInv, DataIds, Garbage
<1> QED
  BY <1>1, <1>2, <1>3, <1>4, <1>5, <1>6, <1>7, <1>8

LEMMA DisconnectStep == IInv /\ Disconnect => IInv'
<1> SUFFICES ASSUME IInv, Disconnect PROVE IInv'
  OBVIOUS
<1> USE BoundsAssumption DEF IInv, Disconnect, queues, conn, flags, ticker, history
<1>1. TypeInv'
  BY DEF TypeInv, TextIds, DataIds, Garbage
<1>2. ConnInv'
  BY DEF ConnInv, Alone
<1>3. TextInv'
  BY DEF TextInv, TypeInv, Raising, TextIds
<1>4. FlagInv'
  BY DEF FlagInv, TextInv, ConnInv, Searching, Raising, TypeInv, TextIds
<1>5. DataInv'
  BY DEF DataInv, ConnInv, Alone, TypeInv, DataIds, NoneSkipped, Settled, Garbage
<1>6. TextAtMostOnce'
  BY DEF TextAtMostOnce, TextInv, TypeInv
<1>7. DataKept'
  BY DEF DataKept, TypeInv
<1>8. NoneSkipped'
  BY DEF NoneSkipped, Settled, DataInv, ConnInv, Alone, TypeInv, DataIds, Garbage
<1> QED
  BY <1>1, <1>2, <1>3, <1>4, <1>5, <1>6, <1>7, <1>8

LEMMA DisconnectedStep == IInv /\ Disconnected => IInv'
<1> SUFFICES ASSUME IInv, Disconnected PROVE IInv'
  OBVIOUS
<1> USE BoundsAssumption DEF IInv, Disconnected, queues, conn, flags, ticker, history
<1>1. TypeInv'
  BY DEF TypeInv, TextIds, DataIds, Garbage
<1>2. ConnInv'
  BY DEF ConnInv, Alone
<1>3. TextInv'
  BY DEF TextInv, TypeInv, Raising, TextIds
<1>4. FlagInv'
  BY DEF FlagInv, TextInv, ConnInv, Searching, Raising, TypeInv, TextIds
<1>5. DataInv'
  BY DEF DataInv, ConnInv, Alone, TypeInv, DataIds, NoneSkipped, Settled, Garbage
<1>6. TextAtMostOnce'
  BY DEF TextAtMostOnce, TextInv, TypeInv
<1>7. DataKept'
  BY DEF DataKept, TypeInv
<1>8. NoneSkipped'
  BY DEF NoneSkipped, Settled, DataInv, ConnInv, Alone, TypeInv, DataIds, Garbage
<1> QED
  BY <1>1, <1>2, <1>3, <1>4, <1>5, <1>6, <1>7, <1>8

LEMMA ConnectStep == IInv /\ Connect => IInv'
<1> SUFFICES ASSUME IInv, Connect PROVE IInv'
  OBVIOUS
<1> USE BoundsAssumption DEF IInv, Connect, queues, conn, flags, ticker, history
<1>1. TypeInv'
  BY DEF TypeInv, TextIds, DataIds, Garbage
<1>2. ConnInv'
  BY DEF ConnInv, Alone, TypeInv
<1>3. TextInv'
  BY DEF TextInv, TypeInv, Raising, TextIds
<1>4. FlagInv'
  BY DEF FlagInv, TextInv, ConnInv, Searching, Raising, TypeInv, TextIds
<1>5. DataInv'
  BY DEF DataInv, ConnInv, Alone, TypeInv, DataIds, NoneSkipped, Settled, Garbage
<1>6. TextAtMostOnce'
  BY DEF TextAtMostOnce, TextInv, TypeInv
<1>7. DataKept'
  BY DEF DataKept, TypeInv
<1>8. NoneSkipped'
  BY DEF NoneSkipped, Settled, DataInv, ConnInv, Alone, TypeInv, DataIds, Garbage
<1> QED
  BY <1>1, <1>2, <1>3, <1>4, <1>5, <1>6, <1>7, <1>8

LEMMA LoginStep == IInv /\ Login => IInv'
<1> SUFFICES ASSUME IInv, Login PROVE IInv'
  OBVIOUS
<1> USE BoundsAssumption DEF IInv, Login, queues, conn, flags, ticker, history
<1>1. TypeInv'
  BY DEF TypeInv, TextIds, DataIds, Garbage
<1>2. ConnInv'
  BY DEF ConnInv, Alone
<1>3. TextInv'
  BY DEF TextInv, TypeInv, Raising, TextIds
<1>4. FlagInv'
  BY DEF FlagInv, TextInv, ConnInv, Searching, Raising, TypeInv, TextIds
<1>5. DataInv'
  BY DEF DataInv, ConnInv, Alone, TypeInv, DataIds, NoneSkipped, Settled, Garbage
<1>6. TextAtMostOnce'
  BY DEF TextAtMostOnce, TextInv, TypeInv
<1>7. DataKept'
  BY DEF DataKept, TypeInv
<1>8. NoneSkipped'
  BY DEF NoneSkipped, Settled, DataInv, ConnInv, Alone, TypeInv, DataIds, Garbage
<1> QED
  BY <1>1, <1>2, <1>3, <1>4, <1>5, <1>6, <1>7, <1>8

LEMMA LoginDoneStep == IInv /\ LoginDone => IInv'
<1> SUFFICES ASSUME IInv, LoginDone PROVE IInv'
  OBVIOUS
<1> USE BoundsAssumption DEF IInv, LoginDone, queues, conn, flags, ticker, history
<1>1. TypeInv'
  BY DEF TypeInv, TextIds, DataIds, Garbage
<1>2. ConnInv'
  BY DEF ConnInv, Alone
<1>3. TextInv'
  BY DEF TextInv, TypeInv, Raising, TextIds
<1>4. FlagInv'
  BY DEF FlagInv, TextInv, ConnInv, Searching, Raising, TypeInv, TextIds
<1>5. DataInv'
  BY DEF DataInv, ConnInv, Alone, TypeInv, DataIds, NoneSkipped, Settled, Garbage
<1>6. TextAtMostOnce'
  BY DEF TextAtMostOnce, TextInv, TypeInv
<1>7. DataKept'
  BY DEF DataKept, TypeInv
<1>8. NoneSkipped'
  BY DEF NoneSkipped, Settled, DataInv, ConnInv, Alone, TypeInv, DataIds, Garbage
<1> QED
  BY <1>1, <1>2, <1>3, <1>4, <1>5, <1>6, <1>7, <1>8

LEMMA CloseStep == IInv /\ Close => IInv'
<1> SUFFICES ASSUME IInv, Close PROVE IInv'
  OBVIOUS
<1> USE BoundsAssumption DEF IInv, Close, queues, conn, flags, ticker, history
<1>1. TypeInv'
  BY DEF TypeInv, TextIds, DataIds, Garbage
<1>2. ConnInv'
  BY DEF ConnInv, Alone
<1>3. TextInv'
  BY DEF TextInv, TypeInv, Raising, TextIds
<1>4. FlagInv'
  BY DEF FlagInv, TextInv, ConnInv, Searching, Raising, TypeInv, TextIds
<1>5. DataInv'
  BY DEF DataInv, ConnInv, Alone, TypeInv, DataIds, NoneSkipped, Settled, Garbage
<1>6. TextAtMostOnce'
  BY DEF TextAtMostOnce, TextInv, TypeInv
<1>7. DataKept'
  BY DEF DataKept, TypeInv
<1>8. NoneSkipped'
  BY DEF NoneSkipped, Settled, DataInv, ConnInv, Alone, TypeInv, DataIds, Garbage
<1> QED
  BY <1>1, <1>2, <1>3, <1>4, <1>5, <1>6, <1>7, <1>8

LEMMA CloseDoneStep == IInv /\ CloseDone => IInv'
<1> SUFFICES ASSUME IInv, CloseDone PROVE IInv'
  OBVIOUS
<1> USE BoundsAssumption DEF IInv, CloseDone, queues, conn, flags, ticker, history
<1>1. TypeInv'
  <2>1. connected' \in BOOLEAN /\ cpc' \in {"idle", "login", "closing"}
    OBVIOUS
  <2> QED
    BY <2>1, SMTT(60) DEF TypeInv
<1>2. ConnInv'
  BY DEF ConnInv, Alone
<1>3. TextInv'
  BY DEF TextInv, TypeInv, Raising, TextIds
<1>4. FlagInv'
  BY DEF FlagInv, TextInv, ConnInv, Searching, Raising, TypeInv, TextIds
<1>5. DataInv'
  BY DEF DataInv, ConnInv, Alone, TypeInv, DataIds, NoneSkipped, Settled, Garbage
<1>6. TextAtMostOnce'
  BY DEF TextAtMostOnce, TextInv, TypeInv
<1>7. DataKept'
  BY DEF DataKept, TypeInv
<1>8. NoneSkipped'
  BY DEF NoneSkipped, Settled, DataInv, ConnInv, Alone, TypeInv, DataIds, Garbage
<1> QED
  BY <1>1, <1>2, <1>3, <1>4, <1>5, <1>6, <1>7, <1>8

LEMMA ServerStoresStep == \A i \in DataIds : IInv /\ ServerStores(i) => IInv'
<1> SUFFICES ASSUME NEW i \in DataIds, IInv, ServerStores(i) PROVE IInv'
  OBVIOUS
<1> USE BoundsAssumption DEF IInv, ServerStores, queues, conn, flags, ticker, history
<1>1. TypeInv' /\ ConnInv'
  BY DEF TypeInv, ConnInv, Alone
<1>2. TextInv' /\ FlagInv' /\ TextAtMostOnce'
  BY DEF TextInv, FlagInv, Searching, Raising, TextAtMostOnce
<1>3. DataInv' /\ NoneSkipped'
  BY DEF DataInv, Alone, NoneSkipped, Settled
<1>4. DataKept'
  BY DEF DataKept
<1> QED
  BY <1>1, <1>2, <1>3, <1>4

LEMMA HandleNotifyDataAckStep == \A i \in DataIds : IInv /\ HandleNotifyDataAck(i) => IInv'
<1> SUFFICES ASSUME NEW i \in DataIds, IInv, HandleNotifyDataAck(i) PROVE IInv'
  OBVIOUS
<1> USE BoundsAssumption DEF IInv, HandleNotifyDataAck, queues, conn, flags, ticker, history
<1>1. TypeInv' /\ ConnInv'
  BY DEF TypeInv, ConnInv, Alone
<1>2. TextInv' /\ FlagInv' /\ TextAtMostOnce'
  BY DEF TextInv, FlagInv, Searching, Raising, TextAtMostOnce
<1>3. DataInv' /\ NoneSkipped'
  BY DEF DataInv, Alone, NoneSkipped, Settled
<1>4. DataKept'
  BY DEF DataKept
<1> QED
  BY <1>1, <1>2, <1>3, <1>4

LEMMA Stutter == IInv /\ UNCHANGED v2vars => IInv'
BY DEF IInv, TypeInv, TextInv, FlagInv, ConnInv, DataInv, TextAtMostOnce, DataKept,
       NoneSkipped, Settled, Alone, Searching, Raising,
       v2vars, queues, conn, flags, ticker, history

LEMMA NextIInv == IInv /\ [V2Next]_v2vars => IInv'
<1> SUFFICES ASSUME IInv, [V2Next]_v2vars PROVE IInv'
  OBVIOUS
<1>1. CASE Notifier
  BY <1>1, RaiseTextStep, SeeDisconnectedStep, LeaveQueuedStep, SeeConnectedStep,
     SendNowStep, RaiseDataStep DEF Notifier
<1>2. CASE Ticker1
  BY <1>2, TickStartStep, TextStartStep, TextFirstStep, TextSendStep, TextMarkStep,
     DataStartStep, DataFirstStep, DataSendStep, DataLastStep, DataEndStep DEF Ticker1
<1>3. CASE Network
  BY <1>3, DisconnectStep, DisconnectedStep, ConnectStep, LoginStep, LoginDoneStep,
     CloseStep, CloseDoneStep, ServerStoresStep, HandleNotifyDataAckStep DEF Network
<1>4. CASE UNCHANGED v2vars
  BY <1>4, Stutter
<1> QED
  BY <1>1, <1>2, <1>3, <1>4 DEF V2Next

LEMMA ServerV2NotifyInvariant == V2Spec => []IInv
BY InitIInv, NextIInv, PTL DEF V2Spec

-----------------------------------------------------------------------------
(* A data record IncomingNotification was given is unread until the server *)
(* has stored it (HandleNotifyDataAck), whatever becomes of connections.   *)
THEOREM ServerV2NotifyKeepsData == V2Spec => []DataKept
<1>1. IInv => DataKept
  BY DEF IInv
<1> QED
  BY <1>1, ServerV2NotifyInvariant, PTL

(* IncomingNotification and TransmitNotifyInfo, -Error and -Alert between  *)
(* them send a text at most once.                                          *)
THEOREM ServerV2NotifySendsTextOnce == V2Spec => []TextAtMostOnce
<1>1. IInv => TextAtMostOnce
  BY DEF IInv
<1> QED
  BY <1>1, ServerV2NotifyInvariant, PTL

(* What is queued at the end of a call is flagged for the next tick; and a *)
(* record TransmitNotifyData passes over was sent over this connection,    *)
(* once the connections given up, maybe in the middle of a login, closed.  *)
THEOREM ServerV2NotifyForgetsNothing == V2Spec => []NothingForgotten
<1>1. IInv => NothingForgotten
  BY DEF IInv, NothingForgotten, TextFlagged, FlagInv, Searching, Raising
<1> QED
  BY <1>1, ServerV2NotifyInvariant, PTL

-----------------------------------------------------------------------------
(* The queues are a board of items for one reader.                         *)
LEMMA QueuedIs ==
  \A x : x \in Queued <=> \/ \E i \in text : x = <<"text", i, "v2">>
                          \/ \E i \in data : x = <<"data", i, "v2">>
BY DEF Queued

LEMMA TextTaken ==
  ASSUME NEW i, text' = text \ {i}, UNCHANGED <<data, textNext, dataNext>>
  PROVE  [Channel!Next]_(Channel!vars)
<1> DEFINE b == <<"text", i, "v2">>
<1>1. \A x : x \in Queued' <=> \/ \E j \in text' : x = <<"text", j, "v2">>
                               \/ \E j \in data' : x = <<"data", j, "v2">>
  BY DEF Queued
<1>2. Queued' = Queued \ {b}
  BY <1>1, QueuedIs
<1>3. CASE b \in Queued
  BY <1>2, <1>3 DEF Channel!Take, Channel!Next
<1>4. CASE b \notin Queued
  BY <1>2, <1>4 DEF Channel!vars
<1> QED
  BY <1>3, <1>4

LEMMA DataTaken ==
  ASSUME NEW i, data' = data \ {i}, UNCHANGED <<text, textNext, dataNext>>
  PROVE  [Channel!Next]_(Channel!vars)
<1> DEFINE b == <<"data", i, "v2">>
<1>1. \A x : x \in Queued' <=> \/ \E j \in text' : x = <<"text", j, "v2">>
                               \/ \E j \in data' : x = <<"data", j, "v2">>
  BY DEF Queued
<1>2. Queued' = Queued \ {b}
  BY <1>1, QueuedIs
<1>3. CASE b \in Queued
  BY <1>2, <1>3 DEF Channel!Take, Channel!Next
<1>4. CASE b \notin Queued
  BY <1>2, <1>4 DEF Channel!vars
<1> QED
  BY <1>3, <1>4

LEMMA TextPosted == RaiseText => Channel!Post("text", {"v2"})
<1> SUFFICES ASSUME RaiseText PROVE Channel!Post("text", {"v2"})
  OBVIOUS
<1> DEFINE next == [t \in {"text", "data"} |-> IF t = "text" THEN textNext ELSE dataNext]
<1>1. \A x : x \in Queued' <=> \/ \E j \in text' : x = <<"text", j, "v2">>
                               \/ \E j \in data' : x = <<"data", j, "v2">>
  BY DEF Queued
<1>2. Queued' = Queued \cup {<<"text", textNext, r>> : r \in {"v2"}}
  BY <1>1, QueuedIs DEF RaiseText
<1>3. next' = [next EXCEPT !["text"] = @ + 1] /\ next["text"] = textNext
  BY DEF RaiseText
<1> QED
  BY <1>2, <1>3 DEF Channel!Post

LEMMA DataPosted == RaiseData => Channel!Post("data", {"v2"})
<1> SUFFICES ASSUME RaiseData PROVE Channel!Post("data", {"v2"})
  OBVIOUS
<1> DEFINE next == [t \in {"text", "data"} |-> IF t = "text" THEN textNext ELSE dataNext]
<1>1. \A x : x \in Queued' <=> \/ \E j \in text' : x = <<"text", j, "v2">>
                               \/ \E j \in data' : x = <<"data", j, "v2">>
  BY DEF Queued
<1>2. Queued' = Queued \cup {<<"data", dataNext, r>> : r \in {"v2"}}
  BY <1>1, QueuedIs DEF RaiseData
<1>3. next' = [next EXCEPT !["data"] = @ + 1] /\ next["data"] = dataNext
  BY DEF RaiseData
<1> QED
  BY <1>2, <1>3 DEF Channel!Post

LEMMA StepOfChannel == [V2Next]_v2vars => [Channel!Next]_(Channel!vars)
<1> SUFFICES ASSUME [V2Next]_v2vars PROVE [Channel!Next]_(Channel!vars)
  OBVIOUS
<1>1. CASE RaiseText \/ RaiseData
  BY <1>1, TextPosted, DataPosted DEF Channel!Next
<1>2. CASE SendNow \/ TextMark
  BY <1>2, TextTaken DEF SendNow, TextMark
<1>3. ASSUME NEW i \in DataIds, HandleNotifyDataAck(i) PROVE [Channel!Next]_(Channel!vars)
  BY <1>3, DataTaken DEF HandleNotifyDataAck
<1>4. ASSUME UNCHANGED <<text, data, textNext, dataNext>> PROVE UNCHANGED Channel!vars
  BY <1>4 DEF Channel!vars, Queued
<1>5. \/ RaiseText \/ RaiseData \/ SendNow \/ TextMark
      \/ \E i \in DataIds : HandleNotifyDataAck(i)
      \/ UNCHANGED <<text, data, textNext, dataNext>>
  BY DEF V2Next, Notifier, Ticker1, Network, v2vars, queues, SeeDisconnected, LeaveQueued,
         SeeConnected, TickStart, TextStart, TextFirst, TextSend, DataStart, DataFirst,
         DataSend, DataLast, DataEnd, Disconnect, Disconnected, Connect, Login, LoginDone,
         Close, CloseDone, ServerStores
<1> QED
  BY <1>1, <1>2, <1>3, <1>4, <1>5

(* IncomingNotification, the searches of Ticker1 and HandleNotifyDataAck   *)
(* use the framework as a reader of the board that Notify implements.      *)
THEOREM ServerV2NotifyReadsBoard == V2Spec => ChannelReadsBoard
BY StepOfChannel, PTL DEF V2Spec, ChannelReadsBoard

-----------------------------------------------------------------------------
(* Types, with the bounds.                                                 *)
CountdownInv ==
  /\ m_pending_notify_data_retransmit \in 0..RetransmitDelay
  /\ entry \in 0..(MaxText + MaxData)
  /\ wire \subseteq DataIds /\ got \subseteq DataIds

LEMMA CountdownStep == IInv /\ CountdownInv /\ [V2Next]_v2vars => CountdownInv'
<1> SUFFICES ASSUME IInv, CountdownInv, [V2Next]_v2vars PROVE CountdownInv'
  OBVIOUS
<1>0. /\ MaxText \in Nat /\ MaxData \in Nat /\ RetransmitDelay \in Nat
      /\ text \subseteq 1..MaxText /\ data \subseteq 1..MaxData
      /\ \A i \in TextIds \cup DataIds : i \in 0..(MaxText + MaxData)
  BY BoundsAssumption DEF IInv, TypeInv, TextIds, DataIds
<1>1. m_pending_notify_data_retransmit' \in 0..RetransmitDelay
  <2>1. CASE DataStart
    BY <2>1, <1>0 DEF DataStart, CountdownInv
  <2>2. CASE DataEnd
    BY <2>2, <1>0 DEF DataEnd, CountdownInv
  <2>3. CASE Login
    BY <2>3, <1>0 DEF Login
  <2>4. DataStart \/ DataEnd \/ Login \/ UNCHANGED m_pending_notify_data_retransmit
    BY DEF V2Next, Notifier, Ticker1, Network, v2vars, flags, RaiseText, SeeDisconnected,
           LeaveQueued, SeeConnected, SendNow, RaiseData, TickStart, TextStart, TextFirst,
           TextSend, TextMark, DataFirst, DataSend, DataLast, Disconnect, Disconnected,
           Connect, LoginDone, Close, CloseDone, ServerStores, HandleNotifyDataAck
  <2> QED
    BY <2>1, <2>2, <2>3, <2>4 DEF CountdownInv
<1>2. entry' \in 0..(MaxText + MaxData)
  <2>1. CASE TextFirst
    <3>1. text # {} => Least(text) \in text
      BY <1>0, LeastProperties
    <3> QED
      BY <2>1, <3>1, <1>0 DEF TextFirst, CountdownInv, TextIds
  <2>2. CASE DataFirst
    <3> DEFINE unread == {i \in data : i > m_pending_notify_data_last}
    <3>1. unread # {} => Least(unread) \in data
      BY <1>0, LeastProperties
    <3> QED
      BY <2>2, <3>1, <1>0 DEF DataFirst, CountdownInv, DataIds
  <2>3. TextFirst \/ DataFirst \/ UNCHANGED entry
    BY DEF V2Next, Notifier, Ticker1, Network, v2vars, ticker, RaiseText, SeeDisconnected,
           LeaveQueued, SeeConnected, SendNow, RaiseData, TickStart, TextStart, DataStart,
           TextSend, TextMark, DataSend, DataLast, DataEnd, Disconnect, Disconnected, Connect,
           Login, LoginDone, Close, CloseDone, ServerStores, HandleNotifyDataAck
  <2> QED
    BY <2>1, <2>2, <2>3 DEF CountdownInv
<1>3. wire' \subseteq DataIds
  <2>1. CASE DataSend
    BY <2>1 DEF DataSend, TransmitData, CountdownInv, IInv, DataInv
  <2>2. CASE Connect
    BY <2>2 DEF Connect
  <2>3. DataSend \/ Connect \/ UNCHANGED wire
    BY DEF V2Next, Notifier, Ticker1, Network, v2vars, history, RaiseText, SeeDisconnected,
           LeaveQueued, SeeConnected, SendNow, RaiseData, TickStart, TextStart, TextFirst,
           TextSend, TextMark, DataStart, DataFirst, DataLast, DataEnd, Disconnect,
           Disconnected, Login, LoginDone, Close, CloseDone, ServerStores, HandleNotifyDataAck
  <2> QED
    BY <2>1, <2>2, <2>3 DEF CountdownInv
<1>4. got' \subseteq DataIds
  <2>1. ASSUME NEW i \in DataIds, ServerStores(i) PROVE got' \subseteq DataIds
    BY <2>1 DEF ServerStores, CountdownInv
  <2>2. (\E i \in DataIds : ServerStores(i)) \/ UNCHANGED got
    BY DEF V2Next, Notifier, Ticker1, Network, v2vars, history, RaiseText, SeeDisconnected,
           LeaveQueued, SeeConnected, SendNow, RaiseData, TickStart, TextStart, TextFirst,
           TextSend, TextMark, DataStart, DataFirst, DataSend, DataLast, DataEnd, Disconnect,
           Disconnected, Connect, Login, LoginDone, Close, CloseDone, HandleNotifyDataAck
  <2> QED
    BY <2>1, <2>2 DEF CountdownInv
<1> QED
  BY <1>1, <1>2, <1>3, <1>4 DEF CountdownInv

(* Every variable has its type; the id of the last record sent is one that *)
(* was ever given, or what an entry already deleted may show, and nothing  *)
(* the server acknowledges is of another kind.                             *)
THEOREM ServerV2NotifyTypes == V2Spec => []V2TypeOK
<1>1. V2Init => CountdownInv
  BY BoundsAssumption DEF V2Init, CountdownInv
<1>2. IInv /\ CountdownInv => V2TypeOK
  BY DEF IInv, TypeInv, CountdownInv, V2TypeOK
<1> QED
  BY <1>1, <1>2, CountdownStep, ServerV2NotifyInvariant, PTL DEF V2Spec
=============================================================================
