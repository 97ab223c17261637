---------------------------- MODULE NotifyBoard -----------------------------
(***************************************************************************)
(* What the notification framework promises its readers, without entries,  *)
(* maps or mutexes: a board of things to read.  Posting a record puts it   *)
(* up for a set of registered readers under a number never used before;    *)
(* each of them takes it off the board once; a reader that leaves takes    *)
(* all its items with it.                                                  *)
(***************************************************************************)
EXTENDS Integers

CONSTANTS Types, Readers

VARIABLES
  readers,  \* registered readers
  next,     \* next[t]: number of the next record of type t
  board     \* <<t, i, r>>: record i of type t still waits for reader r

vars == <<readers, next, board>>

Init ==
  /\ readers = {}
  /\ next  = [t \in Types |-> 1]
  /\ board = {}

Join(r) ==
  /\ r \notin readers
  /\ readers' = readers \cup {r}
  /\ UNCHANGED <<next, board>>

Leave(r) ==
  /\ r \in readers
  /\ readers' = readers \ {r}
  /\ board'   = {b \in board : b[3] # r}
  /\ UNCHANGED next

Post(t, S) ==
  /\ S \subseteq readers
  /\ next'  = [next EXCEPT ![t] = @ + 1]
  /\ board' = board \cup {<<t, next[t], r>> : r \in S}
  /\ UNCHANGED readers

Take(b) ==
  /\ board' = board \ {b}
  /\ UNCHANGED <<readers, next>>

Next ==
  \/ \E r \in Readers : Join(r) \/ Leave(r)
  \/ \E t \in Types, S \in SUBSET readers : Post(t, S)
  \/ \E b \in board : Take(b)

Spec == Init /\ [][Next]_vars
=============================================================================
