------------------------------ MODULE MCNotify ------------------------------
(* Model values for Notify.tla: two short-message channels and one long.   *)
EXTENDS Notify

MCVerbosity == [r \in Readers |-> IF r = 3 THEN 2 ELSE 1]
=============================================================================
