--------------------------------- MODULE Outbox ---------------------------------
(***************************************************************************)
(* What the cache, the draining task and the process promise together, seen  *)
(* from ClickHouse: a save is pending in both tables at once; a pending row   *)
(* may be delivered any number of times; it is forgotten only once it has     *)
(* been delivered, and is never delivered afterwards.  Crashes, retries and    *)
(* batches do not show.                                                      *)
(***************************************************************************)
EXTENDS Naturals

CONSTANTS
    Tables,  \* the tables of the archive
    Stamps   \* the saves, named by their timestamps

VARIABLES
    pending,  \* the saves whose row is still to be delivered, by table
    copies    \* the copies of the row of each save, by table

Init ==
    /\ pending = [t \in Tables |-> {}]
    /\ copies = [t \in Tables |-> [n \in Stamps |-> 0]]

\* A save is new in every table.
Save(n) ==
    /\ \A t \in Tables : n \notin pending[t] /\ copies[t][n] = 0
    /\ pending' = [t \in Tables |-> pending[t] \cup {n}]
    /\ UNCHANGED copies

Deliver(t, some) ==
    /\ some \subseteq pending[t]
    /\ copies' = [copies EXCEPT ![t] =
                    [n \in Stamps |-> IF n \in some THEN copies[t][n] + 1 ELSE copies[t][n]]]
    /\ UNCHANGED pending

Forget(t, some) ==
    /\ some \subseteq pending[t]
    /\ \A n \in some : copies[t][n] >= 1
    /\ pending' = [pending EXCEPT ![t] = pending[t] \ some]
    /\ UNCHANGED copies

Next ==
    \/ \E n \in Stamps : Save(n)
    \/ \E t \in Tables, some \in SUBSET Stamps : Deliver(t, some) \/ Forget(t, some)

Spec == Init /\ [][Next]_<<pending, copies>>
=============================================================================
