---------------------------- MODULE SessionLifecycle ----------------------------
(***************************************************************************)
(* What the sessions manager promises to the rest of the gateway: a machine  *)
(* has at most one session, and a session that has lost its connection is    *)
(* disposed of, its handler included, before another one serves the machine. *)
(* SessionsManager implements this specification; TraceabilityHandler, which *)
(* leaves the manager out, assumes it of its sessions.                      *)
(***************************************************************************)
CONSTANT Machines

VARIABLE session

Init == session = [m \in Machines |-> "none"]

\* The machines of M go from one of the states old to the state new.
Moves(M, old, new) ==
    /\ \A m \in M : session[m] \in old
    /\ session' = [m \in Machines |-> IF m \in M THEN new ELSE session[m]]

Open(M) == Moves(M, {"none"}, "live")
Lose(M) == Moves(M, {"live"}, "dead")
Close(M) == Moves(M, {"live", "dead"}, "none")
Exit == session' = [m \in Machines |-> "none"]

Next ==
    \/ \E M \in SUBSET Machines : Open(M) \/ Lose(M) \/ Close(M)
    \/ Exit

Spec == Init /\ [][Next]_session
=============================================================================
