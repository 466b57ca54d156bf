------------------------- MODULE MCTraceabilityDatabase -------------------------
(***************************************************************************)
(* Instances of TraceabilityDatabase: one machine and one part are enough,   *)
(* for rows are told apart by their timestamp; each sheet has one node, and  *)
(* its value is either accepted by ClickHouse or not.                        *)
(***************************************************************************)
EXTENDS TraceabilityDatabase, TLC

CONSTANTS g1, o1, Ok, Odd

MCNids == {g1, o1}
MCNames == {"G", "O"}
MCBrowseName == (g1 :> "G") @@ (o1 :> "O")
MCGeneralNids == {g1}
MCOperationNids == {o1}
=============================================================================
