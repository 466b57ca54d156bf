------------------------- MODULE MCTraceabilityHandler -------------------------
(***************************************************************************)
(* Instances of TraceabilityHandler: parts of one or two days, a general      *)
(* part sheet with the part identifier, two data nodes and one excluded       *)
(* node, and an operation part sheet of one node.                             *)
(***************************************************************************)
EXTENDS TraceabilityHandler, TLC

CONSTANTS pid, d1, d2, ex, op, NoId, A, B

MCNids == {pid, d1, d2, ex, op}
MCNames == {"NumeUniq", "D1", "D2", "Ex", "Op"}
MCBrowseName == (pid :> "NumeUniq") @@ (d1 :> "D1") @@ (d2 :> "D2") @@ (ex :> "Ex") @@ (op :> "Op")
MCGeneralNids == {pid, d1, d2, ex}
MCOperationNids == {op}
MCPartIds == Dates \X (1 .. MaxSerial)
MCAnyPart == MCPartIds \cup {NoId}
MCFirstPart == {<<1, 1>>}
\* Used where every machine is a creator and no liveness is checked.
MachineSymmetry == Permutations(Machines)
\* One value of the data, two, or one and a value that cannot be serialized.
MCValuesA == MCPartIds \cup {NoId, A}
MCValuesAB == MCPartIds \cup {NoId, A, B}
=============================================================================
