-------------------------- MODULE MCPartSheetDiscovery --------------------------
(***************************************************************************)
(* Programs of a machine for PartSheetDiscovery: identifiers that both        *)
(* namespaces have, nodes in another order and namespace indexes exchanged,   *)
(* then what makes an initialization fail or a save go wrong: no name, no     *)
(* number, no part identifier, no variable, no JSON form, another namespace.  *)
(***************************************************************************)
EXTENDS PartSheetDiscovery

Variant(type) == [type |-> type, text |-> "", dimensions |-> FALSE, elements |-> {}]
Text(s) == [Variant("String") EXCEPT !.text = s]
Array(types) == [Variant("Array") EXCEPT !.elements = types]
Matrix == [Array({"Integer"}) EXCEPT !.dimensions = TRUE]

Integer == {Variant("Integer")}
Texts == {Text("P"), Text("Q"), Text("garbled")}
Loose == {Variant("Float"), Variant("ByteString")}
Arrays == {Array({"Integer"}), Array({})}

MCVariants ==
    Integer \cup Texts \cup Loose \cup Arrays \cup {Matrix, Array({"Guid"}), Variant("Empty")}

Ref(ns, id, name, type) == [node |-> <<ns, id>>, name |-> name, type |-> type]
Upright == [Common |-> 2, Machine |-> 3]
Exchanged == [Common |-> 3, Machine |-> 2]

PartId == Ref("Common", 1, "NumeUniq", Texts)
Data == Ref("Common", 2, "D", Integer)
Excluded == Ref("Common", 3, "Ex", Arrays)
Op == Ref("Machine", 1, "Op", Integer)
Program(index, general, operation) ==
    [index |-> index, refs |-> [General |-> general, Operation |-> operation]]

Sound == Program(Upright, <<PartId, Data, Excluded>>, <<Op, Ref("Machine", 2, "Op2", Integer)>>)
WithOperation(ref) == Program(Upright, <<Data, PartId>>, <<Op, ref>>)

MCPrograms ==
    {Sound,
     Program(Exchanged, <<Data, Ref("Common", 3, "Ex", Texts), PartId>>, <<Op>>),
     Program(Exchanged, <<Ref("Machine", 2, "Foreign", Integer), PartId, Data>>,
             <<Ref("Machine", 4, "Op4", Arrays)>>),
     Program(Upright, <<Data>>, <<Ref("Machine", 1, "NumeUniq", Texts)>>),
     Program(Upright, <<PartId>>, <<>>),
     WithOperation(Ref("Machine", 2, "Any", Loose)),
     WithOperation(Ref("Machine", 2, "Matrix", {Matrix})),
     WithOperation(Ref("Machine", 2, "Guids", {Array({"Guid"})})),
     WithOperation(Ref("Machine", 2, NullName, Integer)),
     WithOperation(Ref("Machine", NonNumeric, "Named", Integer))}
=============================================================================
