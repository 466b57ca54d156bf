-------------------------- MODULE PartSheetDiscovery --------------------------
(***************************************************************************)
(* How the gateway learns the variables of the part sheets of a machine      *)
(* (browse_part_sheet, initialize), and how the requests use what it learnt:  *)
(* a save reads both sheets in one call and takes the values and the part     *)
(* identifier by position; a read writes back what another session, perhaps   *)
(* with another program in the machine, has saved.                           *)
(*                                                                         *)
(* A node is a namespace and an identifier.  Namespaces are designated by an  *)
(* index that each program of the machine sets, and their identifiers may be  *)
(* the same.                                                                *)
(***************************************************************************)
EXTENDS Integers, Sequences, FiniteSets, Functions

CONSTANTS
    Programs,     \* programs of the machine: namespace indexes, part sheet objects
    Variants,     \* values: [type, text, dimensions, elements]
    PartIds,      \* the texts validate_part_identifier accepts
    PartIdNid,    \* part_id_nid
    ExcludedNids  \* excluded_read_nids

\* The part sheet objects, and the namespace where the gateway looks for each.
Sheets == {"General", "Operation"}
Namespace == [General |-> "Common", Operation |-> "Machine"]

NonNumeric == 0   \* an identifier that is not a number
NullName == ""    \* a BrowseName that is null

\* A reference to a variable of an object: its node, its BrowseName and the values it
\* may take.
Reference == [node : {"Common", "Machine"} \X Nat, name : STRING, type : SUBSET Variants]

ASSUME DiscoveryAssumption ==
    /\ PartIdNid \in Nat
    /\ \A p \in Programs :
        /\ p.index \in [{"Common", "Machine"} -> Nat]
        /\ p.index["Common"] # p.index["Machine"]
        /\ DOMAIN p.refs = Sheets
        /\ \A s \in Sheets : /\ p.refs[s] \in Seq(Reference)
                             /\ \A ref \in Range(p.refs[s]) : ref.type # {}

VARIABLES
    program,      \* the program of the machine
    contents,     \* the value of each node
    pc,           \* the await where the session is
    sheet,        \* the object being browsed
    remaining,    \* its references not yet returned
    browsed,      \* browsed_nodes
    context,      \* TraceabilityContext: namespace indexes, nodes, part_id_index
    part_sheets,  \* what a save has read
    cache,        \* identifiers and values of the cached general part sheets
    written       \* history: what the last read wrote to the machine

machineVars == <<program, contents>>
sessionVars == <<pc, sheet, remaining, browsed, context, part_sheets>>
vars == <<machineVars, sessionVars, cache, written>>

NoContext == [ns_index |-> [s \in Sheets |-> 0], nodes |-> [s \in Sheets |-> <<>>],
              part_id_index |-> 0]
NoSheets == [part |-> NullName, general |-> <<>>, operation |-> <<>>]

-----------------------------------------------------------------------------
(* The machine *)

References(p) == Range(p.refs["General"]) \cup Range(p.refs["Operation"])
NodesOf(p) == {ref.node : ref \in References(p)}
TypeOf(p, node) == (CHOOSE ref \in References(p) : ref.node = node).type
Initially(p) == [node \in NodesOf(p) |-> CHOOSE v \in TypeOf(p, node) : TRUE]

\* The nodes designated by a namespace index and an identifier: one, or none.
Designated(ns_index, id) ==
    {node \in NodesOf(program) : program.index[node[1]] = ns_index /\ node[2] = id}

Init ==
    /\ program \in Programs
    /\ contents = Initially(program)
    /\ pc = "none"
    /\ sheet = "General"
    /\ remaining = <<>>
    /\ browsed = <<>>
    /\ context = NoContext
    /\ part_sheets = NoSheets
    /\ cache = [part \in {} |-> {}]
    /\ written = {}

\* Another program is loaded while no session is up.
Reprogram(p) ==
    /\ pc = "none"
    /\ program' = p
    /\ contents' = Initially(p)
    /\ written' = {}
    /\ UNCHANGED <<sessionVars, cache>>

SetValue(node) ==
    /\ \E v \in TypeOf(program, node) : contents' = [contents EXCEPT ![node] = v]
    /\ UNCHANGED <<program, sessionVars, cache, written>>

-----------------------------------------------------------------------------
(* Values *)

Scalars == {"Empty", "Boolean", "Integer", "Float", "String"}

\* SerializeVariant: scalars and one-dimensional arrays of scalars have a JSON form.
Serializable(v) ==
    \/ v.type \in Scalars
    \/ v.type = "Array" /\ ~v.dimensions /\ v.elements \subseteq Scalars

\* try_from_variant, then validate_part_identifier: a string, not null, of the right
\* form, that is a valid identifier.
IsPartId(v) == v.type = "String" /\ v.text \in PartIds

-----------------------------------------------------------------------------
(* TraceabilityHandler::initialize *)

handlerFrame == UNCHANGED <<machineVars, cache, written>>

\* Any error fails the start task; a session may also be lost at any time.
SessionEnds ==
    /\ pc # "none"
    /\ pc' = "none"
    /\ sheet' = "General"
    /\ remaining' = <<>>
    /\ browsed' = <<>>
    /\ context' = NoContext
    /\ part_sheets' = NoSheets
    /\ handlerFrame

Browsing(s) ==
    /\ pc' = "index"
    /\ sheet' = s
    /\ remaining' = program.refs[s]
    /\ browsed' = <<>>

initialize ==
    /\ pc = "none"
    /\ Browsing("General")
    /\ UNCHANGED <<context, part_sheets>>
    /\ handlerFrame

get_namespace_index ==
    /\ pc = "index"
    /\ pc' = "browse"
    /\ context' = [context EXCEPT !.ns_index[sheet] = program.index[Namespace[sheet]]]
    /\ UNCHANGED <<sheet, remaining, browsed, part_sheets>>
    /\ handlerFrame

\* References come by pages; one that has no name fails the whole browse.
BrowsePage ==
    /\ pc = "browse"
    /\ \E n \in 1 .. Len(remaining) :
        /\ \A i \in 1 .. n : remaining[i].name # NullName
        /\ browsed' = browsed \o SubSeq(remaining, 1, n)
        /\ remaining' = SubSeq(remaining, n + 1, Len(remaining))
    /\ UNCHANGED <<pc, sheet, context, part_sheets>>
    /\ handlerFrame

\* Mutant: a page whose status is bad ends the browse, as if it were the last one.
BrowseStops ==
    /\ pc = "browse"
    /\ browsed # <<>>
    /\ pc' = "read"
    /\ UNCHANGED <<sheet, remaining, browsed, context, part_sheets>>
    /\ handlerFrame

\* The last page has come: an object without variables is an error.
BrowseDone ==
    /\ pc = "browse"
    /\ remaining = <<>>
    /\ browsed # <<>>
    /\ pc' = "read"
    /\ UNCHANGED <<sheet, remaining, browsed, context, part_sheets>>
    /\ handlerFrame

\* The namespaces of the browsed nodes are dropped.
Discovered(refs) == [i \in DOMAIN refs |-> [id |-> refs[i].node[2], name |-> refs[i].name]]

\* Mutant: values are read, but not serialized.
ReadableUnchecked(refs) == \A i \in DOMAIN refs : refs[i].node[2] # NonNumeric

\* The values are read, each must be serializable; identifiers must be numbers.
Readable(refs) ==
    \A i \in DOMAIN refs : /\ Serializable(contents[refs[i].node])
                           /\ refs[i].node[2] # NonNumeric

\* Mutant: the position is counted among the nodes that are not excluded.
PositionKept(nodes) ==
    {i - Cardinality({j \in 1 .. i : nodes[j].id \in ExcludedNids}) :
       i \in {j \in DOMAIN nodes : nodes[j].id = PartIdNid}}

\* Where the part identifier is among the nodes of the general part sheet.
Position(nodes) == {i \in DOMAIN nodes : /\ nodes[i].id = PartIdNid
                                         /\ \A j \in 1 .. (i - 1) : nodes[j].id # PartIdNid}

ReadGeneral ==
    /\ pc = "read"
    /\ sheet = "General"
    /\ Readable(browsed)
    /\ \E i \in Position(Discovered(browsed)) :
        context' = [context EXCEPT !.nodes["General"] = Discovered(browsed),
                                   !.part_id_index = i]
    /\ Browsing("Operation")
    /\ UNCHANGED part_sheets
    /\ handlerFrame

\* The handler is installed.
ReadOperation ==
    /\ pc = "read"
    /\ sheet = "Operation"
    /\ Readable(browsed)
    /\ context' = [context EXCEPT !.nodes["Operation"] = Discovered(browsed)]
    /\ pc' = "ready"
    /\ browsed' = <<>>
    /\ UNCHANGED <<sheet, remaining, part_sheets>>
    /\ handlerFrame

-----------------------------------------------------------------------------
(* handle_save *)

\* The nodes of a sheet, as a request designates them.
Asked(s) == [i \in DOMAIN context.nodes[s] |->
               [ns_index |-> context.ns_index[s], id |-> context.nodes[s][i].id]]

\* Mutant: the operation part sheet is read first.
ReadOrderSwapped == Asked("Operation") \o Asked("General")

\* read_value_ids: the general part sheet, then the operation part sheet.
ReadOrder == Asked("General") \o Asked("Operation")

\* The values come in the order of the request.  All must be good, and that at
\* part_id_index a part identifier: on an error, the handler is as it was.
SaveRead ==
    /\ pc = "ready"
    /\ \A i \in DOMAIN ReadOrder : Designated(ReadOrder[i].ns_index, ReadOrder[i].id) # {}
    /\ LET nodes == context.nodes["General"] \o context.nodes["Operation"]
           Read(i) == CHOOSE node \in Designated(ReadOrder[i].ns_index, ReadOrder[i].id) : TRUE
           items == [i \in DOMAIN nodes |->
                       [id |-> nodes[i].id, name |-> nodes[i].name,
                        value |-> contents[Read(i)], from |-> Read(i)]]
           part_id == items[context.part_id_index]
           boundary == Len(context.nodes["General"])
       IN  /\ IsPartId(part_id.value)
           /\ part_sheets' = [part |-> part_id.value.text,
                              general |-> SubSeq(items, 1, boundary),
                              operation |-> SubSeq(items, boundary + 1, Len(items))]
    /\ pc' = "save_job"
    /\ UNCHANGED <<sheet, remaining, browsed, context>>
    /\ handlerFrame

\* A value without JSON form fails the save, after the machine has been read.
Encodable ==
    \A item \in Range(part_sheets.general) \cup Range(part_sheets.operation) :
        Serializable(item.value)

\* The cache keeps identifiers and values; the transaction may fail.
SaveJob ==
    /\ pc = "save_job"
    /\ \/ /\ Encodable
          /\ cache' = [p \in DOMAIN cache \cup {part_sheets.part} |->
                         IF p = part_sheets.part
                         THEN {[id |-> item.id, value |-> item.value, from |-> item.from] :
                                 item \in Range(part_sheets.general)}
                         ELSE cache[p]]
       \/ UNCHANGED cache
    /\ pc' = "ready"
    /\ part_sheets' = NoSheets
    /\ UNCHANGED <<machineVars, sheet, remaining, browsed, context, written>>

-----------------------------------------------------------------------------
(* handle_read *)

\* The value of the part identifier node designates a cached part.
Requested(part) ==
    \E node \in Designated(context.ns_index["General"], PartIdNid) :
        contents[node].type = "String" /\ contents[node].text = part

\* Mutant: nodes are designated in the namespace of the operation part sheet.
TargetInOperation(item) == Designated(context.ns_index["Operation"], item.id)

Target(item) == Designated(context.ns_index["General"], item.id)

\* Each cached value, but for the excluded identifiers, is written to the node that has its
\* identifier; the machine refuses a node it does not have and a value of another type.
\* A call that fails may have written some of the values only.
LoadWrite(part) ==
    /\ pc = "ready"
    /\ part \in DOMAIN cache
    /\ Requested(part)
    /\ LET values == {item \in cache[part] : item.id \notin ExcludedNids}
           accepted == {w \in NodesOf(program) \X values :
                          w[1] \in Target(w[2]) /\ w[2].value \in TypeOf(program, w[1])}
       IN  \E some \in SUBSET accepted :
            /\ contents' = [node \in DOMAIN contents |->
                              IF \E w \in some : w[1] = node
                              THEN (CHOOSE w \in some : w[1] = node)[2].value
                              ELSE contents[node]]
            /\ written' = {<<w[1], w[2].from>> : w \in some}
    /\ UNCHANGED <<program, sessionVars, cache>>

-----------------------------------------------------------------------------

Handler ==
    \/ initialize \/ get_namespace_index \/ BrowsePage \/ BrowseDone
    \/ ReadGeneral \/ ReadOperation \/ SessionEnds
    \/ SaveRead \/ SaveJob
    \/ \E part \in PartIds : LoadWrite(part)

Machine ==
    \/ \E p \in Programs : Reprogram(p)
    \/ \E node \in NodesOf(program) : SetValue(node)

Next == Handler \/ Machine

Spec == Init /\ [][Next]_vars

-----------------------------------------------------------------------------
(* Safety *)

\* The variables of each object are in the namespace where the gateway looks for it.
OwnNamespace(p) ==
    \A s \in Sheets : \A ref \in Range(p.refs[s]) : ref.node[1] = Namespace[s]

\* No variable takes both values that have a JSON form and values that have none.
KeepsTypes(p) ==
    \A ref \in References(p) : \A v, w \in ref.type : Serializable(v) <=> Serializable(w)

Ready == pc \in {"ready", "save_job"}

\* A handler is installed with the whole of both objects: no page lost, no node skipped,
\* no node it could not save, and the part identifier where part_id_index says (the
\* "expect" of handle_save cannot fail).
ContextComplete ==
    Ready =>
        /\ \A s \in Sheets : context.nodes[s] = Discovered(program.refs[s])
        /\ \A ref \in References(program) : ref.node[2] # NonNumeric /\ ref.name # NullName
        /\ context.part_id_index \in DOMAIN context.nodes["General"]
        /\ context.nodes["General"][context.part_id_index].id = PartIdNid

\* Each value that a save holds is that of the node it is labelled with: values are not
\* shifted by a node, nor carried over from one sheet to the other, even where the
\* identifiers of the two namespaces are the same or the indexes were exchanged.
ValuesAttributed ==
    (pc = "save_job" /\ OwnNamespace(program)) =>
        LET Labels(s, items) ==
                /\ Len(items) = Len(program.refs[s])
                /\ \A item \in Range(items) : \E ref \in Range(program.refs[s]) :
                    item.from = ref.node /\ item.id = ref.node[2] /\ item.name = ref.name
        IN  /\ Labels("General", part_sheets.general)
            /\ Labels("Operation", part_sheets.operation)

\* A save is filed under the part whose identifier is in the general part sheet it stores.
PartFiledUnderItsId ==
    pc = "save_job" =>
        \E item \in Range(part_sheets.general) :
            item.id = PartIdNid /\ item.value.text = part_sheets.part

\* The checks of the initialization are enough: as long as variables keep their types, no
\* save fails after the machine was read because a value has no JSON form.
CheckedSheetsEncode ==
    (pc = "save_job" /\ OwnNamespace(program) /\ KeepsTypes(program)) => Encodable

\* A read gives back each value to the node it was saved from, whatever the order of the
\* nodes, the namespace indexes and the sessions in between.
LoadedWhereSaved == \A w \in written : w[1] = w[2]
=============================================================================
