------------------------------ MODULE PartSheet ------------------------------
(***************************************************************************)
(* The two encodings of a part sheet (traceability/part_sheet.rs).          *)
(*                                                                         *)
(* A part sheet read from a machine is a function from numeric node         *)
(* identifiers to Variant values.  The order of the items plays no role     *)
(* after encoding, so an encoded sheet is a set of pairs.                    *)
(***************************************************************************)
EXTENDS Naturals, FiniteSets

CONSTANTS
    Nids,        \* numeric identifiers of the part sheet nodes
    Names,       \* BrowseNames of those nodes
    BrowseName,  \* the name of each node, found by browsing
    Values,      \* Variant values, as far as the properties tell them apart
    Unsupported, \* the values SerializeVariant cannot write as JSON
    MaxElements  \* u16::MAX, the largest count of the cache encoding

ASSUME PartSheetAssumption ==
    /\ BrowseName \in [Nids -> Names]
    /\ Unsupported \subseteq Values
    /\ MaxElements \in Nat

\* Cache encoding: an u16 count, then the identifier and the value of each item;
\* the names are dropped.
encode_part_sheet_for_cache(sheet) == {<<id, sheet[id]>> : id \in DOMAIN sheet}

\* The count conversion fails on a sheet of more than u16::MAX items.
FitsCacheEncoding(sheet) == Cardinality(DOMAIN sheet) <= MaxElements

\* Decoding gives back as many (identifier, value) pairs as the count announces,
\* as a function of the identifier.
decode_cached_part_sheet(buf) ==
    [id \in {item[1] : item \in buf} |-> (CHOOSE item \in buf : item[1] = id)[2]]

\* JSONEachRow encoding: the columns the gateway owns, and the values by name;
\* the identifiers are dropped.
encode_part_sheet_for_db(saved_at, machine_id, part_id, sheet) ==
    [saved_at   |-> saved_at,
     machine_id |-> machine_id,
     part_id    |-> part_id,
     data       |-> {<<BrowseName[id], sheet[id]>> : id \in DOMAIN sheet}]

\* Serialization fails on the first value that has no JSON form.
Serializable(sheet) == \A id \in DOMAIN sheet : sheet[id] \notin Unsupported
=============================================================================
