--------------------------- MODULE TraceabilityCache ---------------------------
(***************************************************************************)
(* The redb database wrapped by TraceabilityCache (traceability/cache.rs).  *)
(*                                                                         *)
(* redb runs one write transaction at a time and a committed transaction    *)
(* survives a crash, so every method is one atomic step on the variables    *)
(* below: a method that writes is an action, a method that only reads is an  *)
(* expression.  The modules that use the cache (the draining task, the       *)
(* request handlers) extend this one and say when each method is called.     *)
(***************************************************************************)
EXTENDS PartSheet, Integers, Functions

CONSTANTS
    Machines,        \* machine identifiers
    PartIds,         \* valid part identifiers
    Dates,           \* the days serial numbers are counted for
    QueuesThreshold  \* queues_not_draining_threshold

ASSUME CacheAssumption == QueuesThreshold \in Nat

VARIABLES
    daily_serial,        \* SERIAL_TABLE: last serial of each day, 0 when absent
    general_part_sheet,  \* GENERAL_PART_SHEET_CACHE: part identifier -> encoded sheet
    archive_seq,         \* QUEUE_SEQ: last sequence number, NoSeq when absent
    queues               \* the queue tables: sequence number -> row

redbVars == <<daily_serial, general_part_sheet, archive_seq, queues>>

QueueTable == {"General", "Operation"}

\* The QUEUE_SEQ table has no entry before the first save.
NoSeq == -2

Row == [saved_at : Nat, machine_id : Machines, part_id : PartIds,
        data : SUBSET (Names \X Values)]

CachedSheet == SUBSET (Nids \X Values)

EmptyTable == [key \in {} |-> key]

\* Table::insert: sets the value of a key, new or not.
Insert(table, key, value) ==
    [k \in DOMAIN table \cup {key} |-> IF k = key THEN value ELSE table[k]]

CacheInit ==
    /\ daily_serial = [d \in Dates |-> 0]
    /\ general_part_sheet = EmptyTable
    /\ archive_seq = NoSeq
    /\ queues = [t \in QueueTable |-> EmptyTable]

CacheTypeOK ==
    /\ daily_serial \in [Dates -> Nat]
    /\ general_part_sheet \in [DOMAIN general_part_sheet -> CachedSheet]
    /\ DOMAIN general_part_sheet \subseteq PartIds
    /\ archive_seq \in Nat \cup {NoSeq}
    /\ DOMAIN queues = QueueTable
    /\ \A t \in QueueTable :
        /\ queues[t] \in [DOMAIN queues[t] -> Row]
        /\ DOMAIN queues[t] \subseteq Nat

\* next_serial returns the value it stores: daily_serial'[date].
next_serial(date) ==
    /\ daily_serial' = [daily_serial EXCEPT ![date] = @ + 1]
    /\ UNCHANGED <<general_part_sheet, archive_seq, queues>>

\* The three outcomes of get_general_part_sheet.  The table itself exists only
\* once a save has committed.
SheetTableExists == archive_seq # NoSeq
SheetCached(part_id) == part_id \in DOMAIN general_part_sheet
get_general_part_sheet(part_id) == decode_cached_part_sheet(general_part_sheet[part_id])

\* Mutant: the absent entry is not treated apart.
NextSeqNoDefault == archive_seq + 1

\* The entry is created with 0 by the first save and raised by two by the others.
NextSeq == IF archive_seq = NoSeq THEN 0 ELSE archive_seq + 2

\* The encodings are made before the transaction starts; if one fails, nothing
\* is written.
Encodable(general, operation) ==
    /\ FitsCacheEncoding(general)
    /\ Serializable(general)
    /\ Serializable(operation)

\* Mutant: the operation part sheet is not queued.
save_general_part_sheet(saved_at, machine_id, part_id, general, operation) ==
    LET seq == NextSeq
        RowOf(sheet) == encode_part_sheet_for_db(saved_at, machine_id, part_id, sheet)
    IN  /\ archive_seq' = seq
        /\ general_part_sheet' =
             Insert(general_part_sheet, part_id, encode_part_sheet_for_cache(general))
        /\ queues' = [queues EXCEPT !["General"] = Insert(@, seq, RowOf(general))]
        /\ UNCHANGED daily_serial

\* Mutant: the sheet is queued and not cached.
save_queues_only(saved_at, machine_id, part_id, general, operation) ==
    LET seq == NextSeq
        RowOf(sheet) == encode_part_sheet_for_db(saved_at, machine_id, part_id, sheet)
    IN  /\ archive_seq' = seq
        /\ queues' = [queues EXCEPT !["General"] = Insert(@, seq, RowOf(general)),
                                    !["Operation"] = Insert(@, seq + 1, RowOf(operation))]
        /\ UNCHANGED <<daily_serial, general_part_sheet>>

save_part_sheets(saved_at, machine_id, part_id, general, operation) ==
    LET seq == NextSeq
        RowOf(sheet) == encode_part_sheet_for_db(saved_at, machine_id, part_id, sheet)
    IN  /\ archive_seq' = seq
        /\ general_part_sheet' =
             Insert(general_part_sheet, part_id, encode_part_sheet_for_cache(general))
        /\ queues' = [queues EXCEPT !["General"] = Insert(@, seq, RowOf(general)),
                                    !["Operation"] = Insert(@, seq + 1, RowOf(operation))]
        /\ UNCHANGED daily_serial

TotalEnqueued == Cardinality(DOMAIN queues["General"]) + Cardinality(DOMAIN queues["Operation"])

check_enqueuing_allowed == TotalEnqueued < QueuesThreshold

\* A read transaction: the keys and the rows of the whole table.
get_queue_batch(t) == queues[t]

\* Mutant: empties the table instead of removing the keys of the batch.
remove_all_entries(t, keys) ==
    /\ queues' = [queues EXCEPT ![t] = EmptyTable]
    /\ UNCHANGED <<daily_serial, general_part_sheet, archive_seq>>

\* Mutant: an off-by-one leaves the last key of the batch.
remove_entries_but_last(t, keys) ==
    LET removed == {k \in keys : \E j \in keys : k < j}
    IN  /\ queues' = [queues EXCEPT ![t] = Restrict(@, DOMAIN @ \ removed)]
        /\ UNCHANGED <<daily_serial, general_part_sheet, archive_seq>>

\* Keys that are not in the table are ignored.
remove_entries(t, keys) ==
    /\ queues' = [queues EXCEPT ![t] = Restrict(@, DOMAIN @ \ keys)]
    /\ UNCHANGED <<daily_serial, general_part_sheet, archive_seq>>
=============================================================================
