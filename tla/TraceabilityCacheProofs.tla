------------------------ MODULE TraceabilityCacheProofs ------------------------
(***************************************************************************)
(* Lemmas about the methods of the cache, for the modules that use them.     *)
(***************************************************************************)
EXTENDS TraceabilityCache, TLAPS

\* What is read from a machine gives rows and cached sheets of the expected types.
LEMMA EncodedType ==
    ASSUME NEW at \in Nat, NEW m \in Machines, NEW p \in PartIds,
           NEW N, N \subseteq Nids, NEW sheet \in [N -> Values]
    PROVE  /\ encode_part_sheet_for_db(at, m, p, sheet) \in Row
           /\ encode_part_sheet_for_db(at, m, p, sheet).saved_at = at
           /\ encode_part_sheet_for_cache(sheet) \in CachedSheet
<1>1. \A id \in N : BrowseName[id] \in Names /\ sheet[id] \in Values /\ id \in Nids
  BY PartSheetAssumption
<1>2. {<<BrowseName[id], sheet[id]>> : id \in N} \in SUBSET (Names \X Values)
  BY <1>1
<1>3. {<<id, sheet[id]>> : id \in N} \in SUBSET (Nids \X Values)
  BY <1>1
<1>. QED
  BY <1>2, <1>3 DEF encode_part_sheet_for_db, encode_part_sheet_for_cache, Row, CachedSheet

\* The sequence number of a save, the first one included.
LEMMA NextSeqValue ==
    ASSUME archive_seq \in Nat \cup {NoSeq}
    PROVE  NextSeq = archive_seq + 2 /\ NextSeq \in Nat
BY DEF NextSeq, NoSeq

\* What a save does to the tables: one row in each queue, and the general part sheet.
LEMMA SaveEffect ==
    ASSUME CacheTypeOK, NEW at \in Nat, NEW m \in Machines, NEW p \in PartIds,
           NEW general, DOMAIN general \subseteq Nids, general \in [DOMAIN general -> Values],
           NEW operation, DOMAIN operation \subseteq Nids,
           operation \in [DOMAIN operation -> Values],
           save_part_sheets(at, m, p, general, operation)
    PROVE  /\ \E g \in Row, o \in Row :
                /\ g.saved_at = at /\ o.saved_at = at
                /\ queues'["General"] = Insert(queues["General"], archive_seq', g)
                /\ queues'["Operation"] = Insert(queues["Operation"], archive_seq' + 1, o)
           /\ archive_seq' = archive_seq + 2
           /\ archive_seq' \in Nat
           /\ DOMAIN queues' = QueueTable
           /\ general_part_sheet' =
                Insert(general_part_sheet, p, encode_part_sheet_for_cache(general))
           /\ daily_serial' = daily_serial
           /\ CacheTypeOK'
<1>. DEFINE g == encode_part_sheet_for_db(at, m, p, general)
            o == encode_part_sheet_for_db(at, m, p, operation)
            c == encode_part_sheet_for_cache(general)
<1>3. g \in Row /\ g.saved_at = at /\ c \in CachedSheet
  BY EncodedType
<1>4. o \in Row /\ o.saved_at = at
  BY EncodedType
<1>5. /\ archive_seq' = NextSeq
      /\ general_part_sheet' = Insert(general_part_sheet, p, c)
      /\ queues' = [queues EXCEPT !["General"] = Insert(queues["General"], NextSeq, g),
                                  !["Operation"] = Insert(queues["Operation"], NextSeq + 1, o)]
      /\ daily_serial' = daily_serial
  BY DEF save_part_sheets
<1>6. NextSeq = archive_seq + 2 /\ NextSeq \in Nat
  BY NextSeqValue DEF CacheTypeOK
<1>. HIDE DEF g, o, c
<1>7. /\ DOMAIN queues' = QueueTable
      /\ queues'["General"] = Insert(queues["General"], archive_seq', g)
      /\ queues'["Operation"] = Insert(queues["Operation"], archive_seq' + 1, o)
  BY <1>5 DEF CacheTypeOK, QueueTable
<1>8. general_part_sheet' \in [DOMAIN general_part_sheet' -> CachedSheet]
      /\ DOMAIN general_part_sheet' \subseteq PartIds
  <2>1. /\ general_part_sheet \in [DOMAIN general_part_sheet -> CachedSheet]
        /\ DOMAIN general_part_sheet \subseteq PartIds
    BY DEF CacheTypeOK
  <2>2. /\ DOMAIN general_part_sheet' = DOMAIN general_part_sheet \cup {p}
        /\ general_part_sheet' \in [DOMAIN general_part_sheet \cup {p} -> CachedSheet]
    BY <1>3, <1>5, <2>1 DEF Insert
  <2>. QED
    BY <2>1, <2>2
<1>9. \A t \in QueueTable : /\ queues'[t] \in [DOMAIN queues'[t] -> Row]
                            /\ DOMAIN queues'[t] \subseteq Nat
  <2>1. \A t \in QueueTable : /\ queues[t] \in [DOMAIN queues[t] -> Row]
                              /\ DOMAIN queues[t] \subseteq Nat
    BY DEF CacheTypeOK
  <2>2. "General" \in QueueTable /\ "Operation" \in QueueTable
    BY DEF QueueTable
  <2>3. /\ DOMAIN queues'["General"] = DOMAIN queues["General"] \cup {archive_seq'}
        /\ queues'["General"] \in [DOMAIN queues["General"] \cup {archive_seq'} -> Row]
    BY <1>3, <1>7, <2>1, <2>2 DEF Insert
  <2>4. /\ DOMAIN queues'["Operation"] = DOMAIN queues["Operation"] \cup {archive_seq' + 1}
        /\ queues'["Operation"] \in [DOMAIN queues["Operation"] \cup {archive_seq' + 1} -> Row]
    BY <1>4, <1>7, <2>1, <2>2 DEF Insert
  <2>5. archive_seq' \in Nat /\ archive_seq' + 1 \in Nat
    BY <1>5, <1>6
  <2>. QED
    BY <2>1, <2>3, <2>4, <2>5 DEF QueueTable
<1>10. CacheTypeOK'
  BY <1>5, <1>6, <1>7, <1>8, <1>9 DEF CacheTypeOK
<1>11. general_part_sheet' = Insert(general_part_sheet, p, encode_part_sheet_for_cache(general))
  BY <1>5 DEF c
<1>. QED
  BY <1>3, <1>4, <1>5, <1>6, <1>7, <1>10, <1>11

\* A serial number is spent.
LEMMA NextSerialEffect ==
    ASSUME CacheTypeOK, NEW date \in Dates, next_serial(date)
    PROVE  /\ CacheTypeOK'
           /\ daily_serial'[date] = daily_serial[date] + 1
           /\ \A d \in Dates : d # date => daily_serial'[d] = daily_serial[d]
           /\ UNCHANGED <<general_part_sheet, archive_seq, queues>>
<1>1. /\ daily_serial' = [daily_serial EXCEPT ![date] = @ + 1]
      /\ UNCHANGED <<general_part_sheet, archive_seq, queues>>
  BY DEF next_serial
<1>2. daily_serial \in [Dates -> Nat]
  BY DEF CacheTypeOK
<1>3. daily_serial' \in [Dates -> Nat]
  BY <1>1, <1>2
<1>4. CacheTypeOK'
  BY <1>1, <1>3 DEF CacheTypeOK
<1>. QED
  BY <1>1, <1>2, <1>4

\* A part sheet comes out of the cache as it went in.
LEMMA CacheRoundTrip ==
    ASSUME NEW N, NEW sheet \in [N -> Values]
    PROVE  decode_cached_part_sheet(encode_part_sheet_for_cache(sheet)) = sheet
<1>. DEFINE buf == {<<id, sheet[id]>> : id \in N}
<1>1. {item[1] : item \in buf} = N
  <2>1. \A item \in buf : item[1] \in N
    OBVIOUS
  <2>2. \A id \in N : \E item \in buf : item[1] = id
    <3>1. \A id \in N : <<id, sheet[id]>> \in buf /\ <<id, sheet[id]>>[1] = id
      OBVIOUS
    <3>. HIDE DEF buf
    <3>. QED
      BY <3>1
  <2>. HIDE DEF buf
  <2>. QED
    BY <2>1, <2>2
<1>2. ASSUME NEW id \in N
      PROVE  (CHOOSE item \in buf : item[1] = id)[2] = sheet[id]
  <2>1. <<id, sheet[id]>> \in buf /\ <<id, sheet[id]>>[1] = id
    OBVIOUS
  <2>2. \A item \in buf : item[1] = id => item[2] = sheet[id]
    OBVIOUS
  <2>. HIDE DEF buf
  <2>3. /\ (CHOOSE item \in buf : item[1] = id) \in buf
        /\ (CHOOSE item \in buf : item[1] = id)[1] = id
    BY <2>1
  <2>. QED
    BY <2>2, <2>3
<1>3. decode_cached_part_sheet(buf) = [id \in N |-> sheet[id]]
  <2>. HIDE DEF buf
  <2>. QED
    BY <1>1, <1>2 DEF decode_cached_part_sheet
<1>. QED
  BY <1>3 DEF encode_part_sheet_for_cache
=============================================================================
