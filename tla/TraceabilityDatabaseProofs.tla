----------------------- MODULE TraceabilityDatabaseProofs -----------------------
(***************************************************************************)
(* Proofs about TraceabilityDatabase, for every set of machines, parts,      *)
(* values and savers and every value of the bounds.                          *)
(***************************************************************************)
EXTENDS TraceabilityDatabase, TraceabilityCacheProofs, TLAPS, FiniteSetTheorems

\* The timestamps held by the jobs are their own, and older than the clock.
JobStamps ==
    /\ \A n \in saved : n < clock
    /\ \A s \in Savers : saver[s] = "job" =>
        /\ stamp[s] < clock
        /\ stamp[s] \notin saved
        /\ \A r \in Savers : (saver[r] = "job" /\ stamp[r] = stamp[s]) => r = s

TypeInv == TypeOK /\ JobStamps

-----------------------------------------------------------------------------
(* What a save commits *)

\* One row in each queue, with the timestamp that its job was given.
LEMMA SaveCommitEffect ==
    ASSUME TypeOK, NEW s \in Savers, SaveCommit(s)
    PROVE  \E g \in Row, o \in Row :
             /\ g.saved_at = stamp[s] /\ o.saved_at = stamp[s]
             /\ archive_seq' = archive_seq + 2
             /\ archive_seq' \in Nat
             /\ DOMAIN queues' = QueueTable
             /\ queues'["General"] = Insert(queues["General"], archive_seq', g)
             /\ queues'["Operation"] = Insert(queues["Operation"], archive_seq' + 1, o)
             /\ CacheTypeOK'
<1>1. PICK m \in Machines, p \in PartIds,
           general \in [GeneralNids -> Values], operation \in [OperationNids -> Values] :
        save_part_sheets(stamp[s], m, p, general, operation)
  BY DEF SaveCommit
<1>2. stamp[s] \in Nat /\ CacheTypeOK
  BY DEF TypeOK
<1>3. /\ DOMAIN general \subseteq Nids /\ general \in [DOMAIN general -> Values]
      /\ DOMAIN operation \subseteq Nids /\ operation \in [DOMAIN operation -> Values]
  BY DatabaseAssumption
<1>4. PICK g \in Row, o \in Row :
        /\ g.saved_at = stamp[s] /\ o.saved_at = stamp[s]
        /\ queues'["General"] = Insert(queues["General"], archive_seq', g)
        /\ queues'["Operation"] = Insert(queues["Operation"], archive_seq' + 1, o)
  BY <1>1, <1>2, <1>3, SaveEffect
<1>5. /\ archive_seq' = archive_seq + 2 /\ archive_seq' \in Nat
      /\ DOMAIN queues' = QueueTable /\ CacheTypeOK'
  BY <1>1, <1>2, <1>3, SaveEffect
<1>. QED
  BY <1>4, <1>5

-----------------------------------------------------------------------------
(* Types *)

\* The process is down, the tables are empty: the initial states have their types.
LEMMA InitTypeInv == Init => TypeInv
<1>. SUFFICES ASSUME Init PROVE TypeInv
  OBVIOUS
<1>1. EmptyTable \in [DOMAIN EmptyTable -> Row] /\ DOMAIN EmptyTable = {}
  BY DEF EmptyTable
<1>2. CacheTypeOK
  <2>1. EmptyTable \in [DOMAIN EmptyTable -> CachedSheet]
    BY DEF EmptyTable
  <2>. QED
    BY <1>1, <2>1 DEF Init, CacheInit, CacheTypeOK
<1>3. TypeOK
  <2>1. /\ DOMAIN batch = QueueTable
        /\ \A t \in QueueTable : batch[t] \in [DOMAIN batch[t] -> Row] /\ DOMAIN batch[t] \subseteq Nat
    BY <1>1 DEF Init
  <2>2. archive \in [QueueTable -> [Stamps -> Nat]]
    BY DEF Init
  <2>3. 0 \in 0 .. MaxSaves /\ 0 \in 0 .. MaxFaults /\ 0 \in 0 .. MaxStops
    BY DatabaseAssumption
  <2>4. saver \in [Savers -> {"idle", "reading", "job"}] /\ stamp \in [Savers -> Nat]
    BY DEF Init
  <2>. QED
    BY <1>2, <2>1, <2>2, <2>3, <2>4 DEF Init, TypeOK
<1>4. JobStamps
  BY DEF Init, JobStamps
<1>. QED
  BY <1>3, <1>4 DEF TypeInv

\* Every step of the process, of the drain and of the saves preserves the types.
LEMMA NextTypeInv == TypeInv /\ [Next]_vars => TypeInv'
<1>. SUFFICES ASSUME TypeInv, [Next]_vars PROVE TypeInv'
  OBVIOUS
<1>. USE DatabaseAssumption
<1>1. CASE Start
  BY <1>1 DEF Start, redbVars, drainVars, saverVars, processVars, Fault, TypeInv, TypeOK, CacheTypeOK, JobStamps
<1>2. CASE ExitUnstarted
  BY <1>2 DEF ExitUnstarted, ProcessEnds, Fault, EmptyTable, redbVars, TypeInv, TypeOK, CacheTypeOK, JobStamps
<1>3. CASE ExitFailed
  BY <1>3 DEF ExitFailed, ProcessEnds, Fault, EmptyTable, redbVars, TypeInv, TypeOK, CacheTypeOK, JobStamps
<1>4. CASE SessionsStop
  BY <1>4 DEF SessionsStop, redbVars, drainVars, saverVars, processVars, Fault, TypeInv, TypeOK, CacheTypeOK, JobStamps
<1>5. CASE ExitGraceful
  BY <1>5 DEF ExitGraceful, ProcessEnds, Fault, EmptyTable, redbVars, TypeInv, TypeOK, CacheTypeOK, JobStamps
<1>6. CASE DrainTick
  BY <1>6 DEF DrainTick, redbVars, drainVars, saverVars, processVars, Fault, TypeInv, TypeOK, CacheTypeOK, JobStamps
<1>7. CASE DrainJoin
  BY <1>7 DEF DrainJoin, redbVars, drainVars, saverVars, processVars, Fault, TypeInv, TypeOK, CacheTypeOK, JobStamps
<1>8. CASE Shutdown
  BY <1>8 DEF Shutdown, redbVars, drainVars, saverVars, processVars, Fault, TypeInv, TypeOK, CacheTypeOK, JobStamps
<1>9. CASE Crash
  <2>1. faults' \in 0 .. MaxFaults
    BY <1>9 DEF Crash, Fault, TypeInv, TypeOK
  <2>. QED
    BY <1>9, <2>1 DEF Crash, ProcessEnds, EmptyTable, redbVars, TypeInv, TypeOK, CacheTypeOK, JobStamps
<1>10. ASSUME NEW t \in QueueTable, GetBatch(t) PROVE TypeInv'
  BY <1>10 DEF GetBatch, get_queue_batch, DrainStep, Fault, Append, EmptyTable, redbVars, processVars, saverVars, TypeInv, TypeOK, CacheTypeOK, JobStamps
<1>11. ASSUME NEW t \in QueueTable, InsertOk(t) PROVE TypeInv'
  BY <1>11 DEF InsertOk, DrainStep, Fault, Append, EmptyTable, redbVars, processVars, saverVars, TypeInv, TypeOK, CacheTypeOK, JobStamps
<1>12. ASSUME NEW t \in QueueTable, InsertRefused(t) PROVE TypeInv'
  BY <1>12 DEF InsertRefused, DrainStep, Fault, Append, EmptyTable, redbVars, processVars, saverVars, TypeInv, TypeOK, CacheTypeOK, JobStamps
<1>13. ASSUME NEW t \in QueueTable, RemoveOk(t) PROVE TypeInv'
  <2>1. CacheTypeOK'
    BY <1>13 DEF RemoveOk, remove_entries, Restrict, TypeInv, TypeOK, CacheTypeOK
  <2>2. \A u \in QueueTable : /\ batch'[u] \in [DOMAIN batch'[u] -> Row]
                              /\ DOMAIN batch'[u] \subseteq Nat
    BY <1>13 DEF RemoveOk, EmptyTable, TypeInv, TypeOK
  <2>. QED
    BY <1>13, <2>1, <2>2 DEF RemoveOk, DrainStep, processVars, saverVars, TypeInv, TypeOK, JobStamps
<1>14. ASSUME NEW t \in QueueTable, GetBatchError(t) PROVE TypeInv'
  BY <1>14 DEF GetBatchError, DrainStep, Fault, Append, EmptyTable, redbVars, processVars, saverVars, TypeInv, TypeOK, CacheTypeOK, JobStamps
<1>15. ASSUME NEW t \in QueueTable, InsertError(t) PROVE TypeInv'
  BY <1>15 DEF InsertError, DrainStep, Fault, Append, EmptyTable, redbVars, processVars, saverVars, TypeInv, TypeOK, CacheTypeOK, JobStamps
<1>16. ASSUME NEW t \in QueueTable, RemoveError(t) PROVE TypeInv'
  BY <1>16 DEF RemoveError, DrainStep, Fault, Append, EmptyTable, redbVars, processVars, saverVars, TypeInv, TypeOK, CacheTypeOK, JobStamps
<1>17. ASSUME NEW s \in Savers, SaveRequest(s) PROVE TypeInv'
  BY <1>17 DEF SaveRequest, redbVars, processVars, drainVars, Stamps, TypeInv, TypeOK, CacheTypeOK, JobStamps
<1>18. ASSUME NEW s \in Savers, SaveBegin(s) PROVE TypeInv'
  BY <1>18 DEF SaveBegin, redbVars, processVars, drainVars, Stamps, TypeInv, TypeOK, CacheTypeOK, JobStamps
<1>19. ASSUME NEW s \in Savers, SaveCommit(s) PROVE TypeInv'
  <2>1. CacheTypeOK'
    BY <1>19, SaveCommitEffect DEF TypeInv
  <2>2. stamp[s] \in Stamps
    BY <1>19 DEF SaveCommit, Stamps, TypeInv, TypeOK, JobStamps
  <2>3. TypeOK'
    BY <1>19, <2>1, <2>2 DEF SaveCommit, processVars, drainVars, TypeInv, TypeOK
  <2>4. JobStamps'
    BY <1>19 DEF SaveCommit, TypeInv, TypeOK, JobStamps
  <2>. QED
    BY <2>3, <2>4 DEF TypeInv
<1>20. ASSUME NEW s \in Savers, SaveFails(s) PROVE TypeInv'
  BY <1>20 DEF SaveFails, redbVars, processVars, drainVars, Stamps, TypeInv, TypeOK, CacheTypeOK, JobStamps
<1>21. CASE UNCHANGED vars
  BY <1>21 DEF vars, redbVars, processVars, drainVars, saverVars, TypeInv, TypeOK, CacheTypeOK, JobStamps
<1>. QED
  BY <1>1, <1>2, <1>3, <1>4, <1>5, <1>6, <1>7, <1>8, <1>9, <1>10, <1>11, <1>12, <1>13, <1>14, <1>15, <1>16, <1>17, <1>18, <1>19, <1>20, <1>21
     DEF Next, Process, Drain, DrainFault, Save

\* Every reachable state has the types the declarations give it.
THEOREM TypeInvariance == Spec => []TypeOK
<1>1. TypeInv => TypeOK
  BY DEF TypeInv
<1>. QED
  BY <1>1, InitTypeInv, NextTypeInv, PTL DEF Spec

-----------------------------------------------------------------------------
(* No row is lost.                                                           *)
(*                                                                         *)
(* NoRowLost alone is not inductive: remove_entries removes by key the rows   *)
(* of a batch read two steps earlier, so that what matters is that a key      *)
(* still designates the row that was inserted.  It does because QUEUE_SEQ     *)
(* only grows: a save never reuses a key, not even one of an emptied queue.   *)

\* Queued and fetched rows come from committed saves.
RowsStamped ==
    \A t \in QueueTable :
        /\ \A k \in DOMAIN queues[t] : queues[t][k].saved_at \in saved
        /\ \A k \in DOMAIN batch[t] : batch[t][k].saved_at \in saved

\* The next save uses keys that no queue and no batch holds.
KeysBelowSeq ==
    \A t \in QueueTable :
        /\ \A k \in DOMAIN queues[t] : k <= archive_seq + 1
        /\ \A k \in DOMAIN batch[t] : k <= archive_seq + 1

\* A key of the batch that is still queued designates the row that was fetched.
BatchAgrees ==
    \A t \in QueueTable :
        \A k \in DOMAIN queues[t] : k \in DOMAIN batch[t] => queues[t][k] = batch[t][k]

\* What is about to be removed has been inserted.
BatchArchived ==
    \A t \in QueueTable :
        drain[t] = "remove" => \A k \in DOMAIN batch[t] : archive[t][batch[t][k].saved_at] >= 1

OutboxInv == RowsStamped /\ KeysBelowSeq /\ BatchAgrees /\ BatchArchived /\ NoRowLost

\* An insertion adds at most one copy of a row, and at least one of those it is given.
LEMMA AppendEffect ==
    ASSUME TypeOK, RowsStamped, NEW t \in QueueTable, NEW keys \in SUBSET DOMAIN batch[t],
           Append(t, keys)
    PROVE  /\ \A u \in QueueTable, n \in Stamps :
                /\ archive'[u][n] \in Nat
                /\ archive[u][n] <= archive'[u][n]
                /\ archive'[u][n] <= archive[u][n] + 1
                /\ u # t => archive'[u][n] = archive[u][n]
                /\ (\A k \in keys : batch[t][k].saved_at # n) => archive'[u][n] = archive[u][n]
           /\ \A k \in keys : archive'[t][batch[t][k].saved_at] >= 1
<1>1. \A u \in QueueTable, n \in Stamps :
        archive[u][n] \in Nat /\
        archive'[u][n] = IF u = t /\ \E k \in keys : batch[t][k].saved_at = n
                         THEN archive[u][n] + 1 ELSE archive[u][n]
  BY DEF Append, TypeOK
<1>2. \A k \in keys : batch[t][k].saved_at \in Stamps
  BY DEF RowsStamped, TypeOK
<1>3. \A k \in keys : archive'[t][batch[t][k].saved_at] >= 1
  BY <1>1, <1>2
<1>. QED
  BY <1>1, <1>3

\* A save adds one row to each queue, under a key that was never used.
LEMMA SaveInserts ==
    ASSUME TypeOK, KeysBelowSeq, NEW s \in Savers, SaveCommit(s), NEW t \in QueueTable
    PROVE  \E key \in Nat, row \in Row :
             /\ key > archive_seq + 1
             /\ key <= archive_seq' + 1
             /\ row.saved_at = stamp[s]
             /\ key \notin DOMAIN queues[t]
             /\ key \notin DOMAIN batch[t]
             /\ DOMAIN queues'[t] = DOMAIN queues[t] \cup {key}
             /\ queues'[t][key] = row
             /\ \A k \in DOMAIN queues[t] : queues'[t][k] = queues[t][k]
<1>1. PICK g \in Row, o \in Row :
             /\ g.saved_at = stamp[s] /\ o.saved_at = stamp[s]
             /\ archive_seq' = archive_seq + 2
             /\ archive_seq' \in Nat
             /\ queues'["General"] = Insert(queues["General"], archive_seq', g)
             /\ queues'["Operation"] = Insert(queues["Operation"], archive_seq' + 1, o)
  BY SaveCommitEffect
<1>2. archive_seq \in Int
  BY DEF TypeOK, CacheTypeOK, NoSeq
<1>3. CASE t = "General"
  BY <1>1, <1>2, <1>3 DEF Insert, KeysBelowSeq
<1>4. CASE t = "Operation"
  BY <1>1, <1>2, <1>4 DEF Insert, KeysBelowSeq
<1>. QED
  BY <1>3, <1>4 DEF QueueTable

\* Nothing is saved or queued at first.
LEMMA InitOutboxInv == Init => OutboxInv
BY DEF Init, CacheInit, EmptyTable, QueueTable, OutboxInv, RowsStamped, KeysBelowSeq, BatchAgrees, BatchArchived, NoRowLost, StampsOf

\* Every step keeps what it takes not to lose a row: one case for each action.
LEMMA NextOutboxInv == TypeInv /\ TypeInv' /\ OutboxInv /\ [Next]_vars => OutboxInv'
<1>. SUFFICES ASSUME TypeInv, TypeInv', OutboxInv, [Next]_vars PROVE OutboxInv'
  OBVIOUS
<1>. USE DEF TypeInv
<1>1. CASE Start
  BY <1>1 DEF Start, redbVars, drainVars, saverVars, TypeOK, OutboxInv, RowsStamped, KeysBelowSeq, BatchAgrees, BatchArchived, NoRowLost, StampsOf
<1>2. CASE ExitUnstarted
  BY <1>2 DEF ExitUnstarted, ProcessEnds, EmptyTable, redbVars, TypeOK, OutboxInv, RowsStamped, KeysBelowSeq, BatchAgrees, BatchArchived, NoRowLost, StampsOf
<1>3. CASE ExitFailed
  BY <1>3 DEF ExitFailed, ProcessEnds, EmptyTable, redbVars, TypeOK, OutboxInv, RowsStamped, KeysBelowSeq, BatchAgrees, BatchArchived, NoRowLost, StampsOf
<1>4. CASE SessionsStop
  BY <1>4 DEF SessionsStop, redbVars, drainVars, saverVars, TypeOK, OutboxInv, RowsStamped, KeysBelowSeq, BatchAgrees, BatchArchived, NoRowLost, StampsOf
<1>5. CASE ExitGraceful
  BY <1>5 DEF ExitGraceful, ProcessEnds, EmptyTable, redbVars, TypeOK, OutboxInv, RowsStamped, KeysBelowSeq, BatchAgrees, BatchArchived, NoRowLost, StampsOf
<1>6. CASE DrainTick
  BY <1>6 DEF DrainTick, redbVars, saverVars, TypeOK, OutboxInv, RowsStamped, KeysBelowSeq, BatchAgrees, BatchArchived, NoRowLost, StampsOf
<1>7. CASE DrainJoin
  BY <1>7 DEF DrainJoin, redbVars, saverVars, TypeOK, OutboxInv, RowsStamped, KeysBelowSeq, BatchAgrees, BatchArchived, NoRowLost, StampsOf
<1>8. CASE Shutdown
  BY <1>8 DEF Shutdown, redbVars, drainVars, saverVars, TypeOK, OutboxInv, RowsStamped, KeysBelowSeq, BatchAgrees, BatchArchived, NoRowLost, StampsOf
<1>9. CASE Crash
  BY <1>9 DEF Crash, ProcessEnds, EmptyTable, redbVars, TypeOK, OutboxInv, RowsStamped, KeysBelowSeq, BatchAgrees, BatchArchived, NoRowLost, StampsOf
<1>10. ASSUME NEW t \in QueueTable, GetBatch(t) PROVE OutboxInv'
  <2>1. /\ batch'[t] = queues[t]
        /\ \A u \in QueueTable : u # t => batch'[u] = batch[u]
        /\ \A u \in QueueTable : drain'[u] = "remove" => drain[u] = "remove" /\ u # t
        /\ queues' = queues /\ archive_seq' = archive_seq /\ archive' = archive /\ saved' = saved
    BY <1>10 DEF GetBatch, get_queue_batch, DrainStep, redbVars, saverVars, TypeOK
  <2>2. RowsStamped' /\ KeysBelowSeq' /\ BatchAgrees'
    BY <2>1 DEF OutboxInv, RowsStamped, KeysBelowSeq, BatchAgrees
  <2>3. BatchArchived' /\ NoRowLost'
    BY <2>1 DEF OutboxInv, BatchArchived, NoRowLost, StampsOf
  <2>. QED
    BY <2>2, <2>3 DEF OutboxInv
<1>11. ASSUME NEW t \in QueueTable, InsertOk(t) PROVE OutboxInv'
  <2>1. /\ queues' = queues /\ archive_seq' = archive_seq /\ batch' = batch /\ saved' = saved
        /\ \A u \in QueueTable : u # t => drain'[u] = drain[u]
    BY <1>11 DEF InsertOk, DrainStep, redbVars, saverVars, TypeOK
  <2>2. Append(t, DOMAIN batch[t])
    BY <1>11 DEF InsertOk
  <2>3. \A u \in QueueTable, n \in Stamps :
          archive[u][n] \in Nat /\ archive'[u][n] \in Nat /\ archive[u][n] <= archive'[u][n]
    <3>1. \A u \in QueueTable, n \in Stamps : archive[u][n] \in Nat
      BY DEF TypeOK
    <3>2. TypeOK /\ RowsStamped
      BY DEF OutboxInv
    <3>. QED
      BY <2>2, <3>1, <3>2, AppendEffect
  <2>4. RowsStamped' /\ KeysBelowSeq' /\ BatchAgrees'
    BY <2>1 DEF OutboxInv, RowsStamped, KeysBelowSeq, BatchAgrees
  <2>5. NoRowLost'
    <3>1. \A n \in saved : n \in Stamps
      BY DEF TypeOK
    <3>. QED
      BY <2>1, <2>3, <3>1 DEF OutboxInv, NoRowLost
  <2>6. BatchArchived'
    <3>1. \A k \in DOMAIN batch[t] : archive'[t][batch[t][k].saved_at] >= 1
      BY <2>2, AppendEffect DEF OutboxInv
    <3>2. \A u \in QueueTable : \A k \in DOMAIN batch[u] : batch[u][k].saved_at \in Stamps
      BY DEF OutboxInv, RowsStamped, TypeOK
    <3>. QED
      BY <2>1, <2>3, <3>1, <3>2 DEF OutboxInv, BatchArchived
  <2>. QED
    BY <2>4, <2>5, <2>6 DEF OutboxInv
<1>12. ASSUME NEW t \in QueueTable, InsertRefused(t) PROVE OutboxInv'
  BY <1>12 DEF InsertRefused, DrainStep, redbVars, saverVars, TypeOK, OutboxInv, RowsStamped, KeysBelowSeq, BatchAgrees, BatchArchived, NoRowLost, StampsOf
<1>13. ASSUME NEW t \in QueueTable, RemoveOk(t) PROVE OutboxInv'
  <2>1. /\ DOMAIN queues'[t] = DOMAIN queues[t] \ DOMAIN batch[t]
        /\ \A k \in DOMAIN queues'[t] : queues'[t][k] = queues[t][k]
        /\ DOMAIN batch'[t] = {}
        /\ drain[t] = "remove" /\ drain'[t] = "ok"
        /\ \A u \in QueueTable : u # t =>
              queues'[u] = queues[u] /\ batch'[u] = batch[u] /\ drain'[u] = drain[u]
        /\ archive_seq' = archive_seq /\ archive' = archive /\ saved' = saved
    BY <1>13 DEF RemoveOk, remove_entries, Restrict, DrainStep, EmptyTable, saverVars, TypeOK, CacheTypeOK
  <2>2. RowsStamped' /\ KeysBelowSeq' /\ BatchAgrees' /\ BatchArchived'
    BY <2>1 DEF OutboxInv, RowsStamped, KeysBelowSeq, BatchAgrees, BatchArchived
  <2>3. ASSUME NEW n \in saved PROVE n \in StampsOf(queues'[t]) \/ archive[t][n] >= 1
    <3>1. CASE archive[t][n] >= 1
      BY <3>1
    <3>2. CASE n \in StampsOf(queues[t])
      <4>1. PICK k \in DOMAIN queues[t] : queues[t][k].saved_at = n
        BY <3>2 DEF StampsOf
      <4>2. CASE k \in DOMAIN batch[t]
        BY <2>1, <4>1, <4>2 DEF OutboxInv, BatchAgrees, BatchArchived
      <4>3. CASE k \notin DOMAIN batch[t]
        BY <2>1, <4>1, <4>3 DEF StampsOf
      <4>. QED
        BY <4>2, <4>3
    <3>. QED
      BY <3>1, <3>2 DEF OutboxInv, NoRowLost
  <2>4. NoRowLost'
    BY <2>1, <2>3 DEF OutboxInv, NoRowLost
  <2>. QED
    BY <2>2, <2>4 DEF OutboxInv
<1>14. ASSUME NEW t \in QueueTable, GetBatchError(t) PROVE OutboxInv'
  BY <1>14 DEF GetBatchError, DrainStep, redbVars, saverVars, TypeOK, OutboxInv, RowsStamped, KeysBelowSeq, BatchAgrees, BatchArchived, NoRowLost, StampsOf
<1>15. ASSUME NEW t \in QueueTable, InsertError(t) PROVE OutboxInv'
  <2>1. /\ queues' = queues /\ archive_seq' = archive_seq /\ batch' = batch /\ saved' = saved
        /\ \A u \in QueueTable : u # t => drain'[u] = drain[u]
    BY <1>15 DEF InsertError, DrainStep, redbVars, saverVars, TypeOK
  <2>2. PICK keys \in SUBSET DOMAIN batch[t] : Append(t, keys)
    BY <1>15 DEF InsertError
  <2>3. \A u \in QueueTable, n \in Stamps :
          archive[u][n] \in Nat /\ archive'[u][n] \in Nat /\ archive[u][n] <= archive'[u][n]
    <3>1. \A u \in QueueTable, n \in Stamps : archive[u][n] \in Nat
      BY DEF TypeOK
    <3>2. TypeOK /\ RowsStamped
      BY DEF OutboxInv
    <3>. QED
      BY <2>2, <3>1, <3>2, AppendEffect
  <2>4. RowsStamped' /\ KeysBelowSeq' /\ BatchAgrees'
    BY <2>1 DEF OutboxInv, RowsStamped, KeysBelowSeq, BatchAgrees
  <2>5. NoRowLost'
    <3>1. \A n \in saved : n \in Stamps
      BY DEF TypeOK
    <3>. QED
      BY <2>1, <2>3, <3>1 DEF OutboxInv, NoRowLost
  <2>6. BatchArchived'
    <3>1. drain'[t] = "err"
      BY <1>15 DEF InsertError, DrainStep, TypeOK
    <3>2. \A u \in QueueTable : \A k \in DOMAIN batch[u] : batch[u][k].saved_at \in Stamps
      BY DEF OutboxInv, RowsStamped, TypeOK
    <3>. QED
      BY <2>1, <2>3, <3>1, <3>2 DEF OutboxInv, BatchArchived
  <2>. QED
    BY <2>4, <2>5, <2>6 DEF OutboxInv
<1>16. ASSUME NEW t \in QueueTable, RemoveError(t) PROVE OutboxInv'
  BY <1>16 DEF RemoveError, DrainStep, redbVars, saverVars, TypeOK, OutboxInv, RowsStamped, KeysBelowSeq, BatchAgrees, BatchArchived, NoRowLost, StampsOf
<1>17. ASSUME NEW s \in Savers, SaveRequest(s) PROVE OutboxInv'
  BY <1>17 DEF SaveRequest, redbVars, drainVars, TypeOK, OutboxInv, RowsStamped, KeysBelowSeq, BatchAgrees, BatchArchived, NoRowLost, StampsOf
<1>18. ASSUME NEW s \in Savers, SaveBegin(s) PROVE OutboxInv'
  BY <1>18 DEF SaveBegin, redbVars, drainVars, TypeOK, OutboxInv, RowsStamped, KeysBelowSeq, BatchAgrees, BatchArchived, NoRowLost, StampsOf
<1>19. ASSUME NEW s \in Savers, SaveCommit(s) PROVE OutboxInv'
  <2>1. /\ batch' = batch /\ drain' = drain /\ archive' = archive
        /\ saved' = saved \cup {stamp[s]}
        /\ archive_seq' = archive_seq + 2 /\ archive_seq \in Int
    <3>1. archive_seq' = archive_seq + 2
      BY <1>19, SaveCommitEffect
    <3>. QED
      BY <1>19, <3>1 DEF SaveCommit, drainVars, TypeOK, CacheTypeOK, NoSeq
  <2>2. ASSUME NEW t \in QueueTable
        PROVE  /\ \A k \in DOMAIN queues'[t] : queues'[t][k].saved_at \in saved'
               /\ \A k \in DOMAIN queues'[t] : k <= archive_seq' + 1
               /\ \A k \in DOMAIN queues'[t] : k \in DOMAIN batch[t] => queues'[t][k] = batch[t][k]
               /\ StampsOf(queues'[t]) = StampsOf(queues[t]) \cup {stamp[s]}
    <3>1. PICK key \in Nat, row \in Row :
             /\ key <= archive_seq' + 1
             /\ row.saved_at = stamp[s]
             /\ key \notin DOMAIN batch[t]
             /\ DOMAIN queues'[t] = DOMAIN queues[t] \cup {key}
             /\ queues'[t][key] = row
             /\ \A k \in DOMAIN queues[t] : queues'[t][k] = queues[t][k]
             /\ key \notin DOMAIN queues[t]
      BY <1>19, SaveInserts DEF OutboxInv
    <3>2. \A k \in DOMAIN queues[t] : k \in Nat
      BY DEF TypeOK, CacheTypeOK
    <3>3. \A k \in DOMAIN queues'[t] : queues'[t][k].saved_at \in saved'
      BY <2>1, <3>1 DEF OutboxInv, RowsStamped
    <3>4. \A k \in DOMAIN queues'[t] : k <= archive_seq' + 1
      BY <2>1, <3>1, <3>2 DEF OutboxInv, KeysBelowSeq
    <3>5. \A k \in DOMAIN queues'[t] : k \in DOMAIN batch[t] => queues'[t][k] = batch[t][k]
      BY <3>1 DEF OutboxInv, BatchAgrees
    <3>6. StampsOf(queues'[t]) = StampsOf(queues[t]) \cup {stamp[s]}
      BY <3>1 DEF StampsOf
    <3>. QED
      BY <3>3, <3>4, <3>5, <3>6
  <2>3. RowsStamped' /\ BatchAgrees' /\ BatchArchived'
    BY <2>1, <2>2 DEF OutboxInv, RowsStamped, BatchAgrees, BatchArchived
  <2>4. KeysBelowSeq'
    <3>1. \A t \in QueueTable : \A k \in DOMAIN batch[t] : k \in Nat
      BY DEF TypeOK
    <3>. QED
      BY <2>1, <2>2, <3>1 DEF OutboxInv, KeysBelowSeq
  <2>5. NoRowLost'
    BY <2>1, <2>2 DEF OutboxInv, NoRowLost
  <2>. QED
    BY <2>3, <2>4, <2>5 DEF OutboxInv
<1>20. ASSUME NEW s \in Savers, SaveFails(s) PROVE OutboxInv'
  BY <1>20 DEF SaveFails, redbVars, drainVars, TypeOK, OutboxInv, RowsStamped, KeysBelowSeq, BatchAgrees, BatchArchived, NoRowLost, StampsOf
<1>21. CASE UNCHANGED vars
  BY <1>21 DEF vars, redbVars, drainVars, saverVars, OutboxInv, RowsStamped, KeysBelowSeq, BatchAgrees, BatchArchived, NoRowLost, StampsOf
<1>. QED
  BY <1>1, <1>2, <1>3, <1>4, <1>5, <1>6, <1>7, <1>8, <1>9, <1>10, <1>11, <1>12, <1>13, <1>14, <1>15, <1>16, <1>17, <1>18, <1>19, <1>20, <1>21
     DEF Next, Process, Drain, DrainFault, Save

\* NoRowLost for every instance: at-least-once delivery of both rows of every save.
THEOREM NoRowLostInvariance == Spec => []NoRowLost
<1>1. OutboxInv => NoRowLost
  BY DEF OutboxInv
<1>. QED
  BY <1>1, InitTypeInv, NextTypeInv, InitOutboxInv, NextOutboxInv, PTL DEF Spec
=============================================================================
