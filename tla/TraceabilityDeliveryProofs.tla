----------------------- MODULE TraceabilityDeliveryProofs -----------------------
(***************************************************************************)
(* Proofs about TraceabilityDatabase, continued: how often a row is           *)
(* delivered, what is archived before a machine is served, how long the       *)
(* queues get, and that all this is an Outbox.                                *)
(***************************************************************************)
EXTENDS TraceabilityDatabaseProofs

\* A batch that is being inserted or removed is still queued, row for row.
BatchQueued ==
    \A t \in QueueTable :
        drain[t] \in {"insert", "remove"} => DOMAIN batch[t] \subseteq DOMAIN queues[t]

\* A save has one row in a queue.
RowsDistinct ==
    \A t \in QueueTable : \A j, k \in DOMAIN queues[t] :
        queues[t][j].saved_at = queues[t][k].saved_at => j = k

\* What ClickHouse holds was saved.
ArchivedSaved ==
    \A t \in QueueTable, n \in Stamps : n \notin saved => archive[t][n] = 0

\* Nothing is drained by a process that has not started, or that gives up.
DrainStopped == main \in {"down", "failed"} => \A t \in QueueTable : drain[t] = "idle"

\* A queued row has one copy for each failure at most, until a round inserts it: the next
\* one is then paid for by the removal that fails.
QueuedCopies ==
    \A t \in QueueTable : \A k \in DOMAIN queues[t] :
        (drain[t] = "remove" /\ k \in DOMAIN batch[t])
            \/ archive[t][queues[t][k].saved_at] <= faults

\* How far the first run has got with what the previous process left.
BacklogFetched ==
    main = "first_drain" => \A t \in QueueTable, n \in backlog :
        /\ drain[t] = "insert" => n \in StampsOf(batch[t]) \/ archive[t][n] >= 1
        /\ drain[t] \in {"remove", "ok"} => archive[t][n] >= 1

DeliveryInv ==
    /\ BatchQueued /\ RowsDistinct /\ ArchivedSaved /\ DrainStopped
    /\ QueuedCopies /\ DuplicatesBounded
    /\ BacklogFetched /\ BacklogArchivedBeforeServing

-----------------------------------------------------------------------------
(* Copies and backlog *)

\* Nothing is queued, drained or archived at first.
LEMMA InitDeliveryInv == Init => DeliveryInv
BY DEF Init, CacheInit, EmptyTable, Stamps, DeliveryInv, BatchQueued, RowsDistinct, ArchivedSaved, DrainStopped, QueuedCopies, DuplicatesBounded, BacklogFetched, BacklogArchivedBeforeServing, StampsOf

\* The types of what the invariant counts.
LEMMA CopiesTyped ==
    ASSUME TypeOK, RowsStamped
    PROVE  /\ faults \in Nat
           /\ \A t \in QueueTable, n \in Stamps : archive[t][n] \in Nat
           /\ \A t \in QueueTable : \A k \in DOMAIN queues[t] :
                queues[t][k].saved_at \in saved /\ queues[t][k].saved_at \in Stamps
           /\ \A t \in QueueTable : \A k \in DOMAIN batch[t] :
                batch[t][k].saved_at \in saved /\ batch[t][k].saved_at \in Stamps
           /\ saved \subseteq Stamps /\ backlog \subseteq saved
<1>1. faults \in Nat
  BY DatabaseAssumption DEF TypeOK
<1>. QED
  BY <1>1 DEF TypeOK, RowsStamped

\* A failure pays for one more copy of every row.
LEMMA FailurePaid ==
    ASSUME TypeOK, RowsStamped, DuplicatesBounded,
           faults' = faults + 1, archive' = archive, queues' = queues
    PROVE  QueuedCopies' /\ DuplicatesBounded'
<1>1. \A t \in QueueTable, n \in Stamps : archive'[t][n] <= faults' /\ archive'[t][n] <= 1 + faults'
  BY CopiesTyped DEF DuplicatesBounded
<1>2. \A t \in QueueTable : \A k \in DOMAIN queues'[t] : queues'[t][k].saved_at \in Stamps
  BY CopiesTyped
<1>. QED
  BY <1>1, <1>2 DEF QueuedCopies, DuplicatesBounded

\* Every step of the drain keeps the copies of the rows within the failures, and the
\* backlog ahead of the machines: one case for each action.
LEMMA NextDeliveryInv ==
    TypeInv /\ TypeInv' /\ OutboxInv /\ OutboxInv' /\ DeliveryInv /\ [Next]_vars => DeliveryInv'
<1>. SUFFICES ASSUME TypeInv, TypeInv', OutboxInv, OutboxInv', DeliveryInv, [Next]_vars
              PROVE  DeliveryInv'
  OBVIOUS
<1>. USE DEF TypeInv
<1>1. CASE Start
  BY <1>1 DEF Start, redbVars, drainVars, saverVars, TypeOK, OutboxInv, DeliveryInv, BatchQueued, RowsDistinct, ArchivedSaved, DrainStopped, QueuedCopies, DuplicatesBounded, BacklogFetched, BacklogArchivedBeforeServing, StampsOf
<1>2. CASE ExitUnstarted
  BY <1>2 DEF ExitUnstarted, ProcessEnds, EmptyTable, redbVars, TypeOK, OutboxInv, DeliveryInv, BatchQueued, RowsDistinct, ArchivedSaved, DrainStopped, QueuedCopies, DuplicatesBounded, BacklogFetched, BacklogArchivedBeforeServing, StampsOf
<1>3. CASE ExitFailed
  BY <1>3 DEF ExitFailed, ProcessEnds, EmptyTable, redbVars, TypeOK, OutboxInv, DeliveryInv, BatchQueued, RowsDistinct, ArchivedSaved, DrainStopped, QueuedCopies, DuplicatesBounded, BacklogFetched, BacklogArchivedBeforeServing, StampsOf
<1>4. CASE SessionsStop
  BY <1>4 DEF SessionsStop, redbVars, drainVars, saverVars, TypeOK, OutboxInv, DeliveryInv, BatchQueued, RowsDistinct, ArchivedSaved, DrainStopped, QueuedCopies, DuplicatesBounded, BacklogFetched, BacklogArchivedBeforeServing, StampsOf
<1>5. CASE ExitGraceful
  BY <1>5 DEF ExitGraceful, ProcessEnds, EmptyTable, redbVars, TypeOK, OutboxInv, DeliveryInv, BatchQueued, RowsDistinct, ArchivedSaved, DrainStopped, QueuedCopies, DuplicatesBounded, BacklogFetched, BacklogArchivedBeforeServing, StampsOf
<1>6. CASE DrainTick
  BY <1>6 DEF DrainTick, redbVars, processVars, saverVars, TypeOK, OutboxInv, DeliveryInv, BatchQueued, RowsDistinct, ArchivedSaved, DrainStopped, QueuedCopies, DuplicatesBounded, BacklogFetched, BacklogArchivedBeforeServing, StampsOf
<1>7. CASE DrainJoin
  BY <1>7 DEF DrainJoin, redbVars, saverVars, TypeOK, OutboxInv, DeliveryInv, BatchQueued, RowsDistinct, ArchivedSaved, DrainStopped, QueuedCopies, DuplicatesBounded, BacklogFetched, BacklogArchivedBeforeServing, StampsOf
<1>8. CASE Shutdown
  BY <1>8 DEF Shutdown, redbVars, drainVars, saverVars, TypeOK, OutboxInv, DeliveryInv, BatchQueued, RowsDistinct, ArchivedSaved, DrainStopped, QueuedCopies, DuplicatesBounded, BacklogFetched, BacklogArchivedBeforeServing, StampsOf
<1>9. CASE Crash
  <2>1. /\ faults' = faults + 1 /\ archive' = archive /\ queues' = queues
    BY <1>9 DEF Crash, Fault, ProcessEnds, redbVars
  <2>2. QueuedCopies' /\ DuplicatesBounded'
    BY <2>1, FailurePaid DEF DeliveryInv, OutboxInv
  <2>. QED
    BY <1>9, <2>2 DEF Crash, ProcessEnds, EmptyTable, redbVars, DeliveryInv, BatchQueued, RowsDistinct, ArchivedSaved, DrainStopped, BacklogFetched, BacklogArchivedBeforeServing, StampsOf
<1>10. ASSUME NEW t \in QueueTable, GetBatch(t) PROVE DeliveryInv'
  <2>1. /\ batch'[t] = queues[t]
        /\ drain[t] = "get" /\ drain'[t] \in {"ok", "insert"}
        /\ main = "first_drain" => drain'[t] = "insert"
        /\ \A u \in QueueTable : u # t => batch'[u] = batch[u] /\ drain'[u] = drain[u]
        /\ queues' = queues /\ archive' = archive /\ saved' = saved /\ faults' = faults
        /\ main' = main /\ backlog' = backlog
    BY <1>10 DEF GetBatch, get_queue_batch, skip_if_empty, DrainStep, redbVars, processVars, saverVars, TypeOK
  <2>2. BatchQueued' /\ RowsDistinct' /\ ArchivedSaved' /\ DrainStopped'
    BY <2>1 DEF DeliveryInv, BatchQueued, RowsDistinct, ArchivedSaved, DrainStopped
  <2>3. QueuedCopies' /\ DuplicatesBounded'
    BY <2>1 DEF DeliveryInv, QueuedCopies, DuplicatesBounded
  <2>4. BacklogFetched' /\ BacklogArchivedBeforeServing'
    <3>1. \A n \in backlog : n \in StampsOf(queues[t]) \/ archive[t][n] >= 1
      BY CopiesTyped DEF OutboxInv, NoRowLost
    <3>. QED
      BY <2>1, <3>1 DEF DeliveryInv, BacklogFetched, BacklogArchivedBeforeServing
  <2>. QED
    BY <2>2, <2>3, <2>4 DEF DeliveryInv
<1>11. ASSUME NEW t \in QueueTable, InsertOk(t) PROVE DeliveryInv'
  <2>1. /\ queues' = queues /\ batch' = batch /\ saved' = saved
        /\ main' = main /\ backlog' = backlog /\ faults' = faults
        /\ drain[t] = "insert" /\ drain'[t] = "remove"
        /\ \A u \in QueueTable : u # t => drain'[u] = drain[u]
    BY <1>11 DEF InsertOk, Fault, DrainStep, redbVars, processVars, saverVars, TypeOK
  <2>2. /\ \A u \in QueueTable, n \in Stamps :
             /\ archive[u][n] \in Nat /\ archive'[u][n] \in Nat
             /\ archive[u][n] <= archive'[u][n]
             /\ archive'[u][n] <= archive[u][n] + 1
             /\ u # t => archive'[u][n] = archive[u][n]
             /\ (\A k \in DOMAIN batch[t] : batch[t][k].saved_at # n) => archive'[u][n] = archive[u][n]
        /\ \A k \in DOMAIN batch[t] : archive'[t][batch[t][k].saved_at] >= 1
    <3>1. Append(t, DOMAIN batch[t])
      BY <1>11 DEF InsertOk
    <3>. QED
      BY <3>1, AppendEffect, CopiesTyped DEF OutboxInv
  <2>3. \A k \in DOMAIN batch[t] :
          /\ k \in DOMAIN queues[t] /\ queues[t][k] = batch[t][k]
          /\ batch[t][k].saved_at \in saved /\ batch[t][k].saved_at \in Stamps
          /\ archive[t][batch[t][k].saved_at] <= faults
    BY <2>1, CopiesTyped DEF DeliveryInv, BatchQueued, QueuedCopies, OutboxInv, BatchAgrees
  <2>4. BatchQueued' /\ RowsDistinct' /\ DrainStopped'
    BY <2>1 DEF DeliveryInv, BatchQueued, RowsDistinct, DrainStopped
  <2>5. ArchivedSaved'
    BY <2>1, <2>2, <2>3 DEF DeliveryInv, ArchivedSaved
  <2>6. DuplicatesBounded'
    <3>1. faults \in Nat
      BY CopiesTyped DEF OutboxInv
    <3>2. ASSUME NEW u \in QueueTable, NEW n \in Stamps PROVE archive'[u][n] <= 1 + faults
      <4>1. CASE u = t /\ \E k \in DOMAIN batch[t] : batch[t][k].saved_at = n
        BY <2>2, <2>3, <3>1, <4>1
      <4>2. CASE ~(u = t /\ \E k \in DOMAIN batch[t] : batch[t][k].saved_at = n)
        <5>1. archive'[u][n] = archive[u][n]
          BY <2>2, <4>2
        <5>. QED
          BY <5>1 DEF DeliveryInv, DuplicatesBounded
      <4>. QED
        BY <4>1, <4>2
    <3>. QED
      BY <2>1, <3>2 DEF DuplicatesBounded
  <2>7. QueuedCopies'
    <3>1. ASSUME NEW u \in QueueTable, NEW k \in DOMAIN queues[u],
                 ~(drain'[u] = "remove" /\ k \in DOMAIN batch[u])
          PROVE  archive'[u][queues[u][k].saved_at] <= faults
      <4>1. queues[u][k].saved_at \in Stamps
        BY CopiesTyped DEF OutboxInv
      <4>2. archive[u][queues[u][k].saved_at] <= faults
        BY <2>1, <3>1 DEF DeliveryInv, QueuedCopies
      <4>3. CASE u # t
        BY <2>2, <4>1, <4>2, <4>3
      <4>4. CASE u = t
        <5>1. \A j \in DOMAIN batch[t] : batch[t][j].saved_at # queues[t][k].saved_at
          BY <2>1, <2>3, <3>1, <4>4 DEF DeliveryInv, RowsDistinct
        <5>. QED
          BY <2>2, <4>1, <4>2, <4>4, <5>1
      <4>. QED
        BY <4>3, <4>4
    <3>. QED
      BY <2>1, <3>1 DEF QueuedCopies
  <2>8. BacklogFetched' /\ BacklogArchivedBeforeServing'
    <3>1. \A n \in backlog : n \in Stamps
      BY CopiesTyped DEF OutboxInv
    <3>2. \A n \in StampsOf(batch[t]) : archive'[t][n] >= 1
      BY <2>2 DEF StampsOf
    <3>3. BacklogFetched'
      BY <2>1, <2>2, <3>1, <3>2 DEF DeliveryInv, BacklogFetched
    <3>4. BacklogArchivedBeforeServing'
      BY <2>1, <2>2, <3>1 DEF DeliveryInv, BacklogArchivedBeforeServing
    <3>. QED
      BY <3>3, <3>4
  <2>. QED
    BY <2>4, <2>5, <2>6, <2>7, <2>8 DEF DeliveryInv
<1>12. ASSUME NEW t \in QueueTable, InsertRefused(t) PROVE DeliveryInv'
  BY <1>12 DEF InsertRefused, DrainStep, Fault, redbVars, processVars, saverVars, TypeOK, OutboxInv, DeliveryInv, BatchQueued, RowsDistinct, ArchivedSaved, DrainStopped, QueuedCopies, DuplicatesBounded, BacklogFetched, BacklogArchivedBeforeServing, StampsOf
<1>13. ASSUME NEW t \in QueueTable, RemoveOk(t) PROVE DeliveryInv'
  <2>1. /\ DOMAIN queues'[t] = DOMAIN queues[t] \ DOMAIN batch[t]
        /\ \A k \in DOMAIN queues'[t] : queues'[t][k] = queues[t][k]
        /\ DOMAIN batch'[t] = {}
        /\ drain[t] = "remove" /\ drain'[t] = "ok"
        /\ \A u \in QueueTable : u # t =>
              queues'[u] = queues[u] /\ batch'[u] = batch[u] /\ drain'[u] = drain[u]
        /\ archive' = archive /\ saved' = saved /\ faults' = faults
        /\ main' = main /\ backlog' = backlog
    BY <1>13 DEF RemoveOk, remove_entries, Restrict, DrainStep, EmptyTable, saverVars, processVars, TypeOK, CacheTypeOK
  <2>2. BatchQueued' /\ RowsDistinct' /\ ArchivedSaved' /\ DrainStopped'
    BY <2>1 DEF DeliveryInv, BatchQueued, RowsDistinct, ArchivedSaved, DrainStopped
  <2>3. QueuedCopies' /\ DuplicatesBounded'
    BY <2>1 DEF DeliveryInv, QueuedCopies, DuplicatesBounded
  <2>4. BacklogFetched' /\ BacklogArchivedBeforeServing'
    BY <2>1 DEF DeliveryInv, BacklogFetched, BacklogArchivedBeforeServing
  <2>. QED
    BY <2>2, <2>3, <2>4 DEF DeliveryInv
<1>14. ASSUME NEW t \in QueueTable, GetBatchError(t) PROVE DeliveryInv'
  <2>1. /\ faults' = faults + 1 /\ archive' = archive /\ queues' = queues
        /\ drain[t] \in {"get", "remove"} /\ drain'[t] = "err"
        /\ \A u \in QueueTable : u # t => drain'[u] = drain[u]
        /\ batch' = batch /\ saved' = saved /\ main' = main /\ backlog' = backlog
    BY <1>14 DEF GetBatchError, Fault, DrainStep, redbVars, processVars, saverVars, TypeOK
  <2>2. QueuedCopies' /\ DuplicatesBounded'
    BY <2>1, FailurePaid DEF DeliveryInv, OutboxInv
  <2>. QED
    BY <2>1, <2>2 DEF DeliveryInv, BatchQueued, RowsDistinct, ArchivedSaved, DrainStopped, BacklogFetched, BacklogArchivedBeforeServing
<1>15. ASSUME NEW t \in QueueTable, InsertError(t) PROVE DeliveryInv'
  <2>1. /\ queues' = queues /\ batch' = batch /\ saved' = saved
        /\ main' = main /\ backlog' = backlog /\ faults' = faults + 1
        /\ drain[t] = "insert" /\ drain'[t] = "err"
        /\ \A u \in QueueTable : u # t => drain'[u] = drain[u]
    BY <1>15 DEF InsertError, Fault, DrainStep, redbVars, processVars, saverVars, TypeOK
  <2>2. \A u \in QueueTable, n \in Stamps :
             /\ archive[u][n] \in Nat /\ archive'[u][n] \in Nat
             /\ archive[u][n] <= archive'[u][n]
             /\ archive'[u][n] <= archive[u][n] + 1
             /\ u # t => archive'[u][n] = archive[u][n]
             /\ (\A k \in DOMAIN batch[t] : batch[t][k].saved_at # n) => archive'[u][n] = archive[u][n]
    <3>1. PICK keys \in SUBSET DOMAIN batch[t] : Append(t, keys)
      BY <1>15 DEF InsertError
    <3>. QED
      BY <3>1, AppendEffect, CopiesTyped DEF OutboxInv
  <2>3. \A k \in DOMAIN batch[t] :
          /\ k \in DOMAIN queues[t] /\ queues[t][k] = batch[t][k]
          /\ batch[t][k].saved_at \in saved /\ batch[t][k].saved_at \in Stamps
          /\ archive[t][batch[t][k].saved_at] <= faults
    BY <2>1, CopiesTyped DEF DeliveryInv, BatchQueued, QueuedCopies, OutboxInv, BatchAgrees
  <2>4. BatchQueued' /\ RowsDistinct' /\ DrainStopped'
    BY <2>1 DEF DeliveryInv, BatchQueued, RowsDistinct, DrainStopped
  <2>5. ArchivedSaved'
    BY <2>1, <2>2, <2>3 DEF DeliveryInv, ArchivedSaved
  <2>6. DuplicatesBounded'
    <3>1. faults \in Nat
      BY CopiesTyped DEF OutboxInv
    <3>. QED
      BY <2>1, <2>2, <3>1 DEF DeliveryInv, DuplicatesBounded
  <2>7. QueuedCopies'
    <3>1. ASSUME NEW u \in QueueTable, NEW k \in DOMAIN queues[u],
                 ~(drain'[u] = "remove" /\ k \in DOMAIN batch[u])
          PROVE  archive'[u][queues[u][k].saved_at] <= faults + 1
      <4>1. queues[u][k].saved_at \in Stamps /\ faults \in Nat
        BY CopiesTyped DEF OutboxInv
      <4>2. archive[u][queues[u][k].saved_at] <= faults
        BY <2>1, <3>1 DEF DeliveryInv, QueuedCopies
      <4>. QED
        BY <2>2, <4>1, <4>2
    <3>. QED
      BY <2>1, <3>1 DEF QueuedCopies
  <2>8. BacklogFetched' /\ BacklogArchivedBeforeServing'
    <3>1. \A n \in backlog : n \in Stamps
      BY CopiesTyped DEF OutboxInv
    <3>. QED
      BY <2>1, <2>2, <3>1 DEF DeliveryInv, BacklogFetched, BacklogArchivedBeforeServing
  <2>. QED
    BY <2>4, <2>5, <2>6, <2>7, <2>8 DEF DeliveryInv
<1>16. ASSUME NEW t \in QueueTable, RemoveError(t) PROVE DeliveryInv'
  <2>1. /\ faults' = faults + 1 /\ archive' = archive /\ queues' = queues
        /\ drain[t] \in {"get", "remove"} /\ drain'[t] = "err"
        /\ \A u \in QueueTable : u # t => drain'[u] = drain[u]
        /\ batch' = batch /\ saved' = saved /\ main' = main /\ backlog' = backlog
    BY <1>16 DEF RemoveError, Fault, DrainStep, redbVars, processVars, saverVars, TypeOK
  <2>2. QueuedCopies' /\ DuplicatesBounded'
    BY <2>1, FailurePaid DEF DeliveryInv, OutboxInv
  <2>. QED
    BY <2>1, <2>2 DEF DeliveryInv, BatchQueued, RowsDistinct, ArchivedSaved, DrainStopped, BacklogFetched, BacklogArchivedBeforeServing
<1>17. ASSUME NEW s \in Savers, SaveRequest(s) PROVE DeliveryInv'
  BY <1>17 DEF SaveRequest, redbVars, processVars, drainVars, TypeOK, OutboxInv, DeliveryInv, BatchQueued, RowsDistinct, ArchivedSaved, DrainStopped, QueuedCopies, DuplicatesBounded, BacklogFetched, BacklogArchivedBeforeServing, StampsOf
<1>18. ASSUME NEW s \in Savers, SaveBegin(s) PROVE DeliveryInv'
  BY <1>18 DEF SaveBegin, redbVars, processVars, drainVars, TypeOK, OutboxInv, DeliveryInv, BatchQueued, RowsDistinct, ArchivedSaved, DrainStopped, QueuedCopies, DuplicatesBounded, BacklogFetched, BacklogArchivedBeforeServing, StampsOf
<1>19. ASSUME NEW s \in Savers, SaveCommit(s) PROVE DeliveryInv'
  <2>1. /\ batch' = batch /\ drain' = drain /\ archive' = archive /\ faults' = faults
        /\ main' = main /\ backlog' = backlog
        /\ saved' = saved \cup {stamp[s]}
    BY <1>19 DEF SaveCommit, processVars, drainVars
  <2>2. stamp[s] \notin saved /\ stamp[s] \in Stamps
    <3>1. stamp[s] \in saved'
      BY <2>1
    <3>. QED
      BY <1>19, <3>1 DEF SaveCommit, JobStamps, TypeOK
  <2>3. ASSUME NEW t \in QueueTable
        PROVE  \E key \in Nat :
                 /\ key \notin DOMAIN queues[t] /\ key \notin DOMAIN batch[t]
                 /\ DOMAIN queues'[t] = DOMAIN queues[t] \cup {key}
                 /\ queues'[t][key].saved_at = stamp[s]
                 /\ \A k \in DOMAIN queues[t] : queues'[t][k] = queues[t][k]
    BY <1>19, SaveInserts DEF OutboxInv
  <2>4. BatchQueued' /\ ArchivedSaved' /\ DrainStopped'
    BY <2>1, <2>3 DEF DeliveryInv, BatchQueued, ArchivedSaved, DrainStopped
  <2>5. RowsDistinct'
    <3>1. ASSUME NEW t \in QueueTable, NEW j \in DOMAIN queues'[t], NEW k \in DOMAIN queues'[t],
                 queues'[t][j].saved_at = queues'[t][k].saved_at
          PROVE  j = k
      <4>1. PICK key \in Nat :
                 /\ DOMAIN queues'[t] = DOMAIN queues[t] \cup {key}
                 /\ queues'[t][key].saved_at = stamp[s]
                 /\ \A i \in DOMAIN queues[t] : queues'[t][i] = queues[t][i]
        BY <2>3
      <4>2. \A i \in DOMAIN queues[t] : queues[t][i].saved_at # stamp[s]
        BY <2>2, CopiesTyped DEF OutboxInv
      <4>. QED
        BY <3>1, <4>1, <4>2 DEF DeliveryInv, RowsDistinct
    <3>. QED
      BY <3>1 DEF RowsDistinct
  <2>6. QueuedCopies' /\ DuplicatesBounded'
    <3>1. \A t \in QueueTable : archive[t][stamp[s]] = 0
      BY <2>2 DEF DeliveryInv, ArchivedSaved
    <3>2. faults \in Nat
      BY CopiesTyped DEF OutboxInv
    <3>3. ASSUME NEW t \in QueueTable, NEW k \in DOMAIN queues'[t],
                 ~(drain[t] = "remove" /\ k \in DOMAIN batch[t])
          PROVE  archive[t][queues'[t][k].saved_at] <= faults
      <4>1. PICK key \in Nat :
                 /\ DOMAIN queues'[t] = DOMAIN queues[t] \cup {key}
                 /\ queues'[t][key].saved_at = stamp[s]
                 /\ \A i \in DOMAIN queues[t] : queues'[t][i] = queues[t][i]
        BY <2>3
      <4>2. CASE k = key
        BY <3>1, <3>2, <4>1, <4>2
      <4>3. CASE k \in DOMAIN queues[t]
        BY <3>3, <4>1, <4>3 DEF DeliveryInv, QueuedCopies
      <4>. QED
        BY <4>1, <4>2, <4>3
    <3>. QED
      BY <2>1, <3>3 DEF DeliveryInv, QueuedCopies, DuplicatesBounded
  <2>7. BacklogFetched' /\ BacklogArchivedBeforeServing'
    BY <2>1 DEF DeliveryInv, BacklogFetched, BacklogArchivedBeforeServing
  <2>. QED
    BY <2>4, <2>5, <2>6, <2>7 DEF DeliveryInv
<1>20. ASSUME NEW s \in Savers, SaveFails(s) PROVE DeliveryInv'
  BY <1>20 DEF SaveFails, redbVars, processVars, drainVars, TypeOK, OutboxInv, DeliveryInv, BatchQueued, RowsDistinct, ArchivedSaved, DrainStopped, QueuedCopies, DuplicatesBounded, BacklogFetched, BacklogArchivedBeforeServing, StampsOf
<1>21. CASE UNCHANGED vars
  BY <1>21 DEF vars, redbVars, processVars, drainVars, saverVars, DeliveryInv, BatchQueued, RowsDistinct, ArchivedSaved, DrainStopped, QueuedCopies, DuplicatesBounded, BacklogFetched, BacklogArchivedBeforeServing, StampsOf
<1>. QED
  BY <1>1, <1>2, <1>3, <1>4, <1>5, <1>6, <1>7, <1>8, <1>9, <1>10, <1>11, <1>12, <1>13, <1>14, <1>15, <1>16, <1>17, <1>18, <1>19, <1>20, <1>21
     DEF Next, Process, Drain, DrainFault, Save

\* All that is known of the outbox, for the theorems below.
LEMMA DeliveryInvariance == Spec => [](TypeInv /\ OutboxInv /\ DeliveryInv)
BY InitTypeInv, NextTypeInv, InitOutboxInv, NextOutboxInv, InitDeliveryInv, NextDeliveryInv, PTL DEF Spec

\* DuplicatesBounded for every instance: a copy too many is paid for by a failure.
THEOREM DuplicatesInvariance == Spec => []DuplicatesBounded
<1>1. DeliveryInv => DuplicatesBounded
  BY DEF DeliveryInv
<1>. QED
  BY <1>1, DeliveryInvariance, PTL

\* BacklogArchivedBeforeServing for every instance: run_main serves no machine before
\* what the previous processes left is archived.
THEOREM BacklogInvariance == Spec => []BacklogArchivedBeforeServing
<1>1. DeliveryInv => BacklogArchivedBeforeServing
  BY DEF DeliveryInv
<1>. QED
  BY <1>1, DeliveryInvariance, PTL

-----------------------------------------------------------------------------
(* The length of the queues.                                                 *)
(*                                                                         *)
(* A save in progress is a promise of two rows: it counts against the bound   *)
(* from its check until it commits or fails.                                  *)

Busy == {s \in Savers : saver[s] # "idle"}

QueuesFinite == \A t \in QueueTable : IsFiniteSet(DOMAIN queues[t])

QueueInv ==
    /\ QueuesFinite
    /\ TotalEnqueued + 2 * Cardinality(Busy) < QueuesThreshold + 2 * Cardinality(Savers)

\* The numbers that the bound compares.
LEMMA QueueCounts ==
    ASSUME QueuesFinite
    PROVE  /\ Cardinality(DOMAIN queues["General"]) \in Nat
           /\ Cardinality(DOMAIN queues["Operation"]) \in Nat
           /\ TotalEnqueued \in Nat
           /\ IsFiniteSet(Busy) /\ Cardinality(Busy) \in Nat
           /\ Cardinality(Savers) \in Nat /\ Cardinality(Busy) <= Cardinality(Savers)
           /\ QueuesThreshold \in Nat
<1>1. Busy \subseteq Savers
  BY DEF Busy
<1>2. "General" \in QueueTable /\ "Operation" \in QueueTable
  BY DEF QueueTable
<1>3. Cardinality(DOMAIN queues["General"]) \in Nat /\ Cardinality(DOMAIN queues["Operation"]) \in Nat
  BY <1>2, FS_CardinalityType DEF QueuesFinite
<1>4. IsFiniteSet(Busy) /\ Cardinality(Busy) <= Cardinality(Savers)
  BY <1>1, FS_Subset, DatabaseAssumption
<1>5. Cardinality(Busy) \in Nat /\ Cardinality(Savers) \in Nat
  BY <1>4, FS_CardinalityType, DatabaseAssumption
<1>. QED
  BY <1>3, <1>4, <1>5, CacheAssumption DEF TotalEnqueued

\* Steps that neither queue a row nor begin a save.
LEMMA QueuesShrink ==
    ASSUME QueueInv, Busy' \subseteq Busy,
           \A t \in QueueTable : DOMAIN queues'[t] \subseteq DOMAIN queues[t]
    PROVE  QueueInv'
<1>1. "General" \in QueueTable /\ "Operation" \in QueueTable
  BY DEF QueueTable
<1>2. QueuesFinite
  BY DEF QueueInv
<1>3. \A t \in QueueTable : /\ IsFiniteSet(DOMAIN queues'[t])
                            /\ Cardinality(DOMAIN queues'[t]) <= Cardinality(DOMAIN queues[t])
  BY <1>2, FS_Subset DEF QueuesFinite
<1>4. QueuesFinite'
  BY <1>3 DEF QueuesFinite
<1>5. Cardinality(DOMAIN queues'["General"]) \in Nat /\ Cardinality(DOMAIN queues'["Operation"]) \in Nat
  BY <1>1, <1>3, FS_CardinalityType
<1>6. TotalEnqueued' \in Nat /\ TotalEnqueued' <= TotalEnqueued
  BY <1>1, <1>2, <1>3, <1>5, QueueCounts DEF TotalEnqueued
<1>7. Cardinality(Busy') \in Nat /\ Cardinality(Busy') <= Cardinality(Busy)
  BY <1>2, QueueCounts, FS_Subset, FS_CardinalityType
<1>. QED
  BY <1>2, <1>4, <1>6, <1>7, QueueCounts DEF QueueInv

\* There is at least one saver, hence room for the rows of one request.
LEMMA InitQueueInv == Init => QueueInv
<1>. SUFFICES ASSUME Init PROVE QueueInv
  OBVIOUS
<1>1. \A t \in QueueTable : DOMAIN queues[t] = {}
  BY DEF Init, CacheInit, EmptyTable
<1>2. Busy = {}
  BY DEF Init, Busy
<1>3. QueuesFinite /\ TotalEnqueued = 0 /\ Cardinality(Busy) = 0
  BY <1>1, <1>2, FS_EmptySet DEF QueuesFinite, TotalEnqueued, QueueTable
<1>4. Cardinality(Savers) \in Nat /\ Cardinality(Savers) # 0
  BY FS_EmptySet, FS_CardinalityType, DatabaseAssumption
<1>. QED
  BY <1>3, <1>4, CacheAssumption DEF QueueInv

\* A save passes the check, commits or fails; every other step leaves the queues and the
\* savers alone, or has fewer of both.
LEMMA NextQueueInv == TypeInv /\ OutboxInv /\ QueueInv /\ [Next]_vars => QueueInv'
<1>. SUFFICES ASSUME TypeInv, OutboxInv, QueueInv, [Next]_vars PROVE QueueInv'
  OBVIOUS
<1>. USE DEF TypeInv
<1>0. QueuesFinite
  BY DEF QueueInv
<1>1. CASE Process \/ Shutdown \/ Crash \/ UNCHANGED vars
  <2>1. \A t \in QueueTable : DOMAIN queues'[t] = DOMAIN queues[t]
    BY <1>1 DEF Process, Start, ExitUnstarted, ExitFailed, SessionsStop, ExitGraceful, ProcessEnds, DrainTick, DrainJoin, Shutdown, Crash, redbVars, vars
  <2>2. Busy' \subseteq Busy
    BY <1>1 DEF Process, Start, ExitUnstarted, ExitFailed, SessionsStop, ExitGraceful, ProcessEnds, DrainTick, DrainJoin, Shutdown, Crash, saverVars, vars, Busy
  <2>. QED
    BY <2>1, <2>2, QueuesShrink
<1>2. ASSUME NEW t \in QueueTable, Drain(t) \/ DrainFault(t) PROVE QueueInv'
  <2>1. \A u \in QueueTable : DOMAIN queues'[u] \subseteq DOMAIN queues[u]
    <3>1. CASE RemoveOk(t)
      BY <3>1 DEF RemoveOk, remove_entries, Restrict, TypeOK, CacheTypeOK
    <3>2. CASE queues' = queues
      BY <3>2
    <3>. QED
      BY <1>2, <3>1, <3>2 DEF Drain, DrainFault, GetBatch, InsertOk, InsertRefused, GetBatchError, InsertError, RemoveError, redbVars
  <2>2. Busy' \subseteq Busy
    BY <1>2 DEF Drain, DrainFault, GetBatch, InsertOk, InsertRefused, RemoveOk, GetBatchError, InsertError, RemoveError, DrainStep, saverVars, Busy
  <2>. QED
    BY <2>1, <2>2, QueuesShrink
<1>3. ASSUME NEW s \in Savers, SaveRequest(s) PROVE QueueInv'
  <2>1. Busy' = Busy \cup {s} /\ queues' = queues /\ TotalEnqueued < QueuesThreshold
    BY <1>3 DEF SaveRequest, check_enqueuing_allowed, redbVars, Busy, TypeOK
  <2>2. Busy' \subseteq Savers
    BY DEF Busy
  <2>3. Cardinality(Busy') \in Nat /\ Cardinality(Busy') <= Cardinality(Savers)
    BY <2>2, FS_Subset, FS_CardinalityType, DatabaseAssumption
  <2>4. QueuesFinite' /\ TotalEnqueued' = TotalEnqueued
    BY <1>0, <2>1 DEF QueuesFinite, TotalEnqueued
  <2>. QED
    BY <1>0, <2>1, <2>3, <2>4, QueueCounts DEF QueueInv
<1>4. ASSUME NEW s \in Savers, SaveBegin(s) \/ SaveFails(s) PROVE QueueInv'
  <2>1. queues' = queues /\ Busy' \subseteq Busy
    BY <1>4 DEF SaveBegin, SaveFails, redbVars, Busy, TypeOK
  <2>. QED
    BY <2>1, QueuesShrink
<1>5. ASSUME NEW s \in Savers, SaveCommit(s) PROVE QueueInv'
  <2>1. s \in Busy /\ Busy' = Busy \ {s}
    BY <1>5 DEF SaveCommit, Busy, TypeOK
  <2>2. Cardinality(Busy') = Cardinality(Busy) - 1
    BY <1>0, <2>1, QueueCounts, FS_RemoveElement
  <2>3. ASSUME NEW t \in QueueTable
        PROVE  /\ IsFiniteSet(DOMAIN queues'[t])
               /\ Cardinality(DOMAIN queues'[t]) = Cardinality(DOMAIN queues[t]) + 1
    <3>1. PICK key \in Nat :
             key \notin DOMAIN queues[t] /\ DOMAIN queues'[t] = DOMAIN queues[t] \cup {key}
      BY <1>5, SaveInserts DEF OutboxInv
    <3>. QED
      BY <1>0, <3>1, FS_AddElement DEF QueuesFinite
  <2>4. QueuesFinite'
    BY <2>3 DEF QueuesFinite
  <2>5. TotalEnqueued' = TotalEnqueued + 2
    <3>1. "General" \in QueueTable /\ "Operation" \in QueueTable
      BY DEF QueueTable
    <3>. QED
      BY <1>0, <2>3, <3>1, QueueCounts DEF TotalEnqueued
  <2>. QED
    BY <1>0, <2>2, <2>4, <2>5, QueueCounts DEF QueueInv
<1>. QED
  BY <1>1, <1>2, <1>3, <1>4, <1>5 DEF Next, Save

\* QueueBound for every instance: the threshold is passed by the rows of the saves that
\* were in progress, and by no more.
THEOREM QueueBoundInvariance == Spec => []QueueBound
<1>1. QueueInv => QueueBound
  BY QueueCounts DEF QueueInv, QueueBound
<1>. QED
  BY <1>1, InitTypeInv, NextTypeInv, InitOutboxInv, NextOutboxInv, InitQueueInv, NextQueueInv, PTL DEF Spec

-----------------------------------------------------------------------------
(* The gateway is an outbox.                                                 *)

Pending == [t \in QueueTable |-> StampsOf(queues[t])]

\* Steps that neither change a queue nor the archive do not show.
LEMMA Unseen ==
    ASSUME queues' = queues, archive' = archive
    PROVE  UNCHANGED <<Pending, archive>>
BY DEF Pending, StampsOf

\* An insertion delivers rows that are pending.
LEMMA AppendDelivers ==
    ASSUME TypeOK, OutboxInv, DeliveryInv, NEW t \in QueueTable, drain[t] = "insert",
           NEW keys \in SUBSET DOMAIN batch[t], Append(t, keys), queues' = queues
    PROVE  Archive!Next
<1>. DEFINE some == {batch[t][k].saved_at : k \in keys}
<1>1. some \subseteq StampsOf(queues[t])
  BY DEF DeliveryInv, BatchQueued, OutboxInv, BatchAgrees, StampsOf
<1>2. some \in SUBSET Stamps
  BY CopiesTyped DEF OutboxInv
<1>3. archive' = [archive EXCEPT ![t] =
                    [n \in Stamps |-> IF n \in some THEN archive[t][n] + 1 ELSE archive[t][n]]]
  <2>1. \A n \in Stamps : (\E k \in keys : batch[t][k].saved_at = n) <=> n \in some
    OBVIOUS
  <2>. QED
    BY <2>1 DEF Append
<1>4. UNCHANGED Pending
  BY DEF Pending, StampsOf
<1>. HIDE DEF some
<1>5. Archive!Deliver(t, some)
  BY <1>1, <1>3, <1>4 DEF Archive!Deliver, Pending
<1>. QED
  BY <1>2, <1>5 DEF Archive!Next

\* A removal forgets rows that are delivered.
LEMMA RemoveForgets ==
    ASSUME TypeOK, OutboxInv, NEW t \in QueueTable, RemoveOk(t)
    PROVE  Archive!Next
<1>. DEFINE some == StampsOf(queues[t]) \ StampsOf(queues'[t])
<1>1. /\ DOMAIN queues'[t] = DOMAIN queues[t] \ DOMAIN batch[t]
      /\ \A k \in DOMAIN queues'[t] : queues'[t][k] = queues[t][k]
      /\ \A u \in QueueTable : u # t => queues'[u] = queues[u]
      /\ drain[t] = "remove" /\ archive' = archive
  BY DEF RemoveOk, remove_entries, Restrict, DrainStep, TypeOK, CacheTypeOK
<1>2. StampsOf(queues'[t]) = StampsOf(queues[t]) \ some
  BY <1>1 DEF StampsOf
<1>3. \A n \in some : n \in Stamps /\ archive[t][n] >= 1
  <2>1. ASSUME NEW n \in some PROVE n \in Stamps /\ archive[t][n] >= 1
    <3>1. PICK k \in DOMAIN queues[t] : queues[t][k].saved_at = n
      BY DEF StampsOf
    <3>2. k \in DOMAIN batch[t]
      BY <1>1, <3>1 DEF StampsOf
    <3>. QED
      BY <1>1, <3>1, <3>2, CopiesTyped DEF OutboxInv, BatchAgrees, BatchArchived
  <2>. QED
    BY <2>1
<1>. HIDE DEF some
<1>4. Pending' = [Pending EXCEPT ![t] = Pending[t] \ some]
  <2>1. \A u \in QueueTable : u # t => StampsOf(queues'[u]) = StampsOf(queues[u])
    BY <1>1
  <2>. QED
    BY <1>2, <2>1 DEF Pending
<1>5. some \subseteq Pending[t]
  <2>1. some \subseteq StampsOf(queues[t])
    BY DEF some
  <2>. QED
    BY <2>1 DEF Pending
<1>6. Archive!Forget(t, some)
  BY <1>1, <1>3, <1>4, <1>5 DEF Archive!Forget, Pending
<1>. QED
  BY <1>3, <1>6 DEF Archive!Next

\* A commit makes a save pending in both tables, for the first time.
LEMMA CommitSaves ==
    ASSUME TypeInv, TypeInv', OutboxInv, DeliveryInv, NEW s \in Savers, SaveCommit(s)
    PROVE  Archive!Next
<1>. USE DEF TypeInv
<1>1. archive' = archive /\ stamp[s] \in saved'
  BY DEF SaveCommit, drainVars
<1>2. stamp[s] \notin saved /\ stamp[s] \in Stamps
  BY <1>1 DEF SaveCommit, JobStamps, TypeOK
<1>3. ASSUME NEW t \in QueueTable
      PROVE  /\ StampsOf(queues'[t]) = StampsOf(queues[t]) \cup {stamp[s]}
             /\ stamp[s] \notin StampsOf(queues[t])
             /\ archive[t][stamp[s]] = 0
  <2>1. PICK key \in Nat :
           /\ DOMAIN queues'[t] = DOMAIN queues[t] \cup {key}
           /\ queues'[t][key].saved_at = stamp[s]
           /\ \A i \in DOMAIN queues[t] : queues'[t][i] = queues[t][i]
    BY SaveInserts DEF OutboxInv
  <2>2. StampsOf(queues'[t]) = StampsOf(queues[t]) \cup {stamp[s]}
    BY <2>1 DEF StampsOf
  <2>3. stamp[s] \notin StampsOf(queues[t])
    BY <1>2 DEF OutboxInv, RowsStamped, StampsOf
  <2>. QED
    BY <1>2, <2>2, <2>3 DEF DeliveryInv, ArchivedSaved
<1>4. Archive!Save(stamp[s])
  BY <1>1, <1>3 DEF Archive!Save, Pending
<1>. QED
  BY <1>2, <1>4 DEF Archive!Next

\* ImplementsOutbox for every instance: every step of the gateway is a step of the outbox
\* or does not show.
THEOREM OutboxRefinement == Spec => ImplementsOutbox
<1>1. Init => Archive!Init
  <2>. SUFFICES ASSUME Init PROVE Archive!Init
    OBVIOUS
  <2>1. \A t \in QueueTable : StampsOf(queues[t]) = {}
    BY DEF Init, CacheInit, EmptyTable, StampsOf
  <2>. QED
    BY <2>1 DEF Init, Archive!Init
<1>2. TypeInv /\ TypeInv' /\ OutboxInv /\ DeliveryInv /\ [Next]_vars
        => [Archive!Next]_<<Pending, archive>>
  <2>. SUFFICES ASSUME TypeInv, TypeInv', OutboxInv, DeliveryInv, [Next]_vars
                PROVE  Archive!Next \/ UNCHANGED <<Pending, archive>>
    OBVIOUS
  <2>. USE DEF TypeInv
  <2>1. CASE Process \/ Shutdown \/ Crash \/ UNCHANGED vars
    BY <2>1, Unseen DEF Process, Start, ExitUnstarted, ExitFailed, SessionsStop, ExitGraceful, ProcessEnds, DrainTick, DrainJoin, Shutdown, Crash, redbVars, drainVars, vars
  <2>2. ASSUME NEW t \in QueueTable, Drain(t) \/ DrainFault(t)
        PROVE  Archive!Next \/ UNCHANGED <<Pending, archive>>
    <3>1. CASE GetBatch(t) \/ InsertRefused(t) \/ GetBatchError(t) \/ RemoveError(t)
      BY <3>1, Unseen DEF GetBatch, InsertRefused, GetBatchError, RemoveError, redbVars
    <3>2. CASE InsertOk(t)
      BY <3>2, AppendDelivers DEF InsertOk, DrainStep, redbVars
    <3>3. CASE InsertError(t)
      <4>1. PICK keys \in SUBSET DOMAIN batch[t] : Append(t, keys)
        BY <3>3 DEF InsertError
      <4>. QED
        BY <3>3, <4>1, AppendDelivers DEF InsertError, DrainStep, redbVars
    <3>4. CASE RemoveOk(t)
      BY <3>4, RemoveForgets
    <3>. QED
      BY <2>2, <3>1, <3>2, <3>3, <3>4 DEF Drain, DrainFault
  <2>3. ASSUME NEW s \in Savers, Save(s)
        PROVE  Archive!Next \/ UNCHANGED <<Pending, archive>>
    <3>1. CASE SaveRequest(s) \/ SaveBegin(s) \/ SaveFails(s)
      BY <3>1, Unseen DEF SaveRequest, SaveBegin, SaveFails, redbVars, drainVars
    <3>2. CASE SaveCommit(s)
      BY <3>2, CommitSaves
    <3>. QED
      BY <2>3, <3>1, <3>2 DEF Save
  <2>. QED
    BY <2>1, <2>2, <2>3 DEF Next
<1>3. ImplementsOutbox <=> Archive!Init /\ [][Archive!Next]_<<Pending, archive>>
  BY DEF ImplementsOutbox, Archive!Spec, Pending
<1>. QED
  BY <1>1, <1>2, <1>3, DeliveryInvariance, PTL DEF Spec
=============================================================================
