-------------------------- MODULE TraceabilityDatabase --------------------------
(***************************************************************************)
(* The outbox of the gateway: part sheets saved in the cache are queued      *)
(* there, and a periodic task drains the queues to ClickHouse                *)
(* (traceability/database.rs), inside the lifecycle of the process that      *)
(* run_main imposes (lib.rs): nothing is served before a first drain of both *)
(* queues has succeeded.                                                     *)
(*                                                                         *)
(* Composed here: the cache, the draining task, the save requests being      *)
(* handled (as far as the queues see them), the process and its restarts by  *)
(* systemd, and ClickHouse, which is external.  A timestamp is modelled by   *)
(* the order in which the timestamps are taken.                              *)
(***************************************************************************)
EXTENDS TraceabilityCache

CONSTANTS
    Savers,         \* the save requests that may be in progress at once
    GeneralNids,    \* nodes of the general part sheet
    OperationNids,  \* nodes of the operation part sheet
    Rejected,       \* the values ClickHouse refuses
    MaxSaves,       \* bound on the part sheets saved
    MaxFaults,      \* bound on the failures and crashes
    MaxStops        \* bound on the termination signals

ASSUME DatabaseAssumption ==
    /\ GeneralNids \subseteq Nids
    /\ OperationNids \subseteq Nids
    /\ Rejected \subseteq Values
    /\ MaxSaves \in Nat
    /\ MaxFaults \in Nat
    /\ MaxStops \in Nat
    /\ IsFiniteSet(Savers)
    /\ Savers # {}

Stamps == 0 .. (MaxSaves - 1)

VARIABLES
    main,      \* where run_main is
    shutdown,  \* the shutdown token is cancelled
    drain,     \* where drain_part_sheet_queue is, for each queue
    batch,     \* keys and rows of its last batch, forgotten once they are removed
    saver,     \* where each handle_save is
    stamp,     \* its saved_at
    archive,   \* ClickHouse: copies held of the row of each save, by table
    clock,     \* the next timestamp
    saved,     \* history: timestamps of the committed saves
    backlog,   \* history: what was saved when the process started
    faults,    \* failures so far
    stops      \* termination signals so far

processVars == <<main, shutdown, backlog, stops>>
drainVars == <<drain, batch, archive>>
saverVars == <<saver, stamp, clock, saved>>
vars == <<redbVars, processVars, drainVars, saverVars, faults>>

Init ==
    /\ CacheInit
    /\ main = "down"
    /\ shutdown = FALSE
    /\ drain = [t \in QueueTable |-> "idle"]
    /\ batch = [t \in QueueTable |-> EmptyTable]
    /\ saver = [s \in Savers |-> "idle"]
    /\ stamp = [s \in Savers |-> 0]
    /\ archive = [t \in QueueTable |-> [n \in Stamps |-> 0]]
    /\ clock = 0
    /\ saved = {}
    /\ backlog = {}
    /\ faults = 0
    /\ stops = 0

TypeOK ==
    /\ CacheTypeOK
    /\ main \in {"down", "first_drain", "failed", "serving", "stopping"}
    /\ shutdown \in BOOLEAN
    /\ drain \in [QueueTable -> {"idle", "get", "insert", "remove", "ok", "err"}]
    /\ DOMAIN batch = QueueTable
    /\ \A t \in QueueTable :
        /\ batch[t] \in [DOMAIN batch[t] -> Row]
        /\ DOMAIN batch[t] \subseteq Nat
    /\ saver \in [Savers -> {"idle", "reading", "job"}]
    /\ stamp \in [Savers -> Nat]
    /\ archive \in [QueueTable -> [Stamps -> Nat]]
    /\ clock \in 0 .. MaxSaves
    /\ saved \subseteq Stamps
    /\ backlog \subseteq saved
    /\ faults \in 0 .. MaxFaults
    /\ stops \in 0 .. MaxStops

Fault ==
    /\ faults < MaxFaults
    /\ faults' = faults + 1

-----------------------------------------------------------------------------
(* The process *)

\* Everything in memory is lost; the redb file stays.
ProcessEnds ==
    /\ main' = "down"
    /\ shutdown' = FALSE
    /\ drain' = [t \in QueueTable |-> "idle"]
    /\ batch' = [t \in QueueTable |-> EmptyTable]
    /\ saver' = [s \in Savers |-> "idle"]
    /\ stamp' = [s \in Savers |-> 0]
    /\ backlog' = {}
    /\ UNCHANGED <<redbVars, archive, clock, saved, stops>>

\* systemd (re)starts the service; run_main spawns the draining task and waits for
\* the result of its first run.
Start ==
    /\ main = "down"
    /\ main' = "first_drain"
    /\ backlog' = saved
    /\ UNCHANGED <<redbVars, drainVars, saverVars, shutdown, stops, faults>>

\* handle_signals cancels the token.
Shutdown ==
    /\ main # "down"
    /\ ~shutdown
    /\ stops < MaxStops
    /\ shutdown' = TRUE
    /\ stops' = stops + 1
    /\ UNCHANGED <<redbVars, drainVars, saverVars, main, backlog, faults>>

\* The draining task ends before its first run: its sender is dropped and run_main
\* returns the error of the receiver.
ExitUnstarted ==
    /\ main = "first_drain"
    /\ shutdown
    /\ \A t \in QueueTable : drain[t] = "idle"
    /\ ProcessEnds
    /\ UNCHANGED faults

\* The first run failed: run_main returns an error.
ExitFailed ==
    /\ main = "failed"
    /\ ProcessEnds
    /\ UNCHANGED faults

\* sessions_manager has stopped its sessions: run_main joins the draining task.  The
\* handler of a session that is not in the registry goes on until the process ends.
SessionsStop ==
    /\ main = "serving"
    /\ shutdown
    /\ main' = "stopping"
    /\ UNCHANGED <<redbVars, drainVars, saverVars, shutdown, backlog, stops, faults>>

\* The draining task has ended: its stream of ticks ends with the token.
ExitGraceful ==
    /\ main = "stopping"
    /\ \A t \in QueueTable : drain[t] = "idle"
    /\ ProcessEnds
    /\ UNCHANGED faults

Crash ==
    /\ main # "down"
    /\ Fault
    /\ ProcessEnds

-----------------------------------------------------------------------------
(* The draining task *)

\* drain_part_sheets_task starts on both queues at each tick.
DrainTick ==
    /\ main \in {"first_drain", "serving"}
    /\ ~shutdown
    /\ \A t \in QueueTable : drain[t] = "idle"
    /\ drain' = [t \in QueueTable |-> "get"]
    /\ UNCHANGED <<redbVars, processVars, saverVars, batch, archive, faults>>

DrainStep(t, from, to) ==
    /\ drain[t] = from
    /\ drain' = [drain EXCEPT ![t] = to]
    /\ UNCHANGED <<processVars, saverVars>>

\* An empty queue is not inserted, but for the first run, which so checks that
\* the table accepts insertions.
skip_if_empty == main # "first_drain"

\* Mutant: the flag alone skips the insertion.
GetBatchSkips(t) ==
    /\ DrainStep(t, "get", IF skip_if_empty THEN "ok" ELSE "insert")
    /\ batch' = [batch EXCEPT ![t] = get_queue_batch(t)]
    /\ UNCHANGED <<redbVars, archive, faults>>

GetBatch(t) ==
    LET got == get_queue_batch(t)
    IN  /\ DrainStep(t, "get", IF skip_if_empty /\ DOMAIN got = {} THEN "ok" ELSE "insert")
        /\ batch' = [batch EXCEPT ![t] = got]
        /\ UNCHANGED <<redbVars, archive, faults>>

GetBatchError(t) ==
    /\ DrainStep(t, "get", "err")
    /\ Fault
    /\ UNCHANGED <<redbVars, batch, archive>>

Refused(row) == \E item \in row.data : item[2] \in Rejected

\* ClickHouse appends the rows of some keys of the batch.
Append(t, keys) ==
    archive' = [archive EXCEPT ![t] =
                  [n \in Stamps |-> IF \E k \in keys : batch[t][k].saved_at = n
                                    THEN archive[t][n] + 1 ELSE archive[t][n]]]

InsertOk(t) ==
    /\ DrainStep(t, "insert", "remove")
    /\ \A k \in DOMAIN batch[t] : ~Refused(batch[t][k])
    /\ Append(t, DOMAIN batch[t])
    /\ UNCHANGED <<redbVars, batch, faults>>

\* One refused row fails the insertion of the whole batch.
InsertRefused(t) ==
    /\ DrainStep(t, "insert", "err")
    /\ \E k \in DOMAIN batch[t] : Refused(batch[t][k])
    /\ UNCHANGED <<redbVars, batch, archive, faults>>

\* A failure or a timeout says nothing of what ClickHouse has appended.
InsertError(t) ==
    /\ DrainStep(t, "insert", "err")
    /\ Fault
    /\ \E keys \in SUBSET {k \in DOMAIN batch[t] : ~Refused(batch[t][k])} : Append(t, keys)
    /\ UNCHANGED <<redbVars, batch>>

RemoveOk(t) ==
    /\ DrainStep(t, "remove", "ok")
    /\ remove_entries(t, DOMAIN batch[t])
    /\ batch' = [batch EXCEPT ![t] = EmptyTable]
    /\ UNCHANGED <<archive, faults>>

RemoveError(t) ==
    /\ DrainStep(t, "remove", "err")
    /\ Fault
    /\ UNCHANGED <<redbVars, batch, archive>>

\* Mutant: one successful queue makes the first run successful.
DrainJoinAny ==
    /\ \A t \in QueueTable : drain[t] \in {"ok", "err"}
    /\ main' = IF main # "first_drain" THEN main
               ELSE IF \E t \in QueueTable : drain[t] = "ok" THEN "serving" ELSE "failed"
    /\ drain' = [t \in QueueTable |-> "idle"]
    /\ UNCHANGED <<redbVars, saverVars, batch, archive, shutdown, backlog, stops, faults>>

\* Mutant: the outcome of the first run is negated.
DrainJoinNegated ==
    /\ \A t \in QueueTable : drain[t] \in {"ok", "err"}
    /\ main' = IF main # "first_drain" THEN main
               ELSE IF \A t \in QueueTable : drain[t] = "ok" THEN "failed" ELSE "serving"
    /\ drain' = [t \in QueueTable |-> "idle"]
    /\ UNCHANGED <<redbVars, saverVars, batch, archive, shutdown, backlog, stops, faults>>

\* Both futures are joined; the outcome of the first run goes to run_main.
DrainJoin ==
    /\ \A t \in QueueTable : drain[t] \in {"ok", "err"}
    /\ main' = IF main # "first_drain" THEN main
               ELSE IF \A t \in QueueTable : drain[t] = "ok" THEN "serving" ELSE "failed"
    /\ drain' = [t \in QueueTable |-> "idle"]
    /\ UNCHANGED <<redbVars, saverVars, batch, archive, shutdown, backlog, stops, faults>>

-----------------------------------------------------------------------------
(* The save requests, as seen by the queues *)

\* handle_save passes its check and reads the part sheets of the machine.
SaveRequest(s) ==
    /\ main \in {"serving", "stopping"}
    /\ saver[s] = "idle"
    /\ clock < MaxSaves
    /\ check_enqueuing_allowed
    /\ saver' = [saver EXCEPT ![s] = "reading"]
    /\ UNCHANGED <<redbVars, processVars, drainVars, stamp, clock, saved, faults>>

\* The blocking job takes its timestamp, then waits for the write transaction.
SaveBegin(s) ==
    /\ saver[s] = "reading"
    /\ clock < MaxSaves
    /\ saver' = [saver EXCEPT ![s] = "job"]
    /\ stamp' = [stamp EXCEPT ![s] = clock]
    /\ clock' = clock + 1
    /\ UNCHANGED <<redbVars, processVars, drainVars, saved, faults>>

\* Mutant: the job is run again although it has committed.
SaveCommitRetried(s) ==
    /\ saver[s] = "job"
    /\ saver' = saver
    /\ \E m \in Machines, p \in PartIds,
          general \in [GeneralNids -> Values], operation \in [OperationNids -> Values] :
        /\ Encodable(general, operation)
        /\ save_part_sheets(stamp[s], m, p, general, operation)
    /\ saved' = saved \cup {stamp[s]}
    /\ UNCHANGED <<processVars, drainVars, stamp, clock, faults>>

SaveCommit(s) ==
    /\ saver[s] = "job"
    /\ saver' = [saver EXCEPT ![s] = "idle"]
    /\ \E m \in Machines, p \in PartIds,
          general \in [GeneralNids -> Values], operation \in [OperationNids -> Values] :
        /\ Encodable(general, operation)
        /\ save_part_sheets(stamp[s], m, p, general, operation)
    /\ stamp' = [stamp EXCEPT ![s] = 0]
    /\ saved' = saved \cup {stamp[s]}
    /\ UNCHANGED <<processVars, drainVars, clock, faults>>

\* The machine cannot be read, a value is refused, or the transaction fails.
SaveFails(s) ==
    /\ saver[s] # "idle"
    /\ saver' = [saver EXCEPT ![s] = "idle"]
    /\ stamp' = [stamp EXCEPT ![s] = 0]
    /\ UNCHANGED <<redbVars, processVars, drainVars, clock, saved, faults>>

-----------------------------------------------------------------------------

Drain(t) ==
    \/ GetBatch(t) \/ InsertOk(t) \/ InsertRefused(t) \/ RemoveOk(t)

DrainFault(t) == GetBatchError(t) \/ InsertError(t) \/ RemoveError(t)

Process ==
    \/ Start \/ ExitUnstarted \/ ExitFailed \/ SessionsStop \/ ExitGraceful
    \/ DrainTick \/ DrainJoin

Save(s) == SaveRequest(s) \/ SaveBegin(s) \/ SaveCommit(s) \/ SaveFails(s)

Next ==
    \/ Process
    \/ Shutdown
    \/ Crash
    \/ \E t \in QueueTable : Drain(t) \/ DrainFault(t)
    \/ \E s \in Savers : Save(s)

Spec == Init /\ [][Next]_vars

\* Spawned tasks are polled, the interval ticks, requests to ClickHouse time out and
\* systemd always restarts the service (Restart=always, StartLimitIntervalSec=0).
\* Nothing obliges a machine to ask for a save, or a failure to happen.
Fairness ==
    /\ WF_vars(Process)
    /\ \A t \in QueueTable : WF_vars(Drain(t))
    /\ \A s \in Savers : WF_vars(SaveCommit(s) \/ SaveFails(s))

FairSpec == Spec /\ Fairness

-----------------------------------------------------------------------------
(* Safety *)

StampsOf(table) == {table[k].saved_at : k \in DOMAIN table}

\* A committed save is never lost: whatever fails or crashes between get_queue_batch,
\* the insertion and remove_entries, each of its two rows is still queued or has
\* been appended to its ClickHouse table.
NoRowLost ==
    \A n \in saved, t \in QueueTable : n \in StampsOf(queues[t]) \/ archive[t][n] >= 1

\* The drain delivers at least once, and each extra copy of a row is paid for by a
\* failure or a crash: rounds that succeed never insert a row twice.
DuplicatesBounded ==
    \A n \in Stamps, t \in QueueTable : archive[t][n] <= 1 + faults

\* queues_not_draining_threshold is checked before the machine is read, and the rows
\* are queued later: the queues may pass the threshold, but only by the two rows of
\* each save request that was in progress.
QueueBound ==
    TotalEnqueued < QueuesThreshold + 2 * Cardinality(Savers)

\* run_main starts the OPC-UA side only when everything that a previous process left
\* in the queues has reached ClickHouse.
BacklogArchivedBeforeServing ==
    main \in {"serving", "stopping"} =>
        \A n \in backlog, t \in QueueTable : archive[t][n] >= 1

\* What is queued and what ClickHouse holds, as Outbox sees them.
Archive == INSTANCE Outbox WITH
    Tables <- QueueTable, Stamps <- Stamps,
    pending <- [t \in QueueTable |-> StampsOf(queues[t])], copies <- archive

\* However rounds, saves, failures and restarts interleave, the gateway is an outbox: the
\* rows of a save enter both queues at once, leave a queue only once delivered, and no
\* retry delivers a row that has left.
ImplementsOutbox == Archive!Spec

-----------------------------------------------------------------------------
(* Liveness *)

\* A refused row is queued: none of the rows of its queue will leave.
RefusedQueued(t) == \E k \in DOMAIN queues[t] : Refused(queues[t][k])

\* Once failures stop, every queued row is appended to ClickHouse and leaves the queue,
\* unless a row that ClickHouse refuses is queued with it.
EventuallyArchived ==
    \A n \in Stamps, t \in QueueTable :
        n \in StampsOf(queues[t]) ~>
            \/ archive[t][n] >= 1 /\ n \notin StampsOf(queues[t])
            \/ RefusedQueued(t)

\* Once failures and termination signals stop, the gateway is back serving the machines,
\* unless a row that ClickHouse refuses fails the first run of the draining task.
EventuallyServing == []<>(main = "serving" \/ \E t \in QueueTable : RefusedQueued(t))

-----------------------------------------------------------------------------
(* What the schema of the archive asks of the drain *)

\* A round that follows a failed insertion sends the same rows again, as the
\* deduplication of ClickHouse requires.
RetriedInsertIdentical ==
    [][\A t \in QueueTable :
         (drain[t] = "get" /\ drain'[t] = "insert" /\ DOMAIN batch[t] # {})
            => batch'[t] = batch[t]]_vars

\* A row that ClickHouse accepts reaches it, even when a refused row is queued too.
SoundRowsArchived ==
    \A n \in Stamps, t \in QueueTable :
        (\E k \in DOMAIN queues[t] : queues[t][k].saved_at = n /\ ~Refused(queues[t][k]))
            ~> archive[t][n] >= 1
=============================================================================
