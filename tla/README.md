# Specifications of the OPC-UA line gateway

TLA+ specifications of `opcua-line-gateway`, checked with TLC and, for their safety,
proved with TLAPS. Paths are relative to the root of the repository (`src/` is the crate
of the gateway, `crates/config/` that of its configuration).

## 1. The system

The gateway connects to the OPC-UA server of every machine of a production line.
A machine sets a *request code*; the gateway executes the request (create a part
identifier, read the general part sheet of a part, save the part sheets) and writes
a *response code*; the machine resets its request, and the gateway its response.
Saved sheets go to an embedded redb database, which is a cache (for later reads) and
an outbox (rows waiting for ClickHouse); a periodic task drains the outbox.

| Component | State it keeps | Operations | Interacts with |
|---|---|---|---|
| Cache (`traceability/cache.rs`) | daily serials, cached sheets, sequence number, two queues; durable | `next_serial`, `get_general_part_sheet`, `save_part_sheets`, `check_enqueuing_allowed`, `get_queue_batch`, `remove_entries` | called by handlers and by the draining task, from blocking jobs |
| Encodings (`part_sheet.rs`, `opcua/variant.rs`) | none | encode/decode for the cache, encode for ClickHouse | cache |
| Draining task (`traceability/database.rs`) | batch in hand, first-run sender | periodic drain of both queues, concurrently | cache, ClickHouse, `run_main` |
| Process (`lib.rs`, `main.rs`) | progress of `run_main`, shutdown token | start, wait for the first drain, serve, stop | systemd, every task |
| Handlers (`traceability/handler/`) | notification channel, request in progress | `install`, `handle_request`, `create_part_id`, `handle_read`, `handle_save` | machine (calls and notifications), cache |
| Discovery (`handler/initialize.rs`, `handler/mod.rs`) | nodes of both part sheets, namespace indexes, position of the part identifier | `initialize`, `browse_part_sheet` | start tasks (awaited), the reads and writes of the requests |
| Heartbeat (`handler/install.rs`) | next value | alternate a variable of the machine | machine |
| Sessions (`opcua/session_manager.rs`, `opcua/session.rs`) | registry, start tasks, event loops | tick: drop dead sessions, spawn start tasks; stop | handlers (spawned, aborted), OPC-UA client |
| Part identifiers (`part_id.rs`, `ascii_text.rs`) | none | `create_part_identifier`, `validate_part_identifier` | handlers, columns of ClickHouse |
| Configuration, credentials, logging, packaging, dashboards | files | read once at startup | — |

What is hard here: blocking jobs that outlive the task that waits for them; a request
whose session is lost in the middle; calls whose failure does not say whether they
had an effect; a crash between ClickHouse's answer and the removal of the rows; start
tasks that overlap with ticks and with the shutdown; the threshold of the queues,
checked long before it matters; a gateway that serves nothing before its backlog is
archived; part sheets learnt page by page, whose values are then told apart by their
position only, in machines that are reprogrammed between sessions. `PROJECT.json` lists
these hazards at their lines.

What makes each component correct:

* outbox: no committed row is lost, duplicates come only from failures, the queues stay
  bounded, every row is archived in the end;
* handlers: an answer answers the last request, an answered request is not executed
  again, an acknowledged save is durable, an acknowledged read is one version, every
  request is answered and every handshake completes, identifiers are unique, and no more
  is saved again than sessions and notifications account for;
* sessions: a machine is served once at a time, reconnected forever, and the shutdown
  is complete;
* discovery: a handler knows both part sheets entirely, and every value stays with its
  node and its part;
* identifiers: what the gateway makes it accepts back, unless a part reference has digits outside
  ASCII, what it accepts reads back as it was made, and ClickHouse can insert it.

## 2. Modules

A module that is indented EXTENDS the one above it; `==>` is a refinement.

```
PartSheet
  TraceabilityCache
    TraceabilityCacheProofs
    TraceabilityDatabase          ==> Outbox
      MCTraceabilityDatabase
      TraceabilityDatabaseProofs      (with TraceabilityCacheProofs)
        TraceabilityDeliveryProofs
    TraceabilityHandler
      MCTraceabilityHandler
      TraceabilityHandlerProofs       (with TraceabilityCacheProofs)
        TraceabilityProtocolProofs
SessionsManager                   ==> SessionLifecycle
  MCSessionsManager
  SessionsManagerProofs
PartSheetDiscovery
  MCPartSheetDiscovery
  PartSheetDiscoveryProofs
PartIdentifier
  MCPartIdentifier
  PartIdentifierProofs
```

**PartSheet** has the two encodings as operators on functions from node identifiers to
values: the cache keeps identifiers and drops names, a row keeps names and drops
identifiers. It also says when an encoding fails (more than `u16::MAX` items, a value
without JSON form). Byte layout and JSON text are left out.

**TraceabilityCache** has the redb tables as variables. redb serializes write
transactions and a commit is durable, so each method is atomic: methods that write are
actions, methods that read are expressions. It has no `Next`: the modules that extend it
say when the methods run.

**TraceabilityDatabase** composes the cache with the draining task, the save requests
(as the queues see them), the process and ClickHouse. `drain_part_sheet_queue` is three
steps for each queue (`get`, `insert`, `remove`), each of which may fail; a failed
insertion appends any subset of the rows, for a timeout says nothing of what happened.
`Start`, `ExitUnstarted`, `ExitFailed`, `SessionsStop`, `ExitGraceful` are the
ways through `run_main`; `Crash` may happen anywhere. `archive` counts the copies of each
row in ClickHouse. A save is two steps after its check, because `saved_at` is taken
before the write transaction begins. A handler may still save while the process stops:
the one of a session registered after the shutdown is not stopped (section 4).

**Outbox** is the abstract specification of all this: a save is pending in both tables of
the archive at once, a pending row may be delivered any number of times, and it is forgotten
once it has been, never to be delivered again. Crashes, retries and batches do not show.

**TraceabilityHandler** has the protocol. `pc[m]` is the await where the handler of a
machine is; each OPC-UA call and each blocking job is a step, so that connections are
lost, calls fail and other machines act in between. A call on a live session may fail
with or without its effect; a write of several nodes may write some of them. When a
dead session is dropped its handler is aborted, but not its blocking job (`orphans`).
The machine (`SetRequest`, `ResetRequest`) follows the protocol of the README and leaves
its sheets alone while a request is pending. The draining task is one step. Sessions are
the environment of this module: they are opened, lost and dropped in the order that
SessionLifecycle prescribes, which SessionsManager is shown to keep. The identifiers that are
created are valid ones, made from part references with ASCII digits; PartIdentifier has the
others.

**SessionLifecycle** is the abstract specification of what the sessions manager promises:
a session is opened where there is none, lost, and closed before another is opened. It is
what the handlers may rely on.

**SessionsManager** has the ticks, start tasks, registry, event loops, heartbeat and
shutdown. The stages of `start_session` are its awaits. Time is counted in seconds, because
nothing but `CONNECT_TIMEOUT` < `MANAGER_TICK_INTERVAL` keeps two start tasks for the same
machine apart. The manager computes `running_sessions` under the lock and spawns without it:
two steps (`Retain`, `SpawnStarts`). A heartbeat write that is under way when the token is
cancelled is made, or fails, before its task ends (`HeartbeatLast`). `DropRegistry` and
`Dropped` follow ownership: an `OpcUaSession` dropped without `stop` aborts its tasks
(JoinSet) but detaches its event loop (JoinHandle).

**PartSheetDiscovery** has `initialize` one await at a time, `browse_part_sheet` page by
page, and the use that the requests make of what was learnt. A program of the machine is its
namespace indexes and, for each of the two objects, the references that a browse returns. What
fails an initialization is in the guards: a reference without name, an object without
variables, an identifier that is not a number, a value without JSON form, no node for the part
identifier. `SaveRead` is the one call that reads both sheets, whose values are told apart by
position (`part_id_index`, the boundary between the sheets); `LoadWrite` writes the cached
values to the nodes of the same identifiers. `from` and `written` are history: they say which
node a value was read from, and which it was written to. The machine may be reprogrammed while
no session is up, and a session may end at any step.

**PartIdentifier** has the functions of `part_id.rs` on sequences of characters, and a small
state machine: an identifier is made, the machine gives it back, perhaps changed, and a save
validates it. Parsing and formatting are modelled by what they do. The characters are the ASCII
digits and capitals, a decimal digit of another script (`WideDigit`) and any other: `\d` in the
expression of a part reference matches the digits of every script (`part_id.rs:37`), while a
save takes ASCII ones only (`ascii_text.rs`).

Operators whose comment starts with *Mutant* are altered forms of the operator that
follows them. No specification uses them: they replace it, one at a time, to see that a
property can fail.

## 3. Runs that pass

| Run | Instance | Properties |
|---|---|---|
| `database_outbox` | 2 concurrent saves, 1 failure or crash, 1 signal, threshold 1, values accepted and refused; 114,000 states | `TypeOK`, `NoRowLost`, `DuplicatesBounded`, `QueueBound`, `BacklogArchivedBeforeServing`, `ImplementsOutbox`, `EventuallyArchived`, `EventuallyServing` |
| `handler_protocol` | 1 machine, 2 requests of any code, 2 lost connections, 1 restart, 1 failing call, 2 serials, two data nodes and an excluded one; 818,000 states | `TypeOK`, `AnswerMatchesRequest`, `AnsweredNotHandledAgain`, `AckedSaveDurable`, `LoadedVersion`, `CreatedPartShown`, `CacheHoldsOwnSave` |
| `handler_ids` | 2 machines creating identifiers and saving, 2 requests, 2 days, 2 serials a day, 1 lost connection, 1 restart; 999,000 states | `UniquePartIds`, `SavesBounded` |
| `handler_liveness` | 1 machine, 2 requests of any code, 1 lost connection, 1 restart, 1 failing call, 1 bad value, threshold 1; 237,000 states | `SavesBounded`, `NothingForgotten`, `AnswersLate`, `RequestAnswered`, `ResponseReset`, `ReconnectionResumes` |
| `sessions_safety` | 2 machines, tick 5 s, timeout 2 s, 2 links for each machine; 149,000 states | `TypeOK`, `OneLinkPerMachine`, `ImplementsLifecycle`, `ShutdownCompletes` |
| `sessions_reconnect` | 1 machine, unbounded outages and failures; 1,800 states | `Reconnects`, `HeartbeatChanges` |
| `discovery` | 10 programs: identifiers common to both namespaces, nodes in another order, indexes exchanged, and one flaw each; pages of any length, 2 parts; 96,000 states | `ContextComplete`, `ValuesAttributed`, `PartFiledUnderItsId`, `CheckedSheetsEncode`, `LoadedWhereSaved` |
| `part_id_format` | every width of the fields at and beyond its limits, leap years and ends of years, serials up to 100000, digits of another script in each field, 14 alterations; 53,000 states | `MadeIsAccepted`, `MadeReadsBack`, `AcceptedIsInsertable` |

Why the bounds are enough. *Outbox:* a threshold of 1 and two savers, each of which passes the
check before the other commits, reach the bound of `QueueBound` exactly; of two saves, one may
commit before the batch is read and the other between the read and the removal; a refused row,
a failure and a stop may each fall anywhere among them. Safety does not rest on these bounds:
it is proved for all of them (section 5). *Handler:* with two serials a request that is executed twice
gets a second identifier; two requests are needed for an answer to
come late, for an orphaned job and for a part saved then read. The run of liveness has
no creation (`Creators` is empty): its awaits follow one another like those of a save, and the
run of the protocol has them. Two days and two serials for midnight
between the date and the serial; two machines for a stop that makes both save again. *Discovery:* in every program two or three nodes
are enough for a position to be wrong by one, for a page to be lost, and for two nodes to have
the same identifier in two namespaces. *Sessions:* the durations are those of the code; a second
link for each machine is enough to see a machine served twice (`OneLinkPerMachine` says the
second is never used). The bounds are constants named `Max...`, and appear only in guards.

Fairness, and why the code justifies it:

* tasks spawned on the runtime and blocking jobs run; interval timers fire;
* a request to ClickHouse ends (send and end timeouts, `database.rs`), and so does an
  OPC-UA request (`REQUEST_TIMEOUT`, `client.rs`);
* systemd restarts the service (`Restart=always` in `debian/opcua-line-gateway.service`);
* an OPC-UA server publishes changes, and a machine that has its answer resets its request;
* an event loop ends when its machine does not answer (keep-alive, no session retry);
* `Reconnects` and `HeartbeatChanges` also assume (strong fairness) that a machine that
  answers infinitely often does so in time at some attempt;
* nothing obliges a machine to send a request, and nothing obliges a failure to happen.

What liveness says of failures. A call may fail on a session that stays up: the response is
written once (`install.rs:167`, the result is ignored), and an initial request is ignored when
the response code cannot be read (`handle_request.rs:141`). Either leaves the machine without
answer as long as that session lasts. `RequestAnswered` and `ResponseReset` therefore promise
an answer, and the end of the handshake, unless a call has failed; `ReconnectionResumes` says
that a machine stuck so does not wait longer than that session: whatever failed over a session
that is lost, the next one answers, or resets, as soon as no further call fails.

What is said of bad values. A request variable whose status is bad for a while is notified
again afterwards, with the same code (`install.rs:153`), and the request is executed twice:
`SavesBounded` counts one save more for each bad value. A bad value while no request is pending
is worse: it is answered by an error code that the machine may take for the answer to the request
it sends meanwhile, and from then on the gateway answers one request behind the machine.
`AnswersLate` says that it falls behind by one request for each bad value at most, whatever else
fails, and never runs ahead; it is one behind in the run. `AnswerMatchesRequest` and the
properties beside it say nothing of such behaviours: their run has no bad value (`MaxFlaps = 0`),
and they are proved up to the first.

What is said of repeated saves. A lost connection makes one save due again, that of its machine.
A stop or a crash makes one due for every machine: `SavesBounded` counts `Cardinality(Machines)`
saves for each restart, which two machines of `handler_ids` reach.

What the cache holds. `handler_orphan` (section 4) shows an older save over the one that a machine
was told it had made. `CacheHoldsOwnSave` says that nothing but the blocking job of a lost session
does that: as long as no connection is lost, the acknowledged save is the one in the cache, unless
another machine has saved the part.

What a creation is. A request to create an identifier may be executed by two sessions, each of
which takes a serial and may or may not write it. `CreatedPartShown` says what its
acknowledgement is worth all the same: the machine shows an identifier that was made for this
very request, and its serial is counted, so that no later request gets it.

What is said of part references. One that has a digit outside ASCII is taken, its identifier is
made, written to the machine and acknowledged, and every save of that part is then refused (with
an error code, no row is queued). `MadeIsAccepted` says that this is the only case in which the
gateway refuses an identifier it has made, and `MadeReadsBack` that nothing that a save accepts
reads back otherwise than it was made, so that such a reference is never filed under another.

What waits for what. `NothingForgotten` is the safety behind the two liveness properties of the
handshake: as long as no call has failed, what a machine waits for in a live session is still to
be notified, in the channel, or in the hands of the handler.

Deadlock is checked in the runs of TraceabilityDatabase, where systemd always restarts the
gateway. The other modules stop: the machines have used up their requests, the process has
ended, the identifier is validated.

## 4. Runs that show a disagreement

Each of these checks a property that a document of the repository states, and TLC finds a
behaviour of the code that violates it.

| Run | Property | Document | Code |
|---|---|---|---|
| `database_retry` | `RetriedInsertIdentical` | `clickhouse/tables/traceability.sql:38` "a retried insert must be byte-identical to the first attempt for deduplication to work" | each round reads the whole queue (`database.rs:149`): rows saved since the failure join the batch |
| `database_refused` | `SoundRowsArchived` | `traceability.sql:139` "the drain MUST bisect a batch on a 4xx" | the batch is sent again as a whole (`database.rs:175`) |
| `handler_orphan` | `CacheHoldsLastSave` | `docs/data_flow.md:22` "the cache stores the last saved version of the general part sheet" | the blocking job of an aborted handler (`save_part_sheets.rs:120`) may commit after a later, acknowledged save |
| `sessions_shutdown` | `SessionsStopped` | `debian/opcua-line-gateway.service:39` "Termination signals trigger a graceful shutdown of the OPC-UA sessions" | a session registered (`session.rs:187`) after `mem::take` (`session_manager.rs:91`) is not stopped |

The comment of `PartReference::size` (`part_id.rs:29`) promises sizes of 2 to 4 digits, where
the regular expression takes 2 or 3 (`part_id.rs:37`), and calls its fields digits without saying
that those of any script are taken, which a save refuses; PartIdentifier follows the expression.

## 5. Proofs

The theorems hold for every value of the constants that satisfies the named assumptions of the
modules (`PartSheetAssumption`, `CacheAssumption`, `DatabaseAssumption`, `HandlerAssumption`,
`SessionsAssumption`, `DiscoveryAssumption`, `PartIdentifierAssumption`): any machines, parts, values, programs, any number
of saves, requests, losses, restarts and failures.

**TraceabilityCacheProofs** has what the others need to know of the cache: what a save and a
serial do to the tables (`SaveEffect`, `NextSerialEffect`), and that a sheet encoded for the
cache is decoded as it was (`CacheRoundTrip`).

**TraceabilityDatabaseProofs** proves `TypeInvariance` and `NoRowLostInvariance`, that is
`Spec => []TypeOK` and `Spec => []NoRowLost`. `TypeOK` is not inductive: that a saved timestamp
is in the domain of `archive` needs `JobStamps` (the timestamp of a job is one the clock has
passed). `NoRowLost` is not inductive either: `remove_entries` is safe only because every key of
the batch still names the row that was inserted. `OutboxInv` adds

* `RowsStamped`: queued rows carry timestamps of the domain of the archive;
* `KeysBelowSeq`: keys of queues and batches are at most the sequence number + 1, so that a
  save never reuses a key of a batch in flight, even when the queues are empty
  (this is why `QUEUE_SEQ` must never be reset);
* `BatchAgrees`: where a batch and its queue have a key in common, they have the same row;
* `BatchArchived`: once the insertion has succeeded, each row of the batch is in the archive.

**TraceabilityDeliveryProofs** goes on with `DeliveryInv`. A batch in flight is still queued
(`BatchQueued`), a save has one row in a queue (`RowsDistinct`), and `QueuedCopies` counts: a
queued row has one copy for each failure at most, but for those a round has just inserted, whose
next copy is paid for by the failure of the removal. This gives `DuplicatesInvariance`.
`BacklogInvariance` needs `BacklogFetched`, which says at each step of the first round where the
rows left by the previous process are. `QueueBoundInvariance` counts the saves in progress
(`QueueInv`): enqueued rows, plus two for each saver past its check, stay below the threshold
plus two for each saver. `OutboxRefinement` is `Spec => ImplementsOutbox`: `SaveCommit` maps to
`Save`, an insertion (a failed one too, for the rows it appended) to `Deliver`, a removal to
`Forget`, and everything else, crashes included, to nothing.

**PartSheetDiscoveryProofs** proves the five properties of the discovery, for any programs.
`DiscoveryInv` says what each await may rely on: what has been browsed and what remains make up
the object (`BrowseInv`), however it is cut into pages; a sheet already read is that of the
present program (`KnownInv`); the items of a save agree with the references one by one
(`SaveInv`); and a cached value comes from the node of its identifier in the common namespace,
whatever the program was then (`CacheInv`).

**TraceabilityHandlerProofs** proves `HandlerTypeInvariance` and `UniquePartIdsInvariance`: a serial about to be written is counted in
the cache for its date, differs from those already written and from those the other handlers are
about to write (`IdsInv`), so that neither midnight nor a crash gives it twice. That serials are
counted up, even by the jobs that nobody waits for any more, is what makes it so.
`SavesBoundedInvariance` is a matter of counting what is due: the handlers about to commit, the
save codes in the channels, those the server is about to notify, those the next session will be
notified of, and the orphaned jobs (`Due`). `SavesInv` says that saves committed and saves due
are together at most what `SavesBounded` allows: each step moves what is due from one set to the
next, or uses it up, and only a request, a loss, a bad value, a stop or a crash adds to it, by one
element, or by one for each machine.

**TraceabilityProtocolProofs** proves the protocol, for any number of machines, requests, losses,
restarts and failures. `AnswersMatch`, `AnsweredNotHandled`, `AckedSavesDurable`,
`LoadedVersions` and `CreatedPartsShown` hold up to the first bad value (`flaps = 0 => ...`), however many the constants
allow; `ProtocolKept` says the same of `MaxFlaps = 0`, which is the run. The invariant,
`ProtocolInv`, has for each machine

* `HeldInv`: the request that a handler holds is the one the machine waits for, and nothing is
  queued behind it in the channel; if it is answered already, it is only held to be compared
  with the response code;
* `ResettingInv`: a response is never about to be reset under a machine that still makes its
  request;
* `SampledInv`, `ChannelInv`: the channel ends with what the server notified last; a request in
  it is the current one, and an answered request is found only first in the channel of a new
  session, where it is checked;
* `WorkInv`, `AckInv`: what a job or a write holds is what the machine shows, what is about to be
  acknowledged has been committed, loaded, or made and written, and remains so until the machine
  sees it. That the serial is counted comes from `IdsInv`.

It fails with bad values for the reason given in section 3. Three more results of this module
rest on invariants of their own:

* `NothingForgottenInvariance`, bad values included, until a call fails: `FlightInv` says of a
  live session that its channel ends with what the server notified last, that a handler without
  a channel to read holds just that, and that when it holds nothing either, the response is what
  that code calls for;
* `OwnSavesCached`, up to the first bad value: until a connection is lost no job runs without its
  handler (`AttachedInv`), so that between the commit of a save and its acknowledgement, and from
  then on until the next request, nobody but another machine puts anything over it (`OwnInv`);
* `AnswersLateInvariance`, of every behaviour. What the handler holds and what is in its channel
  will be written one after the other, and the machine sends a request only when the reset of its
  response follows an answer. `LateInv` says that these items can be labelled (`Labelled`), each
  with the greatest number that the last request of the machine may have when its turn comes:
  labels grow by one at each reset that follows an answer (`LabelSteps`), start at the number
  of the last request or above (`FirstLabel`), and that of an item passes the number the item
  was notified with by the bad values at most (`LabelBounds`). An item that is written then
  answers late by no more than that. A label is given once, when the item is notified, from the
  bound that `LastLabel` keeps for the next one.

Each of these invariants was checked by TLC on small instances before it was proved.

**SessionsManagerProofs** proves `OneLinkInvariance` (`Spec => []OneLinkPerMachine`) and
`SessionsTypeInvariance` (`Spec => []TypeOK`) for any machines and durations with
`ConnectTimeout < TickInterval`. The argument is about time: `StartsOnTime` says that, as
long as the manager ticks, the age of a start task and the time to the next tick add up to
the interval, so that with `age <= ConnectTimeout` no start task is alive when a tick is due
(`NoStartAtTick`); `SpawnInv` carries this over to the step that spawns, where a machine
that is not in `running` has no link at all; `TickingStages` says that sessions are being
stopped, or are detached, only after the last tick. `SessionsRefinement` is
`Spec => ImplementsLifecycle`: with one link, the session of a machine is what its link is
(`KindOfSession`), and each step makes links end, be lost or open, never two of these at once
(`LinksMove`). It needs `LoopInv`: a start task past its first call has an event loop, so
that what it registers is live.

**PartIdentifierProofs** proves the three properties of the identifiers, for any part reference
that the regular expression takes, digits of other scripts included, any batch, configured line,
date of the calendar and serial number, and any bytes that a machine may show instead. A field
has five digits at most, so that what `Number` computes can be unfolded (`NumberOfDigits`), and
`DecimalOf`, `Padded` say that formatting and padding keep the number. `PiecesLocated` says
where each piece is in the 23 characters. The rest is about centuries: `%y` reads 69 to 99 as
the 1900s, the columns as the 2000s, and neither may lose day 366 (`DayOfCentury`,
`DayOfThe2000s`). `Inv` adds to the properties that what was made was made under the guards of
`create_part_identifier`, from the input that is still there. An identifier holds a character
outside ASCII if and only if one of the three fields does (`WellMade`, `AcceptedIsAscii`):
padding adds ASCII zeros only, and the batch and the line are checked before.

Model-checked only:

* liveness, in every module: `EventuallyArchived`, `EventuallyServing`, `RequestAnswered`,
  `ResponseReset`, `ReconnectionResumes`, `ShutdownCompletes`, `Reconnects`, `HeartbeatChanges`
  (fairness and `ENABLED` are out of the prover's reach). `NothingForgotten` is proved in place
  of what is safety in those of the handlers.

Every invariant and every refinement that a run checks is also proved. What is not true as it
would be wished is not stated: after a bad value an answered request may be executed again, an
acknowledgement may be that of the request before, and only the number of saves and the lateness
of answers remain bounded.

## 6. Not modelled

* Configuration, credentials, schema generator: read once; their values are constants.
* Logging and its reopening, packaging, dashboards: no effect on this state.
* The retries of a browse inside the OPC-UA library: a page comes, or the session ends.
* Variables of an object that belong to a namespace other than its own: the gateway drops the
  namespace of a browsed node (`handler/mod.rs:188`), and the documents do not say where such
  a variable would be. `ValuesAttributed` and `CheckedSheetsEncode` leave these programs out
  (`OwnNamespace`), one of which is in the run.
* Conversions of OPC-UA values, but for JSON forms and part identifiers: they differ by their
  type only, and fail as a read does.
* Clock adjustments and time zones.
* Real durations of requests, and the period of the draining task.

## 7. What is left

Two things would still say more about this code.

* The safety behind the other liveness properties, stated and proved as `NothingForgotten` is:
  that a shutdown in progress always has a step to take, that a queue with rows in it always has
  a round to come.
* `Gateway`, the sessions manager, the handlers and the draining task composed under one
  shutdown. The parts meet in three places, and each is covered from both sides: sessions by
  SessionLifecycle, which SessionsManager implements and TraceabilityHandler assumes, the queues by the
  cache, which TraceabilityDatabase and TraceabilityHandler share, and the end of the process,
  whose late saves TraceabilityDatabase allows. Their product, with clocks, channels and queues
  at once, is beyond what TLC can explore in minutes; it would have to be reasoned about from
  the refinements.
