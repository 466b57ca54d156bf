-------------------------- MODULE TraceabilityHandler --------------------------
(***************************************************************************)
(* The request/response protocol between the machines and the gateway        *)
(* (traceability/handler/).  A machine sets a request code; the handler of    *)
(* its session is notified, executes the request and writes a response code; *)
(* the machine resets its request, and the handler resets the response.       *)
(*                                                                         *)
(* Every OPC-UA call, every blocking job and every wait is a step of its own, *)
(* so that disconnections, failing calls, crashes and the handlers of the     *)
(* other machines come in between.  How sessions come and go is abstracted    *)
(* from SessionsManager, the draining of the queues from                      *)
(* TraceabilityDatabase.                                                     *)
(***************************************************************************)
EXTENDS TraceabilityCache, Sequences

CONSTANTS
    Creators,       \* the machines that have a line_id
    GeneralNids,    \* nodes of the general part sheet
    OperationNids,  \* nodes of the operation part sheets
    PartIdNid,      \* part_id_nid
    ExcludedNids,   \* excluded_read_nids
    Codes,          \* the request codes that the machines send
    PartValues,     \* what a machine may hold as a part identifier
    NoPart,         \* a value that is not a part identifier
    MaxSerial,      \* the largest serial of a part identifier (99999)
    MaxRequests,    \* bound on the requests of the machines
    MaxLosses,      \* bound on the lost connections
    MaxRestarts,    \* bound on the stops and crashes of the service
    MaxFaults,      \* bound on the failures of a call or of a transaction
    MaxFlaps        \* bound on the bad values of a request code

ASSUME HandlerAssumption ==
    /\ IsFiniteSet(Machines)
    /\ Creators \subseteq Machines
    /\ GeneralNids \subseteq Nids
    /\ OperationNids \subseteq Nids
    /\ PartIdNid \in GeneralNids
    /\ ExcludedNids \subseteq GeneralNids
    /\ Codes \subseteq 1 .. 4
    /\ Dates \subseteq Nat
    /\ \E d \in Dates : \A e \in Dates : d <= e
    /\ PartIds = Dates \X (1 .. MaxSerial)
    /\ PartIds \subseteq Values
    /\ NoPart \in Values \ PartIds
    /\ PartValues \subseteq PartIds \cup {NoPart}
    /\ {MaxSerial, MaxRequests, MaxLosses, MaxRestarts, MaxFaults, MaxFlaps} \subseteq Nat

VARIABLES
    plc,        \* variables of each machine, and its requests, numbered from 1
    session,    \* "none", "live", or "dead" (event loop ended, still registered)
    sampled,    \* the request code the server has last notified
    rx,         \* channel of the notifications
    is_initial, \* no notification has been received by the handler
    pc,         \* where the handler is
    task,       \* what the handler holds: request, answer, values
    orphans,    \* blocking jobs whose handler was aborted
    shutdown,   \* the service is stopping
    today,      \* the date of the time provider
    saved,      \* history: the committed saves
    issued,     \* history: the part identifiers written to the machines
    requests, losses, restarts, faults, flaps

sessionVars == <<session, sampled, rx, is_initial>>
countVars == <<requests, losses, restarts, faults, flaps>>
historyVars == <<saved, issued>>
vars == <<redbVars, plc, sessionVars, pc, task, orphans, shutdown, today, historyVars, countVars>>

\* Request codes; Unknown stands for those TraceabilityRequest does not have,
\* BadValue for a notification whose value has no code.
Reset == 0
CreatePartId == 1
ReadPartSheet == 2
SavePartSheets == 3
Unknown == 4
BadValue == 9
NoCode == -1

RESPONSE_RESET == 0
RESPONSE_SUCCESS == 1

to_response_code ==
    [ValueError |-> 91, UnknownValue |-> 92,
     NotConfigured |-> 11, ReadVariables |-> 12, PartRefValue |-> 13, BatchValue |-> 14,
     NextSerial |-> 15, PartIdentifier |-> 16, WritePartId |-> 17,
     ReadPartId |-> 21, PartIdValueRead |-> 22, CacheGet |-> 23, CacheMissing |-> 24,
     WritePartSheet |-> 25,
     ReadPartSheets |-> 31, PartSheetValue |-> 32, PartIdValueSave |-> 33, CacheSave |-> 34,
     Enqueuing |-> 35]

ResponseCodes == {RESPONSE_RESET, RESPONSE_SUCCESS} \cup
                 {to_response_code[e] : e \in DOMAIN to_response_code}

Blank == [id \in GeneralNids |-> NoPart]
BlankOperation == [id \in OperationNids |-> NoPart]
NoTask == [request |-> NoCode, answer |-> RESPONSE_RESET, n |-> 0, date |-> 0, part |-> NoPart,
           general |-> Blank, operation |-> BlankOperation]

Operations == {"create_read", "create_job", "create_write", "load_read", "load_job",
               "load_write", "save_read", "save_job"}

Init ==
    /\ CacheInit
    /\ plc = [m \in Machines |->
                [request |-> Reset, response |-> RESPONSE_RESET, n |-> 0, answered |-> 0,
                 general |-> Blank, operation |-> BlankOperation]]
    /\ session = [m \in Machines |-> "none"]
    /\ sampled = [m \in Machines |-> NoCode]
    /\ rx = [m \in Machines |-> <<>>]
    /\ is_initial = [m \in Machines |-> TRUE]
    /\ pc = [m \in Machines |-> "none"]
    /\ task = [m \in Machines |-> NoTask]
    /\ orphans = {}
    /\ shutdown = FALSE
    /\ today = CHOOSE d \in Dates : \A e \in Dates : d <= e
    /\ saved = {}
    /\ issued = {}
    /\ requests = 0 /\ losses = 0 /\ restarts = 0 /\ faults = 0 /\ flaps = 0

Fault ==
    /\ faults < MaxFaults
    /\ faults' = faults + 1
    /\ UNCHANGED <<requests, losses, restarts, flaps>>

Restarts ==
    /\ restarts < MaxRestarts
    /\ restarts' = restarts + 1
    /\ UNCHANGED <<requests, losses, faults, flaps>>

-----------------------------------------------------------------------------
(* The machines: their program follows the protocol of the README and leaves   *)
(* its part sheets alone while a request is pending.                           *)

\* The sheets it shows: the part in the machine, and data of one origin, those of an
\* earlier part when it asks for a read.
MachineSheets(m, code, part, value) ==
    IF code \in {ReadPartSheet, SavePartSheets}
    THEN [general |-> [id \in GeneralNids |-> IF id = PartIdNid THEN part ELSE value],
          operation |-> [id \in OperationNids |-> value]]
    ELSE [general |-> plc[m].general, operation |-> plc[m].operation]

SetRequest(m) ==
    /\ plc[m].request = Reset
    /\ plc[m].response = RESPONSE_RESET
    /\ requests < MaxRequests
    /\ requests' = requests + 1
    /\ \E code \in Codes,
          part \in PartValues,
          value \in Values \ (PartIds \cup {NoPart}) :
        LET sheets == MachineSheets(m, code, part, value)
        IN  plc' = [plc EXCEPT ![m] = [@ EXCEPT !.request = code, !.n = plc[m].n + 1,
                                                !.general = sheets.general,
                                                !.operation = sheets.operation]]
    /\ UNCHANGED <<redbVars, sessionVars, pc, task, orphans, shutdown, today, historyVars,
                   losses, restarts, faults, flaps>>

ResetRequest(m) ==
    /\ plc[m].request # Reset
    /\ plc[m].response # RESPONSE_RESET
    /\ plc' = [plc EXCEPT ![m].request = Reset]
    /\ UNCHANGED <<redbVars, sessionVars, pc, task, orphans, shutdown, today, historyVars,
                   countVars>>

-----------------------------------------------------------------------------
(* Sessions and notifications *)

\* Mutant: the server notifies changes only, not the first value.
installUnsampled(m) ==
    /\ session[m] = "none"
    /\ ~shutdown
    /\ session' = [session EXCEPT ![m] = "live"]
    /\ sampled' = [sampled EXCEPT ![m] = plc[m].request]
    /\ rx' = [rx EXCEPT ![m] = <<>>]
    /\ is_initial' = [is_initial EXCEPT ![m] = TRUE]
    /\ pc' = [pc EXCEPT ![m] = "idle"]
    /\ UNCHANGED <<redbVars, plc, task, orphans, shutdown, today, historyVars, countVars>>

\* start_session succeeds: the request code is monitored, the handler is spawned.
install(m) ==
    /\ session[m] = "none"
    /\ ~shutdown
    /\ session' = [session EXCEPT ![m] = "live"]
    /\ sampled' = [sampled EXCEPT ![m] = NoCode]
    /\ rx' = [rx EXCEPT ![m] = <<>>]
    /\ is_initial' = [is_initial EXCEPT ![m] = TRUE]
    /\ pc' = [pc EXCEPT ![m] = "idle"]
    /\ UNCHANGED <<redbVars, plc, task, orphans, shutdown, today, historyVars, countVars>>

Disconnect(m) ==
    /\ session[m] = "live"
    /\ losses < MaxLosses
    /\ losses' = losses + 1
    /\ session' = [session EXCEPT ![m] = "dead"]
    /\ UNCHANGED <<redbVars, plc, sampled, rx, is_initial, pc, task, orphans, shutdown, today,
                   historyVars, requests, restarts, faults, flaps>>

\* The blocking job of a handler, if it waits for one that writes.
JobOf(m) ==
    IF pc[m] \in {"create_job", "save_job"}
    THEN {[kind |-> pc[m], machine |-> m, task |-> task[m]]} ELSE {}

HandlerEnds(m) ==
    /\ session' = [session EXCEPT ![m] = "none"]
    /\ pc' = [pc EXCEPT ![m] = "none"]
    /\ task' = [task EXCEPT ![m] = NoTask]
    /\ UNCHANGED <<sampled, rx, is_initial>>

\* The tick of the sessions manager drops the session: dropping its JoinSet aborts the
\* handler, but not the blocking job it waits for.
DropDead(m) ==
    /\ session[m] = "dead"
    /\ ~shutdown
    /\ orphans' = orphans \cup JobOf(m)
    /\ HandlerEnds(m)
    /\ UNCHANGED <<redbVars, plc, shutdown, today, historyVars, countVars>>

Notify(m, code) ==
    /\ session[m] = "live"
    /\ sampled' = [sampled EXCEPT ![m] = code]
    /\ rx' = [rx EXCEPT ![m] = Append(@, [code |-> code, n |-> plc[m].n])]
    /\ UNCHANGED <<redbVars, plc, session, is_initial, pc, task, orphans, shutdown, today,
                   historyVars>>

\* Mutant: a notification that finds the handler busy is dropped.
PublishUnlessBusy(m) ==
    /\ sampled[m] # plc[m].request
    /\ IF pc[m] = "idle" THEN Notify(m, plc[m].request)
       ELSE /\ session[m] = "live"
            /\ sampled' = [sampled EXCEPT ![m] = plc[m].request]
            /\ UNCHANGED <<redbVars, plc, session, rx, is_initial, pc, task, orphans, shutdown,
                           today, historyVars>>
    /\ UNCHANGED countVars

\* data_change_callback: the server notifies the first value, then each change.
Publish(m) ==
    /\ sampled[m] # plc[m].request
    /\ Notify(m, plc[m].request)
    /\ UNCHANGED countVars

\* The status of the request variable is bad for a while.
PublishBad(m) ==
    /\ sampled[m] # BadValue
    /\ flaps < MaxFlaps
    /\ flaps' = flaps + 1
    /\ Notify(m, BadValue)
    /\ UNCHANGED <<requests, losses, restarts, faults>>

-----------------------------------------------------------------------------
(* The handler *)

handlerFrame == UNCHANGED <<sessionVars, orphans, shutdown, today>>

Goto(m, label, t) ==
    /\ pc' = [pc EXCEPT ![m] = label]
    /\ task' = [task EXCEPT ![m] = t]

\* The request is over: unwrap_or_else(to_response_code), then the response is written.
Answer(m, t, code) ==
    Goto(m, "respond", [NoTask EXCEPT !.request = t.request, !.n = t.n, !.answer = code])

Fail(m, err) == Answer(m, task[m], to_response_code[err])

\* A call succeeds only on a live session.  It fails at once on a dead one; on a live
\* one it may fail for itself (timeout, bad status), its effect made or not.
CallOk(m) == session[m] = "live" /\ UNCHANGED countVars
CallErr(m) == \/ session[m] = "dead" /\ UNCHANGED countVars
              \/ session[m] = "live" /\ Fault

handle_request(m, t) ==
    \/ /\ t.request = BadValue
       /\ Answer(m, t, to_response_code.ValueError)
       /\ UNCHANGED countVars
    \/ /\ t.request = Unknown
       /\ Answer(m, t, to_response_code.UnknownValue)
       /\ UNCHANGED countVars
    \/ /\ t.request = Reset
       /\ Answer(m, t, RESPONSE_RESET)
       /\ UNCHANGED countVars
    \/ /\ t.request = CreatePartId
       /\ IF m \in Creators THEN Goto(m, "create_read", t)
          ELSE Answer(m, t, to_response_code.NotConfigured)
       /\ UNCHANGED countVars
    \/ /\ t.request = ReadPartSheet
       /\ Goto(m, "load_read", t)
       /\ UNCHANGED countVars
    \/ /\ t.request = SavePartSheets
       /\ check_enqueuing_allowed
       /\ Goto(m, "save_read", t)
       /\ UNCHANGED countVars
    \/ /\ t.request = SavePartSheets
       /\ (~check_enqueuing_allowed /\ UNCHANGED countVars) \/ Fault
       /\ Answer(m, t, to_response_code.Enqueuing)

\* Mutant: the first request is executed whether it was answered or not.
ReceiveUnchecked(m) ==
    /\ pc[m] = "idle"
    /\ rx[m] # <<>>
    /\ handle_request(m, [NoTask EXCEPT !.request = Head(rx[m]).code, !.n = Head(rx[m]).n])
    /\ rx' = [rx EXCEPT ![m] = Tail(@)]
    /\ is_initial' = [is_initial EXCEPT ![m] = FALSE]
    /\ UNCHANGED <<redbVars, plc, session, sampled, orphans, shutdown, today, historyVars>>

\* Mutant: a reset is not treated apart among the first notifications.
ReceiveChecksReset(m) ==
    /\ pc[m] = "idle"
    /\ rx[m] # <<>>
    /\ LET t == [NoTask EXCEPT !.request = Head(rx[m]).code, !.n = Head(rx[m]).n]
       IN  IF is_initial[m]
           THEN Goto(m, "initial", t) /\ UNCHANGED countVars
           ELSE handle_request(m, t)
    /\ rx' = [rx EXCEPT ![m] = Tail(@)]
    /\ is_initial' = [is_initial EXCEPT ![m] = FALSE]
    /\ UNCHANGED <<redbVars, plc, session, sampled, orphans, shutdown, today, historyVars>>

\* Mutant: the notification is looked at and stays in the channel.
ReceiveKeeps(m) ==
    /\ pc[m] = "idle"
    /\ rx[m] # <<>>
    /\ LET t == [NoTask EXCEPT !.request = Head(rx[m]).code, !.n = Head(rx[m]).n]
       IN  IF is_initial[m] /\ t.request # Reset
           THEN Goto(m, "initial", t) /\ UNCHANGED countVars
           ELSE handle_request(m, t)
    /\ is_initial' = [is_initial EXCEPT ![m] = FALSE]
    /\ UNCHANGED <<redbVars, plc, session, sampled, rx, orphans, shutdown, today, historyVars>>

\* The loop of the task.  At a shutdown, a session goes on until it is its turn to be
\* stopped.
Receive(m) ==
    /\ pc[m] = "idle"
    /\ rx[m] # <<>>
    /\ LET t == [NoTask EXCEPT !.request = Head(rx[m]).code, !.n = Head(rx[m]).n]
       IN  IF is_initial[m] /\ t.request # Reset
           THEN Goto(m, "initial", t) /\ UNCHANGED countVars
           ELSE handle_request(m, t)
    /\ rx' = [rx EXCEPT ![m] = Tail(@)]
    /\ is_initial' = [is_initial EXCEPT ![m] = FALSE]
    /\ UNCHANGED <<redbVars, plc, session, sampled, orphans, shutdown, today, historyVars>>

\* Mutant: the first request is taken for answered without reading the response.
initial_request_ignored(m) ==
    /\ pc[m] = "initial"
    /\ Goto(m, "idle", NoTask)
    /\ handlerFrame
    /\ UNCHANGED <<redbVars, plc, historyVars, countVars>>

\* The response code tells whether the first request was answered by an earlier
\* session; it is taken for answered when the response cannot be read.
is_initial_request_answered(m) ==
    /\ pc[m] = "initial"
    /\ \/ /\ session[m] = "live"
          /\ plc[m].response = RESPONSE_RESET
          /\ handle_request(m, task[m])
       \/ /\ CallOk(m)
          /\ plc[m].response # RESPONSE_RESET
          /\ Goto(m, "idle", NoTask)
       \/ /\ CallErr(m)
          /\ Goto(m, "idle", NoTask)
    /\ handlerFrame
    /\ UNCHANGED <<redbVars, plc, historyVars>>

\* Request 1: create_part_id.
CreateRead(m) ==
    /\ pc[m] = "create_read"
    /\ \/ /\ CallOk(m)
          /\ Goto(m, "create_job", [task[m] EXCEPT !.date = today])
       \/ /\ CallErr(m)
          /\ \E err \in {"ReadVariables", "PartRefValue", "BatchValue"} : Fail(m, err)
    /\ handlerFrame
    /\ UNCHANGED <<redbVars, plc, historyVars>>

\* Mutant: the limit of the serial numbers is not checked.
CreateJobUnlimited(m) ==
    /\ pc[m] = "create_job"
    /\ next_serial(task[m].date)
    /\ Goto(m, "create_write",
            [task[m] EXCEPT !.part = <<task[m].date, daily_serial'[task[m].date]>>])
    /\ handlerFrame
    /\ UNCHANGED <<plc, historyVars, countVars>>

\* Mutant: serial numbers are counted for the day of the job, not for the date that
\* goes into the identifier.
CreateJobToday(m) ==
    /\ pc[m] = "create_job"
    /\ next_serial(today)
    /\ LET serial == daily_serial'[today]
       IN  IF serial <= MaxSerial
           THEN Goto(m, "create_write", [task[m] EXCEPT !.part = <<task[m].date, serial>>])
           ELSE Fail(m, "PartIdentifier")
    /\ handlerFrame
    /\ UNCHANGED <<plc, historyVars, countVars>>

\* The serial is spent even when no identifier comes out of it: it is too large,
\* the part reference read from the machine is malformed, or the commit of the serial
\* reports an error after it became durable.
CreateJob(m) ==
    /\ pc[m] = "create_job"
    /\ \/ /\ next_serial(task[m].date)
          /\ LET serial == daily_serial'[task[m].date]
             IN  \/ /\ serial <= MaxSerial
                    /\ Goto(m, "create_write", [task[m] EXCEPT !.part = <<task[m].date, serial>>])
                 \/ Fail(m, "PartIdentifier")
          /\ UNCHANGED countVars
       \/ /\ Fault
          /\ next_serial(task[m].date) \/ UNCHANGED redbVars
          /\ Fail(m, "NextSerial")
    /\ handlerFrame
    /\ UNCHANGED <<plc, historyVars>>

WritePart(m) ==
    /\ plc' = [plc EXCEPT ![m].general[PartIdNid] = task[m].part]
    /\ issued' = issued \cup {[machine |-> m, n |-> task[m].n, part |-> task[m].part]}

\* Mutant: the result of the write of the identifier is not checked.
CreateWriteUnchecked(m) ==
    /\ pc[m] = "create_write"
    /\ \/ CallOk(m) /\ WritePart(m)
       \/ /\ CallErr(m)
          /\ (session[m] = "live" /\ WritePart(m)) \/ UNCHANGED <<plc, issued>>
    /\ Answer(m, task[m], RESPONSE_SUCCESS)
    /\ handlerFrame
    /\ UNCHANGED <<redbVars, saved>>

CreateWrite(m) ==
    /\ pc[m] = "create_write"
    /\ \/ /\ CallOk(m)
          /\ WritePart(m)
          /\ Answer(m, task[m], RESPONSE_SUCCESS)
       \/ /\ CallErr(m)
          /\ (session[m] = "live" /\ WritePart(m)) \/ UNCHANGED <<plc, issued>>
          /\ Fail(m, "WritePartId")
    /\ handlerFrame
    /\ UNCHANGED <<redbVars, saved>>

\* Request 2: handle_read.  A text of the right form that is not a valid identifier is
\* looked up, in vain: only a save validates it.
LoadRead(m) ==
    LET part == plc[m].general[PartIdNid]
    IN  /\ pc[m] = "load_read"
        /\ \/ /\ CallOk(m)
              /\ \/ Goto(m, "load_job", [task[m] EXCEPT !.part = part])
                 \/ part \notin PartIds /\ Fail(m, "PartIdValueRead")
           \/ /\ CallErr(m)
              /\ \E err \in {"ReadPartId", "PartIdValueRead"} : Fail(m, err)
        /\ handlerFrame
        /\ UNCHANGED <<redbVars, plc, historyVars>>

\* Opening a table that no save has created yet is an error.
LoadJob(m) ==
    /\ pc[m] = "load_job"
    /\ \/ /\ (~SheetTableExists /\ UNCHANGED countVars) \/ Fault
          /\ Fail(m, "CacheGet")
       \/ /\ SheetTableExists
          /\ ~SheetCached(task[m].part)
          /\ Fail(m, "CacheMissing")
          /\ UNCHANGED countVars
       \/ /\ SheetTableExists
          /\ SheetCached(task[m].part)
          /\ Goto(m, "load_write",
                  [task[m] EXCEPT !.general = get_general_part_sheet(task[m].part)])
          /\ UNCHANGED countVars
    /\ handlerFrame
    /\ UNCHANGED <<redbVars, plc, historyVars>>

WriteSheet(m, ids) ==
    plc' = [plc EXCEPT ![m].general =
              [id \in GeneralNids |-> IF id \in ids THEN task[m].general[id] ELSE @[id]]]

\* Mutant: the status codes of the results are not checked.
LoadWriteUnchecked(m) ==
    LET ids == DOMAIN task[m].general \ ExcludedNids
    IN  /\ pc[m] = "load_write"
        /\ \/ /\ CallOk(m)
              /\ WriteSheet(m, ids)
           \/ /\ CallErr(m)
              /\ session[m] = "live"
              /\ \E some \in SUBSET ids : WriteSheet(m, some)
        /\ Answer(m, task[m], RESPONSE_SUCCESS)
        /\ handlerFrame
        /\ UNCHANGED <<redbVars, historyVars>>

\* write_checked fails when one status of its results is bad: the others are written.
LoadWrite(m) ==
    LET ids == DOMAIN task[m].general \ ExcludedNids
    IN  /\ pc[m] = "load_write"
        /\ \/ /\ CallOk(m)
              /\ WriteSheet(m, ids)
              /\ Answer(m, task[m], RESPONSE_SUCCESS)
           \/ /\ CallErr(m)
              /\ (session[m] = "live" /\ \E some \in SUBSET ids : WriteSheet(m, some))
                   \/ UNCHANGED plc
              /\ Fail(m, "WritePartSheet")
        /\ handlerFrame
        /\ UNCHANGED <<redbVars, historyVars>>

\* Request 3: handle_save, after its check.
SaveRead(m) ==
    LET part == plc[m].general[PartIdNid]
    IN  /\ pc[m] = "save_read"
        /\ \/ /\ CallOk(m)
              /\ IF part \in PartIds
                 THEN Goto(m, "save_job", [task[m] EXCEPT !.part = part,
                                                          !.general = plc[m].general,
                                                          !.operation = plc[m].operation])
                 ELSE Fail(m, "PartIdValueSave")
           \/ /\ CallErr(m)
              /\ \E err \in {"ReadPartSheets", "PartSheetValue"} : Fail(m, err)
        /\ handlerFrame
        /\ UNCHANGED <<redbVars, plc, historyVars>>

\* The blocking job of a save.  Timestamps tell the requests of a machine apart.
Commit(m, t) ==
    /\ Encodable(t.general, t.operation)
    /\ save_part_sheets(t.n, m, t.part, t.general, t.operation)
    /\ saved' = saved \cup {[machine |-> m, n |-> t.n, part |-> t.part,
                             general |-> t.general, operation |-> t.operation]}

\* Mutant: the error of the transaction is dropped.
SaveJobDropsError(m) ==
    /\ pc[m] = "save_job"
    /\ \/ Commit(m, task[m]) /\ UNCHANGED countVars
       \/ Fault /\ UNCHANGED <<redbVars, saved>>
    /\ Answer(m, task[m], RESPONSE_SUCCESS)
    /\ handlerFrame
    /\ UNCHANGED <<plc, issued>>

\* Mutant: the job is run again when the transaction fails.
SaveJobRetries(m) ==
    /\ pc[m] = "save_job"
    /\ \/ /\ Commit(m, task[m])
          /\ Answer(m, task[m], RESPONSE_SUCCESS)
          /\ UNCHANGED countVars
       \/ /\ Fault
          /\ Commit(m, task[m]) \/ UNCHANGED <<redbVars, saved>>
          /\ UNCHANGED <<pc, task>>
    /\ handlerFrame
    /\ UNCHANGED <<plc, issued>>

SaveJob(m) ==
    /\ pc[m] = "save_job"
    /\ \/ /\ Commit(m, task[m])
          /\ Answer(m, task[m], RESPONSE_SUCCESS)
          /\ UNCHANGED countVars
       \/ /\ ~Encodable(task[m].general, task[m].operation)
          /\ Fail(m, "CacheSave")
          /\ UNCHANGED <<redbVars, saved, countVars>>
       \/ /\ Fault
          /\ Commit(m, task[m]) \/ UNCHANGED <<redbVars, saved>>
          /\ Fail(m, "CacheSave")
    /\ handlerFrame
    /\ UNCHANGED <<plc, issued>>

WriteResponse(m) ==
    plc' = [plc EXCEPT ![m].response = task[m].answer, ![m].answered = task[m].n]

\* The result of the write is ignored.
Respond(m) ==
    /\ pc[m] = "respond"
    /\ \/ CallOk(m) /\ WriteResponse(m)
       \/ CallErr(m) /\ ((session[m] = "live" /\ WriteResponse(m)) \/ UNCHANGED plc)
    /\ Goto(m, "idle", NoTask)
    /\ handlerFrame
    /\ UNCHANGED <<redbVars, historyVars>>

\* OpcUaSession::stop: the handler ends at the end of a request, never in the middle.
HandlerStop(m) ==
    /\ shutdown
    /\ pc[m] = "idle"
    /\ HandlerEnds(m)
    /\ UNCHANGED <<redbVars, plc, orphans, shutdown, today, historyVars, countVars>>

-----------------------------------------------------------------------------
(* The rest of the process *)

\* Mutant: the handler of a dropped session lives on, and answers over the next one.
OrphanJobAnswers(job) ==
    /\ job \in orphans
    /\ session[job.machine] = "live"
    /\ orphans' = orphans \ {job}
    /\ plc' = [plc EXCEPT ![job.machine].response = RESPONSE_SUCCESS,
                         ![job.machine].answered = job.task.n]
    /\ UNCHANGED <<redbVars, saved, sessionVars, pc, task, shutdown, today, issued, countVars>>

\* A job that nobody waits for any more.
OrphanJob(job) ==
    /\ job \in orphans
    /\ orphans' = orphans \ {job}
    /\ \/ /\ job.kind = "create_job"
          /\ next_serial(job.task.date)
          /\ UNCHANGED saved
       \/ /\ job.kind = "save_job"
          /\ IF Encodable(job.task.general, job.task.operation)
             THEN Commit(job.machine, job.task) ELSE UNCHANGED <<redbVars, saved>>
    /\ UNCHANGED <<plc, sessionVars, pc, task, shutdown, today, issued, countVars>>

\* A round of the draining task, both queues at once: only the number of queued rows
\* matters here.
DrainQueues ==
    /\ TotalEnqueued > 0
    /\ queues' = [t \in QueueTable |-> EmptyTable]
    /\ UNCHANGED <<daily_serial, general_part_sheet, archive_seq, plc, sessionVars, pc, task,
                   orphans, shutdown, today, historyVars, countVars>>

Shutdown ==
    /\ ~shutdown
    /\ Restarts
    /\ shutdown' = TRUE
    /\ UNCHANGED <<redbVars, plc, sessionVars, pc, task, orphans, today, historyVars>>

\* The process has ended, its blocking jobs included, and is started again.
Restart ==
    /\ shutdown
    /\ \A m \in Machines : pc[m] = "none"
    /\ orphans = {}
    /\ shutdown' = FALSE
    /\ UNCHANGED <<redbVars, plc, sessionVars, pc, task, orphans, today, historyVars, countVars>>

Crash ==
    /\ Restarts
    /\ session' = [m \in Machines |-> "none"]
    /\ sampled' = [m \in Machines |-> NoCode]
    /\ rx' = [m \in Machines |-> <<>>]
    /\ is_initial' = [m \in Machines |-> TRUE]
    /\ pc' = [m \in Machines |-> "none"]
    /\ task' = [m \in Machines |-> NoTask]
    /\ orphans' = {}
    /\ shutdown' = FALSE
    /\ UNCHANGED <<redbVars, plc, today, historyVars>>

NextDay ==
    /\ today + 1 \in Dates
    /\ today' = today + 1
    /\ UNCHANGED <<redbVars, plc, sessionVars, pc, task, orphans, shutdown, historyVars, countVars>>

-----------------------------------------------------------------------------

Handler(m) ==
    \/ Receive(m) \/ is_initial_request_answered(m)
    \/ CreateRead(m) \/ CreateJob(m) \/ CreateWrite(m)
    \/ LoadRead(m) \/ LoadJob(m) \/ LoadWrite(m)
    \/ SaveRead(m) \/ SaveJob(m)
    \/ Respond(m) \/ HandlerStop(m)

Next ==
    \/ \E m \in Machines :
        \/ SetRequest(m) \/ ResetRequest(m)
        \/ install(m) \/ Disconnect(m) \/ DropDead(m) \/ Publish(m) \/ PublishBad(m)
        \/ Handler(m)
    \/ \E job \in orphans : OrphanJob(job)
    \/ DrainQueues \/ Shutdown \/ Restart \/ Crash \/ NextDay

Spec == Init /\ [][Next]_vars

\* Tasks and blocking jobs run, the server publishes, the sessions manager ticks and
\* reconnects, systemd restarts the service, and a machine that has its answer resets
\* its request.  Nothing obliges it to send a request.
Fairness ==
    /\ \A m \in Machines :
        /\ WF_vars(Handler(m))
        /\ WF_vars(Publish(m))
        /\ WF_vars(install(m) \/ DropDead(m))
        /\ WF_vars(ResetRequest(m))
    /\ WF_vars(\E job \in orphans : OrphanJob(job))
    /\ WF_vars(Restart)

FairSpec == Spec /\ Fairness

-----------------------------------------------------------------------------
(* Safety *)

Task == [request : Nat \cup {NoCode}, answer : ResponseCodes, n : Nat, date : Nat,
         part : PartIds \cup {NoPart}, general : [GeneralNids -> Values],
         operation : [OperationNids -> Values]]

TypeOK ==
    /\ CacheTypeOK
    /\ plc \in [Machines -> [request : Reset .. Unknown, response : ResponseCodes, n : Nat,
                             answered : Nat, general : [GeneralNids -> Values],
                             operation : [OperationNids -> Values]]]
    /\ session \in [Machines -> {"none", "live", "dead"}]
    /\ sampled \in [Machines -> {NoCode, BadValue} \cup (Reset .. Unknown)]
    /\ \A m \in Machines : \A i \in DOMAIN rx[m] :
        rx[m][i] \in [code : {BadValue} \cup (Reset .. Unknown), n : Nat]
    /\ is_initial \in [Machines -> BOOLEAN]
    /\ pc \in [Machines -> {"none", "idle", "initial", "respond"} \cup Operations]
    /\ task \in [Machines -> Task]
    /\ orphans \subseteq [kind : {"create_job", "save_job"}, machine : Machines, task : Task]
    /\ shutdown \in BOOLEAN
    /\ today \in Dates

\* A response code that a machine sees answers its last request, never an earlier
\* one: no handler, whatever was lost or restarted, answers late.
AnswerMatchesRequest ==
    \A m \in Machines : plc[m].response # RESPONSE_RESET => plc[m].answered = plc[m].n

\* Each bad value that is notified for a request code makes the answers late by one request at
\* most, and no answer comes early.
AnswersLate ==
    \A m \in Machines :
        plc[m].response # RESPONSE_RESET => plc[m].n - plc[m].answered \in 0 .. flaps

\* A request that has its answer is not executed again: requests are not idempotent,
\* and a new session starts by receiving the code of a request that may be answered.
AnsweredNotHandledAgain ==
    \A m \in Machines : pc[m] \in Operations => plc[m].response = RESPONSE_RESET

\* A save that is acknowledged has been committed, with the values the machine still
\* shows.
AckedSaveDurable ==
    \A m \in Machines :
        (plc[m].request = SavePartSheets /\ plc[m].response = RESPONSE_SUCCESS) =>
            \E x \in saved : /\ x.machine = m
                             /\ x.n = plc[m].n
                             /\ x.general = plc[m].general
                             /\ x.operation = plc[m].operation

\* A creation that is acknowledged has left in the machine an identifier that was made for that
\* very request, be it executed by several sessions, and whose serial number is counted in the
\* cache: it is in use, and no later request of any machine gets it.
CreatedPartShown ==
    \A m \in Machines :
        (plc[m].request = CreatePartId /\ plc[m].response = RESPONSE_SUCCESS) =>
            \E x \in issued : /\ x.machine = m
                              /\ x.n = plc[m].n
                              /\ x.part = plc[m].general[PartIdNid]
                              /\ x.part[2] <= daily_serial[x.part[1]]

\* No part identifier is given to two requests, be they of two machines, of two days or
\* separated by a crash.
UniquePartIds == \A x, y \in issued : x.part = y.part => x = y

\* A read that is acknowledged leaves in the machine a version of the general part
\* sheet that was saved for its part, never a mixture with what it showed before.
LoadedVersion ==
    \A m \in Machines :
        (plc[m].request = ReadPartSheet /\ plc[m].response = RESPONSE_SUCCESS) =>
            \E x \in saved :
                /\ x.part = plc[m].general[PartIdNid]
                /\ \A id \in GeneralNids \ ExcludedNids : plc[m].general[id] = x.general[id]

\* As long as a machine sees its save acknowledged, and neither a later request of its nor
\* another machine has saved that part, the cache holds what it saved.
CacheHoldsLastSave ==
    \A m \in Machines :
        LET part == plc[m].general[PartIdNid]
        IN  (/\ plc[m].request = SavePartSheets
             /\ plc[m].response = RESPONSE_SUCCESS
             /\ \A x \in saved : x.part = part => x.machine = m /\ x.n <= plc[m].n)
            => get_general_part_sheet(part) = plc[m].general

\* It takes the blocking job of a lost session to put an older save over that one: until a
\* connection is lost, what a machine sees acknowledged is what the cache holds, if no other
\* machine has saved the part.
CacheHoldsOwnSave ==
    losses = 0 => \A m \in Machines :
        LET part == plc[m].general[PartIdNid]
        IN  (/\ plc[m].request = SavePartSheets
             /\ plc[m].response = RESPONSE_SUCCESS
             /\ \A x \in saved : x.part = part => x.machine = m)
            => SheetCached(part) /\ get_general_part_sheet(part) = plc[m].general

\* The server has yet to notify a code, the channel ends with it, or the handler holds it.
OnItsWay(m, code) ==
    \/ sampled[m] # code
    \/ rx[m] # <<>> /\ rx[m][Len(rx[m])].code = code
    \/ pc[m] \in {"initial", "respond"} \cup Operations /\ task[m].request = code

\* What a machine waits for, an answer or the reset of the response, is on its way in its live
\* session, whatever was lost, restarted or badly notified before: handler and machine never
\* wait for each other, unless a call has failed.
NothingForgotten ==
    faults = 0 => \A m \in Machines :
        (session[m] = "live" /\ (plc[m].request = Reset) # (plc[m].response = RESPONSE_RESET))
            => OnItsWay(m, plc[m].request)

\* The number of committed saves.
Commits == IF archive_seq = NoSeq THEN 0 ELSE archive_seq \div 2 + 1

\* Saves are not idempotent, and a request may be executed again: by the session that
\* follows a loss, a stop or a crash, or when its code is notified again after a bad value.
\* A loss and a bad value repeat one save at most, a stop or a crash one of each machine;
\* a call or a transaction that fails repeats none.
SavesBounded == Commits <= requests + losses + Cardinality(Machines) * restarts + flaps

-----------------------------------------------------------------------------
(* Liveness *)

\* Lost connections, restarts, crashes and bad values may delay an answer: each request
\* gets one, unless a call fails on a session that stays up.
RequestAnswered ==
    \A m \in Machines :
        plc[m].request # Reset ~> plc[m].response # RESPONSE_RESET \/ faults > 0

\* The handshake comes to its end: once the machine has reset its request, the
\* response code is reset and the machine can go on, unless a call fails as above.
ResponseReset ==
    \A m \in Machines :
        (plc[m].request = Reset /\ plc[m].response # RESPONSE_RESET)
            ~> plc[m].response = RESPONSE_RESET \/ faults > 0

\* A call that fails on a session that stays up may leave a machine waiting: the response is
\* written once, and an initial request is ignored when the response cannot be read.  The
\* machine does not wait longer than that session: the next one brings the handshake on.
ReconnectionResumes ==
    \A m \in Machines :
        /\ (plc[m].request # Reset /\ session[m] # "live" /\ faults = MaxFaults)
             ~> plc[m].response # RESPONSE_RESET
        /\ (/\ plc[m].request = Reset /\ plc[m].response # RESPONSE_RESET
            /\ session[m] # "live" /\ faults = MaxFaults)
             ~> plc[m].response = RESPONSE_RESET
=============================================================================
