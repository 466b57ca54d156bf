----------------------- MODULE TraceabilityHandlerProofs -----------------------
(***************************************************************************)
(* Proofs about TraceabilityHandler, for every set of machines, dates and    *)
(* values and every value of the bounds: types, the part identifiers and the  *)
(* number of saves.  TraceabilityProtocolProofs has the protocol.             *)
(***************************************************************************)
EXTENDS TraceabilityHandler, TraceabilityCacheProofs, FiniteSetTheorems, TLAPS

Plc == [request : Reset .. Unknown, response : ResponseCodes, n : Nat, answered : Nat,
        general : [GeneralNids -> Values], operation : [OperationNids -> Values]]

Notification == [code : {BadValue} \cup (Reset .. Unknown), n : Nat]

SavedSheets == [machine : Machines, n : Nat, part : PartIds,
                general : [GeneralNids -> Values], operation : [OperationNids -> Values]]

Labels == {"none", "idle", "initial", "respond"} \cup Operations

\* What a job needs to run, or a write: a date to count the serial for, a part to save, the
\* part that was asked for.
JobReady(kind, t) ==
    /\ kind = "create_job" => t.date \in Dates
    /\ kind = "save_job" => t.part \in PartIds /\ t.general[PartIdNid] = t.part
    /\ kind = "load_write" => t.general[PartIdNid] = t.part

SessionsInv ==
    /\ session \in [Machines -> {"none", "live", "dead"}]
    /\ sampled \in [Machines -> {NoCode, BadValue} \cup (Reset .. Unknown)]
    /\ rx \in [Machines -> Seq(Notification)]
    /\ is_initial \in [Machines -> BOOLEAN]

TasksInv ==
    /\ pc \in [Machines -> Labels]
    /\ task \in [Machines -> Task]
    /\ \A m \in Machines : JobReady(pc[m], task[m])

OrphansInv ==
    /\ orphans \subseteq [kind : {"create_job", "save_job"}, machine : Machines, task : Task]
    /\ \A job \in orphans : JobReady(job.kind, job.task)

\* Each cached part sheet is one that was saved.
StoreInv ==
    /\ CacheTypeOK
    /\ saved \subseteq SavedSheets
    /\ \A x \in saved : x.general[PartIdNid] = x.part
    /\ \A part \in DOMAIN general_part_sheet : \E x \in saved :
        /\ x.part = part
        /\ general_part_sheet[part] = encode_part_sheet_for_cache(x.general)

\* A machine shows an identifier, or none.
PlcInv ==
    /\ plc \in [Machines -> Plc]
    /\ \A m \in Machines : plc[m].general[PartIdNid] \in PartIds \cup {NoPart}

RestInv ==
    /\ shutdown \in BOOLEAN
    /\ today \in Dates
    /\ requests \in Nat
    /\ flaps \in Nat

TypeInv ==
    /\ SessionsInv
    /\ TasksInv
    /\ OrphansInv
    /\ StoreInv
    /\ PlcInv
    /\ RestInv

-----------------------------------------------------------------------------
(* Lemmas about what tasks and tables hold *)

\* The response codes of the outcomes, all of them different from that of a reset.
LEMMA ResponseCodeTypes ==
    /\ RESPONSE_RESET \in ResponseCodes /\ RESPONSE_SUCCESS \in ResponseCodes
    /\ RESPONSE_SUCCESS # RESPONSE_RESET
    /\ \A err \in DOMAIN to_response_code :
        /\ to_response_code[err] \in ResponseCodes
        /\ to_response_code[err] # RESPONSE_RESET
        /\ to_response_code[err] # RESPONSE_SUCCESS
  <1>1. \A err \in DOMAIN to_response_code : to_response_code[err] \in ResponseCodes
    BY DEF ResponseCodes
  <1>2. \A err \in DOMAIN to_response_code :
          to_response_code[err] # RESPONSE_RESET /\ to_response_code[err] # RESPONSE_SUCCESS
    BY DEF to_response_code, RESPONSE_RESET, RESPONSE_SUCCESS
  <1> QED
    BY <1>1, <1>2 DEF ResponseCodes, RESPONSE_RESET, RESPONSE_SUCCESS

\* The outcomes by name.
LEMMA Outcomes ==
    DOMAIN to_response_code =
      {"ValueError", "UnknownValue", "NotConfigured", "ReadVariables", "PartRefValue",
       "BatchValue", "NextSerial", "PartIdentifier", "WritePartId", "ReadPartId",
       "PartIdValueRead", "CacheGet", "CacheMissing", "WritePartSheet", "ReadPartSheets",
       "PartSheetValue", "PartIdValueSave", "CacheSave", "Enqueuing"}
  BY DEF to_response_code

\* A handler without a request.
LEMMA NoTaskType == NoTask \in Task
  <1>1. Blank \in [GeneralNids -> Values] /\ BlankOperation \in [OperationNids -> Values]
    BY HandlerAssumption DEF Blank, BlankOperation
  <1>2. NoCode \in Nat \cup {NoCode} /\ 0 \in Nat /\ NoPart \in PartIds \cup {NoPart}
    OBVIOUS
  <1> QED
    BY <1>1, <1>2, ResponseCodeTypes DEF NoTask, Task

\* A request that is answered leaves its number and its code.
LEMMA AnswerType ==
    ASSUME NEW t \in Task, NEW code \in ResponseCodes
    PROVE  [NoTask EXCEPT !.request = t.request, !.n = t.n, !.answer = code] \in Task
  <1>1. t.request \in Nat \cup {NoCode} /\ t.n \in Nat
    BY DEF Task
  <1> QED
    BY <1>1, NoTaskType DEF Task

\* The handler of one machine moves, the others stay where they are.
LEMMA GotoInv ==
    ASSUME TasksInv, NEW m \in Machines, NEW label \in Labels, NEW t \in Task,
           JobReady(label, t), Goto(m, label, t)
    PROVE  TasksInv'
  <1>1. pc' = [pc EXCEPT ![m] = label] /\ task' = [task EXCEPT ![m] = t]
    BY DEF Goto
  <1>2. pc' \in [Machines -> Labels] /\ task' \in [Machines -> Task]
    BY <1>1 DEF TasksInv
  <1>3. \A k \in Machines : JobReady(pc'[k], task'[k])
    <2>1. ASSUME NEW k \in Machines PROVE JobReady(pc'[k], task'[k])
      <3>1. CASE k = m
        BY <3>1, <1>1 DEF TasksInv
      <3>2. CASE k # m
        BY <3>2, <1>1 DEF TasksInv
      <3> QED
        BY <3>1, <3>2
    <2> QED
      BY <2>1
  <1> QED
    BY <1>2, <1>3 DEF TasksInv, JobReady

\* Answering a request, with success or an error.
LEMMA AnswerInv ==
    ASSUME TasksInv, NEW m \in Machines, NEW t \in Task, NEW code \in ResponseCodes,
           Answer(m, t, code)
    PROVE  TasksInv'
  <1>1. [NoTask EXCEPT !.request = t.request, !.n = t.n, !.answer = code] \in Task
    BY AnswerType
  <1>2. "respond" \in Labels
    BY DEF Labels
  <1> DEFINE a == [NoTask EXCEPT !.request = t.request, !.n = t.n, !.answer = code]
  <1>3. JobReady("respond", a) /\ Goto(m, "respond", a)
    BY DEF JobReady, Answer
  <1> HIDE DEF a
  <1>4. a \in Task
    BY <1>1 DEF a
  <1> QED
    BY <1>2, <1>3, <1>4, GotoInv

\* Answering a request with an error.
LEMMA FailInv ==
    ASSUME TasksInv, NEW m \in Machines, NEW err \in DOMAIN to_response_code, Fail(m, err)
    PROVE  TasksInv'
  <1>1. task[m] \in Task /\ to_response_code[err] \in ResponseCodes
    BY ResponseCodeTypes DEF TasksInv
  <1> QED
    BY <1>1, AnswerInv DEF Fail

\* A request that has been received, or found unanswered, is dispatched.
LEMMA HandleRequestInv ==
    ASSUME TasksInv, NEW m \in Machines, NEW t \in Task, handle_request(m, t)
    PROVE  TasksInv'
  <1>1. ASSUME NEW code \in ResponseCodes, Answer(m, t, code) PROVE TasksInv'
    BY <1>1, AnswerInv
  <1>2. ASSUME NEW err \in DOMAIN to_response_code, Answer(m, t, to_response_code[err])
        PROVE  TasksInv'
    BY <1>1, <1>2, ResponseCodeTypes
  <1>3. ASSUME NEW label \in {"create_read", "load_read", "save_read"}, Goto(m, label, t)
        PROVE  TasksInv'
    <2>1. label \in Labels /\ JobReady(label, t)
      BY <1>3 DEF Labels, Operations, JobReady
    <2> QED
      BY <1>3, <2>1, GotoInv
  <1>4. CASE Answer(m, t, to_response_code.ValueError)
    BY <1>4, <1>2, Outcomes
  <1>5. CASE Answer(m, t, to_response_code.UnknownValue)
    BY <1>5, <1>2, Outcomes
  <1>6. CASE Answer(m, t, RESPONSE_RESET)
    BY <1>6, <1>1, ResponseCodeTypes
  <1>7. CASE Answer(m, t, to_response_code.NotConfigured)
    BY <1>7, <1>2, Outcomes
  <1>8. CASE Answer(m, t, to_response_code.Enqueuing)
    BY <1>8, <1>2, Outcomes
  <1>9. CASE Goto(m, "create_read", t)
    BY <1>9, <1>3
  <1>10. CASE Goto(m, "load_read", t)
    BY <1>10, <1>3
  <1>11. CASE Goto(m, "save_read", t)
    BY <1>11, <1>3
  <1> QED
    BY <1>4, <1>5, <1>6, <1>7, <1>8, <1>9, <1>10, <1>11 DEF handle_request

\* A save that commits keeps the tables typed and the cache filled with what was saved.
LEMMA SavedInv ==
    ASSUME StoreInv, NEW m \in Machines, NEW n \in Nat, NEW p \in PartIds,
           NEW general \in [GeneralNids -> Values], NEW operation \in [OperationNids -> Values],
           save_part_sheets(n, m, p, general, operation), general[PartIdNid] = p,
           saved' = saved \cup {[machine |-> m, n |-> n, part |-> p,
                                 general |-> general, operation |-> operation]}
    PROVE  StoreInv'
  <1> DEFINE x == [machine |-> m, n |-> n, part |-> p,
                   general |-> general, operation |-> operation]
  <1>5. /\ CacheTypeOK'
        /\ general_part_sheet' =
             Insert(general_part_sheet, p, encode_part_sheet_for_cache(general))
    <2>1. CacheTypeOK
      BY DEF StoreInv
    <2>2. GeneralNids \subseteq Nids /\ OperationNids \subseteq Nids
      BY HandlerAssumption
    <2>3. /\ DOMAIN general \subseteq Nids /\ general \in [DOMAIN general -> Values]
          /\ DOMAIN operation \subseteq Nids /\ operation \in [DOMAIN operation -> Values]
      BY <2>2
    <2> QED
      BY <2>1, <2>3, SaveEffect
  <1>6. x \in SavedSheets
    BY DEF SavedSheets
  <1>7. x.part = p /\ x.general = general /\ saved' = saved \cup {x}
    OBVIOUS
  <1> HIDE DEF x
  <1>8. ASSUME NEW part \in DOMAIN general_part_sheet'
        PROVE  \E y \in saved' : /\ y.part = part
                                 /\ general_part_sheet'[part] = encode_part_sheet_for_cache(y.general)
    <2>1. CASE part = p
      <3>1. general_part_sheet'[part] = encode_part_sheet_for_cache(x.general)
        BY <2>1, <1>5, <1>7 DEF Insert
      <3> QED
        BY <3>1, <2>1, <1>7
    <2>2. CASE part # p
      <3>1. /\ part \in DOMAIN general_part_sheet
            /\ general_part_sheet'[part] = general_part_sheet[part]
        BY <2>2, <1>5 DEF Insert
      <3> QED
        BY <3>1, <1>7 DEF StoreInv
    <2> QED
      BY <2>1, <2>2
  <1> QED
    BY <1>5, <1>6, <1>7, <1>8 DEF StoreInv

\* The blocking job of a save.
LEMMA CommitInv ==
    ASSUME StoreInv, NEW m \in Machines, NEW t \in Task, JobReady("save_job", t), Commit(m, t)
    PROVE  StoreInv'
  <1>1. /\ t.n \in Nat /\ t.general \in [GeneralNids -> Values]
        /\ t.operation \in [OperationNids -> Values]
        /\ t.part \in PartIds /\ t.general[PartIdNid] = t.part
    BY DEF Task, JobReady
  <1>2. /\ save_part_sheets(t.n, m, t.part, t.general, t.operation)
        /\ saved' = saved \cup {[machine |-> m, n |-> t.n, part |-> t.part,
                                 general |-> t.general, operation |-> t.operation]}
    BY DEF Commit
  <1> QED
    BY <1>1, <1>2, SavedInv

\* A serial number that is spent leaves the rest of the tables alone.
LEMMA SerialInv ==
    ASSUME StoreInv, NEW date \in Dates, next_serial(date), UNCHANGED saved
    PROVE  StoreInv'
  <1>1. CacheTypeOK' /\ UNCHANGED <<general_part_sheet, archive_seq, queues>>
    BY NextSerialEffect DEF StoreInv
  <1> QED
    BY <1>1 DEF StoreInv

\* What a read takes from the cache is a part sheet that was saved for that part.
LEMMA CachedSheetSaved ==
    ASSUME StoreInv, NEW part, SheetCached(part)
    PROVE  \E x \in saved : x.part = part /\ get_general_part_sheet(part) = x.general
  <1>1. PICK x \in saved : /\ x.part = part
                           /\ general_part_sheet[part] = encode_part_sheet_for_cache(x.general)
    BY DEF StoreInv, SheetCached
  <1>2. x.general \in [GeneralNids -> Values]
    BY <1>1 DEF StoreInv, SavedSheets
  <1>3. decode_cached_part_sheet(encode_part_sheet_for_cache(x.general)) = x.general
    BY <1>2, CacheRoundTrip
  <1> QED
    BY <1>1, <1>3 DEF get_general_part_sheet

-----------------------------------------------------------------------------
(* Types *)

\* What a step of a handler leaves alone, whichever it is.
LEMMA HandlerFrame ==
    ASSUME TypeInv, handlerFrame, UNCHANGED <<requests, flaps>>
    PROVE  SessionsInv' /\ OrphansInv' /\ RestInv'
  BY DEF TypeInv, handlerFrame, sessionVars, SessionsInv, OrphansInv, RestInv

\* A call or a transaction, whatever its outcome, uses up a failure at most.
LEMMA CallCounts ==
    ASSUME NEW m \in Machines, CallOk(m) \/ CallErr(m) \/ Fault \/ UNCHANGED countVars
    PROVE  UNCHANGED <<requests, flaps>>
  BY DEF CallOk, CallErr, Fault, countVars

\* The tables as they are, and their histories.
LEMMA StoreFrame ==
    ASSUME TypeInv, UNCHANGED <<redbVars, saved>>
    PROVE  StoreInv'
  BY DEF TypeInv, StoreInv, CacheTypeOK, redbVars

\* Dispatching a request uses up a failure at most.
LEMMA HandleRequestCounts ==
    ASSUME NEW m \in Machines, NEW t, handle_request(m, t)
    PROVE  UNCHANGED <<requests, flaps>>
  BY DEF handle_request, Fault, countVars

\* The notification a handler receives is a request it may hold.
LEMMA ReceiveType ==
    ASSUME TypeInv, NEW m \in Machines, rx[m] # <<>>
    PROVE  /\ [NoTask EXCEPT !.request = Head(rx[m]).code, !.n = Head(rx[m]).n] \in Task
           /\ Tail(rx[m]) \in Seq(Notification)
  <1>1. rx[m] \in Seq(Notification)
    BY DEF TypeInv, SessionsInv
  <1>2. Head(rx[m]) \in Notification /\ Tail(rx[m]) \in Seq(Notification)
    BY <1>1
  <1>3. Head(rx[m]).code \in Nat \cup {NoCode} /\ Head(rx[m]).n \in Nat
    BY <1>2 DEF Notification, BadValue, Reset, Unknown
  <1> QED
    BY <1>2, <1>3, NoTaskType DEF Task

\* The notification of a request.
LEMMA ReceiveTypes ==
    ASSUME TypeInv, NEW m \in Machines, Receive(m)
    PROVE  TypeInv'
  <1> DEFINE t == [NoTask EXCEPT !.request = Head(rx[m]).code, !.n = Head(rx[m]).n]
  <1>1. t \in Task /\ Tail(rx[m]) \in Seq(Notification)
    BY ReceiveType DEF Receive
  <1>2. \/ Goto(m, "initial", t) /\ UNCHANGED countVars
        \/ handle_request(m, t)
    BY DEF Receive
  <1>3. /\ rx' = [rx EXCEPT ![m] = Tail(rx[m])]
        /\ is_initial' = [is_initial EXCEPT ![m] = FALSE]
        /\ UNCHANGED <<redbVars, plc, session, sampled, orphans, shutdown, today, historyVars>>
    BY DEF Receive
  <1> HIDE DEF t
  <1>4. TasksInv'
    <2>1. "initial" \in Labels /\ JobReady("initial", t)
      BY DEF Labels, JobReady
    <2> QED
      BY <1>1, <1>2, <2>1, GotoInv, HandleRequestInv DEF TypeInv
  <1>5. UNCHANGED <<requests, flaps>>
    BY <1>2, HandleRequestCounts DEF countVars
  <1>6. SessionsInv'
    BY <1>1, <1>3 DEF TypeInv, SessionsInv
  <1>7. OrphansInv' /\ PlcInv' /\ RestInv'
    BY <1>3, <1>5 DEF TypeInv, OrphansInv, PlcInv, RestInv
  <1>8. StoreInv'
    BY <1>3, StoreFrame DEF historyVars
  <1> QED
    BY <1>4, <1>6, <1>7, <1>8 DEF TypeInv

\* The first request of a session.
LEMMA InitialTypes ==
    ASSUME TypeInv, NEW m \in Machines, is_initial_request_answered(m)
    PROVE  TypeInv'
  <1>1. /\ handlerFrame /\ UNCHANGED <<redbVars, plc, historyVars>>
        /\ \/ handle_request(m, task[m])
           \/ (CallOk(m) \/ CallErr(m)) /\ Goto(m, "idle", NoTask)
    BY DEF is_initial_request_answered
  <1>2. task[m] \in Task
    BY DEF TypeInv, TasksInv
  <1>3. TasksInv'
    <2>1. "idle" \in Labels /\ JobReady("idle", NoTask)
      BY DEF Labels, JobReady
    <2> QED
      BY <1>1, <1>2, <2>1, NoTaskType, GotoInv, HandleRequestInv DEF TypeInv
  <1>4. UNCHANGED <<requests, flaps>>
    BY <1>1, HandleRequestCounts, CallCounts
  <1>5. StoreInv' /\ PlcInv'
    BY <1>1, StoreFrame DEF historyVars, TypeInv, PlcInv
  <1> QED
    BY <1>1, <1>3, <1>4, <1>5, HandlerFrame DEF TypeInv

\* Request 1: the variables are read.
LEMMA CreateReadTypes ==
    ASSUME TypeInv, NEW m \in Machines, CreateRead(m)
    PROVE  TypeInv'
  <1>1. /\ handlerFrame /\ UNCHANGED <<redbVars, plc, historyVars>>
        /\ CallOk(m) \/ CallErr(m)
        /\ \/ Goto(m, "create_job", [task[m] EXCEPT !.date = today])
           \/ \E err \in {"ReadVariables", "PartRefValue", "BatchValue"} : Fail(m, err)
    BY DEF CreateRead
  <1> DEFINE t == [task[m] EXCEPT !.date = today]
  <1>2. t \in Task /\ t.date \in Dates
    <2>1. task[m] \in Task /\ today \in Dates /\ today \in Nat
      BY HandlerAssumption DEF TypeInv, TasksInv, RestInv
    <2> QED
      BY <2>1 DEF Task
  <1> HIDE DEF t
  <1>3. "create_job" \in Labels /\ JobReady("create_job", t)
    BY <1>2 DEF Labels, Operations, JobReady
  <1>4. TasksInv'
    <2>1. CASE Goto(m, "create_job", t)
      BY <2>1, <1>2, <1>3, GotoInv DEF TypeInv
    <2>2. CASE \E err \in {"ReadVariables", "PartRefValue", "BatchValue"} : Fail(m, err)
      BY <2>2, FailInv, Outcomes DEF TypeInv
    <2> QED
      BY <1>1, <2>1, <2>2 DEF t
  <1>5. StoreInv' /\ PlcInv'
    BY <1>1, StoreFrame DEF historyVars, TypeInv, PlcInv
  <1> QED
    BY <1>1, <1>4, <1>5, CallCounts, HandlerFrame DEF TypeInv

\* Request 1: a serial number is spent.
LEMMA CreateJobTypes ==
    ASSUME TypeInv, NEW m \in Machines, CreateJob(m)
    PROVE  TypeInv'
  <1>1. /\ pc[m] = "create_job" /\ handlerFrame /\ UNCHANGED <<plc, historyVars>>
        /\ Fault \/ UNCHANGED countVars
    BY DEF CreateJob
  <1>2. task[m] \in Task /\ task[m].date \in Dates
    BY <1>1 DEF TypeInv, TasksInv, JobReady
  <1>3. CASE next_serial(task[m].date)
             /\ LET serial == daily_serial'[task[m].date]
                IN  \/ /\ serial <= MaxSerial
                       /\ Goto(m, "create_write", [task[m] EXCEPT !.part = <<task[m].date, serial>>])
                    \/ Fail(m, "PartIdentifier")
    <2> DEFINE serial == daily_serial'[task[m].date]
               t == [task[m] EXCEPT !.part = <<task[m].date, serial>>]
    <2>1. StoreInv'
      BY <1>1, <1>2, <1>3, SerialInv DEF TypeInv, historyVars
    <2>2. serial \in Nat \ {0}
      <3>1. serial = daily_serial[task[m].date] + 1
        BY <1>2, <1>3, NextSerialEffect DEF TypeInv, StoreInv
      <3>2. daily_serial[task[m].date] \in Nat
        BY <1>2 DEF TypeInv, StoreInv, CacheTypeOK
      <3> HIDE DEF serial
      <3> QED
        BY <3>1, <3>2
    <2>3. TasksInv'
      <3>1. CASE serial <= MaxSerial /\ Goto(m, "create_write", t)
        <4>1. <<task[m].date, serial>> \in PartIds
          <5>1. serial \in 1 .. MaxSerial
            BY <2>2, <3>1, HandlerAssumption
          <5> QED
            BY <5>1, <1>2, HandlerAssumption
        <4>2. t \in Task
          BY <4>1, <1>2 DEF Task
        <4>3. "create_write" \in Labels /\ JobReady("create_write", t)
          BY DEF Labels, Operations, JobReady
        <4> HIDE DEF t
        <4> QED
          BY <3>1, <4>2, <4>3, GotoInv DEF TypeInv
      <3>2. CASE Fail(m, "PartIdentifier")
        BY <3>2, FailInv, Outcomes DEF TypeInv
      <3> QED
        BY <1>3, <3>1, <3>2
    <2> QED
      BY <1>1, <2>1, <2>3, CallCounts, HandlerFrame DEF TypeInv, PlcInv
  <1>4. CASE Fail(m, "NextSerial") /\ (next_serial(task[m].date) \/ UNCHANGED redbVars)
    <2>1. TasksInv'
      BY <1>4, FailInv, Outcomes DEF TypeInv
    <2>2. StoreInv'
      <3>1. CASE next_serial(task[m].date)
        BY <1>1, <1>2, <3>1, SerialInv DEF TypeInv, historyVars
      <3>2. CASE UNCHANGED redbVars
        BY <1>1, <3>2, StoreFrame DEF TypeInv, historyVars
      <3> QED
        BY <1>4, <3>1, <3>2
    <2> QED
      BY <1>1, <2>1, <2>2, CallCounts, HandlerFrame DEF TypeInv, PlcInv
  <1> QED
    BY <1>3, <1>4 DEF CreateJob

\* The variables of one machine change.
LEMMA PlcStep ==
    ASSUME PlcInv, NEW m \in Machines, NEW v \in Plc, plc' = [plc EXCEPT ![m] = v],
           v.general[PartIdNid] \in PartIds \cup {NoPart}
    PROVE  PlcInv'
  BY DEF PlcInv

\* A part identifier is written to a machine.
LEMMA WritePartType ==
    ASSUME TypeInv, NEW m \in Machines, WritePart(m)
    PROVE  PlcInv'
  <1> DEFINE general == [plc[m].general EXCEPT ![PartIdNid] = task[m].part]
             v == [plc[m] EXCEPT !.general = general]
  <1>1. plc[m] \in Plc /\ task[m].part \in Values /\ task[m].part \in PartIds \cup {NoPart}
    <2>1. task[m] \in Task
      BY DEF TypeInv, TasksInv
    <2> QED
      BY <2>1, HandlerAssumption DEF TypeInv, PlcInv, Task
  <1>2. general \in [GeneralNids -> Values] /\ general[PartIdNid] \in PartIds \cup {NoPart}
    BY <1>1, HandlerAssumption DEF Plc
  <1>3. plc' = [plc EXCEPT ![m] = v]
    BY <1>1 DEF WritePart, Plc
  <1> HIDE DEF general
  <1>4. v \in Plc /\ v.general = general
    BY <1>1, <1>2 DEF Plc
  <1> HIDE DEF v
  <1> QED
    BY <1>2, <1>3, <1>4, PlcStep DEF TypeInv

\* Request 1: the part identifier is written.
LEMMA CreateWriteTypes ==
    ASSUME TypeInv, NEW m \in Machines, CreateWrite(m)
    PROVE  TypeInv'
  <1>1. /\ handlerFrame /\ UNCHANGED <<redbVars, saved>>
        /\ CallOk(m) \/ CallErr(m)
        /\ WritePart(m) \/ UNCHANGED plc
        /\ Answer(m, task[m], RESPONSE_SUCCESS) \/ Fail(m, "WritePartId")
    BY DEF CreateWrite
  <1>2. task[m] \in Task
    BY DEF TypeInv, TasksInv
  <1>3. TasksInv'
    BY <1>1, <1>2, AnswerInv, FailInv, Outcomes, ResponseCodeTypes DEF TypeInv
  <1>4. StoreInv'
    BY <1>1, StoreFrame
  <1>5. PlcInv'
    BY <1>1, WritePartType DEF TypeInv, PlcInv
  <1> QED
    BY <1>1, <1>3, <1>4, <1>5, CallCounts, HandlerFrame DEF TypeInv

\* Request 2: the part identifier is read.
LEMMA LoadReadTypes ==
    ASSUME TypeInv, NEW m \in Machines, LoadRead(m)
    PROVE  TypeInv'
  <1> DEFINE t == [task[m] EXCEPT !.part = plc[m].general[PartIdNid]]
  <1>1. /\ handlerFrame /\ UNCHANGED <<redbVars, plc, historyVars>>
        /\ CallOk(m) \/ CallErr(m)
        /\ \/ Goto(m, "load_job", t)
           \/ \E err \in {"ReadPartId", "PartIdValueRead"} : Fail(m, err)
    BY DEF LoadRead
  <1>2. t \in Task
    <2>1. task[m] \in Task
      BY DEF TypeInv, TasksInv
    <2>2. plc[m].general[PartIdNid] \in PartIds \cup {NoPart}
      BY DEF TypeInv, PlcInv
    <2> QED
      BY <2>1, <2>2 DEF Task
  <1> HIDE DEF t
  <1>3. "load_job" \in Labels /\ JobReady("load_job", t)
    BY DEF Labels, Operations, JobReady
  <1>4. TasksInv'
    <2>1. CASE Goto(m, "load_job", t)
      BY <2>1, <1>2, <1>3, GotoInv DEF TypeInv
    <2>2. CASE \E err \in {"ReadPartId", "PartIdValueRead"} : Fail(m, err)
      BY <2>2, FailInv, Outcomes DEF TypeInv
    <2> QED
      BY <1>1, <2>1, <2>2
  <1>5. StoreInv' /\ PlcInv'
    BY <1>1, StoreFrame DEF historyVars, TypeInv, PlcInv
  <1> QED
    BY <1>1, <1>4, <1>5, CallCounts, HandlerFrame DEF TypeInv

\* Request 2: the cached part sheet.
LEMMA LoadJobTypes ==
    ASSUME TypeInv, NEW m \in Machines, LoadJob(m)
    PROVE  TypeInv'
  <1> DEFINE t == [task[m] EXCEPT !.general = get_general_part_sheet(task[m].part)]
  <1>1. /\ handlerFrame /\ UNCHANGED <<redbVars, plc, historyVars>>
        /\ Fault \/ UNCHANGED countVars
        /\ \/ SheetCached(task[m].part) /\ Goto(m, "load_write", t)
           \/ Fail(m, "CacheGet")
           \/ Fail(m, "CacheMissing")
    BY DEF LoadJob
  <1>2. task[m] \in Task
    BY DEF TypeInv, TasksInv
  <1>3. SheetCached(task[m].part) => t \in Task /\ t.general[PartIdNid] = t.part
    <2>1. SUFFICES ASSUME SheetCached(task[m].part)
                   PROVE  t \in Task /\ t.general[PartIdNid] = t.part
      OBVIOUS
    <2>2. PICK x \in saved : /\ x.part = task[m].part
                             /\ get_general_part_sheet(task[m].part) = x.general
      BY <2>1, CachedSheetSaved DEF TypeInv
    <2>3. x \in SavedSheets /\ x.general[PartIdNid] = x.part
      BY DEF TypeInv, StoreInv
    <2>4. x.general \in [GeneralNids -> Values]
      BY <2>3 DEF SavedSheets
    <2> QED
      BY <1>2, <2>2, <2>3, <2>4 DEF Task
  <1> HIDE DEF t
  <1>4. "load_write" \in Labels /\ (t.general[PartIdNid] = t.part => JobReady("load_write", t))
    BY DEF Labels, Operations, JobReady
  <1>5. TasksInv'
    <2>1. CASE SheetCached(task[m].part) /\ Goto(m, "load_write", t)
      BY <2>1, <1>3, <1>4, GotoInv DEF TypeInv
    <2>2. CASE Fail(m, "CacheGet") \/ Fail(m, "CacheMissing")
      BY <2>2, FailInv, Outcomes DEF TypeInv
    <2> QED
      BY <1>1, <2>1, <2>2
  <1>6. StoreInv' /\ PlcInv'
    BY <1>1, StoreFrame DEF historyVars, TypeInv, PlcInv
  <1> QED
    BY <1>1, <1>5, <1>6, CallCounts, HandlerFrame DEF TypeInv

\* A part sheet, or some of its values, is written to a machine.
LEMMA WriteSheetType ==
    ASSUME TypeInv, NEW m \in Machines, pc[m] = "load_write", NEW ids, WriteSheet(m, ids)
    PROVE  PlcInv'
  <1> DEFINE general == [id \in GeneralNids |-> IF id \in ids THEN task[m].general[id]
                                                ELSE plc[m].general[id]]
             v == [plc[m] EXCEPT !.general = general]
  <1>1. /\ plc[m] \in Plc /\ task[m].general \in [GeneralNids -> Values]
        /\ task[m].general[PartIdNid] \in PartIds \cup {NoPart}
        /\ plc[m].general[PartIdNid] \in PartIds \cup {NoPart}
    <2>1. task[m] \in Task /\ task[m].general[PartIdNid] = task[m].part
      BY DEF TypeInv, TasksInv, JobReady
    <2> QED
      BY <2>1 DEF TypeInv, PlcInv, Task
  <1>2. general \in [GeneralNids -> Values] /\ general[PartIdNid] \in PartIds \cup {NoPart}
    BY <1>1, HandlerAssumption DEF Plc
  <1>3. plc' = [plc EXCEPT ![m] = v]
    BY <1>1 DEF WriteSheet, Plc
  <1> HIDE DEF general
  <1>4. v \in Plc /\ v.general = general
    BY <1>1, <1>2 DEF Plc
  <1> HIDE DEF v
  <1> QED
    BY <1>2, <1>3, <1>4, PlcStep DEF TypeInv

\* Request 2: the part sheet is written.
LEMMA LoadWriteTypes ==
    ASSUME TypeInv, NEW m \in Machines, LoadWrite(m)
    PROVE  TypeInv'
  <1>1. /\ pc[m] = "load_write" /\ handlerFrame /\ UNCHANGED <<redbVars, historyVars>>
        /\ CallOk(m) \/ CallErr(m)
        /\ (\E ids : WriteSheet(m, ids)) \/ UNCHANGED plc
        /\ Answer(m, task[m], RESPONSE_SUCCESS) \/ Fail(m, "WritePartSheet")
    BY DEF LoadWrite
  <1>2. task[m] \in Task
    BY DEF TypeInv, TasksInv
  <1>3. TasksInv'
    BY <1>1, <1>2, AnswerInv, FailInv, Outcomes, ResponseCodeTypes DEF TypeInv
  <1>4. StoreInv'
    BY <1>1, StoreFrame DEF historyVars
  <1>5. PlcInv'
    BY <1>1, WriteSheetType DEF TypeInv, PlcInv
  <1> QED
    BY <1>1, <1>3, <1>4, <1>5, CallCounts, HandlerFrame DEF TypeInv

\* Request 3: both part sheets are read.
LEMMA SaveReadTypes ==
    ASSUME TypeInv, NEW m \in Machines, SaveRead(m)
    PROVE  TypeInv'
  <1> DEFINE part == plc[m].general[PartIdNid]
             t == [task[m] EXCEPT !.part = part, !.general = plc[m].general,
                                  !.operation = plc[m].operation]
  <1>1. /\ handlerFrame /\ UNCHANGED <<redbVars, plc, historyVars>>
        /\ CallOk(m) \/ CallErr(m)
        /\ \/ part \in PartIds /\ Goto(m, "save_job", t)
           \/ \E err \in {"PartIdValueSave", "ReadPartSheets", "PartSheetValue"} : Fail(m, err)
    BY DEF SaveRead
  <1>2. part \in PartIds => t \in Task /\ t.part \in PartIds /\ t.general[PartIdNid] = t.part
    <2>1. task[m] \in Task /\ plc[m] \in Plc
      BY DEF TypeInv, TasksInv, PlcInv
    <2> QED
      BY <2>1 DEF Task, Plc
  <1> HIDE DEF t, part
  <1>3. /\ "save_job" \in Labels
        /\ (t.part \in PartIds /\ t.general[PartIdNid] = t.part) => JobReady("save_job", t)
    BY DEF Labels, Operations, JobReady
  <1>4. TasksInv'
    <2>1. CASE part \in PartIds /\ Goto(m, "save_job", t)
      BY <2>1, <1>2, <1>3, GotoInv DEF TypeInv
    <2>2. CASE \E err \in {"PartIdValueSave", "ReadPartSheets", "PartSheetValue"} : Fail(m, err)
      BY <2>2, FailInv, Outcomes DEF TypeInv
    <2> QED
      BY <1>1, <2>1, <2>2
  <1>5. StoreInv' /\ PlcInv'
    BY <1>1, StoreFrame DEF historyVars, TypeInv, PlcInv
  <1> QED
    BY <1>1, <1>4, <1>5, CallCounts, HandlerFrame DEF TypeInv

\* Request 3: the transaction.
LEMMA SaveJobTypes ==
    ASSUME TypeInv, NEW m \in Machines, SaveJob(m)
    PROVE  TypeInv'
  <1>1. /\ pc[m] = "save_job" /\ handlerFrame /\ UNCHANGED plc
        /\ Fault \/ UNCHANGED countVars
        /\ Commit(m, task[m]) \/ UNCHANGED <<redbVars, saved>>
        /\ Answer(m, task[m], RESPONSE_SUCCESS) \/ Fail(m, "CacheSave")
    BY DEF SaveJob
  <1>2. task[m] \in Task /\ JobReady("save_job", task[m])
    BY <1>1 DEF TypeInv, TasksInv
  <1>3. TasksInv'
    BY <1>1, <1>2, AnswerInv, FailInv, Outcomes, ResponseCodeTypes DEF TypeInv
  <1>4. StoreInv'
    BY <1>1, <1>2, CommitInv, StoreFrame DEF TypeInv
  <1> QED
    BY <1>1, <1>3, <1>4, CallCounts, HandlerFrame DEF TypeInv, PlcInv

\* The response code is written, or not.
LEMMA RespondTypes ==
    ASSUME TypeInv, NEW m \in Machines, Respond(m)
    PROVE  TypeInv'
  <1>1. /\ handlerFrame /\ UNCHANGED <<redbVars, historyVars>>
        /\ CallOk(m) \/ CallErr(m)
        /\ WriteResponse(m) \/ UNCHANGED plc
        /\ Goto(m, "idle", NoTask)
    BY DEF Respond
  <1>2. TasksInv'
    <2>1. "idle" \in Labels /\ JobReady("idle", NoTask)
      BY DEF Labels, JobReady
    <2> QED
      BY <1>1, <2>1, NoTaskType, GotoInv DEF TypeInv
  <1>3. PlcInv'
    <2> DEFINE v == [plc[m] EXCEPT !.response = task[m].answer, !.answered = task[m].n]
    <2>1. plc[m] \in Plc /\ task[m].answer \in ResponseCodes /\ task[m].n \in Nat
      BY DEF TypeInv, PlcInv, TasksInv, Task
    <2>2. v \in Plc /\ v.general[PartIdNid] \in PartIds \cup {NoPart}
      BY <2>1 DEF Plc, TypeInv, PlcInv
    <2>3. WriteResponse(m) => plc' = [plc EXCEPT ![m] = v]
      BY DEF WriteResponse, TypeInv, PlcInv
    <2> HIDE DEF v
    <2> QED
      BY <1>1, <2>2, <2>3, PlcStep DEF TypeInv, PlcInv
  <1>4. StoreInv'
    BY <1>1, StoreFrame DEF historyVars
  <1> QED
    BY <1>1, <1>2, <1>3, <1>4, CallCounts, HandlerFrame DEF TypeInv

\* The session of a machine ends, with its handler.
LEMMA HandlerEndsInv ==
    ASSUME TypeInv, NEW m \in Machines, HandlerEnds(m)
    PROVE  SessionsInv' /\ TasksInv'
  <1>1. /\ session' = [session EXCEPT ![m] = "none"]
        /\ UNCHANGED <<sampled, rx, is_initial>>
        /\ Goto(m, "none", NoTask)
    BY DEF HandlerEnds, Goto
  <1>2. SessionsInv'
    BY <1>1 DEF TypeInv, SessionsInv
  <1>3. "none" \in Labels /\ JobReady("none", NoTask)
    BY DEF Labels, JobReady
  <1> QED
    BY <1>1, <1>2, <1>3, NoTaskType, GotoInv DEF TypeInv

\* The machines set requests, with their sheets.
LEMMA SetRequestTypes ==
    ASSUME TypeInv, NEW m \in Machines, SetRequest(m)
    PROVE  TypeInv'
  <1>1. PICK code \in Codes, part \in PartValues, value \in Values \ (PartIds \cup {NoPart}) :
          LET sheets == MachineSheets(m, code, part, value)
          IN  plc' = [plc EXCEPT ![m] = [@ EXCEPT !.request = code, !.n = plc[m].n + 1,
                                                  !.general = sheets.general,
                                                  !.operation = sheets.operation]]
    BY DEF SetRequest
  <1> DEFINE sheets == MachineSheets(m, code, part, value)
             v == [plc[m] EXCEPT !.request = code, !.n = plc[m].n + 1,
                                 !.general = sheets.general, !.operation = sheets.operation]
  <1>2. plc[m] \in Plc /\ requests \in Nat /\ requests' = requests + 1
    BY DEF TypeInv, PlcInv, RestInv, SetRequest
  <1>3. code \in Reset .. Unknown
    BY HandlerAssumption DEF Reset, Unknown
  <1>4. /\ sheets.general \in [GeneralNids -> Values]
        /\ sheets.operation \in [OperationNids -> Values]
        /\ sheets.general[PartIdNid] \in PartIds \cup {NoPart}
    <2> DEFINE general == [id \in GeneralNids |-> IF id = PartIdNid THEN part ELSE value]
    <2>1. part \in Values /\ part \in PartIds \cup {NoPart}
      BY HandlerAssumption
    <2>2. /\ general \in [GeneralNids -> Values]
          /\ general[PartIdNid] \in PartIds \cup {NoPart}
          /\ [id \in OperationNids |-> value] \in [OperationNids -> Values]
      BY <2>1, HandlerAssumption
    <2>3. /\ plc[m].general \in [GeneralNids -> Values]
          /\ plc[m].operation \in [OperationNids -> Values]
          /\ plc[m].general[PartIdNid] \in PartIds \cup {NoPart}
      BY <1>2 DEF Plc, TypeInv, PlcInv
    <2>4. \/ sheets = [general |-> general, operation |-> [id \in OperationNids |-> value]]
          \/ sheets = [general |-> plc[m].general, operation |-> plc[m].operation]
      BY DEF MachineSheets
    <2> HIDE DEF general, sheets
    <2> QED
      BY <2>2, <2>3, <2>4
  <1> HIDE DEF sheets
  <1>5. v \in Plc /\ v.general = sheets.general
    <2> DEFINE first == [plc[m] EXCEPT !.request = code, !.n = plc[m].n + 1]
               second == [first EXCEPT !.general = sheets.general,
                                       !.operation = sheets.operation]
    <2>1. first \in Plc
      <3> DEFINE number == plc[m].n + 1
      <3>1. number \in Nat
        BY <1>2 DEF Plc
      <3> HIDE DEF number
      <3>2. \A r \in Plc : [r EXCEPT !.request = code, !.n = number] \in Plc
        BY <3>1, <1>3 DEF Plc
      <3>3. [plc[m] EXCEPT !.request = code, !.n = number] \in Plc
        BY <3>2, <1>2
      <3> QED
        BY <3>3 DEF number
    <2>2. v = second
      OBVIOUS
    <2> HIDE DEF first, v
    <2> DEFINE third == [first EXCEPT !.general = sheets.general]
    <2>3. third \in Plc /\ third.general = sheets.general
      BY <2>1, <1>4 DEF Plc
    <2>4. second = [third EXCEPT !.operation = sheets.operation]
      OBVIOUS
    <2> HIDE DEF third, second
    <2>5. second \in Plc /\ second.general = sheets.general
      BY <2>3, <2>4, <1>4 DEF Plc
    <2> QED
      BY <2>2, <2>5
  <1>6. plc' = [plc EXCEPT ![m] = v]
    BY <1>1 DEF TypeInv, PlcInv, sheets
  <1> HIDE DEF v
  <1>7. PlcInv'
    BY <1>4, <1>5, <1>6, PlcStep DEF TypeInv
  <1>8. /\ UNCHANGED <<redbVars, sessionVars, pc, task, orphans, shutdown, today, historyVars,
                       flaps>>
    BY DEF SetRequest
  <1>9. SessionsInv' /\ TasksInv' /\ OrphansInv' /\ RestInv'
    BY <1>2, <1>8 DEF TypeInv, sessionVars, SessionsInv, TasksInv, OrphansInv, RestInv
  <1>10. StoreInv'
    BY <1>8, StoreFrame DEF historyVars
  <1> QED
    BY <1>7, <1>9, <1>10 DEF TypeInv

\* The machines reset the requests that are answered.
LEMMA ResetRequestTypes ==
    ASSUME TypeInv, NEW m \in Machines, ResetRequest(m)
    PROVE  TypeInv'
  <1> DEFINE v == [plc[m] EXCEPT !.request = Reset]
  <1>1. plc[m] \in Plc
    BY DEF TypeInv, PlcInv
  <1>2. v \in Plc /\ v.general = plc[m].general
    BY <1>1 DEF Plc, Reset, Unknown
  <1>3. plc' = [plc EXCEPT ![m] = v]
    BY DEF ResetRequest, TypeInv, PlcInv
  <1> HIDE DEF v
  <1>4. PlcInv'
    BY <1>2, <1>3, PlcStep DEF TypeInv, PlcInv
  <1>5. UNCHANGED <<redbVars, sessionVars, pc, task, orphans, shutdown, today, historyVars,
                    countVars>>
    BY DEF ResetRequest
  <1>6. SessionsInv' /\ TasksInv' /\ OrphansInv' /\ RestInv'
    BY <1>5 DEF TypeInv, sessionVars, countVars, SessionsInv, TasksInv, OrphansInv, RestInv
  <1>7. StoreInv'
    BY <1>5, StoreFrame DEF historyVars
  <1> QED
    BY <1>4, <1>6, <1>7 DEF TypeInv

\* A session starts: its handler waits for notifications.
LEMMA InstallTypes ==
    ASSUME TypeInv, NEW m \in Machines, install(m)
    PROVE  TypeInv'
  <1>1. /\ UNCHANGED <<redbVars, plc, task, orphans, shutdown, today, historyVars, countVars>>
        /\ session' = [session EXCEPT ![m] = "live"]
        /\ sampled' = [sampled EXCEPT ![m] = NoCode]
        /\ rx' = [rx EXCEPT ![m] = <<>>]
        /\ is_initial' = [is_initial EXCEPT ![m] = TRUE]
        /\ pc' = [pc EXCEPT ![m] = "idle"]
    BY DEF install
  <1>2. SessionsInv'
    BY <1>1 DEF TypeInv, SessionsInv
  <1>3. TasksInv'
    <2>1. Goto(m, "idle", task[m])
      BY <1>1 DEF Goto, TypeInv, TasksInv
    <2>2. task[m] \in Task /\ "idle" \in Labels /\ JobReady("idle", task[m])
      BY DEF TypeInv, TasksInv, Labels, JobReady
    <2> QED
      BY <2>1, <2>2, GotoInv DEF TypeInv
  <1>4. OrphansInv' /\ PlcInv' /\ RestInv'
    BY <1>1 DEF TypeInv, OrphansInv, PlcInv, RestInv, countVars
  <1>5. StoreInv'
    BY <1>1, StoreFrame DEF historyVars
  <1> QED
    BY <1>2, <1>3, <1>4, <1>5 DEF TypeInv

\* A connection is lost.
LEMMA DisconnectTypes ==
    ASSUME TypeInv, NEW m \in Machines, Disconnect(m)
    PROVE  TypeInv'
  <1>1. /\ session' = [session EXCEPT ![m] = "dead"]
        /\ UNCHANGED <<redbVars, plc, sampled, rx, is_initial, pc, task, orphans, shutdown,
                       today, historyVars, requests, flaps>>
    BY DEF Disconnect
  <1>2. SessionsInv' /\ TasksInv' /\ OrphansInv' /\ PlcInv' /\ RestInv'
    BY <1>1 DEF TypeInv, SessionsInv, TasksInv, OrphansInv, PlcInv, RestInv
  <1>3. StoreInv'
    BY <1>1, StoreFrame DEF historyVars
  <1> QED
    BY <1>2, <1>3 DEF TypeInv

\* A dead session is dropped: its job goes on alone.
LEMMA DropDeadTypes ==
    ASSUME TypeInv, NEW m \in Machines, DropDead(m)
    PROVE  TypeInv'
  <1>1. /\ orphans' = orphans \cup JobOf(m) /\ HandlerEnds(m)
        /\ UNCHANGED <<redbVars, plc, shutdown, today, historyVars, countVars>>
    BY DEF DropDead
  <1>2. SessionsInv' /\ TasksInv'
    BY <1>1, HandlerEndsInv
  <1>3. OrphansInv'
    <2>1. task[m] \in Task /\ JobReady(pc[m], task[m])
      BY DEF TypeInv, TasksInv
    <2> QED
      BY <1>1, <2>1 DEF JobOf, TypeInv, OrphansInv, JobReady
  <1>4. PlcInv' /\ RestInv'
    BY <1>1 DEF TypeInv, PlcInv, RestInv, countVars
  <1>5. StoreInv'
    BY <1>1, StoreFrame DEF historyVars
  <1> QED
    BY <1>2, <1>3, <1>4, <1>5 DEF TypeInv

\* The server notifies a request code, good or bad.
LEMMA NotifyTypes ==
    ASSUME TypeInv, NEW m \in Machines, NEW code \in {BadValue} \cup (Reset .. Unknown),
           Notify(m, code), requests' \in Nat, flaps' \in Nat
    PROVE  TypeInv'
  <1>1. /\ sampled' = [sampled EXCEPT ![m] = code]
        /\ rx' = [rx EXCEPT ![m] = Append(rx[m], [code |-> code, n |-> plc[m].n])]
        /\ UNCHANGED <<redbVars, plc, session, is_initial, pc, task, orphans, shutdown, today,
                       historyVars>>
    BY DEF Notify
  <1>2. plc[m].n \in Nat /\ rx[m] \in Seq(Notification)
    BY DEF TypeInv, PlcInv, Plc, SessionsInv
  <1>3. [code |-> code, n |-> plc[m].n] \in Notification
    BY <1>2 DEF Notification
  <1>4. SessionsInv'
    <2>1. Append(rx[m], [code |-> code, n |-> plc[m].n]) \in Seq(Notification)
      BY <1>2, <1>3
    <2> QED
      BY <1>1, <2>1 DEF TypeInv, SessionsInv
  <1>5. TasksInv' /\ OrphansInv' /\ PlcInv' /\ RestInv'
    BY <1>1 DEF TypeInv, TasksInv, OrphansInv, PlcInv, RestInv
  <1>6. StoreInv'
    BY <1>1, StoreFrame DEF historyVars
  <1> QED
    BY <1>4, <1>5, <1>6 DEF TypeInv

\* A job that nobody waits for does what it would have done.
LEMMA OrphanJobTypes ==
    ASSUME TypeInv, NEW job \in orphans, OrphanJob(job)
    PROVE  TypeInv'
  <1>1. /\ orphans' = orphans \ {job}
        /\ UNCHANGED <<plc, sessionVars, pc, task, shutdown, today, issued, countVars>>
    BY DEF OrphanJob
  <1>2. /\ job.machine \in Machines /\ job.task \in Task /\ JobReady(job.kind, job.task)
        /\ job.kind \in {"create_job", "save_job"}
    BY DEF TypeInv, OrphansInv
  <1>3. StoreInv'
    <2>1. CASE job.kind = "create_job" /\ next_serial(job.task.date) /\ UNCHANGED saved
      BY <2>1, <1>2, SerialInv DEF JobReady, TypeInv
    <2>2. CASE job.kind = "save_job" /\ Commit(job.machine, job.task)
      BY <2>2, <1>2, CommitInv DEF JobReady, TypeInv
    <2>3. CASE UNCHANGED <<redbVars, saved>>
      BY <2>3, StoreFrame
    <2> QED
      BY <2>1, <2>2, <2>3 DEF OrphanJob
  <1>4. SessionsInv' /\ TasksInv' /\ OrphansInv' /\ PlcInv' /\ RestInv'
    BY <1>1 DEF TypeInv, sessionVars, countVars, SessionsInv, TasksInv, OrphansInv, PlcInv, RestInv
  <1> QED
    BY <1>3, <1>4 DEF TypeInv

\* The queues are emptied.
LEMMA DrainQueuesTypes ==
    ASSUME TypeInv, DrainQueues
    PROVE  TypeInv'
  <1>1. /\ queues' = [t \in QueueTable |-> EmptyTable]
        /\ UNCHANGED <<daily_serial, general_part_sheet, archive_seq, plc, sessionVars, pc, task,
                       orphans, shutdown, today, historyVars, countVars>>
    BY DEF DrainQueues
  <1>2. EmptyTable \in [DOMAIN EmptyTable -> Row] /\ DOMAIN EmptyTable = {}
    BY DEF EmptyTable
  <1>3. StoreInv'
    BY <1>1, <1>2 DEF TypeInv, StoreInv, CacheTypeOK, historyVars
  <1>4. SessionsInv' /\ TasksInv' /\ OrphansInv' /\ PlcInv' /\ RestInv'
    BY <1>1 DEF TypeInv, sessionVars, countVars, SessionsInv, TasksInv, OrphansInv, PlcInv, RestInv
  <1> QED
    BY <1>3, <1>4 DEF TypeInv

\* The process stops, crashes or starts again, and days go by: the tables stay.
LEMMA ProcessTypes ==
    ASSUME TypeInv, Shutdown \/ Restart \/ Crash \/ NextDay
    PROVE  TypeInv'
  <1>1. UNCHANGED <<redbVars, plc, saved, requests, flaps>>
    BY DEF Shutdown, Restart, Crash, NextDay, Restarts, historyVars, countVars
  <1>2. StoreInv' /\ PlcInv'
    BY <1>1, StoreFrame DEF TypeInv, PlcInv
  <1>3. shutdown' \in BOOLEAN /\ today' \in Dates
    BY DEF Shutdown, Restart, Crash, NextDay, TypeInv, RestInv
  <1>4. SessionsInv' /\ TasksInv' /\ OrphansInv'
    <2>1. CASE Shutdown \/ Restart \/ NextDay
      BY <2>1 DEF Shutdown, Restart, NextDay, sessionVars, TypeInv, SessionsInv, TasksInv, OrphansInv
    <2>2. CASE Crash
      <3>1. SessionsInv'
        BY <2>2 DEF Crash, SessionsInv
      <3>2. /\ pc' = [m \in Machines |-> "none"] /\ task' = [m \in Machines |-> NoTask]
            /\ orphans' = {}
        BY <2>2 DEF Crash
      <3>3. "none" \in Labels /\ JobReady("none", NoTask)
        BY DEF Labels, JobReady
      <3> QED
        BY <3>1, <3>2, <3>3, NoTaskType DEF TasksInv, OrphansInv, JobReady
    <2> QED
      BY <2>1, <2>2
  <1> QED
    BY <1>1, <1>2, <1>3, <1>4 DEF TypeInv, RestInv

\* A shutdown ends a handler between two requests.
LEMMA HandlerStopTypes ==
    ASSUME TypeInv, NEW m \in Machines, HandlerStop(m)
    PROVE  TypeInv'
  <1>1. /\ HandlerEnds(m)
        /\ UNCHANGED <<redbVars, plc, orphans, shutdown, today, historyVars, countVars>>
    BY DEF HandlerStop
  <1>2. SessionsInv' /\ TasksInv'
    BY <1>1, HandlerEndsInv
  <1>3. OrphansInv' /\ PlcInv' /\ RestInv'
    BY <1>1 DEF TypeInv, OrphansInv, PlcInv, RestInv, countVars
  <1>4. StoreInv'
    BY <1>1, StoreFrame DEF historyVars
  <1> QED
    BY <1>2, <1>3, <1>4 DEF TypeInv

-----------------------------------------------------------------------------
(* Types *)

\* The service starts on empty tables, with machines that ask for nothing.
LEMMA InitTypes ==
    ASSUME Init
    PROVE  TypeInv
  <1>1. Blank \in [GeneralNids -> Values] /\ BlankOperation \in [OperationNids -> Values]
        /\ Blank[PartIdNid] = NoPart
    BY HandlerAssumption DEF Blank, BlankOperation
  <1>2. SessionsInv
    <2>1. <<>> \in Seq(Notification)
      OBVIOUS
    <2> QED
      BY <2>1 DEF Init, SessionsInv
  <1>3. TasksInv
    <2>1. "none" \in Labels /\ JobReady("none", NoTask)
      BY DEF Labels, JobReady
    <2> QED
      BY <2>1, NoTaskType DEF Init, TasksInv, JobReady
  <1>4. OrphansInv
    BY DEF Init, OrphansInv
  <1>5. StoreInv
    BY DEF Init, CacheInit, StoreInv, CacheTypeOK, EmptyTable
  <1>6. PlcInv
    <2> DEFINE v == [request |-> Reset, response |-> RESPONSE_RESET, n |-> 0, answered |-> 0,
                     general |-> Blank, operation |-> BlankOperation]
    <2>1. Reset \in Reset .. Unknown
      BY DEF Reset, Unknown
    <2>2. v \in Plc /\ v.general[PartIdNid] \in PartIds \cup {NoPart}
      BY <1>1, <2>1, ResponseCodeTypes DEF Plc
    <2>3. plc = [m \in Machines |-> v]
      BY DEF Init
    <2> HIDE DEF v
    <2> QED
      BY <2>2, <2>3 DEF PlcInv
  <1>7. RestInv
    <2>1. today \in Dates
      BY HandlerAssumption DEF Init
    <2> QED
      BY <2>1 DEF Init, RestInv
  <1> QED
    BY <1>2, <1>3, <1>4, <1>5, <1>6, <1>7 DEF TypeInv

\* The steps of the machines, of their sessions and of their handlers keep the types.
LEMMA MachineTypes ==
    ASSUME TypeInv, NEW m \in Machines,
           \/ SetRequest(m) \/ ResetRequest(m)
           \/ install(m) \/ Disconnect(m) \/ DropDead(m) \/ Publish(m) \/ PublishBad(m)
           \/ Handler(m)
    PROVE  TypeInv'
  <1>1. CASE SetRequest(m) \/ ResetRequest(m)
    BY <1>1, SetRequestTypes, ResetRequestTypes
  <1>2. CASE install(m) \/ Disconnect(m) \/ DropDead(m)
    BY <1>2, InstallTypes, DisconnectTypes, DropDeadTypes
  <1>3. CASE Publish(m)
    <2>1. plc[m].request \in Reset .. Unknown
      BY DEF TypeInv, PlcInv, Plc
    <2>2. Notify(m, plc[m].request) /\ requests' \in Nat /\ flaps' \in Nat
      BY <1>3 DEF Publish, countVars, TypeInv, RestInv
    <2> QED
      BY <2>1, <2>2, NotifyTypes
  <1>4. CASE PublishBad(m)
    <2>1. Notify(m, BadValue) /\ requests' \in Nat /\ flaps' \in Nat
      BY <1>4 DEF PublishBad, TypeInv, RestInv
    <2> QED
      BY <2>1, NotifyTypes
  <1>5. CASE Handler(m)
    BY <1>5, ReceiveTypes, InitialTypes, CreateReadTypes, CreateJobTypes, CreateWriteTypes,
       LoadReadTypes, LoadJobTypes, LoadWriteTypes, SaveReadTypes, SaveJobTypes, RespondTypes,
       HandlerStopTypes DEF Handler
  <1> QED
    BY <1>1, <1>2, <1>3, <1>4, <1>5

\* Each step keeps the types.
LEMMA NextTypes ==
    ASSUME TypeInv, [Next]_vars
    PROVE  TypeInv'
  <1>1. CASE UNCHANGED vars
    <2>1. UNCHANGED <<redbVars, saved, plc, session, sampled, rx, is_initial, pc, task, orphans,
                      shutdown, today, requests, flaps>>
      BY <1>1 DEF vars, sessionVars, historyVars, countVars
    <2>2. StoreInv'
      BY <2>1, StoreFrame
    <2> QED
      BY <2>1, <2>2 DEF TypeInv, SessionsInv, TasksInv, OrphansInv, PlcInv, RestInv
  <1>2. CASE Next
    <2>1. CASE \E m \in Machines :
                 \/ SetRequest(m) \/ ResetRequest(m)
                 \/ install(m) \/ Disconnect(m) \/ DropDead(m) \/ Publish(m) \/ PublishBad(m)
                 \/ Handler(m)
      BY <2>1, MachineTypes
    <2>2. CASE \E job \in orphans : OrphanJob(job)
      BY <2>2, OrphanJobTypes
    <2>3. CASE DrainQueues
      BY <2>3, DrainQueuesTypes
    <2>4. CASE Shutdown \/ Restart \/ Crash \/ NextDay
      BY <2>4, ProcessTypes
    <2> QED
      BY <1>2, <2>1, <2>2, <2>3, <2>4 DEF Next
  <1> QED
    BY <1>1, <1>2

\* The invariant that the other proofs build on.
LEMMA TypeInvariance == Spec => []TypeInv
  <1>1. Init => TypeInv
    BY InitTypes
  <1>2. TypeInv /\ [Next]_vars => TypeInv'
    BY NextTypes
  <1> QED
    BY <1>1, <1>2, PTL DEF Spec

\* What machines, sessions, handlers and tables hold has the expected types, whatever the
\* order of the notifications, the losses and the restarts.
THEOREM HandlerTypeInvariance == Spec => []TypeOK
  <1>1. TypeInv => TypeOK
    <2> SUFFICES ASSUME TypeInv PROVE TypeOK
      OBVIOUS
    <2>1. \A m \in Machines : \A i \in DOMAIN rx[m] : rx[m][i] \in Notification
      BY DEF TypeInv, SessionsInv
    <2>2. CacheTypeOK /\ shutdown \in BOOLEAN /\ today \in Dates
      BY DEF TypeInv, StoreInv, RestInv
    <2> QED
      BY <2>1, <2>2 DEF TypeInv, SessionsInv, TasksInv, OrphansInv, PlcInv, TypeOK, Plc,
                        Notification, Labels
  <1> QED
    BY <1>1, TypeInvariance, PTL

-----------------------------------------------------------------------------
(* The part identifiers *)

\* The serial of an identifier has been counted.
Counted(part) == part \in PartIds /\ part[2] <= daily_serial[part[1]]

\* An identifier that is about to be written has never been, and no other handler has it.
IdsInv ==
    /\ \A x \in issued : Counted(x.part)
    /\ \A m \in Machines : pc[m] = "create_write" =>
        /\ Counted(task[m].part)
        /\ \A x \in issued : x.part # task[m].part
        /\ \A k \in Machines \ {m} : pc[k] = "create_write" => task[k].part # task[m].part
    /\ UniquePartIds

\* Serials are counted up.
CountsKept == \A d \in Dates : daily_serial'[d] \in Nat /\ daily_serial[d] <= daily_serial'[d]

\* No handler comes to a write, no identifier is written.
IdsKept ==
    /\ issued' = issued
    /\ CountsKept
    /\ \A m \in Machines :
        pc'[m] = "create_write" => pc[m] = "create_write" /\ task'[m] = task[m]

\* What has been counted remains so.
LEMMA CountedKept ==
    ASSUME TypeInv, CountsKept, NEW part, Counted(part)
    PROVE  Counted(part)'
  <1>1. part \in Dates \X (1 .. MaxSerial)
    BY HandlerAssumption DEF Counted
  <1>2. part[1] \in Dates /\ part[2] \in Int
    BY <1>1
  <1>3. daily_serial[part[1]] \in Nat /\ daily_serial'[part[1]] \in Nat
        /\ daily_serial[part[1]] <= daily_serial'[part[1]]
    BY <1>2 DEF CountsKept, TypeInv, StoreInv, CacheTypeOK
  <1>4. part[2] <= daily_serial[part[1]]
    BY DEF Counted
  <1>5. part[2] <= daily_serial'[part[1]]
    BY <1>2, <1>3, <1>4
  <1> QED
    BY <1>5 DEF Counted

\* Steps that have nothing to do with identifiers.
LEMMA IdsFrame ==
    ASSUME TypeInv, IdsInv, IdsKept
    PROVE  IdsInv'
  <1>1. \A x \in issued' : Counted(x.part)'
    BY CountedKept DEF IdsInv, IdsKept
  <1>2. \A m \in Machines : pc'[m] = "create_write" =>
          /\ Counted(task[m].part)'
          /\ \A x \in issued' : x.part # task'[m].part
          /\ \A k \in Machines \ {m} : pc'[k] = "create_write" => task'[k].part # task'[m].part
    <2> SUFFICES ASSUME NEW m \in Machines, pc'[m] = "create_write"
                 PROVE  /\ Counted(task[m].part)'
                        /\ \A x \in issued' : x.part # task'[m].part
                        /\ \A k \in Machines \ {m} :
                              pc'[k] = "create_write" => task'[k].part # task'[m].part
      OBVIOUS
    <2>1. pc[m] = "create_write" /\ task'[m] = task[m] /\ issued' = issued
      BY DEF IdsKept
    <2>2. Counted(task[m].part)
      BY <2>1 DEF IdsInv
    <2>3. Counted(task[m].part)'
      <3> DEFINE part == task[m].part
      <3>1. Counted(part)
        BY <2>2
      <3> HIDE DEF part
      <3>2. part \in PartIds /\ part[2] <= daily_serial'[part[1]]
        BY <3>1, CountedKept DEF IdsKept, Counted
      <3> QED
        BY <3>2, <2>1 DEF Counted, part
    <2> QED
      BY <2>1, <2>3 DEF IdsInv, IdsKept
  <1>3. UniquePartIds'
    BY DEF IdsInv, IdsKept, UniquePartIds
  <1> QED
    BY <1>1, <1>2, <1>3 DEF IdsInv

\* The handler of one machine moves, and not to the write of an identifier.
LEMMA GotoKept ==
    ASSUME TypeInv, NEW m \in Machines, NEW label, label # "create_write", NEW t,
           Goto(m, label, t), issued' = issued, CountsKept
    PROVE  IdsKept
  BY DEF Goto, TypeInv, TasksInv, IdsKept

\* The tables as they are.
LEMMA CountsFrame ==
    ASSUME TypeInv, UNCHANGED daily_serial
    PROVE  CountsKept
  BY DEF TypeInv, StoreInv, CacheTypeOK, CountsKept

\* One serial more.
LEMMA SerialKept ==
    ASSUME TypeInv, NEW date \in Dates, next_serial(date)
    PROVE  CountsKept
  <1>1. /\ daily_serial'[date] = daily_serial[date] + 1
        /\ \A d \in Dates : d # date => daily_serial'[d] = daily_serial[d]
    BY NextSerialEffect DEF TypeInv, StoreInv
  <1> QED
    BY <1>1 DEF TypeInv, StoreInv, CacheTypeOK, CountsKept

\* Dispatching a request leads to no write of an identifier.
LEMMA HandleRequestKept ==
    ASSUME TypeInv, NEW m \in Machines, NEW t, handle_request(m, t), issued' = issued,
           UNCHANGED redbVars
    PROVE  IdsKept
  <1>1. CountsKept
    BY CountsFrame DEF redbVars
  <1>2. \E label \in {"respond", "create_read", "load_read", "save_read"} :
          \E u : Goto(m, label, u)
    BY Zenon DEF handle_request, Answer
  <1> QED
    BY <1>1, <1>2, GotoKept

\* The handlers' steps but those of the creation of an identifier.
LEMMA HandlerKept ==
    ASSUME TypeInv, NEW m \in Machines,
           \/ Receive(m) \/ is_initial_request_answered(m) \/ CreateRead(m)
           \/ LoadRead(m) \/ LoadJob(m) \/ LoadWrite(m)
           \/ SaveRead(m) \/ SaveJob(m) \/ Respond(m) \/ HandlerStop(m)
    PROVE  IdsKept
  <1>1. UNCHANGED issued
    BY DEF Receive, is_initial_request_answered, CreateRead, LoadRead, LoadJob, LoadWrite,
       SaveRead, SaveJob, Respond, HandlerStop, historyVars
  <1>2. CountsKept
    BY CountsFrame DEF Receive, is_initial_request_answered, CreateRead, LoadRead, LoadJob,
       LoadWrite, SaveRead, SaveJob, Respond, HandlerStop, Commit, save_part_sheets, redbVars
  <1>3. CASE Receive(m)
    <2>1. CASE \E t : handle_request(m, t)
      BY <1>1, <1>3, <2>1, HandleRequestKept DEF Receive
    <2>2. CASE \E t : Goto(m, "initial", t)
      BY <1>1, <1>2, <2>2, GotoKept
    <2> QED
      BY <1>3, <2>1, <2>2 DEF Receive
  <1>4. CASE is_initial_request_answered(m)
    <2>1. CASE \E t : handle_request(m, t)
      BY <1>1, <1>4, <2>1, HandleRequestKept DEF is_initial_request_answered
    <2>2. CASE Goto(m, "idle", NoTask)
      BY <1>1, <1>2, <2>2, GotoKept
    <2> QED
      BY <1>4, <2>1, <2>2 DEF is_initial_request_answered
  <1>5. CASE HandlerStop(m)
    <2>1. Goto(m, "none", NoTask)
      BY <1>5 DEF HandlerStop, HandlerEnds, Goto
    <2> QED
      BY <1>1, <1>2, <2>1, GotoKept
  <1>6. CASE \/ CreateRead(m) \/ LoadRead(m) \/ LoadJob(m) \/ LoadWrite(m)
             \/ SaveRead(m) \/ SaveJob(m) \/ Respond(m)
    <2>1. \E label \in {"create_job", "load_job", "load_write", "save_job", "respond", "idle"} :
            \E t : Goto(m, label, t)
      BY <1>6, Zenon DEF CreateRead, LoadRead, LoadJob, LoadWrite, SaveRead, SaveJob, Respond, Fail,
         Answer
    <2> QED
      BY <1>1, <1>2, <2>1, GotoKept
  <1> QED
    BY <1>3, <1>4, <1>5, <1>6

\* The serial that the job counts is that of no identifier yet.
LEMMA CreateJobIds ==
    ASSUME TypeInv, IdsInv, NEW m \in Machines, CreateJob(m)
    PROVE  IdsInv'
  <1> DEFINE date == task[m].date
  <1>0. PICK part : part = <<date, daily_serial'[date]>>
    OBVIOUS
  <1>1. UNCHANGED issued
    BY DEF CreateJob, historyVars
  <1>2. CASE UNCHANGED redbVars /\ Fail(m, "NextSerial")
    <2>1. CountsKept
      BY <1>2, CountsFrame DEF redbVars
    <2>2. IdsKept
      BY <1>1, <1>2, <2>1, GotoKept DEF Fail, Answer
    <2> QED
      BY <2>2, IdsFrame
  <1>3. CASE next_serial(date) /\ (Fail(m, "PartIdentifier") \/ Fail(m, "NextSerial"))
    <2>1. date \in Dates
      BY DEF CreateJob, TypeInv, TasksInv, JobReady
    <2>2. IdsKept
      BY <1>1, <1>3, <2>1, SerialKept, GotoKept DEF Fail, Answer
    <2> QED
      BY <2>2, IdsFrame
  <1>4. CASE /\ next_serial(date)
             /\ daily_serial'[date] <= MaxSerial
             /\ Goto(m, "create_write", [task[m] EXCEPT !.part = <<date, daily_serial'[date]>>])
    <2>1. date \in Dates /\ task[m] \in Task
      BY DEF CreateJob, TypeInv, TasksInv, JobReady
    <2>2. CountsKept /\ daily_serial'[date] = daily_serial[date] + 1
      BY <1>4, <2>1, SerialKept, NextSerialEffect DEF TypeInv, StoreInv
    <2>3. daily_serial[date] \in Nat
      BY <2>1 DEF TypeInv, StoreInv, CacheTypeOK
    <2>4. ~Counted(part) /\ Counted(part)'
      <3>1. daily_serial'[date] \in 1 .. MaxSerial
        BY <1>4, <2>2, <2>3, HandlerAssumption
      <3>2. part \in PartIds /\ part[1] = date /\ part[2] = daily_serial'[date]
        BY <1>0, <2>1, <3>1, HandlerAssumption
      <3> HIDE DEF date
      <3>3. ~(part[2] <= daily_serial[part[1]]) /\ part[2] <= daily_serial'[part[1]]
        BY <3>2, <3>1, <2>2, <2>3
      <3> QED
        BY <3>2, <3>3 DEF Counted
    <2>5. /\ task'[m].part = part
          /\ \A k \in Machines \ {m} : pc'[k] = pc[k] /\ task'[k] = task[k]
      BY <1>0, <1>4, <2>1 DEF Goto, TypeInv, TasksInv, Task
    <2> HIDE DEF date
    <2>6. \A x \in issued' : Counted(x.part)' /\ x.part # part
      BY <1>1, <2>2, <2>4, CountedKept DEF IdsInv
    <2>7. \A k \in Machines \ {m} : pc'[k] = "create_write" =>
            Counted(task[k].part)' /\ task'[k].part # part
      BY <2>2, <2>4, <2>5, CountedKept DEF IdsInv
    <2>8. \A k \in Machines \ {m} : pc'[k] = "create_write" =>
            /\ \A x \in issued' : x.part # task'[k].part
            /\ \A l \in Machines \ {k, m} : pc'[l] = "create_write" => task'[l].part # task'[k].part
      BY <1>1, <2>5 DEF IdsInv
    <2>9. UniquePartIds'
      BY <1>1 DEF IdsInv, UniquePartIds
    <2> QED
      BY <2>4, <2>5, <2>6, <2>7, <2>8, <2>9 DEF IdsInv
  <1> QED
    BY <1>2, <1>3, <1>4 DEF CreateJob

\* The identifier that is written is that of no other request, and no handler will write
\* it again, whether the write succeeds or not.
LEMMA CreateWriteIds ==
    ASSUME TypeInv, IdsInv, NEW m \in Machines, CreateWrite(m)
    PROVE  IdsInv'
  <1>1. pc[m] = "create_write" /\ UNCHANGED redbVars
    BY DEF CreateWrite
  <1>2. CountsKept
    BY <1>1, CountsFrame DEF redbVars
  <1>3. \E t : Goto(m, "respond", t)
    BY DEF CreateWrite, Answer, Fail
  <1>4. CASE UNCHANGED issued
    BY <1>2, <1>3, <1>4, GotoKept, IdsFrame
  <1>5. CASE WritePart(m)
    <2> DEFINE new == [machine |-> m, n |-> task[m].n, part |-> task[m].part]
    <2>1. issued' = issued \cup {new} /\ new.part = task[m].part
      BY <1>5 DEF WritePart
    <2>2. /\ Counted(task[m].part)
          /\ \A x \in issued : x.part # task[m].part
      BY <1>1 DEF IdsInv
    <2>3. \A k \in Machines : pc'[k] = "create_write" =>
            k # m /\ pc[k] = "create_write" /\ task'[k] = task[k]
      BY <1>3 DEF Goto, TypeInv, TasksInv
    <2> HIDE DEF new
    <2>4. \A x \in issued' : Counted(x.part)'
      BY <1>2, <2>1, <2>2, CountedKept DEF IdsInv
    <2>5. \A k \in Machines : pc'[k] = "create_write" => Counted(task[k].part)'
      BY <1>2, <2>3, CountedKept DEF IdsInv
    <2>6. \A k \in Machines : pc'[k] = "create_write" =>
            /\ \A x \in issued' : x.part # task'[k].part
            /\ \A l \in Machines \ {k} : pc'[l] = "create_write" => task'[l].part # task'[k].part
      BY <1>1, <2>1, <2>3 DEF IdsInv
    <2>7. UniquePartIds'
      BY <2>1, <2>2 DEF IdsInv, UniquePartIds
    <2> QED
      BY <2>4, <2>5, <2>6, <2>7 DEF IdsInv
  <1> QED
    BY <1>4, <1>5 DEF CreateWrite

\* The steps that are not a handler's: jobs without one spend serials, a new session starts
\* idle, a crash takes the handlers away.
LEMMA OthersKept ==
    ASSUME TypeInv,
           \/ UNCHANGED vars
           \/ \E m \in Machines :
                \/ SetRequest(m) \/ ResetRequest(m)
                \/ install(m) \/ Disconnect(m) \/ DropDead(m) \/ Publish(m) \/ PublishBad(m)
           \/ \E job \in orphans : OrphanJob(job)
           \/ DrainQueues \/ Shutdown \/ Restart \/ Crash \/ NextDay
    PROVE  IdsKept
  <1>1. CASE \/ UNCHANGED vars
             \/ \E m \in Machines :
                  \/ SetRequest(m) \/ ResetRequest(m) \/ Disconnect(m)
                  \/ Publish(m) \/ PublishBad(m)
             \/ DrainQueues \/ Shutdown \/ Restart \/ NextDay
    <2>1. UNCHANGED <<daily_serial, issued, pc, task>>
      BY <1>1 DEF vars, SetRequest, ResetRequest, Disconnect, Publish, PublishBad, Notify,
         DrainQueues, Shutdown, Restart, NextDay, redbVars, historyVars
    <2> QED
      BY <2>1, CountsFrame DEF IdsKept
  <1>2. ASSUME NEW m \in Machines, install(m) PROVE IdsKept
    <2>1. /\ UNCHANGED <<daily_serial, issued, task>>
          /\ pc' = [pc EXCEPT ![m] = "idle"]
      BY <1>2 DEF install, redbVars, historyVars
    <2> QED
      BY <2>1, CountsFrame DEF IdsKept, TypeInv, TasksInv
  <1>3. ASSUME NEW m \in Machines, DropDead(m) PROVE IdsKept
    <2>1. UNCHANGED <<daily_serial, issued>> /\ Goto(m, "none", NoTask)
      BY <1>3 DEF DropDead, HandlerEnds, Goto, redbVars, historyVars
    <2> QED
      BY <2>1, CountsFrame, GotoKept
  <1>4. ASSUME NEW job \in orphans, OrphanJob(job) PROVE IdsKept
    <2>1. UNCHANGED <<pc, task, issued>>
      BY <1>4 DEF OrphanJob
    <2>2. CASE job.kind = "create_job" /\ next_serial(job.task.date)
      <3>1. job.task.date \in Dates
        BY <2>2 DEF TypeInv, OrphansInv, JobReady
      <3> QED
        BY <2>1, <2>2, <3>1, SerialKept DEF IdsKept
    <2>3. CASE UNCHANGED daily_serial
      BY <2>1, <2>3, CountsFrame DEF IdsKept
    <2> QED
      BY <1>4, <2>2, <2>3 DEF OrphanJob, Commit, save_part_sheets, redbVars
  <1>5. CASE Crash
    <2>1. /\ UNCHANGED <<daily_serial, issued>>
          /\ \A m \in Machines : pc'[m] = "none"
      BY <1>5 DEF Crash, redbVars, historyVars
    <2> QED
      BY <2>1, CountsFrame DEF IdsKept
  <1> QED
    BY <1>1, <1>2, <1>3, <1>4, <1>5

\* Each step keeps the identifiers apart.
LEMMA NextIds ==
    ASSUME TypeInv, IdsInv, [Next]_vars
    PROVE  IdsInv'
  <1>1. CASE \/ UNCHANGED vars
             \/ \E m \in Machines :
                  \/ SetRequest(m) \/ ResetRequest(m)
                  \/ install(m) \/ Disconnect(m) \/ DropDead(m) \/ Publish(m) \/ PublishBad(m)
             \/ \E job \in orphans : OrphanJob(job)
             \/ DrainQueues \/ Shutdown \/ Restart \/ Crash \/ NextDay
    BY <1>1, OthersKept, IdsFrame
  <1>2. ASSUME NEW m \in Machines, Handler(m) PROVE IdsInv'
    <2>1. CASE CreateJob(m)
      BY <2>1, CreateJobIds
    <2>2. CASE CreateWrite(m)
      BY <2>2, CreateWriteIds
    <2>3. CASE \/ Receive(m) \/ is_initial_request_answered(m) \/ CreateRead(m)
               \/ LoadRead(m) \/ LoadJob(m) \/ LoadWrite(m)
               \/ SaveRead(m) \/ SaveJob(m) \/ Respond(m) \/ HandlerStop(m)
      BY <2>3, HandlerKept, IdsFrame
    <2> QED
      BY <1>2, <2>1, <2>2, <2>3 DEF Handler
  <1> QED
    BY <1>1, <1>2 DEF Next

\* Every serial number of an identifier that is made is counted, and no two handlers hold one.
LEMMA IdsInvariance == Spec => []IdsInv
  <1>1. Init => IdsInv
    BY DEF Init, IdsInv, UniquePartIds
  <1>2. TypeInv /\ IdsInv /\ [Next]_vars => IdsInv'
    BY NextIds
  <1> QED
    BY <1>1, <1>2, TypeInvariance, PTL DEF Spec

\* No part identifier is given to two requests: not by two machines on one day, not around
\* midnight, not after a crash between the count of a serial and its write.
THEOREM UniquePartIdsInvariance == Spec => []UniquePartIds
  <1>1. IdsInv => UniquePartIds
    BY DEF IdsInv
  <1> QED
    BY <1>1, IdsInvariance, PTL

-----------------------------------------------------------------------------
(* The number of saves.  Each set below holds one element for each save that   *)
(* may still be committed for what has happened so far.                        *)

\* Handlers that are on their way to commit.
HandlerDue ==
    {m \in Machines : \/ pc[m] \in {"save_read", "save_job"}
                      \/ pc[m] = "initial" /\ task[m].request = SavePartSheets}

\* Codes that the server is about to notify.
PublishDue ==
    {m \in Machines : /\ session[m] = "live"
                      /\ plc[m].request = SavePartSheets
                      /\ sampled[m] # SavePartSheets}

\* Codes that the next session is notified of: the one of a machine without a session, or
\* whose handler a stop is about to end.
AgainDue ==
    {m \in Machines : \/ shutdown /\ pc[m] # "none"
                      \/ session[m] # "live" /\ plc[m].request = SavePartSheets}

\* Notifications that no handler has received yet.
ChannelDue ==
    UNION {{m} \X {i \in DOMAIN rx[m] : rx[m][i].code = SavePartSheets} : m \in Machines}

\* Blocking jobs that outlive their handler.
OrphanDue == {job \in orphans : job.kind = "save_job"}

Due == Cardinality(HandlerDue) + Cardinality(PublishDue) + Cardinality(AgainDue)
         + Cardinality(ChannelDue) + Cardinality(OrphanDue)

\* What SavesBounded allows.
Allowed == requests + losses + Cardinality(Machines) * restarts + flaps

SavesInv ==
    /\ losses \in Nat
    /\ restarts \in Nat
    /\ IsFiniteSet(ChannelDue)
    /\ IsFiniteSet(OrphanDue)
    /\ Commits + Due <= Allowed

\* A part of a finite set.
LEMMA SizeKept ==
    ASSUME NEW S, IsFiniteSet(S), NEW T, T \subseteq S
    PROVE  IsFiniteSet(T) /\ Cardinality(T) \in Nat /\ Cardinality(T) <= Cardinality(S)
  BY FS_Subset, FS_CardinalityType

\* A part of a finite set, and perhaps one element more.
LEMMA SizeMore ==
    ASSUME NEW S, IsFiniteSet(S), NEW x, NEW T, T \subseteq S \cup {x}
    PROVE  IsFiniteSet(T) /\ Cardinality(T) \in Nat /\ Cardinality(T) <= Cardinality(S) + 1
  <1>1. /\ IsFiniteSet(S \cup {x})
        /\ Cardinality(S \cup {x}) = Cardinality(S) \/ Cardinality(S \cup {x}) = Cardinality(S) + 1
    BY FS_AddElement
  <1>2. IsFiniteSet(T) /\ Cardinality(T) \in Nat /\ Cardinality(T) <= Cardinality(S \cup {x})
    BY <1>1, SizeKept
  <1>3. Cardinality(S) \in Nat
    BY FS_CardinalityType
  <1> QED
    BY <1>1, <1>2, <1>3

\* A part of a finite set, without one of its elements.
LEMMA SizeLess ==
    ASSUME NEW S, IsFiniteSet(S), NEW x \in S, NEW T, T \subseteq S \ {x}
    PROVE  IsFiniteSet(T) /\ Cardinality(T) \in Nat /\ Cardinality(T) + 1 <= Cardinality(S)
  <1>1. IsFiniteSet(S \ {x}) /\ Cardinality(S \ {x}) = Cardinality(S) - 1
    BY FS_RemoveElement
  <1>2. IsFiniteSet(T) /\ Cardinality(T) \in Nat /\ Cardinality(T) <= Cardinality(S \ {x})
    BY <1>1, SizeKept
  <1>3. Cardinality(S) \in Nat
    BY FS_CardinalityType
  <1> QED
    BY <1>1, <1>2, <1>3

\* As many machines are due as there are at most; the numbers are numbers.
LEMMA SizeTypes ==
    ASSUME TypeInv, SavesInv
    PROVE  /\ IsFiniteSet(HandlerDue) /\ Cardinality(HandlerDue) \in Nat
           /\ IsFiniteSet(PublishDue) /\ Cardinality(PublishDue) \in Nat
           /\ IsFiniteSet(AgainDue) /\ Cardinality(AgainDue) \in Nat
           /\ IsFiniteSet(ChannelDue) /\ Cardinality(ChannelDue) \in Nat
           /\ IsFiniteSet(OrphanDue) /\ Cardinality(OrphanDue) \in Nat
           /\ IsFiniteSet(Machines) /\ Cardinality(Machines) \in Nat
           /\ Commits \in Nat
           /\ Allowed \in Nat
  <1>1. IsFiniteSet(Machines) /\ Cardinality(Machines) \in Nat
    BY HandlerAssumption, FS_CardinalityType
  <1>2. /\ IsFiniteSet(HandlerDue) /\ Cardinality(HandlerDue) \in Nat
        /\ IsFiniteSet(PublishDue) /\ Cardinality(PublishDue) \in Nat
        /\ IsFiniteSet(AgainDue) /\ Cardinality(AgainDue) \in Nat
    <2>1. HandlerDue \subseteq Machines
      BY DEF HandlerDue
    <2>2. PublishDue \subseteq Machines
      BY DEF PublishDue
    <2>3. AgainDue \subseteq Machines
      BY DEF AgainDue
    <2> QED
      BY <1>1, <2>1, <2>2, <2>3, SizeKept
  <1>3. /\ IsFiniteSet(ChannelDue) /\ Cardinality(ChannelDue) \in Nat
        /\ IsFiniteSet(OrphanDue) /\ Cardinality(OrphanDue) \in Nat
    BY FS_CardinalityType DEF SavesInv
  <1>4. Commits \in Nat
    <2>1. archive_seq \in Nat \cup {NoSeq}
      BY DEF TypeInv, StoreInv, CacheTypeOK
    <2> QED
      BY <2>1 DEF Commits
  <1>5. Allowed \in Nat
    <2>1. requests \in Nat /\ flaps \in Nat /\ losses \in Nat /\ restarts \in Nat
      BY DEF TypeInv, RestInv, SavesInv
    <2>2. Cardinality(Machines) * restarts \in Nat
      BY <1>1, <2>1
    <2> QED
      BY <2>1, <2>2 DEF Allowed
  <1> QED
    BY <1>1, <1>2, <1>3, <1>4, <1>5

\* The elements of the channels.
LEMMA InChannel ==
    /\ \A m \in Machines : \A i :
        (i \in DOMAIN rx[m] /\ rx[m][i].code = SavePartSheets) => <<m, i>> \in ChannelDue
    /\ \A x \in ChannelDue : \E m \in Machines : \E i \in DOMAIN rx[m] :
        x = <<m, i>> /\ rx[m][i].code = SavePartSheets
  BY DEF ChannelDue

\* Nothing but the counts of the machines' requests, losses and so on are counted: as long as
\* they stay, so does what is allowed.
LEMMA AllowedFrame ==
    ASSUME SavesInv, UNCHANGED <<requests, losses, restarts, flaps>>
    PROVE  Allowed' = Allowed /\ losses' \in Nat /\ restarts' \in Nat
  BY DEF Allowed, SavesInv

LEMMA CommitsFrame ==
    ASSUME UNCHANGED archive_seq
    PROVE  Commits' = Commits
  BY DEF Commits

\* A step that moves the handler of m, to where label says.
LEMMA GotoDue ==
    ASSUME TypeInv, NEW m \in Machines, NEW label, NEW t, Goto(m, label, t)
    PROVE  /\ HandlerDue' \subseteq HandlerDue \cup {m}
           /\ label \notin {"initial", "save_read", "save_job"}
                => HandlerDue' \subseteq HandlerDue \ {m}
           /\ (label = "initial" /\ t.request # SavePartSheets)
                => HandlerDue' \subseteq HandlerDue \ {m}
           /\ (label # "none" /\ pc[m] # "none")
                => \A k \in Machines : pc'[k] = "none" <=> pc[k] = "none"
  <1>1. /\ pc'[m] = label /\ task'[m] = t
        /\ \A k \in Machines \ {m} : pc'[k] = pc[k] /\ task'[k] = task[k]
    BY DEF Goto, TypeInv, TasksInv
  <1> QED
    BY <1>1 DEF HandlerDue

\* Dispatching a request leads to a commit if it is a save.
LEMMA HandleRequestDue ==
    ASSUME TypeInv, NEW m \in Machines, NEW t, handle_request(m, t)
    PROVE  /\ HandlerDue' \subseteq HandlerDue \cup {m}
           /\ t.request # SavePartSheets => HandlerDue' \subseteq HandlerDue \ {m}
           /\ pc[m] # "none" => \A k \in Machines : pc'[k] = "none" <=> pc[k] = "none"
  <1>1. CASE \E label \in {"respond", "create_read", "load_read"} : \E u : Goto(m, label, u)
    BY <1>1, GotoDue
  <1>2. CASE t.request = SavePartSheets /\ Goto(m, "save_read", t)
    BY <1>2, GotoDue
  <1> QED
    BY <1>1, <1>2, Zenon DEF handle_request, Answer

\* What a step of the handler of m leaves as it is, but for its own place and the end of a
\* save.
Quiet ==
    /\ UNCHANGED <<session, sampled, shutdown, requests, losses, restarts, flaps>>
    /\ \A k \in Machines : plc'[k].request = plc[k].request
    /\ \A k \in Machines : pc'[k] = "none" <=> pc[k] = "none"

\* Such a step leaves what the sessions and what the stops are still to bring.
LEMMA QuietDue ==
    ASSUME TypeInv, SavesInv, Quiet
    PROVE  /\ PublishDue' = PublishDue
           /\ AgainDue' = AgainDue
           /\ Allowed' = Allowed /\ losses' \in Nat /\ restarts' \in Nat
  <1>1. PublishDue' = PublishDue
    BY DEF Quiet, PublishDue
  <1>2. AgainDue' = AgainDue
    BY DEF Quiet, AgainDue
  <1> QED
    BY <1>1, <1>2, AllowedFrame DEF Quiet

\* A step that brings no save nearer.
LEMMA QuietSaves ==
    ASSUME TypeInv, SavesInv, Quiet, HandlerDue' \subseteq HandlerDue,
           UNCHANGED <<rx, orphans, archive_seq>>
    PROVE  SavesInv'
  <1>1. ChannelDue' = ChannelDue /\ OrphanDue' = OrphanDue /\ Commits' = Commits
    BY CommitsFrame DEF ChannelDue, OrphanDue
  <1>2. Cardinality(HandlerDue') \in Nat /\ Cardinality(HandlerDue') <= Cardinality(HandlerDue)
    BY SizeTypes, SizeKept
  <1> QED
    BY <1>1, <1>2, QuietDue, SizeTypes DEF SavesInv, Due

\* The notification at the head of a channel is received.
LEMMA ChannelReceived ==
    ASSUME TypeInv, SavesInv, NEW m \in Machines, rx[m] # <<>>,
           rx' = [rx EXCEPT ![m] = Tail(rx[m])]
    PROVE  /\ IsFiniteSet(ChannelDue') /\ Cardinality(ChannelDue') \in Nat
           /\ Cardinality(ChannelDue') <= Cardinality(ChannelDue)
           /\ Head(rx[m]).code = SavePartSheets =>
                Cardinality(ChannelDue') + 1 <= Cardinality(ChannelDue)
  <1> DEFINE Before == ChannelDue \ {<<m, 1>>}
             After == ChannelDue'
             f == [x \in After |-> IF x[1] = m THEN <<m, x[2] + 1>> ELSE x]
  <1>1. rx[m] \in Seq(Notification) /\ rx'[m] = Tail(rx[m])
        /\ \A k \in Machines \ {m} : rx'[k] = rx[k]
    BY DEF TypeInv, SessionsInv
  <1>2. /\ \A k \in Machines : rx[k] \in Seq(Notification)
        /\ Len(rx[m]) \in Nat \ {0} /\ DOMAIN rx[m] = 1 .. Len(rx[m])
        /\ DOMAIN rx'[m] = 1 .. (Len(rx[m]) - 1)
        /\ \A i \in DOMAIN rx'[m] : rx'[m][i] = rx[m][i + 1]
        /\ Head(rx[m]) = rx[m][1]
    BY <1>1 DEF TypeInv, SessionsInv
  <1>3. \A x \in After : \E k \in Machines : \E i \in DOMAIN rx'[k] :
          x = <<k, i>> /\ rx'[k][i].code = SavePartSheets
    BY DEF ChannelDue
  <1> HIDE DEF After
  <1>4. \A x \in After : \E k \in Machines, i \in Nat : x = <<k, i>>
    <2>1. \A k \in Machines : rx'[k] \in Seq(Notification)
      BY <1>1, <1>2
    <2>2. \A k \in Machines : DOMAIN rx'[k] \subseteq Nat
      BY <2>1
    <2> QED
      BY <1>3, <2>2
  <1>5. ASSUME NEW x \in After PROVE f[x] \in Before
    <2>1. PICK k \in Machines : \E i \in DOMAIN rx'[k] :
            x = <<k, i>> /\ rx'[k][i].code = SavePartSheets
      BY <1>3
    <2>2. PICK i \in DOMAIN rx'[k] : x = <<k, i>> /\ rx'[k][i].code = SavePartSheets
      BY <2>1
    <2>3. f[x] = IF x[1] = m THEN <<m, x[2] + 1>> ELSE x
      OBVIOUS
    <2> HIDE DEF f, After
    <2>4. CASE k = m
      <3>1. i \in Nat \ {0} /\ i + 1 \in DOMAIN rx[m] /\ rx[m][i + 1].code = SavePartSheets
        BY <1>2, <2>2, <2>4
      <3>2. f[x] = <<m, i + 1>> /\ i + 1 # 1
        BY <2>2, <2>3, <2>4, <3>1
      <3>3. <<m, i + 1>> \in ChannelDue
        BY <3>1, InChannel
      <3> QED
        BY <3>2, <3>3
    <2>5. CASE k # m
      <3>1. f[x] = <<k, i>>
        BY <2>2, <2>3, <2>5
      <3>2. <<k, i>> \in ChannelDue
        BY <1>1, <2>2, <2>5, InChannel
      <3> QED
        BY <3>1, <3>2, <2>5
    <2> QED
      BY <2>4, <2>5
  <1>6. ASSUME NEW x \in After, NEW y \in After, f[x] = f[y] PROVE x = y
    <2>1. PICK k \in Machines, i \in Nat : x = <<k, i>>
      BY <1>4
    <2>2. PICK l \in Machines, j \in Nat : y = <<l, j>>
      BY <1>4
    <2>3. /\ f[x] = IF k = m THEN <<m, i + 1>> ELSE <<k, i>>
          /\ f[y] = IF l = m THEN <<m, j + 1>> ELSE <<l, j>>
      BY <2>1, <2>2
    <2> HIDE DEF f, After
    <2> QED
      BY <1>6, <2>1, <2>2, <2>3
  <1>7. f \in Injection(After, Before)
    <2>1. f \in [After -> Before]
      BY <1>5
    <2>2. \A x, y \in After : f[x] = f[y] => x = y
      BY <1>6
    <2> HIDE DEF f, After, Before
    <2> QED
      BY <2>1, <2>2 DEF Injection, IsInjective
  <1>8. /\ IsFiniteSet(Before)
        /\ Cardinality(Before) <= Cardinality(ChannelDue) /\ Cardinality(Before) \in Nat
        /\ Cardinality(ChannelDue) \in Nat
    BY SizeKept, SizeTypes
  <1>9. Head(rx[m]).code = SavePartSheets => Cardinality(Before) + 1 <= Cardinality(ChannelDue)
    <2>1. Head(rx[m]).code = SavePartSheets => <<m, 1>> \in ChannelDue
      BY <1>2, InChannel
    <2> QED
      BY <2>1, SizeLess, SizeTypes
  <1> HIDE DEF f, After, Before
  <1>10. IsFiniteSet(After) /\ Cardinality(After) <= Cardinality(Before)
        /\ Cardinality(After) \in Nat
    BY <1>7, <1>8, FS_Injection, FS_Subset, FS_CardinalityType
  <1> QED
    BY <1>8, <1>9, <1>10 DEF After

\* The notification of a request: a save that the channel held is held by the handler.
LEMMA ReceiveSaves ==
    ASSUME TypeInv, SavesInv, NEW m \in Machines, Receive(m)
    PROVE  SavesInv'
  <1> DEFINE t == [NoTask EXCEPT !.request = Head(rx[m]).code, !.n = Head(rx[m]).n]
  <1>1. /\ pc[m] = "idle" /\ rx[m] # <<>> /\ rx' = [rx EXCEPT ![m] = Tail(rx[m])]
        /\ UNCHANGED <<archive_seq, plc, session, sampled, orphans, shutdown>>
        /\ (Goto(m, "initial", t) /\ UNCHANGED countVars) \/ handle_request(m, t)
    BY DEF Receive, redbVars
  <1>2. UNCHANGED <<requests, losses, restarts, flaps>>
    BY <1>1 DEF handle_request, Fault, countVars
  <1>3. t.request = Head(rx[m]).code
    BY DEF NoTask
  <1> HIDE DEF t
  <1>4. /\ HandlerDue' \subseteq HandlerDue \cup {m}
        /\ Head(rx[m]).code # SavePartSheets => HandlerDue' \subseteq HandlerDue
        /\ \A k \in Machines : pc'[k] = "none" <=> pc[k] = "none"
    BY <1>1, <1>3, GotoDue, HandleRequestDue
  <1>5. Quiet
    BY <1>1, <1>2, <1>4 DEF Quiet
  <1>6. OrphanDue' = OrphanDue /\ Commits' = Commits
    BY <1>1, CommitsFrame DEF OrphanDue
  <1>7. /\ IsFiniteSet(ChannelDue') /\ Cardinality(ChannelDue') \in Nat
        /\ Cardinality(ChannelDue') <= Cardinality(ChannelDue)
        /\ Head(rx[m]).code = SavePartSheets =>
             Cardinality(ChannelDue') + 1 <= Cardinality(ChannelDue)
    BY <1>1, ChannelReceived
  <1>8. /\ Cardinality(HandlerDue') \in Nat
        /\ Cardinality(HandlerDue') <= Cardinality(HandlerDue) + 1
        /\ Head(rx[m]).code # SavePartSheets => Cardinality(HandlerDue') <= Cardinality(HandlerDue)
    BY <1>4, SizeTypes, SizeKept, SizeMore
  <1> QED
    BY <1>5, <1>6, <1>7, <1>8, QuietDue, SizeTypes DEF SavesInv, Due

\* Writing to a machine leaves its request.
LEMMA RequestKept ==
    ASSUME TypeInv, NEW m \in Machines,
           WritePart(m) \/ (\E ids : WriteSheet(m, ids)) \/ WriteResponse(m) \/ UNCHANGED plc
    PROVE  \A k \in Machines : plc'[k].request = plc[k].request
  <1>1. plc \in [Machines -> Plc]
    BY DEF TypeInv, PlcInv
  <1>2. CASE WritePart(m)
    BY <1>1, <1>2 DEF WritePart, Plc
  <1>3. CASE \E ids : WriteSheet(m, ids)
    BY <1>1, <1>3 DEF WriteSheet, Plc
  <1>4. CASE WriteResponse(m)
    BY <1>1, <1>4 DEF WriteResponse, Plc
  <1> QED
    BY <1>2, <1>3, <1>4

\* The other steps of a handler, but the one that commits, bring it no nearer to a commit.
LEMMA HandlerSaves ==
    ASSUME TypeInv, SavesInv, NEW m \in Machines,
           \/ is_initial_request_answered(m) \/ CreateRead(m) \/ CreateJob(m) \/ CreateWrite(m)
           \/ LoadRead(m) \/ LoadJob(m) \/ LoadWrite(m) \/ SaveRead(m) \/ Respond(m)
    PROVE  SavesInv'
  <1>1. UNCHANGED <<session, sampled, shutdown, rx, orphans, archive_seq>>
    BY DEF is_initial_request_answered, CreateRead, CreateJob, CreateWrite, LoadRead, LoadJob,
       LoadWrite, SaveRead, Respond, handlerFrame, sessionVars, redbVars, next_serial
  <1>2. UNCHANGED <<requests, losses, restarts, flaps>>
    BY DEF is_initial_request_answered, handle_request, CreateRead, CreateJob, CreateWrite,
       LoadRead, LoadJob, LoadWrite, SaveRead, Respond, CallOk, CallErr, Fault, countVars
  <1>3. \A k \in Machines : plc'[k].request = plc[k].request
    <2>1. WritePart(m) \/ (\E ids : WriteSheet(m, ids)) \/ WriteResponse(m) \/ UNCHANGED plc
      BY DEF is_initial_request_answered, CreateRead, CreateJob, CreateWrite, LoadRead, LoadJob,
         LoadWrite, SaveRead, Respond
    <2> QED
      BY <2>1, RequestKept
  <1>4. /\ HandlerDue' \subseteq HandlerDue
        /\ \A k \in Machines : pc'[k] = "none" <=> pc[k] = "none"
    <2>1. CASE is_initial_request_answered(m)
      <3>1. pc[m] = "initial" /\ (handle_request(m, task[m]) \/ Goto(m, "idle", NoTask))
        BY <2>1 DEF is_initial_request_answered
      <3>2. task[m].request = SavePartSheets => m \in HandlerDue
        BY <3>1 DEF HandlerDue
      <3> QED
        BY <3>1, <3>2, GotoDue, HandleRequestDue
    <2>2. CASE SaveRead(m)
      <3>1. pc[m] = "save_read" /\ \E label \in {"save_job", "respond"} : \E t : Goto(m, label, t)
        BY <2>2, Zenon DEF SaveRead, Fail, Answer
      <3>2. m \in HandlerDue
        BY <3>1 DEF HandlerDue
      <3> QED
        BY <3>1, <3>2, GotoDue
    <2>3. CASE \/ CreateRead(m) \/ CreateJob(m) \/ CreateWrite(m)
               \/ LoadRead(m) \/ LoadJob(m) \/ LoadWrite(m) \/ Respond(m)
      <3>1. \E label \in {"create_job", "create_write", "load_job", "load_write", "respond", "idle"} :
              \E t : Goto(m, label, t)
        BY <2>3, Zenon DEF CreateRead, CreateJob, CreateWrite, LoadRead, LoadJob, LoadWrite,
           Respond, Fail, Answer
      <3>2. pc[m] # "none"
        BY <2>3 DEF CreateRead, CreateJob, CreateWrite, LoadRead, LoadJob, LoadWrite, Respond
      <3> QED
        BY <3>1, <3>2, GotoDue
    <2> QED
      BY <2>1, <2>2, <2>3
  <1> QED
    BY <1>1, <1>2, <1>3, <1>4, QuietSaves DEF Quiet

\* A save that commits is one more.
LEMMA CommitCounted ==
    ASSUME TypeInv, NEW m, NEW t, Commit(m, t)
    PROVE  Commits' = Commits + 1
  <1>1. archive_seq' = NextSeq
    BY DEF Commit, save_part_sheets
  <1>2. archive_seq \in Nat \cup {NoSeq}
    BY DEF TypeInv, StoreInv, CacheTypeOK
  <1>3. CASE archive_seq = NoSeq
    BY <1>1, <1>3 DEF NextSeq, NoSeq, Commits
  <1>4. CASE archive_seq # NoSeq
    <2>1. archive_seq \in Nat /\ archive_seq' = archive_seq + 2 /\ archive_seq' # NoSeq
      BY <1>1, <1>2, <1>4 DEF NextSeq, NoSeq
    <2> QED
      BY <2>1, <1>4 DEF Commits
  <1> QED
    BY <1>3, <1>4

\* A handler that commits is due no more.
LEMMA SaveJobSaves ==
    ASSUME TypeInv, SavesInv, NEW m \in Machines, SaveJob(m)
    PROVE  SavesInv'
  <1>1. /\ pc[m] = "save_job" /\ UNCHANGED <<plc, session, sampled, rx, orphans, shutdown>>
        /\ UNCHANGED <<requests, losses, restarts, flaps>>
        /\ Commit(m, task[m]) \/ UNCHANGED archive_seq
    BY DEF SaveJob, handlerFrame, sessionVars, redbVars, Fault, countVars
  <1>2. \E t : Goto(m, "respond", t)
    BY Zenon DEF SaveJob, Fail, Answer
  <1>3. m \in HandlerDue /\ HandlerDue' \subseteq HandlerDue \ {m}
    BY <1>1, <1>2, GotoDue DEF HandlerDue
  <1>4. Cardinality(HandlerDue') \in Nat
        /\ Cardinality(HandlerDue') + 1 <= Cardinality(HandlerDue)
    BY <1>3, SizeTypes, SizeLess
  <1>5. Quiet
    BY <1>1, <1>2, GotoDue DEF Quiet
  <1>6. Commits' = Commits \/ Commits' = Commits + 1
    BY <1>1, CommitsFrame, CommitCounted
  <1>7. ChannelDue' = ChannelDue /\ OrphanDue' = OrphanDue
    BY <1>1 DEF ChannelDue, OrphanDue
  <1> QED
    BY <1>4, <1>5, <1>6, <1>7, QuietDue, SizeTypes DEF SavesInv, Due

\* A machine that sets a request, a save perhaps, is due one more: by its session, or by the
\* next one.
LEMMA SetRequestSaves ==
    ASSUME TypeInv, SavesInv, NEW m \in Machines, SetRequest(m)
    PROVE  SavesInv'
  <1>1. /\ UNCHANGED <<archive_seq, session, sampled, rx, pc, task, orphans, shutdown>>
        /\ UNCHANGED <<losses, restarts, flaps>>
        /\ requests' = requests + 1
        /\ \E v : plc' = [plc EXCEPT ![m] = v]
    BY DEF SetRequest, redbVars, sessionVars
  <1>2. \A k \in Machines \ {m} : plc'[k] = plc[k]
    BY <1>1 DEF TypeInv, PlcInv
  <1>3. /\ ChannelDue' = ChannelDue /\ OrphanDue' = OrphanDue /\ HandlerDue' = HandlerDue
        /\ Commits' = Commits
    BY <1>1, CommitsFrame DEF ChannelDue, OrphanDue, HandlerDue
  <1>4. Allowed' = Allowed + 1 /\ losses' \in Nat /\ restarts' \in Nat
    <2>1. requests \in Nat /\ flaps \in Nat /\ losses \in Nat
      BY DEF TypeInv, RestInv, SavesInv
    <2>2. Cardinality(Machines) * restarts \in Nat
      BY SizeTypes DEF SavesInv
    <2> QED
      BY <1>1, <2>1, <2>2 DEF Allowed, SavesInv
  <1>5. CASE session[m] = "live"
    <2>1. PublishDue' \subseteq PublishDue \cup {m} /\ AgainDue' \subseteq AgainDue
      BY <1>1, <1>2, <1>5 DEF PublishDue, AgainDue
    <2>2. /\ Cardinality(PublishDue') \in Nat /\ Cardinality(AgainDue') \in Nat
          /\ Cardinality(PublishDue') <= Cardinality(PublishDue) + 1
          /\ Cardinality(AgainDue') <= Cardinality(AgainDue)
      BY <2>1, SizeTypes, SizeKept, SizeMore
    <2> QED
      BY <1>3, <1>4, <2>2, SizeTypes DEF SavesInv, Due
  <1>6. CASE session[m] # "live"
    <2>1. PublishDue' \subseteq PublishDue /\ AgainDue' \subseteq AgainDue \cup {m}
      BY <1>1, <1>2, <1>6 DEF PublishDue, AgainDue
    <2>2. /\ Cardinality(PublishDue') \in Nat /\ Cardinality(AgainDue') \in Nat
          /\ Cardinality(PublishDue') <= Cardinality(PublishDue)
          /\ Cardinality(AgainDue') <= Cardinality(AgainDue) + 1
      BY <2>1, SizeTypes, SizeKept, SizeMore
    <2> QED
      BY <1>3, <1>4, <2>2, SizeTypes DEF SavesInv, Due
  <1> QED
    BY <1>5, <1>6

\* A machine that resets its request is due nothing for it any more.
LEMMA ResetRequestSaves ==
    ASSUME TypeInv, SavesInv, NEW m \in Machines, ResetRequest(m)
    PROVE  SavesInv'
  <1>1. /\ UNCHANGED <<archive_seq, session, sampled, rx, pc, task, orphans, shutdown>>
        /\ UNCHANGED <<requests, losses, restarts, flaps>>
        /\ plc' = [plc EXCEPT ![m].request = Reset]
    BY DEF ResetRequest, redbVars, sessionVars, countVars
  <1>2. /\ plc'[m].request # SavePartSheets
        /\ \A k \in Machines \ {m} : plc'[k] = plc[k]
    BY <1>1 DEF TypeInv, PlcInv, Plc, Reset, SavePartSheets
  <1>3. PublishDue' \subseteq PublishDue /\ AgainDue' \subseteq AgainDue
    BY <1>1, <1>2 DEF PublishDue, AgainDue
  <1>4. /\ ChannelDue' = ChannelDue /\ OrphanDue' = OrphanDue /\ HandlerDue' = HandlerDue
        /\ Commits' = Commits
    BY <1>1, CommitsFrame DEF ChannelDue, OrphanDue, HandlerDue
  <1>5. /\ Cardinality(PublishDue') \in Nat /\ Cardinality(AgainDue') \in Nat
        /\ Cardinality(PublishDue') <= Cardinality(PublishDue)
        /\ Cardinality(AgainDue') <= Cardinality(AgainDue)
    BY <1>3, SizeTypes, SizeKept
  <1> QED
    BY <1>1, <1>4, <1>5, AllowedFrame, SizeTypes DEF SavesInv, Due

\* What was due to the next session of a machine is due to the one that is installed.
LEMMA InstallSaves ==
    ASSUME TypeInv, SavesInv, NEW m \in Machines, install(m)
    PROVE  SavesInv'
  <1>1. /\ session[m] = "none" /\ ~shutdown
        /\ session' = [session EXCEPT ![m] = "live"]
        /\ sampled' = [sampled EXCEPT ![m] = NoCode]
        /\ rx' = [rx EXCEPT ![m] = <<>>]
        /\ pc' = [pc EXCEPT ![m] = "idle"]
        /\ UNCHANGED <<archive_seq, plc, task, orphans, shutdown>>
        /\ UNCHANGED <<requests, losses, restarts, flaps>>
    BY DEF install, redbVars, countVars
  <1>2. HandlerDue' \subseteq HandlerDue
    BY <1>1 DEF HandlerDue, TypeInv, TasksInv
  <1>3. OrphanDue' = OrphanDue /\ Commits' = Commits
    BY <1>1, CommitsFrame DEF OrphanDue
  <1>4. ChannelDue' \subseteq ChannelDue
    <2>1. \A k \in Machines : \A i \in DOMAIN rx'[k] : k # m /\ i \in DOMAIN rx[k] /\ rx'[k] = rx[k]
      BY <1>1 DEF TypeInv, SessionsInv
    <2> QED
      BY <2>1 DEF ChannelDue
  <1>5. Allowed' = Allowed /\ losses' \in Nat /\ restarts' \in Nat
    BY <1>1, AllowedFrame
  <1>6. /\ Cardinality(HandlerDue') \in Nat /\ Cardinality(HandlerDue') <= Cardinality(HandlerDue)
        /\ Cardinality(ChannelDue') \in Nat /\ Cardinality(ChannelDue') <= Cardinality(ChannelDue)
        /\ IsFiniteSet(ChannelDue')
    BY <1>2, <1>4, SizeTypes, SizeKept
  <1>7. CASE plc[m].request = SavePartSheets
    <2>1. m \in AgainDue
      BY <1>1, <1>7 DEF AgainDue
    <2>2. AgainDue' \subseteq AgainDue \ {m}
      BY <1>1 DEF AgainDue, TypeInv, SessionsInv
    <2>3. PublishDue' \subseteq PublishDue \cup {m}
      BY <1>1 DEF PublishDue, TypeInv, SessionsInv
    <2>4. /\ Cardinality(PublishDue') \in Nat /\ Cardinality(AgainDue') \in Nat
          /\ Cardinality(PublishDue') <= Cardinality(PublishDue) + 1
          /\ Cardinality(AgainDue') + 1 <= Cardinality(AgainDue)
      BY <2>1, <2>2, <2>3, SizeTypes, SizeLess, SizeMore
    <2> QED
      BY <1>3, <1>5, <1>6, <2>4, SizeTypes DEF SavesInv, Due
  <1>8. CASE plc[m].request # SavePartSheets
    <2>1. AgainDue' \subseteq AgainDue /\ PublishDue' \subseteq PublishDue
      BY <1>1, <1>8 DEF AgainDue, PublishDue, TypeInv, SessionsInv
    <2>2. /\ Cardinality(AgainDue') \in Nat /\ Cardinality(AgainDue') <= Cardinality(AgainDue)
          /\ Cardinality(PublishDue') \in Nat /\ Cardinality(PublishDue') <= Cardinality(PublishDue)
      BY <2>1, SizeTypes, SizeKept
    <2> QED
      BY <1>3, <1>5, <1>6, <2>2, SizeTypes DEF SavesInv, Due
  <1> QED
    BY <1>7, <1>8

\* A connection that is lost may bring the request of its machine again.
LEMMA DisconnectSaves ==
    ASSUME TypeInv, SavesInv, NEW m \in Machines, Disconnect(m)
    PROVE  SavesInv'
  <1>1. /\ session[m] = "live"
        /\ session' = [session EXCEPT ![m] = "dead"]
        /\ losses' = losses + 1
        /\ UNCHANGED <<archive_seq, plc, sampled, rx, pc, task, orphans, shutdown>>
        /\ UNCHANGED <<requests, restarts, flaps>>
    BY DEF Disconnect, redbVars
  <1>2. AgainDue' \subseteq AgainDue \cup {m} /\ PublishDue' \subseteq PublishDue
    BY <1>1 DEF AgainDue, PublishDue, TypeInv, SessionsInv
  <1>3. /\ ChannelDue' = ChannelDue /\ OrphanDue' = OrphanDue /\ HandlerDue' = HandlerDue
        /\ Commits' = Commits
    BY <1>1, CommitsFrame DEF ChannelDue, OrphanDue, HandlerDue
  <1>4. Allowed' = Allowed + 1 /\ losses' \in Nat /\ restarts' \in Nat
    <2>1. requests \in Nat /\ flaps \in Nat /\ losses \in Nat /\ restarts \in Nat
      BY DEF TypeInv, RestInv, SavesInv
    <2>2. Cardinality(Machines) * restarts \in Nat
      BY <2>1, SizeTypes
    <2> QED
      BY <1>1, <2>1, <2>2 DEF Allowed
  <1>5. /\ Cardinality(AgainDue') \in Nat /\ Cardinality(AgainDue') <= Cardinality(AgainDue) + 1
        /\ Cardinality(PublishDue') \in Nat /\ Cardinality(PublishDue') <= Cardinality(PublishDue)
    BY <1>2, SizeTypes, SizeKept, SizeMore
  <1> QED
    BY <1>3, <1>4, <1>5, SizeTypes DEF SavesInv, Due

\* The handler of a dead session leaves its save to a blocking job, or to the next session.
LEMMA DropDeadSaves ==
    ASSUME TypeInv, SavesInv, NEW m \in Machines, DropDead(m)
    PROVE  SavesInv'
  <1>1. /\ session[m] = "dead" /\ ~shutdown
        /\ session' = [session EXCEPT ![m] = "none"]
        /\ pc' = [pc EXCEPT ![m] = "none"]
        /\ task' = [task EXCEPT ![m] = NoTask]
        /\ orphans' = orphans \cup JobOf(m)
        /\ UNCHANGED <<archive_seq, plc, sampled, rx, shutdown>>
        /\ UNCHANGED <<requests, losses, restarts, flaps>>
    BY DEF DropDead, HandlerEnds, redbVars, countVars
  <1>2. AgainDue' \subseteq AgainDue /\ PublishDue' \subseteq PublishDue
    BY <1>1 DEF AgainDue, PublishDue, TypeInv, SessionsInv
  <1>3. HandlerDue' \subseteq HandlerDue \ {m}
    BY <1>1 DEF HandlerDue, TypeInv, TasksInv
  <1>4. ChannelDue' = ChannelDue /\ Commits' = Commits
    BY <1>1, CommitsFrame DEF ChannelDue
  <1>5. /\ Cardinality(AgainDue') \in Nat /\ Cardinality(AgainDue') <= Cardinality(AgainDue)
        /\ Cardinality(PublishDue') \in Nat /\ Cardinality(PublishDue') <= Cardinality(PublishDue)
        /\ Cardinality(HandlerDue') \in Nat /\ Cardinality(HandlerDue') <= Cardinality(HandlerDue)
    BY <1>2, <1>3, SizeTypes, SizeKept
  <1>6. CASE pc[m] = "save_job"
    <2> DEFINE job == [kind |-> pc[m], machine |-> m, task |-> task[m]]
    <2>1. OrphanDue' \subseteq OrphanDue \cup {job}
      BY <1>1, <1>6 DEF OrphanDue, JobOf
    <2> HIDE DEF job
    <2>2. m \in HandlerDue
      BY <1>6 DEF HandlerDue
    <2>3. /\ Cardinality(HandlerDue') + 1 <= Cardinality(HandlerDue)
          /\ IsFiniteSet(OrphanDue') /\ Cardinality(OrphanDue') \in Nat
          /\ Cardinality(OrphanDue') <= Cardinality(OrphanDue) + 1
      BY <1>3, <2>1, <2>2, SizeTypes, SizeLess, SizeMore
    <2> QED
      BY <1>1, <1>4, <1>5, <2>3, AllowedFrame, SizeTypes DEF SavesInv, Due
  <1>7. CASE pc[m] # "save_job"
    <2>1. OrphanDue' = OrphanDue
      BY <1>1, <1>7 DEF OrphanDue, JobOf
    <2> QED
      BY <1>1, <1>4, <1>5, <2>1, AllowedFrame, SizeTypes DEF SavesInv, Due
  <1> QED
    BY <1>6, <1>7

\* A handler that ends at a stop was due to come again.
LEMMA HandlerStopSaves ==
    ASSUME TypeInv, SavesInv, NEW m \in Machines, HandlerStop(m)
    PROVE  SavesInv'
  <1>1. /\ shutdown /\ pc[m] = "idle"
        /\ session' = [session EXCEPT ![m] = "none"]
        /\ pc' = [pc EXCEPT ![m] = "none"]
        /\ task' = [task EXCEPT ![m] = NoTask]
        /\ UNCHANGED <<archive_seq, plc, sampled, rx, orphans, shutdown>>
        /\ UNCHANGED <<requests, losses, restarts, flaps>>
    BY DEF HandlerStop, HandlerEnds, redbVars, countVars
  <1>2. AgainDue' \subseteq AgainDue /\ PublishDue' \subseteq PublishDue
    BY <1>1 DEF AgainDue, PublishDue, TypeInv, SessionsInv, TasksInv
  <1>3. HandlerDue' \subseteq HandlerDue
    BY <1>1 DEF HandlerDue, TypeInv, TasksInv
  <1>4. ChannelDue' = ChannelDue /\ OrphanDue' = OrphanDue /\ Commits' = Commits
    BY <1>1, CommitsFrame DEF ChannelDue, OrphanDue
  <1>5. /\ Cardinality(AgainDue') \in Nat /\ Cardinality(AgainDue') <= Cardinality(AgainDue)
        /\ Cardinality(PublishDue') \in Nat /\ Cardinality(PublishDue') <= Cardinality(PublishDue)
        /\ Cardinality(HandlerDue') \in Nat /\ Cardinality(HandlerDue') <= Cardinality(HandlerDue)
    BY <1>2, <1>3, SizeTypes, SizeKept
  <1> QED
    BY <1>1, <1>4, <1>5, AllowedFrame, SizeTypes DEF SavesInv, Due

\* A notification that is sent.
LEMMA ChannelSent ==
    ASSUME TypeInv, NEW m \in Machines,
           NEW code \in {BadValue} \cup (Reset .. Unknown), Notify(m, code)
    PROVE  /\ \E x : ChannelDue' \subseteq ChannelDue \cup {x}
           /\ code # SavePartSheets => ChannelDue' \subseteq ChannelDue
  <1> DEFINE e == [code |-> code, n |-> plc[m].n]
             last == Len(rx[m]) + 1
  <1>1. e \in Notification /\ e.code = code
    BY DEF TypeInv, PlcInv, Plc, Notification
  <1>2. rx' = [rx EXCEPT ![m] = Append(rx[m], e)]
    BY DEF Notify
  <1> HIDE DEF e
  <1>3. rx \in [Machines -> Seq(Notification)]
    BY DEF TypeInv, SessionsInv
  <1>4. /\ DOMAIN rx'[m] = DOMAIN rx[m] \cup {last}
        /\ \A i \in DOMAIN rx[m] : rx'[m][i] = rx[m][i]
        /\ rx'[m][last] = e
    BY <1>1, <1>2, <1>3
  <1>5. \A k \in Machines \ {m} : rx'[k] = rx[k]
    BY <1>2, <1>3
  <1> HIDE DEF last
  <1>6. \A k \in Machines : \A i \in DOMAIN rx'[k] : rx'[k][i].code = SavePartSheets =>
          \/ i \in DOMAIN rx[k] /\ rx[k][i].code = SavePartSheets
          \/ k = m /\ i = last /\ code = SavePartSheets
    BY <1>1, <1>4, <1>5
  <1>7. ChannelDue' \subseteq ChannelDue \cup {<<m, last>>}
    BY <1>6 DEF ChannelDue
  <1>8. code # SavePartSheets => ChannelDue' \subseteq ChannelDue
    BY <1>6 DEF ChannelDue
  <1> QED
    BY <1>7, <1>8

\* A code that is notified goes from what the server has to send to the channel.  A bad value
\* makes the server send the code of the request again.
LEMMA PublishSaves ==
    ASSUME TypeInv, SavesInv, NEW m \in Machines, Publish(m) \/ PublishBad(m)
    PROVE  SavesInv'
  <1>1. /\ UNCHANGED <<archive_seq, plc, session, pc, task, orphans, shutdown>>
        /\ UNCHANGED <<requests, losses, restarts>>
    BY DEF Publish, PublishBad, Notify, redbVars, countVars
  <1>2. /\ AgainDue' = AgainDue /\ OrphanDue' = OrphanDue /\ HandlerDue' = HandlerDue
        /\ Commits' = Commits
    BY <1>1, CommitsFrame DEF AgainDue, OrphanDue, HandlerDue
  <1>3. CASE Publish(m)
    <2>1. /\ session[m] = "live" /\ sampled[m] # plc[m].request
          /\ sampled' = [sampled EXCEPT ![m] = plc[m].request]
          /\ Notify(m, plc[m].request)
          /\ UNCHANGED <<requests, losses, restarts, flaps>>
      BY <1>3 DEF Publish, Notify, countVars
    <2>2. plc[m].request \in {BadValue} \cup (Reset .. Unknown)
      BY DEF TypeInv, PlcInv, Plc
    <2>3. Allowed' = Allowed /\ losses' \in Nat /\ restarts' \in Nat
      BY <2>1, AllowedFrame
    <2>4. PublishDue' \subseteq PublishDue \ {m}
      BY <1>1, <2>1 DEF PublishDue, TypeInv, SessionsInv
    <2>5. CASE plc[m].request = SavePartSheets
      <3>1. m \in PublishDue
        BY <2>1, <2>5 DEF PublishDue
      <3>2. /\ Cardinality(PublishDue') \in Nat
            /\ Cardinality(PublishDue') + 1 <= Cardinality(PublishDue)
        BY <2>4, <3>1, SizeTypes, SizeLess
      <3>3. /\ IsFiniteSet(ChannelDue') /\ Cardinality(ChannelDue') \in Nat
            /\ Cardinality(ChannelDue') <= Cardinality(ChannelDue) + 1
        BY <2>1, <2>2, ChannelSent, SizeTypes, SizeMore
      <3> QED
        BY <1>2, <2>3, <3>2, <3>3, SizeTypes DEF SavesInv, Due
    <2>6. CASE plc[m].request # SavePartSheets
      <3>1. ChannelDue' \subseteq ChannelDue
        BY <2>1, <2>2, <2>6, ChannelSent
      <3>2. /\ IsFiniteSet(ChannelDue') /\ Cardinality(ChannelDue') \in Nat
            /\ Cardinality(ChannelDue') <= Cardinality(ChannelDue)
            /\ Cardinality(PublishDue') \in Nat
            /\ Cardinality(PublishDue') <= Cardinality(PublishDue)
        BY <2>4, <3>1, SizeTypes, SizeKept
      <3> QED
        BY <1>2, <2>3, <3>2, SizeTypes DEF SavesInv, Due
    <2> QED
      BY <2>5, <2>6
  <1>4. CASE PublishBad(m)
    <2>1. /\ sampled' = [sampled EXCEPT ![m] = BadValue]
          /\ Notify(m, BadValue)
          /\ flaps' = flaps + 1
      BY <1>4 DEF PublishBad, Notify
    <2>2. Allowed' = Allowed + 1 /\ losses' \in Nat /\ restarts' \in Nat
      <3>1. requests \in Nat /\ flaps \in Nat /\ losses \in Nat /\ restarts \in Nat
        BY DEF TypeInv, RestInv, SavesInv
      <3>2. Cardinality(Machines) * restarts \in Nat
        BY <3>1, SizeTypes
      <3> QED
        BY <1>1, <2>1, <3>1, <3>2 DEF Allowed
    <2>3. PublishDue' \subseteq PublishDue \cup {m}
      BY <1>1, <2>1 DEF PublishDue, TypeInv, SessionsInv
    <2>4. ChannelDue' \subseteq ChannelDue
      BY <2>1, ChannelSent DEF BadValue, SavePartSheets
    <2>5. /\ IsFiniteSet(ChannelDue') /\ Cardinality(ChannelDue') \in Nat
          /\ Cardinality(ChannelDue') <= Cardinality(ChannelDue)
          /\ Cardinality(PublishDue') \in Nat
          /\ Cardinality(PublishDue') <= Cardinality(PublishDue) + 1
      BY <2>3, <2>4, SizeTypes, SizeKept, SizeMore
    <2> QED
      BY <1>2, <2>2, <2>5, SizeTypes DEF SavesInv, Due
  <1> QED
    BY <1>3, <1>4

\* A job that nobody waits for commits once at most, and is gone.
LEMMA OrphanJobSaves ==
    ASSUME TypeInv, SavesInv, NEW job \in orphans, OrphanJob(job)
    PROVE  SavesInv'
  <1>1. /\ orphans' = orphans \ {job}
        /\ UNCHANGED <<plc, session, sampled, rx, pc, task, shutdown>>
        /\ UNCHANGED <<requests, losses, restarts, flaps>>
        /\ \/ UNCHANGED archive_seq
           \/ job.kind = "save_job" /\ Commit(job.machine, job.task)
    BY DEF OrphanJob, next_serial, redbVars, sessionVars, countVars
  <1>2. /\ HandlerDue' = HandlerDue /\ PublishDue' = PublishDue /\ AgainDue' = AgainDue
        /\ ChannelDue' = ChannelDue
    BY <1>1 DEF HandlerDue, PublishDue, AgainDue, ChannelDue
  <1>3. Allowed' = Allowed /\ losses' \in Nat /\ restarts' \in Nat
    BY <1>1, AllowedFrame
  <1>4. OrphanDue' \subseteq OrphanDue \ {job}
    BY <1>1 DEF OrphanDue
  <1>5. CASE UNCHANGED archive_seq
    <2>1. /\ IsFiniteSet(OrphanDue') /\ Cardinality(OrphanDue') \in Nat
          /\ Cardinality(OrphanDue') <= Cardinality(OrphanDue)
      BY <1>4, SizeTypes, SizeKept
    <2>2. Commits' = Commits
      BY <1>5, CommitsFrame
    <2> QED
      BY <1>2, <1>3, <2>1, <2>2, SizeTypes DEF SavesInv, Due
  <1>6. CASE job.kind = "save_job" /\ Commit(job.machine, job.task)
    <2>1. job \in OrphanDue
      BY <1>6 DEF OrphanDue
    <2>2. /\ IsFiniteSet(OrphanDue') /\ Cardinality(OrphanDue') \in Nat
          /\ Cardinality(OrphanDue') + 1 <= Cardinality(OrphanDue)
      BY <1>4, <2>1, SizeTypes, SizeLess
    <2>3. Commits' = Commits + 1
      BY <1>6, CommitCounted
    <2> QED
      BY <1>2, <1>3, <2>2, <2>3, SizeTypes DEF SavesInv, Due
  <1> QED
    BY <1>1, <1>5, <1>6

\* A stop or a crash makes a save due again for each machine at most; nothing else of what
\* the process does makes one due.
LEMMA ProcessSaves ==
    ASSUME TypeInv, SavesInv,
           UNCHANGED vars \/ DrainQueues \/ Shutdown \/ Restart \/ Crash \/ NextDay
    PROVE  SavesInv'
  <1>1. /\ UNCHANGED <<archive_seq, plc, requests, losses, flaps>>
        /\ Commits' = Commits
    BY CommitsFrame DEF vars, DrainQueues, Shutdown, Restart, Crash, NextDay, Restarts, redbVars,
       countVars
  <1>2. CASE Shutdown \/ Crash
    <2>1. restarts' = restarts + 1
      BY <1>2 DEF Shutdown, Crash, Restarts
    <2>2. Allowed' = Allowed + Cardinality(Machines) /\ losses' \in Nat /\ restarts' \in Nat
      <3>1. requests \in Nat /\ flaps \in Nat /\ losses \in Nat /\ restarts \in Nat
        BY DEF TypeInv, RestInv, SavesInv
      <3>2. Cardinality(Machines) * restarts \in Nat /\ Cardinality(Machines) \in Nat
        BY <3>1, SizeTypes
      <3>3. Cardinality(Machines) * (restarts + 1)
              = Cardinality(Machines) * restarts + Cardinality(Machines)
        BY <3>1, SizeTypes
      <3> QED
        BY <1>1, <2>1, <3>1, <3>2, <3>3 DEF Allowed
    <2>3. /\ HandlerDue' \subseteq HandlerDue /\ PublishDue' \subseteq PublishDue
          /\ ChannelDue' \subseteq ChannelDue /\ OrphanDue' \subseteq OrphanDue
      <3>1. CASE Shutdown
        BY <3>1 DEF Shutdown, sessionVars, HandlerDue, PublishDue, ChannelDue, OrphanDue
      <3>2. CASE Crash
        BY <3>2 DEF Crash, HandlerDue, PublishDue, ChannelDue, OrphanDue
      <3> QED
        BY <1>2, <3>1, <3>2
    <2>4. AgainDue' \subseteq Machines
      BY DEF AgainDue
    <2>5. /\ Cardinality(HandlerDue') \in Nat /\ Cardinality(HandlerDue') <= Cardinality(HandlerDue)
          /\ Cardinality(PublishDue') \in Nat /\ Cardinality(PublishDue') <= Cardinality(PublishDue)
          /\ Cardinality(AgainDue') \in Nat /\ Cardinality(AgainDue') <= Cardinality(Machines)
      BY <2>3, <2>4, SizeTypes, SizeKept
    <2>6. /\ IsFiniteSet(ChannelDue') /\ Cardinality(ChannelDue') \in Nat
          /\ Cardinality(ChannelDue') <= Cardinality(ChannelDue)
          /\ IsFiniteSet(OrphanDue') /\ Cardinality(OrphanDue') \in Nat
          /\ Cardinality(OrphanDue') <= Cardinality(OrphanDue)
      BY <2>3, SizeTypes, SizeKept
    <2> QED
      BY <1>1, <2>2, <2>5, <2>6, SizeTypes DEF SavesInv, Due
  <1>3. CASE UNCHANGED vars \/ DrainQueues \/ Restart \/ NextDay
    <2>1. /\ UNCHANGED <<session, sampled, rx, pc, task, orphans, restarts>>
          /\ shutdown' => shutdown
      BY <1>3 DEF vars, DrainQueues, Restart, NextDay, sessionVars, countVars
    <2>2. /\ HandlerDue' = HandlerDue /\ PublishDue' = PublishDue /\ ChannelDue' = ChannelDue
          /\ OrphanDue' = OrphanDue
      BY <1>1, <2>1 DEF HandlerDue, PublishDue, ChannelDue, OrphanDue
    <2>3. AgainDue' \subseteq AgainDue
      BY <1>1, <2>1 DEF AgainDue
    <2>4. Cardinality(AgainDue') \in Nat /\ Cardinality(AgainDue') <= Cardinality(AgainDue)
      BY <2>3, SizeTypes, SizeKept
    <2>5. Allowed' = Allowed /\ losses' \in Nat /\ restarts' \in Nat
      BY <1>1, <2>1, AllowedFrame
    <2> QED
      BY <1>1, <2>2, <2>4, <2>5, SizeTypes DEF SavesInv, Due
  <1> QED
    BY <1>2, <1>3

\* Each step pays for the saves it makes due.
LEMMA NextSaves ==
    ASSUME TypeInv, SavesInv, [Next]_vars
    PROVE  SavesInv'
  <1>1. ASSUME NEW m \in Machines, SetRequest(m) \/ ResetRequest(m)
        PROVE  SavesInv'
    BY <1>1, SetRequestSaves, ResetRequestSaves
  <1>2. ASSUME NEW m \in Machines,
               install(m) \/ Disconnect(m) \/ DropDead(m) \/ Publish(m) \/ PublishBad(m)
        PROVE  SavesInv'
    BY <1>2, InstallSaves, DisconnectSaves, DropDeadSaves, PublishSaves
  <1>3. ASSUME NEW m \in Machines, Handler(m)
        PROVE  SavesInv'
    BY <1>3, ReceiveSaves, HandlerSaves, SaveJobSaves, HandlerStopSaves DEF Handler
  <1>4. CASE \E job \in orphans : OrphanJob(job)
    BY <1>4, OrphanJobSaves
  <1>5. CASE UNCHANGED vars \/ DrainQueues \/ Shutdown \/ Restart \/ Crash \/ NextDay
    BY <1>5, ProcessSaves
  <1> QED
    BY <1>1, <1>2, <1>3, <1>4, <1>5 DEF Next

\* At the start nothing is saved and nothing is due.
LEMMA InitSaves ==
    ASSUME Init
    PROVE  SavesInv
  <1>1. HandlerDue = {} /\ PublishDue = {} /\ AgainDue = {} /\ ChannelDue = {} /\ OrphanDue = {}
    BY DEF Init, HandlerDue, PublishDue, AgainDue, ChannelDue, OrphanDue, Reset, SavePartSheets
  <1>2. Commits = 0 /\ requests = 0 /\ losses = 0 /\ restarts = 0 /\ flaps = 0
    BY DEF Init, CacheInit, Commits
  <1>3. Cardinality(Machines) \in Nat
    BY HandlerAssumption, FS_CardinalityType
  <1> QED
    BY <1>1, <1>2, <1>3, FS_EmptySet DEF SavesInv, Due, Allowed

\* Whatever is lost, stopped, crashed or badly read, and however often: a save is committed once
\* for a request, and once more for a loss, for a bad value, and for each machine at a stop or
\* a crash.
THEOREM SavesBoundedInvariance == Spec => []SavesBounded
  <1>1. Init => SavesInv
    BY InitSaves
  <1>2. TypeInv /\ SavesInv /\ [Next]_vars => SavesInv'
    BY NextSaves
  <1>3. TypeInv /\ SavesInv => SavesBounded
    <2> SUFFICES ASSUME TypeInv, SavesInv PROVE SavesBounded
      OBVIOUS
    <2>1. Commits <= Allowed
      BY SizeTypes DEF SavesInv, Due
    <2> QED
      BY <2>1 DEF Allowed, SavesBounded
  <1> QED
    BY <1>1, <1>2, <1>3, TypeInvariance, PTL DEF Spec
=============================================================================
