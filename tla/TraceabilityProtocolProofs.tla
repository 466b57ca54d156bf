----------------------- MODULE TraceabilityProtocolProofs -----------------------
(***************************************************************************)
(* Proofs of the protocol between the machines and the handlers, for every   *)
(* set of machines and values and any number of requests, losses, restarts   *)
(* and failures.                                                             *)
(*                                                                         *)
(* A bad value that is notified for a request code is a request of its own   *)
(* to the handler, and its answer is one request late.  So what an answer    *)
(* stands for, and what the cache holds of it, is true up to the first bad   *)
(* value (flaps = 0); that what a machine waits for is on its way, until a   *)
(* call fails; and the last section bounds how late answers come whatever    *)
(* happens.                                                                  *)
(***************************************************************************)
EXTENDS TraceabilityHandlerProofs

\* The handler of m holds the code of a request, be it to check it or to execute it, or holds
\* its answer.
HoldsRequest(m) ==
    \/ pc[m] \in {"initial"} \cup Operations
    \/ pc[m] = "respond" /\ task[m].answer # RESPONSE_RESET

HoldsReset(m) == pc[m] = "respond" /\ task[m].answer = RESPONSE_RESET

\* A request that is held is the one the machine waits for, and the last the server has
\* notified; if the machine has its answer already, it is only held to be checked.
HeldInv(m) ==
    HoldsRequest(m) =>
        /\ task[m].request # Reset
        /\ ~is_initial[m]
        /\ \A i \in DOMAIN rx[m] : rx[m][i].code = Reset
        /\ plc[m].response = RESPONSE_RESET =>
            /\ task[m].request = plc[m].request
            /\ task[m].n = plc[m].n
            /\ rx[m] = <<>>
            /\ sampled[m] = plc[m].request
        /\ plc[m].response # RESPONSE_RESET => pc[m] = "initial"

\* The response of a request that the machine still makes is never about to be reset.
ResettingInv(m) ==
    HoldsReset(m) =>
        /\ ~is_initial[m]
        /\ plc[m].response # RESPONSE_RESET => plc[m].request = Reset

\* The channel ends with what the server has notified last; nothing happens before the first
\* notification.
SampledInv(m) ==
    /\ rx[m] # <<>> => sampled[m] = rx[m][Len(rx[m])].code
    /\ sampled[m] = NoCode => rx[m] = <<>> /\ is_initial[m] /\ pc[m] = "idle"
    /\ (plc[m].request # Reset /\ plc[m].response # RESPONSE_RESET) =>
        sampled[m] \in {NoCode, plc[m].request}

\* A request in the channel is the last thing in it and the one the machine waits for.  An
\* answered request is only found where it is checked: first, in the channel of a new session.
ChannelInv(m) ==
    \A i \in DOMAIN rx[m] :
        /\ (rx[m][i].code # Reset /\ plc[m].response = RESPONSE_RESET) =>
            /\ i = Len(rx[m])
            /\ rx[m][i].code = plc[m].request
            /\ rx[m][i].n = plc[m].n
        /\ (rx[m][i].code # Reset /\ plc[m].response # RESPONSE_RESET) =>
            is_initial[m] /\ i = 1
        /\ (rx[m][i].code = Reset /\ plc[m].response # RESPONSE_RESET) =>
            plc[m].request = Reset

SessionInv(m) == HeldInv(m) /\ ResettingInv(m) /\ SampledInv(m) /\ ChannelInv(m)

\* A save found its values in the machine, and they have not moved since.
SavedFor(m, n) ==
    \E x \in saved : /\ x.machine = m
                     /\ x.n = n
                     /\ x.general = plc[m].general
                     /\ x.operation = plc[m].operation

\* The machine shows a version that was saved for the part it shows.
LoadedFor(m) ==
    \E x \in saved : /\ x.part = plc[m].general[PartIdNid]
                     /\ \A id \in GeneralNids \ ExcludedNids : plc[m].general[id] = x.general[id]

\* The machine shows an identifier that was made for its request n.
CreatedFor(m, n) ==
    \E x \in issued : x.machine = m /\ x.n = n /\ x.part = plc[m].general[PartIdNid]

\* What a handler is in the middle of.
WorkInv(m) ==
    /\ pc[m] = "none" <=> session[m] = "none"
    /\ pc[m] \in {"create_read", "create_job", "create_write"} => task[m].request = CreatePartId
    /\ pc[m] \in {"load_read", "load_job", "load_write"} => task[m].request = ReadPartSheet
    /\ pc[m] \in {"save_read", "save_job"} => task[m].request = SavePartSheets
    /\ pc[m] = "save_job" =>
        task[m].general = plc[m].general /\ task[m].operation = plc[m].operation
    /\ pc[m] \in {"load_job", "load_write"} => task[m].part = plc[m].general[PartIdNid]
    /\ pc[m] = "load_write" =>
        \E x \in saved : x.part = task[m].part /\ x.general = task[m].general
    /\ (pc[m] = "respond" /\ task[m].answer = RESPONSE_SUCCESS) =>
        /\ task[m].request = CreatePartId => CreatedFor(m, task[m].n)
        /\ task[m].request = SavePartSheets => SavedFor(m, task[m].n)
        /\ task[m].request = ReadPartSheet => LoadedFor(m)

\* What a machine has been answered.
AckInv(m) ==
    /\ plc[m].response # RESPONSE_RESET => plc[m].answered = plc[m].n
    /\ plc[m].response = RESPONSE_SUCCESS =>
        /\ plc[m].request = CreatePartId => CreatedFor(m, plc[m].n)
        /\ plc[m].request = SavePartSheets => SavedFor(m, plc[m].n)
        /\ plc[m].request = ReadPartSheet => LoadedFor(m)

MachineInv(m) == (session[m] # "none" => SessionInv(m)) /\ WorkInv(m) /\ AckInv(m)

ProtocolInv == \A m \in Machines : MachineInv(m)

-----------------------------------------------------------------------------
(* What a step leaves alone *)

\* A machine, its session and its handler as they are; saves may be committed and identifiers
\* written elsewhere.
SameMachine(m) ==
    /\ plc'[m] = plc[m]
    /\ session'[m] = session[m]
    /\ sampled'[m] = sampled[m]
    /\ rx'[m] = rx[m]
    /\ is_initial'[m] = is_initial[m]
    /\ pc'[m] = pc[m]
    /\ task'[m] = task[m]
    /\ saved \subseteq saved' /\ issued \subseteq issued'

\* Nothing that happens to the others changes what is true of a machine.
LEMMA SameMachineInv ==
    ASSUME NEW m \in Machines, SameMachine(m), MachineInv(m)
    PROVE  MachineInv(m)'
  <1>1. SessionInv(m)' <=> SessionInv(m)
    BY DEF SameMachine, SessionInv, HeldInv, ResettingInv, SampledInv, ChannelInv, HoldsRequest,
           HoldsReset
  <1>2. \A n : SavedFor(m, n) => SavedFor(m, n)'
    BY DEF SameMachine, SavedFor
  <1>3. LoadedFor(m) => LoadedFor(m)'
    BY DEF SameMachine, LoadedFor
  <1>4. \A n : CreatedFor(m, n) => CreatedFor(m, n)'
    BY DEF SameMachine, CreatedFor
  <1>5. WorkInv(m) => WorkInv(m)'
    BY <1>2, <1>3, <1>4 DEF SameMachine, WorkInv
  <1>6. AckInv(m) => AckInv(m)'
    BY <1>2, <1>3, <1>4 DEF SameMachine, AckInv
  <1> QED
    BY <1>1, <1>5, <1>6 DEF MachineInv, SameMachine

\* What m alone has changed is true of all machines when it is true of m.
LEMMA OneMachine ==
    ASSUME ProtocolInv, NEW m \in Machines, MachineInv(m)',
           \A k \in Machines \ {m} : SameMachine(k)
    PROVE  ProtocolInv'
  <1> SUFFICES ASSUME NEW k \in Machines PROVE MachineInv(k)'
    BY DEF ProtocolInv
  <1>1. CASE k = m
    BY <1>1
  <1>2. CASE k # m
    BY <1>2, SameMachineInv DEF ProtocolInv
  <1> QED
    BY <1>1, <1>2

-----------------------------------------------------------------------------
(* The machines and their sessions *)

\* A machine sets a request when it has no answer: no handler holds a request of its, and the
\* channel holds none.
LEMMA SetRequestProtocol ==
    ASSUME TypeInv, ProtocolInv, NEW m \in Machines, SetRequest(m)
    PROVE  ProtocolInv'
  <1>1. PICK v : /\ plc' = [plc EXCEPT ![m] = v]
                 /\ v.response = plc[m].response /\ v.request # Reset
    <2>1. PICK code \in Codes, part \in PartValues, value \in Values \ (PartIds \cup {NoPart}) :
            LET sheets == MachineSheets(m, code, part, value)
            IN  plc' = [plc EXCEPT ![m] = [@ EXCEPT !.request = code, !.n = plc[m].n + 1,
                                                    !.general = sheets.general,
                                                    !.operation = sheets.operation]]
      BY DEF SetRequest
    <2> DEFINE v == plc'[m]
    <2>2. plc' = [plc EXCEPT ![m] = v]
      BY <2>1 DEF TypeInv, PlcInv
    <2>3. v.response = plc[m].response /\ v.request = code
      BY <2>1 DEF TypeInv, PlcInv, Plc
    <2>4. code # Reset
      BY HandlerAssumption DEF Reset
    <2> QED
      BY <2>2, <2>3, <2>4
  <1>2. plc[m].request = Reset /\ plc[m].response = RESPONSE_RESET
    BY DEF SetRequest
  <1>3. UNCHANGED <<sessionVars, pc, task, saved, issued>>
    BY DEF SetRequest, historyVars
  <1>4. MachineInv(m)
    BY DEF ProtocolInv
  <1>5. plc'[m] = v /\ \A k \in Machines \ {m} : SameMachine(k)
    BY <1>1, <1>3 DEF TypeInv, PlcInv, SameMachine, sessionVars
  <1>6. SessionInv(m) => SessionInv(m)'
    BY <1>1, <1>2, <1>3, <1>5 DEF SessionInv, HeldInv, ResettingInv, SampledInv, ChannelInv,
       HoldsRequest, HoldsReset, sessionVars
  <1>7. AckInv(m)'
    BY <1>1, <1>2, <1>5, ResponseCodeTypes DEF AckInv
  <1>8. WorkInv(m)'
    <2>1. ~HoldsRequest(m)
      BY <1>2, <1>4 DEF MachineInv, WorkInv, SessionInv, HeldInv, HoldsRequest, Operations
    <2>2. /\ pc[m] \notin Operations
          /\ ~(pc[m] = "respond" /\ task[m].answer = RESPONSE_SUCCESS)
      BY <2>1, ResponseCodeTypes DEF HoldsRequest
    <2> QED
      BY <1>3, <1>4, <2>2 DEF MachineInv, WorkInv, sessionVars, Operations
  <1> QED
    BY <1>3, <1>4, <1>5, <1>6, <1>7, <1>8, OneMachine DEF MachineInv, sessionVars

\* A machine resets its request once it has the answer.
LEMMA ResetRequestProtocol ==
    ASSUME TypeInv, ProtocolInv, NEW m \in Machines, ResetRequest(m)
    PROVE  ProtocolInv'
  <1>1. /\ plc'[m].request = Reset /\ plc'[m].response = plc[m].response
        /\ plc'[m].n = plc[m].n /\ plc'[m].answered = plc[m].answered
        /\ plc'[m].general = plc[m].general /\ plc'[m].operation = plc[m].operation
    BY DEF ResetRequest, TypeInv, PlcInv, Plc
  <1>2. plc[m].response # RESPONSE_RESET
    BY DEF ResetRequest
  <1>3. UNCHANGED <<sessionVars, pc, task, saved, issued>>
    BY DEF ResetRequest, historyVars
  <1>4. MachineInv(m)
    BY DEF ProtocolInv
  <1>5. \A k \in Machines \ {m} : SameMachine(k)
    BY <1>3 DEF ResetRequest, TypeInv, PlcInv, SameMachine, sessionVars
  <1>6. SessionInv(m) => SessionInv(m)'
    BY <1>1, <1>2, <1>3 DEF SessionInv, HeldInv, ResettingInv, SampledInv, ChannelInv,
       HoldsRequest, HoldsReset, sessionVars
  <1>7. AckInv(m)'
    BY <1>1, <1>4 DEF MachineInv, AckInv, Reset, CreatePartId, SavePartSheets,
       ReadPartSheet
  <1>8. WorkInv(m)'
    <2>1. \A n : SavedFor(m, n) => SavedFor(m, n)'
      BY <1>1, <1>3 DEF SavedFor
    <2>2. LoadedFor(m) => LoadedFor(m)'
      BY <1>1, <1>3 DEF LoadedFor
    <2>3. \A n : CreatedFor(m, n) => CreatedFor(m, n)'
      BY <1>1, <1>3 DEF CreatedFor
    <2> QED
      BY <1>1, <1>3, <1>4, <2>1, <2>2, <2>3 DEF MachineInv, WorkInv, sessionVars
  <1> QED
    BY <1>3, <1>4, <1>5, <1>6, <1>7, <1>8, OneMachine DEF MachineInv, sessionVars

\* A new session: nothing has been notified, the handler is idle.
LEMMA InstallProtocol ==
    ASSUME TypeInv, ProtocolInv, NEW m \in Machines, install(m)
    PROVE  ProtocolInv'
  <1>1. /\ UNCHANGED <<plc, task, saved, issued>>
        /\ session'[m] = "live" /\ sampled'[m] = NoCode /\ rx'[m] = <<>>
        /\ is_initial'[m] = TRUE /\ pc'[m] = "idle"
    BY DEF install, TypeInv, SessionsInv, TasksInv, historyVars
  <1>2. \A k \in Machines \ {m} : SameMachine(k)
    BY DEF install, TypeInv, SessionsInv, TasksInv, historyVars, SameMachine
  <1>3. SessionInv(m)'
    BY <1>1 DEF SessionInv, HeldInv, ResettingInv, SampledInv, ChannelInv, HoldsRequest,
       HoldsReset, Operations
  <1>4. WorkInv(m)'
    BY <1>1 DEF WorkInv
  <1>5. AckInv(m)'
    BY <1>1 DEF ProtocolInv, MachineInv, AckInv, SavedFor, LoadedFor, CreatedFor
  <1> QED
    BY <1>2, <1>3, <1>4, <1>5, OneMachine DEF MachineInv

\* The end of a session, be it dropped or stopped, is the end of its handler.
LEMMA HandlerEndsProtocol ==
    ASSUME TypeInv, ProtocolInv, NEW m \in Machines, HandlerEnds(m), UNCHANGED <<plc, saved, issued>>
    PROVE  ProtocolInv'
  <1>1. session'[m] = "none" /\ pc'[m] = "none"
    BY DEF HandlerEnds, TypeInv, SessionsInv, TasksInv
  <1>2. \A k \in Machines \ {m} : SameMachine(k)
    BY DEF HandlerEnds, TypeInv, SessionsInv, TasksInv, SameMachine
  <1>3. WorkInv(m)'
    BY <1>1 DEF WorkInv
  <1>4. AckInv(m)'
    BY DEF ProtocolInv, MachineInv, AckInv, SavedFor, LoadedFor, CreatedFor
  <1> QED
    BY <1>1, <1>2, <1>3, <1>4, OneMachine DEF MachineInv

\* A session that has lost its connection is still there.
LEMMA DisconnectProtocol ==
    ASSUME TypeInv, ProtocolInv, NEW m \in Machines, Disconnect(m)
    PROVE  ProtocolInv'
  <1>1. /\ UNCHANGED <<plc, sampled, rx, is_initial, pc, task, saved, issued>>
        /\ session[m] # "none" /\ session'[m] # "none"
    BY DEF Disconnect, TypeInv, SessionsInv, historyVars
  <1>2. \A k \in Machines \ {m} : SameMachine(k)
    BY DEF Disconnect, TypeInv, SessionsInv, historyVars, SameMachine
  <1>3. SessionInv(m)'
    BY <1>1 DEF ProtocolInv, MachineInv, SessionInv, HeldInv, ResettingInv, SampledInv, ChannelInv,
       HoldsRequest, HoldsReset
  <1>4. WorkInv(m)' /\ AckInv(m)'
    BY <1>1 DEF ProtocolInv, MachineInv, WorkInv, AckInv, SavedFor, LoadedFor, CreatedFor
  <1> QED
    BY <1>2, <1>3, <1>4, OneMachine DEF MachineInv

\* A notification comes when the request code is another than the last one notified: the
\* channel holds at most one request.
LEMMA PublishProtocol ==
    ASSUME TypeInv, ProtocolInv, NEW m \in Machines, Publish(m)
    PROVE  ProtocolInv'
  <1> DEFINE code == plc[m].request
             item == [code |-> code, n |-> plc[m].n]
  <1>1. /\ UNCHANGED <<plc, session, is_initial, pc, task, saved, issued>>
        /\ sampled[m] # code /\ session[m] # "none"
        /\ sampled'[m] = code
        /\ rx'[m] = Append(rx[m], item)
    BY DEF Publish, Notify, TypeInv, SessionsInv, historyVars
  <1>2. \A k \in Machines \ {m} : SameMachine(k)
    BY DEF Publish, Notify, TypeInv, SessionsInv, historyVars, SameMachine
  <1>3. /\ rx[m] \in Seq(Notification)
        /\ code \in Reset .. Unknown
    BY DEF TypeInv, SessionsInv, PlcInv, Plc
  <1>4. /\ Len(rx'[m]) = Len(rx[m]) + 1 /\ Len(rx[m]) \in Nat
        /\ DOMAIN rx'[m] = 1 .. Len(rx[m]) + 1
        /\ DOMAIN rx[m] = 1 .. Len(rx[m])
        /\ \A i \in DOMAIN rx[m] : rx'[m][i] = rx[m][i]
        /\ rx'[m][Len(rx[m]) + 1].code = code /\ rx'[m][Len(rx[m]) + 1].n = plc[m].n
    BY <1>1, <1>3
  <1>5. SessionInv(m)
    BY <1>1 DEF ProtocolInv, MachineInv
  <1>6. (rx[m] # <<>> => sampled[m] = rx[m][Len(rx[m])].code) /\ (rx[m] = <<>> <=> Len(rx[m]) = 0)
    BY <1>3, <1>5 DEF SessionInv, SampledInv
  <1> HIDE DEF item
  <1>7. SampledInv(m)'
    <2>1. code # NoCode
      BY <1>3 DEF NoCode, Reset, Unknown
    <2> QED
      BY <1>1, <1>4, <2>1 DEF SampledInv
  <1>8. plc[m].response = RESPONSE_RESET => \A i \in DOMAIN rx[m] : rx[m][i].code = Reset
    BY <1>1, <1>4, <1>5, <1>6 DEF SessionInv, ChannelInv
  <1>9. ChannelInv(m)'
    <2>1. CASE plc[m].response = RESPONSE_RESET
      BY <1>1, <1>4, <1>8, <2>1 DEF ChannelInv
    <2>2. CASE plc[m].response # RESPONSE_RESET /\ code = Reset
      BY <1>1, <1>4, <1>5, <2>2 DEF SessionInv, ChannelInv
    <2>3. CASE plc[m].response # RESPONSE_RESET /\ code # Reset
      <3>1. rx[m] = <<>> /\ is_initial[m]
        BY <1>1, <1>5, <2>3 DEF SessionInv, SampledInv
      <3> QED
        BY <1>1, <1>4, <1>6, <2>3, <3>1 DEF ChannelInv
    <2> QED
      BY <2>1, <2>2, <2>3
  <1>10. HeldInv(m)'
    <2> SUFFICES ASSUME HoldsRequest(m) PROVE HeldInv(m)'
      BY <1>1 DEF HeldInv, HoldsRequest
    <2>1. plc[m].response # RESPONSE_RESET
      BY <1>1, <1>5 DEF SessionInv, HeldInv
    <2>2. code = Reset
      BY <1>1, <1>5, <2>1 DEF SessionInv, SampledInv, HeldInv, HoldsRequest, Operations
    <2> QED
      BY <1>1, <1>4, <1>5, <2>1, <2>2 DEF SessionInv, HeldInv
  <1>11. ResettingInv(m)'
    BY <1>1, <1>5 DEF SessionInv, ResettingInv, HoldsReset
  <1>12. WorkInv(m)' /\ AckInv(m)'
    BY <1>1 DEF ProtocolInv, MachineInv, WorkInv, AckInv, SavedFor, LoadedFor, CreatedFor
  <1> QED
    BY <1>2, <1>7, <1>9, <1>10, <1>11, <1>12, OneMachine DEF MachineInv, SessionInv

-----------------------------------------------------------------------------
(* The handlers: how a request is received *)

\* Where the request t of m goes when it is dispatched: to its operation, or to an error.
Dispatched(m, t) ==
    /\ task'[m].request = t.request
    /\ task'[m].n = t.n
    /\ \/ pc'[m] = "create_read" /\ t.request = CreatePartId
       \/ pc'[m] = "load_read" /\ t.request = ReadPartSheet
       \/ pc'[m] = "save_read" /\ t.request = SavePartSheets
       \/ /\ pc'[m] = "respond"
          /\ task'[m].answer \notin {RESPONSE_RESET, RESPONSE_SUCCESS}

\* The handler of m moves.
LEMMA GotoEffect ==
    ASSUME TypeInv, NEW m \in Machines, NEW label, NEW t, Goto(m, label, t)
    PROVE  /\ pc'[m] = label /\ task'[m] = t
           /\ \A k \in Machines \ {m} : pc'[k] = pc[k] /\ task'[k] = task[k]
  BY DEF Goto, TypeInv, TasksInv

\* An answer is that of the request, by its number.
LEMMA AnswerEffect ==
    ASSUME TypeInv, NEW m \in Machines, NEW t, NEW code, Answer(m, t, code)
    PROVE  /\ pc'[m] = "respond"
           /\ task'[m].request = t.request /\ task'[m].n = t.n /\ task'[m].answer = code
           /\ \A k \in Machines \ {m} : pc'[k] = pc[k] /\ task'[k] = task[k]
  <1> DEFINE a == [NoTask EXCEPT !.request = t.request, !.n = t.n, !.answer = code]
  <1>1. Goto(m, "respond", a)
    BY DEF Answer
  <1>2. a.request = t.request /\ a.n = t.n /\ a.answer = code
    BY DEF NoTask
  <1> HIDE DEF a
  <1> QED
    BY <1>1, <1>2, GotoEffect

\* A failure is answered with an error.
LEMMA FailEffect ==
    ASSUME TypeInv, NEW m \in Machines, NEW err \in DOMAIN to_response_code, Fail(m, err)
    PROVE  /\ pc'[m] = "respond"
           /\ task'[m].request = task[m].request /\ task'[m].n = task[m].n
           /\ task'[m].answer \notin {RESPONSE_RESET, RESPONSE_SUCCESS}
           /\ \A k \in Machines \ {m} : pc'[k] = pc[k] /\ task'[k] = task[k]
  <1>1. Answer(m, task[m], to_response_code[err])
    BY DEF Fail
  <1> QED
    BY <1>1, AnswerEffect, ResponseCodeTypes

\* A request is dispatched by its code; the others' handlers stay where they are.
LEMMA HandleRequestEffect ==
    ASSUME TypeInv, NEW m \in Machines, NEW t, handle_request(m, t)
    PROVE  /\ t.request # Reset => Dispatched(m, t)
           /\ t.request = Reset =>
                /\ pc'[m] = "respond" /\ task'[m].request = Reset /\ task'[m].n = t.n
                /\ task'[m].answer = RESPONSE_RESET
           /\ \A k \in Machines \ {m} : pc'[k] = pc[k] /\ task'[k] = task[k]
  <1>1. ASSUME NEW err \in DOMAIN to_response_code, Answer(m, t, to_response_code[err])
        PROVE  /\ Dispatched(m, t)
               /\ \A k \in Machines \ {m} : pc'[k] = pc[k] /\ task'[k] = task[k]
    BY <1>1, AnswerEffect, ResponseCodeTypes DEF Dispatched
  <1>2. ASSUME NEW label, Goto(m, label, t),
               \/ label = "create_read" /\ t.request = CreatePartId
               \/ label = "load_read" /\ t.request = ReadPartSheet
               \/ label = "save_read" /\ t.request = SavePartSheets
        PROVE  /\ Dispatched(m, t)
               /\ \A k \in Machines \ {m} : pc'[k] = pc[k] /\ task'[k] = task[k]
    BY <1>2, GotoEffect DEF Dispatched
  <1>3. CASE t.request = Reset /\ Answer(m, t, RESPONSE_RESET)
    BY <1>3, AnswerEffect
  <1>4. CASE t.request = BadValue /\ Answer(m, t, to_response_code.ValueError)
    BY <1>4, <1>1, Outcomes DEF BadValue, Reset
  <1>5. CASE t.request = Unknown /\ Answer(m, t, to_response_code.UnknownValue)
    BY <1>5, <1>1, Outcomes DEF Unknown, Reset
  <1>6. CASE t.request = CreatePartId /\ Answer(m, t, to_response_code.NotConfigured)
    BY <1>6, <1>1, Outcomes DEF CreatePartId, Reset
  <1>7. CASE t.request = SavePartSheets /\ Answer(m, t, to_response_code.Enqueuing)
    BY <1>7, <1>1, Outcomes DEF SavePartSheets, Reset
  <1>8. CASE \/ t.request = CreatePartId /\ Goto(m, "create_read", t)
             \/ t.request = ReadPartSheet /\ Goto(m, "load_read", t)
             \/ t.request = SavePartSheets /\ Goto(m, "save_read", t)
    BY <1>8, <1>2 DEF CreatePartId, ReadPartSheet, SavePartSheets, Reset
  <1> QED
    BY <1>3, <1>4, <1>5, <1>6, <1>7, <1>8 DEF handle_request

\* A handler that dispatches the request the machine waits for holds it, or its answer.
LEMMA DispatchedWork ==
    ASSUME TypeInv, NEW m \in Machines, NEW t, Dispatched(m, t), session[m] # "none",
           session'[m] = session[m]
    PROVE  WorkInv(m)' /\ HoldsRequest(m)' /\ ~HoldsReset(m)' /\ pc'[m] \notin {"initial", "idle"}
  <1>1. WorkInv(m)'
    BY DEF Dispatched, WorkInv
  <1> QED
    BY <1>1 DEF Dispatched, HoldsRequest, HoldsReset, Operations

\* What the dispatched request leaves alone.
LEMMA CallFrame ==
    ASSUME TypeInv, NEW m \in Machines, handlerFrame, UNCHANGED <<plc, saved, issued>>,
           \A k \in Machines \ {m} : pc'[k] = pc[k] /\ task'[k] = task[k]
    PROVE  \A k \in Machines \ {m} : SameMachine(k)
  BY DEF handlerFrame, sessionVars, SameMachine

\* An answer that is there remains, and so does what it stands for.
LEMMA AckFrame ==
    ASSUME NEW m \in Machines, AckInv(m), plc'[m] = plc[m], saved \subseteq saved',
           issued \subseteq issued'
    PROVE  AckInv(m)'
  BY DEF AckInv, SavedFor, LoadedFor, CreatedFor

\* What is left of a channel when its head is received.
LEMMA ChannelTail ==
    ASSUME NEW s \in Seq(Notification), s # <<>>
    PROVE  /\ Len(s) \in Nat \ {0} /\ DOMAIN s = 1 .. Len(s)
           /\ Head(s) = s[1]
           /\ Tail(s) \in Seq(Notification)
           /\ Len(Tail(s)) = Len(s) - 1 /\ DOMAIN Tail(s) = 1 .. Len(s) - 1
           /\ \A i \in 1 .. Len(s) - 1 : Tail(s)[i] = s[i + 1]
           /\ Tail(s) = <<>> <=> Len(s) = 1
  <1>1. Len(s) \in Nat \ {0} /\ DOMAIN s = 1 .. Len(s) /\ Head(s) = s[1]
    OBVIOUS
  <1>2. Tail(s) \in Seq(Notification) /\ Len(Tail(s)) = Len(s) - 1
    OBVIOUS
  <1>3. \A i \in 1 .. Len(s) - 1 : Tail(s)[i] = s[i + 1]
    OBVIOUS
  <1> DEFINE r == Tail(s)
  <1>4. r \in Seq(Notification) /\ Len(r) = Len(s) - 1
    BY <1>2
  <1> HIDE DEF r
  <1>5. DOMAIN r = 1 .. Len(s) - 1 /\ (r = <<>> <=> Len(r) = 0)
    BY <1>4
  <1>6. r = <<>> <=> Len(s) = 1
    BY <1>1, <1>4, <1>5
  <1> QED
    BY <1>1, <1>2, <1>3, <1>5, <1>6 DEF r

\* A notification is received.  The first of a session is checked; a later one is a reset, or
\* the request that the machine waits for.
LEMMA ReceiveProtocol ==
    ASSUME TypeInv, ProtocolInv, NEW m \in Machines, Receive(m)
    PROVE  ProtocolInv'
  <1> DEFINE t == [NoTask EXCEPT !.request = Head(rx[m]).code, !.n = Head(rx[m]).n]
  <1>1. /\ pc[m] = "idle" /\ rx[m] # <<>>
        /\ rx' = [rx EXCEPT ![m] = Tail(rx[m])]
        /\ is_initial' = [is_initial EXCEPT ![m] = FALSE]
        /\ UNCHANGED <<plc, session, sampled, saved, issued>>
        /\ \/ is_initial[m] /\ t.request # Reset /\ Goto(m, "initial", t)
           \/ ~(is_initial[m] /\ t.request # Reset) /\ handle_request(m, t)
    BY DEF Receive, historyVars
  <1>2. rx[m] \in Seq(Notification)
    BY DEF TypeInv, SessionsInv
  <1>3. /\ rx'[m] = Tail(rx[m]) /\ is_initial'[m] = FALSE
        /\ \A k \in Machines \ {m} : rx'[k] = rx[k] /\ is_initial'[k] = is_initial[k]
    BY <1>1 DEF TypeInv, SessionsInv
  <1>4. /\ Len(rx[m]) \in Nat \ {0} /\ Len(rx'[m]) = Len(rx[m]) - 1
        /\ DOMAIN rx[m] = 1 .. Len(rx[m]) /\ DOMAIN rx'[m] = 1 .. Len(rx[m]) - 1
        /\ rx'[m] = <<>> <=> Len(rx[m]) = 1
    BY <1>1, <1>2, <1>3, ChannelTail
  <1>5. \A i \in 1 .. Len(rx[m]) - 1 :
          /\ rx'[m][i] = rx[m][i + 1]
          /\ i \in DOMAIN rx'[m] /\ i + 1 \in DOMAIN rx[m] /\ i + 1 # 1
    <2>1. \A i \in 1 .. Len(rx[m]) - 1 : rx'[m][i] = rx[m][i + 1]
      BY <1>1, <1>2, <1>3, ChannelTail
    <2> QED
      BY <1>4, <2>1
  <1>6. t.request = rx[m][1].code /\ t.n = rx[m][1].n
    <2>1. Head(rx[m]) = rx[m][1]
      BY <1>1, <1>2, ChannelTail
    <2>2. t.request = Head(rx[m]).code /\ t.n = Head(rx[m]).n
      BY DEF NoTask
    <2> QED
      BY <2>1, <2>2
  <1> HIDE DEF t
  <1>7. session[m] # "none" /\ SessionInv(m) /\ WorkInv(m) /\ AckInv(m)
    BY <1>1 DEF ProtocolInv, MachineInv, WorkInv
  <1>8. AckInv(m)'
    BY <1>1, <1>7, AckFrame
  \* What is left in the channel
  <1>9. ASSUME NEW i \in DOMAIN rx'[m], rx'[m][i].code # Reset
        PROVE  /\ plc[m].response = RESPONSE_RESET /\ t.request = Reset
               /\ i = Len(rx'[m])
               /\ rx'[m][i].code = plc[m].request /\ rx'[m][i].n = plc[m].n
    <2>1. /\ i \in Int /\ i + 1 \in DOMAIN rx[m] /\ i + 1 # 1 /\ 1 \in DOMAIN rx[m]
          /\ rx'[m][i] = rx[m][i + 1]
      BY <1>4, <1>5
    <2>2. plc[m].response = RESPONSE_RESET
      BY <1>7, <1>9, <2>1 DEF SessionInv, ChannelInv
    <2>3. /\ i + 1 = Len(rx[m])
          /\ rx'[m][i].code = plc[m].request /\ rx'[m][i].n = plc[m].n
      BY <1>7, <1>9, <2>1, <2>2 DEF SessionInv, ChannelInv
    <2>4. rx[m][1].code = Reset
      BY <1>7, <2>1, <2>2, <2>3 DEF SessionInv, ChannelInv
    <2> QED
      BY <1>4, <1>6, <2>1, <2>2, <2>3, <2>4
  <1>10. ChannelInv(m)'
    <2>1. ASSUME NEW i \in DOMAIN rx'[m], rx'[m][i].code = Reset, plc[m].response # RESPONSE_RESET
          PROVE  plc[m].request = Reset
      <3>1. i + 1 \in DOMAIN rx[m] /\ rx'[m][i] = rx[m][i + 1]
        BY <1>4, <1>5
      <3> QED
        BY <1>7, <2>1, <3>1 DEF SessionInv, ChannelInv
    <2> QED
      BY <1>1, <1>9, <2>1 DEF ChannelInv
  <1>11. SampledInv(m)'
    <2>1. sampled[m] # NoCode /\ sampled[m] = rx[m][Len(rx[m])].code
      BY <1>1, <1>7 DEF SessionInv, SampledInv
    <2>2. rx'[m] # <<>> => rx'[m][Len(rx'[m])] = rx[m][Len(rx[m])]
      <3> SUFFICES ASSUME rx'[m] # <<>> PROVE rx'[m][Len(rx'[m])] = rx[m][Len(rx[m])]
        OBVIOUS
      <3>1. Len(rx'[m]) \in DOMAIN rx'[m]
        BY <1>4, <1>5
      <3> QED
        BY <1>4, <1>5, <3>1
    <2> QED
      BY <1>1, <1>7, <2>1, <2>2 DEF SessionInv, SampledInv
  <1>12. t.request # Reset /\ plc[m].response = RESPONSE_RESET =>
           /\ t.request = plc[m].request /\ t.n = plc[m].n
           /\ rx'[m] = <<>> /\ sampled[m] = plc[m].request
    <2> SUFFICES ASSUME t.request # Reset, plc[m].response = RESPONSE_RESET
                 PROVE  /\ t.request = plc[m].request /\ t.n = plc[m].n
                        /\ rx'[m] = <<>> /\ sampled[m] = plc[m].request
      OBVIOUS
    <2>1. 1 \in DOMAIN rx[m]
      BY <1>4
    <2>2. 1 = Len(rx[m]) /\ t.request = plc[m].request /\ t.n = plc[m].n
      BY <1>6, <1>7, <2>1 DEF SessionInv, ChannelInv
    <2>3. sampled[m] = rx[m][Len(rx[m])].code
      BY <1>1, <1>7 DEF SessionInv, SampledInv
    <2> QED
      BY <1>4, <1>6, <2>2, <2>3
  <1>13. t.request # Reset /\ plc[m].response # RESPONSE_RESET => is_initial[m]
    <2>1. 1 \in DOMAIN rx[m]
      BY <1>4
    <2> QED
      BY <1>6, <1>7, <2>1 DEF SessionInv, ChannelInv
  <1>14. t.request = Reset /\ plc[m].response # RESPONSE_RESET => plc[m].request = Reset
    <2>1. 1 \in DOMAIN rx[m]
      BY <1>4
    <2> QED
      BY <1>6, <1>7, <2>1 DEF SessionInv, ChannelInv
  <1>15. CASE is_initial[m] /\ t.request # Reset /\ Goto(m, "initial", t)
    <2>1. /\ pc'[m] = "initial" /\ task'[m] = t
          /\ \A k \in Machines \ {m} : pc'[k] = pc[k] /\ task'[k] = task[k]
      BY <1>15, GotoEffect
    <2>2. HeldInv(m)' /\ ResettingInv(m)'
      BY <1>1, <1>3, <1>9, <1>12, <1>15, <2>1 DEF HeldInv, ResettingInv, HoldsReset
    <2>3. WorkInv(m)'
      BY <1>1, <1>7, <2>1 DEF WorkInv
    <2>4. \A k \in Machines \ {m} : SameMachine(k)
      BY <1>1, <1>3, <2>1 DEF SameMachine
    <2> QED
      BY <1>8, <1>10, <1>11, <2>2, <2>3, <2>4, OneMachine DEF MachineInv, SessionInv
  <1>16. CASE ~(is_initial[m] /\ t.request # Reset) /\ handle_request(m, t)
    <2>1. /\ t.request # Reset => Dispatched(m, t)
          /\ t.request = Reset =>
               /\ pc'[m] = "respond" /\ task'[m].request = Reset
               /\ task'[m].answer = RESPONSE_RESET
          /\ \A k \in Machines \ {m} : pc'[k] = pc[k] /\ task'[k] = task[k]
      BY <1>16, HandleRequestEffect
    <2>2. \A k \in Machines \ {m} : SameMachine(k)
      BY <1>1, <1>3, <2>1 DEF SameMachine
    <2>3. CASE t.request # Reset
      <3>1. WorkInv(m)' /\ HoldsRequest(m)' /\ ~HoldsReset(m)'
        BY <1>1, <1>7, <2>1, <2>3, DispatchedWork
      <3>2. plc[m].response = RESPONSE_RESET
        BY <1>13, <1>16, <2>3
      <3>3. HeldInv(m)'
        BY <1>1, <1>3, <1>9, <1>12, <2>1, <2>3, <3>2 DEF HeldInv, Dispatched
      <3> QED
        BY <1>8, <1>10, <1>11, <2>2, <3>1, <3>3, OneMachine DEF MachineInv, SessionInv, ResettingInv
    <2>4. CASE t.request = Reset
      <3>1. HeldInv(m)' /\ ResettingInv(m)'
        BY <1>1, <1>3, <1>14, <2>1, <2>4 DEF HeldInv, ResettingInv, HoldsRequest, Operations
      <3>2. WorkInv(m)'
        BY <1>1, <1>7, <2>1, <2>4, ResponseCodeTypes DEF WorkInv
      <3> QED
        BY <1>8, <1>10, <1>11, <2>2, <3>1, <3>2, OneMachine DEF MachineInv, SessionInv
    <2> QED
      BY <2>3, <2>4
  <1> QED
    BY <1>1, <1>15, <1>16

\* The first request of a session is checked: it is dispatched if it has no answer.
LEMMA InitialProtocol ==
    ASSUME TypeInv, ProtocolInv, NEW m \in Machines, is_initial_request_answered(m)
    PROVE  ProtocolInv'
  <1>1. /\ pc[m] = "initial" /\ handlerFrame /\ UNCHANGED <<plc, saved, issued>>
        /\ \/ plc[m].response = RESPONSE_RESET /\ handle_request(m, task[m])
           \/ Goto(m, "idle", NoTask)
    BY DEF is_initial_request_answered, historyVars
  <1>2. session[m] # "none" /\ SessionInv(m) /\ WorkInv(m) /\ AckInv(m)
    BY <1>1 DEF ProtocolInv, MachineInv, WorkInv
  <1>3. HoldsRequest(m) /\ task[m].request # Reset
    BY <1>1, <1>2 DEF HoldsRequest, SessionInv, HeldInv
  <1>4. UNCHANGED <<session, sampled, rx, is_initial>>
    BY <1>1 DEF handlerFrame, sessionVars
  <1>5. AckInv(m)'
    BY <1>1, <1>2, AckFrame
  <1>6. CASE plc[m].response = RESPONSE_RESET /\ handle_request(m, task[m])
    <2>1. /\ Dispatched(m, task[m])
          /\ \A k \in Machines \ {m} : pc'[k] = pc[k] /\ task'[k] = task[k]
      BY <1>3, <1>6, HandleRequestEffect
    <2>2. \A k \in Machines \ {m} : SameMachine(k)
      BY <1>1, <2>1, CallFrame
    <2>3. WorkInv(m)' /\ HoldsRequest(m)' /\ ~HoldsReset(m)' /\ pc'[m] \notin {"initial", "idle"}
      BY <1>2, <1>4, <2>1, DispatchedWork
    <2>4. HeldInv(m)'
      BY <1>1, <1>2, <1>3, <1>4, <1>6, <2>1 DEF SessionInv, HeldInv, Dispatched
    <2>5. SampledInv(m)' /\ ChannelInv(m)'
      BY <1>1, <1>2, <1>4 DEF SessionInv, SampledInv, ChannelInv
    <2> QED
      BY <1>5, <2>2, <2>3, <2>4, <2>5, OneMachine DEF MachineInv, SessionInv, ResettingInv
  <1>7. CASE Goto(m, "idle", NoTask)
    <2>1. /\ pc'[m] = "idle" /\ task'[m] = NoTask
          /\ \A k \in Machines \ {m} : pc'[k] = pc[k] /\ task'[k] = task[k]
      BY <1>7, GotoEffect
    <2>2. \A k \in Machines \ {m} : SameMachine(k)
      BY <1>1, <2>1, CallFrame
    <2>3. HeldInv(m)' /\ ResettingInv(m)'
      BY <2>1 DEF HeldInv, ResettingInv, HoldsRequest, HoldsReset, Operations
    <2>4. SampledInv(m)' /\ ChannelInv(m)'
      BY <1>1, <1>2, <1>4, <2>1 DEF SessionInv, SampledInv, ChannelInv
    <2>5. WorkInv(m)'
      BY <1>2, <1>4, <2>1 DEF WorkInv
    <2> QED
      BY <1>5, <2>2, <2>3, <2>4, <2>5, OneMachine DEF MachineInv, SessionInv
  <1> QED
    BY <1>1, <1>6, <1>7

-----------------------------------------------------------------------------
(* The handlers: how a request is executed *)

\* The general part sheet of m may be written, nothing else that a machine holds.
SheetWritten(m) ==
    /\ \A k \in Machines \ {m} : plc'[k] = plc[k]
    /\ plc'[m].request = plc[m].request /\ plc'[m].response = plc[m].response
    /\ plc'[m].n = plc[m].n /\ plc'[m].answered = plc[m].answered
    /\ plc'[m].operation = plc[m].operation

\* A step of an operation keeps hold of the request, or answers it.
LEMMA OperationStep ==
    ASSUME TypeInv, ProtocolInv, NEW m \in Machines, pc[m] \in Operations,
           handlerFrame, SheetWritten(m), saved \subseteq saved', issued \subseteq issued',
           \A k \in Machines \ {m} : pc'[k] = pc[k] /\ task'[k] = task[k],
           task'[m].request = task[m].request, task'[m].n = task[m].n,
           \/ pc'[m] \in Operations
           \/ pc'[m] = "respond" /\ task'[m].answer # RESPONSE_RESET,
           WorkInv(m)'
    PROVE  ProtocolInv'
  <1>1. session[m] # "none" /\ SessionInv(m)
    BY DEF ProtocolInv, MachineInv, WorkInv, Operations
  <1>2. UNCHANGED <<session, sampled, rx, is_initial>>
    BY DEF handlerFrame, sessionVars
  <1>3. HoldsRequest(m) /\ plc[m].response = RESPONSE_RESET
    BY <1>1 DEF HoldsRequest, SessionInv, HeldInv, Operations
  <1>4. HeldInv(m)'
    <2>1. /\ task[m].request # Reset /\ ~is_initial[m]
          /\ \A i \in DOMAIN rx[m] : rx[m][i].code = Reset
          /\ task[m].request = plc[m].request /\ task[m].n = plc[m].n
          /\ rx[m] = <<>> /\ sampled[m] = plc[m].request
      BY <1>1, <1>3 DEF SessionInv, HeldInv
    <2>2. /\ plc'[m].request = plc[m].request /\ plc'[m].n = plc[m].n
          /\ plc'[m].response = RESPONSE_RESET
      BY <1>3 DEF SheetWritten
    <2> QED
      BY <1>2, <2>1, <2>2 DEF HeldInv
  <1>5. ResettingInv(m)'
    BY DEF ResettingInv, HoldsReset, Operations
  <1>6. ChannelInv(m)'
    <2>1. rx'[m] = <<>>
      BY <1>1, <1>2, <1>3 DEF SessionInv, HeldInv
    <2> QED
      BY <2>1 DEF ChannelInv
  <1>7. SampledInv(m)'
    BY <1>1, <1>2, <1>3 DEF SessionInv, SampledInv, SheetWritten, Operations
  <1>8. AckInv(m)'
    BY <1>3, ResponseCodeTypes DEF AckInv, SheetWritten
  <1>9. \A k \in Machines \ {m} : SameMachine(k)
    BY <1>2 DEF SheetWritten, SameMachine
  <1> QED
    BY <1>4, <1>5, <1>6, <1>7, <1>8, <1>9, OneMachine DEF MachineInv, SessionInv

\* An operation that fails.
LEMMA FailStep ==
    ASSUME TypeInv, ProtocolInv, NEW m \in Machines, pc[m] \in Operations,
           handlerFrame, SheetWritten(m), saved \subseteq saved', issued \subseteq issued',
           NEW err \in DOMAIN to_response_code, Fail(m, err)
    PROVE  ProtocolInv'
  <1>1. /\ pc'[m] = "respond"
        /\ task'[m].request = task[m].request /\ task'[m].n = task[m].n
        /\ task'[m].answer \notin {RESPONSE_RESET, RESPONSE_SUCCESS}
        /\ \A k \in Machines \ {m} : pc'[k] = pc[k] /\ task'[k] = task[k]
    BY FailEffect
  <1>2. WorkInv(m)'
    BY <1>1 DEF ProtocolInv, MachineInv, WorkInv, handlerFrame, sessionVars, Operations
  <1> QED
    BY <1>1, <1>2, OperationStep

\* Nothing is written, or the part identifier.
LEMMA PartWritten ==
    ASSUME TypeInv, NEW m \in Machines, UNCHANGED plc \/ WritePart(m)
    PROVE  SheetWritten(m)
  BY DEF WritePart, TypeInv, PlcInv, Plc, SheetWritten

\* Nodes of the general part sheet are written.
LEMMA NodesWritten ==
    ASSUME TypeInv, NEW m \in Machines, NEW ids, WriteSheet(m, ids)
    PROVE  /\ SheetWritten(m)
           /\ \A id \in GeneralNids :
                plc'[m].general[id] = IF id \in ids THEN task[m].general[id] ELSE plc[m].general[id]
  BY DEF WriteSheet, TypeInv, PlcInv, Plc, SheetWritten

\* Request 1.
LEMMA CreateProtocol ==
    ASSUME TypeInv, ProtocolInv, NEW m \in Machines,
           CreateRead(m) \/ CreateJob(m) \/ CreateWrite(m)
    PROVE  ProtocolInv'
  <1>1. /\ pc[m] \in {"create_read", "create_job", "create_write"} /\ pc[m] \in Operations
        /\ handlerFrame /\ saved \subseteq saved' /\ issued \subseteq issued'
        /\ UNCHANGED plc \/ WritePart(m)
    BY DEF CreateRead, CreateJob, CreateWrite, WritePart, historyVars, Operations
  <1>2. SheetWritten(m)
    BY <1>1, PartWritten
  <1>3. CASE \E err \in DOMAIN to_response_code : Fail(m, err)
    BY <1>1, <1>2, <1>3, FailStep
  <1>4. WorkInv(m) /\ session[m] # "none" /\ session'[m] = session[m]
    BY <1>1 DEF ProtocolInv, MachineInv, WorkInv, handlerFrame, sessionVars
  <1>5. task[m].request = CreatePartId
    BY <1>1, <1>4 DEF WorkInv
  <1>6. ASSUME NEW label \in {"create_job", "create_write"}, NEW t, Goto(m, label, t),
               t.request = task[m].request, t.n = task[m].n
        PROVE  ProtocolInv'
    <2>1. /\ pc'[m] = label /\ task'[m] = t
          /\ \A k \in Machines \ {m} : pc'[k] = pc[k] /\ task'[k] = task[k]
      BY <1>6, GotoEffect
    <2>2. WorkInv(m)'
      BY <1>4, <1>5, <1>6, <2>1 DEF WorkInv
    <2>3. pc'[m] \in Operations
      BY <2>1 DEF Operations
    <2> QED
      BY <1>1, <1>2, <1>6, <2>1, <2>2, <2>3, OperationStep
  <1>7. CASE WritePart(m) /\ Answer(m, task[m], RESPONSE_SUCCESS)
    <2>1. /\ pc'[m] = "respond"
          /\ task'[m].request = task[m].request /\ task'[m].n = task[m].n
          /\ task'[m].answer = RESPONSE_SUCCESS
          /\ \A k \in Machines \ {m} : pc'[k] = pc[k] /\ task'[k] = task[k]
      BY <1>7, AnswerEffect
    <2>2. CreatedFor(m, task[m].n)'
      <3> DEFINE x == [machine |-> m, n |-> task[m].n, part |-> task[m].part]
      <3>1. x \in issued' /\ x.machine = m /\ x.n = task'[m].n /\ x.part = task[m].part
        BY <1>7, <2>1 DEF WritePart
      <3>2. plc'[m].general[PartIdNid] = task[m].part
        BY <1>7, HandlerAssumption DEF WritePart, TypeInv, PlcInv, Plc
      <3> HIDE DEF x
      <3> QED
        BY <3>1, <3>2 DEF CreatedFor
    <2>3. WorkInv(m)'
      BY <1>4, <1>5, <2>1, <2>2 DEF WorkInv, CreatePartId, SavePartSheets, ReadPartSheet
    <2> QED
      BY <1>1, <1>2, <2>1, <2>3, ResponseCodeTypes, OperationStep
  <1>8. task[m] \in Task
    BY DEF TypeInv, TasksInv
  <1>9. CASE CreateRead(m)
    <2>1. \/ Goto(m, "create_job", [task[m] EXCEPT !.date = today])
          \/ \E err \in {"ReadVariables", "PartRefValue", "BatchValue"} : Fail(m, err)
      BY <1>9 DEF CreateRead
    <2>2. /\ [task[m] EXCEPT !.date = today].request = task[m].request
          /\ [task[m] EXCEPT !.date = today].n = task[m].n
      BY <1>8 DEF Task
    <2> QED
      BY <1>3, <1>6, <2>1, <2>2, Outcomes
  <1>10. CASE CreateJob(m)
    <2>1. PICK part : \/ Goto(m, "create_write", [task[m] EXCEPT !.part = part])
                      \/ \E err \in {"PartIdentifier", "NextSerial"} : Fail(m, err)
      BY <1>10 DEF CreateJob
    <2>2. /\ [task[m] EXCEPT !.part = part].request = task[m].request
          /\ [task[m] EXCEPT !.part = part].n = task[m].n
      BY <1>8 DEF Task
    <2> QED
      BY <1>3, <1>6, <2>1, <2>2, Outcomes
  <1>11. CASE CreateWrite(m)
    <2>1. \/ WritePart(m) /\ Answer(m, task[m], RESPONSE_SUCCESS)
          \/ Fail(m, "WritePartId")
      BY <1>11 DEF CreateWrite
    <2> QED
      BY <1>3, <1>7, <2>1, Outcomes
  <1> QED
    BY <1>9, <1>10, <1>11

\* Request 2.  What is written comes from one save of the part that the machine shows.
LEMMA LoadProtocol ==
    ASSUME TypeInv, ProtocolInv, NEW m \in Machines,
           LoadRead(m) \/ LoadJob(m) \/ LoadWrite(m)
    PROVE  ProtocolInv'
  <1> DEFINE part == plc[m].general[PartIdNid]
  <1>1. /\ pc[m] \in {"load_read", "load_job", "load_write"} /\ pc[m] \in Operations
        /\ handlerFrame /\ saved' = saved /\ issued' = issued
    BY DEF LoadRead, LoadJob, LoadWrite, historyVars, Operations
  <1>2. WorkInv(m) /\ session[m] # "none" /\ session'[m] = session[m]
    BY <1>1 DEF ProtocolInv, MachineInv, WorkInv, handlerFrame, sessionVars
  <1>3. task[m].request = ReadPartSheet /\ task[m] \in Task
    BY <1>1, <1>2 DEF WorkInv, TypeInv, TasksInv
  <1>4. ASSUME SheetWritten(m), NEW err \in DOMAIN to_response_code, Fail(m, err)
        PROVE  ProtocolInv'
    BY <1>1, <1>4, FailStep
  <1>5. CASE LoadRead(m)
    <2>1. UNCHANGED plc /\ SheetWritten(m)
      BY <1>5, PartWritten DEF LoadRead
    <2>2. \/ Goto(m, "load_job", [task[m] EXCEPT !.part = part])
          \/ \E err \in {"ReadPartId", "PartIdValueRead"} : Fail(m, err)
      BY <1>5 DEF LoadRead
    <2>3. CASE Goto(m, "load_job", [task[m] EXCEPT !.part = part])
      <3>1. /\ pc'[m] = "load_job" /\ task'[m] = [task[m] EXCEPT !.part = part]
            /\ \A k \in Machines \ {m} : pc'[k] = pc[k] /\ task'[k] = task[k]
        BY <2>3, GotoEffect
      <3>2. task'[m].request = task[m].request /\ task'[m].n = task[m].n /\ task'[m].part = part
        BY <1>3, <3>1 DEF Task
      <3>3. WorkInv(m)'
        BY <1>2, <1>3, <2>1, <3>1, <3>2 DEF WorkInv
      <3> QED
        BY <1>1, <2>1, <3>1, <3>2, <3>3, OperationStep DEF Operations
    <2> QED
      BY <1>4, <2>1, <2>2, <2>3, Outcomes
  <1>6. CASE LoadJob(m)
    <2> DEFINE sheet == get_general_part_sheet(task[m].part)
    <2>1. UNCHANGED plc /\ SheetWritten(m) /\ task[m].part = part
      BY <1>2, <1>6, PartWritten DEF LoadJob, WorkInv
    <2>2. \/ /\ SheetCached(task[m].part)
             /\ Goto(m, "load_write", [task[m] EXCEPT !.general = sheet])
          \/ \E err \in {"CacheGet", "CacheMissing"} : Fail(m, err)
      BY <1>6 DEF LoadJob
    <2>3. CASE /\ SheetCached(task[m].part)
               /\ Goto(m, "load_write", [task[m] EXCEPT !.general = sheet])
      <3>1. \E x \in saved : x.part = task[m].part /\ x.general = sheet
        BY <2>3, CachedSheetSaved DEF TypeInv
      <3> HIDE DEF sheet
      <3>2. /\ pc'[m] = "load_write" /\ task'[m] = [task[m] EXCEPT !.general = sheet]
            /\ \A k \in Machines \ {m} : pc'[k] = pc[k] /\ task'[k] = task[k]
        BY <2>3, GotoEffect
      <3>3. /\ task'[m].request = task[m].request /\ task'[m].n = task[m].n
            /\ task'[m].part = task[m].part /\ task'[m].general = sheet
        BY <1>3, <3>2 DEF Task
      <3>4. WorkInv(m)'
        BY <1>1, <1>2, <1>3, <2>1, <3>1, <3>2, <3>3 DEF WorkInv
      <3> QED
        BY <1>1, <2>1, <3>2, <3>3, <3>4, OperationStep DEF Operations
    <2> QED
      BY <1>4, <2>1, <2>2, <2>3, Outcomes
  <1>7. CASE LoadWrite(m)
    <2> DEFINE ids == DOMAIN task[m].general \ ExcludedNids
    <2>1. \/ WriteSheet(m, ids) /\ Answer(m, task[m], RESPONSE_SUCCESS)
          \/ UNCHANGED plc /\ Fail(m, "WritePartSheet")
          \/ \E some : WriteSheet(m, some) /\ Fail(m, "WritePartSheet")
      BY <1>7 DEF LoadWrite
    <2>2. CASE WriteSheet(m, ids) /\ Answer(m, task[m], RESPONSE_SUCCESS)
      <3>1. ids = GeneralNids \ ExcludedNids
        BY <1>3 DEF Task
      <3> HIDE DEF ids
      <3>2. /\ SheetWritten(m)
            /\ \A id \in GeneralNids :
                 plc'[m].general[id] = IF id \in ids THEN task[m].general[id]
                                       ELSE plc[m].general[id]
        BY <2>2, NodesWritten
      <3>3. /\ pc'[m] = "respond"
            /\ task'[m].request = task[m].request /\ task'[m].n = task[m].n
            /\ task'[m].answer = RESPONSE_SUCCESS
            /\ \A k \in Machines \ {m} : pc'[k] = pc[k] /\ task'[k] = task[k]
        BY <2>2, AnswerEffect
      <3>4. /\ pc[m] = "load_write" /\ task[m].part = part
            /\ task[m].general[PartIdNid] = task[m].part
        BY <1>2, <1>7 DEF LoadWrite, WorkInv, TypeInv, TasksInv, JobReady
      <3>5. plc'[m].general[PartIdNid] = part
        BY <3>2, <3>4, HandlerAssumption
      <3>6. PICK x \in saved : x.part = task[m].part /\ x.general = task[m].general
        BY <1>2, <3>4 DEF WorkInv
      <3>7. LoadedFor(m)'
        <4>1. \A id \in GeneralNids \ ExcludedNids : plc'[m].general[id] = x.general[id]
          BY <3>1, <3>2, <3>6
        <4>2. x \in saved' /\ x.part = plc'[m].general[PartIdNid]
          BY <1>1, <3>4, <3>5, <3>6
        <4> QED
          BY <4>1, <4>2 DEF LoadedFor
      <3>8. WorkInv(m)'
        BY <1>2, <1>3, <3>3, <3>7 DEF WorkInv, CreatePartId, ReadPartSheet, SavePartSheets
      <3> QED
        BY <1>1, <3>2, <3>3, <3>8, ResponseCodeTypes, OperationStep
    <2> HIDE DEF ids
    <2>3. CASE UNCHANGED plc /\ Fail(m, "WritePartSheet")
      BY <1>4, <2>3, PartWritten, Outcomes
    <2>4. CASE \E some : WriteSheet(m, some) /\ Fail(m, "WritePartSheet")
      <3>1. SheetWritten(m)
        BY <2>4, NodesWritten
      <3> QED
        BY <1>4, <2>4, <3>1, Outcomes
    <2> QED
      BY <2>1, <2>2, <2>3, <2>4
  <1> QED
    BY <1>5, <1>6, <1>7

\* Request 3.  The values that are committed are those the machine shows when it is answered.
LEMMA SaveProtocol ==
    ASSUME TypeInv, ProtocolInv, NEW m \in Machines, SaveRead(m) \/ SaveJob(m)
    PROVE  ProtocolInv'
  <1>1. /\ pc[m] \in {"save_read", "save_job"} /\ pc[m] \in Operations
        /\ handlerFrame /\ saved \subseteq saved' /\ UNCHANGED <<plc, issued>> /\ SheetWritten(m)
    BY PartWritten DEF SaveRead, SaveJob, Commit, historyVars, Operations
  <1>2. WorkInv(m) /\ session[m] # "none" /\ session'[m] = session[m]
    BY <1>1 DEF ProtocolInv, MachineInv, WorkInv, handlerFrame, sessionVars
  <1>3. task[m].request = SavePartSheets /\ task[m] \in Task
    BY <1>1, <1>2 DEF WorkInv, TypeInv, TasksInv
  <1>4. ASSUME NEW err \in DOMAIN to_response_code, Fail(m, err)
        PROVE  ProtocolInv'
    BY <1>1, <1>4, FailStep
  <1>5. CASE SaveRead(m)
    <2> DEFINE part == plc[m].general[PartIdNid]
               t == [task[m] EXCEPT !.part = part, !.general = plc[m].general,
                                    !.operation = plc[m].operation]
    <2>1. \/ Goto(m, "save_job", t)
          \/ \E err \in {"PartIdValueSave", "ReadPartSheets", "PartSheetValue"} : Fail(m, err)
      BY <1>5 DEF SaveRead
    <2>2. CASE Goto(m, "save_job", t)
      <3>1. /\ t.request = task[m].request /\ t.n = task[m].n
            /\ t.general = plc[m].general /\ t.operation = plc[m].operation
        BY <1>3 DEF Task
      <3> HIDE DEF t
      <3>2. /\ pc'[m] = "save_job" /\ task'[m] = t
            /\ \A k \in Machines \ {m} : pc'[k] = pc[k] /\ task'[k] = task[k]
        BY <2>2, GotoEffect
      <3>3. WorkInv(m)'
        BY <1>1, <1>2, <1>3, <3>1, <3>2 DEF WorkInv
      <3> QED
        BY <1>1, <3>1, <3>2, <3>3, OperationStep DEF Operations
    <2> QED
      BY <1>4, <2>1, <2>2, Outcomes
  <1>6. CASE SaveJob(m)
    <2>1. \/ Commit(m, task[m]) /\ Answer(m, task[m], RESPONSE_SUCCESS)
          \/ Fail(m, "CacheSave")
      BY <1>6 DEF SaveJob
    <2>2. CASE Commit(m, task[m]) /\ Answer(m, task[m], RESPONSE_SUCCESS)
      <3>1. /\ pc'[m] = "respond"
            /\ task'[m].request = task[m].request /\ task'[m].n = task[m].n
            /\ task'[m].answer = RESPONSE_SUCCESS
            /\ \A k \in Machines \ {m} : pc'[k] = pc[k] /\ task'[k] = task[k]
        BY <2>2, AnswerEffect
      <3>2. task[m].general = plc[m].general /\ task[m].operation = plc[m].operation
        BY <1>2, <1>6 DEF SaveJob, WorkInv
      <3>3. SavedFor(m, task[m].n)'
        <4> DEFINE x == [machine |-> m, n |-> task[m].n, part |-> task[m].part,
                         general |-> task[m].general, operation |-> task[m].operation]
        <4>1. x \in saved'
          BY <2>2 DEF Commit
        <4>2. /\ x.machine = m /\ x.n = task'[m].n
              /\ x.general = plc'[m].general /\ x.operation = plc'[m].operation
          BY <1>1, <3>1, <3>2
        <4> HIDE DEF x
        <4> QED
          BY <4>1, <4>2 DEF SavedFor
      <3>4. WorkInv(m)'
        BY <1>1, <1>2, <1>3, <3>1, <3>3 DEF WorkInv, CreatePartId, ReadPartSheet, SavePartSheets
      <3> QED
        BY <1>1, <3>1, <3>4, ResponseCodeTypes, OperationStep
    <2> QED
      BY <1>4, <2>1, <2>2, Outcomes
  <1> QED
    BY <1>5, <1>6

\* A response is written while the request it answers is there, or to reset the response of a
\* request that is gone.
LEMMA RespondProtocol ==
    ASSUME TypeInv, ProtocolInv, NEW m \in Machines, Respond(m)
    PROVE  ProtocolInv'
  <1>1. /\ pc[m] = "respond" /\ handlerFrame /\ UNCHANGED <<saved, issued>>
        /\ WriteResponse(m) \/ UNCHANGED plc
        /\ Goto(m, "idle", NoTask)
    BY DEF Respond, historyVars
  <1>2. session[m] # "none" /\ SessionInv(m) /\ WorkInv(m) /\ AckInv(m)
    BY <1>1 DEF ProtocolInv, MachineInv, WorkInv
  <1>3. UNCHANGED <<session, sampled, rx, is_initial>>
    BY <1>1 DEF handlerFrame, sessionVars
  <1>4. /\ pc'[m] = "idle" /\ task'[m] = NoTask
        /\ \A k \in Machines \ {m} : pc'[k] = pc[k] /\ task'[k] = task[k]
    BY <1>1, GotoEffect
  <1>5. HeldInv(m)' /\ ResettingInv(m)'
    BY <1>4 DEF HeldInv, ResettingInv, HoldsRequest, HoldsReset, Operations
  <1>6. WorkInv(m)'
    BY <1>2, <1>3, <1>4 DEF WorkInv
  <1>7. CASE UNCHANGED plc
    <2>1. SampledInv(m)' /\ ChannelInv(m)'
      BY <1>1, <1>2, <1>3, <1>4, <1>7 DEF SessionInv, SampledInv, ChannelInv
    <2>2. AckInv(m)'
      BY <1>1, <1>2, <1>7, AckFrame
    <2>3. \A k \in Machines \ {m} : SameMachine(k)
      BY <1>1, <1>4, <1>7, CallFrame
    <2> QED
      BY <1>5, <1>6, <2>1, <2>2, <2>3, OneMachine DEF MachineInv, SessionInv
  <1>8. CASE WriteResponse(m)
    <2>1. /\ \A k \in Machines \ {m} : plc'[k] = plc[k]
          /\ plc'[m].response = task[m].answer /\ plc'[m].answered = task[m].n
          /\ plc'[m].request = plc[m].request /\ plc'[m].n = plc[m].n
          /\ plc'[m].general = plc[m].general /\ plc'[m].operation = plc[m].operation
      BY <1>8 DEF WriteResponse, TypeInv, PlcInv, Plc
    <2>2. \A k \in Machines \ {m} : SameMachine(k)
      BY <1>1, <1>3, <1>4, <2>1 DEF SameMachine
    <2>3. CASE HoldsRequest(m)
      <3>1. plc[m].response = RESPONSE_RESET /\ task[m].answer # RESPONSE_RESET
        BY <1>1, <1>2, <2>3 DEF SessionInv, HeldInv, HoldsRequest, Operations
      <3>2. /\ task[m].request = plc[m].request /\ task[m].n = plc[m].n
            /\ rx[m] = <<>> /\ sampled[m] = plc[m].request
        BY <1>2, <2>3, <3>1 DEF SessionInv, HeldInv
      <3>3. sampled[m] # NoCode
        BY <1>1, <1>2 DEF SessionInv, SampledInv
      <3>4. SampledInv(m)' /\ ChannelInv(m)'
        BY <1>3, <2>1, <3>2, <3>3 DEF SampledInv, ChannelInv
      <3>5. \A n : SavedFor(m, n) => SavedFor(m, n)'
        BY <1>1, <2>1 DEF SavedFor
      <3>6. LoadedFor(m) => LoadedFor(m)'
        BY <1>1, <2>1 DEF LoadedFor
      <3>7. \A n : CreatedFor(m, n) => CreatedFor(m, n)'
        BY <1>1, <2>1 DEF CreatedFor
      <3>8. task[m].answer = RESPONSE_SUCCESS =>
              /\ plc[m].request = CreatePartId => CreatedFor(m, plc[m].n)
              /\ plc[m].request = SavePartSheets => SavedFor(m, plc[m].n)
              /\ plc[m].request = ReadPartSheet => LoadedFor(m)
        BY <1>1, <1>2, <3>2 DEF WorkInv
      <3>9. AckInv(m)'
        BY <2>1, <3>2, <3>5, <3>6, <3>7, <3>8 DEF AckInv
      <3> QED
        BY <1>5, <1>6, <2>2, <3>4, <3>9, OneMachine DEF MachineInv, SessionInv
    <2>4. CASE ~HoldsRequest(m)
      <3>1. HoldsReset(m) /\ task[m].answer = RESPONSE_RESET
        BY <1>1, <2>4 DEF HoldsRequest, HoldsReset
      <3>2. ~is_initial[m]
        BY <1>2, <3>1 DEF SessionInv, ResettingInv
      <3>3. ChannelInv(m)'
        BY <1>2, <1>3, <2>1, <3>1, <3>2 DEF SessionInv, ChannelInv
      <3>4. SampledInv(m)'
        BY <1>1, <1>2, <1>3, <1>4, <2>1, <3>1 DEF SessionInv, SampledInv
      <3>5. AckInv(m)'
        BY <2>1, <3>1, ResponseCodeTypes DEF AckInv
      <3> QED
        BY <1>5, <1>6, <2>2, <3>3, <3>4, <3>5, OneMachine DEF MachineInv, SessionInv
    <2> QED
      BY <2>3, <2>4
  <1> QED
    BY <1>1, <1>7, <1>8

-----------------------------------------------------------------------------
(* The protocol *)

\* Jobs without a handler, the draining task and the clock change nothing for the machines;
\* a crash takes all the handlers away.
LEMMA OthersProtocol ==
    ASSUME TypeInv, ProtocolInv,
           \/ UNCHANGED vars
           \/ \E job \in orphans : OrphanJob(job)
           \/ DrainQueues \/ Shutdown \/ Restart \/ Crash \/ NextDay
    PROVE  ProtocolInv'
  <1>1. CASE Crash
    <2> SUFFICES ASSUME NEW m \in Machines PROVE MachineInv(m)'
      BY DEF ProtocolInv
    <2>1. /\ session'[m] = "none" /\ pc'[m] = "none" /\ UNCHANGED <<plc, saved, issued>>
      BY <1>1 DEF Crash, historyVars
    <2>2. WorkInv(m)'
      BY <2>1 DEF WorkInv
    <2>3. AckInv(m)'
      BY <2>1, AckFrame DEF ProtocolInv, MachineInv
    <2> QED
      BY <2>1, <2>2, <2>3 DEF MachineInv
  <1>2. CASE \/ UNCHANGED vars
             \/ \E job \in orphans : OrphanJob(job)
             \/ DrainQueues \/ Shutdown \/ Restart \/ NextDay
    <2>1. /\ UNCHANGED <<plc, sessionVars, pc, task>>
          /\ saved \subseteq saved' /\ issued \subseteq issued'
      BY <1>2 DEF vars, OrphanJob, Commit, DrainQueues, Shutdown, Restart, NextDay, historyVars
    <2>2. \A m \in Machines : SameMachine(m)
      BY <2>1 DEF SameMachine, sessionVars
    <2> QED
      BY <2>2, SameMachineInv DEF ProtocolInv
  <1> QED
    BY <1>1, <1>2

\* Each step keeps to the protocol, unless it notifies a bad value.
LEMMA NextProtocol ==
    ASSUME TypeInv, ProtocolInv, [Next]_vars, flaps' = 0
    PROVE  ProtocolInv'
  <1>1. ASSUME NEW m \in Machines,
               SetRequest(m) \/ ResetRequest(m) \/ install(m) \/ Disconnect(m) \/ Publish(m)
        PROVE  ProtocolInv'
    BY <1>1, SetRequestProtocol, ResetRequestProtocol, InstallProtocol, DisconnectProtocol,
       PublishProtocol
  <1>2. ASSUME NEW m \in Machines, DropDead(m) \/ HandlerStop(m)
        PROVE  ProtocolInv'
    BY <1>2, HandlerEndsProtocol DEF DropDead, HandlerStop, historyVars
  <1>3. ASSUME NEW m \in Machines, PublishBad(m)
        PROVE  FALSE
    <2>1. flaps' = flaps + 1 /\ flaps \in Nat
      BY <1>3 DEF PublishBad, TypeInv, RestInv
    <2> QED
      BY <2>1
  <1>4. ASSUME NEW m \in Machines, Handler(m)
        PROVE  ProtocolInv'
    BY <1>2, <1>4, ReceiveProtocol, InitialProtocol, CreateProtocol, LoadProtocol, SaveProtocol,
       RespondProtocol DEF Handler
  <1>5. CASE \/ UNCHANGED vars
             \/ \E job \in orphans : OrphanJob(job)
             \/ DrainQueues \/ Shutdown \/ Restart \/ Crash \/ NextDay
    BY <1>5, OthersProtocol
  <1> QED
    BY <1>1, <1>2, <1>3, <1>4, <1>5 DEF Next

\* At the start no machine has a session, a request or an answer.
LEMMA InitProtocol ==
    ASSUME Init
    PROVE  ProtocolInv
  <1> SUFFICES ASSUME NEW m \in Machines PROVE MachineInv(m)
    BY DEF ProtocolInv
  <1>1. /\ session[m] = "none" /\ pc[m] = "none" /\ plc[m].response = RESPONSE_RESET
    BY DEF Init
  <1> QED
    BY <1>1, ResponseCodeTypes DEF MachineInv, WorkInv, AckInv

\* The bad values that have been notified are counted, and there are no more than the bound
\* allows.
FlapsInv == flaps \in 0 .. MaxFlaps

\* A step in which no bad value is notified counts none.
LEMMA FlapsKept ==
    ASSUME [Next]_vars, ~ \E m \in Machines : PublishBad(m)
    PROVE  flaps' = flaps
  <1>1. ASSUME NEW m \in Machines, Handler(m) PROVE flaps' = flaps
    BY <1>1 DEF Handler, Receive, handle_request, is_initial_request_answered, CreateRead,
       CreateJob, CreateWrite, LoadRead, LoadJob, LoadWrite, SaveRead, SaveJob, Respond,
       HandlerStop, CallOk, CallErr, Fault, countVars
  <1>2. ASSUME NEW m \in Machines,
               \/ SetRequest(m) \/ ResetRequest(m) \/ install(m) \/ Disconnect(m)
               \/ DropDead(m) \/ Publish(m)
        PROVE  flaps' = flaps
    BY <1>2 DEF SetRequest, ResetRequest, install, Disconnect, DropDead, Publish, countVars
  <1>3. CASE \/ UNCHANGED vars
             \/ \E job \in orphans : OrphanJob(job)
             \/ DrainQueues \/ Shutdown \/ Restart \/ Crash \/ NextDay
    BY <1>3 DEF vars, OrphanJob, DrainQueues, Shutdown, Restart, Crash, NextDay, Restarts,
       countVars
  <1> QED
    BY <1>1, <1>2, <1>3 DEF Next

\* A step counts one bad value more, or none.
LEMMA FlapsStep ==
    ASSUME FlapsInv, [Next]_vars
    PROVE  FlapsInv' /\ flaps <= flaps'
  <1>1. MaxFlaps \in Nat /\ flaps \in 0 .. MaxFlaps
    BY HandlerAssumption DEF FlapsInv
  <1>2. ASSUME NEW m \in Machines, PublishBad(m) PROVE flaps' = flaps + 1 /\ flaps < MaxFlaps
    BY <1>2 DEF PublishBad
  <1>3. CASE ~ \E m \in Machines : PublishBad(m)
    <2>1. flaps' = flaps
      BY <1>3, FlapsKept
    <2> QED
      BY <1>1, <2>1 DEF FlapsInv
  <1> QED
    BY <1>1, <1>2, <1>3 DEF FlapsInv

\* The invariant that the theorems below follow from: the protocol is kept up to the first bad
\* value, however many there may be.
LEMMA ProtocolInvariance == Spec => [](TypeInv /\ FlapsInv /\ (flaps = 0 => ProtocolInv))
  <1> DEFINE Inv == TypeInv /\ FlapsInv /\ (flaps = 0 => ProtocolInv)
  <1>1. Init => Inv
    <2>1. MaxFlaps \in Nat
      BY HandlerAssumption
    <2>2. Init => FlapsInv
      BY <2>1 DEF Init, FlapsInv
    <2> QED
      BY <2>2, InitTypes, InitProtocol
  <1>2. Inv /\ [Next]_vars => Inv'
    <2> SUFFICES ASSUME Inv, [Next]_vars PROVE Inv'
      OBVIOUS
    <2>1. TypeInv' /\ FlapsInv' /\ flaps <= flaps' /\ flaps \in Nat
      BY NextTypes, FlapsStep DEF TypeInv, RestInv
    <2>2. flaps' = 0 => flaps = 0
      BY <2>1
    <2> QED
      BY <2>1, <2>2, NextProtocol
  <1> QED
    BY <1>1, <1>2, PTL DEF Spec

\* Up to the first bad value, a machine that has an answer has that of its last request,
\* whatever was lost or restarted in between.
THEOREM AnswersMatch == Spec => [](flaps = 0 => AnswerMatchesRequest)
  <1>1. ProtocolInv => AnswerMatchesRequest
    BY DEF ProtocolInv, MachineInv, AckInv, AnswerMatchesRequest
  <1> QED
    BY <1>1, ProtocolInvariance, PTL

\* Up to the first bad value, a request that is answered is not executed again, by this session
\* or the next one.
THEOREM AnsweredNotHandled == Spec => [](flaps = 0 => AnsweredNotHandledAgain)
  <1>1. ProtocolInv => AnsweredNotHandledAgain
    <2> SUFFICES ASSUME ProtocolInv, NEW m \in Machines, pc[m] \in Operations
                 PROVE  plc[m].response = RESPONSE_RESET
      BY DEF AnsweredNotHandledAgain
    <2>1. session[m] # "none"
      BY DEF ProtocolInv, MachineInv, WorkInv, Operations
    <2> QED
      BY <2>1 DEF ProtocolInv, MachineInv, SessionInv, HeldInv, HoldsRequest, Operations
  <1> QED
    BY <1>1, ProtocolInvariance, PTL

\* Up to the first bad value, a save that is acknowledged is in the tables, with the values that
\* the machine shows.
THEOREM AckedSavesDurable == Spec => [](flaps = 0 => AckedSaveDurable)
  <1>1. ProtocolInv => AckedSaveDurable
    BY DEF ProtocolInv, MachineInv, AckInv, SavedFor, AckedSaveDurable
  <1> QED
    BY <1>1, ProtocolInvariance, PTL

\* Up to the first bad value, a read that is acknowledged leaves one saved version of the part
\* in the machine.
THEOREM LoadedVersions == Spec => [](flaps = 0 => LoadedVersion)
  <1>1. ProtocolInv => LoadedVersion
    BY DEF ProtocolInv, MachineInv, AckInv, LoadedFor, LoadedVersion
  <1> QED
    BY <1>1, ProtocolInvariance, PTL

\* Up to the first bad value, a machine whose creation is acknowledged shows an identifier that
\* was made for that request, and its serial number is counted.
THEOREM CreatedPartsShown == Spec => [](flaps = 0 => CreatedPartShown)
  <1>1. ProtocolInv /\ IdsInv => CreatedPartShown
    BY DEF ProtocolInv, MachineInv, AckInv, CreatedFor, IdsInv, Counted, CreatedPartShown
  <1> QED
    BY <1>1, ProtocolInvariance, IdsInvariance, PTL

\* Where the status of a request variable is never bad, all five hold for good.
THEOREM ProtocolKept ==
    ASSUME MaxFlaps = 0
    PROVE  Spec => [](/\ AnswerMatchesRequest
                      /\ AnsweredNotHandledAgain
                      /\ AckedSaveDurable
                      /\ LoadedVersion
                      /\ CreatedPartShown)
  <1>1. FlapsInv => flaps = 0
    BY DEF FlapsInv
  <1> QED
    BY <1>1, ProtocolInvariance, AnswersMatch, AnsweredNotHandled, AckedSavesDurable,
       LoadedVersions, CreatedPartsShown, PTL
-----------------------------------------------------------------------------
(* What a machine waits for is on its way, bad values or not.                  *)

\* The last notification is the code that the handler holds, unless it is in the channel; an
\* idle handler has written the response that goes with it.
FlightOf(m) ==
    /\ pc[m] # "none"
    /\ rx[m] # <<>> => sampled[m] = rx[m][Len(rx[m])].code
    /\ (rx[m] = <<>> /\ pc[m] # "idle") => task[m].request = sampled[m]
    /\ (rx[m] = <<>> /\ pc[m] = "idle" /\ sampled[m] # NoCode) =>
        (sampled[m] = Reset <=> plc[m].response = RESPONSE_RESET)
    /\ pc[m] \in {"initial"} \cup Operations => task[m].request # Reset
    /\ pc[m] = "respond" => (task[m].answer = RESPONSE_RESET <=> task[m].request = Reset)

FlightInv == \A m \in Machines : session[m] = "live" => FlightOf(m)

\* What m alone has changed is true of all machines when it is true of m.
LEMMA OneFlight ==
    ASSUME FlightInv, NEW m \in Machines, session'[m] = "live" => FlightOf(m)',
           \A k \in Machines \ {m} : SameMachine(k)
    PROVE  FlightInv'
  <1> SUFFICES ASSUME NEW k \in Machines, session'[k] = "live" PROVE FlightOf(k)'
    BY DEF FlightInv
  <1>1. CASE k = m
    BY <1>1
  <1>2. CASE k # m
    <2>1. SameMachine(k) /\ FlightOf(k)
      BY <1>2 DEF FlightInv, SameMachine
    <2> QED
      BY <2>1 DEF FlightOf, SameMachine
  <1> QED
    BY <1>1, <1>2

\* The machines' own steps leave the response, the sessions and the handlers.
LEMMA MachineFlight ==
    ASSUME TypeInv, FlightInv, NEW m \in Machines, SetRequest(m) \/ ResetRequest(m)
    PROVE  FlightInv'
  <1>1. UNCHANGED <<session, sampled, rx, pc, task>>
    BY DEF SetRequest, ResetRequest, sessionVars
  <1>2. \A k \in Machines : plc'[k].response = plc[k].response
    <2>1. plc \in [Machines -> Plc]
      BY DEF TypeInv, PlcInv
    <2>2. CASE ResetRequest(m)
      BY <2>1, <2>2 DEF ResetRequest, Plc
    <2>3. CASE SetRequest(m)
      <3>1. PICK code, part, value :
              LET sheets == MachineSheets(m, code, part, value)
              IN  plc' = [plc EXCEPT ![m] = [@ EXCEPT !.request = code, !.n = plc[m].n + 1,
                                                      !.general = sheets.general,
                                                      !.operation = sheets.operation]]
        BY <2>3 DEF SetRequest
      <3> QED
        BY <2>1, <3>1 DEF Plc
    <2> QED
      BY <2>2, <2>3
  <1> QED
    BY <1>1, <1>2 DEF FlightInv, FlightOf

\* A session that starts has been notified of nothing; one that is lost is live no more.
LEMMA SessionFlight ==
    ASSUME TypeInv, FlightInv, NEW m \in Machines,
           install(m) \/ Disconnect(m) \/ DropDead(m) \/ HandlerStop(m)
    PROVE  FlightInv'
  <1>1. CASE install(m)
    <2>1. /\ sampled'[m] = NoCode /\ rx'[m] = <<>> /\ pc'[m] = "idle"
      BY <1>1 DEF install, TypeInv, SessionsInv, TasksInv
    <2>2. \A k \in Machines \ {m} : SameMachine(k)
      BY <1>1 DEF install, TypeInv, SessionsInv, TasksInv, historyVars, SameMachine
    <2>3. FlightOf(m)'
      BY <2>1 DEF FlightOf, Operations
    <2> QED
      BY <2>2, <2>3, OneFlight
  <1>2. CASE Disconnect(m)
    <2>1. session'[m] # "live"
      BY <1>2 DEF Disconnect, TypeInv, SessionsInv
    <2>2. \A k \in Machines \ {m} : SameMachine(k)
      BY <1>2 DEF Disconnect, TypeInv, SessionsInv, historyVars, SameMachine
    <2> QED
      BY <2>1, <2>2, OneFlight
  <1>3. CASE DropDead(m) \/ HandlerStop(m)
    <2>1. HandlerEnds(m) /\ UNCHANGED <<plc, saved, issued>>
      BY <1>3 DEF DropDead, HandlerStop, historyVars
    <2>2. session'[m] # "live"
      BY <2>1 DEF HandlerEnds, TypeInv, SessionsInv
    <2>3. \A k \in Machines \ {m} : SameMachine(k)
      BY <2>1 DEF HandlerEnds, TypeInv, SessionsInv, TasksInv, SameMachine
    <2> QED
      BY <2>2, <2>3, OneFlight
  <1> QED
    BY <1>1, <1>2, <1>3

\* What is notified is the last in the channel.
LEMMA PublishFlight ==
    ASSUME TypeInv, FlightInv, NEW m \in Machines,
           NEW code \in {BadValue} \cup (Reset .. Unknown), Notify(m, code)
    PROVE  FlightInv'
  <1> DEFINE item == [code |-> code, n |-> plc[m].n]
  <1>1. /\ UNCHANGED <<plc, session, pc, task>>
        /\ session[m] = "live"
        /\ sampled'[m] = code
        /\ rx'[m] = Append(rx[m], item)
    BY DEF Notify, TypeInv, SessionsInv
  <1>2. \A k \in Machines \ {m} : SameMachine(k)
    BY DEF Notify, TypeInv, SessionsInv, historyVars, SameMachine
  <1>3. item \in Notification /\ item.code = code /\ rx[m] \in Seq(Notification)
    BY DEF TypeInv, SessionsInv, PlcInv, Plc, Notification
  <1> HIDE DEF item
  <1>4. rx'[m] # <<>> /\ rx'[m][Len(rx'[m])] = item
    BY <1>1, <1>3
  <1>5. FlightOf(m)
    BY <1>1 DEF FlightInv
  <1>6. FlightOf(m)'
    BY <1>1, <1>3, <1>4, <1>5 DEF FlightOf
  <1> QED
    BY <1>2, <1>6, OneFlight

\* The handler of a live session holds the code it has received.
LEMMA ReceiveFlight ==
    ASSUME TypeInv, FlightInv, NEW m \in Machines, Receive(m)
    PROVE  FlightInv'
  <1> DEFINE t == [NoTask EXCEPT !.request = Head(rx[m]).code, !.n = Head(rx[m]).n]
  <1>1. /\ pc[m] = "idle" /\ rx[m] # <<>>
        /\ rx' = [rx EXCEPT ![m] = Tail(rx[m])]
        /\ is_initial' = [is_initial EXCEPT ![m] = FALSE]
        /\ UNCHANGED <<plc, session, sampled, saved, issued>>
        /\ \/ t.request # Reset /\ Goto(m, "initial", t)
           \/ handle_request(m, t)
    BY DEF Receive, historyVars
  <1>2. /\ rx[m] \in Seq(Notification) /\ rx'[m] = Tail(rx[m])
        /\ \A k \in Machines \ {m} : rx'[k] = rx[k] /\ is_initial'[k] = is_initial[k]
    BY <1>1 DEF TypeInv, SessionsInv
  <1>3. /\ Len(rx[m]) \in Nat \ {0} /\ Len(rx'[m]) = Len(rx[m]) - 1
        /\ \A i \in 1 .. Len(rx[m]) - 1 : rx'[m][i] = rx[m][i + 1]
        /\ rx'[m] = <<>> <=> Len(rx[m]) = 1
    BY <1>1, <1>2, ChannelTail
  <1>4. t.request = rx[m][1].code
    <2>1. Head(rx[m]) = rx[m][1]
      BY <1>1, <1>2, ChannelTail
    <2>2. t.request = Head(rx[m]).code
      BY DEF NoTask
    <2> QED
      BY <2>1, <2>2
  <1> HIDE DEF t
  <1>5. /\ \A k \in Machines \ {m} : pc'[k] = pc[k] /\ task'[k] = task[k]
        /\ \/ pc'[m] = "initial" /\ task'[m].request = t.request /\ t.request # Reset
           \/ Dispatched(m, t) /\ t.request # Reset
           \/ /\ pc'[m] = "respond" /\ task'[m].request = t.request /\ t.request = Reset
              /\ task'[m].answer = RESPONSE_RESET
    BY <1>1, GotoEffect, HandleRequestEffect
  <1>6. \A k \in Machines \ {m} : SameMachine(k)
    BY <1>1, <1>2, <1>5 DEF SameMachine
  <1>7. ASSUME session'[m] = "live" PROVE FlightOf(m)'
    <2>1. FlightOf(m)
      BY <1>1, <1>7 DEF FlightInv
    <2>2. sampled[m] = rx[m][Len(rx[m])].code
      BY <1>1, <2>1 DEF FlightOf
    <2>3. rx'[m] # <<>> => rx'[m][Len(rx'[m])] = rx[m][Len(rx[m])]
      BY <1>3
    <2>4. rx'[m] = <<>> => task'[m].request = sampled'[m]
      BY <1>1, <1>3, <1>4, <1>5, <2>2 DEF Dispatched
    <2>5. pc'[m] \notin {"idle", "none"}
      BY <1>5 DEF Dispatched
    <2>6. /\ pc'[m] \in {"initial"} \cup Operations => task'[m].request # Reset
          /\ pc'[m] = "respond" => (task'[m].answer = RESPONSE_RESET <=> task'[m].request = Reset)
      BY <1>5 DEF Dispatched, Operations
    <2> QED
      BY <1>1, <2>2, <2>3, <2>4, <2>5, <2>6 DEF FlightOf
  <1> QED
    BY <1>6, <1>7, OneFlight

\* A request whose execution has started goes on or is answered, and its answer is not that of
\* a reset.
LEMMA OperationFlight ==
    ASSUME TypeInv, FlightInv, NEW m \in Machines, pc[m] \in Operations,
           handlerFrame, SheetWritten(m), saved \subseteq saved', issued \subseteq issued',
           \A k \in Machines \ {m} : pc'[k] = pc[k] /\ task'[k] = task[k],
           task'[m].request = task[m].request,
           \/ pc'[m] \in Operations
           \/ pc'[m] = "respond" /\ task'[m].answer # RESPONSE_RESET
    PROVE  FlightInv'
  <1>1. UNCHANGED <<session, sampled, rx, is_initial>>
    BY DEF handlerFrame, sessionVars
  <1>2. \A k \in Machines \ {m} : SameMachine(k)
    BY <1>1 DEF SheetWritten, SameMachine
  <1>3. ASSUME session'[m] = "live" PROVE FlightOf(m)'
    <2>1. FlightOf(m)
      BY <1>1, <1>3 DEF FlightInv
    <2> QED
      BY <1>1, <2>1 DEF FlightOf, Operations
  <1> QED
    BY <1>2, <1>3, OneFlight

\* What the steps of the operations have in common, whatever becomes of their calls.
LEMMA OperationEffect ==
    ASSUME TypeInv, NEW m \in Machines,
           \/ CreateRead(m) \/ CreateJob(m) \/ CreateWrite(m)
           \/ LoadRead(m) \/ LoadJob(m) \/ LoadWrite(m)
           \/ SaveRead(m) \/ SaveJob(m)
    PROVE  /\ pc[m] \in Operations /\ handlerFrame /\ SheetWritten(m)
           /\ saved \subseteq saved' /\ issued \subseteq issued'
           /\ \A k \in Machines \ {m} : pc'[k] = pc[k] /\ task'[k] = task[k]
           /\ task'[m].request = task[m].request /\ task'[m].n = task[m].n
           /\ \/ pc'[m] \in Operations
              \/ pc'[m] = "respond" /\ task'[m].answer # RESPONSE_RESET
  <1>1. /\ pc[m] \in Operations /\ handlerFrame
        /\ saved \subseteq saved' /\ issued \subseteq issued'
        /\ UNCHANGED plc \/ WritePart(m) \/ (\E ids : WriteSheet(m, ids))
    BY DEF CreateRead, CreateJob, CreateWrite, LoadRead, LoadJob, LoadWrite, SaveRead, SaveJob,
       Commit, WritePart, historyVars, Operations
  <1>2. SheetWritten(m)
    BY <1>1, PartWritten, NodesWritten
  <1>3. \/ \E label \in Operations : \E t :
             Goto(m, label, t) /\ t.request = task[m].request /\ t.n = task[m].n
        \/ Answer(m, task[m], RESPONSE_SUCCESS)
        \/ \E err \in DOMAIN to_response_code : Fail(m, err)
    <2>1. task[m] \in Task
      BY DEF TypeInv, TasksInv
    <2>2. ASSUME NEW err \in DOMAIN to_response_code, Fail(m, err)
          PROVE  \E e \in DOMAIN to_response_code : Fail(m, e)
      BY <2>2
    <2>3. ASSUME NEW label \in Operations, NEW t, Goto(m, label, t),
                 t.request = task[m].request, t.n = task[m].n
          PROVE  \E l \in Operations : \E u :
                   Goto(m, l, u) /\ u.request = task[m].request /\ u.n = task[m].n
      BY <2>3
    <2>4. CASE CreateRead(m)
      <3>1. /\ [task[m] EXCEPT !.date = today].request = task[m].request
            /\ [task[m] EXCEPT !.date = today].n = task[m].n
        BY <2>1 DEF Task
      <3> QED
        BY <2>2, <2>3, <2>4, <3>1, Outcomes DEF CreateRead, Operations
    <2>5. CASE CreateJob(m)
      <3>1. \A part : /\ [task[m] EXCEPT !.part = part].request = task[m].request
                      /\ [task[m] EXCEPT !.part = part].n = task[m].n
        BY <2>1 DEF Task
      <3> QED
        BY <2>2, <2>3, <2>5, <3>1, Outcomes DEF CreateJob, Operations
    <2>6. CASE LoadRead(m)
      <3>1. \A part : /\ [task[m] EXCEPT !.part = part].request = task[m].request
                      /\ [task[m] EXCEPT !.part = part].n = task[m].n
        BY <2>1 DEF Task
      <3> QED
        BY <2>2, <2>3, <2>6, <3>1, Outcomes DEF LoadRead, Operations
    <2>7. CASE LoadJob(m)
      <3>1. \A sheet : /\ [task[m] EXCEPT !.general = sheet].request = task[m].request
                       /\ [task[m] EXCEPT !.general = sheet].n = task[m].n
        BY <2>1 DEF Task
      <3> QED
        BY <2>2, <2>3, <2>7, <3>1, Outcomes DEF LoadJob, Operations
    <2>8. CASE SaveRead(m)
      <3> DEFINE t == [task[m] EXCEPT !.part = plc[m].general[PartIdNid],
                                      !.general = plc[m].general, !.operation = plc[m].operation]
      <3>1. t.request = task[m].request /\ t.n = task[m].n
        BY <2>1 DEF Task
      <3>2. \/ Goto(m, "save_job", t)
            \/ \E err \in {"PartIdValueSave", "ReadPartSheets", "PartSheetValue"} : Fail(m, err)
        BY <2>8 DEF SaveRead
      <3> HIDE DEF t
      <3> QED
        BY <2>2, <2>3, <3>1, <3>2, Outcomes DEF Operations
    <2>9. CASE CreateWrite(m) \/ LoadWrite(m) \/ SaveJob(m)
      BY <2>2, <2>9, Outcomes DEF CreateWrite, LoadWrite, SaveJob
    <2> QED
      BY <2>4, <2>5, <2>6, <2>7, <2>8, <2>9
  <1>4. CASE \E label \in Operations : \E t :
             Goto(m, label, t) /\ t.request = task[m].request /\ t.n = task[m].n
    BY <1>1, <1>2, <1>4, GotoEffect
  <1>5. CASE Answer(m, task[m], RESPONSE_SUCCESS)
    BY <1>1, <1>2, <1>5, AnswerEffect, ResponseCodeTypes
  <1>6. CASE \E err \in DOMAIN to_response_code : Fail(m, err)
    BY <1>1, <1>2, <1>6, FailEffect
  <1> QED
    BY <1>3, <1>4, <1>5, <1>6

\* An initial request of a live session is dispatched, or has its answer; so much for a call
\* that does not fail.
LEMMA InitialFlight ==
    ASSUME TypeInv, FlightInv, NEW m \in Machines, is_initial_request_answered(m),
           faults' = faults, faults \in Nat
    PROVE  FlightInv'
  <1>1. /\ pc[m] = "initial" /\ handlerFrame /\ UNCHANGED <<plc, saved, issued>>
        /\ \/ handle_request(m, task[m])
           \/ /\ session[m] = "live" => plc[m].response # RESPONSE_RESET
              /\ Goto(m, "idle", NoTask)
    BY DEF is_initial_request_answered, CallErr, Fault, historyVars
  <1>2. UNCHANGED <<session, sampled, rx, is_initial>>
    BY <1>1 DEF handlerFrame, sessionVars
  <1>3. \A k \in Machines \ {m} : pc'[k] = pc[k] /\ task'[k] = task[k]
    BY <1>1, GotoEffect, HandleRequestEffect
  <1>4. \A k \in Machines \ {m} : SameMachine(k)
    BY <1>1, <1>3, CallFrame
  <1>5. ASSUME session'[m] = "live" PROVE FlightOf(m)'
    <2>1. FlightOf(m) /\ task[m].request # Reset
      BY <1>1, <1>2, <1>5 DEF FlightInv, FlightOf
    <2>2. CASE handle_request(m, task[m])
      <3>1. Dispatched(m, task[m])
        BY <2>1, <2>2, HandleRequestEffect
      <3>2. pc'[m] \notin {"idle", "none"}
        BY <3>1 DEF Dispatched
      <3> QED
        BY <1>1, <1>2, <2>1, <3>1, <3>2 DEF FlightOf, Dispatched
    <2>3. CASE plc[m].response # RESPONSE_RESET /\ Goto(m, "idle", NoTask)
      <3>1. pc'[m] = "idle"
        BY <2>3, GotoEffect
      <3> QED
        BY <1>1, <1>2, <2>1, <2>3, <3>1 DEF FlightOf, Operations
    <2> QED
      BY <1>1, <1>2, <1>5, <2>2, <2>3
  <1> QED
    BY <1>4, <1>5, OneFlight

\* The answer is written when the call does not fail.
LEMMA RespondFlight ==
    ASSUME TypeInv, FlightInv, NEW m \in Machines, Respond(m), faults' = faults, faults \in Nat
    PROVE  FlightInv'
  <1>1. /\ pc[m] = "respond" /\ handlerFrame /\ UNCHANGED <<saved, issued>>
        /\ session[m] = "live" => WriteResponse(m)
        /\ WriteResponse(m) \/ UNCHANGED plc
        /\ Goto(m, "idle", NoTask)
    BY DEF Respond, CallOk, CallErr, Fault, historyVars
  <1>2. UNCHANGED <<session, sampled, rx, is_initial>>
    BY <1>1 DEF handlerFrame, sessionVars
  <1>3. /\ pc'[m] = "idle"
        /\ \A k \in Machines \ {m} : pc'[k] = pc[k] /\ task'[k] = task[k]
    BY <1>1, GotoEffect
  <1>4. /\ \A k \in Machines \ {m} : plc'[k] = plc[k]
        /\ WriteResponse(m) => plc'[m].response = task[m].answer
    BY <1>1 DEF WriteResponse, TypeInv, PlcInv, Plc
  <1>5. \A k \in Machines \ {m} : SameMachine(k)
    BY <1>1, <1>2, <1>3, <1>4 DEF SameMachine
  <1>6. ASSUME session'[m] = "live" PROVE FlightOf(m)'
    <2>1. FlightOf(m) /\ plc'[m].response = task[m].answer
      BY <1>1, <1>2, <1>4, <1>6 DEF FlightInv
    <2> QED
      BY <1>1, <1>2, <1>3, <2>1 DEF FlightOf, Operations
  <1> QED
    BY <1>5, <1>6, OneFlight

\* Jobs without a handler, the draining task and the clock change nothing for the sessions; a
\* crash takes them away.
LEMMA OthersFlight ==
    ASSUME TypeInv, FlightInv,
           \/ UNCHANGED vars
           \/ \E job \in orphans : OrphanJob(job)
           \/ DrainQueues \/ Shutdown \/ Restart \/ Crash \/ NextDay
    PROVE  FlightInv'
  <1>1. CASE Crash
    BY <1>1 DEF Crash, FlightInv
  <1>2. CASE \/ UNCHANGED vars
             \/ \E job \in orphans : OrphanJob(job)
             \/ DrainQueues \/ Shutdown \/ Restart \/ NextDay
    <2>1. UNCHANGED <<plc, sessionVars, pc, task>>
      BY <1>2 DEF vars, OrphanJob, DrainQueues, Shutdown, Restart, NextDay
    <2> QED
      BY <2>1 DEF FlightInv, FlightOf, sessionVars
  <1> QED
    BY <1>1, <1>2

\* A step counts one failure more, or none.
LEMMA FaultsStep ==
    ASSUME faults \in Nat, [Next]_vars
    PROVE  faults' = faults \/ faults' = faults + 1
  <1>1. ASSUME NEW m \in Machines, Handler(m) PROVE faults' = faults \/ faults' = faults + 1
    BY <1>1 DEF Handler, Receive, handle_request, is_initial_request_answered, CreateRead,
       CreateJob, CreateWrite, LoadRead, LoadJob, LoadWrite, SaveRead, SaveJob, Respond,
       HandlerStop, CallOk, CallErr, Fault, countVars
  <1>2. ASSUME NEW m \in Machines,
               \/ SetRequest(m) \/ ResetRequest(m) \/ install(m) \/ Disconnect(m)
               \/ DropDead(m) \/ Publish(m) \/ PublishBad(m)
        PROVE  faults' = faults
    BY <1>2 DEF SetRequest, ResetRequest, install, Disconnect, DropDead, Publish, PublishBad,
       countVars
  <1>3. CASE \/ UNCHANGED vars
             \/ \E job \in orphans : OrphanJob(job)
             \/ DrainQueues \/ Shutdown \/ Restart \/ Crash \/ NextDay
    BY <1>3 DEF vars, OrphanJob, DrainQueues, Shutdown, Restart, Crash, NextDay, Restarts,
       countVars
  <1> QED
    BY <1>1, <1>2, <1>3 DEF Next

\* Each step that no call fails in keeps what machines wait for on its way.
LEMMA NextFlight ==
    ASSUME TypeInv, FlightInv, [Next]_vars, faults' = faults, faults \in Nat
    PROVE  FlightInv'
  <1>1. ASSUME NEW m \in Machines, SetRequest(m) \/ ResetRequest(m)
        PROVE  FlightInv'
    BY <1>1, MachineFlight
  <1>2. ASSUME NEW m \in Machines, install(m) \/ Disconnect(m) \/ DropDead(m) \/ HandlerStop(m)
        PROVE  FlightInv'
    BY <1>2, SessionFlight
  <1>3. ASSUME NEW m \in Machines, Publish(m) \/ PublishBad(m)
        PROVE  FlightInv'
    <2>1. plc[m].request \in Reset .. Unknown
      BY DEF TypeInv, PlcInv, Plc
    <2> QED
      BY <1>3, <2>1, PublishFlight DEF Publish, PublishBad
  <1>4. ASSUME NEW m \in Machines, Handler(m)
        PROVE  FlightInv'
    BY <1>2, <1>4, ReceiveFlight, InitialFlight, OperationEffect, OperationFlight, RespondFlight
       DEF Handler
  <1>5. CASE \/ UNCHANGED vars
             \/ \E job \in orphans : OrphanJob(job)
             \/ DrainQueues \/ Shutdown \/ Restart \/ Crash \/ NextDay
    BY <1>5, OthersFlight
  <1> QED
    BY <1>1, <1>2, <1>3, <1>4, <1>5 DEF Next

\* As long as no call has failed, handler and machine do not wait for each other, whatever was
\* lost, stopped, crashed or badly read: what a machine waits for is on its way to it.
THEOREM NothingForgottenInvariance == Spec => []NothingForgotten
  <1> DEFINE Inv == TypeInv /\ faults \in Nat /\ (faults = 0 => FlightInv)
  <1>1. Init => Inv
    <2> SUFFICES ASSUME Init PROVE TypeInv /\ faults \in Nat /\ FlightInv
      OBVIOUS
    <2>1. faults \in Nat
      BY DEF Init
    <2>2. \A m \in Machines : session[m] # "live"
      BY DEF Init
    <2> QED
      BY <2>1, <2>2, InitTypes DEF FlightInv
  <1>2. Inv /\ [Next]_vars => Inv'
    <2> SUFFICES ASSUME Inv, [Next]_vars PROVE Inv'
      OBVIOUS
    <2>1. TypeInv' /\ (faults' = faults \/ faults' = faults + 1)
      BY NextTypes, FaultsStep
    <2>2. CASE faults' = faults
      BY <2>1, <2>2, NextFlight
    <2>3. CASE faults' = faults + 1
      BY <2>1, <2>3
    <2> QED
      BY <2>1, <2>2, <2>3
  <1>3. Inv => NothingForgotten
    <2> SUFFICES ASSUME Inv, faults = 0, NEW m \in Machines, session[m] = "live",
                        (plc[m].request = Reset) # (plc[m].response = RESPONSE_RESET),
                        sampled[m] = plc[m].request, rx[m] = <<>>
                 PROVE  /\ pc[m] \in {"initial", "respond"} \cup Operations
                        /\ task[m].request = plc[m].request
      <3>1. Inv /\ faults = 0 => FlightInv
        OBVIOUS
      <3> QED
        BY <3>1 DEF NothingForgotten, OnItsWay, FlightInv, FlightOf
    <2>1. FlightOf(m)
      BY DEF FlightInv
    <2>2. plc[m].request # NoCode /\ pc[m] \in Labels
      <3>1. TypeInv
        OBVIOUS
      <3>2. plc[m].request \in Reset .. Unknown /\ pc[m] \in Labels
        BY <3>1 DEF TypeInv, PlcInv, Plc, TasksInv
      <3> QED
        BY <3>2 DEF Reset, Unknown, NoCode
    <2>3. pc[m] # "idle"
      BY <2>1, <2>2 DEF FlightOf
    <2> QED
      BY <2>1, <2>2, <2>3 DEF FlightOf, Labels
  <1> QED
    BY <1>1, <1>2, <1>3, PTL DEF Spec
-----------------------------------------------------------------------------
(* Until a connection is lost, the cache holds what a machine was told that it *)
(* had saved.                                                                *)

\* No session has lost its connection, so no job runs without its handler.
AttachedInv ==
    /\ losses \in Nat
    /\ losses = 0 => orphans = {} /\ \A m \in Machines : session[m] # "dead"

\* The last save of m has succeeded: m has the answer, or its handler is about to write it.
SaveShown(m) ==
    \/ plc[m].request = SavePartSheets /\ plc[m].response = RESPONSE_SUCCESS
    \/ pc[m] = "respond" /\ task[m].request = SavePartSheets /\ task[m].answer = RESPONSE_SUCCESS

\* The cache holds the sheet that m shows, if nobody else has saved that part.
CachedFor(m) ==
    LET part == plc[m].general[PartIdNid]
    IN  (\A x \in saved : x.part = part => x.machine = m) =>
            /\ SheetCached(part)
            /\ general_part_sheet[part] = encode_part_sheet_for_cache(plc[m].general)

OwnInv == \A m \in Machines : SaveShown(m) => CachedFor(m)

\* Jobs are only left without a handler by a session that has lost its connection.
LEMMA AttachedStep ==
    ASSUME TypeInv, AttachedInv, [Next]_vars
    PROVE  AttachedInv' /\ (losses' = 0 => losses = 0)
  <1>1. ASSUME NEW m \in Machines, Disconnect(m) PROVE losses' = losses + 1
    BY <1>1 DEF Disconnect
  <1>2. ASSUME NEW m \in Machines, Handler(m)
        PROVE  /\ losses' = losses /\ UNCHANGED orphans
               /\ \A k \in Machines : session'[k] # "dead" \/ session'[k] = session[k]
    <2>1. CASE HandlerStop(m)
      BY <2>1 DEF HandlerStop, HandlerEnds, countVars, TypeInv, SessionsInv
    <2>2. CASE ~HandlerStop(m)
      <3>1. losses' = losses
        BY <1>2, <2>2 DEF Handler, Receive, handle_request, is_initial_request_answered,
           CreateRead, CreateJob, CreateWrite, LoadRead, LoadJob, LoadWrite, SaveRead, SaveJob,
           Respond, CallOk, CallErr, Fault, countVars
      <3>2. UNCHANGED <<session, orphans>>
        BY <1>2, <2>2 DEF Handler, Receive, is_initial_request_answered, CreateRead, CreateJob,
           CreateWrite, LoadRead, LoadJob, LoadWrite, SaveRead, SaveJob, Respond, handlerFrame,
           sessionVars
      <3> QED
        BY <3>1, <3>2
    <2> QED
      BY <2>1, <2>2
  <1>3. ASSUME NEW m \in Machines,
               \/ SetRequest(m) \/ ResetRequest(m) \/ install(m) \/ Publish(m) \/ PublishBad(m)
        PROVE  /\ losses' = losses /\ UNCHANGED orphans
               /\ \A k \in Machines : session'[k] # "dead" \/ session'[k] = session[k]
    BY <1>3 DEF SetRequest, ResetRequest, install, Publish, PublishBad, Notify, countVars,
       sessionVars, TypeInv, SessionsInv
  <1>4. ASSUME NEW m \in Machines, DropDead(m)
        PROVE  losses' = losses /\ losses # 0
    BY <1>4 DEF DropDead, countVars, AttachedInv
  <1>5. CASE \/ UNCHANGED vars
             \/ \E job \in orphans : OrphanJob(job)
             \/ DrainQueues \/ Shutdown \/ Restart \/ Crash \/ NextDay
    <2>1. losses' = losses /\ orphans' \subseteq orphans
      BY <1>5 DEF vars, OrphanJob, DrainQueues, Shutdown, Restart, Crash, NextDay, Restarts,
         countVars
    <2>2. \A k \in Machines : session'[k] # "dead" \/ session'[k] = session[k]
      BY <1>5 DEF vars, OrphanJob, DrainQueues, Shutdown, Restart, Crash, NextDay, sessionVars
    <2> QED
      BY <2>1, <2>2 DEF AttachedInv
  <1> QED
    BY <1>1, <1>2, <1>3, <1>4, <1>5 DEF Next, AttachedInv

\* A step that neither writes to the cache nor makes a save known.
LEMMA QuietOwn ==
    ASSUME OwnInv, UNCHANGED <<general_part_sheet, saved>>,
           \A k \in Machines : SaveShown(k)' => SaveShown(k) /\ plc'[k].general = plc[k].general
    PROVE  OwnInv'
  <1> SUFFICES ASSUME NEW k \in Machines, SaveShown(k)' PROVE CachedFor(k)'
    BY DEF OwnInv
  <1>1. plc'[k].general = plc[k].general /\ CachedFor(k)
    BY DEF OwnInv
  <1> QED
    BY <1>1 DEF CachedFor, SheetCached

\* The machines that a step leaves alone show what they showed.
LEMMA SameShown ==
    ASSUME NEW k \in Machines, SameMachine(k)
    PROVE  /\ SaveShown(k)' => SaveShown(k)
           /\ plc'[k].general = plc[k].general
  BY DEF SameMachine, SaveShown

\* A machine that has no answer, and whose handler has none for it, shows no save.
LEMMA NothingShown ==
    ASSUME TypeInv, ProtocolInv, NEW m \in Machines, plc[m].response = RESPONSE_RESET,
           plc[m].request # SavePartSheets \/ pc[m] # "respond"
    PROVE  ~SaveShown(m)
  <1> SUFFICES ASSUME pc[m] = "respond", task[m].request = SavePartSheets,
                      task[m].answer = RESPONSE_SUCCESS
               PROVE  FALSE
    BY ResponseCodeTypes DEF SaveShown
  <1>1. HoldsRequest(m)
    BY ResponseCodeTypes DEF HoldsRequest
  <1>2. session[m] # "none"
    BY DEF ProtocolInv, MachineInv, WorkInv
  <1>3. HeldInv(m)
    BY <1>2 DEF ProtocolInv, MachineInv, SessionInv
  <1> QED
    BY <1>1, <1>3 DEF HeldInv

\* A machine that sets a request has no answer yet; one that resets it forgets its answer.
LEMMA MachineOwn ==
    ASSUME TypeInv, ProtocolInv, OwnInv, NEW m \in Machines, SetRequest(m) \/ ResetRequest(m)
    PROVE  OwnInv'
  <1>1. UNCHANGED <<general_part_sheet, saved, issued, session, sampled, rx, is_initial, pc, task>>
    BY DEF SetRequest, ResetRequest, redbVars, sessionVars, historyVars
  <1>2. \A k \in Machines \ {m} : plc'[k] = plc[k]
    BY DEF SetRequest, ResetRequest, TypeInv, PlcInv
  <1>3. \A k \in Machines \ {m} : SameMachine(k)
    BY <1>1, <1>2 DEF SameMachine
  <1>4. CASE ResetRequest(m)
    <2>1. /\ plc'[m].request = Reset /\ plc'[m].general = plc[m].general
      BY <1>4 DEF ResetRequest, TypeInv, PlcInv, Plc
    <2>2. SaveShown(m)' => SaveShown(m)
      BY <1>1, <2>1 DEF SaveShown, Reset, SavePartSheets
    <2> QED
      BY <1>1, <1>3, <2>1, <2>2, SameShown, QuietOwn
  <1>5. CASE SetRequest(m)
    <2>1. plc[m].request = Reset /\ plc[m].response = RESPONSE_RESET
      BY <1>5 DEF SetRequest
    <2>2. ~SaveShown(m)
      BY <2>1, NothingShown DEF Reset, SavePartSheets
    <2>3. plc'[m].response = RESPONSE_RESET
      <3>1. PICK code, part, value :
              LET sheets == MachineSheets(m, code, part, value)
              IN  plc' = [plc EXCEPT ![m] = [@ EXCEPT !.request = code, !.n = plc[m].n + 1,
                                                      !.general = sheets.general,
                                                      !.operation = sheets.operation]]
        BY <1>5 DEF SetRequest
      <3> QED
        BY <2>1, <3>1 DEF TypeInv, PlcInv, Plc
    <2>4. ~SaveShown(m)'
      BY <1>1, <2>2, <2>3, ResponseCodeTypes DEF SaveShown
    <2> QED
      BY <1>1, <1>3, <2>4, SameShown, QuietOwn
  <1> QED
    BY <1>4, <1>5

\* Sessions come and go, notifications come in: the answers stay.
LEMMA SessionOwn ==
    ASSUME TypeInv, OwnInv, NEW m \in Machines,
           \/ install(m) \/ DropDead(m) \/ HandlerStop(m) \/ Publish(m) \/ PublishBad(m)
    PROVE  OwnInv'
  <1>1. /\ UNCHANGED <<general_part_sheet, saved, issued, plc>>
        /\ \A k \in Machines : pc'[k] \in {"none", "idle"} \/ (pc'[k] = pc[k] /\ task'[k] = task[k])
    BY DEF install, DropDead, HandlerStop, HandlerEnds, Publish, PublishBad, Notify, redbVars,
       historyVars, TypeInv, TasksInv
  <1>2. \A k \in Machines : SaveShown(k)' => SaveShown(k)
    BY <1>1 DEF SaveShown
  <1> QED
    BY <1>1, <1>2, QuietOwn

\* A request that is received, or found in the first notification, is not a save that has
\* succeeded.
LEMMA ReceivedOwn ==
    ASSUME TypeInv, OwnInv, NEW m \in Machines, Receive(m) \/ is_initial_request_answered(m)
    PROVE  OwnInv'
  <1>1. /\ UNCHANGED <<general_part_sheet, saved, issued, plc>>
        /\ \/ \E label \in {"initial", "idle"} : \E t : Goto(m, label, t)
           \/ \E t : handle_request(m, t)
           \/ UNCHANGED <<pc, task>>
    BY DEF Receive, is_initial_request_answered, redbVars, historyVars
  <1>2. /\ \A k \in Machines \ {m} : pc'[k] = pc[k] /\ task'[k] = task[k]
        /\ \/ pc'[m] # "respond"
           \/ task'[m].answer # RESPONSE_SUCCESS
           \/ pc'[m] = pc[m] /\ task'[m] = task[m]
    <2>1. CASE \E label \in {"initial", "idle"} : \E t : Goto(m, label, t)
      BY <2>1, GotoEffect
    <2>2. CASE \E t : handle_request(m, t)
      BY <2>2, HandleRequestEffect, ResponseCodeTypes DEF Dispatched
    <2>3. CASE UNCHANGED <<pc, task>>
      BY <2>3
    <2> QED
      BY <1>1, <2>1, <2>2, <2>3
  <1>3. \A k \in Machines : SaveShown(k)' => SaveShown(k)
    BY <1>1, <1>2 DEF SaveShown
  <1> QED
    BY <1>1, <1>3, QuietOwn

\* Requests 1 and 2, and the reads of request 3, leave the cache alone and acknowledge no save.
LEMMA OperationOwn ==
    ASSUME TypeInv, ProtocolInv, OwnInv, NEW m \in Machines,
           \/ CreateRead(m) \/ CreateJob(m) \/ CreateWrite(m)
           \/ LoadRead(m) \/ LoadJob(m) \/ LoadWrite(m)
           \/ SaveRead(m)
    PROVE  OwnInv'
  <1>1. /\ pc[m] \in Operations /\ handlerFrame /\ SheetWritten(m)
        /\ \A k \in Machines \ {m} : pc'[k] = pc[k] /\ task'[k] = task[k]
        /\ task'[m].request = task[m].request /\ issued \subseteq issued'
        /\ \/ pc'[m] \in Operations
           \/ pc'[m] = "respond" /\ task'[m].answer # RESPONSE_RESET
    BY OperationEffect
  <1>2. UNCHANGED <<general_part_sheet, saved>>
    BY DEF CreateRead, CreateJob, CreateWrite, LoadRead, LoadJob, LoadWrite, SaveRead, redbVars,
       historyVars, next_serial
  <1>3. plc[m].response = RESPONSE_RESET /\ WorkInv(m)
    <2>1. HoldsRequest(m) /\ session[m] # "none" /\ WorkInv(m) /\ pc[m] # "initial"
      BY <1>1 DEF ProtocolInv, MachineInv, WorkInv, HoldsRequest, Operations
    <2> QED
      BY <2>1 DEF ProtocolInv, MachineInv, SessionInv, HeldInv
  <1>4. ~(pc'[m] = "respond" /\ task'[m].request = SavePartSheets
            /\ task'[m].answer = RESPONSE_SUCCESS)
    <2>1. CASE ~SaveRead(m)
      <3>1. task[m].request \in {CreatePartId, ReadPartSheet}
        BY <1>3, <2>1 DEF WorkInv, CreateRead, CreateJob, CreateWrite, LoadRead, LoadJob, LoadWrite
      <3> QED
        BY <1>1, <3>1 DEF CreatePartId, ReadPartSheet, SavePartSheets
    <2>2. CASE SaveRead(m)
      <3>1. \/ \E t : Goto(m, "save_job", t)
            \/ \E err \in DOMAIN to_response_code : Fail(m, err)
        BY <2>2, Outcomes DEF SaveRead
      <3> QED
        BY <3>1, GotoEffect, FailEffect
    <2> QED
      BY <2>1, <2>2
  <1>5. ~SaveShown(m)'
    BY <1>1, <1>3, <1>4, ResponseCodeTypes DEF SaveShown, SheetWritten
  <1>6. \A k \in Machines \ {m} : SameMachine(k)
    BY <1>1, <1>2 DEF SheetWritten, SameMachine, handlerFrame, sessionVars
  <1> QED
    BY <1>2, <1>5, <1>6, SameShown, QuietOwn

\* The job of a save puts what its machine shows into the cache; another machine that shows the
\* same part is no longer the only one to have saved it.
LEMMA SaveJobOwn ==
    ASSUME TypeInv, ProtocolInv, OwnInv, NEW m \in Machines, SaveJob(m)
    PROVE  OwnInv'
  <1>1. /\ pc[m] = "save_job" /\ pc[m] \in Operations /\ handlerFrame /\ UNCHANGED plc
        /\ \/ Commit(m, task[m])
           \/ UNCHANGED <<redbVars, saved>> /\ Fail(m, "CacheSave")
    BY DEF SaveJob, Operations
  <1>2. \A k \in Machines \ {m} : pc'[k] = pc[k] /\ task'[k] = task[k]
    BY OperationEffect
  <1>3. plc[m].response = RESPONSE_RESET /\ WorkInv(m)
    <2>1. HoldsRequest(m) /\ session[m] # "none" /\ WorkInv(m)
      BY <1>1 DEF ProtocolInv, MachineInv, WorkInv, HoldsRequest
    <2> QED
      BY <1>1, <2>1 DEF ProtocolInv, MachineInv, SessionInv, HeldInv
  <1>4. \A k \in Machines \ {m} : SaveShown(k)' => SaveShown(k)
    BY <1>1, <1>2 DEF SaveShown
  <1>5. CASE Commit(m, task[m])
    <2> DEFINE part == task[m].part
               x == [machine |-> m, n |-> task[m].n, part |-> part,
                     general |-> task[m].general, operation |-> task[m].operation]
    <2>1. /\ general_part_sheet' =
               Insert(general_part_sheet, part, encode_part_sheet_for_cache(task[m].general))
          /\ saved' = saved \cup {x}
      BY <1>5 DEF Commit, save_part_sheets
    <2>2. x.part = part /\ x.machine = m
      OBVIOUS
    <2>3. task[m].general = plc[m].general /\ plc[m].general[PartIdNid] = part
      BY <1>1, <1>3 DEF WorkInv, TypeInv, TasksInv, JobReady
    <2> HIDE DEF x, part
    <2>4. CachedFor(m)'
      BY <1>1, <2>1, <2>3 DEF CachedFor, SheetCached, Insert
    <2>5. ASSUME NEW k \in Machines \ {m}, SaveShown(k)' PROVE CachedFor(k)'
      <3>1. CachedFor(k)
        BY <1>4, <2>5 DEF OwnInv
      <3> QED
        BY <1>1, <2>1, <2>2, <2>5, <3>1 DEF CachedFor, SheetCached, Insert
    <2> QED
      BY <2>4, <2>5 DEF OwnInv
  <1>6. CASE UNCHANGED <<redbVars, saved>> /\ Fail(m, "CacheSave")
    <2>1. pc'[m] = "respond" /\ task'[m].answer # RESPONSE_SUCCESS
      BY <1>6, FailEffect, Outcomes
    <2>2. ~SaveShown(m)'
      BY <1>1, <1>3, <2>1, ResponseCodeTypes DEF SaveShown
    <2> QED
      BY <1>1, <1>4, <1>6, <2>2, QuietOwn DEF redbVars
  <1> QED
    BY <1>1, <1>5, <1>6

\* The answer that is written is that of the request the machine waits for.
LEMMA RespondOwn ==
    ASSUME TypeInv, ProtocolInv, OwnInv, NEW m \in Machines, Respond(m)
    PROVE  OwnInv'
  <1>1. /\ pc[m] = "respond" /\ UNCHANGED <<general_part_sheet, saved>>
        /\ WriteResponse(m) \/ UNCHANGED plc
        /\ Goto(m, "idle", NoTask)
    BY DEF Respond, redbVars, historyVars
  <1>2. /\ pc'[m] = "idle"
        /\ \A k \in Machines \ {m} : pc'[k] = pc[k] /\ task'[k] = task[k]
    BY <1>1, GotoEffect
  <1>3. /\ \A k \in Machines \ {m} : plc'[k] = plc[k]
        /\ plc'[m].general = plc[m].general /\ plc'[m].request = plc[m].request
        /\ plc'[m].response \in {plc[m].response, task[m].answer}
    BY <1>1 DEF WriteResponse, TypeInv, PlcInv, Plc
  <1>4. \A k \in Machines \ {m} : SaveShown(k)' => SaveShown(k)
    BY <1>2, <1>3 DEF SaveShown
  <1>5. SaveShown(m)' => SaveShown(m)
    <2> SUFFICES ASSUME plc[m].request = SavePartSheets, task[m].answer = RESPONSE_SUCCESS,
                        plc[m].response # RESPONSE_SUCCESS
                 PROVE  task[m].request = SavePartSheets
      BY <1>1, <1>2, <1>3 DEF SaveShown
    <2>1. HoldsRequest(m)
      BY <1>1, ResponseCodeTypes DEF HoldsRequest
    <2>2. HeldInv(m)
      BY <1>1 DEF ProtocolInv, MachineInv, WorkInv, SessionInv
    <2> QED
      BY <1>1, <2>1, <2>2 DEF HeldInv
  <1> QED
    BY <1>1, <1>3, <1>4, <1>5, QuietOwn

\* Each step keeps the saves that are acknowledged in the cache, until a connection is lost.
LEMMA NextOwn ==
    ASSUME TypeInv, ProtocolInv, AttachedInv, OwnInv, [Next]_vars, losses' = 0
    PROVE  OwnInv'
  <1>1. losses = 0 /\ losses \in Nat /\ orphans = {}
    BY AttachedStep DEF AttachedInv
  <1>2. ASSUME NEW m \in Machines, SetRequest(m) \/ ResetRequest(m)
        PROVE  OwnInv'
    BY <1>2, MachineOwn
  <1>3. ASSUME NEW m \in Machines,
               \/ install(m) \/ DropDead(m) \/ HandlerStop(m) \/ Publish(m) \/ PublishBad(m)
        PROVE  OwnInv'
    BY <1>3, SessionOwn
  <1>4. ASSUME NEW m \in Machines, Disconnect(m)
        PROVE  FALSE
    <2>1. losses' = losses + 1
      BY <1>4 DEF Disconnect
    <2> QED
      BY <1>1, <2>1
  <1>5. ASSUME NEW m \in Machines, Handler(m)
        PROVE  OwnInv'
    BY <1>3, <1>5, ReceivedOwn, OperationOwn, SaveJobOwn, RespondOwn DEF Handler
  <1>6. CASE \/ UNCHANGED vars
             \/ DrainQueues \/ Shutdown \/ Restart \/ Crash \/ NextDay
    <2>1. /\ UNCHANGED <<general_part_sheet, saved, issued, plc>>
          /\ \A k \in Machines : pc'[k] = "none" \/ (pc'[k] = pc[k] /\ task'[k] = task[k])
      BY <1>6 DEF vars, redbVars, DrainQueues, Shutdown, Restart, Crash, NextDay, historyVars
    <2>2. \A k \in Machines : SaveShown(k)' => SaveShown(k)
      BY <2>1 DEF SaveShown
    <2> QED
      BY <2>1, <2>2, QuietOwn
  <1> QED
    BY <1>1, <1>2, <1>3, <1>4, <1>5, <1>6 DEF Next

\* Up to the first bad value and the first loss of a connection, a machine that sees its save
\* acknowledged finds that save in the cache, if no other machine has saved the part: stops,
\* crashes and failed calls put nothing older over it.
THEOREM OwnSavesCached == Spec => [](flaps = 0 => CacheHoldsOwnSave)
  <1> DEFINE Inv == AttachedInv /\ (flaps = 0 /\ losses = 0 => OwnInv)
             Protocol == TypeInv /\ FlapsInv /\ (flaps = 0 => ProtocolInv)
  <1>1. Init => Inv
    <2> SUFFICES ASSUME Init PROVE AttachedInv /\ OwnInv
      OBVIOUS
    <2>1. AttachedInv
      BY DEF Init, AttachedInv
    <2>2. \A m \in Machines : plc[m].response = RESPONSE_RESET /\ pc[m] = "none"
      BY DEF Init
    <2> QED
      BY <2>1, <2>2, ResponseCodeTypes DEF OwnInv, SaveShown
  <1>2. Protocol /\ Inv /\ [Next]_vars => Inv'
    <2> SUFFICES ASSUME Protocol, Inv, [Next]_vars PROVE Inv'
      OBVIOUS
    <2>1. AttachedInv' /\ (losses' = 0 => losses = 0)
      BY AttachedStep
    <2>2. flaps' = 0 => flaps = 0
      <3>1. flaps <= flaps' /\ flaps \in Nat
        BY FlapsStep DEF TypeInv, RestInv
      <3>2. FlapsInv'
        BY FlapsStep
      <3> QED
        BY <3>1
    <2> QED
      BY <2>1, <2>2, NextOwn
  <1>3. Protocol /\ Inv => (flaps = 0 => CacheHoldsOwnSave)
    <2> SUFFICES ASSUME TypeInv, OwnInv, losses = 0, NEW m \in Machines,
                        plc[m].request = SavePartSheets, plc[m].response = RESPONSE_SUCCESS,
                        \A x \in saved : x.part = plc[m].general[PartIdNid] => x.machine = m
                 PROVE  /\ SheetCached(plc[m].general[PartIdNid])
                        /\ get_general_part_sheet(plc[m].general[PartIdNid]) = plc[m].general
      BY DEF CacheHoldsOwnSave
    <2>1. CachedFor(m)
      BY DEF OwnInv, SaveShown
    <2>2. plc[m].general \in [GeneralNids -> Values]
      BY DEF TypeInv, PlcInv, Plc
    <2>3. decode_cached_part_sheet(encode_part_sheet_for_cache(plc[m].general)) = plc[m].general
      BY <2>2, CacheRoundTrip
    <2> QED
      BY <2>1, <2>3 DEF CachedFor, get_general_part_sheet
  <1> QED
    BY <1>1, <1>2, <1>3, ProtocolInvariance, PTL DEF Spec

-----------------------------------------------------------------------------
(* Answers are late by one request for each bad value at most.                 *)
(*                                                                           *)
(* What the handler of m holds and what is in its channel are written one      *)
(* after the other, each as an answer or as the reset of the response.  The     *)
(* machine sends a request when a reset follows an answer.  A label g[i] is the  *)
(* greatest number that its last request may have when item i is reached, item   *)
(* 0 being the one that the handler holds: it is bounded when the item is         *)
(* notified, and does not move any more.                                       *)

\* The last response before item i + 1 is an answer.
AnswerAt(m, i) ==
    \/ i = 0 /\ (HoldsRequest(m) \/ (pc[m] = "idle" /\ plc[m].response # RESPONSE_RESET))
    \/ i # 0 /\ rx[m][i].code # Reset

\* Requests that may be sent before what the handler holds is written.
FirstLabel(m, first) ==
    /\ plc[m].n <= first
    /\ (plc[m].request = Reset /\ plc[m].response = RESPONSE_RESET) => plc[m].n < first
    /\ (HoldsReset(m) /\ plc[m].response # RESPONSE_RESET) => plc[m].n < first

\* A machine may send a request more after each reset that follows an answer.
LabelSteps(m, g) ==
    \A i \in 1 .. Len(rx[m]) :
        /\ g[i - 1] <= g[i]
        /\ (rx[m][i].code = Reset /\ AnswerAt(m, i - 1)) => g[i - 1] < g[i]

\* A bad value more than the number of an item at most.
LabelBounds(m, g) ==
    /\ HoldsRequest(m) => g[0] <= task[m].n + flaps
    /\ \A i \in 1 .. Len(rx[m]) : rx[m][i].code # Reset => g[i] <= rx[m][i].n + flaps

\* What is notified next keeps to these bounds.
LastLabel(m, last) ==
    /\ last <= plc[m].n + flaps + 1
    /\ plc[m].request # Reset => last <= plc[m].n + flaps
    /\ (sampled[m] # plc[m].request /\ AnswerAt(m, Len(rx[m]))) => last <= plc[m].n + flaps

Labelled(m, g) ==
    /\ g \in [0 .. Len(rx[m]) -> Nat]
    /\ FirstLabel(m, g[0])
    /\ LabelSteps(m, g)
    /\ LabelBounds(m, g)
    /\ LastLabel(m, g[Len(rx[m])])

\* No number is that of a request to come.
PastNumbers(m) ==
    /\ pc[m] \notin {"none", "idle"} => task[m].n <= plc[m].n
    /\ \A i \in 1 .. Len(rx[m]) : rx[m][i].n <= plc[m].n

\* The answer that m sees.
LateAnswer(m) ==
    plc[m].response # RESPONSE_RESET =>
        plc[m].answered <= plc[m].n /\ plc[m].n <= plc[m].answered + flaps

LateOf(m) ==
    /\ LateAnswer(m)
    /\ pc[m] # "none" =>
        /\ PastNumbers(m)
        /\ pc[m] = "initial" => task[m].request # Reset
        /\ \E g : Labelled(m, g)

LateInv == \A m \in Machines : LateOf(m)

\* The notifications in a channel are numbered.
LEMMA ChannelNumbers ==
    ASSUME NEW s \in Seq(Notification)
    PROVE  /\ Len(s) \in Nat
           /\ \A i \in 1 .. Len(s) : s[i] \in Notification /\ s[i].n \in Nat
  <1>1. /\ Len(s) \in Nat
        /\ \A i \in 1 .. Len(s) : s[i] \in Notification
    OBVIOUS
  <1>2. \A x \in Notification : x.n \in Nat
    BY DEF Notification
  <1> QED
    BY <1>1, <1>2

\* What is held, or else notified next, has a label.
LEMMA LabelledFirst ==
    ASSUME TypeInv, NEW m \in Machines, NEW g, Labelled(m, g)
    PROVE  g[0] \in Nat /\ FirstLabel(m, g[0])
  <1>1. g \in [0 .. Len(rx[m]) -> Nat] /\ FirstLabel(m, g[0])
    BY DEF Labelled
  <1>2. rx[m] \in Seq(Notification)
    BY DEF TypeInv, SessionsInv
  <1>3. Len(rx[m]) \in Nat
    BY <1>2, ChannelNumbers
  <1>4. 0 \in 0 .. Len(rx[m])
    BY <1>3
  <1> QED
    BY <1>1, <1>4

\* What m alone has changed is true of all machines when it is true of m; more bad values only
\* make the bounds wider.
LEMMA OneLate ==
    ASSUME TypeInv, LateInv, flaps' \in Nat, flaps <= flaps', NEW m \in Machines, LateOf(m)',
           \A k \in Machines \ {m} : SameMachine(k)
    PROVE  LateInv'
  <1> SUFFICES ASSUME NEW k \in Machines, k # m PROVE LateOf(k)'
    BY DEF LateInv
  <1>1. SameMachine(k) /\ LateOf(k)
    BY DEF LateInv
  <1>2. /\ flaps \in Nat /\ plc[k].n \in Nat /\ plc[k].answered \in Nat /\ task[k].n \in Nat
        /\ rx[k] \in Seq(Notification)
    BY DEF TypeInv, RestInv, PlcInv, Plc, TasksInv, Task, SessionsInv
  <1>3. /\ Len(rx[k]) \in Nat
        /\ \A i \in 1 .. Len(rx[k]) : rx[k][i].n \in Nat
    BY <1>2, ChannelNumbers
  <1>4. LateAnswer(k)'
    BY <1>1, <1>2 DEF LateOf, LateAnswer, SameMachine
  <1>5. ASSUME pc[k] # "none"
        PROVE  PastNumbers(k)' /\ (pc[k] = "initial" => task'[k].request # Reset)
    <2>1. PastNumbers(k) /\ (pc[k] = "initial" => task[k].request # Reset)
      BY <1>1, <1>5 DEF LateOf
    <2>2. /\ rx'[k] = rx[k] /\ pc'[k] = pc[k] /\ task'[k] = task[k] /\ plc'[k] = plc[k]
      BY <1>1 DEF SameMachine
    <2> QED
      BY <2>1, <2>2 DEF PastNumbers
  <1>6. ASSUME NEW g, Labelled(k, g) PROVE Labelled(k, g)'
    <2>1. \A i : AnswerAt(k, i)' <=> AnswerAt(k, i)
      BY <1>1 DEF AnswerAt, HoldsRequest, SameMachine
    <2>2. g \in [0 .. Len(rx[k]) -> Nat] /\ g[0] \in Nat /\ g[Len(rx[k])] \in Nat
      BY <1>3, <1>6 DEF Labelled
    <2>3. FirstLabel(k, g[0])' /\ LabelSteps(k, g)'
      BY <1>1, <1>6, <2>1 DEF Labelled, FirstLabel, LabelSteps, HoldsReset, SameMachine
    <2>4. LabelBounds(k, g)'
      <3>1. /\ rx'[k] = rx[k] /\ pc'[k] = pc[k] /\ task'[k] = task[k] /\ plc'[k] = plc[k]
            /\ LabelBounds(k, g)
        BY <1>1, <1>6 DEF Labelled, SameMachine
      <3>2. HoldsRequest(k)' => g[0] <= task[k].n + flaps
        BY <3>1 DEF LabelBounds, HoldsRequest
      <3>3. HoldsRequest(k)' => g[0] <= task[k].n + flaps'
        BY <1>2, <2>2, <3>2
      <3>4. ASSUME NEW i \in 1 .. Len(rx[k]), rx[k][i].code # Reset
            PROVE  g[i] <= rx[k][i].n + flaps'
        <4>1. g[i] <= rx[k][i].n + flaps
          BY <3>1, <3>4 DEF LabelBounds
        <4>2. g[i] \in Nat /\ rx[k][i].n \in Nat
          BY <1>3, <2>2, <3>4
        <4> QED
          BY <1>2, <4>1, <4>2
      <3> QED
        BY <3>1, <3>3, <3>4 DEF LabelBounds
    <2>5. LastLabel(k, g[Len(rx[k])])'
      BY <1>1, <1>2, <1>6, <2>1, <2>2 DEF Labelled, LastLabel, SameMachine
    <2> QED
      BY <1>1, <2>2, <2>3, <2>4, <2>5 DEF Labelled, SameMachine
  <1> QED
    BY <1>1, <1>4, <1>5, <1>6 DEF LateOf, SameMachine

\* The machine sends a request: the label of the handler has room for it.
LEMMA SetRequestLate ==
    ASSUME TypeInv, LateInv, NEW m \in Machines, SetRequest(m), flaps' = flaps
    PROVE  LateInv'
  <1>1. /\ UNCHANGED <<session, sampled, rx, is_initial, pc, task, saved, issued>>
        /\ plc[m].request = Reset /\ plc[m].response = RESPONSE_RESET
    BY DEF SetRequest, sessionVars, historyVars
  <1>2. /\ plc'[m].n = plc[m].n + 1 /\ plc'[m].request # Reset
        /\ plc'[m].response = RESPONSE_RESET
        /\ \A k \in Machines \ {m} : plc'[k] = plc[k]
    <2>1. PICK code \in Codes, part \in PartValues, value \in Values \ (PartIds \cup {NoPart}) :
            LET sheets == MachineSheets(m, code, part, value)
            IN  plc' = [plc EXCEPT ![m] = [@ EXCEPT !.request = code, !.n = plc[m].n + 1,
                                                    !.general = sheets.general,
                                                    !.operation = sheets.operation]]
      BY DEF SetRequest
    <2>2. code # Reset
      BY HandlerAssumption DEF Reset
    <2> QED
      BY <1>1, <2>1, <2>2 DEF TypeInv, PlcInv, Plc
  <1>3. \A k \in Machines \ {m} : SameMachine(k)
    BY <1>1, <1>2 DEF SameMachine
  <1>4. /\ flaps \in Nat /\ plc[m].n \in Nat /\ task[m].n \in Nat /\ Len(rx[m]) \in Nat
        /\ \A i \in 1 .. Len(rx[m]) : rx[m][i].n \in Nat
    <2>1. rx[m] \in Seq(Notification)
      BY DEF TypeInv, SessionsInv
    <2> QED
      BY <2>1, ChannelNumbers DEF TypeInv, RestInv, PlcInv, Plc, TasksInv, Task
  <1>5. ASSUME NEW g, Labelled(m, g) PROVE Labelled(m, g)'
    <2>1. g \in [0 .. Len(rx[m]) -> Nat] /\ g[0] \in Nat /\ g[Len(rx[m])] \in Nat
      BY <1>4, <1>5 DEF Labelled
    <2>2. \A i : AnswerAt(m, i)' <=> AnswerAt(m, i)
      BY <1>1, <1>2 DEF AnswerAt, HoldsRequest
    <2>3. FirstLabel(m, g[0])'
      BY <1>1, <1>2, <1>4, <1>5, <2>1 DEF Labelled, FirstLabel
    <2>4. LabelSteps(m, g)' /\ LabelBounds(m, g)'
      BY <1>1, <1>5, <2>2 DEF Labelled, LabelSteps, LabelBounds, HoldsRequest
    <2>5. LastLabel(m, g[Len(rx[m])])'
      BY <1>1, <1>2, <1>4, <1>5, <2>1 DEF Labelled, LastLabel
    <2> QED
      BY <1>1, <2>1, <2>3, <2>4, <2>5 DEF Labelled
  <1>6. ASSUME pc[m] # "none"
        PROVE  PastNumbers(m)' /\ (pc[m] = "initial" => task'[m].request # Reset)
    <2>1. PastNumbers(m) /\ (pc[m] = "initial" => task[m].request # Reset)
      BY <1>6 DEF LateInv, LateOf
    <2> QED
      BY <1>1, <1>2, <1>4, <2>1 DEF PastNumbers
  <1>7. LateAnswer(m)'
    BY <1>2 DEF LateAnswer
  <1>8. LateOf(m)'
    BY <1>1, <1>5, <1>6, <1>7 DEF LateInv, LateOf
  <1> QED
    BY <1>3, <1>4, <1>8, OneLate

\* A machine resets its request: its reset will be notified, or follows no answer.
LEMMA ResetRequestLate ==
    ASSUME TypeInv, LateInv, NEW m \in Machines, ResetRequest(m), flaps' = flaps
    PROVE  LateInv'
  <1>1. /\ UNCHANGED <<session, sampled, rx, is_initial, pc, task, saved, issued>>
        /\ plc[m].request # Reset /\ plc[m].response # RESPONSE_RESET
    BY DEF ResetRequest, sessionVars, historyVars
  <1>2. /\ plc'[m].n = plc[m].n /\ plc'[m].answered = plc[m].answered
        /\ plc'[m].request = Reset /\ plc'[m].response = plc[m].response
        /\ \A k \in Machines \ {m} : plc'[k] = plc[k]
    BY DEF ResetRequest, TypeInv, PlcInv, Plc
  <1>3. \A k \in Machines \ {m} : SameMachine(k)
    BY <1>1, <1>2 DEF SameMachine
  <1>4. flaps \in Nat /\ plc[m].n \in Nat /\ Len(rx[m]) \in Nat
    <2>1. rx[m] \in Seq(Notification)
      BY DEF TypeInv, SessionsInv
    <2> QED
      BY <2>1 DEF TypeInv, RestInv, PlcInv, Plc
  <1>5. ASSUME NEW g, Labelled(m, g) PROVE Labelled(m, g)'
    <2>1. g \in [0 .. Len(rx[m]) -> Nat] /\ g[0] \in Nat /\ g[Len(rx[m])] \in Nat
      BY <1>4, <1>5 DEF Labelled
    <2>2. \A i : AnswerAt(m, i)' <=> AnswerAt(m, i)
      BY <1>1, <1>2 DEF AnswerAt, HoldsRequest
    <2>3. FirstLabel(m, g[0])'
      BY <1>1, <1>2, <1>5 DEF Labelled, FirstLabel, HoldsReset
    <2>4. LabelSteps(m, g)' /\ LabelBounds(m, g)'
      BY <1>1, <1>5, <2>2 DEF Labelled, LabelSteps, LabelBounds, HoldsRequest
    <2>5. LastLabel(m, g[Len(rx[m])])'
      BY <1>1, <1>2, <1>4, <1>5, <2>1 DEF Labelled, LastLabel
    <2> QED
      BY <1>1, <2>1, <2>3, <2>4, <2>5 DEF Labelled
  <1>6. LateOf(m)'
    BY <1>1, <1>2, <1>5 DEF LateInv, LateOf, LateAnswer, PastNumbers
  <1> QED
    BY <1>3, <1>4, <1>6, OneLate

\* A new session starts with an empty channel.
LEMMA InstallLate ==
    ASSUME TypeInv, LateInv, NEW m \in Machines, install(m), flaps' = flaps
    PROVE  LateInv'
  <1>1. /\ UNCHANGED plc /\ rx'[m] = <<>> /\ pc'[m] = "idle" /\ Len(rx'[m]) = 0
    BY DEF install, TypeInv, SessionsInv, TasksInv
  <1>2. \A k \in Machines \ {m} : SameMachine(k)
    BY DEF install, TypeInv, SessionsInv, TasksInv, historyVars, SameMachine
  <1>3. plc[m].n \in Nat /\ flaps \in Nat
    BY DEF TypeInv, RestInv, PlcInv, Plc
  <1>4. PICK first \in Nat :
          /\ plc[m].n <= first /\ first <= plc[m].n + 1
          /\ (plc[m].request = Reset /\ plc[m].response = RESPONSE_RESET) => plc[m].n < first
          /\ (plc[m].request # Reset \/ plc[m].response # RESPONSE_RESET) => first = plc[m].n
    <2>1. CASE plc[m].request = Reset /\ plc[m].response = RESPONSE_RESET
      <3>1. plc[m].n + 1 \in Nat /\ plc[m].n <= plc[m].n + 1 /\ plc[m].n < plc[m].n + 1
        BY <1>3
      <3> QED
        BY <2>1, <3>1
    <2>2. CASE ~(plc[m].request = Reset /\ plc[m].response = RESPONSE_RESET)
      <3>1. plc[m].n <= plc[m].n /\ plc[m].n <= plc[m].n + 1
        BY <1>3
      <3> QED
        BY <1>3, <2>2, <3>1
    <2> QED
      BY <2>1, <2>2
  <1> DEFINE g == [i \in 0 .. 0 |-> first]
  <1>5. g \in [0 .. 0 -> Nat] /\ g[0] = first
    BY <1>4
  <1> HIDE DEF g
  <1>6. FirstLabel(m, first)'
    BY <1>1, <1>4 DEF FirstLabel, HoldsReset
  <1>7. LabelSteps(m, g)' /\ LabelBounds(m, g)'
    BY <1>1 DEF LabelSteps, LabelBounds, HoldsRequest, Operations
  <1>8. LastLabel(m, first)'
    <2>1. AnswerAt(m, 0)' => plc[m].response # RESPONSE_RESET
      BY <1>1 DEF AnswerAt, HoldsRequest, Operations
    <2> QED
      BY <1>1, <1>3, <1>4, <2>1 DEF LastLabel
  <1>9. Labelled(m, g)'
    BY <1>1, <1>5, <1>6, <1>7, <1>8 DEF Labelled
  <1>10. PastNumbers(m)' /\ pc'[m] # "initial"
    BY <1>1 DEF PastNumbers
  <1>11. LateAnswer(m)'
    BY <1>1 DEF LateInv, LateOf, LateAnswer
  <1> QED
    BY <1>2, <1>3, <1>9, <1>10, <1>11, OneLate DEF LateOf

\* The end of a session leaves the answer.
LEMMA SessionLate ==
    ASSUME TypeInv, LateInv, NEW m \in Machines, Disconnect(m) \/ DropDead(m) \/ HandlerStop(m),
           flaps' = flaps
    PROVE  LateInv'
  <1>1. flaps \in Nat /\ plc' = plc
    BY DEF TypeInv, RestInv, Disconnect, DropDead, HandlerStop
  <1>2. LateAnswer(m)'
    BY <1>1 DEF LateInv, LateOf, LateAnswer
  <1>3. CASE Disconnect(m)
    <2>1. /\ UNCHANGED <<plc, sampled, rx, is_initial, pc, task>>
          /\ \A k \in Machines \ {m} : SameMachine(k)
      BY <1>3 DEF Disconnect, TypeInv, SessionsInv, historyVars, SameMachine
    <2>2. LateOf(m)'
      BY <1>1, <1>2, <2>1 DEF LateInv, LateOf, PastNumbers, Labelled, FirstLabel, LabelSteps, LabelBounds,
         LastLabel, AnswerAt, HoldsRequest, HoldsReset
    <2> QED
      BY <1>1, <2>1, <2>2, OneLate
  <1>4. CASE DropDead(m) \/ HandlerStop(m)
    <2>1. HandlerEnds(m) /\ UNCHANGED <<plc, saved, issued>>
      BY <1>4 DEF DropDead, HandlerStop, historyVars
    <2>2. pc'[m] = "none"
      BY <2>1 DEF HandlerEnds, TypeInv, TasksInv
    <2>3. \A k \in Machines \ {m} : SameMachine(k)
      BY <2>1 DEF HandlerEnds, TypeInv, SessionsInv, TasksInv, SameMachine
    <2> QED
      BY <1>1, <1>2, <2>2, <2>3, OneLate DEF LateOf
  <1> QED
    BY <1>3, <1>4

\* A notification is put behind the others, with a label that keeps to the bounds.
LEMMA NotifyLate ==
    ASSUME TypeInv, LateInv, flaps' \in Nat, flaps <= flaps', NEW m \in Machines,
           NEW code \in {BadValue} \cup (Reset .. Unknown), Notify(m, code),
           ASSUME NEW g, Labelled(m, g)
           PROVE  \E x \in Nat :
                    /\ g[Len(rx[m])] <= x
                    /\ (code = Reset /\ AnswerAt(m, Len(rx[m]))) => g[Len(rx[m])] < x
                    /\ x <= plc[m].n + flaps' + 1
                    /\ (code # Reset \/ plc[m].request # Reset) => x <= plc[m].n + flaps'
    PROVE  LateInv'
  <1> DEFINE item == [code |-> code, n |-> plc[m].n]
  <1>0. PICK L : L = Len(rx[m])
    OBVIOUS
  <1>1. /\ UNCHANGED <<plc, session, pc, task>>
        /\ sampled'[m] = code
        /\ rx'[m] = Append(rx[m], item)
    BY DEF Notify, TypeInv, SessionsInv
  <1>2. \A k \in Machines \ {m} : SameMachine(k)
    BY DEF Notify, TypeInv, SessionsInv, historyVars, SameMachine
  <1>3. /\ item \in Notification /\ item.code = code /\ item.n = plc[m].n
        /\ rx[m] \in Seq(Notification)
    BY DEF TypeInv, SessionsInv, PlcInv, Plc, Notification
  <1> HIDE DEF item
  <1>4. /\ flaps \in Nat /\ plc[m].n \in Nat /\ task[m].n \in Nat /\ L \in Nat
        /\ \A i \in 1 .. L : rx[m][i].n \in Nat
    BY <1>0, <1>3, ChannelNumbers DEF TypeInv, RestInv, PlcInv, Plc, TasksInv, Task
  <1>5. /\ Len(rx'[m]) = L + 1
        /\ \A i \in 1 .. L : rx'[m][i] = rx[m][i]
        /\ rx'[m][L + 1] = item
    BY <1>0, <1>1, <1>3
  <1>6. LateAnswer(m)'
    <2>1. plc[m].answered \in Nat /\ LateAnswer(m)
      BY DEF TypeInv, PlcInv, Plc, LateInv, LateOf
    <2> QED
      BY <1>1, <1>4, <2>1 DEF LateAnswer
  <1>7. ASSUME pc[m] # "none"
        PROVE  PastNumbers(m)' /\ (pc'[m] = "initial" => task'[m].request # Reset)
    <2>1. PastNumbers(m) /\ (pc[m] = "initial" => task[m].request # Reset)
      BY <1>7 DEF LateInv, LateOf
    <2>2. \A i \in 1 .. L + 1 : i \in 1 .. L \/ i = L + 1
      BY <1>4
    <2>3. \A i \in 1 .. L + 1 : rx'[m][i].n <= plc[m].n
      <3>1. \A i \in 1 .. L : rx'[m][i].n <= plc[m].n
        BY <1>0, <1>5, <2>1 DEF PastNumbers
      <3>2. rx'[m][L + 1].n <= plc[m].n
        BY <1>3, <1>4, <1>5
      <3> QED
        BY <2>2, <3>1, <3>2
    <2> QED
      BY <1>1, <1>5, <2>1, <2>3 DEF PastNumbers
  <1>8. ASSUME NEW g, Labelled(m, g) PROVE \E h : Labelled(m, h)'
    <2>1. PICK x \in Nat :
            /\ g[L] <= x
            /\ (code = Reset /\ AnswerAt(m, L)) => g[L] < x
            /\ x <= plc[m].n + flaps' + 1
            /\ (code # Reset \/ plc[m].request # Reset) => x <= plc[m].n + flaps'
      BY <1>0, <1>8
    <2>2. g \in [0 .. L -> Nat] /\ g[0] \in Nat /\ g[L] \in Nat
      BY <1>0, <1>4, <1>8 DEF Labelled
    <2>3. PICK h : /\ h \in [0 .. L + 1 -> Nat]
                   /\ \A i \in 0 .. L : h[i] = g[i]
                   /\ h[L + 1] = x
      <3> DEFINE f == [i \in 0 .. L + 1 |-> IF i = L + 1 THEN x ELSE g[i]]
      <3>1. f \in [0 .. L + 1 -> Nat] /\ (\A i \in 0 .. L : f[i] = g[i]) /\ f[L + 1] = x
        BY <1>4, <2>2
      <3> QED
        BY <3>1
    <2>4. \A i \in 0 .. L : AnswerAt(m, i)' <=> AnswerAt(m, i)
      BY <1>1, <1>4, <1>5 DEF AnswerAt, HoldsRequest
    <2>5. h[0] = g[0] /\ h[L] = g[L] /\ 0 \in 0 .. L /\ L \in 0 .. L
      BY <1>4, <2>3
    <2>6. FirstLabel(m, h[0])'
      BY <1>1, <1>8, <2>5 DEF Labelled, FirstLabel, HoldsReset
    <2>7. LabelSteps(m, h)'
      <3>1. ASSUME NEW i \in 1 .. L
            PROVE  /\ h[i - 1] <= h[i]
                   /\ (rx'[m][i].code = Reset /\ AnswerAt(m, i - 1)') => h[i - 1] < h[i]
        <4>1. i \in 0 .. L /\ i - 1 \in 0 .. L
          BY <1>4
        <4>2. h[i] = g[i] /\ h[i - 1] = g[i - 1] /\ rx'[m][i] = rx[m][i]
              /\ (AnswerAt(m, i - 1)' <=> AnswerAt(m, i - 1))
          BY <1>5, <2>3, <2>4, <4>1
        <4> QED
          BY <1>0, <1>8, <4>2 DEF Labelled, LabelSteps
      <3>2. /\ h[L] <= h[L + 1]
            /\ (rx'[m][L + 1].code = Reset /\ AnswerAt(m, L)') => h[L] < h[L + 1]
        BY <1>3, <1>5, <2>1, <2>3, <2>4, <2>5
      <3>3. \A i \in 1 .. L + 1 : i \in 1 .. L \/ (i = L + 1 /\ i - 1 = L)
        BY <1>4
      <3> QED
        BY <1>5, <3>1, <3>2, <3>3 DEF LabelSteps
    <2>8. LabelBounds(m, h)'
      <3>1. HoldsRequest(m)' => h[0] <= task'[m].n + flaps'
        <4>1. HoldsRequest(m) => g[0] <= task[m].n + flaps
          BY <1>8 DEF Labelled, LabelBounds
        <4> QED
          BY <1>1, <1>4, <2>2, <2>5, <4>1 DEF HoldsRequest
      <3>2. ASSUME NEW i \in 1 .. L, rx'[m][i].code # Reset
            PROVE  h[i] <= rx'[m][i].n + flaps'
        <4>1. i \in 0 .. L /\ rx'[m][i] = rx[m][i] /\ rx[m][i].n \in Nat
          BY <1>4, <1>5
        <4>2. h[i] = g[i] /\ g[i] \in Nat /\ g[i] <= rx[m][i].n + flaps
          BY <1>0, <1>5, <1>8, <2>2, <2>3, <3>2, <4>1 DEF Labelled, LabelBounds
        <4> QED
          BY <1>4, <4>1, <4>2
      <3>3. rx'[m][L + 1].code # Reset => h[L + 1] <= rx'[m][L + 1].n + flaps'
        BY <1>3, <1>5, <2>1, <2>3
      <3>4. \A i \in 1 .. L + 1 : i \in 1 .. L \/ i = L + 1
        BY <1>4
      <3> QED
        BY <1>5, <3>1, <3>2, <3>3, <3>4 DEF LabelBounds
    <2>9. LastLabel(m, h[L + 1])'
      <3>1. AnswerAt(m, L + 1)' => code # Reset
        <4>1. L + 1 # 0
          BY <1>4
        <4> QED
          BY <1>3, <1>5, <4>1 DEF AnswerAt
      <3> QED
        BY <1>1, <1>5, <2>1, <2>3, <3>1 DEF LastLabel
    <2> QED
      BY <1>5, <2>3, <2>6, <2>7, <2>8, <2>9 DEF Labelled
  <1>9. LateOf(m)'
    BY <1>1, <1>6, <1>7, <1>8 DEF LateInv, LateOf
  <1> QED
    BY <1>2, <1>9, OneLate

\* A change of the code is notified: the reset of an answer has its room.
LEMMA PublishLate ==
    ASSUME TypeInv, LateInv, NEW m \in Machines, Publish(m), flaps' = flaps
    PROVE  LateInv'
  <1>1. /\ sampled[m] # plc[m].request /\ Notify(m, plc[m].request)
        /\ plc[m].request \in Reset .. Unknown
    BY DEF Publish, TypeInv, PlcInv, Plc
  <1>2. flaps \in Nat /\ flaps <= flaps' /\ plc[m].n \in Nat /\ Len(rx[m]) \in Nat
    <2>1. rx[m] \in Seq(Notification)
      BY DEF TypeInv, SessionsInv
    <2> QED
      BY <2>1 DEF TypeInv, RestInv, PlcInv, Plc
  <1>3. ASSUME NEW g, Labelled(m, g)
        PROVE  \E x \in Nat :
                 /\ g[Len(rx[m])] <= x
                 /\ (plc[m].request = Reset /\ AnswerAt(m, Len(rx[m]))) => g[Len(rx[m])] < x
                 /\ x <= plc[m].n + flaps' + 1
                 /\ (plc[m].request # Reset \/ plc[m].request # Reset) => x <= plc[m].n + flaps'
    <2>1. /\ g[Len(rx[m])] \in Nat /\ g[Len(rx[m])] <= plc[m].n + flaps + 1
          /\ plc[m].request # Reset => g[Len(rx[m])] <= plc[m].n + flaps
          /\ AnswerAt(m, Len(rx[m])) => g[Len(rx[m])] <= plc[m].n + flaps
      BY <1>1, <1>2, <1>3 DEF Labelled, LastLabel
    <2>2. CASE plc[m].request = Reset /\ AnswerAt(m, Len(rx[m]))
      <3>1. /\ g[Len(rx[m])] + 1 \in Nat /\ g[Len(rx[m])] < g[Len(rx[m])] + 1
            /\ g[Len(rx[m])] <= g[Len(rx[m])] + 1
            /\ g[Len(rx[m])] + 1 <= plc[m].n + flaps' + 1
        BY <1>2, <2>1, <2>2
      <3> QED
        BY <2>2, <3>1
    <2>3. CASE ~(plc[m].request = Reset /\ AnswerAt(m, Len(rx[m])))
      <3>1. g[Len(rx[m])] <= g[Len(rx[m])]
        BY <2>1
      <3> QED
        BY <2>1, <2>3, <3>1
    <2> QED
      BY <2>2, <2>3
  <1> QED
    BY <1>1, <1>2, <1>3, NotifyLate

\* A bad value is notified, and counted.
LEMMA PublishBadLate ==
    ASSUME TypeInv, LateInv, NEW m \in Machines, PublishBad(m)
    PROVE  LateInv'
  <1>1. Notify(m, BadValue) /\ flaps' = flaps + 1 /\ BadValue # Reset
    BY DEF PublishBad, BadValue, Reset
  <1>2. /\ flaps \in Nat /\ plc[m].n \in Nat /\ Len(rx[m]) \in Nat
        /\ flaps' \in Nat /\ flaps <= flaps'
    <2>1. rx[m] \in Seq(Notification)
      BY DEF TypeInv, SessionsInv
    <2> QED
      BY <1>1, <2>1 DEF TypeInv, RestInv, PlcInv, Plc
  <1>3. ASSUME NEW g, Labelled(m, g)
        PROVE  \E x \in Nat :
                 /\ g[Len(rx[m])] <= x
                 /\ (BadValue = Reset /\ AnswerAt(m, Len(rx[m]))) => g[Len(rx[m])] < x
                 /\ x <= plc[m].n + flaps' + 1
                 /\ (BadValue # Reset \/ plc[m].request # Reset) => x <= plc[m].n + flaps'
    <2>1. g[Len(rx[m])] \in Nat /\ g[Len(rx[m])] <= plc[m].n + flaps + 1
      BY <1>2, <1>3 DEF Labelled, LastLabel
    <2>2. /\ g[Len(rx[m])] <= g[Len(rx[m])]
          /\ g[Len(rx[m])] <= plc[m].n + flaps' + 1
          /\ g[Len(rx[m])] <= plc[m].n + flaps'
      BY <1>1, <1>2, <2>1
    <2> QED
      BY <1>1, <2>1, <2>2
  <1> QED
    BY <1>1, <1>2, <1>3, NotifyLate

\* A step of the handler that leaves the channel alone: the label of what it holds may be
\* smaller than before, all the more when it comes to an answer.
LEMMA HandlerLate ==
    ASSUME TypeInv, LateInv, NEW m \in Machines, handlerFrame, flaps' = flaps,
           \A k \in Machines \ {m} : SameMachine(k),
           plc'[m].n = plc[m].n, plc'[m].request = plc[m].request,
           pc[m] \notin {"none", "idle"}, pc'[m] # "initial",
           pc'[m] # "idle" => task'[m].n = task[m].n,
           HoldsRequest(m)' => HoldsRequest(m),
           LateAnswer(m)',
           ASSUME NEW g, Labelled(m, g)
           PROVE  \E c \in Nat :
                    /\ c <= g[0]
                    /\ FirstLabel(m, c)'
                    /\ AnswerAt(m, 0)' => AnswerAt(m, 0) \/ c < g[0]
    PROVE  LateInv'
  <1>1. UNCHANGED <<session, sampled, rx>>
    BY DEF handlerFrame, sessionVars
  <1>2. PICK L : L = Len(rx[m])
    OBVIOUS
  <1>3. /\ flaps \in Nat /\ plc[m].n \in Nat /\ task[m].n \in Nat /\ L \in Nat
        /\ \A i \in 1 .. L : rx[m][i].n \in Nat
    <2>1. rx[m] \in Seq(Notification)
      BY DEF TypeInv, SessionsInv
    <2> QED
      BY <1>2, <2>1, ChannelNumbers DEF TypeInv, RestInv, PlcInv, Plc, TasksInv, Task
  <1>4. PastNumbers(m)'
    <2>1. PastNumbers(m)
      BY DEF LateInv, LateOf
    <2> QED
      BY <1>1, <2>1 DEF PastNumbers
  <1>5. PICK g : Labelled(m, g)
    BY DEF LateInv, LateOf
  <1>6. /\ g \in [0 .. L -> Nat] /\ g[0] \in Nat /\ g[L] \in Nat
        /\ LabelSteps(m, g) /\ LabelBounds(m, g) /\ LastLabel(m, g[L])
    BY <1>2, <1>3, <1>5 DEF Labelled
  <1>7. PICK c \in Nat :
          /\ c <= g[0]
          /\ FirstLabel(m, c)'
          /\ AnswerAt(m, 0)' => AnswerAt(m, 0) \/ c < g[0]
    BY <1>5
  <1>8. PICK h : /\ h \in [0 .. L -> Nat]
                 /\ h[0] = c
                 /\ \A i \in 1 .. L : h[i] = g[i]
    <2> DEFINE f == [i \in 0 .. L |-> IF i = 0 THEN c ELSE g[i]]
    <2>1. f \in [0 .. L -> Nat] /\ f[0] = c /\ \A i \in 1 .. L : f[i] = g[i]
      BY <1>3, <1>6, <1>7
    <2> QED
      BY <2>1
  <1>9. \A i \in 1 .. L : i # 0 /\ (AnswerAt(m, i)' <=> AnswerAt(m, i))
    <2>1. \A i \in 1 .. L : i # 0
      BY <1>3
    <2> QED
      BY <1>1, <2>1 DEF AnswerAt
  <1>10. LabelSteps(m, h)'
    <2>1. ASSUME NEW i \in 1 .. L
          PROVE  /\ h[i - 1] <= h[i]
                 /\ (rx[m][i].code = Reset /\ AnswerAt(m, i - 1)') => h[i - 1] < h[i]
      <3>1. /\ h[i] = g[i] /\ g[i - 1] <= g[i] /\ g[i] \in Nat
            /\ (rx[m][i].code = Reset /\ AnswerAt(m, i - 1)) => g[i - 1] < g[i]
        <4>1. i \in 0 .. L
          BY <1>3
        <4> QED
          BY <1>2, <1>6, <1>8, <4>1 DEF LabelSteps
      <3>2. CASE i = 1
        <4>1. i - 1 = 0
          BY <3>2
        <4>2. /\ h[i] = g[i] /\ g[0] <= g[i] /\ h[0] = c
              /\ (rx[m][i].code = Reset /\ AnswerAt(m, 0)) => g[0] < g[i]
          BY <1>8, <3>1, <4>1
        <4>3. c <= g[i] /\ (c < g[0] \/ g[0] < g[i] => c < g[i])
          BY <1>6, <1>7, <3>1, <4>2
        <4> QED
          BY <1>7, <4>1, <4>2, <4>3
      <3>3. CASE i # 1
        <4>1. i - 1 \in 1 .. L
          BY <1>3, <3>3
        <4> QED
          BY <1>8, <1>9, <3>1, <4>1
      <3> QED
        BY <3>2, <3>3
    <2> QED
      BY <1>1, <1>2, <2>1 DEF LabelSteps
  <1>11. LabelBounds(m, h)'
    <2>1. HoldsRequest(m)' => h[0] <= task'[m].n + flaps'
      <3>1. HoldsRequest(m)' => g[0] <= task[m].n + flaps /\ task'[m].n = task[m].n
        BY <1>6 DEF LabelBounds, HoldsRequest, Operations
      <3> QED
        BY <1>3, <1>6, <1>7, <1>8, <3>1
    <2>2. \A i \in 1 .. L : rx'[m][i].code # Reset => h[i] <= rx'[m][i].n + flaps'
      BY <1>1, <1>2, <1>6, <1>8 DEF LabelBounds
    <2> QED
      BY <1>1, <1>2, <2>1, <2>2 DEF LabelBounds
  <1>12. LastLabel(m, h[L])'
    <2>1. CASE L = 0
      <3>1. /\ g[0] <= plc[m].n + flaps + 1
            /\ plc[m].request # Reset => g[0] <= plc[m].n + flaps
            /\ (sampled[m] # plc[m].request /\ AnswerAt(m, 0)) => g[0] <= plc[m].n + flaps
        BY <1>2, <1>6, <2>1 DEF LastLabel
      <3>2. /\ c <= plc[m].n + flaps + 1
            /\ plc[m].request # Reset => c <= plc[m].n + flaps
            /\ (sampled[m] # plc[m].request /\ AnswerAt(m, 0)') => c <= plc[m].n + flaps
        <4>1. c <= plc[m].n + flaps + 1 /\ (g[0] <= plc[m].n + flaps => c <= plc[m].n + flaps)
          BY <1>3, <1>6, <1>7, <3>1
        <4>2. c < g[0] => c <= plc[m].n + flaps
          BY <1>3, <1>6, <1>7, <3>1
        <4> QED
          BY <1>7, <3>1, <4>1, <4>2
      <3>3. h[L] = c /\ Len(rx'[m]) = 0
        BY <1>1, <1>2, <1>8, <2>1
      <3> QED
        BY <1>1, <3>2, <3>3 DEF LastLabel
    <2>2. CASE L # 0
      <3>1. L \in 1 .. L
        BY <1>3, <2>2
      <3>2. h[L] = g[L] /\ (AnswerAt(m, L)' <=> AnswerAt(m, L))
        BY <1>8, <1>9, <3>1
      <3> QED
        BY <1>1, <1>2, <1>6, <3>2 DEF LastLabel
    <2> QED
      BY <2>1, <2>2
  <1>13. Labelled(m, h)'
    BY <1>1, <1>2, <1>7, <1>8, <1>10, <1>11, <1>12 DEF Labelled
  <1>14. LateOf(m)'
    BY <1>4, <1>13 DEF LateOf
  <1> QED
    BY <1>3, <1>14, OneLate

\* An initial request is dispatched, or known to have its answer.
LEMMA InitialLate ==
    ASSUME TypeInv, LateInv, NEW m \in Machines, is_initial_request_answered(m), flaps' = flaps
    PROVE  LateInv'
  <1>1. /\ pc[m] = "initial" /\ handlerFrame /\ UNCHANGED <<plc, saved, issued>>
        /\ handle_request(m, task[m]) \/ Goto(m, "idle", NoTask)
    BY DEF is_initial_request_answered, historyVars
  <1>2. \A k \in Machines \ {m} : pc'[k] = pc[k] /\ task'[k] = task[k]
    BY <1>1, GotoEffect, HandleRequestEffect
  <1>3. \A k \in Machines \ {m} : SameMachine(k)
    BY <1>1, <1>2, CallFrame
  <1>4. task[m].request # Reset
    BY <1>1 DEF LateInv, LateOf
  <1>5. Dispatched(m, task[m]) \/ pc'[m] = "idle"
    BY <1>1, <1>4, GotoEffect, HandleRequestEffect
  <1>6. /\ pc'[m] # "initial" /\ ~HoldsReset(m)' /\ HoldsRequest(m)
        /\ pc'[m] # "idle" => task'[m].n = task[m].n
    BY <1>1, <1>5 DEF Dispatched, HoldsReset, HoldsRequest
  <1>7. LateAnswer(m)'
    BY <1>1 DEF LateInv, LateOf, LateAnswer
  <1>8. ASSUME NEW g, Labelled(m, g)
        PROVE  \E c \in Nat :
                 /\ c <= g[0]
                 /\ FirstLabel(m, c)'
                 /\ AnswerAt(m, 0)' => AnswerAt(m, 0) \/ c < g[0]
    <2>1. g[0] \in Nat /\ FirstLabel(m, g[0])
      BY <1>8, LabelledFirst
    <2>2. g[0] <= g[0] /\ FirstLabel(m, g[0])' /\ AnswerAt(m, 0)
      BY <1>1, <1>6, <2>1 DEF FirstLabel, AnswerAt
    <2> QED
      BY <2>1, <2>2
  <1> QED
    BY <1>1, <1>3, <1>6, <1>7, <1>8, HandlerLate

\* A step of an operation keeps hold of the request, or of its answer.
LEMMA OperationLate ==
    ASSUME TypeInv, LateInv, NEW m \in Machines, flaps' = flaps,
           \/ CreateRead(m) \/ CreateJob(m) \/ CreateWrite(m)
           \/ LoadRead(m) \/ LoadJob(m) \/ LoadWrite(m)
           \/ SaveRead(m) \/ SaveJob(m)
    PROVE  LateInv'
  <1>1. /\ pc[m] \in Operations /\ handlerFrame /\ SheetWritten(m)
        /\ saved \subseteq saved' /\ issued \subseteq issued'
        /\ \A k \in Machines \ {m} : pc'[k] = pc[k] /\ task'[k] = task[k]
        /\ task'[m].n = task[m].n
        /\ \/ pc'[m] \in Operations
           \/ pc'[m] = "respond" /\ task'[m].answer # RESPONSE_RESET
    BY OperationEffect
  <1>2. /\ plc'[m].request = plc[m].request /\ plc'[m].response = plc[m].response
        /\ plc'[m].n = plc[m].n /\ plc'[m].answered = plc[m].answered
        /\ \A k \in Machines \ {m} : plc'[k] = plc[k]
    BY <1>1 DEF SheetWritten
  <1>3. \A k \in Machines \ {m} : SameMachine(k)
    BY <1>1, <1>2 DEF handlerFrame, sessionVars, SameMachine
  <1>4. /\ pc[m] \notin {"none", "idle"} /\ pc'[m] # "initial"
        /\ HoldsRequest(m) /\ ~HoldsReset(m)'
    BY <1>1 DEF Operations, HoldsRequest, HoldsReset
  <1>5. LateAnswer(m)'
    BY <1>2 DEF LateInv, LateOf, LateAnswer
  <1>6. ASSUME NEW g, Labelled(m, g)
        PROVE  \E c \in Nat :
                 /\ c <= g[0]
                 /\ FirstLabel(m, c)'
                 /\ AnswerAt(m, 0)' => AnswerAt(m, 0) \/ c < g[0]
    <2>1. g[0] \in Nat /\ FirstLabel(m, g[0])
      BY <1>6, LabelledFirst
    <2>2. g[0] <= g[0] /\ FirstLabel(m, g[0])' /\ AnswerAt(m, 0)
      BY <1>2, <1>4, <2>1 DEF FirstLabel, AnswerAt
    <2> QED
      BY <2>1, <2>2
  <1> QED
    BY <1>1, <1>2, <1>3, <1>4, <1>5, <1>6, HandlerLate

\* The machine sees an answer that is late by the bad values at most; a reset that is not
\* written is one request less to come.
LEMMA RespondLate ==
    ASSUME TypeInv, LateInv, NEW m \in Machines, Respond(m), flaps' = flaps
    PROVE  LateInv'
  <1>1. /\ pc[m] = "respond" /\ handlerFrame /\ UNCHANGED <<saved, issued>>
        /\ WriteResponse(m) \/ UNCHANGED plc
        /\ Goto(m, "idle", NoTask)
    BY DEF Respond, CallOk, CallErr, historyVars
  <1>2. /\ pc'[m] = "idle"
        /\ \A k \in Machines \ {m} : pc'[k] = pc[k] /\ task'[k] = task[k]
    BY <1>1, GotoEffect
  <1>3. /\ \A k \in Machines \ {m} : plc'[k] = plc[k]
        /\ plc'[m].n = plc[m].n /\ plc'[m].request = plc[m].request
        /\ \/ plc'[m].response = task[m].answer /\ plc'[m].answered = task[m].n
           \/ plc'[m].response = plc[m].response /\ plc'[m].answered = plc[m].answered
    BY <1>1 DEF WriteResponse, TypeInv, PlcInv, Plc
  <1>4. \A k \in Machines \ {m} : SameMachine(k)
    BY <1>1, <1>2, <1>3 DEF SameMachine, handlerFrame, sessionVars
  <1>5. ~HoldsRequest(m)' /\ ~HoldsReset(m)' /\ (AnswerAt(m, 0)' <=> plc'[m].response # RESPONSE_RESET)
    BY <1>2 DEF HoldsRequest, HoldsReset, AnswerAt, Operations
  <1>6. /\ HoldsRequest(m) <=> task[m].answer # RESPONSE_RESET
        /\ HoldsReset(m) <=> task[m].answer = RESPONSE_RESET
        /\ AnswerAt(m, 0) <=> task[m].answer # RESPONSE_RESET
    BY <1>1 DEF HoldsRequest, HoldsReset, AnswerAt, Operations
  <1>7. /\ flaps \in Nat /\ plc[m].n \in Nat /\ task[m].n \in Nat
        /\ \A g : Labelled(m, g) => g[0] \in Nat
    BY LabelledFirst DEF TypeInv, RestInv, PlcInv, Plc, TasksInv, Task
  <1>8. LateAnswer(m)'
    <2>1. LateOf(m)
      BY DEF LateInv
    <2>2. CASE plc'[m].response = plc[m].response /\ plc'[m].answered = plc[m].answered
      BY <1>3, <2>1, <2>2 DEF LateOf, LateAnswer
    <2>3. CASE plc'[m].response = task[m].answer /\ plc'[m].answered = task[m].n
      <3>1. PastNumbers(m) /\ \E g : Labelled(m, g)
        BY <1>1, <2>1 DEF LateOf
      <3>2. PICK g : Labelled(m, g)
        BY <3>1
      <3>3. /\ plc[m].n <= g[0]
            /\ HoldsRequest(m) => g[0] <= task[m].n + flaps
            /\ task[m].n <= plc[m].n
        BY <1>1, <3>1, <3>2 DEF Labelled, FirstLabel, LabelBounds, PastNumbers
      <3>4. HoldsRequest(m) => plc[m].n <= task[m].n + flaps
        BY <1>7, <3>2, <3>3
      <3> QED
        BY <1>3, <1>6, <2>3, <3>3, <3>4 DEF LateAnswer
    <2> QED
      BY <1>3, <2>2, <2>3
  <1>9. ASSUME NEW g, Labelled(m, g)
        PROVE  \E c \in Nat :
                 /\ c <= g[0]
                 /\ FirstLabel(m, c)'
                 /\ AnswerAt(m, 0)' => AnswerAt(m, 0) \/ c < g[0]
    <2>1. g[0] \in Nat /\ FirstLabel(m, g[0])
      BY <1>7, <1>9 DEF Labelled
    <2>2. CASE plc'[m].response = RESPONSE_RESET \/ task[m].answer # RESPONSE_RESET
      <3>1. g[0] <= g[0] /\ FirstLabel(m, g[0])'
        BY <1>3, <1>5, <1>6, <2>1, <2>2 DEF FirstLabel
      <3>2. AnswerAt(m, 0)' => AnswerAt(m, 0)
        BY <1>5, <1>6, <2>2
      <3> QED
        BY <2>1, <3>1, <3>2
    <2>3. CASE plc'[m].response # RESPONSE_RESET /\ task[m].answer = RESPONSE_RESET
      <3>1. plc[m].n < g[0]
        BY <1>3, <1>6, <2>1, <2>3 DEF FirstLabel
      <3>2. PICK c \in Nat : g[0] = c + 1 /\ c < g[0] /\ c <= g[0] /\ plc[m].n <= c
        <4>1. g[0] - 1 \in Nat /\ g[0] = (g[0] - 1) + 1 /\ g[0] - 1 < g[0] /\ g[0] - 1 <= g[0]
              /\ plc[m].n <= g[0] - 1
          BY <1>7, <2>1, <3>1
        <4> QED
          BY <4>1
      <3>3. FirstLabel(m, c)'
        BY <1>3, <1>5, <2>3, <3>2 DEF FirstLabel
      <3> QED
        BY <3>2, <3>3
    <2> QED
      BY <2>2, <2>3
  <1> QED
    BY <1>1, <1>2, <1>3, <1>4, <1>5, <1>8, <1>9, HandlerLate

\* What is received keeps its label.
LEMMA ReceiveLate ==
    ASSUME TypeInv, LateInv, NEW m \in Machines, Receive(m), flaps' = flaps
    PROVE  LateInv'
  <1> DEFINE t == [NoTask EXCEPT !.request = Head(rx[m]).code, !.n = Head(rx[m]).n]
  <1>1. /\ pc[m] = "idle" /\ rx[m] # <<>>
        /\ rx' = [rx EXCEPT ![m] = Tail(rx[m])]
        /\ is_initial' = [is_initial EXCEPT ![m] = FALSE]
        /\ UNCHANGED <<plc, session, sampled, saved, issued>>
        /\ \/ t.request # Reset /\ Goto(m, "initial", t)
           \/ handle_request(m, t)
    BY DEF Receive, historyVars
  <1>2. /\ rx[m] \in Seq(Notification) /\ rx'[m] = Tail(rx[m])
        /\ \A k \in Machines \ {m} : rx'[k] = rx[k] /\ is_initial'[k] = is_initial[k]
    BY <1>1 DEF TypeInv, SessionsInv
  <1>3. PICK L : L = Len(rx[m])
    OBVIOUS
  <1>4. /\ L \in Nat \ {0} /\ Len(rx'[m]) = L - 1
        /\ \A i \in 1 .. L - 1 : rx'[m][i] = rx[m][i + 1]
    BY <1>1, <1>2, <1>3, ChannelTail
  <1>5. t.request = rx[m][1].code /\ t.n = rx[m][1].n
    <2>1. Head(rx[m]) = rx[m][1]
      BY <1>1, <1>2, ChannelTail
    <2>2. t.request = Head(rx[m]).code /\ t.n = Head(rx[m]).n
      BY DEF NoTask
    <2> QED
      BY <2>1, <2>2
  <1>6. /\ flaps \in Nat /\ plc[m].n \in Nat
        /\ \A i \in 1 .. L : rx[m][i].n \in Nat
    BY <1>2, <1>3, ChannelNumbers DEF TypeInv, RestInv, PlcInv, Plc
  <1> HIDE DEF t
  <1>7. /\ \A k \in Machines \ {m} : pc'[k] = pc[k] /\ task'[k] = task[k]
        /\ task'[m].n = t.n
        /\ \/ pc'[m] = "initial" /\ task'[m] = t /\ t.request # Reset
           \/ Dispatched(m, t) /\ t.request # Reset
           \/ pc'[m] = "respond" /\ task'[m].answer = RESPONSE_RESET /\ t.request = Reset
    BY <1>1, GotoEffect, HandleRequestEffect DEF Dispatched
  <1>8. \A k \in Machines \ {m} : SameMachine(k)
    BY <1>1, <1>2, <1>7 DEF SameMachine
  <1>9. /\ pc'[m] \notin {"none", "idle"} /\ task'[m].n = rx[m][1].n
        /\ pc'[m] = "initial" => task'[m].request # Reset
        /\ HoldsRequest(m)' => rx[m][1].code # Reset
        /\ HoldsReset(m)' => rx[m][1].code = Reset
    BY <1>5, <1>7 DEF Dispatched, HoldsRequest, HoldsReset, Operations
  <1>10. LateAnswer(m)' /\ PastNumbers(m)
    BY <1>1 DEF LateInv, LateOf, LateAnswer
  <1>11. PastNumbers(m)'
    <2>1. 1 \in 1 .. L /\ \A i \in 1 .. L - 1 : i + 1 \in 1 .. L
      BY <1>4
    <2>2. \A i \in 1 .. L : rx[m][i].n <= plc[m].n
      BY <1>3, <1>10 DEF PastNumbers
    <2>3. \A i \in 1 .. L - 1 : rx'[m][i].n <= plc[m].n
      BY <1>4, <2>1, <2>2
    <2> QED
      BY <1>1, <1>4, <1>9, <2>1, <2>2, <2>3 DEF PastNumbers
  <1>12. PICK g : Labelled(m, g)
    BY <1>1 DEF LateInv, LateOf
  <1>13. /\ g \in [0 .. L -> Nat]
         /\ FirstLabel(m, g[0]) /\ LabelSteps(m, g) /\ LabelBounds(m, g) /\ LastLabel(m, g[L])
    BY <1>3, <1>12 DEF Labelled
  <1>14. PICK h : /\ h \in [0 .. L - 1 -> Nat]
                  /\ \A i \in 0 .. L - 1 : h[i] = g[i + 1]
    <2> DEFINE f == [i \in 0 .. L - 1 |-> g[i + 1]]
    <2>1. \A i \in 0 .. L - 1 : i + 1 \in 0 .. L
      BY <1>4
    <2>2. f \in [0 .. L - 1 -> Nat] /\ \A i \in 0 .. L - 1 : f[i] = g[i + 1]
      BY <1>13, <2>1
    <2> QED
      BY <2>2
  <1>15. /\ 1 \in 1 .. L /\ 1 \in 0 .. L /\ 0 \in 0 .. L /\ h[0] = g[1] /\ h[L - 1] = g[L]
         /\ g[0] \in Nat /\ g[1] \in Nat
    <2>1. 0 \in 0 .. L - 1 /\ L - 1 \in 0 .. L - 1 /\ 0 + 1 = 1 /\ (L - 1) + 1 = L
          /\ 1 \in 1 .. L /\ 1 \in 0 .. L /\ 0 \in 0 .. L
      BY <1>4
    <2> QED
      BY <1>13, <1>14, <2>1
  <1>16. \A i \in 0 .. L - 1 : AnswerAt(m, i)' => AnswerAt(m, i + 1)
    <2> SUFFICES ASSUME NEW i \in 0 .. L - 1, AnswerAt(m, i)' PROVE AnswerAt(m, i + 1)
      OBVIOUS
    <2>1. i + 1 # 0 /\ (i = 0 => i + 1 = 1) /\ (i # 0 => i \in 1 .. L - 1)
      BY <1>4
    <2> QED
      BY <1>4, <1>9, <2>1 DEF AnswerAt
  <1>17. FirstLabel(m, h[0])'
    <2>1. g[0] <= g[1] /\ ((rx[m][1].code = Reset /\ AnswerAt(m, 0)) => g[0] < g[1])
      BY <1>3, <1>13, <1>15 DEF LabelSteps
    <2>2. (HoldsReset(m)' /\ plc[m].response # RESPONSE_RESET) => g[0] < g[1]
      BY <1>1, <1>9, <2>1 DEF AnswerAt
    <2>3. /\ plc[m].n <= g[0]
          /\ (plc[m].request = Reset /\ plc[m].response = RESPONSE_RESET) => plc[m].n < g[0]
      BY <1>13 DEF FirstLabel
    <2>4. /\ plc[m].n <= g[1]
          /\ g[0] < g[1] => plc[m].n < g[1]
          /\ plc[m].n < g[0] => plc[m].n < g[1]
      BY <1>6, <1>15, <2>1, <2>3
    <2> QED
      BY <1>1, <1>15, <2>2, <2>3, <2>4 DEF FirstLabel
  <1>18. LabelSteps(m, h)'
    <2>1. ASSUME NEW i \in 1 .. L - 1
          PROVE  /\ h[i - 1] <= h[i]
                 /\ (rx'[m][i].code = Reset /\ AnswerAt(m, i - 1)') => h[i - 1] < h[i]
      <3>1. /\ i \in 0 .. L - 1 /\ i - 1 \in 0 .. L - 1 /\ (i - 1) + 1 = i
            /\ i + 1 \in 1 .. L /\ (i + 1) - 1 = i
        BY <1>4
      <3>2. /\ h[i] = g[i + 1] /\ h[i - 1] = g[i] /\ rx'[m][i] = rx[m][i + 1]
            /\ AnswerAt(m, i - 1)' => AnswerAt(m, i)
        BY <1>4, <1>14, <1>16, <3>1
      <3>3. g[i] <= g[i + 1] /\ ((rx[m][i + 1].code = Reset /\ AnswerAt(m, i)) => g[i] < g[i + 1])
        BY <1>3, <1>13, <3>1 DEF LabelSteps
      <3> QED
        BY <3>2, <3>3
    <2> QED
      BY <1>4, <2>1 DEF LabelSteps
  <1>19. LabelBounds(m, h)'
    <2>1. \A i \in 1 .. L : rx[m][i].code # Reset => g[i] <= rx[m][i].n + flaps
      BY <1>3, <1>13 DEF LabelBounds
    <2>2. HoldsRequest(m)' => h[0] <= task'[m].n + flaps'
      BY <1>9, <1>15, <2>1
    <2>3. ASSUME NEW i \in 1 .. L - 1, rx'[m][i].code # Reset
          PROVE  h[i] <= rx'[m][i].n + flaps'
      <3>1. i \in 0 .. L - 1 /\ i + 1 \in 1 .. L
        BY <1>4
      <3> QED
        BY <1>4, <1>14, <2>1, <2>3, <3>1
    <2> QED
      BY <1>4, <2>2, <2>3 DEF LabelBounds
  <1>20. LastLabel(m, h[L - 1])'
    <2>1. L - 1 \in 0 .. L - 1 /\ (L - 1) + 1 = L
      BY <1>4
    <2>2. AnswerAt(m, L - 1)' => AnswerAt(m, L)
      BY <1>16, <2>1
    <2> QED
      BY <1>1, <1>3, <1>4, <1>13, <1>15, <2>2 DEF LastLabel
  <1>21. Labelled(m, h)'
    BY <1>4, <1>14, <1>17, <1>18, <1>19, <1>20 DEF Labelled
  <1>22. LateOf(m)'
    BY <1>9, <1>10, <1>11, <1>21 DEF LateOf
  <1> QED
    BY <1>6, <1>8, <1>22, OneLate

\* Jobs without a handler, the draining task and the clock change nothing for the sessions; a
\* crash leaves the answers.
LEMMA OthersLate ==
    ASSUME TypeInv, LateInv,
           \/ UNCHANGED vars
           \/ \E job \in orphans : OrphanJob(job)
           \/ DrainQueues \/ Shutdown \/ Restart \/ Crash \/ NextDay
    PROVE  LateInv'
  <1>1. UNCHANGED <<plc, flaps>>
    BY DEF vars, OrphanJob, DrainQueues, Shutdown, Restart, Crash, NextDay, Restarts, countVars
  <1>2. \A m \in Machines : LateAnswer(m)'
    BY <1>1 DEF LateInv, LateOf, LateAnswer
  <1>3. CASE Crash
    BY <1>2, <1>3 DEF Crash, LateInv, LateOf
  <1>4. CASE \/ UNCHANGED vars
             \/ \E job \in orphans : OrphanJob(job)
             \/ DrainQueues \/ Shutdown \/ Restart \/ NextDay
    <2>1. UNCHANGED <<sampled, rx, pc, task>>
      BY <1>4 DEF vars, OrphanJob, DrainQueues, Shutdown, Restart, NextDay, sessionVars
    <2> SUFFICES ASSUME NEW m \in Machines PROVE LateOf(m)'
      BY DEF LateInv
    <2>2. \A g : Labelled(m, g) => Labelled(m, g)'
      BY <1>1, <2>1 DEF Labelled, FirstLabel, LabelSteps, LabelBounds, LastLabel, AnswerAt,
         HoldsRequest, HoldsReset
    <2>3. LateOf(m) /\ (PastNumbers(m) => PastNumbers(m)')
      BY <1>1, <2>1 DEF LateInv, PastNumbers
    <2> QED
      BY <1>2, <2>1, <2>2, <2>3 DEF LateOf
  <1> QED
    BY <1>3, <1>4

\* Each step keeps the answers from being later than the bad values.
LEMMA NextLate ==
    ASSUME TypeInv, LateInv, [Next]_vars
    PROVE  LateInv'
  <1>1. CASE \E m \in Machines : PublishBad(m)
    BY <1>1, PublishBadLate
  <1>2. CASE ~ \E m \in Machines : PublishBad(m)
    <2>1. flaps' = flaps
      BY <1>2, FlapsKept
    <2>2. ASSUME NEW m \in Machines, SetRequest(m) \/ ResetRequest(m) \/ install(m) \/ Publish(m)
          PROVE  LateInv'
      BY <2>1, <2>2, SetRequestLate, ResetRequestLate, InstallLate, PublishLate
    <2>3. ASSUME NEW m \in Machines, Disconnect(m) \/ DropDead(m) \/ HandlerStop(m)
          PROVE  LateInv'
      BY <2>1, <2>3, SessionLate
    <2>4. ASSUME NEW m \in Machines, Handler(m)
          PROVE  LateInv'
      BY <2>1, <2>3, <2>4, ReceiveLate, InitialLate, OperationLate, RespondLate DEF Handler
    <2>5. CASE \/ UNCHANGED vars
               \/ \E job \in orphans : OrphanJob(job)
               \/ DrainQueues \/ Shutdown \/ Restart \/ Crash \/ NextDay
      BY <2>5, OthersLate
    <2> QED
      BY <1>2, <2>2, <2>3, <2>4, <2>5 DEF Next
  <1> QED
    BY <1>1, <1>2

\* Whatever is notified, lost, stopped, crashed or fails, an answer that a machine sees is that
\* of one of its last requests: of the last one but as many as bad values were notified.
THEOREM AnswersLateInvariance == Spec => []AnswersLate
  <1>1. Init => TypeInv /\ LateInv
    <2> SUFFICES ASSUME Init PROVE TypeInv /\ LateInv
      OBVIOUS
    <2>1. \A m \in Machines : pc[m] = "none" /\ plc[m].response = RESPONSE_RESET
      BY DEF Init
    <2> QED
      BY <2>1, InitTypes DEF LateInv, LateOf, LateAnswer
  <1>2. TypeInv /\ LateInv /\ [Next]_vars => TypeInv' /\ LateInv'
    BY NextTypes, NextLate
  <1>3. TypeInv /\ LateInv => AnswersLate
    <2> SUFFICES ASSUME TypeInv, LateInv, NEW m \in Machines, plc[m].response # RESPONSE_RESET
                 PROVE  plc[m].n - plc[m].answered \in 0 .. flaps
      BY DEF AnswersLate
    <2>1. /\ plc[m].answered <= plc[m].n /\ plc[m].n <= plc[m].answered + flaps
      BY DEF LateInv, LateOf, LateAnswer
    <2>2. plc[m].n \in Nat /\ plc[m].answered \in Nat /\ flaps \in Nat
      BY DEF TypeInv, RestInv, PlcInv, Plc
    <2> QED
      BY <2>1, <2>2
  <1> QED
    BY <1>1, <1>2, <1>3, PTL DEF Spec
=============================================================================
