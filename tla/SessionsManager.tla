---------------------------- MODULE SessionsManager ----------------------------
(***************************************************************************)
(* The OPC-UA sessions of the machines (opcua/session_manager.rs and         *)
(* opcua/session.rs) and the heartbeat of each (handler/install.rs).          *)
(*                                                                         *)
(* The manager ticks: it drops the sessions whose event loop has ended and    *)
(* spawns a start task for each machine that is not in the registry.  Nothing *)
(* but the timeout of the start tasks, shorter than the tick, keeps two of    *)
(* them from working for the same machine, so time is modelled: it does not   *)
(* pass while a timer is due.  The registry is shared: a start task may fill  *)
(* it between two steps of the manager, or after the manager has emptied it.  *)
(***************************************************************************)
EXTENDS Naturals, FiniteSets

CONSTANTS
    Machines,
    Slots,          \* a machine's start tasks and sessions, told apart
    TickInterval,   \* MANAGER_TICK_INTERVAL, in seconds
    ConnectTimeout  \* CONNECT_TIMEOUT, in seconds

ASSUME SessionsAssumption ==
    /\ Slots \subseteq Nat
    /\ TickInterval \in Nat
    /\ ConnectTimeout \in Nat
    /\ ConnectTimeout < TickInterval

VARIABLES
    manager,    \* "idle", "spawning", "stopping", "done", or "exited"
    running,    \* running_sessions
    timer,      \* seconds to the next tick
    shutdown,   \* the shutdown token
    link,       \* start tasks and sessions
    hb_value,   \* the value that the heartbeat task of a session writes next
    reachable,  \* the machine answers
    beat        \* the heartbeat variable of the machine

vars == <<manager, running, timer, shutdown, link, hb_value, reachable, beat>>

Links == Machines \X Slots

\* The stages of start_session, each an await, and those of a session.
StartStages == {"endpoints", "connecting", "initializing", "installing"}
SessionStages == {"registered", "taken", "stopping"}
Stages == {"free", "detached"} \cup StartStages \cup SessionStages

Tasks == {"heartbeat", "handler"}

Free == [stage |-> "free", age |-> 0, loop |-> "none", tasks |-> {}]

Init ==
    /\ manager = "idle"
    /\ running = {}
    /\ timer = 0
    /\ shutdown = FALSE
    /\ link = [l \in Links |-> Free]
    /\ hb_value = [l \in Links |-> TRUE]
    /\ reachable \in [Machines -> BOOLEAN]
    /\ beat = [m \in Machines |-> FALSE]

Starting(l) == link[l].stage \in StartStages
LoopRuns(l) == link[l].loop = "run"

-----------------------------------------------------------------------------
(* Time *)

\* Mutant: start_session is not subject to a timeout.
PassTimeNoTimeout ==
    /\ manager # "exited"
    /\ manager # "spawning"
    /\ (manager = "idle" /\ ~shutdown) => timer > 0
    /\ timer' = IF timer > 0 THEN timer - 1 ELSE 0
    /\ link' = [l \in Links |-> IF Starting(l) THEN [link[l] EXCEPT !.age = @ + 1] ELSE link[l]]
    /\ UNCHANGED <<manager, running, shutdown, hb_value, reachable, beat>>

\* Timers fire on time: a tick that is due, the work of a tick and a timeout that has
\* elapsed come before the next second.
PassTime ==
    /\ manager # "exited"
    /\ manager # "spawning"
    /\ (manager = "idle" /\ ~shutdown) => timer > 0
    /\ \A l \in Links : Starting(l) => link[l].age < ConnectTimeout
    /\ timer' = IF timer > 0 THEN timer - 1 ELSE 0
    /\ link' = [l \in Links |-> IF Starting(l) THEN [link[l] EXCEPT !.age = @ + 1] ELSE link[l]]
    /\ UNCHANGED <<manager, running, shutdown, hb_value, reachable, beat>>

-----------------------------------------------------------------------------
(* The sessions manager *)

\* Mutant: dead sessions stay in the registry, only they no longer count as running.
RetainAll ==
    /\ manager = "idle"
    /\ ~shutdown
    /\ timer = 0
    /\ manager' = "spawning"
    /\ timer' = TickInterval
    /\ running' = {l[1] : l \in {l \in Links : link[l].stage = "registered" /\ LoopRuns(l)}}
    /\ UNCHANGED <<link, shutdown, hb_value, reachable, beat>>

\* Mutant: a session counts as running once it is registered, whatever became of it.
RetainDead ==
    /\ manager = "idle"
    /\ ~shutdown
    /\ timer = 0
    /\ manager' = "spawning"
    /\ timer' = TickInterval
    /\ running' = {l[1] : l \in {l \in Links : link[l].stage = "registered"}}
    /\ UNCHANGED <<link, shutdown, hb_value, reachable, beat>>

\* A tick (missed ones delay the next): sessions whose event loop is finished are
\* dropped, which aborts their tasks, and the others are listed.
Retain ==
    /\ manager = "idle"
    /\ ~shutdown
    /\ timer = 0
    /\ manager' = "spawning"
    /\ timer' = TickInterval
    /\ link' = [l \in Links |->
                  IF link[l].stage = "registered" /\ ~LoopRuns(l) THEN Free ELSE link[l]]
    /\ running' = {l[1] : l \in {l \in Links : link'[l].stage = "registered"}}
    /\ UNCHANGED <<shutdown, hb_value, reachable, beat>>

\* Where the next start task of a machine is kept.
FreeLink(l) ==
    /\ link[l].stage = "free"
    /\ \A i \in Slots : link[<<l[1], i>>].stage = "free" => l[2] <= i

\* The registry is no longer locked, and running may be out of date.
SpawnStarts ==
    /\ manager = "spawning"
    /\ manager' = "idle"
    /\ running' = {}
    /\ link' = [l \in Links |->
                  IF l[1] \notin running /\ FreeLink(l)
                  THEN [Free EXCEPT !.stage = "endpoints"] ELSE link[l]]
    /\ UNCHANGED <<timer, shutdown, hb_value, reachable, beat>>

Shutdown ==
    /\ manager # "exited"
    /\ ~shutdown
    /\ shutdown' = TRUE
    /\ UNCHANGED <<manager, running, timer, link, hb_value, reachable, beat>>

\* The stream of ticks ends: the registry is emptied.
TakeRegistry ==
    /\ manager = "idle"
    /\ shutdown
    /\ manager' = "stopping"
    /\ link' = [l \in Links |->
                  IF link[l].stage = "registered" THEN [link[l] EXCEPT !.stage = "taken"]
                  ELSE link[l]]
    /\ UNCHANGED <<running, timer, shutdown, hb_value, reachable, beat>>

\* OpcUaSession::stop, one session after the other: the tasks are cancelled ...
StopCancel(l) ==
    /\ manager = "stopping"
    /\ link[l].stage = "taken"
    /\ \A k \in Links : link[k].stage # "stopping"
    /\ link' = [link EXCEPT ![l].stage = "stopping"]
    /\ UNCHANGED <<manager, running, timer, shutdown, hb_value, reachable, beat>>

\* Mutant: the heartbeat has not the token that is cancelled.
TaskEndsUncancelled(l, t) ==
    /\ link[l].stage = "stopping"
    /\ t \in link[l].tasks \ {"heartbeat"}
    /\ link' = [link EXCEPT ![l].tasks = @ \ {t}]
    /\ UNCHANGED <<manager, running, timer, shutdown, hb_value, reachable, beat>>

\* ... and end, the handler once its request is over ...
TaskEnds(l, t) ==
    /\ link[l].stage = "stopping"
    /\ t \in link[l].tasks
    /\ link' = [link EXCEPT ![l].tasks = @ \ {t}]
    /\ UNCHANGED <<manager, running, timer, shutdown, hb_value, reachable, beat>>

\* ... the session is disconnected, which ends its event loop, ...
StopDisconnect(l) ==
    /\ link[l].stage = "stopping"
    /\ link[l].tasks = {}
    /\ LoopRuns(l)
    /\ link' = [link EXCEPT ![l].loop = "ended"]
    /\ UNCHANGED <<manager, running, timer, shutdown, hb_value, reachable, beat>>

\* ... and the event loop is joined.
StopJoin(l) ==
    /\ link[l].stage = "stopping"
    /\ link[l].tasks = {}
    /\ ~LoopRuns(l)
    /\ link' = [link EXCEPT ![l] = Free]
    /\ UNCHANGED <<manager, running, timer, shutdown, hb_value, reachable, beat>>

\* What is dropped with the registry, or out of it, leaves its event loop running.
Dropped(x) ==
    IF x.loop = "run" THEN [stage |-> "detached", age |-> 0, loop |-> "run", tasks |-> {}]
    ELSE Free

\* The registry goes with its last owner, the manager or a start task.
DropRegistry(mgr, f) ==
    IF mgr = "done" /\ \A l \in Links : f[l].stage \notin StartStages
    THEN [l \in Links |-> IF f[l].stage = "registered" THEN Dropped(f[l]) ELSE f[l]]
    ELSE f

ManagerReturns ==
    /\ manager = "stopping"
    /\ \A l \in Links : link[l].stage \notin {"taken", "stopping"}
    /\ manager' = "done"
    /\ link' = DropRegistry("done", link)
    /\ UNCHANGED <<running, timer, shutdown, hb_value, reachable, beat>>

\* run_main returns some time later, when the queues are drained.
ProcessExit ==
    /\ manager = "done"
    /\ manager' = "exited"
    /\ link' = [l \in Links |-> Free]
    /\ UNCHANGED <<running, timer, shutdown, hb_value, reachable, beat>>

-----------------------------------------------------------------------------
(* start_session *)

Answers(l) == reachable[l[1]] /\ link[l].loop # "ended"

\* connect_to_matching_endpoint, then the event loop is spawned.
GotEndpoints(l) ==
    /\ link[l].stage = "endpoints"
    /\ Answers(l)
    /\ link' = [link EXCEPT ![l].stage = "connecting", ![l].loop = "run"]
    /\ UNCHANGED <<manager, running, timer, shutdown, hb_value, reachable, beat>>

Connected(l) ==
    /\ link[l].stage = "connecting"
    /\ Answers(l)
    /\ link' = [link EXCEPT ![l].stage = "initializing"]
    /\ UNCHANGED <<manager, running, timer, shutdown, hb_value, reachable, beat>>

Initialized(l) ==
    /\ link[l].stage = "initializing"
    /\ Answers(l)
    /\ link' = [link EXCEPT ![l].stage = "installing"]
    /\ UNCHANGED <<manager, running, timer, shutdown, hb_value, reachable, beat>>

\* The tasks are spawned and the session is registered without any await in between.
\* A session it replaces in the registry is dropped.
Installed(l) ==
    /\ link[l].stage = "installing"
    /\ Answers(l)
    /\ link' = DropRegistry(manager,
                [k \in Links |->
                    IF k = l
                    THEN [stage |-> "registered", age |-> 0, loop |-> link[l].loop, tasks |-> Tasks]
                    ELSE IF k[1] = l[1] /\ link[k].stage = "registered" THEN Dropped(link[k])
                    ELSE link[k]])
    /\ hb_value' = [hb_value EXCEPT ![l] = TRUE]
    /\ UNCHANGED <<manager, running, timer, shutdown, reachable, beat>>

\* Mutant: nothing aborts the event loop of a start that fails.
StartEndsDetached(l) ==
    /\ Starting(l)
    /\ link' = DropRegistry(manager, [link EXCEPT ![l] = Dropped(@)])
    /\ UNCHANGED <<manager, running, timer, shutdown, hb_value, reachable, beat>>

\* A call fails, or the timeout elapses: AbortOnDropHandle aborts the event loop.
StartEnds(l) ==
    /\ Starting(l)
    /\ link' = DropRegistry(manager, [link EXCEPT ![l] = Free])
    /\ UNCHANGED <<manager, running, timer, shutdown, hb_value, reachable, beat>>

StartTimeout(l) == link[l].age = ConnectTimeout /\ StartEnds(l)

-----------------------------------------------------------------------------
(* Sessions and machines *)

\* Reconnections are disabled: an event loop ends with its connection.
LoopEnds(l) ==
    /\ LoopRuns(l)
    /\ link' = [link EXCEPT ![l].loop = "ended"]
    /\ UNCHANGED <<manager, running, timer, shutdown, hb_value, reachable, beat>>

\* Mutant: the value does not alternate.
HeartbeatConstant(l, ok) ==
    /\ "heartbeat" \in link[l].tasks
    /\ link[l].stage # "stopping"
    /\ ok => LoopRuns(l) /\ reachable[l[1]]
    /\ beat' = IF ok THEN [beat EXCEPT ![l[1]] = hb_value[l]] ELSE beat
    /\ UNCHANGED <<manager, running, timer, shutdown, link, hb_value, reachable>>

\* The result of the write is ignored: the value alternates whether it was written or not.
Heartbeat(l, ok) ==
    /\ "heartbeat" \in link[l].tasks
    /\ link[l].stage # "stopping"
    /\ ok => LoopRuns(l) /\ reachable[l[1]]
    /\ beat' = IF ok THEN [beat EXCEPT ![l[1]] = hb_value[l]] ELSE beat
    /\ hb_value' = [hb_value EXCEPT ![l] = ~@]
    /\ UNCHANGED <<manager, running, timer, shutdown, link, reachable>>

\* A write that is under way when the token is cancelled ends before the task does.
HeartbeatLast(l, ok) ==
    /\ link[l].stage = "stopping"
    /\ "heartbeat" \in link[l].tasks
    /\ ok => LoopRuns(l) /\ reachable[l[1]]
    /\ beat' = IF ok THEN [beat EXCEPT ![l[1]] = hb_value[l]] ELSE beat
    /\ hb_value' = [hb_value EXCEPT ![l] = ~@]
    /\ link' = [link EXCEPT ![l].tasks = @ \ {"heartbeat"}]
    /\ UNCHANGED <<manager, running, timer, shutdown, reachable>>

Outage(m) ==
    /\ manager # "exited"
    /\ reachable' = [reachable EXCEPT ![m] = ~@]
    /\ UNCHANGED <<manager, running, timer, shutdown, link, hb_value, beat>>

-----------------------------------------------------------------------------

Manager ==
    \/ Retain \/ SpawnStarts \/ TakeRegistry
    \/ \E l \in Links : StopCancel(l) \/ StopDisconnect(l) \/ StopJoin(l)
    \/ ManagerReturns \/ ProcessExit

Start(l) == GotEndpoints(l) \/ Connected(l) \/ Initialized(l) \/ Installed(l) \/ StartEnds(l)

Next ==
    \/ PassTime \/ Manager \/ Shutdown
    \/ \E l \in Links :
        \/ Start(l) \/ LoopEnds(l)
        \/ \E ok \in BOOLEAN : Heartbeat(l, ok) \/ HeartbeatLast(l, ok)
        \/ \E t \in Tasks : TaskEnds(l, t)
    \/ \E m \in Machines : Outage(m)

Spec == Init /\ [][Next]_vars

\* The runtime runs its tasks and its clock, and an event loop ends when its machine
\* does not answer any more (keep-alive).
Fairness ==
    /\ WF_vars(PassTime)
    /\ WF_vars(Manager)
    /\ \A l \in Links :
        /\ WF_vars(StartTimeout(l))
        /\ WF_vars(~reachable[l[1]] /\ LoopEnds(l))
        /\ WF_vars(\E t \in Tasks : TaskEnds(l, t))

FairSpec == Spec /\ Fairness

\* A machine that answers does so in time at some attempt, and takes either value of
\* the heartbeat at some write.
AnsweringFairness ==
    \A m \in Machines :
        LET Of(A(_)) == \E i \in Slots : A(<<m, i>>)
        IN  /\ SF_vars(Of(GotEndpoints))
            /\ SF_vars(Of(Connected))
            /\ SF_vars(Of(Initialized))
            /\ SF_vars(Of(Installed))
            /\ \A v \in BOOLEAN :
                SF_vars(\E i \in Slots : hb_value[<<m, i>>] = v /\ Heartbeat(<<m, i>>, TRUE))

AnsweringSpec == FairSpec /\ AnsweringFairness

-----------------------------------------------------------------------------
(* Safety *)

TypeOK ==
    /\ manager \in {"idle", "spawning", "stopping", "done", "exited"}
    /\ running \subseteq Machines
    /\ timer \in 0 .. TickInterval
    /\ shutdown \in BOOLEAN
    /\ link \in [Links -> [stage : Stages, age : 0 .. ConnectTimeout,
                           loop : {"none", "run", "ended"}, tasks : SUBSET Tasks]]
    /\ hb_value \in [Links -> BOOLEAN]
    /\ reachable \in [Machines -> BOOLEAN]
    /\ beat \in [Machines -> BOOLEAN]

\* However connections, timeouts and ticks fall, a machine is never served twice: no two
\* of its start tasks and sessions exist at the same time, so that no two event loops run
\* for it and no two handlers answer its requests.
OneLinkPerMachine ==
    \A k, l \in Links :
        (k[1] = l[1] /\ link[k].stage # "free" /\ link[l].stage # "free") => k = l

\* A shutdown is graceful: when the manager has returned, no session is left running.
SessionsStopped ==
    manager \in {"done", "exited"} =>
        \A l \in Links : LoopRuns(l) => link[l].stage \notin {"registered", "detached"}

-----------------------------------------------------------------------------
(* Refinement and liveness *)

session ==
    [m \in Machines |->
        LET mine == {l \in Links : l[1] = m /\ link[l].stage \in SessionStages}
        IN  IF mine = {} THEN "none"
            ELSE IF \E l \in mine : LoopRuns(l) THEN "live" ELSE "dead"]

Lifecycle == INSTANCE SessionLifecycle WITH Machines <- Machines, session <- session

\* Sessions go through the life cycle of SessionLifecycle: a dead session and its
\* handler are gone before the machine has another session.
ImplementsLifecycle == Lifecycle!Spec

\* The gateway reconnects forever: a machine that answers from some time on always has
\* a session again, whatever attempts failed before.
Reconnects ==
    \A m \in Machines :
        (<>[]reachable[m] /\ []~shutdown) => []<>(session[m] = "live")

\* The heartbeat of a machine whose session lasts never stops changing.
HeartbeatChanges ==
    \A m \in Machines :
        (<>[](session[m] = "live") /\ []~shutdown) => []<>(beat[m]) /\ []<>(~beat[m])

\* A shutdown comes to its end, although sessions are stopped one after the other and
\* some of them may be lost meanwhile.
ShutdownCompletes == shutdown ~> manager = "exited"
=============================================================================
