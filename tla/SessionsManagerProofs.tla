------------------------- MODULE SessionsManagerProofs -------------------------
(***************************************************************************)
(* A machine is never served twice, for any set of machines and any timeout  *)
(* that is shorter than the tick.                                            *)
(*                                                                         *)
(* OneLinkPerMachine is not inductive: it holds because a tick finds no start *)
(* task left over from the tick before.  The strengthening says why: as long  *)
(* as the manager ticks, the age of a start task and the time to the next     *)
(* tick add up to the tick interval (StartsOnTime), so that when a tick is    *)
(* due every start task has reached its timeout; while a tick is at work no   *)
(* start task is left and the list of running sessions is up to date         *)
(* (SpawnInv); and only a manager that stops takes or detaches a session      *)
(* (TickingStages).                                                          *)
(***************************************************************************)
EXTENDS SessionsManager, TLAPS

\* As long as ticks come, start tasks are as old as the last tick.
StartsOnTime ==
    (manager = "idle" /\ ~shutdown) =>
        \A l \in Links : Starting(l) => link[l].age + timer = TickInterval

\* Between the two halves of a tick, what is not free is a session that is listed.
SpawnInv ==
    manager = "spawning" =>
        /\ timer = TickInterval
        /\ \A l \in Links : link[l].stage # "free" =>
            link[l].stage = "registered" /\ l[1] \in running

\* Sessions are taken and detached only once the manager has stopped ticking.
TickingStages ==
    manager \in {"idle", "spawning"} =>
        \A l \in Links : link[l].stage \in {"free", "registered"} \cup StartStages

SessionsInv ==
    /\ TypeOK
    /\ StartsOnTime
    /\ SpawnInv
    /\ TickingStages
    /\ OneLinkPerMachine

-----------------------------------------------------------------------------

\* A link is the pair of its machine and its slot.
LEMMA LinkPairs ==
    ASSUME NEW l \in Links
    PROVE  l = <<l[1], l[2]>> /\ l[1] \in Machines /\ l[2] \in Slots
  BY DEF Links

\* The type of a link.
LinkType == [stage : Stages, age : 0 .. ConnectTimeout, loop : {"none", "run", "ended"},
             tasks : SUBSET Tasks]

\* A free link, and what is left of a dropped one, are links.
LEMMA DroppedType ==
    /\ Free \in LinkType
    /\ Free.stage = "free"
    /\ \A x \in LinkType : Dropped(x) \in LinkType /\ Dropped(x).stage \in {"free", "detached"}
  <1> USE SessionsAssumption DEF Free, LinkType, Stages, StartStages, SessionStages, Tasks
  <1>1. Free \in LinkType
    OBVIOUS
  <1>2. [stage |-> "detached", age |-> 0, loop |-> "run", tasks |-> {}] \in LinkType
    OBVIOUS
  <1> QED
    BY <1>1, <1>2 DEF Dropped

\* The end of the registry takes no link out of its type, and gives no stage to a
\* link but "detached", to a registered one, and only when the manager is done.
LEMMA DropRegistryEffect ==
    ASSUME NEW mgr, NEW f \in [Links -> LinkType]
    PROVE  /\ DropRegistry(mgr, f) \in [Links -> LinkType]
           /\ \A l \in Links : DropRegistry(mgr, f)[l].stage # "free" => f[l].stage # "free"
           /\ mgr # "done" => DropRegistry(mgr, f) = f
  BY DroppedType DEF DropRegistry

\* No step but SpawnStarts makes a link that is free anything else: one link for each
\* machine remains one.
LEMMA NoNewLink ==
    ASSUME OneLinkPerMachine,
           \A l \in Links : link'[l].stage # "free" => link[l].stage # "free"
    PROVE  OneLinkPerMachine'
  BY DEF OneLinkPerMachine, Links

-----------------------------------------------------------------------------

\* The initial states have the types of TypeOK and no link.
LEMMA InitSessions == Init => SessionsInv
  <1> SUFFICES ASSUME Init PROVE SessionsInv
    OBVIOUS
  <1>1. TypeOK
    <2>1. link \in [Links -> LinkType] /\ timer \in 0 .. TickInterval
      BY DroppedType, SessionsAssumption DEF Init
    <2>2. beat \in [Machines -> BOOLEAN] /\ hb_value \in [Links -> BOOLEAN]
      BY DEF Init
    <2> QED
      BY <2>1, <2>2 DEF Init, TypeOK, LinkType
  <1>2. \A l \in Links : link[l].stage = "free"
    BY DEF Init, Free
  <1> QED
    BY <1>1, <1>2 DEF Init, SessionsInv, StartsOnTime, SpawnInv, TickingStages,
                      OneLinkPerMachine, Starting, StartStages

\* What is in TypeOK besides the links.
OtherTypes ==
    /\ manager \in {"idle", "spawning", "stopping", "done", "exited"}
    /\ running \subseteq Machines
    /\ timer \in 0 .. TickInterval
    /\ shutdown \in BOOLEAN
    /\ hb_value \in [Links -> BOOLEAN]
    /\ reachable \in [Machines -> BOOLEAN]
    /\ beat \in [Machines -> BOOLEAN]

\* Every step, of the clock, of the manager, of a start task or of a session, preserves
\* the types.
LEMMA NextTypeOK ==
    ASSUME TypeOK, [Next]_vars
    PROVE  TypeOK'
  <1> USE SessionsAssumption
  <1>0. link \in [Links -> LinkType] /\ OtherTypes
    BY DEF TypeOK, LinkType, OtherTypes
  <1> SUFFICES link' \in [Links -> LinkType] /\ OtherTypes'
    BY DEF TypeOK, LinkType, OtherTypes
  <1>1. CASE PassTime
    <2>1. \A l \in Links : Starting(l) => link[l].age + 1 \in 0 .. ConnectTimeout
      BY <1>0, <1>1 DEF PassTime, LinkType
    <2>2. link' \in [Links -> LinkType]
      BY <1>0, <1>1, <2>1 DEF PassTime, LinkType
    <2> QED
      BY <1>0, <1>1, <2>2 DEF PassTime, OtherTypes
  <1>2. CASE Retain
    <2>1. link' \in [Links -> LinkType]
      BY <1>0, <1>2, DroppedType DEF Retain
    <2>2. running' \subseteq Machines
      BY <1>2, LinkPairs DEF Retain
    <2>3. /\ manager' = "spawning" /\ timer' = TickInterval
          /\ UNCHANGED <<shutdown, hb_value, reachable, beat>>
      BY <1>2 DEF Retain
    <2> QED
      BY <1>0, <2>1, <2>2, <2>3 DEF OtherTypes
  <1>3. CASE SpawnStarts
    <2>1. [Free EXCEPT !.stage = "endpoints"] \in LinkType
      BY DEF Free, LinkType, Stages, StartStages, Tasks
    <2> QED
      BY <1>0, <1>3, <2>1 DEF SpawnStarts, OtherTypes
  <1>4. CASE Shutdown
    BY <1>0, <1>4 DEF Shutdown, OtherTypes
  <1>5. CASE TakeRegistry
    <2>1. \A x \in LinkType : [x EXCEPT !.stage = "taken"] \in LinkType
      BY DEF LinkType, Stages, SessionStages
    <2> QED
      BY <1>0, <1>5, <2>1 DEF TakeRegistry, OtherTypes
  <1>6. ASSUME NEW l \in Links, StopCancel(l) \/ StopDisconnect(l) \/ StopJoin(l)
        PROVE  link' \in [Links -> LinkType] /\ OtherTypes'
    BY <1>0, <1>6, DroppedType
       DEF StopCancel, StopDisconnect, StopJoin, OtherTypes, LinkType, Stages, SessionStages
  <1>7. CASE ManagerReturns
    BY <1>0, <1>7, DropRegistryEffect DEF ManagerReturns, OtherTypes
  <1>8. CASE ProcessExit
    BY <1>0, <1>8, DroppedType DEF ProcessExit, OtherTypes
  <1>9. ASSUME NEW l \in Links, GotEndpoints(l) \/ Connected(l) \/ Initialized(l)
        PROVE  link' \in [Links -> LinkType] /\ OtherTypes'
    BY <1>0, <1>9
       DEF GotEndpoints, Connected, Initialized, OtherTypes, LinkType, Stages, StartStages
  <1>10. ASSUME NEW l \in Links, Installed(l)
         PROVE  link' \in [Links -> LinkType] /\ OtherTypes'
    <2>1. \A x \in LinkType :
            [stage |-> "registered", age |-> 0, loop |-> x.loop, tasks |-> Tasks] \in LinkType
      BY DEF LinkType, Stages, SessionStages
    <2>2. link' \in [Links -> LinkType]
      BY <1>0, <1>10, <2>1, DroppedType, DropRegistryEffect DEF Installed
    <2>3. hb_value' \in [Links -> BOOLEAN]
      BY <1>0, <1>10 DEF Installed, OtherTypes
    <2> QED
      BY <1>0, <1>10, <2>2, <2>3 DEF Installed, OtherTypes
  <1>11. ASSUME NEW l \in Links, StartEnds(l)
         PROVE  link' \in [Links -> LinkType] /\ OtherTypes'
    BY <1>0, <1>11, DroppedType, DropRegistryEffect DEF StartEnds, OtherTypes
  <1>12. ASSUME NEW l \in Links, LoopEnds(l)
         PROVE  link' \in [Links -> LinkType] /\ OtherTypes'
    BY <1>0, <1>12 DEF LoopEnds, OtherTypes, LinkType
  <1>13. ASSUME NEW l \in Links, NEW ok \in BOOLEAN, Heartbeat(l, ok)
         PROVE  link' \in [Links -> LinkType] /\ OtherTypes'
    <2>1. hb_value' \in [Links -> BOOLEAN]
      BY <1>0, <1>13 DEF Heartbeat, OtherTypes
    <2>2. beat' \in [Machines -> BOOLEAN]
      BY <1>0, <1>13, LinkPairs DEF Heartbeat, OtherTypes
    <2> QED
      BY <1>0, <1>13, <2>1, <2>2 DEF Heartbeat, OtherTypes
  <1>14. ASSUME NEW l \in Links, NEW t \in Tasks, TaskEnds(l, t)
         PROVE  link' \in [Links -> LinkType] /\ OtherTypes'
    BY <1>0, <1>14 DEF TaskEnds, OtherTypes, LinkType
  <1>15. ASSUME NEW m \in Machines, Outage(m)
         PROVE  link' \in [Links -> LinkType] /\ OtherTypes'
    <2>1. reachable' \in [Machines -> BOOLEAN]
      BY <1>0, <1>15 DEF Outage, OtherTypes
    <2> QED
      BY <1>0, <1>15, <2>1 DEF Outage, OtherTypes
  <1>16. CASE UNCHANGED vars
    BY <1>0, <1>16 DEF vars, OtherTypes
  <1>17. ASSUME NEW l \in Links, NEW ok \in BOOLEAN, HeartbeatLast(l, ok)
         PROVE  link' \in [Links -> LinkType] /\ OtherTypes'
    <2>1. hb_value' \in [Links -> BOOLEAN]
      BY <1>0, <1>17 DEF HeartbeatLast, OtherTypes
    <2>2. beat' \in [Machines -> BOOLEAN]
      BY <1>0, <1>17, LinkPairs DEF HeartbeatLast, OtherTypes
    <2>3. link' \in [Links -> LinkType]
      BY <1>0, <1>17 DEF HeartbeatLast, LinkType
    <2> QED
      BY <1>0, <1>17, <2>1, <2>2, <2>3 DEF HeartbeatLast, OtherTypes
  <1> QED
    BY <1>1, <1>2, <1>3, <1>4, <1>5, <1>6, <1>7, <1>8, <1>9, <1>10, <1>11, <1>12, <1>13,
       <1>14, <1>15, <1>16, <1>17 DEF Next, Manager, Start
-----------------------------------------------------------------------------

\* A step that changes no stage and no age, of a link or of the manager, leaves the
\* invariant as it is.
LEMMA SameStages ==
    ASSUME TypeOK, StartsOnTime, SpawnInv, TickingStages, OneLinkPerMachine,
           \A l \in Links : link'[l].stage = link[l].stage /\ link'[l].age = link[l].age,
           manager' = manager, running' = running, timer' = timer,
           shutdown' = shutdown \/ shutdown' = TRUE
    PROVE  StartsOnTime' /\ SpawnInv' /\ TickingStages' /\ OneLinkPerMachine'
  BY DEF StartsOnTime, SpawnInv, TickingStages, OneLinkPerMachine, Starting, Links

\* Once the manager has stopped ticking, only the number of links matters.
LEMMA StoppedManager ==
    ASSUME OneLinkPerMachine, manager' \notin {"idle", "spawning"},
           \A l \in Links : link'[l].stage # "free" => link[l].stage # "free"
    PROVE  StartsOnTime' /\ SpawnInv' /\ TickingStages' /\ OneLinkPerMachine'
  BY NoNewLink DEF StartsOnTime, SpawnInv, TickingStages

\* When a tick is due every start task is over: one that remained would be as old as
\* the tick interval, and its timeout is shorter.
LEMMA NoStartAtTick ==
    ASSUME TypeOK, StartsOnTime, manager = "idle", ~shutdown, timer = 0,
           NEW l \in Links
    PROVE  ~Starting(l)
  <1>1. link[l].age \in 0 .. ConnectTimeout
    BY DEF TypeOK
  <1> QED
    BY <1>1, SessionsAssumption DEF StartsOnTime

\* A second passes: the start tasks grow older as the tick comes nearer.
LEMMA PassTimeStep ==
    ASSUME SessionsInv, PassTime
    PROVE  StartsOnTime' /\ SpawnInv' /\ TickingStages' /\ OneLinkPerMachine'
  <1> USE DEF SessionsInv
  <1>1. link \in [Links -> LinkType] /\ timer \in 0 .. TickInterval
    BY DEF TypeOK, LinkType
  <1>2. \A l \in Links : /\ link'[l].stage = link[l].stage
                         /\ Starting(l) => link'[l].age = link[l].age + 1
    BY <1>1 DEF PassTime, LinkType
  <1>3. /\ UNCHANGED <<manager, running, shutdown>>
        /\ manager # "spawning"
        /\ manager = "idle" /\ ~shutdown => timer' = timer - 1
    BY <1>1, SessionsAssumption DEF PassTime
  <1>4. StartsOnTime'
    <2> SUFFICES ASSUME manager = "idle", ~shutdown, NEW l \in Links, Starting(l)
                 PROVE  link'[l].age + timer' = TickInterval
      BY <1>2, <1>3 DEF StartsOnTime, Starting
    <2>1. link[l].age + timer = TickInterval /\ link[l].age \in Nat /\ timer \in Nat
      BY <1>1, SessionsAssumption DEF StartsOnTime, LinkType
    <2>2. link'[l].age = link[l].age + 1 /\ timer' = timer - 1
      BY <1>2, <1>3
    <2> QED
      BY <2>1, <2>2, SessionsAssumption
  <1> QED
    BY <1>2, <1>3, <1>4, NoNewLink DEF SpawnInv, TickingStages

\* The first half of a tick: dead sessions go, and nothing but sessions is left.
LEMMA RetainStep ==
    ASSUME SessionsInv, Retain
    PROVE  StartsOnTime' /\ SpawnInv' /\ TickingStages' /\ OneLinkPerMachine'
  <1> USE DEF SessionsInv
  <1>1. \A l \in Links : /\ link'[l].stage # "free" => link[l].stage # "free"
                         /\ link'[l].stage \in {"free", link[l].stage}
    BY DroppedType DEF Retain
  <1>2. \A l \in Links : link[l].stage \in {"free", "registered"}
    BY NoStartAtTick DEF Retain, TickingStages, Starting
  <1>3. \A l \in Links : link'[l].stage = "registered" => l[1] \in running'
    BY DEF Retain
  <1>4. manager' = "spawning" /\ timer' = TickInterval
    BY DEF Retain
  <1> QED
    BY <1>1, <1>2, <1>3, <1>4, NoNewLink DEF StartsOnTime, SpawnInv, TickingStages

\* The second half: a start task is spawned for a machine that has no link at all, and
\* only one.
LEMMA SpawnStartsStep ==
    ASSUME SessionsInv, SpawnStarts
    PROVE  StartsOnTime' /\ SpawnInv' /\ TickingStages' /\ OneLinkPerMachine'
  <1> USE DEF SessionsInv
  <1>1. manager' = "idle" /\ timer' = timer /\ timer = TickInterval
    BY DEF SpawnStarts, SpawnInv
  <1>2. \A l \in Links : link[l].stage # "free" =>
            link[l].stage = "registered" /\ l[1] \in running
    BY DEF SpawnStarts, SpawnInv
  <1>3. \A l \in Links :
            \/ link'[l] = link[l]
            \/ /\ l[1] \notin running /\ FreeLink(l)
               /\ link'[l].stage = "endpoints" /\ link'[l].age = 0
    BY DEF SpawnStarts, Free
  <1>4. StartsOnTime'
    BY <1>1, <1>2, <1>3, SessionsAssumption DEF StartsOnTime, Starting, StartStages
  <1>5. TickingStages'
    BY <1>2, <1>3 DEF TickingStages, StartStages
  <1>6. OneLinkPerMachine'
    <2> SUFFICES ASSUME NEW k \in Links, NEW l \in Links, k[1] = l[1],
                        link'[k].stage # "free", link'[l].stage # "free"
                 PROVE  k = l
      BY DEF OneLinkPerMachine, Links
    <2>1. CASE k[1] \in running
      BY <1>3, <2>1 DEF OneLinkPerMachine
    <2>2. CASE k[1] \notin running
      <3>1. FreeLink(k) /\ FreeLink(l)
        BY <1>2, <1>3, <2>2
      <3>2. k[2] <= l[2] /\ l[2] <= k[2]
        BY <3>1, LinkPairs DEF FreeLink
      <3>3. k[2] \in Nat /\ l[2] \in Nat
        BY LinkPairs, SessionsAssumption
      <3>4. k[2] = l[2]
        BY <3>2, <3>3
      <3> QED
        BY <3>4, LinkPairs
    <2> QED
      BY <2>1, <2>2
  <1> QED
    BY <1>1, <1>4, <1>5, <1>6 DEF SpawnInv
-----------------------------------------------------------------------------
\* A start task goes on, registers its session or ends, never in the middle of a tick;
\* there is no session of its machine that it could replace in the registry.
LEMMA StartStep ==
    ASSUME SessionsInv, NEW l \in Links, Start(l)
    PROVE  StartsOnTime' /\ SpawnInv' /\ TickingStages' /\ OneLinkPerMachine'
  <1> USE DEF SessionsInv
  <1>0. link \in [Links -> LinkType] /\ Free \in LinkType /\ Free.stage = "free"
    BY DroppedType DEF TypeOK, LinkType
  <1>1. Starting(l) /\ UNCHANGED <<manager, running, timer, shutdown>>
    BY DEF Start, GotEndpoints, Connected, Initialized, Installed, StartEnds, Starting,
           StartStages
  <1>2. manager # "spawning"
    BY <1>1 DEF SpawnInv, Starting, StartStages
  <1>3. PICK f \in [Links -> LinkType] :
            /\ link' = DropRegistry(manager, f)
            /\ \A k \in Links \ {l} : f[k] = link[k]
            /\ f[l].stage \in {"free", "registered"} \cup StartStages
            /\ f[l].stage \in StartStages => f[l].age = link[l].age
    <2>1. CASE GotEndpoints(l) \/ Connected(l) \/ Initialized(l)
      <3> DEFINE f == link'
      <3>1. /\ f \in [Links -> LinkType]
            /\ \A k \in Links \ {l} : f[k] = link[k]
            /\ f[l].stage \in StartStages /\ f[l].age = link[l].age
            /\ \A k \in Links : f[k].stage = "registered" <=> link[k].stage = "registered"
        BY <1>0, <2>1 DEF GotEndpoints, Connected, Initialized, LinkType, Stages, StartStages
      <3>2. DropRegistry(manager, f) = f
        BY <3>1 DEF DropRegistry
      <3> QED
        BY <3>1, <3>2
    <2>2. CASE Installed(l)
      <3> DEFINE f == [link EXCEPT ![l] =
                         [stage |-> "registered", age |-> 0, loop |-> link[l].loop,
                          tasks |-> Tasks]]
      <3>1. f \in [Links -> LinkType]
        BY <1>0, SessionsAssumption DEF LinkType, Stages, SessionStages
      <3>2. \A k \in Links : k # l => ~(k[1] = l[1] /\ link[k].stage = "registered")
        BY <1>1 DEF OneLinkPerMachine, Starting, StartStages
      <3>3. link' = DropRegistry(manager, f)
        BY <1>0, <2>2, <3>2 DEF Installed
      <3>4. f[l].stage = "registered" /\ \A k \in Links \ {l} : f[k] = link[k]
        BY <1>0
      <3>5. f[l].stage \notin StartStages
        BY <3>4 DEF StartStages
      <3> HIDE DEF f
      <3> QED
        BY <3>1, <3>3, <3>4, <3>5
    <2>3. CASE StartEnds(l)
      <3> DEFINE f == [link EXCEPT ![l] = Free]
      <3>1. f \in [Links -> LinkType]
        BY <1>0
      <3>2. f[l].stage = "free" /\ \A k \in Links \ {l} : f[k] = link[k]
        BY <1>0
      <3>3. link' = DropRegistry(manager, f)
        BY <2>3 DEF StartEnds
      <3>4. f[l].stage \notin StartStages
        BY <3>2 DEF StartStages
      <3> HIDE DEF f
      <3> QED
        BY <3>1, <3>2, <3>3, <3>4
    <2> QED
      BY <2>1, <2>2, <2>3 DEF Start
  <1>4. \A k \in Links : link'[k].stage # "free" => link[k].stage # "free"
    BY <1>1, <1>3, DropRegistryEffect DEF Starting, StartStages
  <1>5. CASE manager = "idle"
    <2>1. link' = f
      BY <1>3, <1>5, DropRegistryEffect
    <2>2. StartsOnTime'
      BY <1>1, <1>3, <2>1 DEF StartsOnTime, Starting
    <2>3. TickingStages'
      BY <1>3, <1>5, <2>1 DEF TickingStages
    <2> QED
      BY <1>1, <1>4, <1>5, <2>2, <2>3, NoNewLink DEF SpawnInv
  <1>6. CASE manager # "idle"
    BY <1>1, <1>2, <1>4, <1>6, StoppedManager
  <1> QED
    BY <1>5, <1>6

\* Every step preserves the invariant.
LEMMA NextSessions ==
    ASSUME SessionsInv, [Next]_vars
    PROVE  SessionsInv'
  <1> USE DEF SessionsInv
  <1>0. TypeOK'
    BY NextTypeOK
  <1>t. link \in [Links -> LinkType]
    BY DEF TypeOK, LinkType
  <1> DEFINE Rest == StartsOnTime /\ SpawnInv /\ TickingStages /\ OneLinkPerMachine
  <1> SUFFICES Rest'
    BY <1>0
  <1>1. CASE PassTime
    BY <1>1, PassTimeStep
  <1>2. CASE Retain
    BY <1>2, RetainStep
  <1>3. CASE SpawnStarts
    BY <1>3, SpawnStartsStep
  <1>4. CASE Shutdown
    <2>1. \A l \in Links : link'[l].stage = link[l].stage /\ link'[l].age = link[l].age
      BY <1>4 DEF Shutdown
    <2> QED
      BY <1>4, <2>1, SameStages DEF Shutdown
  <1>5. CASE TakeRegistry
    <2>1. \A l \in Links : link'[l].stage # "free" => link[l].stage # "free"
      BY <1>5 DEF TakeRegistry
    <2> QED
      BY <1>5, <2>1, StoppedManager DEF TakeRegistry
  <1>6. ASSUME NEW l \in Links,
               \/ StopCancel(l) \/ StopDisconnect(l) \/ StopJoin(l)
               \/ \E t \in Tasks : TaskEnds(l, t)
        PROVE  Rest'
    <2>1. \A k \in Links : link'[k].stage # "free" => link[k].stage # "free"
      BY <1>t, <1>6, DroppedType DEF StopCancel, StopDisconnect, StopJoin, TaskEnds, LinkType
    <2>2. manager' \notin {"idle", "spawning"}
      BY <1>6 DEF StopCancel, StopDisconnect, StopJoin, TaskEnds, TickingStages, StartStages
    <2> QED
      BY <2>1, <2>2, StoppedManager
  <1>7. CASE ManagerReturns \/ ProcessExit
    <2>1. \A k \in Links : link'[k].stage # "free" => link[k].stage # "free"
      BY <1>t, <1>7, DroppedType, DropRegistryEffect DEF ManagerReturns, ProcessExit
    <2> QED
      BY <1>7, <2>1, StoppedManager DEF ManagerReturns, ProcessExit
  <1>8. ASSUME NEW l \in Links, Start(l)
        PROVE  Rest'
    BY <1>8, StartStep
  <1>9. ASSUME NEW l \in Links,
               LoopEnds(l) \/ \E ok \in BOOLEAN : Heartbeat(l, ok) \/ HeartbeatLast(l, ok)
        PROVE  Rest'
    <2>1. \A k \in Links : link'[k].stage = link[k].stage /\ link'[k].age = link[k].age
      BY <1>t, <1>9 DEF LoopEnds, Heartbeat, HeartbeatLast, LinkType
    <2>2. UNCHANGED <<manager, running, timer, shutdown>>
      BY <1>9 DEF LoopEnds, Heartbeat, HeartbeatLast
    <2> QED
      BY <2>1, <2>2, SameStages
  <1>10. CASE (\E m \in Machines : Outage(m)) \/ UNCHANGED vars
    <2>1. UNCHANGED <<manager, running, timer, shutdown, link>>
      BY <1>10 DEF Outage, vars
    <2> QED
      BY <2>1, SameStages
  <1> QED
    BY <1>1, <1>2, <1>3, <1>4, <1>5, <1>6, <1>7, <1>8, <1>9, <1>10 DEF Next, Manager

\* Whatever the machines, the slots and the durations, as long as the timeout of a start
\* is shorter than the tick, a machine has at most one start task or session.
THEOREM OneLinkInvariance == Spec => []OneLinkPerMachine
  <1>1. Init => SessionsInv
    BY InitSessions
  <1>2. SessionsInv /\ [Next]_vars => SessionsInv'
    BY NextSessions
  <1>3. SessionsInv => OneLinkPerMachine
    BY DEF SessionsInv
  <1> QED
    BY <1>1, <1>2, <1>3, PTL DEF Spec

\* The variables of the sessions manager keep their types.
THEOREM SessionsTypeInvariance == Spec => []TypeOK
  <1>1. Init => SessionsInv
    BY InitSessions
  <1>2. SessionsInv /\ [Next]_vars => SessionsInv'
    BY NextSessions
  <1>3. SessionsInv => TypeOK
    BY DEF SessionsInv
  <1> QED
    BY <1>1, <1>2, <1>3, PTL DEF Spec
-----------------------------------------------------------------------------
(* The refinement of SessionLifecycle *)

\* What a link is to SessionLifecycle.
Kind(x) ==
    IF x.stage \notin SessionStages THEN "none" ELSE IF x.loop = "run" THEN "live" ELSE "dead"

\* A machine has the session of its one link.
KindsAgree(f, s) ==
    \A m \in Machines :
        /\ s[m] = "none" <=> \A i \in Slots : Kind(f[<<m, i>>]) = "none"
        /\ \A i \in Slots : Kind(f[<<m, i>>]) \in {"none", s[m]}

\* From the first call on, a start task has an event loop.
LoopInv == \A l \in Links :
    link[l].stage \in {"connecting", "initializing", "installing"} => link[l].loop # "none"

\* When a machine has one link, its session is what that link is.
LEMMA KindOfSession ==
    ASSUME OneLinkPerMachine
    PROVE  KindsAgree(link, session)
  <1> SUFFICES ASSUME NEW m \in Machines
               PROVE  /\ session[m] = "none" <=> \A i \in Slots : Kind(link[<<m, i>>]) = "none"
                      /\ \A i \in Slots : Kind(link[<<m, i>>]) \in {"none", session[m]}
    BY DEF KindsAgree
  <1> DEFINE mine == {l \in Links : l[1] = m /\ link[l].stage \in SessionStages}
  <1>1. session[m] = IF mine = {} THEN "none"
                     ELSE IF \E l \in mine : LoopRuns(l) THEN "live" ELSE "dead"
    BY DEF session
  <1>2. \A i \in Slots : <<m, i>> \in Links /\ <<m, i>>[1] = m
    BY DEF Links
  <1>3. \A l \in Links : l[1] = m => \E i \in Slots : l = <<m, i>>
    BY DEF Links
  <1>4. \A k, l \in mine : k = l
    BY DEF OneLinkPerMachine, SessionStages
  <1>5. \A i \in Slots : Kind(link[<<m, i>>]) # "none" <=> <<m, i>> \in mine
    BY <1>2 DEF Kind
  <1>6. \A i \in Slots : <<m, i>> \in mine => session[m] = Kind(link[<<m, i>>])
    BY <1>1, <1>4 DEF Kind, LoopRuns
  <1>7. mine = {} => session[m] = "none"
    BY <1>1
  <1>8. mine # {} => session[m] # "none"
    BY <1>1
  <1>9. mine # {} => \E i \in Slots : <<m, i>> \in mine
    BY <1>3
  <1> HIDE DEF mine
  <1> QED
    BY <1>5, <1>6, <1>7, <1>8, <1>9

\* The lemmas below compare the sessions s with the links f, and t with g.
\* Links that stay what they are keep the sessions.
LEMMA SameKinds ==
    ASSUME NEW f, NEW g, NEW s, NEW t, KindsAgree(f, s), KindsAgree(g, t),
           \A l \in Links : Kind(g[l]) = Kind(f[l]), NEW m \in Machines
    PROVE  t[m] = s[m]
  <1>1. \A i \in Slots : Kind(g[<<m, i>>]) = Kind(f[<<m, i>>])
    BY DEF Links
  <1> QED
    BY <1>1 DEF KindsAgree

\* Links that end close the sessions that do not stay what they are.
LEMMA ClosedKinds ==
    ASSUME NEW f, NEW g, NEW s, NEW t, KindsAgree(f, s), KindsAgree(g, t),
           \A l \in Links : Kind(g[l]) \in {"none", Kind(f[l])},
           NEW m \in Machines, t[m] # s[m]
    PROVE  s[m] \in {"live", "dead"} /\ t[m] = "none"
  <1>1. \A i \in Slots : Kind(g[<<m, i>>]) \in {"none", Kind(f[<<m, i>>])}
    BY DEF Links
  <1>2. t[m] = "none"
    BY <1>1 DEF KindsAgree
  <1>3. PICK i \in Slots : Kind(f[<<m, i>>]) # "none"
    BY <1>2 DEF KindsAgree
  <1>4. Kind(f[<<m, i>>]) \in {"live", "dead"}
    BY <1>3 DEF Kind
  <1> QED
    BY <1>2, <1>3, <1>4 DEF KindsAgree

\* Links that are lost lose the sessions that do not stay what they are.
LEMMA LostKinds ==
    ASSUME NEW f, NEW g, NEW s, NEW t, KindsAgree(f, s), KindsAgree(g, t),
           \A l \in Links : \/ Kind(g[l]) = Kind(f[l])
                            \/ Kind(f[l]) = "live" /\ Kind(g[l]) = "dead",
           NEW m \in Machines, t[m] # s[m]
    PROVE  s[m] = "live" /\ t[m] = "dead"
  <1>1. \A i \in Slots : \/ Kind(g[<<m, i>>]) = Kind(f[<<m, i>>])
                         \/ Kind(f[<<m, i>>]) = "live" /\ Kind(g[<<m, i>>]) = "dead"
    BY DEF Links
  <1>2. s[m] # "none"
    BY <1>1 DEF KindsAgree
  <1>3. PICK i \in Slots : Kind(f[<<m, i>>]) # "none"
    BY <1>2 DEF KindsAgree
  <1>4. s[m] = Kind(f[<<m, i>>])
    BY <1>3 DEF KindsAgree
  <1>5. t[m] = Kind(g[<<m, i>>])
    BY <1>1, <1>3 DEF KindsAgree
  <1> QED
    BY <1>1, <1>4, <1>5

\* Links that open, open the sessions that do not stay what they are.
LEMMA OpenedKinds ==
    ASSUME NEW f, NEW g, NEW s, NEW t, KindsAgree(f, s), KindsAgree(g, t),
           \A l \in Links : \/ Kind(g[l]) = Kind(f[l])
                            \/ Kind(f[l]) = "none" /\ Kind(g[l]) = "live",
           NEW m \in Machines, t[m] # s[m]
    PROVE  s[m] = "none" /\ t[m] = "live"
  <1>1. \A i \in Slots : \/ Kind(g[<<m, i>>]) = Kind(f[<<m, i>>])
                         \/ Kind(f[<<m, i>>]) = "none" /\ Kind(g[<<m, i>>]) = "live"
    BY DEF Links
  <1>2. \A i \in Slots : Kind(f[<<m, i>>]) = "none"
    <2> SUFFICES ASSUME NEW i \in Slots, Kind(f[<<m, i>>]) # "none"
                 PROVE  FALSE
      OBVIOUS
    <2>1. s[m] = Kind(f[<<m, i>>])
      BY DEF KindsAgree
    <2>2. t[m] = Kind(g[<<m, i>>])
      BY <1>1 DEF KindsAgree
    <2> QED
      BY <1>1, <2>1, <2>2
  <1>3. s[m] = "none"
    BY <1>2 DEF KindsAgree
  <1>4. PICK i \in Slots : Kind(g[<<m, i>>]) # "none"
    BY <1>3 DEF KindsAgree
  <1>5. t[m] = Kind(g[<<m, i>>])
    BY <1>4 DEF KindsAgree
  <1> QED
    BY <1>1, <1>2, <1>3, <1>4, <1>5
-----------------------------------------------------------------------------
\* Sessions are closed when links end, opened when they open, lost when they are lost:
\* each time by a step of SessionLifecycle, or none.
LEMMA LinksMove ==
    ASSUME OneLinkPerMachine, OneLinkPerMachine',
           \/ \A l \in Links : Kind(link'[l]) \in {"none", Kind(link[l])}
           \/ \A l \in Links : \/ Kind(link'[l]) = Kind(link[l])
                               \/ Kind(link[l]) = "live" /\ Kind(link'[l]) = "dead"
           \/ \A l \in Links : \/ Kind(link'[l]) = Kind(link[l])
                               \/ Kind(link[l]) = "none" /\ Kind(link'[l]) = "live"
    PROVE  Lifecycle!Next
  <1>1. KindsAgree(link, session)
    BY KindOfSession
  <1>2. KindsAgree(link, session)'
    BY KindOfSession, PTL
  <1>3. PICK f, g, s, t : f = link /\ g = link' /\ s = session /\ t = session'
    OBVIOUS
  <1>4. KindsAgree(f, s) /\ KindsAgree(g, t)
    BY <1>1, <1>2, <1>3 DEF KindsAgree
  <1>5. t = [m \in Machines |-> t[m]]
    BY <1>3 DEF session
  <1> DEFINE M == {m \in Machines : t[m] # s[m]}
  <1>6. M \in SUBSET Machines
    OBVIOUS
  <1>7. ASSUME NEW old, NEW new, \A m \in M : s[m] \in old /\ t[m] = new
        PROVE  Lifecycle!Moves(M, old, new)
    <2>1. t = [m \in Machines |-> IF m \in M THEN new ELSE s[m]]
      BY <1>5, <1>7
    <2> QED
      BY <1>3, <1>7, <2>1 DEF Lifecycle!Moves
  <1>8. CASE \A l \in Links : Kind(link'[l]) \in {"none", Kind(link[l])}
    <2>1. \A m \in M : s[m] \in {"live", "dead"} /\ t[m] = "none"
      BY <1>3, <1>4, <1>8, ClosedKinds
    <2>2. Lifecycle!Close(M)
      BY <1>7, <2>1 DEF Lifecycle!Close
    <2> QED
      BY <1>6, <2>2 DEF Lifecycle!Next
  <1>9. CASE \A l \in Links : \/ Kind(link'[l]) = Kind(link[l])
                              \/ Kind(link[l]) = "live" /\ Kind(link'[l]) = "dead"
    <2>1. \A m \in M : s[m] \in {"live"} /\ t[m] = "dead"
      BY <1>3, <1>4, <1>9, LostKinds
    <2>2. Lifecycle!Lose(M)
      BY <1>7, <2>1 DEF Lifecycle!Lose
    <2> QED
      BY <1>6, <2>2 DEF Lifecycle!Next
  <1>10. CASE \A l \in Links : \/ Kind(link'[l]) = Kind(link[l])
                               \/ Kind(link[l]) = "none" /\ Kind(link'[l]) = "live"
    <2>1. \A m \in M : s[m] \in {"none"} /\ t[m] = "live"
      BY <1>3, <1>4, <1>10, OpenedKinds
    <2>2. Lifecycle!Open(M)
      BY <1>7, <2>1 DEF Lifecycle!Open
    <2> QED
      BY <1>6, <2>2 DEF Lifecycle!Next
  <1> QED
    BY <1>8, <1>9, <1>10

\* What is free or dropped is no session, and the end of the registry only ends sessions.
LEMMA DroppedKind ==
    /\ Kind(Free) = "none"
    /\ \A x : Kind(Dropped(x)) = "none"
    /\ \A mgr, f : \A l \in Links :
        Kind(DropRegistry(mgr, f)[l]) \in {"none", Kind(f[l])}
  <1>1. Kind(Free) = "none"
    BY DEF Kind, Free, SessionStages
  <1>2. \A x : Kind(Dropped(x)) = "none"
    BY <1>1 DEF Kind, Dropped, SessionStages
  <1> QED
    BY <1>1, <1>2 DEF DropRegistry

\* Every step of the sessions manager, of its start tasks and of its sessions is one of
\* SessionLifecycle, or leaves the sessions alone.
LEMMA NextLifecycle ==
    ASSUME SessionsInv, SessionsInv', LoopInv, [Next]_vars
    PROVE  Lifecycle!Next
  <1>0. link \in [Links -> LinkType] /\ OneLinkPerMachine /\ OneLinkPerMachine'
    BY DEF SessionsInv, TypeOK, LinkType
  <1> DEFINE Ends(l) == Kind(link'[l]) \in {"none", Kind(link[l])}
             Lost(l) == \/ Kind(link'[l]) = Kind(link[l])
                        \/ Kind(link[l]) = "live" /\ Kind(link'[l]) = "dead"
             Opened(l) == \/ Kind(link'[l]) = Kind(link[l])
                          \/ Kind(link[l]) = "none" /\ Kind(link'[l]) = "live"
  <1>a. (\A l \in Links : Ends(l)) => Lifecycle!Next
    BY <1>0, LinksMove
  <1>b. (\A l \in Links : Lost(l)) => Lifecycle!Next
    BY <1>0, LinksMove
  <1>c. (\A l \in Links : Opened(l)) => Lifecycle!Next
    BY <1>0, LinksMove
  <1>1. CASE PassTime
    BY <1>0, <1>1, <1>a DEF PassTime, Kind, LinkType
  <1>2. CASE Retain
    <2>1. \A l \in Links : Ends(l)
      BY <1>2, DroppedKind DEF Retain
    <2> QED
      BY <2>1, <1>a
  <1>3. CASE SpawnStarts
    <2>1. \A l \in Links : link'[l] = link[l] \/ link'[l].stage = "endpoints"
      BY <1>3 DEF SpawnStarts, Free
    <2>2. \A l \in Links : Ends(l)
      BY <2>1 DEF Kind, SessionStages
    <2> QED
      BY <2>2, <1>a
  <1>4. CASE TakeRegistry
    <2>1. \A l \in Links : \/ link'[l] = link[l]
                           \/ /\ link[l].stage = "registered" /\ link'[l].stage = "taken"
                              /\ link'[l].loop = link[l].loop
      BY <1>0, <1>4 DEF TakeRegistry, LinkType
    <2>2. \A l \in Links : Ends(l)
      BY <2>1 DEF Kind, SessionStages
    <2> QED
      BY <2>2, <1>a
  <1>5. CASE ManagerReturns \/ ProcessExit
    <2>1. \A l \in Links : Ends(l)
      BY <1>5, DroppedKind DEF ManagerReturns, ProcessExit
    <2> QED
      BY <2>1, <1>a
  <1>6. ASSUME NEW l \in Links, StopCancel(l) \/ (\E t \in Tasks : TaskEnds(l, t)) \/ StopJoin(l)
        PROVE  Lifecycle!Next
    <2>1. CASE StopCancel(l)
      BY <1>0, <1>a, <2>1 DEF StopCancel, Kind, LinkType, SessionStages
    <2>2. CASE \E t \in Tasks : TaskEnds(l, t)
      BY <1>0, <1>a, <2>2 DEF TaskEnds, Kind, LinkType
    <2>3. CASE StopJoin(l)
      BY <1>0, <1>a, <2>3, DroppedKind DEF StopJoin
    <2> QED
      BY <1>6, <2>1, <2>2, <2>3
  <1>7. ASSUME NEW l \in Links, StopDisconnect(l) \/ LoopEnds(l)
        PROVE  Lifecycle!Next
    <2>1. \A k \in Links : Lost(k)
      BY <1>0, <1>7 DEF StopDisconnect, LoopEnds, LoopRuns, Kind, LinkType
    <2> QED
      BY <2>1, <1>b
  <1>8. ASSUME NEW l \in Links, GotEndpoints(l) \/ Connected(l) \/ Initialized(l)
        PROVE  Lifecycle!Next
    <2>1. \A k \in Links \ {l} : link'[k] = link[k]
      BY <1>0, <1>8 DEF GotEndpoints, Connected, Initialized
    <2>2. link[l].stage \notin SessionStages /\ link'[l].stage \notin SessionStages
      BY <1>0, <1>8 DEF GotEndpoints, Connected, Initialized, LinkType, SessionStages
    <2>3. \A k \in Links : Ends(k)
      BY <2>1, <2>2 DEF Kind
    <2> QED
      BY <2>3, <1>a
  <1>9. ASSUME NEW l \in Links, StartEnds(l)
        PROVE  Lifecycle!Next
    <2> DEFINE f == [link EXCEPT ![l] = Free]
    <2>1. \A k \in Links : Kind(f[k]) \in {"none", Kind(link[k])}
      BY <1>0, DroppedKind
    <2>2. link' = DropRegistry(manager, f)
      BY <1>9 DEF StartEnds
    <2> HIDE DEF f
    <2>3. \A k \in Links : Ends(k)
      BY <2>1, <2>2, DroppedKind
    <2> QED
      BY <2>3, <1>a
  <1>10. ASSUME NEW l \in Links, Installed(l)
         PROVE  Lifecycle!Next
    <2> DEFINE new == [stage |-> "registered", age |-> 0, loop |-> link[l].loop, tasks |-> Tasks]
               f == [k \in Links |->
                       IF k = l THEN new
                       ELSE IF k[1] = l[1] /\ link[k].stage = "registered" THEN Dropped(link[k])
                       ELSE link[k]]
    <2>1. link[l].loop = "run" /\ link[l].stage = "installing"
      BY <1>0, <1>10 DEF Installed, Answers, LoopInv, LinkType
    <2>2. \A k \in Links : k # l => ~(k[1] = l[1] /\ link[k].stage = "registered")
      BY <1>0, <2>1 DEF OneLinkPerMachine
    <2>3. link' = DropRegistry(manager, f)
      BY <1>10 DEF Installed
    <2>4. f[l] = new /\ \A k \in Links \ {l} : f[k] = link[k]
      BY <2>2
    <2>5. Kind(f[l]) = "live" /\ f[l].stage = "registered" /\ Kind(link[l]) = "none"
      BY <2>1, <2>4 DEF Kind, SessionStages
    <2> HIDE DEF new, f
    <2>6. CASE link' = f
      <3>1. \A k \in Links : Opened(k)
        BY <2>4, <2>5, <2>6
      <3> QED
        BY <3>1, <1>c
    <2>7. CASE link' # f
      <3>1. link' = [k \in Links |-> IF f[k].stage = "registered" THEN Dropped(f[k]) ELSE f[k]]
        BY <2>3, <2>7 DEF DropRegistry
      <3>2. Kind(link'[l]) = "none"
        BY <2>5, <3>1, DroppedKind
      <3>3. \A k \in Links \ {l} : Kind(link'[k]) \in {"none", Kind(link[k])}
        BY <2>4, <3>1, DroppedKind
      <3> QED
        BY <3>2, <3>3, <1>a
    <2> QED
      BY <2>6, <2>7
  <1>11. CASE UNCHANGED link
    BY <1>11, <1>a
  <1>12. ASSUME NEW l \in Links, NEW ok \in BOOLEAN, HeartbeatLast(l, ok)
         PROVE  Lifecycle!Next
    BY <1>0, <1>12, <1>a DEF HeartbeatLast, Kind, LinkType
  <1>13. CASE Shutdown \/ (\E m \in Machines : Outage(m)) \/ UNCHANGED vars
              \/ (\E l \in Links, ok \in BOOLEAN : Heartbeat(l, ok))
    BY <1>11, <1>13 DEF Shutdown, Outage, vars, Heartbeat
  <1> QED
    BY <1>1, <1>2, <1>3, <1>4, <1>5, <1>6, <1>7, <1>8, <1>9, <1>10, <1>12, <1>13
    DEF Next, Manager, Start

\* A start task keeps its event loop until it ends.
LEMMA NextLoop ==
    ASSUME SessionsInv, LoopInv, [Next]_vars
    PROVE  LoopInv'
  <1>0. link \in [Links -> LinkType]
    BY DEF SessionsInv, TypeOK, LinkType
  <1> DEFINE Keeps(l) == \/ link'[l].stage \notin {"connecting", "initializing", "installing"}
                         \/ /\ link[l].stage \in {"connecting", "initializing", "installing"}
                            /\ link'[l].loop \in {link[l].loop, "run", "ended"}
                         \/ link'[l].loop = "run"
  <1> SUFFICES \A l \in Links : Keeps(l)
    BY DEF LoopInv
  <1>d. Free.stage = "free" /\ \A x : Dropped(x).stage \in {"free", "detached"}
    BY DEF Free, Dropped
  <1>e. \A f : \A l \in Links : DropRegistry(manager, f)[l] = f[l]
                                \/ DropRegistry(manager, f)[l].stage \in {"free", "detached"}
    BY <1>d DEF DropRegistry
  <1>1. CASE PassTime
    BY <1>0, <1>1 DEF PassTime, LinkType
  <1>2. CASE Retain
    BY <1>2, <1>d DEF Retain
  <1>3. CASE SpawnStarts
    BY <1>3 DEF SpawnStarts, Free
  <1>4. CASE TakeRegistry
    BY <1>0, <1>4 DEF TakeRegistry, LinkType
  <1>5. CASE ManagerReturns \/ ProcessExit
    <2>1. \A f : \A l \in Links : DropRegistry("done", f)[l] = f[l]
                                \/ DropRegistry("done", f)[l].stage \in {"free", "detached"}
      BY <1>d DEF DropRegistry
    <2> QED
      BY <1>5, <1>d, <2>1 DEF ManagerReturns, ProcessExit
  <1>6. ASSUME NEW l \in Links, \/ StopCancel(l) \/ StopDisconnect(l) \/ StopJoin(l)
                                \/ \E t \in Tasks : TaskEnds(l, t)
        PROVE  \A k \in Links : Keeps(k)
    BY <1>0, <1>6, <1>d DEF StopCancel, StopDisconnect, StopJoin, TaskEnds, LinkType
  <1>7. ASSUME NEW l \in Links, GotEndpoints(l) \/ Connected(l) \/ Initialized(l)
        PROVE  \A k \in Links : Keeps(k)
    BY <1>0, <1>7 DEF GotEndpoints, Connected, Initialized, LinkType
  <1>8. ASSUME NEW l \in Links, StartEnds(l)
        PROVE  \A k \in Links : Keeps(k)
    <2> DEFINE f == [link EXCEPT ![l] = Free]
    <2>1. \A k \in Links : f[k] = link[k] \/ f[k].stage = "free"
      BY <1>0, <1>d
    <2>2. link' = DropRegistry(manager, f)
      BY <1>8 DEF StartEnds
    <2> HIDE DEF f
    <2> QED
      BY <2>1, <2>2, <1>e
  <1>9. ASSUME NEW l \in Links, Installed(l)
        PROVE  \A k \in Links : Keeps(k)
    <2> DEFINE new == [stage |-> "registered", age |-> 0, loop |-> link[l].loop, tasks |-> Tasks]
               f == [k \in Links |->
                       IF k = l THEN new
                       ELSE IF k[1] = l[1] /\ link[k].stage = "registered" THEN Dropped(link[k])
                       ELSE link[k]]
    <2>1. \A k \in Links : f[k] = link[k] \/ f[k].stage \in {"registered", "free", "detached"}
      BY <1>d
    <2>2. link' = DropRegistry(manager, f)
      BY <1>9 DEF Installed
    <2> HIDE DEF f
    <2> QED
      BY <2>1, <2>2, <1>e
  <1>10. ASSUME NEW l \in Links, LoopEnds(l)
         PROVE  \A k \in Links : Keeps(k)
    BY <1>0, <1>10 DEF LoopEnds, LinkType
  <1>12. ASSUME NEW l \in Links, NEW ok \in BOOLEAN, HeartbeatLast(l, ok)
         PROVE  \A k \in Links : Keeps(k)
    BY <1>0, <1>12 DEF HeartbeatLast, LinkType
  <1>11. CASE Shutdown \/ (\E m \in Machines : Outage(m)) \/ UNCHANGED vars
              \/ (\E l \in Links, ok \in BOOLEAN : Heartbeat(l, ok))
    BY <1>11 DEF Shutdown, Outage, vars, Heartbeat
  <1> QED
    BY <1>1, <1>2, <1>3, <1>4, <1>5, <1>6, <1>7, <1>8, <1>9, <1>10, <1>11, <1>12
    DEF Next, Manager, Start

\* The sessions of the manager follow SessionLifecycle: the ticks, start tasks, event loops
\* and the shutdown never open a session before the last one, dead, is closed.
THEOREM SessionsRefinement == Spec => ImplementsLifecycle
  <1>1. Init => SessionsInv /\ LoopInv
    BY InitSessions DEF Init, LoopInv, Free
  <1>2. SessionsInv /\ LoopInv /\ [Next]_vars => SessionsInv' /\ LoopInv'
    BY NextSessions, NextLoop
  <1>3. Init => Lifecycle!Init
    BY DEF Init, Free, session, Lifecycle!Init, SessionStages
  <1>4. SessionsInv /\ SessionsInv' /\ LoopInv /\ [Next]_vars => [Lifecycle!Next]_session
    BY NextLifecycle
  <1> QED
    BY <1>1, <1>2, <1>3, <1>4, PTL DEF Spec, ImplementsLifecycle, Lifecycle!Spec
=============================================================================
