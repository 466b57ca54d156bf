SPECIFICATION FairSpec
CONSTANTS
    m1 = m1
    m2 = m2
    Machines = {m1, m2}
    Slots <- TwoSlots
    TickInterval = 5
    ConnectTimeout = 2
INVARIANTS TypeOK OneLinkPerMachine
PROPERTIES ImplementsLifecycle ShutdownCompletes
\* The process ends.
CHECK_DEADLOCK FALSE
