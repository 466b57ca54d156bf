SPECIFICATION Spec
CONSTANTS
    m1 = m1
    m2 = m2
    Machines = {m1, m2}
    Slots <- TwoSlots
    TickInterval = 5
    ConnectTimeout = 2
INVARIANT SessionsStopped
\* The process ends.
CHECK_DEADLOCK FALSE
