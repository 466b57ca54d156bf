SPECIFICATION AnsweringSpec
CONSTANTS
    m1 = m1
    Machines = {m1}
    Slots <- TwoSlots
    TickInterval = 5
    ConnectTimeout = 2
PROPERTIES Reconnects HeartbeatChanges
\* The process ends.
CHECK_DEADLOCK FALSE
