SPECIFICATION Spec
CONSTANTS
    References <- MCReferences
    Batches <- MCBatches
    Lines <- MCLines
    Dates <- MCDates
    Serials <- MCSerials
    Garbles <- MCGarbles
INVARIANTS
    MadeIsAccepted
    MadeReadsBack
    AcceptedIsInsertable
\* One identifier is made and validated.
CHECK_DEADLOCK FALSE
