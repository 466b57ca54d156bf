CONSTANTS
    g1 = g1
    o1 = o1
    Ok = Ok
    Odd = Odd
    Nids <- MCNids
    Names <- MCNames
    BrowseName <- MCBrowseName
    Values = {Ok, Odd}
    Unsupported = {}
    MaxElements = 1
    Machines = {m1}
    PartIds = {p1}
    Dates = {d1}
    QueuesThreshold = 1
    Savers = {s1, s2}
    GeneralNids <- MCGeneralNids
    OperationNids <- MCOperationNids
    Rejected = {Odd}
    MaxSaves = 2
    MaxFaults = 1
    MaxStops = 1

SPECIFICATION FairSpec
INVARIANTS
    TypeOK
    NoRowLost
    DuplicatesBounded
    QueueBound
    BacklogArchivedBeforeServing
PROPERTIES
    ImplementsOutbox
    EventuallyArchived
    EventuallyServing
