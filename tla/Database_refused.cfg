CONSTANTS
    g1 = g1
    o1 = o1
    Ok = Ok
    Odd = Odd
    Nids <- MCNids
    Names <- MCNames
    BrowseName <- MCBrowseName
    Values = {Ok, Odd}
    Unsupported = {}
    MaxElements = 1
    Machines = {m1}
    PartIds = {p1}
    Dates = {d1}
    QueuesThreshold = 5
    Savers = {s1}
    GeneralNids <- MCGeneralNids
    OperationNids <- MCOperationNids
    Rejected = {Odd}
    MaxSaves = 2
    MaxFaults = 0
    MaxStops = 0

SPECIFICATION FairSpec
PROPERTIES
    SoundRowsArchived
