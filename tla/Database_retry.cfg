CONSTANTS
    g1 = g1
    o1 = o1
    Ok = Ok
    Odd = Odd
    Nids <- MCNids
    Names <- MCNames
    BrowseName <- MCBrowseName
    Values = {Ok}
    Unsupported = {}
    MaxElements = 1
    Machines = {m1}
    PartIds = {p1}
    Dates = {d1}
    QueuesThreshold = 3
    Savers = {s1}
    GeneralNids <- MCGeneralNids
    OperationNids <- MCOperationNids
    Rejected = {}
    MaxSaves = 2
    MaxFaults = 1
    MaxStops = 0

SPECIFICATION Spec
PROPERTIES
    RetriedInsertIdentical
