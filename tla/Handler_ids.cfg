CONSTANTS
    pid = pid
    d1 = d1
    d2 = d2
    ex = ex
    op = op
    NoId = NoId
    A = A
    B = B
    Nids <- MCNids
    Names <- MCNames
    BrowseName <- MCBrowseName
    Values <- MCValuesA
    Unsupported = {}
    MaxElements = 4
    Machines = {m1, m2}
    PartIds <- MCPartIds
    Dates = {1, 2}
    QueuesThreshold = 3
    Creators = {m1, m2}
    GeneralNids <- MCGeneralNids
    OperationNids <- MCOperationNids
    PartIdNid = pid
    ExcludedNids = {ex}
    NoPart = NoId
    Codes = {1, 3}
    PartValues <- MCFirstPart
    MaxSerial = 2
    MaxRequests = 2
    MaxLosses = 1
    MaxRestarts = 1
    MaxFaults = 0
    MaxFlaps = 0

SPECIFICATION Spec
CHECK_DEADLOCK FALSE
SYMMETRY MachineSymmetry
INVARIANTS
    UniquePartIds
    SavesBounded
