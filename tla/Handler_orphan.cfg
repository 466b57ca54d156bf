CONSTANTS
    pid = pid
    d1 = d1
    d2 = d2
    ex = ex
    op = op
    NoId = NoId
    A = A
    B = B
    Nids <- MCNids
    Names <- MCNames
    BrowseName <- MCBrowseName
    Values <- MCValuesAB
    Unsupported = {}
    MaxElements = 4
    Machines = {m1}
    PartIds <- MCPartIds
    Dates = {1}
    QueuesThreshold = 9
    Creators = {}
    GeneralNids <- MCGeneralNids
    OperationNids <- MCOperationNids
    PartIdNid = pid
    ExcludedNids = {ex}
    NoPart = NoId
    Codes = {3}
    PartValues <- MCPartIds
    MaxSerial = 1
    MaxRequests = 2
    MaxLosses = 1
    MaxRestarts = 0
    MaxFaults = 0
    MaxFlaps = 0

SPECIFICATION Spec
CHECK_DEADLOCK FALSE
INVARIANTS
    CacheHoldsLastSave
