CONSTANTS
    pid = pid
    d1 = d1
    d2 = d2
    ex = ex
    op = op
    NoId = NoId
    A = A
    B = B
    Nids <- MCNids
    Names <- MCNames
    BrowseName <- MCBrowseName
    Values <- MCValuesA
    Unsupported = {}
    MaxElements = 4
    Machines = {m1}
    PartIds <- MCPartIds
    Dates = {1}
    QueuesThreshold = 1
    Creators = {}
    GeneralNids <- MCGeneralNids
    OperationNids <- MCOperationNids
    PartIdNid = pid
    ExcludedNids = {ex}
    NoPart = NoId
    Codes = {1, 2, 3, 4}
    PartValues <- MCPartIds
    MaxSerial = 1
    MaxRequests = 2
    MaxLosses = 1
    MaxRestarts = 1
    MaxFaults = 1
    MaxFlaps = 1

SPECIFICATION FairSpec
CHECK_DEADLOCK FALSE
INVARIANTS
    SavesBounded
    NothingForgotten
    AnswersLate
PROPERTIES
    RequestAnswered
    ResponseReset
    ReconnectionResumes
