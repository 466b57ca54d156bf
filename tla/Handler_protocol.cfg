CONSTANTS
    pid = pid
    d1 = d1
    d2 = d2
    ex = ex
    op = op
    NoId = NoId
    A = A
    B = B
    Nids <- MCNids
    Names <- MCNames
    BrowseName <- MCBrowseName
    Values <- MCValuesAB
    Unsupported = {B}
    MaxElements = 4
    Machines = {m1}
    PartIds <- MCPartIds
    Dates = {1}
    QueuesThreshold = 2
    Creators = {m1}
    GeneralNids <- MCGeneralNids
    OperationNids <- MCOperationNids
    PartIdNid = pid
    ExcludedNids = {ex}
    NoPart = NoId
    Codes = {1, 2, 3, 4}
    PartValues <- MCAnyPart
    MaxSerial = 2
    MaxRequests = 2
    MaxLosses = 2
    MaxRestarts = 1
    MaxFaults = 1
    MaxFlaps = 0

SPECIFICATION Spec
CHECK_DEADLOCK FALSE
INVARIANTS
    TypeOK
    AnswerMatchesRequest
    AnsweredNotHandledAgain
    AckedSaveDurable
    LoadedVersion
    CreatedPartShown
    CacheHoldsOwnSave
