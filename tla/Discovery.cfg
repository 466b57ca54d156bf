CONSTANTS
    Programs <- MCPrograms
    Variants <- MCVariants
    PartIds = {"P", "Q"}
    PartIdNid = 1
    ExcludedNids = {3}

SPECIFICATION Spec
INVARIANTS
    ContextComplete
    ValuesAttributed
    PartFiledUnderItsId
    CheckedSheetsEncode
    LoadedWhereSaved
