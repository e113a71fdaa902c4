SPECIFICATION FloraSpec
CONSTANTS
    SheetRows = {1}
    ValidatedRows = {2}
    HandRows = {4}
    Keys = {"p", "q"}
    Preprint = "q"
    Published = "p"
    Admins = {alex}
    NoVerdict = NoVerdict
    MaxMoves = 2
    Reference = {"p"}
    NoReference = "none"
INVARIANTS
    RegistryInvariant
PROPERTIES
    PublishedIdsStay
    HandRecordIsKept
CHECK_DEADLOCK FALSE
