SPECIFICATION BuildSpec
CONSTANTS
    BuildInputs <- MCTwoOriginals
    RowSources = {"sheet", "website", "hand"}
    RowDois = {"p", "j", "o1", "o2"}
    RowLinks = {"blank", "u", "v"}
    RowOutcomes = {"blank", "successful", "failed", "mixed", "flawed"}
INVARIANT HandRowsRemoveNothing
CHECK_DEADLOCK FALSE
