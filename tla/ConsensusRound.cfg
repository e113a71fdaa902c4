SPECIFICATION Spec
CONSTANTS
    None = None
    Dois <- MCDois
    Titles <- MCTitles
    Outcomes <- MCOutcomes
    Computations <- MCComputations
    Robustnesses <- MCRobustnesses
    Others <- MCOthers
    Slots = {"human_1", "human_2"}
    Extracted <- MCExtracted
    PageJudgements <- MCPageJudgements
    AiAnswers <- MCAiAnswers
    Teams <- MCTeams
    TakenIdentities <- MCTaken
INVARIANTS
    TypeOK
    SlotOrderIsIrrelevant
    UnattendedIsUnanimous
    FinalOriginalIsVouched
    FinalFitsItsType
    StaleCorrectionIsKept
CHECK_DEADLOCK FALSE
