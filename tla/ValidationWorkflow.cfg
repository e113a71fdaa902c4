SPECIFICATION FairSpec
CONSTANTS
    None = None
    r1 = r1
    r2 = r2
    ana = ana
    ben = ben
    sam = sam
    alex = alex
    Dois = {"doi_a", "doi_b"}
    Titles = {"title"}
    Outcomes <- MCOutcomes
    Computations <- MCUnknown
    Robustnesses <- MCUnknown
    Others = {}
    Records = {r1}
    Validators = {ana, ben, sam}
    Admins = {alex}
    Trusted = {sam}
    Seniors = {sam}
    Experienced = {ana, ben}
    Assignees = {ana}
    LinkedTo <- MCLinkedToSam
    FirstRaw <- MCSame
    Shipped = {}
    Submitted <- MCAnswersAll
    AiAnswers <- MCAiAll
    TypedIdentities = {}
INVARIANTS
    TypeOK
    SoleJudge
    UncheckedIsByRule
PROPERTIES
    JudgementsAreKept
    DecisionsStand
    AbandonedSlotIsFreed
    StuckTiebreakerIsSettled
