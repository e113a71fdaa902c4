SPECIFICATION Spec
CONSTANTS
    None = None
    r1 = r1
    r2 = r2
    ana = ana
    ben = ben
    sam = sam
    alex = alex
    Dois = {"doi_a", "doi_b"}
    Titles = {"title"}
    Outcomes <- MCOutcomes
    Computations <- MCUnknown
    Robustnesses <- MCUnknown
    Others = {}
    Records = {r1}
    Validators = {ana, sam}
    Admins = {alex}
    Trusted = {sam}
    Seniors = {sam}
    Experienced = {ana}
    Assignees = {}
    LinkedTo <- MCUnlinked
    FirstRaw <- MCSame
    Shipped <- MCShippedAll
    Submitted <- MCAnswersRemoval
    AiAnswers <- MCAiPlain
    TypedIdentities = {}
PROPERTY OnlyRemovalsStartOver
