SPECIFICATION FloraPipelineFairSpec
CONSTANTS
    \* SourceSyncJobs
    Runners = {"r1", "r2"}
    NoRunner = NoRunner
    Clickers = {"a1", "a2"}
    MaxJobs = 2
    MaxDeaths = 2
    \* FloraDataset
    FloraRecords = {"f1", "f2"}
    Values = {"x", "y"}
    Derived = Derived
    Absent = Absent
    Editors = {"e1", "e2"}
    PipelineRuns = {"b1"}
    MaxChanges = 2
    MaxSourceMoves = 1
    \* PreprintMerge
    BuildInputs <- MCBuilds
    RowSources = {"sheet", "website", "hand"}
    RowDois = {"p", "j", "o1", "o2"}
    RowLinks = {"blank", "u", "v"}
    RowOutcomes = {"blank", "successful", "failed", "mixed", "flawed"}
    \* ReleaseFiles
    Runs = {nightly, website}
    Publishes = {publish}
    Local = {website}
    Snaps = {s}
    MaxCorrections = 1
    MaxKills = 1
    \* Adjudication
    ana = ana
    alex = alex
    Disputes = {d1, d2}
    Judges = {ana, ben, cai}
    Reviewers = {alex}
    NoJudge = NoJudge
    FinalAnswers = {x, y, u}
    Unpublishable = {u}
    Linked <- MCLinked
INVARIANTS
    FloraPipelineInvariant
    HandRowsOnlyFillBlanks
    CorrectionIsServed
    EveryIdHasItsPlace
    FilesAreOneRelease
    ServedAsApproved
PROPERTIES
    SyncJobEnds
    BranchNeverGoesBack
CHECK_DEADLOCK FALSE
