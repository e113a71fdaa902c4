SPECIFICATION DeskSpec
CONSTANTS
    ana = ana
    first = first
    second = second
    twin1 = twin1
    twin2 = twin2
    other = other
    \* AddedOriginals
    XEntries = {e1, e2}
    XChildren = {child}
    Reps = {rep1, rep2}
    CodedRep = rep1
    Originals = {orig1, orig2}
    DoiLess = {orig2}
    ReplicationOuts = {success}
    ReproductionOuts = {robust}
    Suggestions = {hint}
    Suggested = orig2
    NoRow = NoRow
    NoRecord = NoRecord
    MaxRekeys = 1
    \* SubmissionRecovery
    Writers = {ana}
    Submissions = {first, second}
    WriterOf <- MCWriterOf
    Nobody = Nobody
    SubmitMaxAttempts = 2
    MaxSends = 3
    MaxClaims = 1
    \* PaperReview
    Coders = {ben, cai}
    AtTables = {ben}
    PaperRecords = {r1, r2}
    Groups = {g1}
    NoCoder = NoCoder
    \* WaitingBatch
    WaitingEntries = {twin1, twin2, other}
    IdentityOf <- MCIdentityOf
    Ruled = {twin1, twin2}
    Approvers = {a1}
    \* DbPool
    Threads = {t1, t2}
    Connections = {c1, c2, c3}
    NoConnection = NoConnection
    MaxIdle = 2
SYMMETRY MCDeskSymmetry
INVARIANTS
    DeskInvariant
    NothingIsLeftBehind
    AccountedFor
    PaperIsPaidOnce
PROPERTIES
    ChildrenFollow
    BatchSparesTheTouched
CHECK_DEADLOCK FALSE
