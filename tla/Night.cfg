SPECIFICATION NightSpec
CONSTANTS
    \* MaintenanceRuns
    None = None
    NoWorker = NoWorker
    Pairs = {"p1", "p2", "p3", "p4"}
    SourceSlots = {"s1", "s2"}
    Workers = {w1, w2}
    Requests = {"full", "find"}
    MaxRuns = 3
    MaxCrashes = 1
    History <- MCHistory
    Wanted = {"p1"}
    Percent = 50
    Kept = 2
    \* EntryChecks
    Entries = {e1}
    BadValues = {bad}
    Gone = Gone
    GoodValue = GoodValue
    Pods = {pod1, pod2}
    NoPod = NoPod
    MaxEdits = 1
    MaxEvents = 1
SYMMETRY MCWorkerSymmetry
INVARIANTS
    NightInvariant
    OpenFindingsAreCurrent
    ShippedHaveRecords
    NewestSnapshotIsStored
PROPERTIES
    TouchedRecordsStay
    RunsAreJobs
CHECK_DEADLOCK FALSE
