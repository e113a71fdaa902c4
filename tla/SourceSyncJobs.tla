--------------------------- MODULE SourceSyncJobs ---------------------------
(***************************************************************************)
(* The Run pipeline button: a click queues a row of source_sync_jobs, the  *)
(* scheduler of whichever pod gets the session advisory lock runs the      *)
(* oldest queued job, stage by stage in child processes, and the hourly    *)
(* housekeeping fails what no runner can finish any more.                  *)
(***************************************************************************)
EXTENDS Integers, FiniteSets

CONSTANTS
    Runners, NoRunner,    \* the pods' schedulers
    Clickers,               \* who clicks
    MaxJobs,              \* bound on the clicks that queue a job
    MaxDeaths             \* bound on runners dying or losing their connection

JobIds == 1 .. MaxJobs

SyncAssumption == NoRunner \notin Runners /\ MaxJobs \in Nat /\ MaxDeaths \in Nat

ASSUME SyncAssumption

VARIABLES
    syncJobs,    \* the rows, in order of creation
    overdue,     \* the jobs created more than an hour ago
    syncLock,    \* who holds the advisory lock
    runner,      \* what each runner has in memory
    click,       \* the clicks whose transaction found no active job
    deaths

syncVars == <<syncJobs, overdue, syncLock, runner, click, deaths>>

JobStatuses == {"none", "queued", "running", "success", "failed"}
SyncReports == {"none", "complete", "failed"}

SyncJobRows == [status : JobStatuses, csv : BOOLEAN, recovery : BOOLEAN, report : SyncReports]
NoJob == [status |-> "none", csv |-> FALSE, recovery |-> FALSE, report |-> "none"]

RunnerStates == [at : {"idle", "elected", "stages", "prepare", "persist", "settle", "crashed"},
                 job : JobIds \cup {0}, ok : BOOLEAN, recovery : BOOLEAN]
Resting == [at |-> "idle", job |-> 0, ok |-> TRUE, recovery |-> FALSE]

SyncTypeOK ==
    /\ syncJobs \in [JobIds -> SyncJobRows]
    /\ overdue \subseteq JobIds
    /\ syncLock \in Runners \cup {NoRunner}
    /\ runner \in [Runners -> RunnerStates]
    /\ click \subseteq Clickers
    /\ deaths \in 0 .. MaxDeaths

SyncInit ==
    /\ syncJobs = [j \in JobIds |-> NoJob]
    /\ overdue = {}
    /\ syncLock = NoRunner
    /\ runner = [p \in Runners |-> Resting]
    /\ click = {}
    /\ deaths = 0

ActiveJobs == {j \in JobIds : syncJobs[j].status \in {"queued", "running"}}
QueuedJobs == {j \in JobIds : syncJobs[j].status = "queued"}

----------------------------------------------------------------------------
\* A click asks for an active job and inserts its own in one transaction, which
\* sees what others had committed when it asked.
Ask(a) ==
    /\ a \notin click
    /\ ActiveJobs = {}
    /\ click' = click \cup {a}
    /\ UNCHANGED <<syncJobs, overdue, syncLock, runner, deaths>>

QueueJob(a) ==
    /\ a \in click
    /\ click' = click \ {a}
    /\ \E j \in JobIds :
        /\ syncJobs[j].status = "none"
        /\ \A i \in JobIds : i < j => syncJobs[i].status # "none"
        /\ syncJobs' = [syncJobs EXCEPT ![j].status = "queued"]
    /\ UNCHANGED <<overdue, syncLock, runner, deaths>>

----------------------------------------------------------------------------
Becomes(p, state) == runner' = [runner EXCEPT ![p] = state]

\* The poll: the lock, then the oldest queued job.
Elect(p) ==
    /\ runner[p].at = "idle"
    /\ syncLock = NoRunner
    /\ \E j \in QueuedJobs :
        /\ \A i \in QueuedJobs : j <= i
        /\ Becomes(p, [Resting EXCEPT !.at = "elected", !.job = j])
    /\ syncLock' = p
    /\ UNCHANGED <<syncJobs, overdue, click, deaths>>

BeginJob(p) ==
    /\ runner[p].at = "elected"
    /\ syncJobs' = [syncJobs EXCEPT ![runner[p].job].status = "running"]
    /\ Becomes(p, [runner[p] EXCEPT !.at = "stages"])
    /\ UNCHANGED <<overdue, syncLock, click, deaths>>

\* Every stage runs whatever the others did; the final one only when all passed.
RunStages(p) ==
    /\ runner[p].at = "stages"
    /\ \E passed \in BOOLEAN :
           Becomes(p, [runner[p] EXCEPT !.at = IF passed THEN "prepare" ELSE "persist",
                                        !.ok = passed])
    /\ UNCHANGED <<syncJobs, overdue, syncLock, click, deaths>>

\* prepare_flora in its own workspace: a CSV with a complete report, or neither;
\* then, when it had stored the dataset before it failed, the stored bytes.
Prepare(p) ==
    /\ runner[p].at = "prepare"
    /\ \/ Becomes(p, [runner[p] EXCEPT !.at = "persist"])
       \/ \E stored \in BOOLEAN :
              Becomes(p, [runner[p] EXCEPT !.at = "persist", !.ok = FALSE, !.recovery = stored])
    /\ UNCHANGED <<syncJobs, overdue, syncLock, click, deaths>>

\* The artifacts are in the database before the job says how it ended.
Persist(p) ==
    LET mine == runner[p]
        kept == syncJobs[mine.job].recovery \/ mine.recovery
    IN
    /\ mine.at = "persist"
    /\ syncJobs' = [syncJobs EXCEPT ![mine.job] =
           [@ EXCEPT !.csv = mine.ok,
                     !.report = IF mine.ok THEN "complete" ELSE "failed",
                     !.recovery = kept]]
    /\ Becomes(p, [mine EXCEPT !.at = "settle"])
    /\ UNCHANGED <<overdue, syncLock, click, deaths>>

Outcome(ok) == IF ok THEN "success" ELSE "failed"

Settle(p) ==
    /\ runner[p].at = "settle"
    /\ syncJobs' = [syncJobs EXCEPT ![runner[p].job].status = Outcome(runner[p].ok)]
    /\ syncLock' = NoRunner
    /\ Becomes(p, Resting)
    /\ UNCHANGED <<overdue, click, deaths>>

\* What a stage, its report or its workspace raises fails the job (a database
\* write fails only with its connection, see RunnerDies) ...
CrashJob(p) ==
    /\ runner[p].at \in {"stages", "prepare", "persist", "settle"}
    /\ syncJobs' = [syncJobs EXCEPT ![runner[p].job].status = "failed"]
    /\ Becomes(p, [runner[p] EXCEPT !.at = "crashed"])
    /\ UNCHANGED <<overdue, syncLock, click, deaths>>

\* ... and then replaces its report, and its CSV by none.
ReportCrash(p) ==
    /\ runner[p].at = "crashed"
    /\ syncJobs' = [syncJobs EXCEPT ![runner[p].job] =
                        [@ EXCEPT !.csv = FALSE, !.report = "failed"]]
    /\ syncLock' = NoRunner
    /\ Becomes(p, Resting)
    /\ UNCHANGED <<overdue, click, deaths>>

\* The process ends, or its connection, after which it can write nothing: the
\* session's lock is free and the job stays as it is.
RunnerDies(p) ==
    /\ runner[p].at # "idle"
    /\ deaths < MaxDeaths
    /\ deaths' = deaths + 1
    /\ syncLock' = NoRunner
    /\ Becomes(p, Resting)
    /\ UNCHANGED <<syncJobs, overdue, click>>

----------------------------------------------------------------------------
HourPasses(j) ==
    /\ j \in ActiveJobs \ overdue
    /\ overdue' = overdue \cup {j}
    /\ UNCHANGED <<syncJobs, syncLock, runner, click, deaths>>

\* Mutant of Reapable: the lock of the job's runner is not looked at.
MutReapable == overdue \cap ActiveJobs

\* Mutant of Reapable: running jobs are left.
MutReapableQueued == IF syncLock = NoRunner THEN overdue \cap QueuedJobs ELSE {}

\* The lock is taken for the length of the statement.
Reapable == IF syncLock = NoRunner THEN overdue \cap ActiveJobs ELSE {}

Reap ==
    /\ Reapable # {}
    /\ syncJobs' = [j \in JobIds |-> IF j \in Reapable
                                     THEN [syncJobs[j] EXCEPT !.status = "failed"]
                                     ELSE syncJobs[j]]
    /\ UNCHANGED <<overdue, syncLock, runner, click, deaths>>

----------------------------------------------------------------------------
RunnerStep(p) ==
    \/ Elect(p) \/ BeginJob(p) \/ RunStages(p) \/ Prepare(p) \/ Persist(p) \/ Settle(p)
    \/ CrashJob(p) \/ ReportCrash(p)

SyncNext ==
    \/ \E a \in Clickers : Ask(a) \/ QueueJob(a)
    \/ \E p \in Runners : RunnerStep(p) \/ RunnerDies(p)
    \/ \E j \in JobIds : HourPasses(j)
    \/ Reap

\* Schedulers poll, children end (each stage has a timeout), hours pass, and
\* housekeeping comes round.
SyncFairness ==
    /\ \A p \in Runners : WF_syncVars(RunnerStep(p))
    /\ \A j \in JobIds : WF_syncVars(HourPasses(j))
    /\ WF_syncVars(Reap)

SyncSpec == SyncInit /\ [][SyncNext]_syncVars /\ SyncFairness

----------------------------------------------------------------------------
(***************************************************************************)
(* Properties                                                              *)
(***************************************************************************)
\* A job somebody executes is the running one, or already failed by its own
\* crash handler: the reaper never takes a job from a live runner.
RunnerOwnsJob ==
    \A p \in Runners : runner[p].at \notin {"idle", "elected"} =>
        /\ syncLock = p
        /\ syncJobs[runner[p].job].status = IF runner[p].at = "crashed" THEN "failed"
                                                                        ELSE "running"

\* However its runner ends, a queued job ends, so the queue does not stay closed
\* (reap_stale_jobs, run_queued).
SyncJobEnds == \A j \in JobIds : j \in ActiveJobs ~> j \notin ActiveJobs
=============================================================================
