-------------------------- MODULE MaintenanceRuns --------------------------
(***************************************************************************)
(* The nightly extractor maintenance: a durable run (a row of              *)
(* extractor_maintenance_runs) is queued by an admin, the scheduler or the *)
(* command line, executed by the worker that holds the session advisory    *)
(* lock, stage by stage (sync, OpenAlex backfill, orphan report, retire),  *)
(* and recovered by another worker when its process died.                  *)
(*                                                                         *)
(* The extractor publishes commits, each a CSV and a retirement manifest;  *)
(* people work on the records meanwhile.  A CSV stands for its digest.     *)
(* One pod: its workers share the data directory, a redeploy empties it.   *)
(***************************************************************************)
EXTENDS ExtractorImport, Lists, SequencesExt

CONSTANTS
    Workers, NoWorker,
    Requests,     \* the stages requested
    MaxRuns,      \* bound on the runs requested
    MaxCrashes,   \* bound on deaths of workers and pods
    History,      \* what the extractor publishes: [csv, manifest] per commit
    Wanted,       \* bound on the records people start to work on
    Percent,      \* EXTRACTOR_MAX_RETIRE_PERCENT
    Kept          \* EXTRACTOR_SNAPSHOTS_KEPT

RunIds == 1 .. MaxRuns
Commits == 1 .. Len(History)

MaintenanceAssumption ==
    /\ NoWorker \notin Workers
    /\ Requests \subseteq {"full", "sync", "find"}
    /\ MaxRuns \in Nat /\ MaxCrashes \in Nat /\ Percent \in 0 .. 100 /\ Wanted \subseteq Pairs
    /\ History \in Seq([csv : Seq(Row), manifest : SUBSET Pairs])
    /\ Kept \in Nat /\ Kept >= 2
    /\ History # <<>>

ASSUME MaintenanceAssumption

VARIABLES
    runs,      \* the rows, in order of creation
    lock,      \* who holds the session advisory lock
    worker,    \* what each worker process has in memory
    disk,      \* the snapshots in the pod's data directory
    stored,    \* the snapshots in the database, by stored_at
    head,      \* the commit the extractor's branch points at
    db,        \* the records
    imported,  \* the CSV of the last committed import
    archived,  \* how many records were put into retired_records
    crashes    \* deaths so far

maintVars == <<runs, lock, worker, disk, stored, head, db, imported, archived, crashes>>

NoCsv == <<>>
Csvs  == {History[c].csv : c \in Commits}

Stages       == {"full", "sync", "find"}
StageResults == {"absent", "PENDING", "SUCCESS", "FAILED", "SKIPPED", "BLOCKED"}
\* "done" is success or warning, "failed" is blocked or failed: nothing reads
\* which, so what only chooses between them (the warning codes) is left out.
Statuses     == {"none", "queued", "running", "done", "failed"}

Runs == [status : Statuses, stage : Stages, sync : StageResults, find : StageResults,
         archive : Csvs \cup {NoCsv}, commit : Commits \cup {0},
         part1 : BOOLEAN, part2 : BOOLEAN, kept : BOOLEAN]

Executing == {"started", "importing", "promoting", "storing", "backfill",
              "gate", "find", "retire", "retiring", "finish"}

Memories == [at : {"idle", "elected"} \cup Executing, run : RunIds \cup {0},
             sync : StageResults, find : StageResults,
             archive : Csvs \cup {NoCsv}, commit : Commits \cup {0},
             baseline : Csvs \cup {NoCsv}, unkept : BOOLEAN, ok : BOOLEAN,
             left : SUBSET Pairs, limit : Nat, retired : Nat]

MaintTypeOK ==
    /\ runs \in [RunIds -> Runs]
    /\ lock \in Workers \cup {NoWorker}
    /\ worker \in [Workers -> Memories]
    /\ disk \subseteq Csvs
    /\ stored \in Seq(Csvs)
    /\ head \in Commits
    /\ db \in Database
    /\ imported \in Csvs \cup {NoCsv}
    /\ archived \in Nat
    /\ crashes \in 0 .. MaxCrashes

NoRun == [status |-> "none", stage |-> "full", sync |-> "absent", find |-> "absent",
          archive |-> NoCsv, commit |-> 0, part1 |-> FALSE, part2 |-> FALSE, kept |-> TRUE]

Idle == [at |-> "idle", run |-> 0, sync |-> "absent", find |-> "absent", archive |-> NoCsv,
         commit |-> 0, baseline |-> NoCsv, unkept |-> FALSE, ok |-> TRUE,
         left |-> {}, limit |-> 0, retired |-> 0]

MaintInit ==
    /\ runs = [r \in RunIds |-> NoRun]
    /\ lock = NoWorker
    /\ worker = [w \in Workers |-> Idle]
    /\ disk = {}
    /\ stored = <<>>
    /\ head = 1
    /\ db = Empty
    /\ imported = NoCsv
    /\ archived = 0
    /\ crashes = 0

----------------------------------------------------------------------------
ActiveRuns == {r \in RunIds : runs[r].status \in {"queued", "running"}}

\* Which requests run which stage (_STAGES_BY_REQUEST).
Syncs(stage)   == stage \in {"full", "sync"}
Reports(stage) == stage \in {"full", "find"}

Initially(stage) ==
    [sync |-> IF Syncs(stage) THEN "PENDING" ELSE "absent",
     find |-> IF Reports(stage) THEN "PENDING" ELSE "absent"]

\* The row of a new run, in the lowest free number: numbers are created_at.
NewRun(r, stage) ==
    /\ runs[r].status = "none"
    /\ \A q \in RunIds : q < r => runs[q].status # "none"
    /\ ActiveRuns = {}      \* the partial unique index
    /\ runs' = [runs EXCEPT ![r] = [NoRun EXCEPT !.status = "queued", !.stage = stage,
                                                 !.sync = Initially(stage).sync,
                                                 !.find = Initially(stage).find]]

\* An admin queues a run: a row only, and only while nobody holds the lock.
Queue(r, stage) ==
    /\ lock = NoWorker
    /\ NewRun(r, stage)
    /\ UNCHANGED <<lock, worker, disk, stored, head, db, imported, archived, crashes>>

\* The scheduler and the command line queue a run and go on to execute it.
QueueAndRun(w, r, stage) ==
    /\ worker[w].at = "idle"
    /\ lock = NoWorker
    /\ NewRun(r, stage)
    /\ worker' = [worker EXCEPT ![w] = [Idle EXCEPT !.at = "elected", !.run = r]]
    /\ UNCHANGED <<lock, disk, stored, head, db, imported, archived, crashes>>

----------------------------------------------------------------------------
(***************************************************************************)
(* Dispatch.  Whoever gets the lock selects the oldest active row, puts a  *)
(* row back whose worker is gone, and gives the lock up again; the lock is *)
(* taken once more to execute.                                             *)
(***************************************************************************)
\* Mutant of WorkerIsGone: a running row is taken over though its lock is held.
MutWorkerIsGone(r) == r \in ActiveRuns

\* Only the free lock says that the worker of a running row is gone.
WorkerIsGone(r) == lock = NoWorker

Oldest(r) == r \in ActiveRuns /\ \A q \in ActiveRuns : r <= q

Poll(w, r) ==
    /\ worker[w].at = "idle"
    /\ WorkerIsGone(r)
    /\ Oldest(r)
    /\ runs' = [runs EXCEPT ![r].status = "queued"]
    /\ worker' = [worker EXCEPT ![w] = [Idle EXCEPT !.at = "elected", !.run = r]]
    /\ UNCHANGED <<lock, disk, stored, head, db, imported, archived, crashes>>

\* The archive of the newest verified sync, by creation.
Verified(r) == /\ Syncs(runs[r].stage) /\ runs[r].sync = "SUCCESS"
               /\ runs[r].part1 /\ runs[r].archive # NoCsv
NewestVerified == {r \in RunIds : Verified(r) /\ \A q \in RunIds : Verified(q) => q <= r}
Baseline == IF NewestVerified = {} THEN NoCsv
            ELSE runs[CHOOSE r \in NewestVerified : TRUE].archive

\* A redeploy loses the last import's snapshot: the database may have it.
Restored == IF Baseline \in ToSet(stored) THEN {Baseline} ELSE {}

\* Mutant of MayStart: a run of any status may be started.
MutMayStart(r) == runs[r].status # "none"

MayStart(r) == runs[r].status = "queued"

Start(w) ==
    LET r == worker[w].run IN
    /\ worker[w].at = "elected"
    /\ lock = NoWorker
    /\ MayStart(r)
    /\ lock' = w
    /\ runs' = [runs EXCEPT ![r].status = "running"]
    /\ worker' = [worker EXCEPT ![w] =
           [@ EXCEPT !.at = IF Syncs(runs[r].stage) THEN "started" ELSE "gate",
                     !.sync = Initially(runs[r].stage).sync,
                     !.find = Initially(runs[r].stage).find,
                     !.baseline = IF Syncs(runs[r].stage) THEN Baseline ELSE NoCsv]]
    \* the last import's snapshot is put back on this pod before the sync
    /\ disk' = IF Syncs(runs[r].stage) THEN disk \cup Restored ELSE disk
    /\ UNCHANGED <<stored, head, db, imported, archived, crashes>>

\* The lock stayed taken, or another worker has executed the run meanwhile.
LoseElection(w) ==
    /\ worker[w].at = "elected"
    /\ lock # NoWorker \/ ~ MayStart(worker[w].run)
    /\ worker' = [worker EXCEPT ![w] = Idle]
    /\ UNCHANGED <<runs, lock, disk, stored, head, db, imported, archived, crashes>>

----------------------------------------------------------------------------
(***************************************************************************)
(* Part 1, the child process of sync_csv: download and archive the CSV of  *)
(* the branch's commit, import it, promote it and write a report.          *)
(***************************************************************************)
\* A lost baseline may be found in the extractor's history.
IsFound(base, recovered) == base \in disk \/ (base # NoCsv /\ recovered)

\* A commit that does not resolve only keeps the run from retiring (RetireFails).
Download(w) ==
    LET csv == History[head].csv
        base == worker[w].baseline
    IN
    /\ worker[w].at = "started"
    /\ \E recovered \in BOOLEAN :
        LET found == IsFound(base, recovered) IN
        /\ worker' = [worker EXCEPT ![w].at = "importing",
                                 ![w].archive = csv,
                                 ![w].commit = head,
                                 ![w].baseline = IF found THEN base ELSE NoCsv]
        /\ disk' = disk \cup {csv} \cup (IF found THEN {base} ELSE {})
    /\ UNCHANGED <<runs, lock, stored, head, db, imported, archived, crashes>>

ImportCommits(w) ==
    LET csv == worker[w].archive IN
    /\ worker[w].at = "importing"
    /\ ~ Refused(db, csv)
    /\ db' = Imported(db, csv)
    /\ imported' = csv
    /\ worker' = [worker EXCEPT ![w].at = "promoting"]
    /\ UNCHANGED <<runs, lock, disk, stored, head, archived, crashes>>

\* The child fails, before or after its import committed.  What it reported
\* replaces what the row said; a killed child reported nothing and the row
\* keeps what an earlier attempt wrote; one that ended well without proof only
\* has its completion denied.
SyncFails(w) ==
    LET mine == worker[w]
        row  == runs[mine.run]
        find == IF mine.find = "absent" THEN "absent" ELSE "SKIPPED"
    IN
    /\ mine.at \in {"started", "importing", "promoting"}
    /\ \E how \in {"reported", "killed", "unproven"} :
        /\ runs' = [runs EXCEPT
               ![mine.run].sync = "FAILED",
               ![mine.run].find = find,
               ![mine.run].part1 = IF how = "killed" THEN row.part1 ELSE FALSE,
               ![mine.run].archive = IF how = "reported" THEN mine.archive ELSE row.archive,
               ![mine.run].commit = IF how = "reported" THEN mine.commit ELSE row.commit]
        /\ worker' = [worker EXCEPT ![w].at = "finish",
                                    ![w].sync = "FAILED",
                                    ![w].find = find,
                                    ![w].ok = FALSE]
    /\ UNCHANGED <<lock, disk, stored, head, db, imported, archived, crashes>>

\* The snapshots of the import and of its baseline go to the database, a digest
\* once, each as new as this run; the oldest beyond Kept leave it.
Saving(s, csvs) == Without(s, ToSet(csvs)) \o csvs

Newest(n, s) == {s[i] : i \in {j \in DOMAIN s : j > Len(s) - n}}

\* Mutant of Pruned: the newest go first, this run's among them.
MutPruned(s, csvs) == Without(s, Newest(Len(s) - Kept, s))

\* What this run stored is protected.
Pruned(s, csvs) == Without(s, ToSet(s) \ (ToSet(csvs) \cup Newest(Kept, s)))

\* The baseline too, so a database that predates its table fills itself.
SnapshotsOf(mine) ==
    Without(<<mine.archive>> \o IF mine.baseline = mine.archive THEN <<>> ELSE <<mine.baseline>>,
            {mine.archive, mine.baseline} \ disk)

\* Some may not be stored ("lost"), and the pruning may fail.
KeepSnapshots(w) ==
    LET mine == SnapshotsOf(worker[w]) IN
    /\ worker[w].at = "promoting"
    /\ \E lost \in SUBSET ToSet(mine) :
        LET saved == Without(mine, lost)
            all   == Saving(stored, saved)
        IN  /\ \/ stored' = all
               \/ saved # <<>> /\ stored' = Pruned(all, saved)
            /\ worker' = [worker EXCEPT ![w].at = "storing",
                                        ![w].sync = "SUCCESS",
                                        ![w].baseline = NoCsv,
                                        ![w].unkept = lost # {}]
    /\ UNCHANGED <<runs, lock, disk, head, db, imported, archived, crashes>>

\* What a verified Part 1 leaves in the row.
WithPart1(row, mine) ==
    [row EXCEPT !.sync = "SUCCESS", !.find = mine.find, !.archive = mine.archive,
                !.commit = mine.commit, !.part1 = TRUE, !.kept = ~ mine.unkept]

SyncSucceeds(w) ==
    /\ worker[w].at = "storing"
    /\ runs' = [runs EXCEPT ![worker[w].run] = WithPart1(@, worker[w])]
    /\ \E next \in IF worker[w].find = "absent" THEN {"finish"} ELSE {"backfill", "find"} :
           worker' = [worker EXCEPT ![w].at = next]
    /\ UNCHANGED <<lock, disk, stored, head, db, imported, archived, crashes>>

\* The nightly OpenAlex enrichment of the scheduled run: a failure only warns.
Backfill(w) ==
    /\ worker[w].at = "backfill"
    /\ worker' = [worker EXCEPT ![w].at = "find"]
    /\ UNCHANGED <<runs, lock, disk, stored, head, db, imported, archived, crashes>>

----------------------------------------------------------------------------
(***************************************************************************)
(* Part 2, the orphan report.  Alone it needs the newest sync, and no      *)
(* other, to have been verified, and the snapshot that sync imported.      *)
(***************************************************************************)
SyncAttempts == {r \in RunIds : runs[r].status # "none" /\ Syncs(runs[r].stage)}

GateRuns == {r \in SyncAttempts : Verified(r) /\ \A q \in SyncAttempts : q <= r}

\* The snapshot of a sync is read from this pod's disk or the database.
Readable(csv) == csv \in disk \cup ToSet(stored)

GatePasses(w) ==
    /\ worker[w].at = "gate"
    /\ \E r \in GateRuns :
        LET csv == runs[r].archive IN
        /\ Readable(csv)
        /\ disk' = disk \cup {csv}
        /\ runs' = [runs EXCEPT ![worker[w].run].sync = "SUCCESS",
                                ![worker[w].run].find = "PENDING",
                                ![worker[w].run].archive = csv,
                                ![worker[w].run].part1 = TRUE]
        /\ worker' = [worker EXCEPT ![w].at = "find",
                                 ![w].sync = "SUCCESS",
                                 ![w].archive = csv]
    /\ UNCHANGED <<lock, stored, head, db, imported, archived, crashes>>

GateBlocks(w) ==
    /\ worker[w].at = "gate"
    /\ \A r \in GateRuns : ~ Readable(runs[r].archive)
    /\ LET inherited == IF GateRuns = {} THEN "absent" ELSE "SUCCESS" IN
       /\ runs' = [runs EXCEPT ![worker[w].run].sync = inherited,
                               ![worker[w].run].find = "BLOCKED"]
       /\ worker' = [worker EXCEPT ![w].at = "finish",
                                 ![w].sync = inherited,
                                 ![w].find = "BLOCKED",
                                 ![w].ok = FALSE]
    /\ UNCHANGED <<lock, disk, stored, head, db, imported, archived, crashes>>

Report(w) ==
    /\ worker[w].at = "find"
    /\ \E done \in BOOLEAN :
        LET find == IF done THEN "SUCCESS" ELSE "FAILED" IN
        /\ runs' = [runs EXCEPT ![worker[w].run].sync = worker[w].sync,
                                ![worker[w].run].find = find,
                                ![worker[w].run].part2 = done]
        /\ worker' = [worker EXCEPT ![w].at = IF done /\ runs[worker[w].run].stage = "full"
                                 THEN "retire" ELSE "finish",
                                 ![w].find = find,
                                 ![w].ok = done]
    /\ UNCHANGED <<lock, disk, stored, head, db, imported, archived, crashes>>

----------------------------------------------------------------------------
(***************************************************************************)
(* The retirement, in this run's lock: it proves through the row that the  *)
(* run is live and imported exactly this snapshot at this commit, and      *)
(* plans each batch again under the write lock.                            *)
(***************************************************************************)
RunIsVerified(row, csv) ==
    /\ row.status = "running"
    /\ row.sync = "SUCCESS" /\ row.part1
    /\ row.find = "SUCCESS" /\ row.part2
    /\ row.archive = csv

RetireGate(w) ==
    LET row == runs[worker[w].run] IN
    /\ RunIsVerified(row, worker[w].archive)
    /\ row.commit = worker[w].commit

Manifest(w) == History[worker[w].commit].manifest

RetireBegins(w) ==
    LET limit == RetireLimit(Percent, db) IN
    /\ worker[w].at = "retire"
    /\ RetireGate(w)
    /\ Cardinality(PlanRetirements(Manifest(w), worker[w].archive, db)) <= limit
    /\ worker' = [worker EXCEPT ![w].at = "retiring",
                                 ![w].left = Manifest(w),
                                 ![w].limit = limit]
    /\ UNCHANGED <<runs, lock, disk, stored, head, db, imported, archived, crashes>>

RetireBatch(w) ==
    /\ worker[w].at = "retiring"
    /\ \E batch \in SUBSET worker[w].left \ {{}} :
        LET gone  == PlanRetirements(batch, worker[w].archive, db)
            total == worker[w].retired + Cardinality(gone)
        IN  /\ total <= worker[w].limit
            /\ db' = Deleted(db, gone)
            /\ archived' = archived + Cardinality(gone)
            /\ worker' = [worker EXCEPT ![w].left = worker[w].left \ batch,
                                 ![w].retired = total]
    /\ UNCHANGED <<runs, lock, disk, stored, head, imported, crashes>>

RetireEnds(w) ==
    /\ worker[w].at = "retiring"
    /\ worker[w].left = {}
    /\ worker' = [worker EXCEPT ![w].at = "finish", ![w].limit = 0, ![w].retired = 0]
    /\ UNCHANGED <<runs, lock, disk, stored, head, db, imported, archived, crashes>>

\* No commit, too many records, a busy table: a warning, what is done stands.
RetireFails(w) ==
    /\ worker[w].at \in {"retire", "retiring"}
    /\ worker' = [worker EXCEPT ![w].at = "finish", ![w].left = {}, ![w].limit = 0,
                                ![w].retired = 0]
    /\ UNCHANGED <<runs, lock, disk, stored, head, db, imported, archived, crashes>>

----------------------------------------------------------------------------
\* A stage that raises ends the run as failed; what is in memory is written
\* with the outcome.
Raises(w) ==
    /\ worker[w].at \in {"started", "storing", "backfill", "gate", "find", "retire"}
    /\ worker' = [worker EXCEPT ![w].at = "finish",
                                 ![w].ok = FALSE]
    /\ UNCHANGED <<runs, lock, disk, stored, head, db, imported, archived, crashes>>

Finish(w) ==
    LET mine == worker[w]
        row  == runs[mine.run]
        kept == IF mine.sync = "SUCCESS" /\ Syncs(row.stage) THEN WithPart1(row, mine) ELSE row
    IN
    /\ mine.at = "finish"
    /\ runs' = [runs EXCEPT ![mine.run] =
           [kept EXCEPT !.status = IF mine.ok THEN "done" ELSE "failed",
                        !.sync = mine.sync, !.find = mine.find]]
    /\ lock' = NoWorker
    /\ worker' = [worker EXCEPT ![w] = Idle]
    /\ UNCHANGED <<disk, stored, head, db, imported, archived, crashes>>

\* A worker dies with its child; PostgreSQL releases its session's lock.
Crash(w) ==
    /\ worker[w].at # "idle"
    /\ crashes < MaxCrashes
    /\ crashes' = crashes + 1
    /\ worker' = [worker EXCEPT ![w] = Idle]
    /\ lock' = IF lock = w THEN NoWorker ELSE lock
    /\ UNCHANGED <<runs, disk, stored, head, db, imported, archived>>

\* A redeploy ends every worker and empties the data directory.
Redeploy ==
    /\ crashes < MaxCrashes
    /\ crashes' = crashes + 1
    /\ worker' = [w \in Workers |-> Idle]
    /\ lock' = NoWorker
    /\ disk' = {}
    /\ UNCHANGED <<runs, stored, head, db, imported, archived>>

\* The extractor publishes its next commit.
Publish ==
    /\ head < Len(History)
    /\ head' = head + 1
    /\ UNCHANGED <<runs, lock, worker, disk, stored, db, imported, archived, crashes>>

\* A validator or an admin starts to work on a record.
Touch(p) ==
    /\ p \in Present(db)
    /\ ~ db[p].touched
    /\ db' = [db EXCEPT ![p].touched = TRUE]
    /\ UNCHANGED <<runs, lock, worker, disk, stored, head, imported, archived, crashes>>

----------------------------------------------------------------------------
WorkerStep(w) ==
    \/ \E r \in RunIds : Poll(w, r)
    \/ Start(w) \/ LoseElection(w)
    \/ Download(w) \/ ImportCommits(w) \/ SyncFails(w) \/ KeepSnapshots(w) \/ SyncSucceeds(w)
    \/ Backfill(w) \/ GatePasses(w) \/ GateBlocks(w) \/ Report(w)
    \/ RetireBegins(w) \/ RetireBatch(w) \/ RetireEnds(w) \/ RetireFails(w)
    \/ Raises(w) \/ Finish(w)

Request ==
    \E r \in RunIds, stage \in Requests :
        \/ Queue(r, stage)
        \/ \E w \in Workers : QueueAndRun(w, r, stage)

MaintNext ==
    \/ \E w \in Workers : WorkerStep(w) \/ Crash(w)
    \/ Request
    \/ Redeploy
    \/ Publish
    \/ \E p \in Wanted : Touch(p)

MaintSpec == MaintInit /\ [][MaintNext]_maintVars

-----------------------------------------------------------------------------
(***************************************************************************)
(* Properties                                                              *)
(***************************************************************************)
\* A worker that executes a stage holds the session lock and its run is the
\* running row, whatever was recovered in between: nobody works for a row
\* that was put back (_prepare_durable_run, _mark_run_started, _finish_run).
ExecutorOwnsRun ==
    \A w \in Workers : worker[w].at \in Executing =>
        lock = w /\ runs[worker[w].run].status = "running"

\* Whatever the last import shipped has its record, through re-keys in any
\* order and retirements by a manifest of any commit (_rekey_candidates,
\* plan_retirements).
ShippedHaveRecords == Shipped(imported) \subseteq Present(db)

\* The snapshot of the newest sync, once it is over and was verified, can be
\* had from the database when the pod's disk is lost, however many attempts it
\* took, unless the run could not store it (prune_snapshots): the report of a
\* later run needs it, and the next sync compares with it.
NewestSnapshotIsStored ==
    \A r \in GateRuns \ ActiveRuns : runs[r].kept => runs[r].archive \in ToSet(stored)

\* A record somebody has touched is never lost, and none is removed without
\* its copy in retired_records (_apply_retire_batch, _refresh_rekeyed_record).
Touched(records) == {p \in Present(records) : records[p].touched}
TouchedRecordsStay ==
    [][/\ Cardinality(Touched(db)) <= Cardinality(Touched(db'))
       /\ Cardinality(Present(db)) <= Cardinality(Present(db')) + (archived' - archived)]_maintVars

\* The rows are a queue of jobs with one active job and one executor, whose
\* outcomes stand.
Jobs == INSTANCE DurableJobs
            WITH Jobs <- RunIds, Exclusive <- TRUE,
                 jobs <- [r \in RunIds |-> runs[r].status]
RunsAreJobs == Jobs!JobsSpec
=============================================================================
