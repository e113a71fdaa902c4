----------------------------- MODULE NightProofs -----------------------------
(***************************************************************************)
(* What the nightly jobs do to the tables, for every value of the          *)
(* constants: the maintenance runs, the records they import and retire,    *)
(* the snapshots they keep, and the entry checks.                          *)
(***************************************************************************)
EXTENDS MCNight, ListProofs

-----------------------------------------------------------------------------
(***************************************************************************)
(* Who executes a maintenance run, for any number of workers, runs, deaths *)
(* and commits; and that the rows implement DurableJobs, one active job    *)
(* and one executor at a time.  Only what decides this is looked at: the   *)
(* status of a row, and in a worker's memory the stage and the run.        *)
(***************************************************************************)
\* Every row has a status, every memory a stage and a run.
Shaped ==
    /\ DOMAIN runs = RunIds /\ DOMAIN worker = Workers
    /\ \A r \in RunIds : "status" \in DOMAIN runs[r]
    /\ \A w \in Workers : {"at", "run"} \subseteq DOMAIN worker[w]

Statused == \A r \in RunIds : runs[r].status \in Statuses

\* A worker that is elected or executes has a run.
HasRun == \A w \in Workers : worker[w].at # "idle" => worker[w].run \in RunIds

\* The partial unique index.
OneActive == \A q, r \in RunIds : q \in ActiveRuns /\ r \in ActiveRuns => q = r

MaintInv == Shaped /\ Statused /\ HasRun /\ OneActive /\ ExecutorOwnsRun

LEMMA NoRunIsRun == "status" \in DOMAIN NoRun /\ NoRun.status = "none"
  BY DEF NoRun

LEMMA IdleIsMemory == {"at", "run"} \subseteq DOMAIN Idle /\ Idle.at = "idle"
  BY DEF Idle

LEMMA IdleExecutesNothing == "idle" \notin Executing /\ "elected" \notin Executing
  BY DEF Executing

LEMMA MaintInitially == MaintInit => MaintInv
<1> SUFFICES ASSUME MaintInit PROVE MaintInv
  OBVIOUS
<1>1. Shaped /\ Statused
  BY NoRunIsRun, IdleIsMemory DEF MaintInit, Shaped, Statused, Statuses
<1>2. HasRun /\ ExecutorOwnsRun
  BY IdleIsMemory, IdleExecutesNothing DEF MaintInit, HasRun, ExecutorOwnsRun
<1>3. OneActive
  BY NoRunIsRun DEF MaintInit, OneActive, ActiveRuns
<1> QED BY <1>1, <1>2, <1>3 DEF MaintInv

-----------------------------------------------------------------------------
(***************************************************************************)
(* The stages: steps of an executing worker, in its memory and in a row,   *)
(* whose status they leave alone.                                          *)
(***************************************************************************)
StageStep(w) ==
    \/ Download(w) \/ ImportCommits(w) \/ SyncFails(w) \/ KeepSnapshots(w) \/ SyncSucceeds(w)
    \/ Backfill(w) \/ GatePasses(w) \/ GateBlocks(w) \/ Report(w)
    \/ RetireBegins(w) \/ RetireBatch(w) \/ RetireEnds(w) \/ RetireFails(w) \/ Raises(w)

\* What such a step does to the memories, and to the rows.
Moves(w) ==
    /\ worker[w].at \in Executing
    /\ DOMAIN worker' = Workers
    /\ {"at", "run"} \subseteq DOMAIN worker'[w]
    /\ worker'[w].at \in Executing
    /\ worker'[w].run = worker[w].run
    /\ \A v \in Workers \ {w} : worker'[v] = worker[v]
    /\ UNCHANGED lock

StatusesStay ==
    /\ DOMAIN runs' = RunIds
    /\ \A r \in RunIds : "status" \in DOMAIN runs'[r] /\ runs'[r].status = runs[r].status

LEMMA StageKeeps ==
    ASSUME MaintInv, NEW w \in Workers, Moves(w), StatusesStay
    PROVE  MaintInv'
<1> USE DEF MaintInv, Moves, StatusesStay
<1>1. Shaped'
  BY DEF Shaped
<1>2. Statused' /\ ActiveRuns' = ActiveRuns
  BY DEF Statused, ActiveRuns
<1>3. worker[w].run \in RunIds
  BY IdleExecutesNothing DEF HasRun
<1>4. HasRun'
  BY <1>3 DEF HasRun
<1>5. ExecutorOwnsRun'
  <2> SUFFICES ASSUME NEW v \in Workers, worker'[v].at \in Executing
               PROVE  lock' = v /\ runs'[worker'[v].run].status = "running"
    BY DEF ExecutorOwnsRun
  <2>1. worker[v].at \in Executing /\ worker'[v].run = worker[v].run
    BY DEF Moves
  <2>2. lock = v /\ runs[worker[v].run].status = "running" /\ worker[v].run \in RunIds
    BY <2>1, IdleExecutesNothing DEF ExecutorOwnsRun, HasRun
  <2> QED BY <2>1, <2>2
<1> QED BY <1>1, <1>2, <1>4, <1>5 DEF OneActive

LEMMA StagesMove ==
    ASSUME MaintInv, NEW w \in Workers, StageStep(w)
    PROVE  Moves(w)
<1> USE DEF MaintInv, Shaped, Moves, Executing
<1>1. CASE Download(w)
  BY <1>1 DEF Download
<1>2. CASE ImportCommits(w)
  BY <1>2 DEF ImportCommits
<1>3. CASE SyncFails(w)
  BY <1>3 DEF SyncFails
<1>4. CASE KeepSnapshots(w)
  BY <1>4 DEF KeepSnapshots
<1>5. CASE SyncSucceeds(w)
  BY <1>5 DEF SyncSucceeds
<1>6. CASE Backfill(w)
  BY <1>6 DEF Backfill
<1>7. CASE GatePasses(w)
  BY <1>7 DEF GatePasses
<1>8. CASE GateBlocks(w)
  BY <1>8 DEF GateBlocks
<1>9. CASE Report(w)
  BY <1>9 DEF Report
<1>10. CASE RetireBegins(w)
  BY <1>10 DEF RetireBegins
<1>11. CASE RetireBatch(w)
  BY <1>11 DEF RetireBatch
<1>12. CASE RetireEnds(w)
  BY <1>12 DEF RetireEnds
<1>13. CASE RetireFails(w)
  BY <1>13 DEF RetireFails
<1>14. CASE Raises(w)
  BY <1>14 DEF Raises
<1> QED
  BY <1>1, <1>2, <1>3, <1>4, <1>5, <1>6, <1>7, <1>8, <1>9, <1>10, <1>11, <1>12, <1>13, <1>14
     DEF StageStep

LEMMA StagesLeaveStatuses ==
    ASSUME MaintInv, NEW w \in Workers, StageStep(w)
    PROVE  StatusesStay
<1> USE DEF MaintInv, Shaped, StatusesStay
<1>1. CASE UNCHANGED runs
  BY <1>1
<1>2. CASE SyncFails(w)
  <2>1. PICK how \in {"reported", "killed", "unproven"}, find \in {"absent", "SKIPPED"} :
            runs' = [runs EXCEPT
                ![worker[w].run].sync = "FAILED",
                ![worker[w].run].find = find,
                ![worker[w].run].part1 = IF how = "killed" THEN runs[worker[w].run].part1
                                         ELSE FALSE,
                ![worker[w].run].archive = IF how = "reported" THEN worker[w].archive
                                           ELSE runs[worker[w].run].archive,
                ![worker[w].run].commit = IF how = "reported" THEN worker[w].commit
                                          ELSE runs[worker[w].run].commit]
    BY <1>2, Zenon DEF SyncFails
  <2>2. CASE how = "reported"
    BY <2>1, <2>2
  <2>3. CASE how = "killed"
    BY <2>1, <2>3
  <2>4. CASE how = "unproven"
    BY <2>1, <2>4
  <2> QED BY <2>2, <2>3, <2>4
<1>3. CASE SyncSucceeds(w)
  BY <1>3 DEF SyncSucceeds, WithPart1
<1>4. CASE GatePasses(w)
  BY <1>4 DEF GatePasses
<1>5. CASE GateBlocks(w)
  BY <1>5 DEF GateBlocks
<1>6. CASE Report(w)
  BY <1>6 DEF Report
<1> QED
  BY <1>1, <1>2, <1>3, <1>4, <1>5, <1>6
     DEF StageStep, Download, ImportCommits, KeepSnapshots, Backfill, RetireBegins,
         RetireBatch, RetireEnds, RetireFails, Raises

-----------------------------------------------------------------------------
(***************************************************************************)
(* The steps that queue, dispatch and end a run.                           *)
(***************************************************************************)
LEMMA NobodyExecutes ==
    ASSUME MaintInv, lock = NoWorker
    PROVE  \A w \in Workers : worker[w].at \notin Executing
  BY MaintenanceAssumption DEF MaintInv, ExecutorOwnsRun, MaintenanceAssumption

\* What queueing a run does to the rows.
LEMMA RunIsQueued ==
    ASSUME MaintInv, NEW r \in RunIds, NEW stage, NewRun(r, stage)
    PROVE  /\ DOMAIN runs' = RunIds
           /\ \A q \in RunIds \ {r} : runs'[q] = runs[q]
           /\ "status" \in DOMAIN runs'[r] /\ runs'[r].status = "queued"
           /\ runs[r].status = "none"
           /\ ActiveRuns = {}
  BY NoRunIsRun DEF MaintInv, Shaped, NewRun

LEMMA QueueKeepsRows ==
    ASSUME MaintInv, NEW r \in RunIds, NEW stage, NewRun(r, stage)
    PROVE  /\ \A q \in RunIds : "status" \in DOMAIN runs'[q] /\ runs'[q].status \in Statuses
           /\ OneActive'
           /\ \A w \in Workers : worker[w].at \notin Executing
<1>1. \A q \in RunIds : "status" \in DOMAIN runs'[q] /\ runs'[q].status \in Statuses
  BY RunIsQueued DEF MaintInv, Shaped, Statused, Statuses
<1>2. ActiveRuns' = {r}
  BY RunIsQueued DEF ActiveRuns
<1>3. \A w \in Workers : worker[w].at \notin Executing
  BY RunIsQueued, IdleExecutesNothing DEF MaintInv, ExecutorOwnsRun, HasRun, ActiveRuns
<1> QED BY <1>1, <1>2, <1>3 DEF OneActive

LEMMA QueueKeeps ==
    ASSUME MaintInv, NEW r \in RunIds, NEW stage, Queue(r, stage)
    PROVE  MaintInv'
<1>1. NewRun(r, stage) /\ UNCHANGED <<lock, worker>>
  BY DEF Queue
<1>2. Shaped' /\ Statused' /\ OneActive'
  BY <1>1, RunIsQueued, QueueKeepsRows DEF MaintInv, Shaped, Statused
<1>3. HasRun' /\ ExecutorOwnsRun'
  BY <1>1, QueueKeepsRows DEF MaintInv, HasRun, ExecutorOwnsRun
<1> QED BY <1>2, <1>3 DEF MaintInv

\* What becoming elected, or idle, does to the memories.
LEMMA MemoryIsReset ==
    ASSUME MaintInv, NEW w \in Workers, NEW next, worker' = [worker EXCEPT ![w] = next],
           {"at", "run"} \subseteq DOMAIN next, next.at \notin Executing,
           next.at # "idle" => next.run \in RunIds
    PROVE  /\ DOMAIN worker' = Workers
           /\ \A v \in Workers : {"at", "run"} \subseteq DOMAIN worker'[v]
           /\ HasRun'
           /\ \A v \in Workers : worker'[v].at \in Executing => v # w /\ worker'[v] = worker[v]
  BY DEF MaintInv, Shaped, HasRun

LEMMA ElectedMemory ==
    ASSUME NEW r \in RunIds
    PROVE  LET next == [Idle EXCEPT !.at = "elected", !.run = r] IN
           {"at", "run"} \subseteq DOMAIN next /\ next.at \notin Executing /\ next.run = r
  BY IdleIsMemory, IdleExecutesNothing

LEMMA QueueAndRunKeeps ==
    ASSUME MaintInv, NEW w \in Workers, NEW r \in RunIds, NEW stage, QueueAndRun(w, r, stage)
    PROVE  MaintInv'
<1>1. PICK next : next = [Idle EXCEPT !.at = "elected", !.run = r]
  OBVIOUS
<1>2. NewRun(r, stage) /\ UNCHANGED lock /\ worker' = [worker EXCEPT ![w] = next]
  BY <1>1 DEF QueueAndRun
<1>3. {"at", "run"} \subseteq DOMAIN next /\ next.at \notin Executing /\ next.run = r
  BY <1>1, ElectedMemory
<1>4. Shaped' /\ Statused' /\ OneActive' /\ HasRun'
  BY <1>2, <1>3, RunIsQueued, QueueKeepsRows, MemoryIsReset DEF Shaped, Statused
<1>5. ExecutorOwnsRun'
  BY <1>2, <1>3, QueueKeepsRows, MemoryIsReset DEF ExecutorOwnsRun
<1> QED BY <1>4, <1>5 DEF MaintInv

LEMMA PollKeeps ==
    ASSUME MaintInv, NEW w \in Workers, NEW r \in RunIds, Poll(w, r)
    PROVE  MaintInv'
<1>1. PICK next : next = [Idle EXCEPT !.at = "elected", !.run = r]
  OBVIOUS
<1>2. /\ lock = NoWorker /\ r \in ActiveRuns /\ UNCHANGED lock
      /\ worker' = [worker EXCEPT ![w] = next]
      /\ runs' = [runs EXCEPT ![r].status = "queued"]
  BY <1>1 DEF Poll, WorkerIsGone, Oldest
<1>3. {"at", "run"} \subseteq DOMAIN next /\ next.at \notin Executing /\ next.run = r
  BY <1>1, ElectedMemory
<1>4. Shaped' /\ Statused' /\ HasRun'
  BY <1>2, <1>3, MemoryIsReset DEF MaintInv, Shaped, Statused, Statuses
<1>5. ActiveRuns' = ActiveRuns
  BY <1>2 DEF MaintInv, Shaped, ActiveRuns
<1>6. OneActive'
  BY <1>5 DEF MaintInv, OneActive
<1>7. ExecutorOwnsRun'
  BY <1>2, <1>3, NobodyExecutes, MemoryIsReset DEF ExecutorOwnsRun
<1> QED BY <1>4, <1>6, <1>7 DEF MaintInv

\* What a step that writes one row does to the rows.
LEMMA RowIsWritten ==
    ASSUME MaintInv, NEW r \in RunIds, NEW next, runs' = [runs EXCEPT ![r] = next],
           "status" \in DOMAIN next, next.status \in Statuses,
           next.status \in {"queued", "running"} => r \in ActiveRuns
    PROVE  /\ DOMAIN runs' = RunIds
           /\ \A q \in RunIds : "status" \in DOMAIN runs'[q] /\ runs'[q].status \in Statuses
           /\ OneActive'
           /\ runs'[r].status = next.status
           /\ \A q \in RunIds \ {r} : runs'[q] = runs[q]
<1>1. /\ DOMAIN runs' = RunIds /\ runs'[r] = next
      /\ \A q \in RunIds \ {r} : runs'[q] = runs[q]
  BY DEF MaintInv, Shaped
<1>2. ActiveRuns' \subseteq ActiveRuns
  BY <1>1 DEF ActiveRuns
<1>3. OneActive'
  BY <1>2 DEF MaintInv, OneActive, ActiveRuns
<1>4. \A q \in RunIds : "status" \in DOMAIN runs'[q] /\ runs'[q].status \in Statuses
  BY <1>1 DEF MaintInv, Shaped, Statused
<1> QED BY <1>1, <1>3, <1>4

LEMMA StartKeeps ==
    ASSUME MaintInv, NEW w \in Workers, Start(w)
    PROVE  MaintInv'
<1> DEFINE r == worker[w].run
<1>1. /\ worker[w].at = "elected" /\ lock = NoWorker /\ lock' = w
      /\ runs[r].status = "queued" /\ r \in RunIds
  BY DEF Start, MayStart, MaintInv, HasRun
<1>2. PICK row : row = [runs[r] EXCEPT !.status = "running"]
  OBVIOUS
<1>3. "status" \in DOMAIN row /\ row.status = "running" /\ runs' = [runs EXCEPT ![r] = row]
  BY <1>1, <1>2 DEF Start, MaintInv, Shaped
<1>4. r \in ActiveRuns
  BY <1>1 DEF ActiveRuns
<1>5. Statused' /\ OneActive' /\ DOMAIN runs' = RunIds /\ runs'[r].status = "running"
      /\ \A q \in RunIds : "status" \in DOMAIN runs'[q]
  BY <1>1, <1>3, <1>4, RowIsWritten DEF Statused, Statuses
<1>6. /\ DOMAIN worker' = Workers /\ \A v \in Workers \ {w} : worker'[v] = worker[v]
      /\ {"at", "run"} \subseteq DOMAIN worker'[w] /\ worker'[w].run = r
      /\ worker'[w].at \in Executing
  BY <1>1 DEF Start, MaintInv, Shaped, Executing
<1>7. Shaped' /\ HasRun'
  BY <1>1, <1>5, <1>6 DEF MaintInv, Shaped, HasRun
<1>8. ExecutorOwnsRun'
  BY <1>1, <1>5, <1>6, NobodyExecutes DEF ExecutorOwnsRun
<1> QED BY <1>5, <1>7, <1>8 DEF MaintInv

LEMMA LoseElectionKeeps ==
    ASSUME MaintInv, NEW w \in Workers, LoseElection(w)
    PROVE  MaintInv'
<1>1. worker' = [worker EXCEPT ![w] = Idle] /\ UNCHANGED <<runs, lock>>
  BY DEF LoseElection
<1>2. Shaped' /\ HasRun' /\ ExecutorOwnsRun'
  BY <1>1, IdleIsMemory, IdleExecutesNothing, MemoryIsReset
     DEF MaintInv, Shaped, ExecutorOwnsRun
<1> QED BY <1>1, <1>2 DEF MaintInv, Statused, OneActive, ActiveRuns

LEMMA FinishKeeps ==
    ASSUME MaintInv, NEW w \in Workers, Finish(w)
    PROVE  MaintInv'
<1> DEFINE r == worker[w].run
<1>1. /\ worker[w].at \in Executing /\ lock = w /\ lock' = NoWorker /\ r \in RunIds
      /\ worker' = [worker EXCEPT ![w] = Idle]
  BY IdleExecutesNothing DEF Finish, Executing, MaintInv, ExecutorOwnsRun, HasRun
<1> DEFINE kept == IF worker[w].sync = "SUCCESS" /\ Syncs(runs[r].stage)
                   THEN WithPart1(runs[r], worker[w]) ELSE runs[r]
           row  == [kept EXCEPT !.status = IF worker[w].ok THEN "done" ELSE "failed",
                                !.sync = worker[w].sync, !.find = worker[w].find]
<1>kept. "status" \in DOMAIN kept
  BY <1>1 DEF WithPart1, MaintInv, Shaped
<1>2. runs' = [runs EXCEPT ![r] = row] /\ "status" \in DOMAIN row
      /\ row.status \in {"done", "failed"}
  <2>1. runs' = [runs EXCEPT ![r] = row]
    BY DEF Finish
  <2> HIDE DEF kept
  <2> QED BY <1>kept, <2>1
<1> HIDE DEF row, kept
<1>3. Statused' /\ OneActive' /\ DOMAIN runs' = RunIds
      /\ \A q \in RunIds : "status" \in DOMAIN runs'[q]
  BY <1>1, <1>2, RowIsWritten DEF Statused, Statuses
<1>4. Shaped' /\ HasRun'
  BY <1>1, <1>3, IdleIsMemory, IdleExecutesNothing, MemoryIsReset DEF Shaped
<1>5. \A v \in Workers : worker[v].at \in Executing => v = w
  BY <1>1 DEF MaintInv, ExecutorOwnsRun
<1>6. ExecutorOwnsRun'
  BY <1>1, <1>5, IdleIsMemory, IdleExecutesNothing, MemoryIsReset DEF ExecutorOwnsRun
<1> QED BY <1>3, <1>4, <1>6 DEF MaintInv

LEMMA DeathKeeps ==
    ASSUME MaintInv, Redeploy \/ \E w \in Workers : Crash(w)
    PROVE  MaintInv'
<1>1. CASE Redeploy
  <2>1. /\ runs' = runs
        /\ DOMAIN worker' = Workers /\ \A w \in Workers : worker'[w] = Idle
    BY <1>1 DEF Redeploy
  <2> QED BY <2>1, IdleIsMemory, IdleExecutesNothing
          DEF MaintInv, Shaped, Statused, HasRun, OneActive, ActiveRuns, ExecutorOwnsRun
<1>2. ASSUME NEW w \in Workers, Crash(w)
      PROVE  MaintInv'
  <2>1. /\ worker' = [worker EXCEPT ![w] = Idle] /\ runs' = runs
        /\ lock' = IF lock = w THEN NoWorker ELSE lock
    BY <1>2 DEF Crash
  <2>2. Shaped' /\ HasRun'
        /\ \A v \in Workers : worker'[v].at \in Executing => v # w /\ worker'[v] = worker[v]
    BY <2>1, IdleIsMemory, IdleExecutesNothing, MemoryIsReset DEF MaintInv, Shaped
  <2>3. ExecutorOwnsRun'
    BY <2>1, <2>2 DEF MaintInv, ExecutorOwnsRun
  <2> QED BY <2>1, <2>2, <2>3 DEF MaintInv, Statused, OneActive, ActiveRuns
<1> QED BY <1>1, <1>2

LEMMA MaintStep == MaintInv /\ [MaintNext]_maintVars => MaintInv'
<1> SUFFICES ASSUME MaintInv, [MaintNext]_maintVars PROVE MaintInv'
  OBVIOUS
<1>1. CASE UNCHANGED <<runs, worker, lock>>
  BY <1>1 DEF MaintInv, Shaped, Statused, HasRun, OneActive, ActiveRuns, ExecutorOwnsRun
<1>2. ASSUME NEW w \in Workers, WorkerStep(w)
      PROVE  MaintInv'
  <2>1. CASE StageStep(w)
    BY <2>1, StagesMove, StagesLeaveStatuses, StageKeeps
  <2> QED BY <1>2, <2>1, PollKeeps, StartKeeps, LoseElectionKeeps, FinishKeeps
          DEF WorkerStep, StageStep
<1>3. CASE Request
  BY <1>3, QueueKeeps, QueueAndRunKeeps DEF Request
<1>4. CASE Publish \/ \E p \in Wanted : Touch(p)
  BY <1>1, <1>4 DEF Publish, Touch
<1> QED BY <1>1, <1>2, <1>3, <1>4, DeathKeeps DEF MaintNext, maintVars

\* Who executes a stage holds the session lock and its run is the running row, however
\* workers die and are replaced, and the pod is redeployed.
THEOREM ExecutorsOwnTheirRuns == MaintSpec => []ExecutorOwnsRun
<1>1. MaintSpec => []MaintInv
  BY MaintInitially, MaintStep, PTL DEF MaintSpec
<1>2. MaintInv => ExecutorOwnsRun
  BY DEF MaintInv
<1> QED BY <1>1, <1>2, PTL

-----------------------------------------------------------------------------
(***************************************************************************)
(* The rows as a queue of jobs.                                            *)
(***************************************************************************)
\* A step that gives one row another status moves that job alone.
LEMMA OneRunMoves ==
    ASSUME MaintInv, NEW r \in RunIds,
           \A q \in RunIds \ {r} : runs'[q].status = runs[q].status,
           \/ runs'[r].status = runs[r].status
           \/ runs[r].status = "none" /\ runs'[r].status = "queued" /\ ActiveRuns = {}
           \/ runs[r].status = "queued" /\ runs'[r].status = "running"
           \/ runs[r].status = "running" /\ runs'[r].status = "queued"
           \/ runs[r].status = "running" /\ runs'[r].status \in {"done", "failed"}
    PROVE  [Jobs!JobsNext]_[q \in RunIds |-> runs[q].status]
<1> DEFINE now == [q \in RunIds |-> runs[q].status]
<1>1. now' = [now EXCEPT ![r] = runs'[r].status] /\ now[r] = runs[r].status
  OBVIOUS
<1>2. CASE runs'[r].status = runs[r].status
  BY <1>1, <1>2
<1>3. CASE runs[r].status = "none" /\ runs'[r].status = "queued" /\ ActiveRuns = {}
  <2>1. Jobs!Active = {}
    BY <1>3 DEF Jobs!Active, ActiveRuns
  <2>2. Jobs!Reserve(r)
    BY <1>1, <1>3, <2>1 DEF Jobs!Reserve
  <2> QED BY <2>2 DEF Jobs!JobsNext
<1>4. CASE runs[r].status = "queued" /\ runs'[r].status = "running"
  <2>1. Jobs!Running = {}
    BY <1>4 DEF MaintInv, OneActive, ActiveRuns, Jobs!Running
  <2>2. Jobs!Begin(r)
    BY <1>1, <1>4, <2>1 DEF Jobs!Begin
  <2> QED BY <2>2 DEF Jobs!JobsNext
<1>5. CASE runs[r].status = "running" /\ runs'[r].status = "queued"
  <2>1. Jobs!PutBack(r)
    BY <1>1, <1>5 DEF Jobs!PutBack
  <2> QED BY <2>1 DEF Jobs!JobsNext
<1>6. CASE runs[r].status = "running" /\ runs'[r].status \in {"done", "failed"}
  <2>1. Jobs!End(r)
    BY <1>1, <1>6 DEF Jobs!End
  <2> QED BY <2>1 DEF Jobs!JobsNext
<1> QED BY <1>2, <1>3, <1>4, <1>5, <1>6

\* Every step of the maintenance is one of the queue's, or moves nothing.
LEMMA StepsMoveRuns ==
    ASSUME MaintInv, [MaintNext]_maintVars
    PROVE  [Jobs!JobsNext]_[q \in RunIds |-> runs[q].status]
<1>1. CASE \A q \in RunIds : runs'[q].status = runs[q].status
  BY <1>1
<1>2. ASSUME NEW r \in RunIds, NEW stage, NewRun(r, stage)
      PROVE  [Jobs!JobsNext]_[q \in RunIds |-> runs[q].status]
  BY <1>2, RunIsQueued, OneRunMoves
<1>3. ASSUME NEW w \in Workers, NEW r \in RunIds, Poll(w, r)
      PROVE  [Jobs!JobsNext]_[q \in RunIds |-> runs[q].status]
  <2>1. r \in ActiveRuns /\ runs'[r].status = "queued"
        /\ \A q \in RunIds \ {r} : runs'[q].status = runs[q].status
    BY <1>3 DEF Poll, Oldest, MaintInv, Shaped
  <2> QED BY <2>1, OneRunMoves DEF ActiveRuns
<1>4. ASSUME NEW w \in Workers, Start(w)
      PROVE  [Jobs!JobsNext]_[q \in RunIds |-> runs[q].status]
  <2> DEFINE r == worker[w].run
  <2>1. r \in RunIds /\ runs[r].status = "queued" /\ runs'[r].status = "running"
        /\ \A q \in RunIds \ {r} : runs'[q].status = runs[q].status
    BY <1>4 DEF Start, MayStart, MaintInv, HasRun, Shaped
  <2> QED BY <2>1, OneRunMoves
<1>5. ASSUME NEW w \in Workers, Finish(w)
      PROVE  [Jobs!JobsNext]_[q \in RunIds |-> runs[q].status]
  <2> DEFINE r == worker[w].run
  <2>1. r \in RunIds /\ runs[r].status = "running"
    BY <1>5, IdleExecutesNothing DEF Finish, Executing, MaintInv, ExecutorOwnsRun, HasRun
  <2>2. runs'[r].status \in {"done", "failed"}
        /\ \A q \in RunIds \ {r} : runs'[q].status = runs[q].status
    BY <2>1, <1>5 DEF Finish, WithPart1, MaintInv, Shaped
  <2> QED BY <2>1, <2>2, OneRunMoves
<1>6. ASSUME NEW w \in Workers, WorkerStep(w)
      PROVE  [Jobs!JobsNext]_[q \in RunIds |-> runs[q].status]
  <2>1. CASE StageStep(w)
    BY <1>1, <2>1, StagesLeaveStatuses DEF StatusesStay
  <2>2. CASE LoseElection(w)
    BY <1>1, <2>2 DEF LoseElection
  <2> QED BY <1>3, <1>4, <1>5, <1>6, <2>1, <2>2 DEF WorkerStep, StageStep
<1>7. CASE Request
  BY <1>2, <1>7 DEF Request, Queue, QueueAndRun
<1>8. CASE UNCHANGED runs
  BY <1>1, <1>8
<1> QED BY <1>6, <1>7, <1>8 DEF MaintNext, maintVars, Crash, Redeploy, Publish, Touch

\* The rows of the maintenance implement DurableJobs: one active run, one executor, and
\* outcomes that stand, through every death, redeploy and recovery.
THEOREM RunsImplementJobs == MaintSpec => RunsAreJobs
<1>1. MaintInit => Jobs!JobsInit
  BY NoRunIsRun DEF MaintInit, Jobs!JobsInit
<1>2. MaintInv /\ [MaintNext]_maintVars => [Jobs!JobsNext]_[r \in RunIds |-> runs[r].status]
  BY StepsMoveRuns
<1>3. MaintSpec => [][Jobs!JobsNext]_[r \in RunIds |-> runs[r].status]
  BY <1>2, MaintInitially, MaintStep, PTL DEF MaintSpec
<1>4. MaintSpec => Jobs!JobsInit
  BY <1>1, PTL DEF MaintSpec
<1>5. MaintSpec => Jobs!JobsSpec
  BY <1>3, <1>4, PTL DEF Jobs!JobsSpec
<1> QED BY <1>5 DEF RunsAreJobs

-----------------------------------------------------------------------------
-----------------------------------------------------------------------------
(***************************************************************************)
(* The import of a CSV, row by row.                                        *)
(***************************************************************************)
\* What an import has before its first row.
Unread(old) == [db |-> old, known |-> Present(old), rekeyed |-> {}, refused |-> FALSE]

\* The import is what its rows make of the database, one after the other.
LEMMA RowByRow ==
    ASSUME NEW old, NEW csv, Len(csv) \in Nat
    PROVE  \E after :
               /\ after[0] = Unread(old)
               /\ \A n \in 1 .. Len(csv) : after[n] = ImportRow(old, csv, after[n - 1], csv[n])
               /\ Import(old, csv) = after[Len(csv)]
<1> DEFINE Row1(s, n) == ImportRow(old, csv, s, csv[n])
           Runs1(f, k) ==
               f = [n \in 0 .. k |-> IF n = 0 THEN Unread(old) ELSE Row1(f[n - 1], n)]
           reached == {k \in Nat : \E f : Runs1(f, k)}
           after == CHOOSE f : Runs1(f, Len(csv))
<1>1. Import(old, csv) = after[Len(csv)]
  BY DEF Import, Unread
<1> HIDE DEF Row1
<1>2. 0 \in reached
  <2>1. Runs1([n \in 0 .. 0 |-> Unread(old)], 0)
    OBVIOUS
  <2> QED BY <2>1
<1>3. ASSUME NEW k \in Nat, k \in reached PROVE k + 1 \in reached
  <2>1. PICK f : Runs1(f, k)
    BY <1>3
  <2> DEFINE g == [n \in 0 .. k + 1 |-> IF n = k + 1 THEN Row1(f[k], n) ELSE f[n]]
  <2>2. ASSUME NEW n \in 0 .. k + 1
        PROVE  g[n] = IF n = 0 THEN Unread(old) ELSE Row1(g[n - 1], n)
    <3>1. CASE n = k + 1
      BY <3>1
    <3>2. CASE n # k + 1
      <4>1. n \in 0 .. k /\ g[n] = f[n]
        BY <3>2
      <4>2. n # 0 => g[n - 1] = f[n - 1]
        BY <4>1
      <4> QED BY <2>1, <4>1, <4>2
    <3> QED BY <3>1, <3>2
  <2>3. Runs1(g, k + 1)
    BY <2>2
  <2> HIDE DEF g
  <2> QED BY <2>3
<1>4. Len(csv) \in reached
  <2> HIDE DEF reached
  <2>1. 0 .. Len(csv) \subseteq reached
    BY <1>2, <1>3, StepByStep
  <2> QED BY <2>1
<1>5. Runs1(after, Len(csv))
  BY <1>4
<1>6. /\ after[0] = Unread(old)
      /\ \A n \in 1 .. Len(csv) : after[n] = Row1(after[n - 1], n)
  <2> DEFINE made == [n \in 0 .. Len(csv) |-> IF n = 0 THEN Unread(old) ELSE Row1(after[n - 1], n)]
  <2>1. after = made
    BY <1>5
  <2> HIDE DEF after
  <2>2. \A n \in 0 .. Len(csv) : made[n] = IF n = 0 THEN Unread(old) ELSE Row1(after[n - 1], n)
    OBVIOUS
  <2> HIDE DEF made
  <2> QED BY <2>1, <2>2
<1> HIDE DEF after
<1> QED BY <1>1, <1>6 DEF Row1

LoadStates == [db : Database, known : SUBSET Pairs, rekeyed : SUBSET Pairs, refused : BOOLEAN]

\* The records are what they were or more, and as many of them are touched.
NoneLost(before, after) ==
    /\ IsFiniteSet(Present(after))
    /\ Cardinality(Present(before)) <= Cardinality(Present(after))
    /\ Cardinality(Touched(before)) <= Cardinality(Touched(after))

\* After n rows: whatever they ship is there, and so is what has not been re-keyed.
Loading(old, csv, n, s) ==
    LET loaded == {csv[i].pair : i \in 1 .. n}
    IN  /\ s.known \subseteq Present(s.db) /\ Present(s.db) \subseteq s.known \cup loaded
        /\ loaded \subseteq Present(s.db)
        /\ Present(old) \ s.rekeyed \subseteq s.known
        /\ NoneLost(old, s.db)

LEMMA RecordsAreRecords ==
    /\ NoRecord \notin Record
    /\ NoRecord.touched = FALSE
    /\ \A x \in Record \cup {NoRecord}, s \in SourceSlots :
           [x EXCEPT !.slot = s] \in Record /\ [x EXCEPT !.slot = s].touched = x.touched
    /\ \A s \in SourceSlots : [slot |-> s, touched |-> FALSE] \in Record
<1>1. NoRecord.slot \notin SourceSlots
  BY ImportAssumption DEF ImportAssumption, NoRecord
<1>2. NoRecord \notin Record
  BY <1>1 DEF Record
<1>3. ASSUME NEW x \in Record \cup {NoRecord}, NEW s \in SourceSlots
      PROVE  [x EXCEPT !.slot = s] \in Record /\ [x EXCEPT !.slot = s].touched = x.touched
  <2>1. CASE x \in Record
    BY <2>1 DEF Record
  <2>2. CASE x = NoRecord
    BY <2>2 DEF Record, NoRecord
  <2> QED BY <2>1, <2>2
<1>4. \A s \in SourceSlots : [slot |-> s, touched |-> FALSE] \in Record
  BY DEF Record
<1> QED BY <1>2, <1>3, <1>4 DEF NoRecord

LEMMA PresentIsFinite ==
    ASSUME NEW records \in Database, IsFiniteSet(Present(records))
    PROVE  /\ IsFiniteSet(Touched(records)) /\ Touched(records) \subseteq Present(records)
           /\ Cardinality(Present(records)) \in Nat /\ Cardinality(Touched(records)) \in Nat
<1>1. Touched(records) \subseteq Present(records)
  BY DEF Touched
<1> QED BY <1>1, FS_Subset, FS_CardinalityType

\* A record more or the same one under another pair.
LEMMA MovedIsKept ==
    ASSUME NEW before \in Database, NEW after \in Database, IsFiniteSet(Present(before)),
           NEW from \in Present(before), NEW to \in Pairs \ Present(before),
           after = [before EXCEPT ![from] = NoRecord, ![to] = before[from]]
    PROVE  NoneLost(before, after) /\ Present(after) = (Present(before) \ {from}) \cup {to}
<1>1. from # to /\ after[from] = NoRecord /\ after[to] = before[from] /\ before[to] = NoRecord
  BY DEF Present, Database
<1>2. \A p \in Pairs \ {from, to} : after[p] = before[p]
  BY DEF Database
<1>3. Present(after) = (Present(before) \ {from}) \cup {to}
  BY <1>1, <1>2 DEF Present
<1>4. Touched(after) = IF before[from].touched THEN (Touched(before) \ {from}) \cup {to}
                       ELSE Touched(before)
  <2>1. to \notin Touched(before) /\ (from \in Touched(before) <=> before[from].touched)
    BY <1>1, RecordsAreRecords DEF Touched, Present
  <2>2. \A p \in Pairs \ {from, to} : p \in Touched(after) <=> p \in Touched(before)
    BY <1>2, <1>3 DEF Touched
  <2>3. from \notin Touched(after) /\ (to \in Touched(after) <=> before[from].touched)
    BY <1>1, <1>3 DEF Touched, Present
  <2>4. Touched(after) \subseteq Pairs /\ Touched(before) \subseteq Pairs
    BY DEF Touched, Present
  <2> DEFINE ta == Touched(after)
             tb == Touched(before)
  <2> HIDE DEF ta, tb
  <2>5. /\ \A p \in Pairs \ {from, to} : p \in ta <=> p \in tb
        /\ from \notin ta /\ to \notin tb
        /\ ta \subseteq Pairs /\ tb \subseteq Pairs /\ from \in Pairs
        /\ (to \in ta <=> before[from].touched) /\ (from \in tb <=> before[from].touched)
    BY <2>1, <2>2, <2>3, <2>4 DEF ta, tb, Present
  <2>6. before[from].touched => ta = (tb \ {from}) \cup {to}
    BY <2>5
  <2>7. ~before[from].touched => ta = tb
    BY <2>5
  <2> QED BY <2>6, <2>7 DEF ta, tb
<1>5. ASSUME NEW S, IsFiniteSet(S), from \in S, to \notin S
      PROVE  /\ IsFiniteSet((S \ {from}) \cup {to})
             /\ Cardinality((S \ {from}) \cup {to}) = Cardinality(S)
  <2>1. IsFiniteSet(S \ {from}) /\ Cardinality(S \ {from}) = Cardinality(S) - 1
    BY <1>5, FS_RemoveElement
  <2>2. to \notin S \ {from}
    BY <1>5
  <2>3. /\ IsFiniteSet((S \ {from}) \cup {to})
        /\ Cardinality((S \ {from}) \cup {to}) = Cardinality(S \ {from}) + 1
    BY <2>1, <2>2, FS_AddElement
  <2> QED BY <1>5, <2>1, <2>3, FS_CardinalityType
<1>6. IsFiniteSet(Present(after)) /\ Cardinality(Present(after)) = Cardinality(Present(before))
  BY <1>3, <1>5
<1>7. Cardinality(Touched(after)) = Cardinality(Touched(before))
  <2>1. CASE ~before[from].touched
    BY <1>4, <2>1
  <2>2. CASE before[from].touched
    <3>1. from \in Touched(before) /\ to \notin Touched(before)
      BY <2>2 DEF Touched
    <3> QED BY <1>4, <1>5, <2>2, <3>1, PresentIsFinite
  <2> QED BY <2>1, <2>2
<1>8. Cardinality(Present(before)) \in Nat /\ Cardinality(Touched(before)) \in Nat
  BY PresentIsFinite
<1>9. /\ Cardinality(Present(before)) <= Cardinality(Present(after))
      /\ Cardinality(Touched(before)) <= Cardinality(Touched(after))
  <2> DEFINE n == Cardinality(Present(before))
             m == Cardinality(Touched(before))
  <2> HIDE DEF n, m
  <2>1. n <= n /\ m <= m
    BY <1>8 DEF n, m
  <2>2. n = Cardinality(Present(after)) /\ m = Cardinality(Touched(after))
    BY <1>6, <1>7, Zenon DEF n, m
  <2>3. n <= Cardinality(Present(after)) /\ m <= Cardinality(Touched(after))
    BY <2>1, <2>2, Zenon
  <2> QED BY <2>3, Zenon DEF n, m
<1> QED BY <1>3, <1>6, <1>9, Zenon DEF NoneLost

LEMMA AddedIsKept ==
    ASSUME NEW before \in Database, NEW after \in Database, IsFiniteSet(Present(before)),
           NEW to \in Pairs, after[to] # NoRecord, before[to].touched => after[to].touched,
           \A p \in Pairs \ {to} : after[p] = before[p]
    PROVE  NoneLost(before, after) /\ Present(after) = Present(before) \cup {to}
<1>1. Present(after) = Present(before) \cup {to}
  BY DEF Present
<1>2. IsFiniteSet(Present(after))
  BY <1>1, FS_AddElement
<1>3. Touched(before) \subseteq Touched(after)
  BY <1>1 DEF Touched, Present
<1> QED BY <1>1, <1>2, <1>3, FS_Subset, PresentIsFinite DEF NoneLost

LEMMA KeptIsTransitive ==
    ASSUME NEW a \in Database, NEW b \in Database, NEW c \in Database,
           IsFiniteSet(Present(a)), NoneLost(a, b), NoneLost(b, c)
    PROVE  NoneLost(a, c)
BY PresentIsFinite DEF NoneLost

\* One row, of a CSV whose pairs differ.
LEMMA RowLoads ==
    ASSUME NEW old \in Database, IsFiniteSet(Present(old)), NEW csv \in Seq(Row), ValidCsv(csv),
           NEW n \in 1 .. Len(csv), NEW s \in LoadStates,
           ~s.refused => Loading(old, csv, n - 1, s)
    PROVE  LET t == ImportRow(old, csv, s, csv[n])
           IN  t \in LoadStates /\ (~t.refused => ~s.refused /\ Loading(old, csv, n, t))
<1> DEFINE shipping == csv[n]
           candidates == RekeyCandidates(old, csv, s.rekeyed, shipping.slot)
           from == CHOOSE p \in candidates : TRUE
           t == ImportRow(old, csv, s, shipping)
           refreshed == [s EXCEPT !.db[shipping.pair].slot = shipping.slot]
           moved == [s EXCEPT !.db = [@ EXCEPT ![from] = NoRecord,
                                              ![shipping.pair] = s.db[from]],
                              !.known = (@ \ {from}) \cup {shipping.pair},
                              !.rekeyed = @ \cup {from}]
           added == [s EXCEPT !.db[shipping.pair] = [slot |-> shipping.slot, touched |-> FALSE]]
           loaded(m) == {csv[i].pair : i \in 1 .. m}
<1>1. /\ shipping \in Row /\ shipping.pair \in Pairs /\ shipping.slot \in SourceSlots
      /\ shipping.pair \in Shipped(csv)
  <2>1. n \in DOMAIN csv /\ csv[n] \in Row
    OBVIOUS
  <2> QED BY <2>1 DEF Row, Shipped
<1>2. /\ candidates \subseteq Present(old) /\ candidates \subseteq Pairs
      /\ IsFiniteSet(candidates) /\ candidates \cap (Shipped(csv) \cup s.rekeyed) = {}
  BY FS_Subset DEF RekeyCandidates, Present
<1>3. Cardinality(candidates) = 1 => from \in candidates
  BY <1>2, FS_EmptySet
<1>4. /\ s.db \in Database /\ s.known \subseteq Pairs /\ s.rekeyed \subseteq Pairs
      /\ s.refused \in BOOLEAN
  BY DEF LoadStates
<1>5. /\ shipping.pair \in s.known => t = refreshed
      /\ shipping.pair \notin s.known /\ Cardinality(candidates) = 1 => t = moved
      /\ \/ shipping.pair \in s.known \/ Cardinality(candidates) = 1 \/ t = added
         \/ t = [s EXCEPT !.refused = TRUE]
  BY DEF ImportRow
<1>6. loaded(n) = loaded(n - 1) \cup {shipping.pair} /\ shipping.pair \notin loaded(n - 1)
  <2>1. 1 .. n = (1 .. n - 1) \cup {n} /\ n \in DOMAIN csv /\ 1 .. n - 1 \subseteq DOMAIN csv
    OBVIOUS
  <2> QED BY <2>1 DEF ValidCsv
<1> HIDE DEF t, candidates, from, shipping
<1>7. ~s.refused => shipping.pair \in s.known \/ shipping.pair \notin Present(s.db)
  BY <1>6 DEF Loading, shipping
<1>8. CASE shipping.pair \in s.known
  <2>1. /\ t.db = [s.db EXCEPT ![shipping.pair] = [@ EXCEPT !.slot = shipping.slot]]
        /\ t.known = s.known /\ t.rekeyed = s.rekeyed /\ t.refused = s.refused
        /\ t \in [db : {t.db}, known : {s.known}, rekeyed : {s.rekeyed}, refused : {s.refused}]
    BY <1>5, <1>8 DEF LoadStates
  <2>2. s.db[shipping.pair] \in Record \cup {NoRecord}
    BY <1>1, <1>4 DEF Database
  <2>3. t.db \in Database /\ t.db[shipping.pair] \in Record
    BY <1>1, <1>4, <2>1, <2>2, RecordsAreRecords DEF Database
  <2>4. t \in LoadStates
    BY <1>4, <2>1, <2>3 DEF LoadStates
  <2>5. ASSUME ~t.refused PROVE Loading(old, csv, n, t)
    <3>1. Loading(old, csv, n - 1, s) /\ shipping.pair \in Present(s.db)
      BY <1>8, <2>1, <2>5 DEF Loading
    <3>2. NoneLost(s.db, t.db) /\ Present(t.db) = Present(s.db)
      <4>1. /\ t.db[shipping.pair] # NoRecord
            /\ t.db[shipping.pair].touched = s.db[shipping.pair].touched
        BY <1>1, <1>4, <2>1, <2>2, RecordsAreRecords DEF Database
      <4>2. \A p \in Pairs \ {shipping.pair} : t.db[p] = s.db[p]
        BY <1>4, <2>1 DEF Database
      <4>3. IsFiniteSet(Present(s.db))
        BY <3>1 DEF Loading, NoneLost
      <4>4. NoneLost(s.db, t.db) /\ Present(t.db) = Present(s.db) \cup {shipping.pair}
        BY <1>1, <1>4, <2>3, <4>1, <4>2, <4>3, AddedIsKept
      <4> QED BY <3>1, <4>4
    <3>3. NoneLost(old, t.db)
      BY <1>4, <2>3, <3>1, <3>2, KeptIsTransitive DEF Loading
    <3> QED BY <1>6, <2>1, <3>1, <3>2, <3>3 DEF Loading
  <2> QED BY <2>1, <2>4, <2>5 DEF t, shipping
<1>9. CASE shipping.pair \notin s.known /\ Cardinality(candidates) = 1
  <2>1. /\ from \in candidates /\ from \in Present(old) /\ from \in Pairs
        /\ from \notin Shipped(csv) /\ from \notin s.rekeyed /\ from # shipping.pair
    BY <1>1, <1>2, <1>3, <1>9
  <2>2. /\ t.db = [s.db EXCEPT ![from] = NoRecord, ![shipping.pair] = s.db[from]]
        /\ t.known = (s.known \ {from}) \cup {shipping.pair}
        /\ t.rekeyed = s.rekeyed \cup {from} /\ t.refused = s.refused
        /\ t \in [db : {t.db}, known : {t.known}, rekeyed : {t.rekeyed}, refused : {s.refused}]
    BY <1>5, <1>9 DEF LoadStates
  <2>3. t.db \in Database
    BY <1>1, <1>4, <2>1, <2>2 DEF Database
  <2>4. t \in LoadStates
    BY <1>1, <1>4, <2>1, <2>2, <2>3 DEF LoadStates
  <2>5. ASSUME ~t.refused PROVE Loading(old, csv, n, t)
    <3>1. Loading(old, csv, n - 1, s) /\ shipping.pair \notin Present(s.db)
      BY <1>7, <1>9, <2>2, <2>5
    <3>2. from \in Present(s.db) /\ IsFiniteSet(Present(s.db))
      BY <2>1, <3>1 DEF Loading, NoneLost
    <3>3. /\ NoneLost(s.db, t.db)
          /\ Present(t.db) = (Present(s.db) \ {from}) \cup {shipping.pair}
      BY <1>1, <1>4, <2>2, <2>3, <3>1, <3>2, MovedIsKept
    <3>4. NoneLost(old, t.db)
      BY <1>4, <2>3, <3>1, <3>3, KeptIsTransitive DEF Loading
    <3>5. loaded(n - 1) \subseteq Shipped(csv)
      BY DEF Shipped
    <3> HIDE DEF loaded
    <3>6. /\ s.known \subseteq Present(s.db) /\ Present(s.db) \subseteq s.known \cup loaded(n - 1)
          /\ loaded(n - 1) \subseteq Present(s.db) /\ Present(old) \ s.rekeyed \subseteq s.known
      BY <3>1 DEF Loading, loaded
    <3>7. /\ t.known \subseteq Present(t.db) /\ Present(t.db) \subseteq t.known \cup loaded(n)
          /\ loaded(n) \subseteq Present(t.db) /\ Present(old) \ t.rekeyed \subseteq t.known
      BY <1>6, <2>1, <2>2, <3>3, <3>5, <3>6
    <3> QED BY <3>4, <3>7 DEF Loading, loaded
  <2> QED BY <2>2, <2>4, <2>5 DEF t, shipping
<1>10. CASE t = added /\ shipping.pair \notin s.known
  <2>1. /\ t.db = [s.db EXCEPT ![shipping.pair] = [slot |-> shipping.slot, touched |-> FALSE]]
        /\ t.known = s.known /\ t.rekeyed = s.rekeyed /\ t.refused = s.refused
        /\ t \in [db : {t.db}, known : {s.known}, rekeyed : {s.rekeyed}, refused : {s.refused}]
    BY <1>10 DEF LoadStates
  <2>2. /\ t.db \in Database /\ t.db[shipping.pair] \in Record
        /\ \A p \in Pairs \ {shipping.pair} : t.db[p] = s.db[p]
    BY <1>1, <1>4, <2>1, RecordsAreRecords DEF Database
  <2>3. t \in LoadStates
    BY <1>4, <2>1, <2>2 DEF LoadStates
  <2>4. ASSUME ~t.refused PROVE Loading(old, csv, n, t)
    <3>1. Loading(old, csv, n - 1, s) /\ shipping.pair \notin Present(s.db)
      BY <1>7, <1>10, <2>1, <2>4
    <3>2. IsFiniteSet(Present(s.db)) /\ s.db[shipping.pair] = NoRecord
      BY <1>1, <3>1 DEF Loading, NoneLost, Present
    <3>3. NoneLost(s.db, t.db) /\ Present(t.db) = Present(s.db) \cup {shipping.pair}
      BY <1>1, <1>4, <2>2, <3>2, RecordsAreRecords, AddedIsKept
    <3>4. NoneLost(old, t.db)
      BY <1>4, <2>2, <3>1, <3>3, KeptIsTransitive DEF Loading
    <3> QED BY <1>6, <2>1, <3>1, <3>3, <3>4 DEF Loading
  <2> QED BY <2>1, <2>3, <2>4 DEF t, shipping
<1>11. CASE t = [s EXCEPT !.refused = TRUE]
  <2>1. t \in LoadStates /\ t.refused
    BY <1>4, <1>11 DEF LoadStates
  <2> QED BY <2>1 DEF t, shipping
<1> QED BY <1>5, <1>8, <1>9, <1>10, <1>11

\* An import that is not refused leaves a record for each pair it ships, and loses none.
LEMMA ImportKeeps ==
    ASSUME NEW old \in Database, IsFiniteSet(Present(old)), NEW csv \in Seq(Row),
           ~Refused(old, csv)
    PROVE  /\ Imported(old, csv) \in Database
           /\ Shipped(csv) \subseteq Present(Imported(old, csv))
           /\ NoneLost(old, Imported(old, csv))
<1>1. ValidCsv(csv) /\ ~Import(old, csv).refused
  BY DEF Refused
<1>2. Len(csv) \in Nat /\ DOMAIN csv = 1 .. Len(csv)
  OBVIOUS
<1>3. PICK after :
          /\ after[0] = Unread(old)
          /\ \A n \in 1 .. Len(csv) : after[n] = ImportRow(old, csv, after[n - 1], csv[n])
          /\ Import(old, csv) = after[Len(csv)]
  BY <1>2, RowByRow
<1> DEFINE Good(n) == after[n] \in LoadStates
                      /\ (~after[n].refused => Loading(old, csv, n, after[n]))
           good == {n \in 0 .. Len(csv) : Good(n)}
<1>4. 0 \in good
  <2>1. after[0].db = old /\ after[0].known = Present(old) /\ after[0].rekeyed = {}
    BY <1>3 DEF Unread
  <2>2. after[0] \in LoadStates
    BY <1>3 DEF Unread, LoadStates, Present
  <2>3. NoneLost(old, old)
    BY PresentIsFinite DEF NoneLost
  <2>4. Loading(old, csv, 0, after[0])
    BY <2>1, <2>3 DEF Loading
  <2> QED BY <1>2, <2>2, <2>4
<1>5. ASSUME NEW n \in 0 .. Len(csv) - 1, n \in good PROVE n + 1 \in good
  <2>1. Good(n)
    BY <1>5
  <2>2. n + 1 \in 1 .. Len(csv) /\ (n + 1) - 1 = n
    BY <1>2
  <2>3. after[n + 1] = ImportRow(old, csv, after[n], csv[n + 1])
    BY <1>3, <2>2
  <2>4. Good(n + 1)
    BY <1>1, <2>1, <2>2, <2>3, RowLoads
  <2> QED BY <2>2, <2>4
<1>6. Good(Len(csv))
  <2> HIDE DEF Good
  <2>1. \A n \in 0 .. Len(csv) - 1 : n \in good => n + 1 \in good
    BY <1>5
  <2> HIDE DEF good
  <2>2. 0 .. Len(csv) \subseteq good
    BY <1>2, <1>4, <2>1, StepByStep
  <2>3. Len(csv) \in good
    BY <1>2, <2>2
  <2> QED BY <2>3 DEF good
<1>7. Import(old, csv) \in LoadStates /\ Loading(old, csv, Len(csv), Import(old, csv))
  BY <1>1, <1>3, <1>6
<1>8. Shipped(csv) = {csv[i].pair : i \in 1 .. Len(csv)}
  BY <1>2 DEF Shipped
<1> QED BY <1>7, <1>8 DEF Imported, LoadStates, Loading

-----------------------------------------------------------------------------
-----------------------------------------------------------------------------
(***************************************************************************)
(* Types.  Present(db) stays finite, so that its members can be counted,   *)
(* and whatever is to be retired was read from a commit.                   *)
(***************************************************************************)
RetireStages == {"retire", "retiring"}
SyncStages   == {"importing", "promoting", "storing", "backfill"}

\* The worker holds what it downloaded at a commit.
HasCommit(w) ==
    \/ worker[w].at \in SyncStages \cup RetireStages
    \/ worker[w].at = "find" /\ Syncs(runs[worker[w].run].stage)

\* A stage of Part 1 is run for a run that syncs, the gate for one that does not.
StageFits(w) ==
    LET stage == runs[worker[w].run].stage IN
    /\ worker[w].at \in {"started"} \cup SyncStages \cup RetireStages => Syncs(stage)
    /\ worker[w].at = "gate" => ~Syncs(stage)

TypesInv ==
    /\ MaintTypeOK
    /\ IsFiniteSet(Present(db))
    /\ \A w \in Workers : StageFits(w) /\ (HasCommit(w) => worker[w].commit \in Commits)

LEMMA PublishedCsvs ==
    /\ Csvs \subseteq Seq(Row)
    /\ \A c \in Commits : History[c].csv \in Csvs /\ History[c].manifest \subseteq Pairs
    /\ 1 \in Commits
<1> DEFINE Published == [csv : Seq(Row), manifest : SUBSET Pairs]
<1>1. History \in Seq(Published) /\ History # <<>>
  BY MaintenanceAssumption DEF MaintenanceAssumption
<1>2. /\ Len(History) \in Nat /\ Len(History) # 0
      /\ \A c \in 1 .. Len(History) : History[c] \in Published
  <2> HIDE DEF Published
  <2> QED BY <1>1, EmptySeq
<1> QED BY <1>2 DEF Csvs, Commits

LEMMA IdleIsMemoryType == Idle \in Memories /\ NoRun \in Runs
  BY DEF Idle, Memories, StageResults, NoRun, Runs, Statuses, Stages

LEMMA TypesInitially == MaintInit => TypesInv
<1> SUFFICES ASSUME MaintInit PROVE TypesInv
  OBVIOUS
<1>1. Present(Empty) = {} /\ Empty \in Database
  BY DEF Present, Empty, Database
<1>2. MaintTypeOK
  <2>1. crashes \in 0 .. MaxCrashes
    BY MaintenanceAssumption DEF MaintInit, MaintenanceAssumption
  <2> QED BY <1>1, <2>1, PublishedCsvs, IdleIsMemoryType DEF MaintInit, MaintTypeOK
<1>3. \A w \in Workers : worker[w].at = "idle"
  BY DEF MaintInit, Idle
<1> QED BY <1>1, <1>2, <1>3, FS_EmptySet
        DEF MaintInit, TypesInv, HasCommit, StageFits, SyncStages, RetireStages

\* A step of one worker that leaves the stages of the runs alone.
LEMMA OthersFit ==
    ASSUME TypesInv, MaintInv, NEW w \in Workers,
           \A v \in Workers \ {w} : worker'[v] = worker[v],
           \A q \in RunIds : runs'[q].stage = runs[q].stage,
           StageFits(w)', HasCommit(w)' => worker'[w].commit \in Commits
    PROVE  \A v \in Workers : StageFits(v)' /\ (HasCommit(v)' => worker'[v].commit \in Commits)
<1> SUFFICES ASSUME NEW v \in Workers \ {w}
             PROVE  StageFits(v)' /\ (HasCommit(v)' => worker'[v].commit \in Commits)
  OBVIOUS
<1>1. worker'[v] = worker[v] /\ (worker[v].at # "idle" => worker[v].run \in RunIds)
  BY DEF MaintInv, HasRun
<1>2. StageFits(v) /\ (HasCommit(v) => worker[v].commit \in Commits)
  BY DEF TypesInv
<1> QED BY <1>1, <1>2 DEF StageFits, HasCommit, SyncStages, RetireStages

\* What the steps of a worker do to its memory and its run, as far as types go.
StepTypes(w) ==
    /\ worker' \in [Workers -> Memories] /\ runs' \in [RunIds -> Runs]
    /\ \A v \in Workers \ {w} : worker'[v] = worker[v]
    /\ \A q \in RunIds : runs'[q].stage = runs[q].stage
    /\ StageFits(w)' /\ (HasCommit(w)' => worker'[w].commit \in Commits)

LEMMA FieldTypes ==
    ASSUME TypesInv, MaintInv, NEW w \in Workers, worker[w].at # "idle"
    PROVE  /\ worker[w] \in Memories /\ worker[w].run \in RunIds /\ runs[worker[w].run] \in Runs
           /\ StageFits(w) /\ (HasCommit(w) => worker[w].commit \in Commits)
  BY DEF TypesInv, MaintTypeOK, MaintInv, HasRun

\* What a verified Part 1 leaves is a row of the same run.
LEMMA Part1RowIsWritten ==
    ASSUME NEW row \in Runs, NEW mine \in Memories
    PROVE  /\ WithPart1(row, mine) \in Runs /\ WithPart1(row, mine).stage = row.stage
           /\ WithPart1(row, mine).status = row.status
<1> DEFINE kept == ~ mine.unkept
<1>1. kept \in BOOLEAN
  OBVIOUS
<1>2. WithPart1(row, mine) =
          [row EXCEPT !.sync = "SUCCESS", !.find = mine.find, !.archive = mine.archive,
                      !.commit = mine.commit, !.part1 = TRUE, !.kept = kept]
  BY DEF WithPart1
<1> HIDE DEF kept
<1> QED BY <1>1, <1>2 DEF Runs, Memories, StageResults

\* A step of a worker that executes a stage writes its memory and the row of its run.
LEMMA StepIsTyped ==
    ASSUME TypesInv, MaintInv, NEW w \in Workers, worker[w].at # "idle",
           NEW next \in Memories, worker' = [worker EXCEPT ![w] = next],
           next.run = worker[w].run,
           NEW row \in Runs, runs' = [runs EXCEPT ![worker[w].run] = row],
           row.stage = runs[worker[w].run].stage,
           next.at \in {"started"} \cup SyncStages \cup RetireStages => Syncs(row.stage),
           next.at = "gate" => ~Syncs(row.stage),
           next.at \in SyncStages \cup RetireStages => next.commit \in Commits,
           next.at = "find" /\ Syncs(row.stage) => next.commit \in Commits
    PROVE  StepTypes(w)
<1>1. worker \in [Workers -> Memories] /\ runs \in [RunIds -> Runs] /\ worker[w].run \in RunIds
  BY FieldTypes DEF TypesInv, MaintTypeOK
<1>2. worker' \in [Workers -> Memories] /\ runs' \in [RunIds -> Runs]
  BY <1>1
<1>3. worker'[w] = next /\ runs'[worker[w].run] = row
  BY <1>1
<1>4. /\ \A v \in Workers \ {w} : worker'[v] = worker[v]
      /\ \A q \in RunIds : runs'[q].stage = runs[q].stage
  BY <1>1
<1>5. StageFits(w)' /\ (HasCommit(w)' => worker'[w].commit \in Commits)
  BY <1>3 DEF StageFits, HasCommit
<1> QED BY <1>2, <1>4, <1>5 DEF StepTypes

LEMMA DownloadTypes ==
    ASSUME TypesInv, MaintInv, NEW w \in Workers, Download(w)
    PROVE  StepTypes(w)
<1> DEFINE mine == worker[w]
           row  == runs[mine.run]
<1>1. /\ mine \in Memories /\ mine.run \in RunIds /\ row \in Runs /\ mine.at = "started"
      /\ worker \in [Workers -> Memories] /\ runs \in [RunIds -> Runs]
      /\ StageFits(w) /\ (HasCommit(w) => mine.commit \in Commits)
  BY FieldTypes DEF Download, TypesInv, MaintTypeOK
<1>2. PICK base \in Csvs \cup {NoCsv} :
        worker' = [worker EXCEPT ![w].at = "importing", ![w].archive = History[head].csv,
                                 ![w].commit = head, ![w].baseline = base]
  <2>1. mine.baseline \in Csvs \cup {NoCsv}
    BY <1>1 DEF Memories
  <2> QED BY <2>1 DEF Download
<1>head. head \in Commits /\ History[head].csv \in Csvs
  BY PublishedCsvs DEF TypesInv, MaintTypeOK
<1> DEFINE next == [mine EXCEPT !.at = "importing", !.archive = History[head].csv,
                                 !.commit = head, !.baseline = base]
<1>3. worker' = [worker EXCEPT ![w] = next] /\ runs' = [runs EXCEPT ![mine.run] = row]
  BY <1>1, <1>2 DEF Download
<1>4. next \in Memories /\ next.run = mine.run /\ next.at = "importing" /\ next.commit = head
  <2>1. mine \in Memories
    BY <1>1
  <2> HIDE DEF mine
  <2> DEFINE csv == History[head].csv
  <2> HIDE DEF csv
  <2>2. csv \in Csvs /\ head \in Commits
    BY <1>head DEF csv
  <2> QED BY <2>1, <2>2 DEF Memories, Executing, csv
<1> HIDE DEF next
<1> QED BY <1>1, <1>3, <1>4, <1>head, StepIsTyped DEF StageFits, HasCommit, SyncStages, RetireStages

LEMMA ImportTypes ==
    ASSUME TypesInv, MaintInv, NEW w \in Workers, ImportCommits(w)
    PROVE  StepTypes(w)
<1> DEFINE mine == worker[w]
           row  == runs[mine.run]
<1>1. /\ mine \in Memories /\ mine.run \in RunIds /\ row \in Runs /\ mine.at = "importing"
      /\ worker \in [Workers -> Memories] /\ runs \in [RunIds -> Runs]
      /\ StageFits(w) /\ (HasCommit(w) => mine.commit \in Commits)
  BY FieldTypes DEF ImportCommits, TypesInv, MaintTypeOK
<1> DEFINE next == [mine EXCEPT !.at = "promoting"]
<1>3. worker' = [worker EXCEPT ![w] = next] /\ runs' = [runs EXCEPT ![mine.run] = row]
  BY <1>1 DEF ImportCommits
<1>4. next \in Memories /\ next.run = mine.run /\ next.at = "promoting" /\ next.commit = mine.commit
  <2>1. mine \in Memories
    BY <1>1
  <2> HIDE DEF mine
  <2> QED BY <2>1 DEF Memories, Executing, StageResults
<1> HIDE DEF next
<1> QED BY <1>1, <1>3, <1>4, StepIsTyped DEF StageFits, HasCommit, SyncStages, RetireStages

LEMMA KeepTypes ==
    ASSUME TypesInv, MaintInv, NEW w \in Workers, KeepSnapshots(w)
    PROVE  StepTypes(w)
<1> DEFINE mine == worker[w]
           row  == runs[mine.run]
<1>1. /\ mine \in Memories /\ mine.run \in RunIds /\ row \in Runs /\ mine.at = "promoting"
      /\ worker \in [Workers -> Memories] /\ runs \in [RunIds -> Runs]
      /\ StageFits(w) /\ (HasCommit(w) => mine.commit \in Commits)
  BY FieldTypes DEF KeepSnapshots, TypesInv, MaintTypeOK
<1>2. PICK unkept \in BOOLEAN :
        worker' = [worker EXCEPT ![w].at = "storing", ![w].sync = "SUCCESS",
                                 ![w].baseline = NoCsv, ![w].unkept = unkept]
  BY DEF KeepSnapshots
<1> DEFINE next == [mine EXCEPT !.at = "storing", !.sync = "SUCCESS", !.baseline = NoCsv,
                                 !.unkept = unkept]
<1>3. worker' = [worker EXCEPT ![w] = next] /\ runs' = [runs EXCEPT ![mine.run] = row]
  BY <1>1, <1>2 DEF KeepSnapshots
<1>4. next \in Memories /\ next.run = mine.run /\ next.at = "storing" /\ next.commit = mine.commit
  <2>1. mine \in Memories
    BY <1>1
  <2> HIDE DEF mine
  <2> QED BY <2>1 DEF Memories, Executing, StageResults
<1> HIDE DEF next
<1> QED BY <1>1, <1>3, <1>4, StepIsTyped DEF StageFits, HasCommit, SyncStages, RetireStages

LEMMA BackfillTypes ==
    ASSUME TypesInv, MaintInv, NEW w \in Workers, Backfill(w)
    PROVE  StepTypes(w)
<1> DEFINE mine == worker[w]
           row  == runs[mine.run]
<1>1. /\ mine \in Memories /\ mine.run \in RunIds /\ row \in Runs /\ mine.at = "backfill"
      /\ worker \in [Workers -> Memories] /\ runs \in [RunIds -> Runs]
      /\ StageFits(w) /\ (HasCommit(w) => mine.commit \in Commits)
  BY FieldTypes DEF Backfill, TypesInv, MaintTypeOK
<1> DEFINE next == [mine EXCEPT !.at = "find"]
<1>3. worker' = [worker EXCEPT ![w] = next] /\ runs' = [runs EXCEPT ![mine.run] = row]
  BY <1>1 DEF Backfill
<1>4. next \in Memories /\ next.run = mine.run /\ next.at = "find" /\ next.commit = mine.commit
  <2>1. mine \in Memories
    BY <1>1
  <2> HIDE DEF mine
  <2> QED BY <2>1 DEF Memories, Executing, StageResults
<1> HIDE DEF next
<1> QED BY <1>1, <1>3, <1>4, StepIsTyped DEF StageFits, HasCommit, SyncStages, RetireStages

LEMMA RaisesTypes ==
    ASSUME TypesInv, MaintInv, NEW w \in Workers, Raises(w)
    PROVE  StepTypes(w)
<1> DEFINE mine == worker[w]
           row  == runs[mine.run]
<1>1. /\ mine \in Memories /\ mine.run \in RunIds /\ row \in Runs /\ mine.at # "idle"
      /\ worker \in [Workers -> Memories] /\ runs \in [RunIds -> Runs]
      /\ StageFits(w) /\ (HasCommit(w) => mine.commit \in Commits)
  BY FieldTypes DEF Raises, TypesInv, MaintTypeOK
<1> DEFINE next == [mine EXCEPT !.at = "finish", !.ok = FALSE]
<1>3. worker' = [worker EXCEPT ![w] = next] /\ runs' = [runs EXCEPT ![mine.run] = row]
  BY <1>1 DEF Raises
<1>4. next \in Memories /\ next.run = mine.run /\ next.at = "finish"
  <2>1. mine \in Memories
    BY <1>1
  <2> HIDE DEF mine
  <2> QED BY <2>1 DEF Memories, Executing, StageResults
<1> HIDE DEF next
<1> QED BY <1>1, <1>3, <1>4, StepIsTyped DEF StageFits, HasCommit, SyncStages, RetireStages

LEMMA RetireEndsTypes ==
    ASSUME TypesInv, MaintInv, NEW w \in Workers, RetireEnds(w)
    PROVE  StepTypes(w)
<1> DEFINE mine == worker[w]
           row  == runs[mine.run]
<1>1. /\ mine \in Memories /\ mine.run \in RunIds /\ row \in Runs /\ mine.at # "idle"
      /\ worker \in [Workers -> Memories] /\ runs \in [RunIds -> Runs]
      /\ StageFits(w) /\ (HasCommit(w) => mine.commit \in Commits)
  BY FieldTypes DEF RetireEnds, TypesInv, MaintTypeOK
<1> DEFINE next == [mine EXCEPT !.at = "finish", !.limit = 0, !.retired = 0]
<1>3. worker' = [worker EXCEPT ![w] = next] /\ runs' = [runs EXCEPT ![mine.run] = row]
  BY <1>1 DEF RetireEnds
<1>4. next \in Memories /\ next.run = mine.run /\ next.at = "finish"
  <2>1. mine \in Memories
    BY <1>1
  <2> HIDE DEF mine
  <2> QED BY <2>1 DEF Memories, Executing, StageResults
<1> HIDE DEF next
<1> QED BY <1>1, <1>3, <1>4, StepIsTyped DEF StageFits, HasCommit, SyncStages, RetireStages

LEMMA RetireFailsTypes ==
    ASSUME TypesInv, MaintInv, NEW w \in Workers, RetireFails(w)
    PROVE  StepTypes(w)
<1> DEFINE mine == worker[w]
           row  == runs[mine.run]
<1>1. /\ mine \in Memories /\ mine.run \in RunIds /\ row \in Runs /\ mine.at # "idle"
      /\ worker \in [Workers -> Memories] /\ runs \in [RunIds -> Runs]
      /\ StageFits(w) /\ (HasCommit(w) => mine.commit \in Commits)
  BY FieldTypes DEF RetireFails, TypesInv, MaintTypeOK
<1> DEFINE next == [mine EXCEPT !.at = "finish", !.left = {}, !.limit = 0, !.retired = 0]
<1>3. worker' = [worker EXCEPT ![w] = next] /\ runs' = [runs EXCEPT ![mine.run] = row]
  BY <1>1 DEF RetireFails
<1>4. next \in Memories /\ next.run = mine.run /\ next.at = "finish"
  <2>1. mine \in Memories
    BY <1>1
  <2> HIDE DEF mine
  <2> QED BY <2>1 DEF Memories, Executing, StageResults
<1> HIDE DEF next
<1> QED BY <1>1, <1>3, <1>4, StepIsTyped DEF StageFits, HasCommit, SyncStages, RetireStages

LEMMA SyncFailsTypes ==
    ASSUME TypesInv, MaintInv, NEW w \in Workers, SyncFails(w)
    PROVE  StepTypes(w)
<1> DEFINE mine == worker[w]
           row  == runs[mine.run]
<1>1. /\ mine \in Memories /\ mine.run \in RunIds /\ row \in Runs
      /\ mine.at \in {"started", "importing", "promoting"}
      /\ worker \in [Workers -> Memories] /\ runs \in [RunIds -> Runs]
      /\ StageFits(w) /\ (HasCommit(w) => mine.commit \in Commits)
  BY FieldTypes DEF SyncFails, TypesInv, MaintTypeOK
<1>2. PICK find \in StageResults, part1 \in BOOLEAN, archive \in Csvs \cup {NoCsv},
           commit \in Commits \cup {0} :
        /\ runs' = [runs EXCEPT ![mine.run].sync = "FAILED", ![mine.run].find = find,
                                ![mine.run].part1 = part1, ![mine.run].archive = archive,
                                ![mine.run].commit = commit]
        /\ worker' = [worker EXCEPT ![w].at = "finish", ![w].sync = "FAILED",
                                    ![w].find = find, ![w].ok = FALSE]
  <2> DEFINE find == IF mine.find = "absent" THEN "absent" ELSE "SKIPPED"
  <2>1. PICK how \in {"reported", "killed", "unproven"} :
          /\ runs' = [runs EXCEPT
                 ![mine.run].sync = "FAILED", ![mine.run].find = find,
                 ![mine.run].part1 = IF how = "killed" THEN row.part1 ELSE FALSE,
                 ![mine.run].archive = IF how = "reported" THEN mine.archive ELSE row.archive,
                 ![mine.run].commit = IF how = "reported" THEN mine.commit ELSE row.commit]
          /\ worker' = [worker EXCEPT ![w].at = "finish", ![w].sync = "FAILED",
                                      ![w].find = find, ![w].ok = FALSE]
    BY Zenon DEF SyncFails
  <2> DEFINE part1 == IF how = "killed" THEN row.part1 ELSE FALSE
             archive == IF how = "reported" THEN mine.archive ELSE row.archive
             commit == IF how = "reported" THEN mine.commit ELSE row.commit
  <2>2. /\ find \in StageResults /\ part1 \in BOOLEAN /\ archive \in Csvs \cup {NoCsv}
        /\ commit \in Commits \cup {0}
    BY <1>1 DEF Memories, Runs, StageResults
  <2> QED BY <2>1, <2>2
<1> DEFINE next == [mine EXCEPT !.at = "finish", !.sync = "FAILED", !.find = find, !.ok = FALSE]
           after == [row EXCEPT !.sync = "FAILED", !.find = find, !.part1 = part1,
                                !.archive = archive, !.commit = commit]
<1>3. worker' = [worker EXCEPT ![w] = next] /\ runs' = [runs EXCEPT ![mine.run] = after]
  BY <1>1, <1>2
<1>4. next \in Memories /\ next.run = mine.run /\ next.at = "finish"
  <2>1. mine \in Memories
    BY <1>1
  <2> HIDE DEF mine
  <2> QED BY <2>1 DEF Memories, Executing, StageResults
<1>5. after \in Runs /\ after.stage = row.stage
  <2>1. row \in Runs /\ mine \in Memories
    BY <1>1
  <2> HIDE DEF mine, row
  <2> QED BY <2>1 DEF Runs, Memories, StageResults
<1> HIDE DEF next, after
<1> QED BY <1>1, <1>3, <1>4, <1>5, StepIsTyped
        DEF StageFits, HasCommit, SyncStages, RetireStages

LEMMA SyncSucceedsTypes ==
    ASSUME TypesInv, MaintInv, NEW w \in Workers, SyncSucceeds(w)
    PROVE  StepTypes(w)
<1> DEFINE mine == worker[w]
           row  == runs[mine.run]
<1>1. /\ mine \in Memories /\ mine.run \in RunIds /\ row \in Runs /\ mine.at = "storing"
      /\ worker \in [Workers -> Memories] /\ runs \in [RunIds -> Runs]
      /\ StageFits(w) /\ (HasCommit(w) => mine.commit \in Commits)
  BY FieldTypes DEF SyncSucceeds, TypesInv, MaintTypeOK
<1>2. PICK to \in {"finish", "backfill", "find"} :
        /\ worker' = [worker EXCEPT ![w].at = to]
        /\ runs' = [runs EXCEPT ![mine.run] = WithPart1(row, mine)]
  BY <1>1 DEF SyncSucceeds
<1> DEFINE next == [mine EXCEPT !.at = to]
           after == WithPart1(row, mine)
<1>3. worker' = [worker EXCEPT ![w] = next] /\ runs' = [runs EXCEPT ![mine.run] = after]
  BY <1>1, <1>2
<1>4. next \in Memories /\ next.run = mine.run /\ next.at = to /\ next.commit = mine.commit
  <2>1. mine \in Memories
    BY <1>1
  <2> HIDE DEF mine
  <2> QED BY <2>1 DEF Memories, Executing, StageResults
<1>5. after \in Runs /\ after.stage = row.stage
  BY <1>1, <1>2, Part1RowIsWritten
<1> HIDE DEF next, after
<1> QED BY <1>1, <1>3, <1>4, <1>5, StepIsTyped
        DEF StageFits, HasCommit, SyncStages, RetireStages

LEMMA GatePassesTypes ==
    ASSUME TypesInv, MaintInv, NEW w \in Workers, GatePasses(w)
    PROVE  StepTypes(w)
<1> DEFINE mine == worker[w]
           row  == runs[mine.run]
<1>1. /\ mine \in Memories /\ mine.run \in RunIds /\ row \in Runs /\ mine.at = "gate"
      /\ worker \in [Workers -> Memories] /\ runs \in [RunIds -> Runs]
      /\ StageFits(w) /\ (HasCommit(w) => mine.commit \in Commits)
  BY FieldTypes DEF GatePasses, TypesInv, MaintTypeOK
<1>2. PICK csv \in Csvs \cup {NoCsv} :
        /\ runs' = [runs EXCEPT ![mine.run].sync = "SUCCESS", ![mine.run].find = "PENDING",
                                ![mine.run].archive = csv, ![mine.run].part1 = TRUE]
        /\ worker' = [worker EXCEPT ![w].at = "find", ![w].sync = "SUCCESS",
                                    ![w].archive = csv]
  <2>1. \A r \in GateRuns : runs[r].archive \in Csvs \cup {NoCsv}
    BY <1>1 DEF GateRuns, SyncAttempts, Runs
  <2> QED BY <2>1 DEF GatePasses
<1> DEFINE next == [mine EXCEPT !.at = "find", !.sync = "SUCCESS", !.archive = csv]
           after == [row EXCEPT !.sync = "SUCCESS", !.find = "PENDING", !.archive = csv,
                                !.part1 = TRUE]
<1>3. worker' = [worker EXCEPT ![w] = next] /\ runs' = [runs EXCEPT ![mine.run] = after]
  BY <1>1, <1>2
<1>4. next \in Memories /\ next.run = mine.run /\ next.at = "find"
  <2>1. mine \in Memories
    BY <1>1
  <2> HIDE DEF mine
  <2> QED BY <2>1 DEF Memories, Executing, StageResults
<1>5. after \in Runs /\ after.stage = row.stage
  <2>1. row \in Runs /\ mine \in Memories
    BY <1>1
  <2> HIDE DEF mine, row
  <2> QED BY <2>1 DEF Runs, Memories, StageResults
<1> HIDE DEF next, after
<1> QED BY <1>1, <1>3, <1>4, <1>5, StepIsTyped
        DEF StageFits, HasCommit, SyncStages, RetireStages

LEMMA GateBlocksTypes ==
    ASSUME TypesInv, MaintInv, NEW w \in Workers, GateBlocks(w)
    PROVE  StepTypes(w)
<1> DEFINE mine == worker[w]
           row  == runs[mine.run]
<1>1. /\ mine \in Memories /\ mine.run \in RunIds /\ row \in Runs /\ mine.at = "gate"
      /\ worker \in [Workers -> Memories] /\ runs \in [RunIds -> Runs]
      /\ StageFits(w) /\ (HasCommit(w) => mine.commit \in Commits)
  BY FieldTypes DEF GateBlocks, TypesInv, MaintTypeOK
<1>2. PICK inherited \in StageResults :
        /\ runs' = [runs EXCEPT ![mine.run].sync = inherited, ![mine.run].find = "BLOCKED"]
        /\ worker' = [worker EXCEPT ![w].at = "finish", ![w].sync = inherited,
                                    ![w].find = "BLOCKED", ![w].ok = FALSE]
  BY DEF GateBlocks, StageResults
<1> DEFINE next == [mine EXCEPT !.at = "finish", !.sync = inherited, !.find = "BLOCKED",
                                 !.ok = FALSE]
           after == [row EXCEPT !.sync = inherited, !.find = "BLOCKED"]
<1>3. worker' = [worker EXCEPT ![w] = next] /\ runs' = [runs EXCEPT ![mine.run] = after]
  BY <1>1, <1>2
<1>4. next \in Memories /\ next.run = mine.run /\ next.at = "finish"
  <2>1. /\ mine \in Memories /\ "finish" \in Executing
        /\ inherited \in StageResults /\ "BLOCKED" \in StageResults
    BY <1>1 DEF Executing, StageResults
  <2> HIDE DEF mine
  <2> QED BY <2>1 DEF Memories
<1>5. after \in Runs /\ after.stage = row.stage
  <2>1. row \in Runs /\ mine \in Memories
    BY <1>1
  <2> HIDE DEF mine, row
  <2> QED BY <2>1 DEF Runs, Memories, StageResults
<1> HIDE DEF next, after
<1> QED BY <1>1, <1>3, <1>4, <1>5, StepIsTyped
        DEF StageFits, HasCommit, SyncStages, RetireStages

LEMMA ReportTypes ==
    ASSUME TypesInv, MaintInv, NEW w \in Workers, Report(w)
    PROVE  StepTypes(w)
<1> DEFINE mine == worker[w]
           row  == runs[mine.run]
<1>1. /\ mine \in Memories /\ mine.run \in RunIds /\ row \in Runs /\ mine.at = "find"
      /\ worker \in [Workers -> Memories] /\ runs \in [RunIds -> Runs]
      /\ StageFits(w) /\ (HasCommit(w) => mine.commit \in Commits)
  BY FieldTypes DEF Report, TypesInv, MaintTypeOK
<1>2. PICK done \in BOOLEAN, find \in StageResults, to \in {"retire", "finish"} :
        /\ runs' = [runs EXCEPT ![mine.run].sync = mine.sync, ![mine.run].find = find,
                                ![mine.run].part2 = done]
        /\ worker' = [worker EXCEPT ![w].at = to, ![w].find = find, ![w].ok = done]
        /\ to = "retire" => row.stage = "full"
  BY DEF Report, StageResults
<1> DEFINE next == [mine EXCEPT !.at = to, !.find = find, !.ok = done]
           after == [row EXCEPT !.sync = mine.sync, !.find = find, !.part2 = done]
<1>3. worker' = [worker EXCEPT ![w] = next] /\ runs' = [runs EXCEPT ![mine.run] = after]
  BY <1>1, <1>2
<1>4. next \in Memories /\ next.run = mine.run /\ next.at = to /\ next.commit = mine.commit
  <2>1. mine \in Memories /\ to \in Executing /\ find \in StageResults /\ done \in BOOLEAN
    BY <1>1 DEF Executing
  <2> HIDE DEF mine
  <2> QED BY <2>1 DEF Memories
<1>5. after \in Runs /\ after.stage = row.stage
  <2>1. row \in Runs /\ mine \in Memories
    BY <1>1
  <2> HIDE DEF mine, row
  <2> QED BY <2>1 DEF Runs, Memories, StageResults
<1>6. to = "retire" => Syncs(row.stage)
  BY <1>2 DEF Syncs
<1> HIDE DEF next, after
<1> QED BY <1>1, <1>3, <1>4, <1>5, <1>6, StepIsTyped
        DEF StageFits, HasCommit, SyncStages, RetireStages

LEMMA LimitIsNatural ==
    ASSUME TypesInv PROVE RetireLimit(Percent, db) \in Nat
<1>1. Cardinality(Present(db)) \in Nat /\ Percent \in Nat
  BY MaintenanceAssumption, FS_CardinalityType DEF TypesInv, MaintenanceAssumption
<1>2. Cardinality(Present(db)) * Percent \in Nat
  BY <1>1
<1> QED BY <1>2 DEF RetireLimit

LEMMA RetireBeginsTypes ==
    ASSUME TypesInv, MaintInv, NEW w \in Workers, RetireBegins(w)
    PROVE  StepTypes(w)
<1> DEFINE mine == worker[w]
           row  == runs[mine.run]
<1>1. /\ mine \in Memories /\ mine.run \in RunIds /\ row \in Runs /\ mine.at = "retire"
      /\ worker \in [Workers -> Memories] /\ runs \in [RunIds -> Runs]
      /\ StageFits(w) /\ (HasCommit(w) => mine.commit \in Commits)
  BY FieldTypes DEF RetireBegins, TypesInv, MaintTypeOK
<1> DEFINE limit == RetireLimit(Percent, db)
           next == [mine EXCEPT !.at = "retiring", !.left = Manifest(w), !.limit = limit]
<1>2. Syncs(row.stage) /\ mine.commit \in Commits
  BY <1>1 DEF StageFits, HasCommit, RetireStages
<1>3. worker' = [worker EXCEPT ![w] = next] /\ runs' = [runs EXCEPT ![mine.run] = row]
  BY <1>1 DEF RetireBegins
<1>4. limit \in Nat
  BY LimitIsNatural
<1>5. next \in Memories /\ next.run = mine.run /\ next.at = "retiring" /\ next.commit = mine.commit
  <2>1. Manifest(w) \in SUBSET Pairs
    BY <1>2, PublishedCsvs DEF Manifest
  <2>2. mine \in Memories
    BY <1>1
  <2> DEFINE left == Manifest(w)
  <2> HIDE DEF limit, left, mine
  <2> QED BY <1>4, <2>1, <2>2 DEF Memories, Executing, left
<1> HIDE DEF next
<1> QED BY <1>1, <1>2, <1>3, <1>5, StepIsTyped DEF SyncStages, RetireStages

LEMMA PlannedIsFinite ==
    ASSUME NEW manifest, NEW csv, NEW records, manifest \subseteq Pairs,
           IsFiniteSet(Present(records))
    PROVE  LET gone == PlanRetirements(manifest, csv, records) IN
           /\ gone \subseteq Present(records) /\ gone \cap Shipped(csv) = {}
           /\ \A p \in gone : ~records[p].touched
           /\ IsFiniteSet(gone)
<1> DEFINE gone == PlanRetirements(manifest, csv, records)
<1>1. /\ gone \subseteq Present(records) /\ gone \cap Shipped(csv) = {}
      /\ \A p \in gone : ~records[p].touched
  <2> SUFFICES ASSUME NEW p \in gone
               PROVE  p \in Present(records) /\ p \notin Shipped(csv) /\ ~records[p].touched
    OBVIOUS
  <2>1. PlannedAction(p, csv, records) = "retire"
    BY DEF PlanRetirements
  <2>2. p \notin Shipped(csv)
    BY <2>1 DEF PlannedAction
  <2>3. p \in Present(records)
    BY <2>1, <2>2 DEF PlannedAction
  <2>4. ~records[p].touched
    <3> DEFINE touched == records[p].touched
    <3>1. PlannedAction(p, csv, records) = IF ~touched THEN "retire" ELSE "flag"
      BY <2>2, <2>3 DEF PlannedAction, IsRetirable
    <3> HIDE DEF touched
    <3>2. CASE touched
      BY <2>1, <3>1, <3>2
    <3> QED BY <3>2 DEF touched
  <2> QED BY <2>2, <2>3, <2>4
<1>2. IsFiniteSet(gone)
  BY <1>1, FS_Subset
<1> QED BY <1>1, <1>2

LEMMA RetireBatchTypes ==
    ASSUME TypesInv, MaintInv, NEW w \in Workers, RetireBatch(w)
    PROVE  StepTypes(w)
<1> DEFINE mine == worker[w]
           row  == runs[mine.run]
<1>1. /\ mine \in Memories /\ mine.run \in RunIds /\ row \in Runs /\ mine.at = "retiring"
      /\ worker \in [Workers -> Memories] /\ runs \in [RunIds -> Runs]
      /\ StageFits(w) /\ (HasCommit(w) => mine.commit \in Commits)
  BY FieldTypes DEF RetireBatch, TypesInv, MaintTypeOK
<1>2. PICK batch \in SUBSET mine.left, total \in Nat :
        worker' = [worker EXCEPT ![w].left = mine.left \ batch, ![w].retired = total]
  <2>1. PICK batch \in SUBSET mine.left \ {{}} :
          worker' = [worker EXCEPT ![w].left = mine.left \ batch, ![w].retired =
              mine.retired + Cardinality(PlanRetirements(batch, mine.archive, db))]
    BY DEF RetireBatch
  <2>2. mine.retired + Cardinality(PlanRetirements(batch, mine.archive, db)) \in Nat
    <3>1. IsFiniteSet(PlanRetirements(batch, mine.archive, db)) /\ mine.retired \in Nat
      BY <1>1, PlannedIsFinite DEF TypesInv, Memories
    <3> QED BY <3>1, FS_CardinalityType
  <2> QED BY <2>1, <2>2
<1> DEFINE left == mine.left \ batch
           next == [mine EXCEPT !.left = left, !.retired = total]
<1>3. worker' = [worker EXCEPT ![w] = next] /\ runs' = [runs EXCEPT ![mine.run] = row]
  BY <1>1, <1>2 DEF RetireBatch
<1>4. next \in Memories /\ next.run = mine.run /\ next.at = "retiring" /\ next.commit = mine.commit
  <2>1. left \in SUBSET Pairs
    BY <1>1 DEF Memories
  <2>2. mine \in Memories /\ mine.at = "retiring"
    BY <1>1
  <2> HIDE DEF left, mine
  <2> QED BY <2>1, <2>2 DEF Memories
<1> HIDE DEF next
<1> QED BY <1>1, <1>3, <1>4, StepIsTyped DEF StageFits, HasCommit, SyncStages, RetireStages

-----------------------------------------------------------------------------
\* The other steps of a worker: those that take, lose or give up the lock.
LEMMA StagesAreTyped ==
    ASSUME TypesInv, MaintInv, NEW w \in Workers, StageStep(w)
    PROVE  StepTypes(w)
  BY DownloadTypes, ImportTypes, SyncFailsTypes, KeepTypes, SyncSucceedsTypes, BackfillTypes,
     GatePassesTypes, GateBlocksTypes, ReportTypes, RetireBeginsTypes, RetireBatchTypes,
     RetireEndsTypes, RetireFailsTypes, RaisesTypes DEF StageStep

LEMMA ElectedIsTyped ==
    ASSUME NEW r \in RunIds
    PROVE  LET next == [Idle EXCEPT !.at = "elected", !.run = r] IN
           next \in Memories /\ next.at = "elected"
  BY DEF Idle, Memories, StageResults

LEMMA PollTypes ==
    ASSUME TypesInv, MaintInv, NEW w \in Workers, NEW r \in RunIds, Poll(w, r)
    PROVE  StepTypes(w)
<1> DEFINE next == [Idle EXCEPT !.at = "elected", !.run = r]
           row == [runs[r] EXCEPT !.status = "queued"]
<1>1. worker \in [Workers -> Memories] /\ runs \in [RunIds -> Runs]
  BY DEF TypesInv, MaintTypeOK
<1>2. worker' = [worker EXCEPT ![w] = next] /\ runs' = [runs EXCEPT ![r] = row]
  BY <1>1 DEF Poll
<1>3. row \in Runs /\ row.stage = runs[r].stage
  <2> DEFINE mine == runs[r]
  <2>1. mine \in Runs
    BY <1>1
  <2> HIDE DEF mine
  <2> QED BY <2>1 DEF Runs, Statuses, mine
<1>4. next \in Memories /\ next.at = "elected"
  BY ElectedIsTyped
<1> HIDE DEF next, row
<1>5. worker' \in [Workers -> Memories] /\ runs' \in [RunIds -> Runs] /\ worker'[w].at = "elected"
  BY <1>1, <1>2, <1>3, <1>4
<1>6. /\ \A v \in Workers \ {w} : worker'[v] = worker[v]
      /\ \A q \in RunIds : runs'[q].stage = runs[q].stage
  BY <1>1, <1>2, <1>3
<1> QED BY <1>5, <1>6 DEF StepTypes, StageFits, HasCommit, SyncStages, RetireStages

LEMMA StartTypes ==
    ASSUME TypesInv, MaintInv, NEW w \in Workers, Start(w)
    PROVE  StepTypes(w)
<1> DEFINE mine == worker[w]
           r    == mine.run
           row  == runs[r]
           base == IF Syncs(row.stage) THEN Baseline ELSE NoCsv
           at   == IF Syncs(row.stage) THEN "started" ELSE "gate"
           next == [mine EXCEPT !.at = at, !.sync = Initially(row.stage).sync,
                                !.find = Initially(row.stage).find, !.baseline = base]
           after == [row EXCEPT !.status = "running"]
<1>1. /\ mine \in Memories /\ r \in RunIds /\ row \in Runs /\ mine.at = "elected"
      /\ worker \in [Workers -> Memories] /\ runs \in [RunIds -> Runs]
  BY FieldTypes DEF Start, TypesInv, MaintTypeOK
<1>2. runs' = [runs EXCEPT ![r] = after] /\ worker' = [worker EXCEPT ![w] = next]
  BY <1>1 DEF Start
<1>3. base \in Csvs \cup {NoCsv}
  <2>1. \A q \in RunIds : runs[q].archive \in Csvs \cup {NoCsv}
    BY <1>1 DEF Runs
  <2>2. NewestVerified \subseteq RunIds
    BY DEF NewestVerified
  <2> QED BY <2>1, <2>2 DEF Baseline
<1>4. next \in Memories /\ next.at = at /\ next.run = mine.run
  <2> DEFINE sync == Initially(row.stage).sync
             find == Initially(row.stage).find
  <2>1. sync \in StageResults /\ find \in StageResults /\ at \in Executing
    BY DEF Initially, StageResults, Executing
  <2>2. mine \in Memories
    BY <1>1
  <2> HIDE DEF sync, find, at, base, mine
  <2> QED BY <1>3, <2>1, <2>2 DEF Memories, sync, find
<1>5. after \in Runs /\ after.stage = row.stage
  <2>1. row \in Runs
    BY <1>1
  <2> HIDE DEF row
  <2> QED BY <2>1 DEF Runs, Statuses
<1> HIDE DEF next, after
<1> QED BY <1>1, <1>2, <1>4, <1>5, StepIsTyped DEF SyncStages, RetireStages

LEMMA LoseElectionTypes ==
    ASSUME TypesInv, MaintInv, NEW w \in Workers, LoseElection(w)
    PROVE  StepTypes(w)
<1>1. worker' = [worker EXCEPT ![w] = Idle] /\ UNCHANGED runs
      /\ worker \in [Workers -> Memories] /\ runs \in [RunIds -> Runs]
  BY DEF LoseElection, TypesInv, MaintTypeOK
<1>2. worker' \in [Workers -> Memories] /\ worker'[w].at = "idle"
  BY <1>1, IdleIsMemoryType, IdleIsMemory
<1> QED BY <1>1, <1>2 DEF StepTypes, StageFits, HasCommit, SyncStages, RetireStages

LEMMA FinishTypes ==
    ASSUME TypesInv, MaintInv, NEW w \in Workers, Finish(w)
    PROVE  StepTypes(w)
<1> DEFINE mine == worker[w]
           r    == mine.run
           row  == runs[r]
           kept == IF mine.sync = "SUCCESS" /\ Syncs(row.stage) THEN WithPart1(row, mine) ELSE row
           outcome == IF mine.ok THEN "done" ELSE "failed"
           after == [kept EXCEPT !.status = outcome, !.sync = mine.sync, !.find = mine.find]
<1>1. /\ mine \in Memories /\ r \in RunIds /\ row \in Runs
      /\ worker \in [Workers -> Memories] /\ runs \in [RunIds -> Runs]
  BY FieldTypes DEF Finish, TypesInv, MaintTypeOK
<1>2. runs' = [runs EXCEPT ![r] = after] /\ worker' = [worker EXCEPT ![w] = Idle]
  BY <1>1 DEF Finish
<1>3. kept \in Runs /\ kept.stage = row.stage
  BY <1>1, Part1RowIsWritten
<1>4. after \in Runs /\ after.stage = row.stage
  <2>1. mine \in Memories /\ outcome \in Statuses /\ kept \in Runs /\ kept.stage = row.stage
    BY <1>1, <1>3 DEF Statuses
  <2> HIDE DEF mine, outcome, kept
  <2> QED BY <2>1 DEF Runs, Memories
<1> HIDE DEF after
<1>5. worker' \in [Workers -> Memories] /\ worker'[w].at = "idle" /\ runs' \in [RunIds -> Runs]
  BY <1>1, <1>2, <1>4, IdleIsMemoryType, IdleIsMemory
<1>6. /\ \A v \in Workers \ {w} : worker'[v] = worker[v]
      /\ \A q \in RunIds : runs'[q].stage = runs[q].stage
  BY <1>1, <1>2, <1>4
<1> QED BY <1>5, <1>6 DEF StepTypes, StageFits, HasCommit, SyncStages, RetireStages

-----------------------------------------------------------------------------
(***************************************************************************)
(* What the steps do to the records.                                       *)
(***************************************************************************)
LEMMA ImportLoads ==
    ASSUME TypesInv, NEW w \in Workers, ImportCommits(w)
    PROVE  /\ db' \in Database /\ NoneLost(db, db') /\ archived' = archived
           /\ imported' = worker[w].archive /\ imported' \in Csvs
           /\ Shipped(imported') \subseteq Present(db')
<1> DEFINE csv == worker[w].archive
<1>1. /\ ~Refused(db, csv) /\ db' = Imported(db, csv) /\ imported' = csv /\ archived' = archived
      /\ csv \in Csvs \cup {NoCsv} /\ db \in Database /\ IsFiniteSet(Present(db))
  BY DEF ImportCommits, TypesInv, MaintTypeOK, Memories
<1>2. csv # NoCsv
  BY <1>1 DEF Refused, ValidCsv, NoCsv
<1>3. csv \in Csvs /\ csv \in Seq(Row)
  BY <1>1, <1>2, PublishedCsvs
<1> HIDE DEF csv
<1>4. /\ Imported(db, csv) \in Database /\ Shipped(csv) \subseteq Present(Imported(db, csv))
      /\ NoneLost(db, Imported(db, csv))
  BY <1>1, <1>3, ImportKeeps
<1> QED BY <1>1, <1>3, <1>4 DEF csv

\* Deleting records of which nobody has touched any.
LEMMA DeletionKeeps ==
    ASSUME NEW before \in Database, IsFiniteSet(Present(before)),
           NEW gone, gone \subseteq Present(before), IsFiniteSet(gone),
           \A p \in gone : ~before[p].touched
    PROVE  LET after == Deleted(before, gone) IN
           /\ after \in Database /\ Present(after) = Present(before) \ gone
           /\ IsFiniteSet(Present(after))
           /\ Cardinality(Touched(before)) <= Cardinality(Touched(after))
           /\ Cardinality(Present(before)) = Cardinality(Present(after)) + Cardinality(gone)
           /\ Cardinality(gone) \in Nat
<1> DEFINE after == Deleted(before, gone)
<1>1. after \in Database /\ \A p \in Pairs : after[p] = IF p \in gone THEN NoRecord ELSE before[p]
  BY DEF Deleted, Database
<1> HIDE DEF after
<1>2. Present(after) = Present(before) \ gone
  BY <1>1 DEF Present
<1>3. Touched(before) \subseteq Touched(after)
  BY <1>1, <1>2 DEF Touched, Present
<1>4. IsFiniteSet(Present(after)) /\ Cardinality(gone) \in Nat
  BY <1>2, FS_Difference, FS_CardinalityType
<1>5. Cardinality(Touched(before)) <= Cardinality(Touched(after))
  BY <1>1, <1>3, <1>4, FS_Subset, PresentIsFinite
<1>6. Cardinality(Present(before)) = Cardinality(Present(after)) + Cardinality(gone)
  <2>1. Present(before) \cap gone = gone
    OBVIOUS
  <2>2. Cardinality(Present(after)) = Cardinality(Present(before)) - Cardinality(gone)
    BY <1>2, <2>1, FS_Difference
  <2> QED BY <2>2, <1>4, FS_CardinalityType
<1> QED BY <1>1, <1>2, <1>4, <1>5, <1>6 DEF after

LEMMA BatchRetires ==
    ASSUME TypesInv, NEW w \in Workers, RetireBatch(w)
    PROVE  /\ db' \in Database /\ IsFiniteSet(Present(db')) /\ archived' \in Nat
           /\ Present(db) \cap Shipped(worker[w].archive) \subseteq Present(db')
           /\ Cardinality(Touched(db)) <= Cardinality(Touched(db'))
           /\ Cardinality(Present(db)) <= Cardinality(Present(db')) + (archived' - archived)
<1> DEFINE csv == worker[w].archive
<1>1. PICK batch \in SUBSET worker[w].left \ {{}} :
        LET gone == PlanRetirements(batch, csv, db)
        IN  db' = Deleted(db, gone) /\ archived' = archived + Cardinality(gone)
  BY DEF RetireBatch
<1> DEFINE gone == PlanRetirements(batch, csv, db)
<1>2. batch \subseteq Pairs /\ db \in Database /\ IsFiniteSet(Present(db)) /\ archived \in Nat
  BY DEF TypesInv, MaintTypeOK, Memories
<1>3. /\ gone \subseteq Present(db) /\ gone \cap Shipped(csv) = {}
      /\ \A p \in gone : ~db[p].touched
      /\ IsFiniteSet(gone)
  BY <1>2, PlannedIsFinite
<1>4. db' = Deleted(db, gone) /\ archived' = archived + Cardinality(gone)
  BY <1>1
<1> HIDE DEF gone
<1>5. /\ db' \in Database /\ Present(db') = Present(db) \ gone
      /\ IsFiniteSet(Present(db')) /\ Cardinality(Touched(db)) <= Cardinality(Touched(db'))
      /\ Cardinality(Present(db)) = Cardinality(Present(db')) + Cardinality(gone)
      /\ Cardinality(gone) \in Nat
  BY <1>2, <1>3, <1>4, DeletionKeeps, Zenon
<1>6. Cardinality(Present(db)) \in Nat /\ Cardinality(Present(db')) \in Nat
  BY <1>2, <1>5, FS_CardinalityType
<1>7. archived' \in Nat /\ archived' - archived = Cardinality(gone)
  BY <1>2, <1>4, <1>5
<1>8. Cardinality(Present(db)) <= Cardinality(Present(db')) + (archived' - archived)
  <2> DEFINE n == Cardinality(Present(db))
  <2> HIDE DEF n
  <2>1. n <= n
    BY <1>6 DEF n
  <2>2. n = Cardinality(Present(db')) + (archived' - archived)
    BY <1>5, <1>7, Zenon DEF n
  <2> QED BY <2>1, <2>2, Zenon DEF n
<1> QED BY <1>3, <1>5, <1>7, <1>8

LEMMA TouchMarks ==
    ASSUME TypesInv, NEW p, Touch(p)
    PROVE  /\ db' \in Database /\ NoneLost(db, db') /\ archived' = archived
           /\ Present(db') = Present(db)
<1>1. /\ p \in Present(db) /\ db' = [db EXCEPT ![p] = [@ EXCEPT !.touched = TRUE]]
      /\ archived' = archived /\ db \in Database /\ IsFiniteSet(Present(db))
  BY DEF Touch, TypesInv, MaintTypeOK
<1>2. p \in Pairs /\ db[p] \in Record
  BY <1>1 DEF Present, Database
<1>3. [db[p] EXCEPT !.touched = TRUE] \in Record /\ [db[p] EXCEPT !.touched = TRUE].touched
  BY <1>2 DEF Record
<1>4. /\ db'[p] \in Record /\ db'[p].touched /\ \A q \in Pairs \ {p} : db'[q] = db[q]
      /\ db' \in Database
  BY <1>1, <1>2, <1>3 DEF Database
<1>5. NoneLost(db, db') /\ Present(db') = Present(db) \cup {p}
  BY <1>1, <1>2, <1>4, RecordsAreRecords, AddedIsKept
<1> QED BY <1>1, <1>4, <1>5

\* Only these touch the records.
LEMMA RecordSteps ==
    ASSUME [MaintNext]_maintVars
    PROVE  \/ \E w \in Workers : ImportCommits(w) \/ RetireBatch(w)
           \/ \E p \in Wanted : Touch(p)
           \/ UNCHANGED <<db, imported, archived>>
<1>1. ASSUME NEW w \in Workers, WorkerStep(w), ~ImportCommits(w), ~RetireBatch(w)
      PROVE  UNCHANGED <<db, imported, archived>>
  BY <1>1 DEF WorkerStep, Poll, Start, LoseElection, Download, SyncFails, KeepSnapshots,
              SyncSucceeds, Backfill, GatePasses, GateBlocks, Report, RetireBegins, RetireEnds,
              RetireFails, Raises, Finish
<1>2. CASE Request
  BY <1>2 DEF Request, Queue, QueueAndRun
<1>3. CASE UNCHANGED maintVars \/ Redeploy \/ Publish \/ \E w \in Workers : Crash(w)
  BY <1>3 DEF maintVars, Redeploy, Publish, Crash
<1> QED BY <1>1, <1>2, <1>3 DEF MaintNext

\* The records keep their type, and none of them is lost.
LEMMA RecordsStay ==
    ASSUME TypesInv, [MaintNext]_maintVars
    PROVE  /\ db' \in Database /\ IsFiniteSet(Present(db')) /\ archived' \in Nat
           /\ imported' \in Csvs \cup {NoCsv}
           /\ Cardinality(Touched(db)) <= Cardinality(Touched(db'))
           /\ Cardinality(Present(db)) <= Cardinality(Present(db')) + (archived' - archived)
<1>1. /\ db \in Database /\ IsFiniteSet(Present(db)) /\ archived \in Nat
      /\ imported \in Csvs \cup {NoCsv}
      /\ Cardinality(Present(db)) \in Nat /\ Cardinality(Touched(db)) \in Nat
  BY PresentIsFinite DEF TypesInv, MaintTypeOK
<1>2. ASSUME db' \in Database, NoneLost(db, db'), archived' = archived
      PROVE  /\ IsFiniteSet(Present(db')) /\ archived' \in Nat
             /\ Cardinality(Touched(db)) <= Cardinality(Touched(db'))
             /\ Cardinality(Present(db)) <= Cardinality(Present(db')) + (archived' - archived)
  <2>1. Cardinality(Present(db')) \in Nat /\ archived' - archived = 0
    BY <1>1, <1>2, FS_CardinalityType DEF NoneLost
  <2>2. Cardinality(Present(db)) <= Cardinality(Present(db'))
    BY <1>2 DEF NoneLost
  <2> QED BY <1>1, <1>2, <2>1, <2>2 DEF NoneLost
<1>3. CASE \E w \in Workers : ImportCommits(w)
  BY <1>2, <1>3, ImportLoads
<1>4. CASE \E w \in Workers : RetireBatch(w)
  BY <1>1, <1>4, BatchRetires DEF RetireBatch
<1>5. CASE \E p \in Wanted : Touch(p)
  BY <1>1, <1>2, <1>5, TouchMarks DEF Touch
<1>6. CASE UNCHANGED <<db, imported, archived>>
  <2>1. NoneLost(db, db)
    BY <1>1 DEF NoneLost
  <2>2. NoneLost(db, db')
    BY <1>6, <2>1
  <2> QED BY <1>1, <1>2, <1>6, <2>2
<1> QED BY <1>3, <1>4, <1>5, <1>6, RecordSteps

-----------------------------------------------------------------------------
(***************************************************************************)
(* The snapshots, on the disk and in the database, and the rest.           *)
(***************************************************************************)
LEMMA BaselineIsACsv ==
    ASSUME TypesInv PROVE Baseline \in Csvs \cup {NoCsv} /\ Restored \subseteq Csvs
<1>1. \A q \in RunIds : runs[q].archive \in Csvs \cup {NoCsv}
  BY DEF TypesInv, MaintTypeOK, Runs
<1>2. NewestVerified \subseteq RunIds
  BY DEF NewestVerified
<1>3. ToSet(stored) \subseteq Csvs
  BY DEF TypesInv, MaintTypeOK, ToSet
<1> QED BY <1>1, <1>2, <1>3 DEF Baseline, Restored

LEMMA DiskIsTyped ==
    ASSUME TypesInv, [MaintNext]_maintVars
    PROVE  disk' \subseteq Csvs
<1>1. disk \subseteq Csvs /\ ToSet(stored) \subseteq Csvs /\ head \in Commits
  BY DEF TypesInv, MaintTypeOK, ToSet
<1>2. ASSUME NEW w \in Workers, Start(w) PROVE disk' \subseteq Csvs
  BY <1>1, <1>2, BaselineIsACsv DEF Start
<1>3. ASSUME NEW w \in Workers, Download(w) PROVE disk' \subseteq Csvs
  <2>1. worker[w].baseline \in Csvs \cup {NoCsv} /\ History[head].csv \in Csvs
    BY <1>1, PublishedCsvs DEF TypesInv, MaintTypeOK, Memories
  <2> QED BY <1>1, <1>3, <2>1 DEF Download, IsFound
<1>4. ASSUME NEW w \in Workers, GatePasses(w) PROVE disk' \subseteq Csvs
  BY <1>1, <1>4 DEF GatePasses, Readable
<1>5. ASSUME NEW w \in Workers, WorkerStep(w), ~Start(w), ~Download(w), ~GatePasses(w)
      PROVE  UNCHANGED disk
  BY <1>5 DEF WorkerStep, Poll, LoseElection, ImportCommits, SyncFails, KeepSnapshots,
              SyncSucceeds, Backfill, GateBlocks, Report, RetireBegins, RetireBatch, RetireEnds,
              RetireFails, Raises, Finish
<1>6. CASE Request
  BY <1>1, <1>6 DEF Request, Queue, QueueAndRun
<1>7. CASE UNCHANGED maintVars \/ Redeploy \/ Publish \/ (\E w \in Workers : Crash(w))
           \/ \E p \in Wanted : Touch(p)
  BY <1>1, <1>7 DEF maintVars, Redeploy, Publish, Crash, Touch
<1> QED BY <1>1, <1>2, <1>3, <1>4, <1>5, <1>6, <1>7 DEF MaintNext

\* What is stored when a worker keeps its snapshots.
LEMMA SnapshotsAreKept ==
    ASSUME TypesInv, NEW w \in Workers, KeepSnapshots(w)
    PROVE  /\ stored' \in Seq(Csvs)
           /\ ~worker'[w].unkept /\ worker[w].archive \in disk
                => worker[w].archive \in ToSet(stored')
<1> DEFINE mine == worker[w]
           both == <<mine.archive>> \o IF mine.baseline = mine.archive THEN <<>>
                                                                       ELSE <<mine.baseline>>
           copies == SnapshotsOf(mine)
<1>1. mine \in Memories /\ stored \in Seq(Csvs) /\ disk \subseteq Csvs
      /\ worker \in [Workers -> Memories]
  BY DEF TypesInv, MaintTypeOK
<1>2. mine.archive \in Csvs \cup {NoCsv} /\ mine.baseline \in Csvs \cup {NoCsv}
  BY <1>1 DEF Memories
<1>3. both \in Seq(Csvs \cup {NoCsv})
      /\ ToSet(both) \subseteq {mine.archive, mine.baseline} /\ mine.archive \in ToSet(both)
  <2>1. CASE mine.baseline = mine.archive
    <3>1. both = <<mine.archive>>
      BY <2>1
    <3> HIDE DEF both, mine
    <3> QED BY <1>2, <3>1 DEF ToSet
  <2>2. CASE mine.baseline # mine.archive
    <3> DEFINE a == mine.archive
               b == mine.baseline
    <3>1. both = <<a>> \o <<b>> /\ a \in Csvs \cup {NoCsv} /\ b \in Csvs \cup {NoCsv}
      BY <1>2, <2>2
    <3> HIDE DEF both, a, b
    <3>2. both \in Seq(Csvs \cup {NoCsv}) /\ DOMAIN both = {1, 2}
          /\ both[1] = a /\ both[2] = b
      BY <3>1
    <3> QED BY <3>2 DEF ToSet, a, b
  <2> QED BY <2>1, <2>2
<1>4. copies = Without(both, {mine.archive, mine.baseline} \ disk)
  BY DEF SnapshotsOf
<1> HIDE DEF both, copies
<1>5. /\ copies \in Seq(Csvs \cup {NoCsv}) /\ ToSet(copies) \subseteq disk
      /\ mine.archive \in disk => mine.archive \in ToSet(copies)
  <2>1. /\ copies \in Seq(Csvs \cup {NoCsv})
        /\ ToSet(copies) = ToSet(both) \ ({mine.archive, mine.baseline} \ disk)
    BY <1>3, <1>4, WithoutIsTheRest
  <2> QED BY <1>3, <2>1
<1>6. PICK lost \in SUBSET ToSet(copies) :
        LET saved == Without(copies, lost)
            all   == Saving(stored, saved)
        IN  /\ \/ stored' = all
               \/ saved # <<>> /\ stored' = Pruned(all, saved)
            /\ worker' = [worker EXCEPT ![w].at = "storing", ![w].sync = "SUCCESS",
                                        ![w].baseline = NoCsv, ![w].unkept = lost # {}]
  BY Zenon DEF KeepSnapshots, copies
<1> DEFINE saved == Without(copies, lost)
           all   == Saving(stored, saved)
<1>7. saved \in Seq(Csvs) /\ ToSet(saved) = ToSet(copies) \ lost
  <2>1. saved \in Seq(Csvs \cup {NoCsv}) /\ ToSet(saved) = ToSet(copies) \ lost
    BY <1>5, WithoutIsTheRest
  <2>2. ToSet(saved) \subseteq Csvs
    BY <1>1, <1>5, <2>1
  <2> HIDE DEF saved
  <2>3. \A i \in 1 .. Len(saved) : saved[i] \in Csvs
    BY <2>1, <2>2 DEF ToSet
  <2> QED BY <2>1, <2>3
<1> HIDE DEF saved
<1>8. all \in Seq(Csvs) /\ ToSet(saved) \subseteq ToSet(all)
  <2> DEFINE rest == Without(stored, ToSet(saved))
  <2>1. rest \in Seq(Csvs)
    BY <1>1, WithoutIsTheRest
  <2>2. all = rest \o saved
    BY DEF Saving
  <2> HIDE DEF all, rest
  <2>3. all \in Seq(Csvs) /\ Len(all) = Len(rest) + Len(saved)
        /\ \A i \in 1 .. Len(saved) : all[Len(rest) + i] = saved[i]
    BY <1>7, <2>1, <2>2
  <2>4. ASSUME NEW i \in 1 .. Len(saved) PROVE saved[i] \in ToSet(all)
    <3>1. Len(rest) + i \in DOMAIN all /\ all[Len(rest) + i] = saved[i]
      BY <1>7, <2>1, <2>3
    <3> QED BY <3>1 DEF ToSet
  <2>5. DOMAIN saved = 1 .. Len(saved)
    BY <1>7
  <2> QED BY <2>3, <2>4, <2>5 DEF ToSet
<1> HIDE DEF all
<1>9. stored' = all \/ stored' = Pruned(all, saved)
  BY <1>6, Zenon DEF saved, all
<1>10. stored' \in Seq(Csvs) /\ ToSet(saved) \subseteq ToSet(stored')
  <2>1. CASE stored' = all
    BY <1>8, <2>1
  <2>2. CASE stored' = Pruned(all, saved)
    <3> DEFINE gone == ToSet(all) \ (ToSet(saved) \cup Newest(Kept, all))
    <3>1. stored' = Without(all, gone)
      BY <2>2 DEF Pruned
    <3> HIDE DEF gone
    <3>2. stored' \in Seq(Csvs) /\ ToSet(stored') = ToSet(all) \ gone
      BY <1>8, <3>1, WithoutIsTheRest
    <3>3. ToSet(saved) \cap gone = {}
      BY DEF gone
    <3> QED BY <1>8, <3>2, <3>3
  <2> QED BY <1>9, <2>1, <2>2
<1>11. ~worker'[w].unkept => lost = {}
  <2> DEFINE unkept == lost # {}
  <2>1. worker' = [worker EXCEPT ![w].at = "storing", ![w].sync = "SUCCESS",
                                 ![w].baseline = NoCsv, ![w].unkept = unkept]
    BY <1>6
  <2> HIDE DEF unkept
  <2>2. worker'[w].unkept = unkept
    BY <1>1, <2>1 DEF Memories
  <2> QED BY <2>2 DEF unkept
<1> QED BY <1>5, <1>7, <1>10, <1>11

LEMMA StoredIsTyped ==
    ASSUME TypesInv, [MaintNext]_maintVars
    PROVE  /\ stored' \in Seq(Csvs)
           /\ stored' = stored \/ \E w \in Workers : KeepSnapshots(w)
<1>1. stored \in Seq(Csvs)
  BY DEF TypesInv, MaintTypeOK
<1>2. ASSUME NEW w \in Workers, WorkerStep(w), ~KeepSnapshots(w)
      PROVE  stored' = stored
  BY <1>2 DEF WorkerStep, Poll, Start, LoseElection, Download, ImportCommits, SyncFails,
              SyncSucceeds, Backfill, GatePasses, GateBlocks, Report, RetireBegins, RetireBatch,
              RetireEnds, RetireFails, Raises, Finish
<1>3. stored' = stored \/ \E w \in Workers : KeepSnapshots(w)
  <2>1. CASE \E w \in Workers : WorkerStep(w)
    BY <1>2, <2>1
  <2>2. CASE Request
    BY <2>2 DEF Request, Queue, QueueAndRun
  <2>3. CASE UNCHANGED maintVars \/ Redeploy \/ Publish \/ (\E w \in Workers : Crash(w))
             \/ \E p \in Wanted : Touch(p)
    BY <2>3 DEF maintVars, Redeploy, Publish, Crash, Touch
  <2> QED BY <2>1, <2>2, <2>3 DEF MaintNext
<1> QED BY <1>1, <1>3, SnapshotsAreKept

-----------------------------------------------------------------------------
-----------------------------------------------------------------------------
(***************************************************************************)
(* The types are kept.                                                     *)
(***************************************************************************)
MemoriesFit ==
    /\ worker \in [Workers -> Memories] /\ runs \in [RunIds -> Runs]
    /\ \A v \in Workers : StageFits(v) /\ (HasCommit(v) => worker[v].commit \in Commits)

LEMMA WorkerStepIsTyped ==
    ASSUME TypesInv, MaintInv, NEW w \in Workers, WorkerStep(w)
    PROVE  StepTypes(w)
  BY StagesAreTyped, PollTypes, StartTypes, LoseElectionTypes, FinishTypes
     DEF WorkerStep, StageStep

\* A new row is a row, and nobody works on it.
LEMMA NewRunIsTyped ==
    ASSUME TypesInv, MaintInv, NEW r \in RunIds, NEW stage \in Requests, NewRun(r, stage)
    PROVE  /\ runs' \in [RunIds -> Runs]
           /\ \A w \in Workers : worker[w].at \notin Executing
<1> DEFINE first == Initially(stage)
           row   == [NoRun EXCEPT !.status = "queued", !.stage = stage, !.sync = first.sync,
                                  !.find = first.find]
<1>1. stage \in Stages /\ runs \in [RunIds -> Runs]
  BY MaintenanceAssumption DEF MaintenanceAssumption, Stages, TypesInv, MaintTypeOK
<1>2. runs' = [runs EXCEPT ![r] = row]
  BY DEF NewRun
<1>3. row \in Runs
  <2>1. first.sync \in StageResults /\ first.find \in StageResults
    BY DEF Initially, StageResults
  <2> HIDE DEF first
  <2> QED BY <1>1, <2>1, IdleIsMemoryType DEF Runs, Statuses
<1> HIDE DEF row
<1> QED BY <1>1, <1>2, <1>3, QueueKeepsRows

LEMMA MemoriesStayTyped ==
    ASSUME TypesInv, MaintInv, [MaintNext]_maintVars
    PROVE  MemoriesFit'
<1>1. worker \in [Workers -> Memories] /\ runs \in [RunIds -> Runs]
      /\ \A v \in Workers : StageFits(v) /\ (HasCommit(v) => worker[v].commit \in Commits)
  BY DEF TypesInv, MaintTypeOK
<1>2. ASSUME NEW w \in Workers, WorkerStep(w) PROVE MemoriesFit'
  BY <1>2, WorkerStepIsTyped, OthersFit DEF StepTypes, MemoriesFit
<1>3. ASSUME NEW r \in RunIds, NEW stage \in Requests, Queue(r, stage) PROVE MemoriesFit'
  <2>1. NewRun(r, stage) /\ worker' = worker
    BY <1>3 DEF Queue
  <2>2. runs' \in [RunIds -> Runs] /\ \A v \in Workers : worker'[v].at \notin Executing
    BY <2>1, NewRunIsTyped
  <2> QED BY <1>1, <2>1, <2>2
          DEF MemoriesFit, StageFits, HasCommit, SyncStages, RetireStages, Executing
<1>4. ASSUME NEW r \in RunIds, NEW stage \in Requests, NEW w \in Workers,
             QueueAndRun(w, r, stage)
      PROVE  MemoriesFit'
  <2> DEFINE next == [Idle EXCEPT !.at = "elected", !.run = r]
  <2>1. NewRun(r, stage) /\ worker' = [worker EXCEPT ![w] = next]
    BY <1>4 DEF QueueAndRun
  <2>2. next \in Memories /\ next.at = "elected"
    BY ElectedIsTyped
  <2> HIDE DEF next
  <2>3. /\ worker' \in [Workers -> Memories] /\ worker'[w].at = "elected"
        /\ \A v \in Workers \ {w} : worker'[v] = worker[v]
    BY <1>1, <2>1, <2>2
  <2>4. runs' \in [RunIds -> Runs] /\ \A v \in Workers : worker'[v].at \notin Executing
    BY <2>1, <2>3, NewRunIsTyped DEF Executing
  <2> QED BY <2>3, <2>4
          DEF MemoriesFit, StageFits, HasCommit, SyncStages, RetireStages, Executing
<1>5. ASSUME NEW w \in Workers, Crash(w) PROVE MemoriesFit'
  <2>1. worker' = [worker EXCEPT ![w] = Idle] /\ runs' = runs
    BY <1>5 DEF Crash
  <2>2. worker' \in [Workers -> Memories] /\ worker'[w].at = "idle"
        /\ \A v \in Workers \ {w} : worker'[v] = worker[v]
    BY <1>1, <2>1, IdleIsMemoryType, IdleIsMemory
  <2>3. StageFits(w)' /\ ~HasCommit(w)'
    BY <2>2 DEF StageFits, HasCommit, SyncStages, RetireStages
  <2> QED BY <1>1, <2>1, <2>2, <2>3, OthersFit DEF MemoriesFit
<1>6. ASSUME Redeploy PROVE MemoriesFit'
  <2>1. /\ worker' \in [Workers -> Memories] /\ runs' = runs
        /\ \A v \in Workers : worker'[v].at = "idle"
    BY <1>6, IdleIsMemoryType, IdleIsMemory DEF Redeploy
  <2> QED BY <1>1, <2>1 DEF MemoriesFit, StageFits, HasCommit, SyncStages, RetireStages
<1>7. CASE UNCHANGED <<runs, worker>>
  BY <1>1, <1>7 DEF MemoriesFit, StageFits, HasCommit
<1> QED BY <1>2, <1>3, <1>4, <1>5, <1>6, <1>7 DEF MaintNext, Request, maintVars, Publish, Touch

LEMMA RestStaysTyped ==
    ASSUME TypesInv, [MaintNext]_maintVars
    PROVE  /\ lock' \in Workers \cup {NoWorker} /\ head' \in Commits
           /\ crashes' \in 0 .. MaxCrashes
<1>1. /\ lock \in Workers \cup {NoWorker} /\ head \in Commits /\ crashes \in 0 .. MaxCrashes
      /\ MaxCrashes \in Nat /\ Len(History) \in Nat
  BY MaintenanceAssumption DEF TypesInv, MaintTypeOK, MaintenanceAssumption
<1>2. ASSUME NEW w \in Workers, WorkerStep(w)
      PROVE  lock' \in {lock, w, NoWorker} /\ UNCHANGED <<head, crashes>>
  BY <1>2 DEF WorkerStep, Poll, Start, LoseElection, Download, ImportCommits, SyncFails,
              KeepSnapshots, SyncSucceeds, Backfill, GatePasses, GateBlocks, Report,
              RetireBegins, RetireBatch, RetireEnds, RetireFails, Raises, Finish
<1>3. CASE Request
  BY <1>1, <1>3 DEF Request, Queue, QueueAndRun
<1>4. CASE Redeploy \/ \E w \in Workers : Crash(w)
  BY <1>1, <1>4 DEF Redeploy, Crash
<1>5. CASE Publish
  BY <1>1, <1>5 DEF Publish, Commits
<1>6. CASE UNCHANGED maintVars \/ \E p \in Wanted : Touch(p)
  BY <1>1, <1>6 DEF maintVars, Touch
<1> QED BY <1>1, <1>2, <1>3, <1>4, <1>5, <1>6 DEF MaintNext

LEMMA TypesStep == TypesInv /\ MaintInv /\ [MaintNext]_maintVars => TypesInv'
<1> SUFFICES ASSUME TypesInv, MaintInv, [MaintNext]_maintVars PROVE TypesInv'
  OBVIOUS
<1>1. MemoriesFit'
  BY MemoriesStayTyped
<1>2. /\ lock' \in Workers \cup {NoWorker} /\ head' \in Commits
      /\ crashes' \in 0 .. MaxCrashes
  BY RestStaysTyped
<1>3. /\ db' \in Database /\ IsFiniteSet(Present(db')) /\ archived' \in Nat
      /\ imported' \in Csvs \cup {NoCsv}
  BY RecordsStay
<1>4. disk' \subseteq Csvs /\ stored' \in Seq(Csvs)
  BY DiskIsTyped, StoredIsTyped
<1>5. MaintTypeOK'
  BY <1>1, <1>2, <1>3, <1>4 DEF MaintTypeOK, MemoriesFit
<1> QED BY <1>1, <1>3, <1>5 DEF TypesInv, MemoriesFit

\* Every row, every worker's memory, the records and the snapshots keep their type, however
\* often an executing worker dies.
THEOREM MaintenanceIsTyped == MaintSpec => []MaintTypeOK
<1>1. MaintInit => MaintInv /\ TypesInv
  BY MaintInitially, TypesInitially
<1>2. MaintInv /\ TypesInv /\ [MaintNext]_maintVars => MaintInv' /\ TypesInv'
  BY MaintStep, TypesStep
<1>3. TypesInv => MaintTypeOK
  BY DEF TypesInv
<1> QED BY <1>1, <1>2, <1>3, PTL DEF MaintSpec

\* No import and no retirement, of whichever commit and however it ended, loses a record
\* somebody has touched, or removes one without its copy.
THEOREM RecordsAreNeverLost == MaintSpec => TouchedRecordsStay
<1> DEFINE NothingLost ==
             /\ Cardinality(Touched(db)) <= Cardinality(Touched(db'))
             /\ Cardinality(Present(db)) <= Cardinality(Present(db')) + (archived' - archived)
<1>1. MaintInit => MaintInv /\ TypesInv
  BY MaintInitially, TypesInitially
<1>2. MaintInv /\ TypesInv /\ [MaintNext]_maintVars => MaintInv' /\ TypesInv'
  BY MaintStep, TypesStep
<1>3. TypesInv /\ [MaintNext]_maintVars => [NothingLost]_maintVars
  BY RecordsStay
<1> QED BY <1>1, <1>2, <1>3, PTL DEF MaintSpec, TouchedRecordsStay

-----------------------------------------------------------------------------
-----------------------------------------------------------------------------
(***************************************************************************)
(* Whoever has imported in this run holds the CSV of the last import, as   *)
(* nobody else executes: so a retirement spares what that CSV ships.       *)
(***************************************************************************)
HasImported(w) == HasCommit(w) /\ worker[w].at # "importing"

LoadedInv ==
    /\ \A w \in Workers : HasImported(w) => worker[w].archive = imported
    /\ ShippedHaveRecords

\* Only an import changes what the worker of a run has imported.
ArchiveStays(w) == HasImported(w)' => HasImported(w) /\ worker'[w].archive = worker[w].archive

LEMMA ArchivesStay ==
    ASSUME TypesInv, MaintInv, NEW w \in Workers, WorkerStep(w), ~ImportCommits(w)
    PROVE  ArchiveStays(w)
<1>1. worker \in [Workers -> Memories] /\ (worker[w].at # "idle" => worker[w].run \in RunIds)
  BY DEF TypesInv, MaintTypeOK, MaintInv, HasRun
<1>2. StepTypes(w)
  BY WorkerStepIsTyped
<1>3. worker[w].at # "idle" => runs'[worker[w].run].stage = runs[worker[w].run].stage
  BY <1>1, <1>2 DEF StepTypes
<1> USE DEF ArchiveStays, HasImported, HasCommit, SyncStages, RetireStages
<1> DEFINE mine == worker[w]
<1>mine. mine \in Memories
  BY <1>1
<1>4. CASE worker'[w].at \in {"idle", "elected", "started", "importing", "gate", "finish"}
  BY <1>4
<1>5. CASE KeepSnapshots(w)
  <2>1. PICK unkept : worker' = [worker EXCEPT ![w].at = "storing", ![w].sync = "SUCCESS",
                                               ![w].baseline = NoCsv, ![w].unkept = unkept]
        /\ mine.at = "promoting"
    BY <1>5 DEF KeepSnapshots
  <2>2. worker'[w].archive = mine.archive
    BY <1>1, <2>1 DEF Memories
  <2> QED BY <2>1, <2>2
<1>6. CASE SyncSucceeds(w)
  <2>1. /\ mine.at = "storing"
        /\ \E next \in {"finish", "backfill", "find"} : worker' = [worker EXCEPT ![w].at = next]
    BY <1>6 DEF SyncSucceeds
  <2>2. worker'[w].archive = mine.archive
    BY <1>1, <2>1 DEF Memories
  <2> QED BY <2>1, <2>2
<1>7. CASE Backfill(w)
  <2>1. mine.at = "backfill" /\ worker' = [worker EXCEPT ![w].at = "find"]
    BY <1>7 DEF Backfill
  <2>2. worker'[w].archive = mine.archive
    BY <1>1, <2>1 DEF Memories
  <2> QED BY <2>1, <2>2
<1>8. CASE GatePasses(w)
  <2>1. mine.at = "gate" /\ StageFits(w) /\ mine.run \in RunIds
    BY <1>1, <1>8 DEF GatePasses, TypesInv
  <2>2. ~Syncs(runs[mine.run].stage)
    BY <2>1 DEF StageFits
  <2>3. worker'[w].at = "find" /\ worker'[w].run = mine.run
    BY <1>1, <1>8 DEF GatePasses, Memories
  <2>4. ~HasCommit(w)'
    BY <1>3, <2>1, <2>2, <2>3
  <2> QED BY <2>4
<1>9. CASE Report(w)
  <2>1. PICK ok \in BOOLEAN, find \in StageResults, at \in {"retire", "finish"} :
          /\ mine.at = "find"
          /\ worker' = [worker EXCEPT ![w].at = at, ![w].find = find, ![w].ok = ok]
          /\ at = "retire" => runs[mine.run].stage = "full"
    BY <1>9 DEF Report, StageResults
  <2>2. worker'[w].archive = mine.archive /\ worker'[w].at = at
    BY <1>1, <2>1 DEF Memories
  <2> QED BY <2>1, <2>2 DEF Syncs
<1>10. CASE RetireBegins(w)
  <2>1. PICK left, limit :
          /\ mine.at = "retire"
          /\ worker' = [worker EXCEPT ![w].at = "retiring", ![w].left = left, ![w].limit = limit]
    BY <1>10 DEF RetireBegins
  <2>2. worker'[w].archive = mine.archive
    BY <1>1, <2>1 DEF Memories
  <2> QED BY <2>1, <2>2
<1>11. CASE RetireBatch(w)
  <2>1. PICK left, total :
          /\ mine.at = "retiring"
          /\ worker' = [worker EXCEPT ![w].left = left, ![w].retired = total]
    BY <1>11 DEF RetireBatch
  <2>2. worker'[w].archive = mine.archive
    BY <1>1, <2>1 DEF Memories
  <2> QED BY <2>1, <2>2
<1> DEFINE Ends == worker'[w].at \in {"idle", "elected", "started", "importing", "gate", "finish"}
<1>12. ASSUME NEW r \in RunIds, Poll(w, r) PROVE Ends
  BY <1>1, <1>12 DEF Poll, Idle
<1>13. CASE Start(w)
  BY <1>1, <1>13 DEF Start, Memories
<1>14. CASE LoseElection(w)
  BY <1>1, <1>14 DEF LoseElection, Idle
<1>15. CASE Download(w)
  BY <1>1, <1>15 DEF Download, Memories
<1>16. CASE SyncFails(w)
  BY <1>1, <1>16 DEF SyncFails, Memories
<1>17. CASE GateBlocks(w)
  <2>1. PICK inherited \in StageResults :
          worker' = [worker EXCEPT ![w].at = "finish", ![w].sync = inherited,
                                   ![w].find = "BLOCKED", ![w].ok = FALSE]
    BY <1>17 DEF GateBlocks, StageResults
  <2> QED BY <1>1, <2>1 DEF Memories
<1>18. CASE RetireEnds(w) \/ RetireFails(w) \/ Raises(w)
  BY <1>1, <1>18 DEF RetireEnds, RetireFails, Raises, Memories
<1>19. CASE Finish(w)
  BY <1>1, <1>19 DEF Finish, Idle
<1> QED BY <1>4, <1>5, <1>6, <1>7, <1>8, <1>9, <1>10, <1>11, <1>12, <1>13, <1>14, <1>15, <1>16,
           <1>17, <1>18, <1>19 DEF WorkerStep

LEMMA ImportedMemory ==
    ASSUME TypesInv, NEW w \in Workers, ImportCommits(w)
    PROVE  worker'[w].archive = worker[w].archive /\ imported' = worker[w].archive
           /\ worker[w].at = "importing"
  BY DEF ImportCommits, TypesInv, MaintTypeOK, Memories

\* The others do not execute.
LEMMA OnlyOneExecutes ==
    ASSUME TypesInv, MaintInv, NEW w \in Workers, worker[w].at \in Executing,
           NEW v \in Workers, worker[v].at \in Executing
    PROVE  v = w
  BY DEF MaintInv, ExecutorOwnsRun

LEMMA CommitIsExecuting ==
    ASSUME NEW w, HasCommit(w) PROVE worker[w].at \in Executing
  BY DEF HasCommit, SyncStages, RetireStages, Executing

\* What happens to a worker's memory when others step.
LEMMA OthersKeepArchives ==
    ASSUME TypesInv, MaintInv, [MaintNext]_maintVars, NEW v \in Workers,
           ~WorkerStep(v)
    PROVE  ArchiveStays(v)
<1>1. worker \in [Workers -> Memories] /\ (worker[v].at # "idle" => worker[v].run \in RunIds)
  BY DEF TypesInv, MaintTypeOK, MaintInv, HasRun
<1> USE DEF ArchiveStays, HasImported, HasCommit, SyncStages, RetireStages
<1>2. CASE worker'[v].at \in {"idle", "elected"}
  BY <1>2
<1>3. CASE worker'[v] = worker[v] /\ \A q \in RunIds : runs'[q].stage = runs[q].stage
  BY <1>1, <1>3
<1>4. ASSUME NEW w \in Workers, WorkerStep(w) PROVE ArchiveStays(v)
  BY <1>3, <1>4, WorkerStepIsTyped DEF StepTypes
<1>5. ASSUME NEW r \in RunIds, NEW stage \in Requests, NewRun(r, stage),
             worker'[v] = worker[v]
      PROVE  ArchiveStays(v)
  <2>1. worker'[v].at \notin Executing
    BY <1>5, NewRunIsTyped
  <2> QED BY <2>1 DEF Executing
<1>6. ASSUME NEW r \in RunIds, NEW stage \in Requests, NEW w \in Workers,
             QueueAndRun(w, r, stage)
      PROVE  ArchiveStays(v)
  <2> DEFINE next == [Idle EXCEPT !.at = "elected", !.run = r]
  <2>1. worker' = [worker EXCEPT ![w] = next] /\ next.at = "elected" /\ NewRun(r, stage)
    BY <1>6, ElectedIsTyped DEF QueueAndRun
  <2> HIDE DEF next
  <2>2. worker'[v] = worker[v] \/ worker'[v].at = "elected"
    BY <1>1, <2>1
  <2> QED BY <1>2, <1>5, <2>1, <2>2
<1>7. CASE Request
  BY <1>5, <1>6, <1>7 DEF Request, Queue
<1>8. CASE Redeploy \/ \E w \in Workers : Crash(w)
  <2>1. worker'[v] \in {worker[v], Idle} /\ runs' = runs
    BY <1>1, <1>8 DEF Redeploy, Crash
  <2> QED BY <1>2, <1>3, <2>1, IdleIsMemory
<1>9. CASE UNCHANGED <<runs, worker>>
  BY <1>3, <1>9
<1> QED BY <1>4, <1>7, <1>8, <1>9 DEF MaintNext, maintVars, Publish, Touch

LEMMA LoadedStep ==
    TypesInv /\ MaintInv /\ LoadedInv /\ [MaintNext]_maintVars => LoadedInv'
<1> SUFFICES ASSUME TypesInv, MaintInv, LoadedInv, [MaintNext]_maintVars PROVE LoadedInv'
  OBVIOUS
<1>1. ASSUME NEW w \in Workers, ImportCommits(w)
      PROVE  LoadedInv'
  <2>1. /\ worker[w].at = "importing" /\ imported' = worker[w].archive
        /\ worker'[w].archive = worker[w].archive
        /\ Shipped(imported') \subseteq Present(db')
    BY <1>1, ImportLoads, ImportedMemory
  <2>2. WorkerStep(w) /\ StepTypes(w)
    BY <1>1, WorkerStepIsTyped DEF WorkerStep
  <2>3. ASSUME NEW v \in Workers, HasImported(v)' PROVE worker'[v].archive = imported'
    <3>1. CASE v = w
      BY <2>1, <3>1
    <3>2. CASE v # w
      <4>1. worker'[v] = worker[v]
        BY <2>2, <3>2 DEF StepTypes
      <4>2. worker[v].at \in Executing
        BY <2>3, <4>1 DEF HasImported, HasCommit, SyncStages, RetireStages, Executing
      <4> QED BY <2>1, <3>2, <4>2, OnlyOneExecutes DEF Executing
    <3> QED BY <3>1, <3>2
  <2> QED BY <2>1, <2>3 DEF LoadedInv, ShippedHaveRecords
<1>2. ASSUME \A w \in Workers : ~ImportCommits(w)
      PROVE  LoadedInv'
  <2>1. \A w \in Workers : ArchiveStays(w)
    BY <1>2, ArchivesStay, OthersKeepArchives
  <2>2. imported' = imported /\ Present(db) \cap Shipped(imported) \subseteq Present(db')
    <3>1. ASSUME NEW w \in Workers, RetireBatch(w)
          PROVE  imported' = imported /\ Present(db) \cap Shipped(imported) \subseteq Present(db')
      <4>1. worker[w].archive = imported
        BY <3>1 DEF RetireBatch, LoadedInv, HasImported, HasCommit, RetireStages
      <4> QED BY <3>1, <4>1, BatchRetires DEF RetireBatch
    <3>2. ASSUME NEW p, Touch(p)
          PROVE  imported' = imported /\ Present(db) \cap Shipped(imported) \subseteq Present(db')
      BY <3>2, TouchMarks DEF Touch
    <3> QED BY <1>2, <3>1, <3>2, RecordSteps
  <2>3. \A w \in Workers : HasImported(w)' => worker'[w].archive = imported'
    BY <2>1, <2>2 DEF ArchiveStays, LoadedInv
  <2> QED BY <2>2, <2>3 DEF LoadedInv, ShippedHaveRecords
<1> QED BY <1>1, <1>2

\* Whatever the last import shipped has its record, through re-keys in any order and
\* retirements by the manifest of any commit.
THEOREM ShippedAlwaysHaveRecords == MaintSpec => []ShippedHaveRecords
<1>1. MaintInit => MaintInv /\ TypesInv /\ LoadedInv
  <2>1. MaintInit => LoadedInv
    BY DEF MaintInit, Idle, LoadedInv, ShippedHaveRecords, Shipped, NoCsv, HasImported,
           HasCommit, SyncStages, RetireStages
  <2> QED BY <2>1, MaintInitially, TypesInitially
<1>2. MaintInv /\ TypesInv /\ LoadedInv /\ [MaintNext]_maintVars
      => MaintInv' /\ TypesInv' /\ LoadedInv'
  BY MaintStep, TypesStep, LoadedStep
<1>3. LoadedInv => ShippedHaveRecords
  BY DEF LoadedInv
<1> QED BY <1>1, <1>2, <1>3, PTL DEF MaintSpec

-----------------------------------------------------------------------------
-----------------------------------------------------------------------------
(***************************************************************************)
(* The snapshots.  What a run downloads is on this pod's disk until it is  *)
(* stored, and stays stored while no other run stores its own: the run of  *)
(* the one executor is the last that was asked for.                        *)
(***************************************************************************)
\* The stages of Part 1 before the snapshots are stored.
UnstoredStages == {"started", "importing", "promoting"}

\* The runs that were asked for are the first ones, and only the last is active.
InOrder ==
    \A q, r \in RunIds : q < r /\ runs[r].status # "none" =>
        runs[q].status # "none" /\ q \notin ActiveRuns

SnapshotHeld(w) ==
    /\ worker[w].at \in {"importing", "promoting"} => worker[w].archive \in disk
    /\ worker[w].at \in UnstoredStages => worker[w].sync = "PENDING"
    /\ worker[w].at \in Executing /\ Syncs(runs[worker[w].run].stage)
            /\ worker[w].sync = "SUCCESS" /\ ~worker[w].unkept
         => worker[w].archive \in ToSet(stored)

SnapshotInv ==
    /\ InOrder
    /\ \A w \in Workers : SnapshotHeld(w)
    /\ NewestSnapshotIsStored

-----------------------------------------------------------------------------
(***************************************************************************)
(* The rows.                                                               *)
(***************************************************************************)
\* The rows that are not active, and which runs there are, stay.
RowsRest ==
    /\ \A r \in RunIds : r \notin ActiveRuns => runs'[r] = runs[r]
    /\ \A r \in RunIds : runs'[r].status = "none" <=> runs[r].status = "none"
    /\ \A r \in RunIds : runs'[r].stage = runs[r].stage
    /\ ActiveRuns' \subseteq ActiveRuns

\* Moreover no run ends.
NoneEnds == RowsRest /\ ActiveRuns \subseteq ActiveRuns'

LEMMA RowsUnchanged == ASSUME runs' = runs PROVE NoneEnds
  BY DEF NoneEnds, RowsRest, ActiveRuns

LEMMA StageRows ==
    ASSUME TypesInv, MaintInv, NEW w \in Workers, StageStep(w)
    PROVE  NoneEnds
<1> DEFINE mine == worker[w].run
<1>1. mine \in RunIds /\ mine \in ActiveRuns /\ runs \in [RunIds -> Runs]
  BY StagesMove, FieldTypes, IdleExecutesNothing
     DEF Moves, MaintInv, ExecutorOwnsRun, ActiveRuns, TypesInv, MaintTypeOK
<1>2. \A r \in RunIds \ {mine} : runs'[r] = runs[r]
  <2>1. CASE SyncFails(w)
    BY <1>1, <2>1 DEF SyncFails
  <2>2. CASE SyncSucceeds(w) \/ GatePasses(w) \/ GateBlocks(w) \/ Report(w)
    BY <1>1, <2>2 DEF SyncSucceeds, GatePasses, GateBlocks, Report
  <2> QED BY <2>1, <2>2 DEF StageStep, Download, ImportCommits, KeepSnapshots, Backfill,
                            RetireBegins, RetireBatch, RetireEnds, RetireFails, Raises
<1>3. \A r \in RunIds : runs'[r].status = runs[r].status
  BY StagesLeaveStatuses DEF StatusesStay
<1>4. \A r \in RunIds : runs'[r].stage = runs[r].stage
  BY StagesAreTyped DEF StepTypes
<1>5. ActiveRuns' = ActiveRuns
  BY <1>3 DEF ActiveRuns
<1> QED BY <1>1, <1>2, <1>3, <1>4, <1>5 DEF NoneEnds, RowsRest

LEMMA DispatchRows ==
    ASSUME TypesInv, MaintInv, NEW w \in Workers,
           (\E r \in RunIds : Poll(w, r)) \/ Start(w) \/ LoseElection(w)
    PROVE  NoneEnds
<1>0. runs \in [RunIds -> Runs]
  BY DEF TypesInv, MaintTypeOK
<1>1. ASSUME NEW r \in RunIds, r \in ActiveRuns, NEW status \in {"queued", "running"},
             runs' = [runs EXCEPT ![r].status = status]
      PROVE  NoneEnds
  <2>1. \A q \in RunIds \ {r} : runs'[q] = runs[q]
    BY <1>0, <1>1
  <2>2. runs'[r].status = status /\ runs'[r].stage = runs[r].stage
    BY <1>0, <1>1 DEF Runs
  <2>3. ActiveRuns' = ActiveRuns
    BY <1>1, <2>1, <2>2 DEF ActiveRuns
  <2> QED BY <1>1, <2>1, <2>2, <2>3 DEF NoneEnds, RowsRest, ActiveRuns
<1>2. ASSUME NEW r \in RunIds, Poll(w, r) PROVE NoneEnds
  BY <1>1, <1>2 DEF Poll, Oldest
<1>3. CASE Start(w)
  <2>1. worker[w].run \in RunIds /\ worker[w].run \in ActiveRuns
    BY <1>3 DEF Start, MayStart, ActiveRuns, MaintInv, HasRun
  <2> QED BY <1>1, <1>3, <2>1 DEF Start
<1> QED BY <1>2, <1>3, RowsUnchanged DEF LoseElection

LEMMA FinishRows ==
    ASSUME TypesInv, MaintInv, NEW w \in Workers, Finish(w)
    PROVE  /\ RowsRest /\ worker[w].run \in ActiveRuns
           /\ \A r \in RunIds \ {worker[w].run} : runs'[r] = runs[r]
<1> DEFINE mine == worker[w].run
<1>1. /\ mine \in RunIds /\ runs[mine].status = "running" /\ runs \in [RunIds -> Runs]
  BY IdleExecutesNothing
     DEF Finish, Executing, MaintInv, ExecutorOwnsRun, HasRun, TypesInv, MaintTypeOK
<1>2. /\ runs'[mine].status \in {"done", "failed"}
      /\ \A q \in RunIds \ {mine} : runs'[q] = runs[q]
  BY <1>1 DEF Finish, WithPart1, MaintInv, Shaped
<1>3. \A r \in RunIds : runs'[r].stage = runs[r].stage
  BY FinishTypes DEF StepTypes
<1>4. mine \in ActiveRuns /\ ActiveRuns' \subseteq ActiveRuns
  BY <1>1, <1>2 DEF ActiveRuns
<1> QED BY <1>1, <1>2, <1>3, <1>4 DEF RowsRest

\* Every step but the end of a run and the request for one leaves the other rows alone.
LEMMA RowSteps ==
    ASSUME TypesInv, MaintInv, [MaintNext]_maintVars
    PROVE  \/ NoneEnds
           \/ \E w \in Workers : Finish(w)
           \/ Request
<1>1. ASSUME NEW w \in Workers, WorkerStep(w), ~Finish(w) PROVE NoneEnds
  BY <1>1, StageRows, DispatchRows DEF WorkerStep, StageStep
<1> QED BY <1>1, RowsUnchanged DEF MaintNext, maintVars, Crash, Redeploy, Publish, Touch

LEMMA OrderStays ==
    ASSUME TypesInv, MaintInv, InOrder, [MaintNext]_maintVars
    PROVE  InOrder'
<1>1. CASE RowsRest
  BY <1>1 DEF RowsRest, InOrder
<1>2. ASSUME NEW s \in RunIds, NEW stage, NewRun(s, stage) PROVE InOrder'
  <2>1. /\ \A q \in RunIds \ {s} : runs'[q] = runs[q]
        /\ runs'[s].status = "queued" /\ runs[s].status = "none" /\ ActiveRuns = {}
        /\ \A q \in RunIds : q < s => runs[q].status # "none"
    BY <1>2, RunIsQueued DEF NewRun
  <2>2. ActiveRuns' = {s}
    BY <2>1 DEF ActiveRuns
  <2> SUFFICES ASSUME NEW q \in RunIds, NEW r \in RunIds, q < r, runs'[r].status # "none"
               PROVE  runs'[q].status # "none" /\ q \notin ActiveRuns'
    BY DEF InOrder
  <2>3. CASE r = s
    <3>1. q # s
      BY <2>3 DEF RunIds
    <3> QED BY <2>1, <2>2, <2>3, <3>1
  <2>4. CASE r # s
    <3>1. runs[q].status # "none"
      BY <2>1, <2>4 DEF InOrder
    <3>2. q # s
      BY <2>1, <3>1
    <3> QED BY <2>1, <2>2, <3>1, <3>2
  <2> QED BY <2>3, <2>4
<1>3. CASE Request
  BY <1>2, <1>3 DEF Request, Queue, QueueAndRun
<1>4. ASSUME NEW w \in Workers, Finish(w) PROVE InOrder'
  BY <1>1, <1>4, FinishRows
<1> QED BY <1>1, <1>3, <1>4, RowSteps DEF NoneEnds

-----------------------------------------------------------------------------
-----------------------------------------------------------------------------
(***************************************************************************)
(* What a worker holds.                                                    *)
(***************************************************************************)
\* Past Part 1, what a worker carries on is stored already.
LEMMA CarriedIsStored ==
    ASSUME TypesInv, MaintInv, NEW w \in Workers, StepTypes(w), SnapshotHeld(w),
           worker[w].at \in Executing, worker'[w].at \notin UnstoredStages,
           worker'[w].run = worker[w].run, worker'[w].archive = worker[w].archive,
           worker'[w].sync = worker[w].sync, worker'[w].unkept = worker[w].unkept,
           stored' = stored
    PROVE  SnapshotHeld(w)'
<1>1. worker[w].run \in RunIds
  BY FieldTypes, IdleExecutesNothing
<1>2. runs'[worker'[w].run].stage = runs[worker[w].run].stage
  BY <1>1 DEF StepTypes
<1> QED BY <1>2 DEF SnapshotHeld, UnstoredStages

LEMMA CarryingSteps ==
    ASSUME TypesInv, MaintInv, NEW w \in Workers,
           \/ SyncSucceeds(w) \/ Backfill(w) \/ Report(w) \/ RetireBegins(w) \/ RetireBatch(w)
           \/ RetireEnds(w) \/ RetireFails(w) \/ Raises(w)
    PROVE  /\ worker'[w].at \notin UnstoredStages
           /\ worker'[w].run = worker[w].run /\ worker'[w].archive = worker[w].archive
           /\ worker'[w].sync = worker[w].sync /\ worker'[w].unkept = worker[w].unkept
<1> DEFINE mine == worker[w]
<1>1. worker \in [Workers -> Memories] /\ mine \in Memories
  BY DEF TypesInv, MaintTypeOK
<1> USE DEF UnstoredStages
<1>2. CASE SyncSucceeds(w)
  <2>1. PICK at \in {"finish", "backfill", "find"} : worker' = [worker EXCEPT ![w].at = at]
    BY <1>2 DEF SyncSucceeds
  <2> QED BY <1>1, <2>1 DEF Memories
<1>3. CASE Backfill(w)
  BY <1>1, <1>3 DEF Backfill, Memories
<1>4. CASE Report(w)
  <2>1. PICK ok \in BOOLEAN, find \in StageResults, at \in {"retire", "finish"} :
          worker' = [worker EXCEPT ![w].at = at, ![w].find = find, ![w].ok = ok]
    BY <1>4 DEF Report, StageResults
  <2> QED BY <1>1, <2>1 DEF Memories
<1>5. CASE RetireBegins(w)
  <2>1. PICK left, limit :
          worker' = [worker EXCEPT ![w].at = "retiring", ![w].left = left, ![w].limit = limit]
    BY <1>5 DEF RetireBegins
  <2> QED BY <1>1, <2>1 DEF Memories
<1>6. CASE RetireBatch(w)
  <2>1. PICK left, total :
          /\ mine.at = "retiring"
          /\ worker' = [worker EXCEPT ![w].left = left, ![w].retired = total]
    BY <1>6 DEF RetireBatch
  <2> QED BY <1>1, <2>1 DEF Memories
<1>7. CASE RetireEnds(w) \/ RetireFails(w)
  BY <1>1, <1>7 DEF RetireEnds, RetireFails, Memories
<1>8. CASE Raises(w)
  BY <1>1, <1>8 DEF Raises, Memories
<1> QED BY <1>2, <1>3, <1>4, <1>5, <1>6, <1>7, <1>8

LEMMA HeldByTheWorker ==
    ASSUME TypesInv, MaintInv, NEW w \in Workers, WorkerStep(w), SnapshotHeld(w)
    PROVE  SnapshotHeld(w)'
<1> DEFINE mine == worker[w]
<1>1. worker \in [Workers -> Memories] /\ mine \in Memories
      /\ (mine.at # "idle" => mine.run \in RunIds)
  BY DEF TypesInv, MaintTypeOK, MaintInv, HasRun
<1>2. StepTypes(w)
  BY WorkerStepIsTyped
<1>3. mine.at # "idle" => runs'[mine.run].stage = runs[mine.run].stage
  BY <1>1, <1>2 DEF StepTypes
<1>4. CASE worker'[w].at \in {"idle", "elected"}
  BY <1>4, IdleExecutesNothing DEF SnapshotHeld, UnstoredStages
<1>5. CASE \/ SyncSucceeds(w) \/ Backfill(w) \/ Report(w) \/ RetireBegins(w) \/ RetireBatch(w)
           \/ RetireEnds(w) \/ RetireFails(w) \/ Raises(w)
  <2>1. mine.at \in Executing /\ stored' = stored
    BY <1>5 DEF SyncSucceeds, Backfill, Report, RetireBegins, RetireBatch, RetireEnds,
                RetireFails, Raises, Executing
  <2> QED BY <1>2, <1>5, <2>1, CarryingSteps, CarriedIsStored
<1>6. CASE Start(w)
  <2> DEFINE r == mine.run
  <2>1. /\ worker'[w].at = IF Syncs(runs[r].stage) THEN "started" ELSE "gate"
        /\ worker'[w].sync = IF Syncs(runs[r].stage) THEN "PENDING" ELSE "absent"
        /\ worker'[w].run = r /\ mine.at = "elected"
    BY <1>1, <1>6 DEF Start, Initially, Memories
  <2> QED BY <1>3, <2>1 DEF SnapshotHeld, UnstoredStages
<1>7. CASE Download(w)
  <2>1. /\ worker'[w].archive = History[head].csv /\ worker'[w].sync = mine.sync
        /\ worker'[w].at = "importing" /\ mine.at = "started"
        /\ History[head].csv \in disk'
    BY <1>1, <1>7 DEF Download, Memories
  <2> QED BY <2>1 DEF SnapshotHeld, UnstoredStages
<1>8. CASE ImportCommits(w)
  <2>1. /\ worker'[w].archive = mine.archive /\ worker'[w].sync = mine.sync
        /\ worker'[w].at = "promoting" /\ mine.at = "importing" /\ disk' = disk
    BY <1>1, <1>8 DEF ImportCommits, Memories
  <2> QED BY <2>1 DEF SnapshotHeld, UnstoredStages
<1>9. CASE SyncFails(w)
  <2>1. worker'[w].sync = "FAILED" /\ worker'[w].at = "finish"
    BY <1>1, <1>9 DEF SyncFails, Memories
  <2> QED BY <2>1 DEF SnapshotHeld, UnstoredStages
<1>10. CASE KeepSnapshots(w)
  <2>1. PICK unkept : worker' = [worker EXCEPT ![w].at = "storing", ![w].sync = "SUCCESS",
                                               ![w].baseline = NoCsv, ![w].unkept = unkept]
        /\ mine.at = "promoting"
    BY <1>10 DEF KeepSnapshots
  <2>2. worker'[w].archive = mine.archive /\ worker'[w].at = "storing"
    BY <1>1, <2>1 DEF Memories
  <2>3. mine.archive \in disk
    BY <2>1 DEF SnapshotHeld
  <2>4. ~worker'[w].unkept => mine.archive \in ToSet(stored')
    BY <1>10, <2>3, SnapshotsAreKept
  <2> QED BY <2>2, <2>4 DEF SnapshotHeld, UnstoredStages
<1>11. CASE GatePasses(w)
  <2>1. mine.at = "gate" /\ worker'[w].at = "find" /\ worker'[w].run = mine.run
    BY <1>1, <1>11 DEF GatePasses, Memories
  <2>2. ~Syncs(runs'[mine.run].stage)
    BY <1>3, <2>1 DEF TypesInv, StageFits
  <2> QED BY <2>1, <2>2 DEF SnapshotHeld, UnstoredStages
<1>12. CASE GateBlocks(w)
  <2>1. PICK inherited \in StageResults :
          worker' = [worker EXCEPT ![w].at = "finish", ![w].sync = inherited,
                                   ![w].find = "BLOCKED", ![w].ok = FALSE]
          /\ mine.at = "gate"
    BY <1>12 DEF GateBlocks, StageResults
  <2>2. mine.at = "gate" /\ worker'[w].at = "finish" /\ worker'[w].run = mine.run
    BY <1>1, <2>1 DEF Memories
  <2>3. ~Syncs(runs'[mine.run].stage)
    BY <1>3, <2>2 DEF TypesInv, StageFits
  <2> QED BY <2>2, <2>3 DEF SnapshotHeld, UnstoredStages
<1>13. ASSUME NEW r \in RunIds, Poll(w, r) PROVE worker'[w].at \in {"idle", "elected"}
  BY <1>1, <1>13 DEF Poll, Idle
<1>14. CASE LoseElection(w) \/ Finish(w)
  BY <1>1, <1>4, <1>14, IdleIsMemory DEF LoseElection, Finish
<1> QED BY <1>4, <1>5, <1>6, <1>7, <1>8, <1>9, <1>10, <1>11, <1>12, <1>13, <1>14 DEF WorkerStep

\* While another steps, or nobody does.
LEMMA HeldMeanwhile ==
    ASSUME TypesInv, MaintInv, [MaintNext]_maintVars, NEW v \in Workers, SnapshotHeld(v),
           ~WorkerStep(v)
    PROVE  SnapshotHeld(v)'
<1>1. worker \in [Workers -> Memories] /\ (worker[v].at # "idle" => worker[v].run \in RunIds)
  BY DEF TypesInv, MaintTypeOK, MaintInv, HasRun
<1>2. CASE worker'[v].at \notin Executing
  BY <1>2 DEF SnapshotHeld, UnstoredStages, Executing
<1>3. ASSUME worker'[v] = worker[v], \A q \in RunIds : runs'[q].stage = runs[q].stage,
             disk \subseteq disk', stored' = stored, worker[v].at \in Executing
      PROVE  SnapshotHeld(v)'
  <2>1. runs'[worker[v].run].stage = runs[worker[v].run].stage
    BY <1>1, <1>3, IdleExecutesNothing
  <2> QED BY <1>3, <2>1 DEF SnapshotHeld, UnstoredStages
<1>4. ASSUME NEW w \in Workers, WorkerStep(w), worker'[v].at \in Executing
      PROVE  SnapshotHeld(v)'
  <2>1. v # w /\ StepTypes(w) /\ worker'[v] = worker[v]
    BY <1>4, WorkerStepIsTyped DEF StepTypes
  <2>2. stored' = stored
    <3>1. ASSUME NEW u \in Workers, KeepSnapshots(u) PROVE FALSE
      <4>1. worker[u].at \in Executing /\ WorkerStep(u)
        BY <3>1 DEF KeepSnapshots, Executing, WorkerStep
      <4> QED BY <1>4, <2>1, <4>1, OnlyOneExecutes
    <3> QED BY <3>1, StoredIsTyped
  <2>3. disk \subseteq disk'
    BY <1>4 DEF WorkerStep, Poll, Start, LoseElection, Download, ImportCommits, SyncFails,
              KeepSnapshots, SyncSucceeds, Backfill, GatePasses, GateBlocks, Report,
              RetireBegins, RetireBatch, RetireEnds, RetireFails, Raises, Finish
  <2> QED BY <1>3, <1>4, <2>1, <2>2, <2>3 DEF StepTypes
<1>5. ASSUME NEW r \in RunIds, NEW stage \in Requests, NewRun(r, stage),
             \/ worker' = worker
             \/ \E w \in Workers :
                    worker' = [worker EXCEPT ![w] = [Idle EXCEPT !.at = "elected", !.run = r]]
      PROVE  worker'[v].at \notin Executing
  <2>1. worker[v].at \notin Executing
    BY <1>5, NewRunIsTyped
  <2> QED BY <1>1, <1>5, <2>1, ElectedMemory
<1>6. CASE Request
  BY <1>2, <1>5, <1>6 DEF Request, Queue, QueueAndRun
<1>7. CASE Redeploy
  BY <1>2, <1>7, IdleIsMemory, IdleExecutesNothing DEF Redeploy
<1>8. ASSUME NEW w \in Workers, Crash(w) PROVE SnapshotHeld(v)'
  <2>1. worker'[v] \in {worker[v], Idle} /\ UNCHANGED <<runs, disk, stored>>
    BY <1>1, <1>8 DEF Crash
  <2> QED BY <1>2, <1>3, <2>1, IdleIsMemory, IdleExecutesNothing
<1>9. CASE UNCHANGED <<runs, worker, disk, stored>>
  BY <1>2, <1>3, <1>9
<1> QED BY <1>2, <1>4, <1>6, <1>7, <1>8, <1>9 DEF MaintNext, maintVars, Publish, Touch

-----------------------------------------------------------------------------
(***************************************************************************)
(* The newest snapshot.                                                    *)
(***************************************************************************)
LEMMA QuietRows ==
    ASSUME NewestSnapshotIsStored, stored' = stored,
           \A r \in RunIds : r \notin ActiveRuns' => runs'[r] = runs[r],
           SyncAttempts \subseteq SyncAttempts'
    PROVE  NewestSnapshotIsStored'
<1> SUFFICES ASSUME NEW r \in GateRuns', r \notin ActiveRuns', runs'[r].kept
             PROVE  runs'[r].archive \in ToSet(stored')
  BY DEF NewestSnapshotIsStored
<1>1. /\ r \in RunIds /\ runs'[r] = runs[r] /\ runs'[r].status # "none"
      /\ Syncs(runs'[r].stage) /\ Verified(r)' /\ \A q \in SyncAttempts : q <= r
  BY DEF GateRuns, SyncAttempts
<1>2. r \in GateRuns \ ActiveRuns
  BY <1>1 DEF GateRuns, SyncAttempts, Verified, ActiveRuns
<1> QED BY <1>1, <1>2 DEF NewestSnapshotIsStored

LEMMA AttemptsStay == ASSUME RowsRest PROVE SyncAttempts' = SyncAttempts
  BY DEF RowsRest, SyncAttempts

\* While a run of Part 1 stores its snapshots, the newest sync is not over.
LEMMA NewestWhileStoring ==
    ASSUME TypesInv, MaintInv, InOrder, NEW w \in Workers, KeepSnapshots(w)
    PROVE  NewestSnapshotIsStored'
<1> DEFINE mine == worker[w].run
<1>1. /\ mine \in RunIds /\ runs[mine].status = "running" /\ Syncs(runs[mine].stage)
      /\ runs' = runs
  BY IdleExecutesNothing DEF KeepSnapshots, MaintInv, ExecutorOwnsRun, HasRun, TypesInv,
     StageFits, SyncStages, Executing
<1>2. mine \in SyncAttempts /\ mine \in ActiveRuns
  BY <1>1 DEF SyncAttempts, ActiveRuns
<1>3. ASSUME NEW r \in GateRuns, r \notin ActiveRuns PROVE FALSE
  <2>1. r \in RunIds /\ mine <= r /\ r # mine /\ runs[r].status # "none"
    BY <1>2, <1>3 DEF GateRuns, SyncAttempts
  <2>2. mine < r
    BY <1>1, <2>1 DEF RunIds
  <2> QED BY <1>1, <1>2, <2>1, <2>2 DEF InOrder
<1>4. GateRuns' = GateRuns /\ ActiveRuns' = ActiveRuns
  BY <1>1 DEF GateRuns, SyncAttempts, Verified, ActiveRuns
<1> QED BY <1>3, <1>4 DEF NewestSnapshotIsStored

\* The end of a run: what it imported is stored, or it says that it is not.
LEMMA NewestAfterTheEnd ==
    ASSUME TypesInv, MaintInv, NewestSnapshotIsStored, NEW w \in Workers, SnapshotHeld(w),
           Finish(w)
    PROVE  NewestSnapshotIsStored'
<1> DEFINE mine == worker[w]
           m    == mine.run
           row  == runs[m]
<1>1. /\ RowsRest /\ m \in ActiveRuns /\ stored' = stored /\ m \in RunIds
      /\ \A r \in RunIds \ {m} : runs'[r] = runs[r]
      /\ mine \in Memories /\ row \in Runs
      /\ mine.at \in Executing
  BY FinishRows DEF Finish, ActiveRuns, TypesInv, MaintTypeOK, Executing
<1> SUFFICES ASSUME NEW r \in GateRuns', r \notin ActiveRuns', runs'[r].kept
             PROVE  runs'[r].archive \in ToSet(stored)
  BY <1>1 DEF NewestSnapshotIsStored
<1>2. /\ r \in RunIds /\ r \in SyncAttempts /\ Verified(r)' /\ \A q \in SyncAttempts : q <= r
  <2>1. r \in SyncAttempts' /\ Verified(r)' /\ \A q \in SyncAttempts' : q <= r
    BY DEF GateRuns
  <2>2. SyncAttempts' = SyncAttempts
    BY <1>1, AttemptsStay
  <2> QED BY <2>1, <2>2 DEF SyncAttempts
<1>3. CASE r # m
  <2>1. runs'[r] = runs[r]
    BY <1>1, <1>2, <1>3
  <2>2. r \in GateRuns \ ActiveRuns
    BY <1>2, <2>1 DEF GateRuns, Verified, ActiveRuns
  <2> QED BY <2>1, <2>2 DEF NewestSnapshotIsStored
<1>4. CASE r = m
  <2> DEFINE kept == IF mine.sync = "SUCCESS" /\ Syncs(row.stage) THEN WithPart1(row, mine)
                     ELSE row
             outcome == IF mine.ok THEN "done" ELSE "failed"
             after == [kept EXCEPT !.status = outcome, !.sync = mine.sync, !.find = mine.find]
  <2>1. kept \in Runs /\ runs'[m] = after
    BY <1>1, Part1RowIsWritten DEF Finish, TypesInv, MaintTypeOK
  <2>2. runs'[m].sync = "SUCCESS" /\ Syncs(row.stage)
    BY <1>1, <1>2, <1>4 DEF Verified, SyncAttempts
  <2>3. /\ runs'[m].sync = mine.sync /\ runs'[m].kept = kept.kept
        /\ runs'[m].archive = kept.archive
    <3> HIDE DEF kept
    <3> QED BY <2>1 DEF Runs
  <2>4. kept = WithPart1(row, mine)
    BY <2>2, <2>3
  <2>5. kept.archive = mine.archive /\ kept.kept = ~mine.unkept
    <3> DEFINE stays == ~mine.unkept
    <3>1. kept = [row EXCEPT !.sync = "SUCCESS", !.find = mine.find, !.archive = mine.archive,
                             !.commit = mine.commit, !.part1 = TRUE, !.kept = stays]
      BY <2>4 DEF WithPart1
    <3>2. row \in Runs
      BY <1>1
    <3> HIDE DEF stays, kept, row
    <3>3. kept.archive = mine.archive /\ kept.kept = stays
      BY <3>1, <3>2 DEF Runs
    <3> QED BY <3>3 DEF stays
  <2>6. ~mine.unkept
    BY <1>4, <2>3, <2>5
  <2> QED BY <1>1, <1>4, <2>2, <2>3, <2>5, <2>6 DEF SnapshotHeld
<1> QED BY <1>3, <1>4

LEMMA NewestStays ==
    ASSUME TypesInv, MaintInv, SnapshotInv, [MaintNext]_maintVars
    PROVE  NewestSnapshotIsStored'
<1>1. ASSUME \A w \in Workers : ~KeepSnapshots(w) PROVE stored' = stored
  BY <1>1, StoredIsTyped
<1>2. ASSUME NEW w \in Workers, KeepSnapshots(w) PROVE NewestSnapshotIsStored'
  BY <1>2, NewestWhileStoring DEF SnapshotInv
<1>3. ASSUME NEW w \in Workers, Finish(w) PROVE NewestSnapshotIsStored'
  BY <1>3, NewestAfterTheEnd DEF SnapshotInv
<1>4. ASSUME NoneEnds, stored' = stored PROVE NewestSnapshotIsStored'
  <2>1. ActiveRuns' = ActiveRuns /\ \A r \in RunIds : r \notin ActiveRuns => runs'[r] = runs[r]
    BY <1>4 DEF NoneEnds, RowsRest
  <2> QED BY <1>4, <2>1, AttemptsStay, QuietRows DEF NoneEnds, SnapshotInv
<1>5. ASSUME NEW s \in RunIds, NEW stage, NewRun(s, stage), stored' = stored
      PROVE  NewestSnapshotIsStored'
  <2>1. /\ \A q \in RunIds \ {s} : runs'[q] = runs[q]
        /\ runs'[s].status = "queued" /\ runs[s].status = "none"
    BY <1>5, RunIsQueued
  <2>2. s \in ActiveRuns' /\ SyncAttempts \subseteq SyncAttempts'
    BY <2>1 DEF ActiveRuns, SyncAttempts
  <2> QED BY <1>5, <2>1, <2>2, QuietRows DEF SnapshotInv
<1>6. CASE Request
  BY <1>5, <1>6 DEF Request, Queue, QueueAndRun
<1> QED BY <1>1, <1>2, <1>3, <1>4, <1>6, RowSteps

LEMMA SnapshotStep ==
    TypesInv /\ MaintInv /\ SnapshotInv /\ [MaintNext]_maintVars => SnapshotInv'
<1> SUFFICES ASSUME TypesInv, MaintInv, SnapshotInv, [MaintNext]_maintVars PROVE SnapshotInv'
  OBVIOUS
<1>1. \A w \in Workers : SnapshotHeld(w)'
  BY HeldByTheWorker, HeldMeanwhile DEF SnapshotInv
<1>2. InOrder'
  BY OrderStays DEF SnapshotInv
<1> QED BY <1>1, <1>2, NewestStays DEF SnapshotInv

\* The snapshot of the newest sync, once it is over and was verified, can be had from the
\* database, unless the run could not store it: whatever died, was retried or was pruned.
THEOREM NewestSnapshotIsAlwaysStored == MaintSpec => []NewestSnapshotIsStored
<1>1. MaintInit => MaintInv /\ TypesInv /\ SnapshotInv
  <2>1. ASSUME MaintInit PROVE SnapshotInv
    <3>1. \A r \in RunIds : runs[r].status = "none"
      BY <2>1, NoRunIsRun DEF MaintInit
    <3>2. \A w \in Workers : worker[w].at \notin Executing
      BY <2>1, IdleIsMemory, IdleExecutesNothing DEF MaintInit
    <3>3. InOrder /\ NewestSnapshotIsStored
      BY <3>1 DEF InOrder, NewestSnapshotIsStored, GateRuns, SyncAttempts
    <3>4. \A w \in Workers : SnapshotHeld(w)
      BY <3>2 DEF SnapshotHeld, UnstoredStages, Executing
    <3> QED BY <3>3, <3>4 DEF SnapshotInv
  <2> QED BY <2>1, MaintInitially, TypesInitially
<1>2. MaintInv /\ TypesInv /\ SnapshotInv /\ [MaintNext]_maintVars
      => MaintInv' /\ TypesInv' /\ SnapshotInv'
  BY MaintStep, TypesStep, SnapshotStep
<1>3. SnapshotInv => NewestSnapshotIsStored
  BY DEF SnapshotInv
<1> QED BY <1>1, <1>2, <1>3, PTL DEF MaintSpec

-----------------------------------------------------------------------------
(***************************************************************************)
(* The entry checks, for any number of records, values and pods.           *)
(***************************************************************************)
RunRow == [status : RunStatuses, revision : 0 .. MaxEdits + 1,
           recent : BOOLEAN, today : BOOLEAN, asked : BOOLEAN]
CheckerState == [at : {"idle", "wants", "checking"}, forced : BOOLEAN,
                 read : [Entries -> EntryValues], revision : 0 .. MaxEdits + 1]

\* Whoever checks a part holds its lock, and the part's last row is its own.
CheckersOwnTheirRow ==
    \A p \in Pods, part \in Parts : At(p, part, "checking") =>
        /\ checkLock[part] = p
        /\ Len(checkRuns[part]) \in DOMAIN checkRuns[part]
        /\ checkRuns[part][Len(checkRuns[part])].status = "running"

\* A snapshot under check is of an earlier revision, or it is the dataset.
SnapshotsAreOld ==
    \A p \in Pods : At(p, "structural", "checking") =>
        /\ checker[<<p, "structural">>].revision <= revision
        /\ checker[<<p, "structural">>].revision = revision =>
               checker[<<p, "structural">>].read = entry

\* The last revision checked is a finished row's, and none that is still to come.
CheckedIsPast ==
    LET rows == checkRuns["structural"]
    IN  /\ Finished(rows) # {} => LastChecked(rows) \in Finished(rows)
        /\ RevisionIn(rows) <= revision

\* A network run that nobody asked for has none of the same day before it.
Counts(row) == row.today /\ ~row.asked /\ row.status \in {"finished", "failed"}
NobodyElseToday ==
    LET rows == checkRuns["network"]
    IN  /\ \A i, j \in DOMAIN rows : Counts(rows[i]) /\ Counts(rows[j]) => i = j
        /\ \A p \in Pods : At(p, "network", "checking") /\ ~rows[Len(rows)].asked =>
               \A i \in DOMAIN rows : ~Counts(rows[i])

ChecksInv ==
    /\ ChecksTypeOK /\ CheckersOwnTheirRow /\ SnapshotsAreOld /\ CheckedIsPast
    /\ NobodyElseToday /\ OpenFindingsAreCurrent

LEMMA ChecksParts ==
    ASSUME ChecksTypeOK
    PROVE  /\ checkRuns \in [Parts -> Seq(RunRow)]
           /\ checker \in [Pods \X Parts -> CheckerState]
           /\ checkLock \in [Parts -> Pods \cup {NoPod}]
           /\ entry \in [Entries -> EntryValues] /\ revision \in 1 .. MaxEdits + 1
           /\ finding \in [Findings -> {"never", "open", "resolved"}]
BY DEF ChecksTypeOK, RunRow, CheckerState

LEMMA SleepingIsAState == Sleeping \in CheckerState /\ Sleeping.at = "idle"
BY ChecksAssumption DEF ChecksAssumption, Sleeping, CheckerState, EntryValues

LEMMA ChecksInitially == ChecksInit => ChecksInv
<1> SUFFICES ASSUME ChecksInit PROVE ChecksInv
  OBVIOUS
<1>1. ChecksTypeOK
  BY SleepingIsAState, ChecksAssumption DEF ChecksAssumption, ChecksInit, ChecksTypeOK, CheckerState
<1>2. \A p \in Pods, part \in Parts : ~At(p, part, "checking")
  BY SleepingIsAState DEF ChecksInit, At
<1>3. \A part \in Parts : checkRuns[part] = <<>>
  BY DEF ChecksInit
<1>4. RevisionIn(checkRuns["structural"]) = 0 /\ Finished(checkRuns["structural"]) = {}
  BY <1>3 DEF RevisionIn, LastChecked, Finished, Parts
<1>5. CheckersOwnTheirRow /\ SnapshotsAreOld /\ NobodyElseToday
  BY <1>2, <1>3 DEF CheckersOwnTheirRow, SnapshotsAreOld, NobodyElseToday, Parts
<1>6. CheckedIsPast /\ OpenFindingsAreCurrent
  BY <1>4 DEF ChecksInit, CheckedIsPast, OpenFindingsAreCurrent, CheckedRevision
<1> QED BY <1>1, <1>5, <1>6 DEF ChecksInv

\* Rows that only age or are marked as abandoned: what counts as checked stays.
Ages(old, new) ==
    /\ DOMAIN new = DOMAIN old /\ Len(new) = Len(old)
    /\ \A i \in DOMAIN old :
          /\ new[i].revision = old[i].revision /\ new[i].asked = old[i].asked
          /\ new[i].today => old[i].today
          /\ \/ new[i].status = old[i].status
             \/ old[i].status = "running" /\ new[i].status = "abandoned"

LEMMA AgingKeeps ==
    ASSUME NEW old, NEW new, Ages(old, new)
    PROVE  /\ Finished(new) = Finished(old) /\ LastChecked(new) = LastChecked(old)
           /\ (Finished(old) # {} => LastChecked(old) \in Finished(old)) =>
                  RevisionIn(new) = RevisionIn(old)
           /\ \A i \in DOMAIN old : Counts(new[i]) => Counts(old[i])
<1>1. Finished(new) = Finished(old)
  BY DEF Ages, Finished
<1>2. LastChecked(new) = LastChecked(old)
  BY <1>1 DEF LastChecked
<1>3. ASSUME Finished(old) # {} => LastChecked(old) \in Finished(old)
      PROVE  RevisionIn(new) = RevisionIn(old)
  <2>1. CASE LastChecked(old) = 0
    BY <1>2, <2>1 DEF RevisionIn
  <2>2. CASE LastChecked(old) # 0
    <3>1. LastChecked(old) \in DOMAIN old
      BY <1>3, <2>2 DEF LastChecked, Finished
    <3> QED BY <1>2, <3>1 DEF RevisionIn, Ages
  <2> QED BY <2>1, <2>2
<1>4. \A i \in DOMAIN old : Counts(new[i]) => Counts(old[i])
  BY DEF Ages, Counts
<1> QED BY <1>1, <1>2, <1>3, <1>4

\* A step that stores no finding and moves no revision, and in which nobody who checks
\* loses his place.
LEMMA QuietStep ==
    ASSUME ChecksInv, ChecksTypeOK', UNCHANGED <<entry, revision, finding>>,
           \A part \in Parts : Ages(checkRuns[part], checkRuns'[part]),
           \A p \in Pods, part \in Parts : checker'[<<p, part>>].at = "checking" =>
               /\ checker'[<<p, part>>] = checker[<<p, part>>]
               /\ checkLock'[part] = checkLock[part]
               /\ \A i \in DOMAIN checkRuns[part] :
                     checkRuns'[part][i].status = checkRuns[part][i].status
    PROVE  ChecksInv'
<1> DEFINE rows(part) == checkRuns[part]
<1>0. "structural" \in Parts /\ "network" \in Parts
  BY DEF Parts
<1>1. \A part \in Parts : /\ DOMAIN checkRuns'[part] = DOMAIN checkRuns[part]
                          /\ Len(checkRuns'[part]) = Len(checkRuns[part])
  BY DEF Ages
<1>2. CheckersOwnTheirRow'
  BY <1>1 DEF ChecksInv, CheckersOwnTheirRow, At
<1>3. SnapshotsAreOld'
  BY <1>0 DEF ChecksInv, SnapshotsAreOld, At
<1>4. RevisionIn(checkRuns'["structural"]) = RevisionIn(checkRuns["structural"]) /\ CheckedIsPast'
  BY <1>0, AgingKeeps DEF ChecksInv, CheckedIsPast
<1>5. OpenFindingsAreCurrent'
  BY <1>4 DEF ChecksInv, OpenFindingsAreCurrent, CheckedRevision
<1>6. NobodyElseToday'
  <2>1. \A i \in DOMAIN checkRuns["network"] :
            Counts(checkRuns'["network"][i]) => Counts(checkRuns["network"][i])
    BY <1>0, AgingKeeps
  <2>2. ASSUME NEW p \in Pods, At(p, "network", "checking")',
               ~checkRuns'["network"][Len(checkRuns'["network"])].asked
        PROVE  \A i \in DOMAIN checkRuns["network"] : ~Counts(checkRuns["network"][i])
    <3>1. At(p, "network", "checking")
      BY <1>0, <2>2 DEF At
    <3>2. Len(checkRuns["network"]) \in DOMAIN checkRuns["network"]
      BY <1>0, <3>1 DEF ChecksInv, CheckersOwnTheirRow
    <3>3. ~checkRuns["network"][Len(checkRuns["network"])].asked
      BY <1>0, <1>1, <2>2, <3>2 DEF Ages
    <3> QED BY <3>1, <3>3 DEF ChecksInv, NobodyElseToday
  <2>3. \A i, j \in DOMAIN checkRuns["network"] :
            Counts(checkRuns["network"][i]) /\ Counts(checkRuns["network"][j]) => i = j
    BY DEF ChecksInv, NobodyElseToday
  <2> QED BY <1>0, <1>1, <2>1, <2>2, <2>3 DEF NobodyElseToday
<1> QED BY <1>2, <1>3, <1>4, <1>5, <1>6 DEF ChecksInv

\* What a pod's move to another place leaves.
LEMMA StepToMoves ==
    ASSUME ChecksTypeOK, NEW p \in Pods, NEW part \in Parts, NEW state \in CheckerState,
           StepTo(p, part, state)
    PROVE  /\ checker' \in [Pods \X Parts -> CheckerState]
           /\ checker'[<<p, part>>] = state
           /\ \A q \in Pods, other \in Parts :
                 q # p \/ other # part => checker'[<<q, other>>] = checker[<<q, other>>]
<1>1. checker \in [Pods \X Parts -> CheckerState]
  BY ChecksParts
<1>2. checker' = [checker EXCEPT ![<<p, part>>] = state]
  BY DEF StepTo
<1> QED BY <1>1, <1>2

LEMMA RowsAreASequence ==
    ASSUME NEW n \in Nat, NEW f \in [1 .. n -> RunRow]
    PROVE  f \in Seq(RunRow) /\ Len(f) = n /\ DOMAIN f = 1 .. n
OBVIOUS

\* Rows whose runs were abandoned have only aged.
LEMMA AbandonedAges ==
    ASSUME NEW old \in Seq(RunRow)
    PROVE  Abandoned(old) \in Seq(RunRow) /\ Ages(old, Abandoned(old))
<1>1. ASSUME NEW i \in DOMAIN old
      PROVE  /\ Abandoned(old)[i] \in RunRow
             /\ Abandoned(old)[i].revision = old[i].revision
             /\ Abandoned(old)[i].asked = old[i].asked
             /\ Abandoned(old)[i].today => old[i].today
             /\ \/ Abandoned(old)[i].status = old[i].status
                \/ old[i].status = "running" /\ Abandoned(old)[i].status = "abandoned"
  <2>1. PICK row \in RunRow : row = old[i]
    BY ElementOfSeq
  <2>2. CASE row.status # "running"
    BY <2>1, <2>2 DEF Abandoned
  <2>3. CASE row.status = "running"
    <3> DEFINE marked == [row EXCEPT !.status = "abandoned"]
               stale == [marked EXCEPT !.recent = FALSE]
               left == [stale EXCEPT !.today = FALSE]
    <3>1. Abandoned(old)[i] = left
      BY <2>1, <2>3 DEF Abandoned
    <3>2. marked \in RunRow /\ marked.revision = row.revision /\ marked.asked = row.asked
          /\ marked.status = "abandoned"
      BY DEF RunRow, RunStatuses
    <3> HIDE DEF marked
    <3>3. stale \in RunRow /\ stale.revision = row.revision /\ stale.asked = row.asked
          /\ stale.status = "abandoned"
      BY <3>2 DEF RunRow
    <3> HIDE DEF stale
    <3>4. left \in RunRow /\ left.revision = row.revision /\ left.asked = row.asked
          /\ left.status = "abandoned" /\ ~left.today
      BY <3>3 DEF RunRow
    <3> QED BY <2>1, <2>3, <3>1, <3>4
  <2> QED BY <2>2, <2>3
<1>2. Abandoned(old) = [i \in 1 .. Len(old) |-> Abandoned(old)[i]]
  BY DEF Abandoned
<1>3. Len(old) \in Nat /\ DOMAIN old = 1 .. Len(old)
  BY LenProperties
<1>4. Abandoned(old) \in [1 .. Len(old) -> RunRow]
  BY <1>1, <1>2, <1>3
<1> HIDE DEF Abandoned
<1>5. Abandoned(old) \in Seq(RunRow) /\ Len(Abandoned(old)) = Len(old)
      /\ DOMAIN Abandoned(old) = DOMAIN old
  BY <1>3, <1>4, RowsAreASequence
<1> QED BY <1>1, <1>5 DEF Ages

LEMMA SameAges ==
    ASSUME NEW rows \in Seq(RunRow) PROVE Ages(rows, rows)
BY DEF Ages

\* The steps of a pod that is not at the end of a check.
LEMMA WaitingKeeps ==
    ASSUME ChecksInv, NEW p \in Pods, NEW part \in Parts,
           Wants(p, part) \/ Command(p, part) \/ NotDueAnyMore(p, part) \/ LockIsTaken(p, part)
           \/ Vanish(p, part)
    PROVE  ChecksInv'
<1>0. ChecksTypeOK /\ checkRuns \in [Parts -> Seq(RunRow)]
      /\ checkLock \in [Parts -> Pods \cup {NoPod}]
  BY ChecksParts DEF ChecksInv
<1> DEFINE wants(forced) == [[Sleeping EXCEPT !.at = "wants"] EXCEPT !.forced = forced]
<1>1. \A forced \in BOOLEAN : wants(forced) \in CheckerState /\ wants(forced).at = "wants"
  <2> DEFINE awake == [Sleeping EXCEPT !.at = "wants"]
  <2>1. awake \in CheckerState /\ awake.at = "wants"
    BY SleepingIsAState DEF CheckerState
  <2> HIDE DEF awake
  <2>2. \A forced \in BOOLEAN : [awake EXCEPT !.forced = forced] \in CheckerState
                                /\ [awake EXCEPT !.forced = forced].at = "wants"
    BY <2>1 DEF CheckerState
  <2> QED BY <2>2 DEF awake
<1>2. PICK state \in CheckerState : StepTo(p, part, state) /\ state.at # "checking"
  <2>1. CASE Wants(p, part)
    <3>1. [Sleeping EXCEPT !.at = "wants"] \in CheckerState
          /\ [Sleeping EXCEPT !.at = "wants"].at = "wants"
      BY SleepingIsAState DEF CheckerState
    <3> QED BY <2>1, <3>1 DEF Wants
  <2>2. CASE Command(p, part)
    <3>1. [Sleeping EXCEPT !.at = "wants", !.forced = TRUE] = wants(TRUE)
      OBVIOUS
    <3> QED BY <1>1, <2>2, <3>1 DEF Command
  <2>3. CASE NotDueAnyMore(p, part) \/ LockIsTaken(p, part) \/ Vanish(p, part)
    BY <2>3, SleepingIsAState DEF NotDueAnyMore, LockIsTaken, Vanish
  <2> QED BY <2>1, <2>2, <2>3
<1>3. /\ checker' \in [Pods \X Parts -> CheckerState]
      /\ checker'[<<p, part>>].at # "checking"
      /\ \A q \in Pods, other \in Parts :
            q # p \/ other # part => checker'[<<q, other>>] = checker[<<q, other>>]
  BY <1>0, <1>2, StepToMoves
<1>4. UNCHANGED <<entry, revision, finding, dismissed>>
  BY DEF Wants, Command, NotDueAnyMore, LockIsTaken, Vanish
<1>5. \/ checkRuns' = checkRuns
      \/ /\ checkRuns' = [checkRuns EXCEPT ![part] = Abandoned(checkRuns[part])]
         /\ checkLock[part] = NoPod
  BY DEF Wants, Command, NotDueAnyMore, LockIsTaken, Vanish
<1>6. \/ checkLock' = checkLock
      \/ checkLock' = [checkLock EXCEPT ![part] = NoPod] /\ checkLock[part] = p
  BY DEF Wants, Command, NotDueAnyMore, LockIsTaken, Vanish, ChecksInv, CheckersOwnTheirRow
<1>7. /\ checkRuns' \in [Parts -> Seq(RunRow)]
      /\ \A other \in Parts : Ages(checkRuns[other], checkRuns'[other])
      /\ \A other \in Parts : other # part \/ checkLock[part] # NoPod =>
            checkRuns'[other] = checkRuns[other]
  BY <1>0, <1>5, AbandonedAges, SameAges
<1>8. checkLock' \in [Parts -> Pods \cup {NoPod}]
  BY <1>0, <1>6
<1>9. ChecksTypeOK'
  BY <1>0, <1>3, <1>4, <1>7, <1>8 DEF ChecksTypeOK, RunRow, CheckerState
<1>10. ASSUME NEW q \in Pods, NEW other \in Parts, checker'[<<q, other>>].at = "checking"
       PROVE  /\ checker'[<<q, other>>] = checker[<<q, other>>]
              /\ checkLock'[other] = checkLock[other]
              /\ \A i \in DOMAIN checkRuns[other] :
                    checkRuns'[other][i].status = checkRuns[other][i].status
  <2>1. checker'[<<q, other>>] = checker[<<q, other>>] /\ (q # p \/ other # part)
    BY <1>3, <1>10
  <2>2. checkLock[other] = q /\ q # NoPod
    BY <1>10, <2>1, ChecksAssumption DEF ChecksAssumption, ChecksInv, CheckersOwnTheirRow, At
  <2> QED BY <1>0, <1>6, <1>7, <2>1, <2>2
<1> QED BY <1>4, <1>7, <1>9, <1>10, QuietStep

\* An hour or a day passes: rows are no longer recent or of today.
LEMMA ClockKeeps ==
    ASSUME ChecksInv,
           \/ DayPasses
           \/ \E part \in Parts : \E i \in DOMAIN checkRuns[part] : CheckHourPasses(part, i)
    PROVE  ChecksInv'
<1>0. ChecksTypeOK /\ checkRuns \in [Parts -> Seq(RunRow)]
  BY ChecksParts DEF ChecksInv
<1>1. UNCHANGED <<entry, revision, checkLock, checker, finding, dismissed>>
  BY DEF DayPasses, CheckHourPasses
<1>2. ASSUME NEW part \in Parts
      PROVE  /\ checkRuns'[part] \in Seq(RunRow) /\ Ages(checkRuns[part], checkRuns'[part])
             /\ \A i \in DOMAIN checkRuns[part] :
                   checkRuns'[part][i].status = checkRuns[part][i].status
  <2> DEFINE rows == checkRuns[part]
  <2>1. rows \in Seq(RunRow) /\ Len(rows) \in Nat /\ DOMAIN rows = 1 .. Len(rows)
    BY <1>0, LenProperties
  <2>2. \A i \in DOMAIN rows : rows[i] \in RunRow
    BY <2>1, ElementOfSeq
  <2>3. CASE DayPasses
    <3> DEFINE stale(row) == [[row EXCEPT !.today = FALSE] EXCEPT !.recent = FALSE]
               aged == [i \in DOMAIN rows |-> stale(rows[i])]
    <3>1. checkRuns'[part] = [i \in DOMAIN rows |->
                                [rows[i] EXCEPT !.today = FALSE, !.recent = FALSE]]
      BY <2>3 DEF DayPasses
    <3>2. ASSUME NEW row \in RunRow
          PROVE  /\ stale(row) \in RunRow /\ ~stale(row).today
                 /\ stale(row).status = row.status /\ stale(row).revision = row.revision
                 /\ stale(row).asked = row.asked
      <4> DEFINE old == [row EXCEPT !.today = FALSE]
      <4>1. /\ old \in RunRow /\ ~old.today /\ old.status = row.status
            /\ old.revision = row.revision /\ old.asked = row.asked
        BY DEF RunRow
      <4> HIDE DEF old
      <4>2. LET new == [old EXCEPT !.recent = FALSE]
            IN  /\ new \in RunRow /\ ~new.today /\ new.status = row.status
                /\ new.revision = row.revision /\ new.asked = row.asked
        BY <4>1 DEF RunRow
      <4> QED BY <4>2 DEF old
    <3>3. checkRuns'[part] = aged
      BY <3>1
    <3> HIDE DEF stale
    <3>4. aged \in [1 .. Len(rows) -> RunRow]
      BY <2>1, <2>2, <3>2
    <3>5. aged \in Seq(RunRow) /\ Len(aged) = Len(rows) /\ DOMAIN aged = DOMAIN rows
      BY <2>1, <3>4, RowsAreASequence
    <3> QED BY <2>2, <3>2, <3>3, <3>5 DEF Ages
  <2>4. ASSUME NEW other \in Parts, NEW i \in DOMAIN checkRuns[other], CheckHourPasses(other, i)
        PROVE  /\ checkRuns'[part] \in Seq(RunRow) /\ Ages(checkRuns[part], checkRuns'[part])
               /\ \A j \in DOMAIN checkRuns[part] :
                     checkRuns'[part][j].status = checkRuns[part][j].status
    <3>1. CASE other # part
      <4>1. checkRuns'[part] = rows
        BY <1>0, <2>4, <3>1 DEF CheckHourPasses
      <4> QED BY <2>1, <4>1, SameAges
    <3>2. CASE other = part
      <4> DEFINE stale == [rows[i] EXCEPT !.recent = FALSE]
                 new == [rows EXCEPT ![i] = stale]
      <4>1. checkRuns'[part] = new
        BY <1>0, <2>4, <3>2 DEF CheckHourPasses
      <4>2. PICK row \in RunRow : row = rows[i]
        BY <2>2, <3>2
      <4>3. /\ stale \in RunRow /\ stale.today = row.today /\ stale.status = row.status
            /\ stale.revision = row.revision /\ stale.asked = row.asked
        BY <4>2 DEF RunRow
      <4> HIDE DEF stale
      <4>4. /\ new \in Seq(RunRow) /\ Len(new) = Len(rows)
            /\ \A j \in DOMAIN rows : new[j] = IF j = i THEN stale ELSE rows[j]
        BY <2>1, <2>4, <3>2, <4>3, ExceptSeq
      <4>5. DOMAIN new = DOMAIN rows
        OBVIOUS
      <4> QED BY <4>1, <4>2, <4>3, <4>4, <4>5 DEF Ages
    <3> QED BY <3>1, <3>2
  <2> QED BY <2>3, <2>4
<1>3. checkRuns' \in [Parts -> Seq(RunRow)]
  <2>1. checkRuns' = [part \in Parts |-> checkRuns'[part]]
    BY <1>0 DEF DayPasses, CheckHourPasses
  <2> QED BY <1>2, <2>1
<1>4. ChecksTypeOK'
  BY <1>0, <1>1, <1>3 DEF ChecksTypeOK, RunRow
<1>5. \A p \in Pods, part \in Parts :
          /\ checker'[<<p, part>>] = checker[<<p, part>>] /\ checkLock'[part] = checkLock[part]
          /\ \A i \in DOMAIN checkRuns[part] :
                checkRuns'[part][i].status = checkRuns[part][i].status
  BY <1>1, <1>2
<1>6. \A part \in Parts : Ages(checkRuns[part], checkRuns'[part])
  BY <1>2
<1> QED BY <1>1, <1>4, <1>5, <1>6, QuietStep

\* A run starts: whoever starts it is alone, on what the dataset is now.
LEMMA CheckStartKeeps ==
    ASSUME ChecksInv, NEW p \in Pods, NEW part \in Parts, StartRun(p, part)
    PROVE  ChecksInv'
<1> DEFINE old == checkRuns[part]
           kept == Abandoned(old)
           forced == checker[<<p, part>>].forced
           row == StartedRow(part, forced)
           new == Append(kept, row)
           here == [checker[<<p, part>>] EXCEPT !.at = "checking"]
           saw == [here EXCEPT !.read = entry]
           state == [saw EXCEPT !.revision = revision]
<1>0. /\ ChecksTypeOK /\ checkRuns \in [Parts -> Seq(RunRow)]
      /\ checkLock \in [Parts -> Pods \cup {NoPod}]
      /\ entry \in [Entries -> EntryValues] /\ revision \in 0 .. MaxEdits + 1
      /\ checker[<<p, part>>] \in CheckerState
  BY ChecksParts, ChecksAssumption DEF ChecksAssumption, ChecksInv
<1>1. /\ checkLock[part] = NoPod /\ checkLock' = [checkLock EXCEPT ![part] = p]
      /\ checkRuns' = [checkRuns EXCEPT ![part] = new]
      /\ StepTo(p, part, state) /\ StillDue(p, part)
      /\ UNCHANGED <<entry, revision, finding, dismissed>>
  BY DEF StartRun
<1>2. row \in RunRow /\ row.status = "running" /\ row.asked = (part = "network" /\ forced)
  BY <1>0, ChecksAssumption
     DEF ChecksAssumption, StartedRow, RunRow, RunStatuses, CheckerState
<1>3. state \in CheckerState /\ state.at = "checking" /\ state.read = entry
      /\ state.revision = revision
  <2>1. here \in CheckerState /\ here.at = "checking"
    BY <1>0 DEF CheckerState
  <2> HIDE DEF here
  <2>2. saw \in CheckerState /\ saw.at = "checking" /\ saw.read = entry
    BY <1>0, <2>1 DEF CheckerState
  <2> HIDE DEF saw
  <2> QED BY <1>0, <2>2 DEF CheckerState
<1> HIDE DEF state
<1>4. kept \in Seq(RunRow) /\ Ages(old, kept) /\ old \in Seq(RunRow)
  BY <1>0, AbandonedAges
<1> HIDE DEF row, kept
<1>5. /\ new \in Seq(RunRow) /\ Len(new) = Len(kept) + 1 /\ Len(kept) \in Nat
      /\ DOMAIN kept = 1 .. Len(kept) /\ DOMAIN new = 1 .. Len(kept) + 1
      /\ \A i \in DOMAIN kept : new[i] = kept[i]
      /\ new[Len(new)] = row
  BY <1>2, <1>4, AppendProperties, LenProperties
<1> HIDE DEF new
<1>6. /\ checker' \in [Pods \X Parts -> CheckerState] /\ checker'[<<p, part>>] = state
      /\ \A q \in Pods, other \in Parts :
            q # p \/ other # part => checker'[<<q, other>>] = checker[<<q, other>>]
  BY <1>0, <1>1, <1>3, StepToMoves
<1>7. /\ checkRuns' \in [Parts -> Seq(RunRow)] /\ checkRuns'[part] = new
      /\ \A other \in Parts : other # part => checkRuns'[other] = checkRuns[other]
      /\ checkLock' \in [Parts -> Pods \cup {NoPod}] /\ checkLock'[part] = p
      /\ \A other \in Parts : other # part => checkLock'[other] = checkLock[other]
  BY <1>0, <1>1, <1>5
<1>8. ChecksTypeOK'
  BY <1>0, <1>1, <1>6, <1>7 DEF ChecksTypeOK, RunRow, CheckerState
<1>9. \A q \in Pods : ~At(q, part, "checking")
  BY <1>1, ChecksAssumption DEF ChecksAssumption, ChecksInv, CheckersOwnTheirRow
<1>10. CheckersOwnTheirRow'
  <2>1. ASSUME NEW q \in Pods, NEW other \in Parts, checker'[<<q, other>>].at = "checking"
        PROVE  /\ checkLock'[other] = q
               /\ Len(checkRuns'[other]) \in DOMAIN checkRuns'[other]
               /\ checkRuns'[other][Len(checkRuns'[other])].status = "running"
    <3>1. CASE other = part
      <4>1. q = p
        BY <1>6, <1>9, <2>1, <3>1 DEF At
      <4> QED BY <1>2, <1>5, <1>7, <3>1, <4>1
    <3>2. CASE other # part
      <4>1. At(q, other, "checking") /\ checkLock'[other] = checkLock[other]
            /\ checkRuns'[other] = checkRuns[other]
        BY <1>6, <1>7, <2>1, <3>2 DEF At
      <4> QED BY <4>1 DEF ChecksInv, CheckersOwnTheirRow
    <3> QED BY <3>1, <3>2
  <2> QED BY <2>1 DEF CheckersOwnTheirRow, At
<1>11. SnapshotsAreOld'
  <2>1. "structural" \in Parts
    BY DEF Parts
  <2>2. ASSUME NEW q \in Pods, checker'[<<q, "structural">>].at = "checking"
        PROVE  /\ checker'[<<q, "structural">>].revision <= revision
               /\ checker'[<<q, "structural">>].revision = revision =>
                      checker'[<<q, "structural">>].read = entry
    <3>1. CASE q = p /\ part = "structural"
      BY <1>0, <1>3, <1>6, <3>1
    <3>2. CASE ~(q = p /\ part = "structural")
      BY <1>6, <2>1, <2>2, <3>2 DEF ChecksInv, SnapshotsAreOld, At
    <3> QED BY <3>1, <3>2
  <2> QED BY <1>1, <2>2 DEF SnapshotsAreOld, At
<1>12. /\ Finished(new) = Finished(kept) /\ LastChecked(new) = LastChecked(kept)
       /\ (Finished(kept) # {} => LastChecked(kept) \in Finished(kept)) =>
              RevisionIn(new) = RevisionIn(kept)
  <2>1. Finished(new) = Finished(kept)
    BY <1>2, <1>5 DEF Finished
  <2>2. LastChecked(new) = LastChecked(kept)
    BY <2>1 DEF LastChecked
  <2>3. ASSUME Finished(kept) # {} => LastChecked(kept) \in Finished(kept)
        PROVE  RevisionIn(new) = RevisionIn(kept)
    <3>1. CASE LastChecked(kept) = 0
      BY <2>2, <3>1 DEF RevisionIn
    <3>2. CASE LastChecked(kept) # 0
      <4>1. LastChecked(kept) \in DOMAIN kept
        BY <2>3, <3>2 DEF LastChecked, Finished
      <4> QED BY <1>5, <2>2, <4>1 DEF RevisionIn
    <3> QED BY <3>1, <3>2
  <2> QED BY <2>1, <2>2, <2>3
<1>13. /\ CheckedIsPast'
       /\ RevisionIn(checkRuns'["structural"]) = RevisionIn(checkRuns["structural"])
  <2>1. "structural" \in Parts
    BY DEF Parts
  <2>2. CASE part = "structural"
    <3>1. Finished(old) # {} => LastChecked(old) \in Finished(old)
      BY <2>2 DEF ChecksInv, CheckedIsPast
    <3>2. /\ Finished(kept) = Finished(old) /\ LastChecked(kept) = LastChecked(old)
          /\ RevisionIn(kept) = RevisionIn(old)
      BY <1>4, <3>1, AgingKeeps
    <3>3. RevisionIn(new) = RevisionIn(old)
      BY <1>12, <3>1, <3>2
    <3> QED BY <1>1, <1>7, <1>12, <2>2, <3>2, <3>3 DEF ChecksInv, CheckedIsPast
  <2>3. CASE part # "structural"
    BY <1>1, <1>7, <2>1, <2>3 DEF ChecksInv, CheckedIsPast
  <2> QED BY <2>2, <2>3
<1>14. OpenFindingsAreCurrent'
  BY <1>1, <1>13 DEF ChecksInv, OpenFindingsAreCurrent, CheckedRevision
<1>15. NobodyElseToday'
  <2>1. "network" \in Parts
    BY DEF Parts
  <2>2. CASE part # "network"
    BY <1>6, <1>7, <2>1, <2>2 DEF ChecksInv, NobodyElseToday, At
  <2>3. CASE part = "network"
    <3>0. ~Counts(row)
      BY <1>2 DEF Counts
    <3>1. \A i \in DOMAIN old : Counts(kept[i]) => Counts(old[i])
      BY <1>4, AgingKeeps
    <3>2. DOMAIN kept = DOMAIN old
      BY <1>4 DEF Ages
    <3>3. ASSUME NEW i \in DOMAIN new, Counts(new[i])
          PROVE  i \in DOMAIN kept /\ Counts(kept[i]) /\ i \in DOMAIN old /\ Counts(old[i])
      BY <1>5, <3>0, <3>1, <3>2, <3>3
    <3>4. \A i, j \in DOMAIN new : Counts(new[i]) /\ Counts(new[j]) => i = j
      BY <2>3, <3>3 DEF ChecksInv, NobodyElseToday
    <3>5. ASSUME ~row.asked, NEW i \in DOMAIN new, Counts(new[i]) PROVE FALSE
      <4>1. Due("network", kept)
        BY <1>1, <1>2, <2>3, <3>5 DEF StillDue, kept
      <4>2. ~NetworkToday(kept)
        BY <4>1 DEF Due
      <4> QED BY <3>3, <3>5, <4>2 DEF NetworkToday, Counts
    <3> QED BY <1>5, <1>7, <2>3, <3>4, <3>5 DEF NobodyElseToday
  <2> QED BY <2>2, <2>3
<1> QED BY <1>8, <1>10, <1>11, <1>13, <1>14, <1>15 DEF ChecksInv

\* The end of a run: its row is finished at the revision it read, or failed.
LEMMA EndRowEnds ==
    ASSUME ChecksInv, NEW p \in Pods, NEW part \in Parts, At(p, part, "checking"),
           NEW status \in {"finished", "failed"}, NEW checked \in 0 .. MaxEdits + 1,
           EndRow(part, status, checked), checkLock' = [checkLock EXCEPT ![part] = NoPod],
           StepTo(p, part, Sleeping), UNCHANGED <<entry, revision, dismissed>>,
           finding' \in [Findings -> {"never", "open", "resolved"}]
    PROVE  /\ ChecksTypeOK' /\ CheckersOwnTheirRow' /\ SnapshotsAreOld' /\ NobodyElseToday'
           /\ \A other \in Parts : other # part => checkRuns'[other] = checkRuns[other]
           /\ LET old == checkRuns[part]
                  new == checkRuns'[part]
              IN  /\ DOMAIN new = DOMAIN old
                  /\ Len(old) \in DOMAIN old /\ \A i \in DOMAIN old : i <= Len(old)
                  /\ \A i \in DOMAIN old : i \in Nat /\ (i # Len(old) => new[i] = old[i])
                  /\ old[Len(old)].status = "running"
                  /\ new[Len(old)].status = status /\ new[Len(old)].revision = checked
<1> DEFINE old == checkRuns[part]
           last == Len(old)
           ended == [old[last] EXCEPT !.status = status, !.revision = checked,
                                      !.recent = old[last].recent /\ status = "failed"]
           new == [old EXCEPT ![last] = ended]
<1>0. /\ ChecksTypeOK /\ checkRuns \in [Parts -> Seq(RunRow)]
      /\ checkLock \in [Parts -> Pods \cup {NoPod}] /\ old \in Seq(RunRow)
  BY ChecksParts DEF ChecksInv
<1>1. /\ checkLock[part] = p /\ last \in DOMAIN old /\ old[last].status = "running"
      /\ last \in Nat /\ DOMAIN old = 1 .. last
  BY <1>0, LenProperties DEF ChecksInv, CheckersOwnTheirRow
<1>2. PICK row \in RunRow : row = old[last]
  BY <1>0, <1>1, ElementOfSeq
<1>3. /\ ended \in RunRow /\ ended.status = status /\ ended.revision = checked
      /\ ended.today = row.today /\ ended.asked = row.asked
  <2> DEFINE a == [row EXCEPT !.status = status]
             b == [a EXCEPT !.revision = checked]
             c == [b EXCEPT !.recent = row.recent /\ status = "failed"]
  <2>1. /\ a \in RunRow /\ a.status = status /\ a.today = row.today /\ a.asked = row.asked
    BY DEF RunRow, RunStatuses
  <2> HIDE DEF a
  <2>2. /\ b \in RunRow /\ b.status = status /\ b.revision = checked /\ b.today = row.today
        /\ b.asked = row.asked
    BY <2>1 DEF RunRow
  <2>3. ended = c
    BY <1>2 DEF a
  <2> HIDE DEF b
  <2>4. row.recent \in BOOLEAN /\ (row.recent /\ status = "failed") \in BOOLEAN
    BY DEF RunRow
  <2>5. /\ c \in RunRow /\ c.status = status /\ c.revision = checked /\ c.today = row.today
        /\ c.asked = row.asked
    BY <2>2, <2>4 DEF RunRow
  <2> QED BY <2>3, <2>5
<1>4. checkRuns' = [checkRuns EXCEPT ![part] = new]
  BY DEF EndRow
<1> HIDE DEF ended
<1>5. /\ new \in Seq(RunRow) /\ Len(new) = last /\ DOMAIN new = DOMAIN old
      /\ \A i \in DOMAIN old : new[i] = IF i = last THEN ended ELSE old[i]
  BY <1>0, <1>1, <1>3, ExceptSeq
<1> HIDE DEF new
<1>6. /\ checkRuns' \in [Parts -> Seq(RunRow)] /\ checkRuns'[part] = new
      /\ \A other \in Parts : other # part => checkRuns'[other] = checkRuns[other]
      /\ checkLock' \in [Parts -> Pods \cup {NoPod}]
      /\ \A other \in Parts : other # part => checkLock'[other] = checkLock[other]
  BY <1>0, <1>4, <1>5
<1>7. /\ checker' \in [Pods \X Parts -> CheckerState] /\ checker'[<<p, part>>].at # "checking"
      /\ \A q \in Pods, other \in Parts :
            q # p \/ other # part => checker'[<<q, other>>] = checker[<<q, other>>]
  BY <1>0, SleepingIsAState, StepToMoves
<1>8. ChecksTypeOK'
  BY <1>0, <1>6, <1>7 DEF ChecksTypeOK, RunRow, CheckerState
<1>9. ASSUME NEW q \in Pods, NEW other \in Parts, checker'[<<q, other>>].at = "checking"
      PROVE  /\ At(q, other, "checking") /\ other # part
             /\ checker'[<<q, other>>] = checker[<<q, other>>]
  <2>1. (q # p \/ other # part) /\ At(q, other, "checking")
    BY <1>7, <1>9 DEF At
  <2>2. checkLock[other] = q
    BY <2>1 DEF ChecksInv, CheckersOwnTheirRow
  <2> QED BY <1>1, <1>7, <2>1, <2>2
<1>10. CheckersOwnTheirRow'
  <2>1. ASSUME NEW q \in Pods, NEW other \in Parts, checker'[<<q, other>>].at = "checking"
        PROVE  /\ checkLock'[other] = q
               /\ Len(checkRuns'[other]) \in DOMAIN checkRuns'[other]
               /\ checkRuns'[other][Len(checkRuns'[other])].status = "running"
    <3>1. At(q, other, "checking") /\ other # part
      BY <1>9, <2>1
    <3>2. checkRuns'[other] = checkRuns[other] /\ checkLock'[other] = checkLock[other]
      BY <1>6, <3>1
    <3> QED BY <3>1, <3>2 DEF ChecksInv, CheckersOwnTheirRow
  <2> QED BY <2>1 DEF CheckersOwnTheirRow, At
<1>11. SnapshotsAreOld'
  BY <1>9 DEF ChecksInv, SnapshotsAreOld, At, Parts
<1>12. NobodyElseToday'
  <2>1. "network" \in Parts
    BY DEF Parts
  <2>2. CASE part # "network"
    BY <1>6, <1>9, <2>1, <2>2 DEF ChecksInv, NobodyElseToday, At
  <2>3. CASE part = "network"
    <3>1. \A q \in Pods : ~At(q, "network", "checking")'
      BY <1>9, <2>3 DEF At
    <3>2. Counts(new[last]) => \A i \in DOMAIN old : ~Counts(old[i])
      BY <1>1, <1>2, <1>3, <1>5, <2>3 DEF ChecksInv, NobodyElseToday, Counts
    <3>3. \A i \in DOMAIN old : i # last => new[i] = old[i]
      BY <1>5
    <3>4. \A i, j \in DOMAIN old : Counts(old[i]) /\ Counts(old[j]) => i = j
      BY <2>3 DEF ChecksInv, NobodyElseToday
    <3>5. \A i, j \in DOMAIN new : Counts(new[i]) /\ Counts(new[j]) => i = j
      BY <1>5, <3>2, <3>3, <3>4
    <3> QED BY <1>6, <2>3, <3>1, <3>5 DEF NobodyElseToday
  <2> QED BY <2>2, <2>3
<1> QED BY <1>1, <1>3, <1>5, <1>6, <1>8, <1>10, <1>11, <1>12

LEMMA FailKeeps ==
    ASSUME ChecksInv, NEW p \in Pods, NEW part \in Parts, FailRun(p, part)
    PROVE  ChecksInv'
<1> DEFINE old == checkRuns[part]
           new == checkRuns'[part]
<1>0. 0 \in 0 .. MaxEdits + 1 /\ finding \in [Findings -> {"never", "open", "resolved"}]
  BY ChecksParts, ChecksAssumption DEF ChecksAssumption, ChecksInv
<1>1. /\ ChecksTypeOK' /\ CheckersOwnTheirRow' /\ SnapshotsAreOld' /\ NobodyElseToday'
      /\ \A other \in Parts : other # part => checkRuns'[other] = checkRuns[other]
      /\ DOMAIN new = DOMAIN old
      /\ \A i \in DOMAIN old : i # Len(old) => new[i] = old[i]
      /\ old[Len(old)].status = "running" /\ new[Len(old)].status = "failed"
  BY <1>0, EndRowEnds DEF FailRun
<1>2. UNCHANGED <<entry, revision, finding>>
  BY DEF FailRun
<1>3. Finished(new) = Finished(old) /\ LastChecked(new) = LastChecked(old)
  <2>1. Finished(new) = Finished(old)
    BY <1>1 DEF Finished
  <2> QED BY <2>1 DEF LastChecked
<1>4. CheckedIsPast' /\ RevisionIn(checkRuns'["structural"]) = RevisionIn(checkRuns["structural"])
  <2>1. "structural" \in Parts
    BY DEF Parts
  <2>2. CASE part # "structural"
    BY <1>1, <1>2, <2>1, <2>2 DEF ChecksInv, CheckedIsPast
  <2>3. CASE part = "structural"
    <3>1. Finished(old) # {} => LastChecked(old) \in Finished(old)
      BY <2>3 DEF ChecksInv, CheckedIsPast
    <3>2. RevisionIn(new) = RevisionIn(old)
      <4>1. CASE LastChecked(old) = 0
        BY <1>3, <4>1 DEF RevisionIn
      <4>2. CASE LastChecked(old) # 0
        <5>1. LastChecked(old) \in Finished(old)
          BY <3>1, <4>2 DEF LastChecked
        <5>2. new[LastChecked(old)] = old[LastChecked(old)]
          BY <1>1, <5>1 DEF Finished
        <5> QED BY <1>3, <5>2 DEF RevisionIn
      <4> QED BY <4>1, <4>2
    <3> QED BY <1>2, <1>3, <2>3, <3>1, <3>2 DEF ChecksInv, CheckedIsPast
  <2> QED BY <2>2, <2>3
<1>5. OpenFindingsAreCurrent'
  BY <1>2, <1>4 DEF ChecksInv, OpenFindingsAreCurrent, CheckedRevision
<1> QED BY <1>1, <1>4, <1>5 DEF ChecksInv

\* What a structural run stores is what it read; a network run leaves structural findings.
LEMMA StoreKeeps ==
    ASSUME ChecksInv, NEW p \in Pods, NEW part \in Parts, StoreFindings(p, part)
    PROVE  ChecksInv'
<1> DEFINE old == checkRuns[part]
           new == checkRuns'[part]
           mine == checker[<<p, part>>]
<1>0. /\ finding \in [Findings -> {"never", "open", "resolved"}] /\ mine \in CheckerState
      /\ mine.revision \in 0 .. MaxEdits + 1 /\ revision \in Nat
  BY ChecksParts, ChecksAssumption DEF ChecksAssumption, ChecksInv, CheckerState
<1>1. PICK asked \in IF part = "structural" THEN {Entries} ELSE SUBSET Entries :
      \E dead \in IF part = "structural" THEN {Entries} ELSE SUBSET asked :
           LET found  == Found(part, mine.read, dead)
               closed == Retired(part, mine.read) \cup CheckSettled(part, mine.read, asked, found)
           IN  finding' = [f \in Findings |-> IF f \in found THEN "open"
                                              ELSE IF f \in closed THEN "resolved"
                                              ELSE finding[f]]
  BY DEF StoreFindings
<1>2. PICK dead \in IF part = "structural" THEN {Entries} ELSE SUBSET asked :
           LET found  == Found(part, mine.read, dead)
               closed == Retired(part, mine.read) \cup CheckSettled(part, mine.read, asked, found)
           IN  finding' = [f \in Findings |-> IF f \in found THEN "open"
                                              ELSE IF f \in closed THEN "resolved"
                                              ELSE finding[f]]
  BY <1>1
<1> DEFINE found == Found(part, mine.read, dead)
           closed == Retired(part, mine.read) \cup CheckSettled(part, mine.read, asked, found)
<1>3. /\ finding' \in [Findings -> {"never", "open", "resolved"}]
      /\ \A f \in Findings : finding'[f] = IF f \in found THEN "open"
                                           ELSE IF f \in closed THEN "resolved"
                                           ELSE finding[f]
  BY <1>0, <1>2
<1>4. /\ At(p, part, "checking") /\ EndRow(part, "finished", mine.revision)
      /\ UNCHANGED <<entry, revision>>
  BY DEF StoreFindings
<1>5. /\ ChecksTypeOK' /\ CheckersOwnTheirRow' /\ SnapshotsAreOld' /\ NobodyElseToday'
      /\ \A other \in Parts : other # part => checkRuns'[other] = checkRuns[other]
      /\ DOMAIN new = DOMAIN old
      /\ Len(old) \in DOMAIN old /\ \A i \in DOMAIN old : i <= Len(old)
      /\ \A i \in DOMAIN old : i \in Nat /\ (i # Len(old) => new[i] = old[i])
      /\ new[Len(old)].status = "finished" /\ new[Len(old)].revision = mine.revision
  BY <1>0, <1>3, EndRowEnds DEF StoreFindings
<1>6. Findings = [part : Parts, record : Entries, value : BadValues]
  BY DEF Findings
<1>7. CASE part = "structural"
  <2>1. Len(old) \in Finished(new) /\ \A i \in Finished(new) : i <= Len(old) /\ i \in Nat
    BY <1>5 DEF Finished
  <2>2. LastChecked(new) = Len(old)
    BY <2>1 DEF LastChecked, Max
  <2>3. Len(old) # 0 => RevisionIn(new) = mine.revision
    BY <1>5, <2>2 DEF RevisionIn
  <2>4. Len(old) # 0
    BY <1>5, <1>7, LenProperties, ChecksParts DEF ChecksInv
  <2>5. mine.revision <= revision /\ (mine.revision = revision => mine.read = entry)
    BY <1>4, <1>7 DEF ChecksInv, SnapshotsAreOld
  <2>6. CheckedIsPast'
    BY <1>4, <1>7, <2>1, <2>2, <2>3, <2>4, <2>5 DEF CheckedIsPast
  <2>7. ASSUME mine.revision = revision, NEW f \in Findings, f.part = "structural"
        PROVE  (finding'[f] = "open") = (entry[f.record] = f.value)
    <3>1. f \in found <=> entry[f.record] = f.value
      BY <1>6, <1>7, <2>5, <2>7 DEF Found
    <3>2. f \notin found /\ finding[f] = "open" => f \in closed
      BY <1>7, <2>7 DEF CheckSettled
    <3> HIDE DEF found, closed
    <3> QED BY <1>3, <3>1, <3>2
  <2>8. OpenFindingsAreCurrent'
    BY <1>4, <1>7, <2>3, <2>4, <2>7 DEF OpenFindingsAreCurrent, CheckedRevision
  <2> QED BY <1>5, <2>6, <2>8 DEF ChecksInv
<1>8. CASE part # "structural"
  <2>1. checkRuns'["structural"] = checkRuns["structural"]
    BY <1>5, <1>8 DEF Parts
  <2>2. CheckedIsPast'
    BY <1>4, <2>1 DEF ChecksInv, CheckedIsPast
  <2>3. ASSUME NEW f \in Findings, f.part = "structural" PROVE finding'[f] = finding[f]
    <3>1. f \notin found /\ f \notin closed
      BY <1>8, <2>3 DEF Found, Retired, CheckSettled
    <3> HIDE DEF found, closed
    <3> QED BY <1>3, <3>1
  <2>4. OpenFindingsAreCurrent'
    BY <1>4, <2>1, <2>3 DEF ChecksInv, OpenFindingsAreCurrent, CheckedRevision
  <2> QED BY <1>5, <2>2, <2>4 DEF ChecksInv
<1> QED BY <1>7, <1>8

\* A revision nobody has read yet: nothing has checked it.
LEMMA MovesKeeps == ASSUME ChecksInv, DatasetMoves PROVE ChecksInv'
<1>0. /\ ChecksTypeOK /\ entry \in [Entries -> EntryValues] /\ revision \in 1 .. MaxEdits + 1
      /\ MaxEdits \in Nat /\ checkRuns \in [Parts -> Seq(RunRow)]
      /\ checker \in [Pods \X Parts -> CheckerState]
  BY ChecksParts, ChecksAssumption DEF ChecksAssumption, ChecksInv
<1>1. /\ UNCHANGED <<checkRuns, checkLock, checker, finding, dismissed>>
      /\ revision' = revision + 1 /\ revision <= MaxEdits
  BY DEF DatasetMoves
<1>2. entry' \in [Entries -> EntryValues] /\ revision' \in 1 .. MaxEdits + 1
  BY <1>0, <1>1 DEF DatasetMoves
<1>3. ChecksTypeOK'
  BY <1>0, <1>1, <1>2 DEF ChecksTypeOK
<1>4. CheckersOwnTheirRow' /\ NobodyElseToday'
  BY <1>1 DEF ChecksInv, CheckersOwnTheirRow, NobodyElseToday, At
<1>5. SnapshotsAreOld'
  <2>1. ASSUME NEW p \in Pods, At(p, "structural", "checking")
        PROVE  checker[<<p, "structural">>].revision < revision'
    <3>1. checker[<<p, "structural">>] \in CheckerState
      BY <1>0 DEF Parts
    <3>2. checker[<<p, "structural">>].revision \in 0 .. MaxEdits + 1
      BY <3>1 DEF CheckerState
    <3>3. checker[<<p, "structural">>].revision <= revision
      BY <2>1 DEF ChecksInv, SnapshotsAreOld
    <3> QED BY <1>0, <1>1, <3>2, <3>3
  <2>2. ASSUME NEW p \in Pods, At(p, "structural", "checking")
        PROVE  checker[<<p, "structural">>].revision \in Int
    <3>1. checker[<<p, "structural">>] \in CheckerState
      BY <1>0 DEF Parts
    <3> QED BY <3>1 DEF CheckerState
  <2> QED BY <1>0, <1>1, <1>2, <2>1, <2>2 DEF SnapshotsAreOld, At
<1>6. RevisionIn(checkRuns["structural"]) \in Int /\ CheckedIsPast
  <2> DEFINE rows == checkRuns["structural"]
  <2>1. rows \in Seq(RunRow) /\ CheckedIsPast
    BY <1>0 DEF Parts, ChecksInv
  <2>2. CASE LastChecked(rows) = 0
    BY <2>1, <2>2 DEF RevisionIn
  <2>3. CASE LastChecked(rows) # 0
    <3>1. LastChecked(rows) \in DOMAIN rows
      BY <2>1, <2>3 DEF CheckedIsPast, LastChecked, Finished
    <3>2. rows[LastChecked(rows)] \in RunRow
      BY <2>1, <3>1, ElementOfSeq, LenProperties
    <3> QED BY <2>1, <2>3, <3>2 DEF RevisionIn, RunRow
  <2> QED BY <2>2, <2>3
<1>7. CheckedIsPast' /\ RevisionIn(checkRuns["structural"]) < revision'
  BY <1>0, <1>1, <1>6 DEF CheckedIsPast
<1>8. OpenFindingsAreCurrent'
  BY <1>0, <1>1, <1>2, <1>6, <1>7 DEF OpenFindingsAreCurrent, CheckedRevision
<1> QED BY <1>3, <1>4, <1>5, <1>7, <1>8 DEF ChecksInv

LEMMA MarksKeep ==
    ASSUME ChecksInv,
           \/ UNCHANGED checksVars
           \/ \E f \in Findings : Dismiss(f) \/ Undismiss(f)
    PROVE  ChecksInv'
<1>1. /\ UNCHANGED <<entry, revision, finding, checkRuns, checker, checkLock>>
      /\ dismissed' \subseteq Findings
  BY DEF ChecksInv, ChecksTypeOK, checksVars, Dismiss, Undismiss
<1>2. ChecksTypeOK'
  BY <1>1 DEF ChecksInv, ChecksTypeOK
<1>3. \A part \in Parts : Ages(checkRuns[part], checkRuns'[part])
  BY <1>1, ChecksParts, SameAges DEF ChecksInv
<1> QED BY <1>1, <1>2, <1>3, QuietStep

LEMMA ChecksStep == ChecksInv /\ [ChecksNext]_checksVars => ChecksInv'
<1> SUFFICES ASSUME ChecksInv, [ChecksNext]_checksVars PROVE ChecksInv'
  OBVIOUS
<1>1. ASSUME NEW p \in Pods, NEW part \in Parts,
             CheckerStep(p, part) \/ Command(p, part) \/ FailRun(p, part) \/ Vanish(p, part)
      PROVE  ChecksInv'
  BY <1>1, WaitingKeeps, CheckStartKeeps, StoreKeeps, FailKeeps DEF CheckerStep
<1> QED BY <1>1, MovesKeeps, ClockKeeps, MarksKeep DEF ChecksNext

LEMMA ChecksInvariance == ChecksSpec => []ChecksInv
BY ChecksInitially, ChecksStep, PTL DEF ChecksSpec

\* Whatever the network part stores from an older snapshot, and whoever dies or is beaten to
\* the lock, a current structural check means current findings.
THEOREM FindingsAreCurrent == ChecksSpec => []OpenFindingsAreCurrent
BY ChecksInvariance, PTL DEF ChecksInv

\* However many pods ask, the network part that nobody commanded ends once a day.
THEOREM NetworkRunsOnceADay == ChecksSpec => []NetworkOnceADay
<1>1. ChecksInv => NetworkOnceADay
  <2> SUFFICES ASSUME ChecksInv PROVE NetworkOnceADay
    OBVIOUS
  <2> DEFINE rows == checkRuns["network"]
             counted == {i \in DOMAIN rows : /\ rows[i].today /\ ~ rows[i].asked
                                             /\ rows[i].status \in {"finished", "failed"}}
  <2>1. \A i, j \in counted : i = j
    BY DEF ChecksInv, NobodyElseToday, Counts
  <2>2. Cardinality(counted) <= 1
    <3>1. CASE counted = {}
      BY <3>1, FS_EmptySet
    <3>2. ASSUME NEW i \in counted PROVE Cardinality(counted) <= 1
      <4>1. counted = {i}
        BY <2>1
      <4> QED BY <4>1, FS_Singleton
    <3> QED BY <3>1, <3>2
  <2> QED BY <2>2 DEF NetworkOnceADay
<1> QED BY <1>1, ChecksInvariance, PTL

-----------------------------------------------------------------------------
-----------------------------------------------------------------------------
(***************************************************************************)
(* The parts together, from what the first night leaves behind.            *)
(***************************************************************************)
LEMMA FirstNightIsSound ==
    ASSUME FirstNight
    PROVE  MaintInv /\ TypesInv /\ LoadedInv /\ SnapshotInv
<1> DEFINE csv == History[1].csv
           Done == [NoRun EXCEPT !.status = "done", !.sync = "SUCCESS", !.find = "SUCCESS",
                                 !.archive = csv, !.commit = 1, !.part1 = TRUE, !.part2 = TRUE]
<1>1. csv \in Csvs /\ csv \in Seq(Row) /\ 1 \in Commits
  BY PublishedCsvs
<1>2. /\ Done \in Runs /\ Done.status = "done" /\ Done.archive = csv /\ Done.stage = "full"
      /\ NoRun \in Runs /\ NoRun.status = "none"
  <2>1. NoRun \in Runs /\ NoRun.stage = "full" /\ NoRun.status = "none"
    BY IdleIsMemoryType DEF NoRun
  <2>2. "done" \in Statuses /\ "SUCCESS" \in StageResults
    BY DEF Statuses, StageResults
  <2> HIDE DEF csv
  <2> QED BY <1>1, <2>1, <2>2 DEF Runs
<1>3. /\ runs = [r \in RunIds |-> IF r = 1 THEN Done ELSE NoRun]
      /\ worker = [w \in Workers |-> Idle] /\ disk = {csv} /\ stored = <<csv>>
      /\ lock = NoWorker /\ head = 1 /\ db = Imported(Empty, csv) /\ imported = csv
      /\ archived = 0 /\ crashes = 0 /\ ~Refused(Empty, csv)
  BY DEF FirstNight
<1>4. Idle \in Memories /\ Idle.at = "idle"
  BY IdleIsMemoryType DEF Idle
<1>5. Imported(Empty, csv) \in Database /\ IsFiniteSet(Present(Imported(Empty, csv)))
      /\ Shipped(csv) \subseteq Present(Imported(Empty, csv))
  <2>1. Present(Empty) = {} /\ Empty \in Database
    BY DEF Present, Empty, Database
  <2>2. IsFiniteSet(Present(Empty))
    BY <2>1, FS_EmptySet
  <2> HIDE DEF csv
  <2> QED BY <1>1, <1>3, <2>1, <2>2, ImportKeeps DEF NoneLost
<1>6. crashes \in 0 .. MaxCrashes /\ stored \in Seq(Csvs) /\ ToSet(stored) = {csv}
  <2>1. crashes \in 0 .. MaxCrashes
    BY <1>3, MaintenanceAssumption DEF MaintenanceAssumption
  <2> HIDE DEF csv
  <2>2. stored \in Seq(Csvs) /\ DOMAIN stored = {1} /\ stored[1] = csv
    BY <1>1, <1>3
  <2> QED BY <2>1, <2>2 DEF ToSet
<1> HIDE DEF csv, Done
<1>7. /\ runs \in [RunIds -> Runs] /\ worker \in [Workers -> Memories]
      /\ \A r \in RunIds : runs[r].status \in {"done", "none"}
      /\ \A r \in RunIds : runs[r].status # "none" => r = 1
      /\ \A r \in RunIds : r = 1 => runs[r].archive = csv
      /\ \A w \in Workers : worker[w].at = "idle"
  BY <1>2, <1>3, <1>4
<1>8. MaintTypeOK
  BY <1>1, <1>3, <1>5, <1>6, <1>7 DEF MaintTypeOK
<1>9. TypesInv
  BY <1>3, <1>5, <1>7, <1>8 DEF TypesInv, StageFits, HasCommit, SyncStages, RetireStages
<1>10. MaintInv
  <2>1. Shaped
    BY <1>7 DEF Shaped, Runs, Memories
  <2>2. Statused
    BY <1>7 DEF Statused, Statuses
  <2>3. HasRun /\ ExecutorOwnsRun
    BY <1>7, IdleExecutesNothing DEF HasRun, ExecutorOwnsRun
  <2>4. OneActive
    BY <1>7 DEF OneActive, ActiveRuns
  <2> QED BY <2>1, <2>2, <2>3, <2>4 DEF MaintInv
<1>11. LoadedInv
  BY <1>3, <1>5, <1>7
     DEF LoadedInv, HasImported, HasCommit, SyncStages, RetireStages, ShippedHaveRecords
<1>12. SnapshotInv
  <2>1. InOrder
    BY <1>7 DEF InOrder, ActiveRuns, RunIds
  <2>2. NewestSnapshotIsStored
    BY <1>6, <1>7 DEF NewestSnapshotIsStored, GateRuns, SyncAttempts
  <2>3. \A w \in Workers : SnapshotHeld(w)
    BY <1>7 DEF SnapshotHeld, UnstoredStages, Executing
  <2> QED BY <2>1, <2>2, <2>3 DEF SnapshotInv
<1> QED BY <1>9, <1>10, <1>11, <1>12

\* The types of both parts, one executor per run and one check of the network a day; and,
\* from the state the first night leaves, all that is promised of the nights that follow.
THEOREM EveryNightIsSound ==
    NightSpec => [](/\ NightInvariant /\ OpenFindingsAreCurrent
                    /\ ShippedHaveRecords /\ NewestSnapshotIsStored)
<1>1. NightSpec => ChecksSpec
  <2>1. NightInit => ChecksInit
    BY DEF NightInit
  <2>2. [NightNext]_<<moving, maintVars, checksVars>> => [ChecksNext]_checksVars
    BY DEF NightNext
  <2> QED BY <2>1, <2>2, PTL DEF NightSpec, ChecksSpec
<1>2. NightInit => MaintInv /\ TypesInv /\ LoadedInv /\ SnapshotInv
  BY FirstNightIsSound DEF NightInit
<1>3. [NightNext]_<<moving, maintVars, checksVars>> => [MaintNext]_maintVars
  BY DEF NightNext
<1>4. MaintInv /\ TypesInv /\ LoadedInv /\ SnapshotInv /\ [MaintNext]_maintVars
      => MaintInv' /\ TypesInv' /\ LoadedInv' /\ SnapshotInv'
  BY MaintStep, TypesStep, LoadedStep, SnapshotStep
<1>5. NightSpec => [](MaintInv /\ TypesInv /\ LoadedInv /\ SnapshotInv)
  BY <1>2, <1>3, <1>4, PTL DEF NightSpec
<1>6. ChecksInv => ChecksTypeOK /\ OpenFindingsAreCurrent
  BY DEF ChecksInv
<1>7. /\ MaintInv => ExecutorOwnsRun
      /\ TypesInv => MaintTypeOK
      /\ LoadedInv => ShippedHaveRecords
      /\ SnapshotInv => NewestSnapshotIsStored
  BY DEF MaintInv, TypesInv, LoadedInv, SnapshotInv
<1>8. MaintTypeOK /\ ExecutorOwnsRun /\ ChecksTypeOK /\ NetworkOnceADay => NightInvariant
  BY DEF NightInvariant
<1> QED BY <1>1, <1>5, <1>6, <1>7, <1>8, ChecksInvariance, NetworkRunsOnceADay, PTL
==============================================================================
