----------------------------- MODULE FloraProofs -----------------------------
(***************************************************************************)
(* What leads to a published FLoRA dataset, for every value of the         *)
(* constants: the sync jobs, the adjudicated disagreements, the stored     *)
(* dataset, the release files, the duplicate steps of a build and, at the  *)
(* end, all of them as MCFlora puts them together.                         *)
(***************************************************************************)
EXTENDS MCFlora, ListProofs

-----------------------------------------------------------------------------
(***************************************************************************)
(* Who owns a running job of the Run pipeline button, for any number of    *)
(* schedulers, clicks, jobs and deaths; and that the rows implement the    *)
(* queue of DurableJobs, several jobs at a time.                           *)
(***************************************************************************)
\* That a job's runner holds the lock is not enough: whoever has been elected holds
\* it too and its job is one that exists, so what it begins is the job it owns.
Ownership ==
    \A p \in Runners : runner[p].at # "idle" =>
        /\ syncLock = p
        /\ runner[p].job \in JobIds
        /\ runner[p].at = "elected" => syncJobs[runner[p].job].status = "queued"

SyncInv == SyncTypeOK /\ Ownership /\ RunnerOwnsJob

LEMMA SyncInitially == SyncInit => SyncInv
<1> SUFFICES ASSUME SyncInit PROVE SyncInv
  OBVIOUS
<1>1. SyncTypeOK
  <2>1. NoJob \in SyncJobRows
    BY DEF NoJob, SyncJobRows, JobStatuses, SyncReports
  <2>2. Resting \in RunnerStates
    BY DEF Resting, RunnerStates
  <2> QED BY <2>1, <2>2, SyncAssumption DEF SyncAssumption, SyncInit, SyncTypeOK
<1>2. Ownership /\ RunnerOwnsJob
  BY DEF SyncInit, Ownership, RunnerOwnsJob, Resting
<1> QED BY <1>1, <1>2 DEF SyncInv

\* Whoever is not idle holds the lock, so nobody else is busy.
LEMMA OneBusy ==
    ASSUME SyncInv, NEW p \in Runners, NEW q \in Runners,
           runner[p].at # "idle", runner[q].at # "idle"
    PROVE  p = q
  BY DEF SyncInv, Ownership

LEMMA NobodyBusy ==
    ASSUME SyncInv, syncLock = NoRunner, NEW p \in Runners
    PROVE  runner[p].at = "idle"
  BY SyncAssumption DEF SyncAssumption, SyncInv, Ownership

\* What the one busy runner p does to its job and its memory keeps the invariant.
LEMMA BusyStep ==
    ASSUME SyncInv, NEW p \in Runners, runner[p].at # "idle",
           NEW next \in RunnerStates, runner' = [runner EXCEPT ![p] = next],
           NEW rowNext \in SyncJobRows, syncJobs' = [syncJobs EXCEPT ![runner[p].job] = rowNext],
           \/ next.at = "idle" /\ syncLock' \in {NoRunner}
           \/ /\ next.at \notin {"idle", "elected"} /\ next.job = runner[p].job /\ syncLock' = p
              /\ rowNext.status = IF next.at = "crashed" THEN "failed" ELSE "running",
           UNCHANGED <<overdue, click, deaths>>
    PROVE  SyncInv'
<1> USE DEF SyncInv
<1>1. SyncTypeOK'
  BY DEF SyncTypeOK, Ownership
<1>2. \A q \in Runners \ {p} : runner'[q].at = "idle"
  BY OneBusy DEF SyncTypeOK
<1>3. runner'[p] = next
  BY DEF SyncTypeOK
<1>4. runner[p].job \in JobIds /\ syncJobs'[runner[p].job] = rowNext
  BY DEF SyncTypeOK, Ownership
<1>5. Ownership' /\ RunnerOwnsJob'
  BY <1>2, <1>3, <1>4 DEF Ownership, RunnerOwnsJob
<1> QED BY <1>1, <1>5

\* Every step keeps the invariant: the runner's steps by BusyStep, the others by the
\* lock they find free or because they leave runners, lock and active jobs alone.
LEMMA SyncStep == SyncInv /\ [SyncNext]_syncVars => SyncInv'
<1> SUFFICES ASSUME SyncInv, [SyncNext]_syncVars PROVE SyncInv'
  OBVIOUS
<1> USE DEF SyncInv
<1>1. ASSUME NEW a \in Clickers, Ask(a) PROVE SyncInv'
  BY <1>1 DEF Ask, SyncTypeOK, Ownership, RunnerOwnsJob
<1>2. ASSUME NEW a \in Clickers, QueueJob(a) PROVE SyncInv'
  <2>1. PICK j \in JobIds : /\ syncJobs[j].status = "none"
                            /\ syncJobs' = [syncJobs EXCEPT ![j].status = "queued"]
    BY <1>2 DEF QueueJob
  <2>2. SyncTypeOK'
    BY <1>2, <2>1 DEF QueueJob, SyncTypeOK, SyncJobRows, JobStatuses
  <2>3. \A p \in Runners : runner[p].at # "idle" => runner[p].job # j
    BY <2>1 DEF Ownership, RunnerOwnsJob
  <2>4. \A i \in JobIds : i # j => syncJobs'[i] = syncJobs[i]
    BY <2>1 DEF SyncTypeOK
  <2> QED BY <1>2, <2>2, <2>3, <2>4 DEF QueueJob, Ownership, RunnerOwnsJob
<1>3. ASSUME NEW p \in Runners, Elect(p) PROVE SyncInv'
  <2>1. PICK j \in QueuedJobs : runner' = [runner EXCEPT ![p] =
                                             [Resting EXCEPT !.at = "elected", !.job = j]]
    BY <1>3 DEF Elect, Becomes
  <2>2. j \in JobIds /\ syncJobs[j].status = "queued"
    BY DEF QueuedJobs
  <2>3. [Resting EXCEPT !.at = "elected", !.job = j] \in RunnerStates
    BY <2>2 DEF Resting, RunnerStates
  <2>4. \A q \in Runners : runner[q].at = "idle"
    BY <1>3, NobodyBusy DEF Elect
  <2>5. SyncTypeOK'
    BY <1>3, <2>1, <2>3 DEF Elect, SyncTypeOK
  <2>6. \A q \in Runners : q # p => runner'[q].at = "idle"
    BY <2>1, <2>4 DEF SyncTypeOK
  <2>7. runner'[p].at = "elected" /\ runner'[p].job = j
    BY <2>1 DEF SyncTypeOK, Resting
  <2> QED BY <1>3, <2>2, <2>5, <2>6, <2>7 DEF Elect, Ownership, RunnerOwnsJob
<1>4. ASSUME NEW p \in Runners, BeginJob(p) \/ RunStages(p) \/ Prepare(p) \/ Persist(p)
             \/ Settle(p) \/ CrashJob(p) \/ ReportCrash(p)
      PROVE  SyncInv'
  <2> DEFINE mine == runner[p]
             mineRow == syncJobs[mine.job]
  <2>1. mine \in RunnerStates /\ mine.at # "idle" /\ syncLock = p /\ mine.job \in JobIds
        /\ mineRow \in SyncJobRows
    BY <1>4 DEF SyncTypeOK, Ownership, BeginJob, RunStages, Prepare, Persist, Settle, CrashJob,
       ReportCrash
  <2>2. mine.at \notin {"idle", "elected"} =>
           mineRow.status = IF mine.at = "crashed" THEN "failed" ELSE "running"
    BY DEF RunnerOwnsJob
  <2>3. syncJobs = [syncJobs EXCEPT ![mine.job] = mineRow]
    BY DEF SyncTypeOK
  <2>4. Resting \in RunnerStates /\ Resting.at = "idle"
    BY DEF Resting, RunnerStates
  <2>5. CASE BeginJob(p)
    <3> DEFINE next == [mine EXCEPT !.at = "stages"]
               rowNext == [mineRow EXCEPT !.status = "running"]
    <3>1. next \in RunnerStates /\ rowNext \in SyncJobRows /\ next.at = "stages"
          /\ next.job = mine.job /\ rowNext.status = "running"
      BY <2>1 DEF RunnerStates, SyncJobRows, JobStatuses
    <3>2. runner' = [runner EXCEPT ![p] = next] /\ syncLock' = p
          /\ syncJobs' = [syncJobs EXCEPT ![mine.job] = rowNext]
          /\ UNCHANGED <<overdue, click, deaths>>
      BY <2>1, <2>5 DEF BeginJob, Becomes
    <3> QED BY <2>1, <3>1, <3>2, BusyStep
  <2>6. CASE RunStages(p)
    <3>1. PICK next \in {[mine EXCEPT !.at = IF passed THEN "prepare" ELSE "persist",
                                      !.ok = passed] : passed \in BOOLEAN} :
             runner' = [runner EXCEPT ![p] = next]
      BY <2>6 DEF RunStages, Becomes
    <3>2. next \in RunnerStates /\ next.at \in {"prepare", "persist"} /\ next.job = mine.job
      BY <2>1, <3>1 DEF RunnerStates
    <3>3. mineRow.status = "running" /\ syncLock' = p
          /\ UNCHANGED <<syncJobs, overdue, click, deaths>>
      BY <2>1, <2>2, <2>6 DEF RunStages
    <3>4. syncJobs' = [syncJobs EXCEPT ![mine.job] = mineRow]
          /\ UNCHANGED <<overdue, click, deaths>>
      BY <2>3, <3>3
    <3>5. /\ next.at \notin {"idle", "elected"} /\ next.job = runner[p].job /\ syncLock' = p
          /\ mineRow.status = IF next.at = "crashed" THEN "failed" ELSE "running"
      BY <3>2, <3>3
    <3> HIDE DEF mineRow
    <3> QED BY <2>1, <3>1, <3>2, <3>4, <3>5, BusyStep
  <2>7. CASE Prepare(p)
    <3>1. PICK next \in {[mine EXCEPT !.at = "persist"]} \cup
                 {[mine EXCEPT !.at = "persist", !.ok = FALSE, !.recovery = s] : s \in BOOLEAN} :
             runner' = [runner EXCEPT ![p] = next]
      BY <2>7 DEF Prepare, Becomes
    <3>2. next \in RunnerStates /\ next.at = "persist" /\ next.job = mine.job
      BY <2>1, <3>1 DEF RunnerStates
    <3>3. mineRow.status = "running" /\ syncLock' = p
          /\ UNCHANGED <<syncJobs, overdue, click, deaths>>
      BY <2>1, <2>2, <2>7 DEF Prepare
    <3>4. syncJobs' = [syncJobs EXCEPT ![mine.job] = mineRow]
          /\ UNCHANGED <<overdue, click, deaths>>
      BY <2>3, <3>3
    <3>5. /\ next.at \notin {"idle", "elected"} /\ next.job = runner[p].job /\ syncLock' = p
          /\ mineRow.status = IF next.at = "crashed" THEN "failed" ELSE "running"
      BY <3>2, <3>3
    <3> HIDE DEF mineRow
    <3> QED BY <2>1, <3>1, <3>2, <3>4, <3>5, BusyStep
  <2>8. CASE Persist(p)
    <3> DEFINE next == [mine EXCEPT !.at = "settle"]
               rowNext == [mineRow EXCEPT !.csv = mine.ok,
                                !.report = IF mine.ok THEN "complete" ELSE "failed",
                                !.recovery = mineRow.recovery \/ mine.recovery]
    <3>1. next \in RunnerStates /\ next.at = "settle" /\ next.job = mine.job
      BY <2>1 DEF RunnerStates
    <3>2. mine.ok \in BOOLEAN /\ (mineRow.recovery \/ mine.recovery) \in BOOLEAN
      BY <2>1 DEF RunnerStates, SyncJobRows
    <3>3. rowNext \in SyncJobRows /\ rowNext.status = mineRow.status
      BY <2>1, <3>2 DEF SyncJobRows, SyncReports
    <3>4. mineRow.status = "running" /\ syncLock' = p
          /\ UNCHANGED <<overdue, click, deaths>>
      BY <2>1, <2>2, <2>8 DEF Persist
    <3>5. runner' = [runner EXCEPT ![p] = next]
          /\ syncJobs' = [syncJobs EXCEPT ![mine.job] = rowNext]
      BY <2>8 DEF Persist, Becomes
    <3> HIDE DEF next, rowNext
    <3> QED BY <2>1, <3>1, <3>3, <3>4, <3>5, BusyStep
  <2>9. CASE Settle(p)
    <3> DEFINE rowNext == [mineRow EXCEPT !.status = Outcome(mine.ok)]
    <3>1. rowNext \in SyncJobRows
      BY <2>1 DEF SyncJobRows, JobStatuses, Outcome
    <3>2. runner' = [runner EXCEPT ![p] = Resting] /\ syncLock' = NoRunner
          /\ syncJobs' = [syncJobs EXCEPT ![mine.job] = rowNext]
          /\ UNCHANGED <<overdue, click, deaths>>
      BY <2>9 DEF Settle, Becomes
    <3> QED BY <2>1, <2>4, <3>1, <3>2, BusyStep
  <2>10. CASE CrashJob(p)
    <3> DEFINE next == [mine EXCEPT !.at = "crashed"]
               rowNext == [mineRow EXCEPT !.status = "failed"]
    <3>1. next \in RunnerStates /\ rowNext \in SyncJobRows /\ next.at = "crashed"
          /\ next.job = mine.job /\ rowNext.status = "failed"
      BY <2>1 DEF RunnerStates, SyncJobRows, JobStatuses
    <3>2. runner' = [runner EXCEPT ![p] = next] /\ syncLock' = p
          /\ syncJobs' = [syncJobs EXCEPT ![mine.job] = rowNext]
          /\ UNCHANGED <<overdue, click, deaths>>
      BY <2>1, <2>10 DEF CrashJob, Becomes
    <3> QED BY <2>1, <3>1, <3>2, BusyStep
  <2>11. CASE ReportCrash(p)
    <3> DEFINE rowNext == [mineRow EXCEPT !.csv = FALSE, !.report = "failed"]
    <3>1. rowNext \in SyncJobRows
      BY <2>1 DEF SyncJobRows, SyncReports
    <3>2. runner' = [runner EXCEPT ![p] = Resting] /\ syncLock' = NoRunner
          /\ syncJobs' = [syncJobs EXCEPT ![mine.job] = rowNext]
          /\ UNCHANGED <<overdue, click, deaths>>
      BY <2>11 DEF ReportCrash, Becomes
    <3> QED BY <2>1, <2>4, <3>1, <3>2, BusyStep
  <2> QED BY <1>4, <2>5, <2>6, <2>7, <2>8, <2>9, <2>10, <2>11
<1>5. ASSUME NEW p \in Runners, RunnerDies(p) PROVE SyncInv'
  <2>1. Resting \in RunnerStates /\ Resting.at = "idle"
    BY DEF Resting, RunnerStates
  <2>2. \A q \in Runners : runner'[q].at = "idle"
    BY <1>5, <2>1, OneBusy DEF RunnerDies, Becomes, SyncTypeOK
  <2>3. SyncTypeOK'
    BY <1>5, <2>1, SyncAssumption DEF SyncAssumption, RunnerDies, Becomes, SyncTypeOK
  <2> QED BY <2>2, <2>3 DEF Ownership, RunnerOwnsJob
<1>6. ASSUME NEW j \in JobIds, HourPasses(j) PROVE SyncInv'
  BY <1>6 DEF HourPasses, ActiveJobs, SyncTypeOK, Ownership, RunnerOwnsJob
<1>7. ASSUME Reap PROVE SyncInv'
  <2>1. syncLock = NoRunner
    BY <1>7 DEF Reap, Reapable
  <2>2. \A q \in Runners : runner'[q].at = "idle"
    BY <1>7, <2>1, NobodyBusy DEF Reap
  <2>3. SyncTypeOK'
    BY <1>7 DEF Reap, SyncTypeOK, SyncJobRows, JobStatuses
  <2> QED BY <2>2, <2>3 DEF Ownership, RunnerOwnsJob
<1>8. ASSUME UNCHANGED syncVars PROVE SyncInv'
  BY <1>8 DEF syncVars, SyncTypeOK, Ownership, RunnerOwnsJob
<1> QED
  BY <1>1, <1>2, <1>3, <1>4, <1>5, <1>6, <1>7, <1>8 DEF SyncNext, RunnerStep

\* The types, and that a job somebody executes is the running one or already failed by
\* its own crash handler: no runner works for a job the reaper has failed
\* (run_queued, reap_stale_jobs).
THEOREM RunnersOwnTheirJobs == SyncSpec => [](SyncTypeOK /\ RunnerOwnsJob)
<1>1. SyncSpec => []SyncInv
  BY SyncInitially, SyncStep, PTL DEF SyncSpec
<1>2. SyncInv => SyncTypeOK /\ RunnerOwnsJob
  BY DEF SyncInv
<1> QED BY <1>1, <1>2, PTL

-----------------------------------------------------------------------------
(***************************************************************************)
(* The rows as a queue of jobs.  Clicks may queue several, and one whose   *)
(* runner died is running until it is reaped, so neither is exclusive.     *)
(***************************************************************************)
StatusOf(j) == IF syncJobs[j].status = "success" THEN "done" ELSE syncJobs[j].status

SyncQueue == INSTANCE DurableJobs
            WITH Jobs <- JobIds, Exclusive <- FALSE,
                 jobs <- [j \in JobIds |-> StatusOf(j)]

\* A step that gives one row another status moves that job alone.
LEMMA OneJobMoves ==
    ASSUME SyncTypeOK, NEW j \in JobIds, NEW rowNext \in SyncJobRows,
           syncJobs' = [syncJobs EXCEPT ![j] = rowNext],
           \/ rowNext.status = syncJobs[j].status
           \/ syncJobs[j].status = "none" /\ rowNext.status = "queued"
           \/ syncJobs[j].status = "queued" /\ rowNext.status = "running"
           \/ syncJobs[j].status = "running" /\ rowNext.status \in {"success", "failed"}
    PROVE  [SyncQueue!JobsNext]_[i \in JobIds |-> StatusOf(i)]
<1> DEFINE now == [i \in JobIds |-> StatusOf(i)]
           nowOf == IF rowNext.status = "success" THEN "done" ELSE rowNext.status
<1>1. now' = [now EXCEPT ![j] = nowOf]
  BY DEF SyncTypeOK, StatusOf
<1>2. now[j] = StatusOf(j)
  OBVIOUS
<1>3. CASE rowNext.status = syncJobs[j].status
  BY <1>1, <1>2, <1>3 DEF StatusOf
<1>4. CASE syncJobs[j].status = "none" /\ rowNext.status = "queued"
  <2>1. SyncQueue!Reserve(j)
    BY <1>1, <1>2, <1>4 DEF SyncQueue!Reserve, StatusOf
  <2> QED BY <2>1 DEF SyncQueue!JobsNext
<1>5. CASE syncJobs[j].status = "queued" /\ rowNext.status = "running"
  <2>1. SyncQueue!Begin(j)
    BY <1>1, <1>2, <1>5 DEF SyncQueue!Begin, StatusOf
  <2> QED BY <2>1 DEF SyncQueue!JobsNext
<1>6. CASE syncJobs[j].status = "running" /\ rowNext.status \in {"success", "failed"}
  <2>1. SyncQueue!End(j)
    BY <1>1, <1>2, <1>6 DEF SyncQueue!End, StatusOf
  <2> QED BY <2>1 DEF SyncQueue!JobsNext
<1> QED BY <1>3, <1>4, <1>5, <1>6

\* Every step of the jobs is one of the queue's, or moves nothing.
LEMMA StepsMoveJobs ==
    ASSUME SyncInv, [SyncNext]_syncVars
    PROVE  [SyncQueue!JobsNext]_[j \in JobIds |-> StatusOf(j)]
<1> USE DEF SyncInv
<1>1. CASE UNCHANGED syncJobs
  BY <1>1 DEF StatusOf
<1>2. ASSUME NEW a \in Clickers, QueueJob(a)
      PROVE  [SyncQueue!JobsNext]_[j \in JobIds |-> StatusOf(j)]
  <2>1. PICK j \in JobIds : /\ syncJobs[j].status = "none"
                            /\ syncJobs' = [syncJobs EXCEPT ![j].status = "queued"]
    BY <1>2 DEF QueueJob
  <2> DEFINE rowNext == [syncJobs[j] EXCEPT !.status = "queued"]
  <2>2. rowNext \in SyncJobRows /\ rowNext.status = "queued"
        /\ syncJobs' = [syncJobs EXCEPT ![j] = rowNext]
    BY <2>1 DEF SyncTypeOK, SyncJobRows, JobStatuses
  <2> HIDE DEF rowNext
  <2> QED BY <2>1, <2>2, OneJobMoves
<1>3. ASSUME NEW p \in Runners,
             BeginJob(p) \/ Persist(p) \/ Settle(p) \/ CrashJob(p) \/ ReportCrash(p)
      PROVE  [SyncQueue!JobsNext]_[j \in JobIds |-> StatusOf(j)]
  <2> DEFINE j == runner[p].job
             row == syncJobs[j]
             mine == runner[p]
  <2>1. mine \in RunnerStates /\ j \in JobIds /\ row \in SyncJobRows
    BY <1>3 DEF SyncTypeOK, Ownership, BeginJob, Persist, Settle, CrashJob, ReportCrash
  <2>2. \E rowNext \in SyncJobRows :
          /\ syncJobs' = [syncJobs EXCEPT ![j] = rowNext]
          /\ \/ rowNext.status = row.status
             \/ row.status = "queued" /\ rowNext.status = "running"
             \/ row.status = "running" /\ rowNext.status \in {"success", "failed"}
    <3>1. CASE BeginJob(p)
      <4>1. row.status = "queued" /\ [row EXCEPT !.status = "running"] \in SyncJobRows
        BY <2>1, <3>1 DEF BeginJob, Ownership, SyncJobRows, JobStatuses
      <4> QED BY <2>1, <3>1, <4>1 DEF BeginJob, SyncJobRows
    <3>2. CASE Persist(p)
      <4> DEFINE rowNext == [row EXCEPT !.csv = mine.ok,
                                 !.report = IF mine.ok THEN "complete" ELSE "failed",
                                 !.recovery = row.recovery \/ mine.recovery]
      <4>1. mine.ok \in BOOLEAN /\ (row.recovery \/ mine.recovery) \in BOOLEAN
        BY <2>1 DEF RunnerStates, SyncJobRows
      <4>2. rowNext \in SyncJobRows /\ rowNext.status = row.status
        BY <2>1, <4>1 DEF SyncJobRows, SyncReports
      <4>3. syncJobs' = [syncJobs EXCEPT ![j] = rowNext]
        BY <3>2 DEF Persist
      <4> HIDE DEF rowNext
      <4> QED BY <4>2, <4>3
    <3>3. CASE Settle(p)
      <4>1. row.status = "running" /\ Outcome(mine.ok) \in {"success", "failed"}
            /\ [row EXCEPT !.status = Outcome(mine.ok)] \in SyncJobRows
        BY <2>1, <3>3 DEF Settle, RunnerOwnsJob, SyncJobRows, JobStatuses, Outcome
      <4> QED BY <2>1, <3>3, <4>1 DEF Settle, SyncJobRows
    <3>4. CASE CrashJob(p)
      <4>1. row.status = "running" /\ [row EXCEPT !.status = "failed"] \in SyncJobRows
        BY <2>1, <3>4 DEF CrashJob, RunnerOwnsJob, SyncJobRows, JobStatuses
      <4> QED BY <2>1, <3>4, <4>1 DEF CrashJob, SyncJobRows
    <3>5. CASE ReportCrash(p)
      <4>1. [row EXCEPT !.csv = FALSE, !.report = "failed"] \in SyncJobRows
        BY <2>1 DEF SyncJobRows, SyncReports
      <4> QED BY <2>1, <3>5, <4>1 DEF ReportCrash, SyncJobRows
    <3> QED BY <1>3, <3>1, <3>2, <3>3, <3>4, <3>5
  <2> QED BY <2>1, <2>2, OneJobMoves
<1>4. CASE Reap
  <2>1. \A j \in JobIds :
           \/ syncJobs'[j].status = syncJobs[j].status
           \/ syncJobs[j].status \in {"queued", "running"} /\ syncJobs'[j].status = "failed"
    BY <1>4 DEF Reap, Reapable, ActiveJobs, SyncTypeOK, SyncJobRows
  <2>2. SyncQueue!GiveUp
    <3>1. \A j \in JobIds : StatusOf(j)' \in {"none", "queued", "running", "done", "failed"}
      BY <1>4 DEF StatusOf, Reap, SyncTypeOK, SyncJobRows, JobStatuses
    <3> QED BY <2>1, <3>1 DEF SyncQueue!GiveUp, SyncQueue!Active, StatusOf
  <2> QED BY <2>2 DEF SyncQueue!JobsNext
<1>5. \/ UNCHANGED syncJobs
      \/ Reap
      \/ \E a \in Clickers : QueueJob(a)
      \/ \E p \in Runners : \/ BeginJob(p) \/ Persist(p) \/ Settle(p)
                            \/ CrashJob(p) \/ ReportCrash(p)
  BY DEF SyncNext, syncVars, RunnerStep, Ask, Elect, RunStages, Prepare, RunnerDies, HourPasses
<1> QED BY <1>1, <1>2, <1>3, <1>4, <1>5

\* The rows of source_sync_jobs implement DurableJobs: a job is queued, begun and ended,
\* or given up by housekeeping, and no dead or late runner changes an outcome.
THEOREM SyncImplementsJobs == SyncSpec => SyncQueue!JobsSpec
<1>1. SyncInit => SyncQueue!JobsInit
  BY DEF SyncInit, SyncQueue!JobsInit, StatusOf, NoJob
<1>2. SyncInv /\ [SyncNext]_syncVars => [SyncQueue!JobsNext]_[j \in JobIds |-> StatusOf(j)]
  BY StepsMoveJobs
<1> QED BY <1>1, <1>2, SyncInitially, SyncStep, PTL DEF SyncSpec, SyncQueue!JobsSpec

-----------------------------------------------------------------------------
(***************************************************************************)
(* What FLoRA holds of the adjudicated disagreements is what was approved, *)
(* for any number of disagreements, judges and admins.                     *)
(***************************************************************************)
\* The types that matter here; how far the display ids count is not among them.
Rulings == [answer : FinalAnswers, by : Reviewers, displayId : Nat]
LiveRows == [displayId : Nat \ {0}, answer : FinalAnswers, deleted : BOOLEAN]

Typed ==
    /\ dispute \in [Disputes -> DisputeStates]
    /\ judgement \in [Disputes -> [Judges -> JudgementStates]]
    /\ final \in [Disputes -> {NoFinal} \cup Rulings]
    /\ adjRow \in [Disputes -> {NoAdjRow} \cup LiveRows]
    /\ minted \in Nat
    /\ importing \in [plan : Plans, found : BOOLEAN, locked : BOOLEAN]

\* What the import is about to insert is not there yet.
NewIsAbsent == \A d \in Disputes : importing.plan[d] = "new" => dispute[d].status = "absent"

\* One record of the property.
Served(d) ==
    /\ (dispute[d].status = "published") <=> (adjRow[d] # NoAdjRow /\ ~adjRow[d].deleted)
    /\ dispute[d].status = "published" => adjRow[d].answer = final[d].answer
    /\ (dispute[d].status \in {"approved", "published"}) <=> (final[d] # NoFinal)
    /\ final[d] # NoFinal => Linked[final[d].by] \notin Submitted(d)
    /\ adjRow[d].displayId = final[d].displayId

AdjInv == Typed /\ NewIsAbsent /\ (\A d \in Disputes : Served(d))

LEMMA ServedIsAll == (\A d \in Disputes : Served(d)) <=> ServedAsApproved
  BY DEF Served, ServedAsApproved

LEMMA NoRulingIsNone ==
    /\ NoFinal \notin Rulings /\ NoFinal.displayId = 0
    /\ NoAdjRow \notin LiveRows /\ NoAdjRow.displayId = 0
  BY AdjudicationAssumption
     DEF AdjudicationAssumption, NoFinal, NoReviewer, Rulings, NoAdjRow, LiveRows

LEMMA AdjInitially == AdjInit => AdjInv
<1> SUFFICES ASSUME AdjInit PROVE AdjInv
  OBVIOUS
<1>1. Typed
  BY DEF AdjInit, Typed, DisputeStates, JudgementStates, Plans, NoPlan
<1>2. NewIsAbsent
  BY DEF AdjInit, NewIsAbsent, NoPlan
<1>3. ASSUME NEW d \in Disputes PROVE Served(d)
  BY NoRulingIsNone DEF AdjInit, Served
<1> QED BY <1>1, <1>2, <1>3 DEF AdjInv

-----------------------------------------------------------------------------
(***************************************************************************)
(* Judging.                                                                *)
(***************************************************************************)
\* A step of the judges leaves the decisions and the rows alone; a record it changes the
\* answers of is open.
LEMMA JudgingKeeps ==
    ASSUME AdjInv, UNCHANGED <<final, adjRow, minted, importing>>,
           judgement' \in [Disputes -> [Judges -> JudgementStates]],
           dispute' \in [Disputes -> DisputeStates],
           \A d \in Disputes :
               \/ dispute'[d] = dispute[d] /\ Submitted(d)' = Submitted(d)
               \/ dispute[d].status = "open" /\ dispute'[d].status \in {"open", "awaiting_approval"}
    PROVE  AdjInv'
<1>1. Typed'
  BY DEF AdjInv, Typed
<1>2. NewIsAbsent'
  BY DEF AdjInv, NewIsAbsent
<1>3. ASSUME NEW d \in Disputes PROVE Served(d)'
  <2>1. Served(d) /\ UNCHANGED <<final, adjRow>>
    BY DEF AdjInv
  <2>2. CASE dispute'[d] = dispute[d] /\ Submitted(d)' = Submitted(d)
    BY <2>1, <2>2 DEF Served
  <2>3. CASE dispute[d].status = "open" /\ dispute'[d].status \in {"open", "awaiting_approval"}
    BY <2>1, <2>3 DEF Served
  <2> QED BY <2>2, <2>3
<1> QED BY <1>1, <1>2, <1>3 DEF AdjInv

LEMMA NextDisputeKeeps ==
    ASSUME AdjInv, NEW j \in Judges, NextDispute(j)
    PROVE  AdjInv'
<1>1. PICK served \in SUBSET Disputes, gone \in SUBSET Disputes :
          /\ gone \subseteq ClaimsOf(j)
          /\ \A d \in served : judgement[d][j] \in {"none", "claimed", "lapsed"}
          /\ judgement' = [x \in Disputes |-> [judgement[x] EXCEPT ![j] =
                 IF x \in served THEN "claimed" ELSE IF x \in gone THEN "none"
                 ELSE judgement[x][j]]]
  <2> DEFINE gone == ClaimsOf(j) \ StillMine(j)
             offered == {d \in Disputes : OpenTo(d, j)}
             ToServe == IF StillMine(j) # {} THEN StillMine(j)
                        ELSE {d \in offered : \A x \in offered :
                                  Cardinality(Submitted(x)) <= Cardinality(Submitted(d))}
  <2>1. PICK served \in {{d} : d \in ToServe} \cup (IF ToServe = {} THEN {{}} ELSE {}) :
            judgement' = [x \in Disputes |-> [judgement[x] EXCEPT ![j] =
                 IF x \in served THEN "claimed" ELSE IF x \in gone THEN "none"
                 ELSE judgement[x][j]]]
    BY DEF NextDispute
  <2>2. ToServe \subseteq {d \in Disputes : OpenTo(d, j)}
    BY DEF StillMine, ClaimsOf
  <2>3. gone \subseteq ClaimsOf(j) /\ ClaimsOf(j) \subseteq Disputes
    BY DEF ClaimsOf
  <2> HIDE DEF ToServe, gone
  <2>4. served = {} \/ \E d \in ToServe : served = {d}
    BY <2>1
  <2>5. served \subseteq ToServe
    BY <2>4
  <2>6. served \in SUBSET Disputes /\ gone \in SUBSET Disputes
    BY <2>2, <2>3, <2>5
  <2>7. \A d \in served : judgement[d][j] \in {"none", "claimed", "lapsed"}
    BY <2>2, <2>5 DEF OpenTo
  <2> QED BY <2>1, <2>3, <2>6, <2>7
<1>2. judgement' \in [Disputes -> [Judges -> JudgementStates]]
  BY <1>1 DEF AdjInv, Typed, JudgementStates
<1>3. ASSUME NEW d \in Disputes, NEW k \in Judges
      PROVE  judgement'[d][k] = "submitted" <=> judgement[d][k] = "submitted"
  BY <1>1 DEF AdjInv, Typed, ClaimsOf
<1>4. ASSUME NEW d \in Disputes PROVE Submitted(d)' = Submitted(d)
  BY <1>3 DEF Submitted, Holding
<1>5. UNCHANGED <<dispute, final, adjRow, minted, importing>>
  BY DEF NextDispute
<1>6. dispute' \in [Disputes -> DisputeStates]
  BY <1>5 DEF AdjInv, Typed
<1> QED BY <1>2, <1>4, <1>5, <1>6, JudgingKeeps

\* A step of one judge on one record.
LEMMA PlaceKeeps ==
    ASSUME AdjInv, NEW d \in Disputes, NEW j \in Judges,
           SeatLapses(d, j) \/ Submit(d, j) \/ SkipDispute(d, j)
    PROVE  AdjInv'
<1>1. PICK now \in {"lapsed", "submitted", "skipped"} :
          judgement' = [judgement EXCEPT ![d][j] = now]
  BY DEF SeatLapses, Submit, SkipDispute
<1>2. judgement' \in [Disputes -> [Judges -> JudgementStates]]
  BY <1>1 DEF AdjInv, Typed, JudgementStates
<1>3. UNCHANGED <<final, adjRow, minted, importing>>
  BY DEF SeatLapses, Submit, SkipDispute
<1>4. \A x \in Disputes \ {d} : dispute'[x] = dispute[x] /\ Submitted(x)' = Submitted(x)
  BY <1>1 DEF AdjInv, Typed, SeatLapses, Submit, SkipDispute, Submitted, Holding
<1>5. CASE SeatLapses(d, j)
  <2>1. Submitted(d)' = Submitted(d) /\ dispute' = dispute
    BY <1>5 DEF AdjInv, Typed, SeatLapses, Submitted, Holding
  <2> QED BY <1>2, <1>3, <1>4, <2>1, JudgingKeeps DEF AdjInv, Typed
<1>6. CASE Submit(d, j) \/ SkipDispute(d, j)
  <2>1. dispute[d].status = "open"
    BY <1>6 DEF Submit, SkipDispute, StillMine, OpenTo
  <2>2. dispute \in [Disputes -> DisputeStates]
    BY DEF AdjInv, Typed
  <2>3. dispute' = dispute \/ dispute' = [dispute EXCEPT ![d].status = "awaiting_approval"]
    BY <1>6 DEF Submit, SkipDispute
  <2>4. CASE dispute' = dispute
    <3>1. dispute' \in [Disputes -> DisputeStates] /\ dispute'[d].status = "open"
      BY <2>1, <2>2, <2>4
    <3>2. \A x \in Disputes :
             \/ dispute'[x] = dispute[x] /\ Submitted(x)' = Submitted(x)
             \/ dispute[x].status = "open" /\ dispute'[x].status \in {"open", "awaiting_approval"}
      BY <1>4, <2>1, <3>1
    <3> QED BY <1>2, <1>3, <3>1, <3>2, JudgingKeeps
  <2>5. CASE dispute' = [dispute EXCEPT ![d].status = "awaiting_approval"]
    <3> DEFINE next == [dispute[d] EXCEPT !.status = "awaiting_approval"]
    <3>1. /\ next \in DisputeStates /\ next.status = "awaiting_approval"
          /\ dispute' = [dispute EXCEPT ![d] = next]
      BY <2>2, <2>5 DEF DisputeStates
    <3> HIDE DEF next
    <3>2. dispute' \in [Disputes -> DisputeStates] /\ dispute'[d].status = "awaiting_approval"
      BY <2>2, <3>1
    <3> QED BY <1>2, <1>3, <1>4, <2>1, <3>2, JudgingKeeps
  <2> QED BY <2>3, <2>4, <2>5
<1> QED BY <1>5, <1>6

-----------------------------------------------------------------------------
(***************************************************************************)
(* The import: the records it inserts were not there, and it moves no      *)
(* other's status.                                                         *)
(***************************************************************************)
LEMMA PlanKeeps == ASSUME AdjInv, PlanImport PROVE AdjInv'
<1>1. PICK found \in BOOLEAN :
          importing' = [plan |-> [d \in Disputes |-> PlanFor(d, found)],
                        found |-> found, locked |-> TRUE]
  BY DEF PlanImport
<1>2. UNCHANGED <<dispute, judgement, final, adjRow, minted>>
  BY DEF PlanImport
<1>3. \A d \in Disputes :
         /\ PlanFor(d, found) \in {"untouched", "new", "updated", "unchanged", "kept"}
         /\ PlanFor(d, found) = "new" => dispute[d].status = "absent"
  BY DEF PlanFor
<1>4. Typed'
  BY <1>1, <1>2, <1>3 DEF AdjInv, Typed, Plans
<1>5. NewIsAbsent'
  BY <1>1, <1>2, <1>3 DEF NewIsAbsent
<1>6. ASSUME NEW d \in Disputes PROVE Served(d)'
  BY <1>2 DEF AdjInv, Served, Submitted, Holding
<1> QED BY <1>4, <1>5, <1>6 DEF AdjInv

LEMMA WriteKeeps == ASSUME AdjInv, WriteImport PROVE AdjInv'
<1>1. /\ importing' = [plan |-> NoPlan, found |-> FALSE, locked |-> FALSE]
      /\ UNCHANGED <<judgement, final, adjRow, minted>>
  BY DEF WriteImport
<1>2. ASSUME NEW d \in Disputes
      PROVE  /\ dispute'[d] \in DisputeStates
             /\ \/ dispute'[d].status = dispute[d].status
                \/ dispute[d].status = "absent" /\ dispute'[d].status = "open"
  <2>1. CASE importing.plan[d] = "new"
    <3>1. dispute'[d] = [status |-> "open", enriched |-> importing.found]
      BY <2>1 DEF WriteImport
    <3> QED BY <2>1, <3>1 DEF AdjInv, Typed, NewIsAbsent, DisputeStates
  <2>2. CASE importing.plan[d] # "new"
    <3>1. dispute'[d] \in {dispute[d], [dispute[d] EXCEPT !.enriched = TRUE]}
      BY <2>2 DEF WriteImport
    <3>2. dispute[d] \in DisputeStates
      BY DEF AdjInv, Typed
    <3> QED BY <3>1, <3>2 DEF DisputeStates
  <2> QED BY <2>1, <2>2
<1>3. Typed'
  <2>1. dispute' \in [Disputes -> DisputeStates]
    BY <1>2 DEF WriteImport
  <2> QED BY <1>1, <2>1 DEF AdjInv, Typed, NoPlan, Plans
<1>4. NewIsAbsent'
  BY <1>1 DEF NewIsAbsent, NoPlan
<1>5. ASSUME NEW d \in Disputes PROVE Served(d)'
  BY <1>1, <1>2 DEF AdjInv, Served, Submitted, Holding
<1> QED BY <1>3, <1>4, <1>5 DEF AdjInv

-----------------------------------------------------------------------------
(***************************************************************************)
(* The admin's side: each step decides about one record.                   *)
(***************************************************************************)
LEMMA DecisionKeeps ==
    ASSUME AdjInv, NEW d \in Disputes, UNCHANGED <<judgement, importing>>,
           NEW status \in {"awaiting_approval", "approved", "published"},
           NEW ruling \in {NoFinal} \cup Rulings, NEW row \in {NoAdjRow} \cup LiveRows,
           dispute[d].status # "absent",
           dispute' = [dispute EXCEPT ![d].status = status],
           final' = [final EXCEPT ![d] = ruling], adjRow' = [adjRow EXCEPT ![d] = row],
           minted' \in Nat,
           (status = "published") <=> (row # NoAdjRow /\ ~row.deleted),
           status = "published" => row.answer = ruling.answer,
           (status \in {"approved", "published"}) <=> (ruling # NoFinal),
           ruling # NoFinal => Linked[ruling.by] \notin Submitted(d),
           row.displayId = ruling.displayId
    PROVE  AdjInv'
<1>1. Typed'
  BY DEF AdjInv, Typed, DisputeStates
<1>2. NewIsAbsent'
  BY DEF AdjInv, Typed, NewIsAbsent
<1>3. ASSUME NEW x \in Disputes PROVE Served(x)'
  <2>1. Submitted(x)' = Submitted(x)
    BY DEF Submitted, Holding
  <2>2. CASE x = d
    <3>1. dispute'[d].status = status /\ final'[d] = ruling /\ adjRow'[d] = row
      BY DEF AdjInv, Typed, DisputeStates
    <3> QED BY <2>1, <2>2, <3>1 DEF Served
  <2>3. CASE x # d
    BY <2>1, <2>3 DEF AdjInv, Typed, Served
  <2> QED BY <2>2, <2>3
<1> QED BY <1>1, <1>2, <1>3 DEF AdjInv

LEMMA ApproveKeeps ==
    ASSUME AdjInv, NEW d \in Disputes, NEW a \in Reviewers, Approve(d, a)
    PROVE  AdjInv'
<1>1. PICK answer \in FinalAnswers :
          final' = [final EXCEPT ![d] = [final[d] EXCEPT !.answer = answer, !.by = a]]
  BY DEF Approve
<1> DEFINE ruling == [final[d] EXCEPT !.answer = answer, !.by = a]
<1>2. final[d] \in {NoFinal} \cup Rulings /\ adjRow[d] \in {NoAdjRow} \cup LiveRows
      /\ Served(d) /\ minted \in Nat /\ adjRow \in [Disputes -> {NoAdjRow} \cup LiveRows]
  BY DEF AdjInv, Typed
<1>3. ruling \in Rulings /\ ruling.by = a /\ ruling.displayId = final[d].displayId
  <2> DEFINE answered == [final[d] EXCEPT !.answer = answer]
  <2>1. ruling = [answered EXCEPT !.by = a]
    OBVIOUS
  <2>2. /\ answered \in [answer : FinalAnswers, by : Reviewers \cup {NoReviewer}, displayId : Nat]
        /\ answered.displayId = final[d].displayId
    BY <1>2 DEF Rulings, NoFinal
  <2> HIDE DEF answered
  <2> QED BY <2>1, <2>2 DEF Rulings
<1>4. /\ dispute[d].status \in {"awaiting_approval", "approved"}
      /\ dispute' = [dispute EXCEPT ![d].status = "approved"]
      /\ Linked[a] \notin Submitted(d)
      /\ UNCHANGED <<judgement, adjRow, minted, importing>>
  BY DEF Approve, JudgedIt
<1>5. adjRow' = [adjRow EXCEPT ![d] = adjRow[d]]
  BY <1>2, <1>4
<1>6. adjRow[d] = NoAdjRow \/ adjRow[d].deleted
  BY <1>2, <1>4 DEF Served, LiveRows
<1> HIDE DEF ruling
<1>7. final' = [final EXCEPT ![d] = ruling] /\ minted' \in Nat
  BY <1>1, <1>2, <1>4 DEF ruling
<1>8. /\ ruling # NoFinal /\ Linked[ruling.by] \notin Submitted(d)
      /\ adjRow[d].displayId = ruling.displayId
      /\ ~(adjRow[d] # NoAdjRow /\ ~adjRow[d].deleted)
  BY <1>2, <1>3, <1>4, <1>6, NoRulingIsNone DEF Served
<1> HIDE DEF Served
<1> QED BY <1>2, <1>3, <1>4, <1>5, <1>7, <1>8, DecisionKeeps

LEMMA UndoKeeps == ASSUME AdjInv, NEW d \in Disputes, UndoApproval(d) PROVE AdjInv'
<1>1. /\ dispute[d].status = "approved" /\ final[d].displayId = 0
      /\ final' = [final EXCEPT ![d] = NoFinal]
      /\ dispute' = [dispute EXCEPT ![d].status = "awaiting_approval"]
      /\ UNCHANGED <<judgement, adjRow, minted, importing>>
  BY DEF UndoApproval, NeverInFlora
<1>2. adjRow[d] \in {NoAdjRow} \cup LiveRows /\ Served(d) /\ minted \in Nat
      /\ adjRow' = [adjRow EXCEPT ![d] = adjRow[d]]
  BY <1>1 DEF AdjInv, Typed
<1>3. adjRow[d] = NoAdjRow
  BY <1>1, <1>2 DEF Served, LiveRows
<1> QED BY <1>1, <1>2, <1>3, NoRulingIsNone, DecisionKeeps

LEMMA PublishKeeps == ASSUME AdjInv, NEW d \in Disputes, Publish(d) PROVE AdjInv'
<1> DEFINE id == IF adjRow[d] = NoAdjRow THEN minted + 1 ELSE adjRow[d].displayId
           ruling == [final[d] EXCEPT !.displayId = id]
           row == [displayId |-> id, answer |-> final[d].answer, deleted |-> FALSE]
<1>1. /\ dispute[d].status = "approved"
      /\ dispute' = [dispute EXCEPT ![d].status = "published"]
      /\ final' = [final EXCEPT ![d] = ruling] /\ adjRow' = [adjRow EXCEPT ![d] = row]
      /\ minted' = IF adjRow[d] = NoAdjRow THEN minted + 1 ELSE minted
      /\ UNCHANGED <<judgement, importing>>
  BY DEF Publish, AdjudicatedRow
<1>2. final[d] \in {NoFinal} \cup Rulings /\ adjRow[d] \in {NoAdjRow} \cup LiveRows
      /\ Served(d) /\ minted \in Nat
  BY DEF AdjInv, Typed
<1>3. final[d] \in Rulings /\ Linked[final[d].by] \notin Submitted(d)
  BY <1>1, <1>2 DEF Served
<1>4. id \in Nat \ {0} /\ minted' \in Nat
  BY <1>1, <1>2 DEF LiveRows
<1>5. /\ ruling \in Rulings /\ ruling.by = final[d].by /\ ruling.answer = final[d].answer
      /\ ruling.displayId = id
  BY <1>3, <1>4 DEF Rulings
<1>6. row \in LiveRows /\ ~row.deleted /\ row.displayId = id /\ row.answer = final[d].answer
  BY <1>3, <1>4 DEF Rulings, LiveRows
<1> HIDE DEF ruling, row, id
<1> QED BY <1>1, <1>3, <1>4, <1>5, <1>6, NoRulingIsNone, DecisionKeeps

LEMMA WithdrawKeeps == ASSUME AdjInv, NEW d \in Disputes, Withdraw(d) PROVE AdjInv'
<1> DEFINE row == [adjRow[d] EXCEPT !.deleted = TRUE]
<1>1. /\ dispute[d].status = "published"
      /\ dispute' = [dispute EXCEPT ![d].status = "approved"]
      /\ adjRow' = [adjRow EXCEPT ![d] = row]
      /\ UNCHANGED <<judgement, final, minted, importing>>
  BY DEF Withdraw
<1>2. final[d] \in {NoFinal} \cup Rulings /\ adjRow[d] \in LiveRows /\ Served(d) /\ minted \in Nat
      /\ final' = [final EXCEPT ![d] = final[d]]
  BY <1>1 DEF AdjInv, Typed, Served
<1>3. row \in LiveRows /\ row.deleted /\ row.displayId = adjRow[d].displayId
  BY <1>2 DEF LiveRows
<1> HIDE DEF row
<1> QED BY <1>1, <1>2, <1>3, NoRulingIsNone, DecisionKeeps DEF Served

LEMMA AdjStep == AdjInv /\ [AdjNext]_adjVars => AdjInv'
<1> SUFFICES ASSUME AdjInv, [AdjNext]_adjVars PROVE AdjInv'
  OBVIOUS
<1>1. CASE UNCHANGED adjVars
  BY <1>1 DEF adjVars, AdjInv, Typed, NewIsAbsent, Served, Submitted, Holding
<1>2. CASE AdjNext
  BY <1>2, NextDisputeKeeps, PlaceKeeps, PlanKeeps, WriteKeeps, ApproveKeeps, UndoKeeps,
     PublishKeeps, WithdrawKeeps DEF AdjNext
<1> QED BY <1>1, <1>2

\* FLoRA holds exactly the answers that were approved, each by somebody who did not judge
\* the record, and keeps the display id of one that was there before.
THEOREM ApprovedIsServed == AdjSpec => []ServedAsApproved
<1>1. AdjSpec => []AdjInv
  BY AdjInitially, AdjStep, PTL DEF AdjSpec
<1>2. AdjInv => ServedAsApproved
  BY ServedIsAll DEF AdjInv
<1> QED BY <1>1, <1>2, PTL

-----------------------------------------------------------------------------
(***************************************************************************)
(* The places of the judges, for any number of judges and disagreements.   *)
(***************************************************************************)
\* Who has a place of a record, and the records a judge has in hand.
Seated(d) == Holding(d, {"submitted", "claimed"})

PlacesOK(d) ==
    /\ IsFiniteSet(Seated(d)) /\ Cardinality(Seated(d)) <= JudgesPerRecord
    /\ (dispute[d].status \notin {"absent", "open"}) <=>
           (Cardinality(Submitted(d)) = JudgesPerRecord)

OneClaim(j) == \A d, e \in ClaimsOf(j) : d = e

PlacesInv ==
    /\ AdjInv
    /\ \A d \in Disputes : PlacesOK(d)
    /\ \A j \in Judges : OneClaim(j)

LEMMA PlacesGiveTwo == PlacesInv => TwoPlaces
<1> SUFFICES ASSUME PlacesInv PROVE TwoPlaces
  OBVIOUS
<1>1. ASSUME NEW j \in Judges PROVE Cardinality(StillMine(j)) <= 1
  <2>1. \A d, e \in StillMine(j) : d = e
    BY DEF PlacesInv, OneClaim, StillMine
  <2>2. CASE StillMine(j) = {}
    BY <2>2, FS_EmptySet
  <2>3. CASE StillMine(j) # {}
    <3>1. PICK d \in StillMine(j) : TRUE
      BY <2>3
    <3>2. StillMine(j) = {d}
      BY <2>1, <3>1
    <3> QED BY <3>2, FS_Singleton
  <2> QED BY <2>2, <2>3
<1> QED BY <1>1 DEF PlacesInv, PlacesOK, Seated, TwoPlaces

LEMMA PlacesInitially == AdjInit => PlacesInv
<1> SUFFICES ASSUME AdjInit PROVE PlacesInv
  OBVIOUS
<1>1. ASSUME NEW d \in Disputes PROVE PlacesOK(d)
  <2>1. Seated(d) = {} /\ Submitted(d) = {} /\ dispute[d].status = "absent"
    BY DEF AdjInit, Seated, Submitted, Holding
  <2> QED BY <2>1, FS_EmptySet DEF PlacesOK, JudgesPerRecord
<1>2. \A j \in Judges : OneClaim(j)
  BY DEF AdjInit, OneClaim, ClaimsOf
<1> QED BY <1>1, <1>2, AdjInitially DEF PlacesInv

\* A step that leaves the judgements and what is settled of each record alone.
LEMMA SettledKeeps ==
    ASSUME PlacesInv, AdjInv', UNCHANGED judgement,
           \A d \in Disputes : dispute[d].status \in {"absent", "open"} <=>
                               dispute'[d].status \in {"absent", "open"}
    PROVE  PlacesInv'
<1>1. ASSUME NEW d \in Disputes PROVE PlacesOK(d)'
  <2>1. Seated(d)' = Seated(d) /\ Submitted(d)' = Submitted(d)
    BY DEF Seated, Submitted, Holding
  <2> QED BY <2>1 DEF PlacesInv, PlacesOK
<1>2. ASSUME NEW j \in Judges PROVE OneClaim(j)'
  <2>1. ClaimsOf(j)' = ClaimsOf(j)
    BY DEF ClaimsOf
  <2> QED BY <2>1 DEF PlacesInv, OneClaim
<1> QED BY <1>1, <1>2 DEF PlacesInv

\* The places of a record after its judge took one, kept it or left.
LEMMA PlaceTaken ==
    ASSUME PlacesInv, NEW d \in Disputes, NEW j \in Judges, OpenTo(d, j),
           \A k \in Judges \ {j} : judgement'[d][k] = judgement[d][k]
    PROVE  /\ IsFiniteSet(Seated(d)') /\ Cardinality(Seated(d)') <= JudgesPerRecord
           /\ Submitted(d) \subseteq Submitted(d)' /\ Submitted(d)' \subseteq Seated(d)'
<1> DEFINE others == Seated(d) \ {j}
<1>1. IsFiniteSet(others) /\ Cardinality(others) < JudgesPerRecord /\ Cardinality(others) \in Nat
  <2>1. IsFiniteSet(Seated(d))
    BY DEF PlacesInv, PlacesOK
  <2>2. others \in SUBSET Seated(d)
    OBVIOUS
  <2>3. IsFiniteSet(others)
    BY <2>1, <2>2, FS_Subset
  <2>4. Cardinality(others) \in Nat
    BY <2>3, FS_CardinalityType
  <2>5. Cardinality(others) < JudgesPerRecord
    BY DEF OpenTo, TakenByOthers, Seated
  <2> QED BY <2>3, <2>4, <2>5
<1>2. Seated(d)' \subseteq others \cup {j} /\ others \subseteq Seated(d)'
  BY DEF Seated, Holding
<1>3. IsFiniteSet(others \cup {j}) /\ Cardinality(others \cup {j}) <= JudgesPerRecord
  <2>1. /\ IsFiniteSet(others \cup {j})
        /\ Cardinality(others \cup {j}) \in {Cardinality(others), Cardinality(others) + 1}
    BY <1>1, FS_AddElement, Zenon
  <2> QED BY <1>1, <2>1 DEF JudgesPerRecord
<1>4. IsFiniteSet(Seated(d)') /\ Cardinality(Seated(d)') <= JudgesPerRecord
  <2>1. Seated(d)' \in SUBSET (others \cup {j})
    BY <1>2
  <2>2. /\ IsFiniteSet(Seated(d)')
        /\ Cardinality(Seated(d)') <= Cardinality(others \cup {j})
    BY <1>3, <2>1, FS_Subset
  <2>3. Cardinality(Seated(d)') \in Nat /\ Cardinality(others \cup {j}) \in Nat
    BY <1>3, <2>2, FS_CardinalityType
  <2> QED BY <1>3, <2>2, <2>3 DEF JudgesPerRecord
<1>5. j \notin Submitted(d)
  BY DEF OpenTo, Submitted, Holding
<1>6. Submitted(d) \subseteq Submitted(d)'
  BY <1>5 DEF Submitted, Holding
<1>7. Submitted(d)' \subseteq Seated(d)'
  BY DEF Submitted, Seated, Holding
<1> QED BY <1>4, <1>6, <1>7

\* A judge leaving a place frees it.
LEMMA PlaceLeft ==
    ASSUME PlacesInv, NEW d \in Disputes, UNCHANGED dispute,
           Seated(d)' \subseteq Seated(d), Submitted(d)' = Submitted(d)
    PROVE  PlacesOK(d)'
<1>1. IsFiniteSet(Seated(d)) /\ Cardinality(Seated(d)) <= JudgesPerRecord
  BY DEF PlacesInv, PlacesOK
<1>2. IsFiniteSet(Seated(d)') /\ Cardinality(Seated(d)') <= Cardinality(Seated(d))
  BY <1>1, FS_Subset
<1>3. Cardinality(Seated(d)') \in Nat /\ Cardinality(Seated(d)) \in Nat
  BY <1>1, <1>2, FS_CardinalityType
<1>4. Cardinality(Seated(d)') <= JudgesPerRecord
  BY <1>1, <1>2, <1>3 DEF JudgesPerRecord
<1> QED BY <1>2, <1>4 DEF PlacesInv, PlacesOK

LEMMA NextKeepsPlaces ==
    ASSUME PlacesInv, NEW j \in Judges, NextDispute(j), AdjInv'
    PROVE  PlacesInv'
<1> DEFINE gone == ClaimsOf(j) \ StillMine(j)
           offered == {d \in Disputes : OpenTo(d, j)}
           ToServe == IF StillMine(j) # {} THEN StillMine(j)
                      ELSE {d \in offered : \A x \in offered :
                                Cardinality(Submitted(x)) <= Cardinality(Submitted(d))}
<1>1. PICK served \in {{d} : d \in ToServe} \cup (IF ToServe = {} THEN {{}} ELSE {}) :
          judgement' = [x \in Disputes |-> [judgement[x] EXCEPT ![j] =
               IF x \in served THEN "claimed" ELSE IF x \in gone THEN "none"
               ELSE judgement[x][j]]]
  BY DEF NextDispute
<1>2. ToServe \subseteq offered /\ (StillMine(j) # {} => ToServe = StillMine(j))
  BY DEF StillMine, ClaimsOf
<1> HIDE DEF ToServe
<1>3. \A d, e \in served : d = e
  BY <1>1
<1>4. served \subseteq ToServe
  BY <1>1
<1>5. judgement \in [Disputes -> [Judges -> JudgementStates]] /\ UNCHANGED dispute
  BY DEF PlacesInv, AdjInv, Typed, NextDispute
<1>6. ASSUME NEW d \in Disputes
      PROVE  /\ \A k \in Judges \ {j} : judgement'[d][k] = judgement[d][k]
             /\ judgement'[d][j] = IF d \in served THEN "claimed" ELSE IF d \in gone THEN "none"
                                   ELSE judgement[d][j]
  <2>1. judgement[d] \in [Judges -> JudgementStates]
    BY <1>5
  <2>2. judgement'[d] = [judgement[d] EXCEPT ![j] =
               IF d \in served THEN "claimed" ELSE IF d \in gone THEN "none"
               ELSE judgement[d][j]]
    BY <1>1
  <2> QED BY <2>1, <2>2
<1> HIDE DEF gone, offered
<1>7. ASSUME NEW d \in Disputes PROVE PlacesOK(d)'
  <2>1. Submitted(d)' = Submitted(d)
    <3>1. d \in served => judgement[d][j] \in {"none", "claimed", "lapsed"}
      BY <1>2, <1>4 DEF offered, OpenTo
    <3>2. d \in gone => judgement[d][j] \in {"claimed", "lapsed"}
      BY DEF gone, ClaimsOf
    <3> QED BY <1>6, <3>1, <3>2 DEF Submitted, Holding
  <2>2. CASE d \in served
    <3>1. OpenTo(d, j)
      BY <1>2, <1>4, <2>2 DEF offered
    <3>2. IsFiniteSet(Seated(d)') /\ Cardinality(Seated(d)') <= JudgesPerRecord
      BY <1>6, <3>1, PlaceTaken
    <3> QED BY <1>5, <2>1, <3>2 DEF PlacesInv, PlacesOK
  <2>3. CASE d \notin served
    <3>1. Seated(d)' \subseteq Seated(d)
      BY <1>6, <2>3 DEF Seated, Holding
    <3> QED BY <1>5, <2>1, <3>1, PlaceLeft
  <2> QED BY <2>2, <2>3
<1>8. ASSUME NEW k \in Judges PROVE OneClaim(k)'
  <2>1. OneClaim(k)
    BY DEF PlacesInv
  <2>2. CASE k # j
    <3>1. ClaimsOf(k)' = ClaimsOf(k)
      BY <1>6, <2>2 DEF ClaimsOf
    <3> QED BY <2>1, <3>1 DEF OneClaim
  <2>3. CASE k = j
    <3>1. ClaimsOf(j)' \subseteq served \cup StillMine(j)
      BY <1>6 DEF ClaimsOf, gone
    <3>2. CASE StillMine(j) = {}
      BY <1>3, <2>3, <3>1, <3>2 DEF OneClaim
    <3>3. CASE StillMine(j) # {}
      <4>1. served \subseteq StillMine(j)
        BY <1>2, <1>4, <3>3
      <4>2. StillMine(j) \subseteq ClaimsOf(j)
        BY DEF StillMine
      <4> QED BY <2>1, <2>3, <3>1, <4>1, <4>2 DEF OneClaim
    <3> QED BY <3>2, <3>3
  <2> QED BY <2>2, <2>3
<1> QED BY <1>7, <1>8 DEF PlacesInv

LEMMA PlaceStepKeeps ==
    ASSUME PlacesInv, NEW d \in Disputes, NEW j \in Judges, AdjInv',
           SeatLapses(d, j) \/ Submit(d, j) \/ SkipDispute(d, j)
    PROVE  PlacesInv'
<1>1. PICK now \in {"lapsed", "submitted", "skipped"} :
          /\ judgement' = [judgement EXCEPT ![d][j] = now]
          /\ now = "submitted" <=> Submit(d, j)
          /\ now # "submitted" => UNCHANGED dispute
          /\ now = "lapsed" => judgement[d][j] = "claimed"
          /\ now # "lapsed" => d \in StillMine(j)
  <2>1. CASE SeatLapses(d, j) /\ ~Submit(d, j)
    BY <2>1 DEF SeatLapses
  <2>2. CASE Submit(d, j)
    BY <2>2 DEF Submit
  <2>3. CASE SkipDispute(d, j) /\ ~Submit(d, j)
    BY <2>3 DEF SkipDispute
  <2> QED BY <2>1, <2>2, <2>3
<1>2. judgement \in [Disputes -> [Judges -> JudgementStates]]
  BY DEF PlacesInv, AdjInv, Typed
<1>3. /\ \A x \in Disputes \ {d} : judgement'[x] = judgement[x]
      /\ \A k \in Judges \ {j} : judgement'[d][k] = judgement[d][k]
      /\ judgement'[d][j] = now
      /\ judgement[d][j] \in {"claimed", "lapsed"}
  BY <1>1, <1>2 DEF StillMine, ClaimsOf
<1>4. \A x \in Disputes \ {d} : dispute'[x] = dispute[x]
  BY <1>1 DEF PlacesInv, AdjInv, Typed, Submit
<1>5. ASSUME NEW x \in Disputes, x # d PROVE PlacesOK(x)'
  <2>1. Seated(x)' = Seated(x) /\ Submitted(x)' = Submitted(x) /\ dispute'[x] = dispute[x]
    BY <1>3, <1>4, <1>5 DEF Seated, Submitted, Holding
  <2> QED BY <2>1 DEF PlacesInv, PlacesOK
<1>6. PlacesOK(d)'
  <2>1. CASE now # "submitted"
    <3>1. Seated(d)' \subseteq Seated(d) /\ Submitted(d)' = Submitted(d)
      BY <1>3, <2>1 DEF Seated, Submitted, Holding
    <3> QED BY <1>1, <2>1, <3>1, PlaceLeft
  <2>2. CASE now = "submitted"
    <3>1. /\ IsFiniteSet(Seated(d)') /\ Cardinality(Seated(d)') <= JudgesPerRecord
          /\ Submitted(d)' \subseteq Seated(d)'
          /\ dispute[d].status = "open"
      BY <1>1, <1>3, <2>2, PlaceTaken DEF StillMine, OpenTo
    <3>2. Submitted(d)' = Submitted(d) \cup {j}
      BY <1>3, <2>2 DEF Submitted, Holding
    <3>3. IsFiniteSet(Submitted(d)') /\ Cardinality(Submitted(d)') <= JudgesPerRecord
          /\ Cardinality(Submitted(d)') \in Nat
      <4>1. /\ IsFiniteSet(Submitted(d)')
            /\ Cardinality(Submitted(d)') <= Cardinality(Seated(d)')
        BY <3>1, FS_Subset
      <4>2. Cardinality(Submitted(d)') \in Nat /\ Cardinality(Seated(d)') \in Nat
        BY <3>1, <4>1, FS_CardinalityType
      <4> QED BY <3>1, <4>1, <4>2 DEF JudgesPerRecord
    <3>4. dispute' = IF Cardinality(Submitted(d)') >= JudgesPerRecord
                     THEN [dispute EXCEPT ![d].status = "awaiting_approval"] ELSE dispute
      BY <1>1, <2>2, <3>2 DEF Submit, Complete
    <3>5. dispute \in [Disputes -> DisputeStates]
      BY DEF PlacesInv, AdjInv, Typed
    <3>6. CASE Cardinality(Submitted(d)') = JudgesPerRecord
      <4>1. dispute'[d].status = "awaiting_approval"
        BY <3>3, <3>4, <3>5, <3>6 DEF DisputeStates, JudgesPerRecord
      <4> QED BY <3>1, <3>6, <4>1 DEF PlacesOK
    <3>7. CASE Cardinality(Submitted(d)') # JudgesPerRecord
      <4>1. dispute'[d].status = "open"
        BY <3>1, <3>3, <3>4, <3>7 DEF JudgesPerRecord
      <4> QED BY <3>1, <3>7, <4>1 DEF PlacesOK
    <3> QED BY <3>6, <3>7
  <2> QED BY <2>1, <2>2
<1>7. ASSUME NEW k \in Judges PROVE OneClaim(k)'
  <2>1. ClaimsOf(k)' \subseteq ClaimsOf(k)
    BY <1>3 DEF ClaimsOf
  <2> QED BY <2>1 DEF PlacesInv, OneClaim
<1> QED BY <1>5, <1>6, <1>7 DEF PlacesInv

LEMMA PlacesStep == PlacesInv /\ [AdjNext]_adjVars => PlacesInv'
<1> SUFFICES ASSUME PlacesInv, [AdjNext]_adjVars PROVE PlacesInv'
  OBVIOUS
<1>1. AdjInv'
  BY AdjStep DEF PlacesInv
<1>2. dispute \in [Disputes -> DisputeStates]
  BY DEF PlacesInv, AdjInv, Typed
<1>3. CASE UNCHANGED adjVars
  BY <1>1, <1>3, SettledKeeps DEF adjVars
<1>4. CASE PlanImport
  BY <1>1, <1>4, SettledKeeps DEF PlanImport
<1>5. CASE WriteImport
  <2>1. UNCHANGED judgement
    BY <1>5 DEF WriteImport
  <2>2. ASSUME NEW d \in Disputes
        PROVE  \/ dispute'[d].status = dispute[d].status
               \/ dispute[d].status = "absent" /\ dispute'[d].status = "open"
    <3>1. CASE importing.plan[d] = "new"
      <4>1. dispute'[d].status = "open"
        BY <1>5, <3>1 DEF WriteImport
      <4> QED BY <3>1, <4>1 DEF PlacesInv, AdjInv, NewIsAbsent
    <3>2. CASE importing.plan[d] # "new"
      <4>1. dispute'[d] \in {dispute[d], [dispute[d] EXCEPT !.enriched = TRUE]}
        BY <1>5, <3>2 DEF WriteImport
      <4>2. dispute[d] \in DisputeStates
        BY <1>2
      <4> QED BY <4>1, <4>2 DEF DisputeStates
    <3> QED BY <3>1, <3>2
  <2>3. \A d \in Disputes : dispute[d].status \in {"absent", "open"} <=>
                            dispute'[d].status \in {"absent", "open"}
    BY <2>2
  <2> QED BY <1>1, <2>1, <2>3, SettledKeeps
<1>6. ASSUME NEW d \in Disputes, NEW status \in {"awaiting_approval", "approved", "published"},
             dispute[d].status \notin {"absent", "open"},
             dispute' = [dispute EXCEPT ![d].status = status], UNCHANGED judgement
      PROVE  PlacesInv'
  <2>1. \A x \in Disputes \ {d} : dispute'[x] = dispute[x]
    BY <1>2, <1>6
  <2>2. dispute'[d].status = status
    BY <1>2, <1>6 DEF DisputeStates
  <2> QED BY <1>1, <1>6, <2>1, <2>2, SettledKeeps
<1>7. ASSUME NEW d \in Disputes, NEW a \in Reviewers, Approve(d, a) PROVE PlacesInv'
  BY <1>6, <1>7 DEF Approve
<1>8. ASSUME NEW d \in Disputes, UndoApproval(d) \/ Publish(d) \/ Withdraw(d) PROVE PlacesInv'
  BY <1>6, <1>8 DEF UndoApproval, Publish, Withdraw
<1> QED
  BY <1>1, <1>3, <1>4, <1>5, <1>7, <1>8, NextKeepsPlaces, PlaceStepKeeps DEF AdjNext

\* However claims lapse, are renewed, skipped or taken over: at most two places of a
\* disagreement are held, it is judged exactly with its second answer, and a judge has
\* one at a time (judging.py:1-14).
THEOREM PlacesAreTwo == AdjSpec => []TwoPlaces
<1>1. AdjSpec => []PlacesInv
  BY PlacesInitially, PlacesStep, PTL DEF AdjSpec
<1> QED BY <1>1, PlacesGiveTwo, PTL

-----------------------------------------------------------------------------
(***************************************************************************)
(* The display ids of the answers FLoRA has had, and with them the types.  *)
(***************************************************************************)
\* Every row that was ever published took the next number.
Displayed == {d \in Disputes : adjRow[d] # NoAdjRow}
DisplayIdsApart == \A d, e \in Displayed : adjRow[d].displayId = adjRow[e].displayId => d = e
NumbersInv ==
    /\ AdjInv
    /\ minted = Cardinality(Displayed)
    /\ \A d \in Displayed : adjRow[d].displayId \in 1 .. minted
    /\ DisplayIdsApart

LEMMA DisplayedIsFinite ==
    IsFiniteSet(Displayed) /\ Cardinality(Displayed) \in 0 .. Cardinality(Disputes)
<1>1. IsFiniteSet(Displayed) /\ Cardinality(Displayed) <= Cardinality(Disputes)
  BY AdjudicationAssumption, FS_Subset DEF AdjudicationAssumption, Displayed
<1>2. Cardinality(Displayed) \in Nat /\ Cardinality(Disputes) \in Nat
  BY <1>1, AdjudicationAssumption, FS_CardinalityType DEF AdjudicationAssumption
<1> QED BY <1>1, <1>2

LEMMA NumbersGiveTypes == NumbersInv => AdjTypeOK
<1> SUFFICES ASSUME NumbersInv PROVE AdjTypeOK
  OBVIOUS
<1>1. minted \in 0 .. Cardinality(Disputes) /\ Cardinality(Disputes) \in Nat
  BY DisplayedIsFinite, AdjudicationAssumption, FS_CardinalityType
     DEF NumbersInv, AdjudicationAssumption
<1>2. ASSUME NEW d \in Disputes PROVE adjRow[d] \in AdjRows
  <2>1. CASE adjRow[d] = NoAdjRow
    BY <2>1 DEF AdjRows
  <2>2. CASE adjRow[d] # NoAdjRow
    <3>1. adjRow[d] \in LiveRows /\ adjRow[d].displayId \in 1 .. minted
      BY <2>2 DEF NumbersInv, AdjInv, Typed, Displayed
    <3>2. adjRow[d].displayId \in 1 .. Cardinality(Disputes)
      BY <1>1, <3>1
    <3> QED BY <3>1, <3>2 DEF AdjRows, LiveRows
  <2> QED BY <2>1, <2>2
<1>3. ASSUME NEW d \in Disputes PROVE final[d] \in Finals
  <2>1. CASE final[d] = NoFinal
    BY <2>1 DEF Finals
  <2>2. CASE final[d] # NoFinal
    <3>1. final[d] \in Rulings /\ final[d].displayId = adjRow[d].displayId
      BY <2>2 DEF NumbersInv, AdjInv, Typed, Served
    <3>2. adjRow[d].displayId \in 0 .. Cardinality(Disputes)
      <4>1. adjRow[d] = NoAdjRow \/ adjRow[d].displayId \in 1 .. Cardinality(Disputes)
        BY <1>2 DEF AdjRows
      <4> QED BY <1>1, <4>1, NoRulingIsNone
    <3> QED BY <3>1, <3>2 DEF Finals, Rulings
  <2> QED BY <2>1, <2>2
<1> QED BY <1>1, <1>2, <1>3 DEF NumbersInv, AdjInv, Typed, AdjTypeOK

LEMMA NumbersInitially == AdjInit => NumbersInv
<1> SUFFICES ASSUME AdjInit PROVE NumbersInv
  OBVIOUS
<1>1. Displayed = {}
  BY DEF AdjInit, Displayed
<1> QED BY <1>1, AdjInitially, FS_EmptySet DEF AdjInit, NumbersInv, DisplayIdsApart

\* Publishing gives a record without a row the next number, and another its own again.
LEMMA PublishNumbers ==
    ASSUME NumbersInv, NEW d \in Disputes, Publish(d) PROVE NumbersInv'
<1> DEFINE id == IF adjRow[d] = NoAdjRow THEN minted + 1 ELSE adjRow[d].displayId
<1>1. AdjInv' /\ minted \in Nat /\ adjRow \in [Disputes -> {NoAdjRow} \cup LiveRows]
  BY PublishKeeps DEF NumbersInv, AdjInv, Typed
<1>2. /\ adjRow'[d].displayId = id
      /\ \A e \in Disputes \ {d} : adjRow'[e] = adjRow[e]
      /\ minted' = IF adjRow[d] = NoAdjRow THEN minted + 1 ELSE minted
  BY <1>1 DEF Publish, AdjudicatedRow
<1>3. id \in Nat \ {0}
  BY <1>1 DEF LiveRows
<1>4. Displayed' = Displayed \cup {d}
  BY <1>2, <1>3, NoRulingIsNone DEF Displayed
<1>5. CASE adjRow[d] = NoAdjRow
  <2>1. d \notin Displayed
    BY <1>5 DEF Displayed
  <2>2. Cardinality(Displayed') = Cardinality(Displayed) + 1
    BY <1>4, <2>1, DisplayedIsFinite, FS_AddElement
  <2>3. minted' = minted + 1 /\ id = minted + 1
    BY <1>2, <1>5
  <2>4. \A e \in Displayed : e # d /\ adjRow'[e] = adjRow[e] /\ adjRow[e].displayId \in 1 .. minted
    BY <1>2, <2>1 DEF Displayed, NumbersInv
  <2>5. \A e \in Displayed' : adjRow'[e].displayId \in 1 .. minted'
    BY <1>1, <1>2, <1>4, <2>3, <2>4
  <2>6. \A e, f \in Displayed' : adjRow'[e].displayId = adjRow'[f].displayId => e = f
    BY <1>1, <1>2, <1>4, <2>3, <2>4 DEF NumbersInv, DisplayIdsApart
  <2> QED BY <1>1, <2>2, <2>3, <2>5, <2>6 DEF NumbersInv, DisplayIdsApart
<1>6. CASE adjRow[d] # NoAdjRow
  <2>1. d \in Displayed /\ Displayed' = Displayed /\ minted' = minted
    BY <1>2, <1>4, <1>6 DEF Displayed
  <2>2. \A e \in Displayed : adjRow'[e].displayId = adjRow[e].displayId
    BY <1>2, <1>6 DEF Displayed
  <2> QED BY <1>1, <2>1, <2>2 DEF NumbersInv, DisplayIdsApart
<1> QED BY <1>5, <1>6

LEMMA WithdrawNumbers ==
    ASSUME NumbersInv, NEW d \in Disputes, Withdraw(d) PROVE NumbersInv'
<1>1. AdjInv' /\ adjRow \in [Disputes -> {NoAdjRow} \cup LiveRows]
  BY WithdrawKeeps DEF NumbersInv, AdjInv, Typed
<1>2. adjRow[d] # NoAdjRow
  BY DEF Withdraw, NumbersInv, AdjInv, Served
<1>3. /\ adjRow'[d] = [adjRow[d] EXCEPT !.deleted = TRUE]
      /\ \A e \in Disputes \ {d} : adjRow'[e] = adjRow[e]
      /\ minted' = minted
  BY <1>1 DEF Withdraw
<1>4. adjRow'[d].displayId = adjRow[d].displayId /\ adjRow'[d] # NoAdjRow
  BY <1>1, <1>2, <1>3 DEF LiveRows, NoAdjRow
<1>5. Displayed' = Displayed
  BY <1>2, <1>3, <1>4 DEF Displayed
<1>6. \A e \in Displayed : adjRow'[e].displayId = adjRow[e].displayId
  BY <1>3, <1>4 DEF Displayed
<1> QED BY <1>1, <1>3, <1>5, <1>6 DEF NumbersInv, DisplayIdsApart

LEMMA NumbersStep == NumbersInv /\ [AdjNext]_adjVars => NumbersInv'
<1> SUFFICES ASSUME NumbersInv, [AdjNext]_adjVars PROVE NumbersInv'
  OBVIOUS
<1>1. AdjInv'
  BY AdjStep DEF NumbersInv
<1>2. ASSUME UNCHANGED <<adjRow, minted>> PROVE NumbersInv'
  BY <1>1, <1>2 DEF NumbersInv, Displayed, DisplayIdsApart
<1>3. CASE UNCHANGED adjVars
  BY <1>2, <1>3 DEF adjVars
<1>4. CASE AdjNext
  <2>1. ASSUME NEW d \in Disputes, Publish(d) \/ Withdraw(d) PROVE NumbersInv'
    BY <2>1, PublishNumbers, WithdrawNumbers
  <2>2. CASE \E d \in Disputes, j \in Judges : SeatLapses(d, j) \/ Submit(d, j) \/ SkipDispute(d, j)
    BY <1>2, <2>2 DEF SeatLapses, Submit, SkipDispute
  <2>3. CASE \E d \in Disputes, a \in Reviewers : Approve(d, a)
    BY <1>2, <2>3 DEF Approve
  <2>4. CASE \E d \in Disputes : UndoApproval(d)
    BY <1>2, <2>4 DEF UndoApproval
  <2>5. CASE PlanImport \/ WriteImport \/ \E j \in Judges : NextDispute(j)
    BY <1>2, <2>5 DEF PlanImport, WriteImport, NextDispute
  <2> QED BY <1>4, <2>1, <2>2, <2>3, <2>4, <2>5 DEF AdjNext
<1> QED BY <1>3, <1>4

\* The counter is the number of answers FLoRA has ever had, so no two of them share a
\* display id and none is above the number of disagreements.
THEOREM DisplayIdsAreGivenOnce == AdjSpec => [](AdjTypeOK /\ DisplayIdsApart)
<1>1. AdjSpec => []NumbersInv
  BY NumbersInitially, NumbersStep, PTL DEF AdjSpec
<1>2. NumbersInv => AdjTypeOK /\ DisplayIdsApart
  BY NumbersGiveTypes DEF NumbersInv
<1> QED BY <1>1, <1>2, PTL

-----------------------------------------------------------------------------
(***************************************************************************)
(* The stored dataset, for any number of editors and pipeline runs.        *)
(***************************************************************************)
ChangeRows == [record : FloraRecords, value : Values \cup {Derived}]
Stamps == {"none", "run", "change"} \X Nat
RevisionsSeen == Frames \X Stamps \X Nat
RunStates == [at : {"waiting", "captured", "built", "stored", "failed"},
              expected : RevisionsSeen, candidate : Frames]
StoredRows == [value : Values \cup {Absent}, live : BOOLEAN]

DataTypes ==
    /\ source \in Frames
    /\ changes \in Seq(ChangeRows)
    /\ committed \subseteq 1 .. Len(changes)
    /\ published \subseteq committed /\ overtaken \subseteq committed
    /\ editor \in [Editors -> [id : 0 .. Len(changes), before : Values \cup {Absent}]]
    /\ pipeline \in [PipelineRuns -> RunStates]
    /\ dataset \in [FloraRecords -> StoredRows]
    /\ snapshot \in Frames
    /\ stamp \in Stamps
    /\ sourceMoves \in 0 .. MaxSourceMoves

\* A record has one save open at a time, so its changes commit in the order of their ids.
ChangedRecord(i) == changes[i].record
SavesInOrder ==
    \A e \in Editors : editor[e].id # 0 =>
        /\ editor[e].id \notin committed
        /\ \A i \in committed : ChangedRecord(i) = ChangedRecord(editor[e].id) => i < editor[e].id
        /\ \A f \in Editors \ {e} : editor[f].id # 0 =>
               ChangedRecord(editor[f].id) # ChangedRecord(editor[e].id)

\* Every set of changes that the program takes the newest of has a newest.
Greatest(m, S) == m \in S /\ \A i \in S : i <= m
NewestExists ==
    /\ committed # {} => \E m \in committed : Greatest(m, committed)
    /\ \A r \in FloraRecords : ChangesOf(r, committed) # {} =>
           \E m \in committed : Greatest(m, ChangesOf(r, committed))

\* A run's revision is past, and what it built has each correction in force that it does
\* not keep as one made since.
RunsLookBack ==
    \A b \in PipelineRuns : pipeline[b].at \in {"captured", "built"} =>
        pipeline[b].expected[3] <= Watermark
InForceNow(i) ==
    /\ i \in committed \ overtaken /\ changes[i].value # Derived
    /\ Greatest(i, ChangesOf(ChangedRecord(i), committed))
BuiltOrSince(b, i) ==
    \/ pipeline[b].candidate[ChangedRecord(i)] \in {Absent, changes[i].value}
    \/ i > pipeline[b].expected[3]
CandidatesKnow ==
    \A b \in PipelineRuns, i \in committed :
        pipeline[b].at = "built" /\ InForceNow(i) => BuiltOrSince(b, i)

Serves(i) == dataset[ChangedRecord(i)].live => dataset[ChangedRecord(i)].value = changes[i].value
PublishedIsServed == \A i \in published : InForceNow(i) => Serves(i)

DataInv ==
    /\ DataTypes /\ SavesInOrder /\ NewestExists /\ RunsLookBack /\ CandidatesKnow
    /\ PublishedIsServed
    /\ FloraRecords # {} => snapshot # NoSnapshot

LEMMA GreatestIsMax ==
    ASSUME NEW S \in SUBSET Nat, NEW m, Greatest(m, S)
    PROVE  Max(S) = m
<1>1. Max(S) \in S /\ \A i \in S : Max(S) >= i
  <2>1. \E x \in S : \A i \in S : x >= i
    BY DEF Greatest
  <2> QED BY <2>1 DEF Max
<1>2. m \in S /\ \A i \in S : i <= m
  BY DEF Greatest
<1> HIDE DEF Max
<1>3. Max(S) \in Nat /\ m \in Nat /\ Max(S) >= m /\ Max(S) <= m
  BY <1>1, <1>2
<1> QED BY <1>3

LEMMA WatermarkIsNewest ==
    ASSUME DataInv
    PROVE  /\ Watermark \in Nat
           /\ \A i \in committed : i <= Watermark
           /\ committed # {} => Watermark \in committed
<1>1. committed \in SUBSET Nat
  BY DEF DataInv, DataTypes
<1>2. CASE committed = {}
  BY <1>2 DEF Watermark
<1>3. CASE committed # {}
  <2>1. PICK m \in committed : Greatest(m, committed)
    BY <1>3 DEF DataInv, NewestExists
  <2>2. Watermark = m
    BY <1>1, <1>3, <2>1, GreatestIsMax DEF Watermark
  <2> QED BY <1>1, <2>1, <2>2 DEF Greatest
<1> QED BY <1>2, <1>3

\* The correction in force is the value of a record's greatest committed change.
LEMMA InForceIsNewest ==
    ASSUME NEW r, NEW seen \in SUBSET Nat, NEW i, Greatest(i, ChangesOf(r, seen))
    PROVE  InForce(r, seen) = changes[i].value
<1>1. ChangesOf(r, seen) \in SUBSET Nat /\ ChangesOf(r, seen) # {}
  BY DEF ChangesOf, Greatest
<1>2. Max(ChangesOf(r, seen)) = i
  BY <1>1, GreatestIsMax
<1> QED BY <1>1, <1>2 DEF InForce

LEMMA ServedIsServed == DataInv => CorrectionIsServed
<1> SUFFICES ASSUME DataInv, NEW r \in FloraRecords, NEW i \in published \ overtaken,
                    changes[i].record = r, changes[i].value # Derived,
                    i = Max(ChangesOf(r, committed)), dataset[r].live
             PROVE  dataset[r].value = changes[i].value
  BY DEF CorrectionIsServed
<1>1. i \in committed /\ i \in ChangesOf(r, committed)
  BY DEF DataInv, DataTypes, ChangesOf
<1>2. PICK m \in committed : Greatest(m, ChangesOf(r, committed))
  BY <1>1 DEF DataInv, NewestExists
<1>3. ChangesOf(r, committed) \in SUBSET Nat
  <2>1. committed \subseteq 1 .. Len(changes) /\ Len(changes) \in Nat
    BY LenProperties DEF DataInv, DataTypes
  <2>2. committed \in SUBSET Nat
    BY <2>1
  <2> QED BY <2>2 DEF ChangesOf
<1>4. i = m
  BY <1>2, <1>3, GreatestIsMax
<1>5. InForceNow(i)
  BY <1>1, <1>2, <1>4 DEF InForceNow, ChangedRecord
<1> QED BY <1>5 DEF DataInv, PublishedIsServed, Serves, ChangedRecord

LEMMA ShownIsTyped ==
    ASSUME DataInv, NEW r \in FloraRecords
    PROVE  Shown(r, committed) \in Values \cup {Absent}
<1>1. source[r] \in Values \cup {Absent}
  BY DEF DataInv, DataTypes, Frames
<1>2. committed \subseteq 1 .. Len(changes) /\ Len(changes) \in Nat
  BY LenProperties DEF DataInv, DataTypes
<1>3. InForce(r, committed) \in Values \cup {Derived}
  <2>1. CASE ChangesOf(r, committed) = {}
    BY <2>1 DEF InForce
  <2>2. CASE ChangesOf(r, committed) # {}
    <3>1. PICK m \in committed : Greatest(m, ChangesOf(r, committed))
      BY <2>2 DEF DataInv, NewestExists
    <3>2. committed \in SUBSET Nat
      BY <1>2
    <3>3. InForce(r, committed) = changes[m].value
      BY <3>1, <3>2, InForceIsNewest
    <3>4. changes[m] \in ChangeRows
      BY <1>2, ElementOfSeq DEF DataInv, DataTypes
    <3> QED BY <3>3, <3>4 DEF ChangeRows
  <2> QED BY <2>1, <2>2
<1> QED BY <1>1, <1>3 DEF Shown, Corrected

LEMMA DataInitially == DatasetInit => DataInv
<1> SUFFICES ASSUME DatasetInit PROVE DataInv
  OBVIOUS
<1>1. DataTypes
  <2>1. NoSnapshot \in Frames /\ source \in Frames
    BY DEF NoSnapshot, Frames, DatasetInit
  <2>2. NoRevision \in RevisionsSeen
    BY <2>1 DEF NoRevision, RevisionsSeen, Stamps
  <2>3. Waiting \in RunStates
    BY <2>1, <2>2 DEF Waiting, RunStates
  <2>4. dataset \in [FloraRecords -> StoredRows]
    BY DEF DatasetInit, StoredRows, Frames
  <2>5. changes \in Seq(ChangeRows) /\ Len(changes) = 0
    BY EmptySeq DEF DatasetInit
  <2>6. editor \in [Editors -> [id : 0 .. Len(changes), before : Values \cup {Absent}]]
    BY <2>5 DEF DatasetInit, Closed
  <2>7. sourceMoves \in 0 .. MaxSourceMoves /\ stamp \in Stamps
    BY DatasetAssumption DEF DatasetAssumption, DatasetInit, Stamps
  <2> QED BY <2>1, <2>3, <2>4, <2>5, <2>6, <2>7 DEF DatasetInit, DataTypes
<1>2. \A e \in Editors : editor[e].id = 0
  BY DEF DatasetInit, Closed
<1>3. \A b \in PipelineRuns : pipeline[b].at = "waiting"
  BY DEF DatasetInit, Waiting
<1>4. committed = {} /\ published = {}
  BY DEF DatasetInit
<1>5. NewestExists /\ PublishedIsServed /\ CandidatesKnow
  BY <1>4 DEF NewestExists, PublishedIsServed, CandidatesKnow, ChangesOf
<1>6. SavesInOrder /\ RunsLookBack
  BY <1>2, <1>3 DEF SavesInOrder, RunsLookBack
<1>7. FloraRecords # {} => snapshot # NoSnapshot
  BY DatasetAssumption DEF DatasetAssumption, DatasetInit, NoSnapshot
<1> QED BY <1>1, <1>5, <1>6, <1>7 DEF DataInv

LEMMA ChangeStaysAsItIs ==
    ASSUME DataInv, NEW row \in ChangeRows, changes' = Append(changes, row)
    PROVE  /\ changes' \in Seq(ChangeRows) /\ Len(changes') = Len(changes) + 1
           /\ \A i \in 1 .. Len(changes) : changes'[i] = changes[i]
           /\ changes'[Len(changes) + 1] = row /\ Len(changes) \in Nat
<1>1. changes \in Seq(ChangeRows)
  BY DEF DataInv, DataTypes
<1> QED BY <1>1, AppendProperties, LenProperties

\* A new change is greater than every committed one, of a record nobody else changes.
LEMMA AppendKeeps ==
    ASSUME DataInv, NEW e \in Editors, NEW r \in FloraRecords,
           NEW value \in Values \cup {Derived}, AppendChange(e, r, value)
    PROVE  DataInv'
<1> DEFINE new == [record |-> r, value |-> value]
           id  == Len(changes) + 1
           edit == [id |-> id, before |-> Shown(r, committed)]
<1>1. /\ changes' = Append(changes, new) /\ new \in ChangeRows
      /\ editor' = [editor EXCEPT ![e] = edit]
      /\ editor[e].id = 0 /\ Unlocked(r)
      /\ UNCHANGED <<source, committed, published, overtaken, pipeline, dataset, snapshot,
                     stamp, sourceMoves>>
  BY DEF AppendChange, ChangeRows
<1>2. /\ changes' \in Seq(ChangeRows) /\ Len(changes') = id /\ Len(changes) \in Nat
      /\ \A i \in 1 .. Len(changes) : changes'[i] = changes[i]
      /\ changes'[id] = new
  BY <1>1, ChangeStaysAsItIs
<1>3. committed \subseteq 1 .. Len(changes) /\ published \subseteq committed
  BY DEF DataInv, DataTypes
<1>4. ASSUME NEW i \in committed
      PROVE  changes'[i] = changes[i] /\ ChangedRecord(i)' = ChangedRecord(i)
  BY <1>2, <1>3 DEF ChangedRecord
<1>5. Shown(r, committed) \in Values \cup {Absent}
  BY ShownIsTyped
<1> HIDE DEF edit, new
<1>6. edit.id = id /\ edit \in [id : 0 .. Len(changes'), before : Values \cup {Absent}]
  BY <1>2, <1>5 DEF edit
<1>7. /\ editor'[e] = edit /\ \A f \in Editors \ {e} : editor'[f] = editor[f]
      /\ \A f \in Editors : editor[f].id \in 0 .. Len(changes)
  BY <1>1 DEF DataInv, DataTypes
<1>8. DataTypes'
  <2>1. editor' \in [Editors -> [id : 0 .. Len(changes'), before : Values \cup {Absent}]]
    BY <1>1, <1>2, <1>6 DEF DataInv, DataTypes
  <2>2. committed' \subseteq 1 .. Len(changes')
    BY <1>1, <1>2, <1>3
  <2> QED BY <1>1, <1>2, <2>1, <2>2 DEF DataInv, DataTypes
<1>9. SavesInOrder'
  <2> SUFFICES ASSUME NEW f \in Editors, editor'[f].id # 0
               PROVE  /\ editor'[f].id \notin committed
                      /\ \A i \in committed : ChangedRecord(i)' = ChangedRecord(editor[f].id)' =>
                                i < editor'[f].id
                      /\ \A g \in Editors \ {f} : editor'[g].id # 0 =>
                                ChangedRecord(editor[g].id)' # ChangedRecord(editor[f].id)'
    BY <1>1 DEF SavesInOrder
  <2>1. ASSUME NEW g \in Editors \ {e}, editor[g].id # 0
        PROVE  /\ editor[g].id \in 1 .. Len(changes)
               /\ ChangedRecord(editor[g].id)' = ChangedRecord(editor[g].id)
               /\ ChangedRecord(editor[g].id) # r
    BY <1>1, <1>2, <1>7, <2>1 DEF ChangedRecord, Unlocked
  <2>2. CASE f = e
    <3>1. ChangedRecord(editor[e].id)' = r /\ editor'[e].id = id
      BY <1>2, <1>6, <1>7 DEF ChangedRecord, new
    <3>2. id \notin committed /\ \A i \in committed : i < id
      BY <1>2, <1>3
    <3> QED BY <1>7, <2>1, <2>2, <3>1, <3>2
  <2>3. CASE f # e
    <3>1. ChangedRecord(editor[e].id)' = r
      BY <1>2, <1>6, <1>7 DEF ChangedRecord, new
    <3>2. editor'[f] = editor[f] /\ ChangedRecord(editor[f].id)' = ChangedRecord(editor[f].id)
          /\ ChangedRecord(editor[f].id) # r /\ editor[f].id # 0
      BY <1>7, <2>1, <2>3
    <3>3. /\ editor[f].id \notin committed
          /\ \A i \in committed : ChangedRecord(i) = ChangedRecord(editor[f].id) => i < editor[f].id
          /\ \A g \in Editors \ {f} : editor[g].id # 0 =>
                 ChangedRecord(editor[g].id) # ChangedRecord(editor[f].id)
      BY <3>2 DEF DataInv, SavesInOrder
    <3>4. \A i \in committed : ChangedRecord(i)' = ChangedRecord(i)
      BY <1>4
    <3>5. ASSUME NEW g \in Editors \ {f}, editor'[g].id # 0
          PROVE  ChangedRecord(editor[g].id)' # ChangedRecord(editor[f].id)'
      <4>1. CASE g = e
        BY <3>1, <3>2, <4>1
      <4>2. CASE g # e
        BY <1>7, <2>1, <3>2, <3>3, <3>5, <4>2
      <4> QED BY <4>1, <4>2
    <3> QED BY <3>2, <3>3, <3>4, <3>5
  <2> QED BY <2>2, <2>3
<1>10. ASSUME NEW q PROVE ChangesOf(q, committed)' = ChangesOf(q, committed)
  BY <1>1, <1>4 DEF ChangesOf, ChangedRecord
<1>11. NewestExists'
  BY <1>1, <1>10 DEF DataInv, NewestExists
<1>12. ASSUME NEW i \in committed PROVE InForceNow(i)' <=> InForceNow(i)
  BY <1>1, <1>4, <1>10 DEF InForceNow
<1>13. RunsLookBack'
  BY <1>1 DEF DataInv, RunsLookBack, Watermark
<1>14. CandidatesKnow'
  <2> SUFFICES ASSUME NEW b \in PipelineRuns, NEW i \in committed,
                      pipeline[b].at = "built", InForceNow(i)
               PROVE  BuiltOrSince(b, i)'
    BY <1>1, <1>12 DEF CandidatesKnow
  <2>1. BuiltOrSince(b, i)
    BY DEF DataInv, CandidatesKnow
  <2> QED BY <1>1, <1>4, <2>1 DEF BuiltOrSince
<1>15. PublishedIsServed'
  <2> SUFFICES ASSUME NEW i \in published, InForceNow(i) PROVE Serves(i)'
    BY <1>1, <1>3, <1>12 DEF PublishedIsServed
  <2>1. Serves(i)
    BY DEF DataInv, PublishedIsServed
  <2> QED BY <1>1, <1>3, <1>4, <2>1 DEF Serves
<1> QED BY <1>1, <1>8, <1>9, <1>11, <1>13, <1>14, <1>15 DEF DataInv, NoSnapshot

\* A step that leaves the changes and the commits as they are: what may have changed is the
\* source, a save that is given up, or a run.
LEMMA SameChanges ==
    ASSUME DataInv, UNCHANGED <<changes, committed, overtaken>>
    PROVE  /\ NewestExists' /\ Watermark' = Watermark
           /\ \A i : ChangedRecord(i)' = ChangedRecord(i) /\ (InForceNow(i)' <=> InForceNow(i))
<1>1. ASSUME NEW q PROVE ChangesOf(q, committed)' = ChangesOf(q, committed)
  BY DEF ChangesOf
<1>2. ASSUME NEW i PROVE ChangedRecord(i)' = ChangedRecord(i)
  BY DEF ChangedRecord
<1>3. NewestExists'
  BY <1>1 DEF DataInv, NewestExists
<1>4. Watermark' = Watermark
  BY DEF Watermark
<1>5. ASSUME NEW i PROVE InForceNow(i)' <=> InForceNow(i)
  BY <1>1, <1>2 DEF InForceNow
<1> QED BY <1>2, <1>3, <1>4, <1>5

LEMMA AbandonKeeps ==
    ASSUME DataInv, NEW e \in Editors, AbandonSave(e)
    PROVE  DataInv'
<1>1. /\ editor' = [editor EXCEPT ![e] = Closed]
      /\ UNCHANGED <<source, changes, committed, published, overtaken, pipeline, dataset,
                     snapshot, stamp, sourceMoves>>
  BY DEF AbandonSave
<1>2. Closed \in [id : 0 .. Len(changes), before : Values \cup {Absent}] /\ Closed.id = 0
  BY LenProperties DEF Closed, DataInv, DataTypes
<1>3. \A f \in Editors : editor'[f] = IF f = e THEN Closed ELSE editor[f]
  BY <1>1 DEF DataInv, DataTypes
<1>4. DataTypes'
  BY <1>1, <1>2 DEF DataInv, DataTypes
<1>5. /\ NewestExists' /\ Watermark' = Watermark
      /\ \A i : ChangedRecord(i)' = ChangedRecord(i) /\ (InForceNow(i)' <=> InForceNow(i))
  BY <1>1, SameChanges
<1>6. SavesInOrder'
  <2> SUFFICES ASSUME NEW f \in Editors, editor'[f].id # 0
               PROVE  /\ editor'[f].id \notin committed
                      /\ \A i \in committed : ChangedRecord(i)' = ChangedRecord(editor[f].id)' =>
                                i < editor'[f].id
                      /\ \A g \in Editors \ {f} : editor'[g].id # 0 =>
                                ChangedRecord(editor[g].id)' # ChangedRecord(editor[f].id)'
    BY <1>1 DEF SavesInOrder
  <2>1. f # e /\ editor'[f] = editor[f]
    BY <1>2, <1>3
  <2>2. ChangedRecord(editor[f].id)' = ChangedRecord(editor[f].id)
    BY <1>1, <2>1 DEF ChangedRecord
  <2>3. \A g \in Editors : editor'[g].id # 0 =>
            editor[g].id # 0 /\ ChangedRecord(editor[g].id)' = ChangedRecord(editor[g].id)
    BY <1>1, <1>2, <1>3 DEF ChangedRecord
  <2>4. \A i \in committed : ChangedRecord(i)' = ChangedRecord(i)
    BY <1>1 DEF ChangedRecord
  <2> QED BY <2>1, <2>2, <2>3, <2>4 DEF DataInv, SavesInOrder
<1>7. RunsLookBack'
  BY <1>1, <1>5 DEF DataInv, RunsLookBack
<1>8. CandidatesKnow'
  <2> SUFFICES ASSUME NEW b \in PipelineRuns, NEW i \in committed,
                      pipeline[b].at = "built", InForceNow(i)
               PROVE  BuiltOrSince(b, i)'
    BY <1>1, <1>5 DEF CandidatesKnow
  <2>1. BuiltOrSince(b, i)
    BY DEF DataInv, CandidatesKnow
  <2> QED BY <1>1, <1>5, <2>1 DEF BuiltOrSince
<1>9. PublishedIsServed'
  <2> SUFFICES ASSUME NEW i \in published, InForceNow(i) PROVE Serves(i)'
    BY <1>1, <1>5 DEF PublishedIsServed
  <2>1. Serves(i)
    BY DEF DataInv, PublishedIsServed
  <2> QED BY <1>1, <1>5, <2>1 DEF Serves
<1> QED BY <1>1, <1>4, <1>5, <1>6, <1>7, <1>8, <1>9 DEF DataInv, NoSnapshot

LEMMA SourceKeeps ==
    ASSUME DataInv, NEW r \in FloraRecords, SourceMoves(r)
    PROVE  DataInv'
<1>1. /\ sourceMoves < MaxSourceMoves /\ sourceMoves' = sourceMoves + 1
      /\ UNCHANGED <<changes, committed, published, overtaken, editor, pipeline, dataset,
                     snapshot, stamp>>
  BY DEF SourceMoves
<1>2. PICK v \in (Values \cup {Absent}) \ {source[r]} : source' = [source EXCEPT ![r] = v]
  BY DEF SourceMoves
<1>3. source' \in Frames
  BY <1>2 DEF Frames, DataInv, DataTypes
<1>4. sourceMoves' \in 0 .. MaxSourceMoves
  BY <1>1, DatasetAssumption DEF DatasetAssumption, DataInv, DataTypes
<1>5. DataTypes'
  BY <1>1, <1>3, <1>4 DEF DataInv, DataTypes
<1>6. /\ NewestExists' /\ Watermark' = Watermark
      /\ \A i : ChangedRecord(i)' = ChangedRecord(i) /\ (InForceNow(i)' <=> InForceNow(i))
  BY <1>1, SameChanges
<1>7. SavesInOrder'
  BY <1>1 DEF DataInv, SavesInOrder, ChangedRecord
<1>8. RunsLookBack'
  BY <1>1, <1>6 DEF DataInv, RunsLookBack
<1>9. CandidatesKnow'
  <2> SUFFICES ASSUME NEW b \in PipelineRuns, NEW i \in committed,
                      pipeline[b].at = "built", InForceNow(i)
               PROVE  BuiltOrSince(b, i)'
    BY <1>1, <1>6 DEF CandidatesKnow
  <2>1. BuiltOrSince(b, i)
    BY DEF DataInv, CandidatesKnow
  <2> QED BY <1>1, <1>6, <2>1 DEF BuiltOrSince
<1>10. PublishedIsServed'
  <2> SUFFICES ASSUME NEW i \in published, InForceNow(i) PROVE Serves(i)'
    BY <1>1, <1>6 DEF PublishedIsServed
  <2>1. Serves(i)
    BY DEF DataInv, PublishedIsServed
  <2> QED BY <1>1, <1>6, <2>1 DEF Serves
<1> QED BY <1>1, <1>5, <1>6, <1>7, <1>8, <1>9, <1>10 DEF DataInv, NoSnapshot

\* What a step of one run has to keep, when the dataset is as it was.
LEMMA RunMoves ==
    ASSUME DataInv, NEW b \in PipelineRuns, NEW run \in RunStates,
           pipeline' = [pipeline EXCEPT ![b] = run],
           UNCHANGED <<source, changes, committed, published, overtaken, editor, dataset,
                       snapshot, stamp, sourceMoves>>,
           run.at \in {"captured", "built"} => run.expected[3] <= Watermark,
           run.at = "built" => \A i \in committed : InForceNow(i) =>
               \/ run.candidate[ChangedRecord(i)] \in {Absent, changes[i].value}
               \/ i > run.expected[3]
    PROVE  DataInv'
<1>1. DataTypes'
  BY DEF DataInv, DataTypes
<1>2. /\ NewestExists' /\ Watermark' = Watermark
      /\ \A i : ChangedRecord(i)' = ChangedRecord(i) /\ (InForceNow(i)' <=> InForceNow(i))
  BY SameChanges
<1>3. \A c \in PipelineRuns : pipeline'[c] = IF c = b THEN run ELSE pipeline[c]
  BY DEF DataInv, DataTypes
<1>4. SavesInOrder'
  BY DEF DataInv, SavesInOrder, ChangedRecord
<1>5. RunsLookBack'
  BY <1>2, <1>3 DEF DataInv, RunsLookBack
<1>6. CandidatesKnow'
  <2> SUFFICES ASSUME NEW c \in PipelineRuns, NEW i \in committed,
                      pipeline'[c].at = "built", InForceNow(i)
               PROVE  BuiltOrSince(c, i)'
    BY <1>2 DEF CandidatesKnow
  <2>1. CASE c = b
    BY <1>2, <1>3, <2>1 DEF BuiltOrSince
  <2>2. CASE c # b
    <3>1. BuiltOrSince(c, i)
      BY <1>3, <2>2 DEF DataInv, CandidatesKnow
    <3> QED BY <1>2, <1>3, <2>2, <3>1 DEF BuiltOrSince
  <2> QED BY <2>1, <2>2
<1>7. PublishedIsServed'
  <2> SUFFICES ASSUME NEW i \in published, InForceNow(i) PROVE Serves(i)'
    BY <1>2 DEF PublishedIsServed
  <2>1. Serves(i)
    BY DEF DataInv, PublishedIsServed
  <2> QED BY <1>2, <2>1 DEF Serves
<1> QED BY <1>1, <1>2, <1>4, <1>5, <1>6, <1>7 DEF DataInv, NoSnapshot

\* Without a revision to compare, no record is there to be corrected.
LEMMA RevisionIsTyped ==
    ASSUME DataInv
    PROVE  /\ Revision \in RevisionsSeen /\ Revision[3] <= Watermark
           /\ FloraRecords # {} => Revision[3] = Watermark
<1>1. Watermark \in Nat
  BY WatermarkIsNewest
<1>2. NoSnapshot \in Frames
  BY DEF NoSnapshot, Frames
<1>3. CASE snapshot = NoSnapshot
  <2>1. Revision = NoRevision /\ NoRevision \in RevisionsSeen /\ NoRevision[3] = 0
    BY <1>2, <1>3 DEF Revision, NoRevision, RevisionsSeen, Stamps
  <2>2. FloraRecords = {}
    BY <1>3 DEF DataInv
  <2> QED BY <1>1, <2>1, <2>2
<1>4. CASE snapshot # NoSnapshot
  <2>1. Revision = <<snapshot, stamp, Watermark>>
    BY <1>4 DEF Revision
  <2> QED BY <1>1, <2>1 DEF RevisionsSeen, DataInv, DataTypes
<1> QED BY <1>3, <1>4

LEMMA CaptureKeeps ==
    ASSUME DataInv, NEW b \in PipelineRuns, CaptureRevision(b)
    PROVE  DataInv'
<1> DEFINE run == [pipeline[b] EXCEPT !.at = "captured", !.expected = Revision]
<1>1. /\ pipeline' = [pipeline EXCEPT ![b] = run]
      /\ UNCHANGED <<source, changes, committed, published, overtaken, editor, dataset,
                     snapshot, stamp, sourceMoves>>
  BY DEF CaptureRevision
<1>2. Revision \in RevisionsSeen /\ Revision[3] <= Watermark
  BY RevisionIsTyped
<1>3. pipeline[b] \in RunStates
  BY DEF DataInv, DataTypes
<1>4. run \in RunStates /\ run.at = "captured" /\ run.expected = Revision
  BY <1>2, <1>3 DEF RunStates
<1> HIDE DEF run
<1> QED BY <1>1, <1>2, <1>4, RunMoves

\* A build shows the correction in force, or leaves the record out.
LEMMA ShownInForce ==
    ASSUME DataInv, NEW i \in committed, InForceNow(i)
    PROVE  Shown(ChangedRecord(i), committed) \in {Absent, changes[i].value}
<1>1. committed \in SUBSET Nat
  <2>1. committed \subseteq 1 .. Len(changes) /\ Len(changes) \in Nat
    BY LenProperties DEF DataInv, DataTypes
  <2> QED BY <2>1
<1>2. InForce(ChangedRecord(i), committed) = changes[i].value
  BY <1>1, InForceIsNewest DEF InForceNow
<1>3. changes[i].value # Derived
  BY DEF InForceNow
<1>4. CASE source[ChangedRecord(i)] = Absent
  BY <1>4 DEF Shown, Corrected
<1>5. CASE source[ChangedRecord(i)] # Absent
  BY <1>2, <1>3, <1>5 DEF Shown, Corrected
<1> QED BY <1>4, <1>5

LEMMA BuildKeeps ==
    ASSUME DataInv, NEW b \in PipelineRuns, Build(b)
    PROVE  DataInv'
<1> DEFINE built == [r \in FloraRecords |-> Shown(r, committed)]
           run == [pipeline[b] EXCEPT !.at = "built", !.candidate = built]
<1>1. /\ pipeline' = [pipeline EXCEPT ![b] = run]
      /\ pipeline[b].at = "captured"
      /\ UNCHANGED <<source, changes, committed, published, overtaken, editor, dataset,
                     snapshot, stamp, sourceMoves>>
  BY DEF Build
<1>2. built \in Frames
  BY ShownIsTyped DEF Frames
<1>3. ASSUME NEW i \in committed, InForceNow(i)
      PROVE  built[ChangedRecord(i)] \in {Absent, changes[i].value}
  <2>1. ChangedRecord(i) \in FloraRecords
    <3>1. i \in 1 .. Len(changes)
      BY DEF DataInv, DataTypes
    <3>2. changes[i] \in ChangeRows
      BY <3>1, ElementOfSeq DEF DataInv, DataTypes
    <3> QED BY <3>2 DEF ChangeRows, ChangedRecord
  <2> QED BY <1>3, <2>1, ShownInForce
<1>4. pipeline[b] \in RunStates /\ pipeline[b].expected[3] <= Watermark
  BY <1>1 DEF DataInv, DataTypes, RunsLookBack
<1> HIDE DEF built
<1>5. /\ run \in RunStates /\ run.at = "built" /\ run.candidate = built
      /\ run.expected = pipeline[b].expected
  BY <1>2, <1>4 DEF RunStates
<1> HIDE DEF run
<1> QED BY <1>1, <1>3, <1>4, <1>5, RunMoves

LEMMA WaitingIsTyped ==
    ASSUME NEW at \in {"stored", "failed"}
    PROVE  [Waiting EXCEPT !.at = at] \in RunStates /\ [Waiting EXCEPT !.at = at].at = at
<1>1. NoSnapshot \in Frames
  BY DEF NoSnapshot, Frames
<1>2. NoRevision \in RevisionsSeen
  BY <1>1 DEF NoRevision, RevisionsSeen, Stamps
<1> QED BY <1>1, <1>2 DEF Waiting, RunStates

LEMMA RunFailKeeps ==
    ASSUME DataInv, NEW b \in PipelineRuns, RunFails(b)
    PROVE  DataInv'
<1> DEFINE run == [Waiting EXCEPT !.at = "failed"]
<1>1. /\ pipeline' = [pipeline EXCEPT ![b] = run]
      /\ UNCHANGED <<source, changes, committed, published, overtaken, editor, dataset,
                     snapshot, stamp, sourceMoves>>
  BY DEF RunFails
<1>2. run \in RunStates /\ run.at = "failed"
  BY WaitingIsTyped
<1> HIDE DEF run
<1> QED BY <1>1, <1>2, RunMoves

\* A storing run has each correction in force, or keeps the row as one changed since.
LEMMA StoreKeeps ==
    ASSUME DataInv, NEW b \in PipelineRuns, StoreSnapshot(b)
    PROVE  DataInv'
<1> DEFINE candidate == pipeline[b].candidate
           run == [Waiting EXCEPT !.at = "stored"]
           others == {c \in PipelineRuns : pipeline[c].at = "stored"}
<1>1. /\ pipeline[b].at = "built" /\ candidate # NoSnapshot
      /\ dataset' = Stored(candidate, Preserved(b))
      /\ snapshot' = candidate
      /\ stamp' = <<"run", Cardinality(others) + 1>>
      /\ pipeline' = [pipeline EXCEPT ![b] = run]
      /\ UNCHANGED <<source, changes, committed, published, overtaken, editor, sourceMoves>>
  BY DEF StoreSnapshot
<1>2. candidate \in Frames
  BY DEF DataInv, DataTypes, RunStates
<1>3. stamp' \in Stamps
  <2>1. IsFiniteSet(PipelineRuns)
    BY DatasetAssumption DEF DatasetAssumption
  <2>2. IsFiniteSet(others)
    BY <2>1, FS_Subset
  <2>3. Cardinality(others) \in Nat
    BY <2>2, FS_CardinalityType
  <2> HIDE DEF others
  <2> QED BY <1>1, <2>3 DEF Stamps
<1> HIDE DEF others
<1>4. run \in RunStates /\ run.at = "stored"
  BY WaitingIsTyped
<1> HIDE DEF run
<1>5. ASSUME NEW r \in FloraRecords
      PROVE  /\ Stored(candidate, Preserved(b))[r] \in StoredRows
             /\ r \in Preserved(b) => dataset'[r] = dataset[r]
             /\ r \notin Preserved(b) /\ dataset'[r].live =>
                    dataset'[r].value = candidate[r] /\ candidate[r] # Absent
  <2>1. dataset[r] \in StoredRows /\ candidate[r] \in Values \cup {Absent}
    BY <1>2 DEF DataInv, DataTypes, Frames
  <2>2. CASE r \in Preserved(b)
    BY <1>1, <2>1, <2>2 DEF Stored
  <2>3. CASE r \notin Preserved(b) /\ candidate[r] = Absent
    <3>1. dataset'[r] = [dataset[r] EXCEPT !.live = FALSE]
      BY <1>1, <2>3 DEF Stored
    <3> QED BY <1>1, <2>1, <2>3, <3>1 DEF StoredRows
  <2>4. CASE r \notin Preserved(b) /\ candidate[r] # Absent
    <3>1. dataset'[r] = [value |-> candidate[r], live |-> TRUE]
      BY <1>1, <2>4 DEF Stored
    <3> QED BY <1>1, <2>1, <2>4, <3>1 DEF StoredRows
  <2> QED BY <2>2, <2>3, <2>4
<1>6. dataset' \in [FloraRecords -> StoredRows]
  <2>1. dataset' = [r \in FloraRecords |-> Stored(candidate, Preserved(b))[r]]
    BY <1>1 DEF Stored
  <2> QED BY <1>5, <2>1
<1> HIDE DEF candidate
<1>7. DataTypes'
  <2>1. pipeline' \in [PipelineRuns -> RunStates]
    BY <1>1, <1>4 DEF DataInv, DataTypes
  <2> QED BY <1>1, <1>2, <1>3, <1>6, <2>1 DEF DataInv, DataTypes
<1>8. /\ NewestExists' /\ Watermark' = Watermark
      /\ \A i : ChangedRecord(i)' = ChangedRecord(i) /\ (InForceNow(i)' <=> InForceNow(i))
  BY <1>1, SameChanges
<1>9. \A c \in PipelineRuns : pipeline'[c] = IF c = b THEN run ELSE pipeline[c]
  BY <1>1 DEF DataInv, DataTypes
<1>10. SavesInOrder'
  BY <1>1 DEF DataInv, SavesInOrder, ChangedRecord
<1>11. RunsLookBack'
  BY <1>4, <1>8, <1>9 DEF DataInv, RunsLookBack
<1>12. CandidatesKnow'
  <2> SUFFICES ASSUME NEW c \in PipelineRuns, NEW i \in committed,
                      pipeline'[c].at = "built", InForceNow(i)
               PROVE  BuiltOrSince(c, i)'
    BY <1>1, <1>8 DEF CandidatesKnow
  <2>1. c # b /\ pipeline'[c] = pipeline[c]
    BY <1>4, <1>9
  <2>2. BuiltOrSince(c, i)
    BY <2>1 DEF DataInv, CandidatesKnow
  <2> QED BY <1>1, <1>8, <2>1, <2>2 DEF BuiltOrSince
<1>13. PublishedIsServed'
  <2> SUFFICES ASSUME NEW i \in published, InForceNow(i), dataset'[ChangedRecord(i)].live
               PROVE  dataset'[ChangedRecord(i)].value = changes[i].value
    BY <1>1, <1>8 DEF PublishedIsServed, Serves
  <2>1. i \in committed /\ i \in 1 .. Len(changes) /\ Len(changes) \in Nat
    BY LenProperties DEF DataInv, DataTypes
  <2>2. ChangedRecord(i) \in FloraRecords
    <3>1. changes[i] \in ChangeRows
      BY <2>1, ElementOfSeq DEF DataInv, DataTypes
    <3> QED BY <3>1 DEF ChangeRows, ChangedRecord
  <2>3. Serves(i) /\ BuiltOrSince(b, i)
    BY <1>1, <2>1 DEF DataInv, PublishedIsServed, CandidatesKnow
  <2>4. CASE ChangedRecord(i) \in Preserved(b)
    BY <1>5, <2>2, <2>3, <2>4 DEF Serves
  <2>5. CASE ChangedRecord(i) \notin Preserved(b)
    <3>1. i <= pipeline[b].expected[3]
      <4>1. pipeline[b].expected[3] \in Nat
        BY DEF DataInv, DataTypes, RunStates, RevisionsSeen
      <4>2. CASE Revision = pipeline[b].expected
        <5>1. pipeline[b].expected[3] = Watermark
          BY <2>2, <4>2, RevisionIsTyped
        <5> QED BY <2>1, <5>1, WatermarkIsNewest
      <4>3. CASE Revision # pipeline[b].expected
        <5>1. ChangedRecord(i) \notin ChangedSince(pipeline[b].expected[3])
          BY <2>5, <4>3 DEF Preserved
        <5>2. ~(i > pipeline[b].expected[3])
          BY <2>1, <5>1 DEF ChangedSince, ChangedRecord
        <5> QED BY <2>1, <4>1, <5>2
      <4> QED BY <4>2, <4>3
    <3>2. pipeline[b].expected[3] \in Nat
      BY DEF DataInv, DataTypes, RunStates, RevisionsSeen
    <3>3. candidate[ChangedRecord(i)] \in {Absent, changes[i].value}
      BY <2>1, <2>3, <3>1, <3>2 DEF BuiltOrSince, candidate
    <3> QED BY <1>5, <2>2, <2>5, <3>3
  <2> QED BY <2>4, <2>5
<1> QED BY <1>1, <1>7, <1>8, <1>10, <1>11, <1>12, <1>13 DEF DataInv, NoSnapshot

\* A save commits the newest change of its record, and writes it when it is shown.
LEMMA CommitKeeps ==
    ASSUME DataInv, NEW e \in Editors, CommitSave(e)
    PROVE  DataInv'
<1>0. PICK id, r : id = editor[e].id /\ r = changes[id].record
  OBVIOUS
<1> DEFINE after == Shown(r, committed \cup {id})
           writes == dataset[r].live /\ after \notin {Absent, editor[e].before}
<1>1. /\ id # 0
      /\ committed' = committed \cup {id}
      /\ published' = IF writes THEN published \cup {id} ELSE published
      /\ overtaken' = IF id < Watermark THEN overtaken \cup {id} ELSE overtaken
      /\ dataset' = IF writes THEN [dataset EXCEPT ![r].value = after] ELSE dataset
      /\ stamp' = IF writes THEN <<"change", id>> ELSE stamp
      /\ editor' = [editor EXCEPT ![e] = Closed]
      /\ UNCHANGED <<source, changes, pipeline, snapshot, sourceMoves>>
  BY <1>0 DEF CommitSave
<1>2. /\ committed \subseteq 1 .. Len(changes) /\ Len(changes) \in Nat
      /\ published \subseteq committed /\ overtaken \subseteq committed
      /\ id \in 1 .. Len(changes)
  <2>1. id \in 0 .. Len(changes) /\ Len(changes) \in Nat
    BY <1>0, LenProperties DEF DataInv, DataTypes
  <2> QED BY <1>1, <2>1 DEF DataInv, DataTypes
<1>3. changes[id] \in ChangeRows /\ r \in FloraRecords
  <2>1. changes[id] \in ChangeRows
    BY <1>2, ElementOfSeq DEF DataInv, DataTypes
  <2> QED BY <1>0, <2>1 DEF ChangeRows
<1>4. id \notin committed /\ \A i \in committed : ChangedRecord(i) = r => i < id
  BY <1>0, <1>1 DEF DataInv, SavesInOrder, ChangedRecord
<1>5. \A i : ChangedRecord(i)' = ChangedRecord(i)
  BY <1>1 DEF ChangedRecord
<1>6. /\ ChangesOf(r, committed)' = ChangesOf(r, committed) \cup {id}
      /\ Greatest(id, ChangesOf(r, committed \cup {id}))
      /\ \A q : q # r => ChangesOf(q, committed)' = ChangesOf(q, committed)
  <2>1. ASSUME NEW q PROVE ChangesOf(q, committed)' =
                               {i \in committed \cup {id} : ChangedRecord(i) = q}
    BY <1>1 DEF ChangesOf, ChangedRecord
  <2>2. ASSUME NEW q PROVE ChangesOf(q, committed) = {i \in committed : ChangedRecord(i) = q}
    BY DEF ChangesOf, ChangedRecord
  <2>3. ChangesOf(r, committed \cup {id}) = {i \in committed \cup {id} : ChangedRecord(i) = r}
    BY DEF ChangesOf, ChangedRecord
  <2>4. ChangedRecord(id) = r
    BY <1>0 DEF ChangedRecord
  <2>5. Greatest(id, ChangesOf(r, committed \cup {id}))
    <3>1. id \in ChangesOf(r, committed \cup {id})
      BY <2>3, <2>4
    <3>2. ASSUME NEW i \in ChangesOf(r, committed \cup {id}) PROVE i <= id
      <4>0. i \in committed \cup {id} /\ ChangedRecord(i) = r
        BY <2>3, <3>2
      <4>1. i \in Nat /\ id \in Nat
        BY <1>2, <4>0
      <4>2. CASE i = id
        BY <4>1, <4>2
      <4>3. CASE i \in committed
        <5>1. i < id
          BY <1>4, <4>0, <4>3
        <5> QED BY <4>1, <5>1
      <4> QED BY <4>0, <4>2, <4>3
    <3> QED BY <3>1, <3>2 DEF Greatest
  <2> QED BY <2>1, <2>2, <2>4, <2>5
<1>7. InForce(r, committed \cup {id}) = changes[id].value
  <2>1. committed \subseteq Nat /\ id \in Nat
    BY <1>2
  <2>2. committed \cup {id} \in SUBSET Nat
    BY <2>1
  <2> QED BY <1>6, <2>2, InForceIsNewest
<1>8. after \in Values \cup {Absent}
  <2>1. source[r] \in Values \cup {Absent} /\ changes[id].value \in Values \cup {Derived}
    BY <1>3 DEF DataInv, DataTypes, Frames, ChangeRows
  <2> QED BY <1>7, <2>1 DEF Shown, Corrected
<1>9. after # Absent /\ changes[id].value # Derived => after = changes[id].value
  BY <1>7 DEF Shown, Corrected
<1> HIDE DEF after
<1>10. DataTypes'
  <2>1. Closed \in [id : 0 .. Len(changes), before : Values \cup {Absent}]
    BY <1>2 DEF Closed
  <2>2. dataset' \in [FloraRecords -> StoredRows]
    <3>1. dataset \in [FloraRecords -> StoredRows]
      BY DEF DataInv, DataTypes
    <3>2. [dataset[r] EXCEPT !.value = after] \in StoredRows
      BY <1>3, <1>8, <3>1 DEF StoredRows
    <3>3. [dataset EXCEPT ![r].value = after] =
              [dataset EXCEPT ![r] = [dataset[r] EXCEPT !.value = after]]
      BY <1>3, <3>1
    <3> QED BY <1>1, <1>3, <3>1, <3>2, <3>3
  <2>3. stamp' \in Stamps
    BY <1>1, <1>2 DEF Stamps, DataInv, DataTypes
  <2>4. editor' \in [Editors -> [id : 0 .. Len(changes), before : Values \cup {Absent}]]
    BY <1>1, <2>1 DEF DataInv, DataTypes
  <2>5. /\ committed' \subseteq 1 .. Len(changes)
        /\ published' \subseteq committed' /\ overtaken' \subseteq committed'
    BY <1>1, <1>2
  <2> QED BY <1>1, <2>2, <2>3, <2>4, <2>5 DEF DataInv, DataTypes
<1>11. \A f \in Editors : editor'[f] = IF f = e THEN Closed ELSE editor[f]
  BY <1>1 DEF DataInv, DataTypes
<1>12. SavesInOrder'
  <2> SUFFICES ASSUME NEW f \in Editors, editor'[f].id # 0
               PROVE  /\ editor'[f].id \notin committed'
                      /\ \A i \in committed' : ChangedRecord(i)' = ChangedRecord(editor[f].id)' =>
                                i < editor'[f].id
                      /\ \A g \in Editors \ {f} : editor'[g].id # 0 =>
                                ChangedRecord(editor[g].id)' # ChangedRecord(editor[f].id)'
    BY DEF SavesInOrder
  <2>1. f # e /\ editor'[f] = editor[f]
    BY <1>11 DEF Closed
  <2>2. /\ editor[f].id \notin committed
        /\ \A i \in committed : ChangedRecord(i) = ChangedRecord(editor[f].id) => i < editor[f].id
        /\ \A g \in Editors \ {f} : editor[g].id # 0 =>
               ChangedRecord(editor[g].id) # ChangedRecord(editor[f].id)
    BY <2>1 DEF DataInv, SavesInOrder
  <2>3. ChangedRecord(id) # ChangedRecord(editor[f].id)
    BY <1>0, <1>1, <2>1, <2>2
  <2>4. \A i : ChangedRecord(i)' = changes[i].record /\ ChangedRecord(i) = changes[i].record
    BY <1>1 DEF ChangedRecord
  <2>5. \A g \in Editors : editor'[g].id # 0 => editor'[g] = editor[g]
    BY <1>11 DEF Closed
  <2>6. ChangedRecord(editor[f].id)' = ChangedRecord(editor[f].id)
    BY <1>1, <2>1 DEF ChangedRecord
  <2>7. ASSUME NEW g \in Editors \ {f}, editor'[g].id # 0
        PROVE  ChangedRecord(editor[g].id)' # ChangedRecord(editor[f].id)'
    <3>1. editor'[g] = editor[g]
      BY <2>5, <2>7
    <3>2. ChangedRecord(editor[g].id)' = ChangedRecord(editor[g].id)
      BY <1>1, <3>1 DEF ChangedRecord
    <3> QED BY <2>2, <2>6, <2>7, <3>1, <3>2
  <2>8. editor'[f].id \notin committed'
    BY <1>1, <2>1, <2>2, <2>3
  <2>9. \A i \in committed' : ChangedRecord(i)' = ChangedRecord(editor[f].id)' => i < editor'[f].id
    BY <1>1, <1>5, <2>1, <2>2, <2>3, <2>6
  <2> QED BY <2>7, <2>8, <2>9
<1>13. Watermark \in Nat /\ \A i \in committed : i <= Watermark
  BY WatermarkIsNewest
<1>14. committed # {} => Watermark \in committed
  BY WatermarkIsNewest
<1>15. \E m \in committed' : Greatest(m, committed')
  <2>1. CASE committed = {}
    BY <1>1, <1>2, <2>1 DEF Greatest
  <2>2. CASE committed # {} /\ id < Watermark
    <3>1. Watermark \in committed' /\ \A i \in committed' : i <= Watermark
      BY <1>1, <1>2, <1>13, <1>14, <2>2
    <3> QED BY <3>1 DEF Greatest
  <2>3. CASE committed # {} /\ ~(id < Watermark)
    <3>1. id \in committed' /\ \A i \in committed' : i <= id
      BY <1>1, <1>2, <1>13, <2>3
    <3> QED BY <3>1 DEF Greatest
  <2> QED BY <2>1, <2>2, <2>3
<1>16. NewestExists'
  <2> SUFFICES ASSUME NEW q \in FloraRecords, ChangesOf(q, committed)' # {}
               PROVE  \E m \in committed' : Greatest(m, ChangesOf(q, committed)')
    BY <1>15 DEF NewestExists, Greatest
  <2>1. CASE q = r
    <3>1. ChangesOf(r, committed)' = ChangesOf(r, committed \cup {id})
      BY <1>1 DEF ChangesOf
    <3> QED BY <1>1, <1>6, <2>1, <3>1
  <2>2. CASE q # r
    <3>1. PICK m \in committed : Greatest(m, ChangesOf(q, committed))
      BY <1>6, <2>2 DEF DataInv, NewestExists
    <3> QED BY <1>1, <1>6, <2>2, <3>1
  <2> QED BY <2>1, <2>2
<1>17. Watermark' \in Nat /\ Watermark <= Watermark'
  <2>1. committed' \in SUBSET Nat
    BY <1>1, <1>2
  <2>2. PICK m \in committed' : Greatest(m, committed')
    BY <1>15
  <2>3. Max(committed') = m
    BY <2>1, <2>2, GreatestIsMax
  <2>4. Watermark' = m
    BY <1>1, <2>3 DEF Watermark
  <2>5. Watermark <= m
    <3>1. CASE committed = {}
      BY <2>1, <2>2, <3>1 DEF Watermark
    <3>2. CASE committed # {}
      BY <1>1, <1>14, <2>2, <3>2 DEF Greatest
    <3> QED BY <3>1, <3>2
  <2> QED BY <2>1, <2>2, <2>4, <2>5
<1>18. RunsLookBack'
  <2> SUFFICES ASSUME NEW b \in PipelineRuns, pipeline[b].at \in {"captured", "built"}
               PROVE  pipeline[b].expected[3] <= Watermark'
    BY <1>1 DEF RunsLookBack
  <2>1. pipeline[b].expected[3] <= Watermark
    BY DEF DataInv, RunsLookBack
  <2>2. pipeline[b].expected[3] \in Nat
    BY DEF DataInv, DataTypes, RunStates, RevisionsSeen
  <2> QED BY <1>13, <1>17, <2>1, <2>2
\* What is in force after the commit was in force before it, on another record; or it is
\* the committed change.
<1>19. ASSUME NEW i \in committed', InForceNow(i)', i # id
       PROVE  i \in committed /\ InForceNow(i) /\ ChangedRecord(i) # r
  <2>1. /\ i \in committed /\ i \notin overtaken /\ changes[i].value # Derived
        /\ Greatest(i, ChangesOf(ChangedRecord(i), committed)')
    BY <1>1, <1>5, <1>19 DEF InForceNow, Greatest
  <2>2. ChangedRecord(i) # r
    <3>1. SUFFICES ASSUME ChangedRecord(i) = r PROVE FALSE
      OBVIOUS
    <3>2. id \in ChangesOf(ChangedRecord(i), committed)'
      BY <1>5, <1>6, <3>1
    <3>3. i < id /\ id <= i
      BY <1>4, <2>1, <3>1, <3>2 DEF Greatest
    <3>4. i \in Nat /\ id \in Nat
      BY <1>2, <2>1
    <3> QED BY <3>3, <3>4
  <2>3. ChangesOf(ChangedRecord(i), committed)' = ChangesOf(ChangedRecord(i), committed)
    BY <1>5, <1>6, <2>2
  <2> QED BY <2>1, <2>2, <2>3 DEF InForceNow
<1>20. CandidatesKnow'
  <2> SUFFICES ASSUME NEW b \in PipelineRuns, NEW i \in committed',
                      pipeline[b].at = "built", InForceNow(i)'
               PROVE  BuiltOrSince(b, i)'
    BY <1>1 DEF CandidatesKnow
  <2>1. CASE i = id
    <3>1. ~(id < Watermark)
      BY <1>1, <2>1 DEF InForceNow
    <3>2. id > Watermark
      <4>1. id # Watermark
        BY <1>1, <1>4, <1>14 DEF Watermark
      <4> QED BY <1>2, <1>13, <3>1, <4>1
    <3>3. pipeline[b].expected[3] <= Watermark
      BY DEF DataInv, RunsLookBack
    <3>4. pipeline[b].expected[3] \in Nat
      BY DEF DataInv, DataTypes, RunStates, RevisionsSeen
    <3>5. i > pipeline[b].expected[3]
      BY <1>2, <1>13, <2>1, <3>2, <3>3, <3>4
    <3> QED BY <1>1, <3>5 DEF BuiltOrSince
  <2>2. CASE i # id
    <3>1. BuiltOrSince(b, i)
      BY <1>19, <2>2 DEF DataInv, CandidatesKnow
    <3> QED BY <1>1, <1>5, <3>1 DEF BuiltOrSince
  <2> QED BY <2>1, <2>2
<1>21. \A q \in FloraRecords : q # r => dataset'[q] = dataset[q]
  BY <1>1 DEF DataInv, DataTypes
<1>22. writes => dataset'[r].value = after
  BY <1>1, <1>3 DEF DataInv, DataTypes, StoredRows
<1>23. PublishedIsServed'
  <2> SUFFICES ASSUME NEW i \in published', InForceNow(i)' PROVE Serves(i)'
    BY DEF PublishedIsServed
  <2>1. CASE i = id
    <3>1. writes
      BY <1>1, <1>2, <1>4, <2>1
    <3>2. changes[id].value # Derived
      BY <1>1, <2>1 DEF InForceNow
    <3>3. dataset'[r].value = changes[id].value
      BY <1>9, <1>22, <3>1, <3>2
    <3> QED BY <1>0, <1>1, <2>1, <3>3 DEF Serves, ChangedRecord
  <2>2. CASE i # id
    <3>1. i \in published /\ i \in committed'
      BY <1>1, <1>2, <2>2
    <3>2. InForceNow(i) /\ ChangedRecord(i) # r /\ i \in committed
      BY <1>19, <2>2, <3>1
    <3>3. ChangedRecord(i) \in FloraRecords
      <4>1. changes[i] \in ChangeRows
        BY <1>2, <3>2, ElementOfSeq DEF DataInv, DataTypes
      <4> QED BY <4>1 DEF ChangeRows, ChangedRecord
    <3>4. Serves(i)
      BY <3>1, <3>2 DEF DataInv, PublishedIsServed
    <3> QED BY <1>1, <1>5, <1>21, <3>2, <3>3, <3>4 DEF Serves
  <2> QED BY <2>1, <2>2
<1> QED BY <1>1, <1>10, <1>12, <1>16, <1>18, <1>20, <1>23 DEF DataInv, NoSnapshot

LEMMA EditorsKeep ==
    ASSUME DataInv, NEW e \in Editors, NEW r \in FloraRecords,
           Edit(e, r) \/ Restore(e, r) \/ Confirm(e, r)
    PROVE  DataInv'
<1>1. committed \subseteq 1 .. Len(changes)
  BY DEF DataInv, DataTypes
<1>2. CASE Edit(e, r)
  <2>1. PICK v \in Values :
            AppendChange(e, r, IF v = source[r] /\ InForce(r, committed) # Derived
                               THEN Derived ELSE v)
    BY <1>2 DEF Edit
  <2> QED BY <2>1, AppendKeeps
<1>3. CASE Restore(e, r)
  <2>1. PICK v \in {Derived} \cup {changes[i].value : i \in ChangesOf(r, committed)} :
            AppendChange(e, r, v)
    BY <1>3 DEF Restore
  <2>2. \A i \in committed : changes[i].value \in Values \cup {Derived}
    <3>1. \A i \in committed : changes[i] \in ChangeRows
      BY <1>1, ElementOfSeq DEF DataInv, DataTypes
    <3> QED BY <3>1 DEF ChangeRows
  <2>3. v \in Values \cup {Derived}
    BY <2>1, <2>2 DEF ChangesOf
  <2> QED BY <2>1, <2>3, AppendKeeps
<1>4. CASE Confirm(e, r)
  <2>1. AppendChange(e, r, source[r]) /\ source[r] # Absent
    BY <1>4 DEF Confirm, AppendChange
  <2>2. source[r] \in Values
    BY <2>1 DEF DataInv, DataTypes, Frames
  <2> QED BY <2>1, <2>2, AppendKeeps
<1> QED BY <1>2, <1>3, <1>4

LEMMA DataStep == DataInv /\ [DatasetNext]_datasetVars => DataInv'
<1> SUFFICES ASSUME DataInv, [DatasetNext]_datasetVars PROVE DataInv'
  OBVIOUS
<1>1. ASSUME NEW e \in Editors, NEW r \in FloraRecords,
             Edit(e, r) \/ Restore(e, r) \/ Confirm(e, r)
      PROVE  DataInv'
  BY <1>1, EditorsKeep
<1>2. ASSUME NEW e \in Editors, CommitSave(e)
      PROVE  DataInv'
  BY <1>2, CommitKeeps
<1>3. ASSUME NEW e \in Editors, AbandonSave(e)
      PROVE  DataInv'
  BY <1>3, AbandonKeeps
<1>4. ASSUME NEW b \in PipelineRuns, CaptureRevision(b)
      PROVE  DataInv'
  BY <1>4, CaptureKeeps
<1>5. ASSUME NEW b \in PipelineRuns, Build(b)
      PROVE  DataInv'
  BY <1>5, BuildKeeps
<1>6. ASSUME NEW b \in PipelineRuns, StoreSnapshot(b)
      PROVE  DataInv'
  BY <1>6, StoreKeeps
<1>7. ASSUME NEW b \in PipelineRuns, RunFails(b)
      PROVE  DataInv'
  BY <1>7, RunFailKeeps
<1>8. ASSUME NEW r \in FloraRecords, SourceMoves(r)
      PROVE  DataInv'
  BY <1>8, SourceKeeps
<1>9. CASE UNCHANGED datasetVars
  <2>1. UNCHANGED <<source, changes, committed, published, overtaken, editor, pipeline,
                    dataset, snapshot, stamp, sourceMoves>>
    BY <1>9 DEF datasetVars
  <2>2. /\ NewestExists' /\ Watermark' = Watermark
        /\ \A i : ChangedRecord(i)' = ChangedRecord(i) /\ (InForceNow(i)' <=> InForceNow(i))
    BY <2>1, SameChanges
  <2>3. DataTypes' /\ SavesInOrder' /\ RunsLookBack'
    BY <2>1, <2>2 DEF DataInv, DataTypes, SavesInOrder, RunsLookBack, ChangedRecord
  <2>4. CandidatesKnow'
    BY <2>1, <2>2 DEF DataInv, CandidatesKnow, BuiltOrSince
  <2>5. PublishedIsServed'
    BY <2>1, <2>2 DEF DataInv, PublishedIsServed, Serves
  <2> QED BY <2>1, <2>2, <2>3, <2>4, <2>5 DEF DataInv, NoSnapshot
<1> QED BY <1>1, <1>2, <1>3, <1>4, <1>5, <1>6, <1>7, <1>8, <1>9 DEF DatasetNext

LEMMA DataIsTyped == DataInv => DatasetTypeOK
<1> SUFFICES ASSUME DataInv PROVE DatasetTypeOK
  OBVIOUS
<1>1. DOMAIN changes = 1 .. Len(changes) /\ Len(changes) \in Nat
  BY DEF DataInv, DataTypes
<1>2. editor \in [Editors -> [id : {0} \cup DOMAIN changes, before : Values \cup {Absent}]]
  BY <1>1 DEF DataInv, DataTypes
<1>3. \A b \in PipelineRuns :
          pipeline[b].at \in {"waiting", "captured", "built", "stored", "failed"}
  BY DEF DataInv, DataTypes, RunStates
<1> QED BY <1>1, <1>2, <1>3 DEF DataInv, DataTypes, DatasetTypeOK, ChangeRows, StoredRows

\* A correction an editor was told is published is what the stored dataset serves, with any
\* number of editors and of runs, however long ago the runs that store it began.
THEOREM CorrectionsAreServed == DatasetSpec => []CorrectionIsServed
<1>1. DatasetSpec => []DataInv
  BY DataInitially, DataStep, PTL DEF DatasetSpec
<1> QED BY <1>1, ServedIsServed, PTL

-----------------------------------------------------------------------------
(***************************************************************************)
(* The release files, for any number of builds, publishes and pushes.      *)
(***************************************************************************)
Places == {"idle", "ready", "waiting", "building", "built", "storing", "staged", "replacing",
           "replaced", "written", "failed", "torn", "committed", "pushed"}
JobStates == [pc : Places, file : Datasets, seen : Revisions, began : Nat \ {0},
              version : Versions, run : Datasets \cup {None}, base : Nat, start : RelFiles]

RelTypes ==
    /\ stored \in Revisions
    /\ folders \in [Folders -> RelFiles]
    /\ owner \in [Folders -> Jobs \cup {"free"}]
    /\ jobs \in [Jobs -> JobStates]
    /\ branch \in [pushes : Nat, tip : RelFiles]

\* Every transaction has its own time.
Times == clock \in Nat \ {0} /\ saves \in [ChangeIds -> Nat]

\* The report and the validation reports are about the flora.csv beside them.
SelfDescribed(f) ==
    /\ f.report \in Datasets => f.report = f.csv
    /\ f.report \notin {Failed, Running} /\ f.checks # None => f.checks = f.csv

\* What a job that has the folder finds in it, stage by stage, unless a process died
\* among the replacements.
Owning == {"building", "built", "storing", "staged", "replacing", "replaced"}
Contents(j, me, f) ==
    /\ j \in Runs /\ me.pc \in Owning => f.report = Running
    /\ j \in Runs /\ me.pc \in Owning \ {"building"} => f.checks = me.file
    /\ j \in Publishes /\ me.pc \in {"staged", "replacing"} => SelfDescribed(f)
    /\ me.pc \in {"building", "built", "storing"} => j \in Runs
    /\ me.pc \in {"building", "built", "storing", "staged"} => f.manifest.of = f.csv
    /\ me.pc = "replacing" => me.start.manifest.of = f.csv /\ f.manifest.of = me.file
    /\ me.pc = "replaced" => f.manifest.of = f.csv /\ f.csv = me.file

\* A checkout is one job's alone, from the tip it started with to the push.
Alone(me, f) ==
    /\ me.pc \in {"ready", "waiting", "written", "committed"} => OneRelease(f)
    /\ me.pc \in {"ready", "waiting", "building", "built", "storing", "staged", "replacing"} =>
           me.start.manifest.of = f.csv

\* No version stands for a later write of the table than it has had, or for more
\* corrections; and a job whose base is still the tip of the branch may push.
NotAfter(v, w) == \/ v[3] < w[3]
                  \/ v[3] = w[3] /\ ~LessThan(w, v)
Now(now) == <<now.at, now.mark, now.turn>>
MayReplace(tip, v) == LessThan(v, tip) => v[3] > tip[3]
NotOlder(me, f, tip) ==
    /\ me.pc = "waiting" => NotAfter(tip, Now(me.seen))
    /\ me.pc = "staged" => MayReplace(tip, me.version)
    /\ me.pc \in {"replacing", "replaced", "written", "committed"} =>
           MayReplace(tip, f.manifest.version)
Dated(j, me, f, now, onto) ==
    /\ me.seen.mark <= now.mark
    /\ NotAfter(Now(me.seen), Now(now))
    /\ NotAfter(me.version, Now(now))
    /\ NotAfter(me.start.manifest.version, Now(now))
    /\ j \notin Local => me.base <= onto.pushes
    /\ j \notin Local /\ me.base = onto.pushes => NotOlder(me, f, onto.tip.manifest.version)

JobOK(j) ==
    /\ jobs[j].pc \in Owning => Owns(j)
    /\ jobs[j].pc = "committed" => j \notin Local
    /\ ~Torn(FolderOf(j)) => Contents(j, jobs[j], Files(j))
    /\ j \notin Local => Alone(jobs[j], Files(j))
    /\ Dated(j, jobs[j], Files(j), stored, branch)

FolderOK(x) ==
    /\ owner[x] = "free" /\ ~Torn(x) => OneRelease(folders[x])
    /\ NotAfter(folders[x].manifest.version, Now(stored))

TipOK ==
    /\ OneRelease(branch.tip)
    /\ NotAfter(branch.tip.manifest.version, Now(stored))

RelInv ==
    /\ RelTypes
    /\ \A j \in Jobs : JobOK(j)
    /\ \A x \in Folders : FolderOK(x)
    /\ TipOK

LEMMA FirstIsADataset ==
    /\ First \in Datasets /\ FirstFiles \in RelFiles /\ Idle0 \in JobStates
    /\ {None, Running, Failed} \cap Datasets = {}
<1>1. First \in Datasets /\ 0 \in 0..MaxCorrections
  BY ReleaseAssumption DEF ReleaseAssumption, First, Datasets
<1>2. FirstFiles \in RelFiles
  BY <1>1 DEF FirstFiles, RelFiles, Versions
<1>3. Idle0 \in JobStates
  BY <1>1, <1>2 DEF Idle0, FirstStored, JobStates, Places, Revisions, Versions
<1>4. {None, Running, Failed} \cap Datasets = {}
  BY ReleaseAssumption DEF ReleaseAssumption, None, Running, Failed, Datasets
<1> QED BY <1>1, <1>2, <1>3, <1>4

LEMMA FolderOfAJob ==
    /\ \A j \in Jobs : FolderOf(j) \in Folders
    /\ \A j, k \in Jobs : k \notin Local /\ FolderOf(j) = FolderOf(k) => j = k
    /\ "free" \notin Jobs
  BY ReleaseAssumption DEF ReleaseAssumption, Jobs, Folders, FolderOf

LEMMA ReleaseInitially == RelInit => RelInv
<1> SUFFICES ASSUME RelInit PROVE RelInv
  OBVIOUS
<1>1. RelTypes
  <2>1. stored \in Revisions
    BY ReleaseAssumption DEF ReleaseAssumption, RelInit, FirstStored, Revisions
  <2>2. branch \in [pushes : Nat, tip : RelFiles]
    BY FirstIsADataset DEF RelInit
  <2> QED BY <2>1, <2>2, FirstIsADataset DEF RelInit, RelTypes
<1>2. OneRelease(FirstFiles)
  BY DEF OneRelease, FirstFiles
<1>3. NotAfter(<<1, 0, 1>>, Now(stored)) /\ FirstFiles.manifest.version = <<1, 0, 1>>
  BY DEF NotAfter, Now, LessThan, RelInit, FirstStored, FirstFiles
<1>4. ASSUME NEW j \in Jobs PROVE JobOK(j)
  <2>1. jobs[j] = Idle0 /\ Files(j) = FirstFiles
    BY <1>4, FolderOfAJob DEF RelInit, Files
  <2>2. Idle0.pc = "idle" /\ Idle0.base = 0 /\ Idle0.version = <<1, 0, 1>>
        /\ Idle0.seen = stored /\ Idle0.start = FirstFiles
    BY DEF Idle0, RelInit
  <2>3. NotAfter(Now(stored), Now(stored)) /\ stored.mark = 0
    BY DEF NotAfter, Now, LessThan, RelInit, FirstStored
  <2>4. branch.pushes = 0
    BY DEF RelInit
  <2>5. Dated(j, Idle0, FirstFiles, stored, branch)
    BY <1>3, <2>2, <2>3, <2>4 DEF Dated, NotOlder
  <2>6. Contents(j, Idle0, FirstFiles) /\ Alone(Idle0, FirstFiles)
    BY <2>2 DEF Contents, Alone, Owning
  <2> QED BY <2>1, <2>2, <2>5, <2>6 DEF JobOK, Owning
<1>5. \A x \in Folders : FolderOK(x)
  BY <1>2, <1>3 DEF FolderOK, RelInit
<1>6. TipOK
  BY <1>2, <1>3 DEF TipOK, RelInit
<1> QED BY <1>1, <1>4, <1>5, <1>6 DEF RelInv

\* The table moves on: every version is still of data it holds.
Later(now, next) ==
    /\ now \in Revisions /\ next \in Revisions
    /\ now.mark <= next.mark /\ (next = now \/ now.turn < next.turn)

LEMMA DatesKeep ==
    ASSUME NEW v \in Versions, NEW now, NEW next, Later(now, next), NotAfter(v, Now(now))
    PROVE  NotAfter(v, Now(next))
  BY DEF Later, NotAfter, Now, LessThan, Versions, Revisions

LEMMA DatedKeeps ==
    ASSUME NEW j, NEW me \in JobStates, NEW f \in RelFiles, NEW now, NEW next, NEW onto,
           Later(now, next), Dated(j, me, f, now, onto)
    PROVE  Dated(j, me, f, next, onto)
<1>1. Now(me.seen) \in Versions /\ me.version \in Versions
      /\ me.start.manifest.version \in Versions /\ me.seen.mark \in Nat
  BY ReleaseAssumption
  DEF ReleaseAssumption, Now, Versions, JobStates, Revisions, RelFiles
<1>2. me.seen.mark <= next.mark
  BY <1>1, ReleaseAssumption DEF ReleaseAssumption, Dated, Later, Revisions
<1> QED BY <1>1, <1>2, DatesKeep DEF Dated

\* One step of a job that leaves the branch as it is.
LEMMA JobMoves ==
    ASSUME RelInv, NEW j \in Jobs, NEW mine \in JobStates, NEW fs \in RelFiles,
           NEW o \in Jobs \cup {"free"}, UNCHANGED branch,
           jobs' = [jobs EXCEPT ![j] = mine],
           folders' = [folders EXCEPT ![FolderOf(j)] = fs],
           owner' = [owner EXCEPT ![FolderOf(j)] = o],
           Later(stored, stored'), jobs[j].pc # "torn",
           \/ fs = Files(j) /\ o = owner[FolderOf(j)]
           \/ owner[FolderOf(j)] \in {j, "free"}
           \/ j \notin Local,
           mine.pc \in Owning => o = j,
           mine.pc = "committed" => j \notin Local,
           Torn(FolderOf(j)) \/ mine.pc = "torn" \/ Contents(j, mine, fs),
           j \notin Local => Alone(mine, fs),
           Dated(j, mine, fs, stored', branch),
           o = "free" => Torn(FolderOf(j)) \/ mine.pc = "torn" \/ OneRelease(fs),
           NotAfter(fs.manifest.version, Now(stored'))
    PROVE  RelInv'
<1>1. /\ jobs'[j] = mine /\ \A k \in Jobs \ {j} : jobs'[k] = jobs[k]
      /\ folders'[FolderOf(j)] = fs /\ owner'[FolderOf(j)] = o
      /\ \A x \in Folders \ {FolderOf(j)} : folders'[x] = folders[x] /\ owner'[x] = owner[x]
  BY FolderOfAJob DEF RelInv, RelTypes
<1>2. RelTypes'
  <2>1. stored' \in Revisions
    BY DEF Later
  <2> QED BY <2>1, FolderOfAJob DEF RelInv, RelTypes
<1>3. ASSUME NEW x \in Folders, Torn(x) PROVE Torn(x)'
  BY <1>1, <1>3 DEF Torn, FolderOf
<1>4. mine.pc = "torn" => Torn(FolderOf(j))'
  BY <1>1 DEF Torn, FolderOf
<1>5. ASSUME NEW k \in Jobs \ {j} PROVE JobOK(k)'
  <2>1. JobOK(k) /\ jobs[k] \in JobStates /\ Files(k) \in RelFiles
    BY FolderOfAJob DEF RelInv, RelTypes, Files
  <2>2. CASE Files(k)' = Files(k) /\ owner'[FolderOf(k)] = owner[FolderOf(k)]
    <3>1. Dated(k, jobs[k], Files(k), stored', branch')
      BY <2>1, DatedKeeps DEF JobOK
    <3>2. ~Torn(FolderOf(k))' => Contents(k, jobs[k], Files(k))
      BY <1>3, <2>1, FolderOfAJob DEF JobOK, FolderOf
    <3>3. jobs'[k] = jobs[k] /\ FolderOf(k)' = FolderOf(k)
      BY <1>1 DEF FolderOf
    <3>4. (jobs[k].pc \in Owning => Owns(k)')
          /\ (jobs[k].pc = "committed" => k \notin Local)
          /\ (k \notin Local => Alone(jobs[k], Files(k)))
      BY <2>1, <2>2, <3>3 DEF JobOK, Owns
    <3> QED BY <2>2, <3>1, <3>2, <3>3, <3>4 DEF JobOK
  <2>3. CASE FolderOf(k) = FolderOf(j) /\ owner[FolderOf(j)] \in {j, "free"}
    <3>1. jobs[k].pc \notin Owning /\ k \in Local
      BY <2>1, <2>3, FolderOfAJob DEF JobOK, Owns
    <3>2. jobs'[k] = jobs[k] /\ FolderOf(k)' = FolderOf(k)
      BY <1>1 DEF FolderOf
    <3>3. Dated(k, jobs[k], Files(k)', stored', branch')
      <4>1. Dated(k, jobs[k], Files(k), stored', branch')
        BY <2>1, DatedKeeps DEF JobOK
      <4> QED BY <3>1, <4>1 DEF Dated
    <3>4. Contents(k, jobs[k], Files(k)')
      BY <3>1 DEF Contents, Owning
    <3>5. jobs[k].pc # "committed"
      BY <2>1, <3>1 DEF JobOK
    <3> QED BY <3>1, <3>2, <3>3, <3>4, <3>5 DEF JobOK
  <2> QED BY <1>1, <2>2, <2>3, FolderOfAJob DEF Files, FolderOf
<1>6. JobOK(j)'
  <2>1. Files(j)' = fs /\ FolderOf(j)' = FolderOf(j)
    BY <1>1 DEF Files, FolderOf
  <2>2. ~Torn(FolderOf(j))' => Contents(j, mine, fs)
    BY <1>3, <1>4, FolderOfAJob
  <2> QED BY <1>1, <2>1, <2>2 DEF JobOK, Owns
<1>7. ASSUME NEW x \in Folders PROVE FolderOK(x)'
  <2>1. CASE x = FolderOf(j)
    BY <1>1, <1>3, <1>4, <2>1 DEF FolderOK
  <2>2. CASE x # FolderOf(j)
    <3>1. folders[x].manifest.version \in Versions
      BY DEF RelInv, RelTypes, RelFiles
    <3>2. NotAfter(folders[x].manifest.version, Now(stored'))
      BY <3>1, DatesKeep DEF RelInv, FolderOK
    <3> QED BY <1>1, <1>3, <2>2, <3>2 DEF RelInv, FolderOK
  <2> QED BY <2>1, <2>2
<1>8. TipOK'
  <2>1. branch.tip.manifest.version \in Versions
    BY DEF RelInv, RelTypes, RelFiles
  <2> QED BY <2>1, DatesKeep DEF RelInv, TipOK
<1> QED BY <1>2, <1>5, <1>6, <1>7, <1>8 DEF RelInv

LEMMA JobParts ==
    ASSUME RelInv, NEW j \in Jobs
    PROVE  /\ jobs[j] \in JobStates /\ Files(j) \in RelFiles
           /\ owner[FolderOf(j)] \in Jobs \cup {"free"}
           /\ JobOK(j) /\ FolderOK(FolderOf(j)) /\ TipOK
           /\ branch.tip \in RelFiles /\ branch.pushes \in Nat
           /\ stored \in Revisions /\ Later(stored, stored)
           /\ folders = [folders EXCEPT ![FolderOf(j)] = Files(j)]
           /\ owner = [owner EXCEPT ![FolderOf(j)] = owner[FolderOf(j)]]
           /\ j \notin Local /\ jobs[j].pc # "torn" => ~Torn(FolderOf(j))
<1>1. FolderOf(j) \in Folders
  BY FolderOfAJob
<1>2. jobs[j] \in JobStates /\ Files(j) \in RelFiles /\ owner[FolderOf(j)] \in Jobs \cup {"free"}
  BY <1>1 DEF RelInv, RelTypes, Files
<1>3. JobOK(j) /\ FolderOK(FolderOf(j)) /\ TipOK
  BY <1>1 DEF RelInv
<1>4. branch.tip \in RelFiles /\ branch.pushes \in Nat /\ stored \in Revisions
  BY DEF RelInv, RelTypes
<1>5. Later(stored, stored)
  BY <1>4, ReleaseAssumption DEF ReleaseAssumption, Later, Revisions
<1>6. /\ folders = [folders EXCEPT ![FolderOf(j)] = Files(j)]
      /\ owner = [owner EXCEPT ![FolderOf(j)] = owner[FolderOf(j)]]
  BY <1>1 DEF RelInv, RelTypes, Files
<1>7. j \notin Local /\ jobs[j].pc # "torn" => ~Torn(FolderOf(j))
  BY FolderOfAJob DEF Torn
<1> QED BY <1>2, <1>3, <1>4, <1>5, <1>6, <1>7

LEMMA CheckoutKeeps == ASSUME RelInv, NEW j \in Jobs, Checkout(j) PROVE RelInv'
<1> DEFINE mine == [jobs[j] EXCEPT !.pc = "ready", !.base = branch.pushes, !.start = branch.tip]
<1>1. /\ jobs[j].pc = "idle" /\ j \notin Local /\ UNCHANGED <<stored, owner, branch>>
      /\ folders' = [folders EXCEPT ![FolderOf(j)] = branch.tip]
      /\ jobs' = [jobs EXCEPT ![j] = mine]
  BY DEF Checkout, Write
<1>2. /\ mine \in JobStates /\ mine.pc = "ready" /\ mine.base = branch.pushes
      /\ mine.start = branch.tip /\ mine.seen = jobs[j].seen /\ mine.version = jobs[j].version
  BY JobParts DEF JobStates, Places
<1> HIDE DEF mine
<1>3. OneRelease(branch.tip) /\ NotAfter(branch.tip.manifest.version, Now(stored))
  BY JobParts DEF TipOK
<1>4. Contents(j, mine, branch.tip) /\ Alone(mine, branch.tip)
  BY <1>2, <1>3 DEF Contents, Alone, Owning, OneRelease
<1>5. Dated(j, mine, branch.tip, stored', branch)
  BY <1>1, <1>2, <1>3, JobParts DEF Dated, JobOK, NotOlder
<1>6. mine.pc \notin Owning
  BY <1>2 DEF Owning
<1> QED BY <1>1, <1>2, <1>3, <1>4, <1>5, <1>6, JobParts, JobMoves

LEMMA BuildBeginsKeeps == ASSUME RelInv, NEW b \in Jobs, BuildBegins(b) PROVE RelInv'
<1> DEFINE mine == [jobs[b] EXCEPT !.pc = "building", !.seen = stored]
           fs   == [Files(b) EXCEPT !.report = Running, !.checks = None]
<1>1. /\ b \in Runs /\ owner[FolderOf(b)] = "free" /\ UNCHANGED <<stored, branch>>
      /\ jobs[b].pc = IF b \in Local THEN "idle" ELSE "ready"
      /\ owner' = [owner EXCEPT ![FolderOf(b)] = b]
      /\ folders' = [folders EXCEPT ![FolderOf(b)] = fs]
      /\ jobs' = [jobs EXCEPT ![b] = mine]
  BY DEF BuildBegins, Write, Ready
<1>2. /\ mine \in JobStates /\ mine.pc = "building" /\ mine.base = jobs[b].base
      /\ mine.start = jobs[b].start /\ mine.seen = stored /\ mine.version = jobs[b].version
  BY JobParts DEF JobStates, Places
<1>3. /\ fs \in RelFiles /\ fs.report = Running
      /\ fs.csv = Files(b).csv /\ fs.manifest = Files(b).manifest
  BY JobParts DEF RelFiles
<1> HIDE DEF mine, fs
<1>4. Torn(FolderOf(b)) \/ Contents(b, mine, fs)
  <2>1. b \notin Publishes /\ (Torn(FolderOf(b)) \/ OneRelease(Files(b)))
    BY <1>1, JobParts, ReleaseAssumption DEF ReleaseAssumption, FolderOK, Files
  <2> QED BY <1>1, <1>2, <1>3, <2>1 DEF Contents, Owning, OneRelease
<1>5. b \notin Local => Alone(mine, fs)
  BY <1>1, <1>2, <1>3, JobParts DEF JobOK, Alone
<1>6. Dated(b, mine, fs, stored', branch)
  <2>1. NotAfter(Now(stored), Now(stored)) /\ stored.mark <= stored.mark
    BY JobParts, ReleaseAssumption
    DEF ReleaseAssumption, NotAfter, Now, LessThan, Revisions
  <2> QED BY <1>1, <1>2, <2>1, JobParts DEF Dated, JobOK, NotOlder
<1>7. NotAfter(fs.manifest.version, Now(stored'))
  BY <1>1, <1>3, JobParts DEF FolderOK, Files
<1>8. jobs[b].pc # "torn" /\ b # "free"
  BY <1>1, FolderOfAJob
<1> QED BY <1>1, <1>2, <1>3, <1>4, <1>5, <1>6, <1>7, <1>8, JobParts, JobMoves

LEMMA BuildValidatesKeeps == ASSUME RelInv, NEW b \in Jobs, BuildValidates(b) PROVE RelInv'
<1>1. PICK s \in Snaps :
          /\ jobs' = [jobs EXCEPT ![b].pc = "built", ![b].file = <<s, stored.log>>]
          /\ Write(b, [Files(b) EXCEPT !.checks = <<s, stored.log>>])
  BY DEF BuildValidates
<1>2. jobs[b].pc = "building" /\ b \in Runs /\ UNCHANGED <<stored, owner, branch>>
  BY DEF BuildValidates
<1> DEFINE built == <<s, stored.log>>
           mine  == [jobs[b] EXCEPT !.pc = "built", !.file = built]
           fs    == [Files(b) EXCEPT !.checks = built]
<1>3. built \in Datasets
  BY JobParts DEF Datasets, Revisions
<1> HIDE DEF built
<1>4. /\ mine \in JobStates /\ mine.pc = "built" /\ mine.base = jobs[b].base
      /\ mine.start = jobs[b].start /\ mine.seen = jobs[b].seen
      /\ mine.version = jobs[b].version /\ mine.file = built
  BY <1>3, JobParts DEF JobStates, Places
<1>5. /\ fs \in RelFiles /\ fs.report = Files(b).report /\ fs.checks = built
      /\ fs.csv = Files(b).csv /\ fs.manifest = Files(b).manifest
  BY <1>3, JobParts DEF RelFiles
<1>6. jobs' = [jobs EXCEPT ![b] = mine] /\ folders' = [folders EXCEPT ![FolderOf(b)] = fs]
  BY <1>1 DEF built, Write
<1> HIDE DEF mine, fs
<1>7. owner[FolderOf(b)] = b
  BY <1>2, JobParts DEF JobOK, Owns, Owning
<1>8. Torn(FolderOf(b)) \/ Contents(b, mine, fs)
  BY <1>2, <1>4, <1>5, JobParts, ReleaseAssumption
  DEF ReleaseAssumption, JobOK, Contents, Owning
<1>9. b \notin Local => Alone(mine, fs)
  BY <1>2, <1>4, <1>5, JobParts DEF JobOK, Alone
<1>10. Dated(b, mine, fs, stored', branch)
  BY <1>2, <1>4, JobParts DEF Dated, JobOK, NotOlder
<1>11. NotAfter(fs.manifest.version, Now(stored'))
  BY <1>2, <1>5, JobParts DEF FolderOK, Files
<1>12. jobs[b].pc # "torn" /\ b # "free"
  BY <1>2, FolderOfAJob
<1> QED BY <1>2, <1>4, <1>5, <1>6, <1>7, <1>8, <1>9, <1>10, <1>11, <1>12, JobParts, JobMoves

\* The data version is of the revision the run writes; the table has no later one.
LEMMA StoreBeginsKeeps == ASSUME RelInv, Times, NEW b \in Jobs, StoreBegins(b) PROVE RelInv'
<1> DEFINE mine == [jobs[b] EXCEPT !.pc = "storing", !.began = clock + 1]
<1>1. /\ jobs[b].pc = "built" /\ b \in Runs /\ UNCHANGED <<stored, folders, owner, branch>>
      /\ jobs' = [jobs EXCEPT ![b] = mine]
  BY DEF StoreBegins
<1>2. /\ mine \in JobStates /\ mine.pc = "storing" /\ mine.base = jobs[b].base
      /\ mine.start = jobs[b].start /\ mine.seen = jobs[b].seen
      /\ mine.version = jobs[b].version /\ mine.file = jobs[b].file
  <2> DEFINE moved == [jobs[b] EXCEPT !.pc = "storing"]
  <2>1. /\ moved \in JobStates /\ moved.pc = "storing" /\ moved.base = jobs[b].base
        /\ moved.start = jobs[b].start /\ moved.seen = jobs[b].seen
        /\ moved.version = jobs[b].version /\ moved.file = jobs[b].file
    BY JobParts DEF JobStates, Places
  <2>2. mine = [moved EXCEPT !.began = clock + 1] /\ clock + 1 \in Nat \ {0}
    BY DEF Times
  <2> HIDE DEF moved, mine
  <2> QED BY <2>1, <2>2 DEF JobStates
<1> HIDE DEF mine
<1>3. owner[FolderOf(b)] = b
  BY <1>1, JobParts DEF JobOK, Owns, Owning
<1>4. Torn(FolderOf(b)) \/ Contents(b, mine, Files(b))
  BY <1>1, <1>2, JobParts, ReleaseAssumption DEF ReleaseAssumption, JobOK, Contents, Owning
<1>5. b \notin Local => Alone(mine, Files(b))
  BY <1>1, <1>2, JobParts DEF JobOK, Alone
<1>6. Dated(b, mine, Files(b), stored', branch)
  BY <1>1, <1>2, JobParts DEF Dated, JobOK, NotOlder
<1>7. NotAfter(Files(b).manifest.version, Now(stored'))
  BY <1>1, JobParts DEF FolderOK, Files
<1>8. jobs[b].pc # "torn" /\ b # "free"
  BY <1>1, FolderOfAJob
<1> QED BY <1>1, <1>2, <1>3, <1>4, <1>5, <1>6, <1>7, <1>8, JobParts, JobMoves

LEMMA BuildStoresKeeps == ASSUME RelInv, NEW b \in Jobs, BuildStores(b) PROVE RelInv'
<1> DEFINE version == <<jobs[b].began, jobs[b].seen.mark, stored.turn + 1>>
           mine == [jobs[b] EXCEPT !.pc = "staged", !.version = version]
           rows == jobs[b].file[2] \cup {i \in stored.rows : i > jobs[b].seen.mark}
           next == [stored EXCEPT !.at = jobs[b].began, !.snap = jobs[b].file[1],
                                  !.rows = rows, !.turn = @ + 1]
<1>1. /\ jobs[b].pc = "storing" /\ b \in Runs /\ UNCHANGED <<folders, owner, branch>>
      /\ jobs' = [jobs EXCEPT ![b] = mine]
      /\ stored' = next
  BY DEF BuildStores
<1>2. /\ jobs[b].seen \in Revisions /\ jobs[b].file \in Datasets
      /\ stored \in Revisions /\ stored.mark \in Nat /\ jobs[b].began \in Nat \ {0}
      /\ jobs[b].seen.mark \in Nat /\ jobs[b].seen.mark <= stored.mark
  BY JobParts, ReleaseAssumption DEF ReleaseAssumption, JobStates, Revisions, JobOK, Dated
<1>3. /\ next \in Revisions /\ next.at = jobs[b].began /\ next.mark = stored.mark
      /\ next.turn = stored.turn + 1
  <2> DEFINE snap == jobs[b].file[1]
             turn == stored.turn + 1
             began == jobs[b].began
  <2>1. /\ snap \in Snaps \cup {"first"} /\ rows \subseteq ChangeIds /\ turn \in Nat \ {0}
        /\ began \in Nat \ {0}
    BY <1>2 DEF Revisions, Datasets
  <2>2. next = [stored EXCEPT !.at = began, !.snap = snap, !.rows = rows, !.turn = turn]
    OBVIOUS
  <2> HIDE DEF snap, turn, began, rows, next
  <2>3. /\ next \in Revisions /\ next.at = began /\ next.mark = stored.mark
        /\ next.turn = turn
    BY <1>2, <2>1, <2>2 DEF Revisions
  <2> QED BY <2>3 DEF began, turn
<1> HIDE DEF next
<1>4. version \in Versions /\ Later(stored, next)
  BY <1>2, <1>3, JobParts DEF Versions, JobStates, Revisions, Later
<1>5. NotAfter(version, Now(next))
  BY <1>2, <1>3 DEF NotAfter, Now, LessThan, Revisions
<1>6. b \notin Local => MayReplace(branch.tip.manifest.version, version)
  <2>1. branch.tip.manifest.version \in Versions
    BY JobParts DEF RelFiles
  <2>2. NotAfter(branch.tip.manifest.version, Now(stored))
    BY JobParts DEF TipOK
  <2> QED BY <1>2, <2>1, <2>2 DEF NotAfter, MayReplace, Now, LessThan, Versions, Revisions
<1> HIDE DEF version
<1>7. /\ mine \in JobStates /\ mine.pc = "staged" /\ mine.base = jobs[b].base
      /\ mine.start = jobs[b].start /\ mine.seen = jobs[b].seen
      /\ mine.version = version /\ mine.file = jobs[b].file
  BY <1>4, JobParts DEF JobStates, Places
<1> HIDE DEF mine
<1>8. owner[FolderOf(b)] = b
  BY <1>1, JobParts DEF JobOK, Owns, Owning
<1>9. Torn(FolderOf(b)) \/ Contents(b, mine, Files(b))
  BY <1>1, <1>7, JobParts, ReleaseAssumption
  DEF ReleaseAssumption, JobOK, Contents, Owning
<1>10. b \notin Local => Alone(mine, Files(b))
  BY <1>1, <1>7, JobParts DEF JobOK, Alone
<1>11. Dated(b, mine, Files(b), next, branch)
  <2>1. Dated(b, jobs[b], Files(b), next, branch)
    BY <1>4, JobParts, DatedKeeps DEF JobOK
  <2> QED BY <1>5, <1>6, <1>7, <2>1 DEF Dated, NotOlder
<1>12. NotAfter(Files(b).manifest.version, Now(next))
  <2>1. Files(b).manifest.version \in Versions /\ NotAfter(Files(b).manifest.version, Now(stored))
    BY JobParts DEF RelFiles, FolderOK, Files
  <2> QED BY <1>4, <2>1, DatesKeep
<1>13. jobs[b].pc # "torn" /\ b # "free"
  BY <1>1, FolderOfAJob
<1> QED BY <1>1, <1>4, <1>7, <1>8, <1>9, <1>10, <1>11, <1>12, <1>13, JobParts, JobMoves

LEMMA BuildReportsKeeps == ASSUME RelInv, NEW b \in Jobs, BuildReports(b) PROVE RelInv'
<1> DEFINE mine == [jobs[b] EXCEPT !.pc = "written"]
           fs   == [Files(b) EXCEPT !.report = jobs[b].file]
<1>1. /\ jobs[b].pc = "replaced" /\ b \in Runs /\ Owns(b) /\ UNCHANGED <<stored, branch>>
      /\ owner' = [owner EXCEPT ![FolderOf(b)] = "free"]
      /\ folders' = [folders EXCEPT ![FolderOf(b)] = fs]
      /\ jobs' = [jobs EXCEPT ![b] = mine]
  BY DEF BuildReports, Write, Free, Step
<1>2. /\ mine \in JobStates /\ mine.pc = "written" /\ mine.base = jobs[b].base
      /\ mine.start = jobs[b].start /\ mine.seen = jobs[b].seen
      /\ mine.version = jobs[b].version
  BY JobParts DEF JobStates, Places
<1>3. /\ fs \in RelFiles /\ fs.report = jobs[b].file /\ fs.checks = Files(b).checks
      /\ fs.csv = Files(b).csv /\ fs.manifest = Files(b).manifest
  BY JobParts DEF RelFiles, JobStates
<1> HIDE DEF mine, fs
<1>4. Contents(b, mine, fs) /\ mine.pc \notin Owning
  BY <1>2 DEF Contents, Owning
<1>5. Torn(FolderOf(b)) \/ OneRelease(fs)
  BY <1>1, <1>3, JobParts DEF JobOK, Contents, Owning, OneRelease
<1>6. b \notin Local => Alone(mine, fs)
  BY <1>1, <1>2, <1>5, JobParts DEF Alone
<1>7. Dated(b, mine, fs, stored', branch)
  BY <1>1, <1>2, <1>3, JobParts DEF Dated, JobOK, NotOlder
<1>8. NotAfter(fs.manifest.version, Now(stored'))
  BY <1>1, <1>3, JobParts DEF FolderOK, Files
<1> QED BY <1>1, <1>2, <1>3, <1>4, <1>5, <1>6, <1>7, <1>8, JobParts, JobMoves DEF Owns

\* Whatever a build leaves when it fails is the release that was there.
LEMMA BuildFailsKeeps == ASSUME RelInv, NEW b \in Jobs, BuildFails(b) PROVE RelInv'
<1> DEFINE mine == [jobs[b] EXCEPT !.pc = "failed"]
           manifest == IF jobs[b].pc = "replacing" THEN jobs[b].start.manifest
                       ELSE Files(b).manifest
           fs == [Files(b) EXCEPT !.report = Failed, !.manifest = manifest]
<1>1. /\ jobs[b].pc \in {"building", "built", "storing", "staged", "replacing"} /\ b \in Runs
      /\ UNCHANGED <<stored, branch>>
      /\ owner' = [owner EXCEPT ![FolderOf(b)] = "free"]
      /\ folders' = [folders EXCEPT ![FolderOf(b)] = fs]
      /\ jobs' = [jobs EXCEPT ![b] = mine]
  BY DEF BuildFails, Write, Free, Step
<1>2. /\ mine \in JobStates /\ mine.pc = "failed" /\ mine.base = jobs[b].base
      /\ mine.start = jobs[b].start /\ mine.seen = jobs[b].seen
      /\ mine.version = jobs[b].version
  BY JobParts DEF JobStates, Places
<1>3. /\ manifest \in [of : Datasets, version : Versions]
      /\ NotAfter(manifest.version, Now(stored))
      /\ ~Torn(FolderOf(b)) => manifest.of = Files(b).csv
  <2>1. jobs[b].start \in RelFiles /\ Files(b) \in RelFiles
    BY JobParts DEF JobStates
  <2>2. /\ NotAfter(jobs[b].start.manifest.version, Now(stored))
        /\ NotAfter(Files(b).manifest.version, Now(stored))
    BY JobParts DEF JobOK, Dated, FolderOK, Files
  <2>3. ~Torn(FolderOf(b)) => manifest.of = Files(b).csv
    BY <1>1, JobParts DEF JobOK, Contents
  <2> QED BY <2>1, <2>2, <2>3 DEF RelFiles
<1> HIDE DEF manifest
<1>4. /\ fs \in RelFiles /\ fs.report = Failed
      /\ fs.csv = Files(b).csv /\ fs.manifest = manifest
  BY <1>3, JobParts DEF RelFiles
<1> HIDE DEF mine, fs
<1>5. Contents(b, mine, fs) /\ Alone(mine, fs) /\ mine.pc \notin Owning
  BY <1>2 DEF Contents, Alone, Owning
<1>6. Torn(FolderOf(b)) \/ OneRelease(fs)
  BY <1>3, <1>4, FirstIsADataset DEF OneRelease
<1>7. Dated(b, mine, fs, stored', branch)
  BY <1>1, <1>2, JobParts DEF Dated, JobOK, NotOlder
<1>8. owner[FolderOf(b)] = b /\ jobs[b].pc # "torn"
  BY <1>1, JobParts DEF JobOK, Owns, Owning
<1> QED BY <1>1, <1>2, <1>3, <1>4, <1>5, <1>6, <1>7, <1>8, JobParts, JobMoves

LEMMA PublishAsksKeeps == ASSUME RelInv, NEW p \in Jobs, PublishAsks(p) PROVE RelInv'
<1>1. PICK run \in {None} \cup
               {jobs[b].file : b \in {c \in Runs \cap Local : jobs[c].pc = "written"}} :
          jobs' = [jobs EXCEPT ![p].pc = "waiting", ![p].seen = stored, ![p].run = run]
  BY DEF PublishAsks
<1> DEFINE mine == [jobs[p] EXCEPT !.pc = "waiting", !.seen = stored, !.run = run]
<1>2. /\ p \in Publishes /\ jobs[p].pc = (IF p \in Local THEN "idle" ELSE "ready")
      /\ UNCHANGED <<stored, folders, owner, branch>>
  BY DEF PublishAsks, Ready
<1>3. run \in Datasets \cup {None}
  BY <1>1 DEF RelInv, RelTypes, JobStates, Jobs
<1>4. /\ mine \in JobStates /\ mine.pc = "waiting" /\ mine.base = jobs[p].base
      /\ mine.start = jobs[p].start /\ mine.seen = stored /\ mine.version = jobs[p].version
  BY <1>3, JobParts DEF JobStates, Places
<1>5. jobs' = [jobs EXCEPT ![p] = mine]
  BY <1>1
<1> HIDE DEF mine
<1>6. Contents(p, mine, Files(p)) /\ mine.pc \notin Owning
  BY <1>4 DEF Contents, Owning
<1>7. p \notin Local => Alone(mine, Files(p))
  BY <1>2, <1>4, JobParts DEF JobOK, Alone
<1>8. Dated(p, mine, Files(p), stored', branch)
  <2>1. NotAfter(Now(stored), Now(stored)) /\ stored.mark <= stored.mark
    BY JobParts, ReleaseAssumption
    DEF ReleaseAssumption, NotAfter, Now, LessThan, Revisions
  <2> QED BY <1>2, <1>4, <2>1, JobParts DEF Dated, JobOK, NotOlder, TipOK
<1>9. /\ owner[FolderOf(p)] = "free" => Torn(FolderOf(p)) \/ OneRelease(Files(p))
      /\ NotAfter(Files(p).manifest.version, Now(stored'))
  BY <1>2, JobParts DEF FolderOK, Files
<1>10. jobs[p].pc # "torn"
  BY <1>2
<1> QED BY <1>2, <1>4, <1>5, <1>6, <1>7, <1>8, <1>9, <1>10, JobParts, JobMoves

LEMMA PublishReadsKeeps == ASSUME RelInv, NEW p \in Jobs, p \in Publishes, PublishReads(p)
                           PROVE  RelInv'
<1> DEFINE file    == <<jobs[p].seen.snap, jobs[p].seen.rows>>
           version == <<jobs[p].seen.at, jobs[p].seen.mark, jobs[p].seen.turn>>
           mine == [jobs[p] EXCEPT !.pc = "staged", !.file = file, !.version = version]
<1>1. /\ jobs[p].pc = "waiting" /\ owner[FolderOf(p)] = "free"
      /\ UNCHANGED <<stored, folders, branch>>
      /\ owner' = [owner EXCEPT ![FolderOf(p)] = p]
      /\ jobs' = [jobs EXCEPT ![p] = mine]
  BY DEF PublishReads
<1>2. file \in Datasets /\ version \in Versions /\ version = Now(jobs[p].seen)
  BY JobParts, ReleaseAssumption
  DEF ReleaseAssumption, JobStates, Revisions, Datasets, Versions, Now
<1> HIDE DEF file, version
<1>3. /\ mine \in JobStates /\ mine.pc = "staged" /\ mine.base = jobs[p].base
      /\ mine.start = jobs[p].start /\ mine.seen = jobs[p].seen /\ mine.version = version
  BY <1>2, JobParts DEF JobStates, Places
<1> HIDE DEF mine
<1>4. Torn(FolderOf(p)) \/ Contents(p, mine, Files(p))
  <2>1. p \notin Runs /\ (Torn(FolderOf(p)) \/ OneRelease(Files(p)))
    BY <1>1, JobParts, ReleaseAssumption DEF ReleaseAssumption, FolderOK, Files
  <2> QED BY <1>3, <2>1 DEF Contents, Owning, OneRelease, SelfDescribed
<1>5. p \notin Local => Alone(mine, Files(p))
  BY <1>1, <1>3, JobParts DEF JobOK, Alone
<1>6. Dated(p, mine, Files(p), stored', branch)
  <2>1. branch.tip.manifest.version \in Versions
    BY JobParts DEF RelFiles
  <2>2. NotAfter(branch.tip.manifest.version, version)
        => MayReplace(branch.tip.manifest.version, version)
    BY <1>2, <2>1 DEF NotAfter, MayReplace, Versions
  <2> QED BY <1>1, <1>2, <1>3, <2>2, JobParts DEF Dated, JobOK, NotOlder
<1>7. NotAfter(Files(p).manifest.version, Now(stored'))
  BY <1>1, JobParts DEF FolderOK, Files
<1>8. jobs[p].pc # "torn" /\ p # "free"
  BY <1>1, FolderOfAJob
<1> QED BY <1>1, <1>3, <1>4, <1>5, <1>6, <1>7, <1>8, JobParts, JobMoves

LEMMA PublishTidiesKeeps == ASSUME RelInv, NEW p \in Jobs, PublishTidies(p) PROVE RelInv'
<1> DEFINE mine == [jobs[p] EXCEPT !.pc = "written"]
           run  == IF Described(p) THEN jobs[p].run ELSE None
           fs   == [Files(p) EXCEPT !.report = run, !.checks = run]
<1>1. /\ jobs[p].pc = "replaced" /\ Owns(p) /\ UNCHANGED <<stored, branch>>
      /\ owner' = [owner EXCEPT ![FolderOf(p)] = "free"]
      /\ folders' = [folders EXCEPT ![FolderOf(p)] = fs]
      /\ jobs' = [jobs EXCEPT ![p] = mine]
  BY DEF PublishTidies, Write, Free, Step, Tidied
<1>2. /\ mine \in JobStates /\ mine.pc = "written" /\ mine.base = jobs[p].base
      /\ mine.start = jobs[p].start /\ mine.seen = jobs[p].seen
      /\ mine.version = jobs[p].version
  BY JobParts DEF JobStates, Places
<1>3. run \in Datasets \cup {None} /\ run \in {jobs[p].file, None}
  BY JobParts DEF Described, JobStates
<1> HIDE DEF run
<1>4. /\ fs \in RelFiles /\ fs.report = run /\ fs.checks = run
      /\ fs.csv = Files(p).csv /\ fs.manifest = Files(p).manifest
  BY <1>3, JobParts DEF RelFiles
<1> HIDE DEF mine, fs
<1>5. Contents(p, mine, fs) /\ mine.pc \notin Owning
  BY <1>2 DEF Contents, Owning
<1>6. Torn(FolderOf(p)) \/ OneRelease(fs)
  BY <1>1, <1>3, <1>4, FirstIsADataset, JobParts DEF JobOK, Contents, OneRelease
<1>7. p \notin Local => Alone(mine, fs)
  BY <1>1, <1>2, <1>6, JobParts DEF Alone
<1>8. Dated(p, mine, fs, stored', branch)
  BY <1>1, <1>2, <1>4, JobParts DEF Dated, JobOK, NotOlder
<1>9. NotAfter(fs.manifest.version, Now(stored'))
  BY <1>1, <1>4, JobParts DEF FolderOK, Files
<1> QED BY <1>1, <1>2, <1>4, <1>5, <1>6, <1>7, <1>8, <1>9, JobParts, JobMoves DEF Owns

LEMMA PublishFailsKeeps == ASSUME RelInv, NEW p \in Jobs, PublishFails(p) PROVE RelInv'
<1> DEFINE mine == [jobs[p] EXCEPT !.pc = "failed"]
           manifest == IF jobs[p].pc = "replacing" THEN jobs[p].start.manifest
                       ELSE Files(p).manifest
           fs == [Files(p) EXCEPT !.manifest = manifest]
<1>1. /\ jobs[p].pc \in {"staged", "replacing"} /\ p \in Publishes
      /\ UNCHANGED <<stored, branch>>
      /\ owner' = [owner EXCEPT ![FolderOf(p)] = "free"]
      /\ folders' = [folders EXCEPT ![FolderOf(p)] = fs]
      /\ jobs' = [jobs EXCEPT ![p] = mine]
  BY DEF PublishFails, Write, Free, Step
<1>2. /\ mine \in JobStates /\ mine.pc = "failed" /\ mine.base = jobs[p].base
      /\ mine.start = jobs[p].start /\ mine.seen = jobs[p].seen
      /\ mine.version = jobs[p].version
  BY JobParts DEF JobStates, Places
<1>3. /\ manifest \in [of : Datasets, version : Versions]
      /\ NotAfter(manifest.version, Now(stored))
      /\ ~Torn(FolderOf(p)) => manifest.of = Files(p).csv /\ SelfDescribed(Files(p))
  <2>1. jobs[p].start \in RelFiles /\ Files(p) \in RelFiles
    BY JobParts DEF JobStates
  <2>2. /\ NotAfter(jobs[p].start.manifest.version, Now(stored))
        /\ NotAfter(Files(p).manifest.version, Now(stored))
    BY JobParts DEF JobOK, Dated, FolderOK, Files
  <2>3. ~Torn(FolderOf(p)) => manifest.of = Files(p).csv /\ SelfDescribed(Files(p))
    BY <1>1, JobParts DEF JobOK, Contents
  <2> QED BY <2>1, <2>2, <2>3 DEF RelFiles
<1> HIDE DEF manifest
<1>4. /\ fs \in RelFiles /\ fs.report = Files(p).report /\ fs.checks = Files(p).checks
      /\ fs.csv = Files(p).csv /\ fs.manifest = manifest
  BY <1>3, JobParts DEF RelFiles
<1> HIDE DEF mine, fs
<1>5. Contents(p, mine, fs) /\ Alone(mine, fs) /\ mine.pc \notin Owning
  BY <1>2 DEF Contents, Alone, Owning
<1>6. Torn(FolderOf(p)) \/ OneRelease(fs)
  BY <1>3, <1>4 DEF OneRelease, SelfDescribed
<1>7. Dated(p, mine, fs, stored', branch)
  BY <1>1, <1>2, JobParts DEF Dated, JobOK, NotOlder
<1>8. owner[FolderOf(p)] = p /\ jobs[p].pc # "torn"
  BY <1>1, JobParts DEF JobOK, Owns, Owning
<1> QED BY <1>1, <1>2, <1>3, <1>4, <1>5, <1>6, <1>7, <1>8, JobParts, JobMoves

LEMMA ReplaceOthersKeeps == ASSUME RelInv, NEW j \in Jobs, ReplaceOthers(j) PROVE RelInv'
<1> DEFINE start == IF j \in Local THEN Files(j) ELSE jobs[j].start
           mine  == [jobs[j] EXCEPT !.pc = "replacing", !.start = start]
           manifest == [of |-> jobs[j].file, version |-> jobs[j].version]
           fs    == [Files(j) EXCEPT !.manifest = manifest]
<1>1. /\ jobs[j].pc = "staged" /\ UNCHANGED <<stored, owner, branch>>
      /\ folders' = [folders EXCEPT ![FolderOf(j)] = fs]
      /\ jobs' = [jobs EXCEPT ![j] = mine]
  BY DEF ReplaceOthers, Write
<1>2. start \in RelFiles /\ NotAfter(start.manifest.version, Now(stored))
  BY JobParts DEF JobStates, JobOK, Dated, FolderOK, Files
<1>3. ~Torn(FolderOf(j)) => start.manifest.of = Files(j).csv
  BY <1>1, JobParts DEF JobOK, Contents, Alone
<1> HIDE DEF start
<1>4. /\ mine \in JobStates /\ mine.pc = "replacing" /\ mine.base = jobs[j].base
      /\ mine.start = start /\ mine.seen = jobs[j].seen
      /\ mine.version = jobs[j].version /\ mine.file = jobs[j].file
  BY <1>2, JobParts DEF JobStates, Places
<1>5. /\ manifest \in [of : Datasets, version : Versions]
      /\ manifest.of = jobs[j].file /\ manifest.version = jobs[j].version
  BY JobParts DEF JobStates
<1> HIDE DEF manifest
<1>6. /\ fs \in RelFiles /\ fs.report = Files(j).report /\ fs.checks = Files(j).checks
      /\ fs.csv = Files(j).csv /\ fs.manifest = manifest
  BY <1>5, JobParts DEF RelFiles
<1> HIDE DEF mine, fs
<1>7. owner[FolderOf(j)] = j /\ j # "free" /\ jobs[j].pc # "torn"
  BY <1>1, JobParts, FolderOfAJob DEF JobOK, Owns, Owning
<1>8. Torn(FolderOf(j)) \/ Contents(j, mine, fs)
  BY <1>1, <1>3, <1>4, <1>5, <1>6, JobParts DEF JobOK, Contents, Owning, SelfDescribed
<1>9. j \notin Local => Alone(mine, fs)
  BY <1>1, <1>3, <1>4, <1>6, JobParts DEF Alone
<1>10. Dated(j, mine, fs, stored', branch)
  BY <1>1, <1>2, <1>4, <1>5, <1>6, JobParts DEF Dated, JobOK, NotOlder
<1>11. NotAfter(fs.manifest.version, Now(stored'))
  BY <1>1, <1>5, <1>6, JobParts DEF JobOK, Dated
<1> QED BY <1>1, <1>4, <1>6, <1>7, <1>8, <1>9, <1>10, <1>11, JobParts, JobMoves

LEMMA ReplaceCsvKeeps == ASSUME RelInv, NEW j \in Jobs, ReplaceCsv(j) PROVE RelInv'
<1> DEFINE mine == [jobs[j] EXCEPT !.pc = "replaced"]
           fs   == [Files(j) EXCEPT !.csv = jobs[j].file]
<1>1. /\ jobs[j].pc = "replacing" /\ UNCHANGED <<stored, owner, branch>>
      /\ folders' = [folders EXCEPT ![FolderOf(j)] = fs]
      /\ jobs' = [jobs EXCEPT ![j] = mine]
  BY DEF ReplaceCsv, Write, Step
<1>2. /\ mine \in JobStates /\ mine.pc = "replaced" /\ mine.base = jobs[j].base
      /\ mine.start = jobs[j].start /\ mine.seen = jobs[j].seen
      /\ mine.version = jobs[j].version /\ mine.file = jobs[j].file
  BY JobParts DEF JobStates, Places
<1>3. /\ fs \in RelFiles /\ fs.report = Files(j).report /\ fs.checks = Files(j).checks
      /\ fs.csv = jobs[j].file /\ fs.manifest = Files(j).manifest
  BY JobParts DEF RelFiles, JobStates
<1> HIDE DEF mine, fs
<1>4. owner[FolderOf(j)] = j /\ j # "free" /\ jobs[j].pc # "torn"
  BY <1>1, JobParts, FolderOfAJob DEF JobOK, Owns, Owning
<1>5. Torn(FolderOf(j)) \/ Contents(j, mine, fs)
  BY <1>1, <1>2, <1>3, JobParts DEF JobOK, Contents, Owning
<1>6. Alone(mine, fs)
  BY <1>2 DEF Alone
<1>7. Dated(j, mine, fs, stored', branch)
  BY <1>1, <1>2, <1>3, JobParts DEF Dated, JobOK, NotOlder
<1>8. NotAfter(fs.manifest.version, Now(stored'))
  BY <1>1, <1>3, JobParts DEF FolderOK, Files
<1> QED BY <1>1, <1>2, <1>3, <1>4, <1>5, <1>6, <1>7, <1>8, JobParts, JobMoves

\* What a death leaves is one release, unless the replacements had begun.
LEMMA KilledKeeps == ASSUME RelInv, NEW j \in Jobs, Killed(j) PROVE RelInv'
<1> DEFINE pc   == IF jobs[j].pc \in {"replacing", "replaced"} THEN "torn" ELSE "failed"
           mine == [jobs[j] EXCEPT !.pc = pc]
<1>1. /\ jobs[j].pc \in Owning /\ j \in Local /\ UNCHANGED <<stored, folders, branch>>
      /\ owner' = [owner EXCEPT ![FolderOf(j)] = "free"]
      /\ jobs' = [jobs EXCEPT ![j] = mine]
  BY DEF Killed, Step, Free, Owning
<1>2. /\ mine \in JobStates /\ mine.pc = pc /\ mine.base = jobs[j].base
      /\ mine.start = jobs[j].start /\ mine.seen = jobs[j].seen
      /\ mine.version = jobs[j].version
  BY JobParts DEF JobStates, Places
<1> HIDE DEF mine
<1>3. owner[FolderOf(j)] = j /\ jobs[j].pc # "torn"
  BY <1>1, JobParts DEF JobOK, Owns, Owning
<1>4. Contents(j, mine, Files(j)) /\ mine.pc \notin Owning
  BY <1>2 DEF Contents, Owning
<1>5. Torn(FolderOf(j)) \/ mine.pc = "torn" \/ OneRelease(Files(j))
  <2> SUFFICES ASSUME ~Torn(FolderOf(j)), jobs[j].pc \in {"building", "built", "storing", "staged"}
               PROVE  OneRelease(Files(j))
    BY <1>1, <1>2 DEF Owning
  <2>1. Contents(j, jobs[j], Files(j))
    BY JobParts DEF JobOK
  <2>2. CASE j \in Runs
    BY <2>1, <2>2, FirstIsADataset DEF Contents, Owning, OneRelease
  <2>3. CASE j \in Publishes
    BY <2>1, <2>3, ReleaseAssumption
    DEF ReleaseAssumption, Contents, OneRelease, SelfDescribed
  <2> QED BY <2>2, <2>3 DEF Jobs
<1>6. Dated(j, mine, Files(j), stored', branch)
  BY <1>1, <1>2, JobParts DEF Dated, JobOK, NotOlder
<1>7. NotAfter(Files(j).manifest.version, Now(stored'))
  BY <1>1, JobParts DEF FolderOK, Files
<1> QED BY <1>1, <1>2, <1>3, <1>4, <1>5, <1>6, <1>7, JobParts, JobMoves

LEMMA CommitKeepsFiles ==
    ASSUME RelInv, NEW j \in Jobs, Commit(j) \/ Retried(j)
    PROVE  RelInv'
<1>1. \E mine \in JobStates :
          /\ jobs' = [jobs EXCEPT ![j] = mine]
          /\ mine.pc \in {"pushed", "committed"} /\ mine.base \in {jobs[j].base, branch.pushes}
          /\ mine.start = jobs[j].start /\ mine.seen = jobs[j].seen
          /\ mine.version = jobs[j].version
          /\ mine.pc = "committed" => NotOlder(mine, Files(j), branch.tip.manifest.version)
                                       \/ mine.base # branch.pushes
  <2>1. CASE Commit(j)
    <3> DEFINE pc == IF Files(j).csv = jobs[j].start.csv THEN "pushed" ELSE "committed"
               mine == [jobs[j] EXCEPT !.pc = pc]
    <3>1. jobs' = [jobs EXCEPT ![j] = mine] /\ jobs[j].pc = "written" /\ j \notin Local
      BY <2>1 DEF Commit, Step
    <3>2. /\ mine \in JobStates /\ mine.pc = pc /\ mine.base = jobs[j].base
          /\ mine.start = jobs[j].start /\ mine.seen = jobs[j].seen
          /\ mine.version = jobs[j].version
      BY JobParts DEF JobStates, Places
    <3> HIDE DEF mine
    <3>3. NotOlder(mine, Files(j), branch.tip.manifest.version) \/ mine.base # branch.pushes
      BY <3>1, <3>2, JobParts DEF JobOK, Dated, NotOlder
    <3> QED BY <3>1, <3>2, <3>3
  <2>2. CASE Retried(j) /\ (IsOlder(Files(j).manifest, branch.tip.manifest)
                              \/ Files(j) = branch.tip)
    <3> DEFINE mine == [jobs[j] EXCEPT !.pc = "pushed"]
    <3>1. jobs' = [jobs EXCEPT ![j] = mine]
      BY <2>2 DEF Retried, Step
    <3>2. /\ mine \in JobStates /\ mine.pc = "pushed" /\ mine.base = jobs[j].base
          /\ mine.start = jobs[j].start /\ mine.seen = jobs[j].seen
          /\ mine.version = jobs[j].version
      BY JobParts DEF JobStates, Places
    <3> HIDE DEF mine
    <3> QED BY <3>1, <3>2
  <2>3. CASE Retried(j) /\ ~IsOlder(Files(j).manifest, branch.tip.manifest)
                        /\ Files(j) # branch.tip
    <3> DEFINE mine == [jobs[j] EXCEPT !.base = branch.pushes]
    <3>1. jobs' = [jobs EXCEPT ![j] = mine] /\ jobs[j].pc = "committed"
      BY <2>3 DEF Retried
    <3>2. /\ mine \in JobStates /\ mine.pc = "committed" /\ mine.base = branch.pushes
          /\ mine.start = jobs[j].start /\ mine.seen = jobs[j].seen
          /\ mine.version = jobs[j].version
      BY <3>1, JobParts DEF JobStates, Places
    <3> HIDE DEF mine
    <3>3. NotOlder(mine, Files(j), branch.tip.manifest.version)
      BY <2>3, <3>2 DEF NotOlder, MayReplace, IsOlder
    <3> QED BY <3>1, <3>2, <3>3
  <2> QED BY <2>1, <2>2, <2>3
<1>2. PICK mine \in JobStates :
          /\ jobs' = [jobs EXCEPT ![j] = mine]
          /\ mine.pc \in {"pushed", "committed"} /\ mine.base \in {jobs[j].base, branch.pushes}
          /\ mine.start = jobs[j].start /\ mine.seen = jobs[j].seen
          /\ mine.version = jobs[j].version
          /\ mine.pc = "committed" => NotOlder(mine, Files(j), branch.tip.manifest.version)
                                       \/ mine.base # branch.pushes
  BY <1>1
<1>3. /\ jobs[j].pc \in {"written", "committed"} /\ j \notin Local
      /\ UNCHANGED <<stored, folders, owner, branch>>
  BY JobParts DEF Commit, Retried, JobOK
<1>4. Contents(j, mine, Files(j)) /\ mine.pc \notin Owning
  BY <1>2 DEF Contents, Owning
<1>5. j \notin Local => Alone(mine, Files(j))
  BY <1>2, <1>3, JobParts DEF JobOK, Alone
<1>6. Dated(j, mine, Files(j), stored', branch)
  <2>1. mine.pc = "pushed" => NotOlder(mine, Files(j), branch.tip.manifest.version)
    BY DEF NotOlder
  <2> QED BY <1>2, <1>3, <2>1, JobParts DEF Dated, JobOK
<1>7. /\ owner[FolderOf(j)] = "free" => Torn(FolderOf(j)) \/ OneRelease(Files(j))
      /\ NotAfter(Files(j).manifest.version, Now(stored'))
  BY <1>3, JobParts DEF FolderOK, Files
<1>8. jobs[j].pc # "torn"
  BY <1>3
<1> QED BY <1>2, <1>3, <1>4, <1>5, <1>6, <1>7, <1>8, JobParts, JobMoves

\* A push is accepted only on the tip the commit was made on, which is no newer; no other
\* job has this tip as its base.
LEMMA PushKeeps ==
    ASSUME RelInv, NEW j \in Jobs, j \notin Local, Push(j)
    PROVE  RelInv' /\ MayReplace(branch.tip.manifest.version, branch'.tip.manifest.version)
<1> DEFINE mine == [jobs[j] EXCEPT !.pc = "pushed"]
<1>1. /\ jobs[j].pc = "committed" /\ jobs[j].base = branch.pushes
      /\ branch' = [pushes |-> branch.pushes + 1, tip |-> Files(j)]
      /\ jobs' = [jobs EXCEPT ![j] = mine] /\ UNCHANGED <<stored, folders, owner>>
  BY DEF Push, Step
<1>2. /\ mine \in JobStates /\ mine.pc = "pushed" /\ mine.base = jobs[j].base
      /\ mine.start = jobs[j].start /\ mine.seen = jobs[j].seen
      /\ mine.version = jobs[j].version
  BY JobParts DEF JobStates, Places
<1> HIDE DEF mine
<1>3. jobs'[j] = mine /\ \A k \in Jobs \ {j} : jobs'[k] = jobs[k]
  BY <1>1 DEF RelInv, RelTypes
<1>4. RelTypes'
  BY <1>1, <1>2, JobParts DEF RelInv, RelTypes
<1>5. OneRelease(Files(j)) /\ NotAfter(Files(j).manifest.version, Now(stored))
  BY <1>1, JobParts DEF JobOK, Alone, FolderOK, Files
<1>6. MayReplace(branch.tip.manifest.version, Files(j).manifest.version)
  BY <1>1, JobParts DEF JobOK, Dated, NotOlder
<1>7. \A x \in Folders : Torn(x) => Torn(x)'
  BY <1>1, <1>3 DEF Torn, FolderOf
<1>8. ASSUME NEW k \in Jobs PROVE JobOK(k)'
  <2>1. /\ Files(k)' = Files(k) /\ FolderOf(k)' = FolderOf(k) /\ FolderOf(k) \in Folders
        /\ Owns(k)' = Owns(k)
    BY <1>1, FolderOfAJob DEF Files, FolderOf, Owns
  <2>2. JobOK(k) /\ jobs[k] \in JobStates /\ branch.pushes \in Nat
    BY JobParts
  <2>3. CASE k = j
    <3>1. Contents(j, mine, Files(j)) /\ Alone(mine, Files(j)) /\ mine.pc \notin Owning
      BY <1>2 DEF Contents, Alone, Owning
    <3>2. Dated(j, mine, Files(j), stored, branch')
      BY <1>1, <1>2, <2>2, <2>3 DEF JobOK, Dated, NotOlder, JobStates
    <3> QED BY <1>1, <1>3, <2>1, <2>3, <3>1, <3>2 DEF JobOK
  <2>4. CASE k # j
    <3>1. Dated(k, jobs[k], Files(k), stored, branch')
      <4>1. k \notin Local => jobs[k].base <= branch'.pushes /\ jobs[k].base # branch'.pushes
        BY <1>1, <2>2 DEF JobOK, Dated, JobStates
      <4>2. Dated(k, jobs[k], Files(k), stored, branch)
        BY <2>2 DEF JobOK
      <4> QED BY <4>1, <4>2 DEF Dated
    <3> QED BY <1>1, <1>3, <1>7, <2>1, <2>2, <2>4, <3>1 DEF JobOK
  <2> QED BY <2>3, <2>4
<1>9. ASSUME NEW x \in Folders PROVE FolderOK(x)'
  BY <1>1, <1>7 DEF RelInv, FolderOK
<1>10. TipOK'
  BY <1>1, <1>5 DEF TipOK
<1> QED BY <1>1, <1>4, <1>6, <1>8, <1>9, <1>10 DEF RelInv

LEMMA SaveKeepsFiles ==
    ASSUME RelInv, Times, NEW i \in ChangeIds, SaveCommits(i)
    PROVE  RelInv'
<1>1. UNCHANGED <<folders, owner, jobs, branch>>
  BY DEF SaveCommits
<1> DEFINE mark == IF i > stored.mark THEN i ELSE stored.mark
           next == [stored EXCEPT !.at = saves[i], !.rows = @ \cup {i}, !.log = @ \cup {i},
                                  !.mark = mark, !.turn = @ + 1]
<1>2. stored \in Revisions /\ stored' = next /\ saves[i] \in Nat \ {0}
  BY DEF SaveCommits, RelInv, RelTypes, Times
<1>3. Later(stored, stored')
  <2>1. /\ mark \in 0..MaxCorrections /\ stored.mark <= mark
        /\ stored.turn \in Nat /\ stored.turn + 1 \in Nat \ {0}
    BY <1>2, ReleaseAssumption DEF ReleaseAssumption, Revisions, ChangeIds
  <2>2. next \in Revisions /\ next.mark = mark /\ next.turn = stored.turn + 1
    BY <1>2, <2>1 DEF Revisions
  <2> QED BY <1>2, <2>1, <2>2 DEF Later
<1>4. RelTypes'
  BY <1>1, <1>3 DEF RelInv, RelTypes, Later
<1>5. ASSUME NEW j \in Jobs PROVE JobOK(j)'
  <2>1. Dated(j, jobs[j], Files(j), stored', branch)
    BY <1>3, JobParts, DatedKeeps DEF JobOK
  <2>2. /\ Files(j)' = Files(j) /\ FolderOf(j)' = FolderOf(j) /\ Owns(j)' = Owns(j)
        /\ Torn(FolderOf(j))' = Torn(FolderOf(j))
    BY <1>1 DEF Files, FolderOf, Owns, Torn
  <2> QED BY <1>1, <2>1, <2>2, JobParts DEF JobOK
<1>6. ASSUME NEW x \in Folders PROVE FolderOK(x)'
  <2>1. folders[x].manifest.version \in Versions
    BY DEF RelInv, RelTypes, RelFiles
  <2>2. NotAfter(folders[x].manifest.version, Now(stored'))
    BY <1>3, <2>1, DatesKeep DEF RelInv, FolderOK
  <2>3. Torn(x)' = Torn(x)
    BY <1>1 DEF FolderOf, Torn
  <2> QED BY <1>1, <2>2, <2>3 DEF RelInv, FolderOK
<1>7. TipOK'
  <2>1. branch.tip.manifest.version \in Versions
    BY DEF RelInv, RelTypes, RelFiles
  <2> QED BY <1>1, <1>3, <2>1, DatesKeep DEF RelInv, TipOK
<1> QED BY <1>4, <1>5, <1>6, <1>7 DEF RelInv

LEMMA TimesStep == Times /\ [RelNext]_relVars => Times'
<1> SUFFICES ASSUME Times, [RelNext]_relVars PROVE Times'
  OBVIOUS
<1>1. CASE UNCHANGED <<clock, saves>>
  BY <1>1 DEF Times
<1>2. ASSUME NEW i \in ChangeIds, SaveBegins(i) PROVE Times'
  BY <1>2 DEF SaveBegins, Times
<1>3. ASSUME NEW b \in Runs, StoreBegins(b) PROVE Times'
  BY <1>3 DEF StoreBegins, Times
<1>4. CASE RelNext
  BY <1>1, <1>2, <1>3, <1>4, Zenon
  DEF RelNext, SaveCommits, Checkout, ReplaceOthers, ReplaceCsv, Killed, Commit, Push, Retried,
      BuildBegins, BuildValidates, BuildStores, BuildReports, BuildFails, PublishAsks,
      PublishReads, PublishTidies, PublishFails
<1> QED BY <1>1, <1>4 DEF relVars

LEMMA ReleaseStep ==
    RelInv /\ Times /\ [RelNext]_relVars =>
        RelInv' /\ (branch' # branch =>
                        MayReplace(branch.tip.manifest.version, branch'.tip.manifest.version))
<1> SUFFICES ASSUME RelInv, Times, [RelNext]_relVars
             PROVE  RelInv' /\ (branch' # branch =>
                        MayReplace(branch.tip.manifest.version, branch'.tip.manifest.version))
  OBVIOUS
<1>1. CASE UNCHANGED <<stored, folders, owner, jobs, branch>>
  BY <1>1 DEF RelInv, RelTypes, JobOK, FolderOK, TipOK, Files, FolderOf, Owns, Torn
<1>2. ASSUME NEW i \in ChangeIds, SaveBegins(i) \/ SaveCommits(i)
      PROVE  RelInv' /\ UNCHANGED branch
  <2>1. CASE SaveBegins(i)
    BY <1>1, <2>1 DEF SaveBegins
  <2>2. CASE SaveCommits(i)
    <3>1. UNCHANGED branch
      BY <2>2, Zenon DEF SaveCommits
    <3> QED BY <2>2, <3>1, SaveKeepsFiles
  <2> QED BY <1>2, <2>1, <2>2
<1>3. ASSUME NEW j \in Jobs, \/ Checkout(j) \/ ReplaceOthers(j) \/ ReplaceCsv(j) \/ Killed(j)
                             \/ Commit(j) \/ Retried(j)
      PROVE  RelInv' /\ UNCHANGED branch
  <2>1. RelInv'
    BY <1>3, CheckoutKeeps, ReplaceOthersKeeps, ReplaceCsvKeeps, KilledKeeps, CommitKeepsFiles
  <2>2. UNCHANGED branch
    BY <1>3, Zenon DEF Checkout, ReplaceOthers, ReplaceCsv, Killed, Commit, Retried
  <2> QED BY <2>1, <2>2
<1>4. ASSUME NEW b \in Runs, \/ BuildBegins(b) \/ BuildValidates(b) \/ StoreBegins(b)
                             \/ BuildStores(b) \/ BuildReports(b) \/ BuildFails(b)
      PROVE  RelInv' /\ UNCHANGED branch
  <2>1. b \in Jobs
    BY DEF Jobs
  <2>2. RelInv'
    BY <1>4, <2>1, BuildBeginsKeeps, BuildValidatesKeeps, StoreBeginsKeeps, BuildStoresKeeps,
       BuildReportsKeeps, BuildFailsKeeps
  <2>3. UNCHANGED branch
    BY <1>4, Zenon DEF BuildBegins, BuildValidates, StoreBegins, BuildStores, BuildReports,
                       BuildFails
  <2> QED BY <2>2, <2>3
<1>5. ASSUME NEW p \in Publishes, \/ PublishAsks(p) \/ PublishReads(p)
                                  \/ PublishTidies(p) \/ PublishFails(p)
      PROVE  RelInv' /\ UNCHANGED branch
  <2>1. p \in Jobs
    BY DEF Jobs
  <2>2. RelInv'
    BY <1>5, <2>1, PublishAsksKeeps, PublishReadsKeeps, PublishTidiesKeeps, PublishFailsKeeps
  <2>3. UNCHANGED branch
    BY <1>5, Zenon DEF PublishAsks, PublishReads, PublishTidies, PublishFails
  <2> QED BY <2>2, <2>3
<1>6. ASSUME NEW j \in Jobs, Push(j)
      PROVE  RelInv' /\ MayReplace(branch.tip.manifest.version, branch'.tip.manifest.version)
  BY <1>6, PushKeeps, JobParts DEF JobOK, Push
<1> QED BY <1>1, <1>2, <1>3, <1>4, <1>5, <1>6 DEF RelNext, relVars

LEMMA ReleaseInvariance == RelSpec => [](RelInv /\ Times)
<1>1. RelInit => Times
  BY DEF RelInit, Times
<1> QED BY <1>1, ReleaseInitially, ReleaseStep, TimesStep, PTL DEF RelSpec

\* A folder that nobody writes and where no process died among the replacements holds one
\* release, and so does the tip of the branch.
THEOREM FolderHoldsOneRelease == RelSpec => []FilesAreOneRelease
<1>1. RelInv => FilesAreOneRelease
  BY DEF RelInv, FolderOK, TipOK, FilesAreOneRelease
<1> QED BY <1>1, ReleaseInvariance, PTL

\* Whatever order the transactions started in, and however long a job takes: a push puts
\* a lower data version on the branch only for data that was stored later.
THEOREM PushesNeverGoBack == RelSpec => BranchNeverGoesBack
<1>1. RelInv /\ Times /\ [RelNext]_relVars =>
          [LET new == branch'.tip.manifest.version
               old == branch.tip.manifest.version
           IN  LessThan(new, old) => new[3] > old[3]]_branch
  BY ReleaseStep DEF MayReplace
<1> QED BY <1>1, ReleaseInvariance, PTL DEF RelSpec, BranchNeverGoesBack

\* No file carries a version that the table cannot have had.
THEOREM ReleasesAreTyped == RelSpec => []RelTypeOK
<1>1. RelInv /\ Times => RelTypeOK
  BY DEF RelInv, RelTypes, Times, RelTypeOK, JobStates, Places
<1> QED BY <1>1, ReleaseInvariance, PTL

-----------------------------------------------------------------------------
(***************************************************************************)
(* No identifier is lost in the duplicate steps of a build, and none has   *)
(* two places, whatever rows it loads and whatever was ruled on its pairs. *)
(***************************************************************************)
-----------------------------------------------------------------------------
(***************************************************************************)
(* The ids of the rows of a build.                                         *)
(***************************************************************************)
Fields == {"id", "source", "doiO", "doiR", "url", "outcome", "quote", "distinct",
           "registered", "merged", "clash"}

IdsUnion(S) == UNION {Ids(r) : r \in S}

\* Rows of which no two stand for the same id, and none twice for its own.
IdsApart(S) ==
    /\ \A r \in S : r.id \notin r.merged
    /\ \A r, q \in S : r # q => Ids(r) \cap Ids(q) = {}

Sound(rows) == rows \in Seq(BuildRow) /\ NoRepeats(rows) /\ IdsApart(ToSet(rows))

LEMMA AllIdsAre == \A rows : AllIds(rows) = IdsUnion(ToSet(rows))
  BY DEF AllIds, IdsUnion

LEMMA OwnIds ==
    /\ \A r : r.id \in Ids(r)
    /\ \A rows : \A r \in ToSet(rows) : Ids(r) \subseteq AllIds(rows)
  BY DEF AllIds, Ids

LEMMA EmptyIsSound == Sound(<<>>) /\ ToSet(<<>>) = {} /\ AllIds(<<>>) = {}
<1>1. ToSet(<<>>) = {} /\ <<>> \in Seq(BuildRow) /\ NoRepeats(<<>>)
  BY DEF ToSet, NoRepeats
<1> QED BY <1>1 DEF Sound, IdsApart, AllIds

LEMMA OneIsSound ==
    ASSUME NEW r \in BuildRow, r.id \notin r.merged
    PROVE  Sound(<<r>>) /\ ToSet(<<r>>) = {r} /\ AllIds(<<r>>) = Ids(r)
<1>1. ToSet(<<r>>) = {r} /\ <<r>> \in Seq(BuildRow) /\ NoRepeats(<<r>>)
  BY DEF ToSet, NoRepeats
<1> QED BY <1>1 DEF Sound, IdsApart, AllIds

LEMMA RestIsSound ==
    ASSUME NEW rows, Sound(rows), NEW gone
    PROVE  /\ Sound(Without(rows, gone)) /\ ToSet(Without(rows, gone)) = ToSet(rows) \ gone
           /\ AllIds(rows) = AllIds(Without(rows, gone)) \cup IdsUnion(ToSet(rows) \cap gone)
           /\ AllIds(Without(rows, gone)) \cap IdsUnion(ToSet(rows) \cap gone) = {}
<1> DEFINE rest == Without(rows, gone)
<1>1. rest \in Seq(BuildRow) /\ ToSet(rest) = ToSet(rows) \ gone /\ NoRepeats(rest)
  BY WithoutIsTheRest DEF Sound
<1> HIDE DEF rest
<1>2. Sound(rest)
  BY <1>1 DEF Sound, IdsApart
<1>3. AllIds(rows) = AllIds(rest) \cup IdsUnion(ToSet(rows) \cap gone)
  BY <1>1 DEF AllIds, IdsUnion
<1>4. AllIds(rest) \cap IdsUnion(ToSet(rows) \cap gone) = {}
  BY <1>1 DEF AllIds, IdsUnion, Sound, IdsApart
<1> QED BY <1>1, <1>2, <1>3, <1>4 DEF rest

\* Rows apart, and what sets of them that do not meet stand for.
LEMMA UnionsApart ==
    ASSUME NEW T, IdsApart(T), NEW A \in SUBSET T, NEW B \in SUBSET T, A \cap B = {}
    PROVE  IdsUnion(A) \cap IdsUnion(B) = {}
  BY DEF IdsUnion, IdsApart

LEMMA JoinedIsSound ==
    ASSUME NEW a, NEW b, Sound(a), Sound(b), AllIds(a) \cap AllIds(b) = {}
    PROVE  Sound(a \o b) /\ AllIds(a \o b) = AllIds(a) \cup AllIds(b)
           /\ ToSet(a \o b) = ToSet(a) \cup ToSet(b)
<1>1. ToSet(a) \cap ToSet(b) = {}
  BY DEF AllIds, Ids
<1>2. /\ a \o b \in Seq(BuildRow) /\ ToSet(a \o b) = ToSet(a) \cup ToSet(b)
      /\ NoRepeats(a \o b)
  BY <1>1, JoinedMembers DEF Sound
<1>3. IdsApart(ToSet(a) \cup ToSet(b))
  BY DEF Sound, IdsApart, AllIds
<1> QED BY <1>2, <1>3 DEF Sound, AllIds

LEMMA FlatIsSound ==
    ASSUME NEW ss \in Seq(Seq(BuildRow)), \A i \in DOMAIN ss : Sound(ss[i]),
           \A i, k \in DOMAIN ss : i # k => AllIds(ss[i]) \cap AllIds(ss[k]) = {}
    PROVE  /\ Sound(FlattenSeq(ss))
           /\ ToSet(FlattenSeq(ss)) = UNION {ToSet(ss[i]) : i \in DOMAIN ss}
           /\ AllIds(FlattenSeq(ss)) = UNION {AllIds(ss[i]) : i \in DOMAIN ss}
<1> DEFINE flat == FlattenSeq(ss)
<1>1. ASSUME NEW i \in DOMAIN ss, NEW k \in DOMAIN ss, i # k
      PROVE  ToSet(ss[i]) \cap ToSet(ss[k]) = {}
  <2>1. AllIds(ss[i]) \cap AllIds(ss[k]) = {}
    BY <1>1
  <2>2. ASSUME NEW r \in ToSet(ss[i]), r \in ToSet(ss[k]) PROVE FALSE
    <3>1. r.id \in AllIds(ss[i]) /\ r.id \in AllIds(ss[k])
      BY <2>2, OwnIds
    <3> QED BY <2>1, <3>1
  <2> QED BY <2>2
<1>2. \A i \in DOMAIN ss : NoRepeats(ss[i]) /\ IdsApart(ToSet(ss[i]))
  BY DEF Sound
<1>3. flat \in Seq(BuildRow) /\ NoRepeats(flat)
      /\ ToSet(flat) = UNION {ToSet(ss[i]) : i \in DOMAIN ss}
  BY <1>1, <1>2, FlattenedMembers
<1> HIDE DEF flat
<1>4. IdsApart(ToSet(flat))
  <2>1. \A r \in ToSet(flat) : r.id \notin r.merged
    BY <1>2, <1>3 DEF IdsApart
  <2>2. ASSUME NEW r \in ToSet(flat), NEW q \in ToSet(flat), r # q
        PROVE  Ids(r) \cap Ids(q) = {}
    <3>1. PICK i \in DOMAIN ss, k \in DOMAIN ss : r \in ToSet(ss[i]) /\ q \in ToSet(ss[k])
      BY <1>3
    <3>2. CASE i = k
      BY <1>2, <2>2, <3>1, <3>2 DEF IdsApart
    <3>3. CASE i # k
      BY <3>1, <3>3 DEF AllIds
    <3> QED BY <3>2, <3>3
  <2> QED BY <2>1, <2>2 DEF IdsApart
<1>5. AllIds(flat) = UNION {AllIds(ss[i]) : i \in DOMAIN ss}
  BY <1>3 DEF AllIds
<1> QED BY <1>3, <1>4, <1>5 DEF Sound, flat

\* A list of rows one by one.
LEMMA ByIndex ==
    ASSUME NEW rows \in Seq(BuildRow), \A i \in DOMAIN rows : rows[i].id \notin rows[i].merged,
           \A i, k \in DOMAIN rows : i # k => Ids(rows[i]) \cap Ids(rows[k]) = {}
    PROVE  Sound(rows)
<1>1. NoRepeats(rows)
  BY DEF NoRepeats, Ids
<1>2. IdsApart(ToSet(rows))
  BY DEF IdsApart, ToSet
<1> QED BY <1>1, <1>2 DEF Sound

LEMMA SoundByIndex ==
    ASSUME NEW rows, Sound(rows)
    PROVE  /\ Len(rows) \in Nat /\ DOMAIN rows = 1 .. Len(rows)
           /\ \A i \in DOMAIN rows : /\ rows[i] \in BuildRow /\ rows[i] \in ToSet(rows)
                                     /\ rows[i].id \notin rows[i].merged
           /\ \A i, k \in DOMAIN rows : i # k => /\ Ids(rows[i]) \cap Ids(rows[k]) = {}
                                                 /\ rows[i] # rows[k]
                                                 /\ rows[i].id # rows[k].id
<1>1. /\ Len(rows) \in Nat /\ DOMAIN rows = 1 .. Len(rows)
      /\ \A i \in DOMAIN rows : rows[i] \in BuildRow /\ rows[i] \in ToSet(rows)
  BY DEF Sound, ToSet
<1>2. \A i, k \in DOMAIN rows : i # k => rows[i] # rows[k]
  BY DEF Sound, NoRepeats
<1>3. \A i, k \in DOMAIN rows : i # k => Ids(rows[i]) \cap Ids(rows[k]) = {}
  BY <1>1, <1>2 DEF Sound, IdsApart
<1>4. \A i, k \in DOMAIN rows : i # k => rows[i].id # rows[k].id
  BY <1>3 DEF Ids
<1> QED BY <1>1, <1>2, <1>3, <1>4 DEF Sound, IdsApart

LEMMA IdsAreOne ==
    ASSUME NEW rows, Sound(rows), NEW r \in ToSet(rows), NEW q \in ToSet(rows), r.id = q.id
    PROVE  r = q
  BY DEF Sound, IdsApart, Ids

\* The rows with ids of a set, and the others.
LEMMA AmongAre ==
    ASSUME NEW rows, Sound(rows), NEW ids
    PROVE  /\ Sound(Among(rows, ids)) /\ Sound(NotAmong(rows, ids))
           /\ ToSet(Among(rows, ids)) = {r \in ToSet(rows) : r.id \in ids}
           /\ ToSet(NotAmong(rows, ids)) = {r \in ToSet(rows) : r.id \notin ids}
<1>1. /\ Sound(NotAmong(rows, ids))
      /\ ToSet(NotAmong(rows, ids)) = ToSet(rows) \ {r \in ToSet(rows) : ~(r.id \notin ids)}
  BY RestIsSound DEF NotAmong, Those
<1>2. /\ Sound(Among(rows, ids))
      /\ ToSet(Among(rows, ids)) = ToSet(rows) \ {r \in ToSet(rows) : ~(r.id \in ids)}
  BY RestIsSound DEF Among, Those
<1> HIDE DEF Among, NotAmong
<1> QED BY <1>1, <1>2

-----------------------------------------------------------------------------
(***************************************************************************)
(* What is done to one row.                                                *)
(***************************************************************************)
\* Of a list's rows that pass a test, given by their places.
LEMMA FirstPlace ==
    ASSUME NEW rows \in Seq(BuildRow), NEW I \in SUBSET (1 .. Len(rows)), I # {}
    PROVE  rows[IF I # {} THEN Min(I) ELSE 0] \in BuildRow
<1>1. I \subseteq Nat
  BY Len(rows) \in Nat
<1>2. Min(I) \in 1 .. Len(rows)
  BY <1>1, FirstIsOne
<1> QED BY <1>2

LEMMA FillsKeep ==
    ASSUME NEW row \in BuildRow, NEW givers \in Seq(BuildRow)
    PROVE  /\ FillBlanks(row, givers) \in BuildRow
           /\ FillBlanks(row, givers).id = row.id
           /\ FillBlanks(row, givers).merged = row.merged
<1> DEFINE rows == <<row>> \o givers
           donor == FirstWith(rows, Judged)
           taken == IF ~Having(rows, Judged) THEN row
                    ELSE [row EXCEPT !.outcome = donor.outcome, !.quote = donor.quote]
           Evidence(r) == r.outcome = taken.outcome /\ r.quote # {}
           evident == FirstWith(rows, Evidence)
<1>1. rows \in Seq(BuildRow) /\ DOMAIN rows = 1 .. Len(rows)
  OBVIOUS
<1> HIDE DEF rows
<1>2. Having(rows, Judged) => donor \in BuildRow
  <2> SUFFICES ASSUME Having(rows, Judged) PROVE donor \in BuildRow
    OBVIOUS
  <2> DEFINE I == {i \in 1 .. Len(rows) : Judged(rows[i])}
  <2>1. I # {}
    BY <1>1 DEF Having, ToSet
  <2>2. donor = rows[IF I # {} THEN Min(I) ELSE 0]
    BY DEF FirstWith, SelectInSeq
  <2> HIDE DEF I, donor
  <2>3. I \in SUBSET (1 .. Len(rows))
    BY DEF I
  <2> QED BY <1>1, <2>1, <2>2, <2>3, FirstPlace
<1>3. taken \in BuildRow /\ taken.id = row.id /\ taken.merged = row.merged
  <2> HIDE DEF donor
  <2> QED BY <1>2 DEF BuildRow
<1> HIDE DEF taken
<1>4. Having(rows, Evidence) => evident \in BuildRow
  <2> SUFFICES ASSUME Having(rows, Evidence) PROVE evident \in BuildRow
    OBVIOUS
  <2> DEFINE I == {i \in 1 .. Len(rows) : Evidence(rows[i])}
  <2>1. I # {}
    BY <1>1 DEF Having, ToSet
  <2>2. evident = rows[IF I # {} THEN Min(I) ELSE 0]
    BY DEF FirstWith, SelectInSeq
  <2> HIDE DEF I, evident
  <2>3. I \in SUBSET (1 .. Len(rows))
    BY DEF I
  <2> QED BY <1>1, <2>1, <2>2, <2>3, FirstPlace
<1>5. FillBlanks(row, givers) = IF Judged(taken) /\ taken.quote = {} /\ Having(rows, Evidence)
                                THEN [taken EXCEPT !.quote = evident.quote] ELSE taken
  BY DEF FillBlanks, rows, taken
<1> HIDE DEF evident
<1>6. CASE Judged(taken) /\ taken.quote = {} /\ Having(rows, Evidence)
  BY <1>3, <1>4, <1>5, <1>6 DEF BuildRow
<1>7. CASE ~(Judged(taken) /\ taken.quote = {} /\ Having(rows, Evidence))
  BY <1>3, <1>5, <1>7
<1> QED BY <1>6, <1>7

LEMMA HandFillsKeep ==
    ASSUME NEW row \in BuildRow, NEW givers
    PROVE  /\ FillBlanksByHand(row, givers).id = row.id
           /\ FillBlanksByHand(row, givers).merged = row.merged
           /\ DOMAIN FillBlanksByHand(row, givers) = Fields
<1> DEFINE rows == <<row>> \o givers
           donor == FirstWith(rows, Judged)
           taken == IF ~Having(rows, Judged) THEN row
                    ELSE [row EXCEPT !.outcome = donor.outcome, !.quote = donor.quote]
           Evidence(r) == r.outcome = taken.outcome /\ r.quote # {}
           evident == FirstWith(rows, Evidence)
           filled == FillBlanks(row, givers)
<1>1. filled = IF Judged(taken) /\ taken.quote = {} /\ Having(rows, Evidence)
               THEN [taken EXCEPT !.quote = evident.quote] ELSE taken
  BY DEF FillBlanks
<1> HIDE DEF evident, donor, rows
<1>2. taken.id = row.id /\ taken.merged = row.merged /\ DOMAIN taken = Fields
  BY DEF BuildRow, Fields
<1> HIDE DEF taken
<1>3. filled.id = row.id /\ filled.merged = row.merged /\ DOMAIN filled = Fields
  <2>1. CASE filled = taken
    BY <1>2, <2>1
  <2>2. CASE filled = [taken EXCEPT !.quote = evident.quote]
    BY <1>2, <2>2 DEF Fields
  <2> QED BY <1>1, <2>1, <2>2
<1>4. row.id = row.id /\ DOMAIN row = Fields
  BY DEF BuildRow, Fields
<1>5. FillBlanksByHand(row, givers) \in {row, filled}
  BY DEF FillBlanksByHand
<1> HIDE DEF filled
<1> QED BY <1>3, <1>4, <1>5

LEMMA OverrideKeeps ==
    ASSUME NEW row \in BuildRow, NEW rows \in Seq(BuildRow)
    PROVE  /\ Override(row, rows) \in BuildRow
           /\ Override(row, rows).id = row.id /\ Override(row, rows).merged = row.merged
<1> DEFINE Website(r) == r.source = "website"
           Speaks(r) == Website(r) /\ Judged(r)
           best == IF Having(rows, Speaks) THEN FirstWith(rows, Speaks)
                   ELSE FirstWith(rows, Website)
           credited == [row EXCEPT !.source = "website"]
<1>1. DOMAIN rows = 1 .. Len(rows)
  OBVIOUS
<1>2. CASE ~Having(rows, Website)
  BY <1>2 DEF Override
<1>3. CASE Having(rows, Website)
  <2>1. best \in BuildRow
    <3>1. CASE Having(rows, Speaks)
      <4> DEFINE I == {i \in 1 .. Len(rows) : Speaks(rows[i])}
      <4>1. I # {}
        BY <1>1, <3>1 DEF Having, ToSet
      <4>2. best = rows[IF I # {} THEN Min(I) ELSE 0]
        BY <3>1 DEF FirstWith, SelectInSeq
      <4> HIDE DEF I, best
      <4>3. I \in SUBSET (1 .. Len(rows))
        BY DEF I
      <4> QED BY <1>1, <4>1, <4>2, <4>3, FirstPlace
    <3>2. CASE ~Having(rows, Speaks)
      <4> DEFINE I == {i \in 1 .. Len(rows) : Website(rows[i])}
      <4>1. I # {}
        BY <1>1, <1>3 DEF Having, ToSet
      <4>2. best = rows[IF I # {} THEN Min(I) ELSE 0]
        BY <3>2 DEF FirstWith, SelectInSeq
      <4> HIDE DEF I, best
      <4>3. I \in SUBSET (1 .. Len(rows))
        BY DEF I
      <4> QED BY <1>1, <4>1, <4>2, <4>3, FirstPlace
    <3> QED BY <3>1, <3>2
  <2>2. credited \in BuildRow /\ credited.id = row.id /\ credited.merged = row.merged
    <3>1. "website" \in RowSources
      BY BuildAssumption
    <3> QED BY <3>1 DEF BuildRow
  <2>3. Override(row, rows) =
           IF ~Judged(best) THEN credited
           ELSE [credited EXCEPT !.outcome = best.outcome,
                                 !.quote = IF Cardinality(OutcomesOf(rows)) > 1 /\ best.quote # {}
                                           THEN best.quote ELSE credited.quote]
    BY <1>3 DEF Override
  <2> HIDE DEF best, credited
  <2>4. CASE ~Judged(best)
    BY <2>2, <2>3, <2>4
  <2>5. CASE Judged(best)
    <3> DEFINE quote == IF Cardinality(OutcomesOf(rows)) > 1 /\ best.quote # {}
                        THEN best.quote ELSE credited.quote
    <3>1. quote \in SUBSET Nat
      BY <2>1, <2>2 DEF BuildRow
    <3>2. Override(row, rows) = [credited EXCEPT !.outcome = best.outcome, !.quote = quote]
      BY <2>3, <2>5
    <3> HIDE DEF quote
    <3> QED BY <2>1, <2>2, <3>1, <3>2 DEF BuildRow
  <2> QED BY <2>4, <2>5
<1> QED BY <1>2, <1>3

-----------------------------------------------------------------------------
(***************************************************************************)
(* The exact keys.                                                         *)
(***************************************************************************)
\* A row takes over those dropped into it, whatever it fills in from them.
LEMMA CollapsedIsOne ==
    ASSUME NEW kept \in BuildRow, NEW dropped \in Seq(BuildRow), NEW yields
    PROVE  \E row \in BuildRow : /\ Collapsed(kept, dropped, yields).rows = <<row>>
                                 /\ row.id = kept.id
                                 /\ row.merged = kept.merged \cup AllIds(dropped)
<1> DEFINE hand == IF kept.id \in yields THEN <<>> ELSE Among(dropped, yields)
           givers == NotAmong(dropped, {r.id : r \in ToSet(hand)})
           rows == <<kept>> \o givers
           judged == IF NotAmong(rows, yields) # <<>> THEN NotAmong(rows, yields) ELSE rows
           clashes == Cardinality(OutcomesOf(judged)) > 1
           before == Having(judged, LAMBDA r : r.clash)
           row == Override(FillBlanks(kept, givers), judged)
           clash == IF clashes \/ (before /\ ~WebsiteJudged(judged))
                    THEN ~WebsiteJudged(judged) ELSE row.clash
           registered == \E r \in ToSet(<<kept>> \o dropped) : r.registered
           merged == row.merged \cup UNION {Handed(r) : r \in ToSet(dropped)}
           made == [row EXCEPT !.clash = clash, !.registered = registered, !.merged = merged]
<1>1. Collapsed(kept, dropped, yields).rows = <<made>>
  BY DEF Collapsed
<1>2. givers \in Seq(BuildRow)
  BY WithoutIsTheRest DEF NotAmong, Those
<1> HIDE DEF givers
<1>3. rows \in Seq(BuildRow)
  BY <1>2
<1> HIDE DEF rows
<1>4. judged \in Seq(BuildRow)
  BY <1>3, WithoutIsTheRest DEF NotAmong, Those
<1> HIDE DEF judged
<1>5. row \in BuildRow /\ row.id = kept.id /\ row.merged = kept.merged
  BY <1>2, <1>4, FillsKeep, OverrideKeeps
<1>6. clash \in BOOLEAN
  <2> HIDE DEF row, before, clashes
  <2> QED BY <1>5 DEF WebsiteJudged, Having, BuildRow
<1>7. registered \in BOOLEAN
  OBVIOUS
<1>8. merged = kept.merged \cup AllIds(dropped)
  BY <1>5 DEF Handed, AllIds
<1>9. AllIds(dropped) \in SUBSET (Nat \ {0})
  <2>1. \A r \in ToSet(dropped) : r \in BuildRow
    BY DEF ToSet
  <2> QED BY <2>1 DEF AllIds, Ids, BuildRow
<1>10. merged \in SUBSET (Nat \ {0})
  BY <1>8, <1>9 DEF BuildRow
<1> HIDE DEF row, clash, registered, merged
<1>11. made \in BuildRow /\ made.id = row.id /\ made.merged = merged
  BY <1>5, <1>6, <1>7, <1>10 DEF BuildRow
<1> HIDE DEF made
<1> QED BY <1>1, <1>5, <1>8, <1>11

\* A frame is its rows, the fills noted, and what was dropped.
IsFrame(f) == f = [rows |-> f.rows, fills |-> f.fills, retired |-> f.retired]

\* The rows of a key go into the first of it, which is its own.
LEMMA CollapsedIsSound ==
    ASSUME NEW f, IsFrame(f), NEW rows, Sound(rows), NEW yields
    PROVE  /\ IsFrame(CollapsedInto(f, rows, yields))
           /\ Sound(CollapsedInto(f, rows, yields).rows)
           /\ AllIds(CollapsedInto(f, rows, yields).rows) = AllIds(rows)
           /\ CollapsedInto(f, rows, yields).retired = f.retired
<1> DEFINE IsFirst(i) == \A k \in 1..(i - 1) : MergeKey(rows[k]) # MergeKey(rows[i])
           drops == {rows[i].id : i \in {i \in DOMAIN rows : ~IsFirst(i) /\ ~rows[i].distinct}}
           DroppedInto(i) == Among(SameMergeKey(rows, rows[i]), drops)
           Turned(i) ==
              IF rows[i].id \in drops THEN [rows |-> <<>>, fills |-> <<>>]
              ELSE IF ~IsFirst(i) THEN [rows |-> <<rows[i]>>, fills |-> <<>>]
              ELSE Collapsed(rows[i], DroppedInto(i), yields)
           ss == [i \in DOMAIN rows |-> Turned(i).rows]
           g == CollapsedInto(f, rows, yields)
           Gone(i) == ~IsFirst(i) /\ ~rows[i].distinct
           Taken(i) == {rows[k] : k \in {k \in DOMAIN rows :
                                            Gone(k) /\ MergeKey(rows[k]) = MergeKey(rows[i])}}
           Part(i) == IF Gone(i) THEN {} ELSE IF ~IsFirst(i) THEN {rows[i]}
                      ELSE {rows[i]} \cup Taken(i)
<1>1. /\ g.rows = FlattenSeq(ss) /\ g.retired = f.retired /\ IsFrame(g)
  <2> DEFINE fills == f.fills \o FlattenSeq([i \in DOMAIN rows |-> Turned(i).fills])
             list == FlattenSeq(ss)
  <2>1. g = [f EXCEPT !.rows = list, !.fills = fills]
    BY DEF CollapsedInto
  <2> HIDE DEF list, fills, g
  <2>2. g = [rows |-> list, fills |-> fills, retired |-> f.retired]
    BY <2>1 DEF IsFrame
  <2>3. /\ g.rows = list /\ g.retired = f.retired /\ IsFrame(g)
    BY <2>2 DEF IsFrame
  <2> QED BY <2>3 DEF list
<1> HIDE DEF g
<1>2. /\ DOMAIN rows = 1 .. Len(rows) /\ Len(rows) \in Nat /\ rows \in Seq(BuildRow)
      /\ \A i \in DOMAIN rows : rows[i] \in BuildRow /\ rows[i] \in ToSet(rows)
      /\ \A i, k \in DOMAIN rows : i # k => rows[i].id # rows[k].id /\ rows[i] # rows[k]
  BY SoundByIndex DEF Sound
<1>3. \A i \in DOMAIN rows : rows[i].id \in drops <=> Gone(i)
  BY <1>2
<1>4. ASSUME NEW i \in DOMAIN rows
      PROVE  /\ DroppedInto(i) \in Seq(BuildRow) /\ ToSet(DroppedInto(i)) = Taken(i)
             /\ Taken(i) \subseteq ToSet(rows)
  <2> DEFINE same == SameMergeKey(rows, rows[i])
  <2>1. /\ same \in Seq(BuildRow)
        /\ ToSet(same) = {r \in ToSet(rows) : MergeKey(r) = MergeKey(rows[i])}
    BY <1>2, WithoutIsTheRest DEF SameMergeKey, Those
  <2> HIDE DEF same
  <2>2. /\ Among(same, drops) \in Seq(BuildRow)
        /\ ToSet(Among(same, drops)) = {r \in ToSet(same) : r.id \in drops}
    BY <2>1, WithoutIsTheRest DEF Among, Those
  <2>3. Taken(i) = {r \in ToSet(rows) : MergeKey(r) = MergeKey(rows[i]) /\ r.id \in drops}
    <3> HIDE DEF drops, IsFirst
    <3> QED BY <1>2, <1>3 DEF ToSet
  <2> HIDE DEF Taken
  <2>4. {r \in ToSet(same) : r.id \in drops} =
           {r \in ToSet(rows) : MergeKey(r) = MergeKey(rows[i]) /\ r.id \in drops}
    BY <2>1
  <2> QED BY <2>2, <2>3, <2>4 DEF same
<1> HIDE DEF DroppedInto
<1>5. ASSUME NEW i \in DOMAIN rows
      PROVE  Sound(ss[i]) /\ AllIds(ss[i]) = IdsUnion(Part(i)) /\ Part(i) \subseteq ToSet(rows)
  <2>1. ss[i] = Turned(i).rows
    BY <1>5
  <2>2. CASE Gone(i)
    <3>1. ss[i] = <<>>
      BY <1>3, <1>5, <2>1, <2>2
    <3>2. Part(i) = {}
      BY <2>2
    <3> QED BY <3>1, <3>2, EmptyIsSound DEF IdsUnion
  <2>3. CASE ~Gone(i) /\ ~IsFirst(i)
    <3>1. ss[i] = <<rows[i]>>
      BY <1>3, <1>5, <2>1, <2>3
    <3>2. Part(i) = {rows[i]}
      BY <2>3
    <3>3. rows[i] \in BuildRow /\ rows[i].id \notin rows[i].merged /\ rows[i] \in ToSet(rows)
      BY <1>5, SoundByIndex
    <3>4. Sound(<<rows[i]>>) /\ AllIds(<<rows[i]>>) = Ids(rows[i])
      BY <3>3, OneIsSound
    <3> QED BY <3>1, <3>2, <3>3, <3>4 DEF IdsUnion
  <2>4. CASE ~Gone(i) /\ IsFirst(i)
    <3>1. ss[i] = Collapsed(rows[i], DroppedInto(i), yields).rows
      BY <1>3, <1>5, <2>1, <2>4
    <3>2. PICK row \in BuildRow : /\ ss[i] = <<row>> /\ row.id = rows[i].id
                                  /\ row.merged = rows[i].merged \cup AllIds(DroppedInto(i))
      <4>1. rows[i] \in BuildRow /\ DroppedInto(i) \in Seq(BuildRow)
        BY <1>2, <1>4
      <4> HIDE DEF ss, Turned, Taken, Part
      <4>2. \E row \in BuildRow : /\ Collapsed(rows[i], DroppedInto(i), yields).rows = <<row>>
                                  /\ row.id = rows[i].id
                                  /\ row.merged = rows[i].merged \cup AllIds(DroppedInto(i))
        BY <4>1, CollapsedIsOne
      <4> QED BY <3>1, <4>2
    <3>3. Part(i) = {rows[i]} \cup Taken(i)
      BY <2>4
    <3>4. Taken(i) \in SUBSET ToSet(rows) /\ {rows[i]} \in SUBSET ToSet(rows)
          /\ rows[i] \notin Taken(i)
      BY <1>2, <1>4, <2>4
    <3> HIDE DEF ss, Taken, Part, Turned
    <3>5. AllIds(DroppedInto(i)) = IdsUnion(Taken(i))
      BY <1>4, AllIdsAre
    <3>6. IdsUnion({rows[i]}) \cap IdsUnion(Taken(i)) = {}
      BY <3>4, UnionsApart DEF Sound
    <3>7. IdsUnion({rows[i]}) = Ids(rows[i])
      BY DEF IdsUnion
    <3>8. row.id \notin row.merged
      <4>1. rows[i].id \notin rows[i].merged
        BY <1>5, SoundByIndex
      <4>2. rows[i].id \in Ids(rows[i])
        BY OwnIds
      <4>3. rows[i].id \notin IdsUnion(Taken(i))
        BY <3>6, <3>7, <4>2
      <4> QED BY <3>2, <3>5, <4>1, <4>3
    <3>9. Ids(row) = Ids(rows[i]) \cup IdsUnion(Taken(i))
      BY <3>2, <3>5 DEF Ids
    <3>10. Sound(<<row>>) /\ AllIds(<<row>>) = Ids(row)
      BY <3>2, <3>8, OneIsSound
    <3>11. IdsUnion(Part(i)) = Ids(rows[i]) \cup IdsUnion(Taken(i))
      BY <3>3 DEF IdsUnion
    <3> QED BY <3>2, <3>3, <3>4, <3>9, <3>10, <3>11
  <2> QED BY <2>2, <2>3, <2>4
<1>6. ASSUME NEW i \in DOMAIN rows, NEW k \in DOMAIN rows, i # k
      PROVE  Part(i) \cap Part(k) = {}
  <2>1. rows[i] # rows[k]
    BY <1>2, <1>6
  <2>2. \A n \in DOMAIN rows : ~Gone(n) => rows[n] \notin Taken(i) /\ rows[n] \notin Taken(k)
    BY <1>2
  <2>3. ASSUME IsFirst(i), IsFirst(k) PROVE MergeKey(rows[i]) # MergeKey(rows[k])
    <3>1. i < k \/ k < i
      BY <1>2, <1>6
    <3>2. i \in 1 .. k - 1 \/ k \in 1 .. i - 1
      BY <1>2, <3>1
    <3> QED BY <2>3, <3>2
  <2>4. ASSUME IsFirst(i), IsFirst(k) PROVE Taken(i) \cap Taken(k) = {}
    BY <2>3, <2>4
  <2> HIDE DEF Taken, IsFirst
  <2> QED BY <2>1, <2>2, <2>4
<1>7. ASSUME NEW r \in ToSet(rows) PROVE \E i \in DOMAIN rows : r \in Part(i)
  <2>1. PICK i \in DOMAIN rows : r = rows[i]
    BY DEF ToSet
  <2>2. CASE ~Gone(i)
    <3>1. r \in Part(i)
      BY <2>1, <2>2
    <3> QED BY <3>1
  <2>3. CASE Gone(i)
    <3> DEFINE alike == {k \in DOMAIN rows : MergeKey(rows[k]) = MergeKey(rows[i])}
    <3>1. alike \subseteq Nat /\ i \in alike
      BY <1>2
    <3>2. PICK k \in alike : \A n \in alike : k <= n
      BY <3>1, SmallestMember
    <3>3. IsFirst(k)
      <4> SUFFICES ASSUME NEW n \in 1 .. k - 1, MergeKey(rows[n]) = MergeKey(rows[k])
                   PROVE  FALSE
        OBVIOUS
      <4>1. k \in 1 .. Len(rows) /\ MergeKey(rows[k]) = MergeKey(rows[i])
        BY <1>2
      <4>2. n \in 1 .. Len(rows) /\ n < k
        BY <1>2, <4>1
      <4>3. n \in alike
        BY <1>2, <4>1, <4>2
      <4> QED BY <1>2, <3>2, <4>1, <4>2, <4>3
    <3>4. k \in DOMAIN rows /\ MergeKey(rows[i]) = MergeKey(rows[k])
      BY <3>2
    <3>5. r \in Taken(k)
      BY <2>1, <2>3, <3>4
    <3>6. r \in Part(k)
      BY <3>3, <3>5
    <3> QED BY <3>4, <3>6
  <2> QED BY <2>2, <2>3
<1> HIDE DEF Part, Taken, Gone, IsFirst, drops, Turned
<1>8. ss \in Seq(Seq(BuildRow)) /\ DOMAIN ss = DOMAIN rows
  <2>1. \A i \in DOMAIN rows : ss[i] \in Seq(BuildRow)
    BY <1>5 DEF Sound
  <2>2. DOMAIN ss = 1 .. Len(rows) /\ ss = [i \in 1 .. Len(rows) |-> ss[i]]
    BY <1>2
  <2> HIDE DEF ss
  <2> QED BY <1>2, <2>1, <2>2
<1> HIDE DEF ss
<1>9. \A i, k \in DOMAIN ss : i # k => AllIds(ss[i]) \cap AllIds(ss[k]) = {}
  <2> SUFFICES ASSUME NEW i \in DOMAIN ss, NEW k \in DOMAIN ss, i # k
               PROVE  AllIds(ss[i]) \cap AllIds(ss[k]) = {}
    OBVIOUS
  <2>1. /\ AllIds(ss[i]) = IdsUnion(Part(i)) /\ Part(i) \in SUBSET ToSet(rows)
        /\ AllIds(ss[k]) = IdsUnion(Part(k)) /\ Part(k) \in SUBSET ToSet(rows)
    BY <1>5, <1>8
  <2>2. Part(i) \cap Part(k) = {}
    BY <1>6, <1>8
  <2> QED BY <2>1, <2>2, UnionsApart DEF Sound
<1>10. /\ Sound(FlattenSeq(ss))
       /\ AllIds(FlattenSeq(ss)) = UNION {AllIds(ss[i]) : i \in DOMAIN ss}
  BY <1>5, <1>8, <1>9, FlatIsSound
<1>11. UNION {AllIds(ss[i]) : i \in DOMAIN ss} = AllIds(rows)
  <2>1. \A i \in DOMAIN rows : AllIds(ss[i]) = IdsUnion(Part(i)) /\ Part(i) \subseteq ToSet(rows)
    BY <1>5
  <2>2. AllIds(rows) = IdsUnion(ToSet(rows))
    BY AllIdsAre
  <2>3. UNION {IdsUnion(Part(i)) : i \in DOMAIN rows} = IdsUnion(ToSet(rows))
    BY <1>7, <2>1 DEF IdsUnion
  <2> QED BY <1>8, <2>1, <2>2, <2>3
<1> QED BY <1>1, <1>10, <1>11 DEF g

-----------------------------------------------------------------------------
LEMMA CollapseKeysIsSound ==
    ASSUME NEW f, IsFrame(f), Sound(f.rows)
    PROVE  /\ IsFrame(CollapseKeys(f)) /\ Sound(CollapseKeys(f).rows)
           /\ AllIds(CollapseKeys(f).rows) = AllIds(f.rows)
           /\ CollapseKeys(f).retired = f.retired
<1> DEFINE yields == UNION {YieldingIds(SameMergeKey(f.rows, r)) : r \in ToSet(f.rows)}
           ahead == NotAmong(f.rows, yields)
           last == Among(f.rows, yields)
<1>1. CollapseKeys(f) = CollapsedInto(f, ahead \o last, yields)
  BY DEF CollapseKeys
<1> HIDE DEF yields
<1>2. Sound(ahead) /\ ToSet(ahead) = {r \in ToSet(f.rows) : r.id \notin yields}
  BY AmongAre
<1>3. Sound(last) /\ ToSet(last) = {r \in ToSet(f.rows) : r.id \in yields}
  BY AmongAre
<1> HIDE DEF ahead, last
<1>4. ToSet(ahead) \cap ToSet(last) = {} /\ ToSet(ahead) \cup ToSet(last) = ToSet(f.rows)
  BY <1>2, <1>3
<1>5. AllIds(ahead) \cap AllIds(last) = {}
  <2>1. ToSet(ahead) \in SUBSET ToSet(f.rows) /\ ToSet(last) \in SUBSET ToSet(f.rows)
    BY <1>4
  <2> QED BY <1>4, <2>1, UnionsApart, AllIdsAre DEF Sound
<1>6. Sound(ahead \o last) /\ ToSet(ahead \o last) = ToSet(f.rows)
  BY <1>2, <1>3, <1>4, <1>5, JoinedIsSound
<1>7. AllIds(ahead \o last) = AllIds(f.rows)
  BY <1>6, AllIdsAre
<1> QED BY <1>1, <1>6, <1>7, CollapsedIsSound

-----------------------------------------------------------------------------
(***************************************************************************)
(* The pair merge.                                                         *)
(***************************************************************************)
LEMMA YieldingAreRows == \A rows : YieldingIds(rows) \subseteq {r.id : r \in ToSet(rows)}
  BY DEF YieldingIds

LEMMA FirstOfRows ==
    ASSUME NEW rows \in Seq(BuildRow), rows # <<>>
    PROVE  Head(rows) \in BuildRow /\ Head(rows) \in ToSet(rows) /\ Head(rows) = rows[1]
           /\ 1 \in DOMAIN rows
  BY DEF ToSet

\* The rows with a judgement, the website's, those of them with one, and the rows with
\* a link.
JudgedOf(rows) == {r \in ToSet(rows) : Judged(r)}
OfWebsite(rows) == {r \in ToSet(rows) : r.source = "website"}
Speaking(rows) == {r \in ToSet(rows) : r.source = "website" /\ Judged(r)}
HavingLink(rows) == {r \in ToSet(rows) : r.url # Blank}

LEMMA FirstsAre ==
    ASSUME NEW rows \in Seq(BuildRow)
    PROVE  /\ FirstWith(rows, Judged) = FirstIn(rows, JudgedOf(rows))
           /\ FirstWith(rows, LAMBDA r : r.source = "website") = FirstIn(rows, OfWebsite(rows))
           /\ FirstWith(rows, LAMBDA r : r.source = "website" /\ Judged(r))
                 = FirstIn(rows, Speaking(rows))
           /\ FirstWith(rows, LAMBDA r : r.url # Blank) = FirstIn(rows, HavingLink(rows))
<1>1. DOMAIN rows = 1 .. Len(rows) /\ \A i \in 1 .. Len(rows) : rows[i] \in ToSet(rows)
  BY DEF ToSet
<1>2. {i \in 1 .. Len(rows) : Judged(rows[i])} = PlacesIn(rows, JudgedOf(rows))
  BY <1>1 DEF PlacesIn, JudgedOf
<1>3. {i \in 1 .. Len(rows) : rows[i].source = "website"} = PlacesIn(rows, OfWebsite(rows))
  BY <1>1 DEF PlacesIn, OfWebsite
<1>4. {i \in 1 .. Len(rows) : rows[i].source = "website" /\ Judged(rows[i])}
         = PlacesIn(rows, Speaking(rows))
  BY <1>1 DEF PlacesIn, Speaking
<1>5. {i \in 1 .. Len(rows) : rows[i].url # Blank} = PlacesIn(rows, HavingLink(rows))
  BY <1>1 DEF PlacesIn, HavingLink
<1>6. FirstWith(rows, Judged) = FirstIn(rows, JudgedOf(rows))
  BY <1>2 DEF FirstWith, SelectInSeq, FirstIn
<1>7. FirstWith(rows, LAMBDA r : r.source = "website") = FirstIn(rows, OfWebsite(rows))
  BY <1>3 DEF FirstWith, SelectInSeq, FirstIn
<1>8. FirstWith(rows, LAMBDA r : r.source = "website" /\ Judged(r))
         = FirstIn(rows, Speaking(rows))
  BY <1>4 DEF FirstWith, SelectInSeq, FirstIn
<1>9. FirstWith(rows, LAMBDA r : r.url # Blank) = FirstIn(rows, HavingLink(rows))
  BY <1>5 DEF FirstWith, SelectInSeq, FirstIn
<1> QED BY <1>6, <1>7, <1>8, <1>9

MergedRow(rows) ==
    [Head(rows) EXCEPT
       !.url = IF UrlsOf(rows) = {} THEN Blank ELSE FirstIn(rows, HavingLink(rows)).url,
       !.outcome = PickOutcome(rows),
       !.quote = UNION {r.quote : r \in ToSet(rows)},
       !.registered = \E r \in ToSet(rows) : r.registered,
       !.merged = AllIds(rows) \ {Head(rows).id},
       !.clash = IF Cardinality(OutcomesOf(rows)) > 1
                 THEN ~(WebsiteJudged(rows) \/ OutcomesOf(rows) \subseteq Mixable)
                 ELSE \E r \in ToSet(rows) : r.clash]

LEMMA MergeGroupIs ==
    ASSUME NEW rows, Sound(rows), rows # <<>>
    PROVE  /\ MergeGroup(rows) = Override(MergedRow(rows), rows)
           /\ MergedRow(rows) \in BuildRow
           /\ MergedRow(rows).source = Head(rows).source
           /\ MergedRow(rows).registered = (\E r \in ToSet(rows) : r.registered)
<1> DEFINE HasLink(r) == r.url # Blank
<1>1. /\ rows \in Seq(BuildRow) /\ DOMAIN rows = 1 .. Len(rows)
      /\ \A r \in ToSet(rows) : r \in BuildRow
  BY DEF Sound, ToSet
<1>2. FirstWith(rows, HasLink) = FirstIn(rows, HavingLink(rows))
      /\ FirstWith(rows, Judged) = FirstIn(rows, JudgedOf(rows))
  BY <1>1, FirstsAre
<1>3. MergeGroup(rows) = Override(MergedRow(rows), rows)
  BY <1>2 DEF MergeGroup, MergedRow
<1> DEFINE url == IF UrlsOf(rows) = {} THEN Blank ELSE FirstIn(rows, HavingLink(rows)).url
           outcome == PickOutcome(rows)
           quote == UNION {r.quote : r \in ToSet(rows)}
           registered == \E r \in ToSet(rows) : r.registered
           merged == AllIds(rows) \ {Head(rows).id}
           clash == IF Cardinality(OutcomesOf(rows)) > 1
                    THEN ~(WebsiteJudged(rows) \/ OutcomesOf(rows) \subseteq Mixable)
                    ELSE \E r \in ToSet(rows) : r.clash
<1>4. url \in RowLinks
  <2>1. CASE UrlsOf(rows) = {}
    BY <2>1, BuildAssumption
  <2>2. CASE UrlsOf(rows) # {}
    <3>1. ToSet(rows) \cap HavingLink(rows) # {}
      BY <2>2 DEF UrlsOf, HavingLink
    <3>2. FirstIn(rows, HavingLink(rows)) \in BuildRow
      BY <1>1, <3>1, FirstInIs
    <3> QED BY <2>2, <3>2 DEF BuildRow
  <2> QED BY <2>1, <2>2
<1>5. outcome \in RowOutcomes
  <2>1. outcome \in {Blank, "mixed"} \/ (OutcomesOf(rows) # {}
           /\ outcome = FirstIn(rows, JudgedOf(rows)).outcome)
    BY <1>2 DEF PickOutcome
  <2>2. CASE outcome \in {Blank, "mixed"}
    <3>1. "mixed" \in Mixable
      BY DEF Mixable
    <3> QED BY <2>2, <3>1, BuildAssumption
  <2>3. CASE OutcomesOf(rows) # {} /\ outcome = FirstIn(rows, JudgedOf(rows)).outcome
    <3>1. ToSet(rows) \cap JudgedOf(rows) # {}
      BY <2>3 DEF OutcomesOf, JudgedOf, Judged
    <3>2. FirstIn(rows, JudgedOf(rows)) \in BuildRow
      BY <1>1, <3>1, FirstInIs
    <3> QED BY <2>3, <3>2 DEF BuildRow
  <2> QED BY <2>1, <2>2, <2>3
<1>6. quote \in SUBSET Nat /\ merged \in SUBSET (Nat \ {0})
  BY <1>1 DEF AllIds, Ids, BuildRow
<1>7. registered \in BOOLEAN /\ clash \in BOOLEAN
  BY DEF WebsiteJudged, Having
<1>8. Head(rows) \in BuildRow
  BY <1>1, FirstOfRows
<1>9. MergedRow(rows) = [Head(rows) EXCEPT !.url = url, !.outcome = outcome, !.quote = quote,
                            !.registered = registered, !.merged = merged, !.clash = clash]
  BY DEF MergedRow
<1> HIDE DEF url, outcome, quote, registered, merged, clash
<1>10. /\ MergedRow(rows) \in BuildRow /\ MergedRow(rows).source = Head(rows).source
       /\ MergedRow(rows).registered = registered
  BY <1>4, <1>5, <1>6, <1>7, <1>8, <1>9 DEF BuildRow
<1> QED BY <1>3, <1>10 DEF registered

LEMMA GroupIsMerged ==
    ASSUME NEW rows, Sound(rows), rows # <<>>
    PROVE  /\ MergeGroup(rows) \in BuildRow /\ MergeGroup(rows).id = Head(rows).id
           /\ MergeGroup(rows).merged = AllIds(rows) \ {Head(rows).id}
<1>1. /\ MergedRow(rows) \in BuildRow /\ rows \in Seq(BuildRow)
      /\ MergeGroup(rows) = Override(MergedRow(rows), rows)
  BY MergeGroupIs DEF Sound
<1>2. Head(rows) \in BuildRow
  BY <1>1, FirstOfRows
<1>3. /\ MergedRow(rows).id = Head(rows).id
      /\ MergedRow(rows).merged = AllIds(rows) \ {Head(rows).id}
  BY <1>2 DEF MergedRow, BuildRow
<1> QED BY <1>1, <1>3, OverrideKeeps

LEMMA AbsorbedIsSound ==
    ASSUME NEW row \in BuildRow, row.id \notin row.merged, NEW joined, Sound(joined),
           Ids(row) \cap AllIds(joined) = {}
    PROVE  /\ Absorb(row, joined) \in BuildRow /\ Absorb(row, joined).id = row.id
           /\ Absorb(row, joined).id \notin Absorb(row, joined).merged
           /\ Ids(Absorb(row, joined)) = Ids(row) \cup AllIds(joined)
<1>1. AllIds(joined) \in SUBSET (Nat \ {0})
  <2>1. \A r \in ToSet(joined) : r \in BuildRow
    BY DEF Sound, ToSet
  <2> QED BY <2>1 DEF AllIds, Ids, BuildRow
<1>2. /\ Absorb(row, joined) \in BuildRow /\ Absorb(row, joined).id = row.id
      /\ Absorb(row, joined).merged = row.merged \cup AllIds(joined)
  BY <1>1 DEF Absorb, BuildRow
<1> HIDE DEF Absorb
<1>3. row.id \in Ids(row)
  BY OwnIds
<1> QED BY <1>2, <1>3 DEF Ids

LEMMA JoiningAre ==
    ASSUME NEW hand, Sound(hand), NEW links
    PROVE  /\ Sound(Joining(hand, links))
           /\ ToSet(Joining(hand, links)) \subseteq ToSet(hand)
<1> DEFINE HasLink(r) == r.url # Blank
           link == IF links # {} THEN CHOOSE u \in links : TRUE
                   ELSE IF Having(hand, HasLink) THEN FirstWith(hand, HasLink).url ELSE Blank
           apart == {r \in ToSet(hand) : ~(r.url \in {Blank, link})}
<1>1. Joining(hand, links) = Without(hand, apart)
  BY DEF Joining, Those
<1> HIDE DEF apart
<1>2. Sound(Without(hand, apart)) /\ ToSet(Without(hand, apart)) = ToSet(hand) \ apart
  BY RestIsSound
<1> QED BY <1>1, <1>2

\* A group comes out of the merge with the ids it went in with.
GroupIs(rows, g) ==
    /\ Sound(g.kept) /\ Sound(g.made)
    /\ AllIds(g.kept) \cap AllIds(g.made) = {}
    /\ AllIds(g.kept) \cup AllIds(g.made) = AllIds(rows)
    /\ \A q \in ToSet(g.kept) : \E r \in ToSet(rows) : r.id = q.id

LEMMA GroupKeepsIds ==
    ASSUME NEW rows, Sound(rows), NEW yields, yields \subseteq {r.id : r \in ToSet(rows)}
    PROVE  GroupIs(rows, GroupMerged(rows, yields))
<1> DEFINE mixed == yields # {} /\ yields # {r.id : r \in ToSet(rows)}
           others == IF mixed THEN NotAmong(rows, yields) ELSE rows
           hand == Among(rows, yields)
           joined == IF mixed THEN Joining(hand, UrlsOf(others)) ELSE <<>>
           apart == NotAmong(hand, {r.id : r \in ToSet(joined)})
           Into(row) == IF joined = <<>> THEN row ELSE Absorb(row, joined)
           g == GroupMerged(rows, yields)
<1>1. CASE (Len(others) <= 1 /\ ~mixed) \/ Cardinality(UrlsOf(others)) > 1
  <2>1. g.kept = rows /\ g.made = <<>>
    BY <1>1 DEF GroupMerged
  <2> HIDE DEF g
  <2>2. \A q \in ToSet(rows) : \E r \in ToSet(rows) : r.id = q.id
    OBVIOUS
  <2> QED BY <2>1, <2>2, EmptyIsSound DEF GroupIs, g
<1>2. CASE ~((Len(others) <= 1 /\ ~mixed) \/ Cardinality(UrlsOf(others)) > 1)
  <2>1. /\ g.kept = IF mixed /\ Len(others) = 1 THEN apart \o <<Into(Head(others))>>
                    ELSE IF mixed THEN apart ELSE <<>>
        /\ g.made = IF mixed /\ Len(others) = 1 THEN <<>> ELSE <<Into(MergeGroup(others))>>
    BY <1>2 DEF GroupMerged
  <2> HIDE DEF g
  <2>2. /\ Sound(others)
        /\ mixed => ToSet(others) = {r \in ToSet(rows) : r.id \notin yields}
        /\ ~mixed => ToSet(others) = ToSet(rows)
    <3>1. CASE mixed
      <4>1. others = NotAmong(rows, yields)
        BY <3>1
      <4> HIDE DEF others
      <4> QED BY <3>1, <4>1, AmongAre
    <3>2. CASE ~mixed
      <4>1. others = rows
        BY <3>2
      <4> HIDE DEF others
      <4> QED BY <3>2, <4>1
    <3> QED BY <3>1, <3>2
  <2>3. Sound(hand) /\ ToSet(hand) = {r \in ToSet(rows) : r.id \in yields}
    BY AmongAre
  <2> HIDE DEF hand, others
  <2>4. Sound(joined) /\ ToSet(joined) \subseteq ToSet(hand) /\ (~mixed => joined = <<>>)
    BY <2>3, JoiningAre, EmptyIsSound
  <2> HIDE DEF joined
  <2>5. Sound(apart) /\ ToSet(apart) = ToSet(hand) \ ToSet(joined)
    <3>1. /\ Sound(apart)
          /\ ToSet(apart) = {r \in ToSet(hand) : r.id \notin {q.id : q \in ToSet(joined)}}
      BY <2>3, AmongAre
    <3>2. \A r \in ToSet(hand) : r.id \in {q.id : q \in ToSet(joined)} <=> r \in ToSet(joined)
      BY <2>3, <2>4, IdsAreOne
    <3> HIDE DEF apart
    <3> QED BY <3>1, <3>2
  <2> HIDE DEF apart
  <2>6. Len(others) \in Nat /\ Len(others) >= 1 /\ others # <<>>
    <3>1. Len(others) \in Nat /\ (others = <<>> <=> Len(others) = 0)
      BY <2>2 DEF Sound
    <3>2. CASE ~mixed
      BY <1>2, <3>1, <3>2
    <3>3. CASE mixed
      <4>1. PICK r \in ToSet(rows) : r.id \notin yields
        BY <3>3
      <4>2. r \in ToSet(others)
        BY <2>2, <3>3, <4>1
      <4>3. others # <<>>
        BY <4>2, EmptyIsSound
      <4> QED BY <3>1, <4>3
    <3> QED BY <3>2, <3>3
  <2>7. /\ ToSet(others) \in SUBSET ToSet(rows) /\ ToSet(joined) \in SUBSET ToSet(rows)
        /\ ToSet(apart) \in SUBSET ToSet(rows)
        /\ ToSet(others) \cap ToSet(joined) = {} /\ ToSet(apart) \cap ToSet(joined) = {}
        /\ mixed => ToSet(apart) \cap ToSet(others) = {}
        /\ mixed => ToSet(apart) \cup ToSet(joined) \cup ToSet(others) = ToSet(rows)
        /\ ~mixed => ToSet(others) = ToSet(rows) /\ ToSet(joined) = {}
    <3>1. CASE mixed
      BY <2>2, <2>3, <2>4, <2>5, <3>1
    <3>2. CASE ~mixed
      BY <2>2, <2>3, <2>4, <2>5, <3>2, EmptyIsSound
    <3> QED BY <3>1, <3>2
  <2>8. /\ AllIds(others) \cap AllIds(joined) = {} /\ AllIds(apart) \cap AllIds(joined) = {}
        /\ mixed => AllIds(apart) \cap AllIds(others) = {}
        /\ mixed => AllIds(apart) \cup AllIds(joined) \cup AllIds(others) = AllIds(rows)
        /\ ~mixed => AllIds(others) = AllIds(rows) /\ AllIds(joined) = {}
    <3>1. AllIds(others) \cap AllIds(joined) = {} /\ AllIds(apart) \cap AllIds(joined) = {}
      BY <2>7, UnionsApart, AllIdsAre DEF Sound
    <3>2. mixed => AllIds(apart) \cap AllIds(others) = {}
      BY <2>7, UnionsApart, AllIdsAre DEF Sound
    <3> QED BY <2>7, <3>1, <3>2 DEF AllIds
  <2> HIDE DEF mixed
  <2>9. ASSUME NEW row \in BuildRow, row.id \notin row.merged, Ids(row) = AllIds(others)
        PROVE  /\ Into(row) \in BuildRow /\ Into(row).id = row.id
               /\ Into(row).id \notin Into(row).merged
               /\ Ids(Into(row)) = AllIds(others) \cup AllIds(joined)
    <3>1. CASE joined = <<>>
      BY <2>9, <3>1, EmptyIsSound
    <3>2. CASE joined # <<>>
      <4>1. Into(row) = Absorb(row, joined)
        BY <3>2
      <4> HIDE DEF Into
      <4> QED BY <2>4, <2>8, <2>9, <4>1, AbsorbedIsSound
    <3> QED BY <3>1, <3>2
  <2> HIDE DEF Into
  <2>10. ASSUME mixed, Len(others) = 1 PROVE GroupIs(rows, g)
    <3> DEFINE row == Head(others)
    <3>1. row \in BuildRow /\ row \in ToSet(others) /\ ToSet(others) = {row}
      <4>1. row = others[1] /\ row \in BuildRow /\ DOMAIN others = 1 .. 1
        BY <2>2, <2>6, <2>10, FirstOfRows DEF Sound
      <4>2. 1 .. 1 = {1}
        OBVIOUS
      <4> HIDE DEF row
      <4> QED BY <4>1, <4>2 DEF ToSet
    <3> HIDE DEF row
    <3>2. row.id \notin row.merged /\ Ids(row) = AllIds(others)
      BY <2>2, <3>1 DEF Sound, IdsApart, AllIds
    <3>3. /\ Into(row) \in BuildRow /\ Into(row).id = row.id
          /\ Into(row).id \notin Into(row).merged
          /\ Ids(Into(row)) = AllIds(others) \cup AllIds(joined)
      BY <2>9, <3>1, <3>2
    <3>4. /\ Sound(<<Into(row)>>) /\ ToSet(<<Into(row)>>) = {Into(row)}
          /\ AllIds(<<Into(row)>>) = AllIds(others) \cup AllIds(joined)
      BY <3>3, OneIsSound
    <3>5. AllIds(apart) \cap AllIds(<<Into(row)>>) = {}
      BY <2>8, <2>10, <3>4
    <3>6. /\ Sound(apart \o <<Into(row)>>)
          /\ AllIds(apart \o <<Into(row)>>) = AllIds(apart) \cup AllIds(<<Into(row)>>)
          /\ ToSet(apart \o <<Into(row)>>) = ToSet(apart) \cup {Into(row)}
      BY <2>5, <3>4, <3>5, JoinedIsSound
    <3>7. g.kept = apart \o <<Into(row)>> /\ g.made = <<>>
      BY <2>1, <2>10 DEF row
    <3>8. AllIds(g.kept) = AllIds(rows)
      BY <2>8, <2>10, <3>4, <3>6, <3>7
    <3>9. \A q \in ToSet(g.kept) : \E r \in ToSet(rows) : r.id = q.id
      BY <2>7, <3>1, <3>3, <3>6, <3>7
    <3> QED BY <3>6, <3>7, <3>8, <3>9, EmptyIsSound DEF GroupIs
  <2>11. ASSUME ~(mixed /\ Len(others) = 1) PROVE GroupIs(rows, g)
    <3> DEFINE row == MergeGroup(others)
               kept == IF mixed THEN apart ELSE <<>>
    <3>1. /\ row \in BuildRow /\ row.merged = AllIds(others) \ {row.id}
          /\ row.id = Head(others).id
      BY <2>2, <2>6, GroupIsMerged
    <3>2. Head(others).id \in AllIds(others)
      BY <2>2, <2>6, FirstOfRows, OwnIds DEF Sound
    <3> HIDE DEF row
    <3>3. row.id \notin row.merged /\ Ids(row) = AllIds(others)
      BY <3>1, <3>2 DEF Ids
    <3>4. /\ Into(row) \in BuildRow /\ Into(row).id \notin Into(row).merged
          /\ Ids(Into(row)) = AllIds(others) \cup AllIds(joined)
      BY <2>9, <3>1, <3>3
    <3>5. /\ Sound(<<Into(row)>>)
          /\ AllIds(<<Into(row)>>) = AllIds(others) \cup AllIds(joined)
      BY <3>4, OneIsSound
    <3>6. g.kept = kept /\ g.made = <<Into(row)>>
      BY <2>1, <2>11 DEF row
    <3>7. /\ Sound(kept) /\ AllIds(kept) = IF mixed THEN AllIds(apart) ELSE {}
          /\ \A q \in ToSet(kept) : q \in ToSet(rows)
      BY <2>5, <2>7, EmptyIsSound
    <3> HIDE DEF kept
    <3>8. /\ AllIds(kept) \cap (AllIds(others) \cup AllIds(joined)) = {}
          /\ AllIds(kept) \cup (AllIds(others) \cup AllIds(joined)) = AllIds(rows)
      BY <2>8, <3>7
    <3>9. \A q \in ToSet(kept) : \E r \in ToSet(rows) : r.id = q.id
      BY <3>7
    <3> QED BY <3>5, <3>6, <3>7, <3>8, <3>9 DEF GroupIs
  <2> QED BY <2>10, <2>11 DEF g
<1> QED BY <1>1, <1>2

-----------------------------------------------------------------------------
(***************************************************************************)
(* The groups of a pair merge and what it makes of them.                   *)
(***************************************************************************)
\* The values of a list, each once.
LEMMA DistinctMembers ==
    ASSUME NEW S, NEW s \in Seq(S)
    PROVE  /\ DistinctInOrder(s) \in Seq(S) /\ ToSet(DistinctInOrder(s)) = ToSet(s)
           /\ NoRepeats(DistinctInOrder(s))
<1> DEFINE index == [i \in DOMAIN s |-> i]
           Again(i) == ~(\A k \in 1..(i - 1) : s[k] # s[i])
           again == {i \in ToSet(index) : Again(i)}
           firsts == FirstsOf(s)
           list == DistinctInOrder(s)
<1>1. /\ DOMAIN s = 1 .. Len(s) /\ Len(s) \in Nat /\ \A i \in DOMAIN s : s[i] \in S
  OBVIOUS
<1>2. index \in Seq(DOMAIN s) /\ ToSet(index) = DOMAIN s /\ NoRepeats(index)
  BY <1>1 DEF ToSet, NoRepeats
<1>3. firsts = Without(index, again)
  BY DEF FirstsOf, Those
<1> HIDE DEF index
<1>4. /\ firsts \in Seq(DOMAIN s) /\ ToSet(firsts) = {i \in DOMAIN s : ~Again(i)}
      /\ NoRepeats(firsts)
  <2>1. again = {i \in DOMAIN s : Again(i)}
    BY <1>2
  <2> HIDE DEF again, firsts
  <2>2. /\ Without(index, again) \in Seq(DOMAIN s) /\ NoRepeats(Without(index, again))
        /\ ToSet(Without(index, again)) = ToSet(index) \ again
    BY <1>2, WithoutIsTheRest
  <2> HIDE DEF Again
  <2> QED BY <1>2, <1>3, <2>1, <2>2
<1>5. list = [n \in DOMAIN firsts |-> s[firsts[n]]]
  BY DEF DistinctInOrder
<1> HIDE DEF list, firsts
<1>6. /\ DOMAIN firsts = 1 .. Len(firsts) /\ Len(firsts) \in Nat
      /\ \A n \in DOMAIN firsts : firsts[n] \in DOMAIN s /\ ~Again(firsts[n])
      /\ \A n, m \in DOMAIN firsts : n # m => firsts[n] # firsts[m]
  BY <1>4 DEF ToSet, NoRepeats
<1>7. list \in Seq(S) /\ ToSet(list) \subseteq ToSet(s)
  BY <1>1, <1>5, <1>6 DEF ToSet
<1>8. ASSUME NEW i \in DOMAIN s PROVE s[i] \in ToSet(list)
  <2> DEFINE alike == {k \in DOMAIN s : s[k] = s[i]}
  <2>1. alike \subseteq Nat /\ i \in alike
    BY <1>1
  <2>2. PICK k \in alike : \A n \in alike : k <= n
    BY <2>1, SmallestMember
  <2>3. ~Again(k)
    <3> SUFFICES ASSUME NEW n \in 1 .. k - 1, s[n] = s[k] PROVE FALSE
      OBVIOUS
    <3>1. k \in 1 .. Len(s) /\ n \in 1 .. Len(s) /\ n < k
      BY <1>1, <2>2
    <3> QED BY <1>1, <2>2, <3>1
  <2>4. k \in ToSet(firsts)
    BY <1>4, <2>2, <2>3
  <2>5. PICK n \in DOMAIN firsts : firsts[n] = k
    BY <2>4 DEF ToSet
  <2>6. list[n] = s[i] /\ n \in DOMAIN list
    BY <1>5, <2>2, <2>5
  <2> QED BY <2>6 DEF ToSet
<1>9. ASSUME NEW n \in DOMAIN list, NEW m \in DOMAIN list, n # m PROVE list[n] # list[m]
  <2>1. /\ firsts[n] \in 1 .. Len(s) /\ firsts[m] \in 1 .. Len(s) /\ firsts[n] # firsts[m]
        /\ list[n] = s[firsts[n]] /\ list[m] = s[firsts[m]]
    BY <1>1, <1>5, <1>6, <1>9
  <2>2. firsts[n] \in 1 .. firsts[m] - 1 \/ firsts[m] \in 1 .. firsts[n] - 1
    BY <2>1
  <2>3. ~Again(firsts[n]) /\ ~Again(firsts[m])
    BY <1>5, <1>6, <1>9
  <2> QED BY <2>1, <2>2, <2>3
<1>10. ToSet(s) \subseteq ToSet(list)
  BY <1>8 DEF ToSet
<1>11. NoRepeats(list)
  BY <1>9 DEF NoRepeats
<1> QED BY <1>7, <1>10, <1>11 DEF list

\* The rows of a list, a group for each pair of papers, each group merged.
GroupedBy(pairs, groups, R) ==
    /\ groups \in Seq({groups[i] : i \in DOMAIN groups}) /\ DOMAIN groups = DOMAIN R
    /\ \A i \in DOMAIN groups : Sound(R[i]) /\ GroupIs(R[i], groups[i])
    /\ \A i, k \in DOMAIN groups : i # k => AllIds(R[i]) \cap AllIds(R[k]) = {}
    /\ UNION {ToSet(R[i]) : i \in DOMAIN groups} = ToSet(pairs)

LEMMA PairGroupsAre ==
    ASSUME NEW pairs, Sound(pairs)
    PROVE  \E R : GroupedBy(pairs, PairGroups(pairs), R)
<1> DEFINE PairOf(r) == <<r.doiO, r.doiR>>
           dois == [i \in DOMAIN pairs |-> PairOf(pairs[i])]
           keys == DistinctInOrder(dois)
           Group(k) == Those(pairs, LAMBDA r : PairOf(r) = k)
           R == [i \in DOMAIN keys |-> Group(keys[i])]
           groups == PairGroups(pairs)
<1>1. groups = [i \in DOMAIN keys |-> GroupMerged(Group(keys[i]), YieldingIds(Group(keys[i])))]
  BY DEF PairGroups
<1>2. /\ DOMAIN pairs = 1 .. Len(pairs) /\ Len(pairs) \in Nat
      /\ ToSet(pairs) = {pairs[i] : i \in DOMAIN pairs}
  BY DEF Sound, ToSet
<1>3. dois \in Seq({PairOf(r) : r \in ToSet(pairs)})
      /\ ToSet(dois) = {PairOf(r) : r \in ToSet(pairs)}
  BY <1>2 DEF ToSet
<1> HIDE DEF dois
<1>4. /\ keys \in Seq({PairOf(r) : r \in ToSet(pairs)}) /\ NoRepeats(keys)
      /\ ToSet(keys) = {PairOf(r) : r \in ToSet(pairs)}
  BY <1>3, DistinctMembers
<1> HIDE DEF keys
<1>5. /\ DOMAIN keys = 1 .. Len(keys) /\ Len(keys) \in Nat
      /\ \A i, k \in DOMAIN keys : i # k => keys[i] # keys[k]
      /\ \A r \in ToSet(pairs) : \E i \in DOMAIN keys : PairOf(r) = keys[i]
  <2> HIDE DEF PairOf
  <2>1. DOMAIN keys = 1 .. Len(keys) /\ Len(keys) \in Nat
    BY <1>4
  <2>2. \A i, k \in DOMAIN keys : i # k => keys[i] # keys[k]
    BY <1>4 DEF NoRepeats
  <2>3. \A r \in ToSet(pairs) : PairOf(r) \in ToSet(keys)
    BY <1>4
  <2> QED BY <2>1, <2>2, <2>3 DEF ToSet
<1>6. ASSUME NEW k
      PROVE  Sound(Group(k)) /\ ToSet(Group(k)) = {r \in ToSet(pairs) : PairOf(r) = k}
  <2> DEFINE others == {r \in ToSet(pairs) : ~(PairOf(r) = k)}
  <2>1. Group(k) = Without(pairs, others)
    BY DEF Those
  <2> HIDE DEF Group, others
  <2>2. /\ Sound(Without(pairs, others))
        /\ ToSet(Without(pairs, others)) = ToSet(pairs) \ others
    BY RestIsSound
  <2>3. ToSet(pairs) \ others = {r \in ToSet(pairs) : PairOf(r) = k}
    BY DEF others
  <2> QED BY <2>1, <2>2, <2>3
<1> HIDE DEF Group, groups
<1>7. ASSUME NEW i \in DOMAIN keys
      PROVE  GroupIs(R[i], groups[i]) /\ R[i] = Group(keys[i])
  <2>1. YieldingIds(Group(keys[i])) \subseteq {r.id : r \in ToSet(Group(keys[i]))}
    BY YieldingAreRows
  <2> QED BY <1>1, <1>6, <2>1, GroupKeepsIds
<1> HIDE DEF R
<1>8. ASSUME NEW i \in DOMAIN keys, NEW k \in DOMAIN keys, i # k
      PROVE  AllIds(R[i]) \cap AllIds(R[k]) = {}
  <2>1. /\ ToSet(R[i]) \in SUBSET ToSet(pairs) /\ ToSet(R[k]) \in SUBSET ToSet(pairs)
        /\ ToSet(R[i]) \cap ToSet(R[k]) = {}
    BY <1>5, <1>6, <1>7, <1>8
  <2> QED BY <2>1, UnionsApart, AllIdsAre DEF Sound
<1>9. UNION {ToSet(R[i]) : i \in DOMAIN keys} = ToSet(pairs)
  <2> HIDE DEF PairOf
  <2>1. \A i \in DOMAIN keys : ToSet(R[i]) = {r \in ToSet(pairs) : PairOf(r) = keys[i]}
    BY <1>6, <1>7
  <2>2. \A r \in ToSet(pairs) : \E i \in DOMAIN keys : r \in ToSet(R[i])
    BY <1>5, <2>1
  <2>3. \A i \in DOMAIN keys : ToSet(R[i]) \subseteq ToSet(pairs)
    BY <2>1
  <2> QED BY <2>2, <2>3
<1>10. DOMAIN groups = DOMAIN keys /\ DOMAIN R = DOMAIN keys
       /\ groups \in Seq({groups[i] : i \in DOMAIN groups})
  BY <1>1, <1>5 DEF R
<1>11. \A i \in DOMAIN keys : Sound(R[i])
  BY <1>6, <1>7
<1> QED BY <1>7, <1>8, <1>9, <1>10, <1>11 DEF GroupedBy, groups

\* One place of a list with a given id.
LEMMA TheOneWith ==
    ASSUME NEW rows, Sound(rows), NEW id, NEW q \in ToSet(rows), q.id = id
    PROVE  FirstWith(rows, LAMBDA p : p.id = id) = q
<1> DEFINE I == {i \in 1 .. Len(rows) : rows[i].id = id}
<1>1. FirstWith(rows, LAMBDA p : p.id = id) = rows[IF I # {} THEN Min(I) ELSE 0]
  BY DEF FirstWith, SelectInSeq
<1>2. /\ DOMAIN rows = 1 .. Len(rows) /\ Len(rows) \in Nat
      /\ \A i \in DOMAIN rows : rows[i] \in ToSet(rows)
  BY DEF Sound, ToSet
<1>3. PICK k \in DOMAIN rows : rows[k] = q
  BY DEF ToSet
<1>4. I # {} /\ I \subseteq Nat
  BY <1>2, <1>3
<1>5. Min(I) \in I
  BY <1>4, FirstIsOne
<1>6. rows[Min(I)] \in ToSet(rows) /\ rows[Min(I)].id = q.id
  BY <1>2, <1>5
<1>7. rows[Min(I)] = q
  BY <1>6, IdsAreOne
<1> HIDE DEF I
<1> QED BY <1>1, <1>4, <1>7

LEMMA FlatParts ==
    ASSUME NEW pairs, NEW groups, NEW R, GroupedBy(pairs, groups, R), IdsApart(ToSet(pairs))
    PROVE  LET kept == FlattenSeq([i \in DOMAIN groups |-> groups[i].kept])
               made == FlattenSeq([i \in DOMAIN groups |-> groups[i].made])
           IN  /\ Sound(kept) /\ Sound(made) /\ AllIds(kept) \cap AllIds(made) = {}
               /\ AllIds(kept) \cup AllIds(made) = AllIds(pairs)
               /\ \A q \in ToSet(kept) : \E r \in ToSet(pairs) : r.id = q.id
               /\ ToSet(kept) = UNION {ToSet(groups[i].kept) : i \in DOMAIN groups}
               /\ ToSet(made) = UNION {ToSet(groups[i].made) : i \in DOMAIN groups}
<1> DEFINE ks == [i \in DOMAIN groups |-> groups[i].kept]
           ms == [i \in DOMAIN groups |-> groups[i].made]
           kept == FlattenSeq(ks)
           made == FlattenSeq(ms)
<1>1. /\ DOMAIN groups = 1 .. Len(groups) /\ Len(groups) \in Nat
      /\ \A i \in DOMAIN groups :
            /\ Sound(groups[i].kept) /\ Sound(groups[i].made)
            /\ AllIds(groups[i].kept) \cap AllIds(groups[i].made) = {}
            /\ AllIds(groups[i].kept) \cup AllIds(groups[i].made) = AllIds(R[i])
            /\ \A q \in ToSet(groups[i].kept) : \E r \in ToSet(R[i]) : r.id = q.id
      /\ \A i, k \in DOMAIN groups : i # k => AllIds(R[i]) \cap AllIds(R[k]) = {}
      /\ UNION {ToSet(R[i]) : i \in DOMAIN groups} = ToSet(pairs)
  <2>1. DOMAIN groups = 1 .. Len(groups) /\ Len(groups) \in Nat
    BY DEF GroupedBy
  <2>2. ASSUME NEW i \in DOMAIN groups PROVE GroupIs(R[i], groups[i])
    BY DEF GroupedBy
  <2>3. /\ \A i, k \in DOMAIN groups : i # k => AllIds(R[i]) \cap AllIds(R[k]) = {}
        /\ UNION {ToSet(R[i]) : i \in DOMAIN groups} = ToSet(pairs)
    BY DEF GroupedBy
  <2> QED BY <2>1, <2>2, <2>3 DEF GroupIs
<1>2. /\ DOMAIN ks = DOMAIN groups /\ DOMAIN ms = DOMAIN groups
      /\ \A i \in DOMAIN groups : ks[i] = groups[i].kept /\ ms[i] = groups[i].made
  OBVIOUS
<1>3. ks \in Seq(Seq(BuildRow)) /\ ms \in Seq(Seq(BuildRow))
  <2>1. \A i \in 1 .. Len(groups) : /\ groups[i].kept \in Seq(BuildRow)
                                    /\ groups[i].made \in Seq(BuildRow)
    BY <1>1 DEF Sound
  <2>2. /\ ks = [i \in 1 .. Len(groups) |-> groups[i].kept]
        /\ ms = [i \in 1 .. Len(groups) |-> groups[i].made]
    BY <1>1
  <2> HIDE DEF ks, ms
  <2> QED BY <1>1, <2>1, <2>2
<1> HIDE DEF ks, ms
<1>4. /\ \A i \in DOMAIN ks : Sound(ks[i])
      /\ \A i, k \in DOMAIN ks : i # k => AllIds(ks[i]) \cap AllIds(ks[k]) = {}
  <2>1. \A i \in DOMAIN ks : Sound(ks[i]) /\ AllIds(ks[i]) \subseteq AllIds(R[i])
    BY <1>1, <1>2
  <2>2. \A i, k \in DOMAIN ks : i # k => AllIds(R[i]) \cap AllIds(R[k]) = {}
    BY <1>1, <1>2
  <2> HIDE DEF AllIds
  <2>3. \A i, k \in DOMAIN ks : i # k => AllIds(ks[i]) \cap AllIds(ks[k]) = {}
    BY <2>1, <2>2
  <2> QED BY <2>1, <2>3
<1>5. /\ \A i \in DOMAIN ms : Sound(ms[i])
      /\ \A i, k \in DOMAIN ms : i # k => AllIds(ms[i]) \cap AllIds(ms[k]) = {}
  <2>1. \A i \in DOMAIN ms : Sound(ms[i]) /\ AllIds(ms[i]) \subseteq AllIds(R[i])
    BY <1>1, <1>2
  <2>2. \A i, k \in DOMAIN ms : i # k => AllIds(R[i]) \cap AllIds(R[k]) = {}
    BY <1>1, <1>2
  <2> HIDE DEF AllIds
  <2>3. \A i, k \in DOMAIN ms : i # k => AllIds(ms[i]) \cap AllIds(ms[k]) = {}
    BY <2>1, <2>2
  <2> QED BY <2>1, <2>3
<1>6. /\ Sound(kept) /\ ToSet(kept) = UNION {ToSet(ks[i]) : i \in DOMAIN ks}
      /\ AllIds(kept) = UNION {AllIds(ks[i]) : i \in DOMAIN ks}
  BY <1>3, <1>4, FlatIsSound
<1>7. /\ Sound(made) /\ ToSet(made) = UNION {ToSet(ms[i]) : i \in DOMAIN ms}
      /\ AllIds(made) = UNION {AllIds(ms[i]) : i \in DOMAIN ms}
  BY <1>3, <1>5, FlatIsSound
<1> HIDE DEF kept, made
<1>8. ASSUME NEW n \in AllIds(kept), n \in AllIds(made) PROVE FALSE
  <2>1. PICK i \in DOMAIN groups : n \in AllIds(groups[i].kept)
    BY <1>2, <1>6
  <2>2. PICK k \in DOMAIN groups : n \in AllIds(groups[k].made)
    BY <1>2, <1>7, <1>8
  <2>3. n \in AllIds(R[i]) /\ n \in AllIds(R[k])
    BY <1>1, <2>1, <2>2
  <2> QED BY <1>1, <2>1, <2>2, <2>3
<1>9. AllIds(kept) \cup AllIds(made) = UNION {AllIds(R[i]) : i \in DOMAIN groups}
  <2>1. \A i \in DOMAIN groups : AllIds(ks[i]) \cup AllIds(ms[i]) = AllIds(R[i])
    BY <1>1, <1>2
  <2> QED BY <1>2, <1>6, <1>7, <2>1
<1>10. UNION {AllIds(R[i]) : i \in DOMAIN groups} = AllIds(pairs)
  <2>1. \A i \in DOMAIN groups : AllIds(R[i]) = IdsUnion(ToSet(R[i]))
    BY AllIdsAre
  <2>2. AllIds(pairs) = IdsUnion(UNION {ToSet(R[i]) : i \in DOMAIN groups})
    BY <1>1, AllIdsAre
  <2> QED BY <2>1, <2>2 DEF IdsUnion
<1>11. ASSUME NEW q \in ToSet(kept) PROVE \E r \in ToSet(pairs) : r.id = q.id
  <2>1. PICK i \in DOMAIN groups : q \in ToSet(groups[i].kept)
    BY <1>2, <1>6
  <2>2. PICK r \in ToSet(R[i]) : r.id = q.id
    BY <1>1, <2>1
  <2> QED BY <1>1, <2>2
<1>12. /\ ToSet(kept) = UNION {ToSet(groups[i].kept) : i \in DOMAIN groups}
       /\ ToSet(made) = UNION {ToSet(groups[i].made) : i \in DOMAIN groups}
  BY <1>2, <1>6, <1>7
<1> QED BY <1>6, <1>7, <1>8, <1>9, <1>10, <1>11, <1>12 DEF kept, made, ks, ms

\* The rows of the pair merge: those ruled distinct and what comes out of the groups.
RowsOut(g) == ToSet(g.kept) \cup ToSet(g.made)
Mergeable(f) == Those(f.rows, LAMBDA r : ~r.distinct)

LEMMA MergePairsIsSound ==
    ASSUME NEW f, IsFrame(f), Sound(f.rows)
    PROVE  /\ IsFrame(MergePairs(f)) /\ Sound(MergePairs(f).rows)
           /\ AllIds(MergePairs(f).rows) = AllIds(f.rows)
           /\ MergePairs(f).retired = f.retired
           /\ ToSet(MergePairs(f).rows) =
                 {r \in ToSet(f.rows) : r.distinct}
                 \cup UNION {RowsOut(PairGroups(Mergeable(f))[i]) :
                               i \in DOMAIN PairGroups(Mergeable(f))}
           /\ MergePairs(f).fills =
                 f.fills \o FlattenSeq([i \in DOMAIN PairGroups(Mergeable(f)) |->
                                         PairGroups(Mergeable(f))[i].fills])
<1> DEFINE pairs == Those(f.rows, LAMBDA r : ~r.distinct)
           groups == PairGroups(pairs)
           kept == FlattenSeq([i \in DOMAIN groups |-> groups[i].kept])
           made == FlattenSeq([i \in DOMAIN groups |-> groups[i].made])
           untouched == Those(f.rows, LAMBDA r : r.distinct)
           HasKept(r) == Having(kept, LAMBDA q : q.id = r.id)
           standing == Those(f.rows, LAMBDA r : r.distinct \/ HasKept(r))
           AsKept(r) == IF r.distinct THEN r ELSE FirstWith(kept, LAMBDA q : q.id = r.id)
           inPlace == [i \in DOMAIN standing |-> AsKept(standing[i])]
           rows == IF made = <<>> THEN inPlace ELSE kept \o made \o untouched
           fills == f.fills \o FlattenSeq([i \in DOMAIN groups |-> groups[i].fills])
           g == MergePairs(f)
<1>1. g = [f EXCEPT !.rows = rows, !.fills = fills]
  BY DEF MergePairs, Regrouped
<1> HIDE DEF g, rows, fills
<1>2. g = [rows |-> rows, fills |-> fills, retired |-> f.retired]
  BY <1>1 DEF IsFrame
<1>3. IsFrame(g) /\ g.rows = rows /\ g.retired = f.retired /\ g.fills = fills
  BY <1>2 DEF IsFrame
<1>4. Sound(pairs) /\ ToSet(pairs) = {r \in ToSet(f.rows) : ~r.distinct}
  <2>1. /\ Sound(pairs)
        /\ ToSet(pairs) = ToSet(f.rows) \ {r \in ToSet(f.rows) : ~(~r.distinct)}
    BY RestIsSound DEF Those
  <2> HIDE DEF pairs
  <2> QED BY <2>1
<1>5. Sound(untouched) /\ ToSet(untouched) = {r \in ToSet(f.rows) : r.distinct}
  <2>1. /\ Sound(untouched)
        /\ ToSet(untouched) = ToSet(f.rows) \ {r \in ToSet(f.rows) : ~r.distinct}
    BY RestIsSound DEF Those
  <2> HIDE DEF untouched
  <2> QED BY <2>1
<1> HIDE DEF pairs
<1>6. /\ Sound(kept) /\ Sound(made) /\ AllIds(kept) \cap AllIds(made) = {}
      /\ AllIds(kept) \cup AllIds(made) = AllIds(pairs)
      /\ \A q \in ToSet(kept) : \E r \in ToSet(pairs) : r.id = q.id
      /\ ToSet(kept) = UNION {ToSet(groups[i].kept) : i \in DOMAIN groups}
      /\ ToSet(made) = UNION {ToSet(groups[i].made) : i \in DOMAIN groups}
  <2>1. PICK R : GroupedBy(pairs, groups, R)
    BY <1>4, PairGroupsAre
  <2> HIDE DEF groups
  <2>2. IdsApart(ToSet(pairs))
    BY <1>4 DEF Sound
  <2> HIDE DEF kept, made
  <2> QED BY <2>1, <2>2, FlatParts DEF kept, made
<1> HIDE DEF kept, made, untouched
<1>7. /\ AllIds(pairs) \cap AllIds(untouched) = {}
      /\ AllIds(pairs) \cup AllIds(untouched) = AllIds(f.rows)
  <2>1. /\ ToSet(pairs) \in SUBSET ToSet(f.rows) /\ ToSet(untouched) \in SUBSET ToSet(f.rows)
        /\ ToSet(pairs) \cap ToSet(untouched) = {}
        /\ ToSet(pairs) \cup ToSet(untouched) = ToSet(f.rows)
    BY <1>4, <1>5
  <2>2. AllIds(pairs) \cap AllIds(untouched) = {}
    BY <2>1, UnionsApart, AllIdsAre DEF Sound
  <2> QED BY <2>1, <2>2 DEF AllIds
<1> DEFINE apart == {r \in ToSet(f.rows) : r.distinct}
           outcomes == UNION {RowsOut(groups[i]) : i \in DOMAIN groups}
<1>8. ToSet(kept) \cup ToSet(made) = outcomes
  <2>1. \A x : x \in outcomes <=> \E i \in DOMAIN groups : \/ x \in ToSet(groups[i].kept)
                                                          \/ x \in ToSet(groups[i].made)
    BY DEF RowsOut
  <2> HIDE DEF groups, outcomes
  <2> QED BY <1>6, <2>1
<1> HIDE DEF groups, outcomes
<1>9. ASSUME IsFrame(g), Sound(g.rows), AllIds(g.rows) = AllIds(f.rows),
              ToSet(g.rows) = apart \cup outcomes
       PROVE  /\ IsFrame(g) /\ Sound(g.rows) /\ AllIds(g.rows) = AllIds(f.rows)
              /\ g.retired = f.retired
              /\ ToSet(g.rows) =
                    {r \in ToSet(f.rows) : r.distinct}
                    \cup UNION {RowsOut(PairGroups(Mergeable(f))[i]) :
                                  i \in DOMAIN PairGroups(Mergeable(f))}
              /\ g.fills = f.fills \o FlattenSeq([i \in DOMAIN PairGroups(Mergeable(f)) |->
                                                   PairGroups(Mergeable(f))[i].fills])
  <2>1. groups = PairGroups(Mergeable(f))
    BY DEF Mergeable, groups, pairs
  <2> QED BY <1>3, <1>9, <2>1 DEF outcomes, fills
<1>10. CASE made # <<>>
  <2>1. Sound(kept \o made) /\ AllIds(kept \o made) = AllIds(pairs)
        /\ ToSet(kept \o made) = ToSet(kept) \cup ToSet(made)
    BY <1>6, JoinedIsSound
  <2>2. /\ Sound((kept \o made) \o untouched)
        /\ AllIds((kept \o made) \o untouched) = AllIds(f.rows)
        /\ ToSet((kept \o made) \o untouched) = ToSet(kept \o made) \cup ToSet(untouched)
    <3> DEFINE both == kept \o made
    <3>1. Sound(both) /\ AllIds(both) = AllIds(pairs)
      BY <2>1
    <3> HIDE DEF both
    <3>2. /\ Sound(both \o untouched)
          /\ AllIds(both \o untouched) = AllIds(both) \cup AllIds(untouched)
          /\ ToSet(both \o untouched) = ToSet(both) \cup ToSet(untouched)
      BY <1>5, <1>7, <3>1, JoinedIsSound
    <3> QED BY <1>7, <3>1, <3>2 DEF both
  <2>3. rows = (kept \o made) \o untouched
    BY <1>10 DEF rows
  <2>4. ToSet(rows) = apart \cup outcomes
    BY <1>5, <1>8, <2>1, <2>2, <2>3
  <2> QED BY <1>3, <1>9, <2>2, <2>3, <2>4 DEF g
<1>11. CASE made = <<>>
  <2>1. rows = inPlace /\ AllIds(kept) = AllIds(pairs)
    BY <1>6, <1>11, EmptyIsSound DEF rows
  <2>2. /\ Sound(standing)
        /\ ToSet(standing) = {r \in ToSet(f.rows) : r.distinct \/ HasKept(r)}
    <3> DEFINE others == {r \in ToSet(f.rows) : ~(r.distinct \/ HasKept(r))}
    <3>1. standing = Without(f.rows, others)
      BY DEF Those
    <3> HIDE DEF standing, others
    <3>2. /\ Sound(Without(f.rows, others))
          /\ ToSet(Without(f.rows, others)) = ToSet(f.rows) \ others
      BY RestIsSound
    <3>3. ToSet(f.rows) \ others = {r \in ToSet(f.rows) : r.distinct \/ HasKept(r)}
      BY DEF others
    <3> QED BY <3>1, <3>2, <3>3
  <2> HIDE DEF standing
  <2>3. /\ DOMAIN standing = 1 .. Len(standing) /\ Len(standing) \in Nat
        /\ \A i \in DOMAIN standing : standing[i] \in ToSet(standing)
        /\ \A i, k \in DOMAIN standing : i # k => standing[i].id # standing[k].id
        /\ \A i, k \in DOMAIN standing : i # k => Ids(standing[i]) \cap Ids(standing[k]) = {}
    BY <2>2, SoundByIndex
  <2>4. ASSUME NEW r \in ToSet(standing)
        PROVE  \/ r.distinct /\ AsKept(r) = r /\ r \in ToSet(untouched)
               \/ ~r.distinct /\ AsKept(r) \in ToSet(kept) /\ AsKept(r).id = r.id
    <3>1. CASE r.distinct
      BY <1>5, <2>2, <3>1
    <3>2. CASE ~r.distinct
      <4>1. PICK q \in ToSet(kept) : q.id = r.id
        BY <2>2, <3>2 DEF Having
      <4>2. FirstWith(kept, LAMBDA p : p.id = r.id) = q
        BY <1>6, <4>1, TheOneWith
      <4> QED BY <3>2, <4>1, <4>2
    <3> QED BY <3>1, <3>2
  <2>5. ASSUME NEW r \in ToSet(untouched) PROVE r \in ToSet(standing) /\ AsKept(r) = r
    BY <1>5, <2>2
  <2>6. ASSUME NEW q \in ToSet(kept) PROVE \E r \in ToSet(standing) : AsKept(r) = q
    <3>1. PICK r \in ToSet(pairs) : r.id = q.id
      BY <1>6
    <3>2. r \in ToSet(standing) /\ ~r.distinct
      BY <1>4, <2>2, <3>1 DEF Having
    <3>3. FirstWith(kept, LAMBDA p : p.id = r.id) = q
      BY <1>6, <3>1, TheOneWith
    <3> QED BY <3>2, <3>3
  <2> HIDE DEF AsKept
  <2>7. \A r \in ToSet(standing) : AsKept(r) \in ToSet(untouched) \cup ToSet(kept)
    BY <2>4
  <2>8. \A r \in ToSet(untouched) \cup ToSet(kept) : r \in BuildRow /\ r.id \notin r.merged
    BY <1>5, <1>6 DEF Sound, IdsApart, ToSet
  <2>9. inPlace \in Seq(BuildRow)
    BY <2>3, <2>7, <2>8
  <2>10. ASSUME NEW i \in DOMAIN inPlace, NEW k \in DOMAIN inPlace, i # k
         PROVE  Ids(inPlace[i]) \cap Ids(inPlace[k]) = {}
    <3>1. /\ inPlace[i] = AsKept(standing[i]) /\ inPlace[k] = AsKept(standing[k])
          /\ standing[i] \in ToSet(standing) /\ standing[k] \in ToSet(standing)
          /\ standing[i].id # standing[k].id
          /\ Ids(standing[i]) \cap Ids(standing[k]) = {}
      BY <2>3, <2>10
    <3> HIDE DEF inPlace
    <3>2. CASE standing[i].distinct /\ standing[k].distinct
      BY <2>4, <3>1, <3>2
    <3>3. CASE ~standing[i].distinct /\ ~standing[k].distinct
      BY <1>6, <2>4, <3>1, <3>3 DEF Sound, IdsApart
    <3>4. CASE ~(standing[i].distinct <=> standing[k].distinct)
      <4>1. /\ \/ inPlace[i] \in ToSet(untouched) /\ inPlace[k] \in ToSet(kept)
               \/ inPlace[k] \in ToSet(untouched) /\ inPlace[i] \in ToSet(kept)
        BY <2>4, <3>1, <3>4
      <4> QED BY <1>7, <2>1, <4>1, OwnIds
    <3> QED BY <2>4, <3>1, <3>2, <3>3, <3>4
  <2>11. \A i \in DOMAIN inPlace : inPlace[i].id \notin inPlace[i].merged
    BY <2>3, <2>7, <2>8
  <2>12. Sound(inPlace)
    <3> HIDE DEF inPlace
    <3> QED BY <2>9, <2>10, <2>11, ByIndex
  <2>13. ToSet(inPlace) = ToSet(untouched) \cup ToSet(kept)
    <3>1. ToSet(inPlace) = {AsKept(standing[i]) : i \in DOMAIN standing}
      BY DEF ToSet
    <3>2. ToSet(standing) = {standing[i] : i \in DOMAIN standing}
      BY DEF ToSet
    <3>3. \A r \in ToSet(untouched) \cup ToSet(kept) : \E i \in DOMAIN standing :
             AsKept(standing[i]) = r
      BY <2>5, <2>6, <3>2
    <3>4. \A i \in DOMAIN standing : AsKept(standing[i]) \in ToSet(untouched) \cup ToSet(kept)
      BY <2>3, <2>7
    <3> QED BY <3>1, <3>3, <3>4
  <2>14. AllIds(inPlace) = AllIds(f.rows)
    <3>1. AllIds(inPlace) = AllIds(untouched) \cup AllIds(kept)
      BY <2>13 DEF AllIds
    <3> QED BY <1>7, <2>1, <3>1
  <2>15. ToSet(rows) = apart \cup outcomes
    <3>1. ToSet(made) = {}
      BY <1>11, EmptyIsSound
    <3> QED BY <1>5, <1>8, <2>1, <2>13, <3>1
  <2> QED BY <1>3, <1>9, <2>1, <2>12, <2>14, <2>15 DEF g
<1> QED BY <1>10, <1>11

-----------------------------------------------------------------------------
(***************************************************************************)
(* The preprint rules.                                                     *)
(***************************************************************************)
\* What a rule decides on the rows of one original.
DecidedOn(S, d) ==
    /\ d.drop \subseteq {r.id : r \in S} /\ ToSet(d.absorbed) \subseteq S
    /\ d.into # <<>> => /\ Head(d.into) \in S /\ Head(d.into).id \notin d.drop
                        /\ \A r \in ToSet(d.absorbed) : r.id \in d.drop

LEMMA DroppedUnderDecides ==
    ASSUME NEW both, Sound(both), NEW yields, NEW remove, NEW keep, remove # keep
    PROVE  DecidedOn(ToSet(both), DroppedUnder(both, yields, remove, keep))
<1> DEFINE keeping == Those(both, LAMBDA r : r.doiR = keep)
           losing == Those(both, LAMBDA r : r.doiR = remove)
           spared == NotAmong(losing, yields)
           holding == NotAmong(keeping, yields)
           turned == holding = <<>> /\ spared # <<>>
           Stays(r) == ByHand(r) /\ r.id \notin yields
           d == DroppedUnder(both, yields, remove, keep)
<1>1. Sound(keeping) /\ ToSet(keeping) = {r \in ToSet(both) : r.doiR = keep}
  <2> DEFINE others == {r \in ToSet(both) : ~(r.doiR = keep)}
  <2>1. keeping = Without(both, others)
    BY DEF Those
  <2> HIDE DEF keeping, others
  <2>2. Sound(Without(both, others)) /\ ToSet(Without(both, others)) = ToSet(both) \ others
    BY RestIsSound
  <2> QED BY <2>1, <2>2 DEF others
<1>2. Sound(losing) /\ ToSet(losing) = {r \in ToSet(both) : r.doiR = remove}
  <2> DEFINE others == {r \in ToSet(both) : ~(r.doiR = remove)}
  <2>1. losing = Without(both, others)
    BY DEF Those
  <2> HIDE DEF losing, others
  <2>2. Sound(Without(both, others)) /\ ToSet(Without(both, others)) = ToSet(both) \ others
    BY RestIsSound
  <2> QED BY <2>1, <2>2 DEF others
<1>3. d = IF keeping = <<>> THEN [drop |-> {}, into |-> <<>>, absorbed |-> <<>>]
          ELSE IF turned
          THEN [drop |-> {r.id : r \in ToSet(keeping)}, into |-> <<Head(spared)>>,
                absorbed |-> keeping]
          ELSE [drop |-> {r.id : r \in {r \in ToSet(losing) : ~Stays(r)}},
                into |-> IF holding # <<>> /\ Among(losing, yields) # <<>>
                         THEN <<Head(holding)>> ELSE <<>>,
                absorbed |-> Among(losing, yields)]
  BY DEF DroppedUnder
<1> HIDE DEF d, keeping, losing
<1>4. /\ Sound(spared) /\ ToSet(spared) = {r \in ToSet(losing) : r.id \notin yields}
      /\ Sound(holding) /\ ToSet(holding) = {r \in ToSet(keeping) : r.id \notin yields}
      /\ ToSet(Among(losing, yields)) = {r \in ToSet(losing) : r.id \in yields}
  BY <1>1, <1>2, AmongAre
<1> HIDE DEF spared, holding
<1>5. \A r, q \in ToSet(both) : r.id = q.id => r = q
  BY IdsAreOne
<1>6. CASE keeping = <<>>
  <2>1. d = [drop |-> {}, into |-> <<>>, absorbed |-> <<>>]
    BY <1>3, <1>6
  <2> QED BY <2>1, EmptyIsSound DEF DecidedOn, d
<1>7. CASE keeping # <<>> /\ turned
  <2>1. /\ d.drop = {r.id : r \in ToSet(keeping)} /\ d.into = <<Head(spared)>>
        /\ d.absorbed = keeping
    BY <1>3, <1>7
  <2>2. Head(spared) \in ToSet(spared)
    BY <1>4, <1>7, FirstOfRows DEF Sound
  <2>3. Head(spared) \in ToSet(both) /\ Head(spared).doiR = remove
    BY <1>2, <1>4, <2>2
  <2>4. Head(spared).id \notin d.drop
    BY <1>1, <1>5, <2>1, <2>3
  <2>5. Head(d.into) = Head(spared)
    BY <2>1
  <2> QED BY <1>1, <2>1, <2>3, <2>4, <2>5 DEF DecidedOn, d
<1>8. CASE keeping # <<>> /\ ~turned
  <2>1. /\ d.drop = {r.id : r \in {r \in ToSet(losing) : ~Stays(r)}}
        /\ d.into = IF holding # <<>> /\ Among(losing, yields) # <<>>
                    THEN <<Head(holding)>> ELSE <<>>
        /\ d.absorbed = Among(losing, yields)
    BY <1>3, <1>8
  <2>2. ASSUME d.into # <<>>
        PROVE  /\ Head(d.into) \in ToSet(both) /\ Head(d.into).id \notin d.drop
               /\ \A r \in ToSet(d.absorbed) : r.id \in d.drop
    <3>1. holding # <<>> /\ Head(d.into) = Head(holding)
      BY <2>1, <2>2
    <3>2. Head(holding) \in ToSet(holding)
      BY <1>4, <3>1, FirstOfRows DEF Sound
    <3>3. Head(holding) \in ToSet(both) /\ Head(holding).doiR = keep
      BY <1>1, <1>4, <3>2
    <3>4. Head(holding).id \notin d.drop
      BY <1>2, <1>5, <2>1, <3>3
    <3>5. \A r \in ToSet(d.absorbed) : r.id \in d.drop
      BY <1>4, <2>1
    <3> QED BY <3>1, <3>3, <3>4, <3>5
  <2>3. d.drop \subseteq {r.id : r \in ToSet(both)} /\ ToSet(d.absorbed) \subseteq ToSet(both)
    BY <1>2, <1>4, <2>1
  <2> QED BY <2>2, <2>3 DEF DecidedOn, d
<1> QED BY <1>6, <1>7, <1>8

\* The decisions of a rule, each on rows of its own.
DecidedFor(rows, per, B) ==
    /\ per \in Seq({per[i] : i \in DOMAIN per}) /\ DOMAIN B = DOMAIN per
    /\ \A i \in DOMAIN per : B[i] \subseteq ToSet(rows) /\ DecidedOn(B[i], per[i])
    /\ \A i, k \in DOMAIN per : i # k => B[i] \cap B[k] = {}

LEMMA DropsDecide ==
    ASSUME NEW rows, Sound(rows), NEW remove, NEW keep, remove # keep
    PROVE  \E B : DecidedFor(rows, Drops(rows, remove, keep), B)
<1> DEFINE dois == [i \in DOMAIN rows |-> rows[i].doiO]
           originals == DistinctInOrder(dois)
           Both(o) == Those(rows, LAMBDA r : r.doiO = o /\ r.doiR \in {remove, keep})
           Decided(both) == DroppedUnder(both, YieldingIds(both), remove, keep)
           per == Drops(rows, remove, keep)
           B == [i \in DOMAIN originals |-> ToSet(Both(originals[i]))]
<1>1. per = [i \in DOMAIN originals |-> Decided(Both(originals[i]))]
  BY DEF Drops
<1>2. dois \in Seq(RowDois)
  <2>1. ASSUME NEW i \in 1 .. Len(rows) PROVE rows[i].doiO \in RowDois
    <3>1. rows[i] \in BuildRow
      BY SoundByIndex
    <3> QED BY <3>1 DEF BuildRow
  <2>2. dois = [i \in 1 .. Len(rows) |-> rows[i].doiO] /\ Len(rows) \in Nat
    BY DEF Sound
  <2> HIDE DEF dois
  <2> QED BY <2>1, <2>2
<1> HIDE DEF dois
<1>3. originals \in Seq(RowDois) /\ NoRepeats(originals)
  BY <1>2, DistinctMembers
<1> HIDE DEF originals
<1>4. ASSUME NEW o
      PROVE  /\ Sound(Both(o))
             /\ ToSet(Both(o)) = {r \in ToSet(rows) : r.doiO = o /\ r.doiR \in {remove, keep}}
  <2> DEFINE others == {r \in ToSet(rows) : ~(r.doiO = o /\ r.doiR \in {remove, keep})}
  <2>1. Both(o) = Without(rows, others)
    BY DEF Those
  <2> HIDE DEF Both, others
  <2>2. Sound(Without(rows, others)) /\ ToSet(Without(rows, others)) = ToSet(rows) \ others
    BY RestIsSound
  <2> QED BY <2>1, <2>2 DEF others
<1> HIDE DEF Both, per
<1>5. ASSUME NEW i \in DOMAIN originals
      PROVE  B[i] \subseteq ToSet(rows) /\ DecidedOn(B[i], per[i])
  BY <1>1, <1>4, DroppedUnderDecides
<1>6. ASSUME NEW i \in DOMAIN originals, NEW k \in DOMAIN originals, i # k
      PROVE  B[i] \cap B[k] = {}
  <2>1. originals[i] # originals[k]
    BY <1>3, <1>6 DEF NoRepeats
  <2> QED BY <1>4, <2>1
<1>7. /\ DOMAIN per = DOMAIN originals /\ DOMAIN B = DOMAIN originals
      /\ per \in Seq({per[i] : i \in DOMAIN per})
  BY <1>1, <1>3
<1> HIDE DEF B
<1> QED BY <1>5, <1>6, <1>7 DEF DecidedFor, per

\* What a step keeps of a frame: rows of which each stands for ids of its own,
\* none of them dropped before, and the ids there are, dropped ones included.
Good(f) == IsFrame(f) /\ Sound(f.rows) /\ AllIds(f.rows) \cap f.retired = {}
Standing(f) == AllIds(f.rows) \cup f.retired
Keeps(f, g) == Good(g) /\ Standing(g) = Standing(f)

LEMMA DropsKeep ==
    ASSUME NEW f, Good(f), NEW per, NEW B, DecidedFor(f.rows, per, B)
    PROVE  Keeps(f, WithDrops(f, per))
<1> DEFINE absorbing == Those(per, LAMBDA d : d.into # <<>>)
           drop == UNION {d.drop : d \in ToSet(per)}
           GainOf(r) == UNION {AllIds(d.absorbed) :
                                  d \in {d \in ToSet(absorbing) : Head(d.into).id = r.id}}
           Grown(r) == [r EXCEPT !.merged = r.merged \cup GainOf(r)]
           rest == NotAmong(f.rows, drop)
           gone == Among(f.rows, drop)
           taken == UNION {AllIds(d.absorbed) : d \in ToSet(absorbing)}
           rows == [i \in DOMAIN rest |-> Grown(rest[i])]
           fills == f.fills \o FlattenSeq([i \in DOMAIN absorbing |->
                       Noted(Head(absorbing[i].into).id, absorbing[i].absorbed, FALSE)])
           retired == f.retired \cup (AllIds(gone) \ taken)
           g == WithDrops(f, per)
<1>1. g = [rows |-> rows, fills |-> fills, retired |-> retired]
  BY DEF WithDrops
<1> HIDE DEF g, rows, fills, retired
<1>2. IsFrame(g) /\ g.rows = rows /\ g.retired = retired
  BY <1>1 DEF IsFrame
<1>3. /\ DOMAIN per = 1 .. Len(per) /\ ToSet(per) = {per[i] : i \in DOMAIN per}
      /\ \A i \in DOMAIN per : B[i] \subseteq ToSet(f.rows) /\ DecidedOn(B[i], per[i])
      /\ \A i, k \in DOMAIN per : i # k => B[i] \cap B[k] = {}
  BY DEF DecidedFor, ToSet
<1>4. ToSet(absorbing) = {d \in ToSet(per) : d.into # <<>>}
  <2> DEFINE others == {d \in ToSet(per) : ~(d.into # <<>>)}
  <2>1. absorbing = Without(per, others)
    BY DEF Those
  <2> HIDE DEF absorbing, others
  <2>2. ToSet(Without(per, others)) = ToSet(per) \ others
    BY WithoutIsTheRest DEF DecidedFor
  <2> QED BY <2>1, <2>2 DEF others
<1> HIDE DEF absorbing
<1>5. /\ Sound(rest) /\ ToSet(rest) = {r \in ToSet(f.rows) : r.id \notin drop}
      /\ Sound(gone) /\ ToSet(gone) = {r \in ToSet(f.rows) : r.id \in drop}
  BY AmongAre DEF Good
<1> HIDE DEF rest, gone, drop
<1>6. /\ AllIds(rest) \cap AllIds(gone) = {}
      /\ AllIds(rest) \cup AllIds(gone) = AllIds(f.rows)
  <2>1. /\ ToSet(rest) \in SUBSET ToSet(f.rows) /\ ToSet(gone) \in SUBSET ToSet(f.rows)
        /\ ToSet(rest) \cap ToSet(gone) = {} /\ ToSet(rest) \cup ToSet(gone) = ToSet(f.rows)
    BY <1>5
  <2>2. AllIds(rest) \cap AllIds(gone) = {}
    BY <2>1, UnionsApart, AllIdsAre DEF Good, Sound
  <2> QED BY <2>1, <2>2 DEF AllIds
\* What is absorbed is dropped, and what it goes into stays.
<1>7. ASSUME NEW d \in ToSet(absorbing)
      PROVE  /\ ToSet(d.absorbed) \subseteq ToSet(gone) /\ AllIds(d.absorbed) \subseteq AllIds(gone)
             /\ Head(d.into) \in ToSet(rest)
             /\ \E i \in DOMAIN per : per[i] = d
  <2>1. PICK i \in DOMAIN per : per[i] = d /\ d.into # <<>>
    BY <1>3, <1>4
  <2>2. /\ B[i] \subseteq ToSet(f.rows) /\ ToSet(d.absorbed) \subseteq B[i]
        /\ Head(d.into) \in B[i] /\ Head(d.into).id \notin d.drop
        /\ \A r \in ToSet(d.absorbed) : r.id \in d.drop
    BY <1>3, <2>1 DEF DecidedOn
  <2>3. d.drop \subseteq drop
    BY <1>4 DEF drop
  <2>4. ToSet(d.absorbed) \subseteq ToSet(gone)
    BY <1>5, <2>2, <2>3
  <2>5. Head(d.into).id \notin drop
    <3> SUFFICES ASSUME NEW e \in ToSet(per), Head(d.into).id \in e.drop PROVE FALSE
      BY DEF drop
    <3>1. PICK k \in DOMAIN per : per[k] = e
      BY <1>3
    <3>2. PICK r \in B[k] : r.id = Head(d.into).id
      BY <1>3, <3>1 DEF DecidedOn
    <3>3. r \in ToSet(f.rows) /\ Head(d.into) \in ToSet(f.rows)
      BY <1>3, <2>2, <3>2
    <3>4. r = Head(d.into)
      BY <3>2, <3>3, IdsAreOne DEF Good
    <3>5. i = k
      BY <1>3, <2>2, <3>2, <3>4
    <3> QED BY <2>1, <2>2, <3>1, <3>5
  <2>6. Head(d.into) \in ToSet(rest)
    BY <1>5, <2>2, <2>5
  <2> QED BY <2>1, <2>4, <2>6 DEF AllIds
<1>8. taken \subseteq AllIds(gone) /\ \A r : GainOf(r) \subseteq taken
  BY <1>7
<1>9. ASSUME NEW r \in ToSet(rest), NEW q \in ToSet(rest), r # q
      PROVE  GainOf(r) \cap GainOf(q) = {}
  <2> SUFFICES ASSUME NEW n \in GainOf(r), n \in GainOf(q) PROVE FALSE
    OBVIOUS
  <2>1. PICK d \in ToSet(absorbing) : Head(d.into).id = r.id /\ n \in AllIds(d.absorbed)
    OBVIOUS
  <2>2. PICK e \in ToSet(absorbing) : Head(e.into).id = q.id /\ n \in AllIds(e.absorbed)
    OBVIOUS
  <2>3. r.id # q.id
    BY <1>5, <1>9, IdsAreOne
  <2>4. PICK i \in DOMAIN per, k \in DOMAIN per : per[i] = d /\ per[k] = e
    BY <1>7
  <2>5. i # k
    BY <2>1, <2>2, <2>3, <2>4
  <2>6. ToSet(d.absorbed) \subseteq B[i] /\ ToSet(e.absorbed) \subseteq B[k]
    BY <1>3, <2>4 DEF DecidedOn
  <2>7. /\ ToSet(d.absorbed) \in SUBSET ToSet(f.rows) /\ ToSet(e.absorbed) \in SUBSET ToSet(f.rows)
        /\ ToSet(d.absorbed) \cap ToSet(e.absorbed) = {}
    BY <1>3, <2>5, <2>6
  <2>8. AllIds(d.absorbed) \cap AllIds(e.absorbed) = {}
    BY <2>7, UnionsApart, AllIdsAre DEF Good, Sound
  <2> QED BY <2>1, <2>2, <2>8
<1>10. taken = UNION {GainOf(r) : r \in ToSet(rest)}
  <2>1. ASSUME NEW d \in ToSet(absorbing)
        PROVE  \E r \in ToSet(rest) : AllIds(d.absorbed) \subseteq GainOf(r)
    <3>1. Head(d.into) \in ToSet(rest)
      BY <1>7
    <3>2. AllIds(d.absorbed) \subseteq GainOf(Head(d.into))
      OBVIOUS
    <3> QED BY <3>1, <3>2
  <2> QED BY <1>8, <2>1
<1> HIDE DEF GainOf, taken
<1>11. /\ DOMAIN rest = 1 .. Len(rest) /\ Len(rest) \in Nat
       /\ \A i \in DOMAIN rest : /\ rest[i] \in BuildRow /\ rest[i] \in ToSet(rest)
                                 /\ rest[i].id \notin rest[i].merged
       /\ \A i, k \in DOMAIN rest : i # k => /\ Ids(rest[i]) \cap Ids(rest[k]) = {}
                                             /\ rest[i] # rest[k]
  BY <1>5, SoundByIndex
<1>12. AllIds(gone) \subseteq Nat \ {0}
  <2>1. \A r \in ToSet(gone) : r \in BuildRow
    BY <1>5 DEF Sound, ToSet
  <2> QED BY <2>1 DEF AllIds, Ids, BuildRow
<1>13. ASSUME NEW r \in ToSet(rest)
       PROVE  /\ Grown(r) \in BuildRow /\ Grown(r).id \notin Grown(r).merged
              /\ Ids(Grown(r)) = Ids(r) \cup GainOf(r) /\ Ids(r) \cap taken = {}
  <2>1. r \in BuildRow /\ r.id \notin r.merged
    BY <1>5 DEF Sound, IdsApart, ToSet
  <2>2. GainOf(r) \subseteq Nat \ {0}
    BY <1>8, <1>12
  <2>3. /\ Grown(r) \in BuildRow /\ Grown(r).id = r.id
        /\ Grown(r).merged = r.merged \cup GainOf(r)
    BY <2>1, <2>2 DEF BuildRow
  <2>4. Ids(r) \cap taken = {} /\ r.id \in Ids(r)
    BY <1>6, <1>8, OwnIds
  <2> HIDE DEF Grown
  <2>5. r.id \notin GainOf(r)
    BY <1>8, <2>4
  <2> QED BY <2>1, <2>3, <2>4, <2>5 DEF Ids
<1> HIDE DEF Grown
<1>14. rows \in Seq(BuildRow) /\ DOMAIN rows = DOMAIN rest
       /\ \A i \in DOMAIN rows : rows[i] = Grown(rest[i])
  BY <1>11, <1>13 DEF rows
<1>15. \A i \in DOMAIN rows : rows[i].id \notin rows[i].merged
  BY <1>11, <1>13, <1>14
<1>16. ASSUME NEW i \in DOMAIN rows, NEW k \in DOMAIN rows, i # k
       PROVE  Ids(rows[i]) \cap Ids(rows[k]) = {}
  <2>1. /\ rest[i] \in ToSet(rest) /\ rest[k] \in ToSet(rest) /\ rest[i] # rest[k]
        /\ Ids(rest[i]) \cap Ids(rest[k]) = {}
    BY <1>11, <1>14, <1>16
  <2>2. /\ Ids(rows[i]) = Ids(rest[i]) \cup GainOf(rest[i])
        /\ Ids(rows[k]) = Ids(rest[k]) \cup GainOf(rest[k])
        /\ Ids(rest[i]) \cap taken = {} /\ Ids(rest[k]) \cap taken = {}
    BY <1>13, <1>14, <2>1
  <2>3. GainOf(rest[i]) \cap GainOf(rest[k]) = {}
    BY <1>9, <2>1
  <2>4. GainOf(rest[i]) \subseteq taken /\ GainOf(rest[k]) \subseteq taken
    BY <1>8
  <2> QED BY <2>1, <2>2, <2>3, <2>4
<1>17. Sound(rows)
  BY <1>14, <1>15, <1>16, ByIndex
<1>18. AllIds(rows) = AllIds(rest) \cup taken
  <2>1. ToSet(rows) = {Grown(r) : r \in ToSet(rest)}
    BY <1>14 DEF ToSet
  <2>2. AllIds(rows) = UNION {Ids(Grown(r)) : r \in ToSet(rest)}
    BY <2>1 DEF AllIds
  <2>3. \A r \in ToSet(rest) : Ids(Grown(r)) = Ids(r) \cup GainOf(r)
    BY <1>13
  <2>4. AllIds(rest) = UNION {Ids(r) : r \in ToSet(rest)}
    BY DEF AllIds
  <2> QED BY <1>10, <2>2, <2>3, <2>4
<1>19. AllIds(rows) \cap retired = {} /\ AllIds(rows) \cup retired = Standing(f)
  BY <1>6, <1>8, <1>18 DEF retired, Standing, Good
<1> QED BY <1>2, <1>17, <1>19 DEF Keeps, Good, Standing, g

-----------------------------------------------------------------------------
(***************************************************************************)
(* The steps of a build.                                                   *)
(***************************************************************************)
LEMMA KeepsIsTransitive ==
    ASSUME NEW f, NEW g, NEW h, Keeps(f, g), Keeps(g, h)
    PROVE  Keeps(f, h)
  BY DEF Keeps

LEMMA DropReplicationKeeps ==
    ASSUME NEW f, Good(f), NEW remove, NEW keep, remove # keep
    PROVE  Keeps(f, DropReplication(f, remove, keep))
<1>1. PICK B : DecidedFor(f.rows, Drops(f.rows, remove, keep), B)
  BY DropsDecide DEF Good
<1> QED BY <1>1, DropsKeep DEF DropReplication

LEMMA CollapseKeysKeeps ==
    ASSUME NEW f, Good(f)
    PROVE  Keeps(f, CollapseKeys(f))
  BY CollapseKeysIsSound DEF Good, Keeps, Standing

LEMMA MergePairsKeeps ==
    ASSUME NEW f, Good(f)
    PROVE  Keeps(f, MergePairs(f))
  BY MergePairsIsSound DEF Good, Keeps, Standing

LEMMA ReplaceOriginalKeeps ==
    ASSUME NEW f, Good(f), NEW remove, NEW keep \in RowDois
    PROVE  Keeps(f, ReplaceOriginal(f, remove, keep))
<1> DEFINE Replaced(r) == IF r.doiO = remove THEN [r EXCEPT !.doiO = keep] ELSE r
           rows == [i \in DOMAIN f.rows |-> Replaced(f.rows[i])]
           g == ReplaceOriginal(f, remove, keep)
<1>1. g = [f EXCEPT !.rows = rows]
  BY DEF ReplaceOriginal
<1> HIDE DEF g, rows
<1>2. g = [rows |-> rows, fills |-> f.fills, retired |-> f.retired]
  BY <1>1 DEF Good, IsFrame
<1>3. IsFrame(g) /\ g.rows = rows /\ g.retired = f.retired
  BY <1>2 DEF IsFrame
<1>4. ASSUME NEW r \in BuildRow
      PROVE  /\ Replaced(r) \in BuildRow /\ Replaced(r).id = r.id
             /\ Replaced(r).merged = r.merged
  BY DEF BuildRow
<1> HIDE DEF Replaced
<1>5. /\ DOMAIN f.rows = 1 .. Len(f.rows) /\ Len(f.rows) \in Nat
      /\ \A i \in DOMAIN f.rows : f.rows[i] \in BuildRow /\ f.rows[i].id \notin f.rows[i].merged
      /\ \A i, k \in DOMAIN f.rows : i # k => Ids(f.rows[i]) \cap Ids(f.rows[k]) = {}
  BY SoundByIndex DEF Good
<1>6. /\ rows \in Seq(BuildRow) /\ DOMAIN rows = DOMAIN f.rows
      /\ \A i \in DOMAIN rows : rows[i].id = f.rows[i].id /\ rows[i].merged = f.rows[i].merged
  BY <1>4, <1>5 DEF rows
<1>7. Sound(rows)
  BY <1>5, <1>6, ByIndex DEF Ids
<1>8. AllIds(rows) = AllIds(f.rows)
  <2>1. \A i \in DOMAIN rows : Ids(rows[i]) = Ids(f.rows[i])
    BY <1>6 DEF Ids
  <2>2. AllIds(rows) = UNION {Ids(rows[i]) : i \in DOMAIN rows}
    BY DEF AllIds, ToSet
  <2>3. AllIds(f.rows) = UNION {Ids(f.rows[i]) : i \in DOMAIN f.rows}
    BY DEF AllIds, ToSet
  <2> QED BY <1>6, <2>1, <2>2, <2>3
<1> QED BY <1>3, <1>7, <1>8 DEF Keeps, Good, Standing, g

LEMMA OtherIsOther ==
    \A doi \in {"p", "j", "o1", "o2"} : Other(doi) # doi
  BY DEF Other

LEMMA ConfirmedKeeps ==
    ASSUME NEW f, Good(f)
    PROVE  Keeps(f, Confirmed(f))
<1> DEFINE rep == build.reports
           orig == build.originals
           reported == IF rep \in {"p", "j"} THEN DropReplication(f, Other(rep), rep) ELSE f
<1>1. Keeps(f, reported)
  <2>1. CASE rep \in {"p", "j"}
    BY <2>1, OtherIsOther, DropReplicationKeeps
  <2>2. CASE rep \notin {"p", "j"}
    BY <2>2 DEF Keeps
  <2> QED BY <2>1, <2>2
<1>2. Confirmed(f) = IF orig \in {"o1", "o2"}
                     THEN MergePairs(ReplaceOriginal(reported, Other(orig), orig)) ELSE reported
  BY DEF Confirmed
<1> HIDE DEF reported
<1>3. CASE orig \in {"o1", "o2"}
  <2> DEFINE replaced == ReplaceOriginal(reported, Other(orig), orig)
  <2>1. orig \in RowDois
    BY <1>3, BuildAssumption
  <2>2. Keeps(reported, replaced)
    BY <1>1, <2>1, ReplaceOriginalKeeps DEF Keeps
  <2> HIDE DEF replaced
  <2>3. Keeps(replaced, MergePairs(replaced))
    BY <2>2, MergePairsKeeps DEF Keeps
  <2> QED BY <1>1, <1>2, <1>3, <2>2, <2>3 DEF Keeps, replaced
<1>4. CASE orig \notin {"o1", "o2"}
  BY <1>1, <1>2, <1>4
<1> QED BY <1>3, <1>4

LEMMA ResolvedKeeps ==
    ASSUME NEW f, Good(f)
    PROVE  Keeps(f, Resolved(f))
<1> DEFINE rep == KeptReport(f.rows)
           orig == KeptOriginal(f.rows)
           reported == IF rep = Blank THEN f ELSE DropReplication(f, Other(rep), rep)
<1>1. rep \in {Blank, "p", "j"} /\ orig \in {Blank, "o1", "o2"}
  BY DEF KeptReport, KeptOriginal
<1>2. Resolved(f) = IF orig = Blank THEN reported
                    ELSE MergePairs(ReplaceOriginal(reported, Other(orig), orig))
  BY DEF Resolved
<1> HIDE DEF rep, orig
<1>3. Keeps(f, reported)
  <2>1. CASE rep # Blank
    BY <1>1, <2>1, OtherIsOther, DropReplicationKeeps
  <2>2. CASE rep = Blank
    BY <2>2 DEF Keeps
  <2> QED BY <2>1, <2>2
<1> HIDE DEF reported
<1>4. CASE orig # Blank
  <2> DEFINE replaced == ReplaceOriginal(reported, Other(orig), orig)
  <2>1. orig \in RowDois
    BY <1>1, <1>4, BuildAssumption
  <2>2. Keeps(reported, replaced)
    BY <1>3, <2>1, ReplaceOriginalKeeps DEF Keeps
  <2> HIDE DEF replaced
  <2>3. Keeps(replaced, MergePairs(replaced))
    BY <2>2, MergePairsKeeps DEF Keeps
  <2> QED BY <1>2, <1>3, <1>4, <2>2, <2>3 DEF Keeps, replaced
<1>5. CASE orig = Blank
  BY <1>2, <1>3, <1>5
<1> QED BY <1>4, <1>5

LEMMA FilledKeepsIds ==
    ASSUME NEW r \in BuildRow, NEW fills
    PROVE  FilledByHand(r, fills).id = r.id /\ FilledByHand(r, fills).merged = r.merged
<1> DEFINE entries == Those(fills, LAMBDA n : n.into \in Ids(r))
           OwnKind(n) == ByHand(n.row) = ByHand(r)
           Earlier(m, n) == IF OwnKind(m) = OwnKind(n) THEN m.row.id < n.row.id ELSE OwnKind(m)
           Sooner(k, i) == \/ Earlier(entries[k], entries[i])
                           \/ k < i /\ ~Earlier(entries[i], entries[k])
           Ahead(i) == {k \in DOMAIN entries : Sooner(k, i)}
           ordered == [n \in DOMAIN entries |->
                         entries[CHOOSE i \in DOMAIN entries : Cardinality(Ahead(i)) = n - 1]]
           filled == FillBlanksByHand(r, [i \in DOMAIN ordered |-> ordered[i].row])
           links == Those(ordered, LAMBDA n : n.link /\ n.row.url # Blank)
           url == IF filled.url = Blank /\ links # <<>> THEN Head(links).row.url ELSE filled.url
<1>1. FilledByHand(r, fills) = IF entries = <<>> THEN r ELSE [filled EXCEPT !.url = url]
  BY DEF FilledByHand
<1> HIDE DEF entries, ordered, links
<1>2. filled.id = r.id /\ filled.merged = r.merged /\ DOMAIN filled = Fields
  BY HandFillsKeep
<1> HIDE DEF filled, url
<1> QED BY <1>1, <1>2 DEF Fields

\* What stays of that once the rows added by hand have filled in what they can.
Placed(f) ==
    /\ \A i \in DOMAIN f.rows : f.rows[i].id \notin f.rows[i].merged
    /\ \A i, k \in DOMAIN f.rows : i # k => Ids(f.rows[i]) \cap Ids(f.rows[k]) = {}
    /\ AllIds(f.rows) \cap f.retired = {}

LEMMA GoodIsPlaced ==
    ASSUME NEW f, Good(f)
    PROVE  Placed(f)
  BY SoundByIndex DEF Good, Placed

LEMMA FillsArePlaced ==
    ASSUME NEW f, Good(f)
    PROVE  Placed(ApplyFills(f)) /\ Standing(ApplyFills(f)) = Standing(f)
<1> DEFINE rows == [i \in DOMAIN f.rows |-> FilledByHand(f.rows[i], f.fills)]
           g == ApplyFills(f)
<1>1. g = [f EXCEPT !.rows = rows, !.fills = <<>>]
  BY DEF ApplyFills
<1> HIDE DEF g, rows
<1>2. g.rows = rows /\ g.retired = f.retired
  <2>1. g = [rows |-> rows, fills |-> <<>>, retired |-> f.retired]
    BY <1>1 DEF Good, IsFrame
  <2> QED BY <2>1
<1>3. /\ DOMAIN rows = DOMAIN f.rows
      /\ \A i \in DOMAIN rows : rows[i].id = f.rows[i].id /\ rows[i].merged = f.rows[i].merged
  <2>1. \A i \in DOMAIN f.rows : f.rows[i] \in BuildRow
    BY SoundByIndex DEF Good
  <2> QED BY <2>1, FilledKeepsIds DEF rows
<1>4. \A i \in DOMAIN rows : Ids(rows[i]) = Ids(f.rows[i])
  BY <1>3 DEF Ids
<1>5. AllIds(rows) = AllIds(f.rows)
  <2>1. AllIds(rows) = UNION {Ids(rows[i]) : i \in DOMAIN rows}
    BY DEF AllIds, ToSet
  <2>2. AllIds(f.rows) = UNION {Ids(f.rows[i]) : i \in DOMAIN f.rows}
    BY DEF AllIds, ToSet
  <2> QED BY <1>3, <1>4, <2>1, <2>2
<1>6. Placed(f)
  BY GoodIsPlaced
<1> QED BY <1>2, <1>3, <1>4, <1>5, <1>6 DEF Placed, Standing, g

-----------------------------------------------------------------------------
(***************************************************************************)
(* A build, from the rows it loads.                                        *)
(***************************************************************************)
BuildInv ==
    /\ build \in BuildInputs
    /\ stage \in {"loaded", "ruled", "collapsed", "merged", "resolved", "done"}
    /\ stage # "done" => Good(frame) /\ Good(plain)
    /\ Placed(frame) /\ Standing(frame) = 1 .. Len(build.rows)
    /\ Placed(plain) /\ Standing(plain) \subseteq 1 .. Len(build.rows)

\* The rows of an input, or those of them a test leaves out.
LEMMA LoadedIsGood ==
    ASSUME NEW rows \in Seq(BuildRow),
           \A i \in DOMAIN rows : rows[i].id = i /\ rows[i].merged = {}
    PROVE  /\ Good(LoadedRows(rows)) /\ Standing(LoadedRows(rows)) = 1 .. Len(rows)
           /\ \A gone : /\ Good(LoadedRows(Without(rows, gone)))
                        /\ Standing(LoadedRows(Without(rows, gone))) \subseteq 1 .. Len(rows)
<1>1. \A i \in DOMAIN rows : Ids(rows[i]) = {i}
  BY DEF Ids
<1>2. Sound(rows)
  <2>1. \A i, k \in DOMAIN rows : i # k => Ids(rows[i]) \cap Ids(rows[k]) = {}
    BY <1>1
  <2>2. \A i \in DOMAIN rows : rows[i].id \notin rows[i].merged
    OBVIOUS
  <2> QED BY <2>1, <2>2, ByIndex
<1>3. AllIds(rows) = 1 .. Len(rows)
  <2>1. \A n : n \in AllIds(rows) <=> \E i \in DOMAIN rows : n \in Ids(rows[i])
    BY DEF AllIds, ToSet
  <2>2. \A n : n \in AllIds(rows) <=> n \in DOMAIN rows
    BY <1>1, <2>1
  <2> HIDE DEF AllIds
  <2>3. DOMAIN rows = 1 .. Len(rows)
    OBVIOUS
  <2> QED BY <2>2, <2>3
<1>4. ASSUME NEW q, Sound(q), AllIds(q) \subseteq 1 .. Len(rows)
      PROVE  Good(LoadedRows(q)) /\ Standing(LoadedRows(q)) = AllIds(q)
  BY <1>4 DEF LoadedRows, Good, IsFrame, Standing
<1>5. ASSUME NEW gone
      PROVE  Sound(Without(rows, gone)) /\ AllIds(Without(rows, gone)) \subseteq 1 .. Len(rows)
  <2>1. /\ Sound(Without(rows, gone))
        /\ AllIds(rows) = AllIds(Without(rows, gone)) \cup IdsUnion(ToSet(rows) \cap gone)
    BY <1>2, RestIsSound
  <2> QED BY <1>3, <2>1
<1> QED BY <1>2, <1>3, <1>4, <1>5

LEMMA BuildInvInit == BuildInit => BuildInv
<1> SUFFICES ASSUME BuildInit PROVE BuildInv
  OBVIOUS
<1>1. /\ build \in BuildInputs /\ build.rows \in Seq(BuildRow)
      /\ \A i \in DOMAIN build.rows : build.rows[i].id = i /\ build.rows[i].merged = {}
  BY BuildAssumption DEF BuildInit
<1> DEFINE others == {r \in ToSet(build.rows) : ~(~ByHand(r))}
<1>2. frame = LoadedRows(build.rows) /\ plain = LoadedRows(Without(build.rows, others))
  BY DEF BuildInit, Those
<1> HIDE DEF others
<1>3. /\ Good(frame) /\ Standing(frame) = 1 .. Len(build.rows)
      /\ Good(plain) /\ Standing(plain) \subseteq 1 .. Len(build.rows)
  BY <1>1, <1>2, LoadedIsGood
<1> QED BY <1>1, <1>3, GoodIsPlaced DEF BuildInit, BuildInv

LEMMA BuildInvNext == BuildInv /\ [BuildNext]_buildVars => BuildInv'
<1> SUFFICES ASSUME BuildInv, [BuildNext]_buildVars PROVE BuildInv'
  OBVIOUS
<1>1. ASSUME UNCHANGED build, stage # "done",
             stage' \in {"ruled", "collapsed", "merged", "resolved"},
             Keeps(frame, frame'), Keeps(plain, plain')
      PROVE  BuildInv'
  <2>1. Good(frame)' /\ Good(plain)'
    BY <1>1 DEF Keeps, Good, IsFrame, Sound, AllIds
  <2>2. Placed(frame)' /\ Placed(plain)'
    <3>1. Placed(frame') /\ Placed(plain')
      BY <1>1, GoodIsPlaced DEF Keeps
    <3> QED BY <3>1 DEF Placed
  <2>3. Standing(frame)' = Standing(frame) /\ Standing(plain)' = Standing(plain)
    BY <1>1 DEF Keeps, Standing
  <2> QED BY <1>1, <2>1, <2>2, <2>3 DEF BuildInv
<1>2. CASE ApplyRulings
  <2>1. Keeps(frame, frame') /\ Keeps(plain, plain')
    BY <1>2, ConfirmedKeeps DEF ApplyRulings, Advance, BuildInv
  <2> QED BY <1>1, <1>2, <2>1 DEF ApplyRulings, Advance
<1>3. CASE DropDuplicates
  <2>1. Keeps(frame, frame') /\ Keeps(plain, plain')
    BY <1>3, CollapseKeysKeeps DEF DropDuplicates, Advance, BuildInv
  <2> QED BY <1>1, <1>3, <2>1 DEF DropDuplicates, Advance
<1>4. CASE MergeDuplicates
  <2>1. Keeps(frame, frame') /\ Keeps(plain, plain')
    BY <1>4, MergePairsKeeps DEF MergeDuplicates, Advance, BuildInv
  <2> QED BY <1>1, <1>4, <2>1 DEF MergeDuplicates, Advance
<1>5. CASE ResolvePreprints
  <2>1. Keeps(frame, frame') /\ Keeps(plain, plain')
    BY <1>5, ResolvedKeeps DEF ResolvePreprints, Advance, BuildInv
  <2> QED BY <1>1, <1>5, <2>1 DEF ResolvePreprints, Advance
<1>6. CASE FillFromHand
  <2>1. /\ frame' = ApplyFills(frame) /\ plain' = ApplyFills(plain) /\ UNCHANGED build
        /\ stage = "resolved" /\ stage' = "done"
    BY <1>6 DEF FillFromHand, Advance
  <2>2. Good(frame) /\ Good(plain)
    BY <2>1 DEF BuildInv
  <2>3. /\ Placed(ApplyFills(frame)) /\ Standing(ApplyFills(frame)) = Standing(frame)
        /\ Placed(ApplyFills(plain)) /\ Standing(ApplyFills(plain)) = Standing(plain)
    BY <2>2, FillsArePlaced
  <2>4. Placed(frame') /\ Placed(plain')
    BY <2>1, <2>3
  <2>5. Standing(frame') = Standing(frame) /\ Standing(plain') = Standing(plain)
    BY <2>1, <2>3
  <2>6. Placed(frame)' /\ Placed(plain)'
    BY <2>4 DEF Placed
  <2>7. Standing(frame)' = Standing(frame) /\ Standing(plain)' = Standing(plain)
    BY <2>5 DEF Standing
  <2> QED BY <2>1, <2>6, <2>7 DEF BuildInv
<1>7. CASE UNCHANGED buildVars
  BY <1>7 DEF BuildInv, buildVars, Good, IsFrame, Sound, Placed, Standing, AllIds
<1> QED BY <1>2, <1>3, <1>4, <1>5, <1>6, <1>7 DEF BuildNext

LEMMA BuildInvShows == BuildInv => BuildTypeOK /\ EveryIdHasItsPlace
<1> SUFFICES ASSUME BuildInv PROVE BuildTypeOK /\ EveryIdHasItsPlace
  OBVIOUS
<1>1. ASSUME NEW f, Placed(f)
      PROVE  /\ \A i, k \in DOMAIN f.rows : f.rows[i].id = f.rows[k].id => i = k
             /\ \A r \in ToSet(f.rows) : r.id \notin r.merged /\ Ids(r) \subseteq Standing(f)
             /\ \A r, q \in ToSet(f.rows) : r # q => Ids(r) \cap Ids(q) = {}
  <2>1. \A i, k \in DOMAIN f.rows : f.rows[i].id = f.rows[k].id => i = k
    BY <1>1, OwnIds DEF Placed
  <2>2. \A r \in ToSet(f.rows) : r.id \notin r.merged /\ Ids(r) \subseteq Standing(f)
    BY <1>1, OwnIds DEF Placed, Standing, ToSet
  <2>3. \A r, q \in ToSet(f.rows) : r # q => Ids(r) \cap Ids(q) = {}
    BY <1>1 DEF Placed, ToSet
  <2> QED BY <2>1, <2>2, <2>3
<1>2. BuildTypeOK
  <2>1. ASSUME NEW f \in {frame, plain}
        PROVE  /\ \A i, k \in DOMAIN f.rows : f.rows[i].id = f.rows[k].id => i = k
               /\ \A r \in ToSet(f.rows) : /\ Ids(r) \subseteq 1 .. Len(build.rows)
                                           /\ r.id \notin r.merged
    <3>1. Placed(f) /\ Standing(f) \subseteq 1 .. Len(build.rows)
      BY DEF BuildInv
    <3> QED BY <1>1, <3>1
  <2> QED BY <2>1 DEF BuildInv, BuildTypeOK
<1>3. EveryIdHasItsPlace
  <2>1. \A i \in {r.id : r \in ToSet(build.rows)} : i \in Standing(frame)
    <3>1. \A i \in DOMAIN build.rows : build.rows[i].id \in 1 .. Len(build.rows)
      BY BuildAssumption DEF BuildInv
    <3> QED BY <3>1 DEF BuildInv, ToSet
  <2>2. \A i \in AllIds(frame.rows) : \E r \in ToSet(frame.rows) : i \in Ids(r)
    BY DEF AllIds
  <2>3. Placed(frame)
    BY DEF BuildInv
  <2> QED BY <1>1, <2>1, <2>2, <2>3 DEF EveryIdHasItsPlace, Standing, Placed
<1> QED BY <1>2, <1>3

\* No id that a build loads is lost on the way, and none has two places: it is a
\* row's own, one that was folded into it, or one that a preprint rule dropped.
THEOREM IdsHaveTheirPlaces == BuildSpec => [](BuildTypeOK /\ EveryIdHasItsPlace)
<1>1. BuildSpec => []BuildInv
  BY BuildInvInit, BuildInvNext, PTL DEF BuildSpec
<1> QED BY <1>1, BuildInvShows, PTL

-----------------------------------------------------------------------------
(***************************************************************************)
(* Two builds side by side: a frame, and the one of the same rows without  *)
(* those added by hand.                                                    *)
(***************************************************************************)
\* x has every value of y and stands for every id that y stands for.
Upholds(x, y) ==
    /\ x.id = y.id /\ x.source = y.source /\ x.doiO = y.doiO /\ x.doiR = y.doiR
    /\ x.url = y.url /\ x.outcome = y.outcome /\ x.quote = y.quote
    /\ x.distinct = y.distinct /\ x.clash = y.clash
    /\ y.merged \subseteq x.merged

\* The rows Y are those of X that were not added by hand; of the others nothing is
\* registered.
Matched(X, Y) ==
    /\ \A y \in Y : ~ByHand(y) /\ \E x \in X : Upholds(x, y)
    /\ \A x \in X : ~ByHand(x) => \E y \in Y : Upholds(x, y)
    /\ \A x \in X : ByHand(x) => ~x.registered

Beside(s, t) == Sound(s) /\ Sound(t) /\ Matched(ToSet(s), ToSet(t))

\* ... and they come in the same order.
InStep(s, t) ==
    \A x, p \in ToSet(s) : \A y, q \in ToSet(t) :
        Upholds(x, y) /\ Upholds(p, q) /\ AheadOf(s, x, p) => AheadOf(t, y, q)

NoneByHand(s) == \A x \in ToSet(s) : ~ByHand(x)

\* Nothing is registered of a row added by hand: only such rows yield.
LEMMA YieldingAreByHand ==
    ASSUME NEW rows, \A r \in ToSet(rows) : ByHand(r) => ~r.registered
    PROVE  YieldingIds(rows) = {r.id : r \in {r \in ToSet(rows) : ByHand(r)}}
<1> DEFINE hand == {r \in ToSet(rows) : ByHand(r)}
           senior == {r \in hand : r.registered}
<1>1. senior = {}
  OBVIOUS
<1> QED BY <1>1 DEF YieldingIds

LEMMA HandRowsYield ==
    ASSUME NEW s, NEW t, Beside(s, t)
    PROVE  /\ YieldingIds(s) = {r.id : r \in {r \in ToSet(s) : ByHand(r)}}
           /\ \A r \in ToSet(s) : r.id \in YieldingIds(s) <=> ByHand(r)
           /\ YieldingIds(t) = {}
<1>1. YieldingIds(s) = {r.id : r \in {r \in ToSet(s) : ByHand(r)}}
  BY YieldingAreByHand DEF Beside, Matched
<1>2. \A r \in ToSet(s) : r.id \in YieldingIds(s) <=> ByHand(r)
  <2>1. Sound(s)
    BY DEF Beside
  <2> QED BY <1>1, <2>1, IdsAreOne
<1>3. \A r \in ToSet(t) : ~ByHand(r)
  BY DEF Beside, Matched
<1>4. YieldingIds(t) = {}
  <2>1. {r \in ToSet(t) : ByHand(r)} = {}
    BY <1>3
  <2> QED BY <1>3, <2>1, YieldingAreByHand
<1> QED BY <1>1, <1>2, <1>4

LEMMA OneCounterpart ==
    ASSUME NEW s, NEW t, Beside(s, t)
    PROVE  /\ \A x \in ToSet(s) : \A y, q \in ToSet(t) : Upholds(x, y) /\ Upholds(x, q) => y = q
           /\ \A x, p \in ToSet(s) : \A y \in ToSet(t) : Upholds(x, y) /\ Upholds(p, y) => x = p
           /\ \A x \in ToSet(s) : \A y \in ToSet(t) : Upholds(x, y) => ~ByHand(x)
<1>1. ASSUME NEW x \in ToSet(s), NEW y \in ToSet(t), NEW q \in ToSet(t),
             Upholds(x, y), Upholds(x, q)
      PROVE  y = q
  <2>1. y.id = q.id /\ Sound(t)
    BY <1>1 DEF Upholds, Beside, Matched
  <2> QED BY <2>1, IdsAreOne
<1>2. ASSUME NEW x \in ToSet(s), NEW p \in ToSet(s), NEW y \in ToSet(t),
             Upholds(x, y), Upholds(p, y)
      PROVE  x = p
  <2>1. x.id = p.id /\ Sound(s)
    BY <1>2 DEF Upholds, Beside, Matched
  <2> QED BY <2>1, IdsAreOne
<1>3. ASSUME NEW x \in ToSet(s), NEW y \in ToSet(t), Upholds(x, y) PROVE ~ByHand(x)
  BY <1>3 DEF Upholds, Beside, Matched, ByHand
<1> QED BY <1>1, <1>2, <1>3

\* A deletion that takes counterparts together leaves the two side by side.
LEMMA RestBeside ==
    ASSUME NEW s, NEW t, Beside(s, t), NEW X, NEW Y,
           \A x \in ToSet(s) : \A y \in ToSet(t) : Upholds(x, y) => (x \in X <=> y \in Y)
    PROVE  /\ Beside(Without(s, X), Without(t, Y))
           /\ (InStep(s, t) => InStep(Without(s, X), Without(t, Y)))
<1> DEFINE u == Without(s, X)
           v == Without(t, Y)
<1>1. Sound(u) /\ ToSet(u) = ToSet(s) \ X /\ Sound(v) /\ ToSet(v) = ToSet(t) \ Y
  BY RestIsSound DEF Beside, Matched
<1>2. /\ \A a, b : AheadOf(u, a, b) => AheadOf(s, a, b)
      /\ \A a, b : AheadOf(v, a, b) => AheadOf(t, a, b)
  BY RestInOrder DEF Beside, Matched, Sound
<1> HIDE DEF u, v
<1>3. Beside(u, v)
  <2>1. ASSUME NEW y \in ToSet(v) PROVE ~ByHand(y) /\ \E x \in ToSet(u) : Upholds(x, y)
    <3>1. PICK x \in ToSet(s) : Upholds(x, y)
      BY <1>1 DEF Beside, Matched
    <3> QED BY <1>1, <3>1 DEF Beside, Matched
  <2>2. ASSUME NEW x \in ToSet(u), ~ByHand(x) PROVE \E y \in ToSet(v) : Upholds(x, y)
    <3>1. PICK y \in ToSet(t) : Upholds(x, y)
      BY <1>1, <2>2 DEF Beside, Matched
    <3> QED BY <1>1, <3>1
  <2>3. \A x \in ToSet(u) : ByHand(x) => ~x.registered
    BY <1>1 DEF Beside, Matched
  <2> QED BY <1>1, <2>1, <2>2, <2>3 DEF Beside, Matched
<1>4. ASSUME InStep(s, t), NEW x \in ToSet(u), NEW p \in ToSet(u),
             NEW y \in ToSet(v), NEW q \in ToSet(v),
             Upholds(x, y), Upholds(p, q), AheadOf(u, x, p)
      PROVE  AheadOf(v, y, q)
  <2>1. AheadOf(t, y, q)
    BY <1>1, <1>2, <1>4 DEF InStep
  <2>2. y # q /\ ~AheadOf(t, q, y)
    BY <2>1, OneOrder DEF Beside, Matched, Sound
  <2>3. AheadOf(v, y, q) \/ AheadOf(v, q, y)
    BY <1>1, <2>2, OneOrder DEF Sound
  <2> QED BY <1>2, <2>2, <2>3
<1> QED BY <1>3, <1>4 DEF InStep, u, v

\* Rows added by hand may be put aside.
LEMMA HandRowsAside ==
    ASSUME NEW s, NEW t, Beside(s, t), NEW X, \A r \in X : ByHand(r)
    PROVE  Beside(Without(s, X), t) /\ (InStep(s, t) => InStep(Without(s, X), t))
<1> DEFINE u == Without(s, X)
<1>1. Sound(u) /\ ToSet(u) = ToSet(s) \ X
  BY RestIsSound DEF Beside
<1>2. \A a, b : AheadOf(u, a, b) => AheadOf(s, a, b)
  BY RestInOrder DEF Beside, Sound
<1> HIDE DEF u
<1>3. \A y \in ToSet(t) : \E x \in ToSet(u) : Upholds(x, y)
  BY <1>1, OneCounterpart DEF Beside, Matched
<1>4. Beside(u, t)
  BY <1>1, <1>3 DEF Beside, Matched
<1>5. InStep(s, t) => InStep(u, t)
  BY <1>1, <1>2 DEF InStep
<1> QED BY <1>4, <1>5 DEF u

-----------------------------------------------------------------------------
(***************************************************************************)
(* The first of some of them.                                              *)
(***************************************************************************)
LEMMA FirstsUphold ==
    ASSUME NEW s, NEW t, Beside(s, t), InStep(s, t), NoneByHand(s), NEW V, NEW W,
           \A x \in ToSet(s) : \A y \in ToSet(t) : Upholds(x, y) => (x \in V <=> y \in W)
    PROVE  /\ ToSet(s) \cap V # {} <=> ToSet(t) \cap W # {}
           /\ (ToSet(t) \cap W # {} => /\ Upholds(FirstIn(s, V), FirstIn(t, W))
                                       /\ FirstIn(s, V) \in ToSet(s) \cap V
                                       /\ FirstIn(t, W) \in ToSet(t) \cap W)
<1>1. ToSet(s) \cap V # {} <=> ToSet(t) \cap W # {}
  BY DEF Beside, Matched, NoneByHand
<1>2. ASSUME ToSet(t) \cap W # {}
      PROVE  /\ Upholds(FirstIn(s, V), FirstIn(t, W))
             /\ FirstIn(s, V) \in ToSet(s) \cap V /\ FirstIn(t, W) \in ToSet(t) \cap W
  <2> DEFINE x == FirstIn(s, V)
             y == FirstIn(t, W)
  <2>1. /\ x \in ToSet(s) \cap V /\ y \in ToSet(t) \cap W
        /\ \A r \in ToSet(s) \cap V : r = x \/ AheadOf(s, x, r)
        /\ \A r \in ToSet(t) \cap W : r = y \/ AheadOf(t, y, r)
    BY <1>1, <1>2, FirstInIs DEF Beside, Matched, Sound
  <2> HIDE DEF x, y
  <2>2. PICK q \in ToSet(t) : Upholds(x, q)
    BY <2>1 DEF Beside, Matched, NoneByHand
  <2>3. PICK p \in ToSet(s) : Upholds(p, y)
    BY <2>1 DEF Beside, Matched
  <2>4. q \in W /\ p \in V
    BY <2>1, <2>2, <2>3
  <2>5. p = x
    <3> SUFFICES ASSUME p # x PROVE FALSE
      OBVIOUS
    <3>1. AheadOf(t, q, y)
      BY <2>1, <2>2, <2>3, <2>4 DEF InStep
    <3>2. q # y /\ ~AheadOf(t, y, q)
      BY <3>1, OneOrder DEF Beside, Matched, Sound
    <3> QED BY <2>1, <2>4, <3>2
  <2> QED BY <2>1, <2>3, <2>5 DEF x, y
<1> QED BY <1>1, <1>2

-----------------------------------------------------------------------------
(***************************************************************************)
(* What is read of rows that are side by side.                             *)
(***************************************************************************)
LEMMA ListsAgree ==
    ASSUME NEW s, NEW t, Beside(s, t), NoneByHand(s)
    PROVE  /\ OutcomesOf(s) = OutcomesOf(t) /\ UrlsOf(s) = UrlsOf(t)
           /\ WebsiteJudged(s) = WebsiteJudged(t)
           /\ (\E r \in ToSet(s) : r.clash) = (\E r \in ToSet(t) : r.clash)
           /\ AllIds(t) \subseteq AllIds(s)
<1>1. \A y \in ToSet(t) : \E x \in ToSet(s) : Upholds(x, y)
  BY DEF Beside, Matched
<1>2. \A x \in ToSet(s) : \E y \in ToSet(t) : Upholds(x, y)
  BY DEF Beside, Matched, NoneByHand
<1>3. OutcomesOf(s) = OutcomesOf(t)
  BY <1>1, <1>2 DEF OutcomesOf, Upholds
<1>4. UrlsOf(s) = UrlsOf(t)
  BY <1>1, <1>2 DEF UrlsOf, Upholds
<1>5. WebsiteJudged(s) = WebsiteJudged(t)
  BY <1>1, <1>2 DEF WebsiteJudged, Having, Judged, Upholds
<1>6. (\E r \in ToSet(s) : r.clash) = (\E r \in ToSet(t) : r.clash)
  BY <1>1, <1>2 DEF Upholds
<1>7. AllIds(t) \subseteq AllIds(s)
  <2> SUFFICES ASSUME NEW y \in ToSet(t), NEW i \in Ids(y) PROVE i \in AllIds(s)
    BY DEF AllIds
  <2>1. PICK x \in ToSet(s) : Upholds(x, y)
    BY <1>1
  <2>2. i \in Ids(x)
    BY <2>1 DEF Ids, Upholds
  <2> QED BY <2>2 DEF AllIds
<1> QED BY <1>3, <1>4, <1>5, <1>6, <1>7

EvidenceFor(rows, outcome) == {r \in ToSet(rows) : r.outcome = outcome /\ r.quote # {}}
TakenBy(row, rows) ==
    IF JudgedOf(rows) = {} THEN row
    ELSE [row EXCEPT !.outcome = FirstIn(rows, JudgedOf(rows)).outcome,
                     !.quote = FirstIn(rows, JudgedOf(rows)).quote]

EvidencedBy(taken, rows) ==
    IF Judged(taken) /\ taken.quote = {} /\ EvidenceFor(rows, taken.outcome) # {}
    THEN [taken EXCEPT !.quote = FirstIn(rows, EvidenceFor(rows, taken.outcome)).quote]
    ELSE taken

LEMMA FillBlanksIs ==
    ASSUME NEW row \in BuildRow, NEW givers \in Seq(BuildRow)
    PROVE  FillBlanks(row, givers) =
              EvidencedBy(TakenBy(row, <<row>> \o givers), <<row>> \o givers)
<1> DEFINE rows == <<row>> \o givers
           taken == IF ~Having(rows, Judged) THEN row
                    ELSE [row EXCEPT !.outcome = FirstWith(rows, Judged).outcome,
                                     !.quote = FirstWith(rows, Judged).quote]
           Evidence(r) == r.outcome = taken.outcome /\ r.quote # {}
<1>1. rows \in Seq(BuildRow) /\ DOMAIN rows = 1 .. Len(rows)
  OBVIOUS
<1>2. FillBlanks(row, givers) = IF Judged(taken) /\ taken.quote = {} /\ Having(rows, Evidence)
                                THEN [taken EXCEPT !.quote = FirstWith(rows, Evidence).quote]
                                ELSE taken
  BY DEF FillBlanks
<1> HIDE DEF rows
<1>3. FirstWith(rows, Judged) = FirstIn(rows, JudgedOf(rows))
      /\ (Having(rows, Judged) <=> JudgedOf(rows) # {})
  <2>1. {i \in 1 .. Len(rows) : Judged(rows[i])} = PlacesIn(rows, JudgedOf(rows))
    BY <1>1 DEF PlacesIn, JudgedOf, ToSet
  <2> QED BY <2>1 DEF FirstWith, SelectInSeq, FirstIn, Having, JudgedOf
<1>4. taken = TakenBy(row, rows)
  BY <1>3 DEF TakenBy
<1> HIDE DEF taken
<1>5. FirstWith(rows, Evidence) = FirstIn(rows, EvidenceFor(rows, taken.outcome))
      /\ (Having(rows, Evidence) <=> EvidenceFor(rows, taken.outcome) # {})
  <2>1. {i \in 1 .. Len(rows) : Evidence(rows[i])}
           = PlacesIn(rows, EvidenceFor(rows, taken.outcome))
    BY <1>1 DEF PlacesIn, EvidenceFor, ToSet
  <2> QED BY <2>1 DEF FirstWith, SelectInSeq, FirstIn, Having, EvidenceFor
<1> HIDE DEF Evidence
<1>6. FillBlanks(row, givers) = EvidencedBy(taken, rows)
  BY <1>2, <1>5 DEF EvidencedBy
<1> QED BY <1>4, <1>6 DEF rows

LEMMA FillsUphold ==
    ASSUME NEW x \in BuildRow, NEW y \in BuildRow, Upholds(x, y),
           NEW g \in Seq(BuildRow), NEW h \in Seq(BuildRow),
           Beside(<<x>> \o g, <<y>> \o h), InStep(<<x>> \o g, <<y>> \o h),
           NoneByHand(<<x>> \o g)
    PROVE  Upholds(FillBlanks(x, g), FillBlanks(y, h))
<1> DEFINE s == <<x>> \o g
           t == <<y>> \o h
           a == TakenBy(x, s)
           b == TakenBy(y, t)
<1>1. /\ s \in Seq(BuildRow) /\ t \in Seq(BuildRow)
      /\ Beside(s, t) /\ InStep(s, t) /\ NoneByHand(s)
  OBVIOUS
<1>2. FillBlanks(x, g) = EvidencedBy(a, s) /\ FillBlanks(y, h) = EvidencedBy(b, t)
  BY FillBlanksIs
<1> HIDE DEF s, t
<1>3. Upholds(a, b) /\ DOMAIN a = Fields /\ DOMAIN b = Fields
  <2> DEFINE p == FirstIn(s, JudgedOf(s))
             q == FirstIn(t, JudgedOf(t))
  <2>1. \A u \in ToSet(s) : \A v \in ToSet(t) :
           Upholds(u, v) => (u \in JudgedOf(s) <=> v \in JudgedOf(t))
    BY DEF JudgedOf, Judged, Upholds
  <2>2. /\ ToSet(s) \cap JudgedOf(s) = JudgedOf(s) /\ ToSet(t) \cap JudgedOf(t) = JudgedOf(t)
    BY DEF JudgedOf
  <2>3. /\ JudgedOf(s) # {} <=> JudgedOf(t) # {}
        /\ (JudgedOf(t) # {} => Upholds(p, q))
    <3> HIDE DEF p, q
    <3> DEFINE V == JudgedOf(s)
               W == JudgedOf(t)
    <3>1. \A u \in ToSet(s) : \A v \in ToSet(t) : Upholds(u, v) => (u \in V <=> v \in W)
      BY <2>1
    <3> HIDE DEF V, W
    <3>2. /\ ToSet(s) \cap V # {} <=> ToSet(t) \cap W # {}
          /\ (ToSet(t) \cap W # {} => Upholds(FirstIn(s, V), FirstIn(t, W)))
      BY <1>1, <3>1, FirstsUphold
    <3> QED BY <2>2, <3>2 DEF p, q, V, W
  <2>4. /\ a = IF JudgedOf(s) = {} THEN x
               ELSE [x EXCEPT !.outcome = p.outcome, !.quote = p.quote]
        /\ b = IF JudgedOf(t) = {} THEN y
               ELSE [y EXCEPT !.outcome = q.outcome, !.quote = q.quote]
    BY DEF TakenBy
  <2>5. DOMAIN x = Fields /\ DOMAIN y = Fields
    BY DEF BuildRow, Fields
  <2> HIDE DEF p, q, a, b
  <2> QED BY <2>3, <2>4, <2>5 DEF Upholds, Fields
<1> DEFINE E == EvidenceFor(s, a.outcome)
           F == EvidenceFor(t, b.outcome)
           p == FirstIn(s, E)
           q == FirstIn(t, F)
<1>4. /\ E # {} <=> F # {}
      /\ (F # {} => Upholds(p, q))
  <2> HIDE DEF a, b
  <2>1. \A u \in ToSet(s) : \A v \in ToSet(t) : Upholds(u, v) => (u \in E <=> v \in F)
    BY <1>3 DEF EvidenceFor, Upholds
  <2>2. ToSet(s) \cap E = E /\ ToSet(t) \cap F = F
    BY DEF EvidenceFor
  <2> HIDE DEF E, F
  <2> QED BY <1>1, <2>1, <2>2, FirstsUphold
<1> HIDE DEF a, b, E, F, p, q
<1>5. Judged(a) <=> Judged(b)
  BY <1>3 DEF Judged, Upholds
<1>6. a.quote = b.quote
  BY <1>3 DEF Upholds
<1>7. CASE Judged(b) /\ b.quote = {} /\ F # {}
  <2>1. FillBlanks(x, g) = [a EXCEPT !.quote = p.quote]
    BY <1>2, <1>4, <1>5, <1>6, <1>7 DEF E, p, EvidencedBy
  <2>2. FillBlanks(y, h) = [b EXCEPT !.quote = q.quote]
    BY <1>2, <1>7 DEF F, q, EvidencedBy
  <2> QED BY <1>3, <1>4, <1>7, <2>1, <2>2 DEF Upholds, Fields
<1>8. CASE ~(Judged(b) /\ b.quote = {} /\ F # {})
  <2>1. FillBlanks(x, g) = a /\ FillBlanks(y, h) = b
    BY <1>2, <1>4, <1>5, <1>6, <1>8 DEF E, F, EvidencedBy
  <2> QED BY <1>3, <2>1
<1> QED BY <1>7, <1>8

\* The first of these that have one, of rows side by side.
LEMMA FirstsAgree ==
    ASSUME NEW s, NEW t, Beside(s, t), InStep(s, t), NoneByHand(s)
    PROVE  /\ JudgedOf(s) # {} <=> JudgedOf(t) # {}
           /\ OfWebsite(s) # {} <=> OfWebsite(t) # {}
           /\ Speaking(s) # {} <=> Speaking(t) # {}
           /\ HavingLink(s) # {} <=> HavingLink(t) # {}
           /\ JudgedOf(t) # {} => Upholds(FirstIn(s, JudgedOf(s)), FirstIn(t, JudgedOf(t)))
           /\ OfWebsite(t) # {} => Upholds(FirstIn(s, OfWebsite(s)), FirstIn(t, OfWebsite(t)))
           /\ Speaking(t) # {} => Upholds(FirstIn(s, Speaking(s)), FirstIn(t, Speaking(t)))
           /\ HavingLink(t) # {} => Upholds(FirstIn(s, HavingLink(s)), FirstIn(t, HavingLink(t)))
<1>1. ASSUME NEW V, NEW W, V \subseteq ToSet(s), W \subseteq ToSet(t),
             \A x \in ToSet(s) : \A y \in ToSet(t) : Upholds(x, y) => (x \in V <=> y \in W)
      PROVE  (V # {} <=> W # {}) /\ (W # {} => Upholds(FirstIn(s, V), FirstIn(t, W)))
  <2>1. ToSet(s) \cap V = V /\ ToSet(t) \cap W = W
    BY <1>1
  <2> QED BY <1>1, <2>1, FirstsUphold
<1>2. /\ JudgedOf(s) # {} <=> JudgedOf(t) # {}
      /\ JudgedOf(t) # {} => Upholds(FirstIn(s, JudgedOf(s)), FirstIn(t, JudgedOf(t)))
  <2>1. /\ JudgedOf(s) \subseteq ToSet(s) /\ JudgedOf(t) \subseteq ToSet(t)
        /\ \A x \in ToSet(s) : \A y \in ToSet(t) :
              Upholds(x, y) => (x \in JudgedOf(s) <=> y \in JudgedOf(t))
    BY DEF JudgedOf, Judged, Upholds
  <2> QED BY <1>1, <2>1
<1>3. /\ OfWebsite(s) # {} <=> OfWebsite(t) # {}
      /\ OfWebsite(t) # {} => Upholds(FirstIn(s, OfWebsite(s)), FirstIn(t, OfWebsite(t)))
  <2>1. /\ OfWebsite(s) \subseteq ToSet(s) /\ OfWebsite(t) \subseteq ToSet(t)
        /\ \A x \in ToSet(s) : \A y \in ToSet(t) :
              Upholds(x, y) => (x \in OfWebsite(s) <=> y \in OfWebsite(t))
    BY DEF OfWebsite, Upholds
  <2> QED BY <1>1, <2>1
<1>4. /\ Speaking(s) # {} <=> Speaking(t) # {}
      /\ Speaking(t) # {} => Upholds(FirstIn(s, Speaking(s)), FirstIn(t, Speaking(t)))
  <2>1. /\ Speaking(s) \subseteq ToSet(s) /\ Speaking(t) \subseteq ToSet(t)
        /\ \A x \in ToSet(s) : \A y \in ToSet(t) :
              Upholds(x, y) => (x \in Speaking(s) <=> y \in Speaking(t))
    BY DEF Speaking, Judged, Upholds
  <2> QED BY <1>1, <2>1
<1>5. /\ HavingLink(s) # {} <=> HavingLink(t) # {}
      /\ HavingLink(t) # {} => Upholds(FirstIn(s, HavingLink(s)), FirstIn(t, HavingLink(t)))
  <2>1. /\ HavingLink(s) \subseteq ToSet(s) /\ HavingLink(t) \subseteq ToSet(t)
        /\ \A x \in ToSet(s) : \A y \in ToSet(t) :
              Upholds(x, y) => (x \in HavingLink(s) <=> y \in HavingLink(t))
    BY DEF HavingLink, Upholds
  <2> QED BY <1>1, <2>1
<1> QED BY <1>2, <1>3, <1>4, <1>5

LEMMA OverrideUpholds ==
    ASSUME NEW x \in BuildRow, NEW y \in BuildRow, Upholds(x, y),
           NEW s, NEW t, Beside(s, t), InStep(s, t), NoneByHand(s)
    PROVE  Upholds(Override(x, s), Override(y, t))
<1> DEFINE Best(rows) == IF Speaking(rows) # {} THEN FirstIn(rows, Speaking(rows))
                         ELSE FirstIn(rows, OfWebsite(rows))
           Result(row, rows, best) ==
              IF OfWebsite(rows) = {} THEN row
              ELSE IF ~Judged(best) THEN [row EXCEPT !.source = "website"]
              ELSE [[row EXCEPT !.source = "website"] EXCEPT
                       !.outcome = best.outcome,
                       !.quote = IF Cardinality(OutcomesOf(rows)) > 1 /\ best.quote # {}
                                 THEN best.quote ELSE @]
<1>1. ASSUME NEW row \in BuildRow, NEW rows \in Seq(BuildRow)
      PROVE  Override(row, rows) = Result(row, rows, Best(rows))
  <2> DEFINE Website(r) == r.source = "website"
             Speaks(r) == Website(r) /\ Judged(r)
  <2>1. /\ FirstWith(rows, Website) = FirstIn(rows, OfWebsite(rows))
        /\ FirstWith(rows, Speaks) = FirstIn(rows, Speaking(rows))
    BY FirstsAre
  <2>2. /\ Having(rows, Website) <=> OfWebsite(rows) # {}
        /\ Having(rows, Speaks) <=> Speaking(rows) # {}
    BY DEF Having, OfWebsite, Speaking
  <2> DEFINE best == IF Having(rows, Speaks) THEN FirstWith(rows, Speaks)
                     ELSE FirstWith(rows, Website)
  <2>3. best = Best(rows)
    BY <2>1, <2>2
  <2>4. Override(row, rows) =
           IF ~Having(rows, Website) THEN row
           ELSE IF ~Judged(best) THEN [row EXCEPT !.source = "website"]
           ELSE [[row EXCEPT !.source = "website"] EXCEPT
                    !.outcome = best.outcome,
                    !.quote = IF Cardinality(OutcomesOf(rows)) > 1 /\ best.quote # {}
                              THEN best.quote ELSE @]
    BY DEF Override
  <2> HIDE DEF best, Best
  <2> QED BY <2>2, <2>3, <2>4
<1>2. /\ Override(x, s) = Result(x, s, Best(s)) /\ Override(y, t) = Result(y, t, Best(t))
      /\ DOMAIN x = Fields /\ DOMAIN y = Fields
  <2> HIDE DEF Result, Best
  <2> QED BY <1>1 DEF Beside, Matched, Sound, BuildRow, Fields
<1>3. /\ OfWebsite(s) = {} <=> OfWebsite(t) = {}
      /\ OfWebsite(t) # {} => Upholds(Best(s), Best(t))
  BY FirstsAgree
<1>4. OutcomesOf(s) = OutcomesOf(t)
  BY ListsAgree
<1> HIDE DEF Best
<1>5. CASE OfWebsite(t) = {}
  BY <1>2, <1>3, <1>5
<1>6. CASE OfWebsite(t) # {}
  <2>1. /\ Upholds(Best(s), Best(t)) /\ (Judged(Best(s)) <=> Judged(Best(t)))
        /\ Best(s).outcome = Best(t).outcome /\ Best(s).quote = Best(t).quote
    BY <1>3, <1>6 DEF Upholds, Judged
  <2> QED BY <1>2, <1>3, <1>4, <1>6, <2>1 DEF Upholds, Fields
<1> QED BY <1>5, <1>6

\* Whose row it is then, and whether it was published.
LEMMA OverriddenIs ==
    ASSUME NEW row \in BuildRow, NEW rows
    PROVE  /\ Override(row, rows).registered = row.registered
           /\ Override(row, rows).source \in {row.source, "website"}
           /\ OfWebsite(rows) = {} => Override(row, rows).source = row.source
<1> DEFINE Website(r) == r.source = "website"
           Speaks(r) == Website(r) /\ Judged(r)
           best == IF Having(rows, Speaks) THEN FirstWith(rows, Speaks)
                   ELSE FirstWith(rows, Website)
           credited == [row EXCEPT !.source = "website"]
           quote == IF Cardinality(OutcomesOf(rows)) > 1 /\ best.quote # {}
                    THEN best.quote ELSE credited.quote
<1>1. Override(row, rows) = IF ~Having(rows, Website) THEN row
                            ELSE IF ~Judged(best) THEN credited
                            ELSE [credited EXCEPT !.outcome = best.outcome, !.quote = quote]
  BY DEF Override
<1>2. Having(rows, Website) <=> OfWebsite(rows) # {}
  BY DEF Having, OfWebsite
<1>3. DOMAIN row = Fields
  BY DEF BuildRow, Fields
<1> HIDE DEF best, quote
<1> QED BY <1>1, <1>2, <1>3 DEF Fields

LEMMA MergeGroupUpholds ==
    ASSUME NEW s, NEW t, Beside(s, t), InStep(s, t), NoneByHand(s), t # <<>>
    PROVE  Upholds(MergeGroup(s), MergeGroup(t)) /\ ~ByHand(MergeGroup(t))
<1>1. Sound(s) /\ Sound(t) /\ s \in Seq(BuildRow) /\ t \in Seq(BuildRow)
  BY DEF Beside, Matched, Sound
<1>2. Head(t) \in ToSet(t)
  BY <1>1, FirstOfRows
<1>3. s # <<>>
  <2>1. ToSet(s) # {}
    BY <1>2 DEF Beside, Matched
  <2> QED BY <2>1, EmptyIsSound
<1>4. Upholds(Head(s), Head(t))
  <2>1. ASSUME NEW rows \in Seq(BuildRow), rows # <<>> PROVE Head(rows) = FirstIn(rows, ToSet(rows))
    <3>1. PlacesIn(rows, ToSet(rows)) = 1 .. Len(rows) /\ Len(rows) \in Nat \ {0}
      BY <2>1 DEF PlacesIn, ToSet
    <3>2. Min(1 .. Len(rows)) = 1
      <4> DEFINE m == Min(1 .. Len(rows))
      <4>1. 1 \in 1 .. Len(rows) /\ \A n \in 1 .. Len(rows) : 1 <= n
        BY <3>1
      <4>2. m \in 1 .. Len(rows) /\ \A n \in 1 .. Len(rows) : m <= n
        BY <4>1, Zenon DEF Min
      <4> HIDE DEF m
      <4>3. m = 1
        BY <3>1, <4>1, <4>2
      <4> QED BY <4>3 DEF m
    <3>3. Head(rows) = rows[1]
      BY <2>1, FirstOfRows
    <3>4. 1 .. Len(rows) # {}
      BY <3>1
    <3> QED BY <3>1, <3>2, <3>3, <3>4 DEF FirstIn
  <2>2. Head(s) = FirstIn(s, ToSet(s)) /\ Head(t) = FirstIn(t, ToSet(t))
    BY <1>1, <1>3, <2>1
  <2>3. ToSet(t) \cap ToSet(t) # {}
    BY <1>2
  <2> QED BY <2>2, <2>3, FirstsUphold
<1>5. /\ OutcomesOf(s) = OutcomesOf(t) /\ UrlsOf(s) = UrlsOf(t)
      /\ WebsiteJudged(s) = WebsiteJudged(t)
      /\ (\E r \in ToSet(s) : r.clash) = (\E r \in ToSet(t) : r.clash)
      /\ AllIds(t) \subseteq AllIds(s)
  BY ListsAgree
<1>6. PickOutcome(s) = PickOutcome(t)
  <2>1. OutcomesOf(t) # {} =>
           FirstIn(s, JudgedOf(s)).outcome = FirstIn(t, JudgedOf(t)).outcome
    <3>1. OutcomesOf(t) # {} => JudgedOf(t) # {}
      BY DEF OutcomesOf, JudgedOf, Judged
    <3>2. JudgedOf(t) # {} => Upholds(FirstIn(s, JudgedOf(s)), FirstIn(t, JudgedOf(t)))
      BY FirstsAgree
    <3> QED BY <3>1, <3>2 DEF Upholds
  <2>2. /\ FirstWith(s, Judged) = FirstIn(s, JudgedOf(s))
        /\ FirstWith(t, Judged) = FirstIn(t, JudgedOf(t))
    BY <1>1, FirstsAre
  <2> QED BY <1>5, <2>1, <2>2 DEF PickOutcome
<1>7. (IF UrlsOf(s) = {} THEN Blank ELSE FirstIn(s, HavingLink(s)).url)
         = IF UrlsOf(t) = {} THEN Blank ELSE FirstIn(t, HavingLink(t)).url
  <2>1. UrlsOf(t) # {} => HavingLink(t) # {}
    BY DEF UrlsOf, HavingLink
  <2>2. HavingLink(t) # {} => Upholds(FirstIn(s, HavingLink(s)), FirstIn(t, HavingLink(t)))
    BY FirstsAgree
  <2> QED BY <1>5, <2>1, <2>2 DEF Upholds
<1>8. UNION {r.quote : r \in ToSet(s)} = UNION {r.quote : r \in ToSet(t)}
  <2>1. {r.quote : r \in ToSet(s)} = {r.quote : r \in ToSet(t)}
    BY DEF Beside, Matched, NoneByHand, Upholds
  <2> QED BY <2>1
<1>9. Upholds(MergedRow(s), MergedRow(t))
  <2>1. /\ Head(s) \in BuildRow /\ Head(t) \in BuildRow
    BY <1>1, <1>2, <1>3, FirstOfRows
  <2>2. DOMAIN Head(s) = Fields /\ DOMAIN Head(t) = Fields
    BY <2>1 DEF BuildRow, Fields
  <2> QED BY <1>4, <1>5, <1>6, <1>7, <1>8, <2>2 DEF MergedRow, Upholds, Fields
<1>10. /\ MergeGroup(s) = Override(MergedRow(s), s) /\ MergeGroup(t) = Override(MergedRow(t), t)
       /\ MergedRow(s) \in BuildRow /\ MergedRow(t) \in BuildRow
       /\ MergedRow(t).source = Head(t).source
  BY <1>1, <1>3, MergeGroupIs
<1>11. Upholds(MergeGroup(s), MergeGroup(t))
  BY <1>9, <1>10, OverrideUpholds
<1>12. ~ByHand(MergeGroup(t))
  <2>1. Head(t).source # "hand"
    BY <1>2 DEF Beside, Matched, ByHand
  <2>2. MergeGroup(t).source \in {Head(t).source, "website"}
    BY <1>10, OverriddenIs
  <2> QED BY <2>1, <2>2 DEF ByHand
<1> QED BY <1>11, <1>12

\* What is made of rows added by hand alone is one of them.
LEMMA MergeGroupByHand ==
    ASSUME NEW rows, Sound(rows), rows # <<>>, \A r \in ToSet(rows) : ByHand(r) /\ ~r.registered
    PROVE  ByHand(MergeGroup(rows)) /\ ~MergeGroup(rows).registered
<1>1. Head(rows) \in ToSet(rows)
  BY FirstOfRows DEF Sound
<1>2. /\ MergeGroup(rows) = Override(MergedRow(rows), rows) /\ MergedRow(rows) \in BuildRow
      /\ MergedRow(rows).source = Head(rows).source
      /\ MergedRow(rows).registered = (\E r \in ToSet(rows) : r.registered)
  BY MergeGroupIs
<1>3. OfWebsite(rows) = {}
  BY DEF OfWebsite, ByHand
<1>4. /\ MergeGroup(rows).registered = MergedRow(rows).registered
      /\ MergeGroup(rows).source = MergedRow(rows).source
  BY <1>2, <1>3, OverriddenIs
<1> QED BY <1>1, <1>2, <1>4 DEF ByHand

-----------------------------------------------------------------------------
(***************************************************************************)
(* The pair merge, of two builds side by side.                             *)
(***************************************************************************)
LEMMA UpholdsIsTransitive ==
    /\ \A x : Upholds(x, x)
    /\ \A x, y, z : Upholds(x, y) /\ Upholds(y, z) => Upholds(x, z)
  BY DEF Upholds

LEMMA AtMostOneRow ==
    ASSUME NEW s, Sound(s)
    PROVE  /\ Len(s) \in Nat /\ (Len(s) <= 1 <=> \A r, q \in ToSet(s) : r = q)
           /\ (Len(s) = 0 <=> s = <<>>) /\ (ToSet(s) = {} <=> s = <<>>)
           /\ Len(s) = 1 => ToSet(s) = {Head(s)}
<1>1. /\ Len(s) \in Nat /\ DOMAIN s = 1 .. Len(s) /\ (Len(s) = 0 <=> s = <<>>)
      /\ ToSet(s) = {s[i] : i \in 1 .. Len(s)}
      /\ \A i, k \in 1 .. Len(s) : i # k => s[i] # s[k]
  BY DEF Sound, NoRepeats, ToSet
<1>2. ASSUME Len(s) <= 1, NEW r \in ToSet(s), NEW q \in ToSet(s) PROVE r = q
  <2>1. \A i, k \in 1 .. Len(s) : i = k
    BY <1>1, <1>2
  <2> QED BY <1>1, <2>1
<1>3. ASSUME \A r, q \in ToSet(s) : r = q PROVE Len(s) <= 1
  <2> SUFFICES ASSUME 1 \in 1 .. Len(s), 2 \in 1 .. Len(s) PROVE FALSE
    BY <1>1
  <2> QED BY <1>1, <1>3
<1>4. ToSet(s) = {} <=> s = <<>>
  BY <1>1
<1>5. ASSUME Len(s) = 1 PROVE ToSet(s) = {Head(s)}
  <2>1. s # <<>>
    BY <1>1, <1>5
  <2>2. Head(s) \in ToSet(s)
    BY <2>1, FirstOfRows DEF Sound
  <2> QED BY <1>2, <1>5, <2>2
<1> QED BY <1>1, <1>2, <1>3, <1>4, <1>5

\* A group of which no row yields, and one of which every row does.
LEMMA PlainGroup ==
    ASSUME NEW t, Sound(t), NEW yields, yields = {} \/ yields = {r.id : r \in ToSet(t)}
    PROVE  /\ RowsOut(GroupMerged(t, yields)) =
                 IF Len(t) <= 1 \/ Cardinality(UrlsOf(t)) > 1 THEN ToSet(t) ELSE {MergeGroup(t)}
           /\ GroupMerged(t, yields).fills = <<>>
<1>1. GroupMerged(t, yields) =
         IF Len(t) <= 1 \/ Cardinality(UrlsOf(t)) > 1
         THEN [kept |-> t, made |-> <<>>, fills |-> <<>>]
         ELSE [kept |-> <<>>, made |-> <<MergeGroup(t)>>,
               fills |-> Noted(Head(t).id, <<>>, TRUE)]
  BY DEF GroupMerged
<1>2. Noted(Head(t).id, <<>>, TRUE) = <<>> /\ ToSet(<<>>) = {}
      /\ ToSet(<<MergeGroup(t)>>) = {MergeGroup(t)}
  BY DEF Noted, ToSet
<1> HIDE DEF GroupMerged
<1>3. CASE Len(t) <= 1 \/ Cardinality(UrlsOf(t)) > 1
  <2>1. GroupMerged(t, yields) = [kept |-> t, made |-> <<>>, fills |-> <<>>]
    BY <1>1, <1>3
  <2> QED BY <1>2, <1>3, <2>1 DEF RowsOut
<1>4. CASE ~(Len(t) <= 1 \/ Cardinality(UrlsOf(t)) > 1)
  <2>1. GroupMerged(t, yields) = [kept |-> <<>>, made |-> <<MergeGroup(t)>>, fills |-> <<>>]
    BY <1>1, <1>2, <1>4
  <2> QED BY <1>2, <1>4, <2>1 DEF RowsOut
<1> QED BY <1>3, <1>4

LEMMA GroupMatches ==
    ASSUME NEW s, NEW t, Beside(s, t), InStep(s, t)
    PROVE  /\ Matched(RowsOut(GroupMerged(s, YieldingIds(s))),
                      RowsOut(GroupMerged(t, YieldingIds(t))))
           /\ GroupMerged(t, YieldingIds(t)).fills = <<>>
<1> DEFINE yields == YieldingIds(s)
           g == GroupMerged(s, YieldingIds(s))
           h == GroupMerged(t, YieldingIds(t))
<1>1. /\ yields = {r.id : r \in {r \in ToSet(s) : ByHand(r)}}
      /\ \A r \in ToSet(s) : r.id \in yields <=> ByHand(r)
      /\ YieldingIds(t) = {}
  BY HandRowsYield
<1> HIDE DEF yields
<1>2. /\ Sound(s) /\ Sound(t) /\ Matched(ToSet(s), ToSet(t))
  BY DEF Beside
<1>3. /\ RowsOut(h) = IF Len(t) <= 1 \/ Cardinality(UrlsOf(t)) > 1 THEN ToSet(t)
                      ELSE {MergeGroup(t)}
      /\ h.fills = <<>>
  BY <1>1, <1>2, PlainGroup
<1> HIDE DEF g, h
<1>4. ASSUME NEW o, Beside(o, t), InStep(o, t), NoneByHand(o)
      PROVE  /\ Len(o) <= 1 <=> Len(t) <= 1
             /\ UrlsOf(o) = UrlsOf(t)
             /\ ~(Len(t) <= 1) => Upholds(MergeGroup(o), MergeGroup(t)) /\ ~ByHand(MergeGroup(t))
  <2>1. (\A r, q \in ToSet(o) : r = q) <=> \A r, q \in ToSet(t) : r = q
    <3>1. ASSUME \A r, q \in ToSet(o) : r = q, NEW r \in ToSet(t), NEW q \in ToSet(t)
          PROVE  r = q
      <4>1. PICK x \in ToSet(o), p \in ToSet(o) : Upholds(x, r) /\ Upholds(p, q)
        BY <1>4 DEF Beside, Matched
      <4> QED BY <1>4, <3>1, <4>1, OneCounterpart
    <3>2. ASSUME \A r, q \in ToSet(t) : r = q, NEW x \in ToSet(o), NEW p \in ToSet(o)
          PROVE  x = p
      <4>1. PICK r \in ToSet(t), q \in ToSet(t) : Upholds(x, r) /\ Upholds(p, q)
        BY <1>4 DEF Beside, Matched, NoneByHand
      <4> QED BY <1>4, <3>2, <4>1, OneCounterpart
    <3> QED BY <3>1, <3>2
  <2>2. Len(o) <= 1 <=> Len(t) <= 1
    BY <1>4, <2>1, AtMostOneRow DEF Beside
  <2>3. UrlsOf(o) = UrlsOf(t)
    BY <1>4, ListsAgree
  <2>4. ~(Len(t) <= 1) => t # <<>>
    BY <1>2, AtMostOneRow
  <2>5. ~(Len(t) <= 1) => Upholds(MergeGroup(o), MergeGroup(t)) /\ ~ByHand(MergeGroup(t))
    BY <1>4, <2>4, MergeGroupUpholds
  <2> QED BY <2>2, <2>3, <2>5
<1>5. CASE yields = {}
  <2>1. RowsOut(g) = IF Len(s) <= 1 \/ Cardinality(UrlsOf(s)) > 1 THEN ToSet(s)
                     ELSE {MergeGroup(s)}
    BY <1>2, <1>5, PlainGroup DEF yields, g
  <2>2. NoneByHand(s)
    BY <1>1, <1>5 DEF NoneByHand
  <2>3. /\ Len(s) <= 1 <=> Len(t) <= 1
        /\ UrlsOf(s) = UrlsOf(t)
        /\ ~(Len(t) <= 1) => Upholds(MergeGroup(s), MergeGroup(t)) /\ ~ByHand(MergeGroup(t))
    BY <1>4, <2>2
  <2>4. Upholds(MergeGroup(s), MergeGroup(t)) /\ ~ByHand(MergeGroup(t))
           => Matched({MergeGroup(s)}, {MergeGroup(t)})
    BY DEF Matched, Upholds, ByHand
  <2> QED BY <1>2, <1>3, <2>1, <2>3, <2>4 DEF g, h
<1>6. CASE yields # {} /\ yields = {r.id : r \in ToSet(s)}
  <2>1. RowsOut(g) = IF Len(s) <= 1 \/ Cardinality(UrlsOf(s)) > 1 THEN ToSet(s)
                     ELSE {MergeGroup(s)}
    BY <1>2, <1>6, PlainGroup DEF yields, g
  <2>2. \A r \in ToSet(s) : ByHand(r) /\ ~r.registered
    BY <1>1, <1>2, <1>6 DEF Matched
  <2>3. ToSet(t) = {}
    BY <1>2, <2>2 DEF Matched, Upholds, ByHand
  <2>4. RowsOut(h) = {}
    <3>1. Len(t) <= 1
      BY <1>2, <2>3, AtMostOneRow
    <3> QED BY <1>3, <2>3, <3>1
  <2>5. ~(Len(s) <= 1) => ByHand(MergeGroup(s)) /\ ~MergeGroup(s).registered
    <3>1. ~(Len(s) <= 1) => s # <<>>
      BY <1>2, AtMostOneRow
    <3> QED BY <1>2, <2>2, <3>1, MergeGroupByHand
  <2>6. \A r \in RowsOut(g) : ByHand(r) /\ ~r.registered
    BY <2>1, <2>2, <2>5
  <2> QED BY <1>3, <2>4, <2>6 DEF Matched, g, h
<1>7. CASE yields # {} /\ yields # {r.id : r \in ToSet(s)}
  <2> DEFINE others == NotAmong(s, yields)
             hand == Among(s, yields)
             joined == Joining(hand, UrlsOf(others))
             apart == NotAmong(hand, {r.id : r \in ToSet(joined)})
             Into(row) == IF joined = <<>> THEN row ELSE Absorb(row, joined)
  <2>1. g = IF Cardinality(UrlsOf(others)) > 1
            THEN [kept |-> s, made |-> <<>>, fills |-> <<>>]
            ELSE IF Len(others) = 1
            THEN [kept |-> apart \o <<Into(Head(others))>>, made |-> <<>>,
                  fills |-> Noted(Head(others).id, joined, TRUE)]
            ELSE [kept |-> apart, made |-> <<Into(MergeGroup(others))>>,
                  fills |-> Noted(Head(others).id, joined, TRUE)]
    BY <1>7 DEF GroupMerged, g, yields
  <2>2. /\ Beside(others, t) /\ InStep(others, t) /\ NoneByHand(others)
    <3>1. others = Without(s, {r \in ToSet(s) : ~(r.id \notin yields)})
      BY DEF NotAmong, Those
    <3>2. \A r \in {r \in ToSet(s) : ~(r.id \notin yields)} : ByHand(r)
      BY <1>1
    <3>3. ToSet(others) = {r \in ToSet(s) : r.id \notin yields}
      BY <1>2, AmongAre
    <3> HIDE DEF others
    <3> QED BY <1>1, <3>1, <3>2, <3>3, HandRowsAside DEF NoneByHand
  <2>3. Sound(hand) /\ ToSet(hand) = {r \in ToSet(s) : r.id \in yields}
    BY <1>2, AmongAre
  <2>4. Sound(others) /\ others # <<>>
    <3>1. ToSet(others) = {r \in ToSet(s) : r.id \notin yields} /\ Sound(others)
      BY <1>2, AmongAre
    <3>2. PICK r \in ToSet(s) : r.id \notin yields
      BY <1>1, <1>7
    <3> QED BY <3>1, <3>2, AtMostOneRow
  <2> HIDE DEF others, hand
  <2>5. Sound(apart) /\ ToSet(apart) \subseteq ToSet(hand)
    BY <2>3, AmongAre
  <2> HIDE DEF apart
  <2>6. ASSUME NEW row \in BuildRow PROVE Upholds(Into(row), row)
    <3>1. DOMAIN row = Fields
      BY DEF BuildRow, Fields
    <3> HIDE DEF joined
    <3> QED BY <3>1 DEF Absorb, Upholds, Fields
  <2>7. /\ Head(others) \in BuildRow /\ MergeGroup(others) \in BuildRow
    BY <2>4, GroupIsMerged, FirstOfRows DEF Sound
  <2>8. Upholds(Into(Head(others)), Head(others))
        /\ Upholds(Into(MergeGroup(others)), MergeGroup(others))
    BY <2>6, <2>7
  <2> HIDE DEF Into, joined
  <2>9. /\ Len(others) <= 1 <=> Len(t) <= 1
        /\ UrlsOf(others) = UrlsOf(t)
        /\ ~(Len(t) <= 1) => Upholds(MergeGroup(others), MergeGroup(t)) /\ ~ByHand(MergeGroup(t))
    BY <1>4, <2>2
  <2>10. \A r \in ToSet(apart) : ByHand(r) /\ ~r.registered
    BY <1>1, <1>2, <2>3, <2>5 DEF Matched
  <2>11. Len(others) <= 1 <=> Len(others) = 1
    BY <2>4, AtMostOneRow
  <2>12. CASE Cardinality(UrlsOf(others)) > 1
    <3>1. RowsOut(g) = ToSet(s)
      BY <2>1, <2>12 DEF RowsOut, ToSet
    <3> QED BY <1>2, <1>3, <2>9, <2>12, <3>1 DEF g, h
  <2>13. CASE ~(Cardinality(UrlsOf(others)) > 1) /\ Len(others) = 1
    <3> DEFINE row == Into(Head(others))
    <3>1. g.kept = apart \o <<row>> /\ g.made = <<>>
      BY <2>1, <2>13
    <3>2. apart \in Seq(ToSet(apart)) /\ ToSet(<<row>>) = {row} /\ ToSet(<<>>) = {}
      BY <2>5 DEF Sound, ToSet
    <3> HIDE DEF row
    <3>3. ToSet(apart \o <<row>>) = ToSet(apart) \cup {row}
      <4> DEFINE S == ToSet(apart) \cup {row}
      <4>1. apart \in Seq(S)
        BY <2>5 DEF Sound, ToSet
      <4>2. row \in S
        OBVIOUS
      <4> HIDE DEF S
      <4>3. <<row>> \in Seq(S)
        BY <4>2
      <4>4. ToSet(apart \o <<row>>) = ToSet(apart) \cup ToSet(<<row>>)
        BY <4>1, <4>3, JoinedMembers
      <4> QED BY <3>2, <4>4
    <3>4. RowsOut(g) = ToSet(apart) \cup {row}
      BY <3>1, <3>2, <3>3 DEF RowsOut
    <3>5. RowsOut(h) = ToSet(t)
      BY <1>3, <2>9, <2>11, <2>13
    <3>6. ToSet(others) = {Head(others)}
      BY <2>4, <2>13, AtMostOneRow
    <3>7. \A y \in ToSet(t) : ~ByHand(y) /\ Upholds(row, y)
      <4>1. \A y \in ToSet(t) : ~ByHand(y) /\ Upholds(Head(others), y)
        BY <2>2, <3>6 DEF Beside, Matched
      <4> QED BY <2>8, <4>1, UpholdsIsTransitive DEF row
    <3>8. \E y \in ToSet(t) : Upholds(row, y)
      <4>1. \E y \in ToSet(t) : Upholds(Head(others), y)
        BY <2>2, <3>6 DEF Beside, Matched, NoneByHand
      <4> QED BY <3>7, <4>1
    <3>9. ~ByHand(row)
      BY <3>7, <3>8 DEF Upholds, ByHand
    <3> QED BY <1>3, <2>10, <3>4, <3>5, <3>7, <3>8, <3>9 DEF Matched, g, h
  <2>14. CASE ~(Cardinality(UrlsOf(others)) > 1) /\ Len(others) # 1
    <3> DEFINE row == Into(MergeGroup(others))
    <3>1. g.kept = apart /\ g.made = <<row>> /\ ToSet(<<row>>) = {row}
      BY <2>1, <2>14 DEF ToSet
    <3>2. RowsOut(g) = ToSet(apart) \cup {row}
      BY <3>1 DEF RowsOut
    <3>3. RowsOut(h) = {MergeGroup(t)} /\ ~(Len(t) <= 1)
      BY <1>3, <2>9, <2>11, <2>14
    <3>4. Upholds(row, MergeGroup(t)) /\ ~ByHand(MergeGroup(t))
      BY <2>8, <2>9, <3>3, UpholdsIsTransitive
    <3>5. ~ByHand(row)
      BY <3>4 DEF Upholds, ByHand
    <3> HIDE DEF row
    <3> QED BY <1>3, <2>10, <3>2, <3>3, <3>4, <3>5 DEF Matched, g, h
  <2> QED BY <2>12, <2>13, <2>14
<1> QED BY <1>5, <1>6, <1>7

\* The groups are those of the pairs of papers that the rows have.
OfPair(rows, k) == Those(rows, LAMBDA r : <<r.doiO, r.doiR>> = k)
PairsOf(S) == {<<r.doiO, r.doiR>> : r \in S}
PairMerged(rows, k) == GroupMerged(OfPair(rows, k), YieldingIds(OfPair(rows, k)))

LEMMA GroupsOfPairs ==
    ASSUME NEW pairs, Sound(pairs)
    PROVE  /\ {PairGroups(pairs)[i] : i \in DOMAIN PairGroups(pairs)}
                 = {PairMerged(pairs, k) : k \in PairsOf(ToSet(pairs))}
           /\ DOMAIN PairGroups(pairs) = 1 .. Len(PairGroups(pairs))
           /\ Len(PairGroups(pairs)) \in Nat
<1> DEFINE PairOf(r) == <<r.doiO, r.doiR>>
           dois == [i \in DOMAIN pairs |-> PairOf(pairs[i])]
           keys == DistinctInOrder(dois)
           groups == PairGroups(pairs)
<1>1. groups = [i \in DOMAIN keys |-> PairMerged(pairs, keys[i])]
  BY DEF PairGroups, PairMerged, OfPair
<1>2. /\ DOMAIN pairs = 1 .. Len(pairs) /\ Len(pairs) \in Nat
      /\ ToSet(pairs) = {pairs[i] : i \in DOMAIN pairs}
  BY DEF Sound, ToSet
<1>3. dois \in Seq(PairsOf(ToSet(pairs))) /\ ToSet(dois) = PairsOf(ToSet(pairs))
  BY <1>2 DEF ToSet, PairsOf
<1> HIDE DEF dois
<1>4. keys \in Seq(PairsOf(ToSet(pairs))) /\ ToSet(keys) = PairsOf(ToSet(pairs))
  BY <1>3, DistinctMembers
<1> HIDE DEF keys, groups
<1>5. /\ DOMAIN keys = 1 .. Len(keys) /\ Len(keys) \in Nat
      /\ {keys[i] : i \in DOMAIN keys} = PairsOf(ToSet(pairs))
  BY <1>4 DEF ToSet
<1>6. {groups[i] : i \in DOMAIN groups} = {PairMerged(pairs, k) : k \in PairsOf(ToSet(pairs))}
  BY <1>1, <1>5
<1>7. DOMAIN groups = 1 .. Len(groups) /\ Len(groups) \in Nat
  BY <1>1, <1>5
<1> QED BY <1>6, <1>7 DEF groups

LEMMA PairsMatch ==
    ASSUME NEW s, NEW t, Beside(s, t), InStep(s, t), NEW k
    PROVE  /\ Matched(RowsOut(PairMerged(s, k)), RowsOut(PairMerged(t, k)))
           /\ PairMerged(t, k).fills = <<>>
           /\ k \notin PairsOf(ToSet(t)) => RowsOut(PairMerged(t, k)) = {}
<1> DEFINE X == {r \in ToSet(s) : ~(<<r.doiO, r.doiR>> = k)}
           Y == {r \in ToSet(t) : ~(<<r.doiO, r.doiR>> = k)}
<1>1. OfPair(s, k) = Without(s, X) /\ OfPair(t, k) = Without(t, Y)
  BY DEF OfPair, Those
<1>2. \A x \in ToSet(s) : \A y \in ToSet(t) : Upholds(x, y) => (x \in X <=> y \in Y)
  BY DEF Upholds
<1>3. ToSet(Without(t, Y)) = ToSet(t) \ Y
  BY RestIsSound DEF Beside
<1>4. k \notin PairsOf(ToSet(t)) => ToSet(OfPair(t, k)) = {}
  BY <1>1, <1>3 DEF PairsOf
<1> HIDE DEF X, Y
<1>5. Beside(OfPair(s, k), OfPair(t, k)) /\ InStep(OfPair(s, k), OfPair(t, k))
  BY <1>1, <1>2, RestBeside
<1>6. /\ Matched(RowsOut(PairMerged(s, k)), RowsOut(PairMerged(t, k)))
      /\ PairMerged(t, k).fills = <<>>
  BY <1>5, GroupMatches DEF PairMerged
<1>7. ASSUME k \notin PairsOf(ToSet(t)) PROVE RowsOut(PairMerged(t, k)) = {}
  <2> DEFINE u == OfPair(t, k)
  <2>1. Sound(u) /\ ToSet(u) = {} /\ YieldingIds(u) = {}
    BY <1>4, <1>5, <1>7, HandRowsYield DEF Beside
  <2> HIDE DEF u
  <2>2. Len(u) = 0 /\ Len(u) <= 1
    BY <2>1, AtMostOneRow
  <2>3. RowsOut(GroupMerged(u, {})) = {}
    BY <2>1, <2>2, PlainGroup
  <2> QED BY <2>1, <2>3 DEF PairMerged, u
<1> QED BY <1>6, <1>7

LEMMA MergePairsMatch ==
    ASSUME NEW f, NEW e, IsFrame(f), IsFrame(e), Beside(f.rows, e.rows), InStep(f.rows, e.rows)
    PROVE  /\ Matched(ToSet(MergePairs(f).rows), ToSet(MergePairs(e).rows))
           /\ e.fills = <<>> => MergePairs(e).fills = <<>>
<1> DEFINE s == Mergeable(f)
           t == Mergeable(e)
           A == {r \in ToSet(f.rows) : r.distinct}
           B == {r \in ToSet(e.rows) : r.distinct}
<1>1. Sound(f.rows) /\ Sound(e.rows)
  BY DEF Beside
<1>2. Beside(s, t) /\ InStep(s, t)
  <2> DEFINE X == {r \in ToSet(f.rows) : ~(~r.distinct)}
             Y == {r \in ToSet(e.rows) : ~(~r.distinct)}
  <2>1. s = Without(f.rows, X) /\ t = Without(e.rows, Y)
    BY DEF Mergeable, Those
  <2>2. \A x \in ToSet(f.rows) : \A y \in ToSet(e.rows) : Upholds(x, y) => (x \in X <=> y \in Y)
    BY DEF Upholds
  <2> HIDE DEF X, Y, s, t
  <2> QED BY <2>1, <2>2, RestBeside
<1>3. /\ ToSet(MergePairs(f).rows) =
            A \cup UNION {RowsOut(PairGroups(s)[i]) : i \in DOMAIN PairGroups(s)}
      /\ ToSet(MergePairs(e).rows) =
            B \cup UNION {RowsOut(PairGroups(t)[i]) : i \in DOMAIN PairGroups(t)}
      /\ MergePairs(e).fills =
            e.fills \o FlattenSeq([i \in DOMAIN PairGroups(t) |-> PairGroups(t)[i].fills])
  BY <1>1, MergePairsIsSound
<1> HIDE DEF s, t
<1>4. /\ {PairGroups(s)[i] : i \in DOMAIN PairGroups(s)}
            = {PairMerged(s, k) : k \in PairsOf(ToSet(s))}
      /\ {PairGroups(t)[i] : i \in DOMAIN PairGroups(t)}
            = {PairMerged(t, k) : k \in PairsOf(ToSet(t))}
      /\ DOMAIN PairGroups(t) = 1 .. Len(PairGroups(t)) /\ Len(PairGroups(t)) \in Nat
  BY <1>2, GroupsOfPairs DEF Beside
<1>5. /\ UNION {RowsOut(PairGroups(s)[i]) : i \in DOMAIN PairGroups(s)}
            = UNION {RowsOut(PairMerged(s, k)) : k \in PairsOf(ToSet(s))}
      /\ UNION {RowsOut(PairGroups(t)[i]) : i \in DOMAIN PairGroups(t)}
            = UNION {RowsOut(PairMerged(t, k)) : k \in PairsOf(ToSet(t))}
  <2>1. ASSUME NEW rows, NEW groups,
               {groups[i] : i \in DOMAIN groups}
                  = {PairMerged(rows, k) : k \in PairsOf(ToSet(rows))}
        PROVE  UNION {RowsOut(groups[i]) : i \in DOMAIN groups}
                  = UNION {RowsOut(PairMerged(rows, k)) : k \in PairsOf(ToSet(rows))}
    <3> HIDE DEF RowsOut, PairMerged, PairsOf
    <3> DEFINE all == {groups[i] : i \in DOMAIN groups}
    <3>1. UNION {RowsOut(groups[i]) : i \in DOMAIN groups} = UNION {RowsOut(g) : g \in all}
      OBVIOUS
    <3>2. UNION {RowsOut(PairMerged(rows, k)) : k \in PairsOf(ToSet(rows))}
             = UNION {RowsOut(g) : g \in all}
      BY <2>1
    <3> QED BY <3>1, <3>2
  <2> DEFINE hs == PairGroups(s)
             ht == PairGroups(t)
  <2>2. /\ {hs[i] : i \in DOMAIN hs} = {PairMerged(s, k) : k \in PairsOf(ToSet(s))}
        /\ {ht[i] : i \in DOMAIN ht} = {PairMerged(t, k) : k \in PairsOf(ToSet(t))}
    BY <1>4
  <2> HIDE DEF hs, ht
  <2>3. UNION {RowsOut(hs[i]) : i \in DOMAIN hs}
           = UNION {RowsOut(PairMerged(s, k)) : k \in PairsOf(ToSet(s))}
    BY <2>1, <2>2
  <2>4. UNION {RowsOut(ht[i]) : i \in DOMAIN ht}
           = UNION {RowsOut(PairMerged(t, k)) : k \in PairsOf(ToSet(t))}
    BY <2>1, <2>2
  <2> QED BY <2>3, <2>4 DEF hs, ht
<1>6. ASSUME NEW k
      PROVE  /\ Matched(RowsOut(PairMerged(s, k)), RowsOut(PairMerged(t, k)))
             /\ PairMerged(t, k).fills = <<>>
             /\ k \notin PairsOf(ToSet(t)) => RowsOut(PairMerged(t, k)) = {}
  BY <1>2, PairsMatch
<1>7. PairsOf(ToSet(t)) \subseteq PairsOf(ToSet(s))
  BY <1>2 DEF PairsOf, Beside, Matched, Upholds
<1>8. Matched(A, B)
  <2>1. Matched(ToSet(f.rows), ToSet(e.rows))
    BY DEF Beside
  <2>2. \A x, y : Upholds(x, y) => (x.distinct <=> y.distinct)
    BY DEF Upholds
  <2> HIDE DEF Upholds, ByHand
  <2> QED BY <2>1, <2>2 DEF Matched
<1> HIDE DEF A, B
<1> DEFINE C == UNION {RowsOut(PairMerged(s, k)) : k \in PairsOf(ToSet(s))}
           D == UNION {RowsOut(PairMerged(t, k)) : k \in PairsOf(ToSet(t))}
<1>9. ASSUME NEW y \in D PROVE ~ByHand(y) /\ \E x \in C : Upholds(x, y)
  <2>1. PICK k \in PairsOf(ToSet(t)) : y \in RowsOut(PairMerged(t, k))
    OBVIOUS
  <2>2. ~ByHand(y) /\ \E x \in RowsOut(PairMerged(s, k)) : Upholds(x, y)
    BY <1>6, <2>1 DEF Matched
  <2> QED BY <1>7, <2>2
<1>10. ASSUME NEW x \in C
       PROVE  (~ByHand(x) => \E y \in D : Upholds(x, y)) /\ (ByHand(x) => ~x.registered)
  <2>1. PICK k \in PairsOf(ToSet(s)) : x \in RowsOut(PairMerged(s, k))
    OBVIOUS
  <2>2. /\ ~ByHand(x) => \E y \in RowsOut(PairMerged(t, k)) : Upholds(x, y)
        /\ ByHand(x) => ~x.registered
    BY <1>6, <2>1 DEF Matched
  <2>3. RowsOut(PairMerged(t, k)) # {} => k \in PairsOf(ToSet(t))
    BY <1>6
  <2> QED BY <2>2, <2>3
<1> HIDE DEF C, D
<1>11. Matched(A \cup C, B \cup D)
  BY <1>8, <1>9, <1>10 DEF Matched
<1>12. ASSUME e.fills = <<>> PROVE MergePairs(e).fills = <<>>
  <2>1. \A i \in DOMAIN PairGroups(t) : PairGroups(t)[i].fills = <<>>
    BY <1>4, <1>6
  <2>2. FlattenSeq([i \in DOMAIN PairGroups(t) |-> PairGroups(t)[i].fills]) = <<>>
    BY <1>4, <2>1, NothingFlattened
  <2> QED BY <1>3, <1>12, <2>2
<1> QED BY <1>3, <1>5, <1>11, <1>12 DEF C, D

-----------------------------------------------------------------------------
(***************************************************************************)
(* The preprint rules, of two builds side by side.                         *)
(***************************************************************************)
HandUnregistered(S) == \A r \in S : ByHand(r) => ~r.registered

\* The rows that a rule looks at for one original, and what it decides.
Findings(rows, o, remove, keep) ==
    Those(rows, LAMBDA r : r.doiO = o /\ r.doiR \in {remove, keep})
Decision(both, remove, keep) == DroppedUnder(both, YieldingIds(both), remove, keep)

LEMMA DropsAre ==
    ASSUME NEW rows, Sound(rows), NEW remove, NEW keep
    PROVE  ToSet(Drops(rows, remove, keep)) =
              {Decision(Findings(rows, o, remove, keep), remove, keep) :
                  o \in {r.doiO : r \in ToSet(rows)}}
<1> DEFINE dois == [i \in DOMAIN rows |-> rows[i].doiO]
           originals == DistinctInOrder(dois)
           S == {r.doiO : r \in ToSet(rows)}
           per == Drops(rows, remove, keep)
           D(o) == Decision(Findings(rows, o, remove, keep), remove, keep)
<1>1. per = [i \in DOMAIN originals |-> D(originals[i])]
  BY DEF Drops, Decision, Findings
<1>2. /\ DOMAIN rows = 1 .. Len(rows) /\ Len(rows) \in Nat
      /\ ToSet(rows) = {rows[i] : i \in DOMAIN rows}
  BY DEF Sound, ToSet
<1>3. dois \in Seq(S) /\ ToSet(dois) = S
  BY <1>2 DEF ToSet
<1> HIDE DEF dois
<1>4. ToSet(originals) = S
  BY <1>3, DistinctMembers
<1> HIDE DEF originals, per, D
<1>5. ToSet(per) = {D(originals[i]) : i \in DOMAIN originals}
  BY <1>1 DEF ToSet
<1>6. S = {originals[i] : i \in DOMAIN originals}
  BY <1>4 DEF ToSet
<1> HIDE DEF S
<1>7. ToSet(per) = {D(o) : o \in S}
  BY <1>5, <1>6
<1> QED BY <1>7 DEF S, D, per

LEMMA FindingsAre ==
    ASSUME NEW rows, Sound(rows), NEW o, NEW remove, NEW keep
    PROVE  /\ Sound(Findings(rows, o, remove, keep))
           /\ ToSet(Findings(rows, o, remove, keep)) =
                 {r \in ToSet(rows) : r.doiO = o /\ r.doiR \in {remove, keep}}
<1> DEFINE others == {r \in ToSet(rows) : ~(r.doiO = o /\ r.doiR \in {remove, keep})}
<1>1. Findings(rows, o, remove, keep) = Without(rows, others)
  BY DEF Findings, Those
<1> HIDE DEF others
<1>2. Sound(Without(rows, others)) /\ ToSet(Without(rows, others)) = ToSet(rows) \ others
  BY RestIsSound
<1> QED BY <1>1, <1>2 DEF others

\* A row not added by hand is dropped when another of those has the DOI to keep.
LEMMA DecisionIs ==
    ASSUME NEW both, Sound(both), HandUnregistered(ToSet(both)),
           NEW remove, NEW keep, remove # keep
    PROVE  /\ \A r \in ToSet(both) :
                 ~ByHand(r) => (r.id \in Decision(both, remove, keep).drop <=>
                                  /\ r.doiR = remove
                                  /\ \E q \in ToSet(both) : ~ByHand(q) /\ q.doiR = keep)
           /\ NoneByHand(both) => Decision(both, remove, keep).into = <<>>
<1> DEFINE yields == YieldingIds(both)
           keeping == Those(both, LAMBDA r : r.doiR = keep)
           losing == Those(both, LAMBDA r : r.doiR = remove)
           spared == NotAmong(losing, yields)
           holding == NotAmong(keeping, yields)
           giving == Among(losing, yields)
           turned == holding = <<>> /\ spared # <<>>
           Stays(r) == ByHand(r) /\ r.id \notin yields
           d == Decision(both, remove, keep)
<1>1. Sound(keeping) /\ ToSet(keeping) = {r \in ToSet(both) : r.doiR = keep}
  <2> DEFINE others == {r \in ToSet(both) : ~(r.doiR = keep)}
  <2>1. keeping = Without(both, others)
    BY DEF Those
  <2> HIDE DEF keeping, others
  <2>2. Sound(Without(both, others)) /\ ToSet(Without(both, others)) = ToSet(both) \ others
    BY RestIsSound
  <2> QED BY <2>1, <2>2 DEF others
<1>2. Sound(losing) /\ ToSet(losing) = {r \in ToSet(both) : r.doiR = remove}
  <2> DEFINE others == {r \in ToSet(both) : ~(r.doiR = remove)}
  <2>1. losing = Without(both, others)
    BY DEF Those
  <2> HIDE DEF losing, others
  <2>2. Sound(Without(both, others)) /\ ToSet(Without(both, others)) = ToSet(both) \ others
    BY RestIsSound
  <2> QED BY <2>1, <2>2 DEF others
<1>3. \A r \in ToSet(both) : r.id \in yields <=> ByHand(r)
  BY YieldingAreByHand, IdsAreOne DEF HandUnregistered
<1>4. d = IF keeping = <<>> THEN [drop |-> {}, into |-> <<>>, absorbed |-> <<>>]
          ELSE IF turned
          THEN [drop |-> {r.id : r \in ToSet(keeping)}, into |-> <<Head(spared)>>,
                absorbed |-> keeping]
          ELSE [drop |-> {r.id : r \in {r \in ToSet(losing) : ~Stays(r)}},
                into |-> IF holding # <<>> /\ giving # <<>> THEN <<Head(holding)>> ELSE <<>>,
                absorbed |-> giving]
  BY DEF DroppedUnder, Decision
<1> HIDE DEF d, keeping, losing, yields
<1>5. /\ Sound(spared) /\ ToSet(spared) = {r \in ToSet(losing) : r.id \notin yields}
      /\ Sound(holding) /\ ToSet(holding) = {r \in ToSet(keeping) : r.id \notin yields}
      /\ Sound(giving) /\ ToSet(giving) = {r \in ToSet(losing) : r.id \in yields}
  BY <1>1, <1>2, AmongAre
<1> HIDE DEF spared, holding, giving
<1>6. /\ keeping = <<>> <=> ~\E r \in ToSet(both) : r.doiR = keep
      /\ holding = <<>> <=> ~\E r \in ToSet(both) : r.doiR = keep /\ ~ByHand(r)
      /\ spared = <<>> <=> ~\E r \in ToSet(both) : r.doiR = remove /\ ~ByHand(r)
      /\ giving = <<>> <=> ~\E r \in ToSet(both) : r.doiR = remove /\ ByHand(r)
  <2>1. /\ keeping = <<>> <=> ToSet(keeping) = {}
        /\ holding = <<>> <=> ToSet(holding) = {}
        /\ spared = <<>> <=> ToSet(spared) = {}
        /\ giving = <<>> <=> ToSet(giving) = {}
    BY <1>1, <1>5, AtMostOneRow
  <2> QED BY <1>1, <1>2, <1>3, <1>5, <2>1
<1>7. \A r, q \in ToSet(both) : r.id = q.id => r = q
  BY IdsAreOne
<1>8. ASSUME NEW r \in ToSet(both), ~ByHand(r)
      PROVE  r.id \in d.drop <=> /\ r.doiR = remove
                                 /\ \E q \in ToSet(both) : ~ByHand(q) /\ q.doiR = keep
  <2>1. CASE keeping = <<>>
    <3>1. d.drop = {}
      BY <1>4, <2>1
    <3> QED BY <1>6, <2>1, <3>1
  <2>2. CASE keeping # <<>> /\ turned
    <3>1. d.drop = {q.id : q \in ToSet(keeping)}
      BY <1>4, <2>2
    <3>2. r.id \notin d.drop
      BY <1>1, <1>6, <1>7, <1>8, <2>2, <3>1
    <3> QED BY <1>6, <2>2, <3>2
  <2>3. CASE keeping # <<>> /\ ~turned
    <3>1. d.drop = {q.id : q \in {q \in ToSet(losing) : ~Stays(q)}}
      BY <1>4, <2>3
    <3>2. r.id \in d.drop <=> r.doiR = remove
      BY <1>2, <1>3, <1>7, <1>8, <3>1
    <3>3. r.doiR = remove => \E q \in ToSet(both) : ~ByHand(q) /\ q.doiR = keep
      BY <1>6, <1>8, <2>3
    <3> QED BY <3>2, <3>3
  <2> QED BY <2>1, <2>2, <2>3
<1>9. ASSUME NoneByHand(both) PROVE d.into = <<>>
  <2>1. giving = <<>>
    BY <1>6, <1>9 DEF NoneByHand
  <2>2. ~(keeping # <<>> /\ turned)
    <3>1. keeping # <<>> => holding # <<>>
      BY <1>6, <1>9 DEF NoneByHand
    <3> QED BY <3>1
  <2> QED BY <1>4, <2>1, <2>2
<1> QED BY <1>8, <1>9 DEF d

\* The ids that a rule drops.
DroppedBy(rows, remove, keep) == UNION {d.drop : d \in ToSet(Drops(rows, remove, keep))}

LEMMA DroppedByAre ==
    ASSUME NEW rows, Sound(rows), HandUnregistered(ToSet(rows)),
           NEW remove, NEW keep, remove # keep
    PROVE  /\ \A r \in ToSet(rows) :
                 ~ByHand(r) => (r.id \in DroppedBy(rows, remove, keep) <=>
                                  /\ r.doiR = remove
                                  /\ \E q \in ToSet(rows) :
                                        ~ByHand(q) /\ q.doiO = r.doiO /\ q.doiR = keep)
           /\ NoneByHand(rows) => \A d \in ToSet(Drops(rows, remove, keep)) : d.into = <<>>
<1> DEFINE Both(o) == Findings(rows, o, remove, keep)
           D(o) == Decision(Both(o), remove, keep)
           S == {r.doiO : r \in ToSet(rows)}
<1>1. ToSet(Drops(rows, remove, keep)) = {D(o) : o \in S}
  BY DropsAre
<1>2. ASSUME NEW o
      PROVE  /\ Sound(Both(o))
             /\ ToSet(Both(o)) = {r \in ToSet(rows) : r.doiO = o /\ r.doiR \in {remove, keep}}
             /\ HandUnregistered(ToSet(Both(o)))
  BY FindingsAre DEF HandUnregistered
<1> HIDE DEF Both
<1>3. ASSUME NEW o
      PROVE  /\ \A r \in ToSet(Both(o)) :
                   ~ByHand(r) => (r.id \in D(o).drop <=>
                                    /\ r.doiR = remove
                                    /\ \E q \in ToSet(Both(o)) : ~ByHand(q) /\ q.doiR = keep)
             /\ NoneByHand(Both(o)) => D(o).into = <<>>
  BY <1>2, DecisionIs
<1>4. ASSUME NEW o PROVE D(o).drop \subseteq {r.id : r \in ToSet(Both(o))}
  BY <1>2, DroppedUnderDecides DEF DecidedOn, Decision
<1> HIDE DEF D
<1>5. ASSUME NEW r \in ToSet(rows), ~ByHand(r)
      PROVE  r.id \in DroppedBy(rows, remove, keep) <=>
                /\ r.doiR = remove
                /\ \E q \in ToSet(rows) : ~ByHand(q) /\ q.doiO = r.doiO /\ q.doiR = keep
  <2>1. r.doiO \in S
    OBVIOUS
  <2>2. r.id \in DroppedBy(rows, remove, keep) <=> \E o \in S : r.id \in D(o).drop
    BY <1>1 DEF DroppedBy
  <2>3. ASSUME NEW o, r.id \in D(o).drop PROVE o = r.doiO /\ r \in ToSet(Both(o))
    <3>1. PICK q \in ToSet(Both(o)) : q.id = r.id
      BY <1>4, <2>3
    <3>2. q = r
      BY <1>2, <3>1, IdsAreOne
    <3> QED BY <1>2, <3>1, <3>2
  <2>4. r.id \in DroppedBy(rows, remove, keep) <=> r.id \in D(r.doiO).drop
    BY <2>1, <2>2, <2>3
  <2>5. CASE r.doiR \in {remove, keep}
    <3>1. r \in ToSet(Both(r.doiO))
      BY <1>2, <2>5
    <3>2. (\E q \in ToSet(Both(r.doiO)) : ~ByHand(q) /\ q.doiR = keep)
             <=> \E q \in ToSet(rows) : ~ByHand(q) /\ q.doiO = r.doiO /\ q.doiR = keep
      BY <1>2
    <3> QED BY <1>3, <1>5, <2>4, <3>1, <3>2
  <2>6. CASE r.doiR \notin {remove, keep}
    BY <1>2, <2>3, <2>4, <2>6
  <2> QED BY <2>5, <2>6
<1>6. ASSUME NoneByHand(rows), NEW d \in ToSet(Drops(rows, remove, keep)) PROVE d.into = <<>>
  <2>1. PICK o \in S : d = D(o)
    BY <1>1
  <2>2. NoneByHand(Both(o))
    BY <1>2, <1>6 DEF NoneByHand
  <2> QED BY <1>3, <2>1, <2>2
<1> QED BY <1>5, <1>6

LEMMA DropReplicationIs ==
    ASSUME NEW f, Good(f), NEW remove, NEW keep, remove # keep,
           HandUnregistered(ToSet(f.rows)),
           NEW rest, rest = NotAmong(f.rows, DroppedBy(f.rows, remove, keep)),
           NEW g, g = DropReplication(f, remove, keep)
    PROVE  /\ Good(g) /\ DOMAIN g.rows = DOMAIN rest
           /\ \A i \in DOMAIN rest : Upholds(g.rows[i], rest[i])
                                     /\ g.rows[i].registered = rest[i].registered
           /\ NoneByHand(f.rows) => g.rows = rest /\ (f.fills = <<>> => g.fills = <<>>)
<1> DEFINE per == Drops(f.rows, remove, keep)
           absorbing == Those(per, LAMBDA d : d.into # <<>>)
           GainOf(r) == UNION {AllIds(d.absorbed) :
                                  d \in {d \in ToSet(absorbing) : Head(d.into).id = r.id}}
           Grown(r) == [r EXCEPT !.merged = r.merged \cup GainOf(r)]
           fills == f.fills \o FlattenSeq([i \in DOMAIN absorbing |->
                       Noted(Head(absorbing[i].into).id, absorbing[i].absorbed, FALSE)])
<1>1. Good(g)
  BY DropReplicationKeeps DEF Keeps
<1>2. g.rows = [i \in DOMAIN rest |-> Grown(rest[i])] /\ g.fills = fills
  <2> DEFINE drop == UNION {d.drop : d \in ToSet(per)}
             kept == NotAmong(f.rows, drop)
             taken == UNION {AllIds(d.absorbed) : d \in ToSet(absorbing)}
             retired == f.retired \cup (AllIds(Among(f.rows, drop)) \ taken)
  <2>1. WithDrops(f, per) =
           [rows |-> [i \in DOMAIN kept |-> Grown(kept[i])], fills |-> fills, retired |-> retired]
    BY DEF WithDrops
  <2>2. g = WithDrops(f, per) /\ rest = kept
    BY DEF DropReplication, DroppedBy
  <2> HIDE DEF Grown, kept, fills, retired
  <2> QED BY <2>1, <2>2
<1>3. /\ Sound(rest)
      /\ ToSet(rest) = {r \in ToSet(f.rows) : r.id \notin DroppedBy(f.rows, remove, keep)}
  BY AmongAre DEF Good
<1>4. \A i \in DOMAIN rest : rest[i] \in BuildRow
  BY <1>3 DEF Sound
<1>5. ASSUME NEW r \in BuildRow
      PROVE  /\ Upholds(Grown(r), r) /\ Grown(r).registered = r.registered
             /\ GainOf(r) = {} => Grown(r) = r
  <2>1. /\ DOMAIN r = Fields
        /\ r = [id |-> r.id, source |-> r.source, doiO |-> r.doiO, doiR |-> r.doiR,
                url |-> r.url, outcome |-> r.outcome, quote |-> r.quote,
                distinct |-> r.distinct, registered |-> r.registered,
                merged |-> r.merged, clash |-> r.clash]
    BY DEF BuildRow, Fields
  <2> HIDE DEF GainOf
  <2> QED BY <2>1 DEF Upholds, Fields
<1>6. \A i \in DOMAIN rest : Upholds(g.rows[i], rest[i])
                             /\ g.rows[i].registered = rest[i].registered
  <2> HIDE DEF Grown
  <2> QED BY <1>2, <1>4, <1>5
<1>7. ASSUME NoneByHand(f.rows) PROVE absorbing = <<>>
  <2>1. \A d \in ToSet(per) : d.into = <<>>
    BY <1>7, DroppedByAre DEF Good
  <2>2. PICK B : DecidedFor(f.rows, per, B)
    BY DropsDecide DEF Good
  <2>3. per \in Seq({per[i] : i \in DOMAIN per})
    BY <2>2 DEF DecidedFor
  <2> DEFINE others == {d \in ToSet(per) : ~(d.into # <<>>)}
  <2>4. absorbing = Without(per, others)
    BY DEF Those
  <2>5. others = ToSet(per)
    BY <2>1
  <2> HIDE DEF absorbing, others, per
  <2>6. absorbing \in Seq({per[i] : i \in DOMAIN per}) /\ ToSet(absorbing) = {}
    BY <2>3, <2>4, <2>5, WithoutIsTheRest
  <2>7. DOMAIN absorbing = 1 .. Len(absorbing) /\ Len(absorbing) \in Nat
        /\ \A i \in DOMAIN absorbing : absorbing[i] \in ToSet(absorbing)
    BY <2>6 DEF ToSet
  <2>8. Len(absorbing) = 0
    <3>1. 1 \notin DOMAIN absorbing
      BY <2>6, <2>7
    <3> QED BY <2>7, <3>1
  <2> QED BY <2>6, <2>8
<1>8. ASSUME NoneByHand(f.rows)
      PROVE  g.rows = rest /\ (f.fills = <<>> => g.fills = <<>>)
  <2>1. absorbing = <<>> /\ ToSet(<<>>) = {}
    BY <1>7, <1>8 DEF ToSet
  <2>2. \A r : GainOf(r) = {}
    BY <2>1
  <2> HIDE DEF GainOf
  <2>3. \A i \in DOMAIN rest : g.rows[i] = rest[i]
    <3> HIDE DEF Grown
    <3> QED BY <1>2, <1>4, <1>5, <2>2
  <2>4. /\ rest = [i \in DOMAIN rest |-> rest[i]]
        /\ g.rows = [i \in DOMAIN rest |-> g.rows[i]]
    <3>1. rest \in Seq(BuildRow)
      BY <1>3 DEF Sound
    <3>2. rest = [i \in DOMAIN rest |-> rest[i]]
      BY <3>1
    <3> HIDE DEF Grown
    <3> QED BY <1>2, <3>2
  <2>5. g.rows = rest
    BY <2>3, <2>4
  <2>6. FlattenSeq([i \in DOMAIN absorbing |->
           Noted(Head(absorbing[i].into).id, absorbing[i].absorbed, FALSE)]) = <<>>
    <3> HIDE DEF absorbing
    <3> DEFINE ss == [i \in DOMAIN absorbing |->
           Noted(Head(absorbing[i].into).id, absorbing[i].absorbed, FALSE)]
    <3>1. ss = [i \in 1 .. 0 |-> <<>>]
      BY <2>1
    <3> HIDE DEF ss
    <3>2. FlattenSeq(ss) = <<>>
      BY <3>1, NothingFlattened
    <3> QED BY <3>2 DEF ss
  <2> HIDE DEF absorbing
  <2>7. f.fills = <<>> => g.fills = <<>>
    BY <1>2, <2>6
  <2> QED BY <2>5, <2>7
<1>9. DOMAIN g.rows = DOMAIN rest
  <2> HIDE DEF Grown
  <2> QED BY <1>2
<1> QED BY <1>1, <1>6, <1>8, <1>9

\* Rows that grew stand beside whatever they stood beside.
LEMMA GrownBeside ==
    ASSUME NEW u, NEW v, Beside(u, v), NEW w, Sound(w), DOMAIN w = DOMAIN u,
           \A i \in DOMAIN u : Upholds(w[i], u[i]) /\ w[i].registered = u[i].registered
    PROVE  Beside(w, v) /\ (InStep(u, v) => InStep(w, v))
<1>1. /\ DOMAIN u = 1 .. Len(u)
      /\ ToSet(u) = {u[i] : i \in DOMAIN u} /\ ToSet(w) = {w[i] : i \in DOMAIN u}
  BY DEF ToSet, Beside, Sound
<1>2. \A i \in DOMAIN u : ByHand(w[i]) <=> ByHand(u[i])
  BY DEF Upholds, ByHand
<1>3. Matched(ToSet(u), ToSet(v))
  BY DEF Beside
<1>4. ASSUME NEW y \in ToSet(v) PROVE ~ByHand(y) /\ \E x \in ToSet(w) : Upholds(x, y)
  <2>1. PICK i \in DOMAIN u : Upholds(u[i], y) /\ ~ByHand(y)
    BY <1>1, <1>3 DEF Matched
  <2>2. Upholds(w[i], y)
    BY <2>1, UpholdsIsTransitive
  <2> QED BY <1>1, <2>1, <2>2
<1>5. ASSUME NEW i \in DOMAIN u, ~ByHand(w[i])
      PROVE  \E y \in ToSet(v) : Upholds(u[i], y) /\ Upholds(w[i], y)
  <2>1. PICK y \in ToSet(v) : Upholds(u[i], y)
    BY <1>1, <1>2, <1>3, <1>5 DEF Matched
  <2> QED BY <2>1, UpholdsIsTransitive
<1>6. \A i \in DOMAIN u : ByHand(w[i]) => ~w[i].registered
  BY <1>1, <1>2, <1>3 DEF Matched
<1>7. Beside(w, v)
  BY <1>1, <1>4, <1>5, <1>6 DEF Beside, Matched
<1>8. ASSUME InStep(u, v), NEW x \in ToSet(w), NEW p \in ToSet(w),
             NEW y \in ToSet(v), NEW q \in ToSet(v),
             Upholds(x, y), Upholds(p, q), AheadOf(w, x, p)
      PROVE  AheadOf(v, y, q)
  <2>1. PICK i \in DOMAIN u, k \in DOMAIN u : i < k /\ w[i] = x /\ w[k] = p
    BY <1>8 DEF AheadOf
  <2>2. ~ByHand(w[i]) /\ ~ByHand(w[k])
    BY <1>7, <1>8, <2>1, OneCounterpart
  <2>3. Upholds(u[i], y) /\ Upholds(u[k], q)
    BY <1>5, <1>7, <1>8, <2>1, <2>2, OneCounterpart
  <2>4. AheadOf(u, u[i], u[k])
    BY <2>1 DEF AheadOf
  <2> QED BY <1>1, <1>8, <2>3, <2>4 DEF InStep
<1> QED BY <1>7, <1>8 DEF InStep

LEMMA RuledBeside ==
    ASSUME NEW f, NEW e, Good(f), Good(e), Beside(f.rows, e.rows),
           NEW remove, NEW keep, remove # keep
    PROVE  LET g == DropReplication(f, remove, keep)
               h == DropReplication(e, remove, keep)
           IN  /\ Beside(g.rows, h.rows)
               /\ InStep(f.rows, e.rows) => InStep(g.rows, h.rows)
               /\ e.fills = <<>> => h.fills = <<>>
<1> DEFINE g == DropReplication(f, remove, keep)
           h == DropReplication(e, remove, keep)
           A == DroppedBy(f.rows, remove, keep)
           B == DroppedBy(e.rows, remove, keep)
           X == {r \in ToSet(f.rows) : ~(r.id \notin A)}
           Y == {r \in ToSet(e.rows) : ~(r.id \notin B)}
<1>1. /\ HandUnregistered(ToSet(f.rows)) /\ HandUnregistered(ToSet(e.rows)) /\ NoneByHand(e.rows)
      /\ Sound(f.rows) /\ Sound(e.rows) /\ Matched(ToSet(f.rows), ToSet(e.rows))
  BY DEF Beside, Matched, HandUnregistered, NoneByHand
<1>2. /\ NotAmong(f.rows, A) = Without(f.rows, X) /\ NotAmong(e.rows, B) = Without(e.rows, Y)
  BY DEF NotAmong, Those
<1>3. /\ Good(g) /\ DOMAIN g.rows = DOMAIN NotAmong(f.rows, A)
      /\ \A i \in DOMAIN NotAmong(f.rows, A) :
            /\ Upholds(g.rows[i], NotAmong(f.rows, A)[i])
            /\ g.rows[i].registered = NotAmong(f.rows, A)[i].registered
      /\ Good(h) /\ h.rows = NotAmong(e.rows, B) /\ (e.fills = <<>> => h.fills = <<>>)
  BY <1>1, DropReplicationIs
<1> HIDE DEF g, h
<1>4. ASSUME NEW x \in ToSet(f.rows), NEW y \in ToSet(e.rows), Upholds(x, y)
      PROVE  x \in X <=> y \in Y
  <2>1. ~ByHand(x) /\ ~ByHand(y) /\ x.doiR = y.doiR /\ x.doiO = y.doiO
    BY <1>1, <1>4, OneCounterpart DEF Upholds, NoneByHand
  <2>2. /\ x.id \in A <=> /\ x.doiR = remove
                          /\ \E q \in ToSet(f.rows) : ~ByHand(q) /\ q.doiO = x.doiO /\ q.doiR = keep
        /\ y.id \in B <=> /\ y.doiR = remove
                          /\ \E q \in ToSet(e.rows) : ~ByHand(q) /\ q.doiO = y.doiO /\ q.doiR = keep
    BY <1>1, <2>1, DroppedByAre
  <2>3. (\E q \in ToSet(f.rows) : ~ByHand(q) /\ q.doiO = x.doiO /\ q.doiR = keep)
           <=> \E q \in ToSet(e.rows) : ~ByHand(q) /\ q.doiO = y.doiO /\ q.doiR = keep
    BY <1>1, <2>1 DEF Matched, Upholds, ByHand
  <2> HIDE DEF A, B
  <2> QED BY <2>1, <2>2, <2>3
<1> HIDE DEF A, B, X, Y
<1>5. /\ Beside(NotAmong(f.rows, A), h.rows)
      /\ InStep(f.rows, e.rows) => InStep(NotAmong(f.rows, A), h.rows)
  BY <1>2, <1>3, <1>4, RestBeside
<1>6. Beside(g.rows, h.rows) /\ (InStep(f.rows, e.rows) => InStep(g.rows, h.rows))
  BY <1>3, <1>5, GrownBeside DEF Good
<1> QED BY <1>3, <1>6 DEF g, h

\* One DOI of a pair of reports is to be kept, or both; both of a pair of originals.
PairsAreRuled == build.reports \in {"p", "j", "both"} /\ build.originals = "both"

LEMMA ConfirmedBeside ==
    ASSUME PairsAreRuled, NEW f, NEW e, Good(f), Good(e), Beside(f.rows, e.rows),
           InStep(f.rows, e.rows), e.fills = <<>>
    PROVE  /\ Beside(Confirmed(f).rows, Confirmed(e).rows)
           /\ InStep(Confirmed(f).rows, Confirmed(e).rows)
           /\ Confirmed(e).fills = <<>>
<1> DEFINE rep == build.reports
<1>1. CASE rep \in {"p", "j"}
  <2>1. /\ Confirmed(f) = DropReplication(f, Other(rep), rep)
        /\ Confirmed(e) = DropReplication(e, Other(rep), rep)
    BY <1>1 DEF Confirmed, PairsAreRuled
  <2>2. Other(rep) # rep
    BY <1>1, OtherIsOther
  <2> HIDE DEF rep
  <2> QED BY <2>1, <2>2, RuledBeside
<1>2. CASE rep = "both"
  <2>1. Confirmed(f) = f /\ Confirmed(e) = e
    BY <1>2 DEF Confirmed, PairsAreRuled
  <2> QED BY <2>1
<1> QED BY <1>1, <1>2 DEF PairsAreRuled

LEMMA PairedIsKept ==
    ASSUME NEW rows, Sound(rows), NEW r \in ToSet(rows), NEW q \in ToSet(rows),
           r.doiO = q.doiO, r.doiR = "p", q.doiR = "j"
    PROVE  PairedUnder(rows) # <<>>
<1> DEFINE HasBoth(o) == \A doi \in {"p", "j"} : \E x \in ToSet(rows) : x.doiO = o /\ x.doiR = doi
           dois == [i \in DOMAIN rows |-> rows[i].doiO]
           originals == DistinctInOrder(dois)
           others == {o \in ToSet(originals) : ~HasBoth(o)}
           S == {x.doiO : x \in ToSet(rows)}
<1>1. PairedUnder(rows) = Without(originals, others)
  BY DEF PairedUnder, Those
<1>2. /\ DOMAIN rows = 1 .. Len(rows) /\ Len(rows) \in Nat
      /\ ToSet(rows) = {rows[i] : i \in DOMAIN rows}
  BY DEF Sound, ToSet
<1>3. dois \in Seq(S) /\ ToSet(dois) = S
  BY <1>2 DEF ToSet
<1> HIDE DEF dois
<1>4. originals \in Seq(S) /\ ToSet(originals) = S
  BY <1>3, DistinctMembers
<1> HIDE DEF originals
<1>5. r.doiO \in S /\ HasBoth(r.doiO)
  OBVIOUS
<1>6. r.doiO \in ToSet(originals) \ others
  BY <1>4, <1>5
<1> HIDE DEF S, others
<1>7. ToSet(Without(originals, others)) = ToSet(originals) \ others
  BY <1>4, WithoutIsTheRest
<1> QED BY <1>1, <1>6, <1>7 DEF ToSet

LEMMA ResolvedUpholds ==
    ASSUME PairsAreRuled, NEW f, NEW e, Good(f), Good(e), Beside(f.rows, e.rows), e.fills = <<>>
    PROVE  /\ \A y \in ToSet(Resolved(e).rows) :
                 ~ByHand(y) /\ \E x \in ToSet(Resolved(f).rows) : Upholds(x, y)
           /\ Resolved(e).fills = <<>>
<1> DEFINE rep == build.reports
<1>1. ASSUME NEW d
      PROVE  /\ KeptReport(d.rows) = IF rep = "both" \/ PairedUnder(d.rows) = <<>> THEN Blank
                                     ELSE rep
             /\ Resolved(d) = IF KeptReport(d.rows) = Blank THEN d
                              ELSE DropReplication(d, Other(rep), rep)
  <2>1. KeptOriginal(d.rows) = Blank
    BY DEF KeptOriginal, PairsAreRuled
  <2>2. KeptReport(d.rows) = IF rep = "both" \/ PairedUnder(d.rows) = <<>> THEN Blank ELSE rep
    BY DEF KeptReport, PairsAreRuled
  <2> QED BY <2>1, <2>2 DEF Resolved
<1>2. \A x \in ToSet(e.rows) : ~ByHand(x)
  BY DEF Beside, Matched
<1>3. \A y \in ToSet(e.rows) : \E x \in ToSet(f.rows) : ~ByHand(x) /\ Upholds(x, y)
  BY OneCounterpart DEF Beside, Matched
<1> DEFINE g == DropReplication(f, Other(rep), rep)
           h == DropReplication(e, Other(rep), rep)
           ruled == rep \in {"p", "j"}
<1>4. ASSUME ruled PROVE Other(rep) # rep /\ Other(rep) \in {"p", "j"}
  BY <1>4 DEF Other
<1>5. HandUnregistered(ToSet(f.rows)) /\ HandUnregistered(ToSet(e.rows)) /\ NoneByHand(e.rows)
  BY DEF Beside, Matched, HandUnregistered, NoneByHand
<1>6. ASSUME ruled
      PROVE  ToSet(h.rows) \subseteq ToSet(e.rows) /\ h.fills = <<>>
  <2> DEFINE rest == NotAmong(e.rows, DroppedBy(e.rows, Other(rep), rep))
  <2>1. h.rows = rest /\ h.fills = <<>>
    BY <1>4, <1>5, <1>6, DropReplicationIs
  <2> QED BY <2>1, AmongAre DEF Good
<1>7. CASE Resolved(f) = f
  <2>1. ToSet(Resolved(e).rows) \subseteq ToSet(e.rows) /\ Resolved(e).fills = <<>>
    BY <1>1, <1>6 DEF PairsAreRuled
  <2> QED BY <1>2, <1>3, <1>7, <2>1
<1>8. CASE Resolved(f) = g /\ Resolved(e) = h /\ ruled
  <2>1. Beside(g.rows, h.rows) /\ h.fills = <<>>
    BY <1>4, <1>8, RuledBeside
  <2> QED BY <1>8, <2>1 DEF Beside, Matched
<1>9. CASE Resolved(f) = g /\ ruled /\ PairedUnder(e.rows) = <<>>
  <2>1. Resolved(e) = e
    BY <1>1, <1>9
  <2>2. ASSUME NEW y \in ToSet(e.rows) PROVE \E x \in ToSet(g.rows) : Upholds(x, y)
    <3> DEFINE drop == DroppedBy(f.rows, Other(rep), rep)
               rest == NotAmong(f.rows, drop)
    <3>1. PICK x \in ToSet(f.rows) : ~ByHand(x) /\ Upholds(x, y)
      BY <1>3
    <3>2. x.id \notin drop
      <4>1. SUFFICES ASSUME x.id \in drop PROVE FALSE
        OBVIOUS
      <4>2. PICK q \in ToSet(f.rows) :
               x.doiR = Other(rep) /\ ~ByHand(q) /\ q.doiO = x.doiO /\ q.doiR = rep
        BY <1>4, <1>5, <1>9, <3>1, <4>1, DroppedByAre DEF Good
      <4>3. PICK z \in ToSet(e.rows) : Upholds(q, z)
        BY <4>2 DEF Beside, Matched
      <4>4. y.doiO = z.doiO /\ y.doiR = Other(rep) /\ z.doiR = rep
        BY <3>1, <4>2, <4>3 DEF Upholds
      <4>5. {Other(rep), rep} = {"p", "j"} /\ Other(rep) # rep
        BY <1>4, <1>9
      <4> QED BY <1>9, <4>4, <4>5, PairedIsKept DEF Good
    <3>3. x \in ToSet(rest)
      BY <3>2, AmongAre DEF Good
    <3>4. /\ DOMAIN g.rows = DOMAIN rest
          /\ \A i \in DOMAIN rest : Upholds(g.rows[i], rest[i])
      BY <1>4, <1>5, <1>9, DropReplicationIs
    <3> HIDE DEF rest, g
    <3>5. PICK i \in DOMAIN rest : rest[i] = x
      BY <3>3 DEF ToSet
    <3>6. Upholds(g.rows[i], y) /\ g.rows[i] \in ToSet(g.rows)
      BY <3>1, <3>4, <3>5, UpholdsIsTransitive DEF ToSet
    <3> QED BY <3>6
  <2> QED BY <1>2, <1>9, <2>1, <2>2
<1> QED BY <1>1, <1>7, <1>8, <1>9 DEF PairsAreRuled

-----------------------------------------------------------------------------
(***************************************************************************)
(* The exact keys, of two builds side by side.                             *)
(***************************************************************************)
\* The rows added by hand come last, as step 5 puts them.
HandIdsIn(rows) == UNION {YieldingIds(SameMergeKey(rows, r)) : r \in ToSet(rows)}
HandLast(rows) == NotAmong(rows, HandIdsIn(rows)) \o Among(rows, HandIdsIn(rows))

LEMMA HandLastIs ==
    ASSUME NEW rows, Sound(rows), HandUnregistered(ToSet(rows))
    PROVE  /\ \A r \in ToSet(rows) : r.id \in HandIdsIn(rows) <=> ByHand(r)
           /\ Sound(HandLast(rows)) /\ ToSet(HandLast(rows)) = ToSet(rows)
           /\ \A x, p \in ToSet(rows) : AheadOf(HandLast(rows), x, p) =>
                 \/ ByHand(p)
                 \/ ~ByHand(x) /\ AheadOf(rows, x, p)
<1> DEFINE yields == HandIdsIn(rows)
           ahead == NotAmong(rows, yields)
           last == Among(rows, yields)
<1>1. ASSUME NEW r \in ToSet(rows)
      PROVE  /\ ToSet(SameMergeKey(rows, r)) = {q \in ToSet(rows) : MergeKey(q) = MergeKey(r)}
             /\ YieldingIds(SameMergeKey(rows, r)) =
                   {q.id : q \in {q \in ToSet(rows) : MergeKey(q) = MergeKey(r) /\ ByHand(q)}}
  <2> DEFINE others == {q \in ToSet(rows) : ~(MergeKey(q) = MergeKey(r))}
             same == SameMergeKey(rows, r)
  <2>1. same = Without(rows, others)
    BY DEF SameMergeKey, Those
  <2> HIDE DEF others, same
  <2>2. ToSet(Without(rows, others)) = ToSet(rows) \ others
    BY RestIsSound
  <2>3. ToSet(same) = {q \in ToSet(rows) : MergeKey(q) = MergeKey(r)}
    BY <2>1, <2>2 DEF others
  <2>4. YieldingIds(same) = {q.id : q \in {q \in ToSet(same) : ByHand(q)}}
    BY <2>3, YieldingAreByHand DEF HandUnregistered
  <2>5. {q \in ToSet(same) : ByHand(q)}
           = {q \in ToSet(rows) : MergeKey(q) = MergeKey(r) /\ ByHand(q)}
    BY <2>3
  <2> QED BY <2>3, <2>4, <2>5 DEF same
<1>2. ASSUME NEW r \in ToSet(rows) PROVE r.id \in yields <=> ByHand(r)
  <2>1. ASSUME r.id \in yields PROVE ByHand(r)
    <3>1. PICK p \in ToSet(rows) : r.id \in YieldingIds(SameMergeKey(rows, p))
      BY <2>1 DEF HandIdsIn
    <3>2. PICK q \in ToSet(rows) : ByHand(q) /\ q.id = r.id
      BY <1>1, <3>1
    <3> QED BY <3>2, IdsAreOne
  <2>2. ASSUME ByHand(r) PROVE r.id \in yields
    <3>1. r.id \in YieldingIds(SameMergeKey(rows, r))
      BY <1>1, <2>2
    <3> QED BY <3>1 DEF HandIdsIn
  <2> QED BY <2>1, <2>2
<1> HIDE DEF yields
<1>3. /\ Sound(ahead) /\ ToSet(ahead) = {r \in ToSet(rows) : ~ByHand(r)}
      /\ Sound(last) /\ ToSet(last) = {r \in ToSet(rows) : ByHand(r)}
  BY <1>2, AmongAre
<1>4. \A x, p : AheadOf(ahead, x, p) => AheadOf(rows, x, p)
  BY RestInOrder DEF Sound, NotAmong, Those
<1>5. HandLast(rows) = ahead \o last
  BY DEF HandLast, yields
<1> HIDE DEF ahead, last
<1>6. AllIds(ahead) \cap AllIds(last) = {}
  <2>1. /\ ToSet(ahead) \in SUBSET ToSet(rows) /\ ToSet(last) \in SUBSET ToSet(rows)
        /\ ToSet(ahead) \cap ToSet(last) = {}
    BY <1>3
  <2> QED BY <2>1, UnionsApart, AllIdsAre DEF Sound
<1>7. Sound(ahead \o last) /\ ToSet(ahead \o last) = ToSet(rows)
  <2>1. Sound(ahead \o last) /\ ToSet(ahead \o last) = ToSet(ahead) \cup ToSet(last)
    BY <1>3, <1>6, JoinedIsSound
  <2> QED BY <1>3, <2>1
<1>8. ASSUME NEW x \in ToSet(rows), NEW p \in ToSet(rows), AheadOf(ahead \o last, x, p)
      PROVE  ByHand(p) \/ (~ByHand(x) /\ AheadOf(rows, x, p))
  <2>1. \/ AheadOf(ahead, x, p) \/ AheadOf(last, x, p)
        \/ x \in ToSet(ahead) /\ p \in ToSet(last)
    BY <1>3, <1>8, JoinedOrder DEF Sound
  <2>2. AheadOf(ahead, x, p) => x \in ToSet(ahead)
    BY <1>3, OneOrder DEF Sound
  <2>3. AheadOf(last, x, p) => p \in ToSet(last)
    BY <1>3, OneOrder DEF Sound
  <2> QED BY <1>3, <1>4, <2>1, <2>2, <2>3
<1> QED BY <1>2, <1>5, <1>7, <1>8 DEF yields

LEMMA HandLastBeside ==
    ASSUME NEW s, NEW t, Beside(s, t), InStep(s, t)
    PROVE  /\ Beside(HandLast(s), HandLast(t)) /\ InStep(HandLast(s), HandLast(t))
           /\ \A x, p : AheadOf(HandLast(s), x, p) /\ ByHand(x) => ByHand(p)
           /\ HandIdsIn(t) = {}
<1> DEFINE u == HandLast(s)
           v == HandLast(t)
<1>1. /\ HandUnregistered(ToSet(s)) /\ HandUnregistered(ToSet(t)) /\ NoneByHand(t)
      /\ Sound(s) /\ Sound(t) /\ Matched(ToSet(s), ToSet(t))
  BY DEF Beside, Matched, HandUnregistered, NoneByHand
<1>2. /\ Sound(u) /\ ToSet(u) = ToSet(s)
      /\ \A x, p \in ToSet(s) : AheadOf(u, x, p) => ByHand(p) \/ (~ByHand(x) /\ AheadOf(s, x, p))
      /\ Sound(v) /\ ToSet(v) = ToSet(t)
      /\ \A y, q \in ToSet(t) : AheadOf(v, y, q) => ByHand(q) \/ (~ByHand(y) /\ AheadOf(t, y, q))
  BY <1>1, HandLastIs
<1> HIDE DEF u, v
<1>3. Beside(u, v)
  BY <1>1, <1>2 DEF Beside
<1>4. ASSUME NEW x \in ToSet(u), NEW p \in ToSet(u), NEW y \in ToSet(v), NEW q \in ToSet(v),
             Upholds(x, y), Upholds(p, q), AheadOf(u, x, p)
      PROVE  AheadOf(v, y, q)
  <2>1. AheadOf(s, x, p)
    BY <1>2, <1>3, <1>4, OneCounterpart
  <2>2. AheadOf(t, y, q)
    BY <1>2, <1>4, <2>1 DEF InStep
  <2>3. ~AheadOf(t, q, y) /\ y # q
    BY <1>1, <2>2, OneOrder DEF Sound
  <2>4. AheadOf(v, y, q) \/ AheadOf(v, q, y)
    BY <1>2, <2>3, OneOrder DEF Sound
  <2> QED BY <1>1, <1>2, <1>4, <2>3, <2>4 DEF NoneByHand
<1>5. \A x, p : AheadOf(u, x, p) => x \in ToSet(u) /\ p \in ToSet(u)
  BY <1>2, OneOrder DEF Sound
<1>6. \A x, p : AheadOf(u, x, p) /\ ByHand(x) => ByHand(p)
  BY <1>2, <1>5
<1>7. HandIdsIn(t) = {}
  <2>1. ASSUME NEW r \in ToSet(t) PROVE YieldingIds(SameMergeKey(t, r)) = {}
    <3>1. YieldingIds(SameMergeKey(t, r)) \subseteq {q.id : q \in ToSet(SameMergeKey(t, r))}
      BY YieldingAreRows
    <3>2. ToSet(SameMergeKey(t, r)) \subseteq ToSet(t)
      BY <1>1, RestIsSound DEF SameMergeKey, Those
    <3>3. \A id \in YieldingIds(SameMergeKey(t, r)) : id \in HandIdsIn(t)
      BY DEF HandIdsIn
    <3>4. \A q \in ToSet(t) : q.id \notin HandIdsIn(t)
      BY <1>1, HandLastIs DEF NoneByHand
    <3> QED BY <3>1, <3>2, <3>3, <3>4
  <2> QED BY <2>1 DEF HandIdsIn
<1> QED BY <1>3, <1>4, <1>6, <1>7 DEF InStep, u, v

\* The first row of its key; the rows dropped; what comes of a row.
LeadsKey(rows, r) ==
    \A p \in ToSet(rows) : AheadOf(rows, p, r) => MergeKey(p) # MergeKey(r)
Folded(rows, r) == ~LeadsKey(rows, r) /\ ~r.distinct
FoldedIds(rows) == {r.id : r \in {r \in ToSet(rows) : Folded(rows, r)}}
FoldedInto(rows, r) == Among(SameMergeKey(rows, r), FoldedIds(rows))
Becoming(rows, r, yields) ==
    IF Folded(rows, r) THEN [rows |-> <<>>, fills |-> <<>>]
    ELSE IF ~LeadsKey(rows, r) THEN [rows |-> <<r>>, fills |-> <<>>]
    ELSE Collapsed(r, FoldedInto(rows, r), yields)

LEMMA CollapsedIntoIs ==
    ASSUME NEW f, IsFrame(f), NEW rows, Sound(rows), NEW yields
    PROVE  /\ CollapsedInto(f, rows, yields).rows
                 = FlattenSeq([i \in DOMAIN rows |-> Becoming(rows, rows[i], yields).rows])
           /\ CollapsedInto(f, rows, yields).fills
                 = f.fills \o FlattenSeq([i \in DOMAIN rows |->
                                            Becoming(rows, rows[i], yields).fills])
<1> DEFINE IsFirst(i) == \A k \in 1..(i - 1) : MergeKey(rows[k]) # MergeKey(rows[i])
           drops == {rows[i].id : i \in {i \in DOMAIN rows : ~IsFirst(i) /\ ~rows[i].distinct}}
           Turned(i) ==
              IF rows[i].id \in drops THEN [rows |-> <<>>, fills |-> <<>>]
              ELSE IF ~IsFirst(i) THEN [rows |-> <<rows[i]>>, fills |-> <<>>]
              ELSE Collapsed(rows[i], Among(SameMergeKey(rows, rows[i]), drops), yields)
           g == CollapsedInto(f, rows, yields)
<1>1. /\ DOMAIN rows = 1 .. Len(rows) /\ Len(rows) \in Nat /\ rows \in Seq(BuildRow)
      /\ ToSet(rows) = {rows[i] : i \in DOMAIN rows}
      /\ \A i, k \in DOMAIN rows : i # k => rows[i].id # rows[k].id /\ rows[i] # rows[k]
  BY SoundByIndex DEF Sound, ToSet
<1>2. ASSUME NEW i \in DOMAIN rows PROVE IsFirst(i) <=> LeadsKey(rows, rows[i])
  <2>1. ASSUME IsFirst(i), NEW p \in ToSet(rows), AheadOf(rows, p, rows[i])
        PROVE  MergeKey(p) # MergeKey(rows[i])
    <3>1. PICK k \in DOMAIN rows, n \in DOMAIN rows : k < n /\ rows[k] = p /\ rows[n] = rows[i]
      BY <2>1 DEF AheadOf
    <3>2. n = i /\ k \in 1 .. i - 1
      BY <1>1, <3>1
    <3> QED BY <2>1, <3>1, <3>2
  <2>2. ASSUME LeadsKey(rows, rows[i]), NEW k \in 1 .. i - 1
        PROVE  MergeKey(rows[k]) # MergeKey(rows[i])
    <3>1. k \in DOMAIN rows /\ k < i
      BY <1>1
    <3>2. AheadOf(rows, rows[k], rows[i]) /\ rows[k] \in ToSet(rows)
      BY <1>1, <3>1 DEF AheadOf
    <3> QED BY <2>2, <3>2 DEF LeadsKey
  <2> QED BY <2>1, <2>2 DEF LeadsKey
<1>3. \A i \in DOMAIN rows : ~IsFirst(i) /\ ~rows[i].distinct <=> Folded(rows, rows[i])
  BY <1>2 DEF Folded
<1>4. drops = FoldedIds(rows)
  <2> HIDE DEF IsFirst
  <2> QED BY <1>1, <1>3 DEF FoldedIds
<1>5. ASSUME NEW i \in DOMAIN rows PROVE rows[i].id \in drops <=> Folded(rows, rows[i])
  <2> HIDE DEF IsFirst
  <2> QED BY <1>1, <1>3
<1> HIDE DEF drops, IsFirst
<1>6. ASSUME NEW i \in DOMAIN rows PROVE Turned(i) = Becoming(rows, rows[i], yields)
  BY <1>2, <1>4, <1>5 DEF Becoming, FoldedInto
<1> DEFINE ss == [i \in DOMAIN rows |-> Turned(i).rows]
           ff == [i \in DOMAIN rows |-> Turned(i).fills]
           list == FlattenSeq(ss)
           fills == f.fills \o FlattenSeq(ff)
<1>7. g = [f EXCEPT !.rows = list, !.fills = fills]
  BY DEF CollapsedInto, drops, IsFirst
<1> HIDE DEF Turned
<1>8. /\ ss = [i \in DOMAIN rows |-> Becoming(rows, rows[i], yields).rows]
      /\ ff = [i \in DOMAIN rows |-> Becoming(rows, rows[i], yields).fills]
  BY <1>6
<1> HIDE DEF list, fills, g
<1>9. g = [rows |-> list, fills |-> fills, retired |-> f.retired]
  BY <1>7 DEF IsFrame
<1>10. g.rows = list /\ g.fills = fills
  BY <1>9
<1> QED BY <1>8, <1>10 DEF list, fills, g

\* A row becomes at most one, under its id.
LEMMA BecomingIs ==
    ASSUME NEW rows, Sound(rows), NEW r \in ToSet(rows), NEW yields
    PROVE  /\ Sound(FoldedInto(rows, r))
           /\ ToSet(FoldedInto(rows, r)) =
                 {q \in ToSet(rows) : MergeKey(q) = MergeKey(r) /\ Folded(rows, q)}
           /\ Folded(rows, r) => Becoming(rows, r, yields).rows = <<>>
           /\ ~Folded(rows, r) => \E row \in BuildRow : /\ Becoming(rows, r, yields).rows = <<row>>
                                                         /\ row.id = r.id
<1> DEFINE same == SameMergeKey(rows, r)
           others == {q \in ToSet(rows) : ~(MergeKey(q) = MergeKey(r))}
<1>1. same = Without(rows, others)
  BY DEF SameMergeKey, Those
<1> HIDE DEF same, others
<1>2. Sound(Without(rows, others)) /\ ToSet(Without(rows, others)) = ToSet(rows) \ others
  BY RestIsSound
<1>3. Sound(same) /\ ToSet(same) = {q \in ToSet(rows) : MergeKey(q) = MergeKey(r)}
  BY <1>1, <1>2 DEF others
<1>4. \A q \in ToSet(rows) : q.id \in FoldedIds(rows) <=> Folded(rows, q)
  BY IdsAreOne DEF FoldedIds
<1>5. /\ Sound(Among(same, FoldedIds(rows)))
      /\ ToSet(Among(same, FoldedIds(rows)))
            = {q \in ToSet(rows) : MergeKey(q) = MergeKey(r) /\ Folded(rows, q)}
  BY <1>3, <1>4, AmongAre
<1>6. Folded(rows, r) => Becoming(rows, r, yields).rows = <<>>
  BY DEF Becoming
<1>7. ASSUME ~Folded(rows, r)
      PROVE  \E row \in BuildRow : Becoming(rows, r, yields).rows = <<row>> /\ row.id = r.id
  <2>1. r \in BuildRow
    BY DEF Sound, ToSet
  <2>2. CASE LeadsKey(rows, r)
    <3>1. Becoming(rows, r, yields) = Collapsed(r, FoldedInto(rows, r), yields)
      BY <1>7, <2>2 DEF Becoming
    <3>2. FoldedInto(rows, r) \in Seq(BuildRow)
      BY <1>5 DEF FoldedInto, same, Sound
    <3> QED BY <2>1, <3>1, <3>2, CollapsedIsOne
  <2>3. CASE ~LeadsKey(rows, r)
    <3>1. Becoming(rows, r, yields).rows = <<r>>
      BY <1>7, <2>3 DEF Becoming
    <3> QED BY <2>1, <3>1
  <2> QED BY <2>2, <2>3
<1> QED BY <1>5, <1>6, <1>7 DEF FoldedInto, same

\* The rows of a collapsed list, and their order.
LEMMA CollapsedOrder ==
    ASSUME NEW f, IsFrame(f), NEW rows, Sound(rows), NEW yields
    PROVE  LET out == CollapsedInto(f, rows, yields).rows
           IN  /\ Sound(out)
               /\ \A z : z \in ToSet(out) <=>
                           \E r \in ToSet(rows) : z \in ToSet(Becoming(rows, r, yields).rows)
               /\ \A z, w \in ToSet(out) : \A r, q \in ToSet(rows) :
                     r.id = z.id /\ q.id = w.id => (AheadOf(out, z, w) <=> AheadOf(rows, r, q))
<1> DEFINE out == CollapsedInto(f, rows, yields).rows
           ss == [i \in DOMAIN rows |-> Becoming(rows, rows[i], yields).rows]
<1>1. /\ DOMAIN rows = 1 .. Len(rows) /\ Len(rows) \in Nat /\ rows \in Seq(BuildRow)
      /\ ToSet(rows) = {rows[i] : i \in DOMAIN rows}
      /\ \A i, k \in DOMAIN rows : i # k => rows[i].id # rows[k].id /\ rows[i] # rows[k]
  BY SoundByIndex DEF Sound, ToSet
<1>2. out = FlattenSeq(ss)
  BY CollapsedIntoIs
<1>3. Sound(out)
  BY CollapsedIsSound
<1> HIDE DEF out
<1>4. ASSUME NEW i \in DOMAIN rows
      PROVE  \/ ss[i] = <<>>
             \/ \E row \in BuildRow : ss[i] = <<row>> /\ row.id = rows[i].id
  <2>1. rows[i] \in ToSet(rows) /\ ss[i] = Becoming(rows, rows[i], yields).rows
    BY <1>1
  <2> QED BY <2>1, BecomingIs
<1>5. ASSUME NEW i \in DOMAIN rows
      PROVE  /\ ss[i] \in Seq(BuildRow) /\ NoRepeats(ss[i])
             /\ \A z \in ToSet(ss[i]) : z.id = rows[i].id
  <2> HIDE DEF ss
  <2>1. CASE ss[i] = <<>>
    BY <2>1 DEF NoRepeats, ToSet
  <2>2. ASSUME NEW row \in BuildRow, ss[i] = <<row>>, row.id = rows[i].id
        PROVE  /\ ss[i] \in Seq(BuildRow) /\ NoRepeats(ss[i])
               /\ \A z \in ToSet(ss[i]) : z.id = rows[i].id
    BY <2>2 DEF NoRepeats, ToSet
  <2> QED BY <1>4, <2>1, <2>2
<1>6. DOMAIN ss = DOMAIN rows /\ ss \in Seq(Seq(BuildRow))
  <2>1. ss = [i \in 1 .. Len(rows) |-> ss[i]] /\ DOMAIN ss = 1 .. Len(rows)
    BY <1>1
  <2> HIDE DEF ss
  <2> QED BY <1>1, <1>5, <2>1
<1>7. \A z : z \in ToSet(out) <=> \E i \in DOMAIN rows : z \in ToSet(ss[i])
  <2> HIDE DEF ss
  <2>1. \A i, k \in DOMAIN ss : i # k => ToSet(ss[i]) \cap ToSet(ss[k]) = {}
    BY <1>1, <1>5, <1>6
  <2>2. ToSet(FlattenSeq(ss)) = UNION {ToSet(ss[i]) : i \in DOMAIN ss}
    BY <1>5, <1>6, <2>1, FlattenedMembers
  <2> QED BY <1>2, <1>6, <2>2
<1>8. \A z : z \in ToSet(out) <=>
               \E r \in ToSet(rows) : z \in ToSet(Becoming(rows, r, yields).rows)
  <2>1. \A i \in DOMAIN rows : ss[i] = Becoming(rows, rows[i], yields).rows
    OBVIOUS
  <2> HIDE DEF ss
  <2> QED BY <1>1, <1>7, <2>1
<1> HIDE DEF ss
<1>9. ASSUME NEW z \in ToSet(out), NEW w \in ToSet(out), NEW i \in DOMAIN rows,
             NEW k \in DOMAIN rows, z \in ToSet(ss[i]), w \in ToSet(ss[k]), i < k
      PROVE  AheadOf(out, z, w)
  BY <1>2, <1>5, <1>6, <1>9, FlattenedOrder
<1>10. ASSUME NEW z \in ToSet(out), NEW w \in ToSet(out),
              NEW r \in ToSet(rows), NEW q \in ToSet(rows), r.id = z.id, q.id = w.id
       PROVE  AheadOf(out, z, w) <=> AheadOf(rows, r, q)
  <2>1. PICK i \in DOMAIN rows, k \in DOMAIN rows : z \in ToSet(ss[i]) /\ w \in ToSet(ss[k])
    BY <1>7
  <2>2. rows[i] = r /\ rows[k] = q
    BY <1>1, <1>5, <1>10, <2>1
  <2>3. AheadOf(rows, r, q) <=> i < k
    BY <1>1, <2>2 DEF AheadOf
  <2>4. i < k => AheadOf(out, z, w)
    BY <1>9, <2>1
  <2>5. k < i => AheadOf(out, w, z)
    BY <1>9, <2>1
  <2>6. i = k => z = w
    BY <1>3, <1>10, <2>2, IdsAreOne
  <2>7. AheadOf(out, z, w) => ~AheadOf(out, w, z) /\ z # w
    BY <1>3, OneOrder DEF Sound
  <2> QED BY <1>1, <2>3, <2>4, <2>5, <2>6, <2>7
<1> QED BY <1>3, <1>8, <1>10 DEF out

LEMMA LeadersAgree ==
    ASSUME NEW s, NEW t, Beside(s, t), InStep(s, t),
           \A x, p : AheadOf(s, x, p) /\ ByHand(x) => ByHand(p),
           NEW x \in ToSet(s), NEW y \in ToSet(t), Upholds(x, y)
    PROVE  (LeadsKey(s, x) <=> LeadsKey(t, y)) /\ (Folded(s, x) <=> Folded(t, y))
<1>1. Sound(s) /\ Sound(t) /\ Matched(ToSet(s), ToSet(t)) /\ ~ByHand(x)
  BY OneCounterpart DEF Beside
<1>2. \A p, q : Upholds(p, q) => MergeKey(p) = MergeKey(q)
  BY DEF Upholds, MergeKey
<1>3. ASSUME LeadsKey(s, x), NEW q \in ToSet(t), AheadOf(t, q, y), MergeKey(q) = MergeKey(y)
      PROVE  FALSE
  <2>1. PICK p \in ToSet(s) : Upholds(p, q)
    BY <1>1 DEF Matched
  <2>2. q # y /\ ~AheadOf(t, y, q)
    BY <1>1, <1>3, OneOrder DEF Sound
  <2>3. p # x
    BY <2>1, <2>2, OneCounterpart
  <2>4. ~AheadOf(s, x, p)
    BY <2>1, <2>2 DEF InStep
  <2>5. AheadOf(s, p, x)
    BY <1>1, <2>3, <2>4, OneOrder DEF Sound
  <2> QED BY <1>2, <1>3, <2>1, <2>5 DEF LeadsKey
<1>4. ASSUME LeadsKey(t, y), NEW p \in ToSet(s), AheadOf(s, p, x), MergeKey(p) = MergeKey(x)
      PROVE  FALSE
  <2>1. ~ByHand(p)
    BY <1>1, <1>4
  <2>2. PICK q \in ToSet(t) : Upholds(p, q)
    BY <1>1, <2>1 DEF Matched
  <2>3. AheadOf(t, q, y)
    BY <1>4, <2>2 DEF InStep
  <2> QED BY <1>2, <1>4, <2>2, <2>3 DEF LeadsKey
<1>5. LeadsKey(s, x) <=> LeadsKey(t, y)
  BY <1>3, <1>4 DEF LeadsKey
<1> QED BY <1>5 DEF Folded, Upholds

\* A row and its counterpart, ahead of lists that are side by side.
LEMMA PrependedBeside ==
    ASSUME NEW g, NEW h, Beside(g, h), InStep(g, h),
           NEW x, NEW y, Upholds(x, y), ~ByHand(x),
           Sound(<<x>> \o g), Sound(<<y>> \o h), x \in BuildRow, y \in BuildRow
    PROVE  Beside(<<x>> \o g, <<y>> \o h) /\ InStep(<<x>> \o g, <<y>> \o h)
<1> DEFINE s == <<x>> \o g
           t == <<y>> \o h
<1>1. /\ Sound(g) /\ Sound(h) /\ Matched(ToSet(g), ToSet(h))
      /\ g \in Seq(BuildRow) /\ h \in Seq(BuildRow)
  BY DEF Beside, Sound
<1>2. /\ ToSet(s) = {x} \cup ToSet(g) /\ ToSet(t) = {y} \cup ToSet(h)
      /\ \A a, b : AheadOf(s, a, b) <=> AheadOf(g, a, b) \/ (a = x /\ b \in ToSet(g))
      /\ \A a, b : AheadOf(t, a, b) <=> AheadOf(h, a, b) \/ (a = y /\ b \in ToSet(h))
  <2>1. /\ ToSet(s) = {x} \cup ToSet(g)
        /\ \A a, b : AheadOf(s, a, b) <=> AheadOf(g, a, b) \/ (a = x /\ b \in ToSet(g))
    BY <1>1, AheadOfAList
  <2>2. /\ ToSet(t) = {y} \cup ToSet(h)
        /\ \A a, b : AheadOf(t, a, b) <=> AheadOf(h, a, b) \/ (a = y /\ b \in ToSet(h))
    BY <1>1, AheadOfAList
  <2> QED BY <2>1, <2>2
<1>4. Sound(s) /\ Sound(t)
  OBVIOUS
<1> HIDE DEF s, t
<1>5. ~ByHand(y)
  BY DEF Upholds, ByHand
<1>6. Beside(s, t)
  BY <1>1, <1>2, <1>4, <1>5 DEF Beside, Matched
<1>7. ASSUME NEW a \in ToSet(s), NEW b \in ToSet(s), NEW c \in ToSet(t), NEW d \in ToSet(t),
             Upholds(a, c), Upholds(b, d), AheadOf(s, a, b)
      PROVE  AheadOf(t, c, d)
  <2>1. a # b
    BY <1>4, <1>7, OneOrder DEF Sound
  <2>2. c # d
    BY <1>6, <1>7, <2>1, OneCounterpart
  <2>3. CASE a = x /\ b \in ToSet(g)
    <3>1. c = y
      BY <1>2, <1>6, <1>7, <2>3, OneCounterpart
    <3>2. d \in ToSet(h)
      BY <1>2, <2>2, <3>1
    <3> QED BY <1>2, <3>1, <3>2
  <2>4. CASE AheadOf(g, a, b)
    <3>1. a \in ToSet(g) /\ b \in ToSet(g)
      BY <1>1, <2>4, OneOrder DEF Sound
    <3>2. x \notin ToSet(g)
      <4>1. NoRepeats(<<x>> \o g) /\ g \in Seq(BuildRow)
        BY <1>1 DEF Sound
      <4>2. /\ Len(g) \in Nat /\ DOMAIN g = 1 .. Len(g) /\ DOMAIN (<<x>> \o g) = 1 .. 1 + Len(g)
            /\ (<<x>> \o g)[1] = x /\ \A n \in 1 .. Len(g) : (<<x>> \o g)[1 + n] = g[n]
        BY <4>1
      <4>3. ASSUME NEW n \in 1 .. Len(g), g[n] = x PROVE FALSE
        <5>1. 1 \in DOMAIN (<<x>> \o g) /\ 1 + n \in DOMAIN (<<x>> \o g) /\ 1 + n # 1
          BY <4>2
        <5> QED BY <4>1, <4>2, <4>3, <5>1 DEF NoRepeats
      <4> QED BY <4>2, <4>3 DEF ToSet
    <3>3. c # y /\ d # y
      BY <1>2, <1>6, <1>7, <3>1, <3>2, OneCounterpart
    <3>4. c \in ToSet(h) /\ d \in ToSet(h)
      BY <1>2, <3>3
    <3>5. AheadOf(h, c, d)
      BY <1>7, <2>4, <3>1, <3>4 DEF InStep
    <3> QED BY <1>2, <3>5
  <2> QED BY <1>2, <1>7, <2>3, <2>4
<1> QED BY <1>6, <1>7 DEF InStep, s, t

\* What a key's first row becomes, of the rows that fill it, that are judged, and that are dropped.
CollapsedRow(kept, givers, judged, dropped) ==
    LET row == Override(FillBlanks(kept, givers), judged)
    IN  [row EXCEPT
           !.clash = IF Cardinality(OutcomesOf(judged)) > 1
                        \/ (Having(judged, LAMBDA r : r.clash) /\ ~WebsiteJudged(judged))
                     THEN ~WebsiteJudged(judged) ELSE @,
           !.registered = \E r \in ToSet(<<kept>> \o dropped) : r.registered,
           !.merged = @ \cup AllIds(dropped)]

HandOf(kept, dropped, yields) == IF kept.id \in yields THEN <<>> ELSE Among(dropped, yields)
GiversOf(dropped, hand) == NotAmong(dropped, {r.id : r \in ToSet(hand)})
RowsJudged(rows, yields) == IF NotAmong(rows, yields) # <<>> THEN NotAmong(rows, yields) ELSE rows

LEMMA CollapsedIs ==
    ASSUME NEW kept, NEW dropped, NEW yields
    PROVE  LET givers == GiversOf(dropped, HandOf(kept, dropped, yields))
           IN  /\ Collapsed(kept, dropped, yields).rows
                     = <<CollapsedRow(kept, givers, RowsJudged(<<kept>> \o givers, yields),
                                      dropped)>>
               /\ Collapsed(kept, dropped, yields).fills
                     = Noted(kept.id, HandOf(kept, dropped, yields), FALSE)
  BY DEF Collapsed, CollapsedRow, AllIds, Handed, HandOf, GiversOf, RowsJudged

LEMMA FillsKeepSource ==
    ASSUME NEW row \in BuildRow, NEW givers \in Seq(BuildRow)
    PROVE  FillBlanks(row, givers).source = row.source
<1> DEFINE rows == <<row>> \o givers
           taken == TakenBy(row, rows)
<1>1. FillBlanks(row, givers) = EvidencedBy(taken, rows)
  BY FillBlanksIs
<1> HIDE DEF rows
<1>2. DOMAIN row = Fields
  BY DEF BuildRow, Fields
<1>3. taken.source = row.source /\ DOMAIN taken = Fields
  BY <1>2 DEF TakenBy, Fields
<1> HIDE DEF taken
<1> QED BY <1>1, <1>3 DEF EvidencedBy, Fields

LEMMA AheadIsSound ==
    ASSUME NEW s, Sound(s), NEW x \in ToSet(s), NEW g, Sound(g), ToSet(g) \subseteq ToSet(s) \ {x}
    PROVE  x \in BuildRow /\ Sound(<<x>> \o g) /\ ToSet(<<x>> \o g) = {x} \cup ToSet(g)
<1>1. x \in BuildRow /\ x.id \notin x.merged
  BY DEF Sound, IdsApart, ToSet
<1>2. Sound(<<x>>) /\ ToSet(<<x>>) = {x} /\ AllIds(<<x>>) = Ids(x)
  BY <1>1, OneIsSound
<1>3. AllIds(<<x>>) \cap AllIds(g) = {}
  <2>1. {x} \in SUBSET ToSet(s) /\ ToSet(g) \in SUBSET ToSet(s) /\ {x} \cap ToSet(g) = {}
    OBVIOUS
  <2>2. IdsUnion({x}) \cap IdsUnion(ToSet(g)) = {}
    BY <2>1, UnionsApart DEF Sound
  <2> QED BY <1>2, <2>2, AllIdsAre
<1> DEFINE one == <<x>>
<1>4. Sound(one) /\ ToSet(one) = {x} /\ AllIds(one) \cap AllIds(g) = {}
  BY <1>2, <1>3
<1> HIDE DEF one
<1>5. Sound(one \o g) /\ ToSet(one \o g) = ToSet(one) \cup ToSet(g)
  BY <1>4, JoinedIsSound
<1>6. Sound(one \o g) /\ ToSet(one \o g) = {x} \cup ToSet(g)
  BY <1>4, <1>5
<1> QED BY <1>1, <1>6 DEF one

\* The rows folded into counterparts are side by side.
LEMMA FoldedBeside ==
    ASSUME NEW s, NEW t, Beside(s, t), InStep(s, t),
           \A x, p : AheadOf(s, x, p) /\ ByHand(x) => ByHand(p),
           NEW x \in ToSet(s), NEW y \in ToSet(t), Upholds(x, y)
    PROVE  /\ Beside(FoldedInto(s, x), FoldedInto(t, y))
           /\ InStep(FoldedInto(s, x), FoldedInto(t, y))
<1> DEFINE u == SameMergeKey(s, x)
           v == SameMergeKey(t, y)
           X == {q \in ToSet(s) : ~(MergeKey(q) = MergeKey(x))}
           Y == {q \in ToSet(t) : ~(MergeKey(q) = MergeKey(y))}
           U == {r \in ToSet(u) : ~(r.id \in FoldedIds(s))}
           V == {r \in ToSet(v) : ~(r.id \in FoldedIds(t))}
<1>1. /\ u = Without(s, X) /\ v = Without(t, Y)
      /\ FoldedInto(s, x) = Without(u, U) /\ FoldedInto(t, y) = Without(v, V)
  BY DEF SameMergeKey, FoldedInto, Among, Those
<1>2. Sound(s) /\ Sound(t)
  BY DEF Beside
<1>3. \A p \in ToSet(s) : \A q \in ToSet(t) : Upholds(p, q) => (p \in X <=> q \in Y)
  BY DEF Upholds, MergeKey
<1> HIDE DEF u, v, X, Y, U, V
<1>4. Beside(u, v) /\ InStep(u, v)
  BY <1>1, <1>3, RestBeside
<1>5. ToSet(u) \subseteq ToSet(s) /\ ToSet(v) \subseteq ToSet(t)
  <2>1. ToSet(Without(s, X)) = ToSet(s) \ X
    BY <1>2, RestIsSound
  <2>2. ToSet(Without(t, Y)) = ToSet(t) \ Y
    BY <1>2, RestIsSound
  <2> QED BY <1>1, <2>1, <2>2
<1>6. /\ \A r \in ToSet(s) : r.id \in FoldedIds(s) <=> Folded(s, r)
      /\ \A r \in ToSet(t) : r.id \in FoldedIds(t) <=> Folded(t, r)
  BY <1>2, IdsAreOne DEF FoldedIds
<1>7. \A p \in ToSet(u) : \A q \in ToSet(v) : Upholds(p, q) => (p \in U <=> q \in V)
  <2> SUFFICES ASSUME NEW p \in ToSet(u), NEW q \in ToSet(v), Upholds(p, q)
               PROVE  p \in U <=> q \in V
    OBVIOUS
  <2>1. Folded(s, p) <=> Folded(t, q)
    BY <1>5, LeadersAgree
  <2> QED BY <1>5, <1>6, <2>1 DEF U, V
<1>8. Beside(Without(u, U), Without(v, V)) /\ InStep(Without(u, U), Without(v, V))
  BY <1>4, <1>7, RestBeside
<1> QED BY <1>1, <1>8

\* What becomes of the first row of a key, when it was not added by hand.
LEMMA CollapsedUpholds ==
    ASSUME NEW s, NEW t, Beside(s, t), InStep(s, t),
           \A x, p : AheadOf(s, x, p) /\ ByHand(x) => ByHand(p),
           NEW x \in ToSet(s), NEW y \in ToSet(t), Upholds(x, y), LeadsKey(s, x),
           NEW yields, \A r \in ToSet(s) : r.id \in yields <=> ByHand(r)
    PROVE  \E row, made : /\ Collapsed(x, FoldedInto(s, x), yields).rows = <<row>>
                          /\ Collapsed(y, FoldedInto(t, y), {}).rows = <<made>>
                          /\ Upholds(row, made) /\ ~ByHand(made)
                          /\ Collapsed(y, FoldedInto(t, y), {}).fills = <<>>
<1> DEFINE D == FoldedInto(s, x)
           E == FoldedInto(t, y)
           hand == Among(D, yields)
           none == Among(E, {})
           g == NotAmong(D, {r.id : r \in ToSet(hand)})
           h == NotAmong(E, {r.id : r \in ToSet(<<>>)})
           first == <<x>> \o g
           second == <<y>> \o h
           j == NotAmong(first, yields)
           k == NotAmong(second, {})
<1>1. Sound(s) /\ Sound(t) /\ ~ByHand(x) /\ ~ByHand(y) /\ LeadsKey(t, y)
  <2>1. ~ByHand(x) /\ LeadsKey(t, y)
    BY LeadersAgree, OneCounterpart
  <2> QED BY <2>1 DEF Beside, Matched
<1>2. /\ Sound(D) /\ ToSet(D) \subseteq ToSet(s) \ {x}
      /\ Sound(E) /\ ToSet(E) \subseteq ToSet(t) \ {y}
  BY <1>1, BecomingIs DEF Folded
<1>3. Beside(D, E) /\ InStep(D, E)
  BY FoldedBeside
<1> HIDE DEF D, E
<1>4. /\ Sound(hand) /\ ToSet(hand) = {r \in ToSet(D) : ByHand(r)}
      /\ Sound(none) /\ none = <<>>
  <2>1. Sound(none) /\ ToSet(none) = {}
    BY <1>2, AmongAre
  <2>2. none = <<>>
    BY <2>1, AtMostOneRow
  <2> QED BY <1>2, <2>1, <2>2, AmongAre
<1> HIDE DEF hand, none
<1>5. Beside(g, h) /\ InStep(g, h) /\ NoneByHand(g)
  <2> DEFINE X == {r \in ToSet(D) : ~(r.id \notin {q.id : q \in ToSet(hand)})}
             Y == {r \in ToSet(E) : ~(r.id \notin {q.id : q \in ToSet(<<>>)})}
  <2>1. g = Without(D, X) /\ h = Without(E, Y)
    BY DEF NotAmong, Those
  <2>2. \A r \in ToSet(D) : r \in X <=> ByHand(r)
    BY <1>2, <1>4, IdsAreOne
  <2>3. Y = {}
    BY EmptyIsSound
  <2>4. \A p \in ToSet(D) : \A q \in ToSet(E) : Upholds(p, q) => (p \in X <=> q \in Y)
    BY <1>3, <2>2, <2>3, OneCounterpart
  <2>5. ToSet(Without(D, X)) = ToSet(D) \ X
    BY <1>2, RestIsSound
  <2> HIDE DEF X, Y, g, h
  <2>6. Beside(Without(D, X), Without(E, Y)) /\ InStep(Without(D, X), Without(E, Y))
    BY <1>3, <2>4, RestBeside
  <2>7. NoneByHand(g)
    BY <2>1, <2>2, <2>5 DEF NoneByHand
  <2> QED BY <2>1, <2>6, <2>7
<1>6. /\ Sound(g) /\ ToSet(g) \subseteq ToSet(D) /\ g \in Seq(BuildRow)
      /\ Sound(h) /\ ToSet(h) \subseteq ToSet(E) /\ h \in Seq(BuildRow)
  <2>1. Sound(g) /\ ToSet(g) \subseteq ToSet(D)
    BY <1>2, AmongAre
  <2>2. Sound(h) /\ ToSet(h) \subseteq ToSet(E)
    BY <1>2, AmongAre
  <2> QED BY <2>1, <2>2 DEF Sound
<1> HIDE DEF g, h
<1>7. /\ x \in BuildRow /\ Sound(first) /\ ToSet(first) = {x} \cup ToSet(g)
      /\ y \in BuildRow /\ Sound(second) /\ ToSet(second) = {y} \cup ToSet(h)
  <2>1. x \in BuildRow /\ Sound(first) /\ ToSet(first) = {x} \cup ToSet(g)
    BY <1>1, <1>2, <1>6, AheadIsSound
  <2>2. y \in BuildRow /\ Sound(second) /\ ToSet(second) = {y} \cup ToSet(h)
    BY <1>1, <1>2, <1>6, AheadIsSound
  <2> QED BY <2>1, <2>2
<1>8. Beside(first, second) /\ InStep(first, second)
  BY <1>1, <1>5, <1>7, PrependedBeside
<1>9. NoneByHand(first)
  BY <1>1, <1>5, <1>7 DEF NoneByHand
<1>10. Upholds(FillBlanks(x, g), FillBlanks(y, h))
  BY <1>6, <1>7, <1>8, <1>9, FillsUphold
<1> HIDE DEF first, second
<1>11. /\ Beside(j, k) /\ InStep(j, k) /\ NoneByHand(j)
       /\ ToSet(j) = ToSet(first) /\ ToSet(k) = ToSet(second)
  <2> DEFINE X == {r \in ToSet(first) : ~(r.id \notin yields)}
             Y == {r \in ToSet(second) : ~(r.id \notin {})}
  <2>1. j = Without(first, X) /\ k = Without(second, Y)
    BY DEF NotAmong, Those
  <2>2. X = {} /\ Y = {}
    BY <1>2, <1>6, <1>7, <1>9 DEF NoneByHand
  <2>3. ToSet(Without(first, X)) = ToSet(first) \ X
    BY <1>7, RestIsSound
  <2>4. ToSet(Without(second, Y)) = ToSet(second) \ Y
    BY <1>7, RestIsSound
  <2> HIDE DEF X, Y, j, k
  <2>5. Beside(Without(first, X), Without(second, Y))
        /\ InStep(Without(first, X), Without(second, Y))
    BY <1>8, <2>2, RestBeside
  <2> QED BY <1>9, <2>1, <2>2, <2>3, <2>4, <2>5 DEF NoneByHand
<1>12. j # <<>> /\ k # <<>>
  BY <1>7, <1>11, EmptyIsSound
<1> DEFINE row == CollapsedRow(x, g, j, D)
           made == CollapsedRow(y, h, k, E)
<1>13. Collapsed(x, D, yields).rows = <<row>>
  <2>1. hand = HandOf(x, D, yields)
    BY <1>1 DEF hand, HandOf
  <2>2. g = GiversOf(D, hand) /\ first = <<x>> \o g
    BY DEF g, GiversOf, first
  <2>3. j = RowsJudged(first, yields)
    BY <1>12 DEF RowsJudged
  <2> HIDE DEF j, row
  <2>4. Collapsed(x, D, yields).rows = <<CollapsedRow(x, g, j, D)>>
    BY <2>1, <2>2, <2>3, CollapsedIs
  <2> QED BY <2>4 DEF row
<1>14. Collapsed(y, E, {}).rows = <<made>> /\ Collapsed(y, E, {}).fills = Noted(y.id, none, FALSE)
  <2>1. none = HandOf(y, E, {})
    BY DEF none, HandOf
  <2>2. h = GiversOf(E, none) /\ second = <<y>> \o h
    BY <1>4 DEF h, GiversOf, second
  <2>3. k = RowsJudged(second, {})
    BY <1>12 DEF RowsJudged
  <2> HIDE DEF k, made
  <2>4. /\ Collapsed(y, E, {}).rows = <<CollapsedRow(y, h, k, E)>>
        /\ Collapsed(y, E, {}).fills = Noted(y.id, none, FALSE)
    BY <2>1, <2>2, <2>3, CollapsedIs
  <2> QED BY <2>4 DEF made
<1>15. Noted(y.id, none, FALSE) = <<>>
  BY <1>4 DEF Noted
<1> HIDE DEF j, k
<1>16. Upholds(row, made) /\ ~ByHand(made)
  <2> DEFINE a == FillBlanks(x, g)
             b == FillBlanks(y, h)
  <2>1. a \in BuildRow /\ b \in BuildRow /\ b.source = y.source
    BY <1>6, <1>7, FillsKeep, FillsKeepSource
  <2> DEFINE over == Override(a, j)
             upon == Override(b, k)
  <2>2. Upholds(a, b)
    BY <1>10
  <2> HIDE DEF a, b
  <2>3. Upholds(over, upon) /\ DOMAIN over = Fields /\ DOMAIN upon = Fields
    <3>1. Upholds(over, upon)
      BY <1>11, <2>1, <2>2, OverrideUpholds
    <3>2. over \in BuildRow /\ upon \in BuildRow
      BY <1>11, <2>1, OverrideKeeps DEF Beside, Sound
    <3> QED BY <3>1, <3>2 DEF BuildRow, Fields
  <2>4. upon.source # "hand"
    BY <1>1, <2>1, OverriddenIs DEF ByHand
  <2>5. /\ OutcomesOf(j) = OutcomesOf(k) /\ WebsiteJudged(j) = WebsiteJudged(k)
        /\ (\E r \in ToSet(j) : r.clash) = (\E r \in ToSet(k) : r.clash)
    BY <1>11, ListsAgree
  <2>6. AllIds(E) \subseteq AllIds(D)
    BY <1>3 DEF Beside, Matched, Upholds, AllIds, Ids
  <2> DEFINE NewClash(rows, row0) ==
                IF Cardinality(OutcomesOf(rows)) > 1
                   \/ (Having(rows, LAMBDA r : r.clash) /\ ~WebsiteJudged(rows))
                THEN ~WebsiteJudged(rows) ELSE row0.clash
  <2>7. /\ row = [over EXCEPT !.clash = NewClash(j, over),
                              !.registered = \E r \in ToSet(<<x>> \o D) : r.registered,
                              !.merged = over.merged \cup AllIds(D)]
        /\ made = [upon EXCEPT !.clash = NewClash(k, upon),
                               !.registered = \E r \in ToSet(<<y>> \o E) : r.registered,
                               !.merged = upon.merged \cup AllIds(E)]
    BY DEF CollapsedRow, a, b
  <2>8. NewClash(j, over) = NewClash(k, upon)
    <3>1. Having(j, LAMBDA r : r.clash) = Having(k, LAMBDA r : r.clash)
      BY <2>5 DEF Having
    <3>2. over.clash = upon.clash
      BY <2>3 DEF Upholds
    <3> HIDE DEF over, upon
    <3> QED BY <2>5, <3>1, <3>2
  <2> HIDE DEF row, made, over, upon, NewClash
  <2> QED BY <2>3, <2>4, <2>6, <2>7, <2>8 DEF Upholds, ByHand, Fields
<1> HIDE DEF row, made
<1> QED BY <1>13, <1>14, <1>15, <1>16 DEF D, E

\* ... and when it was: every row of its key was.
LEMMA CollapsedByHand ==
    ASSUME NEW s, Sound(s), HandUnregistered(ToSet(s)),
           \A x, p : AheadOf(s, x, p) /\ ByHand(x) => ByHand(p),
           NEW x \in ToSet(s), ByHand(x), LeadsKey(s, x),
           NEW yields, x.id \in yields
    PROVE  \E row : /\ Collapsed(x, FoldedInto(s, x), yields).rows = <<row>>
                    /\ ByHand(row) /\ ~row.registered
<1> DEFINE D == FoldedInto(s, x)
           g == GiversOf(D, <<>>)
           first == <<x>> \o g
           j == RowsJudged(first, yields)
           row == CollapsedRow(x, g, j, D)
<1>1. Sound(D) /\ ToSet(D) \subseteq ToSet(s) \ {x} /\ \A r \in ToSet(D) : ByHand(r)
  <2>1. /\ Sound(D)
        /\ ToSet(D) = {q \in ToSet(s) : MergeKey(q) = MergeKey(x) /\ Folded(s, q)}
    BY BecomingIs
  <2> HIDE DEF D
  <2>2. ASSUME NEW q \in ToSet(D) PROVE q \in ToSet(s) \ {x} /\ ByHand(q)
    <3>1. q \in ToSet(s) /\ q # x /\ MergeKey(q) = MergeKey(x)
      BY <2>1 DEF Folded
    <3>2. ~AheadOf(s, q, x)
      BY <3>1 DEF LeadsKey
    <3>3. AheadOf(s, x, q)
      BY <3>1, <3>2, OneOrder DEF Sound
    <3> QED BY <3>1, <3>3
  <2> QED BY <2>1, <2>2
<1> HIDE DEF D
<1>2. Collapsed(x, D, yields).rows = <<row>>
  <2>1. HandOf(x, D, yields) = <<>>
    BY DEF HandOf
  <2> QED BY <2>1, CollapsedIs
<1>3. Sound(g) /\ ToSet(g) \subseteq ToSet(D) /\ g \in Seq(BuildRow)
  <2>1. Sound(g) /\ ToSet(g) \subseteq ToSet(D)
    BY <1>1, AmongAre DEF GiversOf
  <2> QED BY <2>1 DEF Sound
<1> HIDE DEF g
<1>4. x \in BuildRow /\ Sound(first) /\ ToSet(first) = {x} \cup ToSet(g)
  BY <1>1, <1>3, AheadIsSound
<1>5. x \in BuildRow /\ Sound(<<x>> \o D) /\ ToSet(<<x>> \o D) = {x} \cup ToSet(D)
  BY <1>1, AheadIsSound
<1> HIDE DEF first
<1>6. Sound(j) /\ ToSet(j) \subseteq ToSet(first)
  <2>1. Sound(NotAmong(first, yields)) /\ ToSet(NotAmong(first, yields)) \subseteq ToSet(first)
    BY <1>4, AmongAre
  <2> QED BY <1>4, <2>1 DEF RowsJudged
<1> HIDE DEF j
<1>7. OfWebsite(j) = {}
  BY <1>1, <1>3, <1>4, <1>6 DEF OfWebsite, ByHand
<1> DEFINE filled == FillBlanks(x, g)
           over == Override(filled, j)
<1>8. filled \in BuildRow /\ filled.source = "hand"
  BY <1>3, <1>4, FillsKeep, FillsKeepSource DEF ByHand
<1>9. row.source = over.source /\ row.registered = \E r \in ToSet(<<x>> \o D) : r.registered
  <2>1. over \in BuildRow
    BY <1>6, <1>8, OverrideKeeps DEF Sound
  <2>2. DOMAIN over = Fields
    BY <2>1 DEF BuildRow, Fields
  <2>3. row = [over EXCEPT
                 !.clash = IF Cardinality(OutcomesOf(j)) > 1
                              \/ (Having(j, LAMBDA r : r.clash) /\ ~WebsiteJudged(j))
                           THEN ~WebsiteJudged(j) ELSE @,
                 !.registered = \E r \in ToSet(<<x>> \o D) : r.registered,
                 !.merged = @ \cup AllIds(D)]
    BY DEF CollapsedRow
  <2> HIDE DEF over, row
  <2> QED BY <2>2, <2>3 DEF Fields
<1> HIDE DEF filled, row
<1>10. over.source = "hand"
  BY <1>7, <1>8, OverriddenIs
<1>11. ~\E r \in ToSet(<<x>> \o D) : r.registered
  BY <1>1, <1>5 DEF HandUnregistered
<1>12. ByHand(row) /\ ~row.registered
  BY <1>9, <1>10, <1>11 DEF ByHand
<1> QED BY <1>2, <1>12 DEF D

LEMMA OneAlone == \A row : ToSet(<<row>>) = {row}
<1>1. ASSUME NEW row PROVE ToSet(<<row>>) = {row}
  <2>1. DOMAIN <<row>> = {1} /\ <<row>>[1] = row
    OBVIOUS
  <2> QED BY <2>1 DEF ToSet
<1> QED BY <1>1

LEMMA BecomingByHand ==
    ASSUME NEW s, Sound(s), HandUnregistered(ToSet(s)),
           \A x, p : AheadOf(s, x, p) /\ ByHand(x) => ByHand(p),
           NEW x \in ToSet(s), ByHand(x), NEW yields, x.id \in yields,
           NEW z \in ToSet(Becoming(s, x, yields).rows)
    PROVE  ByHand(z) /\ ~z.registered
<1>1. ~Folded(s, x)
  BY EmptyIsSound DEF Becoming
<1>2. CASE LeadsKey(s, x)
  <2>1. Becoming(s, x, yields).rows = Collapsed(x, FoldedInto(s, x), yields).rows
    BY <1>1, <1>2 DEF Becoming
  <2>2. PICK row : /\ Collapsed(x, FoldedInto(s, x), yields).rows = <<row>>
                   /\ ByHand(row) /\ ~row.registered
    BY <1>2, CollapsedByHand
  <2> QED BY OneAlone, <2>1, <2>2
<1>3. CASE ~LeadsKey(s, x)
  <2>1. Becoming(s, x, yields).rows = <<x>>
    BY <1>1, <1>3 DEF Becoming
  <2> QED BY OneAlone, <2>1 DEF HandUnregistered
<1> QED BY <1>2, <1>3

HandComesLast(s) == \A x, p : AheadOf(s, x, p) /\ ByHand(x) => ByHand(p)
BecomeAlike(s, x, yields, t, y) ==
    /\ Becoming(t, y, {}).fills = <<>>
    /\ \A c \in ToSet(Becoming(t, y, {}).rows) :
          ~ByHand(c) /\ \E z \in ToSet(Becoming(s, x, yields).rows) : Upholds(z, c)
    /\ \A z \in ToSet(Becoming(s, x, yields).rows) :
          \E c \in ToSet(Becoming(t, y, {}).rows) : Upholds(z, c)

LEMMA BecomingUpholds ==
    ASSUME NEW s, NEW t, Beside(s, t), InStep(s, t),
           HandComesLast(s),
           NEW yields, \A r \in ToSet(s) : r.id \in yields <=> ByHand(r),
           NEW x \in ToSet(s), NEW y \in ToSet(t), Upholds(x, y)
    PROVE  BecomeAlike(s, x, yields, t, y)
<1>1. /\ LeadsKey(s, x) <=> LeadsKey(t, y)
      /\ Folded(s, x) <=> Folded(t, y)
      /\ ~ByHand(y)
  BY LeadersAgree DEF Beside, Matched, HandComesLast
<1>2. CASE Folded(s, x)
  <2>1. Becoming(s, x, yields).rows = <<>> /\ Becoming(t, y, {}) = [rows |-> <<>>, fills |-> <<>>]
    BY <1>1, <1>2 DEF Becoming
  <2> QED BY <2>1, EmptyIsSound DEF BecomeAlike
<1>3. CASE ~Folded(s, x) /\ ~LeadsKey(s, x)
  <2>1. Becoming(s, x, yields).rows = <<x>>
        /\ Becoming(t, y, {}) = [rows |-> <<y>>, fills |-> <<>>]
    BY <1>1, <1>3 DEF Becoming
  <2>2. Becoming(t, y, {}).rows = <<y>> /\ Becoming(t, y, {}).fills = <<>>
    BY <2>1
  <2>3. ToSet(Becoming(s, x, yields).rows) = {x} /\ ToSet(Becoming(t, y, {}).rows) = {y}
    BY OneAlone, <2>1, <2>2
  <2> QED BY <1>1, <2>2, <2>3 DEF BecomeAlike
<1>4. CASE ~Folded(s, x) /\ LeadsKey(s, x)
  <2>1. /\ Becoming(s, x, yields) = Collapsed(x, FoldedInto(s, x), yields)
        /\ Becoming(t, y, {}) = Collapsed(y, FoldedInto(t, y), {})
    BY <1>1, <1>4 DEF Becoming
  <2>2. PICK row, made : /\ Collapsed(x, FoldedInto(s, x), yields).rows = <<row>>
                         /\ Collapsed(y, FoldedInto(t, y), {}).rows = <<made>>
                         /\ Upholds(row, made) /\ ~ByHand(made)
                         /\ Collapsed(y, FoldedInto(t, y), {}).fills = <<>>
    BY <1>4, CollapsedUpholds DEF HandComesLast
  <2>3. ToSet(Becoming(s, x, yields).rows) = {row} /\ ToSet(Becoming(t, y, {}).rows) = {made}
    BY OneAlone, <2>1, <2>2
  <2> QED BY <2>1, <2>2, <2>3 DEF BecomeAlike
<1> QED BY <1>2, <1>3, <1>4

LEMMA OneBecomes ==
    ASSUME NEW rows, Sound(rows), NEW r \in ToSet(rows), NEW yields,
           NEW z \in ToSet(Becoming(rows, r, yields).rows)
    PROVE  z.id = r.id
<1>1. ~Folded(rows, r)
  BY BecomingIs, EmptyIsSound
<1>2. PICK row \in BuildRow : Becoming(rows, r, yields).rows = <<row>> /\ row.id = r.id
  BY <1>1, BecomingIs
<1>3. ToSet(<<row>>) = {row}
  BY OneInAList
<1> QED BY <1>2, <1>3

LEMMA CollapseKeysBeside ==
    ASSUME NEW f, NEW e, Good(f), Good(e), Beside(f.rows, e.rows), InStep(f.rows, e.rows),
           e.fills = <<>>
    PROVE  /\ Beside(CollapseKeys(f).rows, CollapseKeys(e).rows)
           /\ InStep(CollapseKeys(f).rows, CollapseKeys(e).rows)
           /\ CollapseKeys(e).fills = <<>>
<1> DEFINE s == HandLast(f.rows)
           t == HandLast(e.rows)
           yields == HandIdsIn(f.rows)
           out == CollapsedInto(f, s, yields).rows
           beside == CollapsedInto(e, t, {}).rows
<1>1. /\ Beside(s, t) /\ InStep(s, t) /\ HandIdsIn(e.rows) = {}
      /\ \A x, p : AheadOf(s, x, p) /\ ByHand(x) => ByHand(p)
  BY HandLastBeside
<1>2. \A r \in ToSet(s) : r.id \in yields <=> ByHand(r)
  BY HandLastIs DEF Beside, Matched, HandUnregistered
<1>3. /\ CollapseKeys(f).rows = out /\ CollapseKeys(e).rows = beside
      /\ CollapseKeys(e).fills = CollapsedInto(e, t, {}).fills
  BY <1>1 DEF CollapseKeys, HandLast, HandIdsIn
<1>4. Sound(s) /\ Sound(t) /\ IsFrame(f) /\ IsFrame(e)
  BY <1>1 DEF Beside, Good
<1> HIDE DEF s, t, yields
<1>5. /\ Sound(out)
      /\ \A z : z \in ToSet(out) <=>
                  \E r \in ToSet(s) : z \in ToSet(Becoming(s, r, yields).rows)
      /\ \A z, w \in ToSet(out) : \A r, q \in ToSet(s) :
            r.id = z.id /\ q.id = w.id => (AheadOf(out, z, w) <=> AheadOf(s, r, q))
  BY <1>4, CollapsedOrder
<1>6. /\ Sound(beside)
      /\ \A z : z \in ToSet(beside) <=>
                  \E r \in ToSet(t) : z \in ToSet(Becoming(t, r, {}).rows)
      /\ \A z, w \in ToSet(beside) : \A r, q \in ToSet(t) :
            r.id = z.id /\ q.id = w.id => (AheadOf(beside, z, w) <=> AheadOf(t, r, q))
  BY <1>4, CollapsedOrder
<1> HIDE DEF out, beside
<1>7. /\ \A x \in ToSet(s) : ByHand(x) =>
            \A z \in ToSet(Becoming(s, x, yields).rows) : ByHand(z) /\ ~z.registered
      /\ \A x \in ToSet(s) : \A y \in ToSet(t) : Upholds(x, y) =>
            /\ Becoming(t, y, {}).fills = <<>>
            /\ \A c \in ToSet(Becoming(t, y, {}).rows) :
                  ~ByHand(c) /\ \E z \in ToSet(Becoming(s, x, yields).rows) : Upholds(z, c)
            /\ \A z \in ToSet(Becoming(s, x, yields).rows) :
                  \E c \in ToSet(Becoming(t, y, {}).rows) : Upholds(z, c)
  <2>1. ASSUME NEW x \in ToSet(s), ByHand(x), NEW z \in ToSet(Becoming(s, x, yields).rows)
        PROVE  ByHand(z) /\ ~z.registered
    <3>1. HandUnregistered(ToSet(s))
      BY <1>1 DEF Beside, Matched, HandUnregistered
    <3> QED BY <1>1, <1>2, <1>4, <2>1, <3>1, BecomingByHand
  <2>2. ASSUME NEW x \in ToSet(s), NEW y \in ToSet(t), Upholds(x, y)
        PROVE  BecomeAlike(s, x, yields, t, y)
    <3>1. HandComesLast(s)
      BY <1>1 DEF HandComesLast
    <3>2. Beside(s, t) /\ InStep(s, t)
      BY <1>1
    <3> QED BY <1>2, <2>2, <3>1, <3>2, BecomingUpholds
  <2> QED BY <2>1, <2>2 DEF BecomeAlike
<1>8. ASSUME NEW z \in ToSet(out) PROVE \E r \in ToSet(s) : r.id = z.id
  BY <1>4, <1>5, OneBecomes
<1>9. ASSUME NEW z \in ToSet(beside) PROVE \E r \in ToSet(t) : r.id = z.id
  BY <1>4, <1>6, OneBecomes
<1>10. Matched(ToSet(out), ToSet(beside))
  <2>1. ASSUME NEW c \in ToSet(beside) PROVE ~ByHand(c) /\ \E z \in ToSet(out) : Upholds(z, c)
    <3>1. PICK y \in ToSet(t) : c \in ToSet(Becoming(t, y, {}).rows)
      BY <1>6
    <3>2. PICK x \in ToSet(s) : Upholds(x, y)
      BY <1>1 DEF Beside, Matched
    <3> QED BY <1>5, <1>7, <3>1, <3>2
  <2>2. ASSUME NEW z \in ToSet(out)
        PROVE  (~ByHand(z) => \E c \in ToSet(beside) : Upholds(z, c))
               /\ (ByHand(z) => ~z.registered)
    <3>1. PICK x \in ToSet(s) : z \in ToSet(Becoming(s, x, yields).rows)
      BY <1>5
    <3>2. CASE ByHand(x)
      BY <1>7, <3>1, <3>2
    <3>3. CASE ~ByHand(x)
      <4>1. PICK y \in ToSet(t) : Upholds(x, y)
        BY <1>1, <3>3 DEF Beside, Matched
      <4>2. PICK c \in ToSet(Becoming(t, y, {}).rows) : Upholds(z, c)
        BY <1>7, <3>1, <4>1
      <4>3. c \in ToSet(beside) /\ ~ByHand(z)
        BY <1>6, <1>7, <4>1, <4>2 DEF Upholds, ByHand
      <4> QED BY <4>2, <4>3
    <3> QED BY <3>2, <3>3
  <2> QED BY <2>1, <2>2 DEF Matched
<1>11. Beside(out, beside)
  BY <1>5, <1>6, <1>10 DEF Beside
<1>12. ASSUME NEW z \in ToSet(out), NEW w \in ToSet(out),
              NEW c \in ToSet(beside), NEW d \in ToSet(beside),
              Upholds(z, c), Upholds(w, d), AheadOf(out, z, w)
       PROVE  AheadOf(beside, c, d)
  <2>1. PICK r \in ToSet(s), q \in ToSet(s) : r.id = z.id /\ q.id = w.id
    BY <1>8
  <2>2. PICK y \in ToSet(t), p \in ToSet(t) : y.id = c.id /\ p.id = d.id
    BY <1>9
  <2>3. Upholds(r, y) /\ Upholds(q, p)
    <3>1. PICK x \in ToSet(s), v \in ToSet(s) : Upholds(x, y) /\ Upholds(v, p)
      BY <1>1 DEF Beside, Matched
    <3>2. x.id = r.id /\ v.id = q.id
      BY <1>12, <2>1, <2>2, <3>1 DEF Upholds
    <3>3. x = r /\ v = q
      BY <1>4, <3>2, IdsAreOne
    <3> QED BY <3>1, <3>3
  <2>4. AheadOf(s, r, q)
    BY <1>5, <1>12, <2>1
  <2>5. AheadOf(t, y, p)
    BY <1>1, <2>3, <2>4 DEF InStep
  <2> QED BY <1>6, <2>2, <2>5
<1>13. CollapseKeys(e).fills = <<>>
  <2> DEFINE ss == [i \in DOMAIN t |-> Becoming(t, t[i], {}).fills]
  <2>1. CollapsedInto(e, t, {}).fills = e.fills \o FlattenSeq(ss)
    BY <1>4, CollapsedIntoIs
  <2>2. DOMAIN t = 1 .. Len(t) /\ Len(t) \in Nat
    BY <1>4 DEF Sound
  <2>3. \A i \in DOMAIN t : Becoming(t, t[i], {}).fills = <<>>
    <3>1. ASSUME NEW i \in DOMAIN t PROVE Becoming(t, t[i], {}).fills = <<>>
      <4>1. t[i] \in ToSet(t)
        BY DEF ToSet
      <4>2. PICK x \in ToSet(s) : Upholds(x, t[i])
        BY <1>1, <4>1 DEF Beside, Matched
      <4> QED BY <1>7, <4>1, <4>2
    <3> QED BY <3>1
  <2>4. ss = [i \in 1 .. Len(t) |-> <<>>]
    BY <2>2, <2>3
  <2> HIDE DEF ss
  <2>5. FlattenSeq(ss) = <<>>
    BY <2>2, <2>4, NothingFlattened
  <2>6. <<>> \o <<>> = <<>>
    OBVIOUS
  <2> QED BY <1>3, <2>1, <2>5, <2>6
<1> QED BY <1>3, <1>11, <1>12, <1>13 DEF InStep

-----------------------------------------------------------------------------
(***************************************************************************)
(* The fills that are noted are a list, whatever step notes them.          *)
(***************************************************************************)
LEMMA SoundIsAList == \A s : Sound(s) => IsList(s)
  BY ListsAre DEF Sound

LEMMA NotedIsAList ==
    ASSUME NEW rows, Sound(rows), NEW into, NEW link
    PROVE  IsList(Noted(into, rows, link))
<1> DEFINE note(r) == [into |-> into, row |-> r, link |-> link]
           S == {note(r) : r \in ToSet(rows)}
<1>1. DOMAIN rows = 1 .. Len(rows) /\ Len(rows) \in Nat
  BY DEF Sound
<1>2. Noted(into, rows, link) = [i \in 1 .. Len(rows) |-> note(rows[i])]
  BY <1>1 DEF Noted
<1>3. \A i \in 1 .. Len(rows) : note(rows[i]) \in S
  BY <1>1 DEF ToSet
<1> HIDE DEF note, S
<1>4. Noted(into, rows, link) \in Seq(S)
  BY <1>1, <1>2, <1>3
<1> QED BY <1>4, ListsAre

LEMMA GroupNotesAList ==
    ASSUME NEW rows, Sound(rows), NEW yields
    PROVE  IsList(GroupMerged(rows, yields).fills)
<1> DEFINE mixed == yields # {} /\ yields # {r.id : r \in ToSet(rows)}
           others == IF mixed THEN NotAmong(rows, yields) ELSE rows
           joined == IF mixed THEN Joining(Among(rows, yields), UrlsOf(others)) ELSE <<>>
<1>1. \/ GroupMerged(rows, yields).fills = <<>>
      \/ GroupMerged(rows, yields).fills = Noted(Head(others).id, joined, TRUE)
  BY DEF GroupMerged
<1>2. Sound(joined)
  BY AmongAre, JoiningAre, EmptyIsSound
<1> HIDE DEF others, joined
<1> QED BY <1>1, <1>2, ListsAre, NotedIsAList

LEMMA MergedNotesAList ==
    ASSUME NEW f, Good(f), IsList(f.fills)
    PROVE  IsList(MergePairs(f).fills)
<1> DEFINE pairs == Mergeable(f)
           groups == PairGroups(pairs)
           ss == [i \in DOMAIN groups |-> groups[i].fills]
<1>1. Sound(pairs)
  BY RestIsSound DEF Mergeable, Those, Good
<1>2. MergePairs(f).fills = f.fills \o FlattenSeq(ss)
  BY MergePairsIsSound DEF Good
<1> HIDE DEF pairs
<1>3. /\ {groups[i] : i \in DOMAIN groups} = {PairMerged(pairs, k) : k \in PairsOf(ToSet(pairs))}
      /\ DOMAIN groups = 1 .. Len(groups) /\ Len(groups) \in Nat
  BY <1>1, GroupsOfPairs
<1> HIDE DEF groups
<1>4. ASSUME NEW i \in DOMAIN groups PROVE IsList(groups[i].fills)
  <2>1. PICK k : groups[i] = PairMerged(pairs, k)
    BY <1>3
  <2>2. Sound(OfPair(pairs, k))
    BY <1>1, RestIsSound DEF OfPair, Those
  <2>3. IsList(PairMerged(pairs, k).fills)
    BY <2>2, GroupNotesAList DEF PairMerged
  <2> QED BY <2>1, <2>3
<1>5. /\ ss = [i \in 1 .. Len(groups) |-> ss[i]]
      /\ \A i \in 1 .. Len(groups) : IsList(ss[i])
  BY <1>3, <1>4
<1> HIDE DEF ss
<1>6. IsList(FlattenSeq(ss))
  BY <1>3, <1>5, ListsFlatten
<1> QED BY <1>2, <1>6, ListsJoin

LEMMA CollapsedNotesAList ==
    ASSUME NEW f, Good(f), IsList(f.fills)
    PROVE  IsList(CollapseKeys(f).fills)
<1> DEFINE s == HandLast(f.rows)
           yields == HandIdsIn(f.rows)
           ss == [i \in DOMAIN s |-> Becoming(s, s[i], yields).fills]
<1>1. Sound(s)
  <2> DEFINE ahead == NotAmong(f.rows, yields)
             last == Among(f.rows, yields)
  <2>1. /\ Sound(ahead) /\ ToSet(ahead) = {r \in ToSet(f.rows) : r.id \notin yields}
        /\ Sound(last) /\ ToSet(last) = {r \in ToSet(f.rows) : r.id \in yields}
    BY AmongAre DEF Good
  <2>2. s = ahead \o last
    BY DEF HandLast
  <2> HIDE DEF ahead, last, yields, s
  <2>3. AllIds(ahead) \cap AllIds(last) = {}
    <3>1. /\ ToSet(ahead) \in SUBSET ToSet(f.rows) /\ ToSet(last) \in SUBSET ToSet(f.rows)
          /\ ToSet(ahead) \cap ToSet(last) = {}
      BY <2>1
    <3> QED BY <3>1, UnionsApart, AllIdsAre DEF Sound, Good
  <2> QED BY <2>1, <2>2, <2>3, JoinedIsSound
<1>2. CollapseKeys(f).fills = CollapsedInto(f, s, yields).fills
  BY DEF CollapseKeys, HandLast, HandIdsIn
<1> HIDE DEF s, yields
<1>3. CollapsedInto(f, s, yields).fills = f.fills \o FlattenSeq(ss)
  <2>1. IsFrame(f)
    BY DEF Good
  <2> HIDE DEF ss
  <2>2. CollapsedInto(f, s, yields).fills
           = f.fills \o FlattenSeq([i \in DOMAIN s |-> Becoming(s, s[i], yields).fills])
    BY <1>1, <2>1, CollapsedIntoIs, Zenon
  <2> QED BY <2>2 DEF ss
<1>4. DOMAIN s = 1 .. Len(s) /\ Len(s) \in Nat
  BY <1>1 DEF Sound
<1>5. ASSUME NEW i \in DOMAIN s PROVE IsList(Becoming(s, s[i], yields).fills)
  <2> DEFINE x == s[i]
             D == FoldedInto(s, x)
             hand == HandOf(x, D, yields)
  <2>1. x \in ToSet(s)
    BY DEF ToSet
  <2>2. Sound(D)
    BY <1>1, <2>1, BecomingIs
  <2> HIDE DEF x, D
  <2>3. Sound(hand)
    BY <2>2, AmongAre, EmptyIsSound DEF HandOf
  <2>4. Collapsed(x, D, yields).fills = Noted(x.id, hand, FALSE)
    BY CollapsedIs
  <2>5. \/ Becoming(s, x, yields).fills = <<>>
        \/ Becoming(s, x, yields).fills = Noted(x.id, hand, FALSE)
    BY <2>4 DEF Becoming, D
  <2> HIDE DEF hand
  <2> QED BY <2>3, <2>5, ListsAre, NotedIsAList DEF x
<1>6. /\ ss = [i \in 1 .. Len(s) |-> ss[i]]
      /\ \A i \in 1 .. Len(s) : IsList(ss[i])
  BY <1>4, <1>5
<1> HIDE DEF ss
<1>7. IsList(FlattenSeq(ss))
  BY <1>4, <1>6, ListsFlatten
<1> QED BY <1>2, <1>3, <1>7, ListsJoin

LEMMA DecisionAbsorbsAList ==
    ASSUME NEW both, Sound(both), NEW remove, NEW keep
    PROVE  Sound(Decision(both, remove, keep).absorbed)
<1> DEFINE yields == YieldingIds(both)
           keeping == Those(both, LAMBDA r : r.doiR = keep)
           losing == Those(both, LAMBDA r : r.doiR = remove)
<1>1. \/ Decision(both, remove, keep).absorbed = <<>>
      \/ Decision(both, remove, keep).absorbed = keeping
      \/ Decision(both, remove, keep).absorbed = Among(losing, yields)
  BY DEF Decision, DroppedUnder
<1>2. Sound(keeping) /\ Sound(losing)
  BY RestIsSound DEF Those
<1> HIDE DEF keeping, losing, yields
<1> QED BY <1>1, <1>2, AmongAre, EmptyIsSound

LEMMA DropsNoteAList ==
    ASSUME NEW f, Good(f), IsList(f.fills), NEW remove, NEW keep, remove # keep
    PROVE  IsList(DropReplication(f, remove, keep).fills)
<1> DEFINE per == Drops(f.rows, remove, keep)
           others == {d \in ToSet(per) : ~(d.into # <<>>)}
           absorbing == Those(per, LAMBDA d : d.into # <<>>)
           ss == [i \in DOMAIN absorbing |->
                    Noted(Head(absorbing[i].into).id, absorbing[i].absorbed, FALSE)]
<1>1. DropReplication(f, remove, keep).fills = f.fills \o FlattenSeq(ss)
  BY DEF DropReplication, WithDrops
<1>2. absorbing = Without(per, others)
  BY DEF Those
<1>3. per \in Seq({per[i] : i \in DOMAIN per})
  <2>1. PICK B : DecidedFor(f.rows, per, B)
    BY DropsDecide DEF Good
  <2> QED BY <2>1 DEF DecidedFor
<1>4. ASSUME NEW d \in ToSet(per) PROVE Sound(d.absorbed)
  <2>1. PICK o : d = Decision(Findings(f.rows, o, remove, keep), remove, keep)
    BY DropsAre DEF Good
  <2>2. Sound(Findings(f.rows, o, remove, keep))
    BY FindingsAre DEF Good
  <2> QED BY <2>1, <2>2, DecisionAbsorbsAList
<1> HIDE DEF absorbing, others, per
<1>5. /\ absorbing \in Seq({per[i] : i \in DOMAIN per}) /\ ToSet(absorbing) \subseteq ToSet(per)
      /\ DOMAIN absorbing = 1 .. Len(absorbing) /\ Len(absorbing) \in Nat
  <2>1. /\ absorbing \in Seq({per[i] : i \in DOMAIN per}) /\ ToSet(absorbing) \subseteq ToSet(per)
    BY <1>2, <1>3, WithoutIsTheRest
  <2> QED BY <2>1
<1>6. ASSUME NEW i \in DOMAIN absorbing PROVE IsList(ss[i])
  <2>1. absorbing[i] \in ToSet(per)
    BY <1>5 DEF ToSet
  <2> QED BY <1>4, <2>1, NotedIsAList
<1>7. ss = [i \in 1 .. Len(absorbing) |-> ss[i]]
  BY <1>5
<1> HIDE DEF ss
<1>8. IsList(FlattenSeq(ss))
  BY <1>5, <1>6, <1>7, ListsFlatten
<1> QED BY <1>1, <1>8, ListsJoin

-----------------------------------------------------------------------------
(***************************************************************************)
(* The blanks that are filled at the end.                                  *)
(***************************************************************************)
\* What a row has of what the property is about, it still has in q.
Holds(q, r) ==
    /\ q.id = r.id /\ q.doiO = r.doiO /\ q.doiR = r.doiR /\ q.clash = r.clash
    /\ r.url # Blank => q.url = r.url
    /\ Judged(r) => q.outcome = r.outcome
    /\ r.quote # {} => q.quote = r.quote
    /\ r.merged \subseteq q.merged

LEMMA FillsHold ==
    ASSUME NEW row \in BuildRow, NEW givers, IsList(givers)
    PROVE  /\ Holds(FillBlanksByHand(row, givers), row)
           /\ FillBlanksByHand(row, givers).url = row.url
<1> DEFINE rows == <<row>> \o givers
           donor == FirstWith(rows, Judged)
           taken == IF ~Having(rows, Judged) THEN row
                    ELSE [row EXCEPT !.outcome = donor.outcome, !.quote = donor.quote]
           Evidence(r) == r.outcome = taken.outcome /\ r.quote # {}
           evident == FirstWith(rows, Evidence)
           filled == FillBlanks(row, givers)
<1>1. filled = IF Judged(taken) /\ taken.quote = {} /\ Having(rows, Evidence)
               THEN [taken EXCEPT !.quote = evident.quote] ELSE taken
  BY DEF FillBlanks
<1>2. DOMAIN rows = 1 .. Len(rows) /\ Len(rows) \in Nat \ {0} /\ rows[1] = row
  <2>1. givers \in Seq({row} \cup ToSet(givers)) /\ <<row>> \in Seq({row} \cup ToSet(givers))
    BY DEF IsList
  <2>2. rows \in Seq({row} \cup ToSet(givers)) /\ Len(rows) = 1 + Len(givers)
        /\ Len(givers) \in Nat /\ rows[1] = row
    BY <2>1
  <2> HIDE DEF rows
  <2> QED BY <2>2
<1> HIDE DEF rows
<1>3. Judged(row) => donor = row
  <2> DEFINE I == {i \in 1 .. Len(rows) : Judged(rows[i])}
  <2>1. donor = rows[IF I # {} THEN Min(I) ELSE 0]
    BY DEF FirstWith, SelectInSeq
  <2> HIDE DEF donor
  <2>2. ASSUME Judged(row) PROVE Min(I) = 1 /\ I # {}
    <3>1. 1 \in I /\ I \subseteq Nat /\ \A n \in I : 1 <= n
      BY <1>2, <2>2
    <3> HIDE DEF I
    <3> DEFINE m == Min(I)
    <3>2. m \in I /\ \A n \in I : m <= n
      BY <3>1, Zenon DEF Min
    <3> HIDE DEF m
    <3>3. m = 1
      BY <3>1, <3>2
    <3> QED BY <3>1, <3>3 DEF m
  <2> QED BY <1>2, <2>1, <2>2
<1> HIDE DEF donor, evident, Evidence
<1>4. DOMAIN row = Fields
  BY DEF BuildRow, Fields
<1>5. /\ DOMAIN taken = Fields /\ Holds([taken EXCEPT !.quote = row.quote], row)
      /\ taken.url = row.url
  BY <1>3, <1>4 DEF Holds, Fields
<1>6. DOMAIN filled = Fields /\ Holds([filled EXCEPT !.quote = row.quote], row)
      /\ filled.url = row.url
  <2> HIDE DEF taken, filled
  <2> QED BY <1>1, <1>5 DEF Holds, Fields, Judged
<1>7. FillBlanksByHand(row, givers) = IF row.quote # {} /\ filled.quote # row.quote
                                      THEN row ELSE filled
  BY DEF FillBlanksByHand
<1> HIDE DEF filled
<1>8. CASE row.quote # {} /\ filled.quote # row.quote
  BY <1>7, <1>8 DEF Holds
<1>9. CASE ~(row.quote # {} /\ filled.quote # row.quote)
  BY <1>6, <1>7, <1>9 DEF Holds, Fields, Judged
<1> QED BY <1>8, <1>9

LEMMA FilledHolds ==
    ASSUME NEW r \in BuildRow, NEW fills, IsList(fills)
    PROVE  /\ Holds(FilledByHand(r, fills), r)
           /\ fills = <<>> => FilledByHand(r, fills) = r
<1> DEFINE entries == Those(fills, LAMBDA n : n.into \in Ids(r))
           OwnKind(n) == ByHand(n.row) = ByHand(r)
           Earlier(m, n) == IF OwnKind(m) = OwnKind(n) THEN m.row.id < n.row.id ELSE OwnKind(m)
           Sooner(k, i) == \/ Earlier(entries[k], entries[i])
                           \/ k < i /\ ~Earlier(entries[i], entries[k])
           Ahead(i) == {k \in DOMAIN entries : Sooner(k, i)}
           ordered == [n \in DOMAIN entries |->
                         entries[CHOOSE i \in DOMAIN entries : Cardinality(Ahead(i)) = n - 1]]
           givers == [i \in DOMAIN ordered |-> ordered[i].row]
           filled == FillBlanksByHand(r, givers)
           links == Those(ordered, LAMBDA n : n.link /\ n.row.url # Blank)
           url == IF filled.url = Blank /\ links # <<>> THEN Head(links).row.url ELSE filled.url
           others == {n \in ToSet(fills) : ~(n.into \in Ids(r))}
<1>1. FilledByHand(r, fills) = IF entries = <<>> THEN r ELSE [filled EXCEPT !.url = url]
  BY DEF FilledByHand
<1>2. entries = Without(fills, others)
  BY DEF Those
<1> HIDE DEF others
<1>3. /\ DOMAIN entries = 1 .. Len(entries) /\ Len(entries) \in Nat
      /\ fills = <<>> => entries = <<>>
  <2>1. fills \in Seq(ToSet(fills))
    BY DEF IsList
  <2>2. /\ Without(fills, others) \in Seq(ToSet(fills))
        /\ Len(Without(fills, others)) <= Len(fills)
    BY <2>1, WithoutIsTheRest
  <2>3. fills = <<>> => Len(fills) = 0
    OBVIOUS
  <2> HIDE DEF entries
  <2>4. entries \in Seq(ToSet(fills)) /\ (Len(entries) = 0 => entries = <<>>)
    BY <1>2, <2>2
  <2> QED BY <1>2, <2>1, <2>2, <2>3, <2>4
<1>4. IsList(givers)
  <2>1. DOMAIN ordered = 1 .. Len(entries)
    BY <1>3
  <2> HIDE DEF ordered, entries
  <2>2. givers = [i \in 1 .. Len(entries) |-> ordered[i].row]
    BY <2>1
  <2> DEFINE S == {ordered[i].row : i \in 1 .. Len(entries)}
  <2>3. givers \in Seq(S)
    BY <1>3, <2>2
  <2> QED BY <2>3, ListsAre
<1> HIDE DEF entries, ordered, links, givers
<1>5. Holds(filled, r) /\ filled.url = r.url /\ DOMAIN filled = Fields
  BY <1>4, FillsHold, HandFillsKeep
<1>6. (url = filled.url) \/ filled.url = Blank
  OBVIOUS
<1> HIDE DEF filled, url
<1>7. Holds([filled EXCEPT !.url = url], r)
  BY <1>5, <1>6 DEF Holds, Fields, Judged
<1>8. Holds(r, r)
  BY DEF Holds
<1> QED BY <1>1, <1>3, <1>7, <1>8

-----------------------------------------------------------------------------
(***************************************************************************)
(* The two builds, stage by stage.                                         *)
(***************************************************************************)
LEMMA PlainBeside ==
    ASSUME NEW s, Sound(s), HandUnregistered(ToSet(s)), NEW X, X = {r \in ToSet(s) : ByHand(r)}
    PROVE  Beside(s, Without(s, X)) /\ InStep(s, Without(s, X))
<1> DEFINE t == Without(s, X)
<1>1. Sound(t) /\ ToSet(t) = ToSet(s) \ X
  BY RestIsSound
<1>2. \A a, b : AheadOf(t, a, b) => AheadOf(s, a, b)
  BY RestInOrder DEF Sound
<1> HIDE DEF t
<1>3. Beside(s, t)
  BY <1>1, UpholdsIsTransitive DEF Beside, Matched, HandUnregistered
<1>4. ASSUME NEW x \in ToSet(s), NEW p \in ToSet(s), NEW y \in ToSet(t), NEW q \in ToSet(t),
             Upholds(x, y), Upholds(p, q), AheadOf(s, x, p)
      PROVE  AheadOf(t, y, q)
  <2>1. x.id = y.id /\ p.id = q.id
    BY <1>4 DEF Upholds
  <2>2. x = y /\ p = q
    BY <1>1, <2>1, IdsAreOne
  <2>3. x # p /\ ~AheadOf(s, p, x)
    BY <1>4, OneOrder DEF Sound
  <2>4. AheadOf(t, y, q) \/ AheadOf(t, q, y)
    BY <1>1, <2>2, <2>3, OneOrder DEF Sound
  <2> QED BY <1>2, <2>2, <2>3, <2>4
<1> QED BY <1>3, <1>4 DEF InStep, t

\* Every row of the one is upheld by one of the other; what it has is held by one.
Upheld(S, T) == \A y \in T : \E x \in S : Upholds(x, y)
Held(S, T) == \A y \in T : \E x \in S : Holds(x, y)

\* At a stage, the frame f and that of the build without rows added by hand, e.
SideBySide(st, f, e) ==
    /\ st \in {"loaded", "ruled", "collapsed"} => InStep(f.rows, e.rows)
    /\ st \in {"loaded", "ruled", "collapsed", "merged"} => Beside(f.rows, e.rows)
    /\ st = "resolved" => Upheld(ToSet(f.rows), ToSet(e.rows))
    /\ st = "done" => Held(ToSet(f.rows), ToSet(e.rows))
    /\ st # "done" => e.fills = <<>> /\ IsList(f.fills)

HandInv == PairsAreRuled /\ NewByHand => SideBySide(stage, frame, plain)

LEMMA HandInvInit == BuildInit => HandInv
<1> SUFFICES ASSUME BuildInit, PairsAreRuled, NewByHand PROVE SideBySide(stage, frame, plain)
  BY DEF HandInv
<1> DEFINE s == build.rows
           X == {r \in ToSet(s) : ByHand(r)}
           others == {r \in ToSet(s) : ~(~ByHand(r))}
<1>1. s \in Seq(BuildRow) /\ \A i \in DOMAIN s : s[i].id = i /\ s[i].merged = {}
  BY BuildAssumption DEF BuildInit
<1>2. Sound(s)
  <2>1. Good(LoadedRows(s)) /\ LoadedRows(s).rows = s
    BY <1>1, LoadedIsGood DEF LoadedRows
  <2> QED BY <2>1 DEF Good
<1>3. others = X /\ HandUnregistered(ToSet(s))
  BY DEF NewByHand, HandUnregistered
<1>4. /\ frame.rows = s /\ frame.fills = <<>>
      /\ plain.rows = Without(s, X) /\ plain.fills = <<>> /\ stage = "loaded"
  <2>1. frame = LoadedRows(s) /\ plain = LoadedRows(Without(s, others)) /\ stage = "loaded"
    BY DEF BuildInit, Those
  <2> HIDE DEF X, others
  <2> QED BY <1>3, <2>1 DEF LoadedRows
<1> HIDE DEF s, others
<1>5. Beside(s, Without(s, X)) /\ InStep(s, Without(s, X))
  BY <1>2, <1>3, PlainBeside
<1> HIDE DEF X
<1> QED BY <1>4, <1>5, ListsAre DEF SideBySide

\* One step of both.
LEMMA RulingsBeside ==
    ASSUME PairsAreRuled, NEW f, NEW e, Good(f), Good(e), SideBySide("loaded", f, e)
    PROVE  SideBySide("ruled", Confirmed(f), Confirmed(e))
<1>1. /\ Beside(f.rows, e.rows) /\ InStep(f.rows, e.rows)
      /\ e.fills = <<>> /\ IsList(f.fills)
  BY DEF SideBySide
<1>2. /\ Beside(Confirmed(f).rows, Confirmed(e).rows)
      /\ InStep(Confirmed(f).rows, Confirmed(e).rows) /\ Confirmed(e).fills = <<>>
  BY <1>1, ConfirmedBeside
<1>3. IsList(Confirmed(f).fills)
  <2> DEFINE rep == build.reports
  <2>1. Confirmed(f) = IF rep \in {"p", "j"} THEN DropReplication(f, Other(rep), rep) ELSE f
    BY DEF Confirmed, PairsAreRuled
  <2>2. rep \in {"p", "j"} => Other(rep) # rep
    BY OtherIsOther
  <2> HIDE DEF rep
  <2> QED BY <1>1, <2>1, <2>2, DropsNoteAList
<1> QED BY <1>2, <1>3 DEF SideBySide

LEMMA CollapseBeside ==
    ASSUME NEW f, NEW e, Good(f), Good(e), SideBySide("ruled", f, e)
    PROVE  SideBySide("collapsed", CollapseKeys(f), CollapseKeys(e))
<1>1. /\ Beside(f.rows, e.rows) /\ InStep(f.rows, e.rows)
      /\ e.fills = <<>> /\ IsList(f.fills)
  BY DEF SideBySide
<1>2. /\ Beside(CollapseKeys(f).rows, CollapseKeys(e).rows)
      /\ InStep(CollapseKeys(f).rows, CollapseKeys(e).rows) /\ CollapseKeys(e).fills = <<>>
  BY <1>1, CollapseKeysBeside
<1>3. IsList(CollapseKeys(f).fills)
  BY <1>1, CollapsedNotesAList
<1> QED BY <1>2, <1>3 DEF SideBySide

LEMMA MergeBeside ==
    ASSUME NEW f, NEW e, Good(f), Good(e), SideBySide("collapsed", f, e)
    PROVE  SideBySide("merged", MergePairs(f), MergePairs(e))
<1>1. /\ Beside(f.rows, e.rows) /\ InStep(f.rows, e.rows)
      /\ e.fills = <<>> /\ IsList(f.fills)
  BY DEF SideBySide
<1>2. /\ Matched(ToSet(MergePairs(f).rows), ToSet(MergePairs(e).rows))
      /\ MergePairs(e).fills = <<>>
  BY <1>1, MergePairsMatch DEF Good
<1>3. Sound(MergePairs(f).rows) /\ Sound(MergePairs(e).rows)
  BY MergePairsIsSound DEF Good
<1>4. IsList(MergePairs(f).fills)
  BY <1>1, MergedNotesAList
<1> QED BY <1>2, <1>3, <1>4 DEF SideBySide, Beside

LEMMA ResolveUpholds ==
    ASSUME PairsAreRuled, NEW f, NEW e, Good(f), Good(e), SideBySide("merged", f, e)
    PROVE  SideBySide("resolved", Resolved(f), Resolved(e))
<1>1. Beside(f.rows, e.rows) /\ e.fills = <<>> /\ IsList(f.fills)
  BY DEF SideBySide
<1>2. /\ Upheld(ToSet(Resolved(f).rows), ToSet(Resolved(e).rows))
      /\ Resolved(e).fills = <<>>
  BY <1>1, ResolvedUpholds DEF Upheld
<1>3. IsList(Resolved(f).fills)
  <2> DEFINE rep == KeptReport(f.rows)
  <2>1. rep \in {"p", "j", Blank}
    BY DEF KeptReport, PairsAreRuled
  <2>2. KeptOriginal(f.rows) = Blank
    BY DEF KeptOriginal, PairsAreRuled
  <2>3. Resolved(f) = IF rep = Blank THEN f ELSE DropReplication(f, Other(rep), rep)
    BY <2>2 DEF Resolved
  <2>4. rep # Blank => Other(rep) # rep
    BY <2>1, OtherIsOther
  <2> HIDE DEF rep
  <2> QED BY <1>1, <2>3, <2>4, DropsNoteAList
<1> QED BY <1>2, <1>3 DEF SideBySide

LEMMA FillHolds ==
    ASSUME NEW f, NEW e, Good(f), Good(e), SideBySide("resolved", f, e)
    PROVE  SideBySide("done", ApplyFills(f), ApplyFills(e))
<1> DEFINE Rows(d) == [i \in DOMAIN d.rows |-> FilledByHand(d.rows[i], d.fills)]
<1>1. Upheld(ToSet(f.rows), ToSet(e.rows)) /\ e.fills = <<>> /\ IsList(f.fills)
  BY DEF SideBySide
<1>2. ASSUME NEW d, Good(d) PROVE ApplyFills(d).rows = Rows(d)
  <2>1. ApplyFills(d) = [d EXCEPT !.rows = Rows(d), !.fills = <<>>]
    BY DEF ApplyFills
  <2> HIDE DEF Rows
  <2>2. d = [rows |-> d.rows, fills |-> d.fills, retired |-> d.retired]
    BY <1>2 DEF Good, IsFrame
  <2>3. ApplyFills(d) = [rows |-> Rows(d), fills |-> <<>>, retired |-> d.retired]
    BY <2>1, <2>2
  <2> QED BY <2>3
<1>3. /\ \A i \in DOMAIN f.rows : f.rows[i] \in BuildRow
      /\ \A i \in DOMAIN e.rows : e.rows[i] \in BuildRow
  BY DEF Good, Sound
<1>4. ASSUME NEW y \in ToSet(Rows(e)) PROVE \E x \in ToSet(Rows(f)) : Holds(x, y)
  <2>1. PICK k \in DOMAIN e.rows : y = FilledByHand(e.rows[k], e.fills)
    BY DEF ToSet
  <2>2. y = e.rows[k]
    <3>1. IsList(e.fills) /\ e.rows[k] \in BuildRow
      BY <1>1, <1>3, ListsAre
    <3> QED BY <1>1, <2>1, <3>1, FilledHolds
  <2>3. PICK i \in DOMAIN f.rows : Upholds(f.rows[i], y)
    BY <1>1, <2>2 DEF Upheld, ToSet
  <2> DEFINE x == FilledByHand(f.rows[i], f.fills)
  <2>4. Holds(x, f.rows[i])
    BY <1>1, <1>3, FilledHolds
  <2>5. x \in ToSet(Rows(f))
    BY DEF ToSet
  <2> HIDE DEF x
  <2>6. Holds(x, y)
    BY <2>3, <2>4 DEF Holds, Upholds, Judged
  <2> QED BY <2>5, <2>6
<1> HIDE DEF Rows
<1>5. Held(ToSet(ApplyFills(f).rows), ToSet(ApplyFills(e).rows))
  BY <1>2, <1>4 DEF Held
<1> QED BY <1>5 DEF SideBySide

LEMMA HandInvNext == BuildInv /\ HandInv /\ [BuildNext]_buildVars => HandInv'
<1> SUFFICES ASSUME BuildInv, HandInv, [BuildNext]_buildVars, PairsAreRuled', NewByHand'
             PROVE  SideBySide(stage', frame', plain')
  BY DEF HandInv
<1>1. build' = build
  BY DEF BuildNext, buildVars, ApplyRulings, DropDuplicates, MergeDuplicates, ResolvePreprints,
         FillFromHand, Advance
<1>2. PairsAreRuled /\ NewByHand /\ SideBySide(stage, frame, plain)
  BY <1>1 DEF HandInv, PairsAreRuled, NewByHand
<1>3. stage # "done" => Good(frame) /\ Good(plain)
  BY DEF BuildInv
<1>4. CASE ApplyRulings
  BY <1>2, <1>3, <1>4, RulingsBeside DEF ApplyRulings, Advance
<1>5. CASE DropDuplicates
  BY <1>2, <1>3, <1>5, CollapseBeside DEF DropDuplicates, Advance
<1>6. CASE MergeDuplicates
  BY <1>2, <1>3, <1>6, MergeBeside DEF MergeDuplicates, Advance
<1>7. CASE ResolvePreprints
  BY <1>2, <1>3, <1>7, ResolveUpholds DEF ResolvePreprints, Advance
<1>8. CASE FillFromHand
  BY <1>2, <1>3, <1>8, FillHolds DEF FillFromHand, Advance
<1>9. CASE UNCHANGED buildVars
  BY <1>2, <1>9 DEF buildVars
<1> QED BY <1>4, <1>5, <1>6, <1>7, <1>8, <1>9 DEF BuildNext

\* "A row added by hand never changes a record another source holds": when the pair of
\* reports is ruled, one way or the other, and both originals are kept, every record of
\* the build without such rows is in the build with them, with every value it had.
THEOREM HandRowsFillBlanksWhereRuled ==
    BuildSpec => [](PairsAreRuled => HandRowsOnlyFillBlanks)
<1>1. HandInv => (PairsAreRuled => HandRowsOnlyFillBlanks)
  BY DEF HandInv, SideBySide, HandRowsOnlyFillBlanks, Held, Holds
<1>2. BuildInit => BuildInv /\ HandInv
  BY BuildInvInit, HandInvInit
<1>3. BuildInv /\ HandInv /\ [BuildNext]_buildVars => (BuildInv /\ HandInv)'
  BY BuildInvNext, HandInvNext
<1> QED BY <1>1, <1>2, <1>3, PTL DEF BuildSpec

-----------------------------------------------------------------------------
(***************************************************************************)
(* All of it: whatever part moves, it moves as its own module says.        *)
(***************************************************************************)
LEMMA PartsMoveAlone ==
    FloraPipelineSpec => /\ SyncInit /\ [][SyncNext]_syncVars
                         /\ AdjSpec /\ DatasetSpec /\ BuildSpec /\ RelSpec
<1> DEFINE all == <<part, syncVars, adjVars, datasetVars, buildVars, relVars>>
<1>1. FloraPipelineSpec => SyncInit /\ [][SyncNext]_syncVars
  <2>1. FloraPipelineInit => SyncInit
    BY DEF FloraPipelineInit
  <2>2. [FloraPipelineNext]_all => [SyncNext]_syncVars
    BY DEF FloraPipelineNext
  <2> QED BY <2>1, <2>2, PTL DEF FloraPipelineSpec
<1>2. FloraPipelineSpec => AdjSpec
  <2>1. FloraPipelineInit => AdjInit
    BY DEF FloraPipelineInit
  <2>2. [FloraPipelineNext]_all => [AdjNext]_adjVars
    BY DEF FloraPipelineNext
  <2> QED BY <2>1, <2>2, PTL DEF FloraPipelineSpec, AdjSpec
<1>3. FloraPipelineSpec => DatasetSpec
  <2>1. FloraPipelineInit => DatasetInit
    BY DEF FloraPipelineInit
  <2>2. [FloraPipelineNext]_all => [DatasetNext]_datasetVars
    BY DEF FloraPipelineNext
  <2> QED BY <2>1, <2>2, PTL DEF FloraPipelineSpec, DatasetSpec
<1>4. FloraPipelineSpec => BuildSpec
  <2>1. FloraPipelineInit => BuildInit
    BY DEF FloraPipelineInit
  <2>2. [FloraPipelineNext]_all => [BuildNext]_buildVars
    BY DEF FloraPipelineNext
  <2> QED BY <2>1, <2>2, PTL DEF FloraPipelineSpec, BuildSpec
<1>5. FloraPipelineSpec => RelSpec
  <2>1. FloraPipelineInit => RelInit
    BY DEF FloraPipelineInit
  <2>2. [FloraPipelineNext]_all => [RelNext]_relVars
    BY DEF FloraPipelineNext
  <2> QED BY <2>1, <2>2, PTL DEF FloraPipelineSpec, RelSpec
<1> QED BY <1>1, <1>2, <1>3, <1>4, <1>5

\* From the sync jobs to the branch: the types of every part, who owns a running job, the
\* two places of a disagreement, and what each part promises.
THEOREM PipelineIsSound ==
    FloraPipelineSpec =>
        /\ [](/\ FloraPipelineInvariant /\ CorrectionIsServed /\ EveryIdHasItsPlace
              /\ FilesAreOneRelease /\ ServedAsApproved)
        /\ BranchNeverGoesBack
<1>1. AdjTypeOK /\ TwoPlaces /\ SyncTypeOK /\ RunnerOwnsJob /\ DatasetTypeOK /\ BuildTypeOK
      /\ RelTypeOK => FloraPipelineInvariant
  BY DEF FloraPipelineInvariant
<1>2. DatasetSpec => []DatasetTypeOK
  BY DataInitially, DataStep, DataIsTyped, PTL DEF DatasetSpec
<1>3. SyncInit /\ [][SyncNext]_syncVars => []SyncInv
  BY SyncInitially, SyncStep, PTL
<1>4. SyncInv => SyncTypeOK /\ RunnerOwnsJob
  BY DEF SyncInv
<1> QED BY <1>1, <1>2, <1>3, <1>4, PartsMoveAlone, DisplayIdsAreGivenOnce,
           ApprovedIsServed, PlacesAreTwo, CorrectionsAreServed, IdsHaveTheirPlaces,
           ReleasesAreTyped, FolderHoldsOneRelease, PushesNeverGoBack, PTL
==============================================================================
