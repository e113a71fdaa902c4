---------------------------- MODULE DurableJobs ----------------------------
(***************************************************************************)
(* What a queue of jobs kept in a database table promises, whichever       *)
(* process executes them: a job is queued, executed, put back when its     *)
(* executor died, and never leaves its outcome.  With Exclusive, a job is  *)
(* queued only when no other is waiting, and one executes at a time.       *)
(***************************************************************************)
CONSTANTS
    Jobs,
    Exclusive   \* whether one active job at a time is promised

VARIABLE jobs   \* jobs[j]: "none", "queued", "running", "done" or "failed"

Active == {j \in Jobs : jobs[j] \in {"queued", "running"}}
Running == {j \in Jobs : jobs[j] = "running"}

\* Some jobs may have ended before.
JobsInit == jobs \in [Jobs -> {"none", "done", "failed"}]

Reserve(j) ==
    /\ jobs[j] = "none"
    /\ Exclusive => Active = {}
    /\ jobs' = [jobs EXCEPT ![j] = "queued"]

Begin(j) ==
    /\ jobs[j] = "queued"
    /\ Exclusive => Running = {}
    /\ jobs' = [jobs EXCEPT ![j] = "running"]

PutBack(j) ==
    /\ jobs[j] = "running"
    /\ jobs' = [jobs EXCEPT ![j] = "queued"]

End(j) ==
    /\ jobs[j] \in {"queued", "running"}
    /\ \E outcome \in {"done", "failed"} : jobs' = [jobs EXCEPT ![j] = outcome]

\* Several jobs nobody executes may be given up at once.
GiveUp ==
    /\ jobs' \in [Jobs -> {"none", "queued", "running", "done", "failed"}]
    /\ \A j \in Jobs : jobs'[j] = jobs[j] \/ (j \in Active /\ jobs'[j] = "failed")

JobsNext == (\E j \in Jobs : Reserve(j) \/ Begin(j) \/ PutBack(j) \/ End(j)) \/ GiveUp

JobsSpec == JobsInit /\ [][JobsNext]_jobs
=============================================================================
