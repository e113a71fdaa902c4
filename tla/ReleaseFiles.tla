---------------------------- MODULE ReleaseFiles ----------------------------
(***************************************************************************)
(* The release files of a FLoRA dataset: flora.csv, its manifest and the   *)
(* files that describe a build.  Three parties write them:                 *)
(*                                                                         *)
(*   a build    prepare_flora.prepare: own the folder, capture the stored  *)
(*              revision, build and validate a candidate, store it in      *)
(*              flora_data, replace the folder's release;                  *)
(*   a publish  publish_flora.publish: write what flora_data holds, with a *)
(*              run's report when that run built exactly these bytes;      *)
(*   a push     .github/scripts/commit_and_push.sh: put the folder of a    *)
(*              workflow's job on the branch, which other jobs push to.    *)
(*                                                                         *)
(* A dataset is <<snap, rows>>: the snapshot it comes from and which       *)
(* corrections its rows carry, each of a record of its own.                *)
(* A data version is <<stored_at, mark, turn>>: the time in flora_data's   *)
(* metadata, the newest change id, and the write of flora_data it stands   *)
(* for, which the code does not record.  The time is NOW(), the start of   *)
(* the transaction that wrote.                                             *)
(***************************************************************************)
EXTENDS Naturals

CONSTANTS Runs,            \* runs of prepare_flora.py that store their dataset
          Publishes,       \* runs of publish_flora.py
          Local,           \* jobs in the folder of this machine: no checkout, no push
          Snaps,           \* what the sources can yield; the first dataset is none of them
          MaxCorrections,  \* bound: saves of a FLoRA correction
          MaxKills         \* bound: jobs killed

ASSUME ReleaseAssumption ==
    /\ Runs \cap Publishes = {}
    /\ Local \subseteq Runs \cup Publishes
    /\ {"local", "free"} \cap (Runs \cup Publishes) = {}
    /\ {"none", "running", "failed"} \cap Snaps = {}
    /\ MaxCorrections \in Nat /\ MaxKills \in Nat

VARIABLES stored,   \* flora_data, its metadata and the change log, as committed
          clock,    \* the time the newest transaction started
          saves,    \* by change id: when the save's transaction started, or 0
          folders,  \* the release files in each folder
          owner,    \* who holds the folder's lock, or "free"
          jobs,     \* where each job is and what it holds
          branch,   \* the branch: how many pushes it took, and its tip's files
          kills

relVars == <<stored, clock, saves, folders, owner, jobs, branch, kills>>

Jobs == Runs \cup Publishes
Folders == (Jobs \ Local) \cup {"local"}     \* every workflow job has a checkout of its own
FolderOf(j) == IF j \in Local THEN "local" ELSE j

ChangeIds == 1..MaxCorrections
Datasets == (Snaps \cup {"first"}) \X SUBSET ChangeIds
None == <<"none", {}>>                       \* what a report can say instead of a dataset
Running == <<"running", {}>>
Failed == <<"failed", {}>>

\* The files of one folder.  `report` is the preparation report: of which dataset,
\* or Running, Failed or None.  `checks` are the validation reports.
First == <<"first", {}>>
FirstFiles == [csv |-> First, manifest |-> [of |-> First, version |-> <<1, 0, 1>>],
               report |-> First, checks |-> First]
FirstStored == [at |-> 1, snap |-> "first", rows |-> {}, log |-> {}, mark |-> 0, turn |-> 1]

Idle0 == [pc |-> "idle", file |-> First, seen |-> FirstStored, began |-> 1,
          version |-> <<1, 0, 1>>, run |-> None, base |-> 0, start |-> FirstFiles]

RelInit ==
    /\ stored = FirstStored
    /\ clock = 1
    /\ saves = [i \in ChangeIds |-> 0]
    /\ folders = [f \in Folders |-> FirstFiles]
    /\ owner = [f \in Folders |-> "free"]
    /\ jobs = [j \in Jobs |-> Idle0]
    /\ branch = [pushes |-> 0, tip |-> FirstFiles]
    /\ kills = 0

Files(j) == folders[FolderOf(j)]
Step(j, pc) == jobs' = [jobs EXCEPT ![j].pc = pc]
Write(j, files) == folders' = [folders EXCEPT ![FolderOf(j)] = files]
Owns(j) == owner[FolderOf(j)] = j
Free(j) == owner' = [owner EXCEPT ![FolderOf(j)] = "free"]

-----------------------------------------------------------------------------
(* The table, and the checkout a workflow job begins with.                 *)

\* An admin's save starts; then it takes its change id, and rebuilds the dataset.  A
\* save that waits for its record takes a greater id than one that starts after it.
SaveBegins(i) ==
    /\ saves[i] = 0 /\ i > stored.mark
    /\ clock' = clock + 1
    /\ saves' = [saves EXCEPT ![i] = clock + 1]
    /\ UNCHANGED <<stored, folders, owner, jobs, branch, kills>>

\* It rewrites its row, moves the revision to its own start, and commits.  (One that
\* fails never does.)
SaveCommits(i) ==
    /\ saves[i] # 0 /\ i \notin stored.log
    /\ stored' = [stored EXCEPT !.at = saves[i], !.rows = @ \cup {i}, !.log = @ \cup {i},
                                !.mark = IF i > @ THEN i ELSE @, !.turn = @ + 1]
    /\ UNCHANGED <<clock, saves, folders, owner, jobs, branch, kills>>

\* actions/checkout: the job's folder is the tip as it is then.
Checkout(j) ==
    /\ jobs[j].pc = "idle" /\ j \notin Local
    /\ Write(j, branch.tip)
    /\ jobs' = [jobs EXCEPT ![j].pc = "ready", ![j].base = branch.pushes, ![j].start = branch.tip]
    /\ UNCHANGED <<stored, clock, saves, owner, branch, kills>>

Ready(j) == jobs[j].pc = IF j \in Local THEN "idle" ELSE "ready"

-----------------------------------------------------------------------------
(* A build.                                                                *)

\* Own the folder, write the running report, remove an earlier run's validation
\* reports and capture the revision.
BuildBegins(b) ==
    /\ b \in Runs /\ Ready(b)
    /\ owner[FolderOf(b)] = "free"
    /\ owner' = [owner EXCEPT ![FolderOf(b)] = b]
    /\ Write(b, [Files(b) EXCEPT !.report = Running, !.checks = None])
    /\ jobs' = [jobs EXCEPT ![b].pc = "building", ![b].seen = stored]
    /\ UNCHANGED <<stored, clock, saves, branch, kills>>

\* The transform reads the sources and the corrections saved by now, and the
\* candidate's validation reports are written into the folder at once.
BuildValidates(b) ==
    /\ jobs[b].pc = "building" /\ b \in Runs
    /\ \E s \in Snaps :
          LET built == <<s, stored.log>>
          IN  /\ jobs' = [jobs EXCEPT ![b].pc = "built", ![b].file = built]
              /\ Write(b, [Files(b) EXCEPT !.checks = built])
    /\ UNCHANGED <<stored, clock, saves, owner, branch, kills>>

\* store_dataset: its transaction starts, and waits for the tables.
StoreBegins(b) ==
    /\ jobs[b].pc = "built" /\ b \in Runs
    /\ clock' = clock + 1
    /\ jobs' = [jobs EXCEPT ![b].pc = "storing", ![b].began = clock + 1]
    /\ UNCHANGED <<stored, saves, folders, owner, branch, kills>>

\* materialize under its locks: refused when another snapshot was stored since the
\* revision was captured; corrections saved since are kept.
SameSnapshot(seen) == stored.snap = seen.snap

BuildStores(b) ==
    LET seen == jobs[b].seen
        kept == {i \in stored.rows : i > seen.mark}
    IN  /\ jobs[b].pc = "storing" /\ b \in Runs
        /\ SameSnapshot(seen)
        /\ stored' = [stored EXCEPT !.at = jobs[b].began, !.snap = jobs[b].file[1],
                                    !.rows = jobs[b].file[2] \cup kept, !.turn = @ + 1]
        /\ jobs' = [jobs EXCEPT ![b].pc = "staged",
                                ![b].version = <<jobs[b].began, seen.mark, stored.turn + 1>>]
        /\ UNCHANGED <<clock, saves, folders, owner, branch, kills>>

\* The last report, once flora.csv is in place.
BuildReports(b) ==
    /\ jobs[b].pc = "replaced" /\ b \in Runs /\ Owns(b)
    /\ Write(b, [Files(b) EXCEPT !.report = jobs[b].file])
    /\ Free(b)
    /\ Step(b, "written")
    /\ UNCHANGED <<stored, clock, saves, branch, kills>>

\* Any stage raises: flora.csv is as it was, the report says the run failed.  The
\* stages run again in the next run; a refused store is one of these.
BuildFails(b) ==
    /\ jobs[b].pc \in {"building", "built", "storing", "staged", "replacing"} /\ b \in Runs
    /\ Write(b, [Files(b) EXCEPT !.report = Failed,
                                 !.manifest = IF jobs[b].pc = "replacing"
                                              THEN jobs[b].start.manifest ELSE @])
    /\ Free(b)
    /\ Step(b, "failed")
    /\ UNCHANGED <<stored, clock, saves, branch, kills>>

-----------------------------------------------------------------------------
(* A publish, in one REPEATABLE READ session.                              *)

\* has_dataset, the session's first statement, fixes what the session reads, the
\* report of a successful website run that --job may name included.
PublishAsks(p) ==
    /\ p \in Publishes /\ Ready(p)
    /\ \E run \in {None} \cup
               {jobs[b].file : b \in {c \in Runs \cap Local : jobs[c].pc = "written"}} :
          jobs' = [jobs EXCEPT ![p].pc = "waiting", ![p].seen = stored, ![p].run = run]
    /\ UNCHANGED <<stored, clock, saves, folders, owner, branch, kills>>

\* Its turn on the folder: the revision and the rows, of the session's snapshot.
PublishReads(p) ==
    /\ jobs[p].pc = "waiting"
    /\ owner[FolderOf(p)] = "free"
    /\ owner' = [owner EXCEPT ![FolderOf(p)] = p]
    /\ LET seen == jobs[p].seen
       IN  jobs' = [jobs EXCEPT ![p].pc = "staged",
                                ![p].file = <<seen.snap, seen.rows>>,
                                ![p].version = <<seen.at, seen.mark, seen.turn>>]
    /\ UNCHANGED <<stored, clock, saves, folders, branch, kills>>

\* Mutant of Described: any successful run's report is written.
MutDescribed(p) == jobs[p].run # None

\* The run's report is written only beside exactly the bytes that run built.
Described(p) == jobs[p].run = jobs[p].file

\* The files of a build that were not written describe another flora.csv: removed.
Tidied(p) == [Files(p) EXCEPT !.report = IF Described(p) THEN jobs[p].run ELSE None,
                              !.checks = IF Described(p) THEN jobs[p].run ELSE None]

PublishTidies(p) ==
    /\ jobs[p].pc = "replaced" /\ p \in Publishes /\ Owns(p)
    /\ Write(p, Tidied(p))
    /\ Free(p)
    /\ Step(p, "written")
    /\ UNCHANGED <<stored, clock, saves, branch, kills>>

PublishFails(p) ==
    /\ jobs[p].pc \in {"staged", "replacing"} /\ p \in Publishes
    /\ Write(p, [Files(p) EXCEPT
           !.manifest = IF jobs[p].pc = "replacing" THEN jobs[p].start.manifest ELSE @])
    /\ Free(p)
    /\ Step(p, "failed")
    /\ UNCHANGED <<stored, clock, saves, branch, kills>>

-----------------------------------------------------------------------------
(* publish_release: the other files, then flora.csv.                       *)

ReplaceOthers(j) ==
    /\ jobs[j].pc = "staged"
    /\ Write(j, [Files(j) EXCEPT !.manifest = [of |-> jobs[j].file, version |-> jobs[j].version]])
    /\ jobs' = [jobs EXCEPT ![j].pc = "replacing",
                            ![j].start = IF j \in Local THEN Files(j) ELSE @]
    /\ UNCHANGED <<stored, clock, saves, owner, branch, kills>>

ReplaceCsv(j) ==
    /\ jobs[j].pc = "replacing"
    /\ Write(j, [Files(j) EXCEPT !.csv = jobs[j].file])
    /\ Step(j, "replaced")
    /\ UNCHANGED <<stored, clock, saves, owner, branch, kills>>

\* The process is killed; the system lets go of its lock.  (A workflow's job takes its
\* checkout with it: that is a job which takes no further step.)
Killed(j) ==
    /\ kills < MaxKills /\ j \in Local
    /\ jobs[j].pc \in {"building", "built", "storing", "staged", "replacing", "replaced"}
    /\ Step(j, IF jobs[j].pc \in {"replacing", "replaced"} THEN "torn" ELSE "failed")
    /\ Free(j)
    /\ kills' = kills + 1
    /\ UNCHANGED <<stored, clock, saves, folders, branch>>

-----------------------------------------------------------------------------
(* commit_and_push.sh, for the jobs of the workflows.                      *)

Commit(j) ==
    /\ jobs[j].pc = "written" /\ j \notin Local
    /\ Step(j, IF Files(j).csv = jobs[j].start.csv THEN "pushed" ELSE "committed")
    /\ UNCHANGED <<stored, clock, saves, folders, owner, branch, kills>>

\* Accepted only on the tip the commit was made on.
Push(j) ==
    /\ jobs[j].pc = "committed" /\ jobs[j].base = branch.pushes
    /\ branch' = [pushes |-> branch.pushes + 1, tip |-> Files(j)]
    /\ Step(j, "pushed")
    /\ UNCHANGED <<stored, clock, saves, folders, owner, kills>>

LessThan(v, w) == \/ v[1] < w[1]
                  \/ v[1] = w[1] /\ v[2] < w[2]

\* Mutant of IsOlder: the two manifests in the wrong order.
MutIsOlder(mine, tip) == LessThan(tip.version, mine.version)

\* release_helpers.is_older
IsOlder(mine, tip) == LessThan(mine.version, tip.version)

\* Rejected: look at the new tip, leave it if it holds newer data or the same files,
\* else set this job's files on it.
Retried(j) ==
    /\ jobs[j].pc = "committed" /\ jobs[j].base # branch.pushes
    /\ IF IsOlder(Files(j).manifest, branch.tip.manifest) \/ Files(j) = branch.tip
       THEN Step(j, "pushed")
       ELSE jobs' = [jobs EXCEPT ![j].base = branch.pushes]
    /\ UNCHANGED <<stored, clock, saves, folders, owner, branch, kills>>

-----------------------------------------------------------------------------
RelNext ==
    \/ \E i \in ChangeIds : SaveBegins(i) \/ SaveCommits(i)
    \/ \E j \in Jobs : \/ Checkout(j) \/ ReplaceOthers(j) \/ ReplaceCsv(j) \/ Killed(j)
                       \/ Commit(j) \/ Push(j) \/ Retried(j)
    \/ \E b \in Runs : \/ BuildBegins(b) \/ BuildValidates(b) \/ StoreBegins(b)
                       \/ BuildStores(b) \/ BuildReports(b) \/ BuildFails(b)
    \/ \E p \in Publishes : \/ PublishAsks(p) \/ PublishReads(p)
                            \/ PublishTidies(p) \/ PublishFails(p)

RelSpec == RelInit /\ [][RelNext]_relVars

-----------------------------------------------------------------------------
Versions == (Nat \ {0}) \X (0..MaxCorrections) \X (Nat \ {0})
Revisions == [at : Nat \ {0}, snap : Snaps \cup {"first"}, rows : SUBSET ChangeIds,
              log : SUBSET ChangeIds, mark : 0..MaxCorrections, turn : Nat \ {0}]
RelFiles == [csv : Datasets,
             manifest : [of : Datasets, version : Versions],
             report : Datasets \cup {None, Running, Failed}, checks : Datasets \cup {None}]

\* Every part of the state keeps its type.
RelTypeOK ==
    /\ stored \in Revisions
    /\ clock \in Nat \ {0} /\ saves \in [ChangeIds -> Nat]
    /\ folders \in [Folders -> RelFiles]
    /\ owner \in [Folders -> Jobs \cup {"free"}]
    /\ branch.tip \in RelFiles
    /\ \A j \in Jobs : jobs[j].pc \in {"idle", "ready", "waiting", "building", "built", "storing",
                                       "staged", "replacing", "replaced", "written", "failed",
                                       "torn", "committed", "pushed"}

Torn(f) == \E j \in Jobs : FolderOf(j) = f /\ jobs[j].pc = "torn"

\* The files tell of one release: the manifest and, unless it says that the run
\* failed or has not ended, the report are about the flora.csv beside them, and so are
\* the validation reports unless the run they belong to failed.
OneRelease(f) ==
    /\ f.manifest.of = f.csv
    /\ f.report \in Datasets => f.report = f.csv
    /\ f.report \notin {Failed, Running} /\ f.checks # None => f.checks = f.csv

\* A folder nobody is writing, in which no process died among the replacements, holds
\* one release, and so does the tip of the branch (publish_flora.py:14-18: files left in
\* place "would describe another flora.csv").
FilesAreOneRelease ==
    /\ \A f \in Folders : owner[f] = "free" /\ ~Torn(f) => OneRelease(folders[f])
    /\ OneRelease(branch.tip)

\* A push that lowers the data version puts data in place that was stored later: only
\* a job that checked out the tip it replaces does so, because a transaction that
\* started before others stored after them; a retry has compared (commit_and_push.sh).
BranchNeverGoesBack ==
    [][LET new == branch'.tip.manifest.version
           old == branch.tip.manifest.version
       IN  LessThan(new, old) => new[3] > old[3]]_branch
=============================================================================
