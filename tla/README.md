# TLA+ models of FLoRA validation

FLoRA validation lets people check pairs of a replication (or reproduction) and
its original study.  A pipeline ships the pairs, two validators judge each, a
consensus engine with an AI sanity check settles what it can, admins settle the
rest, and what is settled is published in `validated`.  From there, with the
sheets and the entries made by hand, the FLoRA dataset is built, corrected and
published.  The program is a FastAPI application over PostgreSQL (`src/app.py`),
background jobs of its scheduler, command-line scripts and GitHub workflows.

## 1. Inventory

| Component | State it keeps | Operations | Hard behaviour | Module |
|---|---|---|---|---|
| Consensus engine (`consensus_engine.py`) | none; writes `unvalidated`, `validated` | `evaluate_consensus` and its readings | which of two judgements is read; type changes; identity races | ConsensusEngine, ConsensusRound |
| Judgement requests (`app.py`, `docs/app.js`) | one page per held slot | payload, refusal, stored columns | the record changes under the open page | JudgementRequest, ConsensusRound |
| Workflow (`app.py`) | `unvalidated`, `validation_queue`, `assignments`, `validated`, `validated_record_merges`, `admin_decisions` | next-pairs, start, judge, skip, restricted, senior-reject, assign, assignment-judge, approve, remove-original, flag-review, resolve, AI retry, slot reaper | decisions against late judgements; an unlocked read; an AI answer that comes late; two records with one identity | ValidationWorkflow |
| Import and retirement (`csv_to_db.py`, `sync_csv.py`, `find_orphans.py`) | slot map read once; `retired_records` | refresh, re-key, re-open, insert, retire | stale slot map; touched records; re-keys that swap ranks | ValidationWorkflow, ExtractorImport |
| Extractor maintenance (`extractor_maintenance.py`, `extractor_storage.py`) | run rows, session advisory lock, snapshots | queue, take over, stages, finish, prune | crash and take-over of a run; a lost disk | MaintenanceRuns, DurableJobs |
| Failed submissions (`app.py`, `docs/app.js`) | browser queue, release stamps | enqueue, send, mint, rotate, expire, release, discard | lost answers, duplicated sends, indices read before an await | SubmissionRecovery |
| Added originals (`extra_originals.py`) | child records, suggestions | suggest, add, resolve, remove, follow, merge | the entry's decisions and merges bring the children along | AddedOriginals |
| Waiting entries (`auto_validate_waiting.py`) | one transaction | select, lock, assess, insert, commit | against approvals and resolves | WaitingBatch |
| Paper review (`paper_review.py`) | seats, points | claim, renew, judge, award | several records of a paper at once | PaperReview |
| Source synchronisation (`source_sync_runner.py`, `sync_*.py`, `source_records_service.py`) | `source_sync_jobs`, `source_records`, exclusions | click, run, reap, mirror, rule | dead and slow jobs; rows that come and go | SourceSyncJobs, SourceRecords |
| FLoRA registry and hand entries (`flora_registry.py`, `final_export.py`, `manual_records.py`) | `flora_records` | build, match, mint, retire; add, edit, withdraw | identifiers stable across splits, merges and re-matches | FloraRegistry |
| Dataset and edits (`flora_edits.py`, `flora_store.py`, `prepare_flora.py`) | `flora_data`, change log | save, build, store | a correction during a build | FloraDataset |
| Preprint merging (`preprint_dedup.py`, `transform_sources.py`) | rulings | five steps of a build | order of merges and drops | PreprintMerge |
| Release files (`prepare_flora.py`, `publish_flora.py`, `release_helpers.py`, `output_lock.py`, `commit_and_push.sh`) | folders, their lock, a branch | build, publish, stage, replace, push | kills between two replacements; rejected pushes | ReleaseFiles |
| Adjudication (`adjudication/`) | claims, judgements, final answers | next, submit, skip, import, approve, undo, publish, withdraw | serialised claims; a plan made before it is written | Adjudication |
| Entry checks (`entry_checks.py`, `validate_flora_network.py`) | check runs, findings | due, run, store, dismiss | two parts on different snapshots; abandoned runs | EntryChecks |
| Database pool (`db_pool.py`) | idle connections | get, put, clear | dead connections, many threads | DbPool |
| LLM validator (`llm_validator.py`) | none | one call, retried once | fails, or answers "uncertain" | its answers, in ConsensusEngine |

How they interact: everything shares the database.  One HTTP handler is one
transaction; handlers that decide lock the row of `unvalidated` first, then the
queue.  `judge` calls the engine inside its transaction, with the AI call in it.
Jobs run in every process of the scheduler, elected by advisory locks.  The
import is one long transaction of a separate process, started as a stage of a
maintenance run.  `validated` is mirrored into Source Records, with the rows of
the sheets, the adjudicated records and the hand entries; the build merges those
into a product, the registry gives its rows their identifiers, a pipeline run
stores it under the corrections, and builds, publishes and pushes put it out.

What makes each component correct is stated in section 4; everything that is
hard to test, with the line where it bites and the property that watches it, is
`hazards` in PROJECT.json.

## 2. Modules

Judging a record:

* `ConsensusEngine` - operators only.  `EvaluateConsensus` is the decision tree;
  a *verdict* is what `_update_status` is called with.  The other operators have
  the names of the functions they model.
* `JudgementRequest` - `JudgePayload` (the page), `Accepted` (no 400),
  `StoredAnswer` (the columns written), `SeniorReject` (what that path writes).
* `ConsensusRound` - one record between serving and verdict: `Serve`, `Refresh`
  (the import rewrites the extraction), `Judge` (the second one evaluates).
* `ValidationWorkflow` - the records at work.  One action per handler or job.
* `RecordLife` - what the workflow promises of them: an entry is open, in review,
  published or rejected, and what the public sees of it changes with a decision
  only.  `ValidationWorkflow` implements it (`RecordsLiveAsPromised`): `LifeOf` reads
  the state from `validation_status`, `shown` is the row of `validated`.

Around it (`MCDesk` puts these five together):

* `SubmissionRecovery` - the browser's queue and the server's release stamps.
  Each await of `_processSubmitQueue` and of the discard is a step boundary, and
  a call may be lost before or after it was served.
* `AddedOriginals` - one action per handler; the merge of a duplicate is two
  steps, because it reads the survivor's published row without locking it.
* `PaperReview` - a claim takes its record locks one by one, passing locked ones
  over; a judgement is split where it waits for the row of its validator.
* `WaitingBatch` - the batch's transaction step by step against others.
* `DbPool` - every lock section of `get`, `put` and `clear` is a step.
* `Lists` - what a deletion leaves of a list, for the pool and the snapshots.

The nightly jobs (`MCNight`):

* `ExtractorImport` - what one import and one retirement do, as operators on the
  records by `pair_id`.
* `MaintenanceRuns` - the durable run queue and the stages, which use them.  A
  worker may die between any two steps; a redeploy empties the disk.
* `DurableJobs` - the abstract queue: a job is queued, executed by one process at
  a time, perhaps put back, and never leaves its outcome.  `MaintenanceRuns` is
  shown to implement it, with a run's `status` as the job's state, and
  `SourceSyncJobs` is proved to, with several jobs at a time.
* `EntryChecks` - the two parts of the checks, per pod.

From `validated` to the dataset (`MCFlora` for the last five):

* `SourceRecords` - the rows and rulings, and which rows the transform merges.
* `FloraRegistry` - extends it with the registry's builds and the hand entries.
* `SourceSyncJobs`, `Adjudication`, `FloraDataset`, `PreprintMerge`,
  `ReleaseFiles`.

`MC...` modules are the bounded instances.  Parts that share no variable are put
into one run as a sum: `part` (`moving` in `MCNight`), chosen initially, says which
one moves while the others rest, so TLC visits the sum of their states and not the
product.  `MCNight` starts after a first night whose CSV the import took.
`...Proofs` hold the theorems (section 6).  Operators named `Mut...`, each before
the definition it imitates and used by nothing, are plausible mistakes in the
code: with one in place of its original, TLC finds a property violated.

State and where it lives:

| Variable | In the code |
|---|---|
| `status`, `row` (ValidationWorkflow) | `unvalidated` |
| `copies` | `unvalidated.validator_1/2`, the JSON copies `removal_proposed` and `_self_approval` read |
| `queue` | the two human rows of `validation_queue`: free, buffered, started, done |
| `assignment`, `validated`, `merged` | `assignments`, `validated`, `validated_record_merges` |
| `decision` | the newest row of `admin_decisions`, and which was the newest rejecting one |
| `approving`, `importer`, `asked` | local variables of an approval, an import, an AI retry between read and write |
| `runs`, `lock`, `worker` (MaintenanceRuns) | `extractor_maintenance_runs`, `pg_advisory_lock`, memory of a worker |
| `disk`, `stored`, `db`, `archived` | data directory, snapshots in the database, records, `retired_records` |
| `slot`, `release`, `line`, `browser`, `dialog` (SubmissionRecovery) | `validation_queue`, `submission_failure_releases`, `_submitQueue`, locals of the sender and of the discard |
| `xrec`, `xrow`, `parent`, `inherits`, `suggestion` (AddedOriginals) | `unvalidated`, `validated`, `parent_record_id`, `inherits_outcome`, `extra_original_suggestions` |
| `srow`, `registry`, `building` (FloraRegistry) | `source_records`, `flora_records`, the product between build and commit |
| `dataset`, `changes`, `snapshot`, `stamp` (FloraDataset) | `flora_data`, the change log, `flora_data_metadata` |
| `stored`, `clock`, `saves` (ReleaseFiles) | `flora_data` with its metadata and change log, the times transactions start at, saves under way |
| `folders`, `owner`, `branch` | release folders, `output_lock`, the git branch |

The other modules name the table beside each variable.  Auxiliary variables,
which no action's guard reads: `history`, `settled`, `overtaken`, `misled`, and the
`turn` of a data version.

**Granularity.**  A handler that locks what it reads until it commits is one
action.  A handler that reads without a lock, awaits, or calls out in between is
split there: `admin_approve` (`ApproveRead`, `ApproveApply`), the AI retries, the
import (load the slot map; per row one step, but for a re-key, which reads and then
updates; end), the merge of a duplicate, a build (capture, build, store, replace), a
save and its rebuild, a transaction's start and its write of `flora_data`
(ReleaseFiles).  Uncommitted writes are seen by nobody; whoever would wait for a row
lock has no enabled step.

**Abstractions.**
Names, DOIs, outcomes and texts are tokens.  Time is not counted: whatever is
judged by its age (a held slot, a claim, a job, a stamp, a connection) may be
past its limit in any state, except where a module says otherwise.
* ConsensusRound has the complete final values; ValidationWorkflow keeps of them
  the identity of the original.  Which record a validator draws is open.
  `updated_at` is compared only by the retry, so it is a mark on the question.  A
  shipped row with the known original is a refresh (`ImportRefresh`) or a re-key
  that changed only the replication's DOI.
* ExtractorImport, MaintenanceRuns: one pod; a CSV stands for its digest;
  statuses that nothing tells apart are one (`success` and `warning` are `done`,
  `blocked` and `failed` are `failed`); a child process dies with its worker; a
  retirement batch may be any subset.
* SubmissionRecovery: one slot of one record, one tab per validator.  PaperReview:
  records of one paper.  WaitingBatch: identities are fixed.
* AddedOriginals: an identity is a replication and an original; the coded DOI
  stays, a re-key changes the original.
* SourceRecords, FloraRegistry: a row is its key and its rulings.  What a sheet
  holds, and whether its gates let it pass, is the environment's choice.  The
  preprint ruling is about originals.
* FloraDataset: a record has one value.  PreprintMerge: rows have identifiers,
  links, outcomes and quotes; one type of record, one pair of reports and one of
  originals; how similar two titles are is whether the pair is found.
* ReleaseFiles: builds that store; a dataset is its snapshot and the corrections in
  it, each of a record of its own.  `clock` orders the starts of the transactions
  that write `flora_data`, and `stored.at` is the start of the last one to commit, as
  `NOW()` is: it may go back.  `turn` numbers the writes in the order they commit; the
  code has no such number, and no guard reads it.  A save that leaves the published
  row as it was writes nothing.  A killed job takes no more steps.
* Adjudication: the imported file is fixed, only what the lookups fill changes.

## 3. Runs

| Run | Instance | Distinct states |
|---|---|---|
| ConsensusRound | 3 extractions of one pair, 18 answers of the page, 10 answers of the AI, 3 teams, identity free or taken | 829,800 |
| ValidationWorkflow | 1 record, 3 validators (2 experienced, 1 senior), admin linked to the senior, 4 judgements, 3 AI answers, assignments; `FairSpec` | 85,518 |
| WorkflowImport | 1 record, 2 validators, unlinked admin, 3 extractions (a second original, and the first with another outcome), 3 judgements | 539,850 |
| WorkflowMerge | 2 records of one identity, 2 validators, an identity typed by the admin | 95,052 |
| Night | 2 workers, 2 runs after a first night, 3 commits that swap ranks and re-key, 1 death, 2 snapshots kept; 2 pods checking 1 entry, 1 edit, 1 lost or failed run | 921,000 |
| FloraRegistry | a sheet row, a validated record (two row numbers), a hand entry; 2 keys that a preprint ruling can join; 2 rulings or edits | 621,000 |
| FloraPipeline | sync: 2 runners, 2 jobs, 2 deaths; adjudication: 2 records, 3 judges, 1 admin, who is a judge too, 3 final answers, one of which cannot be published; dataset: 2 records, 2 changes, 1 run; merge: the builds of `MCBuilds`; release: nightly, website and publish, 1 correction, 1 kill | 477,000 |
| ValidationDesk | added: 2 entries, 1 child, 2 originals, 1 re-key; submission: 2 submissions of one validator, 3 sends; paper: 2 validators, 2 records, one shared check; batch: 3 entries, 2 of one identity; pool: 2 threads, 3 connections | 593,000 |

Why the bounds are enough.  A record has two slots and meets others only through
the identities in `validated`: one record shows everything but identity, two show
that.  Three validators are needed for somebody else to hold or want a slot; the
roles are those the rules of a run tell apart.  The judgements are one per branch
of the tree: agreement, neither type, another outcome, unsure, original wrong.
The page's answers of `ConsensusRound` cover both types, a type change,
corrections of each value (of the original's DOI alone and of its title alone, too),
and every way to route to review.

Night starts when a first run has succeeded, so that there is a baseline to
compare with; its three commits contain the two cases the import is written
around, a swap of ranks and a re-keyed `pair_id`, and a manifest that names a
pair shipped before.  With two deaths (4.6 million states) it was checked once,
without a violation.  FloraRegistry has a row of each kind whose rules differ;
two rulings are enough to join, split and join again.  Two saves and one run are
the smallest race of FloraDataset; the instance with three changes and two runs
(8.6 million states) was checked once, without a violation, and so was a
PreprintMerge with 1.18 million states.  Three kinds of job share the release
files; more kills only repeat the torn folder one leaves.  In the adjudication
part, three judges compete for two places.  In the paper part, two records are
what a shared payment needs.  The batch needs two entries of one identity to
find its second one blocked, and a third that goes through.

Symmetry (`Night`: workers, `ValidationDesk`: entries) is sound: only equality
tells the members apart, and these two runs check no liveness.

Deadlock is checked in the workflow's runs.  It is not in the others, which are
bounded (numbers of runs, jobs, sends, changes, builds) and may come to rest; in
`ConsensusRound` a decided round has ended.

**Fairness.**  `FairSpec` of ValidationWorkflow: the slot reaper runs every two
minutes and takes all slots past their limit, so each held slot is weakly fair;
the retry runs every night over all listed records, one question at a time, so
asking about each record is strongly fair (it is disabled while another question
is open).  A question is always brought to an end.  Of the AI it is assumed that
a record asked about again and again is, some night, answered without an error
and without the record changing meanwhile.  `FloraPipelineFairSpec`: each
scheduler polls and its child processes end, as they run under timeouts
(`RunnerStep`); an hour passes for every job (`HourPasses`); the hourly
housekeeping comes round (`Reap`).  All are weakly fair.  Runners may still die.
People are not assumed to do anything.

## 4. What the runs show

Judging and deciding:

* `SlotOrderIsIrrelevant` - the branches of the engine that read only one
  judgement could not have read the other with another result.
* `UnattendedIsUnanimous`, `UncheckedIsByRule` - nothing leaves without an admin
  unless both validators, a rule and the AI stand behind it; in the workflow this
  has to survive re-evaluation, flagging, imports and the unlocked approval.
* `FinalOriginalIsVouched`, `FinalFitsItsType` - what a verdict publishes was
  confirmed or supplied by somebody, in the vocabulary of its type.  The page
  sends a corrected title of the original as `corrected_study_o` and as
  `corrected_title_o`, so two validators may agree on a title alone: the final is
  then that title with the extracted DOI, which neither confirmed.  The property
  says that such a mixture waits for an admin.
* `StaleCorrectionIsKept` - the reading of "mischaracterised, but the same
  outcome" as agreement never swallows a correction made on an outdated page.
  It does lose a correction to "cannot be determined" when the import has
  turned the record into a reproduction; the property says so.
* `OpenSlotIsOnOpenRecord`, `SoleJudge` - slots, status and holders agree however
  claims, skips, decisions and the reaper interleave.
* `RecordsLiveAsPromised`, `IdentityIsUnique` - each step decides at most one record,
  publishes it under an identity nobody else has, and changes nothing else the
  public sees; `validated` holds one entry per identity, also across merges.
* `JudgementsAreKept`, `DecisionsStand`, `ReopenedForItsOriginal` - what a step
  may never do: lose a judgement, undo a decision silently, decide to start a
  record over that is rejected for another reason.  `ReopenedForItsOriginal` is
  about the moment the import looks; what it overwrites afterwards is finding 4.
* `AbandonedSlotIsFreed`, `StuckTiebreakerIsSettled` - liveness.

Around it:

* `AccountedFor` - a submission the browser takes for saved is the stored
  judgement, and one it gives up as closed or released was settled by the server,
  whatever calls were lost, served late or repeated.
* `ChildrenFollow`, `NothingIsLeftBehind` - whatever publishes, rejects, re-keys
  or merges an entry brings its added originals along, and none stays published
  under an entry that is not.
* `PaperIsPaidOnce` - the shared parts of a paper are paid once, although each
  judgement counts committed rows only.
* `BatchSparesTheTouched` - the batch publishes nothing an admin has touched.
* `DeskInvariant` - types; one seat of a record per validator; one published
  entry per identity; a connection in one pair of hands, and none in the pool that
  is in a transaction.

At night:

* `RunsAreJobs`, `NightInvariant` - the run queue implements `DurableJobs`: one
  executor, whose row is the running one, through deaths and take-overs; and types.
* `ShippedHaveRecords`, `TouchedRecordsStay` - what the newest import shipped has
  its record, and no touched record is lost to an import or a retirement; what
  is removed has been archived.
* `NewestSnapshotIsStored` - once the newest sync is over and was verified, its
  snapshot is in the database, unless that run said it could not store it:
  pruning goes by `stored_at`, which storing a known digest renews, and each copy
  may fail to be stored on its own.
* `OpenFindingsAreCurrent` - once the structural part has checked the current
  revision, its open findings are the bad values of the dataset.

To the dataset:

* `PublishedIdsStay`, `HandRecordIsKept`, `RegistryInvariant` - an identifier
  keeps naming what it named, and is minted only where no live record claims the
  row; the primary passes between a hand entry and another source's row only as
  `transform_sources.load` promises, or to an earlier hand entry; ids and primaries
  are unique.
* `EveryIdHasItsPlace` - the five steps of a build lose no row and put none twice.
* `CorrectionIsServed` - a correction reported as published is served, whatever
  runs store since.
* `FilesAreOneRelease`, `BranchNeverGoesBack` - the files of a folder belong to
  one release, and a push lowers the data version only to put data in place that
  was stored later: by a job that checked out the tip it replaces, which nothing
  compares (commit_and_push.sh:54).  A retry has compared.  That a version is not
  older says less than the comment on it (release_helpers.py:48-49): section 5.
* `ServedAsApproved` - an adjudicated record is served with the answer approved,
  also one that was withdrawn, approved again with another answer, and published
  again over the row it had.
* `SyncJobEnds` - a queued job ends, whatever dies.
* `HandRowsOnlyFillBlanks` - each record of the build without the rows added by hand
  is in the build with them, with every value it had.
* `FloraPipelineInvariant` - types; nobody executes a job the reaper has failed;
  two places per dispute.

## 5. Where code and documents disagree

1. `ConsensusRoundTiebreak`: a tiebreak won by the validator who confirmed the
   extracted outcome takes the loser's corrected outcome
   (`_resolve_final`, `winner ... or other`), against docs/README.md:968.
2. `PendingQueueRace`: the browser's queue is spliced at an index read before an
   await, by the sender and by the discard; crossed, a judgement neither saved
   nor discarded is removed, against docs/app.js:3078.
3. `HandRowsRemove`: one candidate is kept per pair of reports, whatever its
   original, so a hand row under one original changes which sheet rows a merge
   drops under another, against preprint_dedup.py:1110.
4. `ImportStartsOver`: an import that has seen a removed original replaced updates
   the record by its id alone, so an admin's resolve in between is overwritten
   (csv_to_db.py:796-823), and a record it published keeps its row in `validated`
   as an open one, against csv_to_db.py:790-792.

Also met, without a run.  In the workflow:

* `admin_approve` overwrites a decision made after its unlocked read and logs the
  status it had read (app.py:5810; docs/README.md:717).  It can bring a rejected
  or merged record back to `validated`, which `admin_resolve` prevents.
* A record rejected during an import returns to `need_review`, as the slot map
  still says (csv_to_db.py:847; docs/README.md:433).
* A record re-keyed under an open slot can be published by the automatic rule
  when that slot is judged (csv_to_db.py:847-850; docs/PROJECT.md:189, 464-467).
* Two admins resolving two records as duplicates of each other at once merge each
  into the other.
* `_retry_llm_error` does not compare `updated_at` while `_retry_tiebreaker` does,
  so a stored answer can be about replaced values (it is only displayed).
* The table in docs/README.md:955-965 omits the removal branch's effect on the
  final values.
* A suggestion re-opened on a record that is merged afterwards stays on the
  duplicate.
* Two tabs of one browser overwrite each other's stored queue.

In jobs and dataset:

* A worker that loses its lock's connection goes on with its stage
  (extractor_maintenance.py:353-357, against 73-75).
* Two clicks that both find no active job queue two (source_sync_runner).
* With two snapshots kept, a death between storing and the run's end lets the next
  attempts push the last import's snapshot out of the database, if they cannot
  store the baseline again; it is the baseline still (extractor_storage.py:233),
  and then only on the pod's disk or in the extractor's history.
* A record rejected between `retire_missing` and the commit stays live in Source
  Records until the next sync (sync_validated.py:24-29); duplicates whose survivor
  is withdrawn take their paper with them.
* After an admin edits a validated record, its FLoRA id may retire and another be
  minted: key and source row both change.
* A hand entry edited between a build and its registration is not yet frozen.
* Original rulings A to B and B to C chain within one pass.
* Two hand rows of one pair that merge when a ruling joins their originals reorder the
  frame, so another row comes first of its key; a row a reviewer ruled distinct is then
  not where it was, and a row it absorbed stays (preprint_dedup.py:868, against the
  comment at 838).
* A change that commits after one with a greater id is missed by a run that noted
  the greater one (`overtaken`).
* `publish` checks `has_dataset` before the folder's lock, which fixes the
  snapshot of its REPEATABLE READ transaction (publish_flora.py:77, against the
  comment at 80-81).
* A save that starts before a run's store and commits after it moves `stored_at` back
  (flora_edits.py:944; flora_service.py:113-115 knows of it).  If its publish pushes
  first, the run's retry finds its own, older dataset newer and takes the correction
  off the branch, against release_helpers.py:48-49 and commit_and_push.sh:18-19.  TLC
  found it in `ReleaseFiles` with one run, one save and one publish, asked that the
  branch's `turn` never falls.  The next publish heals it.
* The newest change id does not move either for a change overtaken by one with a
  greater id (two saves: the run has one).
* A job whose first push is accepted compares nothing (commit_and_push.sh:54).

## 6. Proofs

TLC checks the instances above; these hold for every value of the constants that
meets the named assumptions: any number of records, people, jobs, kills, commits.
Most assumptions say that a name for nothing (`None`, `NoRow`, `"nobody"`) is
none of the values, that roles are sets of people and inputs are of their types.
Some say more, and the code grants them: the pipeline runs are finitely many (a
run notes the newest change, which must exist), and so are the disagreements of the
imported file, which a counter counts; the source rows are finitely many and a
validated record's differ from the others' (a key names its source); an identity in `WaitingBatch` is neither of the two marks for a missing
and an earlier row; and no release job or snapshot has the name of a mark (`"free"`,
`"none"`).

Two modules keep what several proofs share: `Lists` and `ListProofs`.  The provers
cannot instantiate an induction principle for predicates, so `StepByStep` states it
for sets of numbers; on it rest the lemmas about ranks in an order, lists without
repetition, what `Without` leaves of a list and what a list of lists holds, and the
order in which either keeps its elements (`AheadOf`).

* `ConsensusEngineProofs` - `VerdictIsSymmetric` by cases on the tree: the
  readings of a pair are symmetric, `ResolveFinal` of two agreeing judgements
  takes the same values from either, and the tiebreak names its winner.
  Lemmas on the type of a verdict and on what a rule implies.
* `ConsensusRoundProofs` - the invariant is `TypeOK /\ VerdictIsOfStored`: once
  there is a verdict, it is the engine's verdict on what is stored now.  `TypeOK`
  alone says nothing of the link between verdict and judgements.  The five
  safety properties of the round are then facts about `EvaluateConsensus`; that a
  stale correction is kept needs its own invariant, that each stored answer is
  what the server makes of what was said.
* `ValidationWorkflowProofs` - `TypeOK`, one lemma per action; then
  `SlotsOK`: per record, two judgements by two people, a
  held slot only on an open record, and a status that fits the slots.  The three
  are proved together: that a decided record holds no slot is what makes a late
  `judge` harmless, and that an open record is not judged twice is what makes the
  claims safe.  The lemmas are about one record's slots before and after
  (claiming, releasing, restoring, filling), and the actions cite them.
  `JudgementsStay` and `DecisionsHold` follow from the types and such lemmas:
  what each handler does to the answered slots, and to the status and the log, of
  one record.
  `RecordsLive` is the refinement: each action is a step of `RecordLife` or leaves
  its state as it is (`Resting`).  A handler that publishes on an old reading finds its
  identity free where it inserts, which is all the abstract step asks.  What follows
  from the abstract specification alone is proved once, from its five steps
  (`PromiseSuffices`), and gives `PublishedFollowsStatus` and `OneEntryPerIdentity`.
  `UncheckedByRule` needs `Unchecked`, that the rule, the agreement of the two
  judgements and the published identity still belong together, which every action
  keeps because it leaves judged slots, final values and `validated` alone (`Kept`),
  or checks the record, or takes it back.
  `ReopensForItsOriginal` needs `ReasonsOK`: a rejected record was rejected for
  its original, or the log or the copies of the judgements show it was not; and,
  while a judgement may still come in, the copies are those of the answered slots.
  The import reads both the log and the copies, which handlers that do not know of
  each other overwrite.  That it starts no record over it has not so looked at
  (`ReopenedForItsOriginal`) follows with the invariant on the row in its hands
  (`importer.rekeying`).
* `RegistryProofs`, the registry of FLoRA records:
  - `RegInv`: a build gives at most one record per row and one row per record
    because the rows it takes come from different source rows, which fails if two
    rows of one validated record are live.  So the sweep of the sync belongs to it
    (`OneRowInv`), as does what a build has captured and not yet written
    (`ProductOK`), and that a record claims the row its identifier names
    (`RecordsOK`).  The last is why a minted identifier is free (`MintedIsFree`): the
    records with that row's display id claim the row and yet took others, one
    each, so there are fewer of them than rows.  A build matches the rows in their
    order, which is an induction with `StepByStep`.
* `FloraProofs`, from jobs to release files:
  - `SyncInv`: a runner that executes holds the lock of its process and, once it
    has begun, the running row.  With it `SyncImplementsJobs`: each step of the
    runner, the reaper and a death is a step of `DurableJobs` or a stutter.
  - `AdjInv`: `ServedAsApproved`, and that what the import plans to insert is not
    there: planned before the lock, that is the only thing it relies on.
  - `PlacesInv`: the places of a disagreement are finitely many and at most two, and
    a judge has one claim, lapsed or not: a renewal keeps it, a new claim drops it.
    `PlacesAreTwo` follows: a disagreement is judged exactly with its second answer.
  - `NumbersInv`: the counter of display ids is the number of answers that have one,
    so the next is no other answer's (`DisplayIdsAreGivenOnce`).
  - `DataInv`: that a published correction is served is not inductive, as a run
    may have built before the correction and store after it.  Needed are: the
    saves of a record commit in the order of their ids, so that the newest is the
    one in force (`SavesInOrder`); the revision a run noted is past
    (`RunsLookBack`); and what it built has each correction in force, or that one
    is newer than the revision, which is what the store carries over
    (`CandidatesKnow`).
  - `RelInv`: what a job finds in its folder at each of its stages (`Contents`,
    `Alone`), and that a job based on the tip holds a release that may replace it
    (`NotOlder`, `MayReplace`), because nothing in the folders, the jobs or the branch
    stands for a later write of the table than the last (`NotAfter`).  A job that has been rejected starts again from a tip others
    moved, so both are stated stage by stage.
  - `IdsHaveTheirPlaces`, for any rows and rulings.  `Sound` is what each step needs
    and gives: rows of their types, of which no two stand for one id.  Each step is shown
    to keep it and the ids there are: the exact keys, as the rows of a key go into its
    first (`CollapsedIsSound`); the pair merge, as its groups share no row
    (`PairGroupsAre`) and each comes out with the ids it went in with
    (`GroupKeepsIds`); and the drops, as what absorbs a dropped row stays in whatever
    other original's decision (`DropsKeep`).  The rows added by hand at last fill in
    values: that stage keeps ids (`Placed`), and no types.
  - `HandInv`, for `HandRowsFillBlanksWhereRuled`: the build with the rows added by
    hand and the one without, stage by stage (`SideBySide`).  Until the preprint step
    the rows of the second are those of the first that were not added by hand, value
    by value (`Beside`), and until the merge they come in one order (`InStep`): of
    rows of one record the first absorbs the others and gives its values.  After that
    each row has still one that upholds it, and at the end one that has what it has
    (`Holds`).  The order is lost when a ruling replaces an original, and what the
    automatic rule drops depends on what else the frame holds; so the theorem supposes
    that the pair of reports is ruled, one way, the other, or as two, and that both
    originals are kept (`PairsAreRuled`).  Without that the property fails (finding 3,
    and the reordering noted in section 5).
  - `PipelineIsSound` puts the parts together: each moves alone (`PartsMoveAlone`).
* `NightProofs`, the nightly jobs:
  - `MaintInv`: one active row, and an executing worker holds the session lock and
    its row is running.  A worker elected before a take-over is stopped at the
    lock, and its row is then no longer queued.  `RunsImplementJobs` follows.
  - `TypesInv`: the types, that the records stay finitely many, and that whoever
    retires holds a commit it has downloaded.  An import is a recursive function
    of the rows; the induction over them is `StepByStep`, stated for a set of row
    numbers, as an induction principle for predicates cannot be instantiated.
    `Loading` is what it carries: what the rows read so far ship is there, and no
    record is lost, touched ones counted apart.  `RecordsAreNeverLost` follows.
  - `LoadedInv`: whoever has imported in its run holds the CSV of the last import,
    as there is one executor.  So the plan of a batch, made against the CSV in
    its memory, spares what the database was last told is shipped.
  - `SnapshotInv`: runs are executed in the order they were asked for, so while
    one stores its snapshots and prunes, no newer sync is over (`InOrder`); and
    what a worker has downloaded is on the disk until it is stored
    (`SnapshotHeld`).
  - `ChecksInv`: a snapshot under check is older than the dataset or equal to it,
    and the last revision checked is none still to come; otherwise findings of an
    old snapshot could pass for current ones.  That the network part runs once a
    day needs that a run in progress has none of its day before it.
  - `EveryNightIsSound` puts the parts together: what holds after the first night
    is what each part's invariant asks for, and the other part rests.
* `DeskProofs`, around the judging:
  - `PaperInv`: whoever writes a record has its lock and finds its seat as checked
    (`JudgesHold`), and one judgement of a coder at a time counts what is stored
    (`CountsAlone`): from there `PaperIsPaidOnce`.
  - `BatchInv`: what the batch has chosen is locked, still waits and is untouched,
    and what it has staged is in nobody's way.
  - `RecoveryInv`: `AccountedFor`, with `ReplyIsTrue`: an answer, however late, is
    still true when it is read, because a saved judgement and a settled slot stay.
  - `AddedInv`: a row for every validated entry and added original, and what the
    merge under way has locked is as it read it, but for the survivor's row
    (`MergeHolds`).  `ChildrenFollow` is then shown handler by handler.
  - `PoolInv`: a thread has a connection in hand exactly while it checks, uses or
    returns one (`HandsFull`).  Without it `put` could return what another
    thread has; with it, and with an idle list without repetition, each connection
    is in one place.
  - `EveryPartIsSound`: `DeskInvariant`, from the five parts.

Only model-checked, and why:

* liveness (`AbandonedSlotIsFreed`, `StuckTiebreakerIsSettled`, `SyncJobEnds`):
  out of this prover's reach;
* `HandRowsOnlyFillBlanks` beyond `PairsAreRuled`: false of all inputs, it holds of
  the run's, which have two rows of the sheets;
* the bounds of the submissions' counters, which are the run's own;
* the findings of section 5, counterexamples of TLC.

## 7. Not modelled

Components left out, each with its reason in `components` of PROJECT.json:
sessions, one-time links, passwords and security events (each request checks one
row by one statement, and nothing here depends on it but who acts); the public
API and static pages (read only); backfill and enrichment scripts (run once by an
operator); admin accounts, messages and statistics (rows no other component
reads).  The R pipeline and the views of the frontend are transformations of data
without state of their own.

Within the modelled components:

* Row locks of the workflow, hence lock-order deadlocks between the import (CSV
  order) and the reaper (record order); the import's rollback is the failing sync
  of `MaintenanceRuns`.
* Legacy: pages without `shown_outcome`, joined outcome labels, records converted
  by `backfill_outcome_agreement.py`, `cleanup` rows of maintenance runs,
  submissions stored before they had an owner.
* Manual commands: `--retire`, builds with `--input` or `--no-store-data`.
* Warnings of a maintenance run; the artifact a crash handler wipes
  (`_persist_artifacts`); database errors of a runner other than a lost
  connection.
* Editing an adjudicated record's identifiers; rows whose `reviewed_at` is set,
  as nothing sets it; `paper_differs_on` and the admin's view of a paper's set.
* Position and token checks of the editor, form validation and search; values of
  the transform; `filter_flora.py`, `validate_flora.py`, the history file.

## 8. Order of work

The workflow came first, then what feeds and follows it.  Worth doing next, in
this order: sessions and one-time links with their expiry; row locks of the
import and the reaper, for their order; what rows added by hand may change where the
automatic rule decides, compared original by original.
