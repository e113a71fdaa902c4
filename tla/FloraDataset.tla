---------------------------- MODULE FloraDataset ----------------------------
(***************************************************************************)
(* The stored FLoRA dataset (flora_data), which two kinds of writers       *)
(* change: a pipeline run stores the complete snapshot it built from the   *)
(* source records, and an editor's save appends a row to the change log    *)
(* and rewrites the one row it is about.  A run notes the dataset's        *)
(* revision before it builds and compares it under the table lock.         *)
(*                                                                         *)
(* A record has one value, standing for the fields an editor can correct;  *)
(* Absent means that the build leaves the record out.  Change ids are      *)
(* taken when a change is appended and visible when it is committed.       *)
(***************************************************************************)
EXTENDS Integers, Sequences, FiniteSets, FiniteSetsExt

CONSTANTS
    FloraRecords, Values, Derived, Absent,
    Editors,
    PipelineRuns,
    MaxChanges,    \* bound on the change log
    MaxSourceMoves       \* bound on what the source sync changes

DatasetAssumption ==
    /\ Derived \notin Values /\ Absent \notin Values /\ Derived # Absent
    /\ MaxChanges \in Nat /\ MaxSourceMoves \in Nat
    /\ IsFiniteSet(PipelineRuns)

ASSUME DatasetAssumption

VARIABLES
    source,       \* what the build derives for each record
    changes,      \* the log by change_id: [record, value]
    committed,    \* the ids whose transaction has committed
    published,    \* the ids whose save reported that it is published
    overtaken,    \* the ids that committed after a greater one
    editor,       \* the save each editor has open
    pipeline,     \* what each run has captured and built
    dataset,      \* flora_data: [value, live] of each record
    snapshot,     \* the digest of the last snapshot: its content
    stamp,        \* flora_data_metadata.updated_at: who wrote last
    sourceMoves

datasetVars == <<source, changes, committed, published, overtaken, editor, pipeline,
                 dataset, snapshot, stamp, sourceMoves>>

Frames == [FloraRecords -> Values \cup {Absent}]
NoSnapshot == [r \in FloraRecords |-> Absent]     \* an empty one is never stored
NoRevision == <<NoSnapshot, <<"none", 0>>, 0>>

Closed == [id |-> 0, before |-> Absent]
Waiting == [at |-> "waiting", expected |-> NoRevision, candidate |-> NoSnapshot]

DatasetTypeOK ==
    /\ source \in Frames
    /\ changes \in Seq([record : FloraRecords, value : Values \cup {Derived}])
    /\ committed \subseteq DOMAIN changes
    /\ published \subseteq committed /\ overtaken \subseteq committed
    /\ editor \in [Editors -> [id : {0} \cup DOMAIN changes, before : Values \cup {Absent}]]
    /\ \A b \in PipelineRuns :
           pipeline[b].at \in {"waiting", "captured", "built", "stored", "failed"}
    /\ dataset \in [FloraRecords -> [value : Values \cup {Absent}, live : BOOLEAN]]
    /\ snapshot \in Frames
    /\ sourceMoves \in 0 .. MaxSourceMoves

\* A first snapshot is stored (a correction saved during that very first run,
\* when there is no revision to compare, is left to the next one).
DatasetInit ==
    /\ source \in [FloraRecords -> Values]
    /\ changes = <<>>
    /\ committed = {}
    /\ published = {}
    /\ overtaken = {}
    /\ editor = [e \in Editors |-> Closed]
    /\ pipeline = [b \in PipelineRuns |-> Waiting]
    /\ dataset = [r \in FloraRecords |-> [value |-> source[r], live |-> TRUE]]
    /\ snapshot = source
    /\ stamp = <<"run", 0>>
    /\ sourceMoves = 0

----------------------------------------------------------------------------
\* The correction in force on a record, as a transaction that sees these changes
\* finds it: the record's newest one.
ChangesOf(r, seen) == {i \in seen : changes[i].record = r}
InForce(r, seen) == IF ChangesOf(r, seen) = {} THEN Derived
                    ELSE changes[Max(ChangesOf(r, seen))].value

\* A correction outlives the build, and never brings back a record left out of it.
Corrected(derived, correction) ==
    IF derived = Absent \/ correction = Derived THEN derived ELSE correction
Shown(r, seen) == Corrected(source[r], InForce(r, seen))

Watermark == IF committed = {} THEN 0 ELSE Max(committed)
Revision == IF snapshot = NoSnapshot THEN NoRevision ELSE <<snapshot, stamp, Watermark>>

----------------------------------------------------------------------------
(***************************************************************************)
(* An editor's save: the change is appended under the record's advisory    *)
(* lock; then the dataset is rebuilt in the same transaction, and what the *)
(* change altered is written to the record's row and committed.            *)
(***************************************************************************)
Unlocked(r) == \A e \in Editors : editor[e].id # 0 => changes[editor[e].id].record # r

AppendChange(e, r, value) ==
    /\ Len(changes) < MaxChanges
    /\ editor[e].id = 0
    /\ source[r] # Absent
    /\ Unlocked(r)
    /\ value # InForce(r, committed)
    /\ changes' = Append(changes, [record |-> r, value |-> value])
    /\ editor' = [editor EXCEPT ![e] = [id |-> Len(changes) + 1, before |-> Shown(r, committed)]]
    /\ UNCHANGED <<source, committed, published, overtaken, pipeline,
                   dataset, snapshot, stamp, sourceMoves>>

\* A new value; one that the build derives anyway drops the correction.
Edit(e, r) ==
    \E v \in Values \ {Shown(r, committed)} :
        AppendChange(e, r, IF v = source[r] /\ InForce(r, committed) # Derived
                           THEN Derived ELSE v)

\* Back to an earlier state of the log, or to what the build derives.
Restore(e, r) ==
    \E v \in {Derived} \cup {changes[i].value : i \in ChangesOf(r, committed)} :
        AppendChange(e, r, v)

\* The value shown becomes a person's decision.
Confirm(e, r) ==
    /\ InForce(r, committed) = Derived
    /\ AppendChange(e, r, source[r])

\* From the rewritten row to the commit the save holds a lock that a storing run
\* waits for.  A row that is not there, or that the change leaves as it was, is not
\* written.
CommitSave(e) ==
    LET id    == editor[e].id
        r     == changes[id].record
        after == Shown(r, committed \cup {id})
        writes == dataset[r].live /\ after \notin {Absent, editor[e].before}
    IN
    /\ id # 0
    /\ committed' = committed \cup {id}
    /\ published' = IF writes THEN published \cup {id} ELSE published
    /\ overtaken' = IF id < Watermark THEN overtaken \cup {id} ELSE overtaken
    /\ dataset' = IF writes THEN [dataset EXCEPT ![r].value = after] ELSE dataset
    /\ stamp' = IF writes THEN <<"change", id>> ELSE stamp
    /\ editor' = [editor EXCEPT ![e] = Closed]
    /\ UNCHANGED <<source, changes, pipeline, snapshot, sourceMoves>>

\* A save that fails rolls back; its id is spent.
AbandonSave(e) ==
    /\ editor[e].id # 0
    /\ editor' = [editor EXCEPT ![e] = Closed]
    /\ UNCHANGED <<source, changes, committed, published, overtaken, pipeline,
                   dataset, snapshot, stamp, sourceMoves>>

----------------------------------------------------------------------------
(***************************************************************************)
(* A pipeline run: capture the revision, build, store.                     *)
(***************************************************************************)
CaptureRevision(b) ==
    /\ pipeline[b].at = "waiting"
    /\ pipeline' = [pipeline EXCEPT ![b].at = "captured", ![b].expected = Revision]
    /\ UNCHANGED <<source, changes, committed, published, overtaken, editor,
                   dataset, snapshot, stamp, sourceMoves>>

Build(b) ==
    /\ pipeline[b].at = "captured"
    /\ pipeline' = [pipeline EXCEPT ![b].at = "built",
                        ![b].candidate = [r \in FloraRecords |-> Shown(r, committed)]]
    /\ UNCHANGED <<source, changes, committed, published, overtaken, editor,
                   dataset, snapshot, stamp, sourceMoves>>

\* The records changed since the run began, as far as the newest id tells.
ChangedSince(watermark) == {changes[i].record : i \in {j \in committed : j > watermark}}

MayStore(b) == Revision = pipeline[b].expected \/ Revision[1] = pipeline[b].expected[1]

\* Mutant of Preserved: no correction made meanwhile is kept.
MutPreserved(b) == {}

Preserved(b) == IF Revision = pipeline[b].expected THEN {}
                ELSE ChangedSince(pipeline[b].expected[3])

\* The snapshot replaces, retires and reactivates rows, but for the preserved ones.
Stored(candidate, preserved) ==
    [r \in FloraRecords |->
        IF r \in preserved THEN dataset[r]
        ELSE IF candidate[r] = Absent THEN [dataset[r] EXCEPT !.live = FALSE]
        ELSE [value |-> candidate[r], live |-> TRUE]]

StoreSnapshot(b) ==
    LET candidate == pipeline[b].candidate IN
    /\ pipeline[b].at = "built"
    /\ MayStore(b)
    /\ candidate # NoSnapshot
    /\ dataset' = Stored(candidate, Preserved(b))
    /\ snapshot' = candidate
    /\ stamp' = <<"run", Cardinality({c \in PipelineRuns : pipeline[c].at = "stored"}) + 1>>
    /\ pipeline' = [pipeline EXCEPT ![b] = [Waiting EXCEPT !.at = "stored"]]
    /\ UNCHANGED <<source, changes, committed, published, overtaken, editor, sourceMoves>>

\* A newer snapshot was stored meanwhile, or a step of the run failed.
RunFails(b) ==
    /\ pipeline[b].at \in {"captured", "built"}
    /\ pipeline' = [pipeline EXCEPT ![b] = [Waiting EXCEPT !.at = "failed"]]
    /\ UNCHANGED <<source, changes, committed, published, overtaken, editor,
                   dataset, snapshot, stamp, sourceMoves>>

\* A sync, a ruling or an exclusion changes what the build derives.
SourceMoves(r) ==
    /\ sourceMoves < MaxSourceMoves
    /\ sourceMoves' = sourceMoves + 1
    /\ \E v \in (Values \cup {Absent}) \ {source[r]} : source' = [source EXCEPT ![r] = v]
    /\ UNCHANGED <<changes, committed, published, overtaken, editor, pipeline,
                   dataset, snapshot, stamp>>

----------------------------------------------------------------------------
DatasetNext ==
    \/ \E e \in Editors :
           \/ \E r \in FloraRecords : Edit(e, r) \/ Restore(e, r) \/ Confirm(e, r)
           \/ CommitSave(e) \/ AbandonSave(e)
    \/ \E b \in PipelineRuns :
           CaptureRevision(b) \/ Build(b) \/ StoreSnapshot(b) \/ RunFails(b)
    \/ \E r \in FloraRecords : SourceMoves(r)

DatasetSpec == DatasetInit /\ [][DatasetNext]_datasetVars
-----------------------------------------------------------------------------
(***************************************************************************)
(* Properties                                                              *)
(***************************************************************************)
\* A change that was reported as published is what the stored dataset serves,
\* however long ago the runs that store it since began: an old run keeps its row
\* (publish, materialize).  Changes whose transaction committed after one with a
\* greater id are left out: the run that noted the greater one does not see them.
CorrectionIsServed ==
    \A r \in FloraRecords : \A i \in published \ overtaken :
        /\ changes[i].record = r /\ changes[i].value # Derived
        /\ i = Max(ChangesOf(r, committed))
        /\ dataset[r].live
        => dataset[r].value = changes[i].value
=============================================================================
