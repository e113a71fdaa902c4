------------------------------ MODULE MCFlora ------------------------------
(***************************************************************************)
(* The parts that lead to a published FLoRA dataset, one at a time: they   *)
(* share no variable, so instead of their product TLC visits their sum.    *)
(* `part` says which one moves; the others rest in an initial state.       *)
(***************************************************************************)
EXTENDS SourceSyncJobs, FloraDataset, MCPreprint, ReleaseFiles, Adjudication

CONSTANTS ana, alex

VARIABLE part

\* The admin of Adjudication is a judge too.
MCLinked == [a \in Reviewers |-> IF a = alex THEN ana ELSE NoJudge]

-----------------------------------------------------------------------------
FloraPipelineInit ==
    /\ part \in {"sync", "adjudication", "dataset", "merge", "release"}
    /\ SyncInit /\ AdjInit /\ RelInit
    /\ IF part = "dataset" THEN DatasetInit
       ELSE source = [r \in FloraRecords |-> CHOOSE v \in Values : TRUE] /\ DatasetInit
    /\ IF part = "merge" THEN BuildInit
       ELSE build = (CHOOSE b \in BuildInputs : TRUE) /\ BuildInit

FloraPipelineNext ==
    /\ UNCHANGED part
    /\ \/ /\ part = "sync" /\ SyncNext
          /\ UNCHANGED <<adjVars, datasetVars, buildVars, relVars>>
       \/ /\ part = "adjudication" /\ AdjNext
          /\ UNCHANGED <<syncVars, datasetVars, buildVars, relVars>>
       \/ /\ part = "dataset" /\ DatasetNext
          /\ UNCHANGED <<syncVars, adjVars, buildVars, relVars>>
       \/ /\ part = "merge" /\ BuildNext
          /\ UNCHANGED <<syncVars, adjVars, datasetVars, relVars>>
       \/ /\ part = "release" /\ RelNext
          /\ UNCHANGED <<syncVars, adjVars, datasetVars, buildVars>>

FloraPipelineSpec ==
    FloraPipelineInit /\ [][FloraPipelineNext]_<<part, syncVars, adjVars, datasetVars,
                                                 buildVars, relVars>>

\* The fairness of SourceSyncJobs, where that part moves.
FloraPipelineFairSpec ==
    /\ FloraPipelineSpec
    /\ \A p \in Runners : WF_syncVars(part = "sync" /\ RunnerStep(p))
    /\ \A j \in JobIds : WF_syncVars(part = "sync" /\ HourPasses(j))
    /\ WF_syncVars(part = "sync" /\ Reap)

\* The types of the parts, with what their rows promise one another: who owns a
\* running job, and two places on a dispute.
FloraPipelineInvariant ==
    /\ part = "sync" => SyncTypeOK /\ RunnerOwnsJob
    /\ part = "adjudication" => AdjTypeOK /\ TwoPlaces
    /\ part = "dataset" => DatasetTypeOK
    /\ part = "merge" => BuildTypeOK
    /\ part = "release" => RelTypeOK
=============================================================================
