------------------------------- MODULE MCDesk -------------------------------
(***************************************************************************)
(* What happens around the judging of records, one part at a time: they    *)
(* share no variable, so instead of their product TLC visits their sum.    *)
(* `part` says which one moves; the others rest in an initial state.       *)
(***************************************************************************)
EXTENDS AddedOriginals, MCSubmission, PaperReview, WaitingBatch, DbPool

CONSTANTS twin1, twin2, other

VARIABLE part

\* Two of the entries waiting for approval are one replication.
MCIdentityOf == [e \in WaitingEntries |-> IF e = other THEN "i2" ELSE "i1"]

\* Only equality tells entries apart.
MCDeskSymmetry == Permutations(XEntries)

DeskInit ==
    /\ part \in {"added", "submission", "paper", "batch", "pool"}
    /\ SubmissionInit /\ PaperInit /\ PoolInit
    /\ IF part = "added" THEN AddedInit
       ELSE /\ xrec = [r \in XRecords |->
                  [status |-> IF r \in XEntries THEN "review" ELSE "unused",
                   checked |-> r \in XChildren, orig |-> Suggested]]
            /\ AddedInit
    /\ IF part = "batch" THEN BatchInit
       ELSE /\ entries = [e \in WaitingEntries |->
                  [status |-> "waiting", touched |-> FALSE, checked |-> FALSE]]
            /\ row = [e \in WaitingEntries |-> "none"]
            /\ BatchInit

DeskNext ==
    /\ UNCHANGED part
    /\ \/ /\ part = "added" /\ AddedNext
          /\ UNCHANGED <<recoveryVars, paperVars, batchVars, poolVars>>
       \/ /\ part = "submission" /\ SubmissionNext
          /\ UNCHANGED <<addedVars, paperVars, batchVars, poolVars>>
       \/ /\ part = "paper" /\ PaperNext
          /\ UNCHANGED <<addedVars, recoveryVars, batchVars, poolVars>>
       \/ /\ part = "batch" /\ BatchNext
          /\ UNCHANGED <<addedVars, recoveryVars, paperVars, poolVars>>
       \/ /\ part = "pool" /\ PoolNext
          /\ UNCHANGED <<addedVars, recoveryVars, paperVars, batchVars>>

DeskSpec ==
    DeskInit /\ [][DeskNext]_<<part, addedVars, recoveryVars, paperVars,
                               batchVars, poolVars>>

\* The type invariants of the parts, with what their rows promise one another: one
\* seat of a record per validator, one published entry per identity, and connections
\* of one thread each.
DeskInvariant ==
    /\ part = "added" => AddedTypeOK
    /\ part = "submission" => SubmissionTypeOK
    /\ part = "paper" => PaperTypeOK /\ OneSeatEach
    /\ part = "batch" => BatchTypeOK /\ ValidatedIsPublished
    /\ part = "pool" => PoolTypeOK /\ PoolIsSound
=============================================================================
