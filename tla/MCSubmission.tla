---------------------------- MODULE MCSubmission ----------------------------
(***************************************************************************)
(* An instance of SubmissionRecovery: two submissions of one validator.    *)
(***************************************************************************)
EXTENDS SubmissionRecovery

CONSTANTS ana, first, second

MCWriterOf == [s \in Submissions |-> ana]
=============================================================================
