------------------------ MODULE MCValidationWorkflow ------------------------
(***************************************************************************)
(* Bounded instances of ValidationWorkflow.  One extraction is shipped     *)
(* first, another codes a different original at the same work and rank,    *)
(* a third the first original with another outcome.                        *)
(***************************************************************************)
EXTENDS ValidationWorkflow, TLC

CONSTANTS r1, r2, ana, ben, sam, alex

MCOutcomes     == {"successful", "failed", "cannot_be_determined"}
MCUnknown      == {"cannot_be_determined"}
MCOriginal(d)  == [type |-> "replication", outcome |-> "successful",
                   computation |-> None, robustness |-> None,
                   doi_o |-> d, title_o |-> "title"]
MCSame         == [r \in Records |-> MCOriginal("doi_a")]
MCTwoOriginals == {MCOriginal("doi_a"), MCOriginal("doi_b")}
MCRecoded      == {[MCOriginal("doi_a") EXCEPT !.outcome = "failed"]}
MCShippedAll   == MCTwoOriginals \cup MCRecoded
MCUnlinked     == [a \in Admins |-> None]
MCLinkedToSam  == [a \in Admins |-> sam]

MCAgree == [type_check |-> "correct", original_check |-> "correct",
            outcome_check |-> "correct", corrected_type |-> None,
            corrected_doi_o |-> None, corrected_title_o |-> None,
            corrected_outcome |-> None, corrected_computation |-> None,
            corrected_robustness |-> None, corrected_other |-> None,
            was_unsure_original |-> FALSE, was_unsure_outcome |-> FALSE,
            quote_not_in_abstract |-> FALSE, senior_reject |-> FALSE]
MCNeither == [MCAgree EXCEPT !.type_check = "incorrect", !.original_check = "incorrect",
                  !.outcome_check = "incorrect", !.corrected_type = "not_validation"]
MCWrongOriginal == [MCAgree EXCEPT !.original_check = "incorrect", !.outcome_check = NO_OUTCOME]
MCOtherOutcome == [MCAgree EXCEPT !.outcome_check = "incorrect", !.corrected_outcome = "failed"]
MCUnsure == [MCAgree EXCEPT !.outcome_check = "incorrect", !.was_unsure_outcome = TRUE]

MCAnswersAll       == {MCAgree, MCNeither, MCOtherOutcome, MCUnsure}
MCAnswersRemoval   == {MCAgree, MCWrongOriginal, MCNeither}
MCAnswersAgree     == {MCAgree}

MCAiAgrees == [error |-> FALSE, type_check |-> "correct", original_check |-> "correct",
               outcome_check |-> "correct"]
MCAiNeither == [error |-> FALSE, type_check |-> "incorrect",
                original_check |-> "incorrect", outcome_check |-> "incorrect"]
MCAiFails == [MCAiAgrees EXCEPT !.error = TRUE]
MCAiAll == {MCAiAgrees, MCAiNeither, MCAiFails}
MCAiPlain == {MCAiAgrees, MCAiNeither}
MCAiClean == {MCAiAgrees}

MCOtherIdentity == {<<"doi_b", "title">>}
=============================================================================
