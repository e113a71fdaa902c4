-------------------------- MODULE JudgementRequest --------------------------
(***************************************************************************)
(* What the browser can send to /api/judge (_buildJudgePayload in          *)
(* docs/app.js), what the server refuses with a 400, and what it stores    *)
(* (judge, _validated_outcome_request, _same_outcome_as_agreement and      *)
(* _no_outcome_request in app.py).                                         *)
(*                                                                         *)
(* rec is the record at the moment of the submission, shown the outcome    *)
(* the page displayed: a nightly import can have changed the record in     *)
(* between.  The joined "computation, robustness" correction of older      *)
(* pages is left out.                                                      *)
(***************************************************************************)
EXTENDS ConsensusEngine

Requests == [
    type_check            : Checks,
    corrected_type        : OrNone(Types \cup {"not_validation"}),
    original_check        : Checks,
    corrected_doi_o       : OrNone(Dois),
    corrected_title_o     : OrNone(Titles),
    outcome_check         : Checks \cup {NO_OUTCOME},
    corrected_outcome     : OrNone(Outcomes),
    corrected_computation : OrNone(Computations),
    corrected_robustness  : OrNone(Robustnesses),
    corrected_other       : OrNone(Others),
    was_unsure_original   : BOOLEAN,
    was_unsure_outcome    : BOOLEAN,
    quote_not_in_abstract : BOOLEAN,
    shown_outcome         : OrNone(Outcomes) ]

\* The three answers of the page.  pageType is the type it displayed.  Another
\* original, by DOI or by title or by both, goes with "wrong" only: any other
\* answer clears the two fields.
Judgements ==
    LET answers == [
            type     : Types \cup {"not_validation"},
            original : {"correct", "wrong", "unsure"},
            doi_o    : OrNone(Dois),
            title_o  : OrNone(Titles),
            outcome  : {"correct", "incorrect", "unsure"},
            value    : OrNone(Outcomes),
            axes     : OrNone(Computations) \X OrNone(Robustnesses),
            other    : OrNone(Others),
            quoteOff : BOOLEAN ]
    IN  {j \in answers :
            j.original # "wrong" => j.doi_o = None /\ j.title_o = None}

NoReplacement(j) ==
    /\ j.type # "not_validation"
    /\ j.original = "wrong"
    /\ j.doi_o = None
    /\ j.title_o = None

JudgePayload(j, pageType, shown) ==
    LET neither == j.type = "not_validation"
        judged  == ~neither /\ ~NoReplacement(j)
    IN [type_check     |-> IF j.type = pageType THEN "correct" ELSE "incorrect",
        corrected_type |-> IF j.type = pageType THEN None ELSE j.type,
        original_check |-> IF ~neither /\ j.original = "correct"
                           THEN "correct" ELSE "incorrect",
        corrected_doi_o   |-> j.doi_o,
        corrected_title_o |-> j.title_o,
        outcome_check  |-> IF neither THEN "incorrect"
                           ELSE IF ~judged THEN NO_OUTCOME
                           ELSE IF j.outcome = "correct" THEN "correct"
                           ELSE "incorrect",
        corrected_outcome     |-> IF judged THEN j.value ELSE None,
        corrected_computation |-> IF judged THEN j.axes[1] ELSE None,
        corrected_robustness  |-> IF judged THEN j.axes[2] ELSE None,
        corrected_other       |-> j.other,
        was_unsure_original   |-> ~neither /\ j.original = "unsure",
        was_unsure_outcome    |-> judged /\ j.outcome = "unsure",
        quote_not_in_abstract |-> judged /\ j.quoteOff,
        shown_outcome |-> IF judged /\ j.type = "replication" THEN shown ELSE None]

-----------------------------------------------------------------------------
UnsureWithoutCorrection(req) ==
    /\ req.outcome_check = "incorrect"
    /\ req.corrected_outcome = None
    /\ req.was_unsure_outcome

\* Mutant of MeansAgreement: what was on the page is not compared.
MutAgreementWithoutShown(req, rec) ==
    /\ req.type_check = "correct"
    /\ req.outcome_check = "incorrect"
    /\ rec.type = "replication"
    /\ req.corrected_outcome # None
    /\ req.corrected_outcome = rec.outcome

\* "Mischaracterised" plus the outcome the record has, and the page showed.
MeansAgreement(req, rec) ==
    /\ req.type_check = "correct"
    /\ req.outcome_check = "incorrect"
    /\ rec.type = "replication"
    /\ req.corrected_outcome # None
    /\ req.corrected_outcome = req.shown_outcome
    /\ req.shown_outcome = rec.outcome

AsAgreement(req, rec) ==
    IF MeansAgreement(req, rec)
    THEN [req EXCEPT !.outcome_check = "correct", !.corrected_outcome = None]
    ELSE req

TargetType(req, rec) ==
    IF req.type_check = "incorrect" THEN req.corrected_type ELSE rec.type

\* The outcome a replication judgement stands for.  A changed type, or an
\* outcome called wrong, gets no fallback to the extracted value.
TargetOutcome(req, rec) ==
    IF \/ TargetType(req, rec) # rec.type
       \/ req.outcome_check = "incorrect" /\ ~UnsureWithoutCorrection(req)
    THEN req.corrected_outcome
    ELSE First(First(req.corrected_outcome, rec.outcome),
               IF UnsureWithoutCorrection(req) THEN Undetermined ELSE None)

TargetAxes(req, rec) == <<First(req.corrected_computation, rec.computation),
                          First(req.corrected_robustness, rec.robustness)>>

-----------------------------------------------------------------------------
NoOutcomeAccepted(req) ==
    /\ req.original_check = "incorrect"
    /\ ~req.was_unsure_original
    /\ req.corrected_doi_o = None
    /\ req.corrected_title_o = None
    /\ req.type_check = "incorrect" => req.corrected_type \in Types

OutcomeAccepted(req, rec) ==
    /\ req.type_check = "incorrect" <=> req.corrected_type # None
    /\ CASE TargetType(req, rec) = "not_validation" -> TRUE
         [] TargetType(req, rec) = "reproduction" ->
                /\ TargetAxes(req, rec)[1] # None
                /\ TargetAxes(req, rec)[2] # None
                /\ req.corrected_outcome \in {None, Undetermined}
         [] OTHER ->
                /\ req.corrected_computation = None
                /\ req.corrected_robustness = None
                /\ TargetOutcome(req, rec) # None

Accepted(req, rec) ==
    IF req.outcome_check = NO_OUTCOME THEN NoOutcomeAccepted(req)
    ELSE OutcomeAccepted(AsAgreement(req, rec), rec)

-----------------------------------------------------------------------------
\* The columns judge writes for an accepted request.
StoredOutcome(req, rec) ==
    IF /\ req.outcome_check # NO_OUTCOME
       /\ TargetType(req, rec) = "replication"
       /\ \/ req.corrected_outcome # None
          \/ TargetType(req, rec) # rec.type
          \/ req.outcome_check = "incorrect" /\ ~UnsureWithoutCorrection(req)
    THEN TargetOutcome(req, rec)
    ELSE None

StoredAxes(req, rec) ==
    IF /\ req.outcome_check # NO_OUTCOME
       /\ TargetType(req, rec) = "reproduction"
    THEN TargetAxes(req, rec)
    ELSE <<None, None>>

StoredAnswer(request, rec) ==
    LET req == AsAgreement(request, rec)
    IN [type_check            |-> req.type_check,
        original_check        |-> req.original_check,
        outcome_check         |-> req.outcome_check,
        corrected_type        |-> IF req.type_check = "incorrect"
                                  THEN TargetType(req, rec) ELSE None,
        corrected_doi_o       |-> req.corrected_doi_o,
        corrected_title_o     |-> req.corrected_title_o,
        corrected_outcome     |-> StoredOutcome(req, rec),
        corrected_computation |-> StoredAxes(req, rec)[1],
        corrected_robustness  |-> StoredAxes(req, rec)[2],
        corrected_other       |-> req.corrected_other,
        was_unsure_original   |-> req.was_unsure_original,
        was_unsure_outcome    |-> req.was_unsure_outcome,
        quote_not_in_abstract |-> req.quote_not_in_abstract,
        senior_reject         |-> FALSE]

\* senior_reject fills a slot with this, whatever its holder was doing.
SeniorReject ==
    [type_check |-> "incorrect", original_check |-> "incorrect",
     outcome_check |-> "incorrect", corrected_type |-> "not_validation",
     corrected_doi_o |-> None, corrected_title_o |-> None,
     corrected_outcome |-> None, corrected_computation |-> None,
     corrected_robustness |-> None, corrected_other |-> None,
     was_unsure_original |-> FALSE, was_unsure_outcome |-> FALSE,
     quote_not_in_abstract |-> FALSE, senior_reject |-> TRUE]
=============================================================================
